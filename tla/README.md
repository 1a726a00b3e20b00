# TLA+ models of T3

T3 keeps Bitcoin's unspent outputs in an ORAM inside an SGX enclave, so that a
client can ask for the outputs of a key without the host learning which key. This
directory holds TLA+ modules for the parts that carry that logic, TLC configurations
that check them on small instances, and TLAPS proofs of some of their properties.
`PROJECT.json` maps each definition to the lines it translates and lists components,
runs, hazards, theorems and findings.

    tlc -config PathORAM_store.cfg MCPathORAM.tla
    tlapm PathORAM_proofs.tla           (and each other *_proofs.tla)

## 1. Inventory

Paths are relative to `src/btc-module`. A client request travels

    Main.cpp -> App.cpp (ZT_*) -> ecall -> ZT_Enclave.cpp -> PathORAM / CircuitORAM
                                                |                  |
                                        vectorToORAM, reducer      +-> ORAMTree, Stash, Bucket
                                                                   +-> ocall -> App.cpp -> LocalStorage

and everything below `Main.cpp` is one synchronous call: the enclave finishes a
request before the host can send another, and an ocall returns before the enclave
goes on. The driver creates one instance for each thread asked for on its command line,
but the threads themselves are commented out: every call comes from one thread, and
every request goes to instance 0.

| Component | State | Operations | What makes it correct |
|---|---|---|---|
| Path ORAM controller (`ZT_Enclave/PathORAM_Enclave.cpp`) | position map, `level`/`leaf`/`newleaf` of the recursion, one `decrypted_path` buffer | `Access_temp`, `access`, `access_optimized`, `PathORAM_Access`, `PathORAM_Access_Read`, `PathORAM_RebuildPath` | a read answers the last write; each block is in one place and on the path of its label; 'z' leaves no trace |
| ORAM tree (`ORAMTree.cpp`) | trees (in untrusted memory), Merkle roots, sizes per level | `SetParams`, `BuildTreeRecursive`, `ReadBucketsFromPath`, `PushBlocksFromPathIntoStash*`, `OAssignNewLabelToBlock*`, `verifyPath`, `CreateNewPathHash` | blocks go to the stash and nowhere else; hashes follow the tree |
| Stash (`Stash.cpp`) | a list of slots per level, each with `discard_block` | `setup`, `pass_insert`, `clear`, `stashOccupancy`, `Perform*AccessOperation` | no block is lost or duplicated; flags do not outlive a request |
| Block, Bucket | bytes | serialise, encrypt in place | a block decrypts to what was written |
| Enclave interface (`ZT_Enclave.cpp`) | instances, `isLSinit` | `createNewORAMInstance`, `accessInterface`, `sendRawTxList`, `vectorToORAM`, `verifyBlock`, `verifyMerkleRoot` | the ORAM holds the unspent outputs; none is overwritten; none survives its spending; the Merkle root is that of the transactions |
| Reducer (`reducer/reducer.cpp`) | offset in a transaction; `vin`, `vout`, and the global `temp_segWitVin` | `reducer`, `getTxInputs`, `getSegWitTxInputs`, `getSegWitP2PKH`, `getTxOutputs` | inputs and outputs are those of the transaction |
| Circuit ORAM (`CircuitORAM_Enclave.cpp`) | as Path ORAM, plus `deepest`/`target` arrays and the last fetched block | `CircuitORAM_FetchBlock`, `prepare_deepest`, `prepare_target`, `EvictOnceFast`, `EvictionRoutine` | as Path ORAM; an eviction plans each move so that it can be carried out |
| Untrusted storage (`ZT_Untrusted/LocalStorage.cpp`) | arrays of buckets and hashes per level | `setParams`, `uploadPath`, `downloadPath`, `uploadObject`, `fetchHash`, ... | a bucket reads as last written; distinct buckets have distinct addresses; hashes follow buckets |
| Untrusted application (`App.cpp`) | one `ls` for all instances | ocalls, `ZT_initLocalStorage`, `ZT_New`, `computeRecursionLevels` | application, storage and enclave agree about the sizes |
| Driver (`btc_Untrusted/Main.cpp`) | - | `getTxList`, benchmark loops | the enclave can split the buffer it is sent |
| Tests, scripts, vendored code | - | - | not part of the protocol |

`App.cpp` and the controllers also hold a second way to reach the storage, a thread that
spins on a request slot (`EXITLESS_MODE`). The macro is commented out everywhere and
`initialize_oram`, which that build calls, is commented out of `Enclave.edl`, so
that build does not exist.

**What is hard.** There is little concurrency in the default build. The hazards are
long sequences of legal steps over several stores: a label moves through three levels
and is used one access later; a block is in the old tree, the path and the stash at
once while a path is rebuilt; 'z' and 'w' requests share stashes whose flags must be
reset in between; an eviction plans a whole path in one pass and carries it out in
another, with one block in its hands; a full stash or block drops what it is given
without a sign; an uninitialised field is part of the state; a read-modify-write of
a block must neither hide nor revive an output; sizes and addresses are worked out three
times, in two widths; and a parser that loses its place by one byte misreads the rest.
`PROJECT.json` lists 36 hazards with their lines; those no property covers say why.

## 2. Modules

    ORAMTree --- PathORAM --- MCPathORAM
       |            :  implements
       |         BlockStore --- UtxoSet --- MCUtxoSet
       |            :      |
       |            : LossyBlockStore
       +-------- CircuitORAM --- MCCircuitORAM
    Storage --- MCStorage          Reducer --- MCReducer

    PathORAM, ORAMTree_proofs --- PathORAM_proofs --- PathORAMStore_proofs
    UtxoSet --- UtxoSet_proofs
    Storage --- Storage_proofs --- StorageHashes_proofs
    Reducer --- Reducer_proofs
    CircuitORAM, ORAMTree_proofs --- CircuitORAM_proofs

### ORAMTree

What both controllers inherit: the parameters, the nodes of a path (`ShiftBy`), blocks,
the dummy block, and the trees as `BuildTreeRecursive` leaves them. It has no variables.

### PathORAM

The recursive controller with its stashes and trees, oblivious mode
(`oblivious_flag = 1`), with the macro `OPTIMIZED` set and `EXITLESS` not.

| Variable | In the code |
|---|---|
| `posmap` | `posmap`, the labels of level 1 |
| `tree` | the buckets of each level in `LocalStorage`, decrypted; node numbers are the code's `leaf + N`, halved upwards |
| `stash`, `discard_block` | the `nodev2` list of each level, as a function of the list position |
| `path`, `bucket`, `posk` | `decrypted_path` and the loop state of `PathORAM_RebuildPath` |
| `req`, `ids`, `level`, `leaf`, `newleaf`, `nextLeaf`, `newleaf_nextlevel`, `data_out` | parameters and locals of the recursive `access` calls |
| `stash_oc_before` | the global of that name |
| `phase` | the program counter |
| `dropped` | history variable: blocks that met a full stash |

| Action | In the code |
|---|---|
| `Access_temp` | the entry of a request |
| `Descend`, `LookupPosmap` | the recursion of `access` down to level 0, and `oarray_search` there |
| `ReadBucketsFromPath` | download and decryption of a path |
| `pass_insert`, `pass_insert_full` | one block of the path goes to the stash, or is lost |
| `OAssignNewLabelToBlock`, `PerformAccessOperation` | the scan of the stash, on a position-map level and on the last one |
| `...Optimized` | the same for 'z', which changes nothing |
| `MoveToBucket`, `NextBucket` | one step of `PathORAM_RebuildPath` |
| `uploadPath` | write-back, and return to the next level |
| `clear`, `ReturnOptimized` | the end of a 'z': flagged slots emptied, occupancies asserted |

Fresh labels are any leaf (`sgx_read_rand`). The label for the next level is drawn where
it is first used, although `access` draws it before it reads the path: nothing reads
it in between. A dummy slot is one value, because every reader tests the id first. A
bucket that nobody wrote decrypts to an id that is not the dummy id, and a label outside
the tree (`Junk`).

### BlockStore

What the controller promises `accessORAM`'s callers: an array of blocks, one request
at a time, every request answered. `PathORAM!ImplementsBlockStore` is the refinement:
`mem[b]` is the content of the single copy of block `b`, wherever it is, and a request
is served at the scan of the last level's stash.

### LossyBlockStore

What remains of the promise when a stash overflows, which it does without a sign: the
store may forget, but it does not answer wrongly. `PathORAM!NeverAnswersWrong` is the
refinement, with one more variable.

| Variable or action | In the controller |
|---|---|
| `mem[b]` | as for `BlockStore`, and no content if `b` was dropped |
| `lost` | the data blocks that were dropped, or whose label was in a dropped block (`Lost`) |
| `Lose` | a block of the path meets a full stash: a data block loses its content, a block of labels makes others `lost` |
| `Miss` | the scan of the stash finds nothing: `data_out` stays as it is, nothing is written |
| `WriteFinds` | a write that finds its block; one that was dropped is never written again |

An 'r' or 'w' finds a block that is not lost. A 'z' may miss any block: its copies
are the first to find no room, although nothing is lost then.

### UtxoSet

The maintenance of the outputs, composed with `BlockStore`, whose actions serve its
reads and writes. It does not rest on a controller in particular.

| Variable | In the code |
|---|---|
| `mem`, `status`, `request`, `out` | the ORAM (`BlockStore`) |
| `phase` | where `sendRawTxList` or `accessInterface` is |
| `vout`, `vin` | the vectors the reducer filled, less what is done |
| `block` | `data_out`, the block being edited |
| `created`, `spent` | the chain: the environment |
| `skipped` | history: outputs for which the scan found no slot |

One item of a list is `ReadBlock` ('z'), `EditBlock`, `WriteBlock` ('w'), `ItemDone`,
with `Serve` for the ORAM. A slot's content is a value with a key (`pkh`), and a key has
a block (`getIdFromPkh`, an arbitrary function: a hash); the bytes of zeros and what the
build left in a slot have keys too, because the code hashes them. The chain
gives valid lists: an output is created once, spent at most once and not before it
exists, possibly in the list that creates it. That excludes a driver that sends a list
twice or undoes one; see the hazards.

### CircuitORAM

The other controller, in the same configuration, and like it a client of `ORAMTree`.

| Variable | In the code |
|---|---|
| `posmap`, `tree`, `stash`, `discard_block`, `req`, `ids`, `level`, `leaf`, `newleaf`, `newleaf_nextlevel`, `data_out` | as in `PathORAM` |
| `serialized_result_block` | the member of that name, which a fetch that finds nothing leaves as it was |
| `return_value` | the label `access` returns to the next level |
| `side`, `evicted`, `eviction_path` | the state of `EvictionRoutine`: two paths, one after the other |
| `deepest`, `deepest_position`, `target`, `target_position` | the arrays of the plan |
| `requests`, `written` | a bound, and a history variable: what reads should give |

| Action | In the code |
|---|---|
| `Access_temp`, `Descend`, `LookupPosmap` | as in `PathORAM`; `oarray_search2` replaces the label whatever the request |
| `FetchEntry`, `FetchData` | `CircuitORAM_FetchBlock`, on a position-map level and on the last one: the block leaves the path, is relabelled, and enters the stash; only a 'w' uploads the path |
| `prepare_deepest`, `prepare_target` | the two passes over stash and path, as recursive functions over the positions in the code's order |
| `EvictOnceFast` | the pass that moves blocks, and the upload of the path |
| `clear` | the end of a 'z' at a level |
| `NextLevel`, `Return` | `access` returning; a label that is no leaf of the next tree sends it outside the storage (`crashed`) |

A block whose bytes are of the wrong level is kept as such: labels written over the bytes
of a data block, and bytes read as labels, which may be any leaf of the next tree or none.
The path hashes are left out; `Storage` has those of Path ORAM.

### Storage

The storage as memory, with the code that builds and uses it on both sides of the
boundary. One behaviour is one set of arguments (`cfg`).

| Variable | In the code |
|---|---|
| `cfg` | the arguments of `ZT_initLocalStorage` and `ZT_New`, the memory the enclave has for a position map, and `isLSinit` |
| `inmem_tree_l`, `inmem_hash_l` | the arrays of `LocalStorage`, byte by byte, hash by hash |
| `recursion_levels`, `D_level`, `N_level`, `merkle_root_hash_level` | of `ORAMTree` |
| `fetched_path_array`, `path_hash`, `encrypted_path`, `new_path_hash` | the buffers, one size for all levels |
| `level`, `next`, `op`, `leaf`, `phase` | where the build or an access is |
| `failed` | the comparisons of `verifyPath` that come out false |
| `accesses`, `overrun`, `last` | a bound, and history: was memory overrun, when was each bucket written |

| Action | In the code |
|---|---|
| `ZT_initLocalStorage` | `computeRecursionLevels` and `LocalStorage::setParams`, with the sizes these work out |
| `ZT_New` | `createNewORAMInstance` and `ORAMTree::SetParams`, with the sizes those work out |
| `BuildTreeRecursive` | one bucket: `uploadObject` and its hash |
| `Access`, `downloadPath`, `verifyPath`, `AccessRead`, `CreateNewPathHash`, `uploadPath` | an access at each level, leaf chosen freely |

A byte is the tuple of the level and bucket it was written for, the access that wrote it
and its place in the bucket, so that an address that is off by anything shows; a hash is
the tuple of what was hashed. What is allocated and not written is `junk`. Offsets of paths
are reduced modulo `2^W` where the code computes them in 32 bits, and those of objects
are not.

### Reducer

From the client's buffer to the lists `UtxoSet` works on, byte by byte.

| Variable | In the code |
|---|---|
| `block` | the transactions, by their fields: the environment |
| `listTxs` | the vector of that name: the bytes and hash of each |
| `txHashes`, `len` | the array and argument of `verifyMerkleRoot` |
| `i`, `offset`, `j`, `count`, `isSegWit`, `tx_vin_size` | locals of `reducer` and the functions it calls |
| `temp_segWitVin`, `vin`, `vout` | the vectors of those names |
| `beyond` | what a read outside a buffer gives, one value for a behaviour |
| `before` | history: where the current transaction's share of `vin` and `vout` starts |

| Action | In the code |
|---|---|
| `sendRawTxList` | the split of the buffer `getTxList` made, one transaction |
| `verifyBlock`, `verifyMerkleRoot`, `BlockVerified` | the copy of the hashes, one level of the recursion, its end |
| `reducer`, `InputsDone`, `OutputsDone`, `WitnessesDone`, `NextTx` | the outer loop and the heads and ends of the inner ones |
| `getTxInputs`, `getSegWitTxInputs`, `getTxOutputs`, `getSegWitP2PKH` | one turn of each inner loop |

The bytes are those of Bitcoin's format, since most of what can go wrong is an offset.
Hash functions are injective: an id is a number, a hash of hashes a pair. The loop that
skips a witness item starts at an uninitialised counter and adds to the offset an
expression that increments it: `Skipped` is every offset up to that many turns, with
either order, can leave.

### MCPathORAM, MCUtxoSet, MCCircuitORAM, MCStorage, MCReducer

Instances for TLC.

### The `_proofs` modules

| Module | About |
|---|---|
| `ORAMTree_proofs` | what `SetParams` and `BuildTreeRecursive` leave: the nodes of a path are distinct, every block is dealt to one leaf, ids have entries |
| `PathORAM_proofs` | types, paths, 'z' requests, and where the copies of a block are |
| `PathORAMStore_proofs` | labels, what is found, the refinements of `BlockStore` and `LossyBlockStore` |
| `UtxoSet_proofs` | the list of unspent outputs |
| `Storage_proofs` | sizes and addresses |
| `StorageHashes_proofs` | the hash tree |
| `CircuitORAM_proofs` | the plan of an eviction, carrying it out, types and paths |
| `Reducer_proofs` | the split of the buffer, the Merkle root, the parse of a transaction |

## 3. What TLC checks

### Path ORAM

Two trees (level 1 holds labels, level 2 data), two labels to a block, three data
blocks. This is the smallest recursion in which a label is read from a block, one block
of labels serves two data blocks, and another serves one.

| Run | Instance | Shows | States |
|---|---|---|---|
| `store` | Z = 2, stash of 3, two contents, depths 0 and 1, clients ask for two blocks that share no labels | `TypeOK`, `OnPath`, `NothingDropped`, `ReadOnly`, `ImplementsBlockStore` | 17 797 |
| `smallstash` | Z = 1, stash of 1, two contents, depths 1 and 2, clients ask for two blocks that share labels | `OneCopy`, `LabelsMatch`, `RequestedBlockInStash`, `FlagsCleared`, `StashOccupancyRestored`, `NeverAnswersWrong` | 536 171 |
| `overflow` | as `smallstash`, one content | a violation of `NothingDropped` | |
| `flags` | as `store`, one content, requests for all three blocks, arbitrary initial flags | a violation of `StashOccupancyRestored` | |
| `firstinstance` | as `store`, one content, upper buckets not built | a violation of `ReadAnswered` | |

`store` is the regime in which nothing can overflow, since the stash takes a whole tree; it
shows that a read then answers the last write. A deployment is not in it: `exec.sh` has
2^20 blocks and a stash of 100, less than the 150 its comment calls typically sufficient, and
the first instance, which serves all requests, has upper buckets that were never built. A
stash so much smaller than the tree may overflow in the model; how improbable that is is
beyond it. What holds whatever the stash drops is the subject of `smallstash`, where it
overflows all the time: the losses
are exactly the drops, no other block vanishes, none is duplicated, a 'z' request still
restores the stashes, and a read gives what was last written or nothing, never another content. Its two
block ids, two contents and depth 2 give every move of a block between root, inner bucket
and leaf, partly filled buckets and full ones. Section 4 proves the same for every size of
stash, and the array for every behaviour in which the stash happens to have room.

* `OnPath`: a block in a tree lies on the path of its label.
* `LabelsMatch`: a block carries the label recorded for it one level down; during an
  access, the label about to be recorded. The blocks `Lost` are left out: those dropped, and
  those whose label was in a dropped block, however many levels down. An earlier version left
  out only the first level of these. Two trees do not show the difference, but the proof
  failed, and a run with three trees gave the behaviour.
* `OneCopy`: a block has one place in tree, path and stash together, or none if it was
  dropped. Buckets whose path is being rebuilt, and flagged slots, do not count.
* `RequestedBlockInStash`: when the stash is scanned for a block, it is there, unless it
  or a block that leads to it was dropped.
* `ReadOnly`: no step of a 'z' request writes the position map, a tree or an unflagged
  slot.
* `FlagsCleared`, `StashOccupancyRestored`: 'z' leaves the stashes as it found them; the
  second is the code's own assertion.
* `ImplementsBlockStore`: reads answer the last write, and every request is answered.
* `NeverAnswersWrong`: the same but for what was lost, and without the promise of an answer.

**Fairness** is `WF_vars(Step)`: the enclave does not stop in the middle of a request,
because its loops are bounded and its ocalls return. Requests need not come.

**Not bounded**: nothing in `PathORAM` counts without limit, so no state constraint is
used; the parameters above are the only bounds.

### UtxoSet

| Run | Instance | Shows | States |
|---|---|---|---|
| `lists` | two blocks of three slots, six outputs of three keys, lists of at most three items (`MaxItems`) | `TypeOK`, `LookupAnswer`, `SpentRemoved`, `KeptUntilSpent`, `SkippedJustified` | 1 520 732 |
| `zeros` | two outputs of the key that shares its block with zeros, lists of one item | a violation of `ZerosUsed` | |

Two keys share block 0; one has three outputs, so the cap of two and a full block are
both met; one output is a coinbase's, which is never stored; the slots of block 1 hold
bytes that look empty and bytes that do not. Three items allow an output created, stored
and spent in one list beside another one.

* `LookupAnswer`: a lookup shows, of the keys of its block, exactly the unspent outputs
  that were not skipped.
* `SpentRemoved`: after a list no spent output is left. It needs the order of the two
  passes: `vout` before `vin`.
* `KeptUntilSpent`: a stored output stays until the chain spends it.
* `SkippedJustified`: an output is skipped only if two of its key are stored, or every
  slot of its block looks taken. The converse does not hold: after holes, a key
  can get a third output, because the scan counts only the slots it has passed.

### CircuitORAM

| Run | Instance | Shows | States |
|---|---|---|---|
| `circuit` | three requests for two blocks whose labels are in different blocks, two contents | `TypeOK`, `OnPath`, `DeepestRight`, `EvictionKeeps` | 1 885 213 |
| `circuit_reads` | five requests for one block | a violation of `ReadsConsistent` | |

Both have two trees of depths 1 and 2, two labels to a block, three data blocks, one slot
to a bucket and a stash of 2. With one slot, a bucket that holds a block is never the
destination of a move (`Wanted` asks for a slot that is empty beforehand): a bucket that
gives one block and takes another needs two slots, which the proofs cover. Each request of
three may be 'r', 'z' or 'w', and each 'w' evicts along two paths of each tree. The number
of requests (`MaxRequests`) bounds the behaviours; where it is reached the model stops, so
deadlock is not checked.

* `DeepestRight`: what the comment above `prepare_deepest` says of its one pass, against a
  definition that looks at every earlier slot.
* `EvictionKeeps`: carrying the plan out neither loses nor duplicates a block: no
  bucket is written over, nothing stays in hand.
* `TypeOK`: besides the kinds, every planned move has a slot to leave and a free slot to
  come to, and goes down.
* `OnPath`: as in `PathORAM`, and even for the copies that `circuit_reads` is about.

`circuit_reads` asks whether a read gives what the last write left. It does not: see the
findings. There is no fairness and no liveness in this module.

### Storage

| Run | Instance | Shows | States |
|---|---|---|---|
| `storage` | seven configurations, `W` = 7, two accesses | `TypeOK`, `NoOverrun`, `MemoryFaithful`, `HashTreeConsistent`, `VerifyAgrees` | 28 355 |

The configurations have two and three levels, full and partly filled trees, a first tree of
one bucket, blocks of the position map smaller than the data and of the same size, a first
instance (upper buckets not built), a data tree beyond `2^W`, and one slot to a bucket. The
accesses are 'w' or 'z' with any leaf at each level, so the second may share all, some or
only the root of the first one's path. Deadlock is not checked because `MaxAccesses`
ends a behaviour.

* `NoOverrun`: every read and write stays in the memory it is for. Premise `Comfortable`:
  two slots to a bucket (with one, the storage allocates fewer bytes than the
  build writes) and blocks of the position map no larger than the data (the buffers are
  sized for the last level).
* `MemoryFaithful`: a bucket reads as last written. Premise `Addressable`: the tree ends
  below `2^W`, above which objects and paths disagree about addresses.
* `HashTreeConsistent`: the hashes of the data level are those of its buckets, up to the
  root the enclave keeps, after any paths were written. `CreateNewPathHash` is given the size
  of the data level's buckets at every level, so the hash trees of the position map are not
  consistent once a path was written there. Nothing notices, as `verifyPath` acts on none of
  its comparisons.
* `VerifyAgrees`: on untouched storage no comparison fails, on the data level
  and on the others until their first write.

### Reducer

| Run | Instance | Shows | States |
|---|---|---|---|
| `reducer` | 121 blocks, `beyond` 0 or 33 | `TypeOK`, `SplitExact`, `MerkleRootExact`, `InputsExact`, `OutputsExact`, `ReadToTheEnd` | 87 723 |
| `spent` | the same blocks | a violation of `SpentOutputsNamed` | |

A block is a coinbase and, in most, one transaction with two inputs and two outputs of each
pair of kinds: P2PKH with keys of 33 and 65 bytes, P2WPKH with both, P2WPKH in P2SH, P2WSH,
multisig with a script of 300 bytes; outputs of 25, 22 and 260 bytes of script. A few
blocks have no other or up to seven transactions, so that the Merkle tree has odd levels and
a transaction is parsed after one that went wrong. One call of `sendRawTxList` is checked,
after which the model stops: deadlock is not checked.

* `SplitExact`: the enclave cuts the client's buffer where the client joined it.
* `MerkleRootExact`: the in-place computation gives the root of the Merkle tree over the
  hashes the enclave computed, although it reads past the list. These are the ids of the
  transactions only as long as none has a witness: for a block with SegWit transactions the root is not
  the one in its header, in line with `src/README.md`, line 45.
* `InputsExact`, `OutputsExact`: what is found is what the transaction has, up to the first
  item the parse cannot follow (an output script of 253 bytes or more, a
  witness that is not P2WPKH's), and the next transaction is not affected.
* `ReadToTheEnd`: a transaction without such an item is read to its lock time.
* `TypeOK`: besides kinds, no input of a transaction waits when the next one begins.

## 4. What is proved

All proofs are for any values of the constants that satisfy the modules' assumptions:
any number of levels, any tree shapes, bucket and stash sizes, any hash, any bound on the
accesses. TLC evaluates the assumptions on every run.

* `ORAMTree`: `LevelsAssumption` and `DataAssumption` (kinds of the parameters; at least two
  trees) and `BuildAssumption`, which is what `SetParams` and `BuildTreeRecursive` compute:
  the block that holds a label exists, a tree of depth `D` has `2^D` leaves, and the leaf
  buckets have room for the blocks. That every block is dealt to a leaf, once, follows.
* `UtxoSet`: `UtxoAssumption` (kinds, and that an output is not one of the build's leftovers).
* `Storage`: `ConfigAssumption` (kinds; two to 255 labels to a block, since
  `computeRecursionLevels` counts them in a `uint8_t`; one label fits in the enclave's memory
  and all labels together do not, else there would be no tree).
* `CircuitORAM`: `EvictionAssumption` (a data content is not a table of labels; no tree has
  depth 0, as `EvictionRoutine` takes a remainder by half the leaves; the bound on the
  requests is a number), besides those of `ORAMTree`.
* `Reducer`: `BlocksAssumption`: blocks have the form of Bitcoin's and at least one
  transaction, the bytes of a transaction fit an `int` (Bitcoin's fit in 4 MB), and the
  transactions behind the coinbase are `WellFormed`: they have an input, only SegWit ones
  have witnesses, and an input or output is said to be P2PKH or P2WPKH when it looks like one.
  The enclave knows a kind by lengths and first bytes alone, and what it makes of another
  script of the same looks is not counted against it.
* `PowerAssumption`, in `ORAMTree` and `Storage`: `2^0 = 1`, `2^(i+1) = 2 * 2^i` and so on, for the exponents that
  occur. These are facts and restrict nothing, but the provers know no powers.

A theorem whose statement begins "if" has that as its hypothesis.

### Path ORAM

| Theorem | Statement | Argument |
|---|---|---|
| `TypeCorrect` | `TypeOK` | `TypeOK` is inductive: it says which locals are meaningful in which phase |
| `BlocksOnPath` | `OnPath` | `OnPath` alone is not inductive: the path being rebuilt becomes part of the tree. `OnPathInv` adds `PathFits`: what was moved into bucket `i` belongs there. It holds even when the stash drops blocks or the upper buckets were never built |
| `FlagsAreCleared` | `FlagsCleared`, if all flags start false | `FlagsInv`: outside a 'z' request no flag is set |
| `ReadsAreReadOnly` | `ReadOnly` | per action, from `TypeOK`: `pass_insert` fills only dummy slots and flags them, so `Kept` is the same function |
| `OccupancyIsRestored` | `StashOccupancyRestored`, if all flags start false | `OccupancyInv`: during a 'z' request nothing is flagged in a stash it has not read yet, so what it notes there is `Kept`, which no step of it changes (`StepReadOnly`); at the assertion every level has been read and no flag is set |
| `EveryBlockOnce` | `OneCopy`, if all flags start false | `CopyInv`, below |
| `RecordsMatch` | `LabelsMatch`, if all flags start false | `LabelInv`: `CopyInv`, `OnPathInv` and `LabelsMatch` |
| `RequestedBlockFound` | `RequestedBlockInStash`, if all flags start false | in a state of `LabelInv` the block is on the path of its label, which is the path that was read, and that path has been emptied |
| `AnswersLikeAnArray` | the steps of `BlockStore`, if all flags start false and the stash always has room | `ServeInv`: `LabelInv`, `OccupancyInv`, nothing dropped, and `PathIsRight` |
| `OverflowLosesButNeverLies` | `NeverAnswersWrong`, if all flags start false; for any size of stash, built upper buckets or not | `LossyInv`: `LabelInv`, `OccupancyInv`, and `ReadsCopies`, below |

`CopyInv` looks at a level as a function from places (a slot in the tree, on the path, in
the stash) to slots. `View` shows what counts as stored, `Work` also what a 'z' request
copied from the path. A step either exchanges the contents of two places, or puts a dummy in
one place and adds the block to `dropped`, or rewrites the requested block where it is, or
changes no view at all (`Moves`). An exchange keeps "no id in two places" and "which ids
are stored", whatever the two places are; so it is shown once, and an action needs only
to name its places. Uploading a path is no move: its buckets count as stored from when they
are read. The distinct nodes of a path are the one fact on arithmetic it needs.

The refinement maps `mem[b]` to the content of the single copy of `b`, which `CopyInv` says
there is, and serves the request in the step that scans the last stash; `RequestedBlockFound`
says that the block is there. That the stash has room is stated as `[]RoomInStash`, a
condition on the behaviour and not on the constants, since run `overflow` shows that it may fail.

`OverflowLosesButNeverLies` has no such condition. Its invariant adds `ReadsCopies`: what
a 'z' request has on the path or in a flagged slot is the content of a place that counts as
stored. So whatever id a scan finds in the stash comes with the content of the one copy
`CopyInv` allows; and a dropped block, of which there is no copy, is not found. What the junk of a
bucket never built does is fill the stash, and then the theorem says what is left. It takes the
stash for as long as `STASH_SIZE` says, which the code's loop does below 255 (section 6).

The theorems are about the steps; that every request is served in the end, the
other half of `ImplementsBlockStore`, needs fairness and is checked by TLC.

### UTXO maintenance

| Theorem | Statement | Argument |
|---|---|---|
| `UtxoTypeCorrect` | `UtxoSet!TypeOK` | part of `IInv` |
| `OutputsAreKept` | `KeptUntilSpent` | `IInv`: a stored output is in the block of its key (`AtHome`), the inputs left are spent, and the block in the enclave is the stored one, edited (`Editing`). Without `AtHome` an output could look like an empty slot; without `Editing` a write-back could undo an earlier one |
| `SpentOutputsAreRemoved` | `SpentRemoved` | `AInv`, below: after the list nothing is left to be removed |
| `LookupsAreAnswered` | `LookupAnswer` | `AInv`: between lists nothing is left to be added or removed either, and the answer is the stored block |
| `SkipsAreJustified` | `SkippedJustified`, if no leftover content and not zeros has the key of an output | the slots counted up to a free one hold outputs of the key, each in one slot, so two counted slots are two stored outputs |

`AInv` strengthens `IInv` until what the ORAM holds is known at every moment of a list.
`Exact` says that the stored outputs are those of the chain without the coinbase's, the
skipped ones, those of `vout` still to be added, and the spent ones that are not still to
be removed. It is not inductive alone: an input clears one slot, so an output must have
one slot only (`OneSlot`); an item applied must leave its list, so a list names an output
once, and one spent before it is stored is spent by an input of the same list, which is
processed later (`Lists`); and an output must count as skipped just when the edit of the
block leaves it out (`SkipDecided`). The hypothesis of `SkipsAreJustified` is needed: run
`zeros` shows a build in which zeros have the key of an output.

### Storage

| Theorem | Statement | Argument |
|---|---|---|
| `StorageTypeCorrect` | `TypeOK` | part of `Sized` |
| `StorageStaysInside` | `NoOverrun` | `Sized`: what the application allocated is what the enclave's depth and leaf counts ask for, and every address of an action is below it |
| `StorageIsFaithful` | `MemoryFaithful` | `FaithInv`: `Sized`, every bucket built reads as last written (`DoneWritten`), and what waits to be uploaded is the new path (`PathReady`). Distinct buckets are disjoint ranges, so a write disturbs no other |
| `DataTreeStaysHashed` | `HashTreeConsistent` | `HashInv`, below |
| `HonestPathsVerify` | `VerifyAgrees` | `HashInv`, below |

The two sides count in different ways: the application divides until the labels fit and
counts the rounds, the enclave multiplies back up from the last quotient, and each looks for
the least depth that has room. `Sized` says that they come to the same, and that paths and
objects, which compute addresses in different widths, do so too where `Addressable` holds.

`HashInv` adds to `FaithInv` that each bucket of an intact level (the data level; another
one as long as no path was written there) is stored with its own hash over its content and
its children's (`DoneHashed`), that a downloaded path carries these (`Fetched`), that the
hashes made for a new path are those its buckets will have (`NewHashReady`), and that no
comparison failed (`Agreed`). The build makes the hash of a bucket after those of its children;
an upload changes the hashes of one path, and for a node on it one child is on the path and the
other is the sibling whose hash was fetched.

The sizes and the hashes of a path are recursive functions. The prover cannot be given
an induction principle, so these proofs go by least counterexample: the set of indices where
the claim fails, or up to which no such function exists, would have a least element.

### Circuit ORAM

| Theorem | Statement | Argument |
|---|---|---|
| `DeepestIsRight` | `DeepestRight` | `ScannedTo`: after the scan has passed positions `0` to `i`, it knows the deepest reach of the blocks there, and where the first block of that reach is |
| `CircuitTypeCorrect` | `TypeOK` | `IInv`, below |
| `CircuitBlocksOnPath` | `OnPath`, if all buckets are built | `IInv`, below: an upload either takes a block from a path, or puts blocks where they reach. What a bucket never built decrypts to is on no path |
| `EvictionsKeepBlocks` | `EvictionKeeps` | `EvictionIs`, below, and counting |

`IInv` is `Kinds` (what each variable is in each phase), `Planned`, and `OnPath`. `Planned`
carries from one pass of an eviction to the next what the pass before worked out: that
the deepest blocks are right (`DeepestIs`), and then that each planned move can be carried out
(`PlanIs`): it goes down, it ends in a slot that is empty, the block it takes reaches
that far, and no other move begins or ends on the way (`MoveFits`).

From `PlanIs` alone follows what the third pass does (`EvictionIs`): before each position it
has in hand the block whose move covers that position, if there is one, and what it has
passed is as it should be (`Carried`); so in the end a slot that a move ends in holds
that move's block, one that a move leaves and none ends in is empty, and all others are as
they were. Sources hold blocks and destinations dummies, hence the places of a
block afterwards are in one-to-one correspondence with its places before
(`MovesKeepCount`). The moves of a plan may share a bucket, one leaving and one ending there,
which `circuit` has no slots for.

Each pass is a recursive function of the position, so these proofs go by least
counterexample too.

### Reducer

| Theorem | Statement | Argument |
|---|---|---|
| `ReducerTypeCorrect` | `TypeOK` | `Kinds`, what each variable is in each phase, and `Split` |
| `SplitIsExact` | `SplitExact` | `Split`: the offset is the sum of the lengths of the transactions before (`Sums`), where the buffer has the next one (`FlattenHas`); its length in four bytes adds up again to that length (`BigEndianDigits`) |
| `MerkleRootIsExact` | `MerkleRootExact`, for the hashes the enclave computed | `Merkle`: the first `len` hashes are a row of the tree whose lower rows all have more than one node. With an odd `len` the last pair is read beyond the row, and replaced |
| `OutputsAreExact` | `OutputsExact` | `Parse`, below |
| `InputsAreExact` | `InputsExact` | `Parse`: all keys in scripts come first, then those of the witnesses that could be read |
| `ParseEndsAtLockTime` | `ReadToTheEnd` | `Parse`: the place behind the last part is four bytes before the end |

`Split` and `Kinds` need each other: what is appended to `listTxs` is a sequence of
numbers because it is a transaction. What the parse reads is a number at any offset,
inside the bytes or not, so `Kinds` does not depend on whether the parse goes right.

`Parse` is the inductive invariant of the walk over the bytes: in each loop, `offset` is the
place of input, output or witness `j` in the serialization (`InPlace`, `OutPlace`,
`WitPlace`), as long as all outputs and witnesses before it can be read. What was found is
stated twice. For every number of items the parse could read, the list has their records from
`before` on (`Has`), so whatever a misread item adds comes behind them. If the
parse could read all items till now, the list ends there (`Ends`). During the witnesses,
the entries of `temp_segWitVin` from `j` on must be as the inputs left them (`Waiting`): the
parse tells by `pkh = zeros` which entry waits for a key. `InputRead`, `OutputRead` and
`KeyRead` say what the code reads at the place of an input, an output and a P2WPKH witness,
from the bytes each is made of.

The theorems hold for every byte that may lie behind the buffer: the parse gets there only
after it misread something, and a transaction it misreads leaves nothing in `temp_segWitVin`
for the next one.

Rows, sums, digits and flattened sequences are recursive functions. `StepsExist` says once
that there is a function with given steps, and `AgreeBefore` that there is only one, both by
least counterexample; the other proofs cite these.

### Only model-checked

The liveness in `ImplementsBlockStore`, as liveness under fairness is out of TLAPS's reach,
and `NothingDropped`, which is false in general (`overflow`).

## 5. Findings

* **A full stash drops blocks** (`overflow`). `pass_insert` returns without inserting,
  and the caller marks the block on the path as a dummy. The comment over the
  push says that all real blocks get inserted.
* **`discard_block` is not initialised** (`flags`). Stash nodes come from `malloc`. A
  flag that starts set makes the first 'z' request discard a block a write has left
  there, and the code's own assertion fails.
* **The first instance's upper buckets are never written** (`firstinstance`).
  `isLSinit` is false for the first instance, and what those buckets decrypt to is pushed
  to the stash as blocks that fit nowhere.
* **Zeroed slots of one block are lost** (`zeros`). A slot counts as empty only when its
  key hashes to another block; the zero key hashes to one of them.
* **Reads of Circuit ORAM fork the position map** (`circuit_reads`). A fetch gives
  the entry in the block it fetched, and the position map, a new label whatever the request;
  only a 'w' takes the old copy out of the tree and relabels the new one. After a read there are
  two copies with different entries, and a later request may fetch the older one, whose
  label leads to a path without the data. The run reaches it with read, write, write, read
  on one block.
* **Outputs of SegWit transactions are listed under the wrong hash** (`spent`). The enclave
  hashes the bytes of a transaction with its witness; the input that spends an output
  names the hash without it. `vectorToORAM` compares the two, so such an output stays after
  it is spent.

## 6. Not modelled

* The non-oblivious branches, `recursion_levels = -1`, and `EXITLESS` (see 1).
* More than one instance, and more than one thread. With two instances the second
  `ZT_New` rebuilds the trees under the first, and with two threads every global of the
  controllers is shared; the driver has neither threads nor requests to a second instance.
* Saving and restoring the state: the ecalls are declared, and the code that would call them
  is commented out. A crash of the enclave loses the instance.
* Encryption, nonces, serialisation of blocks: a slot decrypts to what was written. Timing
  and access patterns, the point of an ORAM, are not properties of states. The AES-GCM
  of a client's requests.
* The list structure of the stash: it is a function of `1..STASH_SIZE`, so the `uint8_t`
  loop bound at `Stash.cpp:383` is only listed as a hazard.
* `addToNewPathHash`, with which Circuit ORAM keeps its hashes, and the storage
  without recursion.
* A client's 'w' through `accessInterface`, which replaces a whole block: the driver used
  it to load a prepared set, and the benchmark uses it with no outputs stored. The batched
  interface, which nothing calls.
* A list that is sent twice, or a chain that undoes one: the driver sends each block once.
* The driver but for `getTxList`, tests, Python scripts, vendored code (SGX sample code,
  RIPEMD-160, the JSON-RPC client).

## 7. Plan

Done: the modules above, and the proofs of section 4. What is left, in order:

1. `UtxoSet` on lists from `Reducer`, with the transactions the parse misreads; a driver that
   repeats a list; several instances over one storage.
