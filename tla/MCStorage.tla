----------------------------- MODULE MCStorage -----------------------------
(* Instances of Storage for TLC: labels and the metadata of a block take   *)
(* one byte each.                                                          *)
EXTENDS Storage

(* Name the fields once. *)
Config(blocks, data, recursion, slots, limit, init) ==
  [max_blocks |-> blocks, data_size |-> data, recursion_data_size |-> recursion,
   Z |-> slots, posmap_limit |-> limit, isLSinit |-> init]

SomeConfigs ==
  { Config(8, 3, 2, 2, 4, TRUE),   \* two levels, blocks fill the trees
    Config(11, 3, 3, 2, 4, TRUE),  \* two levels that are not full
    Config(9, 2, 2, 2, 3, TRUE),   \* three levels
    Config(3, 3, 2, 2, 2, TRUE),   \* the first tree is one bucket
    Config(8, 3, 2, 2, 4, FALSE),  \* the first instance of a process
    Config(8, 9, 2, 2, 4, TRUE),   \* the data tree does not fit in 2^W
    Config(5, 2, 3, 1, 3, TRUE) }  \* one slot, long labels
=============================================================================
