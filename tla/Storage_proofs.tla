--------------------------- MODULE Storage_proofs ---------------------------
(* That the sizes worked out on the two sides of the enclave boundary      *)
(* agree: proofs about Storage.                                            *)
EXTENDS Storage, WellFoundedInduction, TLAPS

(* Proof by least counterexample: a set of naturals has a least element. *)
LEMMA LeastElement ==
  ASSUME NEW T \in SUBSET Nat, T # {}
  PROVE  Min(T) \in T /\ \A t \in T : Min(T) <= t
<1>1. PICK m \in T : \A t \in T : <<t, m>> \notin OpToRel(<, Nat)
  BY NatLessThanWellFounded, WFMin
<1>2. \A t \in T : ~(t < m)
  BY <1>1 DEF OpToRel
<1>3. \A t \in T : m <= t
  BY <1>2
<1> QED BY <1>3 DEF Min

-----------------------------------------------------------------------------
(* Quotient and remainder, and that there is only one of each. *)
LEMMA DivMod ==
  ASSUME NEW a \in Nat, NEW b \in Nat \ {0}
  PROVE  a \div b \in Nat /\ a % b \in 0 .. b - 1 /\ a = b * (a \div b) + (a % b)
OBVIOUS

(* A number is taken apart in one way only: of two quotients the greater   *)
(* one would make the number greater.                                      *)
LEMMA OneQuotient ==
  ASSUME NEW s \in Nat, NEW p \in Nat, NEW q \in Nat,
         NEW j \in 0 .. s - 1, NEW k \in 0 .. s - 1, s * p + j = s * q + k
  PROVE  p = q /\ j = k
<1>1. ASSUME NEW a \in Nat, NEW b \in Nat, a < b,
             NEW i \in 0 .. s - 1, NEW h \in 0 .. s - 1
      PROVE  s * a + i < s * b + h
  <2>1. s * (a + 1) <= s * b
    BY <1>1
  <2>2. s * (a + 1) = s * a + s /\ s * a \in Nat /\ s * b \in Nat
    OBVIOUS
  <2> QED BY <2>1, <2>2
<1>2. ~(p < q) /\ ~(q < p)
  <2>1. s * p \in Nat /\ s * q \in Nat
    OBVIOUS
  <2> QED BY <1>1, <2>1
<1>3. p = q
  BY <1>2
<1> QED BY <1>3

(* So the quotient of a number that is already taken apart is known. *)
LEMMA Quotient ==
  ASSUME NEW s \in Nat \ {0}, NEW q \in Nat, NEW k \in 0 .. s - 1
  PROVE  (s * q + k) \div s = q /\ (s * q + k) % s = k
<1> DEFINE a == s * q + k
           p == a \div s
           j == a % s
<1>1. a \in Nat
  OBVIOUS
<1>2. p \in Nat /\ j \in 0 .. s - 1 /\ a = s * p + j
  <2> HIDE DEF a
  <2> QED BY <1>1, DivMod
<1>3. s * p + j = s * q + k
  BY <1>2
<1>4. s \in Nat
  OBVIOUS
<1> HIDE DEF p, j
<1>5. p = q /\ j = k
  BY <1>2, <1>3, <1>4, OneQuotient
<1> QED BY <1>5 DEF p, j

(* Rounding up. *)
LEMMA CeilDivBounds ==
  ASSUME NEW a \in Nat, NEW b \in Nat \ {0}
  PROVE  /\ CeilDiv(a, b) \in Nat
         /\ a <= b * CeilDiv(a, b) /\ b * CeilDiv(a, b) <= a + b - 1
<1> DEFINE n == a + b - 1
<1>1. /\ n \in Nat /\ n \div b \in Nat /\ n % b \in 0 .. b - 1
      /\ n = b * (n \div b) + (n % b)
  <2>1. n \in Nat
    OBVIOUS
  <2> HIDE DEF n
  <2> QED BY <2>1, DivMod
<1>2. b * (n \div b) \in Nat
  BY <1>1
<1> HIDE DEF n
<1>3. n - (b - 1) <= b * (n \div b) /\ b * (n \div b) <= n
  BY <1>1, <1>2
<1> QED BY <1>1, <1>2, <1>3 DEF n, CeilDiv

(* A positive number stays positive, and more to round up give no less. *)
LEMMA CeilDivPositive ==
  ASSUME NEW a \in Nat \ {0}, NEW b \in Nat \ {0}
  PROVE  CeilDiv(a, b) \in Nat \ {0}
BY CeilDivBounds

(* What is more rounds up to no less. *)
LEMMA CeilDivMonotonic ==
  ASSUME NEW a \in Nat, NEW c \in Nat, a <= c, NEW b \in Nat \ {0}
  PROVE  CeilDiv(a, b) <= CeilDiv(c, b)
<1> DEFINE p == CeilDiv(a, b)
           q == CeilDiv(c, b)
<1>1. p \in Nat /\ q \in Nat /\ b * p <= a + b - 1 /\ c <= b * q
  BY CeilDivBounds
<1> SUFFICES ASSUME q + 1 <= p PROVE FALSE
  BY <1>1
<1> HIDE DEF p, q
<1>2. b * (q + 1) <= b * p
  BY <1>1
<1>3. b * (q + 1) = b * q + b
  BY <1>1
<1> QED BY <1>1, <1>2, <1>3

(* Division by two or more makes what is more than one smaller. *)
LEMMA CeilDivShrinks ==
  ASSUME NEW a \in Nat, a >= 2, NEW b \in Nat, b >= 2
  PROVE  CeilDiv(a, b) <= a - 1
<1> DEFINE q == CeilDiv(a, b)
<1>1. q \in Nat /\ b * q <= a + b - 1
  BY CeilDivBounds
<1> SUFFICES ASSUME a <= q PROVE FALSE
  BY <1>1
<1> HIDE DEF q
<1>2. b * a <= b * q
  BY <1>1
<1>3. b * a = (a - 1) * (b - 1) + (a + b - 1)
  OBVIOUS
<1>4. (a - 1) * (b - 1) >= 1
  <2>1. a - 1 \in Nat \ {0} /\ b - 1 \in Nat \ {0}
    OBVIOUS
  <2>2. \A i, j \in Nat \ {0} : i * j >= 1
    OBVIOUS
  <2> QED BY <2>1, <2>2
<1> QED BY <1>1, <1>2, <1>3, <1>4

(* And it leaves at most the half, rounded up. *)
LEMMA CeilDivHalves ==
  ASSUME NEW a \in Nat \ {0}, NEW b \in Nat, b >= 2
  PROVE  2 * CeilDiv(a, b) <= a + 1
<1> DEFINE q == CeilDiv(a, b)
<1>1. q \in Nat \ {0} /\ b * q <= a + b - 1
  BY CeilDivBounds, CeilDivPositive
<1> SUFFICES ASSUME a + 2 <= 2 * q PROVE FALSE
  BY <1>1
<1> HIDE DEF q
<1>2. b * q = 2 * q + (b - 2) * q
  BY <1>1
<1>3. (b - 2) * q >= b - 2
  <2>1. b - 2 \in Nat
    OBVIOUS
  <2>2. \A i \in Nat, j \in Nat \ {0} : i * j >= i
    OBVIOUS
  <2> QED BY <1>1, <2>1, <2>2
<1> QED BY <1>1, <1>2, <1>3

-----------------------------------------------------------------------------
(* Rounds of rounding up: the sequence Shrunk is defined by exists, and    *)
(* there is one for any number of rounds.                                  *)
IsShrinking(s, m, b, k) ==
  /\ s \in [0 .. k -> Nat \ {0}]
  /\ s = [i \in 0 .. k |-> IF i = 0 THEN m ELSE CeilDiv(s[i - 1], b)]

(* There is such a sequence for any number of rounds: a shorter one can be *)
(* made longer.                                                            *)
LEMMA ShrinkingExists ==
  ASSUME NEW m \in Nat \ {0}, NEW b \in Nat \ {0}, NEW k \in Nat
  PROVE  \E s : IsShrinking(s, m, b, k)
<1> DEFINE T == { i \in Nat : ~\E s : IsShrinking(s, m, b, i) }
<1> SUFFICES ASSUME T # {} PROVE FALSE
  OBVIOUS
<1>1. PICK i \in T : \A j \in T : i <= j
  BY LeastElement
<1>2. CASE i = 0
  <2>1. IsShrinking([j \in 0 .. 0 |-> m], m, b, 0)
    BY DEF IsShrinking
  <2> QED BY <1>2, <2>1
<1>3. CASE i # 0
  <2>1. i - 1 \in Nat /\ i - 1 \notin T
    BY <1>1, <1>3
  <2>2. PICK s : IsShrinking(s, m, b, i - 1)
    BY <2>1
  <2>3. /\ s \in [0 .. i - 1 -> Nat \ {0}]
        /\ \A j \in 0 .. i - 1 : s[j] = IF j = 0 THEN m ELSE CeilDiv(s[j - 1], b)
    <3>1. s \in [0 .. i - 1 -> Nat \ {0}]
      BY <2>2 DEF IsShrinking
    <3>2. s = [j \in 0 .. i - 1 |-> IF j = 0 THEN m ELSE CeilDiv(s[j - 1], b)]
      BY <2>2 DEF IsShrinking
    <3> QED BY <3>1, <3>2
  <2> DEFINE t == [j \in 0 .. i |-> IF j = i THEN CeilDiv(s[i - 1], b) ELSE s[j]]
  <2>4. CeilDiv(s[i - 1], b) \in Nat \ {0}
    BY <2>1, <2>3, CeilDivPositive
  <2>5. t \in [0 .. i -> Nat \ {0}]
    BY <2>3, <2>4
  <2>6. ASSUME NEW j \in 0 .. i
        PROVE  t[j] = IF j = 0 THEN m ELSE CeilDiv(t[j - 1], b)
    <3>1. CASE j = i
      BY <1>3, <2>1, <3>1
    <3>2. CASE j # i
      <4>1. j \in 0 .. i - 1 /\ (j # 0 => j - 1 \in 0 .. i /\ j - 1 # i)
        BY <3>2
      <4> QED BY <2>3, <4>1
    <3> QED BY <3>1, <3>2
  <2>7. IsShrinking(t, m, b, i)
    BY <2>5, <2>6 DEF IsShrinking
  <2> QED BY <2>7
<1> QED BY <1>2, <1>3

(* A longer one starts with a shorter one. *)
LEMMA ShrinkingUnique ==
  ASSUME NEW m \in Nat \ {0}, NEW b \in Nat \ {0}, NEW k \in Nat, NEW h \in 0 .. k,
         NEW s, IsShrinking(s, m, b, k), NEW t, IsShrinking(t, m, b, h)
  PROVE  \A i \in 0 .. h : s[i] = t[i]
<1> DEFINE T == { i \in 0 .. h : s[i] # t[i] }
<1> SUFFICES ASSUME T # {} PROVE FALSE
  OBVIOUS
<1>1. T \in SUBSET Nat
  OBVIOUS
<1>2. PICK i \in T : \A j \in T : i <= j
  BY <1>1, LeastElement
<1>3. s = [j \in 0 .. k |-> IF j = 0 THEN m ELSE CeilDiv(s[j - 1], b)]
  BY DEF IsShrinking
<1>4. t = [j \in 0 .. h |-> IF j = 0 THEN m ELSE CeilDiv(t[j - 1], b)]
  BY DEF IsShrinking
<1>5. i \in 0 .. k /\ i \in 0 .. h
  OBVIOUS
<1>6. s[i] = (IF i = 0 THEN m ELSE CeilDiv(s[i - 1], b))
  BY <1>3, <1>5
<1>7. t[i] = (IF i = 0 THEN m ELSE CeilDiv(t[i - 1], b))
  BY <1>4, <1>5
<1>8. i # 0 => s[i - 1] = t[i - 1]
  BY <1>2, <1>5
<1> QED BY <1>2, <1>6, <1>7, <1>8

(* So Shrunk, which is a choice of such a sequence, takes its last         *)
(* element.                                                                *)
LEMMA ShrunkIsShrinking ==
  ASSUME NEW m \in Nat \ {0}, NEW b \in Nat \ {0}, NEW k \in Nat
  PROVE  \E s : IsShrinking(s, m, b, k) /\ Shrunk(m, b, k) = s[k]
<1> DEFINE Def(s) == s = [i \in 0 .. k |-> IF i = 0 THEN m ELSE CeilDiv(s[i - 1], b)]
           s == CHOOSE f : Def(f)
<1>1. PICK t : IsShrinking(t, m, b, k)
  BY ShrinkingExists
<1>2. Def(t)
  BY <1>1 DEF IsShrinking
<1>3. Def(s)
  BY <1>2
<1>4. Shrunk(m, b, k) = s[k]
  BY DEF Shrunk
<1>5. s = t
  <2> DEFINE T == { i \in 0 .. k : s[i] # t[i] }
  <2> HIDE DEF s
  <2>7. s = [i \in 0 .. k |-> s[i]] /\ t = [i \in 0 .. k |-> t[i]]
    BY <1>2, <1>3
  <2>1. SUFFICES ASSUME T # {} PROVE FALSE
    <3>1. (\A i \in 0 .. k : s[i] = t[i]) => s = t
      BY <2>7
    <3> QED BY <3>1
  <2>6. T \in SUBSET Nat
    OBVIOUS
  <2>2. PICK i \in T : \A j \in T : i <= j
    BY <2>1, <2>6, LeastElement
  <2>3. s[i] = IF i = 0 THEN m ELSE CeilDiv(s[i - 1], b)
    BY <1>3, <2>2
  <2>4. t[i] = IF i = 0 THEN m ELSE CeilDiv(t[i - 1], b)
    BY <1>2, <2>2
  <2>5. i # 0 => s[i - 1] = t[i - 1]
    BY <2>2
  <2> QED BY <2>2, <2>3, <2>4, <2>5
<1> HIDE DEF s
<1> QED BY <1>1, <1>4, <1>5

(* One round more. *)
LEMMA ShrunkOnce ==
  ASSUME NEW m \in Nat \ {0}, NEW b \in Nat \ {0}, NEW k \in Nat
  PROVE  /\ Shrunk(m, b, k) \in Nat \ {0}
         /\ Shrunk(m, b, k) = IF k = 0 THEN m ELSE CeilDiv(Shrunk(m, b, k - 1), b)
<1>1. PICK s : IsShrinking(s, m, b, k) /\ Shrunk(m, b, k) = s[k]
  BY ShrunkIsShrinking
<1>2. s \in [0 .. k -> Nat \ {0}] /\ k \in 0 .. k
  BY <1>1 DEF IsShrinking
<1>3. s = [i \in 0 .. k |-> IF i = 0 THEN m ELSE CeilDiv(s[i - 1], b)]
  BY <1>1 DEF IsShrinking
<1>4. s[k] = (IF k = 0 THEN m ELSE CeilDiv(s[k - 1], b))
  BY <1>2, <1>3
<1>5. CASE k # 0
  <2>1. k - 1 \in Nat /\ k - 1 \in 0 .. k /\ k - 1 \in 0 .. k - 1
    BY <1>5
  <2>2. PICK t : IsShrinking(t, m, b, k - 1) /\ Shrunk(m, b, k - 1) = t[k - 1]
    BY <2>1, ShrunkIsShrinking
  <2>3. s[k - 1] = t[k - 1]
    BY <1>1, <2>1, <2>2, ShrinkingUnique
  <2> QED BY <1>1, <1>2, <1>4, <1>5, <2>2, <2>3
<1> QED BY <1>1, <1>2, <1>4, <1>5

(* With two or more labels to a block, as many rounds as there are blocks  *)
(* leave one.                                                              *)
LEMMA ShrunkToOne ==
  ASSUME NEW m \in Nat \ {0}, NEW b \in Nat, b >= 2
  PROVE  Shrunk(m, b, m) = 1
<1> DEFINE T == { k \in Nat : ~(Shrunk(m, b, k) = 1 \/ Shrunk(m, b, k) <= m - k) }
<1>1. \A k \in Nat : /\ Shrunk(m, b, k) \in Nat \ {0}
                     /\ Shrunk(m, b, k) = IF k = 0 THEN m ELSE CeilDiv(Shrunk(m, b, k - 1), b)
  <2>1. b \in Nat \ {0}
    OBVIOUS
  <2> QED BY <2>1, ShrunkOnce
<1>2. CeilDiv(1, b) = 1
  <2>1. 2 * CeilDiv(1, b) <= 1 + 1 /\ CeilDiv(1, b) \in Nat \ {0}
    BY CeilDivHalves, CeilDivPositive
  <2> QED BY <2>1
<1>3. SUFFICES ASSUME T # {} PROVE FALSE
  BY <1>1
<1>4. PICK k \in T : \A j \in T : k <= j
  BY <1>3, LeastElement
<1>5. k # 0
  BY <1>1, <1>4
<1>6. k - 1 \in Nat /\ k - 1 \notin T
  BY <1>4, <1>5
<1> DEFINE v == Shrunk(m, b, k - 1)
<1>7. Shrunk(m, b, k) = CeilDiv(v, b) /\ v \in Nat \ {0} /\ (v = 1 \/ v <= m - (k - 1))
  BY <1>1, <1>5, <1>6
<1> HIDE DEF v
<1>8. CASE v = 1
  BY <1>2, <1>4, <1>7, <1>8
<1>9. CASE v >= 2
  <2>1. CeilDiv(v, b) <= v - 1
    BY <1>7, <1>9, CeilDivShrinks
  <2> QED BY <1>1, <1>4, <1>7, <1>9, <2>1
<1> QED BY <1>7, <1>8, <1>9

(* So there are rounds after which the position map fits, and at least one. *)
Fits(c) == RoundsToFit(c, c.recursion_data_size \div LABEL_SIZE)

(* The number of rounds is at least one, and the width of the uint8_t in   *)
(* computeRecursionLevels does not change it.                              *)
LEMMA RoundsExist ==
  ASSUME NEW c \in Configs
  PROVE  /\ Fits(c) \in Nat \ {0}
         /\ computeRecursionLevels(c) = 1 + Fits(c)
<1> DEFINE b == c.recursion_data_size \div LABEL_SIZE
           m == c.max_blocks
           T == { k \in 0 .. m : Shrunk(m, b, k) * LABEL_SIZE <= c.posmap_limit }
<1>1. b \in Nat /\ b >= 2 /\ b < 256 /\ m \in Nat \ {0} /\ LABEL_SIZE \in Nat \ {0}
      /\ m * LABEL_SIZE > c.posmap_limit /\ c.posmap_limit >= LABEL_SIZE
  BY ConfigAssumption
<1>2. b % 256 = b
  BY <1>1
<1>3. Fits(c) = Min(T) /\ computeRecursionLevels(c) = 1 + Fits(c)
  BY <1>2 DEF Fits, RoundsToFit, computeRecursionLevels
<1> HIDE DEF b, m
<1>4. m \in T
  BY <1>1, ShrunkToOne
<1>5. 0 \notin T
  <2>1. b \in Nat \ {0} /\ Shrunk(m, b, 0) = m
    <3>1. b \in Nat \ {0}
      BY <1>1
    <3> QED BY <1>1, <3>1, ShrunkOnce
  <2>2. c.posmap_limit \in Nat
    BY ConfigAssumption
  <2> QED BY <1>1, <2>1, <2>2
<1>6. T \in SUBSET Nat
  OBVIOUS
<1>7. Min(T) \in T
  BY <1>4, <1>6, LeastElement
<1> QED BY <1>3, <1>5, <1>6, <1>7

-----------------------------------------------------------------------------
(* The geometry of the trees, once the application has counted the levels. *)
Counted == cfg \in Configs /\ recursion_levels = computeRecursionLevels(cfg)

(* The kinds of the parameters, and that there are two levels at least. *)
LEMMA Parameters ==
  ASSUME Counted
  PROVE  /\ recursion_levels \in Nat /\ recursion_levels >= 2
         /\ Fits(cfg) = recursion_levels - 1
         /\ x \in Nat /\ x >= 2
         /\ cfg.max_blocks \in Nat \ {0} /\ cfg.Z \in Nat \ {0}
         /\ cfg.data_size \in Nat /\ cfg.recursion_data_size \in Nat
         /\ ADDITIONAL_METADATA_SIZE \in Nat
         /\ 2 ^ W \in Nat \ {0} /\ 2 ^ 0 = 1
<1>1. Fits(cfg) \in Nat \ {0} /\ recursion_levels = 1 + Fits(cfg)
  BY RoundsExist DEF Counted
<1> QED BY <1>1, ConfigAssumption, PowerAssumption DEF Counted, x

(* Both sides have the same number of blocks in each tree, and the last    *)
(* level has the most.                                                     *)
LEMMA Blocks ==
  ASSUME Counted, NEW l \in Levels
  PROVE  /\ max_blocks_level(l) \in Nat \ {0}
         /\ maxBlocks_of_pmap_level(recursion_levels, l) = max_blocks_level(l)
         /\ max_blocks_level(l) <= max_blocks_level(recursion_levels)
         /\ max_blocks_level(recursion_levels)
              = Shrunk(cfg.max_blocks, x, Fits(cfg)) * x ^ Fits(cfg)
<1> DEFINE r == Fits(cfg)
           s == Shrunk(cfg.max_blocks, x, r)
<1>1. /\ r \in Nat /\ r = recursion_levels - 1 /\ x \in Nat /\ x >= 2
      /\ l \in Nat /\ 1 <= l /\ l <= recursion_levels /\ recursion_levels \in Nat
      /\ cfg.max_blocks \in Nat \ {0}
  BY Parameters DEF Levels
<1>2. s \in Nat \ {0}
  <2>1. x \in Nat \ {0}
    BY <1>1
  <2> QED BY <1>1, <2>1, ShrunkOnce
<1>3. \A k \in 0 .. r : x ^ k \in Nat \ {0} /\ x ^ (k + 1) = x * x ^ k
  BY PowerAssumption DEF Counted, Fits, x
<1>4. RoundsToFit(cfg, x) = r
  BY DEF Fits, x
<1> HIDE DEF r, s
<1>5. x ^ (l - 1) \in Nat \ {0} /\ x ^ r \in Nat \ {0}
  BY <1>1, <1>3
<1>6. x ^ (l - 1) <= x ^ r
  <2> DEFINE T == { k \in l - 1 .. r : ~(x ^ (l - 1) <= x ^ k) }
  <2>1. SUFFICES ASSUME T # {} PROVE FALSE
    BY <1>1
  <2>2. T \in SUBSET Nat
    BY <1>1
  <2>3. PICK k \in T : \A j \in T : k <= j
    BY <2>1, <2>2, LeastElement
  <2>4. k # l - 1
    BY <1>5, <2>3
  <2>5. k - 1 \in l - 1 .. r /\ k - 1 \notin T /\ k - 1 \in 0 .. r /\ k \in 0 .. r
    BY <1>1, <2>3, <2>4
  <2>6. x ^ (l - 1) <= x ^ (k - 1)
    BY <2>5
  <2>7. x ^ k = x * x ^ (k - 1)
    <3>1. (k - 1) + 1 = k
      BY <2>5
    <3> QED BY <1>3, <2>5, <3>1
  <2>8. x ^ (k - 1) \in Nat \ {0}
    BY <1>3, <2>5
  <2>9. \A i \in Nat, j \in Nat \ {0} : j * i >= i
    OBVIOUS
  <2>10. x * x ^ (k - 1) >= x ^ (k - 1)
    BY <1>1, <2>8, <2>9
  <2>11. ~(x ^ (l - 1) <= x ^ k) /\ x ^ k \in Nat
    BY <1>3, <2>3, <2>5
  <2> QED BY <1>5, <2>6, <2>7, <2>8, <2>10, <2>11
<1>7. max_blocks_level(l) = s * x ^ (l - 1)
  BY <1>4 DEF max_blocks_level, s
<1>8. max_blocks_level(recursion_levels) = s * x ^ r
  BY <1>1, <1>4 DEF max_blocks_level, s
<1>9. maxBlocks_of_pmap_level(recursion_levels, l) = s * x ^ (l - 1)
  BY <1>1 DEF maxBlocks_of_pmap_level, s
<1>10. \A i, j \in Nat \ {0} : i * j \in Nat \ {0}
  OBVIOUS
<1>11. \A h, i, j \in Nat : i <= j => h * i <= h * j
  OBVIOUS
<1> QED BY <1>2, <1>5, <1>6, <1>7, <1>8, <1>9, <1>10, <1>11 DEF s, r

(* The depth of a tree is the least that has room for its blocks. *)
LEMMA DepthExists ==
  ASSUME Counted, NEW l \in Levels
  PROVE  /\ Depth(l) \in Nat /\ Depth(l) <= max_blocks_level(l)
         /\ 2 ^ Depth(l) \in Nat \ {0}
         /\ CeilDiv(max_blocks_level(l), cfg.Z) <= 2 ^ Depth(l)
         /\ \A d \in 0 .. max_blocks_level(l) :
              /\ 2 ^ d \in Nat \ {0} /\ 2 ^ (d + 1) = 2 * 2 ^ d
              /\ d < Depth(l) => 2 ^ d < CeilDiv(max_blocks_level(l), cfg.Z)
<1> DEFINE m == max_blocks_level(l)
           T == { d \in 0 .. m : 2 ^ d >= CeilDiv(m, cfg.Z) }
<1>1. m \in Nat \ {0} /\ cfg.Z \in Nat \ {0}
  BY Blocks, Parameters
<1>2. \A d \in 0 .. m : 2 ^ d \in Nat \ {0} /\ 2 ^ (d + 1) = 2 * 2 ^ d
  <2>1. m <= Shrunk(cfg.max_blocks, x, Fits(cfg)) * x ^ Fits(cfg)
        /\ Shrunk(cfg.max_blocks, x, Fits(cfg)) * x ^ Fits(cfg) \in Nat
    <3>1. recursion_levels \in Levels
      BY Parameters DEF Levels
    <3> QED BY <3>1, Blocks
  <2>2. \A d \in 0 .. Shrunk(cfg.max_blocks, x, Fits(cfg)) * x ^ Fits(cfg) :
           2 ^ d \in Nat \ {0} /\ 2 ^ (d + 1) = 2 * 2 ^ d
    BY PowerAssumption DEF Counted, Fits, x
  <2> HIDE DEF m
  <2>3. \A d \in 0 .. m : d \in 0 .. Shrunk(cfg.max_blocks, x, Fits(cfg)) * x ^ Fits(cfg)
    BY <1>1, <2>1
  <2> QED BY <2>2, <2>3
<1>3. CeilDiv(m, cfg.Z) \in Nat /\ CeilDiv(m, cfg.Z) <= m
  <2> HIDE DEF m
  <2>1. CeilDiv(m, cfg.Z) \in Nat /\ cfg.Z * CeilDiv(m, cfg.Z) <= m + cfg.Z - 1
    BY <1>1, CeilDivBounds
  <2>2. CASE cfg.Z = 1
    BY <1>1, <2>1, <2>2
  <2>3. CASE cfg.Z >= 2
    <3>1. 2 * CeilDiv(m, cfg.Z) <= m + 1
      BY <1>1, <2>3, CeilDivHalves
    <3> QED BY <1>1, <2>1, <3>1
  <2> QED BY <1>1, <2>2, <2>3
<1>4. Depth(l) = Min(T)
  BY DEF Depth
<1> HIDE DEF m
<1>5. 2 ^ m >= m
  <2> DEFINE U == { d \in 0 .. m : ~(2 ^ d >= d) }
  <2>1. SUFFICES ASSUME U # {} PROVE FALSE
    BY <1>1
  <2>2. PICK d \in U : \A j \in U : d <= j
    <3>1. U \in SUBSET Nat
      OBVIOUS
    <3> QED BY <2>1, <3>1, LeastElement
  <2>3. d # 0
    BY <1>2, <2>2
  <2>4. d - 1 \in 0 .. m /\ d - 1 \notin U /\ (d - 1) + 1 = d
    <3>1. d \in 0 .. m /\ \A j \in U : d <= j
      BY <2>2
    <3>2. d - 1 \in 0 .. m /\ (d - 1) + 1 = d /\ ~(d <= d - 1)
      BY <1>1, <2>3, <3>1
    <3> QED BY <3>1, <3>2
  <2>5. 2 ^ d = 2 * 2 ^ (d - 1) /\ 2 ^ (d - 1) \in Nat \ {0} /\ 2 ^ (d - 1) >= d - 1
    BY <1>2, <2>4
  <2> QED BY <2>2, <2>4, <2>5
<1>6. m \in T /\ T \in SUBSET Nat
  BY <1>1, <1>2, <1>3, <1>5
<1>7. Min(T) \in T /\ \A t \in T : Min(T) <= t
  BY <1>6, LeastElement
<1>8. ASSUME NEW d \in 0 .. m, d < Min(T) PROVE 2 ^ d < CeilDiv(m, cfg.Z)
  <2>1. d \notin T
    BY <1>7, <1>8
  <2> QED BY <1>2, <1>3, <2>1
<1> QED BY <1>2, <1>4, <1>7, <1>8 DEF m

(* Trees of lower levels are no deeper. *)
LEMMA DepthGrows ==
  ASSUME Counted, NEW l \in Levels
  PROVE  Depth(l) <= Depth(recursion_levels)
<1> DEFINE m == max_blocks_level(l)
           n == max_blocks_level(recursion_levels)
           d == Depth(recursion_levels)
<1>1. recursion_levels \in Levels /\ cfg.Z \in Nat \ {0}
  BY Parameters DEF Levels
<1>2. m \in Nat /\ n \in Nat /\ m <= n
  BY <1>1, Blocks
<1>3. CeilDiv(m, cfg.Z) <= CeilDiv(n, cfg.Z) /\ CeilDiv(m, cfg.Z) \in Nat
      /\ CeilDiv(n, cfg.Z) \in Nat
  <2> HIDE DEF m, n
  <2> QED BY <1>1, <1>2, CeilDivMonotonic, CeilDivBounds
<1>4. d \in Nat /\ 2 ^ d \in Nat /\ CeilDiv(n, cfg.Z) <= 2 ^ d
  BY <1>1, DepthExists
<1>5. Depth(l) \in Nat /\ Depth(l) <= m
  BY DepthExists
<1>6. d < Depth(l) => 2 ^ d < CeilDiv(m, cfg.Z)
  <2>1. d < Depth(l) => d \in 0 .. m
    <3> HIDE DEF d, m
    <3> QED BY <1>2, <1>4, <1>5
  <2> QED BY <2>1, DepthExists
<1> HIDE DEF m, n, d
<1>7. ~(d < Depth(l))
  BY <1>3, <1>4, <1>6
<1> QED BY <1>4, <1>5, <1>7 DEF d

(* With two slots to a bucket, a tree has no more leaves than blocks. *)
LEMMA FewLeaves ==
  ASSUME Counted, NEW l \in Levels, cfg.Z >= 2
  PROVE  2 ^ Depth(l) <= max_blocks_level(l)
<1> DEFINE m == max_blocks_level(l)
           d == Depth(l)
<1>1. m \in Nat \ {0} /\ cfg.Z \in Nat /\ 2 ^ 0 = 1
  BY Blocks, Parameters
<1>2. d \in Nat /\ d <= m
  BY DepthExists
<1>3. CASE d = 0
  BY <1>1, <1>3
<1>4. CASE d # 0
  <2> HIDE DEF d, m
  <2>1. d - 1 \in 0 .. m /\ d - 1 < d /\ (d - 1) + 1 = d
    BY <1>1, <1>2, <1>4
  <2>2. 2 ^ (d - 1) \in Nat /\ 2 ^ d = 2 * 2 ^ (d - 1) /\ 2 ^ (d - 1) < CeilDiv(m, cfg.Z)
    BY <2>1, DepthExists DEF d, m
  <2>3. 2 * CeilDiv(m, cfg.Z) <= m + 1 /\ CeilDiv(m, cfg.Z) \in Nat
    <3>1. cfg.Z \in Nat \ {0}
      BY <1>1
    <3> QED BY <1>1, <3>1, CeilDivHalves, CeilDivBounds
  <2> QED BY <1>1, <2>2, <2>3 DEF d, m
<1> QED BY <1>3, <1>4

-----------------------------------------------------------------------------
(* What is allocated, and where an access is.  TypeOK does not say what    *)
(* memory there is, and so not that an access stays in it.                 *)
Phases == {"init", "new", "build", "ready", "download", "verify", "verified", "upload"}
Built == phase \in Phases \ {"init", "new", "build"}

MemorySized ==
  phase # "init" =>
    /\ Counted
    /\ DOMAIN inmem_tree_l = Levels /\ DOMAIN inmem_hash_l = Levels
    /\ \A l \in Levels :
         /\ DOMAIN inmem_tree_l[l] = 0 .. level_size(recursion_levels, l) - 1
         /\ DOMAIN inmem_hash_l[l] = 0 .. hashtree_size(recursion_levels, l) - 1

TreesSized ==
  phase \notin {"init", "new"} =>
    /\ D_level = [l \in Levels |-> Depth(l)]
    /\ N_level = [l \in Levels |-> 2 ^ Depth(l)]
    /\ level \in Levels

BuffersSized ==
  Built => /\ DOMAIN fetched_path_array = 0 .. largest_path_size - 1
           /\ DOMAIN encrypted_path = 0 .. largest_path_size - 1
           /\ DOMAIN path_hash = 0 .. HashSlots - 1
           /\ DOMAIN new_path_hash = 0 .. HashSlots - 1

Sized ==
  /\ cfg \in Configs /\ phase \in Phases /\ accesses \in 0 .. MaxAccesses
  /\ MemorySized /\ TreesSized /\ BuffersSized
  /\ phase = "build" => next \in Buckets(level)
  /\ phase \in {"verify", "verified", "upload"} => leaf \in 0 .. N_level[level] - 1

(* The sizes depend on the arguments and the number of levels alone. *)
LEMMA SameSizes ==
  ASSUME UNCHANGED <<cfg, recursion_levels>>
  PROVE  /\ Levels' = Levels /\ Counted' = Counted /\ Comfortable' = Comfortable
         /\ \A l : /\ Depth(l)' = Depth(l) /\ BucketSize(l)' = BucketSize(l)
                   /\ level_size(recursion_levels, l)' = level_size(recursion_levels, l)
                   /\ hashtree_size(recursion_levels, l)'
                        = hashtree_size(recursion_levels, l)
<1>1. Levels' = Levels /\ Counted' = Counted /\ Comfortable' = Comfortable /\ x' = x
  BY DEF Levels, Counted, Comfortable, x
<1>2. ASSUME NEW l
      PROVE  /\ Depth(l)' = Depth(l) /\ BucketSize(l)' = BucketSize(l)
             /\ level_size(recursion_levels, l)' = level_size(recursion_levels, l)
             /\ hashtree_size(recursion_levels, l)' = hashtree_size(recursion_levels, l)
  <2>1. max_blocks_level(l)' = max_blocks_level(l)
    BY <1>1 DEF max_blocks_level
  <2>2. Depth(l)' = Depth(l)
    BY <2>1 DEF Depth
  <2>3. maxBlocks_of_pmap_level(recursion_levels, l)'
          = maxBlocks_of_pmap_level(recursion_levels, l)
    BY <1>1 DEF maxBlocks_of_pmap_level
  <2>4. BucketSize(l)' = BucketSize(l)
    BY DEF BucketSize, BlockSize
  <2>5. hashtree_size(recursion_levels, l)' = hashtree_size(recursion_levels, l)
    BY <2>3 DEF hashtree_size
  <2>6. level_size(recursion_levels, l)' = level_size(recursion_levels, l)
    BY <2>3 DEF level_size
  <2> QED BY <2>2, <2>4, <2>5, <2>6
<1> QED BY <1>1, <1>2

(* The kinds of the sizes. *)
LEMMA Kinds ==
  ASSUME Sized, phase \notin {"init", "new"}, NEW l \in Levels
  PROVE  /\ recursion_levels \in Levels /\ Counted /\ l \in Nat \ {0}
         /\ BucketSize(l) \in Nat
         /\ D_level[l] \in Nat /\ N_level[l] \in Nat \ {0} /\ N_level[l] = 2 ^ D_level[l]
         /\ D_level[l] <= D_level[recursion_levels]
         /\ 2 ^ 0 = 1
         /\ \A i \in Depths(l) : /\ 2 ^ i \in Nat \ {0} /\ 2 ^ i <= N_level[l]
                                 /\ 2 ^ (i + 1) = 2 * 2 ^ i
<1>1. Counted /\ D_level[l] = Depth(l) /\ N_level[l] = 2 ^ Depth(l)
  BY DEF Sized, MemorySized, TreesSized
<1>2. recursion_levels \in Levels /\ l \in Nat \ {0}
  BY <1>1, Parameters DEF Levels
<1>3. D_level[recursion_levels] = Depth(recursion_levels)
  BY <1>2 DEF Sized, TreesSized
<1>4. D_level[l] \in Nat /\ N_level[l] \in Nat \ {0} /\ N_level[l] = 2 ^ D_level[l]
      /\ D_level[l] <= D_level[recursion_levels]
  BY <1>1, <1>3, DepthExists, DepthGrows
<1>5. BucketSize(l) \in Nat
  BY <1>1, Parameters DEF BucketSize, BlockSize
<1>6. \A i \in Depths(l) : 2 ^ i \in Nat \ {0} /\ 2 ^ (i + 1) = 2 * 2 ^ i
  <2>1. max_blocks_level(l) \in Nat /\ D_level[l] <= max_blocks_level(l)
    BY <1>1, Blocks, DepthExists
  <2>2. \A i \in Depths(l) : i \in 0 .. max_blocks_level(l)
    BY <1>4, <2>1 DEF Depths
  <2> QED BY <1>1, <2>2, DepthExists
<1>7. ASSUME NEW i \in Depths(l) PROVE 2 ^ i <= N_level[l]
  <2> DEFINE T == { k \in i .. D_level[l] : ~(2 ^ i <= 2 ^ k) }
  <2>1. SUFFICES ASSUME T # {} PROVE FALSE
    BY <1>4 DEF Depths
  <2>2. T \in SUBSET Nat
    BY <1>4 DEF Depths
  <2>3. PICK k \in T : \A j \in T : k <= j
    BY <2>1, <2>2, LeastElement
  <2>4. k \in Depths(l) /\ i \in Nat /\ i <= k /\ k <= D_level[l]
    BY <1>4, <2>3 DEF Depths
  <2>5. k # i
    BY <1>6, <2>3
  <2>6. k - 1 \in i .. D_level[l] /\ k - 1 \in Depths(l) /\ (k - 1) + 1 = k /\ ~(k <= k - 1)
    BY <1>4, <2>4, <2>5 DEF Depths
  <2>7. 2 ^ i <= 2 ^ (k - 1)
    BY <2>3, <2>6
  <2>8. 2 ^ k = 2 * 2 ^ (k - 1) /\ 2 ^ (k - 1) \in Nat /\ 2 ^ i \in Nat
    BY <1>6, <2>6
  <2> QED BY <2>3, <2>7, <2>8
<1>8. 2 ^ 0 = 1
  BY PowerAssumption
<1> QED BY <1>1, <1>2, <1>4, <1>5, <1>6, <1>7, <1>8

(* The buckets of a path are buckets of the tree. *)
LEMMA NodeIsBucket ==
  ASSUME Sized, phase \notin {"init", "new"}, NEW l \in Levels,
         NEW f \in 0 .. N_level[l] - 1, NEW i \in Depths(l)
  PROVE  Node(l, f, i) \in Buckets(l)
<1> DEFINE n == f + N_level[l]
           b == 2 ^ i
<1>1. n \in Nat /\ b \in Nat \ {0} /\ b <= n /\ n <= 2 * N_level[l] - 1
  BY Kinds
<1> HIDE DEF n, b
<1>2. n \div b \in Nat /\ n % b \in 0 .. b - 1 /\ n = b * (n \div b) + (n % b)
  BY <1>1
<1>3. n \div b # 0
  BY <1>1, <1>2
<1>4. n \div b <= n
  <2>1. \A j \in Nat \ {0}, q \in Nat : q <= j * q
    OBVIOUS
  <2>2. b * (n \div b) \in Nat /\ n \div b <= b * (n \div b)
    BY <1>1, <1>2, <2>1
  <2> QED BY <1>1, <1>2, <2>2
<1>5. n \div b \in 1 .. 2 * N_level[l] - 1
  <2>1. N_level[l] \in Nat \ {0}
    BY Kinds
  <2> QED BY <1>1, <1>2, <1>3, <1>4, <2>1
<1>6. Node(l, f, i) = n \div b
  BY DEF Node, n, b
<1> QED BY <1>5, <1>6 DEF Buckets

(* A bucket that starts no later than it should lies in the memory of its  *)
(* tree, and its hash has a place.                                         *)
LEMMA BucketInside ==
  ASSUME Sized, phase \notin {"init", "new"}, Comfortable,
         NEW l \in Levels, NEW n \in Buckets(l),
         NEW off \in Nat, off <= BucketSize(l) * (n - 1)
  PROVE  /\ Inside(inmem_tree_l[l], off, BucketSize(l))
         /\ Inside(inmem_hash_l[l], n - 1, 1)
<1> DEFINE m == max_blocks_level(l)
           size == IF l = recursion_levels THEN cfg.data_size ELSE cfg.recursion_data_size
           s == size + ADDITIONAL_METADATA_SIZE
           t == size + 2 * ADDITIONAL_METADATA_SIZE
<1>1. Counted /\ N_level[l] \in Nat \ {0} /\ m \in Nat \ {0} /\ cfg.Z \in Nat \ {0}
      /\ size \in Nat /\ ADDITIONAL_METADATA_SIZE \in Nat /\ cfg.Z >= 2
  BY Kinds, Blocks, Parameters DEF Comfortable
<1>2. N_level[l] <= m
  BY <1>1, FewLeaves DEF Sized, TreesSized
<1>3. n \in Nat /\ 1 <= n /\ n <= 2 * m
  BY <1>1, <1>2 DEF Buckets
<1>4. BucketSize(l) = cfg.Z * s
  BY DEF BucketSize, BlockSize
<1>5. level_size(recursion_levels, l) = 2 * m * cfg.Z * t
      /\ hashtree_size(recursion_levels, l) = 2 * m
  <2>1. maxBlocks_of_pmap_level(recursion_levels, l) = m
    BY <1>1, Blocks
  <2> QED BY <2>1 DEF level_size, hashtree_size
<1>6. s \in Nat /\ t \in Nat /\ s <= t
  BY <1>1
<1> HIDE DEF m, s, t, size
<1>7. cfg.Z * s \in Nat /\ cfg.Z * t \in Nat /\ cfg.Z * s <= cfg.Z * t
  <2>1. \A h, i, j \in Nat : i <= j => h * i \in Nat /\ h * j \in Nat /\ h * i <= h * j
    OBVIOUS
  <2> QED BY <1>1, <1>6, <2>1
<1>8. (cfg.Z * s) * n <= 2 * m * cfg.Z * t
  <2>1. (cfg.Z * s) * n <= (cfg.Z * t) * (2 * m)
    <3>1. \A g, h, i, j \in Nat : g <= h /\ i <= j => g * i <= h * j
      <4> TAKE g, h, i, j \in Nat
      <4> HAVE g <= h /\ i <= j
      <4>1. g * i <= g * j /\ g * j <= h * j /\ g * i \in Nat /\ g * j \in Nat /\ h * j \in Nat
        OBVIOUS
      <4> QED BY <4>1
    <3>2. 2 * m \in Nat
      BY <1>1
    <3> QED BY <1>3, <1>7, <3>1, <3>2
  <2>2. (cfg.Z * t) * (2 * m) = 2 * m * cfg.Z * t
    BY <1>1, <1>6
  <2> QED BY <2>1, <2>2
<1>9. (cfg.Z * s) * n = (cfg.Z * s) * (n - 1) + cfg.Z * s
  BY <1>3, <1>7
<1>10. off + BucketSize(l) - 1 <= level_size(recursion_levels, l) - 1
  <2>1. (cfg.Z * s) * (n - 1) \in Nat /\ 2 * m * cfg.Z * t \in Nat
    BY <1>1, <1>3, <1>6, <1>7
  <2> QED BY <1>4, <1>5, <1>7, <1>8, <1>9, <2>1
<1>11. level_size(recursion_levels, l) \in Nat /\ BucketSize(l) \in Nat
  BY <1>1, <1>4, <1>5, <1>6, <1>7
<1>12. DOMAIN inmem_tree_l[l] = 0 .. level_size(recursion_levels, l) - 1
       /\ DOMAIN inmem_hash_l[l] = 0 .. 2 * m - 1
  BY <1>5 DEF Sized, MemorySized
<1>13. Inside(inmem_tree_l[l], off, BucketSize(l))
  BY <1>10, <1>11, <1>12 DEF Inside
<1>14. Inside(inmem_hash_l[l], n - 1, 1)
  BY <1>1, <1>3, <1>12 DEF Inside
<1> QED BY <1>13, <1>14

(* The two ways to an address start no later than the bucket, as they      *)
(* compute it with fewer bits at most.                                     *)
LEMMA Offsets ==
  ASSUME Sized, phase \notin {"init", "new"}, NEW l \in Levels, NEW n \in Buckets(l)
  PROVE  /\ ObjectOffset(l, n) \in Nat /\ ObjectOffset(l, n) <= BucketSize(l) * (n - 1)
         /\ PathOffset(l, n) \in Nat /\ PathOffset(l, n) <= BucketSize(l) * (n - 1)
<1> DEFINE s == BucketSize(l)
           w == 2 ^ W
<1>1. s \in Nat /\ n - 1 \in Nat /\ w \in Nat \ {0}
  BY Kinds, Parameters DEF Buckets
<1>2. \A a \in Nat, b \in Nat \ {0} : a % b \in Nat /\ a % b <= a
  <2> TAKE a \in Nat, b \in Nat \ {0}
  <2>1. a \div b \in Nat /\ a % b \in Nat /\ a = b * (a \div b) + (a % b)
    OBVIOUS
  <2>2. b * (a \div b) \in Nat
    BY <2>1
  <2> QED BY <2>1, <2>2
<1>3. \A g, h, i \in Nat : g <= h => g * i \in Nat /\ h * i \in Nat /\ g * i <= h * i
  OBVIOUS
<1> HIDE DEF s, w
<1>4. s % w \in Nat /\ s % w <= s /\ s * (n - 1) \in Nat
  BY <1>1, <1>2, <1>3
<1>5. (s % w) * (n - 1) \in Nat /\ (s % w) * (n - 1) <= s * (n - 1)
  BY <1>1, <1>3, <1>4
<1>6. (s * (n - 1)) % w \in Nat /\ (s * (n - 1)) % w <= s * (n - 1)
  BY <1>1, <1>2, <1>4
<1> QED BY <1>5, <1>6 DEF ObjectOffset, PathOffset, s, w

(* The path of any level fits in the buffers of the last one. *)
LEMMA PathInside ==
  ASSUME Sized, Built, Comfortable
  PROVE  /\ BucketSize(level) * (D_level[level] + 1) <= largest_path_size
         /\ BucketSize(recursion_levels) * (D_level[level] + 1) <= largest_path_size
         /\ BucketSize(level) * (D_level[level] + 1) \in Nat
         /\ BucketSize(recursion_levels) * (D_level[level] + 1) \in Nat
         /\ largest_path_size \in Nat
         /\ 2 * D_level[level] + 1 <= HashSlots /\ HashSlots \in Nat
<1> DEFINE s == BucketSize(level)
           t == BucketSize(recursion_levels)
           d == D_level[level] + 1
           e == D_level[recursion_levels] + 1
<1>1. phase \notin {"init", "new"} /\ level \in Levels
  BY DEF Sized, Built, TreesSized
<1>2. recursion_levels \in Levels /\ Counted /\ s \in Nat /\ d \in Nat /\ d <= e
  BY <1>1, Kinds
<1>3. t \in Nat /\ e \in Nat
  BY <1>1, <1>2, Kinds
<1>4. s <= t
  <2>1. BlockSize(level) \in Nat /\ BlockSize(recursion_levels) \in Nat
        /\ BlockSize(level) <= BlockSize(recursion_levels) /\ cfg.Z \in Nat
    BY <1>2, Parameters DEF BlockSize, Comfortable
  <2>2. \A h, i, j \in Nat : i <= j => h * i <= h * j
    OBVIOUS
  <2> QED BY <2>1, <2>2 DEF BucketSize
<1> HIDE DEF s, t, d, e
<1>5. \A g, h, i, j \in Nat :
        g <= h /\ i <= j => g * i \in Nat /\ h * j \in Nat /\ g * i <= h * j
  <2> TAKE g, h, i, j \in Nat
  <2> HAVE g <= h /\ i <= j
  <2>1. g * i <= g * j /\ g * j <= h * j /\ g * i \in Nat /\ g * j \in Nat /\ h * j \in Nat
    OBVIOUS
  <2> QED BY <2>1
<1>6. s * d \in Nat /\ t * e \in Nat /\ s * d <= t * e /\ t * d \in Nat /\ t * d <= t * e
  BY <1>2, <1>3, <1>4, <1>5
<1>7. largest_path_size = t * e /\ HashSlots = 2 * e
  BY DEF largest_path_size, HashSlots, t, e
<1>8. 2 * D_level[level] + 1 <= 2 * e /\ 2 * e \in Nat
  BY <1>1, <1>2, <1>3, Kinds DEF d, e
<1> QED BY <1>6, <1>7, <1>8 DEF s, t, d

-----------------------------------------------------------------------------
(* What the memory operations do to the addresses that are allocated. *)
LEMMA MemoryKeepsSize ==
  /\ \A mem, off, bytes : DOMAIN Stored(mem, off, bytes) = DOMAIN mem
  /\ \A size : DOMAIN Malloc(size) = 0 .. size - 1
BY DEF Stored, Malloc

(* Steps after the build keep the sizes. *)
LEMMA SizedStays ==
  ASSUME Sized, Built, Built', UNCHANGED params, level' \in Levels,
         accesses' \in 0 .. MaxAccesses,
         DOMAIN inmem_tree_l' = DOMAIN inmem_tree_l,
         DOMAIN inmem_hash_l' = DOMAIN inmem_hash_l,
         \A l \in Levels : /\ DOMAIN inmem_tree_l'[l] = DOMAIN inmem_tree_l[l]
                           /\ DOMAIN inmem_hash_l'[l] = DOMAIN inmem_hash_l[l],
         DOMAIN fetched_path_array' = DOMAIN fetched_path_array,
         DOMAIN encrypted_path' = DOMAIN encrypted_path,
         DOMAIN path_hash' = DOMAIN path_hash,
         DOMAIN new_path_hash' = DOMAIN new_path_hash,
         phase' \in {"verify", "verified", "upload"} =>
           leaf' \in 0 .. N_level[level'] - 1
  PROVE  Sized'
<1>1. UNCHANGED <<cfg, recursion_levels, D_level, N_level>>
  BY DEF params
<1>2. /\ Levels' = Levels /\ Counted' = Counted
      /\ \A l : /\ Depth(l)' = Depth(l) /\ BucketSize(l)' = BucketSize(l)
                /\ level_size(recursion_levels, l)' = level_size(recursion_levels, l)
                /\ hashtree_size(recursion_levels, l)'
                     = hashtree_size(recursion_levels, l)
  BY <1>1, SameSizes
<1>3. phase \notin {"init", "new", "build"} /\ phase' \in Phases
      /\ phase' \notin {"init", "new", "build"}
  BY DEF Built
<1>4. MemorySized'
  BY <1>2, <1>3 DEF Sized, MemorySized
<1>5. TreesSized'
  BY <1>1, <1>2, <1>3 DEF Sized, TreesSized
<1>6. BuffersSized'
  <2>1. largest_path_size' = largest_path_size /\ HashSlots' = HashSlots
    BY <1>1, <1>2 DEF largest_path_size, HashSlots
  <2> QED BY <2>1 DEF Sized, BuffersSized
<1> QED BY <1>1, <1>3, <1>4, <1>5, <1>6 DEF Sized

(* The first state has no memory yet. *)
LEMMA InitSized == Init => Sized /\ NoOverrun
<1> SUFFICES ASSUME Init PROVE Sized /\ NoOverrun
  OBVIOUS
<1>1. MaxAccesses \in Nat
  BY ConfigAssumption
<1> QED
  BY <1>1 DEF Init, Sized, NoOverrun, MemorySized, TreesSized, BuffersSized, Built, Phases

(* ZT_initLocalStorage allocates what level_size and hashtree_size say. *)
LEMMA InitLocalStorageSized ==
  ASSUME Sized, NoOverrun, ZT_initLocalStorage
  PROVE  Sized' /\ NoOverrun'
<1> DEFINE rl == computeRecursionLevels(cfg)
<1>1. /\ phase = "init" /\ phase' = "new" /\ recursion_levels' = rl
      /\ UNCHANGED <<cfg, accesses, overrun>>
  BY DEF ZT_initLocalStorage
<1>2. /\ inmem_tree_l' = [l \in 1 .. rl |-> Malloc(level_size(rl, l))]
      /\ inmem_hash_l' = [l \in 1 .. rl |-> Malloc(hashtree_size(rl, l))]
  BY DEF ZT_initLocalStorage
<1>3. Counted' /\ Levels' = 1 .. rl
  BY <1>1 DEF Sized, Counted, Levels
<1>4. \A l : /\ level_size(recursion_levels, l)' = level_size(rl, l)
             /\ hashtree_size(recursion_levels, l)' = hashtree_size(rl, l)
  <2> HIDE DEF rl
  <2>1. x' = x
    BY <1>1 DEF x
  <2>2. \A l : maxBlocks_of_pmap_level(recursion_levels, l)' = maxBlocks_of_pmap_level(rl, l)
    BY <1>1, <2>1 DEF maxBlocks_of_pmap_level
  <2> QED BY <1>1, <2>2 DEF level_size, hashtree_size
<1>5. MemorySized'
  <2> HIDE DEF rl
  <2> QED BY <1>2, <1>3, <1>4, MemoryKeepsSize DEF MemorySized
<1>6. Sized'
  BY <1>1, <1>5 DEF Sized, TreesSized, BuffersSized, Built, Phases
<1>7. NoOverrun'
  BY <1>1 DEF NoOverrun, Comfortable
<1> QED BY <1>6, <1>7

(* ZT_New sizes the trees and starts the build at a bucket. *)
LEMMA NewSized ==
  ASSUME Sized, NoOverrun, ZT_New
  PROVE  Sized' /\ NoOverrun'
<1>1. /\ phase = "new" /\ phase' = "build"
      /\ UNCHANGED <<cfg, recursion_levels, inmem_tree_l, inmem_hash_l, accesses, overrun>>
      /\ D_level' = [l \in Levels |-> Depth(l)]
      /\ N_level' = [l \in Levels |-> 2 ^ Depth(l)]
      /\ level' = recursion_levels /\ next' = 2 ^ Depth(recursion_levels)
  BY DEF ZT_New, memory
<1>2. /\ Levels' = Levels /\ Counted' = Counted /\ Comfortable' = Comfortable
      /\ \A l : /\ Depth(l)' = Depth(l) /\ BucketSize(l)' = BucketSize(l)
                /\ level_size(recursion_levels, l)' = level_size(recursion_levels, l)
                /\ hashtree_size(recursion_levels, l)'
                     = hashtree_size(recursion_levels, l)
  BY <1>1, SameSizes
<1>3. Counted /\ recursion_levels \in Levels
  BY <1>1, Parameters DEF Sized, MemorySized, Levels
<1>4. MemorySized' /\ TreesSized' /\ BuffersSized'
  BY <1>1, <1>2, <1>3
     DEF Sized, MemorySized, TreesSized, BuffersSized, Built
<1>5. next' \in Buckets(level)'
  <2>1. N_level'[level'] = 2 ^ Depth(recursion_levels)
    BY <1>1, <1>3
  <2>2. 2 ^ Depth(recursion_levels) \in Nat \ {0}
    BY <1>3, DepthExists
  <2> HIDE DEF Depth
  <2> QED BY <1>1, <2>1, <2>2 DEF Buckets
<1> QED BY <1>1, <1>2, <1>4, <1>5 DEF Sized, Phases, NoOverrun

(* A step of the build goes to a bucket and writes inside the tree and the *)
(* hash tree; the last one allocates the buffers.                          *)
LEMMA BuildSized ==
  ASSUME Sized, NoOverrun, BuildTreeRecursive
  PROVE  Sized' /\ NoOverrun'
<1>1. /\ phase = "build" /\ level \in Levels /\ next \in Buckets(level)
      /\ UNCHANGED <<cfg, recursion_levels, D_level, N_level, accesses>>
  BY DEF BuildTreeRecursive, params, Sized, TreesSized
<1>2. /\ Levels' = Levels /\ Counted' = Counted /\ Comfortable' = Comfortable
      /\ \A l : /\ Depth(l)' = Depth(l) /\ BucketSize(l)' = BucketSize(l)
                /\ level_size(recursion_levels, l)' = level_size(recursion_levels, l)
                /\ hashtree_size(recursion_levels, l)'
                     = hashtree_size(recursion_levels, l)
  BY <1>1, SameSizes
<1>3. phase' \in {"build", "ready"} /\ level' \in Levels
      /\ (phase' = "build" => next' \in Buckets(level'))
  <2>1. /\ level \in Nat \ {0} /\ N_level[level] \in Nat \ {0}
        /\ \A l \in Levels : N_level[l] \in Nat \ {0}
    BY <1>1, Kinds
  <2>2. CASE NextBucket > 0
    <3>1. next' = NextBucket /\ UNCHANGED <<phase, level>>
      BY <2>2 DEF BuildTreeRecursive
    <3>2. NextBucket \in Buckets(level)
      BY <1>1, <2>1, <2>2 DEF NextBucket, AfterLeaves, Buckets
    <3> QED BY <1>1, <3>1, <3>2
  <2>3. CASE ~(NextBucket > 0) /\ NextBucket = 0 /\ level > 1
    <3>1. level' = level - 1 /\ next' = N_level[level - 1] /\ phase' = phase
      BY <2>3 DEF BuildTreeRecursive
    <3>2. level - 1 \in Levels
      <4>1. recursion_levels \in Nat
        BY <1>1, Parameters DEF Sized, MemorySized
      <4> QED BY <1>1, <2>1, <2>3, <4>1 DEF Levels
    <3>3. N_level[level - 1] \in Buckets(level - 1)
      BY <2>1, <3>2 DEF Buckets
    <3> QED BY <1>1, <3>1, <3>2, <3>3
  <2>4. CASE ~(NextBucket > 0) /\ ~(NextBucket = 0 /\ level > 1)
    BY <1>1, <2>4 DEF BuildTreeRecursive
  <2> QED BY <2>2, <2>3, <2>4
<1>4. phase' = "ready" =>
        /\ fetched_path_array' = Malloc(largest_path_size)
        /\ encrypted_path' = Malloc(largest_path_size)
        /\ path_hash' = Malloc(HashSlots) /\ new_path_hash' = Malloc(HashSlots)
  BY <1>1 DEF BuildTreeRecursive
<1>5. MemorySized'
  <2>1. \E hash :
          /\ inmem_tree_l' = [inmem_tree_l EXCEPT ![level] =
               Stored(@, ObjectOffset(level, next), Bucket(level, next, 0))]
          /\ inmem_hash_l' =
               [inmem_hash_l EXCEPT ![level] = Stored(@, next - 1, [k \in {0} |-> hash])]
    BY DEF BuildTreeRecursive
  <2>2. DOMAIN inmem_tree_l' = DOMAIN inmem_tree_l /\ DOMAIN inmem_hash_l' = DOMAIN inmem_hash_l
        /\ \A l \in Levels : /\ DOMAIN inmem_tree_l'[l] = DOMAIN inmem_tree_l[l]
                             /\ DOMAIN inmem_hash_l'[l] = DOMAIN inmem_hash_l[l]
    BY <1>1, <2>1, MemoryKeepsSize DEF Sized, MemorySized
  <2> QED BY <1>1, <1>2, <2>2 DEF Sized, MemorySized
<1>6. TreesSized'
  BY <1>1, <1>2, <1>3 DEF Sized, TreesSized
<1>7. BuffersSized'
  <2>1. largest_path_size' = largest_path_size /\ HashSlots' = HashSlots
    BY <1>1, <1>2 DEF largest_path_size, HashSlots
  <2> QED BY <1>3, <1>4, <2>1, MemoryKeepsSize DEF BuffersSized, Built
<1>8. Sized'
  <2>1. phase' = "build" => next' \in Buckets(level)'
    BY <1>1, <1>3 DEF Buckets
  <2> QED BY <1>1, <1>3, <1>5, <1>6, <1>7, <2>1 DEF Sized, Phases
<1>9. NoOverrun'
  <2> SUFFICES ASSUME Comfortable PROVE ~overrun'
    BY <1>2 DEF NoOverrun
  <2>1. phase \notin {"init", "new"}
    BY <1>1
  <2>2. /\ Inside(inmem_tree_l[level], ObjectOffset(level, next), BucketSize(level))
        /\ Inside(inmem_hash_l[level], next - 1, 1)
    BY <1>1, <2>1, BucketInside, Offsets
  <2>3. ~overrun
    BY DEF NoOverrun
  <2> QED BY <2>2, <2>3 DEF BuildTreeRecursive
<1> QED BY <1>8, <1>9

(* Starting an access, downloading a path and comparing its hashes. *)
LEMMA AccessSized ==
  ASSUME Sized, NoOverrun, NEW o, Access(o)
  PROVE  Sized' /\ NoOverrun'
<1>1. /\ phase = "ready" /\ phase' = "download" /\ level' = 1
      /\ accesses < MaxAccesses /\ accesses' = accesses + 1
      /\ UNCHANGED <<params, inmem_tree_l, inmem_hash_l, fetched_path_array, path_hash,
                     encrypted_path, new_path_hash, overrun>>
  BY DEF Access, memory, buffers
<1>2. 1 \in Levels
  BY <1>1, Parameters DEF Sized, MemorySized, Levels
<1>3. accesses' \in 0 .. MaxAccesses
  BY <1>1, ConfigAssumption DEF Sized
<1>4. Sized'
  BY <1>1, <1>2, <1>3, SizedStays DEF Built, Phases
<1> QED BY <1>1, <1>4, SameSizes DEF NoOverrun, params

(* A download reads inside the tree, and its path fits in the buffers. *)
LEMMA DownloadSized ==
  ASSUME Sized, NoOverrun, downloadPath
  PROVE  Sized' /\ NoOverrun'
<1>1. /\ phase = "download" /\ phase' = "verify" /\ level \in Levels
      /\ UNCHANGED <<params, inmem_tree_l, inmem_hash_l, level, encrypted_path,
                     new_path_hash, accesses>>
  BY DEF downloadPath, memory, Sized, TreesSized
<1>2. PICK f \in 0 .. N_level[level] - 1 :
        /\ leaf' = f
        /\ fetched_path_array' = Stored(fetched_path_array, 0, PathBytes(f))
        /\ path_hash' = Stored(path_hash, 0, PathHashes(f))
        /\ overrun' =
            \/ overrun
            \/ ~Inside(fetched_path_array, 0,
                       BucketSize(level) * (D_level[level] + 1))
            \/ ~Inside(path_hash, 0, 2 * D_level[level] + 1)
            \/ \E i \in Depths(level) :
                 LET n == Node(level, f, i)
                 IN  \/ ~Inside(inmem_tree_l[level], PathOffset(level, n),
                                BucketSize(level))
                     \/ ~Inside(inmem_hash_l[level], n - 1, 1)
  BY DEF downloadPath
<1>3. Sized'
  BY <1>1, <1>2, SizedStays, MemoryKeepsSize DEF Sized, Built, Phases
<1>4. NoOverrun'
  <2>1. Comfortable' = Comfortable /\ phase \notin {"init", "new"}
    BY <1>1, SameSizes DEF params
  <2> SUFFICES ASSUME Comfortable PROVE ~overrun'
    BY <2>1 DEF NoOverrun
  <2>2. ~overrun
    BY DEF NoOverrun
  <2>3. Inside(fetched_path_array, 0, BucketSize(level) * (D_level[level] + 1))
        /\ Inside(path_hash, 0, 2 * D_level[level] + 1)
    <3>1. Built
      BY <1>1 DEF Built, Phases
    <3>2. DOMAIN fetched_path_array = 0 .. largest_path_size - 1
          /\ DOMAIN path_hash = 0 .. HashSlots - 1
      BY <3>1 DEF Sized, BuffersSized
    <3>3. D_level[level] \in Nat
      BY <1>1, <2>1, Kinds
    <3> DEFINE size == BucketSize(level) * (D_level[level] + 1)
    <3>4. /\ size <= largest_path_size /\ size \in Nat /\ largest_path_size \in Nat
          /\ 2 * D_level[level] + 1 <= HashSlots /\ HashSlots \in Nat
      BY <3>1, PathInside
    <3> HIDE DEF size
    <3>5. Inside(fetched_path_array, 0, size)
      BY <3>2, <3>4 DEF Inside
    <3>6. Inside(path_hash, 0, 2 * D_level[level] + 1)
      BY <3>2, <3>3, <3>4 DEF Inside
    <3> QED BY <3>5, <3>6 DEF size
  <2>4. ASSUME NEW i \in Depths(level)
        PROVE  /\ Inside(inmem_tree_l[level], PathOffset(level, Node(level, f, i)),
                         BucketSize(level))
               /\ Inside(inmem_hash_l[level], Node(level, f, i) - 1, 1)
    <3>1. Node(level, f, i) \in Buckets(level)
      BY <1>1, <2>1, NodeIsBucket
    <3> QED BY <1>1, <2>1, <3>1, Offsets, BucketInside
  <2> QED BY <1>2, <2>2, <2>3, <2>4
<1> QED BY <1>3, <1>4

(* verifyPath changes no size. *)
LEMMA VerifySized ==
  ASSUME Sized, NoOverrun, verifyPath
  PROVE  Sized' /\ NoOverrun'
<1>1. /\ phase = "verify" /\ phase' = "verified" /\ level \in Levels
      /\ UNCHANGED <<params, inmem_tree_l, inmem_hash_l, level, leaf, fetched_path_array,
                     path_hash, encrypted_path, new_path_hash, accesses, overrun>>
  BY DEF verifyPath, memory, buffers, Sized, TreesSized
<1>2. Sized'
  <2>1. N_level' = N_level
    BY <1>1 DEF params
  <2> QED BY <1>1, <2>1, SizedStays DEF Sized, Built, Phases
<1> QED BY <1>1, <1>2, SameSizes DEF NoOverrun, params

(* The end of an access at a level. *)
LEMMA NextLevelSized ==
  ASSUME Sized, phase \notin {"init", "new"}, NextLevel("ready")
  PROVE  level' \in Levels /\ phase' \in {"ready", "download"}
<1>1. level \in Levels /\ recursion_levels \in Nat
  BY Parameters DEF Sized, TreesSized, MemorySized
<1> QED BY <1>1 DEF NextLevel, Levels

(* Nor does the end of a read. *)
LEMMA AccessReadSized ==
  ASSUME Sized, NoOverrun, AccessRead
  PROVE  Sized' /\ NoOverrun'
<1>1. /\ phase = "verified" /\ NextLevel("ready")
      /\ UNCHANGED <<params, inmem_tree_l, inmem_hash_l, fetched_path_array,
                     path_hash, encrypted_path, new_path_hash, accesses, overrun>>
  BY DEF AccessRead, memory, buffers
<1>2. level' \in Levels /\ phase' \in {"ready", "download"}
  BY <1>1, NextLevelSized
<1>3. Sized'
  BY <1>1, <1>2, SizedStays DEF Sized, Built, Phases
<1> QED BY <1>1, <1>3, SameSizes DEF NoOverrun, params

(* The new path and its hashes, and their way back to the storage. *)
LEMMA NewPathSized ==
  ASSUME Sized, NoOverrun, CreateNewPathHash
  PROVE  Sized' /\ NoOverrun'
<1>1. /\ phase = "verified" /\ phase' = "upload" /\ level \in Levels
      /\ UNCHANGED <<params, inmem_tree_l, inmem_hash_l, level, leaf, fetched_path_array,
                     path_hash, accesses>>
      /\ encrypted_path' = EncryptedPath
      /\ new_path_hash' = Stored(new_path_hash, 0, NewHash(encrypted_path'))
      /\ overrun' =
           \/ overrun
           \/ ~Inside(encrypted_path, 0, BucketSize(level) * (D_level[level] + 1))
           \/ ~Inside(encrypted_path, 0,
                      BucketSize(recursion_levels) * (D_level[level] + 1))
           \/ ~Inside(new_path_hash, 0, D_level[level] + 1)
  BY DEF CreateNewPathHash, memory, Sized, TreesSized
<1>2. DOMAIN encrypted_path' = DOMAIN encrypted_path
      /\ DOMAIN new_path_hash' = DOMAIN new_path_hash
  BY <1>1, MemoryKeepsSize DEF EncryptedPath
<1>3. Sized'
  <2>1. N_level' = N_level
    BY <1>1 DEF params
  <2> QED BY <1>1, <1>2, <2>1, SizedStays DEF Sized, Built, Phases
<1>4. NoOverrun'
  <2>1. Comfortable' = Comfortable
    BY <1>1, SameSizes DEF params
  <2> SUFFICES ASSUME Comfortable PROVE ~overrun'
    BY <2>1 DEF NoOverrun
  <2>2. ~overrun
    BY DEF NoOverrun
  <2>3. Built /\ D_level[level] \in Nat
    BY <1>1, Kinds DEF Built, Phases
  <2>4. DOMAIN encrypted_path = 0 .. largest_path_size - 1
        /\ DOMAIN new_path_hash = 0 .. HashSlots - 1
    BY <2>3 DEF Sized, BuffersSized
  <2>5. /\ Inside(encrypted_path, 0, BucketSize(level) * (D_level[level] + 1))
        /\ Inside(encrypted_path, 0, BucketSize(recursion_levels) * (D_level[level] + 1))
        /\ Inside(new_path_hash, 0, D_level[level] + 1)
    <3> DEFINE size == BucketSize(level) * (D_level[level] + 1)
               last_size == BucketSize(recursion_levels) * (D_level[level] + 1)
    <3>1. /\ size <= largest_path_size /\ size \in Nat /\ largest_path_size \in Nat
          /\ last_size <= largest_path_size /\ last_size \in Nat
          /\ 2 * D_level[level] + 1 <= HashSlots /\ HashSlots \in Nat
      BY <2>3, PathInside
    <3> HIDE DEF size, last_size
    <3>2. Inside(encrypted_path, 0, size) /\ Inside(encrypted_path, 0, last_size)
      BY <2>4, <3>1 DEF Inside
    <3>3. Inside(new_path_hash, 0, D_level[level] + 1)
      BY <2>3, <2>4, <3>1 DEF Inside
    <3> QED BY <3>2, <3>3 DEF size, last_size
  <2> QED BY <1>1, <2>2, <2>5
<1> QED BY <1>3, <1>4

(* An upload writes inside the tree and the hash tree. *)
LEMMA UploadSized ==
  ASSUME Sized, NoOverrun, uploadPath
  PROVE  Sized' /\ NoOverrun'
<1>1. /\ phase = "upload" /\ NextLevel("ready") /\ level \in Levels
      /\ leaf \in 0 .. N_level[level] - 1
      /\ UNCHANGED <<params, leaf, fetched_path_array,
                     path_hash, encrypted_path, new_path_hash, accesses>>
      /\ overrun' =
           \/ overrun
           \/ \E i \in Depths(level) :
                LET n == Node(level, leaf, i)
                IN  \/ ~Inside(inmem_tree_l[level], PathOffset(level, n),
                               BucketSize(level))
                    \/ ~Inside(inmem_hash_l[level], n - 1, 1)
  BY DEF uploadPath, buffers, Sized, TreesSized
<1>2. /\ DOMAIN inmem_tree_l' = DOMAIN inmem_tree_l
      /\ DOMAIN inmem_hash_l' = DOMAIN inmem_hash_l
      /\ \A l \in Levels : /\ DOMAIN inmem_tree_l'[l] = DOMAIN inmem_tree_l[l]
                           /\ DOMAIN inmem_hash_l'[l] = DOMAIN inmem_hash_l[l]
  <2>1. DOMAIN inmem_tree_l = Levels /\ DOMAIN inmem_hash_l = Levels
    BY <1>1 DEF Sized, MemorySized
  <2>2. DOMAIN inmem_tree_l' = DOMAIN inmem_tree_l
        /\ \A l \in Levels : DOMAIN inmem_tree_l'[l] = DOMAIN inmem_tree_l[l]
    BY <2>1 DEF uploadPath
  <2>3. DOMAIN inmem_hash_l' = DOMAIN inmem_hash_l
        /\ \A l \in Levels : DOMAIN inmem_hash_l'[l] = DOMAIN inmem_hash_l[l]
    BY <2>1 DEF uploadPath
  <2> QED BY <2>2, <2>3
<1>3. level' \in Levels /\ phase' \in {"ready", "download"}
  BY <1>1, NextLevelSized
<1>4. Sized'
  BY <1>1, <1>2, <1>3, SizedStays DEF Sized, Built, Phases
<1>5. NoOverrun'
  <2>1. Comfortable' = Comfortable /\ phase \notin {"init", "new"}
    BY <1>1, SameSizes DEF params
  <2> SUFFICES ASSUME Comfortable PROVE ~overrun'
    BY <2>1 DEF NoOverrun
  <2>2. ~overrun
    BY DEF NoOverrun
  <2>3. ASSUME NEW i \in Depths(level)
        PROVE  /\ Inside(inmem_tree_l[level], PathOffset(level, Node(level, leaf, i)),
                         BucketSize(level))
               /\ Inside(inmem_hash_l[level], Node(level, leaf, i) - 1, 1)
    <3>1. Node(level, leaf, i) \in Buckets(level)
      BY <1>1, <2>1, NodeIsBucket
    <3> QED BY <1>1, <2>1, <3>1, Offsets, BucketInside
  <2> QED BY <1>1, <2>2, <2>3
<1> QED BY <1>4, <1>5

(* Every step keeps the sizes and stays inside. *)
LEMMA NextSized == Sized /\ NoOverrun /\ [Next]_vars => Sized' /\ NoOverrun'
<1> SUFFICES ASSUME Sized, NoOverrun, [Next]_vars PROVE Sized' /\ NoOverrun'
  OBVIOUS
<1>1. CASE UNCHANGED vars
  <2>1. /\ UNCHANGED <<cfg, phase, recursion_levels, D_level, N_level, inmem_tree_l,
                       inmem_hash_l, level, next, leaf, fetched_path_array, path_hash,
                       encrypted_path, new_path_hash, accesses, overrun>>
    BY <1>1 DEF vars
  <2>2. /\ Levels' = Levels /\ Counted' = Counted /\ Comfortable' = Comfortable
        /\ \A l : /\ Depth(l)' = Depth(l) /\ BucketSize(l)' = BucketSize(l)
                  /\ level_size(recursion_levels, l)' = level_size(recursion_levels, l)
                  /\ hashtree_size(recursion_levels, l)'
                       = hashtree_size(recursion_levels, l)
    BY <2>1, SameSizes
  <2>3. largest_path_size' = largest_path_size /\ HashSlots' = HashSlots /\ Built' = Built
    BY <2>1, <2>2 DEF largest_path_size, HashSlots, Built
  <2>4. MemorySized' /\ TreesSized' /\ BuffersSized'
    BY <2>1, <2>2, <2>3 DEF Sized, MemorySized, TreesSized, BuffersSized
  <2>5. Buckets(level)' = Buckets(level)
    BY <2>1 DEF Buckets
  <2> QED BY <2>1, <2>2, <2>4, <2>5 DEF Sized, NoOverrun
<1>2. CASE Next
  BY <1>2, InitLocalStorageSized, NewSized, BuildSized, AccessSized, DownloadSized,
     VerifySized, AccessReadSized, NewPathSized, UploadSized DEF Next
<1> QED BY <1>1, <1>2

(* The sizes are as they should be in every state. *)
LEMMA AlwaysSized == Spec => [](Sized /\ NoOverrun)
BY InitSized, NextSized, PTL DEF Spec

(* There are two trees or more, memory for every one of them, and the      *)
(* build and the accesses stay within the tree they are at.                *)
THEOREM StorageTypeCorrect == Spec => []TypeOK
<1>1. Sized => TypeOK
  BY Parameters DEF Sized, MemorySized, Phases, TypeOK
<1> QED BY <1>1, AlwaysSized, PTL

(* No read or write of the storage, of the build or of an access leaves    *)
(* the memory it is meant for, although the application and the enclave    *)
(* size the trees separately (level_size, hashtree_size; D_level,          *)
(* N_level), in different widths.                                          *)
THEOREM StorageStaysInside == Spec => []NoOverrun
BY AlwaysSized, PTL

-----------------------------------------------------------------------------
(* Where there are enough bits for addresses, both ways to one start at    *)
(* the bucket.                                                             *)
LEMMA Addresses ==
  ASSUME Sized, phase \notin {"init", "new"}, NEW l \in Levels, Addressable(l),
         NEW n \in Buckets(l)
  PROVE  /\ ObjectOffset(l, n) = BucketSize(l) * (n - 1)
         /\ BucketSize(l) > 0 => PathOffset(l, n) = BucketSize(l) * (n - 1)
<1> DEFINE s == BucketSize(l)
           w == 2 ^ W
           m == 2 * N_level[l] - 1
<1>1. s \in Nat /\ w \in Nat \ {0} /\ m \in Nat \ {0} /\ n \in 1 .. m
  BY Kinds, Parameters DEF Buckets
<1>2. s * m <= w
  BY DEF Addressable
<1>3. ObjectOffset(l, n) = (s % w) * (n - 1) /\ PathOffset(l, n) = (s * (n - 1)) % w
  BY DEF ObjectOffset, PathOffset
<1> HIDE DEF s, w, m
<1>4. \A a \in Nat, b \in Nat \ {0} : a < b => a % b = a
  OBVIOUS
<1>5. s * n = s * (n - 1) + s /\ s * n \in Nat /\ s * (n - 1) \in Nat
  BY <1>1
<1>6. s * n <= s * m
  <2>1. \A h, i, j \in Nat : i <= j => h * i <= h * j
    OBVIOUS
  <2> QED BY <1>1, <2>1
<1>7. s * m \in Nat
  BY <1>1
<1>8. s > 0 => (s * (n - 1)) % w = s * (n - 1)
  BY <1>1, <1>2, <1>4, <1>5, <1>6, <1>7
<1>9. (s % w) * (n - 1) = s * (n - 1)
  <2>1. CASE n = 1
    <3>1. s % w \in Nat
      BY <1>1
    <3> QED BY <1>1, <2>1, <3>1
  <2>2. CASE n > 1
    <3>1. s = 0 \/ s * (n - 1) > 0
      <4>1. \A i, j \in Nat \ {0} : i * j > 0
        OBVIOUS
      <4> QED BY <1>1, <2>2, <4>1
    <3>2. s < w
      BY <1>1, <1>2, <1>5, <1>6, <1>7, <3>1
    <3> QED BY <1>1, <1>4, <3>2
  <2> QED BY <1>1, <2>1, <2>2
<1> QED BY <1>3, <1>8, <1>9 DEF s

(* Two buckets share no address. *)
LEMMA BucketsApart ==
  ASSUME NEW s \in Nat, NEW m \in Nat \ {0}, NEW n \in Nat \ {0},
         NEW j \in 0 .. s - 1, NEW k \in 0 .. s - 1,
         s * (m - 1) + j = s * (n - 1) + k
  PROVE  m = n /\ j = k
<1>1. m - 1 \in Nat /\ n - 1 \in Nat
  OBVIOUS
<1>2. m - 1 = n - 1 /\ j = k
  BY <1>1, OneQuotient
<1> QED BY <1>2

(* Taking the place of a byte in a path apart. *)
LEMMA PlaceInPath ==
  ASSUME NEW s \in Nat \ {0}, NEW d \in Nat, NEW i \in 0 .. d, NEW k \in 0 .. s - 1
  PROVE  /\ i * s + k \in 0 .. s * (d + 1) - 1
         /\ (i * s + k) \div s = i /\ (i * s + k) % s = k
<1>1. i * s \in Nat /\ i * s + s <= s * (d + 1) /\ s * (d + 1) \in Nat /\ i * s = s * i
  <2>1. i * s + s = s * (i + 1) /\ s * (i + 1) <= s * (d + 1)
    OBVIOUS
  <2> QED BY <2>1
<1>2. (s * i + k) \div s = i /\ (s * i + k) % s = k
  BY Quotient
<1> QED BY <1>1, <1>2

(* A set of naturals with a bound has a greatest element. *)
LEMMA GreatestElement ==
  ASSUME NEW d \in Nat, NEW T \in SUBSET (0 .. d), T # {}
  PROVE  Max(T) \in T
<1> DEFINE U == { d - t : t \in T }
<1>1. U \in SUBSET Nat /\ U # {}
  <2>1. \A t \in T : t \in Nat /\ t <= d
    OBVIOUS
  <2>2. \A t \in T : d - t \in Nat
    BY <2>1
  <2> QED BY <2>2
<1>2. PICK u \in U : \A t \in U : u <= t
  BY <1>1, LeastElement
<1>3. PICK m \in T : u = d - m
  BY <1>2
<1>4. \A t \in T : m >= t
  <2> TAKE t \in T
  <2>1. d - m <= d - t
    BY <1>2, <1>3
  <2>2. m \in 0 .. d /\ t \in 0 .. d
    OBVIOUS
  <2> QED BY <2>1, <2>2
<1> QED BY <1>4 DEF Max

-----------------------------------------------------------------------------
(* The buckets an instance has built, when it is done and on the way there. *)
BuiltBuckets(l) ==
  IF cfg.isLSinit THEN Buckets(l) ELSE N_level[l] .. 2 * N_level[l] - 1

Done(l) ==
  { n \in BuiltBuckets(l) :
      \/ phase # "build" \/ l > level
      \/ l = level /\ IF next >= N_level[l] THEN N_level[l] <= n /\ n < next
                                            ELSE n > next }

Written(l, n) ==
  \A k \in 0 .. BucketSize(l) - 1 :
    Byte(inmem_tree_l[l], BucketSize(l) * (n - 1) + k) = <<l, n, last[l][n], k>>

(* MemoryFaithful speaks of storage at rest.  Between: the build has       *)
(* written the buckets before the next one, and the path that is going to  *)
(* be uploaded has in each place the bucket that belongs there.            *)
Roomy(l) == Addressable(l) /\ Comfortable

LastSized ==
  /\ DOMAIN last = Levels
  /\ \A l \in Levels : DOMAIN last[l] = Buckets(l)
  /\ phase = "build" => \A l \in Levels : \A n \in Buckets(l) : last[l][n] = 0

PathReady ==
  phase = "upload" /\ Comfortable =>
    \A i \in Depths(level), k \in 0 .. BucketSize(level) - 1 :
      encrypted_path[i * BucketSize(level) + k]
        = <<level, Node(level, leaf, i), accesses, k>>

DoneWritten ==
  phase \notin {"init", "new"} =>
    LastSized /\ \A l \in Levels : Roomy(l) => \A n \in Done(l) : Written(l, n)

FaithInv == Sized /\ DoneWritten /\ PathReady

(* What the parameters decide stays as long as they do. *)
LEMMA SameTrees ==
  ASSUME UNCHANGED params
  PROVE  /\ Levels' = Levels
         /\ \A l : /\ BucketSize(l)' = BucketSize(l) /\ Buckets(l)' = Buckets(l)
                   /\ BuiltBuckets(l)' = BuiltBuckets(l) /\ Roomy(l)' = Roomy(l)
                   /\ Depths(l)' = Depths(l)
                   /\ \A f, i : Node(l, f, i)' = Node(l, f, i)
<1>1. UNCHANGED <<cfg, recursion_levels, D_level, N_level>>
  BY DEF params
<1>2. Levels' = Levels /\ Comfortable' = Comfortable
  BY <1>1 DEF Levels, Comfortable
<1>3. ASSUME NEW l
      PROVE  /\ BucketSize(l)' = BucketSize(l) /\ Buckets(l)' = Buckets(l)
             /\ BuiltBuckets(l)' = BuiltBuckets(l) /\ Roomy(l)' = Roomy(l)
             /\ Depths(l)' = Depths(l)
             /\ \A f, i : Node(l, f, i)' = Node(l, f, i)
  <2>1. BucketSize(l)' = BucketSize(l)
    BY <1>1, SameSizes
  <2>2. Buckets(l)' = Buckets(l) /\ BuiltBuckets(l)' = BuiltBuckets(l)
        /\ Depths(l)' = Depths(l)
    BY <1>1 DEF Buckets, BuiltBuckets, Depths
  <2>3. Roomy(l)' = Roomy(l)
    BY <1>1, <1>2, <2>1 DEF Roomy, Addressable
  <2>4. \A f, i : Node(l, f, i)' = Node(l, f, i)
    BY <1>1 DEF Node
  <2> QED BY <2>1, <2>2, <2>3, <2>4
<1> QED BY <1>2, <1>3

(* Every bucket that is built is a bucket. *)
LEMMA BuiltAreBuckets ==
  ASSUME Sized, phase \notin {"init", "new"}, NEW l \in Levels
  PROVE  BuiltBuckets(l) \subseteq Buckets(l) /\ Buckets(l) \subseteq Nat \ {0}
<1>1. N_level[l] \in Nat \ {0}
  BY Kinds
<1> QED BY <1>1 DEF BuiltBuckets, Buckets

(* A step of the build adds the bucket it writes to those that are done. *)
LEMMA BuildOrder ==
  ASSUME Sized, BuildTreeRecursive, NEW l \in Levels
  PROVE  Done(l)' \subseteq Done(l) \cup (IF l = level THEN {next} ELSE {})
<1>1. /\ phase = "build" /\ level \in Levels /\ next \in Buckets(level)
      /\ UNCHANGED params
  BY DEF BuildTreeRecursive, Sized, TreesSized
<1>2. BuiltBuckets(l)' = BuiltBuckets(l) /\ N_level' = N_level /\ cfg' = cfg
  BY <1>1, SameTrees DEF params
<1>3. /\ level \in Nat \ {0} /\ l \in Nat \ {0} /\ N_level[level] \in Nat \ {0}
      /\ N_level[l] \in Nat \ {0}
      /\ BuiltBuckets(l) \subseteq Buckets(l) /\ Buckets(l) \subseteq Nat \ {0}
  BY <1>1, Kinds, BuiltAreBuckets
<1>4. SUFFICES ASSUME NEW n \in BuiltBuckets(l), n \in Done(l)', ~(l = level /\ n = next)
               PROVE  n \in Done(l)
  BY <1>2 DEF Done
<1>5. n \in Nat \ {0} /\ n \in Buckets(l) /\ next \in Nat \ {0}
      /\ next <= 2 * N_level[level] - 1 /\ n <= 2 * N_level[l] - 1
  BY <1>1, <1>3 DEF Buckets
<1>6. \/ phase' # "build" \/ l > level'
      \/ l = level' /\ IF next' >= N_level[l] THEN N_level[l] <= n /\ n < next'
                                              ELSE n > next'
  BY <1>2, <1>4 DEF Done
<1>7. CASE l > level
  BY <1>1, <1>4, <1>7 DEF Done
<1>8. CASE l < level
  <2>1. phase' = "build" /\ level' \in {level, level - 1}
        /\ (level' = level - 1 => next' = N_level[level - 1])
    <3>1. NextBucket \in Nat
      BY <1>3, <1>5 DEF NextBucket, AfterLeaves
    <3>2. NextBucket > 0 \/ (NextBucket = 0 /\ level > 1)
      BY <1>3, <1>8, <3>1
    <3>3. NextBucket > 0 => phase' = phase /\ level' = level
      BY DEF BuildTreeRecursive
    <3>4. NextBucket = 0 /\ level > 1 =>
            phase' = phase /\ level' = level - 1 /\ next' = N_level[level - 1]
      BY DEF BuildTreeRecursive
    <3> QED BY <1>1, <1>3, <3>2, <3>3, <3>4
  <2>2. l = level - 1 /\ level' = level - 1 /\ next' = N_level[l]
    BY <1>3, <1>6, <1>8, <2>1
  <2> QED BY <1>3, <1>5, <1>6, <2>1, <2>2
<1>9. CASE l = level
  <2>1. CASE NextBucket > 0
    <3>1. next' = NextBucket /\ UNCHANGED <<phase, level>>
      BY <2>1 DEF BuildTreeRecursive
    <3>2. IF NextBucket >= N_level[l] THEN N_level[l] <= n /\ n < NextBucket
                                      ELSE n > NextBucket
      BY <1>1, <1>3, <1>6, <1>9, <3>1
    <3>3. IF next >= N_level[l] THEN N_level[l] <= n /\ n < next ELSE n > next
      BY <1>3, <1>4, <1>5, <1>9, <2>1, <3>2 DEF NextBucket, AfterLeaves, BuiltBuckets
    <3> QED BY <1>1, <1>4, <1>9, <3>3 DEF Done
  <2>2. CASE ~(NextBucket > 0)
    <3>1. IF next >= N_level[l] THEN N_level[l] <= n /\ n < next ELSE n > next
      BY <1>3, <1>4, <1>5, <1>9, <2>2 DEF NextBucket, AfterLeaves, BuiltBuckets, Buckets
    <3> QED BY <1>1, <1>4, <1>9, <3>1 DEF Done
  <2> QED BY <2>1, <2>2
<1> QED BY <1>3, <1>7, <1>8, <1>9

(* A step of the build writes the next bucket and no byte of any other. *)
LEMMA BuildFaith ==
  ASSUME FaithInv, BuildTreeRecursive, Sized'
  PROVE  FaithInv'
<1>1. /\ phase = "build" /\ level \in Levels /\ next \in Buckets(level) /\ Sized
      /\ UNCHANGED params /\ last' = last
      /\ inmem_tree_l' = [inmem_tree_l EXCEPT ![level] =
           Stored(@, ObjectOffset(level, next), Bucket(level, next, 0))]
      /\ phase' \in {"build", "ready"}
  BY DEF BuildTreeRecursive, FaithInv, Sized, TreesSized
<1>2. LastSized /\ \A l \in Levels : Roomy(l) => \A n \in Done(l) : Written(l, n)
  BY <1>1 DEF FaithInv, DoneWritten
<1>3. /\ Levels' = Levels
      /\ \A l : /\ BucketSize(l)' = BucketSize(l) /\ Buckets(l)' = Buckets(l)
                /\ Roomy(l)' = Roomy(l)
  BY <1>1, SameTrees
<1>4. LastSized'
  BY <1>1, <1>2, <1>3 DEF LastSized
<1>5. ASSUME NEW l \in Levels, Roomy(l), NEW n \in Buckets(l),
             (l = level /\ n = next) \/ Written(l, n)
      PROVE  Written(l, n)'
  <2>1. SUFFICES ASSUME NEW k \in 0 .. BucketSize(l) - 1
                 PROVE  Byte(inmem_tree_l'[l], BucketSize(l) * (n - 1) + k)
                          = <<l, n, last[l][n], k>>
    BY <1>1, <1>3 DEF Written, Byte
  <2> DEFINE s == BucketSize(l)
             a == s * (n - 1) + k
  <2>2. s \in Nat /\ n \in Nat \ {0} /\ a \in Nat
    <3>1. s \in Nat /\ n \in Nat \ {0}
      BY <1>1, Kinds, BuiltAreBuckets
    <3> QED BY <3>1
  <2>3. a \in DOMAIN inmem_tree_l[l]
    <3>1. Inside(inmem_tree_l[l], s * (n - 1), s)
      <4>1. s * (n - 1) \in Nat
        BY <2>2
      <4> QED BY <1>1, <1>5, <2>2, <4>1, BucketInside DEF Roomy
    <3>2. a \in s * (n - 1) .. s * (n - 1) + s - 1
      <4>1. k \in 0 .. s - 1
        OBVIOUS
      <4> HIDE DEF s
      <4>2. s * (n - 1) \in Nat
        BY <2>2
      <4> QED BY <2>2, <4>1, <4>2
    <3> QED BY <3>1, <3>2 DEF Inside
  <2>4. DOMAIN inmem_tree_l = Levels
    BY <1>1 DEF Sized, MemorySized
  <2>5. CASE l # level
    <3>1. inmem_tree_l'[l] = inmem_tree_l[l]
      BY <1>1, <2>4, <2>5
    <3> QED BY <1>1, <1>5, <2>5, <3>1 DEF Written, Byte
  <2>6. CASE l = level
    <3> DEFINE off == ObjectOffset(l, next)
               bytes == Bucket(l, next, 0)
    <3>1. inmem_tree_l'[l] =
            [h \in DOMAIN inmem_tree_l[l] |->
               IF h - off \in DOMAIN bytes THEN bytes[h - off] ELSE inmem_tree_l[l][h]]
      BY <1>1, <2>4, <2>6 DEF Stored
    <3>2. Byte(inmem_tree_l'[l], a) =
            IF a - off \in DOMAIN bytes THEN bytes[a - off] ELSE inmem_tree_l[l][a]
      BY <2>3, <3>1 DEF Byte
    <3>3. off = s * (next - 1) /\ next \in Nat \ {0}
      BY <1>1, <1>5, <2>6, Addresses, BuiltAreBuckets DEF Roomy
    <3>4. DOMAIN bytes = 0 .. s - 1 /\ \A h \in 0 .. s - 1 : bytes[h] = <<l, next, 0, h>>
      BY DEF Bucket
    <3>5. CASE n = next
      <4>1. a - off = k
        <5> HIDE DEF s, off
        <5>1. s * (n - 1) \in Int
          BY <2>2
        <5> QED BY <2>2, <3>3, <3>5, <5>1
      <4>2. last[l][n] = 0
        BY <1>1, <1>2 DEF LastSized
      <4> QED BY <2>1, <3>2, <3>4, <3>5, <4>1, <4>2
    <3>6. CASE n # next
      <4>1. a - off \notin 0 .. s - 1
        <5>1. ASSUME a - off \in 0 .. s - 1 PROVE FALSE
          <6> DEFINE j == a - off
          <6>1. s * (n - 1) + k = s * (next - 1) + j
            <7> HIDE DEF s, off
            <7>1. s * (n - 1) \in Int /\ s * (next - 1) \in Int
              BY <2>2, <3>3
            <7> QED BY <3>3, <7>1
          <6> HIDE DEF s, j
          <6>2. j \in 0 .. s - 1 /\ k \in 0 .. s - 1
            BY <2>1, <5>1 DEF j, s
          <6> QED BY <2>2, <3>3, <3>6, <6>1, <6>2, BucketsApart
        <5> QED BY <5>1
      <4>2. Byte(inmem_tree_l[l], a) = inmem_tree_l[l][a]
        BY <2>3 DEF Byte
      <4> QED BY <1>5, <3>2, <3>4, <3>6, <4>1, <4>2 DEF Written
    <3> QED BY <3>5, <3>6
  <2> QED BY <2>5, <2>6
<1>6. ASSUME NEW l \in Levels, Roomy(l), NEW n \in Done(l)' PROVE Written(l, n)'
  <2>1. n \in Done(l) \/ (l = level /\ n = next)
    BY <1>1, BuildOrder
  <2>2. n \in Buckets(l)
    BY <1>1, <2>1, BuiltAreBuckets DEF Done
  <2> QED BY <1>2, <1>5, <1>6, <2>1, <2>2
<1>7. DoneWritten'
  BY <1>3, <1>4, <1>6 DEF DoneWritten
<1> QED BY <1>1, <1>7 DEF FaithInv, PathReady

(* Where the memory and the record of the uploads stay, so does what is    *)
(* written.                                                                *)
LEMMA WrittenStays ==
  ASSUME Sized, DoneWritten, Built, Built', UNCHANGED <<params, inmem_tree_l, last>>
  PROVE  DoneWritten'
<1>1. /\ phase \notin {"init", "new", "build"} /\ phase' \notin {"init", "new", "build"}
      /\ UNCHANGED params
  BY DEF Built
<1>2. /\ Levels' = Levels
      /\ \A l : /\ BucketSize(l)' = BucketSize(l) /\ Buckets(l)' = Buckets(l)
                /\ BuiltBuckets(l)' = BuiltBuckets(l) /\ Roomy(l)' = Roomy(l)
  BY <1>1, SameTrees
<1>3. LastSized'
  BY <1>1, <1>2 DEF DoneWritten, LastSized
<1>4. \A l : Done(l)' = Done(l)
  BY <1>1, <1>2 DEF Done
<1>5. \A l, n : Written(l, n)' = Written(l, n)
  <2> TAKE l, n
  <2>1. BucketSize(l)' = BucketSize(l)
    BY <1>2
  <2> QED BY <2>1 DEF Written, Byte
<1> QED BY <1>1, <1>2, <1>3, <1>4, <1>5 DEF DoneWritten

(* The new path has every bucket of it in its place. *)
LEMMA NewPathFaith ==
  ASSUME FaithInv, CreateNewPathHash, Sized'
  PROVE  FaithInv'
<1>1. /\ phase = "verified" /\ phase' = "upload" /\ level \in Levels /\ Sized
      /\ leaf \in 0 .. N_level[level] - 1
      /\ UNCHANGED <<params, inmem_tree_l, level, leaf, accesses, last>>
      /\ encrypted_path' = EncryptedPath
  BY DEF CreateNewPathHash, memory, FaithInv, Sized, TreesSized
<1>2. DoneWritten'
  BY <1>1, WrittenStays DEF FaithInv, Built, Phases
<1>3. PathReady'
  <2>1. /\ BucketSize(level)' = BucketSize(level) /\ Depths(level)' = Depths(level)
        /\ \A i : Node(level, leaf, i)' = Node(level, leaf, i)
        /\ Comfortable' = Comfortable
    <3>1. /\ \A l : /\ BucketSize(l)' = BucketSize(l) /\ Depths(l)' = Depths(l)
                    /\ \A f, i : Node(l, f, i)' = Node(l, f, i)
          /\ Comfortable' = Comfortable
      BY <1>1, SameTrees, SameSizes DEF params
    <3>2. /\ BucketSize(level)' = BucketSize(level) /\ Depths(level)' = Depths(level)
      BY <1>1, <3>1 DEF BucketSize, BlockSize, Depths, params
    <3>3. \A i : Node(level, leaf, i)' = Node(level, leaf, i)
      BY <1>1 DEF Node, params
    <3> QED BY <3>1, <3>2, <3>3
  <2> SUFFICES ASSUME Comfortable, NEW i \in Depths(level),
                      NEW k \in 0 .. BucketSize(level) - 1
               PROVE  EncryptedPath[i * BucketSize(level) + k]
                        = <<level, Node(level, leaf, i), accesses, k>>
    BY <1>1, <2>1 DEF PathReady
  <2> DEFINE s == BucketSize(level)
             d == D_level[level]
             a == i * s + k
             path == [h \in 0 .. s * (d + 1) - 1 |->
                        <<level, Node(level, leaf, h \div s), accesses, h % s>>]
  <2>2. s \in Nat \ {0} /\ d \in Nat /\ i \in 0 .. d /\ k \in 0 .. s - 1
    BY <1>1, Kinds DEF Depths
  <2>3. EncryptedPath = Stored(encrypted_path, 0, path)
    BY DEF EncryptedPath
  <2>4. a \in 0 .. s * (d + 1) - 1 /\ a \div s = i /\ a % s = k
    <3> HIDE DEF s, d
    <3> QED BY <2>2, PlaceInPath
  <2>5. a \in DOMAIN encrypted_path
    <3>1. Built
      BY <1>1 DEF Built, Phases
    <3>2. DOMAIN encrypted_path = 0 .. largest_path_size - 1
      BY <1>1, <3>1 DEF Sized, BuffersSized
    <3>3. s * (d + 1) \in Nat /\ largest_path_size \in Nat /\ s * (d + 1) <= largest_path_size
      BY <1>1, <3>1, PathInside
    <3> HIDE DEF s, d, a
    <3> QED BY <2>4, <3>2, <3>3
  <2>6. a - 0 = a /\ a \in DOMAIN path
    BY <2>2, <2>4
  <2>7. EncryptedPath[a] = path[a]
    <3> HIDE DEF path, a
    <3> QED BY <2>3, <2>5, <2>6 DEF Stored
  <2>8. path[a] = <<level, Node(level, leaf, i), accesses, k>>
    <3> HIDE DEF a, s
    <3> QED BY <2>4
  <2> QED BY <2>7, <2>8
<1> QED BY <1>2, <1>3 DEF FaithInv

(* The upload writes the buckets of the path and no others. *)
LEMMA UploadFaith ==
  ASSUME FaithInv, uploadPath, Sized'
  PROVE  FaithInv'
<1>1. /\ phase = "upload" /\ level \in Levels /\ Sized /\ UNCHANGED params
      /\ leaf \in 0 .. N_level[level] - 1 /\ accesses' = accesses
      /\ phase \notin {"init", "new"}
  BY DEF uploadPath, FaithInv, Sized, TreesSized
<1>2. phase' \in {"ready", "download"}
  BY <1>1, NextLevelSized DEF uploadPath
<1>3. /\ LastSized /\ \A l \in Levels : Roomy(l) => \A n \in Done(l) : Written(l, n)
      /\ PathReady
  BY <1>1 DEF FaithInv, DoneWritten
<1>4. /\ Levels' = Levels
      /\ \A l : /\ BucketSize(l)' = BucketSize(l) /\ Buckets(l)' = Buckets(l)
                /\ BuiltBuckets(l)' = BuiltBuckets(l) /\ Roomy(l)' = Roomy(l)
  BY <1>1, SameTrees
<1>5. last' = [last EXCEPT ![level] =
        [n \in Buckets(level) |->
           IF \E i \in Depths(level) : n = Node(level, leaf, i) THEN accesses
                                                                ELSE last[level][n]]]
  BY DEF uploadPath
<1>6. LastSized'
  BY <1>1, <1>2, <1>3, <1>4, <1>5 DEF LastSized
<1>7. ASSUME NEW l \in Levels, NEW n \in Done(l)'
      PROVE  n \in Done(l) /\ n \in Buckets(l)
  BY <1>1, <1>2, <1>4, <1>7, BuiltAreBuckets DEF Done
<1>8. ASSUME NEW l \in Levels, Roomy(l), NEW n \in Buckets(l), Written(l, n)
      PROVE  Written(l, n)'
  <2> DEFINE s == BucketSize(l)
  <2>1. SUFFICES ASSUME NEW k \in 0 .. s - 1
                 PROVE  Byte(inmem_tree_l'[l], s * (n - 1) + k) = <<l, n, last'[l][n], k>>
    BY <1>4 DEF Written, Byte
  <2> DEFINE a == s * (n - 1) + k
  <2>2. s \in Nat /\ s > 0 /\ n \in Nat \ {0} /\ a \in Nat
    <3>1. s \in Nat /\ n \in Nat \ {0}
      BY <1>1, Kinds, BuiltAreBuckets
    <3> QED BY <2>1, <3>1
  <2>3. a \in DOMAIN inmem_tree_l[l]
    <3>1. Inside(inmem_tree_l[l], s * (n - 1), s)
      <4>1. s * (n - 1) \in Nat
        BY <2>2
      <4> QED BY <1>1, <1>8, <2>2, <4>1, BucketInside DEF Roomy
    <3>2. a \in s * (n - 1) .. s * (n - 1) + s - 1
      <4>1. k \in 0 .. s - 1
        OBVIOUS
      <4> HIDE DEF s
      <4>2. s * (n - 1) \in Nat
        BY <2>2
      <4> QED BY <2>2, <4>1, <4>2
    <3> QED BY <3>1, <3>2 DEF Inside
  <2>4. inmem_tree_l[l][a] = <<l, n, last[l][n], k>>
    BY <1>8, <2>1, <2>3 DEF Written, Byte
  <2>5. DOMAIN inmem_tree_l = Levels /\ DOMAIN last = Levels
    BY <1>1, <1>3 DEF Sized, MemorySized, LastSized
  <2>6. CASE l # level
    <3>1. inmem_tree_l'[l] = inmem_tree_l[l] /\ last'[l] = last[l]
      BY <1>5, <2>5, <2>6 DEF uploadPath
    <3> QED BY <2>3, <2>4, <3>1 DEF Byte
  <2>7. CASE l = level
    <3> DEFINE over == OnPath(a)
    <3>1. Byte(inmem_tree_l'[l], a) =
            IF over = {} THEN inmem_tree_l[l][a]
            ELSE encrypted_path[Max(over) * s + a
                     - PathOffset(l, Node(l, leaf, Max(over)))]
      <4>1. inmem_tree_l'[l] =
              [h \in DOMAIN inmem_tree_l[l] |->
                 LET o == OnPath(h)
                 IN  IF o = {} THEN inmem_tree_l[l][h]
                     ELSE encrypted_path[Max(o) * s + h
                            - PathOffset(l, Node(l, leaf, Max(o)))]]
        BY <2>5, <2>7 DEF uploadPath
      <4> HIDE DEF s, a
      <4> QED BY <2>3, <4>1 DEF Byte
    <3>2. ASSUME NEW i \in Depths(l)
          PROVE  /\ PathOffset(l, Node(l, leaf, i)) = s * (Node(l, leaf, i) - 1)
                 /\ Node(l, leaf, i) \in Nat \ {0}
      <4>1. Node(l, leaf, i) \in Buckets(l)
        BY <1>1, <2>7, NodeIsBucket
      <4> QED BY <1>1, <1>8, <2>2, <4>1, Addresses, BuiltAreBuckets DEF Roomy
    <3>3. ASSUME NEW i \in Depths(l)
          PROVE  i \in over <=> n = Node(l, leaf, i)
      <4> DEFINE m == Node(l, leaf, i)
      <4>1. i \in over <=> a \in s * (m - 1) .. s * (m - 1) + s - 1
        <5>1. i \in over <=> a \in PathOffset(l, m) .. PathOffset(l, m) + s - 1
          BY <2>7 DEF OnPath
        <5> QED BY <3>2, <5>1
      <4>2. m \in Nat \ {0}
        BY <3>2
      <4>3. k \in 0 .. s - 1
        OBVIOUS
      <4> HIDE DEF m, s, over
      <4>4. s * (m - 1) \in Nat /\ s * (n - 1) \in Nat
        BY <2>2, <4>2
      <4>5. ASSUME i \in over PROVE n = m
        <5> DEFINE j == a - s * (m - 1)
        <5>1. j \in 0 .. s - 1 /\ s * (n - 1) + k = s * (m - 1) + j
          BY <2>2, <4>1, <4>3, <4>4, <4>5
        <5> HIDE DEF j
        <5> QED BY <2>2, <4>2, <4>3, <5>1, BucketsApart
      <4>6. ASSUME n = m PROVE i \in over
        BY <2>2, <4>1, <4>3, <4>4, <4>6
      <4> QED BY <4>5, <4>6 DEF m
    <3>4. over \subseteq Depths(l)
      BY <2>7 DEF OnPath
    <3>5. CASE over = {}
      <4>1. ~\E i \in Depths(l) : n = Node(l, leaf, i)
        BY <3>3, <3>5
      <4>2. last'[l][n] = last[l][n]
        BY <1>5, <2>5, <2>7, <4>1
      <4> QED BY <2>4, <3>1, <3>5, <4>2
    <3>6. CASE over # {}
      <4>1. Max(over) \in over
        <5>1. D_level[l] \in Nat
          BY <1>1, Kinds
        <5>2. over \in SUBSET (0 .. D_level[l])
          BY <3>4 DEF Depths
        <5> HIDE DEF over
        <5> QED BY <3>6, <5>1, <5>2, GreatestElement
      <4>2. PICK i \in Depths(l) : i = Max(over) /\ n = Node(l, leaf, i)
        BY <3>3, <3>4, <4>1
      <4>3. last'[l][n] = accesses
        BY <1>5, <2>5, <2>7, <4>2
      <4>4. i * s + a - PathOffset(l, Node(l, leaf, i)) = i * s + k
        <5>1. PathOffset(l, Node(l, leaf, i)) = s * (n - 1) /\ i \in Nat
          BY <1>1, <3>2, <4>2, Kinds DEF Depths
        <5> HIDE DEF s
        <5>2. i * s \in Nat /\ s * (n - 1) \in Nat /\ k \in Int
          BY <2>2, <5>1
        <5> QED BY <5>1, <5>2
      <4>5. encrypted_path[i * s + k] = <<l, Node(l, leaf, i), accesses, k>>
        BY <1>1, <1>3, <1>8, <2>7 DEF PathReady, Roomy
      <4> QED BY <3>1, <3>6, <4>2, <4>3, <4>4, <4>5
    <3> QED BY <3>5, <3>6
  <2> QED BY <2>6, <2>7
<1>9. DoneWritten'
  BY <1>3, <1>4, <1>6, <1>7, <1>8 DEF DoneWritten
<1> QED BY <1>2, <1>9 DEF FaithInv, PathReady

(* When the build starts, no bucket is done. *)
LEMMA NothingDone ==
  ASSUME Sized, ZT_New
  PROVE  Levels' = Levels /\ LastSized' /\ \A l \in Levels : Done(l)' = {}
<1>1. /\ phase' = "build" /\ level' = recursion_levels
      /\ next' = 2 ^ Depth(recursion_levels)
      /\ N_level' = [l \in Levels |-> 2 ^ Depth(l)] /\ cfg' = cfg
      /\ recursion_levels' = recursion_levels
      /\ last' = [l \in Levels |-> [n \in 1 .. 2 * 2 ^ Depth(l) - 1 |-> 0]]
  BY DEF ZT_New
<1>2. Levels' = Levels /\ Counted /\ recursion_levels \in Levels
      /\ recursion_levels \in Nat
  BY <1>1, SameSizes, Parameters
     DEF Sized, MemorySized, Levels, ZT_New
<1>3. \A l \in Levels : Buckets(l)' = 1 .. 2 * 2 ^ Depth(l) - 1
  BY <1>1 DEF Buckets
<1>4. LastSized'
  <2> HIDE DEF Depth
  <2> QED BY <1>1, <1>2, <1>3 DEF LastSized
<1>5. \A l \in Levels : Done(l)' = {}
  <2> TAKE l \in Levels
  <2>1. l \in Nat /\ l <= recursion_levels
    BY <1>2 DEF Levels
  <2>2. l = recursion_levels => N_level'[l] = next' /\ next' \in Nat
    BY <1>1, <1>2, DepthExists
  <2>3. ASSUME NEW n \in Done(l)' PROVE FALSE
    <3>1. n \in BuiltBuckets(l)'
      BY DEF Done
    <3>2. n \in Nat
      BY <3>1, <1>1, <1>2, DepthExists DEF BuiltBuckets, Buckets
    <3>3. /\ l = recursion_levels
          /\ IF next' >= N_level'[l] THEN N_level'[l] <= n /\ n < next' ELSE n > next'
      BY <1>1, <1>2, <2>1, <2>3 DEF Done
    <3> QED BY <2>2, <3>2, <3>3
  <2> QED BY <2>3
<1> QED BY <1>2, <1>4, <1>5

(* Every step keeps what is written. *)
LEMMA NextFaith == FaithInv /\ NoOverrun /\ [Next]_vars => FaithInv'
<1> SUFFICES ASSUME FaithInv, NoOverrun, [Next]_vars PROVE FaithInv'
  OBVIOUS
<1>1. Sized' /\ Sized
  BY NextSized DEF FaithInv
<1>2. CASE ZT_initLocalStorage
  BY <1>1, <1>2 DEF ZT_initLocalStorage, FaithInv, DoneWritten, PathReady
<1>3. CASE ZT_New
  <2>1. phase' = "build" /\ Levels' = Levels /\ LastSized' /\ \A l \in Levels : Done(l)' = {}
    BY <1>1, <1>3, NothingDone DEF ZT_New
  <2> QED BY <1>1, <2>1 DEF FaithInv, DoneWritten, PathReady
<1>4. CASE BuildTreeRecursive
  BY <1>1, <1>4, BuildFaith
<1>5. CASE (\E o \in {"w", "z"} : Access(o)) \/ downloadPath \/ verifyPath
  <2>1. /\ Built /\ Built' /\ phase' # "upload"
        /\ UNCHANGED <<params, inmem_tree_l, last>>
    BY <1>5 DEF Access, downloadPath, verifyPath, memory, Built, Phases
  <2> QED BY <1>1, <2>1, WrittenStays DEF FaithInv, PathReady
<1>6. CASE AccessRead
  <2>1. /\ Built /\ phase = "verified" /\ UNCHANGED <<params, inmem_tree_l, last>>
        /\ NextLevel("ready")
    BY <1>6 DEF AccessRead, memory, Built, Phases
  <2>2. Built' /\ phase' # "upload"
    BY <1>1, <2>1, NextLevelSized DEF Built, Phases
  <2> QED BY <1>1, <2>1, <2>2, WrittenStays DEF FaithInv, PathReady
<1>7. CASE CreateNewPathHash
  BY <1>1, <1>7, NewPathFaith
<1>8. CASE uploadPath
  BY <1>1, <1>8, UploadFaith
<1>9. CASE UNCHANGED vars
  <2>1. /\ UNCHANGED <<cfg, phase, recursion_levels, D_level, N_level, inmem_tree_l, last,
                       level, next, leaf, accesses, encrypted_path>>
        /\ UNCHANGED params
    BY <1>9 DEF vars, params
  <2>2. /\ Levels' = Levels
        /\ \A l : /\ BucketSize(l)' = BucketSize(l) /\ Buckets(l)' = Buckets(l)
                  /\ BuiltBuckets(l)' = BuiltBuckets(l) /\ Roomy(l)' = Roomy(l)
    BY <2>1, SameTrees
  <2>3. LastSized' = LastSized
    BY <2>1, <2>2 DEF LastSized
  <2>4. \A l : Done(l)' = Done(l)
    BY <2>1, <2>2 DEF Done
  <2>5. \A l, n : Written(l, n)' = Written(l, n)
    <3> TAKE l, n
    <3>1. BucketSize(l)' = BucketSize(l)
      BY <2>2
    <3> QED BY <2>1, <3>1 DEF Written, Byte
  <2>6. PathReady' = PathReady
    BY <2>1 DEF PathReady, Comfortable, Depths, BucketSize, BlockSize, Node
  <2> QED BY <1>1, <2>1, <2>2, <2>3, <2>4, <2>5, <2>6 DEF FaithInv, DoneWritten
<1> QED
  BY <1>2, <1>3, <1>4, <1>5, <1>6, <1>7, <1>8, <1>9 DEF Next

(* Through the build and any accesses, a bucket reads as it was last       *)
(* uploaded, as an object or in a path: no other bucket's bytes reach it,  *)
(* in any tree whose addresses fit the width the paths are computed in.    *)
THEOREM StorageIsFaithful == Spec => []MemoryFaithful
<1>1. Init => FaithInv
  BY InitSized DEF Init, FaithInv, DoneWritten, PathReady
<1>2. FaithInv => MemoryFaithful
  <2> SUFFICES ASSUME FaithInv, Settled, NEW l \in Levels, Addressable(l), Comfortable,
                      NEW n \in BuiltBuckets(l), NEW k \in 0 .. BucketSize(l) - 1
               PROVE  Byte(inmem_tree_l[l], BucketSize(l) * (n - 1) + k)
                        = <<l, n, last[l][n], k>>
    BY DEF MemoryFaithful, BuiltBuckets
  <2>1. phase \notin {"init", "new", "build"}
    BY DEF Settled
  <2>2. n \in Done(l) /\ Roomy(l)
    BY <2>1 DEF Done, Roomy
  <2>3. Written(l, n)
    BY <2>1, <2>2 DEF FaithInv, DoneWritten
  <2> QED BY <2>3 DEF Written
<1>3. FaithInv /\ NoOverrun /\ [Next]_vars => FaithInv'
  BY NextFaith
<1> QED BY <1>1, <1>2, <1>3, AlwaysSized, PTL DEF Spec
=============================================================================
