---------------------------- MODULE Reducer_proofs ----------------------------
(* Theorems about Reducer, for every block of well-formed transactions and *)
(* whatever lies behind the buffers.                                       *)
EXTENDS Reducer, NaturalsInduction, WellFoundedInduction, SequenceTheorems, TLAPS

-----------------------------------------------------------------------------
(* Sequences of sequences. *)

(* A set of numbers that has an element has a least one. *)
LEMMA LeastElement ==
  ASSUME NEW T \in SUBSET Nat, T # {}
  PROVE  \E k \in T : \A p \in T : k <= p
<1>1. PICK k \in T : \A t \in T : <<t, k>> \notin OpToRel(<, Nat)
  BY NatLessThanWellFounded, WFMin
<1>2. \A t \in T : ~(t < k)
  BY <1>1 DEF OpToRel
<1>3. k \in Nat /\ \A t \in T : t \in Nat
  OBVIOUS
<1>4. \A t \in T : k <= t
  BY <1>2, <1>3
<1> QED BY <1>4

(* A recursive function whose steps stay in a set exists, and its values   *)
(* are in that set.  The steps are functions, so that there is no need for *)
(* an operator parameter.                                                  *)
AreSteps(f, D, b, n, h) ==
  /\ f \in [0 .. n -> D]
  /\ f[0] = b
  /\ \A k \in 1 .. n : f[k] = h[k][f[k - 1]]

(* Such a function exists: else there is a least number of steps with none. *)
LEMMA StepsExist ==
  ASSUME NEW D, NEW b \in D, NEW n \in Nat, NEW h \in [1 .. n -> [D -> D]]
  PROVE  \E f : AreSteps(f, D, b, n, h)
<1> DEFINE Are(f, m) == AreSteps(f, D, b, m, h)
           T == { m \in Nat : m <= n /\ ~\E f : Are(f, m) }
<1> SUFFICES ASSUME T # {} PROVE FALSE
  OBVIOUS
<1>1. PICK m \in T : \A p \in T : m <= p
  BY LeastElement
<1>2. CASE m = 0
  <2> DEFINE f == [k \in 0 .. 0 |-> b]
  <2>1. Are(f, 0)
    BY DEF AreSteps
  <2> QED BY <1>2, <2>1
<1>3. CASE m # 0
  <2>0. m \in Nat /\ m <= n
    OBVIOUS
  <2>1. m - 1 \in Nat /\ m - 1 <= n /\ ~(m <= m - 1) /\ m \in 1 .. n
    BY <1>3, <2>0
  <2>2. PICK f : Are(f, m - 1)
    <3> HIDE DEF Are
    <3> QED BY <1>1, <2>1
  <2>8. /\ f \in [0 .. m - 1 -> D] /\ f[0] = b
        /\ \A k \in 1 .. m - 1 : f[k] = h[k][f[k - 1]]
    BY <2>2 DEF AreSteps
  <2> DEFINE g == [k \in 0 .. m |-> IF k = m THEN h[m][f[m - 1]] ELSE f[k]]
  <2>3. f[m - 1] \in D /\ h[m][f[m - 1]] \in D
    BY <2>1, <2>8
  <2>4. g \in [0 .. m -> D]
    BY <2>1, <2>8, <2>3
  <2>5. g[0] = b
    BY <2>1, <2>8
  <2>6. ASSUME NEW k \in 1 .. m
        PROVE  g[k] = h[k][g[k - 1]]
    <3>1. CASE k = m
      BY <2>1, <3>1
    <3>2. CASE k # m
      <4>1. k \in 1 .. m - 1 /\ k \in 0 .. m /\ k - 1 \in 0 .. m /\ k - 1 # m
        BY <2>1, <3>2
      <4>2. g[k] = f[k] /\ g[k - 1] = f[k - 1]
        BY <3>2, <4>1
      <4> QED BY <2>8, <4>1, <4>2
    <3> QED BY <3>1, <3>2
  <2> HIDE DEF g
  <2>7. Are(g, m)
    BY <2>4, <2>5, <2>6 DEF AreSteps
  <2> QED BY <2>7
<1> QED BY <1>2, <1>3

(* Two functions that agree wherever they agree before are the same.       *)
AgreeStep(f, g, m, n) ==
  \A k \in m .. n : (k # m => f[k - 1] = g[k - 1]) => f[k] = g[k]

(* The least place where they differ would be one.                         *)
LEMMA AgreeBefore ==
  ASSUME NEW m \in Nat, NEW n \in Nat, NEW f, NEW g, AgreeStep(f, g, m, n)
  PROVE  \A k \in m .. n : f[k] = g[k]
<1> DEFINE T == { k \in Nat : k \in m .. n /\ f[k] # g[k] }
<1>1. \A k \in m .. n : k \in Nat
  OBVIOUS
<1> SUFFICES ASSUME T # {} PROVE FALSE
  BY <1>1
<1>2. PICK k \in T : \A p \in T : k <= p
  BY LeastElement
<1>3. k \in m .. n /\ f[k] # g[k]
  BY <1>2
<1>4. k # m => k - 1 \in Nat /\ k - 1 \in m .. n /\ ~(k <= k - 1)
  BY <1>3
<1>5. k # m => f[k - 1] = g[k - 1]
  BY <1>2, <1>4
<1> QED BY <1>3, <1>5 DEF AgreeStep

(* The lengths of the first members of a sequence of sequences, added up.  *)
Sums(qs) ==
  LET sum[n \in 0 .. Len(qs)] == IF n = 0 THEN 0 ELSE sum[n - 1] + Len(qs[n])
  IN  sum

(* They are numbers, from 0 on.                                            *)
LEMMA SumsAre ==
  ASSUME NEW S, NEW qs \in Seq(Seq(S))
  PROVE  /\ Sums(qs) \in [0 .. Len(qs) -> Nat]
         /\ Sums(qs)[0] = 0
         /\ \A n \in 1 .. Len(qs) : Sums(qs)[n] = Sums(qs)[n - 1] + Len(qs[n])
<1>1. Len(qs) \in Nat /\ \A n \in 1 .. Len(qs) : Len(qs[n]) \in Nat
  <2>1. \A n \in 1 .. Len(qs) : qs[n] \in Seq(S)
    BY ElementOfSeq
  <2> QED BY <2>1, LenProperties
<1> DEFINE N == Len(qs)
           h == [k \in 1 .. N |-> [v \in Nat |-> v + Len(qs[k])]]
<1>2. h \in [1 .. N -> [Nat -> Nat]] /\ 0 \in Nat /\ N \in Nat
  BY <1>1
<1> HIDE DEF h, N
<1>3. PICK f : AreSteps(f, Nat, 0, N, h)
  BY <1>2, StepsExist
<1> USE DEF AreSteps
<1>4. \A k \in 1 .. N : f[k] = f[k - 1] + Len(qs[k])
  <2>1. \A k \in 1 .. N : k - 1 \in 0 .. N
    BY <1>2
  <2>2. \A k \in 1 .. N : f[k - 1] \in Nat
    BY <1>3, <2>1
  <2> QED BY <1>3, <2>2 DEF h
<1> DEFINE Def(s) == s = [n \in 0 .. N |-> IF n = 0 THEN 0 ELSE s[n - 1] + Len(qs[n])]
<1>5. Def(f)
  <2>1. f = [n \in 0 .. N |-> f[n]]
    BY <1>3
  <2>2. \A n \in 0 .. N : f[n] = IF n = 0 THEN 0 ELSE f[n - 1] + Len(qs[n])
    BY <1>2, <1>3, <1>4
  <2> QED BY <2>1, <2>2
<1> DEFINE s == CHOOSE s : Def(s)
<1>6. Def(s)
  BY <1>5
<1>7. Sums(qs) = s
  BY DEF Sums, N
<1> HIDE DEF s
<1>8. \A n \in 0 .. N : s[n] = IF n = 0 THEN 0 ELSE s[n - 1] + Len(qs[n])
  BY <1>6
<1>9. \A n \in 0 .. N : s[n] = f[n]
  <2>1. AgreeStep(s, f, 0, N)
    <3> SUFFICES ASSUME NEW k \in 0 .. N, k # 0 => s[k - 1] = f[k - 1] PROVE s[k] = f[k]
      BY DEF AgreeStep
    <3>1. k # 0 => k \in 1 .. N
      BY <1>2
    <3> QED BY <1>3, <1>4, <1>8, <3>1
  <2> HIDE DEF Def
  <2> QED BY <1>2, <2>1, AgreeBefore
<1>10. s = f
  <2>1. s = [n \in 0 .. N |-> s[n]] /\ f = [n \in 0 .. N |-> f[n]]
    BY <1>3, <1>6
  <2> QED BY <1>9, <2>1
<1> QED BY <1>3, <1>4, <1>7, <1>10 DEF N

(* FlattenSeq joins one after the other. *)
LEMMA FlattenIs ==
  ASSUME NEW S, NEW qs \in Seq(Seq(S))
  PROVE  \E g : /\ g \in [0 .. Len(qs) -> Seq(S)]
                /\ g[0] = <<>>
                /\ \A n \in 1 .. Len(qs) : g[n] = g[n - 1] \o qs[n]
                /\ FlattenSeq(qs) = g[Len(qs)]
<1>1. Len(qs) \in Nat /\ \A n \in 1 .. Len(qs) : qs[n] \in Seq(S)
  BY LenProperties, ElementOfSeq
<1> DEFINE N == Len(qs)
           h == [k \in 1 .. N |-> [v \in Seq(S) |-> v \o qs[k]]]
<1>2. h \in [1 .. N -> [Seq(S) -> Seq(S)]] /\ <<>> \in Seq(S) /\ N \in Nat
  <2>1. \A k \in 1 .. N, v \in Seq(S) : v \o qs[k] \in Seq(S)
    BY <1>1, ConcatProperties
  <2> QED BY <1>1, <2>1, EmptySeq
<1> HIDE DEF h, N
<1>3. PICK g : AreSteps(g, Seq(S), <<>>, N, h)
  BY <1>2, StepsExist
<1> USE DEF AreSteps
<1>4. \A k \in 1 .. N : g[k] = g[k - 1] \o qs[k]
  <2>1. \A k \in 1 .. N : k - 1 \in 0 .. N
    BY <1>2
  <2>2. \A k \in 1 .. N : g[k - 1] \in Seq(S)
    BY <1>3, <2>1
  <2> QED BY <1>3, <2>2 DEF h
<1>5. FlattenSeq(qs) = g[N]
  <2>1. CASE N = 0
    <3>1. qs = <<>>
      BY <2>1, EmptySeq DEF N
    <3> QED BY <1>3, <2>1, <3>1 DEF FlattenSeq, N
  <2>2. CASE N # 0
    <3> DEFINE Def(s) == s = [n \in 1 .. N |-> IF n = 1 THEN qs[n] ELSE s[n - 1] \o qs[n]]
               f == [n \in 1 .. N |-> g[n]]
               s == CHOOSE s : Def(s)
    <3>1. \A n \in 1 .. N : f[n] = IF n = 1 THEN qs[n] ELSE f[n - 1] \o qs[n]
      <4> TAKE n \in 1 .. N
      <4>1. CASE n = 1
        <5>1. qs[n] \in Seq(S)
          BY <1>1 DEF N
        <5>2. f[n] = g[n] /\ g[n] = g[n - 1] \o qs[n]
          BY <1>4
        <5>3. g[0] = <<>> /\ n - 1 = 0
          BY <1>3, <4>1
        <5> QED BY <4>1, <5>1, <5>2, <5>3, ConcatEmptySeq
      <4>2. CASE n # 1
        <5>1. n - 1 \in 1 .. N
          BY <1>2, <4>2
        <5> QED BY <1>4, <4>2, <5>1, Zenon
      <4> QED BY <4>1, <4>2
    <3>2. Def(f)
      BY <3>1
    <3>3. Def(s)
      BY <3>2, Zenon
    <3>4. FlattenSeq(qs) = s[N]
      BY <2>2 DEF FlattenSeq, N
    <3> HIDE DEF s
    <3>5. \A n \in 1 .. N : s[n] = IF n = 1 THEN qs[n] ELSE s[n - 1] \o qs[n]
      BY <3>3
    <3> HIDE DEF f
    <3>6. \A k \in 1 .. N : s[k] = f[k]
      <4>1. AgreeStep(s, f, 1, N)
        BY <3>1, <3>5 DEF AgreeStep
      <4> HIDE DEF Def
      <4> QED BY <1>2, <4>1, AgreeBefore
    <3>7. N \in 1 .. N
      BY <1>2, <2>2
    <3> QED BY <3>4, <3>6, <3>7 DEF f
  <2> QED BY <2>1, <2>2
<1> QED BY <1>3, <1>4, <1>5 DEF N

(* A function on the first numbers is a sequence. *)
LEMMA FunctionIsSeq ==
  ASSUME NEW S, NEW n \in Nat, NEW s \in [1 .. n -> S]
  PROVE  s \in Seq(S) /\ Len(s) = n
OBVIOUS

(* The bytes p are in s, from offset o on. *)
Has(s, o, p) ==
  /\ o + Len(p) <= Len(s)
  /\ \A k \in 1 .. Len(p) : s[o + k] = p[k]

(* What is in a part is in the whole. *)
LEMMA HasWithin ==
  ASSUME NEW S, NEW s \in Seq(S), NEW p \in Seq(S), NEW q \in Seq(S),
         NEW m \in Nat, NEW n \in Nat, Has(s, m, p), Has(p, n, q)
  PROVE  Has(s, m + n, q)
<1>1. Len(s) \in Nat /\ Len(p) \in Nat /\ Len(q) \in Nat
  BY LenProperties
<1>2. ASSUME NEW k \in 1 .. Len(q)
      PROVE  s[m + n + k] = q[k]
  <2>1. n + k \in 1 .. Len(p) /\ m + (n + k) = m + n + k
    BY <1>1 DEF Has
  <2> QED BY <2>1 DEF Has
<1> QED BY <1>1, <1>2 DEF Has

(* A sequence has itself, and its parts if it is joined from two. *)
LEMMA HasParts ==
  ASSUME NEW S, NEW p \in Seq(S), NEW q \in Seq(S)
  PROVE  Has(p \o q, 0, p) /\ Has(p \o q, Len(p), q)
<1>1. Len(p) \in Nat /\ Len(q) \in Nat
  BY LenProperties
<1> QED BY <1>1, ConcatProperties DEF Has

(* What has a joined sequence has both its parts.                          *)
LEMMA HasJoined ==
  ASSUME NEW S, NEW s \in Seq(S), NEW p \in Seq(S), NEW q \in Seq(S), NEW m \in Nat,
         Has(s, m, p \o q)
  PROVE  Has(s, m, p) /\ Has(s, m + Len(p), q)
<1>1. Len(p) \in Nat /\ p \o q \in Seq(S)
  BY LenProperties, ConcatProperties
<1>2. Has(s, m + 0, p) /\ Has(s, m + Len(p), q)
  BY <1>1, HasParts, HasWithin
<1> QED BY <1>2

(* A flattened sequence has each of its members, at the sum of the lengths *)
(* of those before.                                                        *)
LEMMA FlattenHas ==
  ASSUME NEW S, NEW qs \in Seq(Seq(S))
  PROVE  /\ FlattenSeq(qs) \in Seq(S)
         /\ Len(FlattenSeq(qs)) = Sums(qs)[Len(qs)]
         /\ \A n \in 1 .. Len(qs) : Has(FlattenSeq(qs), Sums(qs)[n - 1], qs[n])
<1>1. PICK g : /\ g \in [0 .. Len(qs) -> Seq(S)]
               /\ g[0] = <<>>
               /\ \A n \in 1 .. Len(qs) : g[n] = g[n - 1] \o qs[n]
               /\ FlattenSeq(qs) = g[Len(qs)]
  BY FlattenIs
<1>2. Len(qs) \in Nat /\ \A n \in 1 .. Len(qs) : qs[n] \in Seq(S)
  BY LenProperties, ElementOfSeq
<1> DEFINE u == Sums(qs)
           C(m) == /\ Len(g[m]) = u[m]
                   /\ \A n \in 1 .. m : Has(g[m], u[n - 1], qs[n])
<1>3. /\ u \in [0 .. Len(qs) -> Nat] /\ u[0] = 0
      /\ \A n \in 1 .. Len(qs) : u[n] = u[n - 1] + Len(qs[n])
  BY SumsAre
<1> HIDE DEF u
<1>4. \A m \in 0 .. Len(qs) : C(m)
  <2> DEFINE T == { m \in Nat : m \in 0 .. Len(qs) /\ ~C(m) }
  <2> HIDE DEF C
  <2> SUFFICES ASSUME T # {} PROVE FALSE
    BY <1>2
  <2>1. PICK m \in T : \A p \in T : m <= p
    BY LeastElement
  <2>2. CASE m = 0
    <3>1. Len(g[0]) = 0
      BY <1>1, EmptySeq
    <3>2. C(0)
      BY <1>3, <3>1 DEF C
    <3> QED BY <2>1, <2>2, <3>2
  <2>3. CASE m # 0
    <3>1. m - 1 \in 0 .. Len(qs) /\ m - 1 \notin T /\ m \in 1 .. Len(qs)
      BY <1>2, <2>1, <2>3
    <3>2. C(m - 1)
      BY <1>2, <3>1
    <3>3. /\ g[m] = g[m - 1] \o qs[m] /\ g[m - 1] \in Seq(S) /\ qs[m] \in Seq(S)
          /\ g[m] \in Seq(S)
      BY <1>1, <1>2, <2>1, <3>1
    <3>4. Has(g[m], 0, g[m - 1]) /\ Has(g[m], Len(g[m - 1]), qs[m])
      BY <3>3, HasParts
    <3>5. Len(g[m]) = Len(g[m - 1]) + Len(qs[m])
      BY <3>3, ConcatProperties
    <3>6. ASSUME NEW n \in 1 .. m
          PROVE  Has(g[m], u[n - 1], qs[n])
      <4>1. CASE n = m
        BY <3>2, <3>4, <4>1 DEF C
      <4>2. CASE n # m
        <5>1. n \in 1 .. m - 1 /\ n \in 1 .. Len(qs) /\ n - 1 \in 0 .. Len(qs)
          BY <2>1, <4>2
        <5>2. Has(g[m - 1], u[n - 1], qs[n])
          BY <3>2, <5>1 DEF C
        <5>3. u[n - 1] \in Nat /\ qs[n] \in Seq(S)
          BY <1>2, <1>3, <5>1
        <5>4. Has(g[m], 0 + u[n - 1], qs[n])
          BY <3>3, <3>4, <5>2, <5>3, HasWithin
        <5> QED BY <5>3, <5>4
      <4> QED BY <4>1, <4>2
    <3>7. C(m)
      <4>1. Len(g[m]) = u[m]
        BY <1>3, <3>1, <3>2, <3>5 DEF C
      <4> QED BY <3>6, <4>1 DEF C
    <3> QED BY <2>1, <3>7
  <2> QED BY <2>2, <2>3
<1>5. C(Len(qs)) /\ g[Len(qs)] \in Seq(S)
  BY <1>1, <1>2, <1>4
<1> QED BY <1>1, <1>5 DEF u

-----------------------------------------------------------------------------
(* Numbers as bytes. *)

(* The digits of LE are quotients by 256, one after the other. *)
AreDigits(q, n, w) ==
  /\ q \in [1 .. w -> Nat]
  /\ q[1] = n
  /\ \A k \in 2 .. w : q[k] = q[k - 1] \div 256
  /\ LE(n, w) = [k \in 1 .. w |-> q[k] % 256]

(* There are such quotients.                                               *)
LEMMA LEIs ==
  ASSUME NEW n \in Nat, NEW w \in Nat, w > 0
  PROVE  \E q : AreDigits(q, n, w)
<1> DEFINE m == w - 1
           h == [k \in 1 .. m |-> [v \in Nat |-> v \div 256]]
<1>1. h \in [1 .. m -> [Nat -> Nat]] /\ m \in Nat
  <2>1. \A v \in Nat : v \div 256 \in Nat
    OBVIOUS
  <2> QED BY <2>1
<1> HIDE DEF h
<1>2. PICK f : AreSteps(f, Nat, n, m, h)
  BY <1>1, StepsExist
<1>3. /\ f \in [0 .. m -> Nat] /\ f[0] = n
      /\ \A k \in 1 .. m : f[k] = h[k][f[k - 1]]
  BY <1>2 DEF AreSteps
<1>4. \A k \in 1 .. m : f[k] = f[k - 1] \div 256
  <2>1. \A k \in 1 .. m : k - 1 \in 0 .. m
    BY <1>1
  <2>2. \A k \in 1 .. m : f[k - 1] \in Nat
    BY <1>3, <2>1
  <2> QED BY <1>3, <2>2 DEF h
<1> DEFINE g == [k \in 1 .. w |-> f[k - 1]]
           Def(q) == q = [k \in 1 .. w |-> IF k = 1 THEN n ELSE q[k - 1] \div 256]
           s == CHOOSE q : Def(q)
<1>5. \A k \in 1 .. w : g[k] = IF k = 1 THEN n ELSE g[k - 1] \div 256
  <2> TAKE k \in 1 .. w
  <2>1. CASE k = 1
    <3>1. g[k] = f[0]
      BY <2>1
    <3> QED BY <1>3, <2>1, <3>1
  <2>2. CASE k # 1
    <3>1. k - 1 \in 1 .. m /\ k - 1 \in 1 .. w
      BY <2>2
    <3>2. g[k] = f[k - 1] /\ g[k - 1] = f[k - 1 - 1]
      BY <3>1
    <3> QED BY <1>4, <2>2, <3>1, <3>2
  <2> QED BY <2>1, <2>2
<1>6. Def(g)
  <2>1. g = [k \in 1 .. w |-> g[k]]
    OBVIOUS
  <2> HIDE DEF g
  <2>2. [k \in 1 .. w |-> g[k]] =
          [k \in 1 .. w |-> IF k = 1 THEN n ELSE g[k - 1] \div 256]
    BY <1>5
  <2> QED BY <2>1, <2>2
<1>7. Def(s)
  <2> HIDE DEF Def, g
  <2> QED BY <1>6, Zenon
<1>8. LE(n, w) = [k \in 1 .. w |-> s[k] % 256]
  BY DEF LE
<1> HIDE DEF s
<1>9. \A k \in 1 .. w : s[k] = IF k = 1 THEN n ELSE s[k - 1] \div 256
  BY <1>7
<1>10. g \in [1 .. w -> Nat]
  <2>1. \A k \in 1 .. w : k - 1 \in 0 .. m
    OBVIOUS
  <2> QED BY <1>3, <2>1
<1> HIDE DEF g, m, Def
<1>11. \A k \in 1 .. w : s[k] = g[k]
  <2>1. AgreeStep(s, g, 1, w)
    BY <1>5, <1>9 DEF AgreeStep
  <2> QED BY <2>1, AgreeBefore
<1>12. \A k \in 2 .. w : k \in 1 .. w /\ k # 1
  OBVIOUS
<1>13. g[1] = n /\ \A k \in 2 .. w : g[k] = g[k - 1] \div 256
  BY <1>5, <1>12
<1>14. AreDigits(g, n, w)
  BY <1>8, <1>10, <1>11, <1>13 DEF AreDigits
<1> QED BY <1>14

(* They are bytes, as many as asked for. *)
LEMMA LEType ==
  ASSUME NEW n \in Nat, NEW w \in Nat, w > 0
  PROVE  LE(n, w) \in Seq(Nat) /\ Len(LE(n, w)) = w
<1>1. PICK q : AreDigits(q, n, w)
  BY LEIs
<1>2. \A k \in 1 .. w : q[k] % 256 \in Nat
  BY <1>1 DEF AreDigits
<1> QED BY <1>1, <1>2 DEF AreDigits

(* The digits of the numbers of four bytes and of two. *)
LEMMA FourDigits ==
  ASSUME NEW n \in Nat, n <= MaxSize
  PROVE  LE(n, 4)[1] + 256 * (LE(n, 4)[2] + 256 * (LE(n, 4)[3] + 256 * LE(n, 4)[4])) = n
<1>1. PICK q : AreDigits(q, n, 4)
  BY LEIs
<1> USE DEF AreDigits
<1>2. q[2] = n \div 256 /\ q[3] = q[2] \div 256 /\ q[4] = q[3] \div 256
  BY <1>1
<1>3. /\ LE(n, 4)[1] = n % 256 /\ LE(n, 4)[2] = q[2] % 256
      /\ LE(n, 4)[3] = q[3] % 256 /\ LE(n, 4)[4] = q[4] % 256
  BY <1>1
<1>4. q[2] \in Nat /\ q[3] \in Nat /\ q[4] \in Nat
  BY <1>1
<1>5. q[4] < 256
  BY <1>2, <1>4 DEF MaxSize
<1>6. \A v \in Nat : v = 256 * (v \div 256) + (v % 256)
  OBVIOUS
<1> HIDE DEF AreDigits
<1>7. /\ n = 256 * q[2] + (n % 256) /\ q[2] = 256 * q[3] + (q[2] % 256)
      /\ q[3] = 256 * q[4] + (q[3] % 256) /\ q[4] % 256 = q[4]
  BY <1>2, <1>4, <1>5, <1>6
<1> QED BY <1>3, <1>4, <1>7

(* The same for the length of two bytes.                                   *)
LEMMA TwoDigits ==
  ASSUME NEW n \in Nat, n < 65536
  PROVE  LE(n, 2)[1] + 256 * LE(n, 2)[2] = n
<1>1. PICK q : AreDigits(q, n, 2)
  BY LEIs
<1> USE DEF AreDigits
<1>2. q[2] = n \div 256 /\ q[2] \in Nat
  BY <1>1
<1>3. LE(n, 2)[1] = n % 256 /\ LE(n, 2)[2] = q[2] % 256
  BY <1>1
<1> QED BY <1>2, <1>3

(* FromLE adds up the digits from the last to the first. *)
AreValues(v, bytes) ==
  /\ v \in [0 .. Len(bytes) -> Nat]
  /\ v[0] = 0
  /\ \A k \in 1 .. Len(bytes) : v[k] = bytes[Len(bytes) + 1 - k] + 256 * v[k - 1]
  /\ FromLE(bytes) = v[Len(bytes)]

(* There are such values.                                                  *)
LEMMA FromLEIs ==
  ASSUME NEW bytes \in Seq(Nat)
  PROVE  \E v : AreValues(v, bytes)
<1> DEFINE N == Len(bytes)
           h == [k \in 1 .. N |-> [v \in Nat |-> bytes[N + 1 - k] + 256 * v]]
<1>1. N \in Nat /\ \A k \in 1 .. N : bytes[N + 1 - k] \in Nat
  BY LenProperties
<1>2. h \in [1 .. N -> [Nat -> Nat]]
  <2>1. \A k \in 1 .. N, v \in Nat : bytes[N + 1 - k] + 256 * v \in Nat
    BY <1>1
  <2> HIDE DEF N
  <2> QED BY <2>1
<1> HIDE DEF h, N
<1>3. PICK f : AreSteps(f, Nat, 0, N, h)
  BY <1>1, <1>2, StepsExist
<1>4. /\ f \in [0 .. N -> Nat] /\ f[0] = 0
      /\ \A k \in 1 .. N : f[k] = h[k][f[k - 1]]
  BY <1>3 DEF AreSteps
<1>5. \A k \in 1 .. N : f[k] = bytes[N + 1 - k] + 256 * f[k - 1]
  <2>1. \A k \in 1 .. N : k - 1 \in 0 .. N
    BY <1>1
  <2>2. \A k \in 1 .. N : f[k - 1] \in Nat
    BY <1>4, <2>1
  <2> QED BY <1>4, <2>2 DEF h
<1> DEFINE Def(v) == v = [k \in 0 .. N |-> IF k = 0 THEN 0
                                           ELSE bytes[N + 1 - k] + 256 * v[k - 1]]
           s == CHOOSE v : Def(v)
<1>6. \A k \in 0 .. N : f[k] = IF k = 0 THEN 0 ELSE bytes[N + 1 - k] + 256 * f[k - 1]
  BY <1>1, <1>4, <1>5
<1>7. Def(f)
  <2>1. f = [k \in 0 .. N |-> f[k]]
    BY <1>4
  <2> QED BY <1>6, <2>1
<1>8. Def(s)
  <2> HIDE DEF Def
  <2> QED BY <1>7, Zenon
<1>9. FromLE(bytes) = s[N]
  BY DEF FromLE, N
<1> HIDE DEF s, Def
<1>10. \A k \in 0 .. N : s[k] = IF k = 0 THEN 0 ELSE bytes[N + 1 - k] + 256 * s[k - 1]
  BY <1>8 DEF Def
<1>11. \A k \in 0 .. N : s[k] = f[k]
  <2> DEFINE T == { k \in Nat : k \in 0 .. N /\ s[k] # f[k] }
  <2> SUFFICES ASSUME T # {} PROVE FALSE
    BY <1>1
  <2>1. PICK k \in T : \A p \in T : k <= p
    <3>1. T \in SUBSET Nat
      OBVIOUS
    <3> HIDE DEF T
    <3> QED BY <3>1, LeastElement
  <2>2. k \in 0 .. N /\ s[k] # f[k]
    BY <2>1
  <2>3. k # 0
    BY <1>6, <1>10, <2>2
  <2>4. k - 1 \in 0 .. N /\ k - 1 \notin T
    BY <1>1, <2>1, <2>2, <2>3
  <2>5. s[k - 1] = f[k - 1]
    BY <2>4
  <2> QED BY <1>6, <1>10, <2>2, <2>3, <2>5
<1>12. s[N] = f[N]
  BY <1>1, <1>11
<1>13. AreValues(f, bytes)
  BY <1>4, <1>5, <1>9, <1>12 DEF N, AreValues
<1> QED BY <1>13

(* What is read from bytes is a number.                                    *)
LEMMA FromLEType ==
  ASSUME NEW bytes \in Seq(Nat)
  PROVE  FromLE(bytes) \in Nat
<1>1. PICK v : AreValues(v, bytes)
  BY FromLEIs
<1> QED BY <1>1, LenProperties DEF AreValues

(* Two bytes, as read.                                                     *)
LEMMA FromLEOfTwo ==
  ASSUME NEW bytes \in Seq(Nat), Len(bytes) = 2
  PROVE  FromLE(bytes) = bytes[1] + 256 * bytes[2]
<1>1. PICK v : AreValues(v, bytes)
  BY FromLEIs
<1> USE DEF AreValues
<1>2. bytes[1] \in Nat /\ bytes[2] \in Nat
  <2>1. \A k \in 1 .. 2 : bytes[k] \in Nat
    BY ElementOfSeq
  <2> QED BY <2>1
<1>3. v[1] = bytes[2] + 256 * 0 /\ v[2] = bytes[1] + 256 * v[1]
  BY <1>1
<1> QED BY <1>1, <1>2, <1>3

(* Four bytes, as read.                                                    *)
LEMMA FromLEOfFour ==
  ASSUME NEW bytes \in Seq(Nat), Len(bytes) = 4
  PROVE  FromLE(bytes)
           = bytes[1] + 256 * (bytes[2] + 256 * (bytes[3] + 256 * bytes[4]))
<1>1. PICK v : AreValues(v, bytes)
  BY FromLEIs
<1> USE DEF AreValues
<1>2. bytes[1] \in Nat /\ bytes[2] \in Nat /\ bytes[3] \in Nat /\ bytes[4] \in Nat
  <2>1. \A k \in 1 .. 4 : bytes[k] \in Nat
    BY ElementOfSeq
  <2> QED BY <2>1
<1>3. /\ v[1] = bytes[4] + 256 * 0 /\ v[2] = bytes[3] + 256 * v[1]
      /\ v[3] = bytes[2] + 256 * v[2] /\ v[4] = bytes[1] + 256 * v[3]
  BY <1>1
<1> QED BY <1>1, <1>2, <1>3

-----------------------------------------------------------------------------
(* The serialization of a transaction is a sequence of bytes. *)
LEMMA RepType ==
  ASSUME NEW b \in Nat, NEW n \in Nat
  PROVE  Rep(b, n) \in Seq(Nat) /\ Len(Rep(b, n)) = n
BY DEF Rep

(* A size, as written.                                                     *)
LEMMA CompactSizeType ==
  ASSUME NEW n \in Nat
  PROVE  CompactSize(n) \in Seq(Nat)
<1>1. <<n>> \in Seq(Nat) /\ <<253>> \in Seq(Nat) /\ <<254>> \in Seq(Nat)
  OBVIOUS
<1>2. LE(n, 2) \in Seq(Nat) /\ LE(n, 4) \in Seq(Nat)
  BY LEType
<1>3. <<253>> \o LE(n, 2) \in Seq(Nat) /\ <<254>> \o LE(n, 4) \in Seq(Nat)
  BY <1>1, <1>2, ConcatProperties
<1> QED BY <1>1, <1>3 DEF CompactSize

(* Bytes are numbers.                                                      *)
LEMMA BytesAreNumbers == \A s \in Seq(Byte) : s \in Seq(Nat) /\ Len(s) \in Nat
<1>1. Byte \subseteq Nat
  BY DEF Byte
<1>2. \A s \in Seq(Byte) : s \in Seq(Nat)
  BY <1>1, SeqMonotonic
<1> QED BY <1>2, LenProperties

(* A field of variable length, as written.                                 *)
LEMMA WithSizeType ==
  ASSUME NEW bytes \in Seq(Nat)
  PROVE  WithSize(bytes) \in Seq(Nat)
<1>1. Len(bytes) \in Nat
  BY LenProperties
<1>2. CompactSize(Len(bytes)) \in Seq(Nat)
  BY <1>1, CompactSizeType
<1> QED BY <1>2, ConcatProperties DEF WithSize

(* An input, as written.                                                   *)
LEMMA InputBytesType ==
  ASSUME NEW in \in Ins
  PROVE  InputBytes(in) \in Seq(Nat)
<1>1. in.prev \in Nat /\ in.pos \in Nat /\ in.script \in Seq(Nat)
  BY BytesAreNumbers DEF Ins
<1>2. /\ Rep(in.prev, 32) \in Seq(Nat) /\ LE(in.pos, 4) \in Seq(Nat)
      /\ WithSize(in.script) \in Seq(Nat) /\ Rep(255, 4) \in Seq(Nat)
  <2>1. Rep(in.prev, 32) \in Seq(Nat) /\ Rep(255, 4) \in Seq(Nat)
    <3>1. Rep(in.prev, 32) \in Seq(Nat)
      BY <1>1, RepType
    <3>2. Rep(255, 4) \in Seq(Nat)
      BY DEF Rep
    <3> QED BY <3>1, <3>2
  <2>2. LE(in.pos, 4) \in Seq(Nat)
    BY <1>1, LEType
  <2>3. WithSize(in.script) \in Seq(Nat)
    BY <1>1, WithSizeType
  <2> QED BY <2>1, <2>2, <2>3
<1>3. Rep(in.prev, 32) \o LE(in.pos, 4) \in Seq(Nat)
  BY <1>2, ConcatProperties
<1>4. Rep(in.prev, 32) \o LE(in.pos, 4) \o WithSize(in.script) \in Seq(Nat)
  BY <1>2, <1>3, ConcatProperties
<1> QED BY <1>2, <1>4, ConcatProperties DEF InputBytes

(* An output, as written.                                                  *)
LEMMA OutputBytesType ==
  ASSUME NEW out \in Outs
  PROVE  OutputBytes(out) \in Seq(Nat)
<1>1. out.amount \in Nat /\ out.script \in Seq(Nat)
  BY BytesAreNumbers DEF Outs
<1>2. LE(out.amount, 8) \in Seq(Nat) /\ WithSize(out.script) \in Seq(Nat)
  <2>1. LE(out.amount, 8) \in Seq(Nat)
    BY <1>1, LEType
  <2>2. WithSize(out.script) \in Seq(Nat)
    BY <1>1, WithSizeType
  <2> QED BY <2>1, <2>2
<1> QED BY <1>2, ConcatProperties DEF OutputBytes

(* The members of a sequence, each as bytes. *)
InputParts(t) == [k \in DOMAIN t.ins |-> InputBytes(t.ins[k])]
OutputParts(t) == [k \in DOMAIN t.outs |-> OutputBytes(t.outs[k])]
WitnessParts(t) == [k \in DOMAIN t.ins |-> WitnessBytes(t.ins[k])]
ItemParts(in) == [k \in DOMAIN in.witness |-> WithSize(in.witness[k])]

(* The items of a witness.                                                 *)
LEMMA ItemPartsType ==
  ASSUME NEW in \in Ins
  PROVE  /\ ItemParts(in) \in Seq(Seq(Nat)) /\ Len(ItemParts(in)) = Len(in.witness)
         /\ Each(in.witness, WithSize) = FlattenSeq(ItemParts(in))
<1>1. in.witness \in Seq(Seq(Byte))
  BY DEF Ins
<1>2. Len(in.witness) \in Nat /\ DOMAIN in.witness = 1 .. Len(in.witness)
  BY <1>1, LenProperties
<1>3. \A k \in 1 .. Len(in.witness) : WithSize(in.witness[k]) \in Seq(Nat)
  <2> TAKE k \in 1 .. Len(in.witness)
  <2>1. in.witness[k] \in Seq(Byte)
    BY <1>1, ElementOfSeq
  <2> QED BY <2>1, BytesAreNumbers, WithSizeType
<1>4. ItemParts(in) \in [1 .. Len(in.witness) -> Seq(Nat)]
  BY <1>2, <1>3 DEF ItemParts
<1>5. ItemParts(in) \in Seq(Seq(Nat)) /\ Len(ItemParts(in)) = Len(in.witness)
  BY <1>2, <1>4
<1> QED BY <1>5 DEF Each, ItemParts

(* A witness, as written.                                                  *)
LEMMA WitnessBytesType ==
  ASSUME NEW in \in Ins
  PROVE  WitnessBytes(in) \in Seq(Nat)
<1>1. in.witness \in Seq(Seq(Byte))
  BY DEF Ins
<1>2. Len(in.witness) \in Nat
  BY <1>1, LenProperties
<1>3. Each(in.witness, WithSize) \in Seq(Nat)
  BY ItemPartsType, FlattenHas
<1>4. CompactSize(Len(in.witness)) \in Seq(Nat)
  BY <1>2, CompactSizeType
<1> QED BY <1>3, <1>4, ConcatProperties DEF WitnessBytes

(* The inputs, outputs and witnesses of a transaction.                     *)
LEMMA PartsType ==
  ASSUME NEW t \in Transactions
  PROVE  /\ Len(t.ins) \in Nat /\ DOMAIN t.ins = 1 .. Len(t.ins)
         /\ Len(t.outs) \in Nat /\ DOMAIN t.outs = 1 .. Len(t.outs)
         /\ \A k \in 1 .. Len(t.ins) : t.ins[k] \in Ins
         /\ \A k \in 1 .. Len(t.outs) : t.outs[k] \in Outs
         /\ InputParts(t) \in Seq(Seq(Nat)) /\ Len(InputParts(t)) = Len(t.ins)
         /\ OutputParts(t) \in Seq(Seq(Nat)) /\ Len(OutputParts(t)) = Len(t.outs)
         /\ WitnessParts(t) \in Seq(Seq(Nat)) /\ Len(WitnessParts(t)) = Len(t.ins)
         /\ Each(t.ins, InputBytes) = FlattenSeq(InputParts(t))
         /\ Each(t.outs, OutputBytes) = FlattenSeq(OutputParts(t))
         /\ Each(t.ins, WitnessBytes) = FlattenSeq(WitnessParts(t))
<1>1. t.ins \in Seq(Ins) /\ t.outs \in Seq(Outs)
  BY DEF Transactions
<1>2. /\ Len(t.ins) \in Nat /\ DOMAIN t.ins = 1 .. Len(t.ins)
      /\ Len(t.outs) \in Nat /\ DOMAIN t.outs = 1 .. Len(t.outs)
      /\ \A k \in 1 .. Len(t.ins) : t.ins[k] \in Ins
      /\ \A k \in 1 .. Len(t.outs) : t.outs[k] \in Outs
  BY <1>1, LenProperties, ElementOfSeq
<1>3. InputParts(t) \in [1 .. Len(t.ins) -> Seq(Nat)]
  BY <1>2, InputBytesType DEF InputParts
<1>4. OutputParts(t) \in [1 .. Len(t.outs) -> Seq(Nat)]
  BY <1>2, OutputBytesType DEF OutputParts
<1>5. WitnessParts(t) \in [1 .. Len(t.ins) -> Seq(Nat)]
  BY <1>2, WitnessBytesType DEF WitnessParts
<1>6. /\ InputParts(t) \in Seq(Seq(Nat)) /\ Len(InputParts(t)) = Len(t.ins)
      /\ OutputParts(t) \in Seq(Seq(Nat)) /\ Len(OutputParts(t)) = Len(t.outs)
      /\ WitnessParts(t) \in Seq(Seq(Nat)) /\ Len(WitnessParts(t)) = Len(t.ins)
  <2>1. InputParts(t) \in Seq(Seq(Nat)) /\ Len(InputParts(t)) = Len(t.ins)
    BY <1>2, <1>3, FunctionIsSeq
  <2>2. OutputParts(t) \in Seq(Seq(Nat)) /\ Len(OutputParts(t)) = Len(t.outs)
    BY <1>2, <1>4, FunctionIsSeq
  <2>3. WitnessParts(t) \in Seq(Seq(Nat)) /\ Len(WitnessParts(t)) = Len(t.ins)
    BY <1>2, <1>5, FunctionIsSeq
  <2> QED BY <2>1, <2>2, <2>3
<1>7. Each(t.ins, InputBytes) = FlattenSeq(InputParts(t))
  BY DEF Each, InputParts
<1>8. Each(t.outs, OutputBytes) = FlattenSeq(OutputParts(t))
  BY DEF Each, OutputParts
<1>9. Each(t.ins, WitnessBytes) = FlattenSeq(WitnessParts(t))
  BY DEF Each, WitnessParts
<1> QED BY <1>2, <1>6, <1>7, <1>8, <1>9

(* The parts of a transaction, in order. *)
Marker(t) == IF t.segwit THEN <<0, 1>> ELSE <<>>
Witnesses(t) == IF t.segwit THEN FlattenSeq(WitnessParts(t)) ELSE <<>>

(* A transaction is these parts, joined.                                   *)
LEMMA SerializedParts ==
  ASSUME NEW t \in Transactions
  PROVE  /\ Serialized(t) =
              LE(2, 4) \o Marker(t)
                \o CompactSize(Len(t.ins)) \o FlattenSeq(InputParts(t))
                \o CompactSize(Len(t.outs)) \o FlattenSeq(OutputParts(t))
                \o Witnesses(t) \o LE(0, 4)
         /\ LE(2, 4) \in Seq(Nat) /\ Marker(t) \in Seq(Nat)
         /\ CompactSize(Len(t.ins)) \in Seq(Nat) /\ FlattenSeq(InputParts(t)) \in Seq(Nat)
         /\ CompactSize(Len(t.outs)) \in Seq(Nat)
         /\ FlattenSeq(OutputParts(t)) \in Seq(Nat)
         /\ Witnesses(t) \in Seq(Nat) /\ LE(0, 4) \in Seq(Nat)
<1>1. LE(2, 4) \in Seq(Nat) /\ LE(0, 4) \in Seq(Nat)
  BY LEType
<1>2. Marker(t) \in Seq(Nat)
  <2>1. <<0, 1>> \in Seq(Nat) /\ <<>> \in Seq(Nat)
    OBVIOUS
  <2> QED BY <2>1 DEF Marker
<1>3. CompactSize(Len(t.ins)) \in Seq(Nat) /\ CompactSize(Len(t.outs)) \in Seq(Nat)
  BY PartsType, CompactSizeType
<1>4. /\ FlattenSeq(InputParts(t)) \in Seq(Nat)
      /\ FlattenSeq(OutputParts(t)) \in Seq(Nat)
      /\ FlattenSeq(WitnessParts(t)) \in Seq(Nat)
  BY PartsType, FlattenHas
<1>5. Witnesses(t) \in Seq(Nat)
  BY <1>4, EmptySeq DEF Witnesses
<1>6. Serialized(t) =
        LE(2, 4) \o Marker(t)
          \o CompactSize(Len(t.ins)) \o FlattenSeq(InputParts(t))
          \o CompactSize(Len(t.outs)) \o FlattenSeq(OutputParts(t))
          \o Witnesses(t) \o LE(0, 4)
  <2>1. /\ Each(t.ins, InputBytes) = FlattenSeq(InputParts(t))
        /\ Each(t.outs, OutputBytes) = FlattenSeq(OutputParts(t))
        /\ Each(t.ins, WitnessBytes) = FlattenSeq(WitnessParts(t))
    BY PartsType
  <2> QED BY <2>1 DEF Serialized, Marker, Witnesses
<1> QED BY <1>1, <1>2, <1>3, <1>4, <1>5, <1>6

(* A transaction, as written.                                              *)
LEMMA SerializedType ==
  ASSUME NEW t \in Transactions
  PROVE  Serialized(t) \in Seq(Nat)
<1> DEFINE a == LE(2, 4) \o Marker(t)
           b == a \o CompactSize(Len(t.ins))
           c == b \o FlattenSeq(InputParts(t))
           d == c \o CompactSize(Len(t.outs))
           e == d \o FlattenSeq(OutputParts(t))
           f == e \o Witnesses(t)
<1>1. Serialized(t) = f \o LE(0, 4)
  BY SerializedParts
<1>2. a \in Seq(Nat)
  BY SerializedParts, ConcatProperties
<1> HIDE DEF a
<1>3. b \in Seq(Nat)
  BY <1>2, SerializedParts, ConcatProperties
<1> HIDE DEF b
<1>4. c \in Seq(Nat)
  BY <1>3, SerializedParts, ConcatProperties
<1> HIDE DEF c
<1>5. d \in Seq(Nat)
  BY <1>4, SerializedParts, ConcatProperties
<1> HIDE DEF d
<1>6. e \in Seq(Nat)
  BY <1>5, SerializedParts, ConcatProperties
<1> HIDE DEF e
<1>7. f \in Seq(Nat)
  BY <1>6, SerializedParts, ConcatProperties
<1> HIDE DEF f
<1>8. f \o LE(0, 4) \in Seq(Nat)
  BY <1>7, SerializedParts, ConcatProperties
<1> QED BY <1>1, <1>8

-----------------------------------------------------------------------------
(* The split of the client's buffer. *)

(* What each transaction takes in the buffer. *)
Framed(t) == BigEndian(Len(Serialized(t))) \o Serialized(t)
Frames == [k \in DOMAIN block |-> Framed(block[k])]

(* What the assumption says of the block that was sent.                    *)
LEMMA BlockType ==
  ASSUME block \in Blocks
  PROVE  /\ Len(block) \in Nat /\ Len(block) > 0 /\ DOMAIN block = 1 .. Len(block)
         /\ \A k \in 1 .. Len(block) :
              /\ block[k] \in Transactions
              /\ Len(Serialized(block[k])) <= MaxSize
              /\ k > 1 => WellFormed(block[k])
<1>1. block \in Seq(Transactions) /\ block # <<>>
  BY BlocksAssumption
<1>2. Len(block) \in Nat /\ Len(block) > 0 /\ DOMAIN block = 1 .. Len(block)
  BY <1>1, LenProperties, EmptySeq
<1>3. \A k \in 1 .. Len(block) : block[k] \in Transactions
  BY <1>1, ElementOfSeq
<1>4. \A k \in DOMAIN block :
        /\ Len(Serialized(block[k])) <= MaxSize
        /\ k > 1 => WellFormed(block[k])
  BY BlocksAssumption
<1> QED BY <1>2, <1>3, <1>4

(* The length in front of a transaction, as the enclave adds it up.        *)
LEMMA BigEndianDigits ==
  ASSUME NEW n \in Nat, n <= MaxSize
  PROVE  /\ BigEndian(n) \in Seq(Nat) /\ Len(BigEndian(n)) = 4
         /\ ((256 * BigEndian(n)[1] + BigEndian(n)[2]) * 256 + BigEndian(n)[3]) * 256
              + BigEndian(n)[4] = n
<1> DEFINE d == LE(n, 4)
<1>1. d \in Seq(Nat) /\ Len(d) = 4
  <2>1. 4 \in Nat /\ 4 > 0
    OBVIOUS
  <2> QED BY <2>1, LEType
<1>2. d[1] + 256 * (d[2] + 256 * (d[3] + 256 * d[4])) = n
  BY FourDigits
<1> HIDE DEF d
<1>3. d[1] \in Nat /\ d[2] \in Nat /\ d[3] \in Nat /\ d[4] \in Nat
  <2>1. \A k \in 1 .. 4 : d[k] \in Nat
    BY <1>1, ElementOfSeq
  <2> QED BY <2>1
<1>4. BigEndian(n) = [k \in 1 .. 4 |-> d[(4 - k) + 1]]
  BY <1>1 DEF BigEndian, Reverse, d
<1>5. /\ BigEndian(n)[1] = d[4] /\ BigEndian(n)[2] = d[3]
      /\ BigEndian(n)[3] = d[2] /\ BigEndian(n)[4] = d[1]
  BY <1>4
<1>6. BigEndian(n) \in [1 .. 4 -> Nat]
  <2> HIDE DEF d
  <2>1. \A k \in 1 .. 4 : d[(4 - k) + 1] \in Nat
    BY <1>3
  <2> QED BY <1>4, <2>1
<1>7. BigEndian(n) \in Seq(Nat) /\ Len(BigEndian(n)) = 4
  <2>1. 4 \in Nat
    OBVIOUS
  <2> QED BY <1>6, <2>1, FunctionIsSeq
<1>8. ((256 * d[4] + d[3]) * 256 + d[2]) * 256 + d[1] = n
  BY <1>2, <1>3
<1> QED BY <1>5, <1>7, <1>8

(* A transaction with its length in front.                                 *)
LEMMA FramedType ==
  ASSUME NEW t \in Transactions, Len(Serialized(t)) <= MaxSize
  PROVE  /\ Framed(t) \in Seq(Nat)
         /\ Len(Framed(t)) = 4 + Len(Serialized(t)) /\ Len(Serialized(t)) \in Nat
         /\ Has(Framed(t), 0, BigEndian(Len(Serialized(t))))
         /\ Has(Framed(t), 4, Serialized(t))
<1> DEFINE n == Len(Serialized(t))
<1>1. Serialized(t) \in Seq(Nat)
  BY SerializedType
<1>2. n \in Nat
  BY <1>1, LenProperties
<1>3. BigEndian(n) \in Seq(Nat) /\ Len(BigEndian(n)) = 4
  BY <1>2, BigEndianDigits
<1>4. /\ Framed(t) \in Seq(Nat)
      /\ Len(Framed(t)) = 4 + n
  <2>1. Framed(t) = BigEndian(n) \o Serialized(t)
    BY DEF Framed
  <2>2. Len(BigEndian(n) \o Serialized(t)) = Len(BigEndian(n)) + n
    BY <1>1, <1>3, ConcatProperties
  <2>3. BigEndian(n) \o Serialized(t) \in Seq(Nat)
    BY <1>1, <1>3, ConcatProperties
  <2> QED BY <1>3, <2>1, <2>2, <2>3
<1>5. Has(Framed(t), 0, BigEndian(n)) /\ Has(Framed(t), Len(BigEndian(n)), Serialized(t))
  BY <1>1, <1>3, HasParts DEF Framed
<1> QED BY <1>2, <1>3, <1>4, <1>5

(* The buffer is these, joined.                                            *)
LEMMA FramesType ==
  ASSUME block \in Blocks
  PROVE  /\ Frames \in Seq(Seq(Nat)) /\ Len(Frames) = Len(block)
         /\ \A k \in 1 .. Len(block) : Frames[k] = Framed(block[k])
         /\ getTxList = FlattenSeq(Frames)
         /\ getTxList \in Seq(Nat)
<1>1. /\ Len(block) \in Nat /\ DOMAIN block = 1 .. Len(block)
      /\ \A k \in 1 .. Len(block) : Framed(block[k]) \in Seq(Nat)
  BY BlockType, FramedType
<1>2. Frames \in [1 .. Len(block) -> Seq(Nat)]
  BY <1>1 DEF Frames
<1>3. Frames \in Seq(Seq(Nat)) /\ Len(Frames) = Len(block)
  BY <1>1, <1>2
<1>4. getTxList = FlattenSeq(Frames)
  BY DEF getTxList, Each, Frames, Framed
<1>5. FlattenSeq(Frames) \in Seq(Nat)
  BY <1>3, FlattenHas
<1> QED BY <1>1, <1>3, <1>4, <1>5 DEF Frames

(* At the place of transaction k, the enclave reads its length and bytes.  *)
LEMMA SplitOne ==
  ASSUME block \in Blocks, NEW k \in 1 .. Len(block)
  PROVE  LET o == Sums(Frames)[k - 1]
             n == Len(Serialized(block[k]))
         IN  /\ o \in Nat /\ n \in Nat
             /\ txlen(o) = n
             /\ SubSeq(getTxList, o + 5, o + 4 + n) = Serialized(block[k])
             /\ Sums(Frames)[k] = o + 4 + n
<1> DEFINE o == Sums(Frames)[k - 1]
           t == block[k]
           n == Len(Serialized(t))
           s == getTxList
<1>1. t \in Transactions /\ n <= MaxSize /\ Len(block) \in Nat
  BY BlockType
<1>2. /\ Framed(t) \in Seq(Nat) /\ Len(Framed(t)) = 4 + n /\ n \in Nat
      /\ Has(Framed(t), 0, BigEndian(n)) /\ Has(Framed(t), 4, Serialized(t))
  BY <1>1, FramedType
<1>3. BigEndian(n) \in Seq(Nat) /\ Len(BigEndian(n)) = 4 /\ Serialized(t) \in Seq(Nat)
  <2>1. Serialized(t) \in Seq(Nat)
    BY <1>1, SerializedType
  <2>2. n \in Nat /\ n <= MaxSize
    BY <1>1, <1>2
  <2> HIDE DEF n
  <2>3. BigEndian(n) \in Seq(Nat) /\ Len(BigEndian(n)) = 4
    BY <2>2, BigEndianDigits
  <2> QED BY <2>1, <2>3
<1>4. /\ Frames \in Seq(Seq(Nat)) /\ Len(Frames) = Len(block) /\ Frames[k] = Framed(t)
      /\ s = FlattenSeq(Frames) /\ s \in Seq(Nat)
  <2>1. Frames \in Seq(Seq(Nat)) /\ Len(Frames) = Len(block)
    BY FramesType
  <2>2. Frames[k] = Framed(t)
    BY FramesType
  <2>3. s = FlattenSeq(Frames) /\ s \in Seq(Nat)
    BY FramesType
  <2> QED BY <2>1, <2>2, <2>3
<1>5. Has(s, o, Framed(t))
  BY <1>4, FlattenHas
<1>6. o \in Nat /\ Sums(Frames)[k] = o + Len(Frames[k])
  <2>1. /\ Sums(Frames) \in [0 .. Len(block) -> Nat]
        /\ \A m \in 1 .. Len(block) :
             Sums(Frames)[m] = Sums(Frames)[m - 1] + Len(Frames[m])
    BY <1>4, SumsAre
  <2>2. k - 1 \in 0 .. Len(block)
    BY <1>1
  <2> QED BY <2>1, <2>2
<1> HIDE DEF o, s, n
<1>7. Has(s, o + 0, BigEndian(n)) /\ Has(s, o + 4, Serialized(t))
  <2>1. Has(s, o + 0, BigEndian(n))
    BY <1>2, <1>3, <1>4, <1>5, <1>6, HasWithin
  <2>2. Has(s, o + 4, Serialized(t))
    BY <1>2, <1>3, <1>4, <1>5, <1>6, HasWithin
  <2> QED BY <2>1, <2>2
<1>8. txlen(o) = n
  <2>1. /\ s[o + 1] = BigEndian(n)[1] /\ s[o + 2] = BigEndian(n)[2]
        /\ s[o + 3] = BigEndian(n)[3] /\ s[o + 4] = BigEndian(n)[4]
    <3>1. \A m \in 1 .. 4 : s[o + 0 + m] = BigEndian(n)[m]
      BY <1>3, <1>7 DEF Has
    <3>2. \A m \in 1 .. 4 : o + 0 + m = o + m
      BY <1>6
    <3> QED BY <3>1, <3>2
  <2>2. ((256 * BigEndian(n)[1] + BigEndian(n)[2]) * 256 + BigEndian(n)[3]) * 256
          + BigEndian(n)[4] = n
    BY <1>1, <1>2, BigEndianDigits
  <2> QED BY <2>1, <2>2 DEF txlen, s
<1>9. SubSeq(s, o + 5, o + 4 + n) = Serialized(t)
  <2>1. /\ o + 4 + n <= Len(s)
        /\ \A m \in 1 .. n : s[o + 4 + m] = Serialized(t)[m]
    BY <1>7 DEF Has, n
  <2>2. \A m \in o + 5 .. o + 4 + n : s[m] \in Nat
    <3>1. Len(s) \in Nat /\ \A m \in 1 .. Len(s) : s[m] \in Nat
      BY <1>4, LenProperties, ElementOfSeq
    <3>2. \A m \in o + 5 .. o + 4 + n : m \in 1 .. Len(s)
      BY <1>2, <1>6, <2>1, <3>1
    <3> QED BY <3>1, <3>2
  <2> DEFINE u == SubSeq(s, o + 5, o + 4 + n)
  <2>3. /\ u \in Seq(Nat)
        /\ Len(u) = IF o + 5 <= o + 4 + n THEN (o + 4 + n) - (o + 5) + 1 ELSE 0
        /\ \A m \in 1 .. (o + 4 + n) - (o + 5) + 1 : u[m] = s[o + 5 + m - 1]
    <3>1. o + 5 \in Int /\ o + 4 + n \in Int
      BY <1>2, <1>6
    <3> QED BY <2>2, <3>1, SubSeqProperties
  <2> HIDE DEF u
  <2>4. Len(u) = n /\ \A m \in 1 .. n : u[m] = s[o + 4 + m]
    BY <1>2, <1>6, <2>3
  <2>5. Len(u) = Len(Serialized(t)) /\ \A m \in 1 .. Len(u) : u[m] = Serialized(t)[m]
    BY <2>1, <2>4 DEF n
  <2>6. u = Serialized(t)
    BY <1>3, <2>3, <2>5, SeqEqual
  <2> QED BY <2>6 DEF u
<1>10. Sums(Frames)[k] = o + 4 + n
  BY <1>2, <1>4, <1>6
<1> QED BY <1>2, <1>6, <1>8, <1>9, <1>10 DEF o, n, s

-----------------------------------------------------------------------------
(* Types. *)
Hash == [of : {"key", "zeros", "ones", "hash"}, bytes : Seq(Nat)]
Txs == [hex : Seq(Nat), txhash : Nat]
Tins == [txhash : Seq(Nat), position : Seq(Nat), pkh : Hash]
Touts == [txhash : Nat, position : Nat, amount : Seq(Nat), pkh : Hash]

Parsing == {"vin", "vout", "witness"}

BufferKinds ==
  /\ block \in Blocks /\ beyond \in Overread
  /\ listTxs \in Seq(Txs) /\ Len(listTxs) <= Len(block)
  /\ phase # "split" => Len(listTxs) = Len(block)
  /\ len \in 0 .. Len(block)
  /\ phase = "merkle" => len > 0

CursorKinds ==
  /\ phase \in {"split", "merkle", "tx", "end"} \cup Parsing
  /\ i \in 1 .. Len(block) + 1
  /\ phase \in Parsing \cup {"end"} => i \in 2 .. Len(block)
  /\ phase = "tx" => i > 1
  /\ offset \in Nat /\ count \in Nat /\ j \in 0 .. count
  /\ isSegWit \in BOOLEAN

FoundKinds ==
  /\ temp_segWitVin \in Seq(Tins) /\ vin \in Seq(Tins) /\ vout \in Seq(Touts)
  /\ before \in [vin : Nat, vout : Nat]
  /\ before.vin <= Len(vin) /\ before.vout <= Len(vout)
  /\ phase \notin Parsing => temp_segWitVin = <<>>
  /\ phase \in {"vin", "vout"} /\ ~isSegWit => temp_segWitVin = <<>>
  /\ phase = "witness" => count = Len(temp_segWitVin)

Kinds == BufferKinds /\ CursorKinds /\ FoundKinds

(* A transaction is being read. *)
Reading == BufferKinds /\ i \in 1 .. Len(listTxs)

(* The types the runs check follow from these.                             *)
LEMMA KindsAreTypes == Kinds => TypeOK
<1> SUFFICES ASSUME Kinds PROVE TypeOK
  OBVIOUS
<1>1. Len(block) \in Nat /\ Len(vin) \in Nat /\ Len(vout) \in Nat
  BY BlockType, LenProperties DEF Kinds, BufferKinds, FoundKinds
<1>2. before.vin \in 0 .. Len(vin) /\ before.vout \in 0 .. Len(vout)
  BY <1>1 DEF Kinds, FoundKinds
<1> QED BY <1>2 DEF Kinds, BufferKinds, CursorKinds, FoundKinds, Parsing, TypeOK

(* What is read, at any offset, are numbers. *)
LEMMA AtType ==
  ASSUME Reading, NEW o \in Nat
  PROVE  At(o) \in Nat
<1>1. listTxs[i] \in Txs
  BY ElementOfSeq DEF Reading, BufferKinds
<1>2. listTxs[i].hex \in Seq(Nat)
  BY <1>1 DEF Txs
<1>3. Len(listTxs[i].hex) \in Nat
  BY <1>2, LenProperties
<1>4. CASE o < Len(listTxs[i].hex)
  <2>1. o + 1 \in 1 .. Len(listTxs[i].hex)
    BY <1>3, <1>4
  <2>2. listTxs[i].hex[o + 1] \in Nat
    BY <1>2, <2>1, ElementOfSeq
  <2> QED BY <1>4, <2>2 DEF At
<1>5. CASE ~(o < Len(listTxs[i].hex))
  <2>1. beyond \in Byte
    BY BlocksAssumption DEF Reading, BufferKinds
  <2>2. beyond \in Nat
    BY <2>1 DEF Byte
  <2>3. At(o) = beyond
    BY <1>5 DEF At
  <2> QED BY <2>2, <2>3
<1> QED BY <1>4, <1>5

(* So are a number of bytes.                                               *)
LEMMA TakeType ==
  ASSUME Reading, NEW o \in Nat, NEW n \in Nat
  PROVE  Take(o, n) \in Seq(Nat) /\ Len(Take(o, n)) = n
<1>1. \A k \in 1 .. n : At(o + k - 1) \in Nat
  <2>1. \A k \in 1 .. n : o + k - 1 \in Nat
    OBVIOUS
  <2> QED BY <2>1, AtType
<1>2. Take(o, n) \in [1 .. n -> Nat]
  BY <1>1 DEF Take
<1> QED BY <1>2, FunctionIsSeq

(* The size at any offset.                                                 *)
LEMMA RealSizeType ==
  ASSUME Reading, NEW o \in Nat
  PROVE  /\ getRealSizeFromCompactSize(o).size \in Nat
         /\ getRealSizeFromCompactSize(o).next \in Nat
<1> DEFINE width == CASE At(o) = 253 -> 2 [] At(o) = 254 -> 4 [] At(o) = 255 -> 8
                      [] OTHER -> 0
<1>1. At(o) \in Nat
  BY AtType
<1>2. width \in Nat
  BY <1>1
<1> HIDE DEF width
<1>3. FromLE(Take(o + 1, width)) \in Nat
  BY <1>2, TakeType, FromLEType
<1>4. getRealSizeFromCompactSize(o) =
        IF width = 0 THEN [size |-> At(o), next |-> o + 1]
        ELSE [size |-> FromLE(Take(o + 1, width)), next |-> o + 1 + width]
  BY DEF getRealSizeFromCompactSize, width
<1> QED BY <1>1, <1>2, <1>3, <1>4

(* The input at any offset.                                                *)
LEMMA InputType ==
  ASSUME Reading, NEW o \in Nat
  PROVE  Input(o).next \in Nat /\ Input(o).tin \in Tins
<1> DEFINE script == getRealSizeFromCompactSize(o + 36)
           size == KeySize(script.next, script.size)
<1>1. script.size \in Nat /\ script.next \in Nat
  BY RealSizeType
<1> HIDE DEF script
<1>2. At(script.next) \in Nat
  BY <1>1, AtType
<1>3. size \in Nat
  BY <1>1, <1>2 DEF KeySize
<1> HIDE DEF size
<1>4. KeyOffset(script.next) \in Nat
  BY <1>1, <1>2 DEF KeyOffset
<1>5. Take(KeyOffset(script.next), size) \in Seq(Nat)
  BY <1>3, <1>4, TakeType
<1>6. Take(o, 32) \in Seq(Nat) /\ Take(o + 32, 4) \in Seq(Nat)
  <2>1. o + 32 \in Nat /\ 32 \in Nat /\ 4 \in Nat
    OBVIOUS
  <2>2. Take(o, 32) \in Seq(Nat)
    BY <2>1, TakeType
  <2>3. Take(o + 32, 4) \in Seq(Nat)
    BY <2>1, TakeType
  <2> QED BY <2>2, <2>3
<1>7. /\ Input(o).next = script.next + script.size + 4
      /\ Input(o).tin = [txhash |-> Take(o, 32), position |-> Take(o + 32, 4),
                         pkh |-> hash160(Take(KeyOffset(script.next), size))]
  BY DEF Input, script, size
<1>8. hash160(Take(KeyOffset(script.next), size)) \in Hash
  BY <1>5 DEF hash160, Hash
<1> QED BY <1>1, <1>6, <1>7, <1>8 DEF Tins

(* The output at any offset.                                               *)
LEMMA OutputType ==
  ASSUME Reading, NEW o \in Nat, j \in Nat
  PROVE  Output(o) \in Touts
<1>1. listTxs[i].txhash \in Nat
  <2>1. listTxs[i] \in Txs
    BY ElementOfSeq DEF Reading, BufferKinds
  <2> QED BY <2>1 DEF Txs
<1>2. Take(o, 8) \in Seq(Nat)
  <2>1. 8 \in Nat
    OBVIOUS
  <2> QED BY <2>1, TakeType
<1>3. Take(o + 12, 20) \in Seq(Nat)
  <2>1. 20 \in Nat /\ o + 12 \in Nat
    OBVIOUS
  <2> QED BY <2>1, TakeType
<1> QED BY <1>1, <1>2, <1>3 DEF Output, Touts, raw, Hash

(* The key of a witness at any offset.                                     *)
LEMMA KeyType ==
  ASSUME Reading, NEW o \in Nat
  PROVE  Key(o).next \in Nat /\ Key(o).pkh \in Hash
<1> DEFINE k == o + 1 + At(o)
<1>1. k \in Nat
  BY AtType
<1> HIDE DEF k
<1>2. At(k) \in Nat
  BY <1>1, AtType
<1>3. Take(k + 1, 33) \in Seq(Nat) /\ Take(k, 65) \in Seq(Nat)
  <2>1. k + 1 \in Nat /\ 33 \in Nat /\ 65 \in Nat
    BY <1>1
  <2>2. Take(k + 1, 33) \in Seq(Nat)
    BY <2>1, TakeType
  <2>3. Take(k, 65) \in Seq(Nat)
    BY <1>1, <2>1, TakeType
  <2> QED BY <2>2, <2>3
<1>4. Key(o) = CASE At(k) = 33 -> [pkh |-> hash160(Take(k + 1, 33)), next |-> k + 34]
                 [] At(k) = 65 -> [pkh |-> hash160(Take(k, 65)), next |-> k + 65]
                 [] OTHER -> [pkh |-> zeros, next |-> k]
  BY DEF Key, k
<1>5. /\ hash160(Take(k + 1, 33)) \in Hash /\ hash160(Take(k, 65)) \in Hash
      /\ zeros \in Hash
  BY <1>3, EmptySeq DEF hash160, zeros, Hash
<1>6. CASE At(k) = 33
  BY <1>1, <1>4, <1>5, <1>6
<1>7. CASE At(k) = 65
  BY <1>1, <1>4, <1>5, <1>7
<1>8. CASE At(k) # 33 /\ At(k) # 65
  <2>1. Key(o) = [pkh |-> zeros, next |-> k]
    BY <1>2, <1>4, <1>8
  <2> QED BY <1>1, <1>5, <2>1
<1> QED BY <1>6, <1>7, <1>8

(* Where a skipped witness may end: nowhere but at numbers.                *)
LEMMA SkippedType ==
  ASSUME Reading, NEW o \in Nat, NEW n \in Nat
  PROVE  Skipped(o, n) \subseteq Nat
<1> DEFINE next(p) == {o, p + At(p), p + 1 + At(p)}
           step(R) == UNION { next(p) : p \in R }
           h == [k \in 1 .. n |-> [R \in SUBSET Nat |-> step(R)]]
<1>1. \A p \in Nat : next(p) \in SUBSET Nat
  BY AtType
<1>2. \A R \in SUBSET Nat : step(R) \in SUBSET Nat
  <2> HIDE DEF next
  <2> QED BY <1>1
<1> HIDE DEF step
<1>3. h \in [1 .. n -> [SUBSET Nat -> SUBSET Nat]] /\ {o} \in SUBSET Nat
  BY <1>2
<1> HIDE DEF h
<1>4. PICK f : AreSteps(f, SUBSET Nat, {o}, n, h)
  BY <1>3, StepsExist
<1>5. /\ f \in [0 .. n -> SUBSET Nat] /\ f[0] = {o}
      /\ \A k \in 1 .. n : f[k] = h[k][f[k - 1]]
  BY <1>4 DEF AreSteps
<1>6. \A k \in 1 .. n : f[k] = step(f[k - 1])
  <2>1. \A k \in 1 .. n : k - 1 \in 0 .. n
    OBVIOUS
  <2>2. \A k \in 1 .. n : f[k - 1] \in SUBSET Nat
    BY <1>5, <2>1
  <2> QED BY <1>5, <2>2 DEF h
<1> DEFINE Def(r) == r = [s \in 0 .. n |-> IF s = 0 THEN {o} ELSE step(r[s - 1])]
           c == CHOOSE r : Def(r)
<1>7. \A k \in 0 .. n : f[k] = IF k = 0 THEN {o} ELSE step(f[k - 1])
  BY <1>5, <1>6
<1>8. Def(f)
  <2>1. f = [k \in 0 .. n |-> f[k]]
    BY <1>5
  <2> QED BY <1>7, <2>1
<1>9. Def(c)
  BY <1>8
<1>10. Skipped(o, n) = c[n]
  BY DEF Skipped, step
<1> HIDE DEF c
<1>11. \A k \in 0 .. n : c[k] = IF k = 0 THEN {o} ELSE step(c[k - 1])
  BY <1>9
<1> HIDE DEF Def
<1>12. \A k \in 0 .. n : c[k] = f[k]
  <2>1. AgreeStep(c, f, 0, n)
    BY <1>7, <1>11 DEF AgreeStep
  <2> QED BY <2>1, AgreeBefore
<1>13. c[n] \in SUBSET Nat
  BY <1>5, <1>12
<1> QED BY <1>10, <1>13

-----------------------------------------------------------------------------
(* Every state has these types, and the transactions split so far are      *)
(* those that were sent: the offset is at the place of the next.           *)
Split ==
  /\ phase = "split" => offset = Sums(Frames)[Len(listTxs)]
  /\ SplitExact

(* The hash of any bytes is a number.                                      *)
LEMMA HashIsNumber ==
  ASSUME block \in Blocks, NEW bytes
  PROVE  doubleSHA256(bytes) \in Nat
<1> DEFINE of == { k \in DOMAIN block : Serialized(block[k]) = bytes }
           c == CHOOSE k \in of : TRUE
<1>1. CASE of = {}
  BY <1>1 DEF doubleSHA256
<1>2. CASE of # {}
  <2>1. c \in DOMAIN block
    BY <1>2
  <2>2. block[c] \in Transactions
    BY <2>1, BlockType
  <2>3. doubleSHA256(bytes) = IF block[c].segwit THEN block[c].wtxid ELSE block[c].txid
    BY <1>2 DEF doubleSHA256
  <2> QED BY <2>2, <2>3 DEF Transactions
<1> QED BY <1>1, <1>2

(* At the start nothing is split, and the first transaction is at 0.       *)
LEMMA InitKinds == Init => Kinds /\ Split
<1> SUFFICES ASSUME Init PROVE Kinds /\ Split
  OBVIOUS
<1> USE DEF Init
<1>1. block \in Blocks /\ Len(block) \in Nat
  BY BlockType
<1>2. Sums(Frames)[0] = 0
  BY <1>1, FramesType, SumsAre
<1>3. Len(listTxs) = 0 /\ DOMAIN listTxs = {} /\ Len(vin) = 0 /\ Len(vout) = 0
  BY EmptySeq
<1>4. BufferKinds
  BY <1>1, <1>3, EmptySeq DEF BufferKinds
<1>5. CursorKinds
  <2>1. i \in 1 .. Len(block) + 1 /\ j \in 0 .. count
    BY <1>1
  <2>2. phase \notin Parsing \cup {"end"} /\ phase # "tx"
    BY DEF Parsing
  <2> QED BY <2>1, <2>2 DEF CursorKinds
<1>6. FoundKinds
  BY <1>3, EmptySeq DEF FoundKinds, Parsing
<1>7. Split
  BY <1>2, <1>3 DEF Split, SplitExact
<1> QED BY <1>4, <1>5, <1>6, <1>7 DEF Kinds

(* sendRawTxList takes the next transaction as it was sent.               *)
LEMMA SendRawTxListStep ==
  ASSUME Kinds, Split, sendRawTxList
  PROVE  Kinds' /\ Split'
<1> DEFINE m == Len(listTxs)
           k == m + 1
           n == txlen(offset)
           hex == SubSeq(getTxList, offset + 5, offset + 4 + n)
           new == [hex |-> hex, txhash |-> doubleSHA256(hex)]
<1>1. /\ block \in Blocks /\ listTxs \in Seq(Txs) /\ m \in Nat /\ Len(block) \in Nat
      /\ phase = "split" /\ m < Len(block) /\ k \in 1 .. Len(block)
  BY BlockType, LenProperties DEF Kinds, BufferKinds, sendRawTxList
<1>2. /\ listTxs' = Append(listTxs, new)
      /\ offset' = offset + 4 + n
      /\ UNCHANGED <<block, beyond, phase, txHashes, len, i, j, count, isSegWit,
                     tx_vin_size, found, before>>
  BY DEF sendRawTxList
<1>3. offset = Sums(Frames)[k - 1]
  BY <1>1 DEF Split
<1>4. /\ offset \in Nat /\ n \in Nat /\ n = Len(Serialized(block[k]))
      /\ hex = Serialized(block[k])
      /\ Sums(Frames)[k] = offset + 4 + n
  BY <1>1, <1>3, SplitOne
<1>5. new \in Txs
  <2>1. hex \in Seq(Nat)
    BY <1>1, <1>4, BlockType, SerializedType
  <2>2. doubleSHA256(hex) \in Nat
    BY <1>1, HashIsNumber
  <2> QED BY <2>1, <2>2 DEF Txs
<1> HIDE DEF hex, new, n, m
<1>6. /\ listTxs' \in Seq(Txs) /\ Len(listTxs') = k
      /\ listTxs'[k] = new
      /\ \A e \in 1 .. m : listTxs'[e] = listTxs[e]
  BY <1>1, <1>2, <1>5, AppendProperties DEF m
<1>7. BufferKinds'
  BY <1>1, <1>2, <1>6 DEF Kinds, BufferKinds
<1>8. CursorKinds'
  BY <1>1, <1>2, <1>4 DEF Kinds, CursorKinds, Parsing
<1>9. FoundKinds'
  BY <1>1, <1>2 DEF Kinds, FoundKinds, Parsing, found
<1>10. SplitExact'
  <2>1. DOMAIN listTxs' = 1 .. k /\ DOMAIN listTxs = 1 .. m
    BY <1>1, <1>6, LenProperties DEF m
  <2>2. block' = block
    BY <1>2
  <2>3. listTxs'[k].hex = Serialized(block[k])
    BY <1>4, <1>6 DEF new
  <2>4. \A e \in 1 .. m : listTxs'[e].hex = Serialized(block[e])
    BY <1>6, <2>1 DEF Split, SplitExact
  <2>5. \A e \in 1 .. k : e = k \/ e \in 1 .. m
    BY <1>1
  <2>6. \A e \in DOMAIN listTxs' : listTxs'[e].hex = Serialized(block'[e])
    BY <2>1, <2>2, <2>3, <2>4, <2>5
  <2> QED BY <2>6 DEF SplitExact
<1>11. offset' = Sums(Frames)[Len(listTxs')]
  BY <1>2, <1>4, <1>6
<1>12. Frames' = Frames
  BY <1>2 DEF Frames
<1> QED BY <1>7, <1>8, <1>9, <1>10, <1>11, <1>12 DEF Kinds, Split

(* The other actions leave the split transactions as they are. *)
Kept == UNCHANGED received /\ phase # "split" /\ phase' # "split"

(* So they keep Split.                                                     *)
LEMMA KeptSplit ==
  ASSUME Kinds, Split, Kept
  PROVE  Split'
BY DEF Split, SplitExact, Kept, received

(* What the actions of the parse may read. *)
LEMMA ParsingReads ==
  ASSUME Kinds, phase \in Parsing \cup {"tx"}, i <= Len(listTxs)
  PROVE  Reading /\ Len(listTxs) = Len(block) /\ Len(block) \in Nat /\ i \in Nat
<1>1. Len(block) \in Nat /\ Len(listTxs) = Len(block) /\ i \in 1 .. Len(block) + 1
  BY BlockType DEF Kinds, BufferKinds, CursorKinds, Parsing
<1> QED BY <1>1 DEF Reading, Kinds

(* verifyBlock, once the whole list is split.                              *)
LEMMA VerifyBlockStep ==
  ASSUME Kinds, Split, verifyBlock
  PROVE  Kinds' /\ Split'
<1>1. /\ Len(block) \in Nat /\ Len(block) > 0 /\ Len(listTxs) = Len(block)
      /\ phase = "split" /\ phase' = "merkle" /\ len' = Len(block)
      /\ UNCHANGED <<block, beyond, listTxs, i, offset, j, count, isSegWit,
                     temp_segWitVin, vin, vout, before>>
  BY BlockType DEF Kinds, BufferKinds, verifyBlock, received, found
<1>2. BufferKinds'
  BY <1>1 DEF Kinds, BufferKinds
<1>3. CursorKinds'
  BY <1>1 DEF Kinds, CursorKinds, Parsing
<1>4. FoundKinds'
  BY <1>1 DEF Kinds, FoundKinds, Parsing
<1>5. Split'
  BY <1>1 DEF Split, SplitExact
<1> QED BY <1>2, <1>3, <1>4, <1>5 DEF Kinds

(* verifyMerkleRoot leaves fewer hashes, and at least one.                 *)
LEMMA VerifyMerkleRootStep ==
  ASSUME Kinds, Split, verifyMerkleRoot
  PROVE  Kinds' /\ Split'
<1>1. /\ Len(block) \in Nat /\ len \in 0 .. Len(block) /\ len > 1
      /\ phase = "merkle" /\ len' = (len + 1) \div 2
      /\ UNCHANGED <<block, beyond, phase, listTxs, i, offset, j, count, isSegWit,
                     temp_segWitVin, vin, vout, before>>
  BY BlockType DEF Kinds, BufferKinds, verifyMerkleRoot, Pairs, received, found
<1>2. len' \in 0 .. Len(block) /\ len' > 0
  BY <1>1
<1>3. BufferKinds'
  BY <1>1, <1>2 DEF Kinds, BufferKinds
<1>4. CursorKinds'
  BY <1>1 DEF Kinds, CursorKinds
<1>5. FoundKinds'
  BY <1>1 DEF Kinds, FoundKinds
<1>6. Split'
  BY <1>1, KeptSplit DEF Kept, received
<1> QED BY <1>3, <1>4, <1>5, <1>6 DEF Kinds

(* The first transaction that is parsed is the second of the block.        *)
LEMMA BlockVerifiedStep ==
  ASSUME Kinds, Split, BlockVerified
  PROVE  Kinds' /\ Split'
<1>1. /\ Len(block) \in Nat /\ Len(block) > 0
      /\ phase = "merkle" /\ phase' = "tx" /\ i' = 2
      /\ UNCHANGED <<block, beyond, len, listTxs, offset, j, count, isSegWit,
                     temp_segWitVin, vin, vout, before>>
  BY BlockType DEF Kinds, BufferKinds, BlockVerified, received, found
<1>2. BufferKinds'
  BY <1>1 DEF Kinds, BufferKinds
<1>3. CursorKinds'
  BY <1>1 DEF Kinds, CursorKinds, Parsing
<1>4. FoundKinds'
  BY <1>1 DEF Kinds, FoundKinds, Parsing
<1>5. Split'
  BY <1>1, KeptSplit DEF Kept, received
<1> QED BY <1>2, <1>3, <1>4, <1>5 DEF Kinds

(* The head of the loop starts with nothing that waits for its witness.    *)
LEMMA ReducerStep ==
  ASSUME Kinds, Split, reducer
  PROVE  Kinds' /\ Split'
<1> DEFINE o == IF isSegWit' THEN 6 ELSE 4
           vin_size == getRealSizeFromCompactSize(o)
<1>1. /\ phase = "tx" /\ i <= Len(listTxs) /\ phase' = "vin" /\ isSegWit' \in BOOLEAN
      /\ offset' = vin_size.next /\ count' = vin_size.size /\ j' = 0
      /\ before' = [vin |-> Len(vin), vout |-> Len(vout)]
      /\ UNCHANGED <<block, beyond, listTxs, len, i, temp_segWitVin, vin, vout>>
  BY DEF reducer, received, found
<1>2. Reading /\ Len(listTxs) = Len(block) /\ Len(block) \in Nat
  BY <1>1, ParsingReads
<1>3. vin_size.next \in Nat /\ vin_size.size \in Nat
  <2>1. o \in Nat
    OBVIOUS
  <2> HIDE DEF o
  <2> QED BY <1>2, <2>1, RealSizeType
<1> HIDE DEF vin_size, o
<1>4. BufferKinds'
  BY <1>1 DEF Kinds, BufferKinds
<1>5. CursorKinds'
  <2>1. i > 1 /\ i \in 1 .. Len(block) + 1
    BY <1>1 DEF Kinds, CursorKinds
  <2>2. i' \in 2 .. Len(block') /\ i' \in 1 .. Len(block') + 1
    BY <1>1, <1>2, <2>1
  <2>3. offset' \in Nat /\ count' \in Nat /\ j' \in 0 .. count'
    BY <1>1, <1>3
  <2>4. phase' \in Parsing /\ phase' # "tx"
    BY <1>1 DEF Parsing
  <2> QED BY <1>1, <2>2, <2>3, <2>4 DEF CursorKinds
<1>6. FoundKinds'
  <2>1. Len(vin) \in Nat /\ Len(vout) \in Nat
    BY LenProperties DEF Kinds, FoundKinds
  <2>2. before'.vin <= Len(vin') /\ before'.vout <= Len(vout')
        /\ before' \in [vin : Nat, vout : Nat]
    BY <1>1, <2>1
  <2>3. temp_segWitVin = <<>>
    BY <1>1 DEF Kinds, FoundKinds, Parsing
  <2> QED BY <1>1, <2>2, <2>3 DEF Kinds, FoundKinds
<1>7. Split'
  BY <1>1, KeptSplit DEF Kept, received
<1> QED BY <1>4, <1>5, <1>6, <1>7 DEF Kinds

(* An input without witness is found at once.                              *)
LEMMA GetTxInputsStep ==
  ASSUME Kinds, Split, getTxInputs
  PROVE  Kinds' /\ Split'
<1>1. /\ phase = "vin" /\ ~isSegWit /\ j < count /\ j' = j + 1
      /\ vin' = (IF Input(offset).key THEN Append(vin, Input(offset).tin) ELSE vin)
      /\ offset' = Input(offset).next
      /\ UNCHANGED <<block, beyond, phase, listTxs, len, i, count, isSegWit,
                     temp_segWitVin, vout, before>>
  BY DEF getTxInputs, received
<1>2. i \in 2 .. Len(block) /\ Len(listTxs) = Len(block) /\ Len(block) \in Nat
  BY <1>1, BlockType DEF Kinds, BufferKinds, CursorKinds, Parsing
<1>3. Reading
  BY <1>1, <1>2, ParsingReads DEF Parsing
<1>4. offset \in Nat /\ Input(offset).next \in Nat /\ Input(offset).tin \in Tins
  BY <1>3, InputType DEF Kinds, CursorKinds
<1>5. vin' \in Seq(Tins) /\ Len(vin') >= Len(vin) /\ Len(vin) \in Nat
  BY <1>1, <1>4, AppendProperties, LenProperties DEF Kinds, FoundKinds
<1>6. BufferKinds'
  BY <1>1 DEF Kinds, BufferKinds
<1>7. CursorKinds'
  BY <1>1, <1>4 DEF Kinds, CursorKinds, Parsing
<1>8. FoundKinds'
  <2>1. before.vin \in Nat /\ before.vin <= Len(vin')
    BY <1>5 DEF Kinds, FoundKinds
  <2> QED BY <1>1, <1>5, <2>1 DEF Kinds, FoundKinds
<1>9. Split'
  BY <1>1, KeptSplit DEF Kept, received
<1> QED BY <1>6, <1>7, <1>8, <1>9 DEF Kinds

(* An input of a SegWit transaction waits, or is found, or both.           *)
LEMMA GetSegWitTxInputsStep ==
  ASSUME Kinds, Split, getSegWitTxInputs
  PROVE  Kinds' /\ Split'
<1> DEFINE in == Input(offset)
           tin == IF in.empty THEN [in.tin EXCEPT !.pkh = zeros]
                  ELSE IF in.key THEN in.tin
                  ELSE [in.tin EXCEPT !.pkh = ones]
<1>1. /\ phase = "vin" /\ isSegWit /\ j < count /\ j' = j + 1
      /\ vin' = (IF in.key /\ ~in.empty THEN Append(vin, tin) ELSE vin)
      /\ temp_segWitVin' = Append(temp_segWitVin, tin)
      /\ offset' = in.next
      /\ UNCHANGED <<block, beyond, phase, listTxs, len, i, count, isSegWit,
                     vout, before>>
  BY DEF getSegWitTxInputs, received
<1>2. i \in 2 .. Len(block) /\ Len(listTxs) = Len(block) /\ Len(block) \in Nat
  BY <1>1, BlockType DEF Kinds, BufferKinds, CursorKinds, Parsing
<1>3. Reading
  BY <1>1, <1>2, ParsingReads DEF Parsing
<1>4. offset \in Nat /\ in.next \in Nat /\ in.tin \in Tins
  BY <1>3, InputType DEF Kinds, CursorKinds
<1>5. tin \in Tins
  <2>1. zeros \in Hash /\ ones \in Hash
    BY EmptySeq DEF zeros, ones, Hash
  <2> HIDE DEF in
  <2> QED BY <1>4, <2>1 DEF Tins
<1> HIDE DEF tin, in
<1>6. vin' \in Seq(Tins) /\ Len(vin') >= Len(vin) /\ Len(vin) \in Nat
  BY <1>1, <1>5, AppendProperties, LenProperties DEF Kinds, FoundKinds
<1>7. temp_segWitVin' \in Seq(Tins)
  BY <1>1, <1>5, AppendProperties DEF Kinds, FoundKinds
<1>8. BufferKinds'
  BY <1>1 DEF Kinds, BufferKinds
<1>9. CursorKinds'
  BY <1>1, <1>4 DEF Kinds, CursorKinds, Parsing
<1>10. FoundKinds'
  <2>1. before.vin \in Nat /\ before.vin <= Len(vin')
    BY <1>6 DEF Kinds, FoundKinds
  <2>2. phase' \in Parsing /\ phase' # "witness"
    BY <1>1 DEF Parsing
  <2> QED BY <1>1, <1>6, <1>7, <2>1, <2>2 DEF Kinds, FoundKinds
<1>11. Split'
  BY <1>1, KeptSplit DEF Kept, received
<1> QED BY <1>8, <1>9, <1>10, <1>11 DEF Kinds

(* The head of the outputs.                                                *)
LEMMA InputsDoneStep ==
  ASSUME Kinds, Split, InputsDone
  PROVE  Kinds' /\ Split'
<1>1. /\ phase = "vin" /\ phase' = "vout" /\ j' = 0
      /\ offset' = getRealSizeFromCompactSize(offset).next
      /\ count' = getRealSizeFromCompactSize(offset).size
      /\ UNCHANGED <<block, beyond, listTxs, len, i, isSegWit, temp_segWitVin, vin,
                     vout, before>>
  BY DEF InputsDone, received, found
<1>2. i \in 2 .. Len(block) /\ Len(listTxs) = Len(block) /\ Len(block) \in Nat
  BY <1>1, BlockType DEF Kinds, BufferKinds, CursorKinds, Parsing
<1>3. Reading
  BY <1>1, <1>2, ParsingReads DEF Parsing
<1>4. offset' \in Nat /\ count' \in Nat
  BY <1>1, <1>3, RealSizeType DEF Kinds, CursorKinds
<1>5. BufferKinds'
  BY <1>1 DEF Kinds, BufferKinds
<1>6. CursorKinds'
  BY <1>1, <1>4 DEF Kinds, CursorKinds, Parsing
<1>7. FoundKinds'
  BY <1>1 DEF Kinds, FoundKinds, Parsing
<1>8. Split'
  BY <1>1, KeptSplit DEF Kept, received
<1> QED BY <1>5, <1>6, <1>7, <1>8 DEF Kinds

(* An output.                                                              *)
LEMMA GetTxOutputsStep ==
  ASSUME Kinds, Split, getTxOutputs
  PROVE  Kinds' /\ Split'
<1> DEFINE script == offset + 8
           new == IF At(script) = 25 /\ At(script + 1) = 118
                  THEN Append(vout, Output(offset)) ELSE vout
<1>1. /\ phase = "vout" /\ j < count /\ j' = j + 1
      /\ vout' = new
      /\ offset' = script + 1 + At(script)
      /\ UNCHANGED <<block, beyond, phase, listTxs, len, i, count, isSegWit,
                     temp_segWitVin, vin, before>>
  BY DEF getTxOutputs, received
<1>2. i \in 2 .. Len(block) /\ Len(listTxs) = Len(block) /\ Len(block) \in Nat
  BY <1>1, BlockType DEF Kinds, BufferKinds, CursorKinds, Parsing
<1>3. Reading /\ j \in Nat /\ offset \in Nat /\ script \in Nat
  BY <1>1, <1>2, ParsingReads DEF Kinds, CursorKinds, Parsing
<1>4. Output(offset) \in Touts /\ At(script) \in Nat
  BY <1>3, OutputType, AtType
<1>5. vout' \in Seq(Touts) /\ Len(vout') >= Len(vout) /\ Len(vout) \in Nat
  <2>1. CASE new = vout
    BY <1>1, <2>1, LenProperties DEF Kinds, FoundKinds
  <2>2. CASE new = Append(vout, Output(offset))
    BY <1>1, <1>4, <2>2, AppendProperties, LenProperties DEF Kinds, FoundKinds
  <2> QED BY <2>1, <2>2
<1>6. BufferKinds'
  BY <1>1 DEF Kinds, BufferKinds
<1>7. CursorKinds'
  BY <1>1, <1>3, <1>4 DEF Kinds, CursorKinds, Parsing
<1>8. FoundKinds'
  <2>1. before.vout \in Nat /\ before.vout <= Len(vout')
    BY <1>5 DEF Kinds, FoundKinds
  <2> QED BY <1>1, <1>5, <2>1 DEF Kinds, FoundKinds
<1>9. Split'
  BY <1>1, KeptSplit DEF Kept, received
<1> QED BY <1>6, <1>7, <1>8, <1>9 DEF Kinds

(* There are as many witnesses as inputs that wait.                        *)
LEMMA OutputsDoneStep ==
  ASSUME Kinds, Split, OutputsDone
  PROVE  Kinds' /\ Split'
<1>1. /\ phase = "vout" /\ j' = 0 /\ count' = Len(temp_segWitVin)
      /\ phase' = (IF isSegWit THEN "witness" ELSE "end")
      /\ UNCHANGED <<block, beyond, listTxs, len, i, offset, isSegWit,
                     temp_segWitVin, vin, vout, before>>
  BY DEF OutputsDone, received, found
<1>2. Len(temp_segWitVin) \in Nat
  BY LenProperties DEF Kinds, FoundKinds
<1>3. BufferKinds'
  BY <1>1 DEF Kinds, BufferKinds
<1>4. CursorKinds'
  BY <1>1, <1>2 DEF Kinds, CursorKinds, Parsing
<1>5. FoundKinds'
  BY <1>1 DEF Kinds, FoundKinds, Parsing
<1>6. Split'
  BY <1>1, KeptSplit DEF Kept, received
<1> QED BY <1>3, <1>4, <1>5, <1>6 DEF Kinds

(* A witness changes one input, and adds at most one.                      *)
LEMMA GetSegWitP2PKHStep ==
  ASSUME Kinds, Split, getSegWitP2PKH
  PROVE  Kinds' /\ Split'
<1> DEFINE stack == getRealSizeFromCompactSize(offset)
           key == Key(stack.next)
           tin == [temp_segWitVin[j + 1] EXCEPT !.pkh = key.pkh]
<1>1. /\ phase = "witness" /\ j < count /\ j' = j + 1
      /\ UNCHANGED <<block, beyond, phase, listTxs, len, i, count, isSegWit, vout,
                     before>>
  BY DEF getSegWitP2PKH, received, found
<1>2. i \in 2 .. Len(block) /\ Len(listTxs) = Len(block) /\ Len(block) \in Nat
  BY <1>1, BlockType DEF Kinds, BufferKinds, CursorKinds, Parsing
<1>3. Reading /\ offset \in Nat /\ j + 1 \in 1 .. Len(temp_segWitVin)
      /\ temp_segWitVin \in Seq(Tins) /\ vin \in Seq(Tins)
  BY <1>1, <1>2, ParsingReads DEF Kinds, CursorKinds, FoundKinds, Parsing
<1>4. stack.next \in Nat /\ stack.size \in Nat
  BY <1>3, RealSizeType
<1>5. \/ offset' = stack.next /\ UNCHANGED found
      \/ /\ offset' = key.next
         /\ temp_segWitVin' = [temp_segWitVin EXCEPT ![j + 1] = tin]
         /\ vin' = (IF key.pkh = zeros THEN vin ELSE Append(vin, tin))
      \/ offset' \in Skipped(stack.next, stack.size) /\ UNCHANGED found
  BY DEF getSegWitP2PKH
<1> HIDE DEF stack
<1>6. /\ key.next \in Nat /\ key.pkh \in Hash
      /\ Skipped(stack.next, stack.size) \subseteq Nat
  BY <1>3, <1>4, KeyType, SkippedType
<1>7. tin \in Tins
  <2>1. temp_segWitVin[j + 1] \in Tins
    BY <1>3, ElementOfSeq
  <2> HIDE DEF key
  <2> QED BY <1>6, <2>1 DEF Tins
<1> HIDE DEF tin, key
<1>8. /\ offset' \in Nat
      /\ vin' \in Seq(Tins) /\ Len(vin') >= Len(vin) /\ Len(vin) \in Nat
      /\ temp_segWitVin' \in Seq(Tins) /\ Len(temp_segWitVin') = Len(temp_segWitVin)
  <2>1. CASE offset' \in Nat /\ UNCHANGED found
    BY <1>3, <2>1, LenProperties DEF found
  <2>2. CASE /\ offset' = key.next
             /\ temp_segWitVin' = [temp_segWitVin EXCEPT ![j + 1] = tin]
             /\ vin' = (IF key.pkh = zeros THEN vin ELSE Append(vin, tin))
    <3>1. temp_segWitVin' \in Seq(Tins) /\ Len(temp_segWitVin') = Len(temp_segWitVin)
      BY <1>3, <1>7, <2>2, ExceptSeq
    <3>2. vin' \in Seq(Tins) /\ Len(vin') >= Len(vin) /\ Len(vin) \in Nat
      BY <1>3, <1>7, <2>2, AppendProperties, LenProperties
    <3> QED BY <1>6, <2>2, <3>1, <3>2
  <2> QED BY <1>4, <1>5, <1>6, <2>1, <2>2
<1>9. BufferKinds'
  BY <1>1 DEF Kinds, BufferKinds
<1>10. CursorKinds'
  BY <1>1, <1>8 DEF Kinds, CursorKinds, Parsing
<1>11. FoundKinds'
  <2>1. before.vin \in Nat /\ before.vin <= Len(vin')
    BY <1>8 DEF Kinds, FoundKinds
  <2> QED BY <1>1, <1>8, <2>1 DEF Kinds, FoundKinds, Parsing
<1>12. Split'
  BY <1>1, KeptSplit DEF Kept, received
<1> QED BY <1>9, <1>10, <1>11, <1>12 DEF Kinds

(* Nothing waits any more.                                                 *)
LEMMA WitnessesDoneStep ==
  ASSUME Kinds, Split, WitnessesDone
  PROVE  Kinds' /\ Split'
<1>1. /\ phase = "witness" /\ phase' = "end" /\ temp_segWitVin' = <<>>
      /\ UNCHANGED <<block, beyond, listTxs, len, i, offset, j, count, isSegWit,
                     vin, vout, before>>
  BY DEF WitnessesDone, Cleared, received
<1>2. BufferKinds'
  BY <1>1 DEF Kinds, BufferKinds
<1>3. CursorKinds'
  BY <1>1 DEF Kinds, CursorKinds, Parsing
<1>4. FoundKinds'
  BY <1>1, EmptySeq DEF Kinds, FoundKinds, Parsing
<1>5. Split'
  BY <1>1, KeptSplit DEF Kept, received
<1> QED BY <1>2, <1>3, <1>4, <1>5 DEF Kinds

(* The next transaction.                                                   *)
LEMMA NextTxStep ==
  ASSUME Kinds, Split, NextTx
  PROVE  Kinds' /\ Split'
<1>1. /\ phase = "end" /\ phase' = "tx" /\ i' = i + 1
      /\ UNCHANGED <<block, beyond, listTxs, len, offset, j, count, isSegWit,
                     temp_segWitVin, vin, vout, before>>
  BY DEF NextTx, received, found
<1>2. Len(block) \in Nat
  BY BlockType DEF Kinds, BufferKinds
<1>3. BufferKinds'
  BY <1>1 DEF Kinds, BufferKinds
<1>4. CursorKinds'
  BY <1>1, <1>2 DEF Kinds, CursorKinds, Parsing
<1>5. FoundKinds'
  BY <1>1 DEF Kinds, FoundKinds, Parsing
<1>6. Split'
  BY <1>1, KeptSplit DEF Kept, received
<1> QED BY <1>3, <1>4, <1>5, <1>6 DEF Kinds

(* Every step.                                                             *)
LEMMA StepKinds ==
  ASSUME Kinds, Split, [Next]_vars
  PROVE  Kinds' /\ Split'
<1>1. CASE sendRawTxList
  BY <1>1, SendRawTxListStep
<1>2. CASE verifyBlock
  BY <1>2, VerifyBlockStep
<1>3. CASE verifyMerkleRoot
  BY <1>3, VerifyMerkleRootStep
<1>4. CASE BlockVerified
  BY <1>4, BlockVerifiedStep
<1>5. CASE reducer
  BY <1>5, ReducerStep
<1>6. CASE getTxInputs
  BY <1>6, GetTxInputsStep
<1>7. CASE getSegWitTxInputs
  BY <1>7, GetSegWitTxInputsStep
<1>8. CASE InputsDone
  BY <1>8, InputsDoneStep
<1>9. CASE getTxOutputs
  BY <1>9, GetTxOutputsStep
<1>10. CASE OutputsDone
  BY <1>10, OutputsDoneStep
<1>11. CASE getSegWitP2PKH
  BY <1>11, GetSegWitP2PKHStep
<1>12. CASE WitnessesDone
  BY <1>12, WitnessesDoneStep
<1>13. CASE NextTx
  BY <1>13, NextTxStep
<1>14. CASE UNCHANGED vars
  <2>1. Kinds'
    BY <1>14 DEF vars, Kinds, BufferKinds, CursorKinds, FoundKinds
  <2>2. Split'
    BY <1>14 DEF vars, Split, SplitExact, Frames
  <2> QED BY <2>1, <2>2
<1> QED BY <1>1, <1>2, <1>3, <1>4, <1>5, <1>6, <1>7, <1>8, <1>9, <1>10, <1>11,
           <1>12, <1>13, <1>14 DEF Next

(* The types, for every block: transaction number, offset and loop index stay *)
(* in range, no input waits for a witness between transactions, and no list *)
(* becomes shorter while a transaction is read.                            *)
THEOREM ReducerTypeCorrect == Spec => []TypeOK
<1>1. Init => Kinds /\ Split
  BY InitKinds
<1>2. Kinds /\ Split /\ [Next]_vars => Kinds' /\ Split'
  BY StepKinds
<1>3. Kinds => TypeOK
  BY KindsAreTypes
<1> QED BY <1>1, <1>2, <1>3, PTL DEF Spec

(* Every transaction comes out of the buffer as it went in, for every      *)
(* block and whatever is behind the buffer: the length in front of each,   *)
(* big endian in four bytes, is read as it was written, and so the offset  *)
(* is always at the place of the next one.                                 *)
THEOREM SplitIsExact == Spec => []SplitExact
<1>1. Init => Kinds /\ Split
  BY InitKinds
<1>2. Kinds /\ Split /\ [Next]_vars => Kinds' /\ Split'
  BY StepKinds
<1>3. Split => SplitExact
  BY DEF Split
<1> QED BY <1>1, <1>2, <1>3, PTL DEF Spec

-----------------------------------------------------------------------------
(* The Merkle root. *)

(* A function on the first numbers has as many members. *)
LEMMA FunctionLen ==
  ASSUME NEW n \in Nat, NEW s, s = [k \in 1 .. n |-> s[k]]
  PROVE  Len(s) = n
<1> DEFINE S == { s[k] : k \in 1 .. n }
<1>1. s \in [1 .. n -> S]
  OBVIOUS
<1> HIDE DEF S
<1> QED BY <1>1, FunctionIsSeq

(* The rows of the tree, up to the one at height n. *)
AreRows(row, leaves, n) ==
  /\ row = [d \in 0 .. n |-> row[d]]
  /\ row[0] = leaves
  /\ \A d \in 1 .. n : row[d] = RowAbove(row[d - 1])

(* There are such rows: else there is a least height with none.            *)
LEMMA RowsExist ==
  ASSUME NEW leaves, NEW n \in Nat
  PROVE  \E row : AreRows(row, leaves, n)
<1> DEFINE T == { m \in Nat : m <= n /\ ~\E f : AreRows(f, leaves, m) }
<1> SUFFICES ASSUME T # {} PROVE FALSE
  OBVIOUS
<1>1. PICK m \in T : \A p \in T : m <= p
  BY LeastElement
<1>2. CASE m = 0
  <2> DEFINE f == [d \in 0 .. 0 |-> leaves]
  <2>1. AreRows(f, leaves, 0)
    BY DEF AreRows
  <2> QED BY <1>2, <2>1
<1>3. CASE m # 0
  <2>1. m \in Nat /\ m <= n
    OBVIOUS
  <2>2. m - 1 \in Nat /\ m - 1 <= n /\ ~(m <= m - 1)
    BY <1>3, <2>1
  <2>3. PICK f : AreRows(f, leaves, m - 1)
    BY <1>1, <2>2
  <2>4. f[0] = leaves /\ \A d \in 1 .. m - 1 : f[d] = RowAbove(f[d - 1])
    BY <2>3 DEF AreRows
  <2> DEFINE g == [d \in 0 .. m |-> IF d = m THEN RowAbove(f[m - 1]) ELSE f[d]]
  <2>5. g = [d \in 0 .. m |-> g[d]] /\ g[0] = leaves
    BY <2>2, <2>4
  <2>6. ASSUME NEW d \in 1 .. m
        PROVE  g[d] = RowAbove(g[d - 1])
    <3>1. d - 1 \in 0 .. m /\ d - 1 # m /\ d \in 0 .. m
      BY <2>1
    <3>2. g[d - 1] = f[d - 1]
      BY <3>1
    <3>3. CASE d = m
      BY <3>1, <3>2, <3>3
    <3>4. CASE d # m
      <4>1. d \in 1 .. m - 1 /\ g[d] = f[d]
        BY <2>1, <3>1, <3>4
      <4> QED BY <2>4, <3>2, <4>1
    <3> QED BY <3>3, <3>4
  <2> HIDE DEF g
  <2>7. AreRows(g, leaves, m)
    BY <2>5, <2>6 DEF AreRows
  <2> QED BY <2>1, <2>7
<1> QED BY <1>2, <1>3

(* The root is in the first row that has one node. *)
LEMMA RootIs ==
  ASSUME NEW leaves, NEW row, NEW d \in Nat, Len(leaves) \in Nat,
         AreRows(row, leaves, Len(leaves)), d <= Len(leaves), Len(row[d]) = 1,
         \A e \in 0 .. d - 1 : Len(row[e]) > 1
  PROVE  MerkleTree(leaves) = row[d][1]
<1> DEFINE n == Len(leaves)
           Def(r) == r = [e \in 0 .. n |-> IF e = 0 THEN leaves ELSE RowAbove(r[e - 1])]
           c == CHOOSE r : Def(r)
           Top(e) == Len(c[e]) = 1 /\ \A f \in 0 .. e - 1 : Len(c[f]) > 1
           height == CHOOSE e \in 0 .. n : Top(e)
<1>1. MerkleTree(leaves) = c[height][1]
  BY DEF MerkleTree
<1>2. \A e \in 0 .. n : row[e] = IF e = 0 THEN leaves ELSE RowAbove(row[e - 1])
  BY DEF AreRows
<1>3. Def(row)
  <2>1. row = [e \in 0 .. n |-> row[e]]
    BY DEF AreRows
  <2> QED BY <1>2, <2>1
<1>4. Def(c)
  BY <1>3
<1> HIDE DEF c
<1>5. \A e \in 0 .. n : c[e] = IF e = 0 THEN leaves ELSE RowAbove(c[e - 1])
  BY <1>4
<1>6. \A e \in 0 .. n : c[e] = row[e]
  <2>1. AgreeStep(c, row, 0, n)
    BY <1>2, <1>5 DEF AgreeStep
  <2> HIDE DEF Def
  <2> QED BY <2>1, AgreeBefore
<1>7. d \in 0 .. n /\ \A e \in 0 .. d - 1 : e \in 0 .. n
  OBVIOUS
<1>8. Top(d)
  BY <1>6, <1>7
<1> HIDE DEF Top
<1>9. height \in 0 .. n /\ Top(height)
  BY <1>7, <1>8
<1> HIDE DEF height
<1>10. height = d
  <2>1. Len(c[height]) = 1 /\ \A f \in 0 .. height - 1 : Len(c[f]) > 1
    BY <1>9 DEF Top
  <2>2. Len(c[d]) = 1 /\ \A f \in 0 .. d - 1 : Len(c[f]) > 1
    BY <1>8 DEF Top
  <2>3. height \in Nat
    BY <1>9
  <2>4. ~(height < d)
    <3>1. ASSUME height < d PROVE FALSE
      <4>1. height \in 0 .. d - 1
        BY <2>3, <3>1
      <4>2. Len(c[height]) > 1 /\ Len(c[height]) = 1
        BY <2>1, <2>2, <4>1
      <4> QED BY <4>2
    <3> QED BY <3>1
  <2>5. ~(d < height)
    <3>1. ASSUME d < height PROVE FALSE
      <4>1. d \in 0 .. height - 1
        BY <2>3, <3>1
      <4>2. Len(c[d]) > 1 /\ Len(c[d]) = 1
        BY <2>1, <2>2, <4>1
      <4> QED BY <4>2
    <3> QED BY <3>1
  <2> QED BY <2>3, <2>4, <2>5
<1> QED BY <1>1, <1>6, <1>7, <1>10

(* In the loop of verifyMerkleRoot the first len hashes are a row of the   *)
(* tree; behind them are old ones, which are not read any more.            *)
Leaves == [k \in DOMAIN listTxs |-> listTxs[k].txhash]
IsRow(row, d) ==
  /\ AreRows(row, Leaves, Len(listTxs))
  /\ d + len <= Len(listTxs)
  /\ \A e \in 0 .. d - 1 : Len(row[e]) > 1
  /\ Len(row[d]) = len
  /\ \A k \in 1 .. len : txHashes[k] = row[d][k]
Merkle ==
  /\ phase = "merkle" =>
       /\ DOMAIN txHashes = 1 .. Len(listTxs)
       /\ \E row : \E d \in Nat : IsRow(row, d)
  /\ phase \notin {"split", "merkle"} => txHashes[1] = MerkleTree(Leaves)

(* There is a leaf for each transaction.                                   *)
LEMMA LeavesLen ==
  ASSUME Kinds
  PROVE  /\ Len(listTxs) \in Nat /\ DOMAIN listTxs = 1 .. Len(listTxs)
         /\ Len(Leaves) = Len(listTxs)
<1>1. Len(listTxs) \in Nat /\ DOMAIN listTxs = 1 .. Len(listTxs)
  BY LenProperties DEF Kinds, BufferKinds
<1>2. Leaves = [k \in 1 .. Len(listTxs) |-> Leaves[k]]
  BY <1>1 DEF Leaves
<1> QED BY <1>1, <1>2, FunctionLen

(* The hashes verifyBlock copies are the lowest row.                       *)
LEMMA VerifyBlockMerkle ==
  ASSUME Kinds, verifyBlock
  PROVE  Merkle'
<1> DEFINE n == Len(listTxs)
<1>1. n \in Nat /\ DOMAIN listTxs = 1 .. n /\ Len(Leaves) = n
  BY LeavesLen
<1>2. phase' = "merkle" /\ txHashes' = Leaves /\ len' = n /\ listTxs' = listTxs
  BY DEF verifyBlock, received, Leaves
<1>3. Leaves' = Leaves
  BY <1>2 DEF Leaves
<1>4. PICK row : AreRows(row, Leaves, n)
  BY <1>1, RowsExist
<1>5. row[0] = Leaves /\ DOMAIN Leaves = 1 .. n
  BY <1>1, <1>4 DEF AreRows, Leaves
<1>6. IsRow(row, 0)'
  BY <1>1, <1>2, <1>3, <1>4, <1>5 DEF IsRow
<1> QED BY <1>2, <1>5, <1>6 DEF Merkle

(* One level of verifyMerkleRoot is the next row.                          *)
LEMMA VerifyMerkleRootMerkle ==
  ASSUME Kinds, Merkle, verifyMerkleRoot
  PROVE  Merkle'
<1> DEFINE n == Len(listTxs)
           p == Pairs
<1>1. n \in Nat /\ n = Len(block) /\ len \in Nat /\ len > 1 /\ len <= n
  BY BlockType DEF Kinds, BufferKinds, verifyMerkleRoot
<1>2. phase = "merkle" /\ phase' = phase /\ txHashes' = Level /\ len' = p
      /\ listTxs' = listTxs
  BY DEF verifyMerkleRoot, received
<1>3. p \in Nat /\ 2 * p <= len + 1 /\ len <= 2 * p /\ p < len /\ p >= 1
  BY <1>1 DEF Pairs
<1>4. DOMAIN txHashes = 1 .. n
  BY <1>2 DEF Merkle
<1>5. PICK row : \E d \in Nat : IsRow(row, d)
  BY <1>2 DEF Merkle
<1>6. PICK d \in Nat : IsRow(row, d)
  BY <1>5
<1>7. /\ AreRows(row, Leaves, n) /\ d + len <= n /\ Len(row[d]) = len
      /\ \A e \in 0 .. d - 1 : Len(row[e]) > 1
      /\ \A k \in 1 .. len : txHashes[k] = row[d][k]
  BY <1>6 DEF IsRow
<1>8. row[d + 1] = RowAbove(row[d])
  <2>1. d + 1 \in 1 .. n /\ (d + 1) - 1 = d
    BY <1>1, <1>7
  <2> QED BY <1>7, <2>1 DEF AreRows
<1> DEFINE up == row[d + 1]
<1>9. up = [k \in 1 .. p |->
              <<row[d][2 * k - 1], row[d][IF 2 * k <= len THEN 2 * k ELSE 2 * k - 1]>>]
  BY <1>7, <1>8 DEF RowAbove, Pairs
<1> HIDE DEF up, p
<1>10. Len(up) = p
  <2>1. up = [k \in 1 .. p |-> up[k]]
    BY <1>9
  <2> QED BY <1>3, <2>1, FunctionLen
<1>11. ASSUME NEW k \in 1 .. p
       PROVE  txHashes'[k] = up[k]
  <2>1. k \in 1 .. n /\ ~(k > p) /\ 2 * k - 1 \in 1 .. len
    BY <1>1, <1>3
  <2>2. txHashes'[k] = IF len % 2 = 1 /\ k = p THEN <<txHashes[len], txHashes[len]>>
                       ELSE <<txHashes[2 * k - 1], HashAt(2 * k)>>
    BY <1>2, <1>4, <2>1 DEF Level, p
  <2>3. CASE len % 2 = 1 /\ k = p
    <3>1. 2 * k - 1 = len /\ ~(2 * k <= len)
      BY <1>1, <1>3, <2>3
    <3>2. up[k] = <<row[d][len], row[d][len]>>
      BY <1>9, <3>1
    <3> QED BY <1>1, <1>7, <2>2, <2>3, <3>2
  <2>4. CASE ~(len % 2 = 1 /\ k = p)
    <3>1. 2 * k <= len /\ 2 * k \in 1 .. len /\ 2 * k \in 1 .. n
      BY <1>1, <1>3, <2>4
    <3>2. HashAt(2 * k) = txHashes[2 * k]
      BY <1>4, <3>1 DEF HashAt
    <3>3. up[k] = <<row[d][2 * k - 1], row[d][2 * k]>>
      BY <1>9, <3>1
    <3>4. txHashes'[k] = <<txHashes[2 * k - 1], txHashes[2 * k]>>
      BY <2>2, <2>4, <3>2
    <3> QED BY <1>7, <2>1, <3>1, <3>3, <3>4
  <2> QED BY <2>3, <2>4
<1>12. IsRow(row, d + 1)'
  <2>1. Leaves' = Leaves
    BY <1>2 DEF Leaves
  <2>2. (d + 1) + p <= n
    BY <1>1, <1>3, <1>7
  <2>3. \A e \in 0 .. d : Len(row[e]) > 1
    <3>1. \A e \in 0 .. d : e = d \/ e \in 0 .. d - 1
      OBVIOUS
    <3> QED BY <1>1, <1>7, <3>1
  <2>4. \A e \in 0 .. (d + 1) - 1 : Len(row[e]) > 1
    BY <2>3
  <2>5. len' = p
    BY <1>2 DEF p
  <2> QED BY <1>2, <1>7, <1>10, <1>11, <2>1, <2>2, <2>4, <2>5 DEF IsRow, up
<1>13. DOMAIN txHashes' = 1 .. n
  BY <1>2, <1>4 DEF Level
<1>14. d + 1 \in Nat
  OBVIOUS
<1> QED BY <1>2, <1>12, <1>13, <1>14 DEF Merkle

(* The last hash is the root.                                              *)
LEMMA BlockVerifiedMerkle ==
  ASSUME Kinds, Merkle, BlockVerified
  PROVE  Merkle'
<1>1. phase = "merkle" /\ len = 1 /\ phase' = "tx" /\ txHashes' = txHashes
      /\ listTxs' = listTxs
  BY DEF BlockVerified, received
<1>2. PICK row : \E d \in Nat : IsRow(row, d)
  BY <1>1 DEF Merkle
<1>3. PICK d \in Nat : IsRow(row, d)
  BY <1>2
<1>4. Len(listTxs) \in Nat /\ Len(Leaves) = Len(listTxs)
  BY LeavesLen
<1>5. /\ AreRows(row, Leaves, Len(Leaves)) /\ d <= Len(Leaves) /\ Len(row[d]) = 1
      /\ \A e \in 0 .. d - 1 : Len(row[e]) > 1
      /\ txHashes[1] = row[d][1]
  BY <1>1, <1>3, <1>4 DEF IsRow
<1>6. MerkleTree(Leaves) = row[d][1]
  BY <1>4, <1>5, RootIs
<1>7. Leaves' = Leaves
  BY <1>1 DEF Leaves
<1>8. MerkleTree(Leaves)' = MerkleTree(Leaves)
  BY <1>7 DEF MerkleTree, RowAbove
<1> QED BY <1>1, <1>5, <1>6, <1>8 DEF Merkle

(* Every step; after the root nothing touches the hashes.                  *)
LEMMA StepMerkle ==
  ASSUME Kinds, Merkle, [Next]_vars
  PROVE  Merkle'
<1>1. CASE sendRawTxList
  BY <1>1 DEF sendRawTxList, Merkle
<1>2. CASE verifyBlock
  BY <1>2, VerifyBlockMerkle
<1>3. CASE verifyMerkleRoot
  BY <1>3, VerifyMerkleRootMerkle
<1>4. CASE BlockVerified
  BY <1>4, BlockVerifiedMerkle
<1>5. CASE /\ UNCHANGED <<txHashes, listTxs>>
           /\ {phase, phase'} \cap {"split", "merkle"} = {}
  <2>1. Leaves' = Leaves
    BY <1>5 DEF Leaves
  <2>2. MerkleTree(Leaves)' = MerkleTree(Leaves)
    BY <2>1 DEF MerkleTree, RowAbove
  <2> QED BY <1>5, <2>2 DEF Merkle
<1>6. CASE \/ reducer \/ getTxInputs \/ getSegWitTxInputs \/ InputsDone
           \/ getTxOutputs \/ OutputsDone \/ getSegWitP2PKH \/ WitnessesDone \/ NextTx
  BY <1>5, <1>6 DEF reducer, getTxInputs, getSegWitTxInputs, InputsDone, getTxOutputs,
     OutputsDone, getSegWitP2PKH, WitnessesDone, NextTx, received
<1>7. CASE UNCHANGED vars
  <2>1. Leaves' = Leaves /\ MerkleTree(Leaves)' = MerkleTree(Leaves)
    BY <1>7 DEF vars, Leaves, MerkleTree, RowAbove
  <2>2. \A row, d : IsRow(row, d)' = IsRow(row, d)
    BY <1>7, <2>1 DEF vars, IsRow
  <2> QED BY <1>7, <2>1, <2>2 DEF vars, Merkle
<1> QED BY <1>1, <1>2, <1>3, <1>4, <1>6, <1>7 DEF Next

(* The root verifyMerkleRoot gets is that of the Merkle tree over the      *)
(* hashes sendRawTxList computed, for every number of them: it works in    *)
(* place, and with an odd number it reads one behind the last, but what it *)
(* finds there is overwritten before it is used.  The hashes are the ids   *)
(* of the transactions only where none has a witness.                      *)
THEOREM MerkleRootIsExact == Spec => []MerkleRootExact
<1>1. Init => Kinds /\ Split /\ Merkle
  BY InitKinds DEF Init, Merkle
<1>2. Kinds /\ Split /\ Merkle /\ [Next]_vars => Kinds' /\ Split' /\ Merkle'
  BY StepKinds, StepMerkle
<1>3. Merkle => MerkleRootExact
  BY DEF Merkle, MerkleRootExact, Leaves
<1> QED BY <1>1, <1>2, <1>3, PTL DEF Spec

-----------------------------------------------------------------------------
(* What the parse finds.                                                   *)

(* The sequence p is in s from o on, and nothing comes after it. *)
Ends(s, o, p) == Has(s, o, p) /\ Len(s) = o + Len(p)

(* Nothing is anywhere. *)
LEMMA EndsNothing ==
  ASSUME NEW S, NEW s \in Seq(S)
  PROVE  Ends(s, Len(s), <<>>)
<1>1. Len(s) \in Nat /\ Len(<<>>) = 0
  BY LenProperties, EmptySeq
<1> QED BY <1>1 DEF Ends, Has

(* What is in a sequence stays there when something is added at the end.   *)
LEMMA HasAppended ==
  ASSUME NEW S, NEW s \in Seq(S), NEW p \in Seq(S), NEW o \in Nat, NEW e \in S,
         Has(s, o, p)
  PROVE  Has(Append(s, e), o, p)
<1>1. Len(s) \in Nat /\ Len(p) \in Nat
  BY LenProperties
<1>2. Len(Append(s, e)) = Len(s) + 1 /\ \A k \in 1 .. Len(s) : Append(s, e)[k] = s[k]
  BY AppendProperties
<1>3. \A k \in 1 .. Len(p) : o + k \in 1 .. Len(s)
  BY <1>1 DEF Has
<1> QED BY <1>1, <1>2, <1>3 DEF Has

(* And what is at the end is longer by that. *)
LEMMA EndsAppended ==
  ASSUME NEW S, NEW s \in Seq(S), NEW p \in Seq(S), NEW o \in Nat, NEW e \in S,
         Ends(s, o, p)
  PROVE  Ends(Append(s, e), o, p \o <<e>>)
<1>1. Len(s) \in Nat /\ Len(p) \in Nat /\ Len(s) = o + Len(p)
  BY LenProperties DEF Ends
<1>2. /\ Len(Append(s, e)) = Len(s) + 1
      /\ \A k \in 1 .. Len(s) : Append(s, e)[k] = s[k]
      /\ Append(s, e)[Len(s) + 1] = e
  BY AppendProperties
<1>3. <<e>> \in Seq(S) /\ Len(<<e>>) = 1
  OBVIOUS
<1>4. /\ Len(p \o <<e>>) = Len(p) + 1
      /\ \A k \in 1 .. Len(p) + 1 :
           (p \o <<e>>)[k] = IF k <= Len(p) THEN p[k] ELSE <<e>>[k - Len(p)]
  BY <1>3, ConcatProperties
<1>5. ASSUME NEW k \in 1 .. Len(p) + 1
      PROVE  Append(s, e)[o + k] = (p \o <<e>>)[k]
  <2>1. CASE k <= Len(p)
    <3>1. o + k \in 1 .. Len(s) /\ k \in 1 .. Len(p)
      BY <1>1, <2>1
    <3>2. s[o + k] = p[k]
      BY <3>1 DEF Ends, Has
    <3> QED BY <1>2, <1>4, <2>1, <3>1, <3>2
  <2>2. CASE ~(k <= Len(p))
    <3>1. k = Len(p) + 1 /\ o + k = Len(s) + 1 /\ k - Len(p) = 1
      BY <1>1, <2>2
    <3>2. <<e>>[k - Len(p)] = e
      BY <3>1
    <3> QED BY <1>2, <1>4, <2>2, <3>1, <3>2
  <2> QED BY <2>1, <2>2
<1>6. Len(Append(s, e)) = o + Len(p \o <<e>>)
  BY <1>1, <1>2, <1>4
<1>7. \A k \in 1 .. Len(p \o <<e>>) : Append(s, e)[o + k] = (p \o <<e>>)[k]
  BY <1>1, <1>4, <1>5
<1>8. o + Len(p \o <<e>>) <= Len(Append(s, e))
  BY <1>1, <1>2, <1>6
<1> QED BY <1>6, <1>7, <1>8 DEF Ends, Has

(* In terms of the properties: the tail of s. *)
LEMMA TailHas ==
  ASSUME NEW S, NEW s \in Seq(S), NEW p \in Seq(S), NEW o \in Nat, Has(s, o, p)
  PROVE  /\ IsPrefix(p, SubSeq(s, o + 1, Len(s)))
         /\ Ends(s, o, p) => SubSeq(s, o + 1, Len(s)) = p
<1> DEFINE n == Len(s)
           u == SubSeq(s, o + 1, n)
<1>1. n \in Nat /\ Len(p) \in Nat /\ o + Len(p) <= n
  BY LenProperties DEF Has
<1>2. /\ u \in Seq(S)
      /\ Len(u) = IF o + 1 <= n THEN n - (o + 1) + 1 ELSE 0
      /\ \A k \in 1 .. n - (o + 1) + 1 : u[k] = s[o + 1 + k - 1]
  <2>1. \A k \in o + 1 .. n : s[k] \in S
    <3>1. \A k \in o + 1 .. n : k \in 1 .. n
      BY <1>1
    <3> QED BY <3>1, ElementOfSeq
  <2>2. o + 1 \in Int /\ n \in Int
    BY <1>1
  <2> QED BY <2>1, <2>2, SubSeqProperties
<1> HIDE DEF u
<1>3. Len(u) = n - o /\ \A k \in 1 .. n - o : u[k] = s[o + k]
  BY <1>1, <1>2
<1>4. \A k \in 1 .. Len(p) : u[k] = p[k]
  <2>1. \A k \in 1 .. Len(p) : k \in 1 .. n - o
    BY <1>1
  <2> QED BY <1>3, <2>1 DEF Has
<1>5. IsPrefix(p, u)
  <2>1. SubSeq(p, 1, Len(p)) = [k \in 1 .. Len(p) |-> p[k]]
    <3>1. SubSeq(p, 1, Len(p)) = p /\ p = [k \in 1 .. Len(p) |-> p[k]]
      BY SubSeqFull, LenProperties
    <3> QED BY <3>1
  <2>2. SubSeq(u, 1, Len(p)) = [k \in 1 .. Len(p) |-> u[k]]
    <3>1. Len(p) \in 0 .. Len(u)
      BY <1>1, <1>3
    <3>2. SubSeq(u, 1, Len(p)) = Restrict(u, 1 .. Len(p))
      BY <1>2, <3>1, SubSeqRestrict
    <3> QED BY <3>2 DEF Restrict
  <2> QED BY <1>1, <1>3, <1>4, <2>1, <2>2 DEF IsPrefix
<1>6. ASSUME Ends(s, o, p)
      PROVE  u = p
  <2>1. Len(u) = Len(p)
    BY <1>1, <1>3, <1>6 DEF Ends
  <2> QED BY <1>2, <1>4, <2>1, SeqEqual
<1> QED BY <1>5, <1>6 DEF u

(* One more sequence is joined at the end. *)
LEMMA FlattenAppended ==
  ASSUME NEW S, NEW qs \in Seq(Seq(S)), NEW q \in Seq(S)
  PROVE  FlattenSeq(Append(qs, q)) = FlattenSeq(qs) \o q
<1> DEFINE n == Len(qs)
           rs == Append(qs, q)
<1>1. n \in Nat /\ rs \in Seq(Seq(S)) /\ Len(rs) = n + 1 /\ rs[n + 1] = q
      /\ \A k \in 1 .. n : rs[k] = qs[k]
  BY LenProperties, AppendProperties
<1> HIDE DEF rs, n
<1>2. PICK g : /\ g[0] = <<>>
               /\ \A k \in 1 .. n : g[k] = g[k - 1] \o qs[k]
               /\ FlattenSeq(qs) = g[n]
  BY FlattenIs DEF n
<1>3. PICK h : /\ h[0] = <<>>
               /\ \A k \in 1 .. n + 1 : h[k] = h[k - 1] \o rs[k]
               /\ FlattenSeq(rs) = h[n + 1]
  <2>1. \E h : /\ h[0] = <<>>
               /\ \A k \in 1 .. Len(rs) : h[k] = h[k - 1] \o rs[k]
               /\ FlattenSeq(rs) = h[Len(rs)]
    <3>1. rs \in Seq(Seq(S))
      BY <1>1
    <3> QED BY <3>1, FlattenIs
  <2> QED BY <1>1, <2>1
<1>4. \A k \in 0 .. n : h[k] = g[k]
  <2>1. AgreeStep(h, g, 0, n)
    <3> SUFFICES ASSUME NEW k \in 0 .. n, k # 0 => h[k - 1] = g[k - 1] PROVE h[k] = g[k]
      BY DEF AgreeStep
    <3>1. k # 0 => k \in 1 .. n /\ k \in 1 .. n + 1
      BY <1>1
    <3> QED BY <1>1, <1>2, <1>3, <3>1
  <2> QED BY <1>1, <2>1, AgreeBefore
<1>5. h[n + 1] = h[n] \o q
  <2>1. n + 1 \in 1 .. n + 1 /\ (n + 1) - 1 = n
    BY <1>1
  <2> QED BY <1>1, <1>3, <2>1
<1>6. h[n] = g[n]
  BY <1>1, <1>4
<1> QED BY <1>2, <1>3, <1>5, <1>6 DEF rs

(* Nothing joined is nothing. *)
LEMMA FlattenNothing ==
  ASSUME NEW S, NEW qs \in Seq(Seq(S)), \A k \in 1 .. Len(qs) : qs[k] = <<>>
  PROVE  FlattenSeq(qs) = <<>>
<1> DEFINE n == Len(qs)
           e == [k \in 0 .. n |-> <<>>]
<1>1. n \in Nat /\ \A k \in 1 .. n : qs[k] = <<>>
  BY LenProperties
<1> HIDE DEF n
<1>2. PICK g : /\ g[0] = <<>>
               /\ \A k \in 1 .. n : g[k] = g[k - 1] \o qs[k]
               /\ FlattenSeq(qs) = g[n]
  BY FlattenIs DEF n
<1>3. <<>> \o <<>> = <<>>
  BY EmptySeq, ConcatEmptySeq
<1>4. \A k \in 0 .. n : g[k] = e[k]
  <2>1. AgreeStep(g, e, 0, n)
    <3> SUFFICES ASSUME NEW k \in 0 .. n, k # 0 => g[k - 1] = e[k - 1] PROVE g[k] = <<>>
      BY DEF AgreeStep
    <3>1. k # 0 => k \in 1 .. n /\ k - 1 \in 0 .. n
      BY <1>1
    <3> QED BY <1>1, <1>2, <1>3, <3>1
  <2> HIDE DEF e
  <2> QED BY <1>1, <2>1, AgreeBefore
<1>5. n \in 0 .. n
  BY <1>1
<1> QED BY <1>2, <1>4, <1>5

-----------------------------------------------------------------------------
(* Reading what was written. *)
Hex == listTxs[i].hex

(* The bytes of the transaction are numbers. *)
LEMMA HexType ==
  ASSUME Reading
  PROVE  Hex \in Seq(Nat) /\ Len(Hex) \in Nat
<1>1. listTxs[i] \in Txs
  BY ElementOfSeq DEF Reading, BufferKinds
<1> QED BY <1>1, LenProperties DEF Txs, Hex

(* A byte that the transaction has. *)
LEMMA ReadAt ==
  ASSUME Reading, NEW o \in Nat, NEW p \in Seq(Nat), Has(Hex, o, p)
  PROVE  \A k \in 1 .. Len(p) : At(o + k - 1) = p[k]
<1> SUFFICES ASSUME NEW k \in 1 .. Len(p) PROVE At(o + k - 1) = p[k]
  OBVIOUS
<1>1. Len(p) \in Nat /\ Len(Hex) \in Nat /\ o + Len(p) <= Len(Hex)
  BY HexType, LenProperties DEF Has
<1>2. o + k - 1 < Len(Hex) /\ (o + k - 1) + 1 = o + k
  BY <1>1
<1>3. At(o + k - 1) = Hex[(o + k - 1) + 1]
  BY <1>2 DEF At, Hex
<1>4. Hex[o + k] = p[k]
  BY DEF Has
<1> QED BY <1>2, <1>3, <1>4

(* Its first byte. *)
LEMMA ReadFirst ==
  ASSUME Reading, NEW o \in Nat, NEW p \in Seq(Nat), Has(Hex, o, p), Len(p) > 0
  PROVE  At(o) = p[1]
<1>1. 1 \in 1 .. Len(p) /\ o + 1 - 1 = o
  BY LenProperties
<1>2. At(o + 1 - 1) = p[1]
  BY <1>1, ReadAt
<1> QED BY <1>1, <1>2

(* A part of it. *)
LEMMA ReadPart ==
  ASSUME Reading, NEW o \in Nat, NEW p \in Seq(Nat), Has(Hex, o, p),
         NEW d \in Nat, NEW q \in Seq(Nat), d + Len(q) <= Len(p),
         \A k \in 1 .. Len(q) : p[d + k] = q[k]
  PROVE  Take(o + d, Len(q)) = q
<1>1. Len(q) \in Nat /\ q = [k \in 1 .. Len(q) |-> q[k]] /\ Len(p) \in Nat
  BY LenProperties
<1>2. \A k \in 1 .. Len(q) : d + k \in 1 .. Len(p) /\ (o + d) + k - 1 = o + (d + k) - 1
  <2> DEFINE m == Len(q)
             n == Len(p)
  <2>1. m \in Nat /\ n \in Nat /\ d + m <= n
    BY <1>1
  <2> HIDE DEF m, n
  <2>2. \A k \in 1 .. m : d + k \in 1 .. n /\ (o + d) + k - 1 = o + (d + k) - 1
    BY <2>1
  <2> QED BY <2>2 DEF m, n
<1>3. \A k \in 1 .. Len(q) : At(o + (d + k) - 1) = q[k]
  BY <1>2, ReadAt
<1>4. \A k \in 1 .. Len(q) : At((o + d) + k - 1) = q[k]
  BY <1>2, <1>3
<1> QED BY <1>1, <1>4 DEF Take

(* All of it. *)
LEMMA ReadAll ==
  ASSUME Reading, NEW o \in Nat, NEW p \in Seq(Nat), Has(Hex, o, p)
  PROVE  Take(o, Len(p)) = p
<1>1. Len(p) \in Nat /\ o + 0 = o /\ \A k \in 1 .. Len(p) : 0 + k = k
  BY LenProperties
<1>2. 0 \in Nat /\ 0 + Len(p) <= Len(p) /\ \A k \in 1 .. Len(p) : p[0 + k] = p[k]
  BY <1>1
<1>3. Take(o + 0, Len(p)) = p
  BY <1>2, ReadPart
<1> QED BY <1>1, <1>3

(* What begins with one byte. *)
LEMMA FirstAndRest ==
  ASSUME NEW s \in Seq(Nat), NEW o \in Nat, NEW b \in Seq(Nat), NEW d \in Seq(Nat),
         Len(b) = 1, Has(s, o, b \o d)
  PROVE  Len(b \o d) = 1 + Len(d) /\ (b \o d)[1] = b[1] /\ Has(s, o + 1, d)
<1>1. Has(s, o + Len(b), d)
  BY HasJoined
<1>2. Len(b \o d) = 1 + Len(d) /\ Len(d) \in Nat
  <2>1. Len(b \o d) = Len(b) + Len(d)
    BY ConcatProperties
  <2> QED BY <2>1, LenProperties
<1>3. (b \o d)[1] = b[1]
  <2>1. 1 \in 1 .. Len(b) + Len(d) /\ 1 <= Len(b)
    BY <1>2
  <2> QED BY <2>1, ConcatProperties
<1> QED BY <1>1, <1>2, <1>3

(* A size, in each of its forms. *)
LEMMA ReadSize ==
  ASSUME Reading, NEW o \in Nat, NEW n \in Nat, n <= MaxSize,
         Has(Hex, o, CompactSize(n))
  PROVE  getRealSizeFromCompactSize(o) = [size |-> n, next |-> o + Len(CompactSize(n))]
<1> DEFINE p == CompactSize(n)
<1>1. p \in Seq(Nat) /\ Has(Hex, o, p)
  BY CompactSizeType
<1>2. p = IF n < 253 THEN <<n>> ELSE IF n < 65536 THEN <<253>> \o LE(n, 2)
          ELSE <<254>> \o LE(n, 4)
  BY DEF CompactSize
<1> HIDE DEF p
<1>3. Hex \in Seq(Nat)
  BY HexType
<1>4. \A b \in Nat : <<b>> \in Seq(Nat) /\ Len(<<b>>) = 1 /\ <<b>>[1] = b
  OBVIOUS
<1>5. CASE n < 253
  <2>1. p = <<n>> /\ Len(p) = 1
    BY <1>5, <1>2
  <2>2. At(o) = n
    <3>0. Len(p) > 0
      BY <2>1
    <3>1. At(o) = p[1]
      BY <1>1, <3>0, ReadFirst
    <3> QED BY <2>1, <3>1
  <2> QED BY <1>5, <2>1, <2>2 DEF getRealSizeFromCompactSize, p
<1>6. CASE n >= 253 /\ n < 65536
  <2> DEFINE d == LE(n, 2)
             h == <<253>>
  <2>1. p = h \o d
    BY <1>6, <1>2
  <2>2. d \in Seq(Nat) /\ Len(d) = 2
    <3>1. 2 \in Nat /\ 2 > 0
      OBVIOUS
    <3> QED BY <3>1, LEType
  <2>3. d[1] + 256 * d[2] = n
    BY <1>6, TwoDigits
  <2>4. h \in Seq(Nat) /\ Len(h) = 1 /\ h[1] = 253
    BY <1>4
  <2> HIDE DEF d, h
  <2>5. /\ Len(h \o d) = 1 + Len(d) /\ (h \o d)[1] = h[1]
        /\ Has(Hex, o + 1, d)
    <3>1. Has(Hex, o, h \o d) /\ d \in Seq(Nat)
      BY <1>1, <2>1, <2>2
    <3> QED BY <1>3, <2>4, <3>1, FirstAndRest
  <2>6. Len(p) = 3 /\ p[1] = 253
    BY <2>1, <2>2, <2>4, <2>5
  <2>7. Take(o + 1, 2) = d
    <3>1. o + 1 \in Nat
      OBVIOUS
    <3>2. Take(o + 1, Len(d)) = d
      BY <2>2, <2>5, <3>1, ReadAll
    <3> QED BY <2>2, <3>2
  <2>8. At(o) = 253
    <3>0. Len(p) > 0
      BY <2>6
    <3>1. At(o) = p[1]
      BY <1>1, <3>0, ReadFirst
    <3> QED BY <2>6, <3>1
  <2>9. FromLE(d) = n
    BY <2>2, <2>3, FromLEOfTwo
  <2>10. getRealSizeFromCompactSize(o) = [size |-> FromLE(Take(o + 1, 2)), next |-> o + 1 + 2]
    BY <2>8 DEF getRealSizeFromCompactSize
  <2>11. o + 1 + 2 = o + Len(p)
    BY <2>6
  <2> QED BY <2>7, <2>9, <2>10, <2>11 DEF p
<1>7. CASE n >= 65536
  <2> DEFINE d == LE(n, 4)
             h == <<254>>
  <2>1. p = h \o d
    BY <1>7, <1>2
  <2>2. d \in Seq(Nat) /\ Len(d) = 4
    <3>1. 4 \in Nat /\ 4 > 0
      OBVIOUS
    <3> QED BY <3>1, LEType
  <2>3. d[1] + 256 * (d[2] + 256 * (d[3] + 256 * d[4])) = n
    BY FourDigits
  <2>4. h \in Seq(Nat) /\ Len(h) = 1 /\ h[1] = 254
    BY <1>4
  <2> HIDE DEF d, h
  <2>5. /\ Len(h \o d) = 1 + Len(d) /\ (h \o d)[1] = h[1]
        /\ Has(Hex, o + 1, d)
    <3>1. Has(Hex, o, h \o d) /\ d \in Seq(Nat)
      BY <1>1, <2>1, <2>2
    <3> QED BY <1>3, <2>4, <3>1, FirstAndRest
  <2>6. Len(p) = 5 /\ p[1] = 254
    BY <2>1, <2>2, <2>4, <2>5
  <2>7. Take(o + 1, 4) = d
    <3>1. o + 1 \in Nat
      OBVIOUS
    <3>2. Take(o + 1, Len(d)) = d
      BY <2>2, <2>5, <3>1, ReadAll
    <3> QED BY <2>2, <3>2
  <2>8. At(o) = 254
    <3>0. Len(p) > 0
      BY <2>6
    <3>1. At(o) = p[1]
      BY <1>1, <3>0, ReadFirst
    <3> QED BY <2>6, <3>1
  <2>9. FromLE(d) = n
    BY <2>2, <2>3, FromLEOfFour
  <2>10. getRealSizeFromCompactSize(o) = [size |-> FromLE(Take(o + 1, 4)), next |-> o + 1 + 4]
    BY <2>8 DEF getRealSizeFromCompactSize
  <2>11. o + 1 + 4 = o + Len(p)
    BY <2>6
  <2> QED BY <2>7, <2>9, <2>10, <2>11 DEF p
<1> QED BY <1>5, <1>6, <1>7

-----------------------------------------------------------------------------
(* Where the parts of a transaction are in its bytes. *)
InsSizeAt(t) == 4 + Len(Marker(t))
InsAt(t) == InsSizeAt(t) + Len(CompactSize(Len(t.ins)))
OutsSizeAt(t) == InsAt(t) + Len(FlattenSeq(InputParts(t)))
OutsAt(t) == OutsSizeAt(t) + Len(CompactSize(Len(t.outs)))
WitsAt(t) == OutsAt(t) + Len(FlattenSeq(OutputParts(t)))
EndAt(t) == WitsAt(t) + Len(Witnesses(t))

(* And these parts are there, one behind the other. *)
LEMMA Places ==
  ASSUME NEW t \in Transactions
  PROVE  LET s == Serialized(t)
         IN  /\ InsSizeAt(t) \in Nat /\ InsAt(t) \in Nat /\ OutsSizeAt(t) \in Nat
             /\ OutsAt(t) \in Nat /\ WitsAt(t) \in Nat /\ EndAt(t) \in Nat
             /\ Has(s, 4, Marker(t))
             /\ Has(s, InsSizeAt(t), CompactSize(Len(t.ins)))
             /\ Has(s, InsAt(t), FlattenSeq(InputParts(t)))
             /\ Has(s, OutsSizeAt(t), CompactSize(Len(t.outs)))
             /\ Has(s, OutsAt(t), FlattenSeq(OutputParts(t)))
             /\ Has(s, WitsAt(t), Witnesses(t))
             /\ Len(s) = EndAt(t) + 4
<1> DEFINE s == Serialized(t)
           p1 == LE(2, 4)
           p2 == Marker(t)
           p3 == CompactSize(Len(t.ins))
           p4 == FlattenSeq(InputParts(t))
           p5 == CompactSize(Len(t.outs))
           p6 == FlattenSeq(OutputParts(t))
           p7 == Witnesses(t)
           p8 == LE(0, 4)
           a == p1 \o p2
           b == a \o p3
           c == b \o p4
           d == c \o p5
           e == d \o p6
           f == e \o p7
<1>1. s = f \o p8
  BY SerializedParts
<1>2. /\ p1 \in Seq(Nat) /\ p2 \in Seq(Nat) /\ p3 \in Seq(Nat) /\ p4 \in Seq(Nat)
      /\ p5 \in Seq(Nat) /\ p6 \in Seq(Nat) /\ p7 \in Seq(Nat) /\ p8 \in Seq(Nat)
  BY SerializedParts
<1>3. Len(p1) = 4 /\ Len(p8) = 4
  <2>1. 4 \in Nat /\ 4 > 0 /\ 2 \in Nat /\ 0 \in Nat
    OBVIOUS
  <2> QED BY <2>1, LEType
<1>4. /\ InsSizeAt(t) = 4 + Len(p2) /\ InsAt(t) = InsSizeAt(t) + Len(p3)
      /\ OutsSizeAt(t) = InsAt(t) + Len(p4) /\ OutsAt(t) = OutsSizeAt(t) + Len(p5)
      /\ WitsAt(t) = OutsAt(t) + Len(p6) /\ EndAt(t) = WitsAt(t) + Len(p7)
  BY DEF InsSizeAt, InsAt, OutsSizeAt, OutsAt, WitsAt, EndAt
<1> HIDE DEF p1, p2, p3, p4, p5, p6, p7, p8
<1>5. /\ Len(p2) \in Nat /\ Len(p3) \in Nat /\ Len(p4) \in Nat /\ Len(p5) \in Nat
      /\ Len(p6) \in Nat /\ Len(p7) \in Nat
  BY <1>2, LenProperties
<1>6. a \in Seq(Nat) /\ Len(a) = InsSizeAt(t)
  <2>1. p1 \in Seq(Nat) /\ p2 \in Seq(Nat)
    BY <1>2
  <2>2. a \in Seq(Nat) /\ Len(a) = Len(p1) + Len(p2)
    BY <2>1, ConcatProperties
  <2> QED BY <1>4, <1>3, <2>2
<1> HIDE DEF a
<1>7. b \in Seq(Nat) /\ Len(b) = InsAt(t)
  <2>1. a \in Seq(Nat) /\ p3 \in Seq(Nat)
    BY <1>2, <1>6
  <2>2. b \in Seq(Nat) /\ Len(b) = Len(a) + Len(p3)
    BY <2>1, ConcatProperties
  <2> QED BY <1>4, <1>6, <2>2
<1> HIDE DEF b
<1>8. c \in Seq(Nat) /\ Len(c) = OutsSizeAt(t)
  <2>1. b \in Seq(Nat) /\ p4 \in Seq(Nat)
    BY <1>2, <1>7
  <2>2. c \in Seq(Nat) /\ Len(c) = Len(b) + Len(p4)
    BY <2>1, ConcatProperties
  <2> QED BY <1>4, <1>7, <2>2
<1> HIDE DEF c
<1>9. d \in Seq(Nat) /\ Len(d) = OutsAt(t)
  <2>1. c \in Seq(Nat) /\ p5 \in Seq(Nat)
    BY <1>2, <1>8
  <2>2. d \in Seq(Nat) /\ Len(d) = Len(c) + Len(p5)
    BY <2>1, ConcatProperties
  <2> QED BY <1>4, <1>8, <2>2
<1> HIDE DEF d
<1>10. e \in Seq(Nat) /\ Len(e) = WitsAt(t)
  <2>1. d \in Seq(Nat) /\ p6 \in Seq(Nat)
    BY <1>2, <1>9
  <2>2. e \in Seq(Nat) /\ Len(e) = Len(d) + Len(p6)
    BY <2>1, ConcatProperties
  <2> QED BY <1>4, <1>9, <2>2
<1> HIDE DEF e
<1>11. f \in Seq(Nat) /\ Len(f) = EndAt(t)
  <2>1. e \in Seq(Nat) /\ p7 \in Seq(Nat)
    BY <1>2, <1>10
  <2>2. f \in Seq(Nat) /\ Len(f) = Len(e) + Len(p7)
    BY <2>1, ConcatProperties
  <2> QED BY <1>4, <1>10, <2>2
<1> HIDE DEF f
<1>12. s \in Seq(Nat) /\ Len(s) = EndAt(t) + 4
  <2>1. s \in Seq(Nat) /\ Len(s) = Len(f) + Len(p8)
    <3>1. f \in Seq(Nat) /\ p8 \in Seq(Nat)
      BY <1>2, <1>11
    <3>2. f \o p8 \in Seq(Nat) /\ Len(f \o p8) = Len(f) + Len(p8)
      BY <3>1, ConcatProperties
    <3> HIDE DEF s
    <3> QED BY <1>1, <3>2
  <2> QED BY <1>3, <1>11, <2>1
<1> HIDE DEF s
<1>13. 0 \in Nat /\ Has(s, 0, f)
  <2>1. Has(s, 0, f)
    <3>1. f \in Seq(Nat) /\ p8 \in Seq(Nat)
      BY <1>2, <1>11
    <3>2. Has(f \o p8, 0, f)
      BY <3>1, HasParts
    <3> QED BY <1>1, <3>2
  <2> QED BY <2>1
<1>14. Has(s, 0, e) /\ Has(s, 0 + Len(e), p7)
  BY <1>2, <1>10, <1>12, <1>13, HasJoined DEF f
<1>15. Has(s, 0, d) /\ Has(s, 0 + Len(d), p6)
  BY <1>2, <1>9, <1>12, <1>13, <1>14, HasJoined DEF e
<1>16. Has(s, 0, c) /\ Has(s, 0 + Len(c), p5)
  BY <1>2, <1>8, <1>12, <1>13, <1>15, HasJoined DEF d
<1>17. Has(s, 0, b) /\ Has(s, 0 + Len(b), p4)
  BY <1>2, <1>7, <1>12, <1>13, <1>16, HasJoined DEF c
<1>18. Has(s, 0, a) /\ Has(s, 0 + Len(a), p3)
  BY <1>2, <1>6, <1>12, <1>13, <1>17, HasJoined DEF b
<1>19. Has(s, 0 + Len(p1), p2)
  BY <1>2, <1>12, <1>13, <1>18, HasJoined DEF a
<1>20. /\ InsSizeAt(t) \in Nat /\ InsAt(t) \in Nat /\ OutsSizeAt(t) \in Nat
       /\ OutsAt(t) \in Nat /\ WitsAt(t) \in Nat /\ EndAt(t) \in Nat
  BY <1>4, <1>5
<1>21. /\ 0 + Len(p1) = 4 /\ 0 + Len(a) = InsSizeAt(t) /\ 0 + Len(b) = InsAt(t)
       /\ 0 + Len(c) = OutsSizeAt(t) /\ 0 + Len(d) = OutsAt(t) /\ 0 + Len(e) = WitsAt(t)
  BY <1>3, <1>6, <1>7, <1>8, <1>9, <1>10, <1>20
<1> QED BY <1>12, <1>14, <1>15, <1>16, <1>17, <1>18, <1>19, <1>20, <1>21
        DEF s, p2, p3, p4, p5, p6, p7

(* The members of what is joined at o are one behind the other. *)
LEMMA Members ==
  ASSUME NEW s \in Seq(Nat), NEW qs \in Seq(Seq(Nat)), NEW o \in Nat,
         Has(s, o, FlattenSeq(qs))
  PROVE  /\ o + Sums(qs)[0] = o
         /\ o + Sums(qs)[Len(qs)] = o + Len(FlattenSeq(qs))
         /\ \A k \in 1 .. Len(qs) :
              /\ o + Sums(qs)[k - 1] \in Nat
              /\ Has(s, o + Sums(qs)[k - 1], qs[k])
              /\ o + Sums(qs)[k] = (o + Sums(qs)[k - 1]) + Len(qs[k])
<1> DEFINE u == Sums(qs)
           f == FlattenSeq(qs)
<1>1. /\ u \in [0 .. Len(qs) -> Nat] /\ u[0] = 0
      /\ \A k \in 1 .. Len(qs) : u[k] = u[k - 1] + Len(qs[k])
  BY SumsAre
<1>2. /\ f \in Seq(Nat) /\ Len(f) = u[Len(qs)]
      /\ \A k \in 1 .. Len(qs) : Has(f, u[k - 1], qs[k])
  BY FlattenHas
<1>3. Len(qs) \in Nat /\ \A k \in 1 .. Len(qs) : qs[k] \in Seq(Nat) /\ Len(qs[k]) \in Nat
  BY ElementOfSeq, LenProperties
<1>4. Has(s, o, f)
  OBVIOUS
<1> HIDE DEF u, f
<1>5. ASSUME NEW k \in 1 .. Len(qs)
      PROVE  /\ o + u[k - 1] \in Nat
             /\ Has(s, o + u[k - 1], qs[k])
             /\ o + u[k] = (o + u[k - 1]) + Len(qs[k])
  <2>1. u[k - 1] \in Nat /\ u[k] = u[k - 1] + Len(qs[k])
    <3>1. k - 1 \in 0 .. Len(qs)
      BY <1>3
    <3> QED BY <1>1, <3>1
  <2>2. Has(s, o + u[k - 1], qs[k])
    <3>1. qs[k] \in Seq(Nat) /\ Has(f, u[k - 1], qs[k])
      BY <1>2, <1>3
    <3> QED BY <1>2, <1>4, <2>1, <3>1, HasWithin
  <2> QED BY <1>3, <2>1, <2>2
<1> QED BY <1>1, <1>2, <1>5 DEF u, f

(* The place of the input behind k others, and so on. *)
InPlace(t, k) == InsAt(t) + Sums(InputParts(t))[k]
OutPlace(t, k) == OutsAt(t) + Sums(OutputParts(t))[k]
WitPlace(t, k) == WitsAt(t) + Sums(WitnessParts(t))[k]

(* The inputs are at their places, from the first to the number of outputs. *)
LEMMA InPlaces ==
  ASSUME NEW t \in Transactions
  PROVE  /\ InPlace(t, 0) = InsAt(t)
         /\ InPlace(t, Len(t.ins)) = OutsSizeAt(t)
         /\ \A k \in 1 .. Len(t.ins) :
              /\ InPlace(t, k - 1) \in Nat
              /\ Has(Serialized(t), InPlace(t, k - 1), InputBytes(t.ins[k]))
              /\ InPlace(t, k) = InPlace(t, k - 1) + Len(InputBytes(t.ins[k]))
<1> DEFINE s == Serialized(t)
           qs == InputParts(t)
           o == InsAt(t)
<1>1. /\ qs \in Seq(Seq(Nat)) /\ Len(qs) = Len(t.ins) /\ DOMAIN t.ins = 1 .. Len(t.ins)
      /\ \A k \in 1 .. Len(t.ins) : qs[k] = InputBytes(t.ins[k])
  BY PartsType DEF InputParts
<1>2. /\ s \in Seq(Nat) /\ o \in Nat /\ Has(s, o, FlattenSeq(qs))
      /\ OutsSizeAt(t) = o + Len(FlattenSeq(qs))
  BY SerializedType, Places DEF OutsSizeAt
<1>3. \A k : InPlace(t, k) = o + Sums(qs)[k]
  BY DEF InPlace
<1> HIDE DEF s, qs, o
<1>4. /\ o + Sums(qs)[0] = o
      /\ o + Sums(qs)[Len(qs)] = o + Len(FlattenSeq(qs))
      /\ \A k \in 1 .. Len(qs) :
           /\ o + Sums(qs)[k - 1] \in Nat
           /\ Has(s, o + Sums(qs)[k - 1], qs[k])
           /\ o + Sums(qs)[k] = (o + Sums(qs)[k - 1]) + Len(qs[k])
  BY <1>1, <1>2, Members
<1> QED BY <1>1, <1>2, <1>3, <1>4 DEF s, o

(* The outputs are at theirs, up to the witnesses. *)
LEMMA OutPlaces ==
  ASSUME NEW t \in Transactions
  PROVE  /\ OutPlace(t, 0) = OutsAt(t)
         /\ OutPlace(t, Len(t.outs)) = WitsAt(t)
         /\ \A k \in 1 .. Len(t.outs) :
              /\ OutPlace(t, k - 1) \in Nat
              /\ Has(Serialized(t), OutPlace(t, k - 1), OutputBytes(t.outs[k]))
              /\ OutPlace(t, k) = OutPlace(t, k - 1) + Len(OutputBytes(t.outs[k]))
<1> DEFINE s == Serialized(t)
           qs == OutputParts(t)
           o == OutsAt(t)
<1>1. /\ qs \in Seq(Seq(Nat)) /\ Len(qs) = Len(t.outs) /\ DOMAIN t.outs = 1 .. Len(t.outs)
      /\ \A k \in 1 .. Len(t.outs) : qs[k] = OutputBytes(t.outs[k])
  BY PartsType DEF OutputParts
<1>2. /\ s \in Seq(Nat) /\ o \in Nat /\ Has(s, o, FlattenSeq(qs))
      /\ WitsAt(t) = o + Len(FlattenSeq(qs))
  BY SerializedType, Places DEF WitsAt
<1>3. \A k : OutPlace(t, k) = o + Sums(qs)[k]
  BY DEF OutPlace
<1> HIDE DEF s, qs, o
<1>4. /\ o + Sums(qs)[0] = o
      /\ o + Sums(qs)[Len(qs)] = o + Len(FlattenSeq(qs))
      /\ \A k \in 1 .. Len(qs) :
           /\ o + Sums(qs)[k - 1] \in Nat
           /\ Has(s, o + Sums(qs)[k - 1], qs[k])
           /\ o + Sums(qs)[k] = (o + Sums(qs)[k - 1]) + Len(qs[k])
  BY <1>1, <1>2, Members
<1> QED BY <1>1, <1>2, <1>3, <1>4 DEF s, o

(* And the witnesses, up to the lock time. *)
LEMMA WitPlaces ==
  ASSUME NEW t \in Transactions, t.segwit
  PROVE  /\ WitPlace(t, 0) = WitsAt(t)
         /\ WitPlace(t, Len(t.ins)) = EndAt(t)
         /\ \A k \in 1 .. Len(t.ins) :
              /\ WitPlace(t, k - 1) \in Nat
              /\ Has(Serialized(t), WitPlace(t, k - 1), WitnessBytes(t.ins[k]))
              /\ WitPlace(t, k) = WitPlace(t, k - 1) + Len(WitnessBytes(t.ins[k]))
<1> DEFINE s == Serialized(t)
           qs == WitnessParts(t)
           o == WitsAt(t)
<1>1. /\ qs \in Seq(Seq(Nat)) /\ Len(qs) = Len(t.ins) /\ DOMAIN t.ins = 1 .. Len(t.ins)
      /\ \A k \in 1 .. Len(t.ins) : qs[k] = WitnessBytes(t.ins[k])
  BY PartsType DEF WitnessParts
<1>2. /\ s \in Seq(Nat) /\ o \in Nat /\ Has(s, o, FlattenSeq(qs))
      /\ EndAt(t) = o + Len(FlattenSeq(qs))
  BY SerializedType, Places DEF EndAt, Witnesses
<1>3. \A k : WitPlace(t, k) = o + Sums(qs)[k]
  BY DEF WitPlace
<1> HIDE DEF s, qs, o
<1>4. /\ o + Sums(qs)[0] = o
      /\ o + Sums(qs)[Len(qs)] = o + Len(FlattenSeq(qs))
      /\ \A k \in 1 .. Len(qs) :
           /\ o + Sums(qs)[k - 1] \in Nat
           /\ Has(s, o + Sums(qs)[k - 1], qs[k])
           /\ o + Sums(qs)[k] = (o + Sums(qs)[k - 1]) + Len(qs[k])
  BY <1>1, <1>2, Members
<1> QED BY <1>1, <1>2, <1>3, <1>4 DEF s, o

-----------------------------------------------------------------------------
(* An input, an output and a witness as they are read. *)

(* A field of variable length is its size and its bytes. *)
LEMMA FieldHas ==
  ASSUME NEW s \in Seq(Nat), NEW o \in Nat, NEW p \in Seq(Nat), Has(s, o, WithSize(p))
  PROVE  /\ WithSize(p) \in Seq(Nat) /\ Len(CompactSize(Len(p))) \in Nat
         /\ Len(WithSize(p)) = Len(CompactSize(Len(p))) + Len(p)
         /\ Has(s, o, CompactSize(Len(p)))
         /\ Has(s, o + Len(CompactSize(Len(p))), p)
<1>1. Len(p) \in Nat
  BY LenProperties
<1>2. CompactSize(Len(p)) \in Seq(Nat)
  BY <1>1, CompactSizeType
<1>3. WithSize(p) = CompactSize(Len(p)) \o p
  BY DEF WithSize
<1>4. Len(CompactSize(Len(p))) \in Nat
  BY <1>2, LenProperties
<1>5. Has(s, o, CompactSize(Len(p))) /\ Has(s, o + Len(CompactSize(Len(p))), p)
  <2>1. Has(s, o, CompactSize(Len(p)) \o p)
    BY <1>3
  <2> QED BY <1>2, <2>1, HasJoined
<1>6. WithSize(p) \in Seq(Nat) /\ Len(WithSize(p)) = Len(CompactSize(Len(p))) + Len(p)
  BY <1>2, <1>3, ConcatProperties
<1> QED BY <1>4, <1>5, <1>6

(* Two sequences of numbers, joined. *)
LEMMA JoinedType ==
  ASSUME NEW p \in Seq(Nat), NEW q \in Seq(Nat)
  PROVE  p \o q \in Seq(Nat) /\ Len(p \o q) = Len(p) + Len(q)
BY ConcatProperties

(* The parts of an input. *)
LEMMA InputHas ==
  ASSUME NEW s \in Seq(Nat), NEW o \in Nat, NEW in \in Ins, Has(s, o, InputBytes(in))
  PROVE  /\ Has(s, o, Rep(in.prev, 32)) /\ Has(s, o + 32, LE(in.pos, 4))
         /\ Has(s, o + 36, WithSize(in.script))
         /\ Len(InputBytes(in)) = 36 + Len(WithSize(in.script)) + 4
<1> DEFINE a == Rep(in.prev, 32)
           b == LE(in.pos, 4)
           c == WithSize(in.script)
           d == Rep(255, 4)
           x == a \o b
           y == x \o c
<1>1. in.prev \in Nat /\ in.pos \in Nat /\ in.script \in Seq(Nat)
  BY BytesAreNumbers DEF Ins
<1>2. a \in Seq(Nat) /\ Len(a) = 32
  <2>1. 32 \in Nat
    OBVIOUS
  <2> QED BY <1>1, <2>1, RepType
<1>3. b \in Seq(Nat) /\ Len(b) = 4
  <2>1. 4 \in Nat /\ 4 > 0
    OBVIOUS
  <2> QED BY <1>1, <2>1, LEType
<1>4. c \in Seq(Nat) /\ Len(c) \in Nat
  BY <1>1, WithSizeType, LenProperties
<1>5. d \in Seq(Nat) /\ Len(d) = 4
  BY DEF Rep
<1>6. InputBytes(in) = y \o d
  BY DEF InputBytes
<1> HIDE DEF a, b, c, d
<1>7. x \in Seq(Nat) /\ Len(x) = 36
  <2>1. x \in Seq(Nat) /\ Len(x) = Len(a) + Len(b)
    BY <1>2, <1>3, JoinedType
  <2> QED BY <1>2, <1>3, <2>1
<1> HIDE DEF x
<1>8. y \in Seq(Nat) /\ Len(y) = 36 + Len(c)
  <2>1. y \in Seq(Nat) /\ Len(y) = Len(x) + Len(c)
    BY <1>4, <1>7, JoinedType
  <2> QED BY <1>7, <2>1
<1> HIDE DEF y
<1>9. Len(InputBytes(in)) = 36 + Len(c) + 4
  <2>1. Len(y \o d) = Len(y) + Len(d)
    BY <1>5, <1>8, ConcatProperties
  <2> QED BY <1>4, <1>5, <1>6, <1>8, <2>1
<1>10. Has(s, o, y)
  <2>1. Has(s, o, y \o d)
    BY <1>6
  <2> QED BY <1>5, <1>8, <2>1, HasJoined
<1>11. Has(s, o, x) /\ Has(s, o + Len(x), c)
  <2>1. Has(s, o, x \o c)
    BY <1>10 DEF y
  <2> QED BY <1>4, <1>7, <2>1, HasJoined
<1>12. Has(s, o, a) /\ Has(s, o + Len(a), b)
  <2>1. Has(s, o, a \o b)
    BY <1>11 DEF x
  <2> QED BY <1>2, <1>3, <2>1, HasJoined
<1> QED BY <1>2, <1>7, <1>9, <1>11, <1>12 DEF a, b, c

(* What getTxInputs and getSegWitTxInputs make of an input. *)
LEMMA InputRead ==
  ASSUME Reading, NEW o \in Nat, NEW in \in Ins, InputKind(in),
         Len(in.script) <= MaxSize, Has(Hex, o, InputBytes(in))
  PROVE  /\ Input(o).next = o + Len(InputBytes(in))
         /\ Input(o).empty <=> in.script = <<>>
         /\ Input(o).key <=> in.kind = "p2pkh"
         /\ Input(o).tin.txhash = Rep(in.prev, 32)
         /\ Input(o).tin.position = LE(in.pos, 4)
         /\ in.kind = "p2pkh" => Input(o).tin = Record(in) /\ in.script # <<>>
<1> DEFINE p == in.script
           n == Len(p)
           w == Len(CompactSize(n))
           q == o + 36 + w
           size == KeySize(q, n)
<1>1. /\ in.prev \in Nat /\ in.pos \in Nat /\ p \in Seq(Nat) /\ n \in Nat
      /\ in.key \in Seq(Nat) /\ in.kind \in {"p2pkh", "p2wpkh", "other"}
  BY BytesAreNumbers, LenProperties DEF Ins
<1>2. Hex \in Seq(Nat)
  BY HexType
<1>3. /\ Has(Hex, o, Rep(in.prev, 32)) /\ Has(Hex, o + 32, LE(in.pos, 4))
      /\ Has(Hex, o + 36, WithSize(p))
      /\ Len(InputBytes(in)) = 36 + Len(WithSize(p)) + 4
  BY <1>2, InputHas
<1>4. /\ w \in Nat /\ Len(WithSize(p)) = w + n
      /\ Has(Hex, o + 36, CompactSize(n)) /\ Has(Hex, q, p)
  <2>1. o + 36 \in Nat
    OBVIOUS
  <2> QED BY <1>1, <1>2, <1>3, <2>1, FieldHas
<1>5. getRealSizeFromCompactSize(o + 36) = [size |-> n, next |-> q]
  <2>1. o + 36 \in Nat /\ n <= MaxSize
    OBVIOUS
  <2> QED BY <1>1, <1>4, <2>1, ReadSize
<1>6. /\ Input(o).empty <=> n = 0
      /\ Input(o).key <=> size > 0
      /\ Input(o).next = q + n + 4
      /\ Input(o).tin = [txhash |-> Take(o, 32), position |-> Take(o + 32, 4),
                         pkh |-> hash160(Take(KeyOffset(q), size))]
  <2> DEFINE c == getRealSizeFromCompactSize(o + 36)
             m == KeySize(c.next, c.size)
             tin == [txhash |-> Take(o, 32), position |-> Take(o + 32, 4),
                     pkh |-> hash160(Take(KeyOffset(c.next), m))]
  <2>1. c.size = n /\ c.next = q
    BY <1>5
  <2>2. Input(o) = [empty |-> c.size = 0, key |-> m > 0,
                    next |-> c.next + c.size + 4, tin |-> tin]
    BY DEF Input
  <2>3. m = size
    BY <2>1
  <2>4. tin = [txhash |-> Take(o, 32), position |-> Take(o + 32, 4),
               pkh |-> hash160(Take(KeyOffset(q), size))]
    BY <2>1, <2>3
  <2> HIDE DEF c, m, tin, n, q, size
  <2>5. (Input(o).empty <=> c.size = 0) /\ (Input(o).key <=> m > 0)
    BY DEF Input, c, m
  <2>6. Input(o).next = c.next + c.size + 4 /\ Input(o).tin = tin
    BY <2>2
  <2> QED BY <2>1, <2>3, <2>4, <2>5, <2>6
<1>7. Take(o, 32) = Rep(in.prev, 32)
  <2>1. Rep(in.prev, 32) \in Seq(Nat) /\ Len(Rep(in.prev, 32)) = 32
    <3>1. 32 \in Nat
      OBVIOUS
    <3> QED BY <1>1, <3>1, RepType
  <2>2. Take(o, Len(Rep(in.prev, 32))) = Rep(in.prev, 32)
    BY <1>3, <2>1, ReadAll
  <2> QED BY <2>1, <2>2
<1>8. Take(o + 32, 4) = LE(in.pos, 4)
  <2>1. LE(in.pos, 4) \in Seq(Nat) /\ Len(LE(in.pos, 4)) = 4
    <3>1. 4 \in Nat /\ 4 > 0
      OBVIOUS
    <3> QED BY <1>1, <3>1, LEType
  <2>2. o + 32 \in Nat
    OBVIOUS
  <2>3. Take(o + 32, Len(LE(in.pos, 4))) = LE(in.pos, 4)
    BY <1>3, <2>1, <2>2, ReadAll
  <2> QED BY <2>1, <2>3
<1>9. n = 0 <=> p = <<>>
  BY <1>1, EmptySeq
<1>10. q \in Nat /\ At(q) \in Nat
  BY <1>4, AtType
<1>11. n > 0 => At(q) = p[1]
  BY <1>1, <1>4, <1>10, ReadFirst
<1> HIDE DEF n, p, w, q
<1>12. Input(o).next = o + Len(InputBytes(in))
  BY <1>1, <1>3, <1>4, <1>6 DEF q
<1>13. CASE in.kind = "p2pkh"
  <2>1. IsKey(in.key) /\ n > 0 /\ n = p[1] + 2 + Len(in.key)
        /\ \A k \in 1 .. Len(in.key) : p[p[1] + 2 + k] = in.key[k]
    <3>1. SignatureAndKey(p, in.key)
      BY <1>13 DEF InputKind, p
    <3>2. n > 0
      BY <1>1, <1>9, <3>1 DEF SignatureAndKey
    <3> QED BY <3>1, <3>2 DEF SignatureAndKey, n
  <2>2. size = Len(in.key) /\ size > 0 /\ size \in Nat
    <3>1. n = At(q) + 2 + Len(in.key) /\ Len(in.key) \in {33, 65}
      BY <1>11, <2>1 DEF IsKey
    <3>2. CASE Len(in.key) = 33
      BY <1>10, <3>1, <3>2 DEF KeySize
    <3>3. CASE Len(in.key) = 65
      BY <1>10, <3>1, <3>3 DEF KeySize
    <3> QED BY <3>1, <3>2, <3>3
  <2>3. KeyOffset(q) = q + (2 + p[1]) /\ 2 + p[1] \in Nat
    <3>1. At(q) = p[1]
      BY <1>11, <2>1
    <3>2. KeyOffset(q) = q + 2 + At(q)
      BY DEF KeyOffset
    <3> QED BY <1>10, <3>1, <3>2
  <2> HIDE DEF size
  <2> DEFINE d == 2 + p[1]
             key == in.key
  <2>4. p[1] \in Nat /\ d \in Nat /\ n = d + Len(key)
    BY <1>10, <1>11, <2>1
  <2>5. \A k \in 1 .. Len(key) : p[d + k] = key[k]
    <3>1. \A k \in 1 .. Len(key) : d + k = p[1] + 2 + k
      BY <2>4
    <3> QED BY <2>1, <3>1
  <2>6. Take(KeyOffset(q), size) = in.key
    <3>1. d + Len(key) <= Len(p)
      BY <1>1, <2>4 DEF n
    <3>2. key \in Seq(Nat) /\ KeyOffset(q) = q + d
      BY <1>1, <2>3
    <3> HIDE DEF d, key
    <3>3. Take(q + d, Len(key)) = key
      BY <1>1, <1>4, <1>10, <2>4, <2>5, <3>1, <3>2, ReadPart
    <3>4. size = Len(key) /\ key = in.key
      BY <2>2 DEF key
    <3> QED BY <3>2, <3>3, <3>4
  <2>7. Input(o).tin = Record(in)
    BY <1>6, <1>7, <1>8, <2>6 DEF Record
  <2>8. Input(o).tin.txhash = Rep(in.prev, 32) /\ Input(o).tin.position = LE(in.pos, 4)
    BY <2>7 DEF Record
  <2>9. in.script # <<>>
    BY <1>9, <2>1 DEF p
  <2> QED BY <1>6, <1>9, <1>12, <1>13, <2>2, <2>7, <2>8, <2>9 DEF p
<1>14. CASE in.kind # "p2pkh"
  <2>1. size = 0
    <3>1. CASE n = 0
      BY <1>10, <3>1 DEF KeySize
    <3>2. CASE n > 0
      <4>1. n - p[1] \notin {35, 67}
        <5>1. CASE in.kind = "p2wpkh"
          <6>1. p = <<>>
            BY <5>1 DEF InputKind, p
          <6> QED BY <1>9, <3>2, <6>1
        <5>2. CASE in.kind = "other"
          <6>1. ~IsP2PKH(in)
            BY <5>2 DEF InputKind
          <6> QED BY <1>9, <3>2, <6>1 DEF IsP2PKH, n, p
        <5> QED BY <1>1, <1>14, <5>1, <5>2
      <4>2. n # At(q) + 35 /\ n # At(q) + 67
        <5>1. n - At(q) \notin {35, 67}
          BY <1>11, <3>2, <4>1
        <5>2. n \in Nat
          BY <1>1
        <5> QED BY <1>10, <5>1, <5>2
      <4> QED BY <4>2 DEF KeySize
    <3> QED BY <1>1, <3>1, <3>2
  <2> HIDE DEF size
  <2>2. Input(o).tin.txhash = Rep(in.prev, 32) /\ Input(o).tin.position = LE(in.pos, 4)
    BY <1>6, <1>7, <1>8
  <2> QED BY <1>6, <1>9, <1>12, <1>14, <2>1, <2>2 DEF p
<1> QED BY <1>13, <1>14

(* The parts of an output. *)
LEMMA OutputHas ==
  ASSUME NEW s \in Seq(Nat), NEW o \in Nat, NEW out \in Outs, Has(s, o, OutputBytes(out))
  PROVE  /\ Has(s, o, LE(out.amount, 8)) /\ Has(s, o + 8, WithSize(out.script))
         /\ Len(OutputBytes(out)) = 8 + Len(WithSize(out.script))
<1> DEFINE a == LE(out.amount, 8)
           c == WithSize(out.script)
<1>1. out.amount \in Nat /\ out.script \in Seq(Nat)
  BY BytesAreNumbers DEF Outs
<1>2. a \in Seq(Nat) /\ Len(a) = 8
  <2>1. 8 \in Nat /\ 8 > 0
    OBVIOUS
  <2> QED BY <1>1, <2>1, LEType
<1>3. c \in Seq(Nat)
  BY <1>1, WithSizeType
<1>4. OutputBytes(out) = a \o c
  BY DEF OutputBytes
<1> HIDE DEF a, c
<1>5. Has(s, o, a) /\ Has(s, o + Len(a), c)
  BY <1>2, <1>3, <1>4, HasJoined
<1>6. Len(a \o c) = Len(a) + Len(c)
  BY <1>2, <1>3, ConcatProperties
<1> QED BY <1>2, <1>4, <1>5, <1>6 DEF a, c

(* What getTxOutputs makes of an output whose script has less than 253     *)
(* bytes.                                                                  *)
LEMMA OutputRead ==
  ASSUME Reading, NEW o \in Nat, NEW out \in Outs, OutputKind(out), Readable(out),
         Has(Hex, o, OutputBytes(out))
  PROVE  /\ (o + 8) + 1 + At(o + 8) = o + Len(OutputBytes(out))
         /\ At(o + 8) = 25 /\ At((o + 8) + 1) = 118 <=> out.kind = "p2pkh"
         /\ Take(o, 8) = LE(out.amount, 8)
         /\ out.kind = "p2pkh" => Take(o + 12, 20) = out.hash
<1> DEFINE p == out.script
           n == Len(p)
           q == o + 9
<1>1. /\ out.amount \in Nat /\ p \in Seq(Nat) /\ n \in Nat /\ out.hash \in Seq(Nat)
      /\ out.kind \in {"p2pkh", "other"}
  BY BytesAreNumbers, LenProperties DEF Outs
<1>2. Hex \in Seq(Nat) /\ o + 8 \in Nat
  BY HexType
<1>3. /\ Has(Hex, o, LE(out.amount, 8)) /\ Has(Hex, o + 8, WithSize(p))
      /\ Len(OutputBytes(out)) = 8 + Len(WithSize(p))
  BY <1>2, OutputHas
<1>4. CompactSize(n) = <<n>>
  BY DEF Readable, CompactSize
<1>5. <<n>> \in Seq(Nat) /\ Len(<<n>>) = 1 /\ <<n>>[1] = n
  BY <1>1
<1>6. /\ Len(WithSize(p)) = 1 + n
      /\ Has(Hex, o + 8, <<n>>) /\ Has(Hex, (o + 8) + 1, p)
  <2>1. /\ Len(WithSize(p)) = Len(CompactSize(n)) + n
        /\ Has(Hex, o + 8, CompactSize(n))
        /\ Has(Hex, (o + 8) + Len(CompactSize(n)), p)
    BY <1>1, <1>2, <1>3, FieldHas
  <2> QED BY <1>4, <1>5, <2>1
<1>7. At(o + 8) = n
  <2>1. Len(<<n>>) > 0
    BY <1>5
  <2>2. At(o + 8) = <<n>>[1]
    BY <1>2, <1>5, <1>6, <2>1, ReadFirst
  <2> QED BY <1>5, <2>2
<1>8. q \in Nat /\ (o + 8) + 1 = q /\ Has(Hex, q, p)
  BY <1>6
<1>9. n > 0 => At(q) = p[1]
  BY <1>1, <1>8, ReadFirst
<1>10. Take(o, 8) = LE(out.amount, 8)
  <2>1. LE(out.amount, 8) \in Seq(Nat) /\ Len(LE(out.amount, 8)) = 8
    <3>1. 8 \in Nat /\ 8 > 0
      OBVIOUS
    <3> QED BY <1>1, <3>1, LEType
  <2>2. Take(o, Len(LE(out.amount, 8))) = LE(out.amount, 8)
    BY <1>3, <2>1, ReadAll
  <2> QED BY <2>1, <2>2
<1>11. n = 25 /\ At(q) = 118 <=> PaysToHash(p)
  BY <1>9 DEF PaysToHash
<1>12. PaysToHash(p) <=> out.kind = "p2pkh"
  BY <1>1 DEF OutputKind
<1>13. ASSUME out.kind = "p2pkh"
       PROVE  Take(o + 12, 20) = out.hash
  <2> DEFINE h == out.hash
  <2>1. n = 25 /\ Len(h) = 20 /\ \A k \in 1 .. 20 : p[3 + k] = h[k]
    BY <1>13 DEF OutputKind, PaysToHash
  <2>2. 3 \in Nat /\ 3 + Len(h) <= Len(p) /\ \A k \in 1 .. Len(h) : p[3 + k] = h[k]
    BY <2>1
  <2>3. h \in Seq(Nat)
    BY <1>1
  <2> HIDE DEF h, q, p
  <2>4. Take(q + 3, Len(h)) = h
    BY <1>1, <1>8, <2>2, <2>3, ReadPart
  <2>5. q + 3 = o + 12
    BY DEF q
  <2> QED BY <2>1, <2>4, <2>5 DEF h
<1>14. (o + 8) + 1 + n = o + Len(OutputBytes(out))
  <2>1. Len(OutputBytes(out)) = 8 + (1 + n)
    BY <1>3, <1>6
  <2> HIDE DEF n
  <2> QED BY <1>1, <2>1
<1>15. At(o + 8) = 25 /\ At((o + 8) + 1) = 118 <=> out.kind = "p2pkh"
  BY <1>7, <1>8, <1>11, <1>12
<1> QED BY <1>7, <1>10, <1>13, <1>14, <1>15

(* The parts of a witness with few items: their number, and the items. *)
LEMMA WitnessHas ==
  ASSUME NEW s \in Seq(Nat), NEW o \in Nat, NEW in \in Ins, Has(s, o, WitnessBytes(in)),
         Len(in.witness) < 253
  PROVE  /\ Has(s, o, <<Len(in.witness)>>) /\ Has(s, o + 1, FlattenSeq(ItemParts(in)))
         /\ Len(WitnessBytes(in)) = 1 + Len(FlattenSeq(ItemParts(in)))
<1> DEFINE n == Len(in.witness)
           a == CompactSize(n)
           c == FlattenSeq(ItemParts(in))
<1>1. n \in Nat
  BY LenProperties DEF Ins
<1>2. a = <<n>>
  BY DEF CompactSize
<1>3. a \in Seq(Nat) /\ Len(a) = 1
  <2>1. <<n>> \in Seq(Nat) /\ Len(<<n>>) = 1
    BY <1>1
  <2> QED BY <1>2, <2>1
<1>4. c \in Seq(Nat) /\ WitnessBytes(in) = a \o c
  BY ItemPartsType, FlattenHas DEF WitnessBytes
<1> HIDE DEF a, c, n
<1>5. Has(s, o, a) /\ Has(s, o + Len(a), c)
  BY <1>3, <1>4, HasJoined
<1>6. Len(a \o c) = Len(a) + Len(c)
  BY <1>3, <1>4, ConcatProperties
<1>7. Len(WitnessBytes(in)) = 1 + Len(c)
  BY <1>3, <1>4, <1>6
<1> QED BY <1>2, <1>3, <1>5, <1>7 DEF n, c

(* What getSegWitP2PKH makes of an empty witness. *)
LEMMA NoWitnessRead ==
  ASSUME Reading, NEW o \in Nat, NEW in \in Ins, in.witness = <<>>,
         Has(Hex, o, WitnessBytes(in))
  PROVE  getRealSizeFromCompactSize(o) =
           [size |-> 0, next |-> o + Len(WitnessBytes(in))]
<1>1. Hex \in Seq(Nat) /\ Len(in.witness) = 0
  BY HexType, EmptySeq
<1>2. Has(Hex, o, <<0>>) /\ Len(WitnessBytes(in)) = 1 + Len(FlattenSeq(ItemParts(in)))
  BY <1>1, WitnessHas
<1>3. Len(FlattenSeq(ItemParts(in))) = 0
  <2>1. ItemParts(in) \in Seq(Seq(Nat)) /\ Len(ItemParts(in)) = 0
    BY <1>1, ItemPartsType
  <2>2. \A k \in 1 .. Len(ItemParts(in)) : ItemParts(in)[k] = <<>>
    BY <2>1
  <2>3. FlattenSeq(ItemParts(in)) = <<>>
    BY <2>1, <2>2, FlattenNothing
  <2> QED BY <2>3, EmptySeq
<1>4. CompactSize(0) = <<0>> /\ Len(<<0>>) = 1
  BY DEF CompactSize
<1>5. 0 \in Nat /\ 0 <= MaxSize
  BY DEF MaxSize
<1>6. getRealSizeFromCompactSize(o) = [size |-> 0, next |-> o + Len(CompactSize(0))]
  <2>1. Has(Hex, o, CompactSize(0))
    BY <1>2, <1>4
  <2> QED BY <1>5, <2>1, ReadSize
<1>7. Len(CompactSize(0)) = 1 /\ Len(WitnessBytes(in)) = 1
  BY <1>2, <1>3, <1>4
<1> QED BY <1>6, <1>7

(* What it makes of the witness of a P2WPKH input with a key of 33 bytes. *)
LEMMA KeyRead ==
  ASSUME Reading, NEW o \in Nat, NEW in \in Ins, in.kind = "p2wpkh", InputKind(in),
         Len(in.key) = 33, Has(Hex, o, WitnessBytes(in))
  PROVE  /\ getRealSizeFromCompactSize(o) = [size |-> 2, next |-> o + 1]
         /\ Key(o + 1) = [pkh |-> hash160(in.key), next |-> o + Len(WitnessBytes(in))]
<1> DEFINE p == in.witness[1]
           a == Len(p)
           key == in.key
           qs == ItemParts(in)
           k == (o + 1) + 1 + At(o + 1)
<1>1. /\ Len(in.witness) = 2 /\ in.witness[2] = key /\ a < 253
  BY DEF InputKind
<1>2. /\ p \in Seq(Nat) /\ a \in Nat /\ key \in Seq(Nat)
      /\ in.witness \in Seq(Seq(Byte)) /\ DOMAIN in.witness = 1 .. 2
  <2>1. in.witness \in Seq(Seq(Byte)) /\ in.key \in Seq(Byte)
    BY DEF Ins
  <2>2. DOMAIN in.witness = 1 .. 2 /\ 1 \in 1 .. Len(in.witness)
    BY <1>1, <2>1, LenProperties
  <2>3. p \in Seq(Byte)
    BY <2>1, <2>2, ElementOfSeq
  <2> QED BY <2>1, <2>2, <2>3, BytesAreNumbers
<1>3. Hex \in Seq(Nat)
  BY HexType
<1>4. /\ Has(Hex, o, <<2>>) /\ Has(Hex, o + 1, FlattenSeq(qs))
      /\ Len(WitnessBytes(in)) = 1 + Len(FlattenSeq(qs))
  <2>1. Len(in.witness) = 2 /\ Len(in.witness) < 253
    BY <1>1
  <2>2. /\ Has(Hex, o, <<Len(in.witness)>>)
        /\ Has(Hex, o + 1, FlattenSeq(ItemParts(in)))
        /\ Len(WitnessBytes(in)) = 1 + Len(FlattenSeq(ItemParts(in)))
    BY <1>3, <2>1, WitnessHas
  <2> QED BY <2>1, <2>2
<1>5. /\ qs \in Seq(Seq(Nat)) /\ Len(qs) = 2
      /\ qs[1] = WithSize(p) /\ qs[2] = WithSize(key)
  <2>1. qs \in Seq(Seq(Nat)) /\ Len(qs) = 2
    BY <1>1, ItemPartsType
  <2>2. 1 \in DOMAIN in.witness /\ 2 \in DOMAIN in.witness
    BY <1>2
  <2>3. qs[1] = WithSize(in.witness[1]) /\ qs[2] = WithSize(in.witness[2])
    BY <2>2 DEF ItemParts
  <2> QED BY <1>1, <2>1, <2>3
<1> HIDE DEF qs, p, key
<1>6. /\ Has(Hex, o + 1, qs[1])
      /\ Has(Hex, (o + 1) + Len(qs[1]), qs[2])
      /\ Len(FlattenSeq(qs)) = Len(qs[1]) + Len(qs[2])
      /\ Len(qs[1]) \in Nat /\ Len(qs[2]) \in Nat
  <2> DEFINE f == o + 1
             u == Sums(qs)
  <2>1. f \in Nat
    OBVIOUS
  <2>2. /\ u \in [0 .. 2 -> Nat] /\ u[0] = 0
        /\ \A m \in 1 .. 2 : u[m] = u[m - 1] + Len(qs[m])
    BY <1>5, SumsAre
  <2>3. \A m \in 1 .. 2 : Has(Hex, f + u[m - 1], qs[m])
    <3> HIDE DEF f
    <3> QED BY <1>3, <1>4, <1>5, <2>1, Members DEF f
  <2>4. Len(FlattenSeq(qs)) = u[2]
    BY <1>5, FlattenHas
  <2>5. qs[1] \in Seq(Nat) /\ qs[2] \in Seq(Nat)
    <3>1. 1 \in 1 .. Len(qs) /\ 2 \in 1 .. Len(qs)
      BY <1>5
    <3> QED BY <1>5, <3>1, ElementOfSeq
  <2>6. Len(qs[1]) \in Nat /\ Len(qs[2]) \in Nat
    BY <2>5, LenProperties
  <2> HIDE DEF u
  <2>7. u[1] = Len(qs[1]) /\ u[2] = Len(qs[1]) + Len(qs[2])
    <3>1. 1 \in 1 .. 2 /\ 2 \in 1 .. 2 /\ 1 - 1 = 0 /\ 2 - 1 = 1
      OBVIOUS
    <3>2. u[1] = u[0] + Len(qs[1]) /\ u[2] = u[1] + Len(qs[2])
      BY <2>2, <3>1
    <3> QED BY <2>2, <2>6, <3>2
  <2>8. Has(Hex, f + u[0], qs[1]) /\ Has(Hex, f + u[1], qs[2])
    <3>1. 1 \in 1 .. 2 /\ 2 \in 1 .. 2 /\ 1 - 1 = 0 /\ 2 - 1 = 1
      OBVIOUS
    <3> QED BY <2>3, <3>1
  <2>9. f + u[0] = f
    BY <2>2
  <2> QED BY <2>4, <2>6, <2>7, <2>8, <2>9
<1>7. CompactSize(a) = <<a>> /\ CompactSize(Len(key)) = <<33>> /\ CompactSize(2) = <<2>>
  BY <1>1 DEF CompactSize, key
<1>8. \A b \in Nat : <<b>> \in Seq(Nat) /\ Len(<<b>>) = 1 /\ <<b>>[1] = b /\ 1 > 0
  OBVIOUS
<1> HIDE DEF a
<1>9. /\ Len(qs[1]) = 1 + a /\ Has(Hex, o + 1, <<a>>)
  <2>1. o + 1 \in Nat /\ Has(Hex, o + 1, WithSize(p)) /\ Len(<<a>>) = 1
    BY <1>2, <1>5, <1>6, <1>8
  <2>2. /\ Len(WithSize(p)) = Len(CompactSize(Len(p))) + Len(p)
        /\ Has(Hex, o + 1, CompactSize(Len(p)))
    BY <1>2, <1>3, <2>1, FieldHas
  <2> QED BY <1>5, <1>7, <2>1, <2>2 DEF a
<1>10. At(o + 1) = a
  <2>1. o + 1 \in Nat /\ <<a>> \in Seq(Nat) /\ Len(<<a>>) > 0 /\ <<a>>[1] = a
    BY <1>2, <1>8
  <2>2. At(o + 1) = <<a>>[1]
    BY <1>9, <2>1, ReadFirst
  <2> QED BY <2>1, <2>2
<1>11. k = (o + 1) + Len(qs[1]) /\ k \in Nat
  BY <1>2, <1>9, <1>10
<1> HIDE DEF k
<1>12. /\ Len(qs[2]) = 34 /\ Has(Hex, k, <<33>>) /\ Has(Hex, k + 1, key)
  <2>1. k \in Nat /\ Has(Hex, k, WithSize(key)) /\ Len(<<33>>) = 1 /\ Len(key) = 33
    BY <1>5, <1>6, <1>8, <1>11 DEF key
  <2>2. /\ Len(WithSize(key)) = Len(CompactSize(Len(key))) + Len(key)
        /\ Has(Hex, k, CompactSize(Len(key)))
        /\ Has(Hex, k + Len(CompactSize(Len(key))), key)
    BY <1>2, <1>3, <2>1, FieldHas
  <2>3. Len(CompactSize(Len(key))) = 1
    BY <1>7, <2>1
  <2>4. Len(qs[2]) = 34
    <3>1. Len(qs[2]) = Len(WithSize(key))
      BY <1>5
    <3>2. Len(WithSize(key)) = 1 + 33
      BY <2>1, <2>2, <2>3
    <3> QED BY <3>1, <3>2
  <2> QED BY <1>7, <2>2, <2>3, <2>4
<1>13. At(k) = 33
  <2>1. <<33>> \in Seq(Nat) /\ Len(<<33>>) > 0 /\ <<33>>[1] = 33
    BY <1>8
  <2>2. At(k) = <<33>>[1]
    BY <1>11, <1>12, <2>1, ReadFirst
  <2> QED BY <2>1, <2>2
<1>14. Take(k + 1, 33) = key
  <2>0. k \in Nat
    BY <1>11
  <2>1. k + 1 \in Nat
    BY <2>0
  <2>2. Take(k + 1, Len(key)) = key
    BY <1>2, <1>12, <2>1, ReadAll
  <2>3. Len(key) = 33
    BY DEF key
  <2> QED BY <2>2, <2>3
<1>15. Key(o + 1) = [pkh |-> hash160(key), next |-> k + 34]
  BY <1>13, <1>14 DEF Key, k
<1>16. k + 34 = o + Len(WitnessBytes(in))
  <2> DEFINE x == Len(qs[1])
  <2>1. Len(WitnessBytes(in)) = 1 + (x + 34)
    BY <1>4, <1>6, <1>12
  <2>2. k = (o + 1) + x
    BY <1>11
  <2>3. x \in Nat
    BY <1>6
  <2> HIDE DEF x
  <2>4. o + (1 + (x + 34)) = ((o + 1) + x) + 34
    BY <2>3
  <2> QED BY <2>1, <2>2, <2>4
<1>17. getRealSizeFromCompactSize(o) = [size |-> 2, next |-> o + 1]
  <2>1. 2 \in Nat /\ 2 <= MaxSize /\ Has(Hex, o, CompactSize(2)) /\ Len(CompactSize(2)) = 1
    BY <1>4, <1>7, <1>8 DEF MaxSize
  <2>2. getRealSizeFromCompactSize(o) = [size |-> 2, next |-> o + Len(CompactSize(2))]
    BY <2>1, ReadSize
  <2> QED BY <2>1, <2>2
<1> QED BY <1>15, <1>16, <1>17 DEF key

-----------------------------------------------------------------------------
(* What is found so far, in terms of the transaction. *)

(* The record of an input of a kind, and those of the first m inputs. *)
OneSpent(in, kind) == IF in.kind = kind THEN <<Record(in)>> ELSE <<>>
Spent(t, kind, m) == FlattenSeq([k \in 1 .. m |-> OneSpent(t.ins[k], kind)])

(* The keys in the scripts come first, then those of the first m witnesses. *)
FoundIn(t, m) == Spent(t, "p2pkh", Len(t.ins)) \o Spent(t, "p2wpkh", m)

(* The record of output k, and those of the first m outputs. *)
OnePaid(t, k, txhash) ==
  IF t.outs[k].kind # "p2pkh" THEN <<>>
  ELSE << [txhash |-> txhash, position |-> k - 1,
           amount |-> LE(t.outs[k].amount, 8), pkh |-> raw(t.outs[k].hash)] >>
Paid(t, m, txhash) == FlattenSeq([k \in 1 .. m |-> OnePaid(t, k, txhash)])

(* What waits for the witness of an input. *)
Waiting(in) ==
  IF in.script = <<>> THEN [Record(in) EXCEPT !.pkh = zeros]
  ELSE IF in.kind = "p2pkh" THEN Record(in)
  ELSE [Record(in) EXCEPT !.pkh = ones]

(* The first m outputs, and then the first m witnesses, can be read. *)
ReadableTo(t, m) == \A k \in 1 .. m : Readable(t.outs[k])
HandledTo(t, m) == \A k \in 1 .. m : Handled(t.ins[k])
Known(t, m) == (m = 0 \/ ReadableTo(t, Len(t.outs))) /\ HandledTo(t, m)

(* The outputs and inputs found up to number m are as they should be as    *)
(* far as the parse could read, and if it could read all, no more is found. *)
OutsTo(t, m) ==
  /\ \A q \in 0 .. m : ReadableTo(t, q) => Has(vout, before.vout, Paid(t, q, listTxs[i].txhash))
  /\ ReadableTo(t, m) => Ends(vout, before.vout, Paid(t, m, listTxs[i].txhash))
InsTo(t, m) ==
  /\ \A q \in 0 .. m : Known(t, q) => Has(vin, before.vin, FoundIn(t, q))
  /\ Known(t, m) => Ends(vin, before.vin, FoundIn(t, m))

(* In each loop: the offset is at input, output or witness j, as long as   *)
(* what is before it can be read.                                          *)
InLoop(t) ==
  /\ (isSegWit <=> t.segwit) /\ count = Len(t.ins) /\ offset = InPlace(t, j)
  /\ Ends(vin, before.vin, Spent(t, "p2pkh", j))
  /\ Ends(vout, before.vout, <<>>)
  /\ t.segwit => /\ Len(temp_segWitVin) = j
                 /\ \A k \in 1 .. j : temp_segWitVin[k] = Waiting(t.ins[k])
OutLoop(t) ==
  /\ (isSegWit <=> t.segwit) /\ count = Len(t.outs)
  /\ ReadableTo(t, j) => offset = OutPlace(t, j)
  /\ InsTo(t, 0) /\ OutsTo(t, j)
  /\ t.segwit => /\ Len(temp_segWitVin) = Len(t.ins)
                 /\ \A k \in 1 .. Len(t.ins) : temp_segWitVin[k] = Waiting(t.ins[k])
WitLoop(t) ==
  /\ t.segwit /\ Len(temp_segWitVin) = Len(t.ins)
  /\ ReadableTo(t, Len(t.outs)) /\ HandledTo(t, j) => offset = WitPlace(t, j)
  /\ InsTo(t, j) /\ OutsTo(t, Len(t.outs))
  /\ \A k \in j + 1 .. Len(t.ins) : temp_segWitVin[k] = Waiting(t.ins[k])
AtEnd(t) ==
  /\ InsTo(t, Len(t.ins)) /\ OutsTo(t, Len(t.outs))
  /\ ReadableTo(t, Len(t.outs)) /\ HandledTo(t, Len(t.ins)) => offset = EndAt(t)

Parse ==
  phase \in Parsing \cup {"end"} =>
    \A t \in {block[i]} :
      /\ phase = "vin" => InLoop(t)
      /\ phase = "vout" => OutLoop(t)
      /\ phase = "witness" => WitLoop(t)
      /\ phase = "end" => AtEnd(t)

(* The first members of a sequence of sequences, joined. *)
Joined(f, m) == FlattenSeq([k \in 1 .. m |-> f[k]])

(* They are joined one by one. *)
LEMMA JoinedIs ==
  ASSUME NEW S, NEW f \in Seq(Seq(S)), NEW m \in 0 .. Len(f)
  PROVE  /\ Joined(f, m) \in Seq(S)
         /\ m = 0 => Joined(f, m) = <<>>
         /\ m # 0 => Joined(f, m) = Joined(f, m - 1) \o f[m]
<1> DEFINE p == [k \in 1 .. m |-> f[k]]
           r == [k \in 1 .. m - 1 |-> f[k]]
<1>1. Joined(f, m) = FlattenSeq(p) /\ Joined(f, m - 1) = FlattenSeq(r)
  BY DEF Joined
<1>2. p \in Seq(Seq(S)) /\ Len(p) = m
  <2>1. Len(f) \in Nat /\ \A k \in 1 .. Len(f) : f[k] \in Seq(S)
    BY LenProperties, ElementOfSeq
  <2>2. p \in [1 .. m -> Seq(S)] /\ m \in Nat
    BY <2>1
  <2> QED BY <2>2, FunctionIsSeq
<1>3. FlattenSeq(p) \in Seq(S)
  BY <1>2, FlattenHas
<1>4. CASE m = 0
  <2>1. \A k \in 1 .. Len(p) : p[k] = <<>>
    BY <1>2, <1>4
  <2> HIDE DEF p
  <2>2. FlattenSeq(p) = <<>>
    BY <1>2, <2>1, FlattenNothing
  <2> QED BY <1>1, <1>3, <1>4, <2>2
<1>5. CASE m # 0
  <2>0. Len(f) \in Nat /\ \A k \in 1 .. Len(f) : f[k] \in Seq(S)
    BY LenProperties, ElementOfSeq
  <2>1. r \in [1 .. m - 1 -> Seq(S)] /\ m - 1 \in Nat /\ m \in 1 .. Len(f)
    BY <1>5, <2>0
  <2>2. r \in Seq(Seq(S)) /\ Len(r) = m - 1
    BY <2>1, FunctionIsSeq
  <2>3. f[m] \in Seq(S)
    BY <2>0, <2>1
  <2>4. /\ Append(r, f[m]) \in Seq(Seq(S)) /\ Len(Append(r, f[m])) = m
        /\ \A k \in 1 .. m - 1 : Append(r, f[m])[k] = r[k]
        /\ Append(r, f[m])[m] = f[m]
    <3> HIDE DEF r
    <3>1. (m - 1) + 1 = m
      OBVIOUS
    <3> QED BY <2>2, <2>3, <3>1, AppendProperties
  <2>5. \A k \in 1 .. m : p[k] = Append(r, f[m])[k]
    <3> TAKE k \in 1 .. m
    <3>1. CASE k = m
      BY <2>4, <3>1
    <3>2. CASE k # m
      <4>1. k \in 1 .. m - 1 /\ r[k] = f[k]
        BY <3>2
      <4> QED BY <2>4, <4>1
    <3> QED BY <3>1, <3>2
  <2> HIDE DEF p, r
  <2>6. p = Append(r, f[m])
    BY <1>2, <2>4, <2>5, SeqEqual
  <2>7. FlattenSeq(Append(r, f[m])) = FlattenSeq(r) \o f[m]
    BY <2>2, <2>3, FlattenAppended
  <2> QED BY <1>1, <1>3, <1>5, <2>6, <2>7
<1> QED BY <1>4, <1>5

(* The record of an input. *)
LEMMA RecordType ==
  ASSUME NEW in \in Ins
  PROVE  Record(in) \in Tins
<1>1. in.prev \in Nat /\ in.pos \in Nat /\ in.key \in Seq(Nat)
  BY BytesAreNumbers DEF Ins
<1>2. Rep(in.prev, 32) \in Seq(Nat)
  <2>1. 32 \in Nat
    OBVIOUS
  <2> QED BY <1>1, <2>1, RepType
<1>3. LE(in.pos, 4) \in Seq(Nat)
  <2>1. 4 \in Nat /\ 4 > 0
    OBVIOUS
  <2> QED BY <1>1, <2>1, LEType
<1>4. hash160(in.key) \in Hash
  BY <1>1 DEF hash160, Hash
<1> QED BY <1>2, <1>3, <1>4 DEF Record, Tins

(* The record of an input, if it is of the kind, is a list of inputs. *)
LEMMA OneSpentType ==
  ASSUME NEW in \in Ins, NEW kind
  PROVE  OneSpent(in, kind) \in Seq(Tins)
<1>1. Record(in) \in Tins
  BY RecordType
<1> HIDE DEF Record, Tins
<1>2. <<Record(in)>> \in Seq(Tins)
  BY <1>1
<1> QED BY <1>2, EmptySeq DEF OneSpent

(* The records of the first inputs, one by one. *)
LEMMA SpentIs ==
  ASSUME NEW t \in Transactions, NEW kind, NEW m \in 0 .. Len(t.ins)
  PROVE  /\ Spent(t, kind, m) \in Seq(Tins)
         /\ m = 0 => Spent(t, kind, m) = <<>>
         /\ m # 0 => Spent(t, kind, m) = Spent(t, kind, m - 1) \o OneSpent(t.ins[m], kind)
<1> DEFINE n == Len(t.ins)
           f == [k \in 1 .. n |-> OneSpent(t.ins[k], kind)]
<1>1. n \in Nat /\ \A k \in 1 .. n : t.ins[k] \in Ins
  BY PartsType
<1>2. f \in Seq(Seq(Tins)) /\ Len(f) = n
  <2>1. f \in [1 .. n -> Seq(Tins)]
    BY <1>1, OneSpentType
  <2> QED BY <1>1, <2>1, FunctionIsSeq
<1>3. \A q \in 0 .. n : Spent(t, kind, q) = Joined(f, q)
  <2> TAKE q \in 0 .. n
  <2>1. \A k \in 1 .. q : f[k] = OneSpent(t.ins[k], kind)
    BY <1>1
  <2>2. [k \in 1 .. q |-> f[k]] = [k \in 1 .. q |-> OneSpent(t.ins[k], kind)]
    BY <2>1
  <2> QED BY <2>2 DEF Spent, Joined
<1>4. m \in 0 .. n /\ (m # 0 => m - 1 \in 0 .. n /\ f[m] = OneSpent(t.ins[m], kind))
  BY <1>1
<1> HIDE DEF f, n
<1>5. /\ Joined(f, m) \in Seq(Tins)
      /\ m = 0 => Joined(f, m) = <<>>
      /\ m # 0 => Joined(f, m) = Joined(f, m - 1) \o f[m]
  BY <1>1, <1>2, <1>4, JoinedIs
<1> QED BY <1>3, <1>4, <1>5

(* The record of an output, if it is P2PKH, is a list of outputs. *)
LEMMA OnePaidType ==
  ASSUME NEW t \in Transactions, NEW k \in 1 .. Len(t.outs), NEW txhash \in Nat
  PROVE  OnePaid(t, k, txhash) \in Seq(Touts)
<1> DEFINE e == [txhash |-> txhash, position |-> k - 1,
                 amount |-> LE(t.outs[k].amount, 8), pkh |-> raw(t.outs[k].hash)]
<1>1. t.outs[k] \in Outs /\ k - 1 \in Nat
  BY PartsType
<1>2. t.outs[k].amount \in Nat /\ t.outs[k].hash \in Seq(Nat)
  BY <1>1, BytesAreNumbers DEF Outs
<1>3. LE(t.outs[k].amount, 8) \in Seq(Nat)
  <2>1. 8 \in Nat /\ 8 > 0
    OBVIOUS
  <2> QED BY <1>2, <2>1, LEType
<1>4. e \in Touts
  BY <1>1, <1>2, <1>3 DEF Touts, raw, Hash
<1> HIDE DEF e, Touts
<1>5. <<e>> \in Seq(Touts)
  BY <1>4
<1>6. OnePaid(t, k, txhash) = IF t.outs[k].kind # "p2pkh" THEN <<>> ELSE <<e>>
  BY DEF OnePaid, e
<1> QED BY <1>5, <1>6, EmptySeq

(* The records of the first outputs, one by one. *)
LEMMA PaidIs ==
  ASSUME NEW t \in Transactions, NEW m \in 0 .. Len(t.outs), NEW txhash \in Nat
  PROVE  /\ Paid(t, m, txhash) \in Seq(Touts)
         /\ m = 0 => Paid(t, m, txhash) = <<>>
         /\ m # 0 => Paid(t, m, txhash) = Paid(t, m - 1, txhash) \o OnePaid(t, m, txhash)
<1> DEFINE n == Len(t.outs)
           f == [k \in 1 .. n |-> OnePaid(t, k, txhash)]
<1>1. n \in Nat
  BY PartsType
<1>2. f \in Seq(Seq(Touts)) /\ Len(f) = n
  <2>1. f \in [1 .. n -> Seq(Touts)]
    BY OnePaidType
  <2> QED BY <1>1, <2>1, FunctionIsSeq
<1>3. \A q \in 0 .. n : Paid(t, q, txhash) = Joined(f, q)
  <2> TAKE q \in 0 .. n
  <2>1. \A k \in 1 .. q : f[k] = OnePaid(t, k, txhash)
    BY <1>1
  <2>2. [k \in 1 .. q |-> f[k]] = [k \in 1 .. q |-> OnePaid(t, k, txhash)]
    BY <2>1
  <2> QED BY <2>2 DEF Paid, Joined
<1>4. m \in 0 .. n /\ (m # 0 => m - 1 \in 0 .. n /\ f[m] = OnePaid(t, m, txhash))
  BY <1>1
<1> HIDE DEF f, n
<1>5. /\ Joined(f, m) \in Seq(Touts)
      /\ m = 0 => Joined(f, m) = <<>>
      /\ m # 0 => Joined(f, m) = Joined(f, m - 1) \o f[m]
  BY <1>1, <1>2, <1>4, JoinedIs
<1> QED BY <1>3, <1>4, <1>5

-----------------------------------------------------------------------------
(* Every step of the parse. *)

(* The transaction that is read, and its bytes. *)
LEMMA Here ==
  ASSUME Kinds, Split,
         \/ phase \in Parsing
         \/ phase = "tx" /\ i <= Len(listTxs)
  PROVE  /\ Reading /\ Hex = Serialized(block[i]) /\ listTxs[i].txhash \in Nat
         /\ block[i] \in Transactions /\ WellFormed(block[i])
<1>1. /\ Len(block) \in Nat /\ Len(listTxs) = Len(block) /\ i \in 1 .. Len(block) + 1
      /\ phase \in Parsing => i \in 2 .. Len(block)
      /\ phase = "tx" => i > 1
  BY BlockType DEF Kinds, BufferKinds, CursorKinds, Parsing
<1>2. i \in 1 .. Len(block) /\ i > 1 /\ i <= Len(listTxs)
  BY <1>1
<1>3. Reading
  BY <1>1, <1>2 DEF Reading, Kinds
<1>4. block[i] \in Transactions /\ WellFormed(block[i])
  BY <1>2, BlockType DEF Kinds, BufferKinds
<1>5. listTxs[i] \in Txs /\ i \in DOMAIN listTxs
  BY <1>1, <1>2, ElementOfSeq, LenProperties DEF Kinds, BufferKinds
<1> QED BY <1>3, <1>4, <1>5 DEF Hex, Split, SplitExact, Txs

(* The size of something does not begin with a zero. *)
LEMMA CompactSizeFirst ==
  ASSUME NEW n \in Nat, n > 0
  PROVE  Len(CompactSize(n)) > 0 /\ CompactSize(n)[1] # 0
<1>1. \A b \in Nat : <<b>> \in Seq(Nat) /\ Len(<<b>>) = 1 /\ <<b>>[1] = b
  OBVIOUS
<1>2. ASSUME NEW b \in Nat, NEW d \in Seq(Nat)
      PROVE  Len(<<b>> \o d) > 0 /\ (<<b>> \o d)[1] = b
  <2> DEFINE s == <<b>>
  <2>1. s \in Seq(Nat) /\ Len(s) = 1 /\ s[1] = b
    BY <1>1
  <2> HIDE DEF s
  <2>2. Len(d) \in Nat
    BY LenProperties
  <2>3. Len(s \o d) = Len(s) + Len(d)
    BY <2>1, ConcatProperties
  <2>4. Len(s \o d) = 1 + Len(d) /\ 1 \in 1 .. 1 + Len(d)
    BY <2>1, <2>2, <2>3
  <2>5. (s \o d)[1] = s[1]
    BY <2>1, <2>4, ConcatProperties
  <2> QED BY <2>1, <2>2, <2>4, <2>5 DEF s
<1>3. LE(n, 2) \in Seq(Nat) /\ LE(n, 4) \in Seq(Nat)
  <2>1. 2 \in Nat /\ 2 > 0 /\ 4 \in Nat /\ 4 > 0
    OBVIOUS
  <2> QED BY <2>1, LEType
<1>4. /\ Len(<<253>> \o LE(n, 2)) > 0 /\ (<<253>> \o LE(n, 2))[1] = 253
      /\ Len(<<254>> \o LE(n, 4)) > 0 /\ (<<254>> \o LE(n, 4))[1] = 254
  <2>1. 253 \in Nat /\ 254 \in Nat
    OBVIOUS
  <2> QED BY <1>2, <1>3, <2>1
<1>5. CompactSize(n) \in {<<n>>, <<253>> \o LE(n, 2), <<254>> \o LE(n, 4)}
  BY DEF CompactSize
<1> QED BY <1>1, <1>4, <1>5

(* The head of the loop of reducer: the marker tells whether there are     *)
(* witnesses, since a transaction without it has its number of inputs      *)
(* there, and that is not zero.                                            *)
LEMMA HeadRead ==
  ASSUME Reading, NEW t \in Transactions, Hex = Serialized(t), WellFormed(t)
  PROVE  /\ At(4) = 0 /\ At(5) # 0 <=> t.segwit
         /\ getRealSizeFromCompactSize(IF t.segwit THEN 6 ELSE 4) =
              [size |-> Len(t.ins), next |-> InPlace(t, 0)]
<1>1. /\ Has(Hex, 4, Marker(t)) /\ InsSizeAt(t) \in Nat
      /\ Has(Hex, InsSizeAt(t), CompactSize(Len(t.ins)))
  BY Places
<1>2. Len(t.ins) \in Nat /\ Len(t.ins) > 0 /\ Len(t.ins) <= MaxSize
  <2>1. t.ins \in Seq(Ins) /\ t.ins # <<>> /\ Len(t.ins) <= MaxSize
    BY DEF Transactions, WellFormed
  <2> QED BY <2>1, LenProperties, EmptySeq
<1>3. InsSizeAt(t) = IF t.segwit THEN 6 ELSE 4
  <2>1. Len(<<0, 1>>) = 2 /\ Len(<<>>) = 0
    BY EmptySeq
  <2> QED BY <2>1 DEF InsSizeAt, Marker
<1>4. CompactSize(Len(t.ins)) \in Seq(Nat)
  BY <1>2, CompactSizeType
<1>5. getRealSizeFromCompactSize(InsSizeAt(t)) = [size |-> Len(t.ins), next |-> InPlace(t, 0)]
  <2>1. getRealSizeFromCompactSize(InsSizeAt(t)) =
          [size |-> Len(t.ins), next |-> InsSizeAt(t) + Len(CompactSize(Len(t.ins)))]
    BY <1>1, <1>2, ReadSize
  <2>2. InPlace(t, 0) = InsSizeAt(t) + Len(CompactSize(Len(t.ins)))
    BY InPlaces DEF InsAt
  <2> QED BY <2>1, <2>2
<1>6. At(4) = 0 /\ At(5) # 0 <=> t.segwit
  <2>1. 4 + 1 - 1 = 4 /\ 4 + 2 - 1 = 5
    OBVIOUS
  <2>2. CASE t.segwit
    <3>1. At(4 + 1 - 1) = 0 /\ At(4 + 2 - 1) = 1
      <4>1. Marker(t) = <<0, 1>>
        BY <2>2 DEF Marker
      <4>2. 4 \in Nat /\ <<0, 1>> \in Seq(Nat) /\ Has(Hex, 4, <<0, 1>>)
        BY <1>1, <4>1
      <4>3. \A k \in 1 .. Len(<<0, 1>>) : At(4 + k - 1) = <<0, 1>>[k]
        BY <4>2, ReadAt
      <4> QED BY <4>3
    <3> QED BY <2>1, <2>2, <3>1
  <2>3. CASE ~t.segwit
    <3>1. 4 \in Nat /\ Has(Hex, 4, CompactSize(Len(t.ins)))
      BY <1>1, <1>3, <2>3
    <3>2. Len(CompactSize(Len(t.ins))) > 0 /\ CompactSize(Len(t.ins))[1] # 0
      BY <1>2, CompactSizeFirst
    <3>3. At(4) = CompactSize(Len(t.ins))[1]
      BY <1>4, <3>1, <3>2, ReadFirst
    <3> QED BY <2>3, <3>2, <3>3
  <2> QED BY <2>2, <2>3
<1> QED BY <1>3, <1>5, <1>6

(* Something is added to the second of two parts at the end of s. *)
LEMMA EndsAdded ==
  ASSUME NEW S, NEW s \in Seq(S), NEW p \in Seq(S), NEW q \in Seq(S), NEW o \in Nat,
         NEW e \in S, Ends(s, o, p \o q)
  PROVE  Ends(Append(s, e), o, p \o (q \o <<e>>))
<1> DEFINE r == <<e>>
           pq == p \o q
<1>1. r \in Seq(S) /\ pq \in Seq(S)
  <2>1. r \in Seq(S)
    OBVIOUS
  <2>2. pq \in Seq(S)
    BY ConcatProperties
  <2> QED BY <2>1, <2>2
<1>2. pq \o r = p \o (q \o r)
  <2> DEFINE x == (p \o q) \o r
             y == p \o (q \o r)
  <2>1. r \in Seq(S)
    BY <1>1
  <2> HIDE DEF r
  <2>2. x \in Seq(S) /\ y \in Seq(S) /\ Len(x) = Len(y)
    BY <2>1, ConcatProperties
  <2>3. \A k \in 1 .. Len(x) : x[k] = y[k]
    BY <2>1, ConcatProperties
  <2> QED BY <2>2, <2>3, SeqEqual
<1>3. Ends(Append(s, e), o, pq \o r)
  <2>1. Ends(s, o, pq)
    OBVIOUS
  <2> HIDE DEF pq
  <2> QED BY <1>1, <2>1, EndsAppended
<1> QED BY <1>2, <1>3

(* One more input is looked at: its record is added if it is of the kind. *)
LEMMA SpentAdded ==
  ASSUME NEW t \in Transactions, NEW kind, NEW m \in 1 .. Len(t.ins),
         NEW s \in Seq(Tins), NEW p \in Seq(Tins), NEW o \in Nat, NEW u,
         Ends(s, o, p \o Spent(t, kind, m - 1)),
         u = IF t.ins[m].kind = kind THEN Append(s, Record(t.ins[m])) ELSE s
  PROVE  Ends(u, o, p \o Spent(t, kind, m))
<1> DEFINE a == Spent(t, kind, m - 1)
           b == Spent(t, kind, m)
           one == OneSpent(t.ins[m], kind)
           e == Record(t.ins[m])
<1>1. Len(t.ins) \in Nat /\ t.ins[m] \in Ins /\ m \in 0 .. Len(t.ins)
      /\ m - 1 \in 0 .. Len(t.ins) /\ m # 0
  <2>1. Len(t.ins) \in Nat /\ t.ins[m] \in Ins
    BY PartsType
  <2> QED BY <2>1
<1>2. b = a \o one /\ a \in Seq(Tins)
  <2>1. a \in Seq(Tins)
    BY <1>1, SpentIs
  <2>2. m \in 0 .. Len(t.ins) /\ m # 0
    BY <1>1
  <2>3. b = a \o one
    BY <2>2, SpentIs
  <2> QED BY <2>1, <2>3
<1>3. e \in Tins
  BY <1>1, RecordType
<1> HIDE DEF a, b, e
<1>4. CASE t.ins[m].kind = kind
  <2>1. one = <<e>> /\ u = Append(s, e)
    BY <1>4 DEF OneSpent, e
  <2>2. Ends(s, o, p \o a)
    BY DEF a
  <2>3. Ends(Append(s, e), o, p \o (a \o <<e>>))
    BY <1>2, <1>3, <2>2, EndsAdded
  <2> QED BY <1>2, <2>1, <2>3 DEF b
<1>5. CASE t.ins[m].kind # kind
  <2>1. one = <<>> /\ u = s
    BY <1>5 DEF OneSpent
  <2>2. b = a
    BY <1>2, <2>1, ConcatEmptySeq
  <2> QED BY <2>1, <2>2 DEF a, b
<1> QED BY <1>4, <1>5

(* One more output is looked at. *)
LEMMA PaidAdded ==
  ASSUME NEW t \in Transactions, NEW m \in 1 .. Len(t.outs), NEW txhash \in Nat,
         NEW s \in Seq(Touts), NEW o \in Nat, NEW u, NEW e \in Touts,
         Ends(s, o, Paid(t, m - 1, txhash)),
         OnePaid(t, m, txhash) = IF t.outs[m].kind = "p2pkh" THEN <<e>> ELSE <<>>,
         u = IF t.outs[m].kind = "p2pkh" THEN Append(s, e) ELSE s
  PROVE  Ends(u, o, Paid(t, m, txhash))
<1> DEFINE a == Paid(t, m - 1, txhash)
           b == Paid(t, m, txhash)
           one == OnePaid(t, m, txhash)
<1>1. Len(t.outs) \in Nat /\ m \in 0 .. Len(t.outs) /\ m - 1 \in 0 .. Len(t.outs) /\ m # 0
  <2>1. Len(t.outs) \in Nat
    BY PartsType
  <2> QED BY <2>1
<1>2. b = a \o one /\ a \in Seq(Touts)
  BY <1>1, PaidIs
<1>3. Ends(s, o, a)
  OBVIOUS
<1>4. one = IF t.outs[m].kind = "p2pkh" THEN <<e>> ELSE <<>>
  OBVIOUS
<1> HIDE DEF a, b, one
<1>5. CASE t.outs[m].kind = "p2pkh"
  <2>1. Ends(Append(s, e), o, a \o <<e>>)
    BY <1>2, <1>3, EndsAppended
  <2> QED BY <1>2, <1>4, <1>5, <2>1 DEF b
<1>6. CASE t.outs[m].kind # "p2pkh"
  <2>1. b = a
    BY <1>2, <1>4, <1>6, ConcatEmptySeq
  <2> QED BY <1>3, <1>6, <2>1 DEF b
<1> QED BY <1>5, <1>6

(* The next input, where the loop over the inputs is. *)
LEMMA InputHere ==
  ASSUME Kinds, Split, phase = "vin", j < count, NEW t, t = block[i], InLoop(t)
  PROVE  LET in == t.ins[j + 1]
         IN  /\ j + 1 \in 1 .. Len(t.ins) /\ j \in Nat /\ in \in Ins /\ InputKind(in)
             /\ Input(offset).next = InPlace(t, j + 1)
             /\ Input(offset).tin \in Tins
             /\ Input(offset).empty <=> in.script = <<>>
             /\ Input(offset).key <=> in.kind = "p2pkh"
             /\ Input(offset).tin.txhash = Rep(in.prev, 32)
             /\ Input(offset).tin.position = LE(in.pos, 4)
             /\ in.kind = "p2pkh" => Input(offset).tin = Record(in) /\ in.script # <<>>
<1> DEFINE in == t.ins[j + 1]
<1>1. Reading /\ Hex = Serialized(t) /\ t \in Transactions /\ WellFormed(t)
  BY Here DEF Parsing
<1>2. j \in Nat /\ count = Len(t.ins) /\ offset = InPlace(t, j) /\ offset \in Nat
  BY DEF Kinds, CursorKinds, InLoop
<1>3. Len(t.ins) \in Nat /\ DOMAIN t.ins = 1 .. Len(t.ins)
  BY <1>1, PartsType
<1>4. j + 1 \in 1 .. Len(t.ins) /\ (j + 1) - 1 = j
  BY <1>2, <1>3
<1>5. in \in Ins /\ InputKind(in) /\ Len(in.script) <= MaxSize
  <2>1. in \in Ins
    BY <1>1, <1>4, PartsType
  <2>2. j + 1 \in DOMAIN t.ins
    BY <1>3, <1>4
  <2> QED BY <1>1, <2>1, <2>2 DEF WellFormed
<1>6. /\ Has(Serialized(t), InPlace(t, (j + 1) - 1), InputBytes(in))
      /\ InPlace(t, j + 1) = InPlace(t, (j + 1) - 1) + Len(InputBytes(in))
  BY <1>1, <1>4, InPlaces
<1> HIDE DEF in
<1>7. Has(Hex, offset, InputBytes(in)) /\ InPlace(t, j + 1) = offset + Len(InputBytes(in))
  BY <1>1, <1>2, <1>4, <1>6
<1>8. /\ Input(offset).next = offset + Len(InputBytes(in))
      /\ Input(offset).empty <=> in.script = <<>>
      /\ Input(offset).key <=> in.kind = "p2pkh"
      /\ Input(offset).tin.txhash = Rep(in.prev, 32)
      /\ Input(offset).tin.position = LE(in.pos, 4)
      /\ in.kind = "p2pkh" => Input(offset).tin = Record(in) /\ in.script # <<>>
  BY <1>1, <1>2, <1>5, <1>7, InputRead
<1>9. Input(offset).tin \in Tins
  BY <1>1, <1>2, InputType
<1> QED BY <1>2, <1>4, <1>5, <1>7, <1>8, <1>9 DEF in

(* The same where nothing is in front. *)
LEMMA SpentAddedFirst ==
  ASSUME NEW t \in Transactions, NEW m \in Nat, m + 1 \in 1 .. Len(t.ins),
         NEW s \in Seq(Tins), NEW o \in Nat, NEW u,
         Ends(s, o, Spent(t, "p2pkh", m)),
         u = IF t.ins[m + 1].kind = "p2pkh" THEN Append(s, Record(t.ins[m + 1])) ELSE s
  PROVE  Ends(u, o, Spent(t, "p2pkh", m + 1))
<1> DEFINE a == Spent(t, "p2pkh", m)
           b == Spent(t, "p2pkh", m + 1)
<1>1. Len(t.ins) \in Nat /\ m \in 0 .. Len(t.ins) /\ m + 1 \in 0 .. Len(t.ins)
      /\ (m + 1) - 1 = m
  BY PartsType
<1>2. a \in Seq(Tins) /\ b \in Seq(Tins)
  BY <1>1, SpentIs
<1>3. <<>> \in Seq(Tins) /\ <<>> \o a = a /\ <<>> \o b = b
  BY <1>2, EmptySeq, ConcatEmptySeq
<1>4. Ends(s, o, <<>> \o Spent(t, "p2pkh", (m + 1) - 1))
  BY <1>1, <1>3
<1>5. Ends(u, o, <<>> \o b)
  BY <1>3, <1>4, SpentAdded
<1> QED BY <1>3, <1>5

(* The head of the loop: nothing is found, and the offset is at input 1.   *)
LEMMA ReducerParse ==
  ASSUME Kinds, Split, NEW t, t = block[i], reducer
  PROVE  InLoop(t)'
<1>1. /\ phase = "tx" /\ i <= Len(listTxs) /\ j' = 0
      /\ isSegWit' = (At(4) = 0 /\ At(5) # 0)
      /\ offset' = getRealSizeFromCompactSize(IF isSegWit' THEN 6 ELSE 4).next
      /\ count' = getRealSizeFromCompactSize(IF isSegWit' THEN 6 ELSE 4).size
      /\ before' = [vin |-> Len(vin), vout |-> Len(vout)]
      /\ UNCHANGED <<block, i, temp_segWitVin, vin, vout>>
  BY DEF reducer, received, found
<1>2. Reading /\ Hex = Serialized(t) /\ t \in Transactions /\ WellFormed(t)
  BY <1>1, Here
<1>3. /\ At(4) = 0 /\ At(5) # 0 <=> t.segwit
      /\ getRealSizeFromCompactSize(IF t.segwit THEN 6 ELSE 4) =
           [size |-> Len(t.ins), next |-> InPlace(t, 0)]
  BY <1>2, HeadRead
<1>4. isSegWit' <=> t.segwit
  BY <1>1, <1>3
<1>5. count' = Len(t.ins) /\ offset' = InPlace(t, 0)
  <2>1. (IF isSegWit' THEN 6 ELSE 4) = (IF t.segwit THEN 6 ELSE 4)
    BY <1>4
  <2> QED BY <1>1, <1>3, <2>1
<1>6. Ends(vin, Len(vin), Spent(t, "p2pkh", 0)) /\ Ends(vout, Len(vout), <<>>)
  <2>1. vin \in Seq(Tins) /\ vout \in Seq(Touts)
    BY DEF Kinds, FoundKinds
  <2>2. Ends(vin, Len(vin), <<>>) /\ Ends(vout, Len(vout), <<>>)
    BY <2>1, EndsNothing
  <2>3. 0 \in 0 .. Len(t.ins)
    BY <1>2, PartsType
  <2>4. Spent(t, "p2pkh", 0) = <<>>
    BY <1>2, <2>3, SpentIs
  <2> QED BY <2>2, <2>4
<1>7. Len(temp_segWitVin) = 0
  BY <1>1, EmptySeq DEF Kinds, FoundKinds, Parsing
<1> QED BY <1>1, <1>4, <1>5, <1>6, <1>7 DEF InLoop

(* An input without witnesses. *)
LEMMA GetTxInputsParse ==
  ASSUME Kinds, Split, NEW t, t = block[i], InLoop(t), getTxInputs
  PROVE  InLoop(t)'
<1> DEFINE in == t.ins[j + 1]
<1>1. /\ phase = "vin" /\ ~isSegWit /\ j < count /\ j' = j + 1
      /\ vin' = (IF Input(offset).key THEN Append(vin, Input(offset).tin) ELSE vin)
      /\ offset' = Input(offset).next
      /\ UNCHANGED <<block, i, count, isSegWit, vout, before>>
  BY DEF getTxInputs, received
<1>2. /\ j + 1 \in 1 .. Len(t.ins) /\ j \in Nat
      /\ Input(offset).next = InPlace(t, j + 1)
      /\ Input(offset).key <=> in.kind = "p2pkh"
      /\ in.kind = "p2pkh" => Input(offset).tin = Record(in)
  BY <1>1, InputHere
<1>3. t \in Transactions
  BY <1>1, Here DEF Parsing
<1>4. vin \in Seq(Tins) /\ before.vin \in Nat /\ <<>> \in Seq(Tins)
  BY EmptySeq DEF Kinds, FoundKinds
<1>5. (isSegWit <=> t.segwit) /\ count = Len(t.ins)
      /\ Ends(vin, before.vin, Spent(t, "p2pkh", j)) /\ Ends(vout, before.vout, <<>>)
  BY DEF InLoop
<1>6. vin' = IF in.kind = "p2pkh" THEN Append(vin, Record(in)) ELSE vin
  BY <1>1, <1>2
<1>7. Ends(vin', before.vin, Spent(t, "p2pkh", j + 1))
  BY <1>2, <1>3, <1>4, <1>5, <1>6, SpentAddedFirst
<1> HIDE DEF in
<1> QED BY <1>1, <1>2, <1>5, <1>7 DEF InLoop

(* An input of a transaction with witnesses: it waits for its own. *)
LEMMA GetSegWitTxInputsParse ==
  ASSUME Kinds, Split, NEW t, t = block[i], InLoop(t), getSegWitTxInputs
  PROVE  InLoop(t)'
<1> DEFINE in == t.ins[j + 1]
           tin == IF Input(offset).empty THEN [Input(offset).tin EXCEPT !.pkh = zeros]
                  ELSE IF Input(offset).key THEN Input(offset).tin
                  ELSE [Input(offset).tin EXCEPT !.pkh = ones]
<1>1. /\ phase = "vin" /\ isSegWit /\ j < count /\ j' = j + 1
      /\ vin' = (IF Input(offset).key /\ ~Input(offset).empty
                 THEN Append(vin, tin) ELSE vin)
      /\ temp_segWitVin' = Append(temp_segWitVin, tin)
      /\ offset' = Input(offset).next
      /\ UNCHANGED <<block, i, count, isSegWit, vout, before>>
  BY DEF getSegWitTxInputs, received
<1>2. /\ j + 1 \in 1 .. Len(t.ins) /\ j \in Nat /\ in \in Ins
      /\ Input(offset).next = InPlace(t, j + 1)
      /\ Input(offset).tin \in Tins
      /\ Input(offset).empty <=> in.script = <<>>
      /\ Input(offset).key <=> in.kind = "p2pkh"
      /\ Input(offset).tin.txhash = Rep(in.prev, 32)
      /\ Input(offset).tin.position = LE(in.pos, 4)
      /\ in.kind = "p2pkh" => Input(offset).tin = Record(in) /\ in.script # <<>>
  BY <1>1, InputHere
<1>3. t \in Transactions
  BY <1>1, Here DEF Parsing
<1>4. vin \in Seq(Tins) /\ before.vin \in Nat /\ temp_segWitVin \in Seq(Tins)
  BY DEF Kinds, FoundKinds
<1>5. /\ (isSegWit <=> t.segwit) /\ count = Len(t.ins)
      /\ Ends(vin, before.vin, Spent(t, "p2pkh", j)) /\ Ends(vout, before.vout, <<>>)
      /\ t.segwit => /\ Len(temp_segWitVin) = j
                     /\ \A k \in 1 .. j : temp_segWitVin[k] = Waiting(t.ins[k])
  BY DEF InLoop
<1>6. tin = Waiting(in)
  <2> DEFINE found_tin == Input(offset).tin
             p == Rep(in.prev, 32)
             q == LE(in.pos, 4)
  <2>1. found_tin \in Tins /\ found_tin.txhash = p /\ found_tin.position = q
    BY <1>2
  <2>2. Record(in) = [txhash |-> p, position |-> q, pkh |-> hash160(in.key)]
    BY DEF Record
  <2> HIDE DEF found_tin, p, q
  <2>3. \A h : /\ [found_tin EXCEPT !.pkh = h] = [txhash |-> p, position |-> q, pkh |-> h]
               /\ [Record(in) EXCEPT !.pkh = h] = [txhash |-> p, position |-> q, pkh |-> h]
    BY <2>1, <2>2 DEF Tins
  <2>4. CASE in.script = <<>>
    <3>1. tin = [Input(offset).tin EXCEPT !.pkh = zeros]
      BY <1>2, <2>4
    <3>2. Waiting(in) = [Record(in) EXCEPT !.pkh = zeros]
      BY <2>4 DEF Waiting
    <3> QED BY <2>3, <3>1, <3>2 DEF found_tin
  <2>5. CASE in.script # <<>> /\ in.kind = "p2pkh"
    <3>1. tin = Input(offset).tin /\ Waiting(in) = Record(in)
      BY <1>2, <2>5 DEF Waiting
    <3> QED BY <1>2, <2>5, <3>1
  <2>6. CASE in.script # <<>> /\ in.kind # "p2pkh"
    <3>1. tin = [Input(offset).tin EXCEPT !.pkh = ones]
      BY <1>2, <2>6
    <3>2. Waiting(in) = [Record(in) EXCEPT !.pkh = ones]
      BY <2>6 DEF Waiting
    <3> QED BY <2>3, <3>1, <3>2 DEF found_tin
  <2> QED BY <2>4, <2>5, <2>6
<1>7. vin' = IF in.kind = "p2pkh" THEN Append(vin, Record(in)) ELSE vin
  BY <1>1, <1>2
<1>8. Ends(vin', before.vin, Spent(t, "p2pkh", j + 1))
  BY <1>2, <1>3, <1>4, <1>5, <1>7, SpentAddedFirst
<1>9. tin \in Tins
  <2>1. Record(in) \in Tins /\ zeros \in Hash /\ ones \in Hash
    BY <1>2, RecordType, EmptySeq DEF zeros, ones, Hash
  <2>2. Waiting(in) \in Tins
    BY <2>1 DEF Waiting, Tins
  <2> QED BY <1>6, <2>2
<1> HIDE DEF tin
<1>10. /\ Len(temp_segWitVin') = j + 1
       /\ \A k \in 1 .. j + 1 : temp_segWitVin'[k] = Waiting(t.ins[k])
  <2>1. /\ Len(temp_segWitVin') = Len(temp_segWitVin) + 1
        /\ \A k \in 1 .. Len(temp_segWitVin) : temp_segWitVin'[k] = temp_segWitVin[k]
        /\ temp_segWitVin'[Len(temp_segWitVin) + 1] = tin
    BY <1>1, <1>4, <1>9, AppendProperties
  <2>2. \A k \in 1 .. j + 1 : k = j + 1 \/ k \in 1 .. j
    BY <1>2
  <2> QED BY <1>1, <1>5, <1>6, <2>1, <2>2
<1> HIDE DEF in
<1> QED BY <1>1, <1>2, <1>5, <1>8, <1>10 DEF InLoop

(* The head of the outputs: the inputs that have their key in the script   *)
(* are found.                                                              *)
LEMMA InputsDoneParse ==
  ASSUME Kinds, Split, NEW t, t = block[i], InLoop(t), InputsDone
  PROVE  OutLoop(t)'
<1> DEFINE n == Len(t.ins)
<1>1. /\ phase = "vin" /\ j = count /\ j' = 0
      /\ offset' = getRealSizeFromCompactSize(offset).next
      /\ count' = getRealSizeFromCompactSize(offset).size
      /\ UNCHANGED <<block, i, listTxs, isSegWit, temp_segWitVin, vin, vout, before>>
  BY DEF InputsDone, received, found
<1>2. Reading /\ Hex = Serialized(t) /\ t \in Transactions /\ WellFormed(t)
      /\ listTxs[i].txhash \in Nat
  BY <1>1, Here DEF Parsing
<1>3. /\ (isSegWit <=> t.segwit) /\ j = n /\ offset = InPlace(t, n)
      /\ Ends(vin, before.vin, Spent(t, "p2pkh", n)) /\ Ends(vout, before.vout, <<>>)
      /\ t.segwit => /\ Len(temp_segWitVin) = n
                     /\ \A k \in 1 .. n : temp_segWitVin[k] = Waiting(t.ins[k])
  BY <1>1 DEF InLoop
<1>4. n \in Nat /\ Len(t.outs) \in Nat
  BY <1>2, PartsType
<1> HIDE DEF n
<1>5. offset' = OutPlace(t, 0) /\ count' = Len(t.outs)
  <2>1. offset = OutsSizeAt(t) /\ OutPlace(t, 0) = OutsAt(t)
    BY <1>2, <1>3, InPlaces, OutPlaces DEF n
  <2>2. OutsSizeAt(t) \in Nat /\ Has(Hex, OutsSizeAt(t), CompactSize(Len(t.outs)))
    BY <1>2, Places
  <2>3. Len(t.outs) <= MaxSize
    BY <1>2 DEF WellFormed
  <2>4. getRealSizeFromCompactSize(OutsSizeAt(t)) =
          [size |-> Len(t.outs), next |-> OutsSizeAt(t) + Len(CompactSize(Len(t.outs)))]
    BY <1>2, <1>4, <2>2, <2>3, ReadSize
  <2> QED BY <1>1, <2>1, <2>4 DEF OutsAt
<1>6. Ends(vin, before.vin, FoundIn(t, 0))
  <2>1. n \in 0 .. Len(t.ins) /\ 0 \in 0 .. Len(t.ins)
    BY <1>4 DEF n
  <2>2. Spent(t, "p2pkh", n) \in Seq(Tins) /\ Spent(t, "p2wpkh", 0) = <<>>
    BY <1>2, <2>1, SpentIs
  <2>3. FoundIn(t, 0) = Spent(t, "p2pkh", n)
    BY <2>2, ConcatEmptySeq DEF FoundIn, n
  <2> QED BY <1>3, <2>3
<1>7. Ends(vout, before.vout, Paid(t, 0, listTxs[i].txhash))
  <2>1. 0 \in 0 .. Len(t.outs)
    BY <1>4
  <2>2. Paid(t, 0, listTxs[i].txhash) = <<>>
    BY <1>2, <2>1, PaidIs
  <2> QED BY <1>3, <2>2
<1>8. \A q \in 0 .. 0 : q = 0
  OBVIOUS
<1>9. InsTo(t, 0)'
  BY <1>1, <1>6, <1>8 DEF InsTo, Ends
<1>10. OutsTo(t, 0)'
  BY <1>1, <1>7, <1>8 DEF OutsTo, Ends
<1> QED BY <1>1, <1>3, <1>5, <1>9, <1>10 DEF OutLoop, n

(* An output. *)
LEMMA GetTxOutputsParse ==
  ASSUME Kinds, Split, NEW t, t = block[i], OutLoop(t), getTxOutputs
  PROVE  OutLoop(t)'
<1> DEFINE out == t.outs[j + 1]
           h == listTxs[i].txhash
           e == Output(offset)
           o == offset + 8
           new == At(o) = 25 /\ At(o + 1) = 118
<1>1. /\ phase = "vout" /\ j < count /\ j' = j + 1
      /\ vout' = (IF new THEN Append(vout, e) ELSE vout)
      /\ offset' = o + 1 + At(o)
      /\ UNCHANGED <<block, i, listTxs, count, isSegWit, temp_segWitVin, vin, before>>
  BY DEF getTxOutputs, received
<1>2. Reading /\ Hex = Serialized(t) /\ t \in Transactions /\ WellFormed(t) /\ h \in Nat
  BY <1>1, Here DEF Parsing
<1>3. /\ (isSegWit <=> t.segwit) /\ count = Len(t.outs)
      /\ ReadableTo(t, j) => offset = OutPlace(t, j)
      /\ InsTo(t, 0) /\ OutsTo(t, j)
      /\ t.segwit => /\ Len(temp_segWitVin) = Len(t.ins)
                     /\ \A k \in 1 .. Len(t.ins) : temp_segWitVin[k] = Waiting(t.ins[k])
  BY DEF OutLoop
<1>4. /\ j \in Nat /\ offset \in Nat /\ vout \in Seq(Touts) /\ before.vout \in Nat
  BY DEF Kinds, CursorKinds, FoundKinds
<1>5. Len(t.outs) \in Nat /\ DOMAIN t.outs = 1 .. Len(t.outs)
  BY <1>2, PartsType
<1>6. j + 1 \in 1 .. Len(t.outs) /\ (j + 1) - 1 = j
  BY <1>1, <1>3, <1>4, <1>5
<1>7. e \in Touts
  BY <1>2, <1>4, OutputType
<1>8. e = [txhash |-> h, position |-> j, amount |-> Take(offset, 8),
           pkh |-> raw(Take(offset + 12, 20))]
  BY DEF Output
<1> HIDE DEF e, new, h
<1>9. ASSUME ReadableTo(t, j + 1)
       PROVE  /\ offset' = OutPlace(t, j + 1)
              /\ Ends(vout', before.vout, Paid(t, j + 1, h))
  <2>1. ReadableTo(t, j) /\ Readable(out)
    <3>1. \A k \in 1 .. j : k \in 1 .. j + 1
      BY <1>4
    <3>2. j + 1 \in 1 .. j + 1
      BY <1>4
    <3> QED BY <1>9, <3>1, <3>2 DEF ReadableTo
  <2>2. offset = OutPlace(t, j) /\ Ends(vout, before.vout, Paid(t, j, h))
    BY <1>3, <2>1 DEF OutsTo, h
  <2>3. out \in Outs /\ OutputKind(out)
    BY <1>2, <1>5, <1>6, PartsType DEF WellFormed
  <2>4. /\ Has(Serialized(t), OutPlace(t, (j + 1) - 1), OutputBytes(out))
        /\ OutPlace(t, j + 1) = OutPlace(t, (j + 1) - 1) + Len(OutputBytes(out))
    BY <1>2, <1>6, OutPlaces
  <2> HIDE DEF out
  <2>5. Has(Hex, offset, OutputBytes(out))
        /\ OutPlace(t, j + 1) = offset + Len(OutputBytes(out))
    BY <1>2, <1>6, <2>2, <2>4
  <2>6. /\ (offset + 8) + 1 + At(offset + 8) = offset + Len(OutputBytes(out))
        /\ At(offset + 8) = 25 /\ At((offset + 8) + 1) = 118 <=> out.kind = "p2pkh"
        /\ Take(offset, 8) = LE(out.amount, 8)
        /\ out.kind = "p2pkh" => Take(offset + 12, 20) = out.hash
    BY <1>2, <1>4, <2>1, <2>3, <2>5, OutputRead
  <2>7. vout' = IF out.kind = "p2pkh" THEN Append(vout, e) ELSE vout
    BY <1>1, <2>6 DEF new
  <2>8. OnePaid(t, j + 1, h) = IF out.kind = "p2pkh" THEN <<e>> ELSE <<>>
    BY <1>6, <1>8, <2>6 DEF OnePaid, out
  <2>9. Ends(vout, before.vout, Paid(t, (j + 1) - 1, h))
    BY <1>6, <2>2
  <2>10. Ends(vout', before.vout, Paid(t, j + 1, h))
    BY <1>2, <1>4, <1>6, <1>7, <2>7, <2>8, <2>9, PaidAdded DEF out
  <2> QED BY <1>1, <2>5, <2>6, <2>10
<1>10. ASSUME NEW q \in 0 .. j, ReadableTo(t, q)
       PROVE  Has(vout', before.vout, Paid(t, q, h))
  <2>1. Has(vout, before.vout, Paid(t, q, h))
    BY <1>3, <1>10 DEF OutsTo, h
  <2>2. Paid(t, q, h) \in Seq(Touts)
    <3>1. q \in 0 .. Len(t.outs)
      BY <1>4, <1>5, <1>6
    <3> QED BY <1>2, <3>1, PaidIs
  <2>3. Has(Append(vout, e), before.vout, Paid(t, q, h))
    BY <1>4, <1>7, <2>1, <2>2, HasAppended
  <2> QED BY <1>1, <2>1, <2>3
<1>11. OutsTo(t, j)'
  <2>1. \A q \in 0 .. j + 1 : q \in 0 .. j \/ q = j + 1
    BY <1>4
  <2>2. listTxs'[i'].txhash = h /\ before' = before
    BY <1>1 DEF h
  <2>3. \A q \in 0 .. j + 1 : ReadableTo(t, q) => Has(vout', before.vout, Paid(t, q, h))
    BY <1>9, <1>10, <2>1 DEF Ends
  <2>4. ReadableTo(t, j + 1) => Ends(vout', before.vout, Paid(t, j + 1, h))
    BY <1>9
  <2> QED BY <1>1, <2>2, <2>3, <2>4 DEF OutsTo
<1>12. InsTo(t, 0)'
  BY <1>1, <1>3 DEF InsTo
<1> QED BY <1>1, <1>3, <1>9, <1>11, <1>12 DEF OutLoop

(* There is no record of P2WPKH without witnesses. *)
LEMMA NoneWitnessed ==
  ASSUME NEW t \in Transactions, WellFormed(t), ~t.segwit, NEW m \in 0 .. Len(t.ins)
  PROVE  /\ Spent(t, "p2wpkh", m) = <<>> /\ HandledTo(t, m)
         /\ FoundIn(t, m) = FoundIn(t, 0)
<1> DEFINE p == [k \in 1 .. m |-> OneSpent(t.ins[k], "p2wpkh")]
<1>1. Len(t.ins) \in Nat /\ DOMAIN t.ins = 1 .. Len(t.ins)
  BY PartsType
<1>2. \A k \in 1 .. m : k \in DOMAIN t.ins
  BY <1>1
<1>3. \A k \in 1 .. m : t.ins[k].witness = <<>> /\ t.ins[k].kind # "p2wpkh"
  <2> TAKE k \in 1 .. m
  <2>1. InputKind(t.ins[k]) /\ t.ins[k].witness = <<>>
    BY <1>2 DEF WellFormed
  <2>2. t.ins[k].kind = "p2wpkh" => Len(t.ins[k].witness) = 2
    BY <2>1 DEF InputKind
  <2> QED BY <2>1, <2>2, EmptySeq
<1>4. \A k \in 1 .. m : OneSpent(t.ins[k], "p2wpkh") = <<>>
  BY <1>3 DEF OneSpent
<1>5. p \in Seq(Seq(Tins)) /\ Len(p) = m
  <2>1. <<>> \in Seq(Tins) /\ m \in Nat
    BY EmptySeq
  <2>2. p \in [1 .. m -> Seq(Tins)]
    BY <1>4, <2>1
  <2> QED BY <2>1, <2>2, FunctionIsSeq
<1>6. \A k \in 1 .. Len(p) : p[k] = <<>>
  BY <1>4, <1>5
<1>7. Spent(t, "p2wpkh", m) = FlattenSeq(p)
  BY DEF Spent
<1> HIDE DEF p
<1>8. FlattenSeq(p) = <<>>
  BY <1>5, <1>6, FlattenNothing
<1>9. HandledTo(t, m)
  BY <1>3 DEF HandledTo, Handled
<1>10. Spent(t, "p2wpkh", 0) = <<>>
  <2>1. 0 \in 0 .. Len(t.ins)
    BY <1>1
  <2> QED BY <2>1, SpentIs
<1> QED BY <1>7, <1>8, <1>9, <1>10 DEF FoundIn

(* Behind the outputs. *)
LEMMA OutputsDoneParse ==
  ASSUME Kinds, Split, NEW t, t = block[i], OutLoop(t), OutputsDone
  PROVE  /\ phase' \in {"witness", "end"}
         /\ phase' = "witness" => WitLoop(t)'
         /\ phase' = "end" => AtEnd(t)'
<1> DEFINE n == Len(t.ins)
           m == Len(t.outs)
<1>1. /\ phase = "vout" /\ j = count /\ j' = 0
      /\ phase' = IF isSegWit THEN "witness" ELSE "end"
      /\ UNCHANGED <<block, i, listTxs, offset, isSegWit, temp_segWitVin, vin, vout,
                     before>>
  BY DEF OutputsDone, received, found
<1>2. t \in Transactions /\ WellFormed(t)
  BY <1>1, Here DEF Parsing
<1>3. n \in Nat /\ m \in Nat
  BY <1>2, PartsType
<1>4. /\ (isSegWit <=> t.segwit)
      /\ ReadableTo(t, m) => offset = OutPlace(t, m)
      /\ InsTo(t, 0) /\ OutsTo(t, m)
      /\ t.segwit => /\ Len(temp_segWitVin) = n
                     /\ \A k \in 1 .. n : temp_segWitVin[k] = Waiting(t.ins[k])
  BY <1>1 DEF OutLoop
<1>5. OutPlace(t, m) = WitsAt(t)
  BY <1>2, OutPlaces
<1>6. CASE t.segwit
  <2>1. WitPlace(t, 0) = WitsAt(t)
    BY <1>2, <1>6, WitPlaces
  <2> HIDE DEF n, m
  <2>2. InsTo(t, 0)' /\ OutsTo(t, m)'
    BY <1>1, <1>4 DEF InsTo, OutsTo
  <2>3. \A k \in 0 + 1 .. n : k \in 1 .. n
    BY <1>3
  <2>4. phase' = "witness"
    BY <1>1, <1>4, <1>6
  <2>5. WitLoop(t)'
    BY <1>1, <1>4, <1>5, <1>6, <2>1, <2>2, <2>3 DEF WitLoop, n, m
  <2> QED BY <2>4, <2>5
<1>7. CASE ~t.segwit
  <2>1. EndAt(t) = WitsAt(t)
    <3>1. WitsAt(t) \in Nat
      BY <1>2, Places
    <3>2. Witnesses(t) = <<>>
      BY <1>7 DEF Witnesses
    <3> QED BY <3>1, <3>2, EmptySeq DEF EndAt
  <2>2. \A q \in 0 .. n : FoundIn(t, q) = FoundIn(t, 0)
    BY <1>2, <1>7, NoneWitnessed
  <2>3. Known(t, 0) /\ 0 \in 0 .. 0
    <3>1. HandledTo(t, 0)
      BY DEF HandledTo
    <3> QED BY <3>1 DEF Known
  <2>4. Has(vin, before.vin, FoundIn(t, 0)) /\ Ends(vin, before.vin, FoundIn(t, 0))
    BY <1>4, <2>3 DEF InsTo
  <2> HIDE DEF n, m
  <2>5. n \in 0 .. n
    BY <1>3
  <2>6. InsTo(t, n)' /\ OutsTo(t, m)'
    BY <1>1, <1>4, <2>2, <2>4, <2>5 DEF InsTo, OutsTo
  <2>7. phase' = "end"
    BY <1>1, <1>4, <1>7
  <2>8. AtEnd(t)'
    BY <1>1, <1>4, <1>5, <2>1, <2>6 DEF AtEnd, n, m
  <2> QED BY <2>7, <2>8
<1> QED BY <1>6, <1>7

(* What a witness may change, whatever is read. *)
LEMMA WitnessKeeps ==
  ASSUME Kinds, Split, getSegWitP2PKH
  PROVE  /\ \/ vin' = vin
            \/ \E e \in Tins : vin' = Append(vin, e)
         /\ Len(temp_segWitVin') = Len(temp_segWitVin)
         /\ \A k \in 1 .. Len(temp_segWitVin) :
              k # j + 1 => temp_segWitVin'[k] = temp_segWitVin[k]
<1> DEFINE stack == getRealSizeFromCompactSize(offset)
           key == Key(stack.next)
           tin == [temp_segWitVin[j + 1] EXCEPT !.pkh = key.pkh]
<1>1. phase = "witness" /\ j < count
  BY DEF getSegWitP2PKH
<1>2. Reading
  BY <1>1, Here DEF Parsing
<1>3. offset \in Nat /\ j + 1 \in 1 .. Len(temp_segWitVin) /\ temp_segWitVin \in Seq(Tins)
  BY <1>1 DEF Kinds, CursorKinds, FoundKinds
<1>4. \/ UNCHANGED found
      \/ /\ temp_segWitVin' = [temp_segWitVin EXCEPT ![j + 1] = tin]
         /\ vin' = IF key.pkh = zeros THEN vin ELSE Append(vin, tin)
  BY DEF getSegWitP2PKH
<1>5. key.pkh \in Hash
  <2>1. stack.next \in Nat
    BY <1>2, <1>3, RealSizeType
  <2> HIDE DEF stack
  <2> QED BY <1>2, <2>1, KeyType
<1>6. tin \in Tins
  <2>1. temp_segWitVin[j + 1] \in Tins
    BY <1>3, ElementOfSeq
  <2> HIDE DEF key
  <2> QED BY <1>5, <2>1 DEF Tins
<1> HIDE DEF tin, key
<1>7. CASE UNCHANGED found
  BY <1>7 DEF found
<1>8. CASE /\ temp_segWitVin' = [temp_segWitVin EXCEPT ![j + 1] = tin]
           /\ vin' = IF key.pkh = zeros THEN vin ELSE Append(vin, tin)
  <2>1. Len(temp_segWitVin') = Len(temp_segWitVin)
    BY <1>3, <1>6, <1>8, ExceptSeq
  <2>2. \A k \in 1 .. Len(temp_segWitVin) :
          k # j + 1 => temp_segWitVin'[k] = temp_segWitVin[k]
    BY <1>3, <1>8, LenProperties
  <2> QED BY <1>6, <1>8, <2>1, <2>2
<1> QED BY <1>4, <1>7, <1>8

(* A witness that can be read. *)
LEMMA GetSegWitP2PKHReads ==
  ASSUME Kinds, Split, NEW t, t = block[i], t.segwit, j + 1 \in 1 .. Len(t.ins),
         offset = WitPlace(t, j), temp_segWitVin[j + 1] = Waiting(t.ins[j + 1]),
         Handled(t.ins[j + 1]), getSegWitP2PKH
  PROVE  /\ offset' = WitPlace(t, j + 1)
         /\ vin' = IF t.ins[j + 1].kind = "p2wpkh"
                   THEN Append(vin, Record(t.ins[j + 1])) ELSE vin
<1> DEFINE in == t.ins[j + 1]
           stack == getRealSizeFromCompactSize(offset)
           key == Key(stack.next)
           tin == [temp_segWitVin[j + 1] EXCEPT !.pkh = key.pkh]
<1>1. phase = "witness"
  BY DEF getSegWitP2PKH
<1>2. Reading /\ Hex = Serialized(t) /\ t \in Transactions /\ WellFormed(t)
  BY <1>1, Here DEF Parsing
<1>3. j \in Nat /\ offset \in Nat /\ (j + 1) - 1 = j
  BY DEF Kinds, CursorKinds
<1>4. in \in Ins /\ InputKind(in)
  BY <1>2, PartsType DEF WellFormed
<1>5. /\ Has(Serialized(t), WitPlace(t, (j + 1) - 1), WitnessBytes(in))
      /\ WitPlace(t, j + 1) = WitPlace(t, (j + 1) - 1) + Len(WitnessBytes(in))
  BY <1>2, WitPlaces
<1>6. Has(Hex, offset, WitnessBytes(in)) /\ WitPlace(t, j + 1) = offset + Len(WitnessBytes(in))
  BY <1>2, <1>3, <1>5
<1>7. \/ stack.size = 0 /\ offset' = stack.next /\ UNCHANGED found
      \/ /\ stack.size = 2 /\ temp_segWitVin[j + 1].pkh = zeros
         /\ offset' = key.next
         /\ vin' = IF key.pkh = zeros THEN vin ELSE Append(vin, tin)
      \/ stack.size > 0 /\ ~(stack.size = 2 /\ temp_segWitVin[j + 1].pkh = zeros)
  BY DEF getSegWitP2PKH
<1>8. temp_segWitVin[j + 1] = Waiting(in) /\ Handled(in)
  OBVIOUS
<1> HIDE DEF in
<1>9. CASE in.witness = <<>>
  <2>1. stack = [size |-> 0, next |-> offset + Len(WitnessBytes(in))]
    BY <1>2, <1>3, <1>4, <1>6, <1>9, NoWitnessRead
  <2>2. in.kind # "p2wpkh"
    BY <1>4, <1>9, EmptySeq DEF InputKind
  <2> HIDE DEF stack, key, tin
  <2>3. stack.size = 0 /\ stack.next = offset + Len(WitnessBytes(in))
    BY <2>1
  <2>4. offset' = stack.next /\ UNCHANGED found
    BY <1>7, <2>3
  <2> QED BY <1>6, <2>2, <2>3, <2>4 DEF found, in
<1>10. CASE in.script = <<>> /\ Len(in.witness) = 2 /\ Len(in.witness[2]) = 33
  <2>1. in.kind = "p2wpkh" /\ Len(in.key) = 33
    <3>1. in.kind # "p2pkh"
      BY <1>4, <1>10 DEF InputKind, SignatureAndKey
    <3>2. in.kind # "other"
      BY <1>4, <1>10 DEF InputKind, IsP2WPKH
    <3>3. in.kind = "p2wpkh"
      BY <1>4, <3>1, <3>2 DEF Ins
    <3> QED BY <1>4, <1>10, <3>3 DEF InputKind
  <2>2. /\ stack = [size |-> 2, next |-> offset + 1]
        /\ Key(offset + 1) =
             [pkh |-> hash160(in.key), next |-> offset + Len(WitnessBytes(in))]
    BY <1>2, <1>3, <1>4, <1>6, <2>1, KeyRead
  <2>3. stack.size = 2 /\ stack.next = offset + 1
    BY <2>2
  <2>4. key.pkh = hash160(in.key) /\ key.next = offset + Len(WitnessBytes(in))
    BY <2>2, <2>3
  <2>5. temp_segWitVin[j + 1] = [Record(in) EXCEPT !.pkh = zeros]
    BY <1>8, <1>10 DEF Waiting
  <2>6. temp_segWitVin[j + 1].pkh = zeros
    BY <2>5 DEF Record
  <2>7. tin = Record(in)
    <3> DEFINE p == Rep(in.prev, 32)
               q == LE(in.pos, 4)
               h == hash160(in.key)
    <3>1. Record(in) = [txhash |-> p, position |-> q, pkh |-> h]
      BY DEF Record
    <3>2. tin = [temp_segWitVin[j + 1] EXCEPT !.pkh = h]
      BY <2>4
    <3> HIDE DEF p, q, h, tin, key
    <3>3. temp_segWitVin[j + 1] = [txhash |-> p, position |-> q, pkh |-> zeros]
      BY <2>5, <3>1
    <3> QED BY <3>1, <3>2, <3>3
  <2>8. hash160(in.key) # zeros
    BY DEF hash160, zeros
  <2> HIDE DEF stack, key, tin
  <2>9. offset' = key.next /\ vin' = IF key.pkh = zeros THEN vin ELSE Append(vin, tin)
    BY <1>7, <2>3, <2>6
  <2> QED BY <1>6, <2>1, <2>4, <2>7, <2>8, <2>9 DEF in
<1> QED BY <1>8, <1>9, <1>10 DEF Handled

(* One more witness is looked at.                                          *)
LEMMA FoundAdded ==
  ASSUME NEW t \in Transactions, NEW m \in Nat, m + 1 \in 1 .. Len(t.ins),
         NEW s \in Seq(Tins), NEW o \in Nat, NEW u,
         Ends(s, o, FoundIn(t, m)),
         u = IF t.ins[m + 1].kind = "p2wpkh" THEN Append(s, Record(t.ins[m + 1])) ELSE s
  PROVE  Ends(u, o, FoundIn(t, m + 1))
<1> DEFINE p == Spent(t, "p2pkh", Len(t.ins))
<1>1. Len(t.ins) \in Nat /\ Len(t.ins) \in 0 .. Len(t.ins) /\ (m + 1) - 1 = m
  BY PartsType
<1>2. p \in Seq(Tins)
  BY <1>1, SpentIs
<1>3. Ends(s, o, p \o Spent(t, "p2wpkh", (m + 1) - 1))
  BY <1>1 DEF FoundIn
<1> HIDE DEF p
<1>4. Ends(u, o, p \o Spent(t, "p2wpkh", m + 1))
  BY <1>2, <1>3, SpentAdded
<1> QED BY <1>4 DEF FoundIn, p

(* What is found is a list of inputs. *)
LEMMA FoundInType ==
  ASSUME NEW t \in Transactions, NEW m \in 0 .. Len(t.ins)
  PROVE  FoundIn(t, m) \in Seq(Tins)
<1>1. Len(t.ins) \in 0 .. Len(t.ins)
  BY PartsType
<1>2. Spent(t, "p2pkh", Len(t.ins)) \in Seq(Tins) /\ Spent(t, "p2wpkh", m) \in Seq(Tins)
  BY <1>1, SpentIs
<1> QED BY <1>2, ConcatProperties DEF FoundIn

(* A witness.  If it can not be read, or something before it could not,    *)
(* what was found till then stays all the same.                            *)
LEMMA GetSegWitP2PKHParse ==
  ASSUME Kinds, Split, NEW t, t = block[i], WitLoop(t), getSegWitP2PKH
  PROVE  WitLoop(t)'
<1> DEFINE n == Len(t.ins)
           m == Len(t.outs)
<1>1. /\ phase = "witness" /\ j < count /\ j' = j + 1
      /\ UNCHANGED <<block, i, listTxs, count, isSegWit, vout, before>>
  BY DEF getSegWitP2PKH, received, found
<1>2. t \in Transactions
  BY <1>1, Here DEF Parsing
<1>3. /\ t.segwit /\ Len(temp_segWitVin) = n
      /\ ReadableTo(t, m) /\ HandledTo(t, j) => offset = WitPlace(t, j)
      /\ InsTo(t, j) /\ OutsTo(t, m)
      /\ \A k \in j + 1 .. n : temp_segWitVin[k] = Waiting(t.ins[k])
  BY DEF WitLoop
<1>4. /\ j \in Nat /\ vin \in Seq(Tins) /\ before.vin \in Nat /\ count = n
      /\ n \in Nat /\ m \in Nat
  BY <1>1, <1>2, <1>3, PartsType DEF Kinds, CursorKinds, FoundKinds
<1>5. j + 1 \in 1 .. n /\ j + 1 \in j + 1 .. n
  BY <1>1, <1>4
<1>6. /\ vin' = vin \/ \E e \in Tins : vin' = Append(vin, e)
      /\ Len(temp_segWitVin') = n
      /\ \A k \in 1 .. n : k # j + 1 => temp_segWitVin'[k] = temp_segWitVin[k]
  BY <1>3, WitnessKeeps
<1>7. ASSUME ReadableTo(t, m), HandledTo(t, j + 1)
      PROVE  /\ offset' = WitPlace(t, j + 1)
             /\ vin' = IF t.ins[j + 1].kind = "p2wpkh"
                       THEN Append(vin, Record(t.ins[j + 1])) ELSE vin
  <2>1. HandledTo(t, j) /\ Handled(t.ins[j + 1])
    <3>1. j + 1 \in 1 .. j + 1 /\ \A k \in 1 .. j : k \in 1 .. j + 1
      BY <1>4
    <3> QED BY <1>7, <3>1 DEF HandledTo
  <2>2. offset = WitPlace(t, j) /\ temp_segWitVin[j + 1] = Waiting(t.ins[j + 1])
    BY <1>3, <1>5, <1>7, <2>1
  <2>3. j + 1 \in 1 .. Len(t.ins)
    BY <1>5
  <2> QED BY <1>3, <2>1, <2>2, <2>3, GetSegWitP2PKHReads
<1>8. ASSUME Known(t, j + 1)
      PROVE  Ends(vin', before.vin, FoundIn(t, j + 1))
  <2>1. ReadableTo(t, m) /\ HandledTo(t, j + 1)
    BY <1>4, <1>8 DEF Known
  <2>2. Known(t, j)
    <3>1. \A k \in 1 .. j : k \in 1 .. j + 1
      BY <1>4
    <3> QED BY <2>1, <3>1 DEF Known, HandledTo
  <2>3. Ends(vin, before.vin, FoundIn(t, j))
    BY <1>3, <2>2 DEF InsTo
  <2>4. vin' = IF t.ins[j + 1].kind = "p2wpkh"
               THEN Append(vin, Record(t.ins[j + 1])) ELSE vin
    BY <1>7, <2>1
  <2> QED BY <1>2, <1>4, <1>5, <2>3, <2>4, FoundAdded
<1> HIDE DEF n, m
<1>9. ASSUME NEW q \in 0 .. j, Known(t, q)
      PROVE  Has(vin', before.vin, FoundIn(t, q))
  <2>1. Has(vin, before.vin, FoundIn(t, q))
    BY <1>3, <1>9 DEF InsTo
  <2>2. FoundIn(t, q) \in Seq(Tins)
    <3>1. q \in 0 .. Len(t.ins)
      BY <1>4, <1>5 DEF n
    <3> QED BY <1>2, <3>1, FoundInType
  <2>3. \A e \in Tins : Has(Append(vin, e), before.vin, FoundIn(t, q))
    BY <1>4, <2>1, <2>2, HasAppended
  <2> QED BY <1>6, <2>1, <2>3
<1>10. InsTo(t, j)'
  <2>1. \A q \in 0 .. j + 1 : q \in 0 .. j \/ q = j + 1
    BY <1>4
  <2>2. \A q \in 0 .. j + 1 : Known(t, q) => Has(vin', before.vin, FoundIn(t, q))
    BY <1>8, <1>9, <2>1 DEF Ends
  <2>3. Known(t, j + 1) => Ends(vin', before.vin, FoundIn(t, j + 1))
    BY <1>8
  <2> QED BY <1>1, <2>2, <2>3 DEF InsTo
<1>11. OutsTo(t, m)'
  BY <1>1, <1>3 DEF OutsTo
<1>12. \A k \in (j + 1) + 1 .. n : temp_segWitVin'[k] = Waiting(t.ins[k])
  <2>1. \A k \in (j + 1) + 1 .. n : k \in 1 .. n /\ k # j + 1 /\ k \in j + 1 .. n
    BY <1>4
  <2> QED BY <1>3, <1>6, <2>1
<1> QED BY <1>1, <1>3, <1>6, <1>7, <1>10, <1>11, <1>12 DEF WitLoop, n, m

(* Behind the witnesses.                                                   *)
LEMMA WitnessesDoneParse ==
  ASSUME Kinds, Split, NEW t, t = block[i], WitLoop(t), WitnessesDone
  PROVE  AtEnd(t)'
<1>1. /\ phase = "witness" /\ j = count
      /\ UNCHANGED <<block, i, listTxs, offset, vin, vout, before>>
  BY DEF WitnessesDone, received
<1>2. t \in Transactions
  BY <1>1, Here DEF Parsing
<1>3. /\ t.segwit /\ Len(temp_segWitVin) = Len(t.ins)
      /\ ReadableTo(t, Len(t.outs)) /\ HandledTo(t, j) => offset = WitPlace(t, j)
      /\ InsTo(t, j) /\ OutsTo(t, Len(t.outs))
  BY DEF WitLoop
<1>4. j = Len(t.ins)
  BY <1>1, <1>3 DEF Kinds, FoundKinds
<1>5. WitPlace(t, Len(t.ins)) = EndAt(t)
  BY <1>2, <1>3, WitPlaces
<1>6. InsTo(t, Len(t.ins))' /\ OutsTo(t, Len(t.outs))'
  BY <1>1, <1>3, <1>4 DEF InsTo, OutsTo
<1> QED BY <1>1, <1>3, <1>4, <1>5, <1>6 DEF AtEnd

(* At first nothing is read. *)
LEMMA InitParse == Init => Parse
BY DEF Init, Parse, Parsing

(* Every step. *)
LEMMA StepParse ==
  ASSUME Kinds, Split, Parse, [Next]_vars
  PROVE  Parse'
<1>1. CASE sendRawTxList \/ verifyBlock \/ verifyMerkleRoot \/ BlockVerified \/ NextTx
  <2>1. phase' \in {"split", "merkle", "tx"}
    BY <1>1 DEF sendRawTxList, verifyBlock, verifyMerkleRoot, BlockVerified, NextTx
  <2> QED BY <2>1 DEF Parse, Parsing
<1>2. CASE UNCHANGED vars
  BY <1>2 DEF vars, Parse, InLoop, OutLoop, WitLoop, AtEnd, InsTo, OutsTo
<1>3. ASSUME reducer \/ getTxInputs \/ getSegWitTxInputs \/ InputsDone
             \/ getTxOutputs \/ OutputsDone \/ getSegWitP2PKH \/ WitnessesDone
      PROVE  Parse'
  <2>1. block' = block /\ i' = i
    BY <1>3 DEF reducer, getTxInputs, getSegWitTxInputs, InputsDone, getTxOutputs,
                OutputsDone, getSegWitP2PKH, WitnessesDone, received
  <2>2. PICK u : u = block[i]
    OBVIOUS
  <2>3. block'[i'] = u
    BY <2>1, <2>2
  <2>4. /\ phase = "vin" => InLoop(u)
        /\ phase = "vout" => OutLoop(u)
        /\ phase = "witness" => WitLoop(u)
    BY <2>2 DEF Parse, Parsing
  <2>5. /\ phase' = "vin" => InLoop(u)'
        /\ phase' = "vout" => OutLoop(u)'
        /\ phase' = "witness" => WitLoop(u)'
        /\ phase' = "end" => AtEnd(u)'
    <3>1. CASE reducer
      <4>1. InLoop(u)' /\ phase' = "vin"
        BY <2>2, <3>1, ReducerParse DEF reducer
      <4> QED BY <4>1
    <3>2. CASE getTxInputs
      <4>1. phase = "vin" /\ phase' = "vin"
        BY <3>2 DEF getTxInputs
      <4>2. InLoop(u)'
        BY <2>2, <2>4, <3>2, <4>1, GetTxInputsParse
      <4> QED BY <4>1, <4>2
    <3>3. CASE getSegWitTxInputs
      <4>1. phase = "vin" /\ phase' = "vin"
        BY <3>3 DEF getSegWitTxInputs
      <4>2. InLoop(u)'
        BY <2>2, <2>4, <3>3, <4>1, GetSegWitTxInputsParse
      <4> QED BY <4>1, <4>2
    <3>4. CASE InputsDone
      <4>1. phase = "vin" /\ phase' = "vout"
        BY <3>4 DEF InputsDone
      <4>2. OutLoop(u)'
        BY <2>2, <2>4, <3>4, <4>1, InputsDoneParse
      <4> QED BY <4>1, <4>2
    <3>5. CASE getTxOutputs
      <4>1. phase = "vout" /\ phase' = "vout"
        BY <3>5 DEF getTxOutputs
      <4>2. OutLoop(u)'
        BY <2>2, <2>4, <3>5, <4>1, GetTxOutputsParse
      <4> QED BY <4>1, <4>2
    <3>6. CASE OutputsDone
      <4>1. phase = "vout"
        BY <3>6 DEF OutputsDone
      <4>2. /\ phase' \in {"witness", "end"}
            /\ phase' = "witness" => WitLoop(u)'
            /\ phase' = "end" => AtEnd(u)'
        BY <2>2, <2>4, <3>6, <4>1, OutputsDoneParse
      <4> QED BY <4>2
    <3>7. CASE getSegWitP2PKH
      <4>1. phase = "witness" /\ phase' = "witness"
        BY <3>7 DEF getSegWitP2PKH
      <4>2. WitLoop(u)'
        BY <2>2, <2>4, <3>7, <4>1, GetSegWitP2PKHParse
      <4> QED BY <4>1, <4>2
    <3>8. CASE WitnessesDone
      <4>1. phase = "witness" /\ phase' = "end"
        BY <3>8 DEF WitnessesDone
      <4>2. AtEnd(u)'
        BY <2>2, <2>4, <3>8, <4>1, WitnessesDoneParse
      <4> QED BY <4>1, <4>2
    <3> QED BY <1>3, <3>1, <3>2, <3>3, <3>4, <3>5, <3>6, <3>7, <3>8
  <2> QED BY <2>3, <2>5 DEF Parse
<1> QED BY <1>1, <1>2, <1>3 DEF Next

-----------------------------------------------------------------------------
(* In terms of the properties. *)

(* What is in front of the first place of I, if there is one. *)
HeadBefore(s, I) == IF I = {} THEN s ELSE SubSeq(s, 1, Min(I) - 1)

(* It is an initial part of s that has no place in I, and all of s if I is empty. *)
LEMMA HeadIs ==
  ASSUME NEW S, NEW s \in Seq(S), NEW I \in SUBSET (1 .. Len(s))
  PROVE  \E h \in 0 .. Len(s) :
           /\ Len(HeadBefore(s, I)) = h /\ DOMAIN HeadBefore(s, I) = 1 .. h
           /\ \A k \in 1 .. h : HeadBefore(s, I)[k] = s[k] /\ k \notin I
           /\ I = {} => h = Len(s)
<1> DEFINE b == HeadBefore(s, I)
           u == Min(I)
<1>1. Len(s) \in Nat /\ DOMAIN s = 1 .. Len(s)
  BY LenProperties, Zenon
<1>2. CASE I = {}
  <2>1. b = s
    BY <1>2 DEF HeadBefore
  <2>2. Len(s) \in 0 .. Len(s)
    BY <1>1
  <2> QED BY <1>1, <1>2, <2>1, <2>2
<1>3. CASE I # {}
  <2>1. u \in I /\ \A k \in I : u <= k
    <3>1. I \in SUBSET Nat
      BY <1>1
    <3>2. \E k \in I : \A p \in I : k <= p
      BY <1>3, <3>1, LeastElement
    <3> QED BY <3>2 DEF Min
  <2>2. b = SubSeq(s, 1, u - 1)
    BY <1>3 DEF HeadBefore
  <2> HIDE DEF b, u
  <2>3. u \in 1 .. Len(s) /\ u - 1 \in 0 .. Len(s) /\ u # 0
    BY <1>1, <2>1
  <2>4. b = Restrict(s, 1 .. u - 1)
    BY <2>2, <2>3, SubSeqRestrict
  <2>5. DOMAIN b = 1 .. u - 1 /\ \A k \in 1 .. u - 1 : b[k] = s[k]
    BY <2>4 DEF Restrict
  <2>6. Len(b) = u - 1
    <3>1. b = [k \in 1 .. u - 1 |-> b[k]] /\ u - 1 \in Nat
      BY <2>3, <2>4 DEF Restrict
    <3> QED BY <3>1, FunctionLen
  <2>7. \A k \in 1 .. u - 1 : k \notin I
    BY <2>1, <2>3
  <2>8. Len(b) = u - 1 /\ DOMAIN b = 1 .. u - 1
        /\ \A k \in 1 .. u - 1 : b[k] = s[k] /\ k \notin I
    BY <2>5, <2>6, <2>7
  <2> DEFINE h == u - 1
  <2>9. h \in 0 .. Len(s)
    BY <2>3
  <2> HIDE DEF h
  <2>10. Len(b) = h /\ DOMAIN b = 1 .. h /\ \A k \in 1 .. h : b[k] = s[k] /\ k \notin I
    BY <2>8 DEF h
  <2>11. I = {} => h = Len(s)
    BY <1>3
  <2>12. \E m \in 0 .. Len(s) :
           /\ Len(b) = m /\ DOMAIN b = 1 .. m
           /\ \A k \in 1 .. m : b[k] = s[k] /\ k \notin I
           /\ I = {} => m = Len(s)
    <3> WITNESS h \in 0 .. Len(s)
    <3> QED BY <2>10, <2>11
  <2> QED BY <2>12 DEF b
<1> QED BY <1>2, <1>3

(* The outputs before the first that the parse misreads. *)
LEMMA OutputsBefore ==
  ASSUME NEW t \in Transactions
  PROVE  \E h \in 0 .. Len(t.outs) :
           /\ DOMAIN Before(t.outs, Readable) = 1 .. h
           /\ ReadableTo(t, h)
           /\ Plain(t) <=> h = Len(t.outs)
<1> DEFINE s == t.outs
           I == { k \in 1 .. Len(s) : ~Readable(s[k]) }
           b == Before(s, Readable)
<1>1. s \in Seq(Outs) /\ Len(s) \in Nat
  BY LenProperties DEF Transactions
<1>2. b = HeadBefore(s, I)
  <2>1. I # {} => Min(I) # 0
    <3>1. I \in SUBSET Nat /\ 0 \notin I
      BY <1>1
    <3>2. I # {} => Min(I) \in I
      <4>1. I # {} => \E k \in I : \A p \in I : k <= p
        BY <3>1, LeastElement
      <4> QED BY <4>1 DEF Min
    <3> QED BY <3>1, <3>2
  <2> QED BY <2>1 DEF Before, UpTo, SelectInSeq, HeadBefore
<1>4. \A k \in 1 .. Len(s) : k \in I <=> ~Readable(s[k])
  OBVIOUS
<1>5. I \in SUBSET (1 .. Len(s)) /\ (Plain(t) <=> b = s)
  BY DEF Plain
<1> HIDE DEF I, b, s
<1>6. PICK h \in 0 .. Len(s) :
        /\ Len(b) = h /\ DOMAIN b = 1 .. h
        /\ \A k \in 1 .. h : b[k] = s[k] /\ k \notin I
        /\ I = {} => h = Len(s)
  BY <1>1, <1>2, <1>5, HeadIs
<1>7. ReadableTo(t, h)
  <2>1. \A k \in 1 .. h : k \in 1 .. Len(s)
    BY <1>1
  <2> QED BY <1>4, <1>6, <2>1 DEF ReadableTo, s
<1>8. h = Len(s) => b = s
  <2> SUFFICES ASSUME h = Len(s) PROVE b = s
    OBVIOUS
  <2>1. I = {}
    BY <1>5, <1>6
  <2> QED BY <1>2, <2>1 DEF HeadBefore
<1>9. b = s => h = Len(s)
  BY <1>6
<1> QED BY <1>5, <1>6, <1>7, <1>8, <1>9 DEF s, b

(* The inputs before the first whose witness the parse misreads. *)
LEMMA InputsBefore ==
  ASSUME NEW t \in Transactions
  PROVE  \E h \in 0 .. Len(t.ins) :
           /\ DOMAIN Before(t.ins, Handled) = 1 .. h
           /\ \A k \in 1 .. h : Before(t.ins, Handled)[k] = t.ins[k]
           /\ HandledTo(t, h)
           /\ Before(t.ins, Handled) = t.ins <=> h = Len(t.ins)
<1> DEFINE s == t.ins
           I == { k \in 1 .. Len(s) : ~Handled(s[k]) }
           b == Before(s, Handled)
<1>1. s \in Seq(Ins) /\ Len(s) \in Nat
  BY LenProperties DEF Transactions
<1>2. b = HeadBefore(s, I)
  <2>1. I # {} => Min(I) # 0
    <3>1. I \in SUBSET Nat /\ 0 \notin I
      BY <1>1
    <3>2. I # {} => Min(I) \in I
      <4>1. I # {} => \E k \in I : \A p \in I : k <= p
        BY <3>1, LeastElement
      <4> QED BY <4>1 DEF Min
    <3> QED BY <3>1, <3>2
  <2> QED BY <2>1 DEF Before, UpTo, SelectInSeq, HeadBefore
<1>4. \A k \in 1 .. Len(s) : k \in I <=> ~Handled(s[k])
  OBVIOUS
<1>5. I \in SUBSET (1 .. Len(s))
  OBVIOUS
<1> HIDE DEF I, b, s
<1>6. PICK h \in 0 .. Len(s) :
        /\ Len(b) = h /\ DOMAIN b = 1 .. h
        /\ \A k \in 1 .. h : b[k] = s[k] /\ k \notin I
        /\ I = {} => h = Len(s)
  BY <1>1, <1>2, <1>5, HeadIs
<1>7. HandledTo(t, h)
  <2>1. \A k \in 1 .. h : k \in 1 .. Len(s)
    BY <1>1
  <2> QED BY <1>4, <1>6, <2>1 DEF HandledTo, s
<1>8. h = Len(s) => b = s
  <2> SUFFICES ASSUME h = Len(s) PROVE b = s
    OBVIOUS
  <2>1. I = {}
    BY <1>5, <1>6
  <2> QED BY <1>2, <2>1 DEF HeadBefore
<1>9. b = s => h = Len(s)
  BY <1>6
<1> QED BY <1>6, <1>7, <1>8, <1>9 DEF s, b

(* At the end of a transaction. *)
LEMMA EndHere ==
  ASSUME Kinds, Split, Parse, phase = "end", NEW t, t = block[i]
  PROVE  /\ t \in Transactions /\ WellFormed(t) /\ AtEnd(t)
         /\ listTxs[i].hex = Serialized(t) /\ listTxs[i].txhash \in Nat
         /\ vin \in Seq(Tins) /\ vout \in Seq(Touts)
         /\ before.vin \in Nat /\ before.vout \in Nat
<1>1. Len(block) \in Nat /\ Len(listTxs) = Len(block) /\ i \in 2 .. Len(block)
  BY BlockType DEF Kinds, BufferKinds, CursorKinds
<1>2. i \in 1 .. Len(block) /\ i > 1
  BY <1>1
<1>3. t \in Transactions /\ WellFormed(t)
  BY <1>2, BlockType DEF Kinds, BufferKinds
<1>4. listTxs[i] \in Txs /\ i \in DOMAIN listTxs
  BY <1>1, <1>2, ElementOfSeq, LenProperties DEF Kinds, BufferKinds
<1>5. AtEnd(t)
  BY DEF Parse
<1> QED BY <1>3, <1>4, <1>5 DEF Kinds, FoundKinds, Split, SplitExact, Txs

(* So the outputs are exact. *)
LEMMA ParseOutputs == Kinds /\ Split /\ Parse => OutputsExact
<1> SUFFICES ASSUME Kinds, Split, Parse, phase = "end", NEW t, t = block[i]
             PROVE  LET got == SubSeq(vout, before.vout + 1, Len(vout))
                        expected ==
                          FlattenSeq([k \in DOMAIN Before(t.outs, Readable) |->
                                        OnePaid(t, k, listTxs[i].txhash)])
                    IN  IsPrefix(expected, got) /\ (Plain(t) => got = expected)
  BY DEF OutputsExact, OnePaid
<1> DEFINE txhash == listTxs[i].txhash
<1>1. /\ t \in Transactions /\ AtEnd(t) /\ txhash \in Nat
      /\ vout \in Seq(Touts) /\ before.vout \in Nat
  BY EndHere
<1>2. PICK h \in 0 .. Len(t.outs) :
        /\ DOMAIN Before(t.outs, Readable) = 1 .. h
        /\ ReadableTo(t, h)
        /\ Plain(t) <=> h = Len(t.outs)
  BY <1>1, OutputsBefore
<1>3. FlattenSeq([k \in DOMAIN Before(t.outs, Readable) |-> OnePaid(t, k, txhash)])
        = Paid(t, h, txhash)
  BY <1>2 DEF Paid
<1>4. /\ Has(vout, before.vout, Paid(t, h, txhash))
      /\ h = Len(t.outs) => Ends(vout, before.vout, Paid(t, h, txhash))
  BY <1>1, <1>2 DEF AtEnd, OutsTo
<1>5. Paid(t, h, txhash) \in Seq(Touts)
  BY <1>1, PaidIs
<1> HIDE DEF txhash
<1>6. /\ IsPrefix(Paid(t, h, txhash), SubSeq(vout, before.vout + 1, Len(vout)))
      /\ Ends(vout, before.vout, Paid(t, h, txhash)) =>
           SubSeq(vout, before.vout + 1, Len(vout)) = Paid(t, h, txhash)
  BY <1>1, <1>4, <1>5, TailHas
<1> QED BY <1>2, <1>3, <1>4, <1>6 DEF txhash

(* The inputs of a kind, as they are expected. *)
LEMMA SpendingIs ==
  ASSUME NEW t \in Transactions, NEW h \in 0 .. Len(t.ins), NEW s, NEW kind,
         DOMAIN s = 1 .. h, \A k \in 1 .. h : s[k] = t.ins[k]
  PROVE  Spending(s, kind) = Spent(t, kind, h)
<1>1. \A in : (IF in.kind = kind THEN <<Record(in)>> ELSE <<>>) = OneSpent(in, kind)
  BY DEF OneSpent
<1>2. Spending(s, kind) = FlattenSeq([k \in DOMAIN s |-> OneSpent(s[k], kind)])
  BY <1>1 DEF Spending, Each
<1>3. [k \in DOMAIN s |-> OneSpent(s[k], kind)] = [k \in 1 .. h |-> OneSpent(t.ins[k], kind)]
  OBVIOUS
<1> QED BY <1>2, <1>3 DEF Spent

(* And the inputs. *)
LEMMA ParseInputs == Kinds /\ Split /\ Parse => InputsExact
<1> SUFFICES ASSUME Kinds, Split, Parse, phase = "end", NEW t, t = block[i]
             PROVE  LET got == SubSeq(vin, before.vin + 1, Len(vin))
                        witnessed == IF Plain(t) THEN Before(t.ins, Handled) ELSE <<>>
                        expected == Spending(t.ins, "p2pkh") \o Spending(witnessed, "p2wpkh")
                    IN  IsPrefix(expected, got) /\ (Tidy(t) => got = expected)
  BY DEF InputsExact
<1> DEFINE n == Len(t.ins)
           got == SubSeq(vin, before.vin + 1, Len(vin))
           witnessed == IF Plain(t) THEN Before(t.ins, Handled) ELSE <<>>
           expected == Spending(t.ins, "p2pkh") \o Spending(witnessed, "p2wpkh")
<1>1. /\ t \in Transactions /\ WellFormed(t) /\ AtEnd(t)
      /\ vin \in Seq(Tins) /\ before.vin \in Nat
  BY EndHere
<1>2. n \in Nat /\ DOMAIN t.ins = 1 .. n
  BY <1>1, PartsType
<1>3. PICK g \in 0 .. Len(t.outs) : ReadableTo(t, g) /\ (Plain(t) <=> g = Len(t.outs))
  BY <1>1, OutputsBefore
<1>4. PICK h \in 0 .. n :
        /\ DOMAIN Before(t.ins, Handled) = 1 .. h
        /\ \A k \in 1 .. h : Before(t.ins, Handled)[k] = t.ins[k]
        /\ HandledTo(t, h)
        /\ Before(t.ins, Handled) = t.ins <=> h = n
  BY <1>1, InputsBefore
<1>5. Plain(t) => ReadableTo(t, Len(t.outs))
  BY <1>3
<1>6. Spending(t.ins, "p2pkh") = Spent(t, "p2pkh", n)
  BY <1>1, <1>2, SpendingIs
<1>7. PICK q \in 0 .. n :
        /\ Spending(witnessed, "p2wpkh") = Spent(t, "p2wpkh", q)
        /\ Known(t, q)
        /\ q = IF Plain(t) THEN h ELSE 0
  <2>1. CASE Plain(t)
    <3>1. Spending(Before(t.ins, Handled), "p2wpkh") = Spent(t, "p2wpkh", h)
      <4>1. t \in Transactions /\ h \in 0 .. Len(t.ins)
        BY <1>1
      <4>2. /\ DOMAIN Before(t.ins, Handled) = 1 .. h
            /\ \A k \in 1 .. h : Before(t.ins, Handled)[k] = t.ins[k]
        BY <1>4
      <4> QED BY <4>1, <4>2, SpendingIs
    <3>2. Known(t, h)
      <4>1. ReadableTo(t, Len(t.outs))
        BY <1>5, <2>1
      <4>2. HandledTo(t, h)
        BY <1>4
      <4> QED BY <4>1, <4>2 DEF Known
    <3> QED BY <2>1, <3>1, <3>2
  <2>2. CASE ~Plain(t)
    <3>1. DOMAIN <<>> = 1 .. 0 /\ 0 \in 0 .. n
      BY <1>2
    <3>2. Spending(<<>>, "p2wpkh") = Spent(t, "p2wpkh", 0)
      BY <1>1, <3>1, SpendingIs
    <3>3. Known(t, 0)
      BY DEF Known, HandledTo
    <3> QED BY <2>2, <3>1, <3>2, <3>3
  <2> QED BY <2>1, <2>2
<1>8. expected = FoundIn(t, q)
  BY <1>6, <1>7 DEF FoundIn
<1>9. Has(vin, before.vin, FoundIn(t, q))
  BY <1>1, <1>7 DEF AtEnd, InsTo
<1>10. FoundIn(t, q) \in Seq(Tins)
  BY <1>1, FoundInType
<1>11. /\ IsPrefix(FoundIn(t, q), got)
       /\ Ends(vin, before.vin, FoundIn(t, q)) => got = FoundIn(t, q)
  BY <1>1, <1>9, <1>10, TailHas
<1>12. ASSUME Tidy(t)
       PROVE  Ends(vin, before.vin, FoundIn(t, q))
  <2>1. Plain(t) /\ (t.segwit => h = n) /\ q = h
    BY <1>4, <1>7, <1>12 DEF Tidy
  <2>2. HandledTo(t, n) /\ FoundIn(t, n) = FoundIn(t, q)
    <3>1. CASE t.segwit
      BY <1>4, <2>1, <3>1
    <3>2. CASE ~t.segwit
      <4>1. n \in 0 .. n
        BY <1>2
      <4> QED BY <1>1, <3>2, <4>1, NoneWitnessed
    <3> QED BY <3>1, <3>2
  <2>3. Known(t, n)
    BY <1>5, <2>1, <2>2 DEF Known
  <2> QED BY <1>1, <2>2, <2>3 DEF AtEnd, InsTo
<1> HIDE DEF expected, got
<1>13. IsPrefix(expected, got) /\ (Tidy(t) => got = expected)
  BY <1>8, <1>11, <1>12
<1> QED BY <1>13 DEF expected, got

(* And the offset. *)
LEMMA ParseOffset == Kinds /\ Split /\ Parse => ReadToTheEnd
<1> SUFFICES ASSUME Kinds, Split, Parse, phase = "end", NEW t, t = block[i], Tidy(t)
             PROVE  offset = Len(listTxs[i].hex) - 4
  BY DEF ReadToTheEnd
<1>1. /\ t \in Transactions /\ WellFormed(t) /\ AtEnd(t)
      /\ listTxs[i].hex = Serialized(t)
  BY EndHere
<1>2. Len(Serialized(t)) = EndAt(t) + 4 /\ EndAt(t) \in Nat
  BY <1>1, Places
<1>3. ReadableTo(t, Len(t.outs))
  BY <1>1, OutputsBefore DEF Tidy
<1>4. HandledTo(t, Len(t.ins))
  <2>1. CASE t.segwit
    BY <1>1, <2>1, InputsBefore DEF Tidy
  <2>2. CASE ~t.segwit
    <3>1. Len(t.ins) \in 0 .. Len(t.ins)
      BY <1>1, PartsType
    <3> QED BY <1>1, <2>2, <3>1, NoneWitnessed
  <2> QED BY <2>1, <2>2
<1>5. offset = EndAt(t)
  BY <1>1, <1>3, <1>4 DEF AtEnd
<1> QED BY <1>1, <1>2, <1>5

(* The outputs found in a transaction are the P2PKH outputs of it with     *)
(* their positions, amounts and hashes, for every block: all of them, or   *)
(* those before the first output whose script has 253 bytes or more, and   *)
(* these come first whatever is made of the bytes behind it.               *)
THEOREM OutputsAreExact == Spec => []OutputsExact
<1>1. Init => Kinds /\ Split /\ Parse
  BY InitKinds, InitParse
<1>2. Kinds /\ Split /\ Parse /\ [Next]_vars => Kinds' /\ Split' /\ Parse'
  BY StepKinds, StepParse
<1>3. Kinds /\ Split /\ Parse => OutputsExact
  BY ParseOutputs
<1> QED BY <1>1, <1>2, <1>3, PTL DEF Spec

(* The inputs found are those that spend P2PKH and P2WPKH outputs, each    *)
(* with what it spends and its key: all of them, or those of P2WPKH before *)
(* the first witness that is not read as it was written.  The global       *)
(* temp_segWitVin holds the inputs that wait for theirs, at their numbers, *)
(* in every transaction anew.                                              *)
THEOREM InputsAreExact == Spec => []InputsExact
<1>1. Init => Kinds /\ Split /\ Parse
  BY InitKinds, InitParse
<1>2. Kinds /\ Split /\ Parse /\ [Next]_vars => Kinds' /\ Split' /\ Parse'
  BY StepKinds, StepParse
<1>3. Kinds /\ Split /\ Parse => InputsExact
  BY ParseInputs
<1> QED BY <1>1, <1>2, <1>3, PTL DEF Spec

(* A transaction that can be read is read to its lock time: the offset     *)
(* that the parse goes on with is where the serialization has put the next *)
(* part, up to the end.                                                    *)
THEOREM ParseEndsAtLockTime == Spec => []ReadToTheEnd
<1>1. Init => Kinds /\ Split /\ Parse
  BY InitKinds, InitParse
<1>2. Kinds /\ Split /\ Parse /\ [Next]_vars => Kinds' /\ Split' /\ Parse'
  BY StepKinds, StepParse
<1>3. Kinds /\ Split /\ Parse => ReadToTheEnd
  BY ParseOffset
<1> QED BY <1>1, <1>2, <1>3, PTL DEF Spec
=============================================================================
