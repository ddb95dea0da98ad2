-------------------------- MODULE LedgerSums_proofs --------------------------
(***************************************************************************)
(* The totals of a table for every table: what one more row, one changed    *)
(* row and rows of another clan do to them.                                 *)
(***************************************************************************)
EXTENDS LedgerSums, WellFoundedInduction, TLAPS

\* Induction over the natural numbers, for a set instead of a predicate: the
\* least number outside S would have a predecessor in S.
LEMMA NatSetInduction ==
  ASSUME NEW S, 0 \in S, \A n \in Nat : n \in S => n + 1 \in S
  PROVE  Nat \subseteq S
<1> DEFINE T == Nat \ S
           R == OpToRel(<, Nat)
<1>1. SUFFICES ASSUME T # {} PROVE FALSE
  OBVIOUS
<1>2. \E x \in T : \A y \in T : ~(<<y, x>> \in R)
  <2>1. IsWellFoundedOn(R, Nat)
    BY NatLessThanWellFounded
  <2>2. T \subseteq Nat
    OBVIOUS
  <2> HIDE DEF T, R
  <2> QED
    BY <1>1, <2>1, <2>2, WFMin
<1>3. PICK x \in T : \A y \in T : ~(<<y, x>> \in R)
  BY <1>2
<1>4. x \in Nat /\ x # 0 /\ x - 1 \in Nat
  OBVIOUS
<1>5. <<x - 1, x>> \in R
  BY <1>4 DEF OpToRel
<1>6. x - 1 \in S
  BY <1>3, <1>4, <1>5
<1>7. (x - 1) + 1 \in S
  BY <1>4, <1>6
<1> QED
  BY <1>4, <1>7

\* g holds the partial sums of w up to n.
IsPartialSum(g, w, n) ==
  /\ g \in [0..n -> Int]
  /\ g[0] = 0
  /\ \A i \in 1..n : g[i] = g[i-1] + w[i]

PartialSum(w, n) == CHOOSE g : IsPartialSum(g, w, n)

LEMMA PartialSumExists ==
  ASSUME NEW w \in [Nat -> Int]
  PROVE  \A n \in Nat : IsPartialSum(PartialSum(w, n), w, n)
<1> DEFINE S == {n \in Nat : \E g : IsPartialSum(g, w, n)}
<1>1. 0 \in S
  <2>1. IsPartialSum([i \in 0..0 |-> 0], w, 0)
    BY DEF IsPartialSum
  <2> QED
    BY <2>1
<1>2. ASSUME NEW n \in Nat, n \in S PROVE n + 1 \in S
  <2>1. PICK g : IsPartialSum(g, w, n)
    BY <1>2
  <2> DEFINE h == [i \in 0..(n+1) |-> IF i = n + 1 THEN g[n] + w[n+1] ELSE g[i]]
  <2>2. g \in [0..n -> Int] /\ g[n] + w[n+1] \in Int
    BY <2>1 DEF IsPartialSum
  <2>3. h \in [0..(n+1) -> Int] /\ h[0] = 0
    BY <2>1, <2>2 DEF IsPartialSum
  <2>4. ASSUME NEW i \in 1..(n+1) PROVE h[i] = h[i-1] + w[i]
    <3>1. CASE i = n + 1
      BY <3>1, <2>2
    <3>2. CASE i \in 1..n
      <4>1. h[i] = g[i] /\ h[i-1] = g[i-1]
        BY <3>2
      <4> QED
        BY <4>1, <3>2, <2>1 DEF IsPartialSum
    <3> QED
      BY <3>1, <3>2
  <2>5. IsPartialSum(h, w, n + 1)
    BY <2>3, <2>4 DEF IsPartialSum
  <2> QED
    BY <2>5
<1>3. Nat \subseteq S
  <2> HIDE DEF S
  <2> QED
    BY <1>1, <1>2, NatSetInduction
<1>4. ASSUME NEW n \in Nat PROVE \E g : IsPartialSum(g, w, n)
  BY <1>3
<1> QED
  BY <1>4 DEF PartialSum

\* The partial sums up to different n agree where both are defined.
LEMMA PartialSumsAgree ==
  ASSUME NEW w \in [Nat -> Int]
  PROVE  \A i, n \in Nat : i <= n => PartialSum(w, n)[i] = PartialSum(w, i)[i]
<1> DEFINE p(n) == PartialSum(w, n)
           S == {i \in Nat : \A n \in Nat : i <= n => p(n)[i] = p(i)[i]}
<1>1. \A n \in Nat : IsPartialSum(p(n), w, n)
  BY PartialSumExists
<1> HIDE DEF p
<1>2. 0 \in S
  BY <1>1 DEF IsPartialSum
<1>3. ASSUME NEW i \in Nat, i \in S PROVE i + 1 \in S
  <2>1. ASSUME NEW n \in Nat, i + 1 <= n
        PROVE  p(n)[i+1] = p(i)[i] + w[i+1]
    <3>1. i + 1 \in 1..n /\ i <= n /\ (i + 1) - 1 = i
      BY <2>1
    <3>2. p(n)[i+1] = p(n)[i] + w[i+1]
      BY <3>1, <1>1 DEF IsPartialSum
    <3> QED
      BY <3>1, <3>2, <1>3
  <2> QED
    BY <2>1
<1>4. Nat \subseteq S
  <2> HIDE DEF S
  <2> QED
    BY <1>2, <1>3, NatSetInduction
<1> QED
  BY <1>4 DEF p

\* SumTo is the recursive function its definition describes.
LEMMA SumToRecurrence ==
  ASSUME NEW w \in [Nat -> Int]
  PROVE  /\ SumTo(w) \in [Nat -> Int]
         /\ SumTo(w)[0] = 0
         /\ \A n \in Nat : SumTo(w)[n+1] = SumTo(w)[n] + w[n+1]
<1> DEFINE p(n) == PartialSum(w, n)
           F == [n \in Nat |-> p(n)[n]]
<1>1. \A n \in Nat : IsPartialSum(p(n), w, n)
  BY PartialSumExists
<1>2. \A i, n \in Nat : i <= n => p(n)[i] = p(i)[i]
  BY PartialSumsAgree
<1> HIDE DEF p
<1>3. F \in [Nat -> Int] /\ F[0] = 0
  BY <1>1 DEF IsPartialSum
<1>4. ASSUME NEW n \in Nat, n # 0 PROVE F[n] = F[n-1] + w[n]
  <2>1. p(n)[n] = p(n)[n-1] + w[n]
    BY <1>1, <1>4 DEF IsPartialSum
  <2>2. n - 1 \in Nat /\ p(n)[n-1] = p(n-1)[n-1]
    BY <1>2, <1>4
  <2> QED
    BY <2>1, <2>2
<1>5. F = [n \in Nat |-> IF n = 0 THEN 0 ELSE F[n-1] + w[n]]
  <2>1. \A n \in Nat : F[n] = IF n = 0 THEN 0 ELSE F[n-1] + w[n]
    BY <1>3, <1>4
  <2>2. F = [n \in Nat |-> F[n]]
    OBVIOUS
  <2> HIDE DEF F
  <2> QED
    BY <2>1, <2>2
<1>6. SumTo(w) = [n \in Nat |-> IF n = 0 THEN 0 ELSE SumTo(w)[n-1] + w[n]]
  <2> HIDE DEF F
  <2> QED
    BY <1>5 DEF SumTo
<1> DEFINE G == SumTo(w)
<1>7. G = [n \in Nat |-> IF n = 0 THEN 0 ELSE G[n-1] + w[n]]
  BY <1>6
<1> HIDE DEF F, G
<1>8. G[0] = 0 /\ \A n \in Nat : G[n+1] = G[n] + w[n+1]
  <2>1. \A n \in Nat : G[n] = IF n = 0 THEN 0 ELSE G[n-1] + w[n]
    BY <1>7
  <2> QED
    BY <2>1
<1>9. \A n \in Nat : G[n] \in Int
  <2> DEFINE S == {n \in Nat : G[n] \in Int}
  <2>1. 0 \in S /\ \A n \in Nat : n \in S => n + 1 \in S
    BY <1>8
  <2>2. Nat \subseteq S
    <3> HIDE DEF S
    <3> QED
      BY <2>1, NatSetInduction
  <2> QED
    BY <2>2
<1>10. G \in [Nat -> Int]
  BY <1>7, <1>9
<1> QED
  BY <1>8, <1>10 DEF G
-----------------------------------------------------------------------------
(* Totals *)

\* Changing one weight changes every later sum by the difference.
LEMMA SumsDiffer ==
  ASSUME NEW w \in [Nat -> Int], NEW v \in [Nat -> Int], NEW j \in Nat \ {0},
         \A i \in Nat \ {j} : v[i] = w[i]
  PROVE  \A n \in Nat : SumTo(v)[n] = SumTo(w)[n] + (IF j <= n THEN v[j] - w[j] ELSE 0)
<1> DEFINE Sw == SumTo(w)
           Sv == SumTo(v)
           S  == {n \in Nat : Sv[n] = Sw[n] + (IF j <= n THEN v[j] - w[j] ELSE 0)}
<1>1. /\ Sw \in [Nat -> Int] /\ Sw[0] = 0
      /\ \A n \in Nat : Sw[n+1] = Sw[n] + w[n+1]
  BY SumToRecurrence
<1>2. /\ Sv \in [Nat -> Int] /\ Sv[0] = 0
      /\ \A n \in Nat : Sv[n+1] = Sv[n] + v[n+1]
  BY SumToRecurrence
<1> HIDE DEF Sw, Sv
<1>3. 0 \in S
  BY <1>1, <1>2
<1>4. ASSUME NEW n \in Nat, n \in S PROVE n + 1 \in S
  <2>1. v[n+1] \in Int /\ w[n+1] \in Int /\ v[j] \in Int /\ w[j] \in Int
        /\ Sv[n] \in Int /\ Sw[n] \in Int
    BY <1>1, <1>2
  <2>2. CASE n + 1 = j
    BY <1>1, <1>2, <1>4, <2>1, <2>2
  <2>3. CASE n + 1 # j
    <3>1. v[n+1] = w[n+1] /\ (j <= n + 1 <=> j <= n)
      BY <2>3
    <3> QED
      BY <1>1, <1>2, <1>4, <2>1, <3>1
  <2> QED
    BY <2>2, <2>3
<1>5. Nat \subseteq S
  <2> HIDE DEF S
  <2> QED
    BY <1>3, <1>4, NatSetInduction
<1> QED
  BY <1>5 DEF Sw, Sv

Entry(C) == [clan : C, money : Int, deleted : BOOLEAN]

LEMMA WeightsType ==
  ASSUME NEW C, NEW t \in Seq(Entry(C)), NEW c
  PROVE  Weights(t, c) \in [Nat -> Int]
<1>1. ASSUME NEW i \in 1..Len(t) PROVE Share(t[i], c) \in Int
  <2>1. t[i] \in Entry(C)
    OBVIOUS
  <2> QED
    BY <2>1 DEF Share, Entry
<1> QED
  BY <1>1 DEF Weights

\* Every total is an integer, and an empty table has total 0.
LEMMA TotalType ==
  ASSUME NEW C, NEW t \in Seq(Entry(C)), NEW c
  PROVE  Total(t, c) \in Int
BY WeightsType, SumToRecurrence DEF Total

LEMMA TotalEmpty ==
  ASSUME NEW c
  PROVE  Total(<<>>, c) = 0
<1>1. <<>> \in Seq(Entry({}))
  OBVIOUS
<1>2. Weights(<<>>, c) \in [Nat -> Int]
  BY <1>1, WeightsType
<1> QED
  BY <1>2, SumToRecurrence DEF Total

\* An inserted row adds its share.
LEMMA TotalAppend ==
  ASSUME NEW C, NEW t \in Seq(Entry(C)), NEW row \in Entry(C), NEW c
  PROVE  Total(Append(t, row), c) = Total(t, c) + Share(row, c)
<1> DEFINE u == Append(t, row)
           w == Weights(t, c)
           v == Weights(u, c)
           j == Len(t) + 1
<1>1. u \in Seq(Entry(C)) /\ Len(t) \in Nat /\ Len(u) = j /\ u[j] = row
  OBVIOUS
<1>2. w \in [Nat -> Int] /\ v \in [Nat -> Int]
  BY <1>1, WeightsType
<1>3. \A i \in Nat \ {j} : v[i] = w[i]
  BY DEF Weights
<1>4. w[j] = 0 /\ v[j] = Share(row, c)
  BY <1>1 DEF Weights
<1>a. j \in Nat \ {0} /\ j <= j
  BY <1>1
<1> HIDE DEF u, w, v, j
<1>5. SumTo(v)[j] = SumTo(w)[j] + (IF j <= j THEN v[j] - w[j] ELSE 0)
  BY <1>a, <1>2, <1>3, SumsDiffer
<1>6. SumTo(w)[j] = SumTo(w)[Len(t)] + w[j] /\ SumTo(w)[Len(t)] \in Int
  BY <1>1, <1>2, SumToRecurrence DEF j
<1>7. Share(row, c) \in Int
  BY DEF Share, Entry
<1>8. SumTo(v)[j] = SumTo(w)[Len(t)] + Share(row, c)
  BY <1>1, <1>4, <1>5, <1>6, <1>7
<1> QED
  BY <1>1, <1>8 DEF Total, u, w, v, j

\* A changed row trades its old share for its new one.
LEMMA TotalExcept ==
  ASSUME NEW C, NEW t \in Seq(Entry(C)), NEW j \in DOMAIN t, NEW row \in Entry(C), NEW c
  PROVE  Total([t EXCEPT ![j] = row], c) = Total(t, c) - Share(t[j], c) + Share(row, c)
<1> DEFINE u == [t EXCEPT ![j] = row]
           w == Weights(t, c)
           v == Weights(u, c)
           n == Len(t)
<1>1. u \in Seq(Entry(C)) /\ n \in Nat /\ Len(u) = n /\ j \in 1..n /\ u[j] = row
  OBVIOUS
<1>2. w \in [Nat -> Int] /\ v \in [Nat -> Int]
  BY <1>1, WeightsType
<1>3. \A i \in Nat \ {j} : v[i] = w[i]
  BY <1>1 DEF Weights
<1>4. w[j] = Share(t[j], c) /\ v[j] = Share(row, c)
  BY <1>1 DEF Weights
<1>a. j \in Nat \ {0} /\ n \in Nat /\ j <= n
  BY <1>1
<1> HIDE DEF u, w, v, n
<1>5. SumTo(v)[n] = SumTo(w)[n] + (IF j <= n THEN v[j] - w[j] ELSE 0)
  BY <1>a, <1>2, <1>3, SumsDiffer
<1>6. SumTo(w)[n] \in Int /\ w[j] \in Int /\ v[j] \in Int
  BY <1>a, <1>2, SumToRecurrence
<1>7. SumTo(v)[n] = SumTo(w)[n] - w[j] + v[j]
  BY <1>a, <1>5, <1>6
<1> QED
  BY <1>1, <1>4, <1>7 DEF Total, u, w, v, n
=============================================================================
