------------------------------ MODULE Induction ------------------------------
(***************************************************************************)
(* Induction over numbers without an operator parameter: a set of numbers  *)
(* that is not empty has a least one.  To prove a statement for every      *)
(* number, take the set of those it fails for.                             *)
(***************************************************************************)
EXTENDS Samples, FiniteSetTheorems, SequenceTheorems, TLAPS

(* Finite sets are well founded under inclusion, and k < m exactly when 1 .. k
   is strictly included in 1 .. m. *)
LEMMA LeastNumber ==
    ASSUME NEW T, T \subseteq Nat, T # {}
    PROVE  \E m \in T : \A k \in T : m <= k
<1> DEFINE Segments == {1 .. n : n \in T}
           R == StrictSubsetOrdering(Nat)
<1>1. Segments \subseteq FiniteSubsetsOf(Nat)
  BY FS_Interval DEF FiniteSubsetsOf
<1>6. Segments # {}
  OBVIOUS
<1>2. IsWellFoundedOn(R, FiniteSubsetsOf(Nat))
  BY FS_StrictSubsetOrderingWellFounded
<1>3. PICK x \in Segments : \A y \in Segments : ~(<<y, x>> \in R)
  <2> HIDE DEF Segments, R
  <2> QED
    BY <1>1, <1>2, <1>6, WFMin
<1>4. PICK m \in T : x = 1 .. m
  OBVIOUS
<1>5. ASSUME NEW k \in T, k < m
      PROVE  FALSE
  <2>1. 1 .. k \subseteq 1 .. m /\ m \in 1 .. m /\ m \notin 1 .. k
    BY <1>5
  <2>2. <<1 .. k, 1 .. m>> \in R
    BY <2>1 DEF StrictSubsetOrdering
  <2> QED
    BY <1>3, <1>4, <2>2
<1> QED
  BY <1>5

-----------------------------------------------------------------------------
(* f holds the sums of the prefixes of s. *)
IsTotal(f, s) ==
    f = [i \in 0 .. Len(s) |-> IF i = 0 THEN 0 ELSE f[i - 1] + s[i]]
Totals(s) == CHOOSE f : IsTotal(f, s)

LEMMA TotalsExist == \A s : Len(s) \in Nat => IsTotal(Totals(s), s)
<1> SUFFICES ASSUME NEW s, Len(s) \in Nat
             PROVE  \E f : IsTotal(f, s)
  BY DEF Totals
<1> DEFINE To(f, n) == f = [i \in 0 .. n |-> IF i = 0 THEN 0 ELSE f[i - 1] + s[i]]
           T == {n \in Nat : ~\E f : To(f, n)}
<1>1. ASSUME T # {}
      PROVE  FALSE
  <2>1. PICK m \in T : \A k \in T : m <= k
    <3>1. T \subseteq Nat
      OBVIOUS
    <3> HIDE DEF T
    <3> QED
      BY <1>1, <3>1, LeastNumber
  <2>2. m # 0
    <3>1. To([i \in 0 .. 0 |-> 0], 0)
      OBVIOUS
    <3> QED
      BY <3>1
  <2>3. m - 1 \in Nat /\ m - 1 \notin T
    <3>1. m \in Nat
      OBVIOUS
    <3> HIDE DEF T
    <3> QED
      BY <2>1, <2>2, <3>1
  <2>4. PICK f : To(f, m - 1)
    BY <2>3
  <2> DEFINE g == [i \in 0 .. m |-> IF i = m THEN f[m - 1] + s[m] ELSE f[i]]
  <2>5. ASSUME NEW i \in 0 .. m
        PROVE  g[i] = IF i = 0 THEN 0 ELSE g[i - 1] + s[i]
    BY <2>2, <2>3, <2>4
  <2>6. To(g, m)
    BY <2>5
  <2> QED
    BY <2>6
<1>2. PICK f : To(f, Len(s))
  BY <1>1
<1> QED
  BY <1>2 DEF IsTotal

(* The sums of the prefixes, one at a time. *)
LEMMA TotalsSteps ==
    ASSUME NEW s \in Seq(Int)
    PROVE  /\ SumOf(s) = Totals(s)[Len(s)]
           /\ Totals(s)[0] = 0
           /\ \A i \in 1 .. Len(s) : Totals(s)[i] = Totals(s)[i - 1] + s[i]
<1>1. SumOf(s) = Totals(s)[Len(s)]
  BY DEF SumOf, Totals, IsTotal
<1>2. PICK f : f = Totals(s) /\ f = [i \in 0 .. Len(s) |-> IF i = 0 THEN 0 ELSE f[i - 1] + s[i]]
  BY TotalsExist DEF IsTotal
<1>3. f[0] = 0 /\ \A i \in 1 .. Len(s) : f[i] = f[i - 1] + s[i]
  BY <1>2
<1> QED
  BY <1>1, <1>2, <1>3

(* Samples that are at most b on their own are so on average. *)
LEMMA SumBounded ==
    ASSUME NEW s \in Seq(Int), NEW b \in Nat,
           \A i \in 1 .. Len(s) : 0 <= s[i] /\ s[i] <= b
    PROVE  \A i \in 0 .. Len(s) :
             Totals(s)[i] \in Nat /\ Totals(s)[i] <= b * i
<1> DEFINE f == Totals(s)
           T == {i \in Nat : i <= Len(s) /\ ~(f[i] \in Nat /\ f[i] <= b * i)}
<1>0. /\ f[0] = 0 /\ \A i \in 1 .. Len(s) : f[i] = f[i - 1] + s[i]
      /\ Len(s) \in Nat
  BY TotalsSteps
<1>1. ASSUME T # {}
      PROVE  FALSE
  <2>0. T \subseteq Nat
    OBVIOUS
  <2>1. PICK m \in T : \A k \in T : m <= k
    <3> HIDE DEF T
    <3> QED
      BY <1>1, <2>0, LeastNumber
  <2> HIDE DEF f
  <2>2. m # 0
    BY <1>0
  <2>3. m - 1 \in Nat /\ m - 1 \notin T /\ m \in 1 .. Len(s)
    <3>1. m \in Nat /\ m <= Len(s)
      OBVIOUS
    <3> HIDE DEF T
    <3> QED
      BY <1>0, <2>1, <2>2, <3>1
  <2>4. f[m - 1] \in Nat /\ f[m - 1] <= b * (m - 1)
    BY <1>0, <2>3
  <2>5. f[m] = f[m - 1] + s[m] /\ s[m] \in Int /\ 0 <= s[m] /\ s[m] <= b
    BY <1>0, <2>3
  <2>6. b * (m - 1) + b = b * m
    BY <2>3
  <2>7. f[m] \in Nat /\ f[m] <= b * m
    <3> DEFINE x == b * (m - 1)
               y == b * m
    <3>1. x \in Int /\ y \in Int /\ x + b = y /\ f[m - 1] <= x
      BY <2>3, <2>4, <2>6
    <3> HIDE DEF x, y
    <3>2. f[m] \in Nat /\ f[m] <= y
      BY <2>4, <2>5, <3>1
    <3> QED
      BY <3>2 DEF y
  <2> QED
    BY <2>7
<1>2. ASSUME NEW i \in 0 .. Len(s)
      PROVE  f[i] \in Nat /\ f[i] <= b * i
  <2>1. i \in Nat /\ i <= Len(s)
    BY <1>0
  <2> QED
    BY <1>1, <2>1
<1> QED
  BY <1>2

(* The sum of samples that are all alike. *)
LEMMA EqualTotals ==
    ASSUME NEW s \in Seq(Int), NEW c \in Int,
           \A i \in 1 .. Len(s) : s[i] = c
    PROVE  SumOf(s) = Len(s) * c
<1> DEFINE f == Totals(s)
           T == {i \in Nat : i <= Len(s) /\ ~(f[i] = i * c)}
<1>0. /\ f[0] = 0 /\ \A i \in 1 .. Len(s) : f[i] = f[i - 1] + s[i]
      /\ Len(s) \in Nat /\ SumOf(s) = f[Len(s)]
  BY TotalsSteps
<1>1. ASSUME T # {}
      PROVE  FALSE
  <2>0. T \subseteq Nat
    OBVIOUS
  <2>1. PICK m \in T : \A k \in T : m <= k
    <3> HIDE DEF T
    <3> QED
      BY <1>1, <2>0, LeastNumber
  <2> HIDE DEF f
  <2>2. m # 0
    BY <1>0
  <2>3. m - 1 \in Nat /\ m - 1 \notin T /\ m \in 1 .. Len(s)
    <3>1. m \in Nat /\ m <= Len(s)
      OBVIOUS
    <3> HIDE DEF T
    <3> QED
      BY <1>0, <2>1, <2>2, <3>1
  <2>4. f[m - 1] = (m - 1) * c
    BY <1>0, <2>3
  <2>5. f[m] = f[m - 1] + c
    BY <1>0, <2>3
  <2>6. (m - 1) * c + c = m * c
    BY <2>3
  <2>7. f[m] = m * c
    BY <2>4, <2>5, <2>6
  <2> QED
    BY <2>7
<1>2. f[Len(s)] = Len(s) * c
  <2> HIDE DEF f
  <2> QED
    BY <1>0, <1>1
<1> QED
  BY <1>0, <1>2

=============================================================================
