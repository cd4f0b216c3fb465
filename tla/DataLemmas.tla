----------------------------- MODULE DataLemmas -----------------------------
(***************************************************************************)
(* Facts about natural numbers, sequences and finite sets that the proofs  *)
(* of several modules need: the least element of a set of numbers and the  *)
(* induction that follows from it, sequences that grow or shrink at an     *)
(* end, the counting of positions, and the sums of sequences and of        *)
(* functions over finite sets.                                             *)
(***************************************************************************)
EXTENDS Integers, Sequences, FiniteSets, FiniteSetTheorems, SequenceTheorems,
        WellFoundedInduction, SequencesExt, TLAPS

\* A set of natural numbers has a least element: the intervals from 0 to its
\* members are finite sets, and inclusion is well-founded on those.
LEMMA Least ==
  ASSUME NEW S \in SUBSET Nat, S # {}
  PROVE  \E m \in S : \A n \in S : m <= n
<1> DEFINE T == {0 .. n : n \in S}
<1>1. T \subseteq FiniteSubsetsOf(Nat)
  <2>1. ASSUME NEW n \in S PROVE 0 .. n \in SUBSET Nat /\ IsFiniteSet(0 .. n)
    BY FS_Interval
  <2> QED
    BY <2>1 DEF FiniteSubsetsOf
<1>2. T # {}
  OBVIOUS
<1>3. IsWellFoundedOn(StrictSubsetOrdering(Nat), FiniteSubsetsOf(Nat))
  BY FS_StrictSubsetOrderingWellFounded
<1>4. PICK x \in T : \A y \in T : ~(<<y, x>> \in StrictSubsetOrdering(Nat))
  <2> HIDE DEF T
  <2> QED
    BY <1>1, <1>2, <1>3, WFMin
<1>5. PICK m \in S : x = 0 .. m
  OBVIOUS
<1>6. ASSUME NEW n \in S, n < m PROVE FALSE
  <2>1. /\ 0 .. n \in T /\ 0 .. n \subseteq x /\ 0 .. n # x
        /\ 0 .. n \in SUBSET Nat /\ x \in SUBSET Nat
    BY <1>5, <1>6
  <2>2. <<0 .. n, x>> \in StrictSubsetOrdering(Nat)
    BY <2>1, Zenon DEF StrictSubsetOrdering
  <2> QED
    BY <1>4, <2>1, <2>2
<1> QED
  BY <1>6

\* Induction, for a property given as the set of the numbers that have it.
LEMMA Induction ==
  ASSUME NEW P, 0 \in P, \A n \in Nat : n \in P => n + 1 \in P
  PROVE  \A n \in Nat : n \in P
<1> SUFFICES ASSUME Nat \ P # {} PROVE FALSE
  OBVIOUS
<1>1. PICK m \in Nat \ P : \A n \in Nat \ P : m <= n
  BY Least
<1>2. m # 0 /\ m - 1 \in Nat
  BY <1>1
<1>3. m - 1 \in P
  BY <1>1, <1>2
<1>4. (m - 1) + 1 \in P
  BY <1>2, <1>3
<1> QED
  BY <1>1, <1>4

(***************************************************************************)
(* Sequences that grow or shrink at an end.                                *)
(***************************************************************************)
LEMMA AppendOne ==
  ASSUME NEW S, NEW s \in Seq(S), NEW x \in S
  PROVE  /\ Append(s, x) \in Seq(S) /\ Len(s) \in Nat
         /\ Len(Append(s, x)) = Len(s) + 1 /\ Append(s, x)[Len(s) + 1] = x
         /\ \A i \in 1 .. Len(s) : Append(s, x)[i] = s[i]
         /\ \A i \in 1 .. Len(Append(s, x)) : i \in 1 .. Len(s) \/ i = Len(s) + 1
<1>1. /\ Append(s, x) \in Seq(S) /\ Len(s) \in Nat
      /\ Len(Append(s, x)) = Len(s) + 1 /\ Append(s, x)[Len(s) + 1] = x
      /\ \A i \in 1 .. Len(s) : Append(s, x)[i] = s[i]
  BY AppendProperties, LenProperties
<1>2. ASSUME NEW n \in Nat PROVE \A i \in 1 .. n + 1 : i \in 1 .. n \/ i = n + 1
  OBVIOUS
<1> QED
  BY <1>1, <1>2

LEMMA Appended ==
  ASSUME NEW S, NEW s \in Seq(S), NEW x \in S, NEW t, t = Append(s, x)
  PROVE  /\ t \in Seq(S) /\ Len(s) \in Nat
         /\ Len(t) = Len(s) + 1 /\ t[Len(s) + 1] = x
         /\ \A i \in 1 .. Len(s) : t[i] = s[i]
         /\ \A i \in 1 .. Len(t) : i \in 1 .. Len(s) \/ i = Len(s) + 1
BY AppendOne

LEMMA TailOne ==
  ASSUME NEW S, NEW s \in Seq(S), s # << >>
  PROVE  /\ Tail(s) \in Seq(S) /\ Len(s) \in Nat /\ Len(s) >= 1
         /\ Len(Tail(s)) = Len(s) - 1 /\ Head(s) = s[1] /\ Head(s) \in S
         /\ \A i \in 1 .. Len(Tail(s)) : Tail(s)[i] = s[i + 1] /\ i + 1 \in 1 .. Len(s)
BY HeadTailProperties, LenProperties, EmptySeq

LEMMA JoinTwo ==
  ASSUME NEW S, NEW s \in Seq(S), NEW t \in Seq(S)
  PROVE  /\ s \o t \in Seq(S) /\ Len(s \o t) = Len(s) + Len(t)
         /\ Len(s) \in Nat /\ Len(t) \in Nat
         /\ \A i \in 1 .. Len(s) : (s \o t)[i] = s[i]
         /\ \A i \in 1 .. Len(t) : (s \o t)[Len(s) + i] = t[i]
<1>1. /\ s \o t \in Seq(S) /\ Len(s \o t) = Len(s) + Len(t)
      /\ Len(s) \in Nat /\ Len(t) \in Nat
      /\ \A i \in 1 .. Len(s) + Len(t) :
           (s \o t)[i] = IF i <= Len(s) THEN s[i] ELSE t[i - Len(s)]
  BY ConcatProperties, LenProperties
<1>2. ASSUME NEW i \in 1 .. Len(s) PROVE (s \o t)[i] = s[i]
  BY <1>1
<1>3. ASSUME NEW i \in 1 .. Len(t) PROVE (s \o t)[Len(s) + i] = t[i]
  <2>1. Len(s) + i \in 1 .. Len(s) + Len(t) /\ ~(Len(s) + i <= Len(s)) /\ (Len(s) + i) - Len(s) = i
    BY <1>1
  <2> QED
    BY <1>1, <2>1
<1> QED
  BY <1>1, <1>2, <1>3

(***************************************************************************)
(* Counting: how many positions of a sequence hold a member of P.          *)
(***************************************************************************)
LEMMA Interval ==
  ASSUME NEW n \in Nat
  PROVE  IsFiniteSet(1 .. n) /\ Cardinality(1 .. n) = n
<1>1. /\ IsFiniteSet(1 .. n)
      /\ Cardinality(1 .. n) = IF 1 > n THEN 0 ELSE n - 1 + 1
  BY FS_Interval
<1> QED
  BY <1>1

Count(s, P) == Cardinality({i \in DOMAIN s : s[i] \in P})

LEMMA CountPositions ==
  ASSUME NEW S, NEW s \in Seq(S), NEW P
  PROVE  /\ IsFiniteSet({i \in DOMAIN s : s[i] \in P})
         /\ Count(s, P) \in Nat /\ Count(s, P) <= Len(s)
<1>1. DOMAIN s = 1 .. Len(s) /\ Len(s) \in Nat
  BY LenProperties
<1>2. {i \in DOMAIN s : s[i] \in P} \in SUBSET (1 .. Len(s))
  BY <1>1
<1> QED
  BY <1>1, <1>2, Interval, FS_Subset, FS_CardinalityType DEF Count

LEMMA CountAppended ==
  ASSUME NEW S, NEW s \in Seq(S), NEW x \in S, NEW P
  PROVE  Count(Append(s, x), P) = Count(s, P) + (IF x \in P THEN 1 ELSE 0)
<1> DEFINE before == {i \in DOMAIN s : s[i] \in P}
           after == {i \in DOMAIN Append(s, x) : Append(s, x)[i] \in P}
<1>1. DOMAIN s = 1 .. Len(s) /\ DOMAIN Append(s, x) = 1 .. Len(s) + 1 /\ Len(s) \in Nat
  BY LenProperties, AppendOne
<1>2. after = IF x \in P THEN before \cup {Len(s) + 1} ELSE before
  BY <1>1, AppendOne
<1>3. IsFiniteSet(before) /\ Cardinality(before) \in Nat /\ Len(s) + 1 \notin before
  <2>1. IsFiniteSet(before)
    BY CountPositions, Zenon
  <2>2. Len(s) + 1 \notin before
    BY <1>1
  <2> QED
    BY <2>1, <2>2, FS_CardinalityType
<1> HIDE DEF before, after
<1>4. Cardinality(before \cup {Len(s) + 1}) = Cardinality(before) + 1
  BY <1>3, FS_AddElement
<1>5. Cardinality(after) = Cardinality(before) + (IF x \in P THEN 1 ELSE 0)
  BY <1>2, <1>3, <1>4
<1> QED
  BY <1>5 DEF before, after, Count

(***************************************************************************)
(* Sums: FoldLeft adds from the left, through the sets of the positions    *)
(* that are still to be added, and so ends with the last running total.    *)
(***************************************************************************)
Sum(s) == FoldLeft(LAMBDA a, b : a + b, 0, s)

Folding(s, S, h) ==
  h = [t \in SUBSET S |-> IF t = {} THEN 0 ELSE h[t \ {Max(t)}] + s[Max(t)]]

LEMMA MaxIs ==
  ASSUME NEW t \in SUBSET Int, NEW m \in t, \A y \in t : m >= y
  PROVE  Max(t) = m
<1>1. Max(t) \in t /\ \A y \in t : Max(t) >= y
  BY Zenon DEF Max
<1>2. Max(t) >= m /\ m >= Max(t) /\ Max(t) \in Int /\ m \in Int
  BY <1>1
<1> QED
  BY <1>2

LEMMA MaxInterval ==
  ASSUME NEW n \in Nat
  PROVE  Max(1 .. n + 1) = n + 1
<1>1. 1 .. n + 1 \in SUBSET Int /\ n + 1 \in 1 .. n + 1 /\ \A y \in 1 .. n + 1 : n + 1 >= y
  OBVIOUS
<1> QED
  BY <1>1, MaxIs

LEMMA FoldExists ==
  ASSUME NEW s, NEW n \in Nat
  PROVE  \E h : Folding(s, 1 .. n, h)
<1> DEFINE P == {k \in Nat : \E h : Folding(s, 1 .. k, h)}
<1>1. 0 \in P
  <2> DEFINE h == [t \in SUBSET (1 .. 0) |-> 0]
  <2>1. Folding(s, 1 .. 0, h)
    BY DEF Folding
  <2> QED
    BY <2>1
<1>2. ASSUME NEW k \in P PROVE k + 1 \in P
  <2>1. PICK h : Folding(s, 1 .. k, h)
    OBVIOUS
  <2> DEFINE g == [t \in SUBSET (1 .. k + 1) |->
                     IF k + 1 \in t THEN h[t \ {k + 1}] + s[k + 1] ELSE h[t]]
  <2>2. 1 .. k \subseteq 1 .. k + 1 /\ (1 .. k + 1) \ {k + 1} = 1 .. k /\ k + 1 \notin 1 .. k
    OBVIOUS
  <2>3. ASSUME NEW t \in SUBSET (1 .. k + 1), k + 1 \in t PROVE Max(t) = k + 1
    <3>1. k + 1 \in Int /\ \A y \in t : y \in Int /\ k + 1 >= y
      OBVIOUS
    <3>2. \E x \in t : \A y \in t : x >= y
      BY <2>3, <3>1
    <3>3. Max(t) \in t /\ \A y \in t : Max(t) >= y
      BY <3>2, Zenon DEF Max
    <3>4. Max(t) >= k + 1 /\ k + 1 >= Max(t) /\ Max(t) \in Int
      BY <2>3, <3>1, <3>3
    <3> QED
      BY <3>1, <3>4
  <2>4. ASSUME NEW t \in SUBSET (1 .. k + 1), t # {}
        PROVE  g[t] = g[t \ {Max(t)}] + s[Max(t)]
    <3>1. CASE k + 1 \in t
      <4>1. t \ {k + 1} \in SUBSET (1 .. k) /\ t \ {k + 1} \in SUBSET (1 .. k + 1)
        BY <2>2
      <4>2. g[t \ {k + 1}] = h[t \ {k + 1}]
        BY <2>2, <4>1
      <4> QED
        BY <2>3, <3>1, <4>2
    <3>2. CASE k + 1 \notin t
      <4>1. t \in SUBSET (1 .. k) /\ t \ {Max(t)} \in SUBSET (1 .. k)
            /\ t \ {Max(t)} \in SUBSET (1 .. k + 1) /\ k + 1 \notin t \ {Max(t)}
        BY <2>2, <3>2
      <4>2. h[t] = h[t \ {Max(t)}] + s[Max(t)]
        BY <2>1, <2>4, <4>1 DEF Folding
      <4> QED
        BY <3>2, <4>1, <4>2
    <3> QED
      BY <3>1, <3>2
  <2>5. g[{}] = 0
    <3>1. h[{}] = 0
      BY <2>1 DEF Folding
    <3> QED
      BY <3>1
  <2>6. Folding(s, 1 .. k + 1, g)
    <3>1. g = [t \in SUBSET (1 .. k + 1) |-> g[t]]
      OBVIOUS
    <3> HIDE DEF g
    <3> QED
      BY <2>4, <2>5, <3>1 DEF Folding
  <2> QED
    BY <2>6
<1>3. \A k \in Nat : k \in P
  <2> HIDE DEF P
  <2> QED
    BY <1>1, <1>2, Induction
<1> QED
  BY <1>3

LEMMA SumFolds ==
  ASSUME NEW s \in Seq(Int)
  PROVE  \E h : Folding(s, 1 .. Len(s), h) /\ Sum(s) = h[1 .. Len(s)]
<1>1. DOMAIN s = 1 .. Len(s) /\ Len(s) \in Nat
  BY LenProperties
<1> DEFINE h == CHOOSE h : Folding(s, DOMAIN s, h)
<1>2. Folding(s, 1 .. Len(s), h)
  BY <1>1, FoldExists
<1>3. Sum(s) = h[DOMAIN s]
  BY DEF Sum, FoldLeft, MapThenFoldSet, Folding
<1> QED
  BY <1>1, <1>2, <1>3

LEMMA UpToNext ==
  ASSUME NEW n \in Nat, NEW m \in Nat, n + 1 <= m
  PROVE  /\ n + 1 \in 1 .. m /\ (n + 1) - 1 = n /\ n <= m
         /\ 1 .. n + 1 \in SUBSET (1 .. m) /\ 1 .. n + 1 # {}
         /\ (1 .. n + 1) \ {n + 1} = 1 .. n
<1>1. 1 .. n + 1 \subseteq 1 .. m /\ n + 1 \in 1 .. n + 1
  OBVIOUS
<1> QED
  BY <1>1

\* The sum is the last of the running totals.
LEMMA SumIs ==
  ASSUME NEW s \in Seq(Int), NEW total, total[0] = 0,
         \A n \in 1 .. Len(s) : total[n] = total[n - 1] + s[n]
  PROVE  Sum(s) = total[Len(s)]
<1>1. Len(s) \in Nat
  BY LenProperties
<1>2. PICK h : Folding(s, 1 .. Len(s), h) /\ Sum(s) = h[1 .. Len(s)]
  BY SumFolds
<1> DEFINE P == {n \in Nat : n <= Len(s) => h[1 .. n] = total[n]}
<1>3. 0 \in P
  <2>1. h[{}] = 0
    BY <1>2 DEF Folding
  <2>2. 1 .. 0 = {}
    OBVIOUS
  <2> QED
    BY <2>1, <2>2
<1>4. ASSUME NEW n \in P PROVE n + 1 \in P
  <2> SUFFICES ASSUME n + 1 <= Len(s) PROVE h[1 .. n + 1] = total[n + 1]
    OBVIOUS
  <2>1. /\ n + 1 \in 1 .. Len(s) /\ (n + 1) - 1 = n /\ n <= Len(s)
        /\ 1 .. n + 1 \in SUBSET (1 .. Len(s)) /\ 1 .. n + 1 # {}
        /\ (1 .. n + 1) \ {n + 1} = 1 .. n
    <3>1. n \in Nat
      OBVIOUS
    <3> HIDE DEF P
    <3>2. PICK m \in Nat : m = Len(s)
      BY <1>1
    <3>3. n + 1 <= m
      BY <3>2
    <3>4. /\ n + 1 \in 1 .. m /\ (n + 1) - 1 = n /\ n <= m
          /\ 1 .. n + 1 \in SUBSET (1 .. m) /\ 1 .. n + 1 # {}
          /\ (1 .. n + 1) \ {n + 1} = 1 .. n
      BY <3>1, <3>3, UpToNext, Zenon
    <3> QED
      BY <3>2, <3>4, Zenon
  <2>2. Max(1 .. n + 1) = n + 1
    BY MaxInterval
  <2>3. h[1 .. n + 1] = h[(1 .. n + 1) \ {Max(1 .. n + 1)}] + s[Max(1 .. n + 1)]
    BY <1>2, <2>1 DEF Folding
  <2>4. h[1 .. n] = total[n]
    BY <2>1
  <2> QED
    BY <2>1, <2>2, <2>3, <2>4
<1>5. \A n \in Nat : n \in P
  <2> HIDE DEF P
  <2> QED
    BY <1>3, <1>4, Induction
<1> QED
  BY <1>1, <1>2, <1>5

\* Every sequence has running totals.
Running(s, k) ==
  \E total \in [0 .. k -> Int] :
    total[0] = 0 /\ \A n \in 1 .. k : total[n] = total[n - 1] + s[n]

LEMMA RunningTotals ==
  ASSUME NEW s \in Seq(Int)
  PROVE  Running(s, Len(s))
<1>1. Len(s) \in Nat /\ \A n \in 1 .. Len(s) : s[n] \in Int
  BY LenProperties, ElementOfSeq
<1> DEFINE P == {k \in Nat : k <= Len(s) => Running(s, k)}
<1>2. 0 \in P
  <2> DEFINE none == [n \in 0 .. 0 |-> 0]
  <2>1. none \in [0 .. 0 -> Int] /\ none[0] = 0 /\ \A n \in 1 .. 0 : FALSE
    OBVIOUS
  <2> QED
    BY <2>1 DEF Running
<1>3. ASSUME NEW k \in P PROVE k + 1 \in P
  <2> SUFFICES ASSUME k + 1 <= Len(s) PROVE Running(s, k + 1)
    OBVIOUS
  <2>1. PICK old \in [0 .. k -> Int] :
               old[0] = 0 /\ \A n \in 1 .. k : old[n] = old[n - 1] + s[n]
    <3>1. k <= Len(s)
      BY <1>1
    <3>2. Running(s, k)
      BY <3>1
    <3> HIDE DEF P
    <3> QED
      BY <3>2 DEF Running
  <2> DEFINE new == [n \in 0 .. k + 1 |-> IF n = k + 1 THEN old[k] + s[k + 1] ELSE old[n]]
  <2>2. new \in [0 .. k + 1 -> Int]
    <3>1. old[k] \in Int /\ s[k + 1] \in Int
      BY <1>1
    <3>2. \A n \in 0 .. k + 1 : n # k + 1 => old[n] \in Int
      OBVIOUS
    <3> QED
      BY <3>1, <3>2
  <2>3. new[0] = 0
    BY <2>1
  <2>4. ASSUME NEW n \in 1 .. k + 1 PROVE new[n] = new[n - 1] + s[n]
    <3>1. CASE n = k + 1
      <4>1. n - 1 = k /\ k \in 0 .. k + 1 /\ k # k + 1
        BY <3>1
      <4> QED
        BY <3>1, <4>1
    <3>2. CASE n # k + 1
      <4>1. n \in 1 .. k /\ n - 1 \in 0 .. k + 1 /\ n - 1 # k + 1 /\ n \in 0 .. k + 1
        BY <3>2
      <4> QED
        BY <2>1, <3>2, <4>1
    <3> QED
      BY <3>1, <3>2
  <2> QED
    <3> HIDE DEF new
    <3> QED
      BY <2>2, <2>3, <2>4 DEF Running
<1>4. \A k \in Nat : k \in P
  <2> HIDE DEF P
  <2> QED
    BY <1>2, <1>3, Induction
<1> QED
  BY <1>1, <1>4

LEMMA SumAppended ==
  ASSUME NEW s \in Seq(Int), NEW x \in Int
  PROVE  Sum(s) \in Int /\ Sum(Append(s, x)) = Sum(s) + x
<1>1. PICK total \in [0 .. Len(s) -> Int] :
             total[0] = 0 /\ \A n \in 1 .. Len(s) : total[n] = total[n - 1] + s[n]
  BY RunningTotals DEF Running
<1>2. Len(s) \in Nat
  BY LenProperties
<1>3. Sum(s) = total[Len(s)]
  BY <1>1, SumIs
<1> DEFINE all == [n \in 0 .. Len(s) + 1 |-> IF n = Len(s) + 1 THEN total[Len(s)] + x
                                                              ELSE total[n]]
<1>4. /\ Append(s, x) \in Seq(Int) /\ Len(Append(s, x)) = Len(s) + 1
      /\ Append(s, x)[Len(s) + 1] = x /\ \A i \in 1 .. Len(s) : Append(s, x)[i] = s[i]
  BY AppendOne
<1>5. all[0] = 0
  BY <1>1, <1>2
<1>6. ASSUME NEW n \in 1 .. Len(s) + 1 PROVE all[n] = all[n - 1] + Append(s, x)[n]
  <2>1. CASE n = Len(s) + 1
    <3>1. /\ n - 1 = Len(s) /\ Len(s) \in 0 .. Len(s) + 1 /\ Len(s) # Len(s) + 1
          /\ n \in 0 .. Len(s) + 1
      BY <1>2, <2>1
    <3>2. all[n] = total[Len(s)] + x /\ all[n - 1] = total[Len(s)]
      BY <2>1, <3>1, Zenon
    <3> QED
      BY <1>4, <2>1, <3>2
  <2>2. CASE n # Len(s) + 1
    <3>1. n \in 1 .. Len(s) /\ n - 1 \in 0 .. Len(s) + 1 /\ n - 1 # Len(s) + 1 /\ n \in 0 .. Len(s) + 1
      BY <1>2, <2>2
    <3> QED
      BY <1>1, <1>4, <2>2, <3>1
  <2> QED
    BY <2>1, <2>2
<1>7. Sum(Append(s, x)) = all[Len(s) + 1]
  <2> HIDE DEF all
  <2> QED
    BY <1>4, <1>5, <1>6, SumIs
<1> QED
  BY <1>1, <1>2, <1>3, <1>7

\* What is between two running totals is the sum of what was added between.
LEMMA SumBetween ==
  ASSUME NEW s \in Seq(Int), NEW total \in [0 .. Len(s) -> Int], NEW a \in 0 .. Len(s),
         \A n \in 1 .. Len(s) : total[n] = total[n - 1] + s[n]
  PROVE  Sum(SubSeq(s, a + 1, Len(s))) = total[Len(s)] - total[a]
<1>1. PICK n \in Nat : n = Len(s)
  BY LenProperties
<1>2. PICK t : t = SubSeq(s, a + 1, n)
  OBVIOUS
<1>3. /\ t \in Seq(Int) /\ Len(t) = n - a
      /\ \A i \in 1 .. n - a : t[i] = s[a + i]
  <2>1. a \in Nat /\ a <= n
    BY <1>1
  <2>2. \A i \in a + 1 .. n : i \in 1 .. Len(s)
    BY <1>1, <2>1
  <2>6. \A i \in a + 1 .. n : s[i] \in Int
    BY <1>1, <2>2, ElementOfSeq
  <2>3. /\ SubSeq(s, a + 1, n) \in Seq(Int)
        /\ Len(SubSeq(s, a + 1, n)) = IF a + 1 <= n THEN n - (a + 1) + 1 ELSE 0
        /\ \A i \in 1 .. n - (a + 1) + 1 : SubSeq(s, a + 1, n)[i] = s[(a + 1) + i - 1]
    BY <1>1, <2>1, <2>6, SubSeqProperties
  <2>4. n - (a + 1) + 1 = n - a /\ (a + 1 <= n \/ n - a = 0)
    BY <2>1
  <2>5. \A i \in 1 .. n - a : (a + 1) + i - 1 = a + i
    BY <2>1
  <2> QED
    BY <1>2, <2>3, <2>4, <2>5
<1> DEFINE rest == [i \in 0 .. n - a |-> total[a + i] - total[a]]
<1>4. a \in 0 .. n /\ total[a] \in Int
  BY <1>1
<1>5. rest[0] = 0
  BY <1>1, <1>4
<1>6. ASSUME NEW i \in 1 .. n - a PROVE rest[i] = rest[i - 1] + t[i]
  <2>1. /\ a + i \in 1 .. n /\ a + i \in 0 .. n /\ (a + i) - 1 = a + (i - 1)
        /\ a + (i - 1) \in 0 .. n /\ i - 1 \in 0 .. n - a /\ i \in 0 .. n - a
    BY <1>4
  <2>2. total[a + i] = total[a + (i - 1)] + s[a + i]
    BY <1>1, <2>1
  <2>3. total[a + i] \in Int /\ total[a + (i - 1)] \in Int /\ s[a + i] \in Int
    BY <1>1, <2>1, ElementOfSeq
  <2>4. rest[i] = total[a + i] - total[a] /\ rest[i - 1] = total[a + (i - 1)] - total[a]
    BY <2>1
  <2>5. t[i] = s[a + i]
    BY <1>3
  <2>6. ASSUME NEW x \in Int, NEW y \in Int, NEW z \in Int, NEW w \in Int, x = y + z
        PROVE  x - w = (y - w) + z
    BY <2>6
  <2>7. total[a + i] - total[a] = (total[a + (i - 1)] - total[a]) + s[a + i]
    <3>1. PICK x \in Int : x = total[a + i]
      BY <2>3, Zenon
    <3>2. PICK y \in Int : y = total[a + (i - 1)]
      BY <2>3, Zenon
    <3>3. PICK z \in Int : z = s[a + i]
      BY <2>3, Zenon
    <3>4. PICK w \in Int : w = total[a]
      BY <1>4, Zenon
    <3>6. x = y + z
      BY <2>2, <3>1, <3>2, <3>3
    <3>5. x - w = (y - w) + z
      BY <3>6
    <3> QED
      BY <3>1, <3>2, <3>3, <3>4, <3>5, Zenon
  <2> QED
    BY <2>4, <2>5, <2>7, Zenon
<1>7. Sum(t) = rest[n - a]
  <2> HIDE DEF rest
  <2> QED
    BY <1>3, <1>5, <1>6, SumIs
<1>8. n - a \in 0 .. n - a /\ a + (n - a) = n
  BY <1>1, <1>4
<1> QED
  BY <1>1, <1>2, <1>7, <1>8

(***************************************************************************)
(* Sequences without repetition.                                           *)
(***************************************************************************)
Distinct(s) == \A i, j \in 1 .. Len(s) : s[i] = s[j] => i = j

LEMMA Image ==
  ASSUME NEW A, IsFiniteSet(A), NEW f, \A a, b \in A : f[a] = f[b] => a = b
  PROVE  /\ IsFiniteSet({f[a] : a \in A})
         /\ Cardinality({f[a] : a \in A}) = Cardinality(A)
<1> DEFINE T == {f[a] : a \in A}
           g == [a \in A |-> f[a]]
<1>1. g \in Bijection(A, T)
  BY DEF Bijection, Injection, Surjection, IsInjective
<1>2. ExistsBijection(A, T)
  BY <1>1 DEF ExistsBijection
<1> QED
  BY <1>2, FS_Bijection

LEMMA DistinctCount ==
  ASSUME NEW S, NEW s \in Seq(S), Distinct(s)
  PROVE  IsFiniteSet(ToSet(s)) /\ Cardinality(ToSet(s)) = Len(s)
<1>1. DOMAIN s = 1 .. Len(s) /\ Len(s) \in Nat
  BY LenProperties
<1>2. IsFiniteSet(1 .. Len(s)) /\ Cardinality(1 .. Len(s)) = Len(s)
  BY <1>1, Interval
<1>3. ToSet(s) = {s[i] : i \in 1 .. Len(s)}
  BY <1>1 DEF ToSet
<1> QED
  BY <1>2, <1>3, Image DEF Distinct

LEMMA DistinctAppended ==
  ASSUME NEW S, NEW s \in Seq(S), NEW x \in S, Distinct(s), x \notin ToSet(s)
  PROVE  Distinct(Append(s, x)) /\ ToSet(Append(s, x)) = ToSet(s) \cup {x}
<1>1. /\ Append(s, x) \in Seq(S) /\ Len(s) \in Nat
      /\ Len(Append(s, x)) = Len(s) + 1 /\ Append(s, x)[Len(s) + 1] = x
      /\ \A i \in 1 .. Len(s) : Append(s, x)[i] = s[i]
      /\ \A i \in 1 .. Len(Append(s, x)) : i \in 1 .. Len(s) \/ i = Len(s) + 1
  BY AppendOne
<1>2. DOMAIN s = 1 .. Len(s) /\ DOMAIN Append(s, x) = 1 .. Len(s) + 1
  BY <1>1, LenProperties
<1>3. \A i \in 1 .. Len(s) : s[i] # x
  BY <1>2 DEF ToSet
<1>4. Distinct(Append(s, x))
  BY <1>1, <1>3 DEF Distinct
<1>5. \A i \in 1 .. Len(s) : i \in 1 .. Len(s) + 1
  BY <1>1
<1>6. Len(s) + 1 \in 1 .. Len(s) + 1
  BY <1>1
<1>7. ASSUME NEW y PROVE y \in ToSet(Append(s, x)) <=> y \in ToSet(s) \/ y = x
  BY <1>1, <1>2, <1>5, <1>6 DEF ToSet
<1> QED
  BY <1>4, <1>7

LEMMA DistinctTail ==
  ASSUME NEW S, NEW s \in Seq(S), s # << >>, Distinct(s)
  PROVE  /\ Distinct(Tail(s)) /\ Head(s) \in ToSet(s)
         /\ ToSet(Tail(s)) = ToSet(s) \ {Head(s)}
<1>1. /\ Tail(s) \in Seq(S) /\ Len(s) \in Nat /\ Len(s) >= 1
      /\ Len(Tail(s)) = Len(s) - 1 /\ Head(s) = s[1] /\ Head(s) \in S
      /\ \A i \in 1 .. Len(Tail(s)) : Tail(s)[i] = s[i + 1] /\ i + 1 \in 1 .. Len(s)
  BY TailOne
<1>2. DOMAIN s = 1 .. Len(s) /\ DOMAIN Tail(s) = 1 .. Len(Tail(s))
  BY <1>1, LenProperties
<1>3. 1 \in 1 .. Len(s)
  BY <1>1
<1>4. Distinct(Tail(s))
  BY <1>1 DEF Distinct
<1>5. ASSUME NEW i \in 1 .. Len(s), s[i] # Head(s)
      PROVE  \E j \in 1 .. Len(Tail(s)) : s[i] = Tail(s)[j]
  <2>1. i - 1 \in 1 .. Len(Tail(s)) /\ (i - 1) + 1 = i
    BY <1>1, <1>5
  <2> QED
    BY <1>1, <2>1
<1>6. ASSUME NEW j \in 1 .. Len(Tail(s))
      PROVE  Tail(s)[j] # Head(s) /\ \E i \in 1 .. Len(s) : s[i] = Tail(s)[j]
  <2>1. j + 1 # 1
    OBVIOUS
  <2> QED
    BY <1>1, <1>3, <2>1 DEF Distinct
<1>7. ToSet(Tail(s)) = ToSet(s) \ {Head(s)}
  <2>1. /\ ToSet(s) = {s[i] : i \in 1 .. Len(s)}
        /\ ToSet(Tail(s)) = {Tail(s)[j] : j \in 1 .. Len(Tail(s))}
    BY <1>2 DEF ToSet
  <2>2. ASSUME NEW y \in ToSet(Tail(s)) PROVE y \in ToSet(s) /\ y # Head(s)
    BY <1>6, <2>1
  <2>3. ASSUME NEW y \in ToSet(s), y # Head(s) PROVE y \in ToSet(Tail(s))
    <3>1. PICK i \in 1 .. Len(s) : y = s[i]
      BY <2>1
    <3>2. PICK j \in 1 .. Len(Tail(s)) : s[i] = Tail(s)[j]
      BY <1>5, <2>3, <3>1
    <3> QED
      BY <2>1, <3>1, <3>2
  <2> QED
    BY <2>2, <2>3
<1> QED
  BY <1>1, <1>2, <1>3, <1>4, <1>7 DEF ToSet

LEMMA TwoParts ==
  ASSUME NEW A, NEW B, IsFiniteSet(A), IsFiniteSet(B), A \cap B = {}
  PROVE  /\ IsFiniteSet(A \cup B) /\ Cardinality(A) \in Nat /\ Cardinality(B) \in Nat
         /\ Cardinality(A \cup B) = Cardinality(A) + Cardinality(B)
<1>1. IsFiniteSet(A \cup B)
      /\ Cardinality(A \cup B) = Cardinality(A) + Cardinality(B) - Cardinality(A \cap B)
  BY FS_Union, Zenon
<1>2. Cardinality(A \cap B) = 0
  BY FS_EmptySet, Zenon
<1>3. Cardinality(A) \in Nat /\ Cardinality(B) \in Nat
  BY FS_CardinalityType, Zenon
<1>4. Cardinality(A \cup B) = Cardinality(A) + Cardinality(B)
  BY <1>1, <1>2, <1>3
<1> QED
  BY <1>1, <1>3, <1>4, Zenon

LEMMA FourParts ==
  ASSUME NEW A, NEW B, NEW C, NEW D,
         IsFiniteSet(A), IsFiniteSet(B), IsFiniteSet(C), IsFiniteSet(D),
         A \cap B = {}, A \cap C = {}, A \cap D = {}, B \cap C = {}, B \cap D = {}, C \cap D = {}
  PROVE  Cardinality(A \cup B \cup C \cup D)
           = Cardinality(A) + Cardinality(B) + Cardinality(C) + Cardinality(D)
<1>1. (A \cup B) \cap C = {} /\ (A \cup B \cup C) \cap D = {}
  BY Zenon
<1>2. /\ IsFiniteSet(A \cup B) /\ Cardinality(A) \in Nat /\ Cardinality(B) \in Nat
      /\ Cardinality(A \cup B) = Cardinality(A) + Cardinality(B)
  BY TwoParts, Zenon
<1>3. /\ IsFiniteSet(A \cup B \cup C) /\ Cardinality(C) \in Nat
      /\ Cardinality(A \cup B \cup C) = Cardinality(A \cup B) + Cardinality(C)
  BY <1>1, <1>2, TwoParts, Zenon
<1>4. /\ Cardinality(D) \in Nat
      /\ Cardinality(A \cup B \cup C \cup D) = Cardinality(A \cup B \cup C) + Cardinality(D)
  BY <1>1, <1>3, TwoParts, Zenon
<1> QED
  BY <1>2, <1>3, <1>4

(***************************************************************************)
(* Sums of sequences, taken apart and put together.                        *)
(***************************************************************************)
\* Nothing adds up to nothing.
LEMMA SumNone == Sum(<< >>) = 0
<1> DEFINE total == [n \in 0 .. 0 |-> 0]
<1>1. << >> \in Seq(Int) /\ Len(<< >>) = 0
  OBVIOUS
<1>2. total[0] = 0 /\ \A n \in 1 .. 0 : FALSE
  OBVIOUS
<1> HIDE DEF total
<1>3. \A n \in 1 .. Len(<< >>) : total[n] = total[n - 1] + << >>[n]
  BY <1>1, <1>2
<1> QED
  BY <1>1, <1>2, <1>3, SumIs

\* The last element is added last.
LEMMA SumOne ==
  ASSUME NEW s \in Seq(Int), s # << >>
  PROVE  /\ Front(s) \in Seq(Int) /\ Last(s) \in Int
         /\ Sum(s) = Sum(Front(s)) + Last(s)
<1>1. PICK n \in Nat : Len(s) = n + 1
  <2>1. Len(s) \in Nat /\ Len(s) # 0
    BY LenProperties, EmptySeq
  <2>2. Len(s) - 1 \in Nat /\ Len(s) = (Len(s) - 1) + 1
    BY <2>1
  <2> QED
    BY <2>2
<1>2. \A i \in 1 .. n + 1 : s[i] \in Int
  BY <1>1, ElementOfSeq
<1>3. Front(s) = SubSeq(s, 1, n)
  BY <1>1 DEF Front
<1>4. /\ Front(s) \in Seq(Int) /\ Len(Front(s)) = n /\ \A i \in 1 .. n : Front(s)[i] = s[i]
  <2>1. /\ SubSeq(s, 1, n) \in Seq(Int)
        /\ Len(SubSeq(s, 1, n)) = IF 1 <= n THEN n - 1 + 1 ELSE 0
        /\ \A i \in 1 .. n - 1 + 1 : SubSeq(s, 1, n)[i] = s[1 + i - 1]
    <3>1. \A i \in 1 .. n : s[i] \in Int
      BY <1>2
    <3> QED
      BY <3>1, SubSeqProperties
  <2>2. n - 1 + 1 = n /\ (1 <= n \/ n = 0) /\ \A i \in 1 .. n : 1 + i - 1 = i
    OBVIOUS
  <2> QED
    BY <1>3, <2>1, <2>2
<1>5. Last(s) \in Int /\ Last(s) = s[n + 1]
  BY <1>1, <1>2 DEF Last
<1>6. PICK total \in [0 .. n + 1 -> Int] :
             total[0] = 0 /\ \A i \in 1 .. n + 1 : total[i] = total[i - 1] + s[i]
  BY <1>1, RunningTotals DEF Running
<1>7. Sum(s) = total[n + 1]
  BY <1>1, <1>6, SumIs
<1>8. Sum(Front(s)) = total[n]
  <2>1. \A i \in 1 .. n : i \in 1 .. n + 1
    OBVIOUS
  <2>2. \A i \in 1 .. n : total[i] = total[i - 1] + Front(s)[i]
    BY <1>4, <1>6, <2>1, Zenon
  <2> DEFINE f == Front(s)
  <2>3. f \in Seq(Int) /\ total[0] = 0 /\ \A i \in 1 .. Len(f) : total[i] = total[i - 1] + f[i]
    BY <1>4, <1>6, <2>2, Zenon
  <2> HIDE DEF f
  <2>4. Sum(f) = total[Len(f)]
    BY <2>3, SumIs
  <2> QED
    BY <1>4, <2>4, Zenon DEF f
<1>9. total[n + 1] = total[n] + s[n + 1]
  <2>1. n + 1 \in 1 .. n + 1 /\ (n + 1) - 1 = n
    OBVIOUS
  <2> QED
    BY <1>6, <2>1
<1> QED
  BY <1>4, <1>5, <1>7, <1>8, <1>9

\* Two sequences, one after the other.
LEMMA SumJoin ==
  ASSUME NEW s \in Seq(Int), NEW t \in Seq(Int)
  PROVE  Sum(s \o t) = Sum(s) + Sum(t)
<1>1. PICK a \in [0 .. Len(s) -> Int] :
             a[0] = 0 /\ \A i \in 1 .. Len(s) : a[i] = a[i - 1] + s[i]
  BY RunningTotals DEF Running
<1>2. PICK b \in [0 .. Len(t) -> Int] :
             b[0] = 0 /\ \A i \in 1 .. Len(t) : b[i] = b[i - 1] + t[i]
  BY RunningTotals DEF Running
<1>3. Sum(s) = a[Len(s)] /\ Sum(t) = b[Len(t)]
  BY <1>1, <1>2, SumIs
<1>4. PICK n \in Nat : n = Len(s)
  BY LenProperties
<1>5. PICK m \in Nat : m = Len(t)
  BY LenProperties
<1>6. /\ s \o t \in Seq(Int) /\ Len(s \o t) = n + m
      /\ \A i \in 1 .. n : (s \o t)[i] = s[i]
      /\ \A i \in 1 .. m : (s \o t)[n + i] = t[i]
  BY <1>4, <1>5, JoinTwo
<1> DEFINE c == [i \in 0 .. n + m |-> IF i <= n THEN a[i] ELSE a[n] + b[i - n]]
<1>7. c[0] = 0
  BY <1>1
<1>8. ASSUME NEW i \in 1 .. n + m PROVE c[i] = c[i - 1] + (s \o t)[i]
  <2>1. CASE i <= n
    <3>1. i \in 1 .. n /\ i - 1 \in 0 .. n /\ i - 1 \in 0 .. n + m /\ i \in 0 .. n + m /\ i - 1 <= n
      BY <2>1
    <3>2. c[i] = a[i] /\ c[i - 1] = a[i - 1]
      BY <2>1, <3>1
    <3>3. a[i] = a[i - 1] + s[i]
      BY <1>1, <1>4, <3>1
    <3> QED
      BY <1>6, <3>1, <3>2, <3>3
  <2>2. CASE ~(i <= n)
    <3>1. PICK k \in 1 .. m : i = n + k
      <4>1. i - n \in 1 .. m /\ i = n + (i - n)
        BY <2>2
      <4> QED
        BY <4>1
    <3>2. /\ ~(n + k <= n) /\ (n + k) - n = k /\ n + k \in 0 .. n + m /\ (n + k) - 1 \in 0 .. n + m
          /\ k - 1 \in 0 .. m
      OBVIOUS
    <3>3. c[n + k] = a[n] + b[k]
      BY <3>2
    <3>4. c[(n + k) - 1] = a[n] + b[k - 1]
      <4>1. CASE k = 1
        <5>1. (n + k) - 1 = n /\ k - 1 = 0
          BY <4>1
        <5>2. a[n] \in Int /\ b[0] = 0
          BY <1>1, <1>2, <1>4
        <5> QED
          BY <3>2, <5>1, <5>2
      <4>2. CASE k # 1
        <5>1. ~((n + k) - 1 <= n) /\ ((n + k) - 1) - n = k - 1
          BY <4>2
        <5> QED
          BY <3>2, <5>1
      <4> QED
        BY <4>1, <4>2
    <3>5. b[k] = b[k - 1] + t[k] /\ (s \o t)[n + k] = t[k]
      BY <1>2, <1>5, <1>6
    <3>6. a[n] \in Int /\ b[k - 1] \in Int /\ t[k] \in Int
      <4>1. a[n] \in Int
        BY <1>1, <1>4
      <4>2. b[k - 1] \in Int
        BY <1>2, <1>5, <3>2
      <4>3. t[k] \in Int
        BY <1>5, ElementOfSeq
      <4> QED
        BY <4>1, <4>2, <4>3
    <3> HIDE DEF c
    <3>7. a[n] + (b[k - 1] + t[k]) = (a[n] + b[k - 1]) + t[k]
      BY <3>6
    <3>8. c[n + k] = c[(n + k) - 1] + (s \o t)[n + k]
      BY <3>3, <3>4, <3>5, <3>7, Zenon
    <3> QED
      BY <3>1, <3>8, Zenon
  <2> QED
    BY <2>1, <2>2
<1>9. Sum(s \o t) = c[n + m]
  <2> HIDE DEF c
  <2> QED
    BY <1>6, <1>7, <1>8, SumIs
<1>10. c[n + m] = a[n] + b[m]
  <2>1. CASE m = 0
    <3>1. n + m = n /\ n \in 0 .. n + m /\ a[n] \in Int /\ b[m] = 0
      BY <1>1, <1>2, <1>4, <2>1
    <3> QED
      BY <3>1
  <2>2. CASE m # 0
    <3>1. ~(n + m <= n) /\ (n + m) - n = m /\ n + m \in 0 .. n + m
      BY <2>2
    <3> QED
      BY <3>1
  <2> QED
    BY <2>1, <2>2
<1> QED
  BY <1>3, <1>4, <1>5, <1>9, <1>10

\* Natural numbers add up to one.
LEMMA SumNat ==
  ASSUME NEW s \in Seq(Nat)
  PROVE  s \in Seq(Int) /\ Sum(s) \in Nat
<1>1. s \in Seq(Int)
  BY SeqMonotonic
<1>2. PICK a \in [0 .. Len(s) -> Int] :
             a[0] = 0 /\ \A i \in 1 .. Len(s) : a[i] = a[i - 1] + s[i]
  BY <1>1, RunningTotals DEF Running
<1>3. Sum(s) = a[Len(s)]
  BY <1>1, <1>2, SumIs
<1>4. Len(s) \in Nat /\ \A i \in 1 .. Len(s) : s[i] \in Nat
  BY LenProperties, ElementOfSeq
<1> DEFINE P == {n \in Nat : n <= Len(s) => a[n] \in Nat}
<1>5. 0 \in P
  BY <1>2
<1>6. ASSUME NEW n \in P PROVE n + 1 \in P
  BY <1>2, <1>4
<1>7. \A n \in Nat : n \in P
  <2> HIDE DEF P
  <2> QED
    BY <1>5, <1>6, Induction
<1> QED
  BY <1>1, <1>3, <1>4, <1>7

(***************************************************************************)
(* Sums over finite sets: SumFunctionOnSet adds in an order of its own,    *)
(* and any order gives the same.                                           *)
(***************************************************************************)
Pick(t) == CHOOSE x \in t : TRUE
Adding(f, S, h) ==
  h = [t \in SUBSET S |-> IF t = {} THEN 0 ELSE f[Pick(t)] + h[t \ {Pick(t)}]]

\* What is left of a set of n + 1 elements without one has n.
LEMMA OneLess ==
  ASSUME NEW t, IsFiniteSet(t), NEW n \in Nat, Cardinality(t) = n + 1
  PROVE  /\ t # {} /\ Pick(t) \in t
         /\ \A x \in t : IsFiniteSet(t \ {x}) /\ Cardinality(t \ {x}) = n
<1>1. t # {}
  BY FS_EmptySet
<1>2. Pick(t) \in t
  BY <1>1 DEF Pick
<1>3. ASSUME NEW x \in t PROVE IsFiniteSet(t \ {x}) /\ Cardinality(t \ {x}) = n
  BY FS_RemoveElement
<1> QED
  BY <1>1, <1>2, <1>3

\* There is such a function: one for the sets of at most n elements, for every n.
LEMMA AddingExists ==
  ASSUME NEW S, IsFiniteSet(S), NEW f
  PROVE  \E h : Adding(f, S, h)
<1> DEFINE Upto(n) == {t \in SUBSET S : Cardinality(t) <= n}
           Holds(n, h) == h = [t \in Upto(n) |->
                                 IF t = {} THEN 0 ELSE f[Pick(t)] + h[t \ {Pick(t)}]]
           P == {n \in Nat : \E h : Holds(n, h)}
<1>1. \A t \in SUBSET S : IsFiniteSet(t) /\ Cardinality(t) \in Nat /\ Cardinality(t) <= Cardinality(S)
  BY FS_Subset, FS_CardinalityType
<1>2. \A t \in SUBSET S : Cardinality(t) = 0 <=> t = {}
  BY <1>1, FS_EmptySet
<1>3. 0 \in P
  <2> DEFINE h == [t \in Upto(0) |-> 0]
  <2>1. \A t \in Upto(0) : t = {}
    BY <1>1, <1>2
  <2>2. Holds(0, h)
    BY <2>1
  <2> QED
    BY <2>2
<1>4. ASSUME NEW n \in P PROVE n + 1 \in P
  <2>1. PICK h : Holds(n, h)
    OBVIOUS
  <2> DEFINE g == [t \in Upto(n + 1) |-> IF t = {} THEN 0 ELSE f[Pick(t)] + h[t \ {Pick(t)}]]
  <2>2. n \in Nat
    OBVIOUS
  <2>3. ASSUME NEW t \in Upto(n + 1), t # {}
        PROVE  /\ t \ {Pick(t)} \in Upto(n) /\ t \ {Pick(t)} \in Upto(n + 1)
    <3>1. Cardinality(t) \in Nat /\ Cardinality(t) # 0 /\ Cardinality(t) <= n + 1 /\ IsFiniteSet(t)
      BY <1>1, <1>2, <2>3
    <3>2. PICK m \in Nat : Cardinality(t) = m + 1
      <4>1. Cardinality(t) - 1 \in Nat /\ Cardinality(t) = (Cardinality(t) - 1) + 1
        BY <3>1
      <4> QED
        BY <4>1
    <3>3. Pick(t) \in t /\ Cardinality(t \ {Pick(t)}) = m
      BY <3>1, <3>2, OneLess
    <3> QED
      BY <2>2, <3>1, <3>2, <3>3
  <2>4. \A t \in Upto(n) : t \in Upto(n + 1) /\ h[t] = g[t]
    <3> TAKE t \in Upto(n)
    <3>1. t \in Upto(n + 1)
      BY <1>1, <2>2
    <3>2. h[t] = IF t = {} THEN 0 ELSE f[Pick(t)] + h[t \ {Pick(t)}]
      BY <2>1
    <3> QED
      BY <3>1, <3>2
  <2>5. Holds(n + 1, g)
    <3>1. g = [t \in Upto(n + 1) |-> IF t = {} THEN 0 ELSE f[Pick(t)] + h[t \ {Pick(t)}]]
      OBVIOUS
    <3>2. \A t \in Upto(n + 1) : t # {} => g[t \ {Pick(t)}] = h[t \ {Pick(t)}]
      BY <2>3, <2>4
    <3> HIDE DEF g, Upto
    <3> QED
      BY <3>1, <3>2
  <2>6. \E k : Holds(n + 1, k)
    <3> HIDE DEF g, Holds
    <3> QED
      BY <2>5
  <2> HIDE DEF Holds
  <2> QED
    BY <2>2, <2>6
<1>5. Cardinality(S) \in P
  <2>1. \A n \in Nat : n \in P
    <3> HIDE DEF P
    <3> QED
      BY <1>3, <1>4, Induction
  <2> HIDE DEF P
  <2> QED
    BY <2>1, FS_CardinalityType
<1>6. PICK h : Holds(Cardinality(S), h)
  BY <1>5
<1>7. Upto(Cardinality(S)) = SUBSET S
  BY <1>1
<1> QED
  BY <1>6, <1>7 DEF Adding

\* It is what SumFunctionOnSet computes.
LEMMA SumAdds ==
  ASSUME NEW S, IsFiniteSet(S), NEW f
  PROVE  \E h : Adding(f, S, h) /\ SumFunctionOnSet(f, S) = h[S]
<1> DEFINE h == CHOOSE h : Adding(f, S, h)
<1>1. Adding(f, S, h)
  BY AddingExists
<1>2. SumFunctionOnSet(f, S) = h[S]
  BY DEF SumFunctionOnSet, FoldFunctionOnSet, MapThenFoldSet, Adding, Pick
<1> QED
  BY <1>1, <1>2

\* Only the elements of the set count.
LEMMA AddingAgrees ==
  ASSUME NEW S, NEW T, NEW f, NEW g, NEW h, NEW k, Adding(f, S, h), Adding(g, T, k),
         NEW U \in SUBSET (S \cap T), IsFiniteSet(U), \A x \in U : f[x] = g[x]
  PROVE  h[U] = k[U]
<1> DEFINE P == {n \in Nat : \A t \in SUBSET U : IsFiniteSet(t) /\ Cardinality(t) = n => h[t] = k[t]}
<1>1. \A t \in SUBSET U :
        /\ t \in SUBSET S /\ t \in SUBSET T
        /\ h[t] = IF t = {} THEN 0 ELSE f[Pick(t)] + h[t \ {Pick(t)}]
        /\ k[t] = IF t = {} THEN 0 ELSE g[Pick(t)] + k[t \ {Pick(t)}]
  BY DEF Adding
<1>2. 0 \in P
  BY <1>1, FS_EmptySet
<1>3. ASSUME NEW n \in P PROVE n + 1 \in P
  <2> SUFFICES ASSUME NEW t \in SUBSET U, IsFiniteSet(t), Cardinality(t) = n + 1
               PROVE  h[t] = k[t]
    OBVIOUS
  <2>1. /\ t # {} /\ Pick(t) \in t
        /\ IsFiniteSet(t \ {Pick(t)}) /\ Cardinality(t \ {Pick(t)}) = n
    <3>1. n \in Nat
      OBVIOUS
    <3> HIDE DEF P
    <3> QED
      BY <3>1, OneLess
  <2>2. h[t \ {Pick(t)}] = k[t \ {Pick(t)}]
    BY <2>1
  <2> QED
    BY <1>1, <2>1, <2>2
<1>4. Cardinality(U) \in P
  <2>1. \A n \in Nat : n \in P
    <3> HIDE DEF P
    <3> QED
      BY <1>2, <1>3, Induction
  <2> HIDE DEF P
  <2> QED
    BY <2>1, FS_CardinalityType
<1> QED
  BY <1>4

LEMMA AddingNat ==
  ASSUME NEW S, IsFiniteSet(S), NEW f, \A x \in S : f[x] \in Nat, NEW h, Adding(f, S, h)
  PROVE  \A t \in SUBSET S : h[t] \in Nat
<1> DEFINE P == {n \in Nat : \A t \in SUBSET S : Cardinality(t) = n => h[t] \in Nat}
<1>1. \A t \in SUBSET S : /\ h[t] = IF t = {} THEN 0 ELSE f[Pick(t)] + h[t \ {Pick(t)}]
                          /\ IsFiniteSet(t) /\ Cardinality(t) \in Nat
  BY FS_Subset, FS_CardinalityType DEF Adding
<1>2. 0 \in P
  BY <1>1, FS_EmptySet
<1>3. ASSUME NEW n \in P PROVE n + 1 \in P
  <2> SUFFICES ASSUME NEW t \in SUBSET S, Cardinality(t) = n + 1
               PROVE  h[t] \in Nat
    OBVIOUS
  <2>1. t # {} /\ Pick(t) \in t /\ Cardinality(t \ {Pick(t)}) = n
    <3>1. n \in Nat
      OBVIOUS
    <3>2. IsFiniteSet(t)
      BY <1>1
    <3> HIDE DEF P
    <3> QED
      BY <3>1, <3>2, OneLess
  <2>2. h[t \ {Pick(t)}] \in Nat
    BY <2>1
  <2>3. h[t] = f[Pick(t)] + h[t \ {Pick(t)}]
    BY <1>1, <2>1
  <2>4. f[Pick(t)] \in Nat
    BY <2>1
  <2> HIDE DEF P
  <2> QED
    BY <2>2, <2>3, <2>4
<1>4. \A n \in Nat : n \in P
  <2> HIDE DEF P
  <2> QED
    BY <1>2, <1>3, Induction
<1> QED
  BY <1>1, <1>4

\* Whichever element is taken away, its value is what the sum loses.
LEMMA AddingAny ==
  ASSUME NEW S, IsFiniteSet(S), NEW f, \A x \in S : f[x] \in Nat, NEW h, Adding(f, S, h)
  PROVE  \A t \in SUBSET S : \A x \in t : h[t] = f[x] + h[t \ {x}]
<1> DEFINE AnyOf(t) == \A x \in t : h[t] = f[x] + h[t \ {x}]
           P == {n \in Nat : \A t \in SUBSET S : Cardinality(t) = n => AnyOf(t)}
<1>1. \A t \in SUBSET S : /\ h[t] = IF t = {} THEN 0 ELSE f[Pick(t)] + h[t \ {Pick(t)}]
                          /\ IsFiniteSet(t) /\ Cardinality(t) \in Nat /\ h[t] \in Nat
  BY FS_Subset, FS_CardinalityType, AddingNat DEF Adding
<1>2. 0 \in P
  BY <1>1, FS_EmptySet
<1>3. ASSUME NEW n \in P PROVE n + 1 \in P
  <2> SUFFICES ASSUME NEW t \in SUBSET S, Cardinality(t) = n + 1, NEW x \in t
               PROVE  h[t] = f[x] + h[t \ {x}]
    OBVIOUS
  <2>1. n \in Nat
    OBVIOUS
  <2>2. t # {} /\ Pick(t) \in t /\ \A y \in t : Cardinality(t \ {y}) = n
    <3> HIDE DEF P
    <3> QED
      BY <1>1, <2>1, OneLess
  <2>3. \A y \in t : t \ {y} \in SUBSET S /\ AnyOf(t \ {y})
    BY <2>2
  <2>4. PICK c \in t : c = Pick(t)
    BY <2>2
  <2>5. h[t] = f[c] + h[t \ {c}]
    BY <1>1, <2>2, <2>4
  <2>6. CASE x = c
    BY <2>5, <2>6
  <2>7. CASE x # c
    <3>1. h[t \ {c}] = f[x] + h[(t \ {c}) \ {x}]
      BY <2>3, <2>7
    <3>2. h[t \ {x}] = f[c] + h[(t \ {x}) \ {c}]
      BY <2>3, <2>7
    <3>3. (t \ {c}) \ {x} = (t \ {x}) \ {c}
      OBVIOUS
    <3>4. h[(t \ {x}) \ {c}] \in Nat /\ f[x] \in Nat /\ f[c] \in Nat
      BY <1>1
    <3> HIDE DEF P
    <3>5. PICK rest \in Nat : rest = h[(t \ {x}) \ {c}]
      BY <3>4, Zenon
    <3>6. PICK first \in Nat : first = f[x]
      BY <3>4, Zenon
    <3>7. PICK second \in Nat : second = f[c]
      BY <3>4, Zenon
    <3>8. h[t] = second + (first + rest) /\ h[t \ {x}] = second + rest
      BY <2>5, <3>1, <3>2, <3>3, <3>5, <3>6, <3>7, Zenon
    <3>9. second + (first + rest) = first + (second + rest)
      OBVIOUS
    <3> QED
      BY <3>6, <3>8, <3>9, Zenon
  <2> QED
    BY <2>6, <2>7
<1>4. \A n \in Nat : n \in P
  <2> HIDE DEF P
  <2> QED
    BY <1>2, <1>3, Induction
<1> QED
  BY <1>1, <1>4

\* What the sum is, for any set of the domain's elements.
LEMMA SumOver ==
  ASSUME NEW S, IsFiniteSet(S), NEW f, \A x \in S : f[x] \in Nat
  PROVE  /\ SumFunctionOnSet(f, S) \in Nat
         /\ \A x \in S : SumFunctionOnSet(f, S) = f[x] + SumFunctionOnSet(f, S \ {x})
<1>1. PICK h : Adding(f, S, h) /\ SumFunctionOnSet(f, S) = h[S]
  BY SumAdds
<1>2. h[S] \in Nat
  BY <1>1, AddingNat
<1>3. ASSUME NEW x \in S PROVE h[S] = f[x] + SumFunctionOnSet(f, S \ {x})
  <2>1. IsFiniteSet(S \ {x})
    BY FS_RemoveElement
  <2>2. PICK k : Adding(f, S \ {x}, k) /\ SumFunctionOnSet(f, S \ {x}) = k[S \ {x}]
    BY <2>1, SumAdds
  <2>3. h[S \ {x}] = k[S \ {x}]
    <3>1. S \ {x} \in SUBSET (S \cap (S \ {x}))
      OBVIOUS
    <3> QED
      BY <1>1, <2>1, <2>2, <3>1, AddingAgrees
  <2>4. h[S] = f[x] + h[S \ {x}]
    BY <1>1, AddingAny
  <2> QED
    BY <2>2, <2>3, <2>4
<1> QED
  BY <1>1, <1>2, <1>3

\* Equal functions have equal sums.
LEMMA SumAgrees ==
  ASSUME NEW S, IsFiniteSet(S), NEW f, NEW g, \A x \in S : f[x] = g[x]
  PROVE  SumFunctionOnSet(f, S) = SumFunctionOnSet(g, S)
<1>1. PICK h : Adding(f, S, h) /\ SumFunctionOnSet(f, S) = h[S]
  BY SumAdds
<1>2. PICK k : Adding(g, S, k) /\ SumFunctionOnSet(g, S) = k[S]
  BY SumAdds
<1>3. S \in SUBSET (S \cap S)
  OBVIOUS
<1> QED
  BY <1>1, <1>2, <1>3, AddingAgrees

\* A sum over no element.
LEMMA SumEmpty ==
  ASSUME NEW f
  PROVE  SumFunctionOnSet(f, {}) = 0
<1>1. PICK h : Adding(f, {}, h) /\ SumFunctionOnSet(f, {}) = h[{}]
  BY SumAdds, FS_EmptySet
<1> QED
  BY <1>1 DEF Adding
=============================================================================
