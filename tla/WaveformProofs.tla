--------------------------- MODULE WaveformProofs ---------------------------
(***************************************************************************)
(* What is recorded of a signal reads back: for any signals and groups,    *)
(* any limits and any times, blocks are valid, every window of a signal    *)
(* and the merged iteration find the emissions, the value at a time is the *)
(* last one emitted, and the activity index names just the signals that    *)
(* change in a window.                                                     *)
(***************************************************************************)
EXTENDS Activity, DataLemmas, TLAPS

-----------------------------------------------------------------------------
(* Sequences. *)

\* Induction over sequences, for a property given as the set of those that have it.
LEMMA Lists ==
  ASSUME NEW T, NEW P, << >> \in P, \A s \in Seq(T) : \A x \in T : s \in P => Append(s, x) \in P
  PROVE  \A s \in Seq(T) : s \in P
<1> DEFINE N == {n \in Nat : \A s \in Seq(T) : Len(s) = n => s \in P}
<1>1. 0 \in N
  <2>1. ASSUME NEW s \in Seq(T), Len(s) = 0 PROVE s = << >>
    BY <2>1, EmptySeq
  <2> QED
    BY <2>1
<1>2. ASSUME NEW n \in Nat, n \in N PROVE n + 1 \in N
  <2>1. ASSUME NEW s \in Seq(T), Len(s) = n + 1 PROVE s \in P
    <3> DEFINE f == SubSeq(s, 1, n)
    <3>1. f \in Seq(T) /\ Len(f) = n /\ \A i \in 1 .. n : f[i] = s[i]
      BY <2>1
    <3>2. s[n + 1] \in T
      BY <2>1, ElementOfSeq
    <3> HIDE DEF f
    <3>3. Append(f, s[n + 1]) = s
      BY <2>1, <3>1, <3>2
    <3> QED
      BY <1>2, <3>1, <3>2, <3>3
  <2> QED
    BY <2>1
<1> HIDE DEF N
<1>3. \A n \in Nat : n \in N
  BY <1>1, <1>2, Induction
<1> QED
  BY <1>3, LenProperties DEF N

\* The elements of a sequence that are in a set, in order.
Filter(seq, S) == Among(seq, LAMBDA x : x \in S)

Filters(f, seq, S) ==
  f = [i \in 0 .. Len(seq) |->
         IF i = 0 THEN << >>
         ELSE IF seq[i] \in S THEN Append(f[i - 1], seq[i]) ELSE f[i - 1]]

LEMMA FilterNone ==
  ASSUME NEW S
  PROVE  Filters([i \in 0 .. 0 |-> << >>], << >>, S)
BY DEF Filters

LEMMA FiltersOne ==
  ASSUME NEW T, NEW s \in Seq(T), NEW x \in T, NEW S, NEW f, Filters(f, s, S)
  PROVE  \E g : /\ Filters(g, Append(s, x), S)
                /\ g[Len(s) + 1] = IF x \in S THEN Append(f[Len(s)], x) ELSE f[Len(s)]
<1> DEFINE n == Len(s)
           t == Append(s, x)
           g == [i \in 0 .. n + 1 |-> IF i = n + 1 THEN IF x \in S THEN Append(f[n], x) ELSE f[n]
                                      ELSE f[i]]
<1>1. n \in Nat /\ Len(t) = n + 1 /\ t[n + 1] = x /\ \A i \in 1 .. n : t[i] = s[i]
  BY AppendOne
<1> HIDE DEF t
<1>2. \A i \in 0 .. n : f[i] = IF i = 0 THEN << >>
                               ELSE IF s[i] \in S THEN Append(f[i - 1], s[i]) ELSE f[i - 1]
  BY <1>1 DEF Filters
<1>3. ASSUME NEW i \in 0 .. n + 1
      PROVE  g[i] = IF i = 0 THEN << >>
                    ELSE IF t[i] \in S THEN Append(g[i - 1], t[i]) ELSE g[i - 1]
  <2>1. CASE i = n + 1
    BY <1>1, <2>1
  <2>2. CASE i # n + 1
    <3>1. i \in 0 .. n /\ (i # 0 => i \in 1 .. n /\ i - 1 \in 0 .. n + 1 /\ i - 1 # n + 1)
      BY <1>1, <2>2
    <3> QED
      BY <1>1, <1>2, <2>2, <3>1
  <2> QED
    BY <2>1, <2>2
<1>4. Filters(g, t, S)
  BY <1>1, <1>3 DEF Filters
<1>5. g[n + 1] = IF x \in S THEN Append(f[n], x) ELSE f[n]
  BY <1>1
<1> QED
  BY <1>4, <1>5 DEF t

LEMMA FiltersExists ==
  ASSUME NEW T, NEW S
  PROVE  \A s \in Seq(T) : \E f : Filters(f, s, S)
<1> DEFINE P == {s \in Seq(T) : \E f : Filters(f, s, S)}
<1>1. << >> \in P
  BY FilterNone
<1>2. ASSUME NEW s \in Seq(T), NEW x \in T, s \in P PROVE Append(s, x) \in P
  BY <1>2, FiltersOne
<1> HIDE DEF P
<1>3. \A s \in Seq(T) : s \in P
  BY <1>1, <1>2, Lists
<1> QED
  BY <1>3 DEF P

LEMMA FiltersUnique ==
  ASSUME NEW s, Len(s) \in Nat, NEW S, NEW f, Filters(f, s, S), NEW g, Filters(g, s, S)
  PROVE  f[Len(s)] = g[Len(s)]
<1> DEFINE P == {n \in Nat : n <= Len(s) => f[n] = g[n]}
<1>1. 0 \in P
  BY DEF Filters
<1>2. ASSUME NEW n \in Nat, n \in P PROVE n + 1 \in P
  <2>1. CASE n + 1 <= Len(s)
    <3>1. n + 1 \in 0 .. Len(s) /\ n + 1 # 0 /\ (n + 1) - 1 = n /\ n <= Len(s)
      BY <2>1
    <3>2. f[n] = g[n]
      BY <1>2, <3>1
    <3>3. f[n + 1] = IF s[n + 1] \in S THEN Append(f[n], s[n + 1]) ELSE f[n]
      BY <3>1 DEF Filters
    <3>4. g[n + 1] = IF s[n + 1] \in S THEN Append(g[n], s[n + 1]) ELSE g[n]
      BY <3>1 DEF Filters
    <3> QED
      BY <3>2, <3>3, <3>4
  <2> QED
    BY <2>1
<1> HIDE DEF P
<1>3. \A n \in Nat : n \in P
  BY <1>1, <1>2, Induction
<1> QED
  BY <1>3 DEF P

LEMMA FilterIs ==
  ASSUME NEW T, NEW s \in Seq(T), NEW S, NEW f, Filters(f, s, S)
  PROVE  Filter(s, S) = f[Len(s)]
<1> DEFINE g == CHOOSE h : Filters(h, s, S)
<1>1. Filters(g, s, S)
  OBVIOUS
<1>2. Filter(s, S) = g[Len(s)]
  BY DEF Filter, Among, Filters
<1> HIDE DEF g
<1> QED
  BY <1>1, <1>2, FiltersUnique, LenProperties

LEMMA FilterEmpty ==
  ASSUME NEW S
  PROVE  Filter(<< >>, S) = << >>
<1>1. << >> \in Seq({})
  OBVIOUS
<1>2. Filter(<< >>, S) = [i \in 0 .. 0 |-> << >>][Len(<< >>)]
  BY <1>1, FilterIs, FilterNone
<1> QED
  BY <1>2

LEMMA FilterAppend ==
  ASSUME NEW T, NEW s \in Seq(T), NEW x \in T, NEW S
  PROVE  Filter(Append(s, x), S) = IF x \in S THEN Append(Filter(s, S), x) ELSE Filter(s, S)
<1>1. PICK f : Filters(f, s, S)
  BY FiltersExists
<1>2. PICK g : /\ Filters(g, Append(s, x), S)
               /\ g[Len(s) + 1] = IF x \in S THEN Append(f[Len(s)], x) ELSE f[Len(s)]
  BY <1>1, FiltersOne
<1>3. Append(s, x) \in Seq(T) /\ Len(Append(s, x)) = Len(s) + 1
  BY AppendOne
<1> QED
  BY <1>1, <1>2, <1>3, FilterIs

LEMMA FilterType ==
  ASSUME NEW T, NEW S
  PROVE  \A s \in Seq(T) : Filter(s, S) \in Seq(T \cap S)
<1> DEFINE P == {s \in Seq(T) : Filter(s, S) \in Seq(T \cap S)}
<1>1. << >> \in P
  <2>1. << >> \in Seq(T) /\ << >> \in Seq(T \cap S)
    BY EmptySeq
  <2> QED
    BY <2>1, FilterEmpty
<1>2. ASSUME NEW s \in Seq(T), NEW x \in T, s \in P PROVE Append(s, x) \in P
  <2>1. Append(s, x) \in Seq(T)
    BY AppendOne
  <2>2. x \in S => Append(Filter(s, S), x) \in Seq(T \cap S)
    BY <1>2, AppendProperties
  <2> QED
    BY <1>2, <2>1, <2>2, FilterAppend
<1> HIDE DEF P
<1>3. \A s \in Seq(T) : s \in P
  BY <1>1, <1>2, Lists
<1> QED
  BY <1>3 DEF P

LEMMA FilterAgree ==
  ASSUME NEW T, NEW S, NEW R, \A x \in T : x \in S <=> x \in R
  PROVE  \A s \in Seq(T) : Filter(s, S) = Filter(s, R)
<1> DEFINE P == {s \in Seq(T) : Filter(s, S) = Filter(s, R)}
<1>1. << >> \in P
  BY FilterEmpty
<1>2. ASSUME NEW s \in Seq(T), NEW x \in T, s \in P PROVE Append(s, x) \in P
  BY <1>2, AppendOne, FilterAppend
<1> HIDE DEF P
<1>3. \A s \in Seq(T) : s \in P
  BY <1>1, <1>2, Lists
<1> QED
  BY <1>3 DEF P

LEMMA FilterAll ==
  ASSUME NEW T, NEW S, T \subseteq S
  PROVE  \A s \in Seq(T) : Filter(s, S) = s
<1> DEFINE P == {s \in Seq(T) : Filter(s, S) = s}
<1>1. << >> \in P
  BY FilterEmpty
<1>2. ASSUME NEW s \in Seq(T), NEW x \in T, s \in P PROVE Append(s, x) \in P
  BY <1>2, AppendOne, FilterAppend
<1> HIDE DEF P
<1>3. \A s \in Seq(T) : s \in P
  BY <1>1, <1>2, Lists
<1> QED
  BY <1>3 DEF P

LEMMA FilterNothing ==
  ASSUME NEW T, NEW S, T \cap S = {}
  PROVE  \A s \in Seq(T) : Filter(s, S) = << >>
<1> DEFINE P == {s \in Seq(T) : Filter(s, S) = << >>}
<1>1. << >> \in P
  BY FilterEmpty
<1>2. ASSUME NEW s \in Seq(T), NEW x \in T, s \in P PROVE Append(s, x) \in P
  BY <1>2, AppendOne, FilterAppend
<1> HIDE DEF P
<1>3. \A s \in Seq(T) : s \in P
  BY <1>1, <1>2, Lists
<1> QED
  BY <1>3 DEF P

LEMMA JoinAppend ==
  ASSUME NEW T, NEW s \in Seq(T), NEW t \in Seq(T), NEW x \in T
  PROVE  /\ s \o Append(t, x) = Append(s \o t, x)
         /\ s \o << >> = s /\ << >> \o s = s
  <1>1. s \o t \in Seq(T) /\ Append(t, x) \in Seq(T) /\ Append(s \o t, x) \in Seq(T)
    BY ConcatProperties, AppendProperties
  <1>2. s \o Append(t, x) = Append(s \o t, x)
    OBVIOUS
  <1> QED
    BY <1>2, ConcatEmptySeq

LEMMA FilterJoin ==
  ASSUME NEW T, NEW s \in Seq(T), NEW S
  PROVE  \A t \in Seq(T) : Filter(s \o t, S) = Filter(s, S) \o Filter(t, S)
<1> DEFINE P == {t \in Seq(T) : Filter(s \o t, S) = Filter(s, S) \o Filter(t, S)}
<1>0. \A t \in Seq(T) : Filter(t, S) \in Seq(T)
  <2>1. \A t \in Seq(T) : Filter(t, S) \in Seq(T \cap S)
    BY FilterType
  <2>2. \A t : t \in Seq(T \cap S) => t \in Seq(T)
    BY SeqMonotonic
  <2> QED
    BY <2>1, <2>2
<1>1. << >> \in P
  BY <1>0, FilterEmpty, ConcatEmptySeq
<1>2. ASSUME NEW t \in Seq(T), NEW x \in T, t \in P PROVE Append(t, x) \in P
  <2>1. s \o Append(t, x) = Append(s \o t, x) /\ s \o t \in Seq(T) /\ Append(t, x) \in Seq(T)
    BY JoinAppend, JoinTwo, AppendOne
  <2>2. Filter(s, S) \o Append(Filter(t, S), x) = Append(Filter(s, S) \o Filter(t, S), x)
    BY <1>0, JoinAppend
  <2>3. Filter(Append(s \o t, x), S)
          = IF x \in S THEN Append(Filter(s \o t, S), x) ELSE Filter(s \o t, S)
    BY <2>1, FilterAppend
  <2>4. Filter(Append(t, x), S) = IF x \in S THEN Append(Filter(t, S), x) ELSE Filter(t, S)
    BY FilterAppend
  <2>5. Filter(s \o t, S) = Filter(s, S) \o Filter(t, S)
    BY <1>2
  <2>6. Filter(s \o Append(t, x), S) = Filter(s, S) \o Filter(Append(t, x), S)
    <3>1. CASE x \in S
      BY <2>1, <2>2, <2>3, <2>4, <2>5, <3>1, Zenon
    <3>2. CASE x \notin S
      BY <2>1, <2>3, <2>4, <2>5, <3>2, Zenon
    <3> QED
      BY <3>1, <3>2
  <2> QED
    BY <2>1, <2>6
<1> HIDE DEF P
<1>3. \A t \in Seq(T) : t \in P
  BY <1>1, <1>2, Lists
<1> QED
  BY <1>3 DEF P

\* The sequence of the images under a function.
Mapped(m, s) == [i \in DOMAIN s |-> m[s[i]]]
Maps(m, T, U) == \A x \in T : m[x] \in U

LEMMA MappedNone ==
  ASSUME NEW m
  PROVE  Mapped(m, << >>) = << >>
BY DEF Mapped

LEMMA MappedType ==
  ASSUME NEW T, NEW U, NEW m, Maps(m, T, U), NEW s \in Seq(T)
  PROVE  Mapped(m, s) \in Seq(U) /\ Len(Mapped(m, s)) = Len(s)
<1>1. Len(s) \in Nat /\ DOMAIN s = 1 .. Len(s) /\ \A i \in 1 .. Len(s) : s[i] \in T
  BY LenProperties, ElementOfSeq
<1> QED
  BY <1>1 DEF Mapped, Maps

LEMMA MappedOne ==
  ASSUME NEW T, NEW U, NEW m, Maps(m, T, U), NEW s \in Seq(T), NEW x \in T
  PROVE  Mapped(m, Append(s, x)) = Append(Mapped(m, s), m[x])
<1> DEFINE q == Mapped(m, s)
           t == Append(s, x)
<1>0. m[x] \in U
  BY DEF Maps
<1>1. /\ t \in Seq(T) /\ Len(s) \in Nat /\ Len(t) = Len(s) + 1 /\ t[Len(s) + 1] = x
      /\ \A i \in 1 .. Len(s) : t[i] = s[i]
  BY AppendOne
<1>a. q \in Seq(U) /\ Len(q) = Len(s)
  BY MappedType
<1>3. \A i \in 1 .. Len(s) : q[i] = m[s[i]]
  BY DEF Mapped
<1>4. Mapped(m, t) = [i \in 1 .. Len(s) + 1 |-> m[t[i]]]
  BY <1>1 DEF Mapped
<1> HIDE DEF q, t
<1>2. /\ Append(q, m[x]) \in Seq(U) /\ Len(Append(q, m[x])) = Len(s) + 1
      /\ Append(q, m[x])[Len(s) + 1] = m[x]
      /\ \A i \in 1 .. Len(s) : Append(q, m[x])[i] = q[i]
  BY <1>0, <1>a, AppendOne
<1>5. Append(q, m[x]) = [i \in 1 .. Len(s) + 1 |-> Append(q, m[x])[i]]
  BY <1>2
<1>6. \A i \in 1 .. Len(s) + 1 : Append(q, m[x])[i] = m[t[i]]
  <2> TAKE i \in 1 .. Len(s) + 1
  <2>1. i \in 1 .. Len(s) \/ i = Len(s) + 1
    BY <1>1
  <2> QED
    BY <1>1, <1>2, <1>3, <2>1
<1> QED
  BY <1>4, <1>5, <1>6 DEF q, t

LEMMA MappedFilter ==
  ASSUME NEW T, NEW U, NEW m, Maps(m, T, U), NEW S, NEW R, \A x \in T : x \in S <=> m[x] \in R
  PROVE  \A s \in Seq(T) : Mapped(m, Filter(s, S)) = Filter(Mapped(m, s), R)
<1> DEFINE P == {s \in Seq(T) : Mapped(m, Filter(s, S)) = Filter(Mapped(m, s), R)}
<1>1. << >> \in P
  BY FilterEmpty, MappedNone
<1>2. ASSUME NEW s \in Seq(T), NEW x \in T, s \in P PROVE Append(s, x) \in P
  <2>1. Filter(s, S) \in Seq(T)
    <3>1. Filter(s, S) \in Seq(T \cap S)
      BY FilterType
    <3> QED
      BY <3>1, SeqMonotonic
  <2>2. /\ Append(s, x) \in Seq(T) /\ Mapped(m, s) \in Seq(U) /\ m[x] \in U
        /\ Mapped(m, Append(s, x)) = Append(Mapped(m, s), m[x])
        /\ Mapped(m, Append(Filter(s, S), x)) = Append(Mapped(m, Filter(s, S)), m[x])
    <3>1. Append(s, x) \in Seq(T)
      BY AppendOne
    <3>2. Mapped(m, s) \in Seq(U)
      BY MappedType
    <3>3. m[x] \in U
      BY DEF Maps
    <3>4. Mapped(m, Append(s, x)) = Append(Mapped(m, s), m[x])
      BY MappedOne
    <3>5. Mapped(m, Append(Filter(s, S), x)) = Append(Mapped(m, Filter(s, S)), m[x])
      BY <2>1, MappedOne
    <3> QED
      BY <3>1, <3>2, <3>3, <3>4, <3>5
  <2>3. Filter(Append(s, x), S) = IF x \in S THEN Append(Filter(s, S), x) ELSE Filter(s, S)
    BY FilterAppend
  <2>4. Filter(Append(Mapped(m, s), m[x]), R)
          = IF m[x] \in R THEN Append(Filter(Mapped(m, s), R), m[x]) ELSE Filter(Mapped(m, s), R)
    <3>1. Mapped(m, s) \in Seq(U) /\ m[x] \in U
      BY <2>2
    <3> DEFINE q == Mapped(m, s)
               y == m[x]
    <3>2. q \in Seq(U) /\ y \in U
      BY <3>1
    <3> HIDE DEF q, y
    <3>3. Filter(Append(q, y), R) = IF y \in R THEN Append(Filter(q, R), y) ELSE Filter(q, R)
      BY <3>2, FilterAppend
    <3> QED
      BY <3>3 DEF q, y
  <2> QED
    BY <1>2, <2>2, <2>3, <2>4
<1> HIDE DEF P
<1>3. \A s \in Seq(T) : s \in P
  BY <1>1, <1>2, Lists
<1> QED
  BY <1>3 DEF P

LEMMA MappedJoin ==
  ASSUME NEW T, NEW U, NEW m, Maps(m, T, U), NEW s \in Seq(T)
  PROVE  \A t \in Seq(T) : Mapped(m, s \o t) = Mapped(m, s) \o Mapped(m, t)
<1> DEFINE P == {t \in Seq(T) : Mapped(m, s \o t) = Mapped(m, s) \o Mapped(m, t)}
<1>0. \A t \in Seq(T) : Mapped(m, t) \in Seq(U)
  BY MappedType
<1>a. \A q \in Seq(T) : \A y \in T : Mapped(m, Append(q, y)) = Append(Mapped(m, q), m[y])
  BY MappedOne
<1>b. \A y \in T : m[y] \in U
  BY DEF Maps
<1>1. << >> \in P
  <2>1. Mapped(m, << >>) = << >> /\ s \o << >> = s /\ Mapped(m, s) \o << >> = Mapped(m, s)
    BY <1>0, MappedNone, ConcatEmptySeq
  <2>2. << >> \in Seq(T)
    BY EmptySeq
  <2> QED
    BY <2>1, <2>2, Zenon
<1>2. ASSUME NEW t \in Seq(T), NEW x \in T, t \in P PROVE Append(t, x) \in P
  <2>1. s \o Append(t, x) = Append(s \o t, x) /\ s \o t \in Seq(T) /\ Append(t, x) \in Seq(T)
    BY JoinAppend, JoinTwo, AppendOne
  <2>2. Mapped(m, s) \o Append(Mapped(m, t), m[x]) = Append(Mapped(m, s) \o Mapped(m, t), m[x])
    BY <1>0, <1>b, JoinAppend
  <2>3. Mapped(m, Append(s \o t, x)) = Append(Mapped(m, s \o t), m[x])
    BY <1>a, <2>1, Zenon
  <2>4. Mapped(m, Append(t, x)) = Append(Mapped(m, t), m[x])
    BY <1>a, Zenon
  <2>5. Mapped(m, s \o t) = Mapped(m, s) \o Mapped(m, t)
    BY <1>2
  <2> QED
    BY <2>1, <2>2, <2>3, <2>4, <2>5, Zenon
<1> HIDE DEF P
<1>3. \A t \in Seq(T) : t \in P
  BY <1>1, <1>2, Lists
<1> QED
  BY <1>3 DEF P

\* A sequence of sequences, joined.
LEMMA FlattenNone == FlattenSeq(<< >>) = << >>
BY DEF FlattenSeq

Flattens(f, ss) ==
  f = [i \in 1 .. Len(ss) |-> IF i = 1 THEN ss[i] ELSE f[i - 1] \o ss[i]]

LEMMA FlattensOne ==
  ASSUME NEW T, NEW ss \in Seq(Seq(T)), NEW x \in Seq(T), NEW f, Flattens(f, ss)
  PROVE  \E g : /\ Flattens(g, Append(ss, x))
                /\ g[Len(ss) + 1] = IF ss = << >> THEN x ELSE f[Len(ss)] \o x
<1> DEFINE n == Len(ss)
           t == Append(ss, x)
           g == [i \in 1 .. n + 1 |-> IF i = n + 1 THEN IF n = 0 THEN x ELSE f[n] \o x ELSE f[i]]
<1>1. n \in Nat /\ Len(t) = n + 1 /\ t[n + 1] = x /\ \A i \in 1 .. n : t[i] = ss[i]
  BY AppendOne
<1>2. n = 0 <=> ss = << >>
  BY EmptySeq
<1> HIDE DEF t
<1>3. \A i \in 1 .. n : f[i] = IF i = 1 THEN ss[i] ELSE f[i - 1] \o ss[i]
  BY <1>1 DEF Flattens
<1>4. ASSUME NEW i \in 1 .. n + 1
      PROVE  g[i] = IF i = 1 THEN t[i] ELSE g[i - 1] \o t[i]
  <2>1. CASE i = n + 1
    <3>1. i # 1 => n \in 1 .. n + 1 /\ n # n + 1 /\ i - 1 = n
      BY <1>1, <2>1
    <3> QED
      BY <1>1, <2>1, <3>1
  <2>2. CASE i # n + 1
    <3>1. i \in 1 .. n /\ (i # 1 => i - 1 \in 1 .. n + 1 /\ i - 1 # n + 1)
      BY <1>1, <2>2
    <3> QED
      BY <1>1, <1>3, <2>2, <3>1
  <2> QED
    BY <2>1, <2>2
<1>5. Flattens(g, t)
  <2>1. g = [i \in 1 .. n + 1 |-> g[i]]
    OBVIOUS
  <2> HIDE DEF g
  <2> QED
    BY <1>1, <1>4, <2>1 DEF Flattens
<1>6. g[n + 1] = IF ss = << >> THEN x ELSE f[n] \o x
  BY <1>1, <1>2
<1> QED
  BY <1>5, <1>6 DEF t

LEMMA FlattensExists ==
  ASSUME NEW T
  PROVE  \A ss \in Seq(Seq(T)) : \E f : Flattens(f, ss)
<1> DEFINE P == {ss \in Seq(Seq(T)) : \E f : Flattens(f, ss)}
<1>1. << >> \in P
  <2>1. << >> \in Seq(Seq(T)) /\ Len(<< >>) = 0
    BY EmptySeq
  <2>2. Flattens([i \in 1 .. 0 |-> i], << >>)
    BY <2>1 DEF Flattens
  <2> QED
    BY <2>1, <2>2
<1>2. ASSUME NEW s \in Seq(Seq(T)), NEW x \in Seq(T), s \in P PROVE Append(s, x) \in P
  <2>1. PICK f : Flattens(f, s)
    BY <1>2
  <2>2. \E g : Flattens(g, Append(s, x))
    BY <2>1, FlattensOne
  <2> QED
    BY <2>2, AppendOne
<1> HIDE DEF P
<1>3. \A s \in Seq(Seq(T)) : s \in P
  BY <1>1, <1>2, Lists
<1> QED
  BY <1>3 DEF P

LEMMA FlattensUnique ==
  ASSUME NEW s, Len(s) \in Nat, Len(s) >= 1, NEW f, Flattens(f, s), NEW g, Flattens(g, s)
  PROVE  f[Len(s)] = g[Len(s)]
<1> DEFINE P == {n \in Nat : n >= 1 /\ n <= Len(s) => f[n] = g[n]}
<1>1. 0 \in P
  OBVIOUS
<1>2. ASSUME NEW n \in Nat, n \in P PROVE n + 1 \in P
  <2>1. CASE n + 1 <= Len(s)
    <3>1. n + 1 \in 1 .. Len(s) /\ (n + 1) - 1 = n /\ n <= Len(s) /\ (n + 1 # 1 => n >= 1)
      BY <2>1
    <3>2. n + 1 # 1 => f[n] = g[n]
      BY <1>2, <3>1
    <3>3. f[n + 1] = IF n + 1 = 1 THEN s[n + 1] ELSE f[n] \o s[n + 1]
      BY <3>1 DEF Flattens
    <3>4. g[n + 1] = IF n + 1 = 1 THEN s[n + 1] ELSE g[n] \o s[n + 1]
      BY <3>1 DEF Flattens
    <3> QED
      BY <3>2, <3>3, <3>4
  <2> QED
    BY <2>1
<1> HIDE DEF P
<1>3. \A n \in Nat : n \in P
  BY <1>1, <1>2, Induction
<1> QED
  BY <1>3 DEF P

LEMMA FlattenIs ==
  ASSUME NEW T, NEW s \in Seq(Seq(T)), s # << >>, NEW f, Flattens(f, s)
  PROVE  FlattenSeq(s) = f[Len(s)]
<1> DEFINE g == CHOOSE h : Flattens(h, s)
<1>1. Flattens(g, s)
  OBVIOUS
<1>2. Len(s) \in Nat /\ Len(s) # 0 /\ Len(s) >= 1
  BY EmptySeq, LenProperties
<1>3. FlattenSeq(s) = g[Len(s)]
  BY <1>2 DEF FlattenSeq, Flattens
<1> HIDE DEF g
<1> QED
  BY <1>1, <1>2, <1>3, FlattensUnique

LEMMA FlattenAppend ==
  ASSUME NEW T, NEW ss \in Seq(Seq(T)), NEW x \in Seq(T)
  PROVE  FlattenSeq(Append(ss, x)) = FlattenSeq(ss) \o x
<1>1. PICK f : Flattens(f, ss)
  BY FlattensExists
<1>2. PICK g : /\ Flattens(g, Append(ss, x))
               /\ g[Len(ss) + 1] = IF ss = << >> THEN x ELSE f[Len(ss)] \o x
  BY <1>1, FlattensOne
<1>3. /\ Append(ss, x) \in Seq(Seq(T)) /\ Len(Append(ss, x)) = Len(ss) + 1
      /\ Len(ss) \in Nat
  BY AppendOne
<1>4. Append(ss, x) # << >>
  BY <1>3, EmptySeq
<1>5. FlattenSeq(Append(ss, x)) = g[Len(ss) + 1]
  BY <1>2, <1>3, <1>4, FlattenIs
<1>6. ss # << >> => FlattenSeq(ss) = f[Len(ss)]
  BY <1>1, FlattenIs
<1>7. << >> \o x = x
  BY ConcatEmptySeq
<1> QED
  BY <1>2, <1>5, <1>6, <1>7, FlattenNone

LEMMA FlattenType ==
  ASSUME NEW T
  PROVE  \A ss \in Seq(Seq(T)) : FlattenSeq(ss) \in Seq(T)
<1> DEFINE P == {ss \in Seq(Seq(T)) : FlattenSeq(ss) \in Seq(T)}
<1>1. << >> \in P
  <2>1. << >> \in Seq(Seq(T)) /\ << >> \in Seq(T)
    BY EmptySeq
  <2> QED
    BY <2>1, FlattenNone
<1>2. ASSUME NEW s \in Seq(Seq(T)), NEW x \in Seq(T), s \in P PROVE Append(s, x) \in P
  <2>1. Append(s, x) \in Seq(Seq(T)) /\ FlattenSeq(Append(s, x)) = FlattenSeq(s) \o x
    BY AppendOne, FlattenAppend
  <2>2. FlattenSeq(s) \in Seq(T)
    BY <1>2
  <2>3. FlattenSeq(s) \o x \in Seq(T)
    BY <2>2, ConcatProperties
  <2> QED
    BY <2>1, <2>3
<1> HIDE DEF P
<1>3. \A s \in Seq(Seq(T)) : s \in P
  BY <1>1, <1>2, Lists
<1> QED
  BY <1>3 DEF P

LEMMA MappedAgree ==
  ASSUME NEW T, NEW m, NEW q, \A x \in T : m[x] = q[x]
  PROVE  \A s \in Seq(T) : Mapped(m, s) = Mapped(q, s)
<1> TAKE s \in Seq(T)
<1>1. \A i \in DOMAIN s : s[i] \in T
  OBVIOUS
<1> QED
  BY <1>1 DEF Mapped

-----------------------------------------------------------------------------
(* The selections of the module are filters. *)

Within(T, a, z) == {c \in T : InWindow(a, z, c)}

LEMMA AmongWindow ==
  ASSUME NEW T, NEW s \in Seq(T), NEW a, NEW z
  PROVE  Among(s, LAMBDA e : InWindow(a, z, e)) = Filter(s, Within(T, a, z))
<1> DEFINE Body(f) == [i \in 0 .. Len(s) |->
                         IF i = 0 THEN << >>
                         ELSE IF InWindow(a, z, s[i]) THEN Append(f[i - 1], s[i]) ELSE f[i - 1]]
           g == CHOOSE f : f = Body(f)
<1>1. ASSUME NEW f PROVE f = Body(f) <=> Filters(f, s, Within(T, a, z))
  <2>1. \A i \in 0 .. Len(s) : i # 0 => (InWindow(a, z, s[i]) <=> s[i] \in Within(T, a, z))
    BY DEF Within
  <2> QED
    BY <2>1 DEF Filters
<1>2. Among(s, LAMBDA e : InWindow(a, z, e)) = g[Len(s)]
  BY DEF Among
<1>3. \E f : Filters(f, s, Within(T, a, z))
  BY FiltersExists
<1>4. Filters(g, s, Within(T, a, z))
  <2>1. PICK f : f = Body(f)
    BY <1>1, <1>3, SMTT(30)
  <2>2. g = Body(g)
    BY <2>1
  <2> QED
    BY <1>1, <2>2
<1> HIDE DEF g
<1> QED
  BY <1>2, <1>4, FilterIs

SignalIs(T, s) == {e \in T : e.signal = s}

LEMMA AmongSignal ==
  ASSUME NEW T, NEW q \in Seq(T), NEW s
  PROVE  Among(q, LAMBDA e : e.signal = s) = Filter(q, SignalIs(T, s))
<1> DEFINE Body(f) == [i \in 0 .. Len(q) |->
                         IF i = 0 THEN << >>
                         ELSE IF q[i].signal = s THEN Append(f[i - 1], q[i]) ELSE f[i - 1]]
           g == CHOOSE f : f = Body(f)
<1>1. ASSUME NEW f PROVE f = Body(f) <=> Filters(f, q, SignalIs(T, s))
  <2>1. \A i \in 0 .. Len(q) : i # 0 => (q[i].signal = s <=> q[i] \in SignalIs(T, s))
    BY DEF SignalIs
  <2> QED
    BY <2>1 DEF Filters
<1>2. Among(q, LAMBDA e : e.signal = s) = g[Len(q)]
  BY DEF Among
<1>3. \E f : Filters(f, q, SignalIs(T, s))
  BY FiltersExists
<1>4. Filters(g, q, SignalIs(T, s))
  <2>1. PICK f : f = Body(f)
    BY <1>1, <1>3, SMTT(30)
  <2>2. g = Body(g)
    BY <2>1
  <2> QED
    BY <1>1, <2>2
<1> HIDE DEF g
<1> QED
  BY <1>2, <1>4, FilterIs

Meeting(T, a, z) == {b \in T : b.start <= z /\ b.end >= a}

LEMMA AmongBlocks ==
  ASSUME NEW T, NEW bs \in Seq(T), NEW a, NEW z
  PROVE  Among(bs, LAMBDA b : b.start <= z /\ b.end >= a) = Filter(bs, Meeting(T, a, z))
<1> DEFINE Body(f) == [i \in 0 .. Len(bs) |->
                         IF i = 0 THEN << >>
                         ELSE IF bs[i].start <= z /\ bs[i].end >= a
                              THEN Append(f[i - 1], bs[i]) ELSE f[i - 1]]
           g == CHOOSE f : f = Body(f)
<1>1. ASSUME NEW f PROVE f = Body(f) <=> Filters(f, bs, Meeting(T, a, z))
  <2>1. \A i \in 0 .. Len(bs) : i # 0 =>
          ((bs[i].start <= z /\ bs[i].end >= a) <=> bs[i] \in Meeting(T, a, z))
    BY DEF Meeting
  <2> QED
    BY <2>1 DEF Filters
<1>2. Among(bs, LAMBDA b : b.start <= z /\ b.end >= a) = g[Len(bs)]
  BY SMTT(30) DEF Among
<1>3. \E f : Filters(f, bs, Meeting(T, a, z))
  BY FiltersExists
<1>4. Filters(g, bs, Meeting(T, a, z))
  <2>1. PICK f : f = Body(f)
    BY <1>1, <1>3, SMTT(30)
  <2>2. g = Body(g)
    BY <2>1
  <2> QED
    BY <1>1, <2>2
<1> HIDE DEF g
<1> QED
  BY <1>2, <1>4, FilterIs

-----------------------------------------------------------------------------
(* Decoding. *)

Kinds == [form : {"bit", "bits", "bytes"}, states : {2, 4, 9}]
Steps == [delta : Nat, how : {"toggle", "code", "compact", "full"}, code : Nat]
Changed == [index : Nat, code : Int, states : Nat]

\* What an entry stands for after the changes d.
Reached(kind, d, e) ==
  [index |-> (IF Len(d) = 0 THEN 0 ELSE d[Len(d)].index) + e.delta,
   code |-> IF e.how # "toggle" THEN e.code ELSE 1 - (IF Len(d) = 0 THEN NoCode ELSE d[Len(d)].code),
   states |-> IF e.how = "compact" THEN 2 ELSE kind.states]

Decodes(f, kind, entries) ==
  f = [i \in 0 .. Len(entries) |->
         IF i = 0 THEN << >>
         ELSE Append(f[i - 1],
                [index |-> (IF i = 1 THEN 0 ELSE f[i - 1][i - 1].index) + entries[i].delta,
                 code |-> IF entries[i].how # "toggle" THEN entries[i].code
                          ELSE 1 - (IF i = 1 THEN NoCode ELSE f[i - 1][i - 1].code),
                 states |-> IF entries[i].how = "compact" THEN 2 ELSE kind.states])]

LEMMA ReachedType ==
  ASSUME NEW kind \in Kinds, NEW d \in Seq(Changed), NEW e \in Steps
  PROVE  Reached(kind, d, e) \in Changed
<1>1. Len(d) \in Nat /\ (Len(d) # 0 => d[Len(d)] \in Changed)
  BY LenProperties, ElementOfSeq
<1>2. Len(d) # 0 => d[Len(d)].index \in Nat /\ d[Len(d)].code \in Int
  BY <1>1 DEF Changed
<1>3. e.delta \in Nat /\ e.code \in Nat /\ kind.states \in Nat
  BY DEF Steps, Kinds
<1> QED
  BY <1>1, <1>2, <1>3 DEF Reached, Changed, NoCode

LEMMA DecodesOne ==
  ASSUME NEW kind \in Kinds, NEW s \in Seq(Steps), NEW x \in Steps, NEW f, Decodes(f, kind, s),
         f[Len(s)] \in Seq(Changed), Len(f[Len(s)]) = Len(s)
  PROVE  \E g : /\ Decodes(g, kind, Append(s, x))
                /\ g[Len(s) + 1] = Append(f[Len(s)], Reached(kind, f[Len(s)], x))
<1> DEFINE n == Len(s)
           t == Append(s, x)
           r == Reached(kind, f[n], x)
           g == [i \in 0 .. n + 1 |-> IF i = n + 1 THEN Append(f[n], r) ELSE f[i]]
           Body(h, q, i) == Append(h[i - 1],
                [index |-> (IF i = 1 THEN 0 ELSE h[i - 1][i - 1].index) + q[i].delta,
                 code |-> IF q[i].how # "toggle" THEN q[i].code
                          ELSE 1 - (IF i = 1 THEN NoCode ELSE h[i - 1][i - 1].code),
                 states |-> IF q[i].how = "compact" THEN 2 ELSE kind.states])
<1>1. n \in Nat /\ Len(t) = n + 1 /\ t[n + 1] = x /\ \A i \in 1 .. n : t[i] = s[i]
  BY AppendOne
<1> HIDE DEF t
<1>2. \A i \in 0 .. n : f[i] = IF i = 0 THEN << >> ELSE Body(f, s, i)
  BY <1>1 DEF Decodes
<1>3. ASSUME NEW i \in 0 .. n + 1
      PROVE  g[i] = IF i = 0 THEN << >> ELSE Body(g, t, i)
  <2>1. CASE i = n + 1
    <3>1. i - 1 = n /\ i # 0 /\ (i = 1 <=> n = 0) /\ g[i - 1] = f[n] /\ Len(f[n]) = n
      BY <1>1, <2>1
    <3>2. r = [index |-> (IF i = 1 THEN 0 ELSE g[i - 1][i - 1].index) + t[i].delta,
                 code |-> IF t[i].how # "toggle" THEN t[i].code
                          ELSE 1 - (IF i = 1 THEN NoCode ELSE g[i - 1][i - 1].code),
                 states |-> IF t[i].how = "compact" THEN 2 ELSE kind.states]
      BY <1>1, <2>1, <3>1, Zenon DEF Reached
    <3>3. g[i] = Append(f[n], r)
      BY <1>1, <2>1
    <3> HIDE DEF r, g
    <3> QED
      BY <3>1, <3>2, <3>3
  <2>2. CASE i # n + 1
    <3>1. i \in 0 .. n /\ (i # 0 => i \in 1 .. n /\ i - 1 \in 0 .. n + 1 /\ i - 1 # n + 1)
      BY <1>1, <2>2
    <3>2. g[i] = f[i] /\ (i # 0 => g[i - 1] = f[i - 1] /\ t[i] = s[i])
      BY <1>1, <2>2, <3>1
    <3> HIDE DEF g
    <3>3. f[i] = IF i = 0 THEN << >> ELSE Body(f, s, i)
      BY <1>2, <3>1
    <3> QED
      BY <3>2, <3>3
  <2> QED
    BY <2>1, <2>2
<1>4. Decodes(g, kind, t)
  <2>1. g = [i \in 0 .. n + 1 |-> g[i]]
    OBVIOUS
  <2> HIDE DEF g
  <2> QED
    BY <1>1, <1>3, <2>1, ZenonT(30) DEF Decodes
<1>5. g[n + 1] = Append(f[n], r)
  BY <1>1
<1> QED
  BY <1>4, <1>5, SMTT(30) DEF t

LEMMA DecodesExists ==
  ASSUME NEW kind \in Kinds
  PROVE  \A s \in Seq(Steps) : \E f : /\ Decodes(f, kind, s)
                                      /\ f[Len(s)] \in Seq(Changed) /\ Len(f[Len(s)]) = Len(s)
<1> DEFINE P == {s \in Seq(Steps) :
                   \E f : /\ Decodes(f, kind, s)
                          /\ f[Len(s)] \in Seq(Changed) /\ Len(f[Len(s)]) = Len(s)}
<1>1. << >> \in P
  <2>1. << >> \in Seq(Steps) /\ Len(<< >>) = 0 /\ << >> \in Seq(Changed)
    BY EmptySeq
  <2> DEFINE f == [i \in 0 .. 0 |-> << >>]
  <2>2. Decodes(f, kind, << >>) /\ f[0] = << >>
    BY <2>1 DEF Decodes
  <2> QED
    BY <2>1, <2>2
<1>2. ASSUME NEW s \in Seq(Steps), NEW x \in Steps, s \in P PROVE Append(s, x) \in P
  <2>1. PICK f : /\ Decodes(f, kind, s)
                 /\ f[Len(s)] \in Seq(Changed) /\ Len(f[Len(s)]) = Len(s)
    BY <1>2
  <2>2. PICK g : /\ Decodes(g, kind, Append(s, x))
                 /\ g[Len(s) + 1] = Append(f[Len(s)], Reached(kind, f[Len(s)], x))
    BY <2>1, DecodesOne
  <2>3. Append(s, x) \in Seq(Steps) /\ Len(Append(s, x)) = Len(s) + 1
    BY AppendOne
  <2>4. Reached(kind, f[Len(s)], x) \in Changed
    BY <2>1, ReachedType
  <2>5. g[Len(s) + 1] \in Seq(Changed) /\ Len(g[Len(s) + 1]) = Len(s) + 1
    BY <2>1, <2>2, <2>4, AppendOne
  <2> QED
    BY <2>2, <2>3, <2>5
<1> HIDE DEF P
<1>3. \A s \in Seq(Steps) : s \in P
  BY <1>1, <1>2, Lists
<1> QED
  BY <1>3 DEF P

LEMMA DecodesUnique ==
  ASSUME NEW kind, NEW s, Len(s) \in Nat, NEW f, Decodes(f, kind, s), NEW g, Decodes(g, kind, s)
  PROVE  f[Len(s)] = g[Len(s)]
<1> DEFINE P == {n \in Nat : n <= Len(s) => f[n] = g[n]}
           Body(h, i) == Append(h[i - 1],
                [index |-> (IF i = 1 THEN 0 ELSE h[i - 1][i - 1].index) + s[i].delta,
                 code |-> IF s[i].how # "toggle" THEN s[i].code
                          ELSE 1 - (IF i = 1 THEN NoCode ELSE h[i - 1][i - 1].code),
                 states |-> IF s[i].how = "compact" THEN 2 ELSE kind.states])
<1>1. 0 \in P
  BY DEF Decodes
<1>2. ASSUME NEW n \in Nat, n \in P PROVE n + 1 \in P
  <2>1. CASE n + 1 <= Len(s)
    <3>1. n + 1 \in 0 .. Len(s) /\ n + 1 # 0 /\ (n + 1) - 1 = n /\ n <= Len(s)
      BY <2>1
    <3>2. f[n] = g[n]
      BY <1>2, <3>1
    <3>3. f[n + 1] = Body(f, n + 1)
      BY <3>1 DEF Decodes
    <3>4. g[n + 1] = Body(g, n + 1)
      BY <3>1 DEF Decodes
    <3>5. f[(n + 1) - 1] = g[(n + 1) - 1]
      BY <3>1, <3>2
    <3>6. Body(f, n + 1) = Body(g, n + 1)
      BY <3>5, Zenon
    <3> HIDE DEF Body
    <3> QED
      BY <3>1, <3>3, <3>4, <3>6
  <2> QED
    BY <2>1
<1> HIDE DEF P
<1>3. \A n \in Nat : n \in P
  BY <1>1, <1>2, Induction
<1> QED
  BY <1>3 DEF P

LEMMA DecodedIs ==
  ASSUME NEW kind \in Kinds, NEW s \in Seq(Steps), NEW f, Decodes(f, kind, s)
  PROVE  Decoded(kind, s) = f[Len(s)]
<1> DEFINE g == CHOOSE h : Decodes(h, kind, s)
<1>1. Decodes(g, kind, s)
  OBVIOUS
<1>2. Decoded(kind, s) = g[Len(s)]
  BY DEF Decoded, Decodes
<1> HIDE DEF g
<1> QED
  BY <1>1, <1>2, DecodesUnique, LenProperties

\* A column decodes entry by entry.
LEMMA DecodedAppend ==
  ASSUME NEW kind \in Kinds
  PROVE  /\ Decoded(kind, << >>) = << >>
         /\ \A s \in Seq(Steps) :
              /\ Decoded(kind, s) \in Seq(Changed) /\ Len(Decoded(kind, s)) = Len(s)
              /\ \A x \in Steps : Decoded(kind, Append(s, x))
                                    = Append(Decoded(kind, s), Reached(kind, Decoded(kind, s), x))
<1>1. Decoded(kind, << >>) = << >>
  <2>1. << >> \in Seq(Steps) /\ Len(<< >>) = 0
    BY EmptySeq
  <2>2. PICK f : Decodes(f, kind, << >>)
    BY <2>1, DecodesExists
  <2>3. f[0] = << >>
    BY <2>1, <2>2 DEF Decodes
  <2> QED
    BY <2>1, <2>2, <2>3, DecodedIs
<1>2. ASSUME NEW s \in Seq(Steps)
      PROVE  /\ Decoded(kind, s) \in Seq(Changed) /\ Len(Decoded(kind, s)) = Len(s)
             /\ \A x \in Steps : Decoded(kind, Append(s, x))
                                    = Append(Decoded(kind, s), Reached(kind, Decoded(kind, s), x))
  <2>1. PICK f : /\ Decodes(f, kind, s)
                 /\ f[Len(s)] \in Seq(Changed) /\ Len(f[Len(s)]) = Len(s)
    BY DecodesExists
  <2>2. Decoded(kind, s) = f[Len(s)]
    BY <2>1, DecodedIs
  <2>3. ASSUME NEW x \in Steps
        PROVE  Decoded(kind, Append(s, x))
                 = Append(Decoded(kind, s), Reached(kind, Decoded(kind, s), x))
    <3>1. PICK g : /\ Decodes(g, kind, Append(s, x))
                   /\ g[Len(s) + 1] = Append(f[Len(s)], Reached(kind, f[Len(s)], x))
      BY <2>1, DecodesOne
    <3>2. Append(s, x) \in Seq(Steps) /\ Len(Append(s, x)) = Len(s) + 1
      BY AppendOne
    <3>3. Decoded(kind, Append(s, x)) = g[Len(Append(s, x))]
      BY <3>1, <3>2, DecodedIs
    <3> QED
      BY <2>2, <3>1, <3>2, <3>3
  <2> QED
    BY <2>1, <2>2, <2>3
<1> QED
  BY <1>1, <1>2

-----------------------------------------------------------------------------
(* The table of times. *)

LEMMA PrefixOne ==
  ASSUME NEW T, NEW s \in Seq(T), NEW i \in 1 .. Len(s)
  PROVE  /\ SubSeq(s, 1, i - 1) \in Seq(T) /\ Len(SubSeq(s, 1, i - 1)) = i - 1
         /\ \A j \in 1 .. i - 1 : SubSeq(s, 1, i - 1)[j] = s[j]
         /\ SubSeq(s, 1, i) = Append(SubSeq(s, 1, i - 1), s[i])
<1>1. Len(s) \in Nat /\ i \in Nat /\ i - 1 \in Nat /\ i - 1 <= Len(s) /\ s[i] \in T
  BY LenProperties, ElementOfSeq
<1> DEFINE p == SubSeq(s, 1, i - 1)
           q == SubSeq(s, 1, i)
<1>2. p \in Seq(T) /\ Len(p) = i - 1 /\ \A j \in 1 .. i - 1 : p[j] = s[j]
  BY <1>1
<1>3. q \in Seq(T) /\ Len(q) = i /\ \A j \in 1 .. i : q[j] = s[j]
  BY <1>1
<1> HIDE DEF p, q
<1>4. /\ Append(p, s[i]) \in Seq(T) /\ Len(Append(p, s[i])) = i
      /\ Append(p, s[i])[i] = s[i]
      /\ \A j \in 1 .. i - 1 : Append(p, s[i])[j] = p[j]
  BY <1>1, <1>2, AppendOne
<1>5. q = Append(p, s[i])
  <2>1. \A j \in 1 .. i : q[j] = Append(p, s[i])[j]
    <3> TAKE j \in 1 .. i
    <3>1. j = i \/ j \in 1 .. i - 1
      BY <1>1
    <3> QED
      BY <1>2, <1>3, <1>4, <3>1
  <2> QED
    BY <1>3, <1>4, <2>1, SeqEqual
<1> QED
  BY <1>2, <1>5 DEF p, q

LEMMA WholeSeq ==
  ASSUME NEW T, NEW s \in Seq(T)
  PROVE  SubSeq(s, 1, Len(s)) = s /\ SubSeq(s, 1, 0) = << >>
<1>1. /\ Len(s) \in Nat /\ SubSeq(s, 1, Len(s)) \in Seq(T) /\ Len(SubSeq(s, 1, Len(s))) = Len(s)
      /\ \A j \in 1 .. Len(s) : SubSeq(s, 1, Len(s))[j] = s[j]
  BY LenProperties
<1>2. SubSeq(s, 1, 0) = << >>
  <2>1. SubSeq(s, 1, 0) \in Seq(T) /\ Len(SubSeq(s, 1, 0)) = 0
    BY <1>1
  <2> QED
    BY <2>1, EmptySeq
<1> QED
  BY <1>1, <1>2, SeqEqual

Totals(f, d) ==
  f = [i \in 0 .. Len(d) |->
         IF i = 0 THEN << >>
         ELSE Append(f[i - 1], (IF i = 1 THEN 0 ELSE f[i - 1][i - 1]) + d[i])]

LEMMA DeltasType ==
  ASSUME NEW times \in Seq(Nat)
  PROVE  /\ Deltas(times) \in Seq(Int) /\ Len(Deltas(times)) = Len(times)
         /\ \A i \in 1 .. Len(times) :
              Deltas(times)[i] = times[i] - (IF i = 1 THEN 0 ELSE times[i - 1])
<1>1. Len(times) \in Nat /\ \A i \in 1 .. Len(times) : times[i] \in Nat
  BY LenProperties, ElementOfSeq
<1>2. Deltas(times) = [i \in 1 .. Len(times) |-> times[i] - (IF i = 1 THEN 0 ELSE times[i - 1])]
  BY DEF Deltas
<1>3. \A i \in 1 .. Len(times) : times[i] - (IF i = 1 THEN 0 ELSE times[i - 1]) \in Int
  BY <1>1
<1> QED
  BY <1>1, <1>2, <1>3

LEMMA TimesBack ==
  ASSUME NEW times \in Seq(Nat), NEW b, b.times = Deltas(times)
  PROVE  Times(b) = times
<1> DEFINE n == Len(times)
           d == Deltas(times)
           f == [i \in 0 .. n |-> SubSeq(times, 1, i)]
           g == CHOOSE h : Totals(h, d)
<1>1. n \in Nat /\ Len(d) = n /\ \A i \in 1 .. n : /\ times[i] \in Nat
                                                  /\ d[i] = times[i] - (IF i = 1 THEN 0 ELSE times[i - 1])
  BY DeltasType, LenProperties, ElementOfSeq
<1>2. Times(b) = g[n]
  BY <1>1 DEF Times, Totals
<1> HIDE DEF d
<1>3. Totals(f, d)
  <2>1. ASSUME NEW i \in 0 .. n
        PROVE  f[i] = IF i = 0 THEN << >>
                      ELSE Append(f[i - 1], (IF i = 1 THEN 0 ELSE f[i - 1][i - 1]) + d[i])
    <3>1. CASE i = 0
      BY <3>1, WholeSeq
    <3>2. CASE i # 0
      <4>1. i \in 1 .. n /\ i - 1 \in 0 .. n /\ (i # 1 => i - 1 \in 1 .. i - 1 /\ i - 1 \in 1 .. n)
        BY <1>1, <3>2
      <4>2. /\ \A j \in 1 .. i - 1 : SubSeq(times, 1, i - 1)[j] = times[j]
            /\ SubSeq(times, 1, i) = Append(SubSeq(times, 1, i - 1), times[i])
        BY <4>1, PrefixOne
      <4>3. times[i] = (IF i = 1 THEN 0 ELSE f[i - 1][i - 1]) + d[i]
        BY <1>1, <4>1, <4>2
      <4>4. f[i] = SubSeq(times, 1, i) /\ f[i - 1] = SubSeq(times, 1, i - 1)
        BY <4>1
      <4> HIDE DEF f
      <4> QED
        BY <3>2, <4>2, <4>3, <4>4, Zenon
    <3> QED
      BY <3>1, <3>2
  <2> QED
    BY <1>1, <2>1 DEF Totals
<1>4. Totals(g, d)
  BY <1>3
<1>5. f[n] = times
  BY <1>1, WholeSeq
<1> HIDE DEF f, g
<1>6. f[n] = g[n]
  <2> DEFINE P == {k \in Nat : k <= n => f[k] = g[k]}
  <2>1. 0 \in P
    BY <1>1, <1>3, <1>4 DEF Totals
  <2>2. ASSUME NEW k \in Nat, k \in P PROVE k + 1 \in P
    <3>1. CASE k + 1 <= n
      <4>1. k + 1 \in 0 .. n /\ k + 1 # 0 /\ (k + 1) - 1 = k /\ k <= n
        BY <1>1, <3>1
      <4>2. f[(k + 1) - 1] = g[(k + 1) - 1]
        BY <2>2, <4>1
      <4>3. f[k + 1] = Append(f[(k + 1) - 1], (IF k + 1 = 1 THEN 0 ELSE f[(k + 1) - 1][(k + 1) - 1]) + d[k + 1])
        BY <1>1, <1>3, <4>1 DEF Totals
      <4>4. g[k + 1] = Append(g[(k + 1) - 1], (IF k + 1 = 1 THEN 0 ELSE g[(k + 1) - 1][(k + 1) - 1]) + d[k + 1])
        BY <1>1, <1>4, <4>1 DEF Totals
      <4>5. f[k + 1] = g[k + 1]
        BY <4>2, <4>3, <4>4, Zenon
      <4> QED
        BY <4>5
    <3> QED
      BY <1>1, <3>1
  <2> HIDE DEF P
  <2>3. \A k \in Nat : k \in P
    BY <2>1, <2>2, Induction
  <2> QED
    BY <1>1, <2>3 DEF P
<1> QED
  BY <1>2, <1>5, <1>6

-----------------------------------------------------------------------------
(* What a column holds. *)

Read == [time : Nat, code : Int, states : Nat]
Emissions == [time : Nat, signal : Nat, code : Int]

Reaching(n) == {x \in Changed : x.index < n}
Timed(times) ==
  [x \in Reaching(Len(times)) |-> [time |-> times[x.index + 1], code |-> x.code, states |-> x.states]]
Content(kind, entries, times) == Mapped(Timed(times), Decoded(kind, entries))

Tagged(s) == [c \in Read |-> [time |-> c.time, signal |-> s, code |-> c.code]]

\* In the order of time.
Climbs(seq) == \A i, j \in DOMAIN seq : i <= j => seq[i].time <= seq[j].time

Spans(times, lo, hi) == times \in Seq({t \in Nat : lo <= t /\ t <= hi}) /\ lo \in Nat /\ hi \in Nat

LEMMA TimedType ==
  ASSUME NEW a, NEW z, NEW times, Spans(times, a, z)
  PROVE  Maps(Timed(times), Reaching(Len(times)), Within(Read, a, z))
<1> SUFFICES ASSUME NEW x \in Reaching(Len(times))
             PROVE  [time |-> times[x.index + 1], code |-> x.code, states |-> x.states]
                      \in Within(Read, a, z)
  BY DEF Timed, Maps
<1>1. x.index + 1 \in 1 .. Len(times) /\ x.code \in Int /\ x.states \in Nat
  BY LenProperties DEF Reaching, Changed, Spans
<1>2. times[x.index + 1] \in {t \in Nat : a <= t /\ t <= z}
  BY <1>1, ElementOfSeq DEF Spans
<1> QED
  BY <1>1, <1>2 DEF Read, Within, InWindow

Visits(kind, entries, times, lo, hi) ==
  /\ Content(kind, entries, times) \in Seq(Within(Read, lo, hi))
  /\ Content(kind, entries, times) \in Seq(Read)
  /\ Len(Content(kind, entries, times)) = Len(entries)
  /\ \A a, z : Visited(kind, entries, times, a, z)
                 = Filter(Content(kind, entries, times), Within(Read, a, z))

LEMMA ContentIs ==
  ASSUME NEW kind, NEW entries, NEW times, NEW lo, NEW hi,
         kind \in Kinds, entries \in Seq(Steps), Spans(times, lo, hi),
         Decoded(kind, entries) \in Seq(Reaching(Len(times)))
  PROVE  Visits(kind, entries, times, lo, hi)
<1> DEFINE d == Decoded(kind, entries)
           c == [i \in DOMAIN d |->
                  [time |-> times[d[i].index + 1], code |-> d[i].code, states |-> d[i].states]]
<1>1. Maps(Timed(times), Reaching(Len(times)), Within(Read, lo, hi))
  BY TimedType
<1>2. Len(d) = Len(entries)
  BY DecodedAppend
<1> HIDE DEF d
<1>4. c = Mapped(Timed(times), d)
  <2>1. \A i \in DOMAIN d : d[i] \in Reaching(Len(times))
    <3>1. d \in Seq(Reaching(Len(times)))
      BY DEF d
    <3> QED
      BY <3>1
  <2>2. ASSUME NEW i \in DOMAIN d
        PROVE  [time |-> times[d[i].index + 1], code |-> d[i].code, states |-> d[i].states]
                 = Timed(times)[d[i]]
    BY <2>1 DEF Timed
  <2> QED
    BY <2>2 DEF Mapped
<1>5. c \in Seq(Within(Read, lo, hi)) /\ Len(c) = Len(d)
  <2>1. d \in Seq(Reaching(Len(times)))
    BY DEF d
  <2>2. Mapped(Timed(times), d) \in Seq(Within(Read, lo, hi)) /\ Len(Mapped(Timed(times), d)) = Len(d)
    BY <1>1, <2>1, MappedType
  <2> QED
    BY <1>4, <2>2
<1> HIDE DEF c
<1>6. c \in Seq(Read)
  <2>1. Within(Read, lo, hi) \subseteq Read
    BY DEF Within
  <2> QED
    BY <1>5, <2>1, SeqMonotonic
<1>7. c = Content(kind, entries, times)
  BY <1>4 DEF Content, d
<1>8. ASSUME NEW a, NEW z
      PROVE  Visited(kind, entries, times, a, z)
               = Filter(Content(kind, entries, times), Within(Read, a, z))
  <2>1. Visited(kind, entries, times, a, z) = Among(c, LAMBDA e : InWindow(a, z, e))
    BY DEF Visited, c, d
  <2>2. Among(c, LAMBDA e : InWindow(a, z, e)) = Filter(c, Within(Read, a, z))
    BY <1>6, AmongWindow
  <2> QED
    BY <2>1, <2>2, <1>7
<1> QED
  BY <1>2, <1>5, <1>6, <1>7, <1>8 DEF Visits

\* Times that no entry refers to do not matter.
Agree(times, later, n) ==
  /\ n \in Nat /\ Len(times) \in Nat /\ Len(later) \in Nat /\ n <= Len(times) /\ n <= Len(later)
  /\ \A i \in 1 .. n : times[i] = later[i]

LEMMA ContentSame ==
  ASSUME NEW kind, NEW entries, NEW n, NEW times, NEW later, Agree(times, later, n),
         Decoded(kind, entries) \in Seq(Reaching(n))
  PROVE  Content(kind, entries, times) = Content(kind, entries, later)
<1> DEFINE d == Decoded(kind, entries)
<1>1. ASSUME NEW x \in Reaching(n)
      PROVE  Timed(times)[x] = Timed(later)[x]
  <2>1. x \in Reaching(Len(times)) /\ x \in Reaching(Len(later)) /\ x.index + 1 \in 1 .. n
    BY DEF Reaching, Changed, Agree
  <2>2. times[x.index + 1] = later[x.index + 1]
    BY <2>1 DEF Agree
  <2> QED
    BY <2>1, <2>2 DEF Timed
<1> HIDE DEF d
<1>2. d \in Seq(Reaching(n))
  BY DEF d
<1>3. Mapped(Timed(times), d) = Mapped(Timed(later), d)
  BY <1>1, <1>2, MappedAgree
<1> QED
  BY <1>3 DEF Content, d

\* One more entry.
GrowsBy(kind, entries, times, e, r) ==
  /\ Decoded(kind, Append(entries, e)) = Append(Decoded(kind, entries), r)
  /\ Decoded(kind, Append(entries, e)) \in Seq(Reaching(Len(times)))
  /\ Content(kind, Append(entries, e), times)
       = Append(Content(kind, entries, times),
                [time |-> times[r.index + 1], code |-> r.code, states |-> r.states])

LEMMA ContentAppend ==
  ASSUME NEW kind, NEW entries, NEW times, NEW lo, NEW hi, NEW e, NEW r,
         kind \in Kinds, entries \in Seq(Steps), e \in Steps, Spans(times, lo, hi),
         Decoded(kind, entries) \in Seq(Reaching(Len(times))),
         r = Reached(kind, Decoded(kind, entries), e), r \in Reaching(Len(times))
  PROVE  GrowsBy(kind, entries, times, e, r)
<1> DEFINE d == Decoded(kind, entries)
<1>1. Decoded(kind, Append(entries, e)) = Append(d, r)
  BY DecodedAppend
<1>2. Maps(Timed(times), Reaching(Len(times)), Within(Read, lo, hi))
  BY TimedType
<1>3. Timed(times)[r] = [time |-> times[r.index + 1], code |-> r.code, states |-> r.states]
  BY DEF Timed
<1> HIDE DEF d
<1>4. d \in Seq(Reaching(Len(times)))
  BY DEF d
<1>5. Mapped(Timed(times), Append(d, r)) = Append(Mapped(Timed(times), d), Timed(times)[r])
  BY <1>2, <1>4, MappedOne
<1>6. Append(d, r) \in Seq(Reaching(Len(times)))
  BY <1>4, AppendOne
<1> QED
  BY <1>1, <1>3, <1>5, <1>6 DEF Content, d, GrowsBy

LEMMA TaggedType ==
  ASSUME NEW s \in Nat
  PROVE  /\ Maps(Tagged(s), Read, Emissions)
         /\ \A a, z : \A x \in Read : x \in Within(Read, a, z) <=> Tagged(s)[x] \in Within(Emissions, a, z)
         /\ \A x \in Read : Tagged(s)[x].time = x.time /\ Tagged(s)[x].signal = s
                            /\ Tagged(s)[x].code = x.code
<1>1. ASSUME NEW x \in Read
      PROVE  /\ [time |-> x.time, signal |-> s, code |-> x.code] \in Emissions
             /\ Tagged(s)[x] = [time |-> x.time, signal |-> s, code |-> x.code]
  BY DEF Read, Emissions, Tagged
<1> QED
  BY <1>1 DEF Tagged, Within, InWindow, Maps

LEMMA TaggedIs ==
  ASSUME NEW s \in Nat, NEW seq \in Seq(Read)
  PROVE  /\ OfSignal(s, seq) = Mapped(Tagged(s), seq)
         /\ OfSignal(s, seq) \in Seq(Emissions) /\ Len(OfSignal(s, seq)) = Len(seq)
         /\ DOMAIN OfSignal(s, seq) = DOMAIN seq
         /\ \A i \in DOMAIN seq : /\ OfSignal(s, seq)[i].time = seq[i].time
                                  /\ OfSignal(s, seq)[i].signal = s
                                  /\ OfSignal(s, seq)[i].code = seq[i].code
<1>1. \A i \in DOMAIN seq : seq[i] \in Read
  OBVIOUS
<1>2. OfSignal(s, seq) = Mapped(Tagged(s), seq)
  BY <1>1 DEF OfSignal, Mapped, Tagged
<1>3. Mapped(Tagged(s), seq) \in Seq(Emissions) /\ Len(Mapped(Tagged(s), seq)) = Len(seq)
  <2>1. Maps(Tagged(s), Read, Emissions)
    BY TaggedType
  <2> QED
    BY <2>1, MappedType
<1>4. /\ DOMAIN OfSignal(s, seq) = DOMAIN seq
      /\ \A i \in DOMAIN seq : /\ OfSignal(s, seq)[i].time = seq[i].time
                               /\ OfSignal(s, seq)[i].signal = s
                               /\ OfSignal(s, seq)[i].code = seq[i].code
  BY DEF OfSignal
<1> QED
  BY <1>2, <1>3, <1>4

LEMMA TaggedAppend ==
  ASSUME NEW s \in Nat
  PROVE  /\ OfSignal(s, << >>) = << >>
         /\ \A q \in Seq(Read) : \A x \in Read :
              OfSignal(s, Append(q, x))
                = Append(OfSignal(s, q), [time |-> x.time, signal |-> s, code |-> x.code])
         /\ \A q, r \in Seq(Read) : OfSignal(s, q \o r) = OfSignal(s, q) \o OfSignal(s, r)
         /\ \A q \in Seq(Read) : \A a, z :
              OfSignal(s, Filter(q, Within(Read, a, z))) = Filter(OfSignal(s, q), Within(Emissions, a, z))
<1>0. Maps(Tagged(s), Read, Emissions)
  BY TaggedType
<1>1. OfSignal(s, << >>) = << >>
  BY DEF OfSignal
<1>2. ASSUME NEW q \in Seq(Read), NEW x \in Read
      PROVE  OfSignal(s, Append(q, x))
               = Append(OfSignal(s, q), [time |-> x.time, signal |-> s, code |-> x.code])
  <2>1. Append(q, x) \in Seq(Read)
    BY AppendOne
  <2>2. Mapped(Tagged(s), Append(q, x)) = Append(Mapped(Tagged(s), q), Tagged(s)[x])
    BY <1>0, MappedOne
  <2>3. Tagged(s)[x] = [time |-> x.time, signal |-> s, code |-> x.code]
    BY DEF Tagged
  <2>4. OfSignal(s, q) = Mapped(Tagged(s), q) /\ OfSignal(s, Append(q, x)) = Mapped(Tagged(s), Append(q, x))
    BY <2>1, TaggedIs
  <2> QED
    BY <2>2, <2>3, <2>4
<1>3. ASSUME NEW q \in Seq(Read), NEW r \in Seq(Read)
      PROVE  OfSignal(s, q \o r) = OfSignal(s, q) \o OfSignal(s, r)
  <2>1. q \o r \in Seq(Read)
    BY JoinTwo
  <2>2. Mapped(Tagged(s), q \o r) = Mapped(Tagged(s), q) \o Mapped(Tagged(s), r)
    BY <1>0, MappedJoin
  <2> QED
    BY <2>1, <2>2, TaggedIs
<1>4. ASSUME NEW q \in Seq(Read), NEW a, NEW z
      PROVE  OfSignal(s, Filter(q, Within(Read, a, z))) = Filter(OfSignal(s, q), Within(Emissions, a, z))
  <2>1. Filter(q, Within(Read, a, z)) \in Seq(Read)
    <3>1. Filter(q, Within(Read, a, z)) \in Seq(Read \cap Within(Read, a, z))
      BY FilterType
    <3> QED
      BY <3>1, SeqMonotonic
  <2>2. \A x \in Read : x \in Within(Read, a, z) <=> Tagged(s)[x] \in Within(Emissions, a, z)
    BY TaggedType, Zenon
  <2>3. Mapped(Tagged(s), Filter(q, Within(Read, a, z)))
          = Filter(Mapped(Tagged(s), q), Within(Emissions, a, z))
    BY <1>0, <2>2, MappedFilter
  <2> QED
    BY <2>1, <2>3, TaggedIs
<1> QED
  BY <1>1, <1>2, <1>3, <1>4

-----------------------------------------------------------------------------
(* Blocks that can be read, and what they hold of a signal. *)

\* All the changes a block holds of a signal.
Full(b, s) ==
  IF s > b.signals \/ Group(s) \notin DOMAIN b.frames
  THEN << >>
  ELSE Content(Kind(s), b.columns[IF s \in DOMAIN b.aliases THEN b.aliases[s] ELSE s], Times(b))

Sound(b) ==
  /\ b.start \in Nat /\ b.end \in Nat /\ b.start <= b.end /\ b.end <= MaxTime
  /\ \A s \in Signals :
       /\ Full(b, s) \in Seq(Within(Read, b.start, b.end)) /\ Climbs(Full(b, s))
       /\ \A a, z \in Nat : SelectedColumn(b, s, a, z) = Filter(Full(b, s), Within(Read, a, z))

Sounds(T) == \A b \in T : Sound(b)

\* What a sequence of blocks holds of a signal.
Recorded(bs, s) == FlattenSeq([i \in DOMAIN bs |-> OfSignal(s, Full(bs[i], s))])

LEMMA SignalsType == Len(Declared) \in Nat /\ \A s \in Signals : s \in Nat /\ s >= 1 /\ Kind(s) \in Kinds
<1>1. Declared \in Seq([kind : Kinds, event : BOOLEAN])
  BY ConstantsOK DEF Kinds
<1>2. Len(Declared) \in Nat /\ \A s \in 1 .. Len(Declared) : Declared[s] \in [kind : Kinds, event : BOOLEAN]
  BY <1>1, LenProperties, ElementOfSeq
<1> QED
  BY <1>2 DEF Signals, Kind

LEMMA FullType ==
  ASSUME NEW b, Sound(b), NEW s \in Signals
  PROVE  /\ s \in Nat /\ Full(b, s) \in Seq(Read)
         /\ OfSignal(s, Full(b, s)) \in Seq(Emissions)
         /\ OfSignal(s, Full(b, s)) \in Seq(Within(Emissions, b.start, b.end))
<1>1. s \in Nat /\ Full(b, s) \in Seq(Within(Read, b.start, b.end))
  BY SignalsType DEF Sound
<1>2. Full(b, s) \in Seq(Read)
  BY <1>1, SeqMonotonic DEF Within
<1>3. /\ OfSignal(s, Full(b, s)) \in Seq(Emissions)
      /\ DOMAIN OfSignal(s, Full(b, s)) = DOMAIN Full(b, s)
      /\ \A i \in DOMAIN Full(b, s) : OfSignal(s, Full(b, s))[i].time = Full(b, s)[i].time
  BY <1>1, <1>2, TaggedIs
<1>4. \A i \in DOMAIN Full(b, s) : Full(b, s)[i] \in Within(Read, b.start, b.end)
  BY <1>1
<1>5. \A i \in DOMAIN OfSignal(s, Full(b, s)) :
         OfSignal(s, Full(b, s))[i] \in Within(Emissions, b.start, b.end)
  BY <1>3, <1>4 DEF Within, InWindow
<1>6. OfSignal(s, Full(b, s)) \in Seq(Within(Emissions, b.start, b.end))
  <2> DEFINE q == OfSignal(s, Full(b, s))
  <2>1. q \in Seq(Emissions) /\ \A i \in DOMAIN q : q[i] \in Within(Emissions, b.start, b.end)
    BY <1>3, <1>5
  <2> HIDE DEF q
  <2>2. q \in Seq(Within(Emissions, b.start, b.end))
    BY <2>1
  <2> QED
    BY <2>2 DEF q
<1> QED
  BY <1>1, <1>2, <1>3, <1>6

LEMMA RecordedNone == \A s : Recorded(<< >>, s) = << >>
<1> TAKE s
<1>1. [i \in DOMAIN << >> |-> OfSignal(s, Full(<< >>[i], s))] = << >>
  OBVIOUS
<1> QED
  BY <1>1, FlattenNone DEF Recorded

LEMMA RecordedAppend ==
  ASSUME NEW T, Sounds(T), NEW s \in Signals, NEW bs \in Seq(T)
  PROVE  /\ Recorded(bs, s) \in Seq(Emissions)
         /\ \A b \in T : Recorded(Append(bs, b), s) = Recorded(bs, s) \o OfSignal(s, Full(b, s))
<1> DEFINE m == [b \in T |-> OfSignal(s, Full(b, s))]
<1>1. Maps(m, T, Seq(Emissions))
  BY FullType DEF Maps, Sounds
<1>2. ASSUME NEW q \in Seq(T) PROVE Recorded(q, s) = FlattenSeq(Mapped(m, q))
  <2>1. \A i \in DOMAIN q : q[i] \in T
    OBVIOUS
  <2>2. [i \in DOMAIN q |-> OfSignal(s, Full(q[i], s))] = Mapped(m, q)
    BY <2>1 DEF Mapped
  <2> QED
    BY <2>2 DEF Recorded
<1>3. \A b \in T : m[b] = OfSignal(s, Full(b, s))
  OBVIOUS
<1> HIDE DEF m
<1>4. Mapped(m, bs) \in Seq(Seq(Emissions))
  BY <1>1, MappedType
<1>5. FlattenSeq(Mapped(m, bs)) \in Seq(Emissions)
  BY <1>4, FlattenType
<1>6. ASSUME NEW b \in T
      PROVE  Recorded(Append(bs, b), s) = Recorded(bs, s) \o OfSignal(s, Full(b, s))
  <2>1. Append(bs, b) \in Seq(T) /\ m[b] \in Seq(Emissions)
    BY <1>1, AppendOne DEF Maps
  <2>2. Mapped(m, Append(bs, b)) = Append(Mapped(m, bs), m[b])
    BY <1>1, MappedOne
  <2>3. FlattenSeq(Append(Mapped(m, bs), m[b])) = FlattenSeq(Mapped(m, bs)) \o m[b]
    BY <1>4, <2>1, FlattenAppend
  <2> QED
    BY <1>2, <1>3, <2>1, <2>2, <2>3
<1> QED
  BY <1>2, <1>5, <1>6

-----------------------------------------------------------------------------
(* A window of a signal. *)

Chosen(bs, s, a, z) ==
  FlattenSeq([i \in DOMAIN bs |-> SelectedColumn(bs[i], s, a, z)])

LEMMA ChosenMapped ==
  ASSUME NEW T, Sounds(T), NEW s \in Signals, NEW a \in Nat, NEW z \in Nat,
         NEW m, m = [b \in T |-> SelectedColumn(b, s, a, z)]
  PROVE  /\ Maps(m, T, Seq(Read))
         /\ \A b \in T : m[b] = Filter(Full(b, s), Within(Read, a, z))
         /\ \A q \in Seq(T) : Chosen(q, s, a, z) = FlattenSeq(Mapped(m, q))
<1>1. \A b \in T : m[b] = Filter(Full(b, s), Within(Read, a, z))
  BY DEF Sound, Sounds
<1>2. Maps(m, T, Seq(Read))
  <2>1. ASSUME NEW b \in T PROVE Filter(Full(b, s), Within(Read, a, z)) \in Seq(Read)
    <3>1. Full(b, s) \in Seq(Read)
      BY FullType DEF Sounds
    <3>2. Filter(Full(b, s), Within(Read, a, z)) \in Seq(Read \cap Within(Read, a, z))
      BY <3>1, FilterType
    <3> QED
      BY <3>2, SeqMonotonic
  <2> QED
    BY <1>1, <2>1 DEF Maps
<1>3. ASSUME NEW q \in Seq(T) PROVE Chosen(q, s, a, z) = FlattenSeq(Mapped(m, q))
  <2>1. \A i \in DOMAIN q : q[i] \in T
    OBVIOUS
  <2>2. [i \in DOMAIN q |-> SelectedColumn(q[i], s, a, z)] = Mapped(m, q)
    BY <2>1 DEF Mapped
  <2> QED
    BY <2>2 DEF Chosen
<1> QED
  BY <1>1, <1>2, <1>3

LEMMA ChosenNone == \A s, a, z : Chosen(<< >>, s, a, z) = << >>
<1> TAKE s, a, z
<1>1. [i \in DOMAIN << >> |-> SelectedColumn(<< >>[i], s, a, z)] = << >>
  OBVIOUS
<1> QED
  BY <1>1, FlattenNone DEF Chosen

LEMMA ChosenType ==
  ASSUME NEW T, NEW s, NEW a, NEW z, NEW bs,
         Sounds(T), s \in Signals, a \in Nat, z \in Nat, bs \in Seq(T)
  PROVE  Chosen(bs, s, a, z) \in Seq(Read)
<1> DEFINE m == [b \in T |-> SelectedColumn(b, s, a, z)]
<1>1. Maps(m, T, Seq(Read)) /\ Chosen(bs, s, a, z) = FlattenSeq(Mapped(m, bs))
  BY ChosenMapped
<1> HIDE DEF m
<1>2. Mapped(m, bs) \in Seq(Seq(Read))
  BY <1>1, MappedType
<1>3. FlattenSeq(Mapped(m, bs)) \in Seq(Read)
  BY <1>2, FlattenType
<1> QED
  BY <1>1, <1>3

LEMMA ChosenAppend ==
  ASSUME NEW T, NEW s, NEW a, NEW z, NEW bs, NEW b,
         Sounds(T), s \in Signals, a \in Nat, z \in Nat, bs \in Seq(T), b \in T
  PROVE  Chosen(Append(bs, b), s, a, z)
           = Chosen(bs, s, a, z) \o Filter(Full(b, s), Within(Read, a, z))
<1> DEFINE m == [c \in T |-> SelectedColumn(c, s, a, z)]
<1>1. /\ Maps(m, T, Seq(Read))
      /\ \A c \in T : m[c] = Filter(Full(c, s), Within(Read, a, z))
      /\ \A q \in Seq(T) : Chosen(q, s, a, z) = FlattenSeq(Mapped(m, q))
  BY ChosenMapped
<1> HIDE DEF m
<1>2. Mapped(m, bs) \in Seq(Seq(Read))
  BY <1>1, MappedType
<1>3. Append(bs, b) \in Seq(T) /\ m[b] \in Seq(Read)
  BY <1>1, AppendOne DEF Maps
<1>4. Mapped(m, Append(bs, b)) = Append(Mapped(m, bs), m[b])
  BY <1>1, MappedOne
<1>5. FlattenSeq(Append(Mapped(m, bs), m[b])) = FlattenSeq(Mapped(m, bs)) \o m[b]
  BY <1>2, <1>3, FlattenAppend
<1> QED
  BY <1>1, <1>3, <1>4, <1>5

\* The changes found in a window are those recorded with a time in it.
LEMMA WindowReads ==
  ASSUME NEW T, Sounds(T), NEW s \in Signals, NEW a \in Nat, NEW z \in Nat
  PROVE  \A bs \in Seq(T) :
           /\ Chosen(Filter(bs, Meeting(T, a, z)), s, a, z) \in Seq(Read)
           /\ OfSignal(s, Chosen(Filter(bs, Meeting(T, a, z)), s, a, z))
                = Filter(Recorded(bs, s), Within(Emissions, a, z))
<1> DEFINE M == Meeting(T, a, z)
           W == Within(Emissions, a, z)
           V == Within(Read, a, z)
           P == {bs \in Seq(T) : /\ Chosen(Filter(bs, M), s, a, z) \in Seq(Read)
                                 /\ OfSignal(s, Chosen(Filter(bs, M), s, a, z))
                                      = Filter(Recorded(bs, s), W)}
<1>0. s \in Nat
  BY SignalsType
<1>1. << >> \in P
  <2>1. << >> \in Seq(T) /\ << >> \in Seq(Read)
    BY EmptySeq
  <2>2. Chosen(Filter(<< >>, M), s, a, z) = << >>
    BY FilterEmpty, ChosenNone
  <2>3. OfSignal(s, << >>) = << >>
    BY <1>0, TaggedAppend
  <2> QED
    BY <2>1, <2>2, <2>3, FilterEmpty, RecordedNone
<1>2. ASSUME NEW bs \in Seq(T), NEW b \in T, bs \in P PROVE Append(bs, b) \in P
  <2> DEFINE r == Filter(bs, M)
             f == Full(b, s)
             F == OfSignal(s, f)
             C(q) == Chosen(q, s, a, z)
  <2>1. r \in Seq(T)
    <3>1. r \in Seq(T \cap M)
      BY FilterType
    <3> QED
      BY <3>1, SeqMonotonic
  <2>2. f \in Seq(Read) /\ F \in Seq(Emissions) /\ F \in Seq(Within(Emissions, b.start, b.end))
    BY FullType DEF Sounds
  <2>3. Recorded(bs, s) \in Seq(Emissions) /\ Recorded(Append(bs, b), s) = Recorded(bs, s) \o F
    BY RecordedAppend
  <2>4. Filter(Append(bs, b), M) = IF b \in M THEN Append(r, b) ELSE r
    BY FilterAppend
  <2>5. C(r) \in Seq(Read) /\ C(Append(r, b)) = C(r) \o Filter(f, V)
    <3> HIDE DEF r
    <3>1. Chosen(r, s, a, z) \in Seq(Read)
      BY <2>1, ChosenType
    <3>2. Chosen(Append(r, b), s, a, z)
            = Chosen(r, s, a, z) \o Filter(Full(b, s), Within(Read, a, z))
      BY <2>1, ChosenAppend
    <3> QED
      BY <3>1, <3>2
  <2>6. OfSignal(s, C(r)) = Filter(Recorded(bs, s), W)
    BY <1>2
  <2>7. Filter(f, V) \in Seq(Read)
    <3>1. Filter(f, V) \in Seq(Read \cap V)
      BY <2>2, FilterType
    <3> QED
      BY <3>1, SeqMonotonic
  <2> HIDE DEF r, f, F, C, M, W, V
  <2>8. OfSignal(s, Filter(f, V)) = Filter(F, W)
    BY <1>0, <2>2, TaggedAppend DEF V, W, F
  <2>9. Filter(Recorded(bs, s) \o F, W) = Filter(Recorded(bs, s), W) \o Filter(F, W)
    BY <2>2, <2>3, FilterJoin
  <2>10. b \notin M => Filter(F, W) = << >>
    <3>1. ASSUME b \notin M PROVE Within(Emissions, b.start, b.end) \cap W = {}
      <4>1. b.start > z \/ b.end < a
        <5>1. b.start \in Nat /\ b.end \in Nat
          BY DEF Sound, Sounds
        <5> QED
          BY <3>1, <5>1 DEF M, Meeting
      <4>2. b.start \in Nat /\ b.end \in Nat
        BY DEF Sound, Sounds
      <4> QED
        BY <4>1, <4>2 DEF Within, InWindow, W, Emissions
    <3> QED
      BY <2>2, <3>1, FilterNothing
  <2>11. CASE b \in M
    <3>1. OfSignal(s, C(r) \o Filter(f, V)) = OfSignal(s, C(r)) \o OfSignal(s, Filter(f, V))
      BY <1>0, <2>5, <2>7, TaggedAppend
    <3>2. C(r) \o Filter(f, V) \in Seq(Read)
      BY <2>5, <2>7, JoinTwo
    <3>3. Filter(Append(bs, b), M) = Append(r, b)
      BY <2>4, <2>11
    <3>4. C(Filter(Append(bs, b), M)) \in Seq(Read)
      BY <2>5, <3>2, <3>3
    <3>5. OfSignal(s, C(Filter(Append(bs, b), M))) = Filter(Recorded(Append(bs, b), s), W)
      BY <2>3, <2>5, <2>6, <2>8, <2>9, <3>1, <3>3
    <3> QED
      BY <3>4, <3>5, AppendOne DEF C
  <2>12. CASE b \notin M
    <3>1. Filter(Append(bs, b), M) = r
      BY <2>4, <2>12
    <3>2. Filter(Recorded(bs, s), W) \in Seq(Emissions)
      <4>1. Filter(Recorded(bs, s), W) \in Seq(Emissions \cap W)
        BY <2>3, FilterType
      <4> QED
        BY <4>1, SeqMonotonic
    <3>3. Filter(Recorded(bs, s), W) \o << >> = Filter(Recorded(bs, s), W)
      BY <3>2, ConcatEmptySeq
    <3>4. OfSignal(s, C(Filter(Append(bs, b), M))) = Filter(Recorded(Append(bs, b), s), W)
      BY <2>3, <2>6, <2>9, <2>10, <2>12, <3>1, <3>3
    <3> QED
      BY <2>5, <3>1, <3>4, AppendOne DEF C
  <2> QED
    BY <2>11, <2>12
<1> HIDE DEF P
<1>3. \A bs \in Seq(T) : bs \in P
  BY <1>1, <1>2, Lists
<1> QED
  BY <1>3 DEF P

-----------------------------------------------------------------------------
(* Groups. *)

LEMMA GroupIs ==
  ASSUME NEW s, NEW n, s \in Nat, n \in Nat, 1 <= s, s <= n
  PROVE  /\ Group(s) \in Nat /\ Group(s) \in Groups(n) /\ s \in Members(Group(s), n)
<1>1. PICK G \in Nat : G = GroupSize /\ G > 0
  BY ConstantsOK
<1>2. PICK k \in Nat : k = s - 1 /\ s = k + 1
  OBVIOUS
<1>3. (k \div G) \in Nat /\ (k \div G) * G <= k /\ k < (k \div G) * G + G
  BY <1>1
<1>4. PICK m \in Nat : m = n - 1 /\ k <= m /\ n = m + 1
  BY <1>2
<1>5. (k \div G) <= (m \div G) /\ (m + G) \div G = (m \div G) + 1 /\ (m \div G) \in Nat
  BY <1>1, <1>4
<1>6. Group(s) = k \div G
  BY <1>1, <1>2 DEF Group
<1>7. ((n + G - 1) \div G) - 1 = m \div G
  <2>1. n + G - 1 = m + G
    BY <1>1, <1>4
  <2> QED
    BY <1>5, <2>1
<1>8. Group(s) \in Groups(n)
  BY <1>1, <1>3, <1>5, <1>6, <1>7 DEF Groups
<1>9. PICK q \in Nat : q = k \div G
  BY <1>3
<1>10. (q + 1) * G = q * G + G /\ q * G \in Nat
  BY <1>1
<1>11. s <= Min({(q + 1) * G, n})
  <2>1. (q + 1) * G \in Int /\ s <= (q + 1) * G
    BY <1>2, <1>3, <1>9, <1>10
  <2>2. Min({(q + 1) * G, n}) \in {(q + 1) * G, n}
    <3>1. \E x \in {(q + 1) * G, n} : \A y \in {(q + 1) * G, n} : x <= y
      BY <2>1
    <3> QED
      BY <3>1 DEF Min
  <2> QED
    BY <2>1, <2>2
<1>12. Min({(q + 1) * G, n}) \in Int
  <2>1. \E x \in {(q + 1) * G, n} : \A y \in {(q + 1) * G, n} : x <= y
    BY <1>1, <1>10
  <2>2. Min({(q + 1) * G, n}) \in {(q + 1) * G, n}
    BY <2>1 DEF Min
  <2> QED
    BY <1>1, <1>10, <2>2
<1>13. q * G + 1 <= s
  BY <1>2, <1>3, <1>9, <1>10
<1>14. s \in (q * G + 1) .. Min({(q + 1) * G, n})
  BY <1>10, <1>11, <1>12, <1>13
<1> QED
  BY <1>1, <1>3, <1>6, <1>8, <1>9, <1>14 DEF Members

LEMMA MembersIn ==
  ASSUME NEW g, NEW n, NEW s, g \in Nat, n \in Nat, s \in Members(g, n)
  PROVE  s \in Nat /\ 1 <= s /\ s <= n /\ Group(s) = g
<1>1. PICK G \in Nat : G = GroupSize /\ G > 0
  BY ConstantsOK
<1>2. (g + 1) * G = g * G + G /\ g * G \in Nat
  BY <1>1
<1>3. LET m == Min({(g + 1) * G, n}) IN m \in Int /\ m <= (g + 1) * G /\ m <= n
  <2>1. \E x \in {(g + 1) * G, n} : \A y \in {(g + 1) * G, n} : x <= y
    BY <1>1, <1>2
  <2>2. Min({(g + 1) * G, n}) \in {(g + 1) * G, n}
        /\ \A y \in {(g + 1) * G, n} : Min({(g + 1) * G, n}) <= y
    BY <2>1 DEF Min
  <2> QED
    BY <1>1, <1>2, <2>2
<1>4. s \in (g * G + 1) .. Min({(g + 1) * G, n})
  BY <1>1 DEF Members
<1>5. PICK k \in Nat : k = s - 1 /\ s = k + 1 /\ g * G <= k /\ k < g * G + G
  BY <1>2, <1>3, <1>4
<1>6. k \div G = g
  BY <1>1, <1>5
<1> QED
  BY <1>1, <1>2, <1>3, <1>4, <1>5, <1>6 DEF Group

-----------------------------------------------------------------------------
(* The last value of a sequence of changes, and the last one in blocks. *)

LastCode(seq, s) == IF seq = << >> THEN DefaultCode(Kind(s)) ELSE seq[Len(seq)].code

Holding(bs, n, s, t) == {j \in 1 .. n : SelectedColumn(bs[j], s, 0, t) # << >>}
LastIn(bs, n, s, t) ==
  IF Holding(bs, n, s, t) = {} THEN DefaultCode(Kind(s))
  ELSE Last(SelectedColumn(bs[Max(Holding(bs, n, s, t))], s, 0, t)).code

LEMMA HoldingNext ==
  ASSUME NEW bs, NEW n, NEW s, NEW t, n \in Nat
  PROVE  Holding(bs, n + 1, s, t) = Holding(bs, n, s, t) \cup
           (IF SelectedColumn(bs[n + 1], s, 0, t) # << >> THEN {n + 1} ELSE {})
BY DEF Holding

LEMMA LastInNone == \A bs, s, t : LastIn(bs, 0, s, t) = DefaultCode(Kind(s))
BY DEF LastIn, Holding

LEMMA LastInNext ==
  ASSUME NEW bs, NEW n, NEW s, NEW t, n \in Nat
  PROVE  LastIn(bs, n + 1, s, t)
           = IF SelectedColumn(bs[n + 1], s, 0, t) # << >>
             THEN Last(SelectedColumn(bs[n + 1], s, 0, t)).code
             ELSE LastIn(bs, n, s, t)
<1>2. CASE SelectedColumn(bs[n + 1], s, 0, t) # << >>
  <2> DEFINE h == Holding(bs, n + 1, s, t)
  <2>1. h \in SUBSET Int /\ n + 1 \in h /\ \A y \in h : n + 1 >= y
    BY <1>2 DEF Holding
  <2> HIDE DEF h
  <2>2. Max(h) = n + 1
    BY <2>1, MaxIs
  <2>3. h # {}
    BY <2>1
  <2> QED
    BY <1>2, <2>2, <2>3 DEF LastIn, h
<1>3. CASE SelectedColumn(bs[n + 1], s, 0, t) = << >>
  <2>1. Holding(bs, n + 1, s, t) = Holding(bs, n, s, t)
    BY <1>3 DEF Holding
  <2> QED
    BY <1>3, <2>1 DEF LastIn
<1> QED
  BY <1>2, <1>3

\* A non-empty set of positions has a last one.
LEMMA Greatest ==
  ASSUME NEW n, n \in Nat, NEW h \in SUBSET (1 .. n), h # {}
  PROVE  Max(h) \in h /\ Max(h) \in 1 .. n /\ \A y \in h : y <= Max(h)
<1> DEFINE S == {n - y : y \in h}
<1>1. S \in SUBSET Nat /\ S # {}
  OBVIOUS
<1> HIDE DEF S
<1>2. PICK m \in S : \A y \in S : m <= y
  BY <1>1, Least
<1>3. PICK x \in h : m = n - x
  BY <1>2 DEF S
<1>4. \A y \in h : n - y \in S
  BY DEF S
<1>5. \A y \in h : x >= y
  BY <1>2, <1>3, <1>4
<1>6. Max(h) \in h /\ \A y \in h : Max(h) >= y
  <2>1. \E w \in h : \A y \in h : w >= y
    BY <1>5
  <2> QED
    BY <2>1 DEF Max
<1> QED
  BY <1>6

LEMMA LastInSame ==
  ASSUME NEW bs, NEW cs, NEW n, NEW s, NEW t, n \in Nat, \A j \in 1 .. n : bs[j] = cs[j]
  PROVE  LastIn(bs, n, s, t) = LastIn(cs, n, s, t)
<1>1. Holding(bs, n, s, t) = Holding(cs, n, s, t)
  BY DEF Holding
<1>2. Holding(bs, n, s, t) # {} => Max(Holding(bs, n, s, t)) \in 1 .. n
  BY Greatest DEF Holding
<1> QED
  BY <1>1, <1>2 DEF LastIn

\* The last value found in blocks up to a time is the last one recorded.
LEMMA LastInIs ==
  ASSUME NEW T, Sounds(T), NEW s \in Signals, NEW t \in Nat
  PROVE  \A bs \in Seq(T) :
           LastIn(bs, Len(bs), s, t) = LastCode(Filter(Recorded(bs, s), Within(Emissions, 0, t)), s)
<1> DEFINE W == Within(Emissions, 0, t)
           V == Within(Read, 0, t)
           P == {bs \in Seq(T) : LastIn(bs, Len(bs), s, t) = LastCode(Filter(Recorded(bs, s), W), s)}
<1>0. s \in Nat
  BY SignalsType
<1>1. << >> \in P
  <2>1. << >> \in Seq(T) /\ Len(<< >>) = 0 /\ Filter(<< >>, W) = << >>
    BY EmptySeq, FilterEmpty
  <2>2. LastIn(<< >>, 0, s, t) = DefaultCode(Kind(s))
    BY LastInNone
  <2> QED
    BY <2>1, <2>2, RecordedNone DEF LastCode
<1>2. ASSUME NEW bs \in Seq(T), NEW b \in T, bs \in P PROVE Append(bs, b) \in P
  <2> DEFINE n == Len(bs)
             cs == Append(bs, b)
             f == Full(b, s)
             F == OfSignal(s, f)
             v == Filter(f, V)
  <2>1. /\ cs \in Seq(T) /\ n \in Nat /\ Len(cs) = n + 1 /\ cs[n + 1] = b
        /\ \A i \in 1 .. n : cs[i] = bs[i]
    BY AppendOne
  <2>2. f \in Seq(Read) /\ F \in Seq(Emissions)
    BY FullType DEF Sounds
  <2>3. Recorded(bs, s) \in Seq(Emissions) /\ Recorded(cs, s) = Recorded(bs, s) \o F
    BY RecordedAppend
  <2>4. SelectedColumn(b, s, 0, t) = v
    BY DEF Sounds, Sound
  <2>5. v \in Seq(Read)
    <3>1. Filter(f, V) \in Seq(Read \cap V)
      BY <2>2, FilterType
    <3> QED
      BY <3>1, SeqMonotonic
  <2>6. OfSignal(s, v) = Filter(F, W)
    <3> HIDE DEF f
    <3> QED
      BY <1>0, <2>2, TaggedAppend
  <2> HIDE DEF cs, f, F, v, V, W, n, P
  <2>7. Filter(Recorded(cs, s), W) = Filter(Recorded(bs, s), W) \o OfSignal(s, v)
    BY <2>2, <2>3, <2>6, FilterJoin
  <2>8. Filter(Recorded(bs, s), W) \in Seq(Emissions)
    <3>1. Filter(Recorded(bs, s), W) \in Seq(Emissions \cap W)
      BY <2>3, FilterType
    <3> QED
      BY <3>1, SeqMonotonic
  <2>9. LastIn(cs, n, s, t) = LastCode(Filter(Recorded(bs, s), W), s)
    <3>1. LastIn(cs, n, s, t) = LastIn(bs, n, s, t)
      BY <2>1, LastInSame
    <3>2. LastIn(bs, n, s, t) = LastCode(Filter(Recorded(bs, s), W), s)
      BY <1>2 DEF P, n
    <3> QED
      BY <3>1, <3>2
  <2>10. LastIn(cs, n + 1, s, t) = IF v # << >> THEN Last(v).code ELSE LastIn(cs, n, s, t)
    <3>1. LastIn(cs, n + 1, s, t)
            = IF SelectedColumn(cs[n + 1], s, 0, t) # << >>
              THEN Last(SelectedColumn(cs[n + 1], s, 0, t)).code ELSE LastIn(cs, n, s, t)
      BY <2>1, LastInNext
    <3>2. SelectedColumn(cs[n + 1], s, 0, t) = v
      BY <2>1, <2>4
    <3> QED
      BY <3>1, <3>2
  <2>11. LastIn(cs, n + 1, s, t) = LastCode(Filter(Recorded(cs, s), W), s)
    <3>1. CASE v = << >>
      <4>1. OfSignal(s, v) = << >>
        BY <1>0, <3>1, TaggedAppend
      <4>2. Filter(Recorded(cs, s), W) = Filter(Recorded(bs, s), W)
        BY <2>7, <2>8, <4>1, ConcatEmptySeq
      <4> QED
        BY <2>9, <2>10, <3>1, <4>2
    <3>2. CASE v # << >>
      <4> DEFINE x == Filter(Recorded(bs, s), W)
                 y == OfSignal(s, v)
      <4>1. /\ y \in Seq(Emissions) /\ Len(y) = Len(v) /\ Len(v) \in Nat /\ Len(v) # 0
            /\ y[Len(v)].code = v[Len(v)].code
        <5>1. Len(v) \in Nat /\ Len(v) # 0 /\ DOMAIN v = 1 .. Len(v)
          BY <2>5, <3>2, EmptySeq, LenProperties
        <5>2. Len(v) \in DOMAIN v
          BY <5>1
        <5> QED
          BY <1>0, <2>5, <5>1, <5>2, TaggedIs
      <4> HIDE DEF x, y
      <4>2. /\ Len(x \o y) = Len(x) + Len(y) /\ Len(x) \in Nat
            /\ (x \o y)[Len(x) + Len(y)] = y[Len(y)]
        <5>1. x \in Seq(Emissions)
          BY <2>8 DEF x
        <5>0. y \in Seq(Emissions)
          BY <4>1
        <5>2. /\ Len(x \o y) = Len(x) + Len(y) /\ Len(x) \in Nat
              /\ \A i \in 1 .. Len(y) : (x \o y)[Len(x) + i] = y[i]
          BY <5>0, <5>1, JoinTwo
        <5>3. Len(y) \in 1 .. Len(y)
          BY <4>1
        <5> QED
          BY <5>2, <5>3
      <4>3. x \o y # << >>
        BY <4>1, <4>2
      <4>4. LastCode(x \o y, s) = v[Len(v)].code
        BY <4>1, <4>2, <4>3 DEF LastCode
      <4>5. Filter(Recorded(cs, s), W) = x \o y
        BY <2>7 DEF x, y
      <4> QED
        BY <2>10, <3>2, <4>4, <4>5 DEF Last
    <3> QED
      BY <3>1, <3>2
  <2> QED
    BY <2>1, <2>11 DEF P, cs
<1> HIDE DEF P
<1>3. \A bs \in Seq(T) : bs \in P
  BY <1>1, <1>2, Lists
<1> QED
  BY <1>3 DEF P

-----------------------------------------------------------------------------
(* The value of a signal at a time. *)

LEMMA NothingYet ==
  ASSUME NEW b, NEW s, NEW t, Sound(b), s \in Signals, t \in Nat, b.start > t
  PROVE  SelectedColumn(b, s, 0, t) = << >>
<1>1. /\ Full(b, s) \in Seq(Within(Read, b.start, b.end))
      /\ SelectedColumn(b, s, 0, t) = Filter(Full(b, s), Within(Read, 0, t))
      /\ b.start \in Nat
  BY DEF Sound
<1>2. Within(Read, b.start, b.end) \cap Within(Read, 0, t) = {}
  BY <1>1 DEF Within, InWindow, Read
<1> QED
  BY <1>1, <1>2, FilterNothing

LEMMA AllOfIt ==
  ASSUME NEW b, NEW s, NEW t, Sound(b), s \in Signals, t \in Nat, b.end <= t
  PROVE  SelectedColumn(b, s, 0, t) = Full(b, s)
<1>1. /\ Full(b, s) \in Seq(Within(Read, b.start, b.end))
      /\ SelectedColumn(b, s, 0, t) = Filter(Full(b, s), Within(Read, 0, t))
      /\ b.start \in Nat /\ b.end \in Nat
  BY DEF Sound
<1>2. Within(Read, b.start, b.end) \subseteq Within(Read, 0, t)
  BY <1>1 DEF Within, InWindow, Read
<1> QED
  BY <1>1, <1>2, FilterAll

LEMMA NotHeld ==
  ASSUME NEW b, NEW s, NEW a, NEW z, s > b.signals \/ Group(s) \notin DOMAIN b.frames
  PROVE  SelectedColumn(b, s, a, z) = << >>
BY DEF SelectedColumn

LastDirty(bs, i, g) ==
  LET dirty == {j \in 1 .. (i - 1) : g \in DOMAIN bs[j].frames}
  IN  IF dirty = {} THEN NoBlock ELSE Max(dirty)

\* How the blocks of a file follow each other.
Ordered(bs) ==
  \A i, j \in 1 .. Len(bs) : i < j => bs[i].end <= bs[j].start /\ bs[i].signals <= bs[j].signals
Linked(bs) ==
  \A i \in 1 .. Len(bs) :
    /\ bs[i].signals \in Nat /\ DOMAIN bs[i].frames \subseteq Groups(bs[i].signals)
    /\ \A g \in Groups(bs[i].signals) : bs[i].previous[g] = LastDirty(bs, i, g)
Framed(bs) ==
  \A i \in 1 .. Len(bs) : \A g \in DOMAIN bs[i].frames :
    /\ DOMAIN bs[i].frames[g] = Members(g, bs[i].signals)
    /\ \A s \in Members(g, bs[i].signals) : bs[i].frames[g][s] = LastIn(bs, i - 1, s, MaxTime)

\* Nothing is held of a signal in blocks a .. n.
LEMMA LastInStays ==
  ASSUME NEW bs, NEW m, NEW n, NEW s, NEW t, m \in Nat, n \in Nat, m <= n,
         \A j \in m + 1 .. n : SelectedColumn(bs[j], s, 0, t) = << >>
  PROVE  LastIn(bs, n, s, t) = LastIn(bs, m, s, t)
<1>1. Holding(bs, n, s, t) = Holding(bs, m, s, t)
  BY DEF Holding
<1> QED
  BY <1>1 DEF LastIn

LEMMA LastInUpTo ==
  ASSUME NEW bs, NEW n, NEW s, NEW t, NEW u, n \in Nat,
         \A j \in 1 .. n : SelectedColumn(bs[j], s, 0, t) = SelectedColumn(bs[j], s, 0, u)
  PROVE  LastIn(bs, n, s, t) = LastIn(bs, n, s, u)
<1>1. Holding(bs, n, s, t) = Holding(bs, n, s, u)
  BY DEF Holding
<1>2. Holding(bs, n, s, t) # {} => Max(Holding(bs, n, s, t)) \in 1 .. n
  BY Greatest DEF Holding
<1> QED
  BY <1>1, <1>2 DEF LastIn

LEMMA FirstBlocks ==
  ASSUME NEW T, Sounds(T), blocks \in Seq(T), Ordered(blocks),
         NEW s \in Signals, NEW t \in Nat, NEW k \in 1 .. Len(blocks), blocks[k].start <= t
  PROVE  /\ LastIn(blocks, k - 1, s, t) = LastIn(blocks, k - 1, s, MaxTime)
         /\ \A j \in 1 .. k - 1 : blocks[j].start <= t /\ blocks[j].end <= t
<1>1. Len(blocks) \in Nat /\ \A i \in 1 .. Len(blocks) : blocks[i] \in T /\ Sound(blocks[i])
  BY LenProperties, ElementOfSeq DEF Sounds
<1>2. MaxTime \in Nat
  BY ConstantsOK
<1>3. ASSUME NEW j \in 1 .. k - 1
      PROVE  /\ blocks[j].start <= t /\ blocks[j].end <= t
             /\ SelectedColumn(blocks[j], s, 0, t) = SelectedColumn(blocks[j], s, 0, MaxTime)
  <2>1. j \in 1 .. Len(blocks) /\ j < k /\ Sound(blocks[j]) /\ Sound(blocks[k])
    BY <1>1
  <2>2. blocks[j].end <= blocks[k].start /\ blocks[j].end \in Nat /\ blocks[k].start \in Nat
        /\ blocks[j].start \in Nat /\ blocks[j].start <= blocks[j].end /\ blocks[j].end <= MaxTime
    BY <2>1 DEF Ordered, Sound
  <2>3. blocks[j].end <= t
    BY <2>2
  <2>4. SelectedColumn(blocks[j], s, 0, t) = Full(blocks[j], s)
    BY <2>1, <2>3, AllOfIt
  <2>5. SelectedColumn(blocks[j], s, 0, MaxTime) = Full(blocks[j], s)
    BY <1>2, <2>1, <2>2, AllOfIt
  <2> QED
    BY <2>2, <2>3, <2>4, <2>5
<1>4. k - 1 \in Nat
  BY <1>1
<1>5. LastIn(blocks, k - 1, s, t) = LastIn(blocks, k - 1, s, MaxTime)
  BY <1>3, <1>4, LastInUpTo
<1> QED
  BY <1>3, <1>5

\* Reading the block k, in which the group of s is dirty.
LEMMA ReadFrom ==
  ASSUME NEW T, Sounds(T), blocks \in Seq(T), Ordered(blocks), Framed(blocks), Linked(blocks),
         NEW s \in Signals, NEW t \in Nat, NEW k \in 1 .. Len(blocks), blocks[k].start <= t,
         Group(s) \in DOMAIN blocks[k].frames, s <= blocks[k].signals
  PROVE  LastIn(blocks, k, s, t)
           = IF SelectedColumn(blocks[k], s, 0, t) = << >> THEN blocks[k].frames[Group(s)][s]
             ELSE Last(SelectedColumn(blocks[k], s, 0, t)).code
<1>1. Len(blocks) \in Nat /\ k - 1 \in Nat /\ k \in Nat
  BY LenProperties
<1>2. LastIn(blocks, k, s, t)
        = IF SelectedColumn(blocks[k], s, 0, t) # << >>
          THEN Last(SelectedColumn(blocks[k], s, 0, t)).code ELSE LastIn(blocks, k - 1, s, t)
  <2>1. PICK m \in Nat : k = m + 1 /\ k - 1 = m
    BY <1>1
  <2>2. LastIn(blocks, m + 1, s, t)
          = IF SelectedColumn(blocks[m + 1], s, 0, t) # << >>
            THEN Last(SelectedColumn(blocks[m + 1], s, 0, t)).code ELSE LastIn(blocks, m, s, t)
    BY LastInNext
  <2> QED
    BY <2>1, <2>2
<1>3. LastIn(blocks, k - 1, s, t) = LastIn(blocks, k - 1, s, MaxTime)
  BY FirstBlocks
<1>4. s \in Members(Group(s), blocks[k].signals)
  <2>1. s \in Nat /\ 1 <= s /\ blocks[k].signals \in Nat
    BY SignalsType DEF Linked
  <2> QED
    BY <2>1, GroupIs
<1>5. blocks[k].frames[Group(s)][s] = LastIn(blocks, k - 1, s, MaxTime)
  BY <1>4 DEF Framed
<1> QED
  BY <1>2, <1>3, <1>5

\* The value at a time is the last one recorded up to then; or it cannot be
\* read, and then there was none.
LEMMA ValueReads ==
  ASSUME NEW T, Sounds(T), blocks \in Seq(T), Ordered(blocks), Framed(blocks), Linked(blocks),
         NEW s \in Signals, NEW t \in Nat
  PROVE  \/ ValueAt(s, t) = LastIn(blocks, Len(blocks), s, t)
         \/ ValueAt(s, t) = Panic /\ LastIn(blocks, Len(blocks), s, t) = DefaultCode(Kind(s))
<1> DEFINE N == Len(blocks)
           begun == {i \in DOMAIN blocks : blocks[i].start <= t}
           last == Max(begun)
           from == IF Group(s) \in DOMAIN blocks[last].frames
                   THEN last ELSE blocks[last].previous[Group(s)]
           seen == SelectedColumn(blocks[from], s, 0, t)
<1>1. /\ N \in Nat /\ DOMAIN blocks = 1 .. N
      /\ \A i \in 1 .. N : blocks[i] \in T /\ Sound(blocks[i])
  BY LenProperties, ElementOfSeq DEF Sounds
<1>2. ValueAt(s, t) = IF begun = {} \/ s > blocks[last].signals \/ from = NoBlock
                      THEN DefaultCode(Kind(s))
                      ELSE IF s > blocks[from].signals THEN Panic
                      ELSE IF seen = << >> THEN blocks[from].frames[Group(s)][s]
                      ELSE Last(seen).code
  BY DEF ValueAt
<1>3. begun \in SUBSET (1 .. N)
  BY <1>1
<1>4. s \in Nat /\ 1 <= s
  BY SignalsType
<1>5. ASSUME NEW j \in 1 .. N, j \notin begun PROVE SelectedColumn(blocks[j], s, 0, t) = << >>
  <2>1. Sound(blocks[j]) /\ blocks[j].start > t
    <3>1. Sound(blocks[j]) /\ blocks[j].start \in Nat /\ ~(blocks[j].start <= t)
      BY <1>1, <1>5 DEF Sound
    <3> QED
      BY <3>1
  <2> QED
    BY <2>1, NothingYet
<1> HIDE DEF begun
<1>6. CASE begun = {}
  <2>1. \A j \in 0 + 1 .. N : SelectedColumn(blocks[j], s, 0, t) = << >>
    BY <1>5, <1>6
  <2>2. LastIn(blocks, N, s, t) = LastIn(blocks, 0, s, t)
    BY <1>1, <2>1, LastInStays
  <2>3. LastIn(blocks, 0, s, t) = DefaultCode(Kind(s))
    BY LastInNone
  <2> QED
    BY <1>2, <1>6, <2>2, <2>3
<1>7. CASE begun # {}
  <2>1. last \in begun /\ last \in 1 .. N /\ \A y \in begun : y <= last
    BY <1>1, <1>3, <1>7, Greatest
  <2> HIDE DEF last
  <2>2. blocks[last].start <= t
    BY <2>1 DEF begun
  <2>3. LastIn(blocks, N, s, t) = LastIn(blocks, last, s, t)
    <3>1. \A j \in last + 1 .. N : SelectedColumn(blocks[j], s, 0, t) = << >>
      <4> TAKE j \in last + 1 .. N
      <4>1. j \in 1 .. N /\ j \notin begun
        BY <1>1, <2>1
      <4> QED
        BY <1>5, <4>1
    <3> QED
      BY <1>1, <2>1, <3>1, LastInStays
  \* Blocks up to one that has no column of s hold nothing of it.
  <2>4. ASSUME NEW k \in 1 .. N, s > blocks[k].signals
        PROVE  LastIn(blocks, k, s, t) = DefaultCode(Kind(s))
    <3>1. \A j \in 0 + 1 .. k : SelectedColumn(blocks[j], s, 0, t) = << >>
      <4> TAKE j \in 0 + 1 .. k
      <4>1. j \in 1 .. N /\ (j = k \/ j < k) /\ blocks[j].signals \in Nat /\ blocks[k].signals \in Nat
        BY <1>1 DEF Linked
      <4>2. blocks[j].signals <= blocks[k].signals
        BY <4>1 DEF Ordered
      <4>3. s > blocks[j].signals
        BY <1>4, <2>4, <4>1, <4>2
      <4> QED
        BY <4>3, NotHeld
    <3>2. LastIn(blocks, k, s, t) = LastIn(blocks, 0, s, t)
      BY <3>1, LastInStays
    <3> QED
      BY <3>2, LastInNone
  <2>5. CASE s > blocks[last].signals
    BY <1>2, <2>1, <2>3, <2>4, <2>5
  <2>6. CASE ~(s > blocks[last].signals) /\ Group(s) \in DOMAIN blocks[last].frames
    <3>1. from = last /\ last # NoBlock
      BY <2>1, <2>6 DEF NoBlock
    <3> HIDE DEF from
    <3>2. s <= blocks[last].signals
      <4>1. blocks[last].signals \in Nat
        BY <2>1 DEF Linked
      <4> QED
        BY <1>4, <2>6, <4>1
    <3>3. LastIn(blocks, last, s, t)
            = IF SelectedColumn(blocks[last], s, 0, t) = << >> THEN blocks[last].frames[Group(s)][s]
              ELSE Last(SelectedColumn(blocks[last], s, 0, t)).code
      BY <2>1, <2>2, <2>6, <3>2, ReadFrom
    <3> QED
      BY <1>2, <1>7, <2>3, <2>6, <3>1, <3>3
  <2>7. CASE ~(s > blocks[last].signals) /\ Group(s) \notin DOMAIN blocks[last].frames
    <3> DEFINE g == Group(s)
               dirty == {j \in 1 .. (last - 1) : g \in DOMAIN blocks[j].frames}
    <3>1. s <= blocks[last].signals /\ blocks[last].signals \in Nat
      <4>1. blocks[last].signals \in Nat
        BY <2>1 DEF Linked
      <4> QED
        BY <1>4, <2>7, <4>1
    <3>2. g \in Groups(blocks[last].signals)
      BY <1>4, <3>1, GroupIs
    <3>3. from = LastDirty(blocks, last, g)
      BY <2>1, <2>7, <3>2 DEF Linked
    <3> HIDE DEF from, g
    <3>4. from = IF dirty = {} THEN NoBlock ELSE Max(dirty)
      BY <3>3 DEF LastDirty
    <3>5. last - 1 \in Nat /\ dirty \in SUBSET (1 .. last - 1)
      BY <1>1, <2>1
    <3>6. \A j \in 1 .. last : j \notin dirty => SelectedColumn(blocks[j], s, 0, t) = << >>
      <4> TAKE j \in 1 .. last
      <4>1. j \notin dirty => g \notin DOMAIN blocks[j].frames
        BY <1>1, <2>1, <2>7 DEF g
      <4> QED
        BY <4>1, NotHeld DEF g
    <3> HIDE DEF dirty
    <3>7. CASE dirty = {}
      <4>1. \A j \in 0 + 1 .. last : SelectedColumn(blocks[j], s, 0, t) = << >>
        BY <3>6, <3>7
      <4>2. LastIn(blocks, last, s, t) = LastIn(blocks, 0, s, t)
        BY <1>1, <2>1, <4>1, LastInStays
      <4> QED
        BY <1>2, <2>3, <3>4, <3>7, <4>2, LastInNone
    <3>8. CASE dirty # {}
      <4>1. /\ from \in dirty /\ from \in 1 .. last - 1 /\ from \in 1 .. N
            /\ \A y \in dirty : y <= from
        BY <1>1, <2>1, <3>4, <3>5, <3>8, Greatest
      <4>2. LastIn(blocks, last, s, t) = LastIn(blocks, from, s, t)
        <5>1. \A j \in from + 1 .. last : SelectedColumn(blocks[j], s, 0, t) = << >>
          <6> TAKE j \in from + 1 .. last
          <6>1. j \in 1 .. last /\ j \notin dirty
            BY <2>1, <4>1
          <6> QED
            BY <3>6, <6>1
        <5>2. from \in Nat /\ last \in Nat /\ from <= last
          BY <1>1, <2>1, <4>1
        <5> QED
          BY <5>1, <5>2, LastInStays
      <4>3. CASE s > blocks[from].signals
        <5>1. LastIn(blocks, from, s, t) = DefaultCode(Kind(s))
          BY <2>4, <4>1, <4>3
        <5>2. ValueAt(s, t) = Panic
          BY <1>2, <1>7, <2>7, <4>1, <4>3 DEF NoBlock
        <5> QED
          BY <2>3, <4>2, <5>1, <5>2
      <4>4. CASE ~(s > blocks[from].signals)
        <5>1. s <= blocks[from].signals
          <6>1. blocks[from].signals \in Nat
            BY <4>1 DEF Linked
          <6> QED
            BY <1>4, <4>4, <6>1
        <5>2. blocks[from].start <= t
          BY <2>1, <2>2, <4>1, FirstBlocks
        <5>3. g \in DOMAIN blocks[from].frames
          BY <4>1 DEF dirty
        <5>4. LastIn(blocks, from, s, t)
                = IF SelectedColumn(blocks[from], s, 0, t) = << >> THEN blocks[from].frames[Group(s)][s]
                  ELSE Last(SelectedColumn(blocks[from], s, 0, t)).code
          BY <4>1, <5>1, <5>2, <5>3, ReadFrom DEF g
        <5>5. from # NoBlock
          BY <4>1 DEF NoBlock
        <5> QED
          BY <1>2, <1>7, <2>3, <2>7, <4>2, <4>4, <5>4, <5>5
      <4> QED
        BY <4>3, <4>4
    <3> QED
      BY <3>7, <3>8
  <2> QED
    BY <2>5, <2>6, <2>7
<1> QED
  BY <1>6, <1>7

-----------------------------------------------------------------------------
(* What is worth recording. *)

Fresh(dd, s, own, i) == i = 1 \/ Declared[s].event \/ ~dd \/ own[i].code # own[i - 1].code

WorthOf(dd, s, own) ==
  LET fresh(i) == i = 1 \/ Declared[s].event \/ ~dd \/ own[i].code # own[i - 1].code
      worth[i \in 0 .. Len(own)] ==
        IF i = 0 THEN << >>
        ELSE IF fresh(i) THEN Append(worth[i - 1], own[i]) ELSE worth[i - 1]
  IN  worth[Len(own)]

Values(f, dd, s, own) ==
  f = [i \in 0 .. Len(own) |->
         IF i = 0 THEN << >>
         ELSE IF Fresh(dd, s, own, i) THEN Append(f[i - 1], own[i]) ELSE f[i - 1]]

LEMMA ValuesOne ==
  ASSUME NEW T, NEW own \in Seq(T), NEW x \in T, NEW dd, NEW s, NEW f, Values(f, dd, s, own)
  PROVE  \E g : /\ Values(g, dd, s, Append(own, x))
                /\ g[Len(own) + 1] = IF \/ Len(own) = 0 \/ Declared[s].event \/ ~dd
                                        \/ x.code # own[Len(own)].code
                                     THEN Append(f[Len(own)], x) ELSE f[Len(own)]
<1> DEFINE n == Len(own)
           t == Append(own, x)
           fresh == n = 0 \/ Declared[s].event \/ ~dd \/ x.code # own[n].code
           g == [i \in 0 .. n + 1 |-> IF i = n + 1 THEN IF fresh THEN Append(f[n], x) ELSE f[n]
                                      ELSE f[i]]
<1>1. n \in Nat /\ Len(t) = n + 1 /\ t[n + 1] = x /\ \A i \in 1 .. n : t[i] = own[i]
  BY AppendOne
<1> HIDE DEF t
<1>2. \A i \in 0 .. n : f[i] = IF i = 0 THEN << >>
                               ELSE IF Fresh(dd, s, own, i) THEN Append(f[i - 1], own[i]) ELSE f[i - 1]
  BY <1>1 DEF Values
<1>3. ASSUME NEW i \in 0 .. n + 1
      PROVE  g[i] = IF i = 0 THEN << >>
                    ELSE IF Fresh(dd, s, t, i) THEN Append(g[i - 1], t[i]) ELSE g[i - 1]
  <2>1. CASE i = n + 1
    <3>1. Fresh(dd, s, t, i) <=> fresh
      <4>1. CASE n = 0
        BY <2>1, <4>1 DEF Fresh
      <4>2. CASE n # 0
        <5>1. t[i] = x /\ i - 1 = n /\ n \in 1 .. n /\ i # 1
          BY <1>1, <2>1, <4>2
        <5>2. t[n] = own[n]
          BY <1>1, <5>1
        <5> QED
          BY <4>2, <5>1, <5>2 DEF Fresh
      <4> QED
        BY <4>1, <4>2
    <3>2. i # 0 /\ i - 1 \in 0 .. n + 1 /\ i - 1 # n + 1 /\ i - 1 = n /\ t[i] = x
      BY <1>1, <2>1, SMTT(30)
    <3>3. g[i] = (IF fresh THEN Append(f[n], x) ELSE f[n]) /\ g[i - 1] = f[n]
      BY <2>1, <3>2
    <3> HIDE DEF g, fresh
    <3> QED
      BY <3>1, <3>2, <3>3
  <2>2. CASE i # n + 1
    <3>1. i \in 0 .. n /\ (i # 0 => i \in 1 .. n /\ i - 1 \in 0 .. n + 1 /\ i - 1 # n + 1)
      BY <1>1, <2>2
    <3>2. i # 0 => (Fresh(dd, s, t, i) <=> Fresh(dd, s, own, i))
      <4>1. i # 0 /\ i # 1 => i \in 1 .. n /\ i - 1 \in 1 .. n
        BY <1>1, <3>1
      <4> QED
        BY <1>1, <3>1, <4>1 DEF Fresh
    <3>3. g[i] = f[i] /\ (i # 0 => g[i - 1] = f[i - 1] /\ t[i] = own[i])
      BY <1>1, <2>2, <3>1
    <3> HIDE DEF g, fresh
    <3> QED
      BY <1>2, <3>1, <3>2, <3>3
  <2> QED
    BY <2>1, <2>2
<1>4. Values(g, dd, s, t)
  <2>1. g = [i \in 0 .. n + 1 |-> g[i]]
    OBVIOUS
  <2> HIDE DEF g
  <2> QED
    BY <1>1, <1>3, <2>1 DEF Values
<1>5. g[n + 1] = IF fresh THEN Append(f[n], x) ELSE f[n]
  BY <1>1
<1> QED
  BY <1>4, <1>5 DEF t

LEMMA ValuesExists ==
  ASSUME NEW T, NEW dd, NEW s
  PROVE  \A own \in Seq(T) : \E f : Values(f, dd, s, own)
<1> DEFINE P == {own \in Seq(T) : \E f : Values(f, dd, s, own)}
<1>1. << >> \in P
  <2>1. << >> \in Seq(T) /\ Len(<< >>) = 0
    BY EmptySeq
  <2>2. Values([i \in 0 .. 0 |-> << >>], dd, s, << >>)
    BY <2>1 DEF Values
  <2> QED
    BY <2>1, <2>2
<1>2. ASSUME NEW own \in Seq(T), NEW x \in T, own \in P PROVE Append(own, x) \in P
  <2>1. PICK f : Values(f, dd, s, own)
    BY <1>2
  <2>2. \E g : Values(g, dd, s, Append(own, x))
    BY <2>1, ValuesOne
  <2> QED
    BY <2>2, AppendOne
<1> HIDE DEF P
<1>3. \A own \in Seq(T) : own \in P
  BY <1>1, <1>2, Lists
<1> QED
  BY <1>3 DEF P

LEMMA ValuesUnique ==
  ASSUME NEW own, Len(own) \in Nat, NEW dd, NEW s,
         NEW f, Values(f, dd, s, own), NEW g, Values(g, dd, s, own)
  PROVE  f[Len(own)] = g[Len(own)]
<1> DEFINE P == {n \in Nat : n <= Len(own) => f[n] = g[n]}
<1>1. 0 \in P
  BY DEF Values
<1>2. ASSUME NEW n \in Nat, n \in P PROVE n + 1 \in P
  <2>1. CASE n + 1 <= Len(own)
    <3>1. n + 1 \in 0 .. Len(own) /\ n + 1 # 0 /\ (n + 1) - 1 = n /\ n <= Len(own)
      BY <2>1
    <3>2. f[n] = g[n]
      BY <1>2, <3>1
    <3>3. f[n + 1] = IF Fresh(dd, s, own, n + 1) THEN Append(f[n], own[n + 1]) ELSE f[n]
      BY <3>1 DEF Values
    <3>4. g[n + 1] = IF Fresh(dd, s, own, n + 1) THEN Append(g[n], own[n + 1]) ELSE g[n]
      BY <3>1 DEF Values
    <3> QED
      BY <3>2, <3>3, <3>4
  <2> QED
    BY <2>1
<1> HIDE DEF P
<1>3. \A n \in Nat : n \in P
  BY <1>1, <1>2, Induction
<1> QED
  BY <1>3 DEF P

LEMMA WorthIs ==
  ASSUME NEW T, NEW own \in Seq(T), NEW dd, NEW s, NEW f, Values(f, dd, s, own)
  PROVE  WorthOf(dd, s, own) = f[Len(own)]
<1> DEFINE g == CHOOSE h : Values(h, dd, s, own)
<1>1. Values(g, dd, s, own)
  OBVIOUS
<1>2. WorthOf(dd, s, own) = g[Len(own)]
  BY DEF WorthOf, Values, Fresh
<1> HIDE DEF g
<1> QED
  BY <1>1, <1>2, ValuesUnique, LenProperties

LEMMA WorthNone == \A dd, s : WorthOf(dd, s, << >>) = << >>
<1> TAKE dd, s
<1>1. << >> \in Seq({}) /\ Len(<< >>) = 0
  BY EmptySeq
<1>2. Values([i \in 0 .. 0 |-> << >>], dd, s, << >>)
  BY <1>1 DEF Values
<1>3. WorthOf(dd, s, << >>) = [i \in 0 .. 0 |-> << >>][0]
  BY <1>1, <1>2, WorthIs
<1> QED
  BY <1>3

LEMMA WorthAppend ==
  ASSUME NEW T, NEW own, NEW x, NEW dd, NEW s, own \in Seq(T), x \in T
  PROVE  WorthOf(dd, s, Append(own, x))
           = IF Len(own) = 0 \/ Declared[s].event \/ ~dd \/ x.code # own[Len(own)].code
             THEN Append(WorthOf(dd, s, own), x) ELSE WorthOf(dd, s, own)
<1>1. PICK f : Values(f, dd, s, own)
  BY ValuesExists
<1>2. PICK g : /\ Values(g, dd, s, Append(own, x))
               /\ g[Len(own) + 1] = IF \/ Len(own) = 0 \/ Declared[s].event \/ ~dd
                                       \/ x.code # own[Len(own)].code
                                    THEN Append(f[Len(own)], x) ELSE f[Len(own)]
  BY <1>1, ValuesOne
<1>3. Append(own, x) \in Seq(T) /\ Len(Append(own, x)) = Len(own) + 1
  BY AppendOne
<1>4. WorthOf(dd, s, own) = f[Len(own)]
  BY <1>1, WorthIs
<1>5. WorthOf(dd, s, Append(own, x)) = g[Len(own) + 1]
  BY <1>2, <1>3, WorthIs
<1> QED
  BY <1>2, <1>4, <1>5, Zenon

LEMMA WorthType ==
  ASSUME NEW T, NEW dd, NEW s
  PROVE  \A own \in Seq(T) : WorthOf(dd, s, own) \in Seq(T)
<1> DEFINE P == {own \in Seq(T) : WorthOf(dd, s, own) \in Seq(T)}
<1>1. << >> \in P
  BY WorthNone, EmptySeq
<1>2. ASSUME NEW own \in Seq(T), NEW x \in T, own \in P PROVE Append(own, x) \in P
  <2>1. WorthOf(dd, s, own) \in Seq(T)
    BY <1>2
  <2>2. Append(WorthOf(dd, s, own), x) \in Seq(T) /\ Append(own, x) \in Seq(T)
    BY <2>1, AppendProperties
  <2>3. WorthOf(dd, s, Append(own, x))
          = IF Len(own) = 0 \/ Declared[s].event \/ ~dd \/ x.code # own[Len(own)].code
            THEN Append(WorthOf(dd, s, own), x) ELSE WorthOf(dd, s, own)
    BY WorthAppend
  <2> QED
    BY <2>1, <2>2, <2>3
<1> HIDE DEF P
<1>3. \A own \in Seq(T) : own \in P
  BY <1>1, <1>2, Lists
<1> QED
  BY <1>3 DEF P

LEMMA AppendSome ==
  ASSUME NEW T, NEW q, NEW x, q \in Seq(T), x \in T
  PROVE  Append(q, x) # << >>
<1> DEFINE t == Append(q, x)
<1>1. Len(q) \in Nat /\ Len(t) = Len(q) + 1
  BY AppendOne
<1>2. Len(<< >>) = 0
  BY EmptySeq
<1> HIDE DEF t
<1>3. t # << >>
  BY <1>1, <1>2
<1> QED
  BY <1>3 DEF t

LEMMA LastCodeAppend ==
  ASSUME NEW T, NEW q, NEW x, NEW s, q \in Seq(T), x \in T
  PROVE  LastCode(Append(q, x), s) = x.code
<1>1. Len(q) \in Nat /\ Len(Append(q, x)) = Len(q) + 1 /\ Append(q, x)[Len(q) + 1] = x
      /\ Append(q, x) \in Seq(T)
  BY AppendOne
<1>2. Append(q, x) # << >>
  BY AppendSome
<1> QED
  BY <1>1, <1>2 DEF LastCode

LEMMA ClimbsAppend ==
  ASSUME NEW T, NEW q, NEW x, q \in Seq(T), x \in T
  PROVE  /\ Climbs(Append(q, x)) => Climbs(q) /\ \A i \in 1 .. Len(q) : q[i].time <= x.time
         /\ Climbs(q) /\ x.time <= x.time /\ (\A i \in 1 .. Len(q) : q[i].time <= x.time)
              => Climbs(Append(q, x))
<1> DEFINE t == Append(q, x)
<1>1. /\ t \in Seq(T) /\ Len(q) \in Nat /\ Len(t) = Len(q) + 1 /\ t[Len(q) + 1] = x
      /\ \A i \in 1 .. Len(q) : t[i] = q[i]
      /\ DOMAIN q = 1 .. Len(q) /\ DOMAIN t = 1 .. Len(q) + 1
  BY AppendOne, LenProperties
<1> HIDE DEF t
<1>2. ASSUME Climbs(t) PROVE Climbs(q) /\ \A i \in 1 .. Len(q) : q[i].time <= x.time
  <2>1. \A i, j \in 1 .. Len(q) + 1 : i <= j => t[i].time <= t[j].time
    BY <1>1, <1>2 DEF Climbs
  <2>2. Climbs(q)
    BY <1>1, <2>1 DEF Climbs
  <2>3. ASSUME NEW i \in 1 .. Len(q) PROVE q[i].time <= x.time
    <3>1. i \in 1 .. Len(q) + 1 /\ Len(q) + 1 \in 1 .. Len(q) + 1 /\ i <= Len(q) + 1
      BY <1>1
    <3> QED
      BY <1>1, <2>1, <3>1
  <2> QED
    BY <2>2, <2>3
<1>3. ASSUME Climbs(q), x.time <= x.time, \A i \in 1 .. Len(q) : q[i].time <= x.time PROVE Climbs(t)
  <2>1. ASSUME NEW i \in 1 .. Len(q) + 1, NEW j \in 1 .. Len(q) + 1, i <= j
        PROVE  t[i].time <= t[j].time
    <3>1. CASE j = Len(q) + 1
      <4>1. i = Len(q) + 1 \/ i \in 1 .. Len(q)
        BY <1>1
      <4> QED
        BY <1>1, <1>3, <3>1, <4>1
    <3>2. CASE j # Len(q) + 1
      <4>1. i \in 1 .. Len(q) /\ j \in 1 .. Len(q)
        BY <1>1, <2>1, <3>2
      <4> QED
        BY <1>1, <1>3, <2>1, <4>1 DEF Climbs
    <3> QED
      BY <3>1, <3>2
  <2> QED
    BY <1>1, <2>1 DEF Climbs
<1> QED
  BY <1>2, <1>3 DEF t

\* The last value up to a time is the same among those worth recording.
LEMMA WorthUpTo ==
  ASSUME NEW dd, NEW s, NEW t \in Nat
  PROVE  \A own \in Seq(Emissions) : Climbs(own) =>
           /\ own = << >> <=> WorthOf(dd, s, own) = << >>
           /\ LastCode(own, s) = LastCode(WorthOf(dd, s, own), s)
           /\ LastCode(Filter(own, Within(Emissions, 0, t)), s)
                = LastCode(Filter(WorthOf(dd, s, own), Within(Emissions, 0, t)), s)
<1> DEFINE W == Within(Emissions, 0, t)
           Goal(own) ==
             /\ own = << >> <=> WorthOf(dd, s, own) = << >>
             /\ LastCode(own, s) = LastCode(WorthOf(dd, s, own), s)
             /\ LastCode(Filter(own, W), s) = LastCode(Filter(WorthOf(dd, s, own), W), s)
           P == {own \in Seq(Emissions) : Climbs(own) => Goal(own)}
<1>1. << >> \in P
  BY WorthNone, EmptySeq
<1>2. ASSUME NEW own \in Seq(Emissions), NEW e \in Emissions, own \in P PROVE Append(own, e) \in P
  <2> DEFINE o == Append(own, e)
             v == WorthOf(dd, s, own)
             u == WorthOf(dd, s, o)
             fresh == Len(own) = 0 \/ Declared[s].event \/ ~dd \/ e.code # own[Len(own)].code
  <2>1. o \in Seq(Emissions) /\ o # << >> /\ Len(own) \in Nat
    BY AppendOne, AppendSome
  <2>2. u = IF fresh THEN Append(v, e) ELSE v
    BY WorthAppend
  <2>3. v \in Seq(Emissions)
    BY WorthType
  <2>4. Filter(o, W) = IF e \in W THEN Append(Filter(own, W), e) ELSE Filter(own, W)
    BY FilterAppend
  <2>5. Filter(own, W) \in Seq(Emissions) /\ Filter(v, W) \in Seq(Emissions)
    <3>1. Filter(own, W) \in Seq(Emissions \cap W) /\ Filter(v, W) \in Seq(Emissions \cap W)
      BY <2>3, FilterType
    <3> QED
      BY <3>1, SeqMonotonic
  <2> HIDE DEF v, fresh, W
  <2>6. ASSUME Climbs(o) PROVE Goal(o)
    <3>1. Climbs(own) /\ \A i \in 1 .. Len(own) : own[i].time <= e.time
      BY <2>6, ClimbsAppend
    <3>2. /\ own = << >> <=> v = << >>
          /\ LastCode(own, s) = LastCode(v, s)
          /\ LastCode(Filter(own, W), s) = LastCode(Filter(v, W), s)
      BY <1>2, <3>1 DEF v
    <3>3. LastCode(o, s) = e.code
      BY LastCodeAppend
    <3>4. CASE fresh
      <4>1. u = Append(v, e)
        BY <2>2, <3>4
      <4>2. u # << >> /\ LastCode(u, s) = e.code
        <5>1. Append(v, e) \in Seq(Emissions) /\ Len(Append(v, e)) = Len(v) + 1 /\ Len(v) \in Nat
          BY <2>3, AppendOne
        <5>2. Append(v, e) # << >>
          BY <2>3, AppendSome
        <5>3. LastCode(Append(v, e), s) = e.code
          BY <2>3, LastCodeAppend
        <5> QED
          BY <4>1, <5>2, <5>3
      <4>3. Filter(u, W) = IF e \in W THEN Append(Filter(v, W), e) ELSE Filter(v, W)
        BY <2>3, <4>1, FilterAppend
      <4>4. LastCode(Filter(o, W), s) = LastCode(Filter(u, W), s)
        <5>1. CASE e \in W
          <6>1. LastCode(Append(Filter(own, W), e), s) = e.code
            BY <2>5, LastCodeAppend
          <6>2. LastCode(Append(Filter(v, W), e), s) = e.code
            BY <2>5, LastCodeAppend
          <6> QED
            BY <2>4, <4>3, <5>1, <6>1, <6>2
        <5>2. CASE e \notin W
          BY <2>4, <3>2, <4>3, <5>2
        <5> QED
          BY <5>1, <5>2
      <4> QED
        BY <2>1, <3>3, <4>2, <4>4 DEF W
    <3>5. CASE ~fresh
      <4>1. u = v
        BY <2>2, <3>5
      <4>2. own # << >> /\ e.code = own[Len(own)].code
        BY <3>5, EmptySeq DEF fresh
      <4>3. LastCode(own, s) = e.code
        BY <4>2 DEF LastCode
      <4>4. LastCode(Filter(o, W), s) = LastCode(Filter(u, W), s)
        <5>1. CASE e \in W
          <6>1. LastCode(Append(Filter(own, W), e), s) = e.code
            BY <2>5, LastCodeAppend
          <6>2. \A i \in 1 .. Len(own) : own[i] \in W
            <7> TAKE i \in 1 .. Len(own)
            <7>1. own[i] \in Emissions /\ own[i].time <= e.time
              BY <3>1, ElementOfSeq
            <7>2. own[i].time \in Nat /\ e.time \in Nat /\ e.time <= t
              BY <5>1, <7>1 DEF Emissions, W, Within, InWindow
            <7> QED
              BY <7>1, <7>2 DEF W, Within, InWindow
          <6>3. own \in Seq(W)
            BY <6>2
          <6>4. Filter(own, W) = own
            BY <6>3, FilterAll
          <6> QED
            BY <2>4, <3>2, <4>1, <4>3, <5>1, <6>1, <6>4
        <5>2. CASE e \notin W
          BY <2>4, <3>2, <4>1, <5>2
        <5> QED
          BY <5>1, <5>2
      <4> QED
        BY <2>1, <3>2, <3>3, <4>1, <4>2, <4>3, <4>4 DEF W
    <3> QED
      BY <3>4, <3>5
  <2> QED
    BY <2>1, <2>6
<1> HIDE DEF P
<1>3. \A own \in Seq(Emissions) : own \in P
  BY <1>1, <1>2, Lists
<1> QED
  BY <1>3 DEF P

-----------------------------------------------------------------------------
(* The emissions of a signal. *)

OwnOf(h, s) == Filter(h, SignalIs(Emissions, s))

LEMMA OwnType ==
  ASSUME NEW h, NEW s, h \in Seq(Emissions)
  PROVE  OwnOf(h, s) \in Seq(Emissions)
<1>1. Filter(h, SignalIs(Emissions, s)) \in Seq(Emissions \cap SignalIs(Emissions, s))
  BY FilterType
<1> QED
  BY <1>1, SeqMonotonic DEF OwnOf

LEMMA OwnAppend ==
  ASSUME NEW h, NEW e, NEW s, h \in Seq(Emissions), e \in Emissions
  PROVE  OwnOf(Append(h, e), s) = IF e.signal = s THEN Append(OwnOf(h, s), e) ELSE OwnOf(h, s)
<1>1. e \in SignalIs(Emissions, s) <=> e.signal = s
  BY DEF SignalIs
<1> QED
  BY <1>1, FilterAppend DEF OwnOf

\* A selection keeps the order of time, and every bound on it.
LEMMA FilterClimbs ==
  ASSUME NEW T, NEW S, \A x \in T : x.time \in Nat
  PROVE  \A h \in Seq(T) : Climbs(h) =>
           /\ Climbs(Filter(h, S))
           /\ \A t \in Nat : (\A i \in 1 .. Len(h) : h[i].time <= t)
                               => \A i \in 1 .. Len(Filter(h, S)) : Filter(h, S)[i].time <= t
<1> DEFINE Low(q, t) == \A i \in 1 .. Len(q) : q[i].time <= t
           P == {h \in Seq(T) : Climbs(h) => /\ Climbs(Filter(h, S))
                                             /\ \A t \in Nat : Low(h, t) => Low(Filter(h, S), t)}
<1>1. << >> \in P
  <2>1. << >> \in Seq(T) /\ Filter(<< >>, S) = << >> /\ Climbs(<< >>)
    BY EmptySeq, FilterEmpty DEF Climbs
  <2> QED
    BY <2>1
<1>2. ASSUME NEW h \in Seq(T), NEW x \in T, h \in P PROVE Append(h, x) \in P
  <2> DEFINE o == Append(h, x)
             f == Filter(h, S)
  <2>1. /\ o \in Seq(T) /\ Len(h) \in Nat /\ Len(o) = Len(h) + 1 /\ o[Len(h) + 1] = x
        /\ \A i \in 1 .. Len(h) : o[i] = h[i]
    BY AppendOne
  <2>2. Filter(o, S) = IF x \in S THEN Append(f, x) ELSE f
    BY FilterAppend
  <2>3. f \in Seq(T)
    <3>1. Filter(h, S) \in Seq(T \cap S)
      BY FilterType
    <3> QED
      BY <3>1, SeqMonotonic
  <2>4. ASSUME Climbs(o)
        PROVE  /\ Climbs(Filter(o, S))
               /\ \A t \in Nat : Low(o, t) => Low(Filter(o, S), t)
    <3>1. Climbs(h) /\ Low(h, x.time)
      BY <2>4, ClimbsAppend
    <3>2. Climbs(f) /\ \A t \in Nat : Low(h, t) => Low(f, t)
      BY <1>2, <3>1
    <3>3. x.time \in Nat /\ x.time <= x.time
      OBVIOUS
    <3>4. Low(f, x.time)
      BY <3>1, <3>2, <3>3
    <3> HIDE DEF f, o
    <3>5. Climbs(Append(f, x))
      BY <2>3, <3>2, <3>3, <3>4, ClimbsAppend
    <3>6. ASSUME NEW t \in Nat, Low(o, t) PROVE Low(f, t) /\ Low(Append(f, x), t)
      <4>1. Low(h, t) /\ x.time <= t
        <5>1. Len(h) + 1 \in 1 .. Len(o) /\ \A i \in 1 .. Len(h) : i \in 1 .. Len(o)
          BY <2>1
        <5> QED
          BY <2>1, <3>6, <5>1
      <4>2. Low(f, t)
        BY <3>2, <4>1
      <4>3. /\ Len(f) \in Nat /\ Len(Append(f, x)) = Len(f) + 1 /\ Append(f, x)[Len(f) + 1] = x
            /\ \A i \in 1 .. Len(f) : Append(f, x)[i] = f[i]
            /\ \A i \in 1 .. Len(Append(f, x)) : i \in 1 .. Len(f) \/ i = Len(f) + 1
        BY <2>3, AppendOne
      <4> QED
        BY <4>1, <4>2, <4>3
    <3> QED
      BY <2>2, <3>2, <3>5, <3>6
  <2> QED
    BY <2>1, <2>4
<1> HIDE DEF P
<1>3. \A h \in Seq(T) : h \in P
  BY <1>1, <1>2, Lists
<1> QED
  BY <1>3 DEF P

LastOf(h, k, s, t) ==
  LET own == {i \in 1 .. k : h[i].signal = s /\ h[i].time <= t}
  IN  IF own = {} THEN DefaultCode(Kind(s)) ELSE h[Max(own)].code

LEMMA LastOfSame ==
  ASSUME NEW h, NEW q, NEW k, NEW s, NEW t, k \in Nat, \A i \in 1 .. k : h[i] = q[i]
  PROVE  LastOf(h, k, s, t) = LastOf(q, k, s, t)
<1> DEFINE a == {i \in 1 .. k : h[i].signal = s /\ h[i].time <= t}
           b == {i \in 1 .. k : q[i].signal = s /\ q[i].time <= t}
<1>1. a = b /\ a \in SUBSET (1 .. k)
  OBVIOUS
<1>2. LastOf(h, k, s, t) = IF a = {} THEN DefaultCode(Kind(s)) ELSE h[Max(a)].code
  BY DEF LastOf
<1>3. LastOf(q, k, s, t) = IF b = {} THEN DefaultCode(Kind(s)) ELSE q[Max(b)].code
  BY DEF LastOf
<1> HIDE DEF a, b
<1>4. a # {} => Max(a) \in 1 .. k
  BY <1>1, Greatest
<1> QED
  BY <1>1, <1>2, <1>3, <1>4

LEMMA LastOfIs ==
  ASSUME NEW s, NEW t \in Nat
  PROVE  \A h \in Seq(Emissions) :
           LastOf(h, Len(h), s, t) = LastCode(Filter(OwnOf(h, s), Within(Emissions, 0, t)), s)
<1> DEFINE W == Within(Emissions, 0, t)
           P == {h \in Seq(Emissions) : LastOf(h, Len(h), s, t) = LastCode(Filter(OwnOf(h, s), W), s)}
<1>1. << >> \in P
  <2>1. << >> \in Seq(Emissions) /\ Len(<< >>) = 0 /\ OwnOf(<< >>, s) = << >> /\ Filter(<< >>, W) = << >>
    BY EmptySeq, FilterEmpty DEF OwnOf
  <2>2. LastOf(<< >>, 0, s, t) = DefaultCode(Kind(s))
    BY DEF LastOf
  <2> QED
    BY <2>1, <2>2 DEF LastCode
<1>2. ASSUME NEW h \in Seq(Emissions), NEW e \in Emissions, h \in P PROVE Append(h, e) \in P
  <2> DEFINE o == Append(h, e)
             n == Len(h)
             a == {i \in 1 .. n + 1 : o[i].signal = s /\ o[i].time <= t}
             b == {i \in 1 .. n : o[i].signal = s /\ o[i].time <= t}
  <2>1. /\ o \in Seq(Emissions) /\ n \in Nat /\ Len(o) = n + 1 /\ o[n + 1] = e
        /\ \A i \in 1 .. n : o[i] = h[i]
    BY AppendOne
  <2>2. OwnOf(o, s) = IF e.signal = s THEN Append(OwnOf(h, s), e) ELSE OwnOf(h, s)
    BY OwnAppend
  <2>3. OwnOf(h, s) \in Seq(Emissions)
    BY OwnType
  <2>4. LastOf(h, n, s, t) = LastCode(Filter(OwnOf(h, s), W), s)
    BY <1>2
  <2>5. e \in W <=> e.time <= t
    BY DEF Within, InWindow, Emissions
  <2> HIDE DEF o, n, W, P
  <2>6. LastOf(o, n, s, t) = LastOf(h, n, s, t)
    BY <2>1, LastOfSame
  <2>7. LastOf(o, n, s, t) = IF b = {} THEN DefaultCode(Kind(s)) ELSE o[Max(b)].code
    BY DEF LastOf
  <2>8. LastOf(o, n + 1, s, t) = IF a = {} THEN DefaultCode(Kind(s)) ELSE o[Max(a)].code
    BY DEF LastOf
  <2>9. CASE e.signal = s /\ e.time <= t
    <3>1. a \in SUBSET Int /\ n + 1 \in a /\ \A y \in a : n + 1 >= y
      BY <2>1, <2>9
    <3> HIDE DEF a
    <3>2. Max(a) = n + 1 /\ a # {}
      BY <3>1, MaxIs
    <3>3. OwnOf(o, s) = Append(OwnOf(h, s), e)
      BY <2>2, <2>9
    <3>4. Filter(OwnOf(o, s), W) = Append(Filter(OwnOf(h, s), W), e)
      BY <2>3, <2>5, <2>9, <3>3, FilterAppend
    <3>5. Filter(OwnOf(h, s), W) \in Seq(Emissions)
      <4>1. Filter(OwnOf(h, s), W) \in Seq(Emissions \cap W)
        BY <2>3, FilterType
      <4> QED
        BY <4>1, SeqMonotonic
    <3>6. LastCode(Append(Filter(OwnOf(h, s), W), e), s) = e.code
      BY <3>5, LastCodeAppend
    <3>7. LastOf(o, n + 1, s, t) = LastCode(Filter(OwnOf(o, s), W), s)
      BY <2>1, <2>8, <3>2, <3>4, <3>6
    <3> QED
      BY <2>1, <3>7 DEF P, o
  <2>10. CASE ~(e.signal = s /\ e.time <= t)
    <3>1. a = b
      BY <2>1, <2>10
    <3>2. LastOf(o, n + 1, s, t) = LastCode(Filter(OwnOf(h, s), W), s)
      BY <2>4, <2>6, <2>7, <2>8, <3>1
    <3>3. Filter(OwnOf(o, s), W) = Filter(OwnOf(h, s), W)
      <4>1. CASE e.signal = s
        <5>1. e \notin W
          BY <2>5, <2>10, <4>1
        <5>2. Filter(Append(OwnOf(h, s), e), W) = Filter(OwnOf(h, s), W)
          BY <2>3, <5>1, FilterAppend
        <5> QED
          BY <2>2, <4>1, <5>2
      <4>2. CASE e.signal # s
        BY <2>2, <4>2
      <4> QED
        BY <4>1, <4>2
    <3>4. LastOf(o, n + 1, s, t) = LastCode(Filter(OwnOf(o, s), W), s)
      BY <3>2, <3>3
    <3> QED
      BY <2>1, <3>4 DEF P, o
  <2> QED
    BY <2>9, <2>10
<1> HIDE DEF P
<1>3. \A h \in Seq(Emissions) : h \in P
  BY <1>1, <1>2, Lists
<1> QED
  BY <1>3 DEF P

-----------------------------------------------------------------------------
(* The invariant: the recorder's columns, frames and predecessors continue *)
(* the blocks, and both together hold what is worth recording.             *)

Reads(c) == Decoded(c.kind, c.entries)
Holds(c, times) == Content(c.kind, c.entries, times)
\* The steps of the table that changes may refer to.
Reach(w) == IF w.usedTime \/ w.times = << >> THEN Len(w.times) ELSE Len(w.times) - 1
Instants == {t \in Nat : t <= MaxTime}

Legible(kind, entries) ==
  LET d == Decoded(kind, entries)
  IN  \A i \in 1 .. Len(d) : /\ d[i].code < d[i].states /\ d[i].code >= 0
                             /\ entries[i].how = "full" /\ kind.form = "bits" => kind.states # 2

Columns == [kind : Kinds, event : BOOLEAN, emitted : BOOLEAN, last : Int,
            entries : Seq(Steps), index : Nat, code : Nat]

TimesOK(w) ==
  /\ w.times \in Seq(Instants)
  /\ \A i, j \in 1 .. Len(w.times) : i < j => w.times[i] < w.times[j]
  /\ w.usedTime \/ w.progress => w.times # << >>

\* What a column's last fields say of its entries.
Follows(c, n) ==
  /\ Reads(c) \in Seq(Reaching(n)) /\ Legible(c.kind, c.entries)
  /\ IF c.entries = << >> THEN c.index = 0 /\ c.code = NoCode
     ELSE /\ Reads(c)[Len(Reads(c))].index = c.index
          /\ c.kind.form = "bit" => Reads(c)[Len(Reads(c))].code = c.code

ColumnsOK(w) ==
  /\ w.columns \in Seq(Columns) /\ Len(w.columns) <= Len(Declared)
  /\ \A s \in 1 .. Len(w.columns) :
       LET c == w.columns[s] IN
       /\ c.kind = Kind(s) /\ c.event = Declared[s].event
       /\ Follows(c, Reach(w)) /\ Climbs(Holds(c, w.times))
       /\ c.entries # << >> => Group(s) \in DOMAIN w.frames /\ w.progress

FramesOK(w, bs) ==
  /\ w.frames # << >> => w.progress
  /\ DOMAIN w.frames \subseteq Groups(Len(w.columns))
  /\ \A g \in DOMAIN w.frames :
       w.frames[g] = [s \in Members(g, Len(w.columns)) |-> LastIn(bs, Len(bs), s, MaxTime)]

Previous(w, g) == IF g \in DOMAIN w.previous THEN w.previous[g] ELSE NoBlock
PreviousOK(w, bs) ==
  /\ DOMAIN w.previous \subseteq Groups(Len(w.columns))
  /\ \A g \in Groups(Len(Declared)) : Previous(w, g) = LastDirty(bs, Len(bs) + 1, g)

Target(b, s) == IF s \in DOMAIN b.aliases THEN b.aliases[s] ELSE s
Valid(b) ==
  /\ b.start \in Nat /\ b.end \in Nat /\ b.start <= b.end /\ b.end <= MaxTime
  /\ b.signals \in Nat /\ b.signals <= Len(Declared)
  /\ Times(b) \in Seq({t \in Nat : b.start <= t /\ t <= b.end})
  /\ Times(b) # << >> /\ Times(b)[1] = b.start /\ Last(Times(b)) = b.end
  /\ \A i \in 2 .. Len(b.times) : b.times[i] > 0
  /\ DOMAIN b.frames \subseteq Groups(b.signals)
  /\ \A s \in DOMAIN b.aliases :
       /\ s \in 1 .. b.signals /\ b.aliases[s] \in 1 .. b.signals
       /\ Group(s) \in DOMAIN b.frames /\ Group(b.aliases[s]) \in DOMAIN b.frames
       /\ b.aliases[s] \notin DOMAIN b.aliases /\ Kind(b.aliases[s]) = Kind(s)
  /\ \A s \in 1 .. b.signals :
       /\ b.columns[s] \in Seq(Steps)
       /\ b.columns[s] # << >> => Group(s) \in DOMAIN b.frames
       /\ Decoded(Kind(s), b.columns[s]) \in Seq(Reaching(Len(Times(b))))
       /\ Legible(Kind(s), b.columns[s])
       /\ Climbs(Content(Kind(s), b.columns[s], Times(b)))

Ranged(bs) == {bs[i] : i \in 1 .. Len(bs)}
FileOK(bs) ==
  /\ bs \in Seq(Ranged(bs)) /\ \A b \in Ranged(bs) : Valid(b)
  /\ Ordered(bs) /\ Linked(bs) /\ Framed(bs)

\* The recorder goes on where the file ends.
Continues(w, bs) ==
  \A i \in 1 .. Len(bs) : /\ bs[i].signals <= Len(w.columns)
                          /\ w.times # << >> /\ bs[i].end <= w.times[1]

HistoryOK(w, h, k) ==
  /\ h \in Seq(Emissions) /\ Climbs(h) /\ k \in 0 .. Len(h)
  /\ \A i \in 1 .. Len(h) : w.times # << >> /\ h[i].time <= Last(w.times)

\* What is recorded of a signal: in the file, what was emitted before the
\* last block ended, and with the column, all of it.
ReadingOK(dd, w, bs, h, k) ==
  \A s \in Signals :
    IF s \in 1 .. Len(w.columns)
    THEN LET c == w.columns[s] IN
         /\ WorthOf(dd, s, OwnOf(SubSeq(h, 1, k), s)) = Recorded(bs, s)
         /\ WorthOf(dd, s, OwnOf(h, s)) = Recorded(bs, s) \o OfSignal(s, Holds(c, w.times))
         /\ c.emitted <=> OwnOf(h, s) # << >>
         /\ c.last = LastCode(OwnOf(h, s), s)
    ELSE OwnOf(h, s) = << >> /\ OwnOf(SubSeq(h, 1, k), s) = << >> /\ Recorded(bs, s) = << >>

\* The fields of the recorder.
Shape(w) ==
  w \in [columns : Seq(Columns), frames : {w.frames}, times : Seq(Instants),
         usedTime : BOOLEAN, progress : BOOLEAN, records : Nat, previous : {w.previous}]

Recording(dd, w, bs, h, k) ==
  /\ Shape(w)
  /\ TimesOK(w) /\ ColumnsOK(w) /\ FramesOK(w, bs) /\ PreviousOK(w, bs)
  /\ FileOK(bs) /\ Continues(w, bs) /\ HistoryOK(w, h, k) /\ ReadingOK(dd, w, bs, h, k)

-----------------------------------------------------------------------------
(* Time advances. *)

LEMMA ReplaceOne ==
  ASSUME NEW T, NEW q, NEW x, NEW n, q \in Seq(T), x \in T, n \in 1 .. Len(q)
  PROVE  /\ [q EXCEPT ![n] = x] \in Seq(T) /\ Len([q EXCEPT ![n] = x]) = Len(q)
         /\ [q EXCEPT ![n] = x][n] = x
         /\ \A i \in 1 .. Len(q) : i # n => [q EXCEPT ![n] = x][i] = q[i]
<1>1. DOMAIN q = 1 .. Len(q) /\ Len(q) \in Nat
  BY LenProperties
<1> QED
  BY <1>1, ExceptSeq

Advances(a, w, t) == a = AdvanceTo(w, t)

Moved(a, w, t) ==
  /\ Shape(a)
  /\ a.columns = w.columns /\ a.frames = w.frames /\ a.previous = w.previous
  /\ a.usedTime = FALSE /\ a.progress = TRUE
  /\ a.times = IF ~w.usedTime /\ Len(w.times) > 1
               THEN [w.times EXCEPT ![Len(w.times)] = t] ELSE Append(w.times, t)

LEMMA AdvanceFields ==
  ASSUME NEW w, NEW t, NEW a, Shape(w), TimesOK(w), t \in Instants, Later(w, t),
         Advances(a, w, t), a # w
  PROVE  Moved(a, w, t)
<1> DEFINE y == IF ~w.usedTime /\ Len(w.times) > 1
                THEN [w.times EXCEPT ![Len(w.times)] = t] ELSE Append(w.times, t)
<1>1. a = [w EXCEPT !.times = y, !.usedTime = FALSE, !.progress = TRUE]
  BY DEF AdvanceTo, Advances
<1>2. w.times \in Seq(Instants) /\ Len(w.times) \in Nat
  BY DEF TimesOK
<1>3. Append(w.times, t) \in Seq(Instants)
  BY <1>2
<1>4. ~w.usedTime /\ Len(w.times) > 1 => [w.times EXCEPT ![Len(w.times)] = t] \in Seq(Instants)
  BY <1>2, ReplaceOne
<1>5. y \in Seq(Instants)
  BY <1>3, <1>4
<1> HIDE DEF y
<1>6. /\ a.columns = w.columns /\ a.frames = w.frames /\ a.previous = w.previous
      /\ a.usedTime = FALSE /\ a.progress = TRUE /\ a.times = y
  BY <1>1 DEF Shape
<1>7. a \in [columns : Seq(Columns), frames : {w.frames}, times : Seq(Instants),
             usedTime : BOOLEAN, progress : BOOLEAN, records : Nat, previous : {w.previous}]
  BY <1>1, <1>5 DEF Shape
<1>8. Shape(a)
  BY <1>6, <1>7 DEF Shape
<1> QED
  BY <1>6, <1>8 DEF y, Moved

\* The new table agrees with the old one on the steps in use.
Advanced(a, w, t) ==
  /\ Shape(a) /\ TimesOK(a) /\ a.times # << >> /\ Last(a.times) = t
  /\ a.columns = w.columns /\ a.frames = w.frames /\ a.previous = w.previous
  /\ w.progress => a.progress
  /\ Reach(w) \in Nat /\ Reach(a) \in Nat /\ Reach(w) <= Reach(a)
  /\ Len(w.times) \in Nat /\ Len(a.times) \in Nat
  /\ Reach(w) <= Len(w.times) /\ Reach(a) <= Len(a.times)
  /\ \A i \in 1 .. Reach(w) : w.times[i] = a.times[i]
  /\ w.times # << >> => a.times[1] = w.times[1]
  /\ w.times # << >> => Last(w.times) <= t

LEMMA AdvanceTimes ==
  ASSUME NEW w, NEW t, NEW a, Shape(w), TimesOK(w), t \in Instants, Later(w, t),
         Advances(a, w, t)
  PROVE  Advanced(a, w, t)
<1> DEFINE x == w.times
           y == a.times
<1>1. /\ x \in Seq(Instants) /\ Len(x) \in Nat
      /\ \A i, j \in 1 .. Len(x) : i < j => x[i] < x[j]
      /\ w.usedTime \/ w.progress => x # << >>
      /\ w.usedTime \in BOOLEAN /\ w.progress \in BOOLEAN
  BY DEF TimesOK, Shape
<1>2. x # << >> <=> Len(x) # 0
  BY <1>1, EmptySeq
<1>3. x # << >> => Last(x) = x[Len(x)] /\ Last(x) <= t /\ Len(x) \in 1 .. Len(x)
  BY <1>1, <1>2 DEF Last, Later
<1>4. \A i \in 1 .. Len(x) : x[i] \in Nat /\ x[i] <= MaxTime /\ x[i] <= t
  <2> TAKE i \in 1 .. Len(x)
  <2>1. x[i] \in Instants
    BY <1>1, ElementOfSeq
  <2>2. x # << >> /\ (i = Len(x) \/ x[i] < x[Len(x)])
    BY <1>1, <1>2, <1>3
  <2>3. x[Len(x)] \in Instants
    BY <1>1, <1>2, <2>2, ElementOfSeq
  <2> QED
    BY <1>3, <2>1, <2>2, <2>3 DEF Instants
<1>5. t \in Nat /\ t <= MaxTime
  BY DEF Instants
<1>6. CASE a = w
  <2>1. x # << >> /\ Last(x) = t
    <3>1. CASE x # << >> /\ Last(x) = t
      BY <3>1
    <3>2. CASE ~(x # << >> /\ Last(x) = t)
      <4>1. a = [w EXCEPT !.times = IF ~w.usedTime /\ Len(@) > 1
                           THEN [@ EXCEPT ![Len(@)] = t] ELSE Append(@, t),
                 !.usedTime = FALSE, !.progress = TRUE]
        BY <3>2 DEF AdvanceTo, Advances
      <4>2. a.times = IF ~w.usedTime /\ Len(x) > 1
                      THEN [x EXCEPT ![Len(x)] = t] ELSE Append(x, t)
        BY <4>1 DEF Shape
      <4>3. Append(x, t) # x
        BY <1>1, AppendOne
      <4>4. x = [x EXCEPT ![Len(x)] = t] /\ Len(x) > 1
        BY <1>6, <4>2, <4>3
      <4> QED
        BY <1>1, <1>2, <4>4 DEF Last
    <3> QED
      BY <3>1, <3>2
  <2>2. Reach(w) \in Nat /\ Reach(w) <= Len(x)
    BY <1>1, <1>2 DEF Reach
  <2> QED
    BY <1>1, <1>5, <1>6, <2>1, <2>2 DEF Advanced
<1>7. CASE a # w
  <2>1. /\ Shape(a)
        /\ a.columns = w.columns /\ a.frames = w.frames /\ a.previous = w.previous
        /\ a.usedTime = FALSE /\ a.progress = TRUE
        /\ y = IF ~w.usedTime /\ Len(x) > 1 THEN [x EXCEPT ![Len(x)] = t] ELSE Append(x, t)
    <3>1. Moved(a, w, t)
      BY <1>7, AdvanceFields
    <3> QED
      BY <3>1 DEF Moved
  <2>2. x # << >> => x[Len(x)] < t
    <3>1. ~(x # << >> /\ Last(x) = t)
      BY <1>7 DEF AdvanceTo, Advances
    <3> QED
      BY <1>3, <1>4, <1>5, <3>1
  <2>3. CASE ~w.usedTime /\ Len(x) > 1
    <3> DEFINE n == Len(x)
    <3>1. y = [x EXCEPT ![n] = t]
      BY <2>1, <2>3
    <3>2. /\ y \in Seq(Instants) /\ Len(y) = n /\ y[n] = t
          /\ \A i \in 1 .. n : i # n => y[i] = x[i]
      BY <1>1, <2>3, <3>1, ReplaceOne
    <3>3. n \in Nat /\ n > 1 /\ x # << >> /\ y # << >>
      BY <1>1, <1>2, <2>3, <3>2, EmptySeq
    <3> HIDE DEF n
    <3>4. \A i \in 1 .. n : i # n => y[i] < t
      <4> TAKE i \in 1 .. n
      <4>1. i # n => x[i] < x[n] /\ x[i] \in Nat /\ x[n] \in Nat /\ x[n] < t
        BY <1>1, <1>4, <2>2, <3>3 DEF n
      <4> QED
        BY <1>5, <3>2, <4>1
    <3>5. \A i, j \in 1 .. n : i < j => y[i] < y[j]
      <4> TAKE i, j \in 1 .. n
      <4>1. i < j /\ j # n => y[i] = x[i] /\ y[j] = x[j] /\ x[i] < x[j]
        BY <1>1, <3>2, <3>3 DEF n
      <4>2. i < j /\ j = n => y[i] < t /\ y[j] = t
        BY <3>2, <3>3, <3>4
      <4> QED
        BY <4>1, <4>2
    <3>6. Reach(w) = n - 1 /\ Reach(a) = n - 1
      BY <2>1, <2>3, <3>2, <3>3 DEF Reach, n
    <3>7. \A i \in 1 .. n - 1 : i \in 1 .. n /\ i # n
      BY <3>3
    <3>8. 1 \in 1 .. n /\ 1 # n
      BY <3>3
    <3>9. TimesOK(a)
      BY <2>1, <3>2, <3>3, <3>5 DEF TimesOK
    <3>10. \A i \in 1 .. Reach(w) : x[i] = y[i]
      BY <3>2, <3>6, <3>7
    <3> QED
      BY <1>1, <1>3, <2>1, <3>2, <3>3, <3>6, <3>8, <3>9, <3>10 DEF Last, n, Advanced
  <2>4. CASE ~(~w.usedTime /\ Len(x) > 1)
    <3> DEFINE n == Len(x)
    <3>1. y = Append(x, t)
      BY <2>1, <2>4
    <3>2. /\ y \in Seq(Instants) /\ Len(y) = n + 1 /\ y[n + 1] = t
          /\ \A i \in 1 .. n : y[i] = x[i]
      BY <1>1, <3>1, AppendOne
    <3>3. n \in Nat /\ y # << >>
      BY <1>1, <3>1, AppendSome
    <3> HIDE DEF n
    <3>4. \A i \in 1 .. n : x[i] < t
      <4> TAKE i \in 1 .. n
      <4>1. x # << >> /\ n \in 1 .. n
        BY <1>2, <3>3 DEF n
      <4>2. i # n => x[i] < x[n]
        BY <1>1, <3>3, <4>1 DEF n
      <4>3. x[i] \in Nat /\ x[n] \in Nat /\ x[n] < t
        BY <1>4, <2>2, <4>1 DEF n
      <4> QED
        BY <1>5, <4>2, <4>3
    <3>5. \A i, j \in 1 .. n + 1 : i < j => y[i] < y[j]
      <4> TAKE i, j \in 1 .. n + 1
      <4>1. i < j => i \in 1 .. n /\ (j \in 1 .. n \/ j = n + 1)
        BY <3>3
      <4>2. i < j /\ j \in 1 .. n => x[i] < x[j] /\ y[i] = x[i] /\ y[j] = x[j]
        BY <1>1, <3>2, <4>1 DEF n
      <4>3. i < j /\ j = n + 1 => y[i] = x[i] /\ x[i] < t /\ y[j] = t
        BY <3>2, <3>4, <4>1
      <4> QED
        BY <4>1, <4>2, <4>3
    <3>6. Reach(a) = n
      BY <2>1, <3>2, <3>3 DEF Reach
    <3>7. Reach(w) \in Nat /\ Reach(w) <= n
      BY <1>1, <1>2, <3>3 DEF Reach, n
    <3>8. x # << >> => 1 \in 1 .. n
      BY <1>2, <3>3 DEF n
    <3>9. TimesOK(a)
      BY <2>1, <3>2, <3>3, <3>5 DEF TimesOK
    <3>10. \A i \in 1 .. Reach(w) : x[i] = y[i]
      <4>1. \A i \in 1 .. Reach(w) : i \in 1 .. n
        BY <3>3, <3>7
      <4> QED
        BY <3>2, <4>1
    <3> QED
      BY <1>1, <1>3, <2>1, <3>2, <3>3, <3>6, <3>7, <3>8, <3>9, <3>10 DEF Last, n, Advanced
  <2> QED
    BY <2>3, <2>4
<1> QED
  BY <1>6, <1>7

LEMMA HoldsSame ==
  ASSUME NEW c, NEW a, NEW w, NEW t, Advanced(a, w, t), Reads(c) \in Seq(Reaching(Reach(w)))
  PROVE  /\ Holds(c, a.times) = Holds(c, w.times)
         /\ Reads(c) \in Seq(Reaching(Reach(a)))
<1>1. /\ Reach(w) \in Nat /\ Reach(a) \in Nat /\ Reach(w) <= Reach(a)
      /\ Len(w.times) \in Nat /\ Len(a.times) \in Nat
      /\ Reach(w) <= Len(w.times) /\ Reach(a) <= Len(a.times)
      /\ \A i \in 1 .. Reach(w) : w.times[i] = a.times[i]
  BY DEF Advanced
<1>2. Reach(w) <= Len(a.times) /\ \A i \in 1 .. Reach(w) : a.times[i] = w.times[i]
  BY <1>1
<1>3. Decoded(c.kind, c.entries) \in Seq(Reaching(Reach(w)))
  BY DEF Reads
<1>4. Holds(c, a.times) = Holds(c, w.times)
  <2>1. Agree(a.times, w.times, Reach(w))
    BY <1>1, <1>2 DEF Agree
  <2> QED
    BY <1>3, <2>1, ContentSame DEF Holds
<1>5. Reaching(Reach(w)) \subseteq Reaching(Reach(a))
  BY <1>1 DEF Reaching, Changed
<1>6. Reads(c) \in Seq(Reaching(Reach(a)))
  BY <1>5, SeqMonotonic
<1> QED
  BY <1>4, <1>6

LEMMA AdvanceColumns ==
  ASSUME NEW a, NEW w, NEW t, Advanced(a, w, t), ColumnsOK(w)
  PROVE  ColumnsOK(a)
<1>1. a.columns = w.columns /\ a.frames = w.frames /\ (w.progress => a.progress)
  BY DEF Advanced
<1>2. ASSUME NEW s \in 1 .. Len(a.columns), NEW c, c = a.columns[s]
      PROVE  /\ c.kind = Kind(s) /\ c.event = Declared[s].event
             /\ Follows(c, Reach(a)) /\ Climbs(Holds(c, a.times))
             /\ c.entries # << >> => Group(s) \in DOMAIN a.frames /\ a.progress
  <2>1. /\ c.kind = Kind(s) /\ c.event = Declared[s].event
        /\ Follows(c, Reach(w)) /\ Climbs(Holds(c, w.times))
        /\ c.entries # << >> => Group(s) \in DOMAIN w.frames /\ w.progress
    BY <1>1, <1>2 DEF ColumnsOK
  <2>2. Reads(c) \in Seq(Reaching(Reach(w)))
    BY <2>1 DEF Follows
  <2>3. /\ Holds(c, a.times) = Holds(c, w.times)
        /\ Reads(c) \in Seq(Reaching(Reach(a)))
    BY <2>2, HoldsSame
  <2>4. Follows(c, Reach(a))
    BY <2>1, <2>3 DEF Follows
  <2> QED
    BY <1>1, <2>1, <2>3, <2>4
<1> QED
  BY <1>1, <1>2 DEF ColumnsOK

LEMMA AdvanceHistory ==
  ASSUME NEW a, NEW w, NEW t, NEW h, NEW k, Advanced(a, w, t), TimesOK(w), t \in Instants,
         HistoryOK(w, h, k)
  PROVE  HistoryOK(a, h, k)
<1>1. a.times # << >> /\ Last(a.times) = t /\ (w.times # << >> => Last(w.times) <= t)
  BY DEF Advanced
<1>2. ASSUME NEW i \in 1 .. Len(h) PROVE h[i].time <= t
  <2>1. w.times # << >> /\ h[i].time <= Last(w.times) /\ h \in Seq(Emissions)
    BY DEF HistoryOK
  <2>2. h[i].time \in Nat
    <3>1. h[i] \in Emissions
      BY <2>1, ElementOfSeq
    <3> QED
      BY <3>1 DEF Emissions
  <2>3. Last(w.times) \in Nat
    <3>1. w.times \in Seq(Instants) /\ w.times # << >>
      BY <2>1 DEF TimesOK
    <3>2. w.times[Len(w.times)] \in Instants
      BY <3>1, EmptySeq, ElementOfSeq
    <3> QED
      BY <3>2 DEF Instants, Last
  <2> QED
    BY <1>1, <2>1, <2>2, <2>3 DEF Instants
<1> QED
  BY <1>1, <1>2 DEF HistoryOK

LEMMA AdvanceReading ==
  ASSUME NEW a, NEW w, NEW t, NEW dd, NEW bs, NEW h, NEW k,
         Advanced(a, w, t), ColumnsOK(w), ReadingOK(dd, w, bs, h, k)
  PROVE  ReadingOK(dd, a, bs, h, k)
<1>1. a.columns = w.columns
  BY DEF Advanced
<1>2. ASSUME NEW s \in 1 .. Len(w.columns), s \in Signals
      PROVE  Holds(w.columns[s], a.times) = Holds(w.columns[s], w.times)
  <2>1. Reads(w.columns[s]) \in Seq(Reaching(Reach(w)))
    BY DEF ColumnsOK, Follows
  <2> QED
    BY <2>1, HoldsSame
<1> QED
  BY <1>1, <1>2 DEF ReadingOK

\* The invariant is kept when time advances.
LEMMA AdvanceKeeps ==
  ASSUME NEW dd, NEW w, NEW bs, NEW h, NEW k, NEW t, NEW a,
         Recording(dd, w, bs, h, k), t \in Instants, Later(w, t), Advances(a, w, t)
  PROVE  Recording(dd, a, bs, h, k) /\ a.times # << >> /\ Last(a.times) = t /\ a.columns = w.columns
<1>1. /\ Shape(w) /\ TimesOK(w) /\ ColumnsOK(w) /\ FramesOK(w, bs) /\ PreviousOK(w, bs)
      /\ FileOK(bs) /\ Continues(w, bs) /\ HistoryOK(w, h, k) /\ ReadingOK(dd, w, bs, h, k)
  BY DEF Recording
<1>2. Advanced(a, w, t)
  BY <1>1, AdvanceTimes
<1>3. /\ Shape(a) /\ TimesOK(a) /\ a.times # << >> /\ Last(a.times) = t
      /\ a.columns = w.columns /\ a.frames = w.frames /\ a.previous = w.previous
      /\ w.progress => a.progress
      /\ w.times # << >> => a.times[1] = w.times[1]
  BY <1>2 DEF Advanced
<1>4. FramesOK(a, bs) /\ PreviousOK(a, bs) /\ Continues(a, bs)
  BY <1>1, <1>3 DEF FramesOK, PreviousOK, Previous, Continues
<1> QED
  BY <1>1, <1>2, <1>3, <1>4, AdvanceColumns, AdvanceHistory, AdvanceReading DEF Recording

-----------------------------------------------------------------------------
(* A change is captured. *)

LEMMA Retyped ==
  ASSUME NEW S, NEW V, NEW q, q \in Seq(S), \A i \in 1 .. Len(q) : q[i] \in V
  PROVE  q \in Seq(V)
<1>1. DOMAIN q = 1 .. Len(q) /\ Len(q) \in Nat /\ q = [i \in 1 .. Len(q) |-> q[i]]
  BY LenProperties
<1>2. [i \in 1 .. Len(q) |-> q[i]] \in Seq(V)
  BY <1>1
<1> QED
  BY <1>1, <1>2

LEMMA TimesSpan ==
  ASSUME NEW w, TimesOK(w), w.times # << >>
  PROVE  /\ Spans(w.times, w.times[1], Last(w.times)) /\ Len(w.times) \in Nat /\ Len(w.times) >= 1
         /\ Last(w.times) = w.times[Len(w.times)] /\ w.times[1] <= Last(w.times)
         /\ Last(w.times) <= MaxTime
<1> DEFINE x == w.times
           n == Len(x)
<1>1. /\ x \in Seq(Instants) /\ n \in Nat /\ x # << >> /\ Last(x) = x[n]
      /\ \A i, j \in 1 .. n : i < j => x[i] < x[j]
  BY DEF TimesOK, Last
<1>2. n >= 1
  BY <1>1, EmptySeq
<1>3. \A i \in 1 .. n : x[i] \in Nat /\ x[i] <= MaxTime
  <2> TAKE i \in 1 .. n
  <2>1. x[i] \in Instants
    BY <1>1, ElementOfSeq
  <2> QED
    BY <2>1 DEF Instants
<1> HIDE DEF n, x
<1>4. 1 \in 1 .. n /\ n \in 1 .. n
  BY <1>1, <1>2
<1>5. \A i \in 1 .. n : x[1] <= x[i] /\ x[i] <= x[n]
  <2> TAKE i \in 1 .. n
  <2>1. i = 1 \/ x[1] < x[i]
    BY <1>1, <1>4
  <2>2. i = n \/ x[i] < x[n]
    BY <1>1, <1>4
  <2>3. x[1] \in Nat /\ x[i] \in Nat /\ x[n] \in Nat
    BY <1>3, <1>4
  <2> QED
    BY <2>1, <2>2, <2>3
<1>6. x \in Seq({t \in Nat : x[1] <= t /\ t <= x[n]})
  <2> DEFINE V == {t \in Nat : x[1] <= t /\ t <= x[n]}
  <2>1. \A i \in 1 .. Len(x) : x[i] \in V
    BY <1>3, <1>5 DEF n
  <2> HIDE DEF V
  <2>2. x \in Seq(V)
    BY <1>1, <2>1, Retyped
  <2> QED
    BY <2>2 DEF V
<1> QED
  BY <1>1, <1>2, <1>3, <1>4, <1>5, <1>6 DEF Spans, n, x

\* A column with one more change, at the last time of the table.
Extension(c, times, code) ==
  [c EXCEPT !.entries = Append(@, Entry(c, (Len(times) - 1) - c.index, code)),
            !.index = Len(times) - 1,
            !.code = IF c.kind.form = "bit" THEN code ELSE @,
            !.last = code,
            !.emitted = TRUE]

Extended(d, c, times, code) ==
  /\ d \in Columns /\ d.kind = c.kind /\ d.event = c.event /\ d.last = code /\ d.emitted = TRUE
  /\ d.entries # << >> /\ Follows(d, Len(times)) /\ Climbs(Holds(d, times))
  /\ \E n \in Nat : Holds(d, times)
                      = Append(Holds(c, times), [time |-> Last(times), code |-> code, states |-> n])
  /\ Holds(c, times) \in Seq(Read)

LEMMA EntryType ==
  ASSUME NEW c, NEW delta, NEW code, c \in Columns, delta \in Nat, code \in Codes(c.kind)
  PROVE  /\ Entry(c, delta, code) \in Steps /\ Entry(c, delta, code).delta = delta
         /\ code \in Nat /\ code < c.kind.states
         /\ Entry(c, delta, code).how = "compact" => code < 2
         /\ Entry(c, delta, code).how # "toggle" => Entry(c, delta, code).code = code
         /\ Entry(c, delta, code).how = "toggle" => c.kind.form = "bit" /\ Toggles(c, code)
         /\ Entry(c, delta, code).how = "full" /\ c.kind.form = "bits" => c.kind.states # 2
<1>1. c.kind.form \in {"bit", "bits", "bytes"} /\ c.kind.states \in {2, 4, 9}
  BY DEF Columns, Kinds
<1>2. code \in {0, 1, 2} /\ code < c.kind.states /\ (c.kind.states = 2 => code < 2)
  BY <1>1 DEF Codes
<1>3. CASE c.kind.form = "bit" /\ Toggles(c, code)
  <2>1. Entry(c, delta, code) = [delta |-> delta, how |-> "toggle", code |-> NoCode]
    BY <1>3 DEF Entry
  <2> QED
    BY <1>2, <1>3, <2>1 DEF Steps, NoCode
<1>4. CASE c.kind.form = "bit" /\ ~Toggles(c, code)
  <2>1. Entry(c, delta, code) = [delta |-> delta, how |-> "code", code |-> code]
    BY <1>4 DEF Entry
  <2> QED
    BY <1>2, <2>1 DEF Steps
<1>5. CASE c.kind.form = "bits"
  <2>1. Entry(c, delta, code)
          = [delta |-> delta, how |-> IF code < 2 THEN "compact" ELSE "full", code |-> code]
    BY <1>5 DEF Entry
  <2> QED
    BY <1>2, <2>1 DEF Steps
<1>6. CASE c.kind.form = "bytes"
  <2>1. Entry(c, delta, code) = [delta |-> delta, how |-> "full", code |-> code]
    BY <1>6 DEF Entry
  <2> QED
    BY <1>2, <1>6, <2>1 DEF Steps
<1> QED
  BY <1>1, <1>3, <1>4, <1>5, <1>6

LEMMA NextColumn ==
  ASSUME NEW c, NEW times, NEW lo, NEW hi, NEW n, NEW code, NEW d,
         c \in Columns, Spans(times, lo, hi), times # << >>, Last(times) = hi,
         n \in Nat, n <= Len(times), Follows(c, n), Climbs(Holds(c, times)),
         code \in Codes(c.kind), d = Extension(c, times, code)
  PROVE  Extended(d, c, times, code)
<1> DEFINE old == Reads(c)
           m == Len(times) - 1
           delta == m - c.index
           e == Entry(c, delta, code)
           r == Reached(c.kind, old, e)
           x == [time |-> times[r.index + 1], code |-> r.code, states |-> r.states]
<1>1. /\ c.kind \in Kinds /\ c.entries \in Seq(Steps) /\ c.index \in Nat /\ c.code \in Nat
      /\ c.event \in BOOLEAN
      /\ Len(times) \in Nat /\ Last(times) = times[Len(times)]
      /\ times \in Seq({t \in Nat : lo <= t /\ t <= hi})
  BY DEF Columns, Spans, Last
<1>2. Len(times) >= 1
  BY <1>1, EmptySeq
<1>3. /\ old \in Seq(Changed) /\ Len(old) = Len(c.entries) /\ Len(c.entries) \in Nat
      /\ Decoded(c.kind, c.entries) = old
  BY <1>1, DecodedAppend DEF Reads
<1>4. old \in Seq(Reaching(n)) /\ old \in Seq(Reaching(Len(times)))
  <2>1. old \in Seq(Reaching(n))
    BY DEF Follows
  <2>2. Reaching(n) \subseteq Reaching(Len(times))
    BY <1>1 DEF Reaching, Changed
  <2> QED
    BY <2>1, <2>2, SeqMonotonic
<1>5. c.entries = << >> => c.index = 0 /\ c.code = NoCode /\ Len(old) = 0
  BY <1>3, EmptySeq DEF Follows
<1>6. c.entries # << >> => /\ Len(old) # 0 /\ old[Len(old)].index = c.index
                           /\ c.kind.form = "bit" => old[Len(old)].code = c.code
                           /\ c.index < n
  <2>1. c.entries # << >> => Len(old) # 0
    BY <1>1, <1>3, EmptySeq
  <2>2. Len(old) # 0 => old[Len(old)] \in Reaching(n)
    BY <1>3, <1>4, ElementOfSeq
  <2>3. c.entries # << >> => /\ old[Len(old)].index = c.index
                             /\ c.kind.form = "bit" => old[Len(old)].code = c.code
    BY DEF Follows
  <2> QED
    BY <2>1, <2>2, <2>3 DEF Reaching
<1>7. m \in Nat /\ delta \in Nat
  BY <1>1, <1>2, <1>5, <1>6
<1>8. /\ e \in Steps /\ e.delta = delta
      /\ code \in Nat /\ code < c.kind.states
      /\ e.how = "compact" => code < 2
      /\ e.how # "toggle" => e.code = code
      /\ e.how = "toggle" => c.kind.form = "bit" /\ Toggles(c, code)
      /\ e.how = "full" /\ c.kind.form = "bits" => c.kind.states # 2
  BY <1>7, EntryType
<1>9. /\ d \in Columns /\ d.kind = c.kind /\ d.event = c.event /\ d.last = code /\ d.emitted = TRUE
      /\ d.entries = Append(c.entries, e) /\ d.index = m
      /\ d.code = IF c.kind.form = "bit" THEN code ELSE c.code
  <2>1. Append(c.entries, e) \in Seq(Steps)
    BY <1>1, <1>8
  <2>2. d = [c EXCEPT !.entries = Append(@, e), !.index = m,
                      !.code = IF c.kind.form = "bit" THEN code ELSE @, !.last = code, !.emitted = TRUE]
    BY DEF Extension
  <2> HIDE DEF e, m
  <2>3. d.entries = Append(c.entries, e)
    BY <2>2 DEF Columns
  <2>4. d \in Columns
    <3> DEFINE q == Append(c.entries, e)
               v == IF c.kind.form = "bit" THEN code ELSE c.code
    <3>1. v \in Nat /\ code \in Int
      BY <1>1, <1>8
    <3>2. d = [c EXCEPT !.entries = q, !.index = m, !.code = v, !.last = code, !.emitted = TRUE]
      BY <2>2
    <3>3. q \in Seq(Steps)
      BY <2>1
    <3> HIDE DEF q, v
    <3> QED
      BY <1>1, <1>7, <3>1, <3>2, <3>3 DEF Columns
  <2> QED
    BY <1>7, <1>8, <2>2, <2>3, <2>4 DEF Columns
<1> HIDE DEF e, m, delta
<1>10. r.index = m /\ r.code = code /\ r.states = (IF e.how = "compact" THEN 2 ELSE c.kind.states)
  <2>1. r.index = m
    <3>1. r.index = (IF Len(old) = 0 THEN 0 ELSE old[Len(old)].index) + e.delta
      BY DEF Reached
    <3> QED
      BY <1>1, <1>5, <1>6, <1>7, <1>8, <3>1 DEF delta
  <2>2. r.code = code
    <3>1. r.code = IF e.how # "toggle" THEN e.code
                   ELSE 1 - (IF Len(old) = 0 THEN NoCode ELSE old[Len(old)].code)
      BY DEF Reached
    <3>2. CASE e.how = "toggle"
      <4>1. c.kind.form = "bit" /\ c.code <= 1 /\ code = 1 - c.code
        BY <1>8, <3>2 DEF Toggles
      <4>2. c.entries # << >>
        BY <1>5, <4>1 DEF NoCode
      <4> QED
        BY <1>6, <3>1, <3>2, <4>1, <4>2
    <3>3. CASE e.how # "toggle"
      BY <1>8, <3>1, <3>3
    <3> QED
      BY <3>2, <3>3
  <2>3. r.states = (IF e.how = "compact" THEN 2 ELSE c.kind.states)
    BY DEF Reached
  <2> QED
    BY <2>1, <2>2, <2>3
<1>11. r \in Reaching(Len(times)) /\ r.states \in Nat /\ r.code < r.states
  <2>1. r \in Changed
    BY <1>1, <1>3, <1>8, ReachedType
  <2>2. r.index < Len(times)
    BY <1>1, <1>10 DEF m
  <2> QED
    BY <1>8, <1>10, <2>1, <2>2 DEF Reaching, Changed
<1> HIDE DEF r, old
<1>12. /\ Decoded(c.kind, Append(c.entries, e)) = Append(old, r)
       /\ Decoded(c.kind, Append(c.entries, e)) \in Seq(Reaching(Len(times)))
       /\ Content(c.kind, Append(c.entries, e), times) = Append(Content(c.kind, c.entries, times), x)
  <2>1. Decoded(c.kind, c.entries) \in Seq(Reaching(Len(times)))
    BY <1>3, <1>4
  <2>2. r = Reached(c.kind, Decoded(c.kind, c.entries), e)
    BY <1>3 DEF r
  <2>3. c.kind \in Kinds /\ c.entries \in Seq(Steps) /\ e \in Steps /\ r \in Reaching(Len(times))
    BY <1>1, <1>8, <1>11
  <2>4. GrowsBy(c.kind, c.entries, times, e, r)
    BY <2>1, <2>2, <2>3, ContentAppend
  <2> QED
    BY <1>3, <2>4 DEF GrowsBy
<1>13. x = [time |-> Last(times), code |-> code, states |-> r.states]
  BY <1>1, <1>10 DEF m
<1>14. Holds(d, times) = Append(Holds(c, times), x) /\ Reads(d) = Append(old, r)
       /\ Reads(d) \in Seq(Reaching(Len(times)))
  BY <1>9, <1>12 DEF Holds, Reads
<1>15. /\ Holds(c, times) \in Seq(Within(Read, lo, hi)) /\ Holds(c, times) \in Seq(Read)
  <2>1. Decoded(c.kind, c.entries) \in Seq(Reaching(Len(times)))
    BY <1>3, <1>4
  <2> QED
    BY <1>1, <2>1, ContentIs DEF Holds, Visits
<1> HIDE DEF x
<1>16. Climbs(Holds(d, times))
  <2>1. x \in Read /\ x.time = hi /\ hi \in Nat
    BY <1>8, <1>11, <1>13 DEF Read, Spans
  <2>2. \A i \in 1 .. Len(Holds(c, times)) : Holds(c, times)[i].time <= x.time
    <3> TAKE i \in 1 .. Len(Holds(c, times))
    <3>1. Holds(c, times)[i] \in Within(Read, lo, hi)
      BY <1>15, ElementOfSeq
    <3> QED
      BY <2>1, <3>1 DEF Within, InWindow
  <2> DEFINE q == Holds(c, times)
  <2>3. q \in Seq(Read) /\ Climbs(q) /\ x.time <= x.time
    BY <1>15, <2>1
  <2> HIDE DEF q
  <2>4. Climbs(Append(q, x))
    BY <2>1, <2>2, <2>3, ClimbsAppend DEF q
  <2> QED
    BY <1>14, <2>4 DEF q
<1>17. /\ Len(old) \in Nat /\ Len(Append(old, r)) = Len(old) + 1 /\ Append(old, r)[Len(old) + 1] = r
       /\ \A i \in 1 .. Len(old) : Append(old, r)[i] = old[i]
       /\ \A i \in 1 .. Len(Append(old, r)) : i \in 1 .. Len(old) \/ i = Len(old) + 1
  BY <1>4, <1>11, AppendOne
<1>18. /\ Append(c.entries, e)[Len(old) + 1] = e
       /\ \A i \in 1 .. Len(old) : Append(c.entries, e)[i] = c.entries[i]
  BY <1>1, <1>3, <1>8, AppendOne
<1>19. Legible(d.kind, d.entries)
  <2>1. Decoded(d.kind, d.entries) = Append(old, r)
    BY <1>14 DEF Reads
  <2>2. ASSUME NEW i \in 1 .. Len(Append(old, r))
        PROVE  /\ Append(old, r)[i].code < Append(old, r)[i].states /\ Append(old, r)[i].code >= 0
               /\ d.entries[i].how = "full" /\ d.kind.form = "bits" => d.kind.states # 2
    <3>1. CASE i \in 1 .. Len(old)
      <4>1. /\ old[i].code < old[i].states /\ old[i].code >= 0
            /\ c.entries[i].how = "full" /\ c.kind.form = "bits" => c.kind.states # 2
        BY <1>3, <3>1 DEF Follows, Legible
      <4> QED
        BY <1>9, <1>17, <1>18, <3>1, <4>1
    <3>2. CASE i = Len(old) + 1
      <4>1. r.code < r.states /\ r.code >= 0
        BY <1>8, <1>10, <1>11
      <4> QED
        BY <1>8, <1>9, <1>17, <1>18, <3>2, <4>1, ZenonT(30)
    <3> QED
      BY <1>17, <3>1, <3>2
  <2> QED
    BY <2>1, <2>2 DEF Legible
<1>20. d.entries # << >>
  BY <1>1, <1>8, <1>9, AppendSome
<1>21. Follows(d, Len(times))
  <2>1. Reads(d)[Len(Reads(d))] = r
    BY <1>14, <1>17
  <2> QED
    BY <1>9, <1>10, <1>14, <1>19, <1>20, <2>1 DEF Follows
<1> QED
  BY <1>9, <1>11, <1>13, <1>14, <1>15, <1>16, <1>20, <1>21 DEF Extended

-----------------------------------------------------------------------------
(* Valid blocks can be read. *)

LEMMA ValidSound ==
  ASSUME NEW b, Valid(b)
  PROVE  Sound(b)
<1>1. /\ b.start \in Nat /\ b.end \in Nat /\ b.start <= b.end /\ b.end <= MaxTime /\ b.signals \in Nat
      /\ Spans(Times(b), b.start, b.end)
  BY DEF Valid, Spans
<1>2. ASSUME NEW s \in Signals
      PROVE  /\ Full(b, s) \in Seq(Within(Read, b.start, b.end)) /\ Climbs(Full(b, s))
             /\ \A a, z \in Nat : SelectedColumn(b, s, a, z) = Filter(Full(b, s), Within(Read, a, z))
  <2>1. CASE s > b.signals \/ Group(s) \notin DOMAIN b.frames
    <3>1. Full(b, s) = << >> /\ \A a, z : SelectedColumn(b, s, a, z) = << >>
      BY <2>1 DEF Full, SelectedColumn
    <3>2. << >> \in Seq(Within(Read, b.start, b.end)) /\ Climbs(<< >>)
      BY EmptySeq DEF Climbs
    <3>3. \A a, z : Filter(<< >>, Within(Read, a, z)) = << >>
      BY FilterEmpty
    <3> QED
      BY <3>1, <3>2, <3>3
  <2>2. CASE ~(s > b.signals \/ Group(s) \notin DOMAIN b.frames)
    <3> DEFINE u == Target(b, s)
    <3>1. s \in 1 .. b.signals /\ Kind(s) \in Kinds
      BY <1>1, <2>2, SignalsType
    <3>2. u \in 1 .. b.signals /\ Kind(u) = Kind(s)
      BY <3>1 DEF Target, Valid
    <3>3. /\ Full(b, s) = Content(Kind(s), b.columns[u], Times(b))
          /\ \A a, z : SelectedColumn(b, s, a, z) = Visited(Kind(s), b.columns[u], Times(b), a, z)
      <4>1. Full(b, s) = Content(Kind(s), b.columns[IF s \in DOMAIN b.aliases THEN b.aliases[s] ELSE s],
                                 Times(b))
        BY <2>2 DEF Full
      <4>2. ASSUME NEW a, NEW z
            PROVE  SelectedColumn(b, s, a, z) = Visited(Kind(s), b.columns[u], Times(b), a, z)
        BY <2>2 DEF SelectedColumn, Target
      <4> QED
        BY <4>1, <4>2 DEF Target
    <3> HIDE DEF u
    <3>4. /\ b.columns[u] \in Seq(Steps)
          /\ Decoded(Kind(s), b.columns[u]) \in Seq(Reaching(Len(Times(b))))
          /\ Climbs(Content(Kind(s), b.columns[u], Times(b)))
      BY <3>2 DEF Valid
    <3>5. /\ Content(Kind(s), b.columns[u], Times(b)) \in Seq(Within(Read, b.start, b.end))
          /\ \A a, z : Visited(Kind(s), b.columns[u], Times(b), a, z)
                         = Filter(Content(Kind(s), b.columns[u], Times(b)), Within(Read, a, z))
        <4>1. Visits(Kind(s), b.columns[u], Times(b), b.start, b.end)
        BY <1>1, <3>1, <3>4, ContentIs
      <4> QED
        BY <4>1 DEF Visits
    <3> QED
      BY <3>3, <3>4, <3>5
  <2> QED
    BY <2>1, <2>2
<1> QED
  BY <1>1, <1>2 DEF Sound

LEMMA FileSounds ==
  ASSUME NEW bs, FileOK(bs)
  PROVE  Sounds(Ranged(bs)) /\ bs \in Seq(Ranged(bs))
BY ValidSound DEF FileOK, Sounds

-----------------------------------------------------------------------------
(* The recorder's last values. *)

\* The emissions so far of a signal.
LEMMA OwnBounded ==
  ASSUME NEW w, NEW h, NEW k, NEW s, TimesOK(w), HistoryOK(w, h, k)
  PROVE  /\ OwnOf(h, s) \in Seq(Emissions) /\ Climbs(OwnOf(h, s))
         /\ OwnOf(h, s) \in Seq(Within(Emissions, 0, MaxTime))
         /\ Filter(OwnOf(h, s), Within(Emissions, 0, MaxTime)) = OwnOf(h, s)
<1> DEFINE o == OwnOf(h, s)
<1>1. h \in Seq(Emissions) /\ Climbs(h)
  BY DEF HistoryOK
<1>2. o \in Seq(Emissions)
  BY <1>1, OwnType
<1>3. \A x \in Emissions : x.time \in Nat
  BY DEF Emissions
<1>4. \A i \in 1 .. Len(h) : h[i].time <= MaxTime
  <2> TAKE i \in 1 .. Len(h)
  <2>1. w.times # << >> /\ h[i].time <= Last(w.times)
    BY DEF HistoryOK
  <2>2. Last(w.times) <= MaxTime /\ Last(w.times) \in Nat
    BY <2>1, TimesSpan DEF Spans
  <2>3. h[i].time \in Nat
    BY <1>1, <1>3, ElementOfSeq
  <2> QED
    BY <2>1, <2>2, <2>3, ConstantsOK DEF ConstantsOK
<1>5. MaxTime \in Nat
  BY ConstantsOK DEF ConstantsOK
<1>6. /\ Climbs(Filter(h, SignalIs(Emissions, s)))
      /\ \A t \in Nat : (\A i \in 1 .. Len(h) : h[i].time <= t)
           => \A i \in 1 .. Len(Filter(h, SignalIs(Emissions, s))) :
                Filter(h, SignalIs(Emissions, s))[i].time <= t
  BY <1>1, <1>3, FilterClimbs
<1>7. Climbs(o) /\ \A i \in 1 .. Len(o) : o[i].time <= MaxTime
  BY <1>4, <1>5, <1>6 DEF OwnOf
<1> HIDE DEF o
<1>8. \A i \in 1 .. Len(o) : o[i] \in Within(Emissions, 0, MaxTime)
  <2> TAKE i \in 1 .. Len(o)
  <2>1. o[i] \in Emissions /\ o[i].time \in Nat /\ o[i].time <= MaxTime
    BY <1>2, <1>3, <1>7, ElementOfSeq
  <2> QED
    BY <2>1 DEF Within, InWindow
<1>9. o \in Seq(Within(Emissions, 0, MaxTime))
  BY <1>2, <1>8, Retyped
<1>10. Filter(o, Within(Emissions, 0, MaxTime)) = o
  BY <1>9, FilterAll
<1> QED
  BY <1>2, <1>7, <1>9, <1>10 DEF o

LEMMA NoneHeld ==
  ASSUME NEW c, NEW times, c \in Columns, c.entries = << >>
  PROVE  Holds(c, times) = << >> /\ Reads(c) = << >>
<1>1. Decoded(c.kind, << >>) = << >>
  BY DecodedAppend DEF Columns
<1>2. Reads(c) = << >>
  BY <1>1 DEF Reads
<1> QED
  BY <1>1, <1>2, MappedNone DEF Holds, Content

Idle(w, s) == w.columns[s].entries = << >>

\* A column that holds nothing goes on from what the blocks end with.
LEMMA LastIsRecorded ==
  ASSUME NEW dd, NEW w, NEW bs, NEW h, NEW k, NEW s, Recording(dd, w, bs, h, k),
         s \in 1 .. Len(w.columns), Idle(w, s)
  PROVE  w.columns[s].last = LastIn(bs, Len(bs), s, MaxTime)
<1> DEFINE c == w.columns[s]
           o == OwnOf(h, s)
           W == Within(Emissions, 0, MaxTime)
<1>1. /\ TimesOK(w) /\ ColumnsOK(w) /\ FileOK(bs) /\ HistoryOK(w, h, k) /\ ReadingOK(dd, w, bs, h, k)
  BY DEF Recording
<1>2. MaxTime \in Nat /\ Len(Declared) \in Nat
  BY ConstantsOK, SignalsType DEF ConstantsOK
<1>3. s \in Signals /\ c \in Columns
  <2>1. w.columns \in Seq(Columns) /\ Len(w.columns) <= Len(Declared) /\ Len(w.columns) \in Nat
    BY <1>1 DEF ColumnsOK
  <2> QED
    BY <1>2, <2>1, ElementOfSeq DEF Signals
<1>4. /\ WorthOf(dd, s, o) = Recorded(bs, s) \o OfSignal(s, Holds(c, w.times))
      /\ c.last = LastCode(o, s)
  BY <1>1, <1>3 DEF ReadingOK
<1>5. OfSignal(s, Holds(c, w.times)) = << >>
  <2>1. Holds(c, w.times) = << >>
    BY <1>3, NoneHeld DEF Idle
  <2> QED
    BY <1>3, <2>1, TaggedAppend, SignalsType
<1>6. Recorded(bs, s) \in Seq(Emissions)
  BY <1>1, <1>3, FileSounds, RecordedAppend
<1>7. WorthOf(dd, s, o) = Recorded(bs, s)
  <2> DEFINE q == Recorded(bs, s)
  <2>1. q \in Seq(Emissions)
    BY <1>6
  <2> HIDE DEF q
  <2>2. q \o << >> = q
    BY <2>1
  <2> QED
    BY <1>4, <1>5, <2>2 DEF q
<1>8. o \in Seq(Emissions) /\ Climbs(o) /\ Filter(o, W) = o
  BY <1>1, OwnBounded
<1>9. LastCode(Filter(o, W), s) = LastCode(Filter(WorthOf(dd, s, o), W), s)
  BY <1>2, <1>8, WorthUpTo
<1>10. LastIn(bs, Len(bs), s, MaxTime) = LastCode(Filter(Recorded(bs, s), W), s)
  BY <1>1, <1>2, <1>3, FileSounds, LastInIs
<1> QED
  BY <1>4, <1>7, <1>8, <1>9, <1>10

LEMMA PrefixStays ==
  ASSUME NEW T, NEW h, NEW e, NEW k, h \in Seq(T), e \in T, k \in 0 .. Len(h)
  PROVE  SubSeq(Append(h, e), 1, k) = SubSeq(h, 1, k)
<1> DEFINE o == Append(h, e)
<1>1. /\ o \in Seq(T) /\ Len(o) = Len(h) + 1 /\ Len(h) \in Nat /\ \A i \in 1 .. Len(h) : o[i] = h[i]
  BY AppendOne
<1> HIDE DEF o
<1>2. SubSeq(o, 1, k) = [i \in 1 .. k |-> o[i]] /\ SubSeq(h, 1, k) = [i \in 1 .. k |-> h[i]]
  BY <1>1
<1>3. [i \in 1 .. k |-> o[i]] = [i \in 1 .. k |-> h[i]]
  BY <1>1
<1> QED
  BY <1>2, <1>3 DEF o

-----------------------------------------------------------------------------
(* The invariant is kept when a change is captured. *)

FrameTaken(r, w, s) ==
  r.frames = IF Group(s) \in DOMAIN w.frames THEN w.frames
             ELSE [g \in DOMAIN w.frames \cup {Group(s)} |->
                     IF g = Group(s)
                     THEN [q \in Members(Group(s), Len(w.columns)) |-> w.columns[q].last]
                     ELSE w.frames[g]]
Caught(r, w, s, code) ==
  /\ Shape(r) /\ r.columns = [w.columns EXCEPT ![s] = Extension(w.columns[s], w.times, code)]
  /\ r.times = w.times /\ r.previous = w.previous /\ r.usedTime = TRUE /\ r.progress = TRUE
  /\ FrameTaken(r, w, s)

LEMMA CapturedFields ==
  ASSUME NEW w, NEW s, NEW code, NEW r, Shape(w), s \in 1 .. Len(w.columns),
         Extension(w.columns[s], w.times, code) \in Columns, r = Captured(w, s, code)
  PROVE  Caught(r, w, s, code)
<1> DEFINE p == PrepareFrame(w, Group(s))
           d == Extension(w.columns[s], w.times, code)
           cs == [w.columns EXCEPT ![s] = d]
<1>1. /\ p.columns = w.columns /\ p.times = w.times /\ p.previous = w.previous
      /\ p.usedTime = w.usedTime /\ p.progress = w.progress /\ p.records = w.records
      /\ FrameTaken(p, w, s) /\ Shape(p)
  <2>1. CASE Group(s) \in DOMAIN w.frames
    BY <2>1 DEF PrepareFrame, FrameTaken
  <2>2. CASE Group(s) \notin DOMAIN w.frames
    <3> DEFINE f == [g \in DOMAIN w.frames \cup {Group(s)} |->
                       IF g = Group(s)
                       THEN [q \in Members(Group(s), Len(w.columns)) |-> w.columns[q].last]
                       ELSE w.frames[g]]
    <3>1. p = [w EXCEPT !.frames = f]
      BY <2>2 DEF PrepareFrame
    <3> HIDE DEF f
    <3>2. /\ p.columns = w.columns /\ p.times = w.times /\ p.previous = w.previous
          /\ p.usedTime = w.usedTime /\ p.progress = w.progress /\ p.records = w.records
          /\ p.frames = f
      BY <3>1 DEF Shape
    <3>3. p \in [columns : Seq(Columns), frames : {f}, times : Seq(Instants),
                 usedTime : BOOLEAN, progress : BOOLEAN, records : Nat, previous : {w.previous}]
      BY <3>1 DEF Shape
    <3>4. Shape(p)
      BY <3>2, <3>3 DEF Shape
    <3>5. FrameTaken(p, w, s)
      BY <2>2, <3>2 DEF FrameTaken, f
    <3> QED
      BY <3>2, <3>4, <3>5
  <2> QED
    BY <2>1, <2>2
<1>2. r = [p EXCEPT !.columns[s] = d, !.records = @ + 1, !.usedTime = TRUE, !.progress = TRUE]
  BY <1>1 DEF Captured, Extension
<1>3. w.columns \in Seq(Columns) /\ w.records \in Nat
  BY DEF Shape
<1> HIDE DEF p, d
<1>4. cs \in Seq(Columns)
  BY <1>3, ReplaceOne DEF d
<1>5. r = [p EXCEPT !.columns = cs, !.records = w.records + 1, !.usedTime = TRUE, !.progress = TRUE]
  BY <1>1, <1>2 DEF Shape
<1> HIDE DEF cs
<1>6. /\ r.columns = cs /\ r.times = w.times /\ r.previous = w.previous
      /\ r.usedTime = TRUE /\ r.progress = TRUE /\ r.frames = p.frames
  BY <1>1, <1>5 DEF Shape
<1>7. r \in [columns : Seq(Columns), frames : {p.frames}, times : Seq(Instants),
             usedTime : BOOLEAN, progress : BOOLEAN, records : Nat, previous : {p.previous}]
  <2> DEFINE m == w.records + 1
  <2>1. m \in Nat
    BY <1>3
  <2>2. r = [p EXCEPT !.columns = cs, !.records = m, !.usedTime = TRUE, !.progress = TRUE]
    BY <1>5
  <2>3. p \in [columns : Seq(Columns), frames : {p.frames}, times : Seq(Instants),
                usedTime : BOOLEAN, progress : BOOLEAN, records : Nat, previous : {p.previous}]
    BY <1>1 DEF Shape
  <2> HIDE DEF m
  <2> QED
    BY <1>4, <2>1, <2>2, <2>3
<1>8. Shape(r)
  BY <1>1, <1>6, <1>7 DEF Shape
<1>9. FrameTaken(r, w, s)
  BY <1>1, <1>6 DEF FrameTaken
<1> QED
  BY <1>6, <1>8, <1>9 DEF Caught, cs, d

LEMMA FollowsMore ==
  ASSUME NEW c, NEW n, NEW m, n \in Nat, m \in Nat, n <= m, Follows(c, n)
  PROVE  Follows(c, m)
<1>1. Reaching(n) \subseteq Reaching(m)
  BY DEF Reaching, Changed
<1>2. Reads(c) \in Seq(Reaching(m))
  BY <1>1, SeqMonotonic DEF Follows
<1> QED
  BY <1>2 DEF Follows

LEMMA ReachType ==
  ASSUME NEW w, TimesOK(w)
  PROVE  Reach(w) \in Nat /\ Len(w.times) \in Nat /\ Reach(w) <= Len(w.times)
<1>1. Len(w.times) \in Nat /\ (w.times # << >> => Len(w.times) # 0)
  BY EmptySeq DEF TimesOK
<1> QED
  BY <1>1 DEF Reach

\* The facts the parts of the proof share.
Capturing(dd, w, bs, h, k, s, code, r) ==
  /\ Recording(dd, w, bs, h, k) /\ w.times # << >> /\ s \in 1 .. Len(w.columns)
  /\ code \in Codes(w.columns[s].kind)
  /\ ~(dd /\ ~w.columns[s].event /\ w.columns[s].emitted /\ w.columns[s].last = code)
  /\ r = Captured(w, s, code)

LEMMA CaptureFacts ==
  ASSUME NEW dd, NEW w, NEW bs, NEW h, NEW k, NEW s, NEW code, NEW r,
         Capturing(dd, w, bs, h, k, s, code, r)
  PROVE  /\ Caught(r, w, s, code) /\ TimesOK(w) /\ Reach(r) = Len(w.times) /\ TimesOK(r)
         /\ Reach(w) \in Nat /\ Len(w.times) \in Nat /\ Reach(w) <= Len(w.times)
         /\ w.columns \in Seq(Columns) /\ r.columns \in Seq(Columns) /\ Len(r.columns) = Len(w.columns)
         /\ r.columns[s] = Extension(w.columns[s], w.times, code)
         /\ \A q \in 1 .. Len(w.columns) : q # s => r.columns[q] = w.columns[q]
         /\ Extended(r.columns[s], w.columns[s], w.times, code)
<1> DEFINE c == w.columns[s]
           d == Extension(c, w.times, code)
<1>1. Recording(dd, w, bs, h, k) /\ w.times # << >> /\ s \in 1 .. Len(w.columns)
      /\ code \in Codes(w.columns[s].kind) /\ r = Captured(w, s, code)
  BY DEF Capturing
<1>2. TimesOK(w) /\ ColumnsOK(w) /\ Shape(w)
  BY <1>1 DEF Recording
<1>3. Spans(w.times, w.times[1], Last(w.times))
  BY <1>1, <1>2, TimesSpan
<1>4. Reach(w) \in Nat /\ Len(w.times) \in Nat /\ Reach(w) <= Len(w.times)
  BY <1>2, ReachType
<1>5. c \in Columns /\ Follows(c, Reach(w)) /\ Climbs(Holds(c, w.times)) /\ w.columns \in Seq(Columns)
  BY <1>1, <1>2, ElementOfSeq DEF ColumnsOK
<1>6. Extended(d, c, w.times, code)
  BY <1>1, <1>3, <1>4, <1>5, NextColumn
<1>7. d \in Columns
  BY <1>6 DEF Extended
<1>8. Caught(r, w, s, code)
  BY <1>1, <1>2, <1>7, CapturedFields
<1>9. r.columns = [w.columns EXCEPT ![s] = d] /\ r.times = w.times /\ r.usedTime = TRUE
  BY <1>8 DEF Caught
<1> HIDE DEF d
<1>10. /\ r.columns \in Seq(Columns) /\ Len(r.columns) = Len(w.columns) /\ r.columns[s] = d
       /\ \A q \in 1 .. Len(w.columns) : q # s => r.columns[q] = w.columns[q]
  BY <1>1, <1>5, <1>7, <1>9, ReplaceOne
<1>11. Reach(r) = Len(w.times) /\ TimesOK(r)
  BY <1>1, <1>2, <1>9 DEF Reach, TimesOK
<1> QED
  BY <1>2, <1>4, <1>5, <1>6, <1>8, <1>10, <1>11 DEF d

LEMMA FrameDomain ==
  ASSUME NEW r, NEW w, NEW s, FrameTaken(r, w, s)
  PROVE  DOMAIN r.frames = DOMAIN w.frames \cup {Group(s)}
BY DEF FrameTaken

LEMMA CaptureColumns ==
  ASSUME NEW dd, NEW w, NEW bs, NEW h, NEW k, NEW s, NEW code, NEW r,
         Capturing(dd, w, bs, h, k, s, code, r)
  PROVE  ColumnsOK(r)
<1>1. /\ Caught(r, w, s, code) /\ TimesOK(w) /\ Reach(r) = Len(w.times)
      /\ Reach(w) \in Nat /\ Len(w.times) \in Nat /\ Reach(w) <= Len(w.times)
      /\ w.columns \in Seq(Columns) /\ r.columns \in Seq(Columns) /\ Len(r.columns) = Len(w.columns)
      /\ \A q \in 1 .. Len(w.columns) : q # s => r.columns[q] = w.columns[q]
      /\ Extended(r.columns[s], w.columns[s], w.times, code)
  BY CaptureFacts
<1>2. Recording(dd, w, bs, h, k) /\ s \in 1 .. Len(w.columns)
  BY DEF Capturing
<1>3. ColumnsOK(w)
  BY <1>2 DEF Recording
<1>4. r.times = w.times /\ r.progress = TRUE /\ DOMAIN r.frames = DOMAIN w.frames \cup {Group(s)}
  BY <1>1, FrameDomain DEF Caught
<1>5. ASSUME NEW q \in 1 .. Len(r.columns), NEW c, c = r.columns[q]
      PROVE  /\ c.kind = Kind(q) /\ c.event = Declared[q].event
             /\ Follows(c, Reach(r)) /\ Climbs(Holds(c, r.times))
             /\ c.entries # << >> => Group(q) \in DOMAIN r.frames /\ r.progress
  <2>1. CASE q = s
    <3>1. Extended(c, w.columns[s], w.times, code)
      BY <1>1, <1>5, <2>1
    <3>2. /\ c.kind = w.columns[s].kind /\ c.event = w.columns[s].event
          /\ Follows(c, Len(w.times)) /\ Climbs(Holds(c, w.times))
      BY <3>1 DEF Extended
    <3>3. w.columns[s].kind = Kind(s) /\ w.columns[s].event = Declared[s].event
      BY <1>2, <1>3 DEF ColumnsOK
    <3> QED
      BY <1>1, <1>4, <2>1, <3>2, <3>3
  <2>2. CASE q # s
    <3>1. c = w.columns[q] /\ q \in 1 .. Len(w.columns)
      BY <1>1, <1>5, <2>2
    <3>2. /\ c.kind = Kind(q) /\ c.event = Declared[q].event
          /\ Follows(c, Reach(w)) /\ Climbs(Holds(c, w.times))
          /\ c.entries # << >> => Group(q) \in DOMAIN w.frames
      BY <1>3, <3>1 DEF ColumnsOK
    <3>3. Follows(c, Reach(r))
      BY <1>1, <3>2, FollowsMore
    <3> QED
      BY <1>4, <3>2, <3>3
  <2> QED
    BY <2>1, <2>2
<1>6. Len(r.columns) <= Len(Declared)
  BY <1>1, <1>3 DEF ColumnsOK
<1> QED
  BY <1>1, <1>5, <1>6 DEF ColumnsOK

LEMMA CaptureFrames ==
  ASSUME NEW dd, NEW w, NEW bs, NEW h, NEW k, NEW s, NEW code, NEW r,
         Capturing(dd, w, bs, h, k, s, code, r)
  PROVE  FramesOK(r, bs)
<1>1. Caught(r, w, s, code) /\ Len(r.columns) = Len(w.columns) /\ w.columns \in Seq(Columns)
  BY CaptureFacts
<1>2. Recording(dd, w, bs, h, k) /\ s \in 1 .. Len(w.columns)
  BY DEF Capturing
<1>3. ColumnsOK(w) /\ FramesOK(w, bs)
  BY <1>2 DEF Recording
<1>4. r.progress = TRUE /\ FrameTaken(r, w, s)
  BY <1>1 DEF Caught
<1>5. DOMAIN r.frames = DOMAIN w.frames \cup {Group(s)}
  BY <1>4, FrameDomain
<1> DEFINE n == Len(w.columns)
<1>6. n \in Nat /\ s \in Nat /\ Group(s) \in Nat /\ Group(s) \in Groups(n)
  <2>1. n \in Nat /\ s \in Nat /\ 1 <= s /\ s <= n
    BY <1>1, <1>2
  <2> QED
    BY <2>1, GroupIs
<1>7. ASSUME NEW g \in DOMAIN r.frames
      PROVE  r.frames[g] = [q \in Members(g, n) |-> LastIn(bs, Len(bs), q, MaxTime)]
  <2>1. CASE g \in DOMAIN w.frames
    <3>1. r.frames[g] = w.frames[g]
      BY <1>4, <2>1 DEF FrameTaken
    <3> QED
      BY <1>3, <2>1, <3>1 DEF FramesOK
  <2>2. CASE g \notin DOMAIN w.frames
    <3>1. g = Group(s)
      BY <1>5, <2>2
    <3>2. r.frames[g] = [q \in Members(g, n) |-> w.columns[q].last]
      BY <1>4, <2>2, <3>1 DEF FrameTaken
    <3>3. ASSUME NEW q \in Members(g, n)
          PROVE  w.columns[q].last = LastIn(bs, Len(bs), q, MaxTime)
      <4>1. q \in 1 .. n /\ Group(q) = g
        BY <1>6, <3>1, MembersIn
      <4>2. Idle(w, q)
        BY <1>3, <2>2, <4>1 DEF ColumnsOK, Idle
      <4> QED
        BY <1>2, <4>1, <4>2, LastIsRecorded
    <3> QED
      BY <3>2, <3>3
  <2> QED
    BY <2>1, <2>2
<1>8. DOMAIN r.frames \subseteq Groups(n)
  BY <1>3, <1>5, <1>6 DEF FramesOK
<1> QED
  BY <1>1, <1>4, <1>7, <1>8 DEF FramesOK

LEMMA EmissionAdds ==
  ASSUME NEW w, NEW h, NEW k, NEW e, HistoryOK(w, h, k), TimesOK(w), w.times # << >>,
         e \in Emissions, e.time = Last(w.times)
  PROVE  HistoryOK(w, Append(h, e), k)
<1>1. /\ h \in Seq(Emissions) /\ Climbs(h) /\ k \in 0 .. Len(h)
      /\ \A i \in 1 .. Len(h) : h[i].time <= e.time
  BY DEF HistoryOK
<1>2. /\ Append(h, e) \in Seq(Emissions) /\ Len(h) \in Nat /\ Len(Append(h, e)) = Len(h) + 1
      /\ Append(h, e)[Len(h) + 1] = e
      /\ \A i \in 1 .. Len(h) : Append(h, e)[i] = h[i]
      /\ \A i \in 1 .. Len(Append(h, e)) : i \in 1 .. Len(h) \/ i = Len(h) + 1
  BY <1>1, AppendOne
<1>3. e.time \in Nat /\ e.time <= e.time
  BY DEF Emissions
<1>4. Climbs(Append(h, e))
  BY <1>1, <1>3, ClimbsAppend
<1>5. k \in 0 .. Len(Append(h, e))
  BY <1>1, <1>2
<1>6. ASSUME NEW i \in 1 .. Len(Append(h, e)) PROVE Append(h, e)[i].time <= Last(w.times)
  BY <1>1, <1>2, <1>3
<1> QED
  BY <1>2, <1>4, <1>5, <1>6 DEF HistoryOK

\* The columns of r are those of w except that of e's signal, which accounts for e.
Accounts(dd, w, bs, h, e, r) ==
  /\ Len(r.columns) = Len(w.columns) /\ r.times = w.times
  /\ e.signal \in 1 .. Len(w.columns)
  /\ \A q \in 1 .. Len(w.columns) : q # e.signal => r.columns[q] = w.columns[q]
  /\ r.columns[e.signal].emitted = TRUE /\ r.columns[e.signal].last = e.code
  /\ WorthOf(dd, e.signal, Append(OwnOf(h, e.signal), e))
       = Recorded(bs, e.signal) \o OfSignal(e.signal, Holds(r.columns[e.signal], w.times))

LEMMA ReadingAdds ==
  ASSUME NEW dd, NEW w, NEW bs, NEW h, NEW k, NEW e, NEW r,
         ReadingOK(dd, w, bs, h, k), h \in Seq(Emissions), k \in 0 .. Len(h), e \in Emissions,
         Accounts(dd, w, bs, h, e, r)
  PROVE  ReadingOK(dd, r, bs, Append(h, e), k)
<1> DEFINE o == Append(h, e)
           s == e.signal
<1>1. SubSeq(o, 1, k) = SubSeq(h, 1, k)
  BY PrefixStays
<1>2. \A q : OwnOf(o, q) = IF s = q THEN Append(OwnOf(h, q), e) ELSE OwnOf(h, q)
  BY OwnAppend
<1>3. /\ Len(r.columns) = Len(w.columns) /\ r.times = w.times
      /\ s \in 1 .. Len(w.columns)
      /\ \A q \in 1 .. Len(w.columns) : q # s => r.columns[q] = w.columns[q]
      /\ r.columns[s].emitted = TRUE /\ r.columns[s].last = e.code
      /\ WorthOf(dd, s, Append(OwnOf(h, s), e))
           = Recorded(bs, s) \o OfSignal(s, Holds(r.columns[s], w.times))
  BY DEF Accounts
<1> HIDE DEF s, o
<1>4. ASSUME NEW q \in Signals, q \in 1 .. Len(r.columns)
      PROVE  /\ WorthOf(dd, q, OwnOf(SubSeq(o, 1, k), q)) = Recorded(bs, q)
             /\ WorthOf(dd, q, OwnOf(o, q)) = Recorded(bs, q) \o OfSignal(q, Holds(r.columns[q], r.times))
             /\ r.columns[q].emitted <=> OwnOf(o, q) # << >>
             /\ r.columns[q].last = LastCode(OwnOf(o, q), q)
  <2>1. /\ WorthOf(dd, q, OwnOf(SubSeq(h, 1, k), q)) = Recorded(bs, q)
        /\ WorthOf(dd, q, OwnOf(h, q)) = Recorded(bs, q) \o OfSignal(q, Holds(w.columns[q], w.times))
        /\ w.columns[q].emitted <=> OwnOf(h, q) # << >>
        /\ w.columns[q].last = LastCode(OwnOf(h, q), q)
    BY <1>3, <1>4 DEF ReadingOK
  <2>2. CASE q # s
    <3>1. OwnOf(o, q) = OwnOf(h, q) /\ r.columns[q] = w.columns[q]
      BY <1>2, <1>3, <1>4, <2>2
    <3> QED
      BY <1>1, <1>3, <2>1, <3>1
  <2>3. CASE q = s
    <3>1. OwnOf(o, q) = Append(OwnOf(h, q), e)
      BY <1>2, <2>3
    <3>2. OwnOf(h, q) \in Seq(Emissions)
      BY OwnType
    <3>3. OwnOf(o, q) # << >> /\ LastCode(OwnOf(o, q), q) = e.code
      BY <3>1, <3>2, AppendSome, LastCodeAppend
    <3>4. WorthOf(dd, q, OwnOf(o, q)) = Recorded(bs, q) \o OfSignal(q, Holds(r.columns[q], r.times))
      BY <1>3, <2>3, <3>1
    <3>5. r.columns[q].emitted = TRUE /\ r.columns[q].last = e.code
      BY <1>3, <2>3
    <3> QED
      BY <1>1, <2>1, <3>3, <3>4, <3>5
  <2> QED
    BY <2>2, <2>3
<1>5. ASSUME NEW q \in Signals, q \notin 1 .. Len(r.columns)
      PROVE  OwnOf(o, q) = << >> /\ OwnOf(SubSeq(o, 1, k), q) = << >> /\ Recorded(bs, q) = << >>
  <2>1. OwnOf(h, q) = << >> /\ OwnOf(SubSeq(h, 1, k), q) = << >> /\ Recorded(bs, q) = << >>
    BY <1>3, <1>5 DEF ReadingOK
  <2>2. q # s
    BY <1>3, <1>5
  <2> QED
    BY <1>1, <1>2, <2>1, <2>2
<1>6. ReadingOK(dd, r, bs, o, k)
  BY <1>4, <1>5 DEF ReadingOK
<1> QED
  BY <1>6 DEF o

Emission(e, t, s, code) == e = [time |-> t, signal |-> s, code |-> code]

Associates(q, p, x) == Append(q \o p, x) = q \o Append(p, x)

LEMMA JoinOne ==
  ASSUME NEW T, NEW q, NEW p, NEW x, q \in Seq(T), p \in Seq(T), x \in T
  PROVE  Associates(q, p, x)
<1>1. q \o Append(p, x) = Append(q \o p, x)
  BY JoinAppend
<1> QED
  BY <1>1 DEF Associates

LEMMA CaptureAccounts ==
  ASSUME NEW dd, NEW w, NEW bs, NEW h, NEW k, NEW s, NEW code, NEW r, NEW e,
         Capturing(dd, w, bs, h, k, s, code, r),
         Emission(e, Last(w.times), s, code)
  PROVE  e \in Emissions /\ Accounts(dd, w, bs, h, e, r)
<1> DEFINE c == w.columns[s]
           d == r.columns[s]
           own == OwnOf(h, s)
<1>1. /\ Caught(r, w, s, code) /\ TimesOK(w) /\ w.columns \in Seq(Columns)
      /\ Len(r.columns) = Len(w.columns)
      /\ \A q \in 1 .. Len(w.columns) : q # s => r.columns[q] = w.columns[q]
      /\ Extended(d, c, w.times, code)
  BY CaptureFacts
<1>2. /\ Recording(dd, w, bs, h, k) /\ s \in 1 .. Len(w.columns) /\ w.times # << >>
      /\ code \in Codes(c.kind) /\ ~(dd /\ ~c.event /\ c.emitted /\ c.last = code)
  BY DEF Capturing
<1>3. ColumnsOK(w) /\ FileOK(bs) /\ HistoryOK(w, h, k) /\ ReadingOK(dd, w, bs, h, k)
  BY <1>2 DEF Recording
<1>4. s \in Signals /\ s \in Nat /\ c.event = Declared[s].event /\ h \in Seq(Emissions)
  <2>1. Len(w.columns) <= Len(Declared) /\ Len(w.columns) \in Nat /\ c.event = Declared[s].event
    BY <1>2, <1>3 DEF ColumnsOK
  <2> QED
    BY <1>2, <1>3, <2>1, SignalsType DEF Signals, HistoryOK
<1>5. Last(w.times) \in Nat /\ code \in Int
  <2>1. Last(w.times) \in Nat
    BY <1>1, <1>2, TimesSpan DEF Spans
  <2> QED
    BY <1>2, <2>1 DEF Codes
<1>6. e \in Emissions /\ e.signal = s /\ e.code = code
  BY <1>4, <1>5 DEF Emissions, Emission
<1>7. /\ d.last = code /\ d.emitted = TRUE /\ Holds(c, w.times) \in Seq(Read)
      /\ \E n \in Nat : Holds(d, w.times)
                          = Append(Holds(c, w.times), [time |-> Last(w.times), code |-> code, states |-> n])
  BY <1>1 DEF Extended
<1>8. PICK n \in Nat : Holds(d, w.times)
                = Append(Holds(c, w.times), [time |-> Last(w.times), code |-> code, states |-> n])
  BY <1>7
<1>9. OfSignal(s, Holds(d, w.times)) = Append(OfSignal(s, Holds(c, w.times)), e)
  <2> DEFINE x == [time |-> Last(w.times), code |-> code, states |-> n]
             q == Holds(c, w.times)
  <2>1. x \in Read /\ x.time = Last(w.times) /\ x.code = code
    BY <1>5 DEF Read
  <2>2. q \in Seq(Read) /\ Holds(d, w.times) = Append(q, x)
    BY <1>7, <1>8
  <2> HIDE DEF x, q
  <2>3. OfSignal(s, Append(q, x)) = Append(OfSignal(s, q), [time |-> x.time, signal |-> s, code |-> x.code])
    BY <1>4, <2>1, <2>2, TaggedAppend
  <2> QED
    BY <2>1, <2>2, <2>3 DEF q, Emission
<1>10. /\ WorthOf(dd, s, own) = Recorded(bs, s) \o OfSignal(s, Holds(c, w.times))
       /\ c.emitted <=> own # << >>
       /\ c.last = LastCode(own, s)
  BY <1>2, <1>3, <1>4 DEF ReadingOK
<1>11. own \in Seq(Emissions)
  BY <1>4, OwnType
<1>12. Len(own) = 0 \/ Declared[s].event \/ ~dd \/ e.code # own[Len(own)].code
  <2>1. ASSUME dd, ~c.event, Len(own) # 0 PROVE e.code # own[Len(own)].code
    <3>1. own # << >>
      BY <2>1, EmptySeq
    <3>2. c.emitted /\ c.last = own[Len(own)].code
      BY <1>10, <3>1 DEF LastCode
    <3> QED
      BY <1>2, <1>6, <2>1, <3>2
  <2> QED
    BY <1>4, <2>1
<1>13. WorthOf(dd, s, Append(own, e)) = Append(WorthOf(dd, s, own), e)
  <2>1. WorthOf(dd, s, Append(own, e))
          = IF Len(own) = 0 \/ Declared[s].event \/ ~dd \/ e.code # own[Len(own)].code
            THEN Append(WorthOf(dd, s, own), e) ELSE WorthOf(dd, s, own)
    BY <1>6, <1>11, WorthAppend
  <2> QED
    BY <1>12, <2>1
<1>14. Append(Recorded(bs, s) \o OfSignal(s, Holds(c, w.times)), e)
         = Recorded(bs, s) \o Append(OfSignal(s, Holds(c, w.times)), e)
  <2>1. Recorded(bs, s) \in Seq(Emissions)
    BY <1>3, <1>4, FileSounds, RecordedAppend
  <2>2. OfSignal(s, Holds(c, w.times)) \in Seq(Emissions)
    BY <1>4, <1>7, TaggedIs
  <2> DEFINE p == Recorded(bs, s)
             q == OfSignal(s, Holds(c, w.times))
  <2>3. p \in Seq(Emissions) /\ q \in Seq(Emissions) /\ e \in Emissions
    BY <1>6, <2>1, <2>2
  <2> HIDE DEF p, q
  <2>4. Associates(p, q, e)
    BY <2>3, JoinOne
  <2> QED
    BY <2>4 DEF p, q, Associates
<1>15. WorthOf(dd, s, Append(own, e)) = Recorded(bs, s) \o OfSignal(s, Holds(d, w.times))
  BY <1>9, <1>10, <1>13, <1>14
<1>16. r.times = w.times
  BY <1>1 DEF Caught
<1> QED
  BY <1>1, <1>2, <1>6, <1>7, <1>15, <1>16 DEF Accounts

\* The invariant is kept when a change is captured.
LEMMA CaptureKeeps ==
  ASSUME NEW dd, NEW w, NEW bs, NEW h, NEW k, NEW s, NEW code, NEW r, NEW e,
         Capturing(dd, w, bs, h, k, s, code, r),
         Emission(e, Last(w.times), s, code)
  PROVE  Recording(dd, r, bs, Append(h, e), k) /\ r.progress
<1>1. Recording(dd, w, bs, h, k) /\ w.times # << >>
  BY DEF Capturing
<1>2. /\ TimesOK(w) /\ PreviousOK(w, bs) /\ FileOK(bs) /\ Continues(w, bs) /\ HistoryOK(w, h, k)
      /\ ReadingOK(dd, w, bs, h, k)
  BY <1>1 DEF Recording
<1>3. /\ Caught(r, w, s, code) /\ TimesOK(r) /\ Len(r.columns) = Len(w.columns)
  BY CaptureFacts
<1>4. Shape(r) /\ r.times = w.times /\ r.previous = w.previous /\ r.progress = TRUE
  BY <1>3 DEF Caught
<1>5. e \in Emissions /\ Accounts(dd, w, bs, h, e, r) /\ e.time = Last(w.times)
  <2>1. e \in Emissions /\ Accounts(dd, w, bs, h, e, r)
    BY CaptureAccounts
  <2>2. e.time = Last(w.times)
    BY DEF Emission
  <2> QED
    BY <2>1, <2>2
<1>6. ColumnsOK(r) /\ FramesOK(r, bs)
  BY CaptureColumns, CaptureFrames
<1>7. PreviousOK(r, bs) /\ Continues(r, bs)
  BY <1>2, <1>3, <1>4 DEF PreviousOK, Previous, Continues
<1>8. HistoryOK(w, Append(h, e), k)
  BY <1>1, <1>2, <1>5, EmissionAdds
<1>9. HistoryOK(r, Append(h, e), k)
  BY <1>4, <1>8 DEF HistoryOK
<1>10. ReadingOK(dd, r, bs, Append(h, e), k)
  <2>1. h \in Seq(Emissions) /\ k \in 0 .. Len(h)
    BY <1>2 DEF HistoryOK
  <2> QED
    BY <1>2, <1>5, <2>1, ReadingAdds
<1> QED
  BY <1>2, <1>3, <1>4, <1>6, <1>7, <1>9, <1>10 DEF Recording

\* It is kept when a value that repeats the one before is left out.
LEMMA RepeatKeeps ==
  ASSUME NEW dd, NEW w, NEW bs, NEW h, NEW k, NEW s, NEW code, NEW e,
         Recording(dd, w, bs, h, k), w.times # << >>, s \in 1 .. Len(w.columns),
         code \in Codes(w.columns[s].kind),
         dd /\ ~w.columns[s].event /\ w.columns[s].emitted /\ w.columns[s].last = code,
         Emission(e, Last(w.times), s, code)
  PROVE  Recording(dd, w, bs, Append(h, e), k)
<1> DEFINE c == w.columns[s]
           own == OwnOf(h, s)
<1>1. /\ Shape(w) /\ TimesOK(w) /\ ColumnsOK(w) /\ FramesOK(w, bs) /\ PreviousOK(w, bs)
      /\ FileOK(bs) /\ Continues(w, bs) /\ HistoryOK(w, h, k) /\ ReadingOK(dd, w, bs, h, k)
  BY DEF Recording
<1>2. s \in Signals /\ s \in Nat /\ c.event = Declared[s].event /\ h \in Seq(Emissions)
      /\ k \in 0 .. Len(h)
  <2>1. Len(w.columns) <= Len(Declared) /\ Len(w.columns) \in Nat /\ c.event = Declared[s].event
    BY <1>1 DEF ColumnsOK
  <2> QED
    BY <1>1, <2>1, SignalsType DEF Signals, HistoryOK
<1>3. Last(w.times) \in Nat /\ code \in Int
  <2>1. Last(w.times) \in Nat
    BY <1>1, TimesSpan DEF Spans
  <2> QED
    BY <2>1 DEF Codes
<1>4. e \in Emissions /\ e.signal = s /\ e.code = code /\ e.time = Last(w.times)
  BY <1>2, <1>3 DEF Emissions, Emission
<1>5. /\ WorthOf(dd, s, own) = Recorded(bs, s) \o OfSignal(s, Holds(c, w.times))
      /\ c.emitted <=> own # << >>
      /\ c.last = LastCode(own, s)
  BY <1>1, <1>2 DEF ReadingOK
<1>6. own \in Seq(Emissions)
  BY <1>2, OwnType
<1>7. own # << >> /\ Len(own) # 0 /\ e.code = own[Len(own)].code
  BY <1>4, <1>5, <1>6, EmptySeq DEF LastCode
<1>8. WorthOf(dd, s, Append(own, e)) = WorthOf(dd, s, own)
  <2> HIDE DEF own
  <2>0. e \in Emissions
    BY <1>4
  <2>1. WorthOf(dd, s, Append(own, e))
          = IF Len(own) = 0 \/ Declared[s].event \/ ~dd \/ e.code # own[Len(own)].code
            THEN Append(WorthOf(dd, s, own), e) ELSE WorthOf(dd, s, own)
    BY ONLY <1>6, <2>0, WorthAppend
  <2> QED
    BY <1>2, <1>7, <2>1
<1>9. c.emitted = TRUE /\ c.last = e.code
  <2>1. c \in Columns
    BY <1>1, ElementOfSeq DEF ColumnsOK
  <2> QED
    BY <1>4, <2>1 DEF Columns
<1>10. Accounts(dd, w, bs, h, e, w)
  BY <1>4, <1>5, <1>8, <1>9 DEF Accounts
<1>11. ReadingOK(dd, w, bs, Append(h, e), k)
  BY <1>1, <1>2, <1>4, <1>10, ReadingAdds
<1>12. HistoryOK(w, Append(h, e), k)
  BY <1>1, <1>4, EmissionAdds
<1> QED
  BY <1>1, <1>11, <1>12 DEF Recording

-----------------------------------------------------------------------------
(* A block is written. *)

Restart(c) == [c EXCEPT !.entries = << >>, !.index = 0, !.code = NoCode]

Emptied(r, w, b, number) ==
  /\ Shape(r)
  /\ r.columns = [s \in DOMAIN w.columns |-> Restart(w.columns[s])]
  /\ r.frames = << >> /\ r.times = <<Last(w.times)>>
  /\ r.previous = [g \in DOMAIN b.previous |-> IF g \in DOMAIN w.frames THEN number ELSE b.previous[g]]
  /\ r.usedTime = FALSE /\ r.progress = FALSE

LEMMA RestartType ==
  ASSUME NEW c, c \in Columns
  PROVE  /\ Restart(c) \in Columns
         /\ Restart(c).kind = c.kind /\ Restart(c).event = c.event
         /\ Restart(c).emitted = c.emitted /\ Restart(c).last = c.last
         /\ Restart(c).entries = << >> /\ Restart(c).index = 0 /\ Restart(c).code = NoCode
<1>1. << >> \in Seq(Steps) /\ NoCode \in Nat
  BY EmptySeq DEF NoCode
<1> QED
  BY <1>1 DEF Restart, Columns

LEMMA RestartedFields ==
  ASSUME NEW w, NEW number, NEW r, NEW b, Shape(w), TimesOK(w), w.times # << >>,
         b = Encode(w), r = Restarted(w, number)
  PROVE  Emptied(r, w, b, number)
<1> DEFINE cs == [s \in DOMAIN w.columns |-> Restart(w.columns[s])]
           previous == [g \in DOMAIN b.previous |->
                          IF g \in DOMAIN w.frames THEN number ELSE b.previous[g]]
           ts == <<Last(w.times)>>
<1>1. r = [w EXCEPT !.columns = cs, !.frames = << >>, !.previous = previous, !.times = ts,
                    !.records = 0, !.usedTime = FALSE, !.progress = FALSE]
  <2>1. cs = [s \in DOMAIN w.columns |->
                [w.columns[s] EXCEPT !.entries = << >>, !.index = 0, !.code = NoCode]]
    BY DEF Restart
  <2> QED
    BY <2>1 DEF Restarted
<1>2. cs \in Seq(Columns)
  <2>1. w.columns \in Seq(Columns) /\ DOMAIN w.columns = 1 .. Len(w.columns) /\ Len(w.columns) \in Nat
    BY LenProperties DEF Shape
  <2>2. \A s \in 1 .. Len(w.columns) : Restart(w.columns[s]) \in Columns
    BY <2>1, RestartType, ElementOfSeq
  <2> QED
    BY <2>1, <2>2
<1>3. ts \in Seq(Instants)
  <2>1. Last(w.times) \in Instants
    BY TimesSpan DEF Spans, Instants
  <2> QED
    BY <2>1
<1> HIDE DEF cs, previous, ts
<1>4. /\ r.columns = cs /\ r.frames = << >> /\ r.times = ts /\ r.previous = previous
      /\ r.usedTime = FALSE /\ r.progress = FALSE
  BY <1>1 DEF Shape
<1>5. r \in [columns : Seq(Columns), frames : {<< >>}, times : Seq(Instants),
             usedTime : BOOLEAN, progress : BOOLEAN, records : Nat, previous : {previous}]
  <2> DEFINE f == << >>
  <2>1. r = [w EXCEPT !.columns = cs, !.frames = f, !.previous = previous, !.times = ts,
                      !.records = 0, !.usedTime = FALSE, !.progress = FALSE]
    BY <1>1
  <2>2. w \in [columns : Seq(Columns), frames : {w.frames}, times : Seq(Instants),
               usedTime : BOOLEAN, progress : BOOLEAN, records : Nat, previous : {w.previous}]
    BY DEF Shape
  <2> HIDE DEF f
  <2>3. r \in [columns : Seq(Columns), frames : {f}, times : Seq(Instants),
               usedTime : BOOLEAN, progress : BOOLEAN, records : Nat, previous : {previous}]
    <3>1. r = [columns |-> cs, frames |-> f, times |-> ts, usedTime |-> FALSE, progress |-> FALSE,
               records |-> 0, previous |-> previous]
      BY <2>1, <2>2
    <3> QED
      BY <1>2, <1>3, <3>1
  <2> QED
    BY <2>3 DEF f
<1>6. Shape(r)
  BY <1>4, <1>5 DEF Shape
<1> QED
  BY <1>4, <1>6 DEF Emptied, cs, previous, ts

-----------------------------------------------------------------------------
(* The block that is written. *)

LEMMA SmallestOf ==
  ASSUME NEW n, NEW S, n \in Nat, S \in SUBSET (1 .. n), S # {}
  PROVE  Min(S) \in S /\ \A y \in S : Min(S) <= y
<1>1. S \in SUBSET Nat
  OBVIOUS
<1>2. \E m \in S : \A y \in S : m <= y
  BY <1>1, Least
<1> QED
  BY <1>2 DEF Min

LEMMA TwinOf ==
  ASSUME NEW cs, NEW s, cs \in Seq(Columns), s \in Aliased(cs)
  PROVE  /\ s \in 1 .. Len(cs) /\ Min(Twins(cs, s)) \in 1 .. Len(cs)
         /\ cs[Min(Twins(cs, s))].kind = cs[s].kind /\ cs[Min(Twins(cs, s))].entries = cs[s].entries
         /\ cs[s].entries # << >> /\ Min(Twins(cs, s)) \notin Aliased(cs)
<1> DEFINE m == Min(Twins(cs, s))
           n == Len(cs)
<1>1. n \in Nat /\ DOMAIN cs = 1 .. n
  BY LenProperties
<1>2. s \in 1 .. n /\ Len(cs[s].entries) >= AliasSize /\ Twins(cs, s) # {}
  BY <1>1 DEF Aliased
<1>3. s - 1 \in Nat /\ Twins(cs, s) \in SUBSET (1 .. (s - 1))
  BY <1>1, <1>2 DEF Twins
<1>4. m \in Twins(cs, s) /\ \A y \in Twins(cs, s) : m <= y
  BY <1>2, <1>3, SmallestOf
<1> HIDE DEF m, n
<1>5. m \in 1 .. (s - 1) /\ cs[m].kind = cs[s].kind /\ cs[m].entries = cs[s].entries
  BY <1>4 DEF Twins
<1>6. m \in 1 .. n /\ m < s
  BY <1>1, <1>2, <1>5
<1>7. Twins(cs, m) = {}
  <2>1. SUFFICES ASSUME NEW q \in Twins(cs, m) PROVE FALSE
    OBVIOUS
  <2>2. q \in 1 .. (m - 1) /\ cs[q].kind = cs[m].kind /\ cs[q].entries = cs[m].entries
    BY <2>1 DEF Twins
  <2>3. q \in 1 .. (s - 1) /\ q < m
    BY <1>1, <1>2, <1>6, <2>2
  <2>4. q \in Twins(cs, s)
    BY <1>5, <2>2, <2>3 DEF Twins
  <2> QED
    BY <1>4, <1>6, <2>3, <2>4
<1>8. m \notin Aliased(cs)
  BY <1>7 DEF Aliased
<1>9. cs[s].entries # << >>
  <2>1. AliasSize \in Nat /\ AliasSize # 0
    BY ConstantsOK DEF ConstantsOK
  <2>2. Len(<< >>) = 0
    BY EmptySeq
  <2> QED
    BY <1>2, <2>1, <2>2
<1> QED
  BY <1>2, <1>5, <1>6, <1>8, <1>9 DEF m, n

\* The block the recorder w writes.
Written(b, w) ==
  /\ b.start = w.times[1] /\ b.end = Last(w.times) /\ b.times = Deltas(w.times)
  /\ b.signals = Len(w.columns) /\ b.frames = w.frames
  /\ b.previous = [g \in Groups(Len(w.columns)) |-> Previous(w, g)]
  /\ DOMAIN b.aliases = Aliased(w.columns)
  /\ \A s \in Aliased(w.columns) : b.aliases[s] = Min(Twins(w.columns, s))
  /\ \A s \in 1 .. Len(w.columns) :
       b.columns[s] = IF s \in Aliased(w.columns) THEN << >> ELSE w.columns[s].entries

LEMMA EncodeFields ==
  ASSUME NEW w, NEW b, b = Encode(w)
  PROVE  Written(b, w)
<1> DEFINE n == Len(w.columns)
           aliases == [s \in Aliased(w.columns) |-> Min(Twins(w.columns, s))]
           previous == [g \in Groups(n) |-> IF g \in DOMAIN w.previous THEN w.previous[g] ELSE NoBlock]
           cs == [s \in 1 .. n |-> IF s \in DOMAIN aliases THEN << >> ELSE w.columns[s].entries]
<1>1. b = [start |-> w.times[1], end |-> Last(w.times), times |-> Deltas(w.times), signals |-> n,
           frames |-> w.frames, previous |-> previous, aliases |-> aliases, columns |-> cs]
  BY DEF Encode
<1>2. DOMAIN aliases = Aliased(w.columns)
  OBVIOUS
<1>3. previous = [g \in Groups(n) |-> Previous(w, g)]
  BY DEF Previous
<1>4. \A s \in 1 .. n : cs[s] = IF s \in Aliased(w.columns) THEN << >> ELSE w.columns[s].entries
  BY <1>2
<1>5. \A s \in Aliased(w.columns) : aliases[s] = Min(Twins(w.columns, s))
  OBVIOUS
<1> HIDE DEF n, aliases, previous, cs
<1>6. /\ b.start = w.times[1] /\ b.end = Last(w.times) /\ b.times = Deltas(w.times)
      /\ b.signals = n /\ b.frames = w.frames /\ b.previous = previous /\ b.aliases = aliases
      /\ b.columns = cs
  BY <1>1
<1> QED
  BY <1>2, <1>3, <1>4, <1>5, <1>6 DEF Written, n

\* What the block holds of a signal is what its column held.
LEMMA WrittenHolds ==
  ASSUME NEW w, NEW b, NEW s, Written(b, w), TimesOK(w), ColumnsOK(w), s \in Signals
  PROVE  /\ Times(b) = w.times
         /\ Full(b, s) = IF s \in 1 .. Len(w.columns) THEN Holds(w.columns[s], w.times) ELSE << >>
<1>1. b.times = Deltas(w.times) /\ w.times \in Seq(Nat)
  <2>1. w.times \in Seq(Instants) /\ Instants \subseteq Nat
    BY DEF TimesOK, Instants
  <2> QED
    BY <2>1, SeqMonotonic DEF Written
<1>2. Times(b) = w.times
  BY <1>1, TimesBack
<1>3. /\ b.signals = Len(w.columns) /\ b.frames = w.frames /\ DOMAIN b.aliases = Aliased(w.columns)
      /\ w.columns \in Seq(Columns) /\ Len(w.columns) \in Nat
  BY DEF Written, ColumnsOK
<1>4. CASE s \notin 1 .. Len(w.columns)
  <2>1. s > b.signals
    BY <1>3, <1>4, SignalsType
  <2> QED
    BY <1>2, <1>4, <2>1 DEF Full
<1>5. CASE s \in 1 .. Len(w.columns)
  <2> DEFINE c == w.columns[s]
  <2>1. c \in Columns /\ c.kind = Kind(s) /\ ~(s > b.signals)
    BY <1>3, <1>5, ElementOfSeq DEF ColumnsOK
  <2>2. CASE Group(s) \notin DOMAIN b.frames
    <3>1. c.entries = << >>
      BY <1>3, <1>5, <2>2 DEF ColumnsOK
    <3>2. Holds(c, w.times) = << >>
      BY <2>1, <3>1, NoneHeld
    <3> QED
      BY <1>2, <1>5, <2>2, <3>2 DEF Full
  <2>3. CASE Group(s) \in DOMAIN b.frames
    <3> DEFINE u == IF s \in DOMAIN b.aliases THEN b.aliases[s] ELSE s
    <3>1. Full(b, s) = Content(Kind(s), b.columns[u], w.times)
      BY <1>2, <2>1, <2>3 DEF Full
    <3>2. b.columns[u] = c.entries
      <4>1. CASE s \in Aliased(w.columns)
        <5>1. u = Min(Twins(w.columns, s))
          BY <1>3, <4>1 DEF Written
        <5>2. u \in 1 .. Len(w.columns) /\ w.columns[u].entries = c.entries /\ u \notin Aliased(w.columns)
          BY <1>3, <4>1, <5>1, TwinOf
        <5> HIDE DEF u
        <5> QED
          BY <5>2 DEF Written
      <4>2. CASE s \notin Aliased(w.columns)
        BY <1>3, <1>5, <4>2 DEF Written
      <4> QED
        BY <4>1, <4>2
    <3> HIDE DEF u
    <3> QED
      BY <1>2, <1>5, <2>1, <3>1, <3>2 DEF Holds
  <2> QED
    BY <2>2, <2>3
<1> QED
  BY <1>4, <1>5

\* The block can be read.
LEMMA WrittenValid ==
  ASSUME NEW w, NEW b, NEW bs, Written(b, w), TimesOK(w), ColumnsOK(w), FramesOK(w, bs), w.times # << >>
  PROVE  Valid(b)
<1> DEFINE n == Len(w.columns)
           lo == w.times[1]
           hi == Last(w.times)
<1>1. /\ b.start = lo /\ b.end = hi /\ b.times = Deltas(w.times) /\ b.signals = n
      /\ b.frames = w.frames /\ DOMAIN b.aliases = Aliased(w.columns)
      /\ \A s \in Aliased(w.columns) : b.aliases[s] = Min(Twins(w.columns, s))
      /\ \A s \in 1 .. n : b.columns[s] = IF s \in Aliased(w.columns) THEN << >> ELSE w.columns[s].entries
  BY DEF Written
<1>2. /\ w.times \in Seq(Instants) /\ Len(w.times) \in Nat
      /\ \A i, j \in 1 .. Len(w.times) : i < j => w.times[i] < w.times[j]
  BY DEF TimesOK
<1>3. /\ w.times \in Seq({t \in Nat : lo <= t /\ t <= hi}) /\ lo \in Nat /\ hi \in Nat
      /\ Len(w.times) >= 1 /\ lo <= hi /\ hi <= MaxTime
  BY TimesSpan DEF Spans
<1>4. w.times \in Seq(Nat)
  <2>1. Instants \subseteq Nat
    BY DEF Instants
  <2> QED
    BY <1>2, <2>1, SeqMonotonic
<1>5. Times(b) = w.times
  BY <1>1, <1>4, TimesBack
<1>6. w.columns \in Seq(Columns) /\ n \in Nat /\ n <= Len(Declared)
  BY DEF ColumnsOK
<1>7. \A i \in 2 .. Len(b.times) : b.times[i] > 0
  <2>1. /\ Len(b.times) = Len(w.times)
        /\ \A i \in 1 .. Len(w.times) : b.times[i] = w.times[i] - (IF i = 1 THEN 0 ELSE w.times[i - 1])
    BY <1>1, <1>4, DeltasType
  <2> TAKE i \in 2 .. Len(b.times)
  <2>2. i \in 1 .. Len(w.times) /\ i - 1 \in 1 .. Len(w.times) /\ i - 1 < i /\ i # 1
    BY <1>2, <2>1
  <2>3. w.times[i - 1] < w.times[i] /\ w.times[i - 1] \in Nat /\ w.times[i] \in Nat
    BY <1>2, <1>4, <2>2, ElementOfSeq
  <2>4. b.times[i] = w.times[i] - w.times[i - 1]
    BY <2>1, <2>2
  <2> QED
    BY <2>3, <2>4
<1>8. ASSUME NEW s \in Aliased(w.columns)
      PROVE  /\ s \in 1 .. n /\ b.aliases[s] \in 1 .. n
             /\ Group(s) \in DOMAIN w.frames /\ Group(b.aliases[s]) \in DOMAIN w.frames
             /\ b.aliases[s] \notin Aliased(w.columns) /\ Kind(b.aliases[s]) = Kind(s)
  <2> DEFINE u == b.aliases[s]
  <2>1. u = Min(Twins(w.columns, s))
    BY <1>1
  <2>2. /\ s \in 1 .. n /\ u \in 1 .. n
        /\ w.columns[u].kind = w.columns[s].kind /\ w.columns[u].entries = w.columns[s].entries
        /\ w.columns[s].entries # << >> /\ u \notin Aliased(w.columns)
    BY <1>6, <2>1, TwinOf
  <2> HIDE DEF u
  <2>3. /\ w.columns[s].kind = Kind(s) /\ w.columns[u].kind = Kind(u)
        /\ Group(s) \in DOMAIN w.frames /\ Group(u) \in DOMAIN w.frames
    BY <2>2 DEF ColumnsOK
  <2> QED
    BY <2>2, <2>3 DEF u
<1>9. ASSUME NEW s \in 1 .. n
      PROVE  /\ b.columns[s] \in Seq(Steps)
             /\ b.columns[s] # << >> => Group(s) \in DOMAIN w.frames
             /\ Decoded(Kind(s), b.columns[s]) \in Seq(Reaching(Len(w.times)))
             /\ Legible(Kind(s), b.columns[s])
             /\ Climbs(Content(Kind(s), b.columns[s], w.times))
  <2> DEFINE c == w.columns[s]
  <2>1. c \in Columns /\ c.kind = Kind(s) /\ Follows(c, Reach(w)) /\ Climbs(Holds(c, w.times))
    BY <1>6, ElementOfSeq DEF ColumnsOK
  <2>2. c.entries \in Seq(Steps) /\ Kind(s) \in Kinds
    BY <2>1 DEF Columns
  <2>3. CASE s \in Aliased(w.columns)
    <3>1. b.columns[s] = << >>
      BY <1>1, <2>3
    <3>2. Decoded(Kind(s), << >>) = << >>
      BY <2>2, DecodedAppend
    <3>3. << >> \in Seq(Steps) /\ << >> \in Seq(Reaching(Len(w.times))) /\ Len(<< >>) = 0
      BY EmptySeq
    <3>4. Legible(Kind(s), << >>)
      BY <3>2, <3>3 DEF Legible
    <3>5. Content(Kind(s), << >>, w.times) = << >>
      BY <3>2, MappedNone DEF Content
    <3>6. Climbs(<< >>)
      BY DEF Climbs
    <3> QED
      BY <3>1, <3>2, <3>3, <3>4, <3>5, <3>6
  <2>4. CASE s \notin Aliased(w.columns)
    <3>1. b.columns[s] = c.entries
      BY <1>1, <2>4
    <3>2. Follows(c, Len(w.times))
      BY <2>1, ReachType, FollowsMore
    <3>3. Reads(c) \in Seq(Reaching(Len(w.times))) /\ Legible(c.kind, c.entries)
      BY <3>2 DEF Follows
    <3>4. c.entries # << >> => Group(s) \in DOMAIN w.frames
      BY DEF ColumnsOK
    <3> QED
      BY <2>1, <2>2, <3>1, <3>3, <3>4 DEF Reads, Holds
  <2> QED
    BY <2>3, <2>4
<1>10. DOMAIN w.frames \subseteq Groups(n)
  BY DEF FramesOK
<1>11. Times(b)[1] = lo /\ Last(Times(b)) = hi /\ Times(b) # << >>
  BY <1>5
<1>12. Times(b) \in Seq({t \in Nat : b.start <= t /\ t <= b.end})
  BY <1>1, <1>3, <1>5
<1> HIDE DEF n, lo, hi
<1> QED
  BY <1>1, <1>3, <1>5, <1>6, <1>7, <1>8, <1>9, <1>10, <1>11, <1>12 DEF Valid

-----------------------------------------------------------------------------
(* The file with one more block. *)

LEMMA GroupsGrow ==
  ASSUME NEW n, NEW m, n \in Nat, m \in Nat, n <= m
  PROVE  Groups(n) \subseteq Groups(m) /\ Groups(n) \subseteq Nat
<1> DEFINE a == (n + GroupSize - 1) \div GroupSize
           b == (m + GroupSize - 1) \div GroupSize
<1>1. GroupSize \in Nat /\ GroupSize >= 1
  BY ConstantsOK DEF ConstantsOK
<1>2. a \in Int /\ b \in Int /\ a <= b
  BY <1>1
<1>3. Groups(n) = 0 .. a - 1 /\ Groups(m) = 0 .. b - 1
  BY DEF Groups
<1> HIDE DEF a, b
<1> QED
  BY <1>2, <1>3

Longer(cs, bs, b) == bs \in Seq(Ranged(bs)) /\ cs = Append(bs, b)

Grown(cs, bs, b) ==
  /\ Ranged(cs) = Ranged(bs) \cup {b} /\ cs \in Seq(Ranged(cs)) /\ bs \in Seq(Ranged(cs))
  /\ b \in Ranged(cs)
  /\ Len(bs) \in Nat /\ Len(cs) = Len(bs) + 1 /\ cs[Len(bs) + 1] = b
  /\ \A i \in 1 .. Len(bs) : cs[i] = bs[i]
  /\ \A i \in 1 .. Len(cs) : i \in 1 .. Len(bs) \/ i = Len(bs) + 1

LEMMA RangedAppend ==
  ASSUME NEW bs, NEW b, NEW cs, Longer(cs, bs, b)
  PROVE  Grown(cs, bs, b)
<1> DEFINE T == Ranged(bs) \cup {b}
<1>1. bs \in Seq(T)
  <2>1. Ranged(bs) \subseteq T
    OBVIOUS
  <2> QED
    BY <2>1, SeqMonotonic DEF Longer
<1>2. b \in T
  OBVIOUS
<1> HIDE DEF T
<1>3. /\ cs \in Seq(T)
      /\ Len(bs) \in Nat /\ Len(cs) = Len(bs) + 1 /\ cs[Len(bs) + 1] = b
      /\ \A i \in 1 .. Len(bs) : cs[i] = bs[i]
      /\ \A i \in 1 .. Len(cs) : i \in 1 .. Len(bs) \/ i = Len(bs) + 1
  BY <1>1, <1>2, Appended DEF Longer
<1>4. Ranged(cs) = T
  <2>1. ASSUME NEW x \in Ranged(cs) PROVE x \in T
    BY <1>3, ElementOfSeq DEF Ranged
  <2>2. ASSUME NEW x \in T PROVE x \in Ranged(cs)
    <3>1. CASE x = b
      <4>1. Len(bs) + 1 \in 1 .. Len(cs)
        BY <1>3
      <4> QED
        BY <1>3, <3>1, <4>1 DEF Ranged
    <3>2. CASE x \in Ranged(bs)
      <4>1. PICK i \in 1 .. Len(bs) : x = bs[i]
        BY <3>2 DEF Ranged
      <4>2. i \in 1 .. Len(cs) /\ x = cs[i]
        BY <1>3, <4>1
      <4> QED
        BY <4>2 DEF Ranged
    <3> QED
      BY <3>1, <3>2 DEF T
  <2> QED
    BY <2>1, <2>2
<1> QED
  BY <1>1, <1>2, <1>3, <1>4 DEF T, Grown

DirtyAt(bs, n, g) == {j \in 1 .. n : g \in DOMAIN bs[j].frames}

LEMMA DirtyIs ==
  ASSUME NEW bs, NEW n, NEW g, n \in Nat
  PROVE  LastDirty(bs, n + 1, g) = IF DirtyAt(bs, n, g) = {} THEN NoBlock ELSE Max(DirtyAt(bs, n, g))
<1>1. (n + 1) - 1 = n
  OBVIOUS
<1>2. LastDirty(bs, n + 1, g)
        = IF DirtyAt(bs, (n + 1) - 1, g) = {} THEN NoBlock ELSE Max(DirtyAt(bs, (n + 1) - 1, g))
  BY DEF LastDirty, DirtyAt
<1> QED
  BY <1>1, <1>2

LEMMA DirtySame ==
  ASSUME NEW bs, NEW b, NEW cs, NEW g, NEW i, Longer(cs, bs, b), i \in 1 .. Len(bs) + 1
  PROVE  LastDirty(cs, i, g) = LastDirty(bs, i, g)
<1>1. Len(bs) \in Nat /\ \A j \in 1 .. Len(bs) : cs[j] = bs[j]
  BY RangedAppend DEF Grown
<1>2. \A j \in 1 .. (i - 1) : cs[j] = bs[j]
  BY <1>1
<1>3. DirtyAt(cs, i - 1, g) = DirtyAt(bs, i - 1, g)
  BY <1>2 DEF DirtyAt
<1> QED
  BY <1>3 DEF LastDirty, DirtyAt

DirtyNext(cs, bs, b, g) ==
  LastDirty(cs, Len(cs) + 1, g)
    = IF g \in DOMAIN b.frames THEN Len(bs) + 1 ELSE LastDirty(bs, Len(bs) + 1, g)

LEMMA DirtyAppend ==
  ASSUME NEW bs, NEW b, NEW cs, NEW g, Longer(cs, bs, b)
  PROVE  DirtyNext(cs, bs, b, g)
<1> DEFINE n == Len(bs)
           D == DirtyAt(cs, n + 1, g)
           E == DirtyAt(bs, n, g)
<1>1. /\ n \in Nat /\ Len(cs) = n + 1 /\ cs[n + 1] = b /\ \A i \in 1 .. n : cs[i] = bs[i]
  BY RangedAppend DEF Grown
<1> HIDE DEF n
<1>2. LastDirty(cs, Len(cs) + 1, g) = IF D = {} THEN NoBlock ELSE Max(D)
  BY <1>1, DirtyIs
<1>3. LastDirty(bs, n + 1, g) = IF E = {} THEN NoBlock ELSE Max(E)
  BY <1>1, DirtyIs
<1>4. CASE g \in DOMAIN b.frames
  <2>1. n + 1 \in D /\ D \in SUBSET Int /\ \A y \in D : n + 1 >= y
    BY <1>1, <1>4 DEF DirtyAt
  <2> HIDE DEF D
  <2>2. Max(D) = n + 1
    BY <1>1, <2>1, MaxIs
  <2> QED
    BY <1>2, <1>4, <2>1, <2>2 DEF n, DirtyNext
<1>5. CASE g \notin DOMAIN b.frames
  <2>1. D = E
    BY <1>1, <1>5 DEF DirtyAt
  <2> QED
    BY <1>2, <1>3, <1>5, <2>1 DEF n, DirtyNext
<1> QED
  BY <1>4, <1>5 DEF DirtyNext

\* A file stays in order with a block the recorder writes.
LEMMA FileGrows ==
  ASSUME NEW dd, NEW w, NEW bs, NEW h, NEW k, NEW b, NEW cs,
         Recording(dd, w, bs, h, k), w.times # << >>, Written(b, w), Longer(cs, bs, b)
  PROVE  FileOK(cs)
<1>1. /\ TimesOK(w) /\ ColumnsOK(w) /\ FramesOK(w, bs) /\ PreviousOK(w, bs)
      /\ FileOK(bs) /\ Continues(w, bs)
  BY DEF Recording
<1>2. bs \in Seq(Ranged(bs)) /\ (\A x \in Ranged(bs) : Valid(x))
      /\ Ordered(bs) /\ Linked(bs) /\ Framed(bs)
  BY <1>1 DEF FileOK
<1> DEFINE m == Len(bs)
           n == Len(w.columns)
<1>3. /\ Ranged(cs) = Ranged(bs) \cup {b} /\ cs \in Seq(Ranged(cs))
      /\ m \in Nat /\ Len(cs) = m + 1 /\ cs[m + 1] = b
      /\ \A i \in 1 .. m : cs[i] = bs[i]
      /\ \A i \in 1 .. Len(cs) : i \in 1 .. m \/ i = m + 1
  BY <1>2, RangedAppend DEF Grown
<1>4. /\ b.start = w.times[1] /\ b.signals = n /\ b.frames = w.frames
      /\ b.previous = [g \in Groups(n) |-> Previous(w, g)]
  BY DEF Written
<1>5. \A x \in Ranged(cs) : Valid(x)
  BY <1>1, <1>2, <1>3, WrittenValid
<1>6. n \in Nat /\ n <= Len(Declared) /\ Len(Declared) \in Nat
  BY <1>1, SignalsType DEF ColumnsOK
<1> HIDE DEF m, n
<1>7. Ordered(cs)
  <2>1. ASSUME NEW i \in 1 .. Len(cs), NEW j \in 1 .. Len(cs), i < j
        PROVE  cs[i].end <= cs[j].start /\ cs[i].signals <= cs[j].signals
    <3>1. i \in 1 .. m
      BY <1>3, <2>1
    <3>2. CASE j \in 1 .. m
      <4>1. bs[i].end <= bs[j].start /\ bs[i].signals <= bs[j].signals
        BY <1>2, <2>1, <3>1, <3>2 DEF Ordered, m
      <4> QED
        BY <1>3, <3>1, <3>2, <4>1
    <3>3. CASE j = m + 1
      <4>1. bs[i].signals <= n /\ bs[i].end <= w.times[1]
        BY <1>1, <3>1 DEF Continues, m, n
      <4> QED
        BY <1>3, <1>4, <3>1, <3>3, <4>1
    <3> QED
      BY <1>3, <3>2, <3>3
  <2> QED
    BY <2>1 DEF Ordered
<1>8. Linked(cs)
  <2>1. ASSUME NEW i \in 1 .. Len(cs)
        PROVE  /\ cs[i].signals \in Nat /\ DOMAIN cs[i].frames \subseteq Groups(cs[i].signals)
               /\ \A g \in Groups(cs[i].signals) : cs[i].previous[g] = LastDirty(cs, i, g)
    <3>1. i \in 1 .. m + 1 /\ \A g : LastDirty(cs, i, g) = LastDirty(bs, i, g)
      <4>1. i \in 1 .. m + 1
        BY <1>3
      <4>2. i \in 1 .. Len(bs) + 1
        BY <4>1 DEF m
      <4> QED
        BY <4>1, <4>2, DirtySame
    <3>2. CASE i \in 1 .. m
      <4>1. /\ bs[i].signals \in Nat /\ DOMAIN bs[i].frames \subseteq Groups(bs[i].signals)
            /\ \A g \in Groups(bs[i].signals) : bs[i].previous[g] = LastDirty(bs, i, g)
        BY <1>2, <3>2 DEF Linked, m
      <4> QED
        BY <1>3, <3>1, <3>2, <4>1
    <3>3. CASE i = m + 1
      <4>1. DOMAIN w.frames \subseteq Groups(n)
        BY <1>1 DEF FramesOK, n
      <4>2. ASSUME NEW g \in Groups(n) PROVE Previous(w, g) = LastDirty(bs, m + 1, g)
        <5>1. g \in Groups(Len(Declared))
          BY <1>6, GroupsGrow
        <5> QED
          BY <1>1, <5>1 DEF PreviousOK, m
      <4> QED
        BY <1>3, <1>4, <1>6, <3>1, <3>3, <4>1, <4>2
    <3> QED
      BY <1>3, <3>2, <3>3
  <2> QED
    BY <2>1 DEF Linked
<1>9. Framed(cs)
  <2>1. ASSUME NEW i \in 1 .. Len(cs), NEW g \in DOMAIN cs[i].frames
        PROVE  /\ DOMAIN cs[i].frames[g] = Members(g, cs[i].signals)
               /\ \A s \in Members(g, cs[i].signals) :
                    cs[i].frames[g][s] = LastIn(cs, i - 1, s, MaxTime)
    <3>1. \A s : LastIn(cs, i - 1, s, MaxTime) = LastIn(bs, i - 1, s, MaxTime)
      <4> DEFINE p == i - 1
      <4>1. p \in Nat /\ \A j \in 1 .. p : cs[j] = bs[j]
        BY <1>3
      <4> HIDE DEF p
      <4>2. ASSUME NEW s PROVE LastIn(cs, p, s, MaxTime) = LastIn(bs, p, s, MaxTime)
        BY ONLY <4>1, LastInSame
      <4> QED
        BY <4>2 DEF p
    <3>2. CASE i \in 1 .. m
      <4>1. /\ DOMAIN bs[i].frames[g] = Members(g, bs[i].signals)
            /\ \A s \in Members(g, bs[i].signals) : bs[i].frames[g][s] = LastIn(bs, i - 1, s, MaxTime)
        BY <1>2, <1>3, <2>1, <3>2 DEF Framed, m
      <4> QED
        BY <1>3, <3>1, <3>2, <4>1
    <3>3. CASE i = m + 1
      <4>1. i - 1 = m /\ g \in DOMAIN w.frames /\ cs[i].frames[g] = w.frames[g] /\ cs[i].signals = n
        BY <1>3, <1>4, <2>1, <3>3
      <4>2. w.frames[g] = [s \in Members(g, n) |-> LastIn(bs, m, s, MaxTime)]
        BY <1>1, <4>1 DEF FramesOK, m, n
      <4> QED
        BY <3>1, <4>1, <4>2
    <3> QED
      BY <1>3, <3>2, <3>3
  <2> QED
    BY <2>1 DEF Framed
<1> QED
  BY <1>3, <1>5, <1>7, <1>8, <1>9 DEF FileOK

\* The facts the parts of the proof share.
Flushing(dd, w, bs, h, k, b, r, cs) ==
  /\ Recording(dd, w, bs, h, k) /\ w.times # << >>
  /\ Written(b, w) /\ Emptied(r, w, b, Len(bs) + 1) /\ Longer(cs, bs, b)

LEMMA FlushFacts ==
  ASSUME NEW dd, NEW w, NEW bs, NEW h, NEW k, NEW b, NEW r, NEW cs,
         Flushing(dd, w, bs, h, k, b, r, cs)
  PROVE  /\ r.columns \in Seq(Columns) /\ Len(r.columns) = Len(w.columns) /\ Len(w.columns) \in Nat
         /\ \A s \in 1 .. Len(w.columns) :
              w.columns[s] \in Columns /\ r.columns[s] = Restart(w.columns[s])
         /\ r.times \in Seq(Instants) /\ r.times # << >> /\ Len(r.times) = 1
         /\ r.times[1] = Last(w.times) /\ Last(r.times) = Last(w.times)
         /\ TimesOK(r) /\ Reach(r) = 0
<1>1. /\ r.columns = [s \in DOMAIN w.columns |-> Restart(w.columns[s])]
      /\ r.times = <<Last(w.times)>> /\ r.usedTime = FALSE /\ r.progress = FALSE /\ Shape(r)
  BY DEF Flushing, Emptied
<1>2. TimesOK(w) /\ w.times # << >> /\ w.columns \in Seq(Columns)
  BY DEF Flushing, Recording, ColumnsOK
<1>3. DOMAIN w.columns = 1 .. Len(w.columns) /\ Len(w.columns) \in Nat
  BY <1>2, LenProperties
<1>4. \A s \in 1 .. Len(w.columns) : w.columns[s] \in Columns /\ Restart(w.columns[s]) \in Columns
  BY <1>2, RestartType, ElementOfSeq
<1>5. /\ r.columns \in Seq(Columns) /\ Len(r.columns) = Len(w.columns)
      /\ \A s \in 1 .. Len(w.columns) : r.columns[s] = Restart(w.columns[s])
  BY <1>1, <1>3, <1>4
<1>6. Last(w.times) \in Instants
  BY <1>2, TimesSpan DEF Spans, Instants
<1>7. /\ r.times \in Seq(Instants) /\ Len(r.times) = 1 /\ r.times[1] = Last(w.times)
      /\ Last(r.times) = Last(w.times) /\ r.times # << >>
  <2> DEFINE x == Last(w.times)
  <2>1. x \in Instants /\ r.times = <<x>>
    BY <1>1, <1>6
  <2> HIDE DEF x
  <2>2. r.times \in Seq(Instants) /\ Len(r.times) = 1 /\ r.times[1] = x
    BY <2>1
  <2>3. r.times # << >> /\ Last(r.times) = x
    BY <2>2, EmptySeq DEF Last
  <2> QED
    BY <2>2, <2>3 DEF x
<1>8. TimesOK(r)
  BY <1>7 DEF TimesOK
<1>9. Reach(r) = 0
  BY <1>1, <1>7 DEF Reach
<1> QED
  BY <1>3, <1>4, <1>5, <1>7, <1>8, <1>9

LEMMA FlushColumns ==
  ASSUME NEW dd, NEW w, NEW bs, NEW h, NEW k, NEW b, NEW r, NEW cs,
         Flushing(dd, w, bs, h, k, b, r, cs)
  PROVE  ColumnsOK(r)
<1>1. /\ r.columns \in Seq(Columns) /\ Len(r.columns) = Len(w.columns)
      /\ \A s \in 1 .. Len(w.columns) :
           w.columns[s] \in Columns /\ r.columns[s] = Restart(w.columns[s])
      /\ Reach(r) = 0
  BY FlushFacts
<1>2. ColumnsOK(w)
  BY DEF Flushing, Recording
<1>3. ASSUME NEW s \in 1 .. Len(r.columns), NEW c, c = r.columns[s]
      PROVE  /\ c.kind = Kind(s) /\ c.event = Declared[s].event
             /\ Follows(c, Reach(r)) /\ Climbs(Holds(c, r.times))
             /\ c.entries = << >>
  <2>1. w.columns[s] \in Columns /\ c = Restart(w.columns[s])
    BY <1>1, <1>3
  <2>2. /\ c \in Columns /\ c.kind = w.columns[s].kind /\ c.event = w.columns[s].event
        /\ c.entries = << >> /\ c.index = 0 /\ c.code = NoCode
    BY <2>1, RestartType
  <2>3. w.columns[s].kind = Kind(s) /\ w.columns[s].event = Declared[s].event
    BY <1>1, <1>2 DEF ColumnsOK
  <2>4. Holds(c, r.times) = << >> /\ Reads(c) = << >>
    BY <2>2, NoneHeld
  <2>5. << >> \in Seq(Reaching(Reach(r))) /\ Len(<< >>) = 0 /\ Climbs(<< >>)
    BY EmptySeq DEF Climbs
  <2>6. Decoded(c.kind, c.entries) = << >>
    BY <2>4 DEF Reads
  <2>7. Legible(c.kind, c.entries)
    BY <2>5, <2>6 DEF Legible
  <2>8. Follows(c, Reach(r))
    BY <2>2, <2>4, <2>5, <2>7 DEF Follows
  <2> QED
    BY <2>2, <2>3, <2>4, <2>5, <2>8
<1>4. Len(r.columns) <= Len(Declared)
  BY <1>1, <1>2 DEF ColumnsOK
<1> QED
  BY <1>1, <1>3, <1>4 DEF ColumnsOK

LEMMA FlushPrevious ==
  ASSUME NEW dd, NEW w, NEW bs, NEW h, NEW k, NEW b, NEW r, NEW cs,
         Flushing(dd, w, bs, h, k, b, r, cs)
  PROVE  PreviousOK(r, cs)
<1> DEFINE n == Len(w.columns)
           m == Len(bs)
<1>1. Len(r.columns) = n
  BY FlushFacts
<1>2. PreviousOK(w, bs) /\ DOMAIN w.frames \subseteq Groups(n)
  BY DEF Flushing, Recording, FramesOK
<1>3. /\ b.frames = w.frames /\ b.previous = [g \in Groups(n) |-> Previous(w, g)]
      /\ r.previous = [g \in DOMAIN b.previous |-> IF g \in DOMAIN w.frames THEN m + 1 ELSE b.previous[g]]
      /\ Longer(cs, bs, b)
  BY DEF Flushing, Written, Emptied
<1> HIDE DEF n, m
<1>4. r.previous = [g \in Groups(n) |-> IF g \in DOMAIN w.frames THEN m + 1 ELSE Previous(w, g)]
  BY <1>3
<1>5. ASSUME NEW g \in Groups(Len(Declared))
      PROVE  Previous(r, g) = LastDirty(cs, Len(cs) + 1, g)
  <2>1. LastDirty(cs, Len(cs) + 1, g) = IF g \in DOMAIN w.frames THEN m + 1 ELSE LastDirty(bs, m + 1, g)
    <3>1. DirtyNext(cs, bs, b, g)
      BY <1>3, DirtyAppend
    <3> QED
      BY <1>3, <3>1 DEF DirtyNext, m
  <2>2. LastDirty(bs, m + 1, g) = Previous(w, g)
    BY <1>2 DEF PreviousOK, m
  <2>3. CASE g \in Groups(n)
    BY <1>4, <2>1, <2>2, <2>3 DEF Previous
  <2>4. CASE g \notin Groups(n)
    <3>1. g \notin DOMAIN w.frames /\ g \notin DOMAIN w.previous /\ g \notin DOMAIN r.previous
      BY <1>2, <1>4, <2>4 DEF PreviousOK, n
    <3>2. Previous(r, g) = NoBlock /\ Previous(w, g) = NoBlock
      BY <3>1 DEF Previous
    <3> QED
      BY <2>1, <2>2, <3>1, <3>2
  <2> QED
    BY <2>3, <2>4
<1> QED
  BY <1>1, <1>4, <1>5 DEF PreviousOK

LEMMA FlushContinues ==
  ASSUME NEW dd, NEW w, NEW bs, NEW h, NEW k, NEW b, NEW r, NEW cs,
         Flushing(dd, w, bs, h, k, b, r, cs)
  PROVE  Continues(r, cs)
<1>1. Len(r.columns) = Len(w.columns) /\ r.times # << >> /\ r.times[1] = Last(w.times)
      /\ Len(w.columns) \in Nat
  BY FlushFacts
<1>2. TimesOK(w) /\ FileOK(bs) /\ Continues(w, bs) /\ w.times # << >>
      /\ b.end = Last(w.times) /\ b.signals = Len(w.columns) /\ Longer(cs, bs, b)
  BY DEF Flushing, Recording, Written
<1>3. w.times[1] <= Last(w.times) /\ w.times[1] \in Nat /\ Last(w.times) \in Nat
  BY <1>2, TimesSpan DEF Spans
<1>4. /\ \A i \in 1 .. Len(bs) : cs[i] = bs[i]
      /\ \A i \in 1 .. Len(cs) : i \in 1 .. Len(bs) \/ i = Len(bs) + 1
      /\ cs[Len(bs) + 1] = b
  BY <1>2, RangedAppend DEF Grown
<1>5. ASSUME NEW i \in 1 .. Len(cs)
      PROVE  cs[i].signals <= Len(w.columns) /\ cs[i].end <= Last(w.times)
  <2>1. CASE i \in 1 .. Len(bs)
    <3>1. bs[i].signals <= Len(w.columns) /\ bs[i].end <= w.times[1]
      BY <1>2, <2>1 DEF Continues
    <3>2. bs[i].end \in Nat
      BY <1>2, <2>1 DEF FileOK, Valid, Ranged
    <3> QED
      BY <1>3, <1>4, <2>1, <3>1, <3>2
  <2>2. CASE i = Len(bs) + 1
    BY <1>1, <1>2, <1>3, <1>4, <2>2
  <2> QED
    BY <1>4, <2>1, <2>2
<1> QED
  BY <1>1, <1>5 DEF Continues

LEMMA FlushHistory ==
  ASSUME NEW dd, NEW w, NEW bs, NEW h, NEW k, NEW b, NEW r, NEW cs,
         Flushing(dd, w, bs, h, k, b, r, cs)
  PROVE  HistoryOK(r, h, Len(h))
<1>1. r.times # << >> /\ Last(r.times) = Last(w.times)
  BY FlushFacts
<1>2. HistoryOK(w, h, k)
  BY DEF Flushing, Recording
<1>3. h \in Seq(Emissions) /\ Len(h) \in Nat
  BY <1>2 DEF HistoryOK
<1> QED
  BY <1>1, <1>2, <1>3 DEF HistoryOK

LEMMA NothingMore ==
  ASSUME NEW T, NEW q, q \in Seq(T)
  PROVE  q = q \o << >>
<1>1. q \o << >> = q
  OBVIOUS
<1> QED
  BY <1>1

LEMMA FlushReading ==
  ASSUME NEW dd, NEW w, NEW bs, NEW h, NEW k, NEW b, NEW r, NEW cs,
         Flushing(dd, w, bs, h, k, b, r, cs)
  PROVE  ReadingOK(dd, r, cs, h, Len(h))
<1>1. /\ Len(r.columns) = Len(w.columns)
      /\ \A s \in 1 .. Len(w.columns) :
           w.columns[s] \in Columns /\ r.columns[s] = Restart(w.columns[s])
  BY FlushFacts
<1>2. /\ TimesOK(w) /\ ColumnsOK(w) /\ FileOK(bs) /\ HistoryOK(w, h, k) /\ ReadingOK(dd, w, bs, h, k)
      /\ Written(b, w) /\ Longer(cs, bs, b) /\ Recording(dd, w, bs, h, k) /\ w.times # << >>
  BY DEF Flushing, Recording
<1>3. FileOK(cs)
  BY <1>2, FileGrows
<1>4. Sounds(Ranged(cs)) /\ bs \in Seq(Ranged(cs)) /\ b \in Ranged(cs) /\ cs = Append(bs, b)
  <2>1. Grown(cs, bs, b) /\ cs = Append(bs, b)
    BY <1>2, RangedAppend DEF Longer
  <2> QED
    BY <1>3, <2>1, FileSounds DEF Grown
<1>5. SubSeq(h, 1, Len(h)) = h
  BY <1>2, WholeSeq DEF HistoryOK
<1>6. ASSUME NEW s \in Signals
      PROVE  /\ Recorded(cs, s) = Recorded(bs, s) \o OfSignal(s, Full(b, s))
             /\ Recorded(bs, s) \in Seq(Emissions) /\ Recorded(cs, s) \in Seq(Emissions)
             /\ Full(b, s) = IF s \in 1 .. Len(w.columns) THEN Holds(w.columns[s], w.times) ELSE << >>
  <2>1. Recorded(cs, s) = Recorded(bs, s) \o OfSignal(s, Full(b, s))
    BY <1>4, RecordedAppend
  <2>2. Recorded(bs, s) \in Seq(Emissions)
    BY <1>4, RecordedAppend
  <2>3. cs \in Seq(Ranged(cs))
    BY <1>3 DEF FileOK
  <2>4. Recorded(cs, s) \in Seq(Emissions)
    BY <1>4, <2>3, RecordedAppend
  <2>5. Full(b, s) = IF s \in 1 .. Len(w.columns) THEN Holds(w.columns[s], w.times) ELSE << >>
    BY <1>2, WrittenHolds
  <2> QED
    BY <2>1, <2>2, <2>4, <2>5
<1>7. \A s \in Signals : OfSignal(s, << >>) = << >>
  BY TaggedAppend, SignalsType
<1>8. ASSUME NEW s \in Signals, s \in 1 .. Len(r.columns)
      PROVE  LET c == r.columns[s] IN
             /\ WorthOf(dd, s, OwnOf(SubSeq(h, 1, Len(h)), s)) = Recorded(cs, s)
             /\ WorthOf(dd, s, OwnOf(h, s)) = Recorded(cs, s) \o OfSignal(s, Holds(c, r.times))
             /\ c.emitted <=> OwnOf(h, s) # << >>
             /\ c.last = LastCode(OwnOf(h, s), s)
  <2> DEFINE c == r.columns[s]
             v == w.columns[s]
  <2>1. /\ WorthOf(dd, s, OwnOf(h, s)) = Recorded(bs, s) \o OfSignal(s, Holds(v, w.times))
        /\ v.emitted <=> OwnOf(h, s) # << >>
        /\ v.last = LastCode(OwnOf(h, s), s)
    BY <1>1, <1>2, <1>8 DEF ReadingOK
  <2>2. Full(b, s) = Holds(v, w.times)
    BY <1>1, <1>6, <1>8
  <2>3. WorthOf(dd, s, OwnOf(h, s)) = Recorded(cs, s)
    BY <1>6, <2>1, <2>2
  <2>4. v \in Columns /\ c = Restart(v)
    BY <1>1, <1>8
  <2>5. c \in Columns /\ c.emitted = v.emitted /\ c.last = v.last /\ c.entries = << >>
    BY <2>4, RestartType
  <2>6. OfSignal(s, Holds(c, r.times)) = << >>
    BY <1>7, <2>5, NoneHeld
  <2>7. Recorded(cs, s) = Recorded(cs, s) \o << >>
    BY <1>6, NothingMore
  <2> QED
    BY <1>5, <2>1, <2>3, <2>5, <2>6, <2>7
<1>9. ASSUME NEW s \in Signals, s \notin 1 .. Len(r.columns)
      PROVE  OwnOf(h, s) = << >> /\ OwnOf(SubSeq(h, 1, Len(h)), s) = << >> /\ Recorded(cs, s) = << >>
  <2>1. OwnOf(h, s) = << >> /\ Recorded(bs, s) = << >>
    BY <1>1, <1>2, <1>9 DEF ReadingOK
  <2>2. Full(b, s) = << >>
    BY <1>1, <1>6, <1>9
  <2>3. Recorded(cs, s) = << >> \o << >>
    BY <1>6, <1>7, <2>1, <2>2
  <2>4. << >> \in Seq({}) /\ << >> = << >> \o << >>
    BY EmptySeq, NothingMore
  <2> QED
    BY <1>5, <2>1, <2>3, <2>4
<1> QED
  BY <1>8, <1>9 DEF ReadingOK

\* The invariant is kept when a block is written.
LEMMA FlushKeeps ==
  ASSUME NEW dd, NEW w, NEW bs, NEW h, NEW k, NEW b, NEW r, NEW cs,
         Recording(dd, w, bs, h, k), w.progress, b = Encode(w), r = Restarted(w, Len(bs) + 1),
         cs = Append(bs, b)
  PROVE  /\ Recording(dd, r, cs, h, Len(h)) /\ ~r.progress /\ r.frames = << >> /\ r.times # << >>
         /\ Len(r.columns) = Len(w.columns)
<1>1. TimesOK(w) /\ Shape(w) /\ w.times # << >> /\ bs \in Seq(Ranged(bs))
  BY DEF Recording, TimesOK, FileOK
<1>2. Written(b, w) /\ Emptied(r, w, b, Len(bs) + 1) /\ Longer(cs, bs, b)
  BY <1>1, EncodeFields, RestartedFields DEF Longer
<1>3. Flushing(dd, w, bs, h, k, b, r, cs)
  BY <1>1, <1>2 DEF Flushing
<1>4. Shape(r) /\ r.frames = << >> /\ r.progress = FALSE
  BY <1>2 DEF Emptied
<1>5. FramesOK(r, cs)
  <2>1. DOMAIN << >> = {}
    BY EmptySeq
  <2> QED
    BY <1>4, <2>1 DEF FramesOK
<1>6. TimesOK(r) /\ Len(r.columns) = Len(w.columns) /\ r.times # << >>
  BY <1>3, FlushFacts
<1>7. FileOK(cs)
  BY <1>1, <1>2, FileGrows
<1>8. /\ ColumnsOK(r) /\ PreviousOK(r, cs) /\ Continues(r, cs) /\ HistoryOK(r, h, Len(h))
      /\ ReadingOK(dd, r, cs, h, Len(h))
  BY <1>3, FlushColumns, FlushPrevious, FlushContinues, FlushHistory, FlushReading
<1> QED
  BY <1>4, <1>5, <1>6, <1>7, <1>8 DEF Recording

\* Nothing to write: what was emitted since the last block repeats what is there.
LEMMA IdleKeeps ==
  ASSUME NEW dd, NEW w, NEW bs, NEW h, NEW k, Recording(dd, w, bs, h, k), ~w.progress
  PROVE  Recording(dd, w, bs, h, Len(h))
<1>1. /\ Shape(w) /\ TimesOK(w) /\ ColumnsOK(w) /\ FramesOK(w, bs) /\ PreviousOK(w, bs)
      /\ FileOK(bs) /\ Continues(w, bs) /\ HistoryOK(w, h, k) /\ ReadingOK(dd, w, bs, h, k)
  BY DEF Recording
<1>2. h \in Seq(Emissions) /\ Len(h) \in Nat
  BY <1>1 DEF HistoryOK
<1>3. HistoryOK(w, h, Len(h))
  BY <1>1, <1>2 DEF HistoryOK
<1>4. SubSeq(h, 1, Len(h)) = h
  BY <1>2, WholeSeq
<1>5. ASSUME NEW s \in Signals, s \in 1 .. Len(w.columns)
      PROVE  WorthOf(dd, s, OwnOf(h, s)) = Recorded(bs, s)
  <2> DEFINE c == w.columns[s]
  <2>1. c \in Columns /\ c.entries = << >>
    BY <1>1, <1>5, ElementOfSeq DEF ColumnsOK
  <2>2. OfSignal(s, Holds(c, w.times)) = << >>
    BY <2>1, NoneHeld, TaggedAppend, SignalsType
  <2>3. WorthOf(dd, s, OwnOf(h, s)) = Recorded(bs, s) \o OfSignal(s, Holds(c, w.times))
    BY <1>1, <1>5 DEF ReadingOK
  <2>4. Recorded(bs, s) \in Seq(Emissions)
    BY <1>1, FileSounds, RecordedAppend
  <2>5. Recorded(bs, s) = Recorded(bs, s) \o << >>
    BY <2>4, NothingMore
  <2> QED
    BY <2>2, <2>3, <2>5
<1>6. ReadingOK(dd, w, bs, h, Len(h))
  BY <1>1, <1>4, <1>5 DEF ReadingOK
<1> QED
  BY <1>1, <1>3, <1>6 DEF Recording

\* A signal is added.
Adds(r, w) == r = [w EXCEPT !.columns = Append(@, Column(Declared[Len(w.columns) + 1]))]

LEMMA ColumnType ==
  ASSUME NEW s, s \in Signals
  PROVE  /\ Column(Declared[s]) \in Columns /\ Column(Declared[s]).kind = Kind(s)
         /\ Column(Declared[s]).event = Declared[s].event /\ Column(Declared[s]).emitted = FALSE
         /\ Column(Declared[s]).last = DefaultCode(Kind(s)) /\ Column(Declared[s]).entries = << >>
         /\ Column(Declared[s]).index = 0 /\ Column(Declared[s]).code = NoCode
<1>1. Declared[s].kind \in Kinds /\ Declared[s].event \in BOOLEAN /\ Kind(s) = Declared[s].kind
  <2>1. Declared[s] \in [kind : [form : {"bit", "bits", "bytes"}, states : {2, 4, 9}], event : BOOLEAN]
    BY ConstantsOK, ElementOfSeq DEF ConstantsOK, Signals
  <2> QED
    BY <2>1 DEF Kinds, Kind
<1>2. DefaultCode(Kind(s)) \in Int /\ NoCode \in Nat /\ << >> \in Seq(Steps)
  BY EmptySeq DEF DefaultCode, NoCode
<1> QED
  BY <1>1, <1>2 DEF Column, Columns

LEMMA AddsFields ==
  ASSUME NEW w, NEW r, Shape(w), Adds(r, w), Len(w.columns) + 1 \in Signals
  PROVE  /\ Shape(r) /\ r.columns = Append(w.columns, Column(Declared[Len(w.columns) + 1]))
         /\ r.frames = w.frames /\ r.times = w.times /\ r.usedTime = w.usedTime
         /\ r.progress = w.progress /\ r.previous = w.previous
<1> DEFINE cs == Append(w.columns, Column(Declared[Len(w.columns) + 1]))
<1>1. w.columns \in Seq(Columns)
  BY DEF Shape
<1>2. cs \in Seq(Columns)
  BY <1>1, ColumnType, AppendOne
<1>3. r = [w EXCEPT !.columns = cs]
  BY DEF Adds
<1> HIDE DEF cs
<1>4. /\ r.columns = cs /\ r.frames = w.frames /\ r.times = w.times /\ r.usedTime = w.usedTime
      /\ r.progress = w.progress /\ r.previous = w.previous
  BY <1>3 DEF Shape
<1>5. r \in [columns : Seq(Columns), frames : {w.frames}, times : Seq(Instants),
             usedTime : BOOLEAN, progress : BOOLEAN, records : Nat, previous : {w.previous}]
  BY <1>2, <1>3 DEF Shape
<1>6. Shape(r)
  BY <1>4, <1>5 DEF Shape
<1> QED
  BY <1>4, <1>6 DEF cs

LEMMA AddKeeps ==
  ASSUME NEW dd, NEW w, NEW bs, NEW h, NEW r,
         Recording(dd, w, bs, h, Len(h)), ~w.progress, Len(w.columns) < Len(Declared), Adds(r, w)
  PROVE  Recording(dd, r, bs, h, Len(h))
<1> DEFINE n == Len(w.columns)
           x == Column(Declared[n + 1])
<1>1. /\ Shape(w) /\ TimesOK(w) /\ ColumnsOK(w) /\ FramesOK(w, bs) /\ PreviousOK(w, bs)
      /\ FileOK(bs) /\ Continues(w, bs) /\ HistoryOK(w, h, Len(h)) /\ ReadingOK(dd, w, bs, h, Len(h))
  BY DEF Recording
<1>2. n \in Nat /\ Len(Declared) \in Nat /\ n + 1 \in Signals /\ w.columns \in Seq(Columns)
      /\ \A s \in Signals : s \in Nat /\ s >= 1
  <2>1. n \in Nat /\ Len(Declared) \in Nat /\ w.columns \in Seq(Columns)
    BY <1>1, SignalsType DEF ColumnsOK
  <2> QED
    BY <2>1, SignalsType DEF Signals
<1>3. /\ x \in Columns /\ x.kind = Kind(n + 1)
      /\ x.event = Declared[n + 1].event /\ x.emitted = FALSE
      /\ x.last = DefaultCode(Kind(n + 1)) /\ x.entries = << >> /\ x.index = 0 /\ x.code = NoCode
  BY <1>2, ColumnType
<1>4. /\ Shape(r) /\ r.columns = Append(w.columns, x)
      /\ r.frames = w.frames /\ r.times = w.times /\ r.usedTime = w.usedTime
      /\ r.progress = w.progress /\ r.previous = w.previous
  BY <1>1, <1>2, AddsFields
<1> HIDE DEF x, n
<1>5. /\ r.columns \in Seq(Columns) /\ Len(r.columns) = n + 1 /\ r.columns[n + 1] = x
      /\ \A s \in 1 .. n : r.columns[s] = w.columns[s]
      /\ \A s \in 1 .. n + 1 : s \in 1 .. n \/ s = n + 1
  BY <1>2, <1>3, <1>4, AppendOne DEF n
<1>6. TimesOK(r) /\ Reach(r) = Reach(w) /\ Reach(r) \in Nat
  <2>1. TimesOK(r) /\ Reach(r) = Reach(w)
    BY <1>1, <1>4 DEF TimesOK, Reach
  <2> QED
    BY <1>1, <2>1, ReachType
<1>7. Holds(x, r.times) = << >> /\ Reads(x) = << >>
  BY <1>3, NoneHeld
<1>8. ColumnsOK(r)
  <2>1. Follows(x, Reach(r)) /\ Climbs(Holds(x, r.times))
    <3>1. << >> \in Seq(Reaching(Reach(r))) /\ Len(<< >>) = 0 /\ Climbs(<< >>)
      BY EmptySeq DEF Climbs
    <3>2. Decoded(x.kind, x.entries) = << >>
      BY <1>7 DEF Reads
    <3>3. Legible(x.kind, x.entries)
      BY <3>1, <3>2 DEF Legible
    <3> QED
      BY <1>3, <1>7, <3>1, <3>3 DEF Follows
  <2>2. ASSUME NEW s \in 1 .. Len(r.columns), NEW c, c = r.columns[s]
        PROVE  /\ c.kind = Kind(s) /\ c.event = Declared[s].event
               /\ Follows(c, Reach(r)) /\ Climbs(Holds(c, r.times))
               /\ c.entries # << >> => Group(s) \in DOMAIN r.frames /\ r.progress
    <3>1. CASE s \in 1 .. n
      <4>1. c = w.columns[s]
        BY <1>5, <2>2, <3>1
      <4> QED
        BY <1>1, <1>4, <1>6, <3>1, <4>1 DEF ColumnsOK, n
    <3>2. CASE s = n + 1
      <4>1. c = x
        BY <1>5, <2>2, <3>2
      <4> QED
        BY <1>3, <2>1, <3>2, <4>1
    <3> QED
      BY <1>5, <3>1, <3>2
  <2>3. Len(r.columns) <= Len(Declared)
    BY <1>2, <1>5 DEF n
  <2> QED
    BY <1>5, <2>2, <2>3 DEF ColumnsOK
<1>9. FramesOK(r, bs)
  <2>1. w.frames = << >>
    BY <1>1 DEF FramesOK
  <2>2. DOMAIN << >> = {}
    BY EmptySeq
  <2> QED
    BY <1>4, <2>1, <2>2 DEF FramesOK
<1>10. PreviousOK(r, bs)
  <2> DEFINE m == n + 1
  <2>0. m \in Nat /\ n <= m
    BY <1>2
  <2> HIDE DEF m
  <2>a. Groups(n) \subseteq Groups(m)
    BY ONLY <1>2, <2>0, GroupsGrow
  <2>1. Groups(n) \subseteq Groups(n + 1)
    BY <2>a DEF m
  <2>2. DOMAIN w.previous \subseteq Groups(n)
    BY <1>1 DEF PreviousOK, n
  <2>3. \A g \in Groups(Len(Declared)) : Previous(w, g) = LastDirty(bs, Len(bs) + 1, g)
    BY <1>1 DEF PreviousOK
  <2> QED
    BY <1>4, <1>5, <2>1, <2>2, <2>3 DEF PreviousOK, Previous
<1>11. Continues(r, bs)
  <2>1. ASSUME NEW i \in 1 .. Len(bs)
        PROVE  bs[i].signals <= n + 1 /\ w.times # << >> /\ bs[i].end <= w.times[1]
    <3>1. bs[i].signals <= n /\ w.times # << >> /\ bs[i].end <= w.times[1]
      BY <1>1 DEF Continues, n
    <3>2. bs[i].signals \in Nat
      BY <1>1 DEF FileOK, Valid, Ranged
    <3> QED
      BY <1>2, <3>1, <3>2
  <2> QED
    BY <1>4, <1>5, <2>1 DEF Continues
<1>12. HistoryOK(r, h, Len(h))
  BY <1>1, <1>4 DEF HistoryOK
<1>13. ReadingOK(dd, r, bs, h, Len(h))
  <2>1. ASSUME NEW s \in Signals, s \in 1 .. Len(r.columns)
        PROVE  LET c == r.columns[s] IN
               /\ WorthOf(dd, s, OwnOf(SubSeq(h, 1, Len(h)), s)) = Recorded(bs, s)
               /\ WorthOf(dd, s, OwnOf(h, s)) = Recorded(bs, s) \o OfSignal(s, Holds(c, r.times))
               /\ c.emitted <=> OwnOf(h, s) # << >>
               /\ c.last = LastCode(OwnOf(h, s), s)
    <3>1. CASE s \in 1 .. n
      <4>1. r.columns[s] = w.columns[s] /\ s \in 1 .. Len(w.columns)
        BY <1>5, <3>1 DEF n
      <4> QED
        BY <1>1, <1>4, <4>1 DEF ReadingOK
    <3>2. CASE s = n + 1
      <4>1. s \notin 1 .. Len(w.columns) /\ r.columns[s] = x
        BY <1>2, <1>5, <3>2 DEF n
      <4>2. OwnOf(h, s) = << >> /\ OwnOf(SubSeq(h, 1, Len(h)), s) = << >> /\ Recorded(bs, s) = << >>
        BY <1>1, <4>1 DEF ReadingOK
      <4>3. WorthOf(dd, s, << >>) = << >>
        BY WorthNone
      <4>4. OfSignal(s, Holds(x, r.times)) = << >>
        BY <1>2, <1>7, TaggedAppend
      <4>5. << >> \in Seq({}) /\ << >> = << >> \o << >>
        BY EmptySeq, NothingMore
      <4>6. x.last = LastCode(<< >>, s) /\ ~x.emitted
        BY <1>3, <3>2 DEF LastCode
      <4> QED
        BY <4>1, <4>2, <4>3, <4>4, <4>5, <4>6
    <3> QED
      BY <1>5, <2>1, <3>1, <3>2
  <2>2. ASSUME NEW s \in Signals, s \notin 1 .. Len(r.columns)
        PROVE  OwnOf(h, s) = << >> /\ OwnOf(SubSeq(h, 1, Len(h)), s) = << >> /\ Recorded(bs, s) = << >>
    <3>1. s \notin 1 .. Len(w.columns)
      BY <1>2, <1>5, <2>2 DEF n
    <3> QED
      BY <1>1, <3>1 DEF ReadingOK
  <2> QED
    BY <2>1, <2>2 DEF ReadingOK
<1> QED
  BY <1>1, <1>4, <1>6, <1>8, <1>9, <1>10, <1>11, <1>12, <1>13 DEF Recording

-----------------------------------------------------------------------------
(* The recorder and the file, in every state. *)

IInv == Recording(deduplicate, wave, blocks, history, kept)

LEMMA InitInv ==
  ASSUME Init
  PROVE  IInv
<1>1. /\ wave.columns = << >> /\ wave.frames = << >> /\ wave.times = << >>
      /\ wave.usedTime = FALSE /\ wave.progress = FALSE /\ wave.previous = << >>
      /\ blocks = << >> /\ history = << >> /\ kept = 0
  BY DEF Init
<1>2. /\ << >> \in Seq(Columns) /\ << >> \in Seq(Instants) /\ << >> \in Seq(Emissions)
      /\ Len(<< >>) = 0 /\ DOMAIN << >> = {} /\ << >> \in Seq({})
  BY EmptySeq
<1>3. Shape(wave)
  BY <1>2 DEF Init, Shape
<1>4. TimesOK(wave)
  BY <1>1, <1>2 DEF TimesOK
<1>5. ColumnsOK(wave)
  BY <1>1, <1>2, SignalsType DEF ColumnsOK
<1>6. FramesOK(wave, blocks)
  BY <1>1, <1>2 DEF FramesOK
<1>7. PreviousOK(wave, blocks)
  <2>1. ASSUME NEW g PROVE Previous(wave, g) = LastDirty(blocks, Len(blocks) + 1, g)
    BY <1>1, <1>2 DEF Previous, LastDirty
  <2> QED
    BY <1>1, <1>2, <2>1 DEF PreviousOK
<1>8. FileOK(blocks)
  <2>1. Ranged(blocks) = {}
    BY <1>1, <1>2 DEF Ranged
  <2> QED
    BY <1>1, <1>2, <2>1 DEF FileOK, Ordered, Linked, Framed
<1>9. Continues(wave, blocks)
  BY <1>1, <1>2 DEF Continues
<1>10. HistoryOK(wave, history, kept)
  BY <1>1, <1>2 DEF HistoryOK, Climbs
<1>11. ReadingOK(deduplicate, wave, blocks, history, kept)
  <2>1. ASSUME NEW s \in Signals
        PROVE  /\ s \notin 1 .. Len(wave.columns) /\ OwnOf(history, s) = << >>
               /\ OwnOf(SubSeq(history, 1, kept), s) = << >> /\ Recorded(blocks, s) = << >>
    <3>1. SubSeq(<< >>, 1, 0) = << >>
      BY <1>2, WholeSeq
    <3>2. OwnOf(<< >>, s) = << >>
      BY FilterEmpty DEF OwnOf
    <3>3. s \notin 1 .. 0
      BY SignalsType
    <3> QED
      BY <1>1, <1>2, <3>1, <3>2, <3>3, RecordedNone
  <2> QED
    BY <2>1 DEF ReadingOK
<1> QED
  BY <1>3, <1>4, <1>5, <1>6, <1>7, <1>8, <1>9, <1>10, <1>11 DEF Recording, IInv

LEMMA TimesAre == \A t \in 0 .. MaxTime : t \in Instants
BY ConstantsOK DEF ConstantsOK, Instants

LEMMA KeepsKept ==
  ASSUME NEW dd, NEW w, NEW bs, NEW h, NEW k, Recording(dd, w, bs, h, k)
  PROVE  /\ h \in Seq(Emissions) /\ Len(h) \in Nat /\ w.columns \in Seq(Columns)
         /\ Len(w.columns) \in Nat /\ DOMAIN w.columns = 1 .. Len(w.columns)
         /\ bs \in Seq(Ranged(bs)) /\ Len(bs) \in Nat
<1>1. h \in Seq(Emissions) /\ w.columns \in Seq(Columns) /\ bs \in Seq(Ranged(bs))
  BY DEF Recording, HistoryOK, Shape, FileOK
<1> QED
  BY <1>1, LenProperties

\* Backend::flush_waves: whatever is left to write is in the file after it.
Flushed(w, bs, r, cs) ==
  IF w.progress THEN r = Restarted(w, Len(bs) + 1) /\ cs = Append(bs, Encode(w))
  ELSE r = w /\ cs = bs

LEMMA FlushedKeeps ==
  ASSUME NEW dd, NEW w, NEW bs, NEW h, NEW k, NEW r, NEW cs,
         Recording(dd, w, bs, h, k), Flushed(w, bs, r, cs)
  PROVE  Recording(dd, r, cs, h, Len(h)) /\ ~r.progress /\ Len(r.columns) = Len(w.columns)
<1>1. CASE w.progress
  <2> DEFINE b == Encode(w)
  <2>1. r = Restarted(w, Len(bs) + 1) /\ cs = Append(bs, b)
    BY <1>1 DEF Flushed
  <2>2. b = Encode(w)
    OBVIOUS
  <2> HIDE DEF b
  <2> QED
    BY <1>1, <2>1, <2>2, FlushKeeps
<1>2. CASE ~w.progress
  BY <1>2, IdleKeeps DEF Flushed
<1> QED
  BY <1>1, <1>2

LEMMA AddSignalInv ==
  ASSUME IInv, AddSignal
  PROVE  IInv'
<1> DEFINE w == IF wave.progress THEN Restarted(wave, Len(blocks) + 1) ELSE wave
           cs == IF wave.progress THEN Append(blocks, Encode(wave)) ELSE blocks
<1>1. Flushed(wave, blocks, w, cs)
  BY DEF Flushed
<1>2. /\ Len(w.columns) < Len(Declared) /\ Adds(wave', w) /\ blocks' = cs
      /\ kept' = Len(history) /\ history' = history /\ deduplicate' = deduplicate
  BY DEF AddSignal, Adds
<1> HIDE DEF w, cs
<1>3. Recording(deduplicate, w, cs, history, Len(history)) /\ ~w.progress
  BY <1>1, FlushedKeeps DEF IInv
<1>4. Recording(deduplicate, wave', cs, history, Len(history))
  BY <1>2, <1>3, AddKeeps
<1> QED
  BY <1>2, <1>4 DEF IInv

LEMMA AdvanceInv ==
  ASSUME IInv, NEW t \in 0 .. MaxTime, Advance(t)
  PROVE  IInv'
<1>1. /\ Later(wave, t) /\ Advances(wave', wave, t) /\ t \in Instants
      /\ blocks' = blocks /\ history' = history /\ kept' = kept /\ deduplicate' = deduplicate
  BY TimesAre DEF Advance, Advances
<1>2. Recording(deduplicate, wave', blocks, history, kept)
  BY <1>1, AdvanceKeeps DEF IInv
<1> QED
  BY <1>1, <1>2 DEF IInv

LEMMA EmittedKeeps ==
  ASSUME IInv, NEW s, NEW t, NEW code, s \in DOMAIN wave.columns, t \in 0 .. MaxTime,
         code \in Codes(wave.columns[s].kind), Later(wave, t)
  PROVE  Recording(deduplicate, Emitted(wave, s, t, code), blocks,
           Append(history, [time |-> t, signal |-> s, code |-> code]), kept)
<1> DEFINE a == AdvanceTo(wave, t)
           r == Captured(a, s, code)
           e == [time |-> t, signal |-> s, code |-> code]
<1>1. Advances(a, wave, t) /\ t \in Instants
  BY TimesAre DEF Advances
<1>2. r = Captured(a, s, code)
  OBVIOUS
<1>3. Emission(e, t, s, code)
  BY DEF Emission
<1>4. Emitted(wave, s, t, code) = IF Repeats(a.columns[s], code) THEN a ELSE r
  BY DEF Emitted
<1> HIDE DEF a, r, e
<1>5. Recording(deduplicate, a, blocks, history, kept) /\ a.times # << >> /\ Last(a.times) = t
      /\ a.columns = wave.columns
  BY <1>1, AdvanceKeeps DEF IInv
<1>6. s \in 1 .. Len(a.columns) /\ code \in Codes(a.columns[s].kind) /\ Emission(e, Last(a.times), s, code)
  BY <1>3, <1>5, KeepsKept
<1>7. CASE Repeats(a.columns[s], code)
  <2>1. Recording(deduplicate, a, blocks, Append(history, e), kept)
    BY <1>5, <1>6, <1>7, RepeatKeeps DEF Repeats
  <2> QED
    BY <1>4, <1>7, <2>1 DEF e
<1>8. CASE ~Repeats(a.columns[s], code)
  <2>1. Capturing(deduplicate, a, blocks, history, kept, s, code, r)
    BY <1>2, <1>5, <1>6, <1>8 DEF Capturing, Repeats
  <2>2. Recording(deduplicate, r, blocks, Append(history, e), kept)
    BY <1>6, <2>1, CaptureKeeps
  <2> QED
    BY <1>4, <1>8, <2>2 DEF e
<1> QED
  BY <1>7, <1>8

LEMMA EmitInv ==
  ASSUME IInv, NEW s, NEW t, NEW code, s \in DOMAIN wave.columns, t \in 0 .. MaxTime,
         code \in Codes(wave.columns[s].kind), Emit(s, t, code)
  PROVE  IInv'
<1> DEFINE w == Emitted(wave, s, t, code)
           h == Append(history, [time |-> t, signal |-> s, code |-> code])
<1>1. Recording(deduplicate, w, blocks, h, kept)
  BY EmittedKeeps DEF Emit
<1>2. deduplicate' = deduplicate
  BY DEF Emit
<1>3. CASE dumping
  <2>1. history' = h
    BY <1>3 DEF Emit
  <2>2. CASE w.records >= RecordLimit
    <3>1. Flushed(w, blocks, wave', blocks') /\ kept' = Len(h)
      BY <1>3, <2>2 DEF Emit, FlushWaves, Flushed
    <3> HIDE DEF w, h
    <3>2. Recording(deduplicate, wave', blocks', h, Len(h))
      BY <1>1, <3>1, FlushedKeeps
    <3> QED
      BY <1>2, <2>1, <3>1, <3>2 DEF IInv
  <2>3. CASE ~(w.records >= RecordLimit)
    <3>1. wave' = w /\ blocks' = blocks /\ kept' = kept
      BY <1>3, <2>3 DEF Emit
    <3> HIDE DEF w, h
    <3> QED
      BY <1>1, <1>2, <2>1, <3>1 DEF IInv
  <2> QED
    BY <2>2, <2>3
<1>4. CASE ~dumping
  <2>1. UNCHANGED <<wave, blocks, history, kept>>
    BY <1>4 DEF Emit
  <2> QED
    BY <1>2, <2>1 DEF IInv
<1> QED
  BY <1>3, <1>4

LEMMA FlushInv ==
  ASSUME IInv, Flush
  PROVE  IInv'
<1>1. /\ Flushed(wave, blocks, wave', blocks') /\ kept' = Len(history)
      /\ history' = history /\ deduplicate' = deduplicate
  BY DEF Flush, FlushWaves, Flushed
<1>2. Recording(deduplicate, wave', blocks', history, Len(history))
  BY <1>1, FlushedKeeps DEF IInv
<1> QED
  BY <1>1, <1>2 DEF IInv

\* The inductive invariant: the recorder continues the file, and the two
\* together hold what is worth recording of what was emitted.
THEOREM Inductive == Spec => []IInv
<1>1. Init => IInv
  BY InitInv
<1>2. IInv /\ [Next]_vars => IInv'
  <2> SUFFICES ASSUME IInv, [Next]_vars
               PROVE  IInv'
    OBVIOUS
  <2>1. CASE AddSignal
    BY <2>1, AddSignalInv
  <2>2. CASE \E t \in 0 .. MaxTime : Advance(t)
    BY <2>2, AdvanceInv
  <2>3. CASE \E s \in DOMAIN wave.columns, t \in 0 .. MaxTime :
               \E code \in Codes(wave.columns[s].kind) : Emit(s, t, code)
    BY <2>3, EmitInv
  <2>4. CASE \E enabled \in BOOLEAN : Dump(enabled)
    BY <2>4 DEF Dump, IInv
  <2>5. CASE Flush
    BY <2>5, FlushInv
  <2>6. CASE UNCHANGED vars
    BY <2>6 DEF vars, IInv
  <2> QED
    BY <2>1, <2>2, <2>3, <2>4, <2>5, <2>6 DEF Next
<1> QED
  BY <1>1, <1>2, PTL DEF Spec

-----------------------------------------------------------------------------
(* What the invariant says to a reader. *)

Prefix == SubSeq(history, 1, kept)

LEMMA PrefixType ==
  ASSUME IInv
  PROVE  /\ Prefix \in Seq(Emissions) /\ Len(Prefix) = kept /\ kept \in Nat /\ Climbs(Prefix)
         /\ \A i \in 1 .. kept : Prefix[i] = history[i]
<1>1. history \in Seq(Emissions) /\ Climbs(history) /\ kept \in 0 .. Len(history)
  BY DEF IInv, Recording, HistoryOK
<1>2. /\ Len(history) \in Nat /\ DOMAIN history = 1 .. Len(history)
      /\ \A i \in 1 .. Len(history) : history[i] \in Emissions
  BY <1>1, LenProperties, ElementOfSeq
<1>3. /\ Prefix \in Seq(Emissions) /\ Len(Prefix) = kept /\ kept \in Nat
      /\ \A i \in 1 .. kept : Prefix[i] = history[i]
  BY <1>1, <1>2 DEF Prefix
<1>4. Climbs(Prefix)
  <2>1. DOMAIN Prefix = 1 .. kept
    BY <1>3, LenProperties
  <2>2. \A i \in 1 .. kept : i \in DOMAIN history
    BY <1>1, <1>2
  <2> QED
    BY <1>1, <1>3, <2>1, <2>2 DEF Climbs
<1> QED
  BY <1>3, <1>4

LEMMA WorthRecorded ==
  ASSUME IInv, NEW s, s \in DOMAIN wave.columns
  PROVE  /\ s \in Signals /\ s \in 1 .. Len(wave.columns)
         /\ Own(s) = OwnOf(Prefix, s) /\ Own(s) \in Seq(Emissions) /\ Climbs(Own(s))
         /\ Worth(s) = WorthOf(deduplicate, s, Own(s)) /\ Worth(s) \in Seq(Emissions)
         /\ Worth(s) = Recorded(blocks, s)
<1>1. s \in Signals /\ s \in 1 .. Len(wave.columns)
  <2>1. DOMAIN wave.columns = 1 .. Len(wave.columns) /\ Len(wave.columns) \in Nat
    BY KeepsKept DEF IInv
  <2>2. Len(wave.columns) <= Len(Declared)
    BY DEF IInv, Recording, ColumnsOK
  <2> QED
    BY <2>1, <2>2, SignalsType DEF Signals
<1>2. Own(s) = OwnOf(Prefix, s) /\ Own(s) \in Seq(Emissions)
  <2>1. Own(s) = Among(Prefix, LAMBDA e : e.signal = s)
    BY DEF Own, Prefix
  <2>2. Among(Prefix, LAMBDA e : e.signal = s) = OwnOf(Prefix, s)
    BY PrefixType, AmongSignal DEF OwnOf
  <2> QED
    BY <2>1, <2>2, PrefixType, OwnType
<1>3. Worth(s) = WorthOf(deduplicate, s, Own(s))
  BY DEF Worth, WorthOf
<1>4. Worth(s) \in Seq(Emissions)
  BY <1>2, <1>3, WorthType
<1>5. Worth(s) = Recorded(blocks, s)
  BY <1>1, <1>2, <1>3 DEF IInv, Recording, ReadingOK, Prefix
<1>6. Climbs(Own(s))
  <2>1. \A e \in Emissions : e.time \in Nat
    BY DEF Emissions
  <2> QED
    BY <1>2, <2>1, PrefixType, FilterClimbs DEF OwnOf
<1> QED
  BY <1>1, <1>2, <1>3, <1>4, <1>5, <1>6

LEMMA ChangesAre ==
  ASSUME IInv, NEW s, NEW a, NEW z, s \in Signals, a \in Nat, z \in Nat
  PROVE  /\ Changes(s, a, z) \in Seq(Read)
         /\ OfSignal(s, Changes(s, a, z)) = Filter(Recorded(blocks, s), Within(Emissions, a, z))
<1> DEFINE T == Ranged(blocks)
<1>1. Sounds(T) /\ blocks \in Seq(T)
  BY FileSounds DEF IInv, Recording
<1> HIDE DEF T
<1>2. Relevant(a, z) = Filter(blocks, Meeting(T, a, z))
  BY <1>1, AmongBlocks DEF Relevant
<1>3. Changes(s, a, z) = Chosen(Filter(blocks, Meeting(T, a, z)), s, a, z)
  BY <1>2 DEF Changes, Chosen
<1> QED
  BY <1>1, <1>3, WindowReads

\* In every window, what is read of a signal is what was worth recording of
\* it (EachReadsBack).
LEMMA EachReads ==
  ASSUME IInv
  PROVE  EachReadsBack
<1> SUFFICES ASSUME NEW s \in DOMAIN wave.columns, NEW w \in Windows
             PROVE  OfSignal(s, Changes(s, w[1], w[2]))
                      = Among(Worth(s), LAMBDA e : InWindow(w[1], w[2], e))
  BY DEF EachReadsBack
<1>1. w[1] \in Nat /\ w[2] \in Nat
  BY ConstantsOK DEF ConstantsOK, Windows
<1>2. s \in Signals /\ Worth(s) \in Seq(Emissions) /\ Worth(s) = Recorded(blocks, s)
  BY WorthRecorded
<1> DEFINE a == w[1]
           z == w[2]
           q == Worth(s)
<1> HIDE DEF a, z, q
<1>3. a \in Nat /\ z \in Nat /\ q \in Seq(Emissions) /\ q = Recorded(blocks, s)
  BY <1>1, <1>2 DEF a, z, q
<1>4. OfSignal(s, Changes(s, a, z)) = Filter(q, Within(Emissions, a, z))
  BY <1>2, <1>3, ChangesAre
<1>5. Among(q, LAMBDA e : InWindow(a, z, e)) = Filter(q, Within(Emissions, a, z))
  BY <1>3, AmongWindow
<1>6. OfSignal(s, Changes(s, a, z)) = Among(q, LAMBDA e : InWindow(a, z, e))
  BY <1>4, <1>5
<1> QED
  BY <1>6 DEF a, z, q

LEMMA LastRecorded ==
  ASSUME IInv, NEW s, NEW t, s \in DOMAIN wave.columns, t \in Nat
  PROVE  LastEmitted(s, t) = LastIn(blocks, Len(blocks), s, t)
<1> DEFINE W == Within(Emissions, 0, t)
           T == Ranged(blocks)
<1>1. Sounds(T) /\ blocks \in Seq(T)
  BY FileSounds DEF IInv, Recording
<1> HIDE DEF T
<1>2. LastIn(blocks, Len(blocks), s, t) = LastCode(Filter(Recorded(blocks, s), W), s)
  BY <1>1, WorthRecorded, LastInIs
<1>3. LastEmitted(s, t) = LastOf(history, kept, s, t)
  BY DEF LastEmitted, LastOf
<1>4. LastOf(history, kept, s, t) = LastOf(Prefix, kept, s, t)
  BY PrefixType, LastOfSame
<1>5. LastOf(Prefix, kept, s, t) = LastCode(Filter(OwnOf(Prefix, s), W), s)
  <2>1. LastOf(Prefix, Len(Prefix), s, t) = LastCode(Filter(OwnOf(Prefix, s), W), s)
    BY PrefixType, LastOfIs
  <2> QED
    BY <2>1, PrefixType
<1>6. LastCode(Filter(Own(s), W), s) = LastCode(Filter(WorthOf(deduplicate, s, Own(s)), W), s)
  BY WorthRecorded, WorthUpTo
<1> QED
  BY <1>2, <1>3, <1>4, <1>5, <1>6, WorthRecorded

\* ValuesReadBack holds of every recording.
THEOREM ValuesAreRead == Spec => []ValuesReadBack
<1>1. IInv => ValuesReadBack
  <2> SUFFICES ASSUME IInv, NEW s \in DOMAIN wave.columns, NEW t \in 0 .. MaxTime
               PROVE  \/ ValueAt(s, t) = LastEmitted(s, t)
                      \/ ValueAt(s, t) = Panic /\ LastEmitted(s, t) = DefaultCode(Kind(s))
    BY DEF ValuesReadBack
  <2>1. s \in Signals /\ t \in Nat
    BY WorthRecorded, TimesAre DEF Instants
  <2>2. LastEmitted(s, t) = LastIn(blocks, Len(blocks), s, t)
    BY <2>1, LastRecorded
  <2> DEFINE T == Ranged(blocks)
  <2>3. Sounds(T) /\ blocks \in Seq(T) /\ Ordered(blocks) /\ Linked(blocks) /\ Framed(blocks)
    BY FileSounds DEF IInv, Recording, FileOK
  <2> HIDE DEF T
  <2> QED
    BY <2>1, <2>2, <2>3, ValueReads
<1> QED
  BY <1>1, Inductive, PTL

LEMMA FileValid ==
  ASSUME NEW i, IInv, i \in DOMAIN blocks
  PROVE  i \in 1 .. Len(blocks) /\ Len(blocks) \in Nat /\ Valid(blocks[i])
<1>1. DOMAIN blocks = 1 .. Len(blocks) /\ Len(blocks) \in Nat
  BY KeepsKept, LenProperties DEF IInv
<1> QED
  BY <1>1 DEF IInv, Recording, FileOK, Ranged

LEMMA BlocksParse ==
  ASSUME IInv
  PROVE  ParseBlocks
<1> SUFFICES ASSUME NEW i \in DOMAIN blocks, NEW b, b = blocks[i]
             PROVE  /\ b.start <= b.end
                    /\ Times(b)[1] = b.start /\ Last(Times(b)) = b.end
                    /\ \A k \in 2..Len(b.times) : b.times[k] > 0
                    /\ DOMAIN b.frames \subseteq Groups(b.signals)
                    /\ i > 1 => blocks[i - 1].end <= b.start /\ blocks[i - 1].signals <= b.signals
                    /\ \A g \in Groups(b.signals) :
                         b.previous[g] = IF DirtyBefore(i, g) = {} THEN NoBlock
                                         ELSE Max(DirtyBefore(i, g))
  BY DEF ParseBlocks
<1>1. i \in 1 .. Len(blocks) /\ Len(blocks) \in Nat /\ Valid(b)
  BY FileValid
<1>2. Ordered(blocks) /\ Linked(blocks)
  BY DEF IInv, Recording, FileOK
<1>3. ASSUME i > 1 PROVE blocks[i - 1].end <= b.start /\ blocks[i - 1].signals <= b.signals
  <2>1. i - 1 \in 1 .. Len(blocks) /\ i - 1 < i
    BY <1>1, <1>3
  <2> QED
    BY <1>1, <1>2, <2>1 DEF Ordered
<1>4. ASSUME NEW g \in Groups(b.signals)
      PROVE  b.previous[g] = IF DirtyBefore(i, g) = {} THEN NoBlock ELSE Max(DirtyBefore(i, g))
  <2>1. b.previous[g] = LastDirty(blocks, i, g)
    BY <1>1, <1>2 DEF Linked
  <2> QED
    BY <2>1 DEF LastDirty, DirtyBefore
<1> QED
  BY <1>1, <1>3, <1>4 DEF Valid

LEMMA BlocksGrouped ==
  ASSUME IInv
  PROVE  GroupsOK
<1> SUFFICES ASSUME NEW i \in DOMAIN blocks, NEW b, b = blocks[i]
             PROVE  /\ \A g \in DOMAIN b.frames : DOMAIN b.frames[g] = Members(g, b.signals)
                    /\ \A s \in DOMAIN b.aliases :
                         /\ Group(s) \in DOMAIN b.frames /\ Group(b.aliases[s]) \in DOMAIN b.frames
                         /\ b.aliases[s] \notin DOMAIN b.aliases
                         /\ Kind(b.aliases[s]) = Kind(s)
                    /\ \A s \in 1..b.signals : Readable(Kind(s), b.columns[s], Times(b))
  BY DEF GroupsOK
<1>1. i \in 1 .. Len(blocks) /\ Valid(b)
  BY FileValid
<1>2. \A g \in DOMAIN b.frames : DOMAIN b.frames[g] = Members(g, b.signals)
  BY <1>1 DEF IInv, Recording, FileOK, Framed
<1>3. ASSUME NEW s \in 1 .. b.signals PROVE Readable(Kind(s), b.columns[s], Times(b))
  <2> DEFINE d == Decoded(Kind(s), b.columns[s])
             n == Len(Times(b))
  <2>1. d \in Seq(Reaching(n)) /\ Legible(Kind(s), b.columns[s])
    BY <1>1 DEF Valid
  <2>2. \A k \in 1 .. Len(d) : /\ d[k].code < d[k].states /\ d[k].code >= 0
                               /\ b.columns[s][k].how = "full" /\ Kind(s).form = "bits"
                                    => Kind(s).states # 2
    BY <2>1 DEF Legible
  <2> SUFFICES \A k \in DOMAIN d : /\ d[k].code < d[k].states /\ d[k].code >= 0
                                   /\ d[k].index < n
                                   /\ b.columns[s][k].how = "full" /\ Kind(s).form = "bits"
                                        => Kind(s).states # 2
    BY DEF Readable
  <2> HIDE DEF d, n
  <2>3. DOMAIN d = 1 .. Len(d) /\ \A k \in 1 .. Len(d) : d[k] \in Reaching(n)
    BY <2>1, LenProperties, ElementOfSeq
  <2> QED
    BY <2>2, <2>3 DEF Reaching
<1>4. ASSUME NEW s \in DOMAIN b.aliases
      PROVE  /\ Group(s) \in DOMAIN b.frames /\ Group(b.aliases[s]) \in DOMAIN b.frames
             /\ b.aliases[s] \notin DOMAIN b.aliases
             /\ Kind(b.aliases[s]) = Kind(s)
  BY <1>1, <1>4 DEF Valid
<1> QED
  BY <1>2, <1>3, <1>4

LEMMA FramesValid ==
  ASSUME IInv
  PROVE  ValidateWaveforms
<1> SUFFICES ASSUME NEW i \in DOMAIN blocks, NEW g \in DOMAIN blocks[i].frames,
                    NEW s \in DOMAIN blocks[i].frames[g]
             PROVE  blocks[i].frames[g][s] = LastBefore(i, s)
  BY DEF ValidateWaveforms
<1>1. i \in 1 .. Len(blocks)
  BY FileValid
<1>2. blocks[i].frames[g][s] = LastIn(blocks, i - 1, s, MaxTime)
  BY <1>1 DEF IInv, Recording, FileOK, Framed
<1>3. LastBefore(i, s) = LastIn(blocks, i - 1, s, MaxTime)
  BY DEF LastBefore, LastIn, Holding
<1> QED
  BY <1>2, <1>3

\* BlocksValid holds of every recording: a reader never refuses the blocks
\* that the recorder wrote.
THEOREM BlocksAreValid == Spec => []BlocksValid
<1>1. IInv => BlocksValid
  BY BlocksParse, BlocksGrouped, FramesValid DEF BlocksValid
<1> QED
  BY <1>1, Inductive, PTL

-----------------------------------------------------------------------------
(* Selections and rearrangements: a selection of a sequence enumerates the *)
(* positions it takes, so a rearrangement that keeps those in their order  *)
(* keeps the selection.                                                    *)

Places(q, S) == {i \in 1 .. Len(q) : q[i] \in S}

Enumerates(f, m, A) ==
  /\ m \in Nat /\ f \in [1 .. m -> A]
  /\ \A k, l \in 1 .. m : k < l => f[k] < f[l]
  /\ \A i \in A : \E k \in 1 .. m : f[k] = i

Picks(f, q, S) ==
  /\ Enumerates(f, Len(Filter(q, S)), Places(q, S))
  /\ \A k \in 1 .. Len(Filter(q, S)) : Filter(q, S)[k] = q[f[k]]

LEMMA PicksNone ==
  ASSUME NEW S
  PROVE  Picks([k \in 1 .. 0 |-> k], << >>, S)
<1>1. Filter(<< >>, S) = << >> /\ Len(<< >>) = 0
  BY FilterEmpty
<1>2. Places(<< >>, S) = {}
  BY <1>1 DEF Places
<1> QED
  BY <1>1, <1>2 DEF Picks, Enumerates

LEMMA PicksOne ==
  ASSUME NEW T, NEW S, NEW q, NEW x, NEW f, q \in Seq(T), x \in T, Picks(f, q, S)
  PROVE  \E g : Picks(g, Append(q, x), S)
<1> DEFINE n == Len(q)
           r == Append(q, x)
           F == Filter(q, S)
           G == Filter(r, S)
           m == Len(F)
<1>1. n \in Nat /\ Len(r) = n + 1 /\ r[n + 1] = x /\ \A i \in 1 .. n : r[i] = q[i]
  BY AppendOne
<1>2. F \in Seq(T)
  <2>1. F \in Seq(T \cap S)
    BY FilterType
  <2> QED
    BY <2>1, SeqMonotonic
<1>3. G = IF x \in S THEN Append(F, x) ELSE F
  BY FilterAppend
<1>4. /\ m \in Nat /\ f \in [1 .. m -> Places(q, S)]
      /\ \A k, l \in 1 .. m : k < l => f[k] < f[l]
      /\ \A i \in Places(q, S) : \E k \in 1 .. m : f[k] = i
      /\ \A k \in 1 .. m : F[k] = q[f[k]]
  BY DEF Picks, Enumerates
<1> HIDE DEF r, F, G, m, n
<1>5. \A i \in Places(q, S) : i \in 1 .. n /\ i \in Places(r, S)
  BY <1>1 DEF Places, n
<1>6. \A k \in 1 .. m : f[k] \in Places(q, S) /\ f[k] \in 1 .. n /\ r[f[k]] = q[f[k]]
  BY <1>1, <1>4, <1>5
<1>7. CASE x \in S
  <2> DEFINE g == [k \in 1 .. m + 1 |-> IF k = m + 1 THEN n + 1 ELSE f[k]]
  <2>1. /\ Len(G) = m + 1 /\ G[m + 1] = x
        /\ \A k \in 1 .. m : G[k] = F[k]
    BY <1>2, <1>3, <1>7, AppendOne DEF m
  <2>2. n + 1 \in Places(r, S)
    BY <1>1, <1>7 DEF Places
  <2>3. \A i \in Places(r, S) : i \in Places(q, S) \/ i = n + 1
    BY <1>1 DEF Places, n
  <2>4. \A k \in 1 .. m + 1 : k \in 1 .. m \/ k = m + 1
    BY <1>4
  <2>5. \A k \in 1 .. m : k \in 1 .. m + 1 /\ k # m + 1 /\ g[k] = f[k]
    BY <1>4
  <2>6. m + 1 \in 1 .. m + 1 /\ g[m + 1] = n + 1
    BY <1>4
  <2>7. g \in [1 .. m + 1 -> Places(r, S)]
    BY <1>4, <1>5, <1>6, <2>2, <2>4
  <2> HIDE DEF g
  <2>8. \A k, l \in 1 .. m + 1 : k < l => g[k] < g[l]
    <3> TAKE k, l \in 1 .. m + 1
    <3> HAVE k < l
    <3>1. k \in 1 .. m
      BY <1>4
    <3>2. CASE l \in 1 .. m
      BY <1>4, <2>5, <3>1, <3>2
    <3>3. CASE l = m + 1
      <4>1. g[k] \in 1 .. n
        BY <1>6, <2>5, <3>1
      <4> QED
        BY <1>1, <2>6, <3>3, <4>1
    <3> QED
      BY <2>4, <3>2, <3>3
  <2>9. \A i \in Places(r, S) : \E k \in 1 .. m + 1 : g[k] = i
    <3> TAKE i \in Places(r, S)
    <3>1. CASE i \in Places(q, S)
      BY <1>4, <2>5, <3>1
    <3>2. CASE i = n + 1
      BY <2>6, <3>2
    <3> QED
      BY <2>3, <3>1, <3>2
  <2>10. \A k \in 1 .. m + 1 : G[k] = r[g[k]]
    <3> TAKE k \in 1 .. m + 1
    <3>1. CASE k \in 1 .. m
      <4>1. G[k] = F[k] /\ F[k] = q[f[k]] /\ r[f[k]] = q[f[k]] /\ g[k] = f[k]
        BY <1>4, <1>6, <2>1, <2>5, <3>1
      <4> QED
        BY <4>1
    <3>2. CASE k = m + 1
      BY <1>1, <2>1, <2>6, <3>2
    <3> QED
      BY <2>4, <3>1, <3>2
  <2>11. m + 1 \in Nat
    BY <1>4
  <2>12. Enumerates(g, m + 1, Places(r, S))
    BY <2>7, <2>8, <2>9, <2>11 DEF Enumerates
  <2>13. Picks(g, r, S)
    BY <2>1, <2>10, <2>12 DEF Picks, G
  <2> QED
    BY <2>13 DEF r
<1>8. CASE x \notin S
  <2>1. G = F
    BY <1>3, <1>8
  <2>2. Places(r, S) = Places(q, S)
    BY <1>1, <1>8 DEF Places, n
  <2>3. Picks(f, r, S)
    BY <1>4, <1>6, <2>1, <2>2 DEF Picks, Enumerates, G, m
  <2> QED
    BY <2>3 DEF r
<1> QED
  BY <1>7, <1>8

LEMMA PicksExists ==
  ASSUME NEW T, NEW S
  PROVE  \A q \in Seq(T) : \E f : Picks(f, q, S)
<1> DEFINE P == {q \in Seq(T) : \E f : Picks(f, q, S)}
<1>1. << >> \in P
  BY PicksNone, EmptySeq
<1>2. ASSUME NEW q \in Seq(T), NEW x \in T, q \in P PROVE Append(q, x) \in P
  BY <1>2, PicksOne, AppendOne
<1> HIDE DEF P
<1>3. \A q \in Seq(T) : q \in P
  BY <1>1, <1>2, Lists
<1> QED
  BY <1>3 DEF P

LEMMA EnumeratesNext ==
  ASSUME NEW A, NEW f, NEW m, NEW g, NEW p, NEW n,
         A \subseteq Nat, Enumerates(f, m, A), Enumerates(g, p, A), n \in Nat, n < m, n < p,
         \A k \in 1 .. n : f[k] = g[k]
  PROVE  g[n + 1] <= f[n + 1]
<1>1. n + 1 \in 1 .. m /\ n + 1 \in 1 .. p /\ m \in Nat /\ p \in Nat
  BY DEF Enumerates
<1>2. f[n + 1] \in A
  BY <1>1 DEF Enumerates
<1>3. PICK l \in 1 .. p : g[l] = f[n + 1]
  BY <1>2 DEF Enumerates
<1>4. ~(l <= n)
  <2>1. SUFFICES ASSUME l <= n PROVE FALSE
    OBVIOUS
  <2>2. l \in 1 .. n /\ l \in 1 .. m /\ l < n + 1
    BY <1>1, <2>1
  <2>3. f[l] < f[n + 1] /\ f[l] = g[l] /\ f[l] \in Nat
    BY <1>1, <2>2 DEF Enumerates
  <2> QED
    BY <1>3, <2>3
<1>5. l = n + 1 \/ n + 1 < l
  BY <1>1, <1>4
<1>6. g[n + 1] \in Nat /\ g[l] \in Nat
  BY <1>1 DEF Enumerates
<1>7. n + 1 < l => g[n + 1] < g[l]
  BY <1>1 DEF Enumerates
<1> QED
  BY <1>3, <1>5, <1>6, <1>7

LEMMA EnumeratesUnique ==
  ASSUME NEW A, NEW f, NEW m, NEW g, NEW p,
         A \subseteq Nat, Enumerates(f, m, A), Enumerates(g, p, A)
  PROVE  m = p /\ \A k \in 1 .. m : f[k] = g[k]
<1> DEFINE P == {n \in Nat : n <= m /\ n <= p => \A k \in 1 .. n : f[k] = g[k]}
<1>0. m \in Nat /\ p \in Nat
  BY DEF Enumerates
<1>1. 0 \in P
  OBVIOUS
<1>2. ASSUME NEW n \in Nat, n \in P PROVE n + 1 \in P
  <2>1. SUFFICES ASSUME n + 1 <= m, n + 1 <= p PROVE \A k \in 1 .. n + 1 : f[k] = g[k]
    OBVIOUS
  <2>2. n < m /\ n < p /\ \A k \in 1 .. n : f[k] = g[k] /\ g[k] = f[k]
    BY <1>0, <1>2, <2>1
  <2>3. g[n + 1] <= f[n + 1]
    BY <2>2, EnumeratesNext
  <2>4. f[n + 1] <= g[n + 1]
    BY <2>2, EnumeratesNext
  <2>5. f[n + 1] \in Nat /\ g[n + 1] \in Nat
    <3>1. n + 1 \in 1 .. m /\ n + 1 \in 1 .. p
      BY <1>0, <2>1
    <3> QED
      BY <3>1 DEF Enumerates
  <2> QED
    BY <2>2, <2>3, <2>4, <2>5
<1> HIDE DEF P
<1>3. \A n \in Nat : n \in P
  BY <1>1, <1>2, Induction
\* Neither goes on after the other.
<1>4. ASSUME NEW a, NEW b, NEW d, NEW e, Enumerates(a, d, A), Enumerates(b, e, A),
             d < e, \A k \in 1 .. d : a[k] = b[k]
      PROVE  FALSE
  <2>1. d \in Nat /\ e \in Nat /\ d + 1 \in 1 .. e
    BY <1>4 DEF Enumerates
  <2>2. b[d + 1] \in A
    BY <1>4, <2>1 DEF Enumerates
  <2>3. PICK k \in 1 .. d : a[k] = b[d + 1]
    BY <1>4, <2>2 DEF Enumerates
  <2>4. k \in 1 .. e /\ k < d + 1
    BY <2>1
  <2>5. b[k] < b[d + 1] /\ b[k] \in Nat
    BY <1>4, <2>1, <2>4 DEF Enumerates
  <2> QED
    BY <1>4, <2>3, <2>5
<1>5. CASE m <= p
  <2>1. \A k \in 1 .. m : f[k] = g[k]
    BY <1>0, <1>3, <1>5 DEF P
  <2>2. ~(m < p)
    BY <1>4, <2>1
  <2> QED
    BY <1>0, <1>5, <2>1, <2>2
<1>6. CASE p < m
  <2>1. \A k \in 1 .. p : g[k] = f[k]
    BY <1>0, <1>3, <1>6 DEF P
  <2> QED
    BY <1>4, <1>6, <2>1
<1> QED
  BY <1>0, <1>5, <1>6

Rearranges(r, q, p, S) ==
  /\ Len(r) = Len(q) /\ p \in [1 .. Len(q) -> 1 .. Len(q)]
  /\ \A i \in 1 .. Len(q) : \E k \in 1 .. Len(q) : p[k] = i
  /\ \A k \in 1 .. Len(q) : r[k] = q[p[k]]
  /\ \A k, l \in Places(r, S) : k < l => p[k] < p[l]

LEMMA FilterRearranged ==
  ASSUME NEW T, NEW S, NEW q, NEW r, NEW p, q \in Seq(T), r \in Seq(T), Rearranges(r, q, p, S)
  PROVE  Filter(r, S) = Filter(q, S)
<1> DEFINE F == Filter(r, S)
           G == Filter(q, S)
           n == Len(q)
<1>1. PICK f : Picks(f, r, S)
  BY PicksExists
<1>2. PICK g : Picks(g, q, S)
  BY PicksExists
<1>3. F \in Seq(T \cap S) /\ G \in Seq(T \cap S)
  BY FilterType
<1> DEFINE h == [k \in 1 .. Len(F) |-> p[f[k]]]
<1>4. /\ Len(F) \in Nat /\ f \in [1 .. Len(F) -> Places(r, S)]
      /\ \A k, l \in 1 .. Len(F) : k < l => f[k] < f[l]
      /\ \A i \in Places(r, S) : \E k \in 1 .. Len(F) : f[k] = i
      /\ \A k \in 1 .. Len(F) : F[k] = r[f[k]]
  BY <1>1 DEF Picks, Enumerates
<1>5. /\ Enumerates(g, Len(G), Places(q, S))
      /\ \A k \in 1 .. Len(G) : G[k] = q[g[k]]
  BY <1>2 DEF Picks
<1> HIDE DEF F, G
<1>6. \A k \in Places(r, S) : k \in 1 .. n /\ p[k] \in Places(q, S) /\ r[k] = q[p[k]]
  BY DEF Places, Rearranges
<1>7. Enumerates(h, Len(F), Places(q, S))
  <2>1. h \in [1 .. Len(F) -> Places(q, S)]
    BY <1>4, <1>6
  <2>2. \A k, l \in 1 .. Len(F) : k < l => h[k] < h[l]
    <3> TAKE k, l \in 1 .. Len(F)
    <3> HAVE k < l
    <3>1. f[k] < f[l] /\ f[k] \in Places(r, S) /\ f[l] \in Places(r, S)
      BY <1>4
    <3>2. p[f[k]] < p[f[l]]
      BY <3>1 DEF Rearranges
    <3> QED
      BY <3>2
  <2>3. \A i \in Places(q, S) : \E k \in 1 .. Len(F) : h[k] = i
    <3> TAKE i \in Places(q, S)
    <3>1. i \in 1 .. n /\ q[i] \in S
      BY DEF Places
    <3>2. PICK k \in 1 .. n : p[k] = i
      BY <3>1 DEF Rearranges
    <3>3. k \in Places(r, S)
      BY <3>1, <3>2 DEF Rearranges, Places
    <3>4. PICK l \in 1 .. Len(F) : f[l] = k
      BY <1>4, <3>3
    <3> QED
      BY <3>2, <3>4
  <2> QED
    BY <1>4, <2>1, <2>2, <2>3 DEF Enumerates
<1>8. \A k \in 1 .. Len(F) : F[k] = q[h[k]]
  BY <1>4, <1>6
<1> HIDE DEF h
<1>9. Places(q, S) \subseteq Nat
  BY DEF Places
<1>10. Len(F) = Len(G) /\ \A k \in 1 .. Len(F) : h[k] = g[k]
  BY <1>5, <1>7, <1>9, EnumeratesUnique
<1>11. \A k \in 1 .. Len(F) : F[k] = G[k]
  BY <1>5, <1>8, <1>10
<1>12. F = G
  BY <1>3, <1>10, <1>11, SeqEqual
<1> QED
  BY <1>12 DEF F, G

-----------------------------------------------------------------------------
(* The sort: a rearrangement by time, in which the changes of a signal     *)
(* keep their order when they were in the order of time.                   *)

Upto(q, j, i) == Before(q[j], q[i]) \/ (~Before(q[i], q[j]) /\ j <= i)
Lower(q, i) == {j \in 1 .. Len(q) : Upto(q, j, i)}

LEMMA UptoOrder ==
  ASSUME NEW q, NEW i, NEW j, NEW k, q \in Seq(Emissions),
         i \in 1 .. Len(q), j \in 1 .. Len(q), k \in 1 .. Len(q)
  PROVE  /\ Upto(q, i, i) /\ (Upto(q, i, j) \/ Upto(q, j, i))
         /\ Upto(q, i, j) /\ Upto(q, j, i) => i = j
         /\ Upto(q, i, j) /\ Upto(q, j, k) => Upto(q, i, k)
         /\ Upto(q, i, j) => q[i].time <= q[j].time
<1>1. \A x \in 1 .. Len(q) : q[x].time \in Nat /\ q[x].signal \in Nat /\ x \in Nat
  <2>1. \A x \in 1 .. Len(q) : q[x] \in Emissions /\ x \in Nat
    BY LenProperties, ElementOfSeq
  <2> QED
    BY <2>1 DEF Emissions
<1> DEFINE T(x) == q[x].time
           S(x) == q[x].signal
<1>2. \A x \in {i, j, k} : T(x) \in Nat /\ S(x) \in Nat /\ x \in Nat
  BY <1>1
<1>3. \A x, y : Before(q[x], q[y]) <=> (T(x) < T(y) \/ (T(x) = T(y) /\ S(x) < S(y)))
  BY DEF Before
<1> HIDE DEF T, S
<1>4. /\ Upto(q, i, i) /\ (Upto(q, i, j) \/ Upto(q, j, i))
      /\ Upto(q, i, j) /\ Upto(q, j, i) => i = j
  BY <1>2, <1>3 DEF Upto
<1>5. Upto(q, i, j) /\ Upto(q, j, k) => Upto(q, i, k)
  BY <1>2, <1>3 DEF Upto
<1>6. Upto(q, i, j) => T(i) <= T(j)
  BY <1>2, <1>3 DEF Upto
<1> QED
  BY <1>4, <1>5, <1>6 DEF T

Rank(q, i) == Cardinality({j \in DOMAIN q : Before(q[j], q[i]) \/ (~Before(q[i], q[j]) /\ j <= i)})

LEMMA RankIs ==
  ASSUME NEW q, q \in Seq(Emissions)
  PROVE  /\ \A i \in 1 .. Len(q) : Rank(q, i) \in 1 .. Len(q)
         /\ \A i, j \in 1 .. Len(q) : Upto(q, i, j) /\ i # j => Rank(q, i) < Rank(q, j)
<1> DEFINE n == Len(q)
<1>1. n \in Nat /\ DOMAIN q = 1 .. n
  BY LenProperties
<1>2. ASSUME NEW i \in 1 .. n
      PROVE  /\ Rank(q, i) = Cardinality(Lower(q, i)) /\ IsFiniteSet(Lower(q, i))
             /\ i \in Lower(q, i) /\ Rank(q, i) \in 1 .. n
  <2>1. Rank(q, i) = Cardinality(Lower(q, i))
    BY <1>1 DEF Rank, Lower, Upto
  <2>2. i \in Lower(q, i)
    BY UptoOrder DEF Lower
  <2>3. Lower(q, i) \in SUBSET (1 .. n)
    BY DEF Lower
  <2>4. IsFiniteSet(1 .. n) /\ Cardinality(1 .. n) = n
    BY <1>1, Interval
  <2>5. IsFiniteSet(Lower(q, i)) /\ Cardinality(Lower(q, i)) <= n
    BY <2>3, <2>4, FS_Subset
  <2>6. Cardinality(Lower(q, i)) \in Nat /\ Cardinality(Lower(q, i)) # 0
    BY <2>2, <2>5, FS_CardinalityType, FS_EmptySet
  <2> QED
    BY <1>1, <2>1, <2>2, <2>5, <2>6
<1>3. ASSUME NEW i \in 1 .. n, NEW j \in 1 .. n, Upto(q, i, j), i # j
      PROVE  Rank(q, i) < Rank(q, j)
  <2> DEFINE A == Lower(q, i)
             B == Lower(q, j)
  <2>1. A \in SUBSET B
    <3>1. ASSUME NEW x \in A PROVE x \in B
      <4>1. x \in 1 .. n /\ Upto(q, x, i)
        BY DEF Lower
      <4>2. Upto(q, x, j)
        BY <1>3, <4>1, UptoOrder
      <4> QED
        BY <4>1, <4>2 DEF Lower
    <3> QED
      BY <3>1
  <2>2. ~Upto(q, j, i)
    BY <1>3, UptoOrder
  <2>3. j \in B /\ j \notin A
    BY <1>2, <2>2 DEF Lower
  <2>4. /\ Rank(q, i) = Cardinality(A) /\ Rank(q, j) = Cardinality(B)
        /\ IsFiniteSet(B) /\ Rank(q, i) \in 1 .. n /\ Rank(q, j) \in 1 .. n
    BY <1>2
  <2> HIDE DEF A, B
  <2>5. Cardinality(A) <= Cardinality(B) /\ (Cardinality(B) = Cardinality(A) => B = A)
    BY <2>1, <2>4, FS_Subset
  <2> QED
    BY <2>3, <2>4, <2>5
<1> QED
  BY <1>2, <1>3

\* Which element the sort puts where.
Sorting(p, q) ==
  /\ p \in [1 .. Len(q) -> 1 .. Len(q)]
  /\ \A i \in 1 .. Len(q) : \E k \in 1 .. Len(q) : p[k] = i
  /\ \A k \in 1 .. Len(q) : StableSort(q)[k] = q[p[k]]
  /\ \A k, l \in 1 .. Len(q) : k < l => Upto(q, p[k], p[l]) /\ p[k] # p[l]

LEMMA SortingExists ==
  ASSUME NEW q, q \in Seq(Emissions)
  PROVE  /\ StableSort(q) \in Seq(Emissions) /\ Len(StableSort(q)) = Len(q) /\ Len(q) \in Nat
         /\ \E p : Sorting(p, q)
<1> DEFINE n == Len(q)
           p == [k \in 1 .. n |-> CHOOSE i \in DOMAIN q : Rank(q, i) = k]
           f == [i \in 1 .. n |-> Rank(q, i)]
           r == StableSort(q)
<1>1. n \in Nat /\ DOMAIN q = 1 .. n /\ \A i \in 1 .. n : q[i] \in Emissions
  BY LenProperties, ElementOfSeq
<1>2. r = [k \in 1 .. n |-> q[p[k]]]
  <2>1. r = [k \in 1 .. n |-> q[CHOOSE i \in DOMAIN q : Rank(q, i) = k]]
    BY <1>1 DEF StableSort, Rank
  <2> QED
    BY <2>1
<1>3. /\ \A i \in 1 .. n : Rank(q, i) \in 1 .. n
      /\ \A i, j \in 1 .. n : Upto(q, i, j) /\ i # j => Rank(q, i) < Rank(q, j)
  BY RankIs
<1>4. ASSUME NEW i \in 1 .. n, NEW j \in 1 .. n, Rank(q, i) = Rank(q, j) PROVE i = j
  <2>1. Upto(q, i, j) \/ Upto(q, j, i)
    BY UptoOrder
  <2>2. Rank(q, i) \in Nat /\ Rank(q, j) \in Nat
    BY <1>3
  <2> QED
    BY <1>3, <1>4, <2>1, <2>2
<1>5. f \in Surjection(1 .. n, 1 .. n)
  <2>1. f \in [1 .. n -> 1 .. n]
    BY <1>3
  <2>2. \A i, j \in 1 .. n : f[i] = f[j] => i = j
    BY <1>4
  <2>3. IsFiniteSet(1 .. n)
    BY <1>1, Interval
  <2> HIDE DEF f
  <2>4. f \in Injection(1 .. n, 1 .. n)
    BY <2>1, <2>2 DEF Injection, IsInjective
  <2> QED
    BY <2>3, <2>4, FS_Injection
<1>6. ASSUME NEW k \in 1 .. n PROVE \E i \in DOMAIN q : Rank(q, i) = k
  <2>1. \E i \in 1 .. n : f[i] = k
    <3> HIDE DEF f
    <3> QED
      BY <1>5 DEF Surjection
  <2> QED
    BY <1>1, <2>1
<1>7. \A k \in 1 .. n : p[k] \in 1 .. n /\ Rank(q, p[k]) = k
  BY <1>1, <1>6
<1>8. p \in [1 .. n -> 1 .. n]
  <2>1. p = [k \in 1 .. n |-> p[k]]
    OBVIOUS
  <2> HIDE DEF p
  <2> QED
    BY <1>7, <2>1
<1> HIDE DEF p, f, r
<1>9. \A i \in 1 .. n : \E k \in 1 .. n : p[k] = i
  <2> TAKE i \in 1 .. n
  <2>1. Rank(q, i) \in 1 .. n
    BY <1>3
  <2>2. p[Rank(q, i)] = i
    BY <1>4, <1>7, <2>1
  <2> QED
    BY <2>1, <2>2
<1>10. \A k, l \in 1 .. n : k < l => Upto(q, p[k], p[l]) /\ p[k] # p[l]
  <2> TAKE k, l \in 1 .. n
  <2> HAVE k < l
  <2>1. /\ p[k] \in 1 .. n /\ p[l] \in 1 .. n /\ Rank(q, p[k]) = k /\ Rank(q, p[l]) = l
        /\ k \in Nat /\ l \in Nat
    BY <1>1, <1>7
  <2>2. p[k] # p[l]
    BY <2>1
  <2>3. Upto(q, p[l], p[k]) => l < k
    BY <1>3, <2>1, <2>2
  <2>4. Upto(q, p[k], p[l]) \/ Upto(q, p[l], p[k])
    BY <2>1, UptoOrder
  <2> QED
    BY <2>1, <2>2, <2>3, <2>4
<1>11. r \in Seq(Emissions) /\ Len(r) = n /\ \A k \in 1 .. n : r[k] = q[p[k]]
  BY <1>1, <1>2, <1>7
<1>12. Sorting(p, q)
  BY <1>8, <1>9, <1>10, <1>11 DEF Sorting, r
<1> QED
  BY <1>1, <1>11, <1>12 DEF r

\* The changes of a signal in a sequence are in the order of time.
Orderly(q, s) == \A i, j \in Places(q, SignalIs(Emissions, s)) : i < j => q[i].time <= q[j].time

LEMMA SortedClimbs ==
  ASSUME NEW q, q \in Seq(Emissions)
  PROVE  Climbs(StableSort(q))
<1>1. StableSort(q) \in Seq(Emissions) /\ Len(StableSort(q)) = Len(q) /\ Len(q) \in Nat
  BY SortingExists
<1>2. PICK p : Sorting(p, q)
  BY SortingExists
<1> DEFINE r == StableSort(q)
<1>3. DOMAIN r = 1 .. Len(q) /\ \A k \in 1 .. Len(q) : r[k].time \in Nat /\ k \in Nat
  <2>1. DOMAIN r = 1 .. Len(q) /\ \A k \in 1 .. Len(q) : r[k] \in Emissions
    BY <1>1, LenProperties, ElementOfSeq
  <2>2. \A e \in Emissions : e.time \in Nat
    BY DEF Emissions
  <2> HIDE DEF r
  <2> QED
    BY <1>1, <2>1, <2>2
<1> HIDE DEF r
<1>4. ASSUME NEW k \in 1 .. Len(q), NEW l \in 1 .. Len(q), k <= l PROVE r[k].time <= r[l].time
  <2>1. CASE k = l
    BY <1>3, <2>1
  <2>2. CASE k < l
    <3>1. /\ Upto(q, p[k], p[l]) /\ p[k] \in 1 .. Len(q) /\ p[l] \in 1 .. Len(q)
          /\ r[k] = q[p[k]] /\ r[l] = q[p[l]]
      BY <1>2, <2>2 DEF Sorting, r
    <3>2. q[p[k]].time <= q[p[l]].time
      BY <3>1, UptoOrder
    <3> QED
      BY <3>1, <3>2
  <2> QED
    BY <1>3, <1>4, <2>1, <2>2
<1> QED
  BY <1>3, <1>4 DEF Climbs, r

LEMMA SortedKeeps ==
  ASSUME NEW q, NEW s, q \in Seq(Emissions), Orderly(q, s)
  PROVE  Filter(StableSort(q), SignalIs(Emissions, s)) = Filter(q, SignalIs(Emissions, s))
<1> DEFINE S == SignalIs(Emissions, s)
           r == StableSort(q)
           n == Len(q)
<1>1. r \in Seq(Emissions) /\ Len(r) = n /\ n \in Nat
  BY SortingExists
<1>2. PICK p : Sorting(p, q)
  BY SortingExists
<1>3. /\ p \in [1 .. n -> 1 .. n] /\ \A i \in 1 .. n : \E k \in 1 .. n : p[k] = i
      /\ \A k \in 1 .. n : r[k] = q[p[k]]
      /\ \A k, l \in 1 .. n : k < l => Upto(q, p[k], p[l]) /\ p[k] # p[l]
  BY <1>2 DEF Sorting
<1>4. \A i \in 1 .. n : q[i] \in Emissions
  BY ElementOfSeq
<1>5. \A i, j \in Places(q, S) : i < j => q[i].time <= q[j].time
  BY DEF Orderly
<1>6. \A k \in Places(r, S) : k \in 1 .. n /\ p[k] \in 1 .. n /\ p[k] \in Places(q, S)
  BY <1>1, <1>3 DEF Places
<1>7. \A i \in Places(q, S) : q[i].signal = s /\ q[i].time \in Nat
  <2>1. \A i \in Places(q, S) : q[i] \in Emissions /\ q[i].signal = s
    BY DEF Places, SignalIs
  <2> QED
    BY <2>1 DEF Emissions
<1>8. SUFFICES ASSUME NEW k \in Places(r, S), NEW l \in Places(r, S), k < l PROVE p[k] < p[l]
  <2>1. Rearranges(r, q, p, S)
    <3>1. \A k, l \in Places(r, S) : k < l => p[k] < p[l]
      BY <1>8
    <3> HIDE DEF r, S
    <3> QED
      BY <1>1, <1>3, <3>1 DEF Rearranges
  <2> HIDE DEF r, S
  <2>2. Filter(r, S) = Filter(q, S)
    BY <1>1, <2>1, FilterRearranged
  <2> QED
    BY <2>2 DEF r, S
<1> DEFINE i == p[k]
           j == p[l]
<1> HIDE DEF r, S
<1>9. /\ i \in Places(q, S) /\ j \in Places(q, S) /\ i \in 1 .. n /\ j \in 1 .. n
      /\ Upto(q, i, j) /\ i # j
  BY <1>3, <1>6, <1>8
<1> HIDE DEF i, j
<1>10. ~(j < i)
  <2> SUFFICES ASSUME j < i PROVE FALSE
    OBVIOUS
  <2>1. q[j].time <= q[i].time /\ q[i].time \in Nat /\ q[j].time \in Nat
        /\ q[i].signal = s /\ q[j].signal = s
    BY <1>5, <1>7, <1>9
  <2>2. ~Before(q[i], q[j])
    <3>1. ~(s < s)
      <4>1. q[i] \in Emissions /\ s \in Nat
        BY <1>4, <1>9, <2>1 DEF Emissions
      <4> QED
        BY <4>1
    <3> QED
      BY <2>1, <3>1 DEF Before
  <2>3. i <= j
    BY <1>9, <2>2 DEF Upto
  <2> QED
    BY <1>1, <1>9, <2>3
<1>11. i < j
  BY <1>1, <1>9, <1>10
<1> QED
  BY <1>11 DEF i, j

-----------------------------------------------------------------------------
(* The changes of a block: those of its signals one after the other. *)

LEMMA ClimbsOrderly ==
  ASSUME NEW q, NEW s, q \in Seq(Emissions), Climbs(Filter(q, SignalIs(Emissions, s)))
  PROVE  Orderly(q, s)
<1> DEFINE S == SignalIs(Emissions, s)
           F == Filter(q, S)
<1>1. PICK f : Picks(f, q, S)
  BY PicksExists
<1>2. F \in Seq(Emissions \cap S)
  BY FilterType
<1>3. DOMAIN F = 1 .. Len(F) /\ Len(F) \in Nat
  BY <1>2, LenProperties
<1>4. /\ f \in [1 .. Len(F) -> Places(q, S)]
      /\ \A k, l \in 1 .. Len(F) : k < l => f[k] < f[l]
      /\ \A i \in Places(q, S) : \E k \in 1 .. Len(F) : f[k] = i
      /\ \A k \in 1 .. Len(F) : F[k] = q[f[k]]
  BY <1>1 DEF Picks, Enumerates
<1>5. \A k, l \in 1 .. Len(F) : k <= l => F[k].time <= F[l].time
  BY <1>3 DEF Climbs
<1>6. \A i \in Places(q, S) : i \in Nat
  BY DEF Places
<1> HIDE DEF F, S
<1>7. ASSUME NEW i \in Places(q, S), NEW j \in Places(q, S), i < j
      PROVE  q[i].time <= q[j].time
  <2>1. PICK k \in 1 .. Len(F) : f[k] = i
    BY <1>4
  <2>2. PICK l \in 1 .. Len(F) : f[l] = j
    BY <1>4
  <2>3. ~(l < k) /\ l # k
    BY <1>4, <1>6, <1>7, <2>1, <2>2
  <2>4. k <= l
    BY <1>3, <2>3
  <2>5. F[k].time <= F[l].time
    BY <1>5, <2>4
  <2> QED
    BY <1>4, <2>1, <2>2, <2>5
<1> QED
  BY <1>7 DEF Orderly, S

Row(b, s) == OfSignal(s, Full(b, s))
Stack(b, n) == FlattenSeq([s \in 1 .. n |-> Row(b, s)])

LEMMA RowIs ==
  ASSUME NEW b, NEW k, NEW s, Sound(b), k \in Signals, s \in Signals
  PROVE  /\ Row(b, k) \in Seq(Emissions) /\ Row(b, k) \in Seq(Within(Emissions, b.start, b.end))
         /\ Climbs(Row(b, k))
         /\ Filter(Row(b, k), SignalIs(Emissions, s)) = IF k = s THEN Row(b, k) ELSE << >>
<1> DEFINE q == Row(b, k)
           T == SignalIs(Emissions, k)
           S == SignalIs(Emissions, s)
           F == Full(b, k)
<1>1. /\ k \in Nat /\ F \in Seq(Read) /\ q \in Seq(Emissions)
      /\ q \in Seq(Within(Emissions, b.start, b.end)) /\ Climbs(F)
  BY FullType DEF Row, Sound
<1>2. /\ DOMAIN q = DOMAIN F
      /\ \A i \in DOMAIN F : q[i].time = F[i].time /\ q[i].signal = k
  BY <1>1, TaggedIs DEF Row
<1> HIDE DEF q, F
<1>3. Climbs(q)
  BY <1>1, <1>2 DEF Climbs
<1>4. q \in Seq(T)
  <2>1. \A i \in DOMAIN q : q[i] \in T
    BY <1>1, <1>2 DEF SignalIs
  <2> HIDE DEF T
  <2> QED
    BY <1>1, <2>1
<1>5. CASE k = s
  <2>1. T \subseteq S
    BY <1>5
  <2>2. Filter(q, S) = q
    BY <1>4, <2>1, FilterAll
  <2> QED
    BY <1>1, <1>3, <1>5, <2>2 DEF q
<1>6. CASE k # s
  <2>1. T \cap S = {}
    BY <1>6 DEF SignalIs
  <2>2. Filter(q, S) = << >>
    BY <1>4, <2>1, FilterNothing
  <2> QED
    BY <1>1, <1>3, <1>6, <2>2 DEF q
<1> QED
  BY <1>5, <1>6

LEMMA StackNext ==
  ASSUME NEW b, NEW n, Sound(b), n \in Nat, n + 1 <= Len(Declared)
  PROVE  Stack(b, n + 1) = Stack(b, n) \o Row(b, n + 1)
<1> DEFINE T == Emissions
           R == [s \in 1 .. n |-> Row(b, s)]
           Q == [s \in 1 .. n + 1 |-> Row(b, s)]
           x == Row(b, n + 1)
<1>1. \A s \in 1 .. n + 1 : s \in Signals
  BY SignalsType DEF Signals
<1>2. \A s \in 1 .. n + 1 : Row(b, s) \in Seq(T)
  BY <1>1, RowIs
<1>3. R \in Seq(Seq(T)) /\ Len(R) = n
  <2>1. \A s \in 1 .. n : Row(b, s) \in Seq(T)
    BY <1>2
  <2> HIDE DEF T
  <2> QED
    BY <2>1
<1>4. x \in Seq(T)
  <2>1. n + 1 \in 1 .. n + 1
    OBVIOUS
  <2> QED
    BY <1>2, <2>1
<1>a. \A s \in 1 .. n : R[s] = Row(b, s)
  OBVIOUS
<1>b. x = Row(b, n + 1)
  OBVIOUS
<1> HIDE DEF R, x, T
<1>5. Append(R, x) = Q
  <2> DEFINE A == Append(R, x)
  <2>1. /\ A \in Seq(Seq(T)) /\ Len(A) = n + 1 /\ A[n + 1] = x
        /\ \A i \in 1 .. n : A[i] = R[i]
    BY <1>3, <1>4, AppendOne
  <2>2. DOMAIN A = 1 .. n + 1 /\ A = [i \in DOMAIN A |-> A[i]]
    BY <2>1, LenProperties
  <2> HIDE DEF A
  <2>3. \A i \in 1 .. n + 1 : A[i] = Row(b, i)
    <3> TAKE i \in 1 .. n + 1
    <3>1. i \in 1 .. n \/ i = n + 1
      OBVIOUS
    <3> QED
      BY <1>a, <1>b, <2>1, <3>1
  <2> QED
    BY <2>2, <2>3 DEF A
<1>6. FlattenSeq(Append(R, x)) = FlattenSeq(R) \o x
  BY <1>3, <1>4, FlattenAppend
<1> QED
  BY <1>5, <1>6 DEF Stack, R, x

Stacked(b, n) ==
  /\ Stack(b, n) \in Seq(Emissions)
  /\ Stack(b, n) \in Seq(Within(Emissions, b.start, b.end))
  /\ \A s \in Signals : Filter(Stack(b, n), SignalIs(Emissions, s))
                          = IF s <= n THEN Row(b, s) ELSE << >>

LEMMA StackIs ==
  ASSUME NEW b, Sound(b)
  PROVE  \A n \in Nat : n <= Len(Declared) => Stacked(b, n)
<1> DEFINE P == {n \in Nat : n <= Len(Declared) => Stacked(b, n)}
           W == Within(Emissions, b.start, b.end)
<1>1. 0 \in P
  <2>1. [s \in 1 .. 0 |-> Row(b, s)] = << >>
    OBVIOUS
  <2>2. Stack(b, 0) = << >>
    BY <2>1, FlattenNone DEF Stack
  <2>3. \A T : << >> \in Seq(T)
    BY EmptySeq
  <2>4. \A S : Filter(<< >>, S) = << >>
    BY FilterEmpty
  <2>5. \A s \in Signals : ~(s <= 0)
    BY SignalsType
  <2>6. Stacked(b, 0)
    BY <2>2, <2>3, <2>4, <2>5 DEF Stacked
  <2> QED
    BY <2>6
<1>2. ASSUME NEW n \in Nat, n \in P PROVE n + 1 \in P
  <2>1. SUFFICES ASSUME n + 1 <= Len(Declared) PROVE Stacked(b, n + 1)
    OBVIOUS
  <2> DEFINE q == Stack(b, n)
             x == Row(b, n + 1)
  <2>2. Len(Declared) \in Nat /\ n + 1 \in Signals
    BY <2>1, SignalsType DEF Signals
  <2>3. Stacked(b, n)
    BY <1>2, <2>1, <2>2
  <2>4. q \in Seq(Emissions) /\ q \in Seq(W) /\ x \in Seq(Emissions) /\ x \in Seq(W)
    BY <2>2, <2>3, RowIs DEF Stacked
  <2>5. Stack(b, n + 1) = q \o x
    BY <2>1, StackNext
  <2>6. \A s \in Signals : Filter(q, SignalIs(Emissions, s)) = IF s <= n THEN Row(b, s) ELSE << >>
    BY <2>3 DEF Stacked
  <2>a. \A s \in Signals : Filter(x, SignalIs(Emissions, s)) = IF n + 1 = s THEN x ELSE << >>
    BY <2>2, RowIs
  <2>b. \A s \in Signals : s \in Nat /\ Row(b, s) \in Seq(Emissions) /\ (n + 1 = s => Row(b, s) = x)
    BY <2>2, RowIs, SignalsType
  <2> HIDE DEF q, x, W
  <2>7. q \o x \in Seq(Emissions) /\ q \o x \in Seq(W)
    BY <2>4, ConcatProperties
  <2>8. ASSUME NEW s \in Signals
        PROVE  Filter(q \o x, SignalIs(Emissions, s)) = IF s <= n + 1 THEN Row(b, s) ELSE << >>
    <3>1. Filter(q \o x, SignalIs(Emissions, s))
            = Filter(q, SignalIs(Emissions, s)) \o Filter(x, SignalIs(Emissions, s))
      BY <2>4, FilterJoin
    <3>2. s \in Nat /\ Row(b, s) \in Seq(Emissions) /\ << >> \in Seq(Emissions)
      BY <2>b, EmptySeq
    <3>3. CASE s <= n
      <4>1. s <= n + 1 /\ n + 1 # s
        BY <3>2, <3>3
      <4>2. Filter(q \o x, SignalIs(Emissions, s)) = Row(b, s) \o << >>
        BY <2>6, <2>a, <3>1, <3>3, <4>1
      <4>3. Row(b, s) \o << >> = Row(b, s)
        BY <3>2, ConcatEmptySeq
      <4> QED
        BY <4>1, <4>2, <4>3
    <3>4. CASE s = n + 1
      <4>1. s <= n + 1 /\ ~(s <= n)
        BY <3>2, <3>4
      <4>2. Filter(q \o x, SignalIs(Emissions, s)) = << >> \o Row(b, s)
        BY <2>6, <2>a, <2>b, <3>1, <3>4, <4>1
      <4>3. << >> \o Row(b, s) = Row(b, s)
        BY <3>2, ConcatEmptySeq
      <4> QED
        BY <4>1, <4>2, <4>3
    <3>5. CASE s > n + 1
      <4>1. ~(s <= n + 1) /\ ~(s <= n) /\ n + 1 # s
        BY <3>2, <3>5
      <4>2. Filter(q \o x, SignalIs(Emissions, s)) = << >> \o << >>
        BY <2>6, <2>a, <3>1, <4>1
      <4>3. << >> \o << >> = << >>
        BY <3>2, ConcatEmptySeq
      <4> QED
        BY <4>1, <4>2, <4>3
    <3> QED
      BY <3>2, <3>3, <3>4, <3>5
  <2> QED
    BY <2>5, <2>7, <2>8 DEF Stacked, W
<1> HIDE DEF P
<1>3. \A n \in Nat : n \in P
  BY <1>1, <1>2, Induction
<1> QED
  BY <1>3 DEF P

LEMMA BlockChangesAre ==
  ASSUME NEW b, Valid(b)
  PROVE  BlockChanges(b, 0, MaxTime) = Stack(b, b.signals)
<1>1. /\ Sound(b) /\ b.end <= MaxTime /\ MaxTime \in Nat /\ b.signals \in Nat
      /\ b.signals <= Len(Declared)
  BY ValidSound, ConstantsOK DEF Valid, ConstantsOK
<1>2. \A s \in 1 .. b.signals : s \in Signals
  BY <1>1, SignalsType DEF Signals
<1>3. ASSUME NEW s \in 1 .. b.signals
      PROVE  OfSignal(s, SelectedColumn(b, s, 0, MaxTime)) = Row(b, s)
  <2>1. SelectedColumn(b, s, 0, MaxTime) = Full(b, s)
    BY <1>1, <1>2, AllOfIt
  <2> QED
    BY <2>1 DEF Row
<1> QED
  BY <1>3 DEF BlockChanges, Stack

LEMMA SortedType ==
  ASSUME NEW T, NEW q, q \in Seq(Emissions), q \in Seq(T)
  PROVE  StableSort(q) \in Seq(T)
<1> DEFINE r == StableSort(q)
<1>1. r \in Seq(Emissions) /\ Len(r) = Len(q) /\ Len(q) \in Nat
  BY SortingExists
<1>2. PICK p : Sorting(p, q)
  BY SortingExists
<1>3. DOMAIN r = 1 .. Len(q) /\ \A i \in 1 .. Len(q) : q[i] \in T
  BY <1>1, LenProperties, ElementOfSeq
<1>4. \A k \in 1 .. Len(q) : r[k] \in T
  BY <1>2, <1>3 DEF Sorting
<1> HIDE DEF r
<1>5. r \in Seq(T)
  BY <1>1, <1>3, <1>4
<1> QED
  BY <1>5 DEF r

\* What the merged iteration takes from a block.
Piece(b) == StableSort(BlockChanges(b, 0, MaxTime))

LEMMA PieceIs ==
  ASSUME NEW b, Valid(b)
  PROVE  /\ Piece(b) \in Seq(Emissions) /\ Climbs(Piece(b))
         /\ Piece(b) \in Seq(Within(Emissions, b.start, b.end))
         /\ \A s \in Signals : Filter(Piece(b), SignalIs(Emissions, s)) = Row(b, s)
<1> DEFINE n == b.signals
           q == Stack(b, n)
<1>1. Sound(b) /\ n \in Nat /\ n <= Len(Declared)
  BY ValidSound DEF Valid
<1>2. Piece(b) = StableSort(q)
  BY BlockChangesAre DEF Piece
<1>3. Stacked(b, n)
  BY <1>1, StackIs
<1>4. q \in Seq(Emissions) /\ q \in Seq(Within(Emissions, b.start, b.end))
  BY <1>3 DEF Stacked
<1>5. ASSUME NEW s \in Signals
      PROVE  Filter(q, SignalIs(Emissions, s)) = Row(b, s)
  <2>1. CASE s <= n
    BY <1>3, <2>1 DEF Stacked
  <2>2. CASE ~(s <= n)
    <3>1. s > n
      BY <1>1, <2>2, SignalsType
    <3>2. Full(b, s) = << >>
      BY <3>1 DEF Full
    <3>3. Row(b, s) = << >>
      BY <3>2, SignalsType, TaggedAppend DEF Row
    <3> QED
      BY <1>3, <2>2, <3>3 DEF Stacked
  <2> QED
    BY <2>1, <2>2
<1> HIDE DEF q
<1>6. ASSUME NEW s \in Signals
      PROVE  Filter(StableSort(q), SignalIs(Emissions, s)) = Row(b, s)
  <2>1. Climbs(Row(b, s))
    BY <1>1, RowIs
  <2>2. Orderly(q, s)
    BY <1>4, <1>5, <2>1, ClimbsOrderly
  <2> QED
    BY <1>4, <1>5, <2>2, SortedKeeps
<1>7. StableSort(q) \in Seq(Emissions) /\ Climbs(StableSort(q))
  BY <1>4, SortedClimbs, SortingExists
<1>8. StableSort(q) \in Seq(Within(Emissions, b.start, b.end))
  BY <1>4, SortedType
<1> QED
  BY <1>2, <1>6, <1>7, <1>8

LEMMA ClimbsJoin ==
  ASSUME NEW q, NEW r, NEW t, q \in Seq(Emissions), r \in Seq(Emissions), t \in Nat,
         Climbs(q), Climbs(r),
         \A i \in 1 .. Len(q) : q[i].time <= t, \A i \in 1 .. Len(r) : t <= r[i].time
  PROVE  Climbs(q \o r)
<1> DEFINE m == Len(q)
           n == Len(r)
           p == q \o r
<1>1. /\ p \in Seq(Emissions) /\ m \in Nat /\ n \in Nat /\ Len(p) = m + n
      /\ \A i \in 1 .. m : p[i] = q[i]
      /\ \A i \in 1 .. n : p[m + i] = r[i]
  BY JoinTwo
<1>2. DOMAIN p = 1 .. m + n /\ DOMAIN q = 1 .. m /\ DOMAIN r = 1 .. n
  BY <1>1, LenProperties
<1>3. /\ \A i \in 1 .. m : q[i].time \in Nat
      /\ \A i \in 1 .. n : r[i].time \in Nat
  <2>1. (\A i \in 1 .. m : q[i] \in Emissions) /\ (\A i \in 1 .. n : r[i] \in Emissions)
    BY ElementOfSeq
  <2>2. \A e \in Emissions : e.time \in Nat
    BY DEF Emissions
  <2> QED
    BY <2>1, <2>2
<1> HIDE DEF p
<1>4. ASSUME NEW i \in 1 .. m + n, NEW j \in 1 .. m + n, i <= j PROVE p[i].time <= p[j].time
  <2>1. CASE j <= m
    <3>1. i \in 1 .. m /\ j \in 1 .. m
      BY <1>1, <1>4, <2>1
    <3>2. q[i].time <= q[j].time
      BY <1>2, <1>4, <3>1 DEF Climbs
    <3> QED
      BY <1>1, <3>1, <3>2
  <2>2. CASE i <= m /\ m < j
    <3> DEFINE l == j - m
    <3>1. i \in 1 .. m /\ l \in 1 .. n /\ m + l = j
      BY <1>1, <2>2
    <3> HIDE DEF l
    <3>2. p[i] = q[i] /\ p[j] = r[l]
      BY <1>1, <3>1
    <3>3. q[i].time <= t /\ t <= r[l].time /\ q[i].time \in Nat /\ r[l].time \in Nat
      BY <1>3, <3>1 DEF m, n
    <3> QED
      BY <3>2, <3>3
  <2>3. CASE m < i
    <3> DEFINE k == i - m
               l == j - m
    <3>1. k \in 1 .. n /\ l \in 1 .. n /\ m + k = i /\ m + l = j /\ k <= l
      BY <1>1, <1>4, <2>3
    <3> HIDE DEF k, l
    <3>2. p[i] = r[k] /\ p[j] = r[l]
      BY <1>1, <3>1
    <3>3. r[k].time <= r[l].time
      BY <1>2, <3>1 DEF Climbs
    <3> QED
      BY <3>2, <3>3
  <2> QED
    BY <1>1, <2>1, <2>2, <2>3
<1> QED
  BY <1>2, <1>4 DEF Climbs, p

Merged(bs) == FlattenSeq([i \in DOMAIN bs |-> Piece(bs[i])])
Valids(T) == \A b \in T : Valid(b)

LEMMA MergedNone == Merged(<< >>) = << >>
<1>1. [i \in DOMAIN << >> |-> Piece(<< >>[i])] = << >>
  OBVIOUS
<1> QED
  BY <1>1, FlattenNone DEF Merged

LEMMA MergedAppend ==
  ASSUME NEW T, Valids(T), NEW bs \in Seq(T)
  PROVE  /\ Merged(bs) \in Seq(Emissions)
         /\ \A b \in T : Merged(Append(bs, b)) = Merged(bs) \o Piece(b)
<1> DEFINE m == [b \in T |-> Piece(b)]
<1>1. Maps(m, T, Seq(Emissions))
  BY PieceIs DEF Maps, Valids
<1>2. ASSUME NEW q \in Seq(T) PROVE Merged(q) = FlattenSeq(Mapped(m, q))
  <2>1. \A i \in DOMAIN q : q[i] \in T
    OBVIOUS
  <2>2. [i \in DOMAIN q |-> Piece(q[i])] = Mapped(m, q)
    BY <2>1 DEF Mapped
  <2> QED
    BY <2>2 DEF Merged
<1>3. \A b \in T : m[b] = Piece(b)
  OBVIOUS
<1> HIDE DEF m
<1>4. Mapped(m, bs) \in Seq(Seq(Emissions))
  BY <1>1, MappedType
<1>5. FlattenSeq(Mapped(m, bs)) \in Seq(Emissions)
  BY <1>4, FlattenType
<1>6. ASSUME NEW b \in T
      PROVE  Merged(Append(bs, b)) = Merged(bs) \o Piece(b)
  <2>1. Append(bs, b) \in Seq(T) /\ m[b] \in Seq(Emissions)
    BY <1>1, AppendOne DEF Maps
  <2>2. Mapped(m, Append(bs, b)) = Append(Mapped(m, bs), m[b])
    BY <1>1, MappedOne
  <2>3. FlattenSeq(Append(Mapped(m, bs), m[b])) = FlattenSeq(Mapped(m, bs)) \o m[b]
    BY <1>4, <2>1, FlattenAppend
  <2> QED
    BY <1>2, <1>3, <2>1, <2>2, <2>3
<1> QED
  BY <1>2, <1>5, <1>6

\* Every change in the blocks is before the end of one of them.
Ended(bs, t) == \A i \in 1 .. Len(bs) : bs[i].end <= t
Precedes(q, t) == \A i \in 1 .. Len(q) : q[i].time <= t

LEMMA OrderedAppend ==
  ASSUME NEW T, NEW bs, NEW b, Valids(T), bs \in Seq(T), b \in T, Ordered(Append(bs, b))
  PROVE  /\ Ordered(bs) /\ Ended(bs, b.start) /\ b.start \in Nat /\ b.end \in Nat
         /\ \A t \in Nat : Ended(Append(bs, b), t) => b.end <= t
<1> DEFINE n == Len(bs)
           cs == Append(bs, b)
<1>1. /\ n \in Nat /\ Len(cs) = n + 1 /\ cs[n + 1] = b
      /\ \A i \in 1 .. n : cs[i] = bs[i]
  BY AppendOne
<1>2. b.start \in Nat /\ b.end \in Nat
  BY DEF Valids, Valid
<1>3. Ordered(cs)
  OBVIOUS
<1> HIDE DEF cs
<1>4. \A i, j \in 1 .. n : i \in 1 .. Len(cs) /\ j \in 1 .. Len(cs) /\ cs[i] = bs[i] /\ cs[j] = bs[j]
  BY <1>1
<1>5. Ordered(bs)
  BY <1>3, <1>4 DEF Ordered
<1>6. Ended(bs, b.start)
  <2>1. \A i \in 1 .. n : i \in 1 .. Len(cs) /\ n + 1 \in 1 .. Len(cs) /\ i < n + 1
    BY <1>1
  <2>2. \A i \in 1 .. n : cs[i].end <= cs[n + 1].start
    BY <1>3, <2>1 DEF Ordered
  <2> QED
    BY <1>1, <2>2 DEF Ended
<1>7. \A t \in Nat : Ended(cs, t) => b.end <= t
  <2>1. n + 1 \in 1 .. Len(cs)
    BY <1>1
  <2> QED
    BY <1>1, <2>1 DEF Ended
<1> QED
  BY <1>2, <1>5, <1>6, <1>7 DEF cs

Merges(bs) ==
  /\ Climbs(Merged(bs))
  /\ \A t \in Nat : Ended(bs, t) => Precedes(Merged(bs), t)
  /\ \A s \in Signals : Filter(Merged(bs), SignalIs(Emissions, s)) = Recorded(bs, s)

LEMMA MergedIs ==
  ASSUME NEW T, Valids(T)
  PROVE  \A bs \in Seq(T) : Ordered(bs) => Merges(bs)
<1> DEFINE P == {bs \in Seq(T) : Ordered(bs) => Merges(bs)}
<1>0. Sounds(T)
  BY ValidSound DEF Valids, Sounds
<1>1. << >> \in P
  <2>1. << >> \in Seq(T) /\ Len(<< >>) = 0 /\ DOMAIN << >> = {}
    BY EmptySeq
  <2>2. \A S : Filter(<< >>, S) = << >>
    BY FilterEmpty
  <2>3. Merges(<< >>)
    BY <2>1, <2>2, MergedNone, RecordedNone DEF Merges, Climbs, Precedes
  <2> QED
    BY <2>1, <2>3
<1>2. ASSUME NEW bs \in Seq(T), NEW b \in T, bs \in P PROVE Append(bs, b) \in P
  <2>1. SUFFICES ASSUME Ordered(Append(bs, b)) PROVE Merges(Append(bs, b))
    BY AppendOne
  <2> DEFINE cs == Append(bs, b)
             q == Merged(bs)
             r == Piece(b)
  <2>2. /\ Ordered(bs) /\ Ended(bs, b.start) /\ b.start \in Nat /\ b.end \in Nat
        /\ \A t \in Nat : Ended(cs, t) => b.end <= t
    BY <2>1, OrderedAppend
  <2>3. Merges(bs)
    BY <1>2, <2>2
  <2>4. q \in Seq(Emissions) /\ Merged(cs) = q \o r
    BY MergedAppend
  <2>5. /\ r \in Seq(Emissions) /\ Climbs(r) /\ r \in Seq(Within(Emissions, b.start, b.end))
        /\ \A s \in Signals : Filter(r, SignalIs(Emissions, s)) = Row(b, s)
    BY PieceIs DEF Valids
  <2>6. /\ Climbs(q) /\ Precedes(q, b.start)
        /\ \A s \in Signals : Filter(q, SignalIs(Emissions, s)) = Recorded(bs, s)
    BY <2>2, <2>3 DEF Merges
  <2>7. \A s \in Signals : Recorded(cs, s) = Recorded(bs, s) \o Row(b, s)
    BY <1>0, RecordedAppend DEF Row
  <2> HIDE DEF cs, q, r
  <2>8. /\ Len(r) \in Nat /\ Len(q) \in Nat
        /\ \A i \in 1 .. Len(r) : b.start <= r[i].time /\ r[i].time <= b.end /\ r[i].time \in Nat
        /\ \A i \in 1 .. Len(q) : q[i].time \in Nat
    <3>1. /\ Len(r) \in Nat /\ Len(q) \in Nat
          /\ \A i \in 1 .. Len(r) : r[i] \in Within(Emissions, b.start, b.end)
          /\ \A i \in 1 .. Len(q) : q[i] \in Emissions
      BY <2>4, <2>5, LenProperties, ElementOfSeq
    <3>2. \A e \in Emissions : e.time \in Nat
      BY DEF Emissions
    <3>3. \A e \in Within(Emissions, b.start, b.end) :
            b.start <= e.time /\ e.time <= b.end /\ e.time \in Nat
      BY <3>2 DEF Within, InWindow
    <3> QED
      BY <3>1, <3>2, <3>3
  <2>9. Climbs(q \o r)
    <3> DEFINE t == b.start
    <3>1. /\ \A i \in 1 .. Len(q) : q[i].time <= t
          /\ \A i \in 1 .. Len(r) : t <= r[i].time
          /\ t \in Nat
      BY <2>2, <2>6, <2>8 DEF Precedes
    <3> HIDE DEF t
    <3> QED
      BY <2>4, <2>5, <2>6, <3>1, ClimbsJoin
  <2>10. ASSUME NEW t \in Nat, Ended(cs, t) PROVE Precedes(q \o r, t)
    <3>1. b.end <= t
      BY <2>2, <2>10
    <3>2. b.start <= b.end
      BY DEF Valids, Valid
    <3>3. \A i \in 1 .. Len(q) : q[i].time <= t
      BY <2>2, <2>6, <2>8, <3>1, <3>2 DEF Precedes
    <3>4. \A i \in 1 .. Len(r) : r[i].time <= t
      BY <2>2, <2>8, <3>1
    <3>5. /\ Len(q \o r) = Len(q) + Len(r)
          /\ \A i \in 1 .. Len(q) : (q \o r)[i] = q[i]
          /\ \A i \in 1 .. Len(r) : (q \o r)[Len(q) + i] = r[i]
      BY <2>4, <2>5, JoinTwo
    <3> DEFINE p == q \o r
    <3> HIDE DEF p
    <3>6. ASSUME NEW i \in 1 .. Len(p) PROVE p[i].time <= t
      <4>1. CASE i <= Len(q)
        BY <2>8, <3>3, <3>5, <4>1 DEF p
      <4>2. CASE i > Len(q)
        <5> DEFINE l == i - Len(q)
        <5>1. l \in 1 .. Len(r) /\ Len(q) + l = i
          BY <2>8, <3>5, <4>2 DEF p
        <5> HIDE DEF l
        <5> QED
          BY <3>4, <3>5, <5>1 DEF p
      <4> QED
        BY <2>8, <3>5, <4>1, <4>2 DEF p
    <3> QED
      BY <3>6 DEF Precedes, p
  <2>11. ASSUME NEW s \in Signals
         PROVE  Filter(q \o r, SignalIs(Emissions, s)) = Recorded(cs, s)
    <3>1. Filter(q \o r, SignalIs(Emissions, s))
            = Filter(q, SignalIs(Emissions, s)) \o Filter(r, SignalIs(Emissions, s))
      BY <2>4, <2>5, FilterJoin
    <3> QED
      BY <2>5, <2>6, <2>7, <3>1
  <2> QED
    BY <2>4, <2>9, <2>10, <2>11 DEF Merges, cs
<1> HIDE DEF P
<1>3. \A bs \in Seq(T) : bs \in P
  BY <1>1, <1>2, Lists
<1> QED
  BY <1>3 DEF P

LEMMA RecordedBounded ==
  ASSUME IInv, NEW s, s \in DOMAIN wave.columns
  PROVE  Filter(Recorded(blocks, s), Within(Emissions, 0, MaxTime)) = Recorded(blocks, s)
<1> DEFINE W == Within(Emissions, 0, MaxTime)
<1>1. TimesOK(wave) /\ HistoryOK(wave, history, kept)
  BY DEF IInv, Recording
<1>2. HistoryOK(wave, Prefix, kept)
  <2>1. \A i \in 1 .. kept : i \in 1 .. Len(history)
    <3>1. kept \in 0 .. Len(history) /\ Len(history) \in Nat
      BY <1>1, KeepsKept DEF HistoryOK, IInv
    <3> QED
      BY <3>1
  <2>2. /\ Prefix \in Seq(Emissions) /\ Len(Prefix) = kept /\ kept \in Nat /\ Climbs(Prefix)
        /\ \A i \in 1 .. kept : Prefix[i] = history[i]
    BY PrefixType
  <2> QED
    BY <1>1, <2>1, <2>2 DEF HistoryOK
<1>3. OwnOf(Prefix, s) \in Seq(W)
  BY <1>1, <1>2, OwnBounded
<1>4. Recorded(blocks, s) = WorthOf(deduplicate, s, OwnOf(Prefix, s))
  BY WorthRecorded
<1>5. Recorded(blocks, s) \in Seq(W)
  BY <1>3, <1>4, WorthType
<1> HIDE DEF W
<1>6. Filter(Recorded(blocks, s), W) = Recorded(blocks, s)
  BY <1>5, FilterAll
<1> QED
  BY <1>6 DEF W

\* All that is recorded lies in the longest window.
LEMMA AllRelevant ==
  ASSUME IInv
  PROVE  Relevant(0, MaxTime) = blocks
<1> DEFINE T == Ranged(blocks)
<1>1. blocks \in Seq(T) /\ \A b \in T : Valid(b)
  BY DEF IInv, Recording, FileOK
<1> HIDE DEF T
<1>2. T \subseteq Meeting(T, 0, MaxTime)
  <2>1. ASSUME NEW b \in T PROVE b.start <= MaxTime /\ b.end >= 0
    <3>1. /\ b.start \in Nat /\ b.end \in Nat /\ b.start <= b.end /\ b.end <= MaxTime
          /\ MaxTime \in Nat
      BY <1>1, ConstantsOK DEF Valid, ConstantsOK
    <3> QED
      BY <3>1
  <2> QED
    BY <2>1 DEF Meeting
<1>3. Relevant(0, MaxTime) = Filter(blocks, Meeting(T, 0, MaxTime))
  BY <1>1, AmongBlocks DEF Relevant
<1> QED
  BY <1>1, <1>2, <1>3, FilterAll

\* The merged iteration over a recording is in the order of time and holds
\* the changes of every signal in theirs (MergedInOrder).
LEMMA MergedReads ==
  ASSUME IInv
  PROVE  MergedInOrder
<1> DEFINE all == OrderedChanges(0, MaxTime)
           T == Ranged(blocks)
<1>1. Valids(T) /\ blocks \in Seq(T) /\ Ordered(blocks)
  BY DEF IInv, Recording, FileOK, Valids
<1> HIDE DEF T
<1>2. all = Merged(blocks)
  BY AllRelevant DEF OrderedChanges, Merged, Piece
<1>3. all \in Seq(Emissions)
  BY <1>1, <1>2, MergedAppend
<1>4. Merges(blocks)
  BY <1>1, MergedIs
<1> HIDE DEF all
<1>5. ASSUME NEW i \in 2 .. Len(all) PROVE all[i - 1].time <= all[i].time
  <2>1. Len(all) \in Nat /\ DOMAIN all = 1 .. Len(all)
    BY <1>3, LenProperties
  <2>2. i \in DOMAIN all /\ i - 1 \in DOMAIN all /\ i - 1 <= i
    BY <2>1
  <2> QED
    BY <1>2, <1>4, <2>2 DEF Merges, Climbs
<1>6. ASSUME NEW s \in DOMAIN wave.columns
      PROVE  Among(all, LAMBDA e : e.signal = s) = OfSignal(s, Changes(s, 0, MaxTime))
  <2>1. s \in Signals
    BY WorthRecorded
  <2>2. Among(all, LAMBDA e : e.signal = s) = Filter(all, SignalIs(Emissions, s))
    BY <1>3, AmongSignal
  <2>3. Filter(all, SignalIs(Emissions, s)) = Recorded(blocks, s)
    BY <1>2, <1>4, <2>1 DEF Merges
  <2>4. OfSignal(s, Changes(s, 0, MaxTime))
          = Filter(Recorded(blocks, s), Within(Emissions, 0, MaxTime))
    <3>1. 0 \in Nat /\ MaxTime \in Nat
      BY ConstantsOK DEF ConstantsOK
    <3> QED
      BY <2>1, <3>1, ChangesAre
  <2> QED
    BY <2>2, <2>3, <2>4, RecordedBounded
<1> QED
  BY <1>5, <1>6 DEF MergedInOrder, all

\* ChangesReadBack holds of every recording.
THEOREM ChangesAreRead == Spec => []ChangesReadBack
<1>1. IInv => ChangesReadBack
  BY EachReads, MergedReads DEF ChangesReadBack
<1> QED
  BY <1>1, Inductive, PTL

-----------------------------------------------------------------------------
(* The activity index.  Its recursions go along a sequence, from a first   *)
(* value in a set that every step stays in.                                *)

Runs(f, G, z, s) == f = [i \in 0 .. Len(s) |-> IF i = 0 THEN z ELSE G[<<f[i - 1], s[i]>>]]

LEMMA RunExists ==
  ASSUME NEW A, NEW T, NEW G, NEW z \in A, \A a \in A : \A x \in T : G[<<a, x>>] \in A
  PROVE  \A s \in Seq(T) : \E f : Runs(f, G, z, s) /\ \A i \in 0 .. Len(s) : f[i] \in A
<1> DEFINE P == {s \in Seq(T) : \E f : Runs(f, G, z, s) /\ \A i \in 0 .. Len(s) : f[i] \in A}
<1>1. << >> \in P
  <2> DEFINE f == [i \in 0 .. 0 |-> z]
  <2>1. << >> \in Seq(T) /\ Len(<< >>) = 0
    BY EmptySeq
  <2>2. Runs(f, G, z, << >>) /\ \A i \in 0 .. 0 : f[i] \in A
    BY <2>1 DEF Runs
  <2> QED
    BY <2>1, <2>2
<1>2. ASSUME NEW s \in Seq(T), NEW x \in T, s \in P PROVE Append(s, x) \in P
  <2>1. PICK f : Runs(f, G, z, s) /\ \A i \in 0 .. Len(s) : f[i] \in A
    BY <1>2
  <2> DEFINE n == Len(s)
             t == Append(s, x)
             g == [i \in 0 .. n + 1 |-> IF i = n + 1 THEN G[<<f[n], x>>] ELSE f[i]]
  <2>2. /\ t \in Seq(T) /\ n \in Nat /\ Len(t) = n + 1 /\ t[n + 1] = x
        /\ \A i \in 1 .. n : t[i] = s[i]
    BY AppendOne
  <2> HIDE DEF t
  <2>3. \A i \in 0 .. n : f[i] = IF i = 0 THEN z ELSE G[<<f[i - 1], s[i]>>]
    BY <2>1, <2>2 DEF Runs
  <2>4. ASSUME NEW i \in 0 .. n + 1
        PROVE  g[i] = (IF i = 0 THEN z ELSE G[<<g[i - 1], t[i]>>]) /\ g[i] \in A
    <3>1. CASE i = n + 1
      <4>1. i # 0 /\ i - 1 = n /\ n \in 0 .. n + 1 /\ n # n + 1 /\ t[i] = x
        BY <2>2, <3>1, SMTT(30)
      <4>2. g[i] = G[<<f[n], x>>] /\ g[i - 1] = f[n]
        BY <3>1, <4>1
      <4>3. f[n] \in A
        BY <2>1, <2>2
      <4> HIDE DEF g
      <4> QED
        BY <4>1, <4>2, <4>3
    <3>2. CASE i # n + 1
      <4>1. i \in 0 .. n /\ (i # 0 => i \in 1 .. n /\ i - 1 \in 0 .. n + 1 /\ i - 1 # n + 1)
        BY <2>2, <3>2
      <4> QED
        BY <2>1, <2>2, <2>3, <3>2, <4>1
    <3> QED
      BY <3>1, <3>2
  <2>5. Runs(g, G, z, t) /\ \A i \in 0 .. Len(t) : g[i] \in A
    BY <2>2, <2>4 DEF Runs
  <2> HIDE DEF g
  <2> QED
    BY <2>2, <2>5 DEF t
<1> HIDE DEF P
<1>3. \A s \in Seq(T) : s \in P
  BY <1>1, <1>2, Lists
<1> QED
  BY <1>3 DEF P

\* A property of every place that holds at the first and from each to the next.
LEMMA Along ==
  ASSUME NEW n \in Nat, NEW S, 0 \in S, \A i \in 1 .. n : i - 1 \in S => i \in S
  PROVE  \A i \in 0 .. n : i \in S
<1> DEFINE P == {k \in Nat : k <= n => k \in S}
<1>1. 0 \in P
  OBVIOUS
<1>2. ASSUME NEW k \in Nat, k \in P PROVE k + 1 \in P
  <2>1. CASE k + 1 <= n
    <3>1. k + 1 \in 1 .. n /\ (k + 1) - 1 = k /\ k <= n
      BY <2>1
    <3> QED
      BY <1>2, <3>1
  <2> QED
    BY <2>1
<1> HIDE DEF P
<1>3. \A k \in Nat : k \in P
  BY <1>1, <1>2, Induction
<1> QED
  BY <1>3 DEF P

-----------------------------------------------------------------------------
(* The times that the builder is fed. *)

TimesOf(q) == [i \in DOMAIN q |-> q[i].time]

\* The steps without the values are those of the decoded column.
LEMMA IndexIs ==
  ASSUME NEW kind \in Kinds
  PROVE  \A e \in Seq(Steps) : \A h :
           (h[0] = 0 /\ \A i \in 1 .. Len(e) : h[i] = h[i - 1] + e[i].delta)
             => \A i \in 1 .. Len(e) : Decoded(kind, e)[i].index = h[i]
<1> DEFINE Q(e) == \A h : (h[0] = 0 /\ \A i \in 1 .. Len(e) : h[i] = h[i - 1] + e[i].delta)
                            => \A i \in 1 .. Len(e) : Decoded(kind, e)[i].index = h[i]
           P == {e \in Seq(Steps) : Q(e)}
<1>1. << >> \in P
  <2>1. << >> \in Seq(Steps) /\ Len(<< >>) = 0
    BY EmptySeq
  <2>2. Q(<< >>)
    BY <2>1
  <2> QED
    BY <2>1, <2>2
<1>2. ASSUME NEW e \in Seq(Steps), NEW x \in Steps, e \in P PROVE Append(e, x) \in P
  <2> DEFINE n == Len(e)
             t == Append(e, x)
             d == Decoded(kind, e)
  <2>1. /\ t \in Seq(Steps) /\ n \in Nat /\ Len(t) = n + 1 /\ t[n + 1] = x
        /\ \A i \in 1 .. n : t[i] = e[i]
        /\ \A i \in 1 .. n + 1 : i \in 1 .. n \/ i = n + 1
    BY AppendOne
  <2>2. d \in Seq(Changed) /\ Len(d) = n /\ Decoded(kind, t) = Append(d, Reached(kind, d, x))
    BY DecodedAppend
  <2>3. Reached(kind, d, x) \in Changed
    BY <2>2, ReachedType
  <2>4. Reached(kind, d, x).index = (IF n = 0 THEN 0 ELSE d[n].index) + x.delta
    BY <2>2 DEF Reached
  <2>5. Q(e)
    BY <1>2
  <2> HIDE DEF n, t, d, Q
  <2>6. /\ Append(d, Reached(kind, d, x))[n + 1] = Reached(kind, d, x)
        /\ \A i \in 1 .. n : Append(d, Reached(kind, d, x))[i] = d[i]
    BY <2>2, <2>3, AppendOne
  <2>7. ASSUME NEW h, h[0] = 0, \A i \in 1 .. n + 1 : h[i] = h[i - 1] + t[i].delta
        PROVE  \A i \in 1 .. n + 1 : Append(d, Reached(kind, d, x))[i].index = h[i]
    <3>1. \A i \in 1 .. n : i \in 1 .. n + 1 /\ h[i] = h[i - 1] + e[i].delta
      BY <2>1, <2>7
    <3>2. \A i \in 1 .. n : d[i].index = h[i]
      BY <2>5, <2>7, <3>1 DEF Q, n, d
    <3>3. n + 1 \in 1 .. n + 1 /\ (n + 1) - 1 = n /\ (n # 0 => n \in 1 .. n)
      BY <2>1
    <3>4. h[n + 1] = h[n] + x.delta
      BY <2>1, <2>7, <3>3
    <3>5. h[n + 1] = Reached(kind, d, x).index
      BY <2>4, <2>7, <3>2, <3>3, <3>4
    <3> QED
      BY <2>1, <2>6, <3>2, <3>5
  <2>8. ASSUME NEW h, h[0] = 0, \A i \in 1 .. Len(t) : h[i] = h[i - 1] + t[i].delta
        PROVE  \A i \in 1 .. Len(t) : Decoded(kind, t)[i].index = h[i]
    <3>1. \A i \in 1 .. n + 1 : h[i] = h[i - 1] + t[i].delta
      BY <2>1, <2>8
    <3>2. \A i \in 1 .. n + 1 : Append(d, Reached(kind, d, x))[i].index = h[i]
      BY <2>7, <2>8, <3>1
    <3> QED
      BY <2>1, <2>2, <3>2
  <2>9. Q(t)
    BY <2>8 DEF Q
  <2> QED
    BY <2>1, <2>9 DEF t
<1> HIDE DEF Q
<1>3. \A e \in Seq(Steps) : e \in P
  <2> HIDE DEF P
  <2> QED
    BY <1>1, <1>2, Lists
<1>4. \A e \in Seq(Steps) : Q(e)
  BY <1>3
<1> QED
  BY <1>4 DEF Q

LEMMA IndicesAre ==
  ASSUME NEW kind \in Kinds, NEW e \in Seq(Steps)
  PROVE  Indices(e) = [i \in 1 .. Len(e) |-> Decoded(kind, e)[i].index]
<1> DEFINE Body(f) == [i \in 0 .. Len(e) |-> IF i = 0 THEN 0 ELSE f[i - 1] + e[i].delta]
           G == [p \in Nat \X Steps |-> p[1] + p[2].delta]
           g == CHOOSE f : f = Body(f)
<1>1. \A a \in Nat : \A x \in Steps : G[<<a, x>>] \in Nat
  BY DEF Steps
<1>2. PICK f : Runs(f, G, 0, e) /\ \A i \in 0 .. Len(e) : f[i] \in Nat
  <2> HIDE DEF G
  <2> QED
    BY <1>1, RunExists
<1>3. Len(e) \in Nat /\ DOMAIN e = 1 .. Len(e) /\ \A i \in 1 .. Len(e) : e[i] \in Steps
  BY LenProperties, ElementOfSeq
<1>4. f = Body(f)
  <2>1. ASSUME NEW i \in 0 .. Len(e), i # 0 PROVE G[<<f[i - 1], e[i]>>] = f[i - 1] + e[i].delta
    <3>1. i \in 1 .. Len(e) /\ i - 1 \in 0 .. Len(e)
      BY <1>3, <2>1
    <3> QED
      BY <1>2, <1>3, <3>1
  <2> HIDE DEF G
  <2> QED
    BY <1>2, <2>1 DEF Runs
<1>5. g = Body(g)
  BY <1>4
<1>6. Indices(e) = [i \in DOMAIN e |-> g[i]]
  BY DEF Indices
<1> HIDE DEF g
<1>7. g[0] = 0 /\ \A i \in 1 .. Len(e) : g[i] = g[i - 1] + e[i].delta
  BY <1>3, <1>5
<1>8. \A i \in 1 .. Len(e) : Decoded(kind, e)[i].index = g[i]
  BY <1>7, IndexIs
<1> QED
  BY <1>3, <1>6, <1>8

\* The times that are fed of a signal are those of the changes a block holds.
Fed(b, s) == IF s > b.signals THEN << >> ELSE FedTimes(b, s)

LEMMA FedIs ==
  ASSUME NEW b, NEW s, Valid(b), s \in Signals
  PROVE  Fed(b, s) = TimesOf(Full(b, s))
<1>1. /\ b.start \in Nat /\ b.end \in Nat /\ b.signals \in Nat /\ s \in Nat /\ s >= 1
      /\ Spans(Times(b), b.start, b.end) /\ Kind(s) \in Kinds
  BY SignalsType DEF Valid, Spans
<1>2. CASE s > b.signals
  <2>1. Full(b, s) = << >>
    BY <1>2 DEF Full
  <2> QED
    BY <1>2, <2>1 DEF Fed, TimesOf
<1>3. CASE ~(s > b.signals)
  <2> DEFINE u == Target(b, s)
             e == b.columns[u]
             d == Decoded(Kind(s), e)
             times == Times(b)
  <2>1. s \in 1 .. b.signals
    BY <1>1, <1>3
  <2>2. u \in 1 .. b.signals /\ Kind(u) = Kind(s)
    BY <2>1 DEF Target, Valid
  <2>3. Fed(b, s) = [i \in DOMAIN Indices(e) |-> times[Indices(e)[i] + 1]]
    BY <1>3 DEF Fed, FedTimes, ColumnOf, Target
  <2> HIDE DEF u
  <2>4. e \in Seq(Steps) /\ d \in Seq(Reaching(Len(times)))
    BY <2>2 DEF Valid
  <2>5. Group(s) \notin DOMAIN b.frames => e = << >>
    <3>1. s \in DOMAIN b.aliases => Group(s) \in DOMAIN b.frames
      BY DEF Valid
    <3>2. s \notin DOMAIN b.aliases => u = s
      BY DEF u, Target
    <3> QED
      BY <2>1, <3>1, <3>2 DEF Valid
  <2>6. Indices(e) = [i \in 1 .. Len(e) |-> d[i].index] /\ Len(e) \in Nat
    BY <1>1, <2>4, IndicesAre, LenProperties
  <2>7. Len(d) = Len(e) /\ d \in Seq(Changed)
    BY <1>1, <2>4, DecodedAppend
  <2>8. CASE Group(s) \notin DOMAIN b.frames
    <3>1. Full(b, s) = << >> /\ Len(e) = 0
      BY <2>5, <2>8, EmptySeq DEF Full
    <3> QED
      BY <2>3, <2>6, <3>1 DEF TimesOf
  <2>9. CASE Group(s) \in DOMAIN b.frames
    <3>1. Full(b, s) = Mapped(Timed(times), d)
      BY <1>3, <2>9 DEF Full, Content, u, Target
    <3> HIDE DEF d, e, times
    <3>2. DOMAIN d = 1 .. Len(e) /\ \A i \in 1 .. Len(e) : d[i] \in Reaching(Len(times))
      BY <2>4, <2>6, <2>7, LenProperties, ElementOfSeq
    <3>3. ASSUME NEW i \in 1 .. Len(e)
          PROVE  Mapped(Timed(times), d)[i].time = times[d[i].index + 1]
      BY <3>2 DEF Mapped, Timed
    <3>4. DOMAIN Mapped(Timed(times), d) = 1 .. Len(e)
      BY <3>2 DEF Mapped
    <3>5. TimesOf(Full(b, s)) = [i \in 1 .. Len(e) |-> times[d[i].index + 1]]
      BY <3>1, <3>3, <3>4 DEF TimesOf
    <3>6. Fed(b, s) = [i \in 1 .. Len(e) |-> times[d[i].index + 1]]
      BY <2>3, <2>6
    <3> QED
      BY <3>5, <3>6
  <2> QED
    BY <2>8, <2>9
<1> QED
  BY <1>2, <1>3

-----------------------------------------------------------------------------
(* Stretches: sequences of intervals in order, with a gap between them,    *)
(* that cover a set of times.                                              *)

Stretches == [start : Nat, end : Nat]
Covers(q, t) == \E k \in 1 .. Len(q) : q[k].start <= t /\ t <= q[k].end
Separate(q) ==
  /\ q \in Seq(Stretches) /\ \A k \in 1 .. Len(q) : q[k].start <= q[k].end
  /\ \A k, l \in 1 .. Len(q) : k < l => q[k].end + 1 < q[l].start
Laid(q, C) == Separate(q) /\ C \in SUBSET Nat /\ \A t \in Nat : t \in C <=> Covers(q, t)
Clear(q, o) == \A k \in 1 .. Len(q) : q[k].end + 1 < o

LEMMA LaidNone == Laid(<< >>, {}) /\ \A o : Clear(<< >>, o)
<1>1. << >> \in Seq(Stretches) /\ Len(<< >>) = 0
  BY EmptySeq
<1> QED
  BY <1>1 DEF Laid, Separate, Covers, Clear

LEMMA LaidAt ==
  ASSUME NEW q, NEW C, Laid(q, C)
  PROVE  /\ q \in Seq(Stretches) /\ Len(q) \in Nat /\ DOMAIN q = 1 .. Len(q)
         /\ \A k \in 1 .. Len(q) : /\ q[k] \in Stretches /\ q[k].start \in Nat /\ q[k].end \in Nat
                                   /\ q[k].start <= q[k].end
                                   /\ q[k].start \in C /\ q[k].end \in C
         /\ q # << >> => Len(q) \in 1 .. Len(q) /\ Last(q) = q[Len(q)]
         /\ \A k \in 1 .. Len(q) : q[k].end <= Last(q).end
<1>1. q \in Seq(Stretches) /\ Len(q) \in Nat /\ DOMAIN q = 1 .. Len(q)
  BY DEF Laid, Separate
<1>2. ASSUME NEW k \in 1 .. Len(q)
      PROVE  /\ q[k] \in Stretches /\ q[k].start \in Nat /\ q[k].end \in Nat
             /\ q[k].start <= q[k].end /\ q[k].start \in C /\ q[k].end \in C
  <2>1. q[k] \in Stretches
    BY <1>1, ElementOfSeq
  <2>2. q[k].start \in Nat /\ q[k].end \in Nat /\ q[k].start <= q[k].end
    BY <2>1 DEF Stretches, Laid, Separate
  <2>3. Covers(q, q[k].start) /\ Covers(q, q[k].end)
    BY <2>2 DEF Covers
  <2> QED
    BY <2>1, <2>2, <2>3 DEF Laid
<1>3. Last(q) = q[Len(q)]
  BY DEF Last
<1>4. q # << >> => Len(q) \in 1 .. Len(q)
  BY <1>1, EmptySeq
<1>5. ASSUME NEW k \in 1 .. Len(q) PROVE q[k].end <= Last(q).end
  <2>1. CASE k = Len(q)
    BY <1>2, <1>3, <2>1
  <2>2. CASE k # Len(q)
    <3>0. Len(q) \in Nat
      BY <1>1
    <3>1. Len(q) \in 1 .. Len(q) /\ k < Len(q)
      BY <2>2, <3>0
    <3>2. q[k].end + 1 < q[Len(q)].start
      BY <3>1 DEF Laid, Separate
    <3> QED
      BY <1>2, <1>3, <3>1, <3>2
  <2> QED
    BY <2>1, <2>2
<1> QED
  BY <1>1, <1>2, <1>3, <1>4, <1>5

\* One more stretch, after the others.
LEMMA LaidAfter ==
  ASSUME NEW q, NEW C, NEW o, NEW l, NEW r,
         Laid(q, C), Clear(q, o), o \in Nat, l \in Nat, o <= l, r = [start |-> o, end |-> l]
  PROVE  Laid(Append(q, r), C \cup (o .. l)) /\ \A m \in Nat : l + 1 < m => Clear(Append(q, r), m)
<1> DEFINE p == Append(q, r)
           n == Len(q)
<1>1. r \in Stretches /\ r.start = o /\ r.end = l
  BY DEF Stretches
<1>2. /\ q \in Seq(Stretches) /\ n \in Nat
      /\ \A k \in 1 .. n : q[k].start \in Nat /\ q[k].end \in Nat /\ q[k].start <= q[k].end
  BY LaidAt
<1>3. /\ p \in Seq(Stretches) /\ Len(p) = n + 1 /\ p[n + 1] = r
      /\ \A k \in 1 .. n : p[k] = q[k]
      /\ \A k \in 1 .. n + 1 : k \in 1 .. n \/ k = n + 1
  BY <1>1, <1>2, AppendOne
<1>4. \A k \in 1 .. n : q[k].end + 1 < o
  BY DEF Clear
<1> HIDE DEF p, n
<1>5. \A k \in 1 .. n + 1 : p[k].start <= p[k].end
  BY <1>1, <1>2, <1>3
<1>6. ASSUME NEW k \in 1 .. n + 1, NEW m \in 1 .. n + 1, k < m PROVE p[k].end + 1 < p[m].start
  <2>1. k \in 1 .. n
    BY <1>2, <1>6
  <2>2. CASE m \in 1 .. n
    <3>1. q[k].end + 1 < q[m].start
      BY <1>6, <2>1, <2>2 DEF Laid, Separate, n
    <3> QED
      BY <1>3, <2>1, <2>2, <3>1
  <2>3. CASE m = n + 1
    BY <1>1, <1>3, <1>4, <2>1, <2>3
  <2> QED
    BY <1>3, <2>2, <2>3
<1>7. ASSUME NEW t \in Nat PROVE t \in C \cup (o .. l) <=> Covers(p, t)
  <2>1. t \in C <=> \E k \in 1 .. n : q[k].start <= t /\ t <= q[k].end
    BY DEF Laid, Covers, n
  <2>2. t \in o .. l <=> r.start <= t /\ t <= r.end
    BY <1>1
  <2>3. Covers(p, t) <=> (\E k \in 1 .. n : p[k].start <= t /\ t <= p[k].end)
                           \/ (p[n + 1].start <= t /\ t <= p[n + 1].end)
    <3>1. n + 1 \in 1 .. n + 1 /\ \A k \in 1 .. n : k \in 1 .. n + 1
      BY <1>2
    <3> QED
      BY <1>3, <3>1 DEF Covers
  <2> QED
    BY <1>3, <2>1, <2>2, <2>3
<1>8. C \cup (o .. l) \in SUBSET Nat
  BY DEF Laid
<1>9. ASSUME NEW m \in Nat, l + 1 < m PROVE Clear(p, m)
  <2> SUFFICES ASSUME NEW k \in 1 .. n + 1 PROVE p[k].end + 1 < m
    BY <1>3 DEF Clear
  <2>1. CASE k \in 1 .. n
    BY <1>2, <1>3, <1>4, <1>9, <2>1
  <2>2. CASE k = n + 1
    BY <1>1, <1>3, <1>9, <2>2
  <2> QED
    BY <1>3, <2>1, <2>2
<1>10. Laid(p, C \cup (o .. l))
  BY <1>3, <1>5, <1>6, <1>7, <1>8 DEF Laid, Separate
<1> QED
  BY <1>9, <1>10 DEF p

\* The last stretch goes on.
LEMMA LaidLonger ==
  ASSUME NEW q, NEW C, NEW l, Laid(q, C), q # << >>, l \in Nat, Last(q).end <= l
  PROVE  Laid([q EXCEPT ![Len(q)].end = l], C \cup (Last(q).end .. l))
<1> DEFINE n == Len(q)
           e == q[n].end
           r == [start |-> q[n].start, end |-> l]
           p == [q EXCEPT ![n] = r]
<1>1. /\ q \in Seq(Stretches) /\ n \in Nat /\ n \in 1 .. n /\ Last(q) = q[n] /\ DOMAIN q = 1 .. n
      /\ \A k \in 1 .. n : /\ q[k] \in Stretches /\ q[k].start \in Nat /\ q[k].end \in Nat
                           /\ q[k].start <= q[k].end
  BY LaidAt
<1>2. r \in Stretches /\ r.start = q[n].start /\ r.end = l
  BY <1>1 DEF Stretches
<1>3. [q EXCEPT ![Len(q)].end = l] = p
  <2>1. [q[n] EXCEPT !.end = l] = r
    BY <1>1 DEF Stretches
  <2> QED
    BY <1>1, <2>1
<1>4. /\ p \in Seq(Stretches) /\ Len(p) = n /\ p[n] = r /\ \A k \in 1 .. n : k # n => p[k] = q[k]
  <2> HIDE DEF r
  <2> QED
    BY <1>1, <1>2, ReplaceOne
<1> HIDE DEF p, n, r
<1>5. \A k \in 1 .. n : p[k].start = q[k].start /\ q[k].end <= p[k].end
                        /\ (k # n => p[k].end = q[k].end) /\ (k = n => p[k].end = l)
  <2> TAKE k \in 1 .. n
  <2>1. CASE k = n
    BY <1>1, <1>2, <1>4, <2>1
  <2>2. CASE k # n
    BY <1>1, <1>4, <2>2
  <2> QED
    BY <2>1, <2>2
<1>6. \A k \in 1 .. n : p[k].start <= p[k].end
  <2> TAKE k \in 1 .. n
  <2> QED
    BY <1>1, <1>4, <1>5, ElementOfSeq DEF Stretches
<1>7. ASSUME NEW k \in 1 .. n, NEW m \in 1 .. n, k < m PROVE p[k].end + 1 < p[m].start
  <2>1. q[k].end + 1 < q[m].start
    BY <1>7 DEF Laid, Separate, n
  <2>2. k # n
    BY <1>1, <1>7
  <2> QED
    BY <1>5, <2>1, <2>2
<1>8. ASSUME NEW t \in Nat PROVE t \in C \cup (Last(q).end .. l) <=> Covers(p, t)
  <2>1. t \in C <=> \E k \in 1 .. n : q[k].start <= t /\ t <= q[k].end
    BY DEF Laid, Covers, n
  <2>2. Covers(p, t) <=> \E k \in 1 .. n : p[k].start <= t /\ t <= p[k].end
    BY <1>4 DEF Covers
  <2>3. ASSUME t \in C PROVE Covers(p, t)
    <3>1. PICK k \in 1 .. n : q[k].start <= t /\ t <= q[k].end
      BY <2>1, <2>3
    <3>2. p[k].start <= t /\ t <= p[k].end
      BY <1>1, <1>4, <1>5, <3>1, ElementOfSeq DEF Stretches
    <3> QED
      BY <2>2, <3>2
  <2>4. ASSUME t \in Last(q).end .. l PROVE Covers(p, t)
    <3>1. p[n].start <= t /\ t <= p[n].end
      BY <1>1, <1>5, <2>4
    <3> QED
      BY <1>1, <2>2, <3>1
  <2>5. ASSUME Covers(p, t) PROVE t \in C \cup (Last(q).end .. l)
    <3>1. PICK k \in 1 .. n : p[k].start <= t /\ t <= p[k].end
      BY <2>2, <2>5
    <3>2. CASE k # n
      BY <1>5, <2>1, <3>1, <3>2
    <3>3. CASE k = n
      <4>1. q[n].start <= t /\ t <= l
        BY <1>5, <3>1, <3>3
      <4>2. t <= q[n].end \/ t \in q[n].end .. l
        BY <1>1, <4>1
      <4> QED
        BY <1>1, <2>1, <4>1, <4>2
    <3> QED
      BY <3>2, <3>3
  <2> QED
    BY <2>3, <2>4, <2>5
<1>9. C \cup (Last(q).end .. l) \in SUBSET Nat
  <2>1. C \in SUBSET Nat /\ Last(q).end \in Nat
    BY <1>1 DEF Laid
  <2>2. ASSUME NEW k \in Nat PROVE k .. l \in SUBSET Nat
    OBVIOUS
  <2>3. Last(q).end .. l \in SUBSET Nat
    BY <2>1, <2>2
  <2> QED
    BY <2>1, <2>3
<1>10. Laid(p, C \cup (Last(q).end .. l))
  BY <1>4, <1>6, <1>7, <1>8, <1>9 DEF Laid, Separate
<1> QED
  BY <1>3, <1>10

\* A window meets what is covered just if classify says so.
LEMMA ClassifyIs ==
  ASSUME NEW q, NEW C, NEW a, NEW z, Laid(q, C), a \in Nat, z \in Nat, a <= z
  PROVE  Classify(q, a, z) <=> (a .. z) \cap C # {}
<1> DEFINE n == Len(q)
           ended == {i \in DOMAIN q : q[i].end < a}
           late == {i \in 1 .. n : q[i].end >= a}
           next == Cardinality(ended) + 1
<1>1. /\ n \in Nat /\ DOMAIN q = 1 .. n
      /\ \A k \in 1 .. n : q[k].start \in Nat /\ q[k].end \in Nat /\ q[k].start <= q[k].end
  BY LaidAt
<1>2. Classify(q, a, z) <=> next <= n /\ q[next].start <= z
  BY DEF Classify
<1>3. \A t \in Nat : t \in C <=> \E k \in 1 .. n : q[k].start <= t /\ t <= q[k].end
  BY DEF Laid, Covers
<1>4. \A k, l \in 1 .. n : k < l => q[k].end + 1 < q[l].start
  BY DEF Laid, Separate
<1>5. CASE late = {}
  <2>1. ended = 1 .. n
    BY <1>1, <1>5
  <2>2. next = n + 1
    BY <1>1, <2>1, Interval
  <2>3. ASSUME NEW t \in (a .. z) \cap C PROVE FALSE
    <3>1. PICK k \in 1 .. n : q[k].start <= t /\ t <= q[k].end
      BY <1>3, <2>3
    <3>2. k \in late
      BY <1>1, <2>3, <3>1
    <3> QED
      BY <1>5, <3>2
  <2> HIDE DEF next, n
  <2> QED
    BY <1>1, <1>2, <2>2, <2>3
<1>6. CASE late # {}
  <2>1. late \in SUBSET Nat
    OBVIOUS
  <2>2. PICK m \in late : \A i \in late : m <= i
    BY <1>6, <2>1, Least
  <2>3. m \in 1 .. n /\ m \in Nat /\ q[m].end >= a
    BY <2>2
  <2>4. ended = 1 .. m - 1
    <3>1. ASSUME NEW i \in ended PROVE i \in 1 .. m - 1
      <4>1. i \in 1 .. n /\ q[i].end < a
        BY <1>1
      <4>2. i # m
        BY <1>1, <2>3, <4>1
      <4>3. ~(m < i)
        BY <1>1, <1>4, <2>3, <4>1
      <4> QED
        BY <2>3, <4>1, <4>2, <4>3
    <3>2. ASSUME NEW i \in 1 .. m - 1 PROVE i \in ended
      <4>1. i \in 1 .. n /\ ~(m <= i)
        BY <1>1, <2>3
      <4>2. i \notin late
        BY <2>2, <4>1
      <4> QED
        BY <1>1, <4>1, <4>2
    <3> QED
      BY <3>1, <3>2
  <2>5. m - 1 \in Nat
    BY <2>3
  <2>6. next = m
    <3>1. Cardinality(1 .. m - 1) = m - 1
      BY <2>5, Interval
    <3>2. next = Cardinality(ended) + 1
      OBVIOUS
    <3> HIDE DEF late, ended, next
    <3> QED
      BY <2>3, <2>4, <3>1, <3>2
  <2> HIDE DEF next, late, ended
  <2>7. Classify(q, a, z) <=> q[m].start <= z
    BY <1>1, <1>2, <2>3, <2>6
  <2>8. ASSUME q[m].start <= z PROVE (a .. z) \cap C # {}
    <3> DEFINE t == IF a <= q[m].start THEN q[m].start ELSE a
    <3>1. t \in a .. z /\ t \in Nat /\ q[m].start <= t /\ t <= q[m].end
      BY <1>1, <2>3, <2>8
    <3> HIDE DEF t
    <3>2. t \in C
      BY <1>3, <2>3, <3>1
    <3> QED
      BY <3>1, <3>2
  <2>9. ASSUME NEW t \in (a .. z) \cap C PROVE q[m].start <= z
    <3>1. PICK k \in 1 .. n : q[k].start <= t /\ t <= q[k].end
      BY <1>3, <2>9
    <3>2. k \in late
      BY <1>1, <2>9, <3>1 DEF late
    <3>3. m <= k /\ (m < k => q[m].end + 1 < q[k].start)
      BY <1>4, <2>2, <2>3, <3>2
    <3>4. q[m].start <= q[k].start
      BY <1>1, <2>3, <3>3
    <3> QED
      BY <1>1, <2>3, <2>9, <3>1, <3>4
  <2> QED
    BY <2>7, <2>8, <2>9
<1> QED
  BY <1>5, <1>6

-----------------------------------------------------------------------------
(* The scan of a block. *)

LEMMA PushType ==
  ASSUME NEW q, NEW x, q \in Seq(Stretches), x \in Nat
  PROVE  Push(q, x) \in Seq(Stretches)
<1> DEFINE n == Len(q)
           r == [start |-> x, end |-> x]
<1>1. r \in Stretches /\ n \in Nat
  BY DEF Stretches
<1>2. Append(q, r) \in Seq(Stretches)
  BY <1>1, AppendOne
<1>3. ASSUME q # << >> PROVE [q EXCEPT ![n].end = x] \in Seq(Stretches)
  <2>1. n \in 1 .. n /\ q[n] \in Stretches /\ DOMAIN q = 1 .. n
    <3>1. n \in 1 .. n
      BY <1>1, <1>3, EmptySeq
    <3> QED
      BY <3>1, ElementOfSeq
  <2>2. [q[n] EXCEPT !.end = x] \in Stretches
    BY <2>1 DEF Stretches
  <2>3. [q EXCEPT ![n] = [q[n] EXCEPT !.end = x]] \in Seq(Stretches)
    <3> DEFINE y == [q[n] EXCEPT !.end = x]
    <3> HIDE DEF y, n
    <3>1. [q EXCEPT ![n] = y] \in Seq(Stretches)
      BY <2>1, <2>2, ReplaceOne DEF y, n
    <3> QED
      BY <3>1 DEF y
  <2>4. [q EXCEPT ![n].end = x] = [q EXCEPT ![n] = [q[n] EXCEPT !.end = x]]
    BY <2>1
  <2> QED
    BY <2>3, <2>4
<1> HIDE DEF n, r
<1>5. CASE x <= TMin \/ (q # << >> /\ x <= Last(q).end)
  BY <1>5 DEF Push
<1>6. CASE ~(x <= TMin) /\ q # << >> /\ ~(x <= Last(q).end) /\ x = Last(q).end + 1
  <2>1. Push(q, x) = [q EXCEPT ![n].end = x]
    BY <1>6 DEF Push, n
  <2> QED
    BY <1>3, <1>6, <2>1
<1>7. CASE ~(x <= TMin) /\ ~(q # << >> /\ x <= Last(q).end) /\ ~(q # << >> /\ x = Last(q).end + 1)
  <2>1. Push(q, x) = Append(q, r)
    BY <1>7, Zenon DEF Push, r
  <2> QED
    BY <1>2, <2>1
<1> QED
  BY <1>5, <1>6, <1>7

\* A push covers one more time, if that is one of activity.
LEMMA PushLaid ==
  ASSUME NEW q, NEW C, NEW x, Laid(q, C), x \in Nat, TMin \in Nat, \A t \in C : t <= x
  PROVE  Laid(Push(q, x), IF x <= TMin THEN C ELSE C \cup {x})
<1> DEFINE n == Len(q)
           r == [start |-> x, end |-> x]
           e == Last(q).end
<1>1. /\ q \in Seq(Stretches) /\ n \in Nat /\ (q # << >> => n \in 1 .. n /\ Last(q) = q[n])
      /\ \A k \in 1 .. n : q[k].end \in Nat /\ q[k].end \in C /\ q[k].end <= e
  BY LaidAt
<1>2. q # << >> => e \in Nat /\ e \in C /\ e <= x
  BY <1>1
<1>3. CASE x <= TMin
  BY <1>3 DEF Push
<1>4. CASE ~(x <= TMin) /\ q # << >> /\ x <= e
  <2>1. C \cup {x} = C
    BY <1>2, <1>4
  <2>2. Push(q, x) = q
    BY <1>4 DEF Push
  <2> QED
    BY <1>4, <2>1, <2>2
<1>5. CASE ~(x <= TMin) /\ q # << >> /\ ~(x <= e) /\ x = e + 1
  <2>1. Push(q, x) = [q EXCEPT ![n].end = x]
    BY <1>5 DEF Push
  <2>2. Laid([q EXCEPT ![n].end = x], C \cup (e .. x))
    BY <1>2, <1>5, LaidLonger
  <2>3. C \cup (e .. x) = C \cup {x}
    <3> HIDE DEF e
    <3>1. e .. x = {e, x}
      BY <1>2, <1>5
    <3> QED
      BY <1>2, <1>5, <3>1
  <2> QED
    BY <1>5, <2>1, <2>2, <2>3
<1>6. CASE ~(x <= TMin) /\ ~(q # << >> /\ x <= e) /\ ~(q # << >> /\ x = e + 1)
  <2>1. Push(q, x) = Append(q, r)
    BY <1>6, Zenon DEF Push
  <2>2. Clear(q, x)
    <3>1. CASE q = << >>
      BY <3>1, LaidNone
    <3>2. CASE q # << >>
      <4> HIDE DEF e
      <4>1. e + 1 < x
        BY <1>2, <1>6, <3>2
      <4> QED
        BY <1>1, <1>2, <3>2, <4>1 DEF Clear
    <3> QED
      BY <3>1, <3>2
  <2>3. Laid(Append(q, r), C \cup (x .. x))
    <3>1. x <= x /\ r = [start |-> x, end |-> x]
      OBVIOUS
    <3> HIDE DEF r
    <3> QED
      BY <2>2, <3>1, LaidAfter
  <2>4. x .. x = {x}
    OBVIOUS
  <2> QED
    BY <1>6, <2>1, <2>3, <2>4
<1> QED
  BY <1>3, <1>4, <1>5, <1>6

\* The times of activity that a block holds of a signal.
Active(b, s) == {t \in Nat : t > TMin /\ \E i \in 1 .. Len(Full(b, s)) : Full(b, s)[i].time = t}

LEMMA ScanIs ==
  ASSUME NEW b, NEW s, Valid(b), s \in Signals, TMin \in Nat
  PROVE  Laid(ScanBlock(b, s), Active(b, s))
<1> DEFINE times == Fed(b, s)
           n == Len(times)
           Body(f) == [i \in 0 .. n |-> IF i = 0 THEN << >> ELSE Push(f[i - 1], times[i])]
           G == [p \in Seq(Stretches) \X Nat |-> Push(p[1], p[2])]
           g == CHOOSE f : f = Body(f)
           F == Full(b, s)
<1>1. ScanBlock(b, s) = g[n]
  BY DEF ScanBlock, Fed
<1>2. times = TimesOf(F)
  BY FedIs
<1>3. F \in Seq(Read) /\ Climbs(F) /\ Len(F) \in Nat /\ DOMAIN F = 1 .. Len(F)
  <2>1. Sound(b)
    BY ValidSound
  <2>2. F \in Seq(Read) /\ Climbs(F)
    BY <2>1, FullType DEF Sound
  <2> HIDE DEF F
  <2> QED
    BY <2>2, LenProperties
<1> HIDE DEF F
<1>4. /\ times \in Seq(Nat) /\ n = Len(F) /\ n \in Nat
      /\ \A i \in 1 .. n : times[i] = F[i].time /\ times[i] \in Nat
  <2>1. \A i \in 1 .. Len(F) : F[i].time \in Nat
    <3>1. \A i \in 1 .. Len(F) : F[i] \in Read
      BY <1>3, ElementOfSeq
    <3> QED
      BY <3>1 DEF Read
  <2>2. times = [i \in 1 .. Len(F) |-> F[i].time]
    BY <1>2, <1>3 DEF TimesOf
  <2> HIDE DEF times
  <2> QED
    BY <1>3, <2>1, <2>2
<1>5. \A i, j \in 1 .. n : i <= j => times[i] <= times[j]
  BY <1>3, <1>4 DEF Climbs
<1> HIDE DEF times, n
<1>6. PICK f : Runs(f, G, << >>, times) /\ \A i \in 0 .. n : f[i] \in Seq(Stretches)
  <2>1. << >> \in Seq(Stretches)
    BY EmptySeq
  <2>2. \A q \in Seq(Stretches) : \A x \in Nat : G[<<q, x>>] \in Seq(Stretches)
    BY PushType
  <2> HIDE DEF G
  <2> QED
    BY <1>4, <2>1, <2>2, RunExists DEF n
<1>7. f = Body(f)
  <2>1. ASSUME NEW i \in 0 .. n, i # 0 PROVE G[<<f[i - 1], times[i]>>] = Push(f[i - 1], times[i])
    <3>1. i \in 1 .. n /\ i - 1 \in 0 .. n
      BY <1>4, <2>1
    <3> QED
      BY <1>4, <1>6, <3>1
  <2> HIDE DEF G
  <2> QED
    BY <1>6, <2>1 DEF Runs, n
<1>8. g = Body(g)
  BY <1>7
<1> HIDE DEF g
<1>9. g[0] = << >> /\ \A i \in 1 .. n : g[i] = Push(g[i - 1], times[i])
  BY <1>4, <1>8
<1> DEFINE A(i) == {t \in Nat : t > TMin /\ \E j \in 1 .. i : times[j] = t}
           S == {i \in 0 .. n : Laid(g[i], A(i))}
<1>10. 0 \in S
  <2>1. A(0) = {}
    OBVIOUS
  <2>2. Laid(g[0], A(0))
    <3> HIDE DEF A
    <3> QED
      BY <1>9, <2>1, LaidNone
  <2>3. 0 \in 0 .. n
    BY <1>4
  <2> HIDE DEF A
  <2> QED
    BY <2>2, <2>3
<1>11. ASSUME NEW i \in 1 .. n, i - 1 \in S PROVE i \in S
  <2> DEFINE x == times[i]
             C == A(i - 1)
  <2>1. x \in Nat /\ Laid(g[i - 1], C) /\ i \in Nat /\ i <= n
    BY <1>4, <1>11
  <2>2. \A t \in C : t <= x
    <3>1. \A j \in 1 .. i - 1 : j \in 1 .. n /\ j <= i
      BY <1>4, <2>1
    <3> QED
      BY <1>5, <3>1
  <2>3. A(i) = IF x <= TMin THEN C ELSE C \cup {x}
    <3>1. \A j : j \in 1 .. i <=> j \in 1 .. i - 1 \/ j = i
      BY <2>1
    <3> QED
      BY <2>1, <3>1
  <2> HIDE DEF x, C, A
  <2>4. Laid(Push(g[i - 1], x), IF x <= TMin THEN C ELSE C \cup {x})
    BY <2>1, <2>2, PushLaid
  <2>5. Laid(g[i], A(i))
    BY <1>9, <2>3, <2>4 DEF x
  <2> QED
    BY <1>4, <2>5
<1>12. \A i \in 0 .. n : i \in S
  <2> HIDE DEF S
  <2> QED
    BY <1>4, <1>10, <1>11, Along
<1>13. Laid(g[n], A(n))
  <2>1. n \in 0 .. n
    BY <1>4
  <2> HIDE DEF A
  <2> QED
    BY <1>12, <2>1
<1>14. A(n) = Active(b, s)
  BY <1>4 DEF Active, F
<1> QED
  BY <1>1, <1>13, <1>14 DEF n

-----------------------------------------------------------------------------
(* The builder against the decoder: what is open of a signal is what the   *)
(* list that has been read so far waits for.                               *)

Sigs == [last : Nat, open : Nat, gap : {0, 1}]
Gaps == [length : Int, silence : Int, gap : {0, 1}]
Partly == [sig : Sigs, closed : Seq(Gaps)]
Partials == [start : Int, stretches : Seq([start : Int, end : Int]), ok : BOOLEAN]

Waits(sig, list, C) ==
  /\ sig \in Sigs /\ sig.open > TMin /\ sig.open <= sig.last /\ (sig.last = sig.open <=> sig.gap = 0)
  /\ list.ok = TRUE /\ list.start = sig.open
  /\ \E B : /\ Laid(list.stretches, B) /\ Clear(list.stretches, sig.open)
            /\ C = B \cup (sig.open .. sig.last)

\* A stretch right after the last one, or at its end, makes that longer.
LEMMA StepJoins ==
  ASSUME NEW r, NEW list, NEW C, NEW x, NEW y, Waits(r.sig, list, C), TMin \in Nat,
         x \in Stretches, x.start <= x.end, r.sig.last <= x.start, ~(x.start > r.sig.last + 1),
         y = Step(r, x)
  PROVE  y.closed = r.closed /\ y.sig.last = x.end /\ Waits(y.sig, list, C \cup (x.start .. x.end))
<1> DEFINE o == r.sig.open
           l == r.sig.last
           a == x.start
           e == x.end
           g == IF e > a \/ a = l + 1 THEN 1 ELSE r.sig.gap
<1>1. /\ o \in Nat /\ l \in Nat /\ a \in Nat /\ e \in Nat /\ r.sig.gap \in {0, 1} /\ o > TMin /\ o <= l
      /\ (l = o <=> r.sig.gap = 0) /\ a <= e /\ l <= a /\ ~(a > l + 1)
  BY DEF Waits, Sigs, Stretches
<1>2. l # 0
  BY <1>1
<1>3. y = [sig |-> [last |-> e, open |-> o, gap |-> g], closed |-> r.closed]
  BY <1>1, <1>2 DEF Step
<1> HIDE DEF g
<1>4. y.closed = r.closed /\ y.sig = [last |-> e, open |-> o, gap |-> g]
  BY <1>3
<1>5. g \in {0, 1} /\ (e = o <=> g = 0)
  BY <1>1 DEF g
<1>6. PICK B : Laid(list.stretches, B) /\ Clear(list.stretches, o) /\ C = B \cup (o .. l)
  BY DEF Waits
<1>7. C \cup (a .. e) = B \cup (o .. e)
  <2> HIDE DEF o, l, a, e
  <2>1. \A t : t \in (o .. l) \/ t \in (a .. e) <=> t \in o .. e
    BY <1>1
  <2> QED
    BY <1>6, <2>1
<1>8. list.ok = TRUE /\ list.start = o
  BY DEF Waits
<1> HIDE DEF o, l, a, e
<1>9. y.sig \in Sigs /\ y.sig.last = e /\ y.sig.open = o /\ y.sig.gap = g
  BY <1>1, <1>4, <1>5 DEF Sigs
<1>10. Waits(y.sig, list, C \cup (a .. e))
  <2>1. o > TMin /\ o <= e
    BY <1>1
  <2> QED
    BY <1>5, <1>6, <1>7, <1>8, <1>9, <2>1 DEF Waits
<1> QED
  BY <1>4, <1>9, <1>10 DEF a, e

\* One that comes later closes it.
LEMMA StepCloses ==
  ASSUME NEW r, NEW list, NEW C, NEW x, NEW y, NEW row, Waits(r.sig, list, C), TMin \in Nat,
         x \in Stretches, x.start <= x.end, x.start > r.sig.last + 1,
         row.end \in Nat, x.start <= row.end, y = Step(r, x)
  PROVE  \E c \in Gaps : /\ y.closed = Append(r.closed, c) /\ y.sig.last = x.end
                         /\ Waits(y.sig, Closes(list, c, row), C \cup (x.start .. x.end))
<1> DEFINE o == r.sig.open
           l == r.sig.last
           a == x.start
           e == x.end
           g == IF e > a THEN 1 ELSE 0
           c == [length |-> l - o, silence |-> a - l, gap |-> r.sig.gap]
           d == [start |-> o, end |-> l]
           k == Closes(list, c, row)
<1>1. /\ o \in Nat /\ l \in Nat /\ a \in Nat /\ e \in Nat /\ r.sig.gap \in {0, 1} /\ o > TMin /\ o <= l
      /\ (l = o <=> r.sig.gap = 0) /\ a <= e /\ a > l + 1
  BY DEF Waits, Sigs, Stretches
<1>2. l # 0 /\ a # l + 1
  BY <1>1
<1>3. y = [sig |-> [last |-> e, open |-> a, gap |-> g], closed |-> Append(r.closed, c)]
  BY <1>1, <1>2 DEF Step
<1>4. c \in Gaps /\ c.length = l - o /\ c.silence = a - l /\ c.gap = r.sig.gap
  BY <1>1 DEF Gaps
<1>5. g \in {0, 1} /\ (e = a <=> g = 0)
  BY <1>1
<1> HIDE DEF g, c
<1>6. y.closed = Append(r.closed, c) /\ y.sig = [last |-> e, open |-> a, gap |-> g]
  BY <1>3
<1>7. PICK B : Laid(list.stretches, B) /\ Clear(list.stretches, o) /\ C = B \cup (o .. l)
  BY DEF Waits
<1>8. list.ok = TRUE /\ list.start = o
  BY DEF Waits
<1>9. k = [start |-> (list.start + c.length) + c.silence,
           stretches |-> Append(list.stretches, [start |-> list.start, end |-> list.start + c.length]),
           ok |-> list.ok /\ list.start # 0 /\ c.silence > 1
                  /\ (list.start + c.length) + c.silence <= row.end
                  /\ (c.length = 0) = (c.gap = 0)]
  BY DEF Closes
<1> HIDE DEF k, o, l, a, e
<1>10. list.start + c.length = l /\ (list.start + c.length) + c.silence = a
  BY <1>1, <1>4, <1>8
<1>11. list.start # 0 /\ c.silence > 1 /\ a <= row.end /\ ((c.length = 0) = (c.gap = 0))
  BY <1>1, <1>4, <1>8 DEF a
<1>12. k.start = a /\ k.stretches = Append(list.stretches, d) /\ k.ok = TRUE
  BY <1>8, <1>9, <1>10, <1>11
<1>13. Laid(Append(list.stretches, d), C) /\ Clear(Append(list.stretches, d), a)
  <2>1. d = [start |-> o, end |-> l]
    OBVIOUS
  <2>2. l + 1 < a
    BY <1>1
  <2> HIDE DEF d
  <2> QED
    BY <1>1, <1>7, <2>1, <2>2, LaidAfter
<1>14. y.sig \in Sigs /\ y.sig.last = e /\ y.sig.open = a /\ y.sig.gap = g
  BY <1>1, <1>5, <1>6 DEF Sigs
<1>15. Waits(y.sig, k, C \cup (a .. e))
  <2>1. a > TMin /\ a <= e
    BY <1>1
  <2> HIDE DEF d
  <2> QED
    BY <1>5, <1>12, <1>13, <1>14, <2>1 DEF Waits
<1> QED
  BY <1>4, <1>6, <1>14, <1>15 DEF k, a, e

\* The first one of a signal opens its list.
LEMMA StepOpens ==
  ASSUME NEW r, NEW x, NEW y, NEW list, r.sig = Sig, TMin \in Nat,
         x \in Stretches, x.start <= x.end, x.start > TMin, y = Step(r, x),
         list = [start |-> x.start, stretches |-> << >>, ok |-> TRUE]
  PROVE  y.closed = r.closed /\ y.sig.last = x.end /\ Waits(y.sig, list, x.start .. x.end)
<1> DEFINE a == x.start
           e == x.end
           g == IF e > a THEN 1 ELSE 0
<1>1. a \in Nat /\ e \in Nat /\ a <= e /\ a > TMin
  BY DEF Stretches
<1>2. r.sig.last = 0 /\ r.sig.open = 0 /\ r.sig.gap = 0
  BY DEF Sig
<1>3. y = [sig |-> [last |-> e, open |-> a, gap |-> g], closed |-> r.closed]
  BY <1>2 DEF Step
<1>4. g \in {0, 1} /\ (e = a <=> g = 0)
  BY <1>1
<1> HIDE DEF g, a, e
<1>5. y.closed = r.closed /\ y.sig = [last |-> e, open |-> a, gap |-> g]
  BY <1>3
<1>6. y.sig \in Sigs /\ y.sig.last = e /\ y.sig.open = a /\ y.sig.gap = g
  BY <1>1, <1>4, <1>5 DEF Sigs
<1>7. list.start = a /\ list.stretches = << >> /\ list.ok = TRUE
  BY DEF a
<1>8. Waits(y.sig, list, a .. e)
  <2>1. a .. e = {} \cup (a .. e)
    OBVIOUS
  <2> QED
    BY <1>1, <1>4, <1>6, <1>7, <2>1, LaidNone DEF Waits
<1> QED
  BY <1>5, <1>6, <1>8 DEF a, e

-----------------------------------------------------------------------------
(* A row of the section of a block. *)

LEMMA StepType ==
  ASSUME NEW r, NEW x, r \in Partly, x \in Stretches
  PROVE  Step(r, x) \in Partly
<1> DEFINE c == [length |-> r.sig.last - r.sig.open, silence |-> x.start - r.sig.last,
                 gap |-> r.sig.gap]
<1>1. /\ r.sig.last \in Nat /\ r.sig.open \in Nat /\ r.sig.gap \in {0, 1} /\ r.closed \in Seq(Gaps)
      /\ x.start \in Nat /\ x.end \in Nat
  BY DEF Partly, Sigs, Stretches
<1>2. c \in Gaps
  BY <1>1 DEF Gaps
<1>3. Append(r.closed, c) \in Seq(Gaps)
  BY <1>1, <1>2, AppendOne
<1>4. PICK g, o, cs : /\ Step(r, x) = [sig |-> [last |-> x.end, open |-> o, gap |-> g], closed |-> cs]
                      /\ g \in {1, 0, r.sig.gap} /\ o \in {x.start, r.sig.open}
                      /\ cs \in {Append(r.closed, c), r.closed}
  BY DEF Step
<1> HIDE DEF c
<1>5. g \in {0, 1} /\ o \in Nat /\ cs \in Seq(Gaps)
  BY <1>1, <1>3, <1>4
<1>6. [last |-> x.end, open |-> o, gap |-> g] \in Sigs
  BY <1>1, <1>5 DEF Sigs
<1> QED
  BY <1>4, <1>5, <1>6 DEF Partly

Stepping(at, sig, q) ==
  /\ at[0] = [sig |-> sig, closed |-> << >>]
  /\ \A i \in 1 .. Len(q) : at[i] = Step(at[i - 1], q[i])
  /\ \A i \in 0 .. Len(q) : at[i] \in Partly

LEMMA RowOfIs ==
  ASSUME NEW sig, NEW q, sig \in Sigs, q \in Seq(Stretches)
  PROVE  \E at : Stepping(at, sig, q) /\ RowOf(sig, q) = at[Len(q)]
<1> DEFINE n == Len(q)
           z == [sig |-> sig, closed |-> << >>]
           Body(f) == [i \in 0 .. n |-> IF i = 0 THEN z ELSE Step(f[i - 1], q[i])]
           G == [p \in Partly \X Stretches |-> Step(p[1], p[2])]
           g == CHOOSE f : f = Body(f)
<1>1. RowOf(sig, q) = g[n]
  BY DEF RowOf
<1>2. n \in Nat /\ \A i \in 1 .. n : q[i] \in Stretches
  BY LenProperties, ElementOfSeq
<1>3. z \in Partly
  <2>1. << >> \in Seq(Gaps)
    BY EmptySeq
  <2> QED
    BY <2>1 DEF Partly
<1> HIDE DEF n, z
<1>4. PICK f : Runs(f, G, z, q) /\ \A i \in 0 .. n : f[i] \in Partly
  <2>1. \A r \in Partly : \A x \in Stretches : G[<<r, x>>] \in Partly
    BY StepType
  <2> HIDE DEF G
  <2> QED
    BY <1>3, <2>1, RunExists DEF n
<1>5. f = Body(f)
  <2>1. ASSUME NEW i \in 0 .. n, i # 0 PROVE G[<<f[i - 1], q[i]>>] = Step(f[i - 1], q[i])
    <3>1. i \in 1 .. n /\ i - 1 \in 0 .. n
      BY <1>2, <2>1
    <3> QED
      BY <1>2, <1>4, <3>1
  <2> HIDE DEF G
  <2> QED
    BY <1>4, <2>1 DEF Runs, n
<1>6. g = Body(g)
  BY <1>5
<1> HIDE DEF g
<1>7. g[0] = z /\ \A i \in 1 .. n : g[i] = Step(g[i - 1], q[i])
  BY <1>2, <1>6
<1> DEFINE S == {i \in 0 .. n : g[i] \in Partly}
<1>8. 0 \in S
  BY <1>2, <1>3, <1>7
<1>9. ASSUME NEW i \in 1 .. n, i - 1 \in S PROVE i \in S
  <2>1. Step(g[i - 1], q[i]) \in Partly
    BY <1>2, <1>9, StepType
  <2> QED
    BY <1>2, <1>7, <2>1
<1>10. \A i \in 0 .. n : i \in S
  <2> HIDE DEF S
  <2> QED
    BY <1>2, <1>8, <1>9, Along
<1>11. \A i \in 0 .. n : g[i] \in Partly
  BY <1>10
<1> QED
  BY <1>1, <1>7, <1>11 DEF Stepping, n, z

\* What the first stretches of a sequence cover.
Spread(q, i) == {t \in Nat : \E k \in 1 .. i : q[k].start <= t /\ t <= q[k].end}

\* h reads the closed stretches of a row one after the other.
ReadsRow(h, list, closed, row) ==
  /\ h[0] = list /\ \A i \in 1 .. Len(closed) : h[i] = Closes(h[i - 1], closed[i], row)

LEMMA SpreadNext ==
  ASSUME NEW q, NEW C, NEW i, Laid(q, C), i \in 1 .. Len(q)
  PROVE  /\ Spread(q, i) = Spread(q, i - 1) \cup (q[i].start .. q[i].end)
         /\ q[i] \in Stretches /\ q[i].start <= q[i].end /\ q[i].start \in C
         /\ i > 1 => q[i - 1].end + 1 < q[i].start
<1>1. /\ Len(q) \in Nat /\ q[i] \in Stretches /\ q[i].start \in Nat /\ q[i].end \in Nat
      /\ q[i].start <= q[i].end /\ q[i].start \in C
  BY LaidAt
<1>2. i > 1 => q[i - 1].end + 1 < q[i].start
  <2>1. i > 1 => i - 1 \in 1 .. Len(q) /\ i - 1 < i
    BY <1>1
  <2> QED
    BY <2>1 DEF Laid, Separate
<1>3. \A k : k \in 1 .. i <=> k \in 1 .. i - 1 \/ k = i
  BY <1>1
<1> DEFINE a == q[i].start
           e == q[i].end
<1>4. Spread(q, i) = Spread(q, i - 1) \cup {t \in Nat : a <= t /\ t <= e}
  BY <1>3 DEF Spread
<1>5. {t \in Nat : a <= t /\ t <= e} = a .. e
  <2>1. a \in Nat /\ e \in Nat
    BY <1>1
  <2> HIDE DEF a, e
  <2> QED
    BY <2>1
<1> QED
  BY <1>1, <1>2, <1>4, <1>5

LEMMA SpreadAll ==
  ASSUME NEW q, NEW C, Laid(q, C)
  PROVE  Spread(q, Len(q)) = C /\ Spread(q, 0) = {}
<1>1. C \in SUBSET Nat /\ \A t \in Nat : t \in C <=> t \in Spread(q, Len(q))
  BY DEF Laid, Covers, Spread
<1>2. Spread(q, Len(q)) \subseteq Nat /\ Spread(q, 0) = {}
  BY DEF Spread
<1> QED
  BY <1>1, <1>2

\* One more closed stretch to read.
LEMMA ReadsOne ==
  ASSUME NEW h, NEW list, NEW closed, NEW c, NEW row, closed \in Seq(Gaps), c \in Gaps,
         ReadsRow(h, list, Append(closed, c), row)
  PROVE  ReadsRow(h, list, closed, row) /\ Len(Append(closed, c)) = Len(closed) + 1
         /\ h[Len(closed) + 1] = Closes(h[Len(closed)], c, row)
<1> DEFINE n == Len(closed)
           p == Append(closed, c)
<1>1. n \in Nat /\ Len(p) = n + 1 /\ p[n + 1] = c /\ \A i \in 1 .. n : p[i] = closed[i]
  BY AppendOne
<1>2. h[0] = list /\ \A i \in 1 .. Len(p) : h[i] = Closes(h[i - 1], p[i], row)
  BY DEF ReadsRow
<1> HIDE DEF n, p
<1>3. \A i \in 1 .. n : i \in 1 .. n + 1
  BY <1>1
<1>4. n + 1 \in 1 .. n + 1 /\ (n + 1) - 1 = n
  BY <1>1
<1>5. \A i \in 1 .. n : h[i] = Closes(h[i - 1], closed[i], row)
  BY <1>1, <1>2, <1>3
<1>6. h[n + 1] = Closes(h[n], c, row)
  BY <1>1, <1>2, <1>4
<1> QED
  BY <1>1, <1>2, <1>5, <1>6 DEF ReadsRow, n, p

\* How a row begins: with the open stretch of the signal, or with its first.
Begins(sig, list, C, q) ==
  \/ Waits(sig, list, C) /\ sig.last # 0
  \/ /\ sig = Sig /\ C = {} /\ q # << >>
     /\ list = [start |-> q[1].start, stretches |-> << >>, ok |-> TRUE]

\* After the stretches of a scan, the list that read the row waits for more.
LEMMA RowWaits ==
  ASSUME NEW sig, NEW list, NEW C, NEW q, NEW D, NEW row, NEW h, sig \in Sigs, TMin \in Nat,
         row.end \in Nat, Laid(q, D), Begins(sig, list, C, q),
         \A t \in D : t > TMin /\ sig.last <= t /\ t <= row.end,
         ReadsRow(h, list, RowOf(sig, q).closed, row)
  PROVE  /\ RowOf(sig, q).sig.last = (IF q = << >> THEN sig.last ELSE Last(q).end)
         /\ Waits(RowOf(sig, q).sig, h[Len(RowOf(sig, q).closed)], C \cup D)
<1> DEFINE n == Len(q)
<1>1. /\ q \in Seq(Stretches) /\ n \in Nat /\ (q # << >> => n \in 1 .. n) /\ Last(q) = q[n]
      /\ n # 0 <=> q # << >>
  <2>1. Last(q) = q[n]
    BY DEF Last
  <2> QED
    BY <2>1, LaidAt, EmptySeq
<1>2. PICK at : Stepping(at, sig, q) /\ RowOf(sig, q) = at[n]
  BY <1>1, RowOfIs
<1>3. /\ at[0] = [sig |-> sig, closed |-> << >>]
      /\ \A i \in 1 .. n : at[i] = Step(at[i - 1], q[i])
      /\ \A i \in 0 .. n : at[i] \in Partly
  BY <1>2 DEF Stepping
<1> HIDE DEF n
<1> DEFINE Stays(i) == \A f : ReadsRow(f, list, at[i].closed, row)
                             => Waits(at[i].sig, f[Len(at[i].closed)], C \cup Spread(q, i))
           S == {i \in 0 .. n : /\ at[i].sig.last = (IF i = 0 THEN sig.last ELSE q[i].end)
                                /\ i # 0 \/ sig.last # 0 => Stays(i)}
<1>4. 0 \in S
  <2>1. at[0].sig = sig /\ at[0].closed = << >> /\ Len(<< >>) = 0 /\ 0 \in 0 .. n
    BY <1>1, <1>3, EmptySeq
  <2>2. ASSUME sig.last # 0 PROVE Stays(0)
    <3>1. Waits(sig, list, C)
      BY <2>2 DEF Begins, Sig
    <3>2. C \cup Spread(q, 0) = C
      BY SpreadAll
    <3>3. ASSUME NEW f, ReadsRow(f, list, << >>, row) PROVE f[0] = list
      BY <3>3 DEF ReadsRow
    <3> QED
      BY <2>1, <3>1, <3>2, <3>3
  <2> HIDE DEF Stays
  <2> QED
    BY <2>1, <2>2
<1>5. ASSUME NEW i \in 1 .. n, i - 1 \in S PROVE i \in S
  <2> DEFINE r == at[i - 1]
             y == at[i]
             x == q[i]
  <2>1. /\ i \in Nat /\ i - 1 \in 0 .. n /\ i \in 0 .. n /\ i # 0 /\ (i - 1 = 0 <=> i = 1)
        /\ y = Step(r, x) /\ r \in Partly
    BY <1>1, <1>3
  <2>2. /\ Spread(q, i) = Spread(q, i - 1) \cup (x.start .. x.end)
        /\ x \in Stretches /\ x.start <= x.end /\ x.start \in D
        /\ (i > 1 => q[i - 1].end + 1 < x.start)
    BY SpreadNext DEF n
  <2>3. /\ r.sig.last = (IF i - 1 = 0 THEN sig.last ELSE q[i - 1].end)
        /\ (i - 1 # 0 \/ sig.last # 0 => Stays(i - 1))
    BY <1>5
  <2>4. r.sig.last <= x.start /\ x.start > TMin /\ x.start <= row.end /\ x.start \in Nat
        /\ r.sig.last \in Nat
    <3>1. x.start \in Nat /\ r.sig.last \in Nat
      BY <2>1, <2>2 DEF Stretches, Partly, Sigs
    <3>2. x.start > TMin /\ sig.last <= x.start /\ x.start <= row.end
      BY <2>2
    <3>3. CASE i = 1
      BY <2>1, <2>3, <3>1, <3>2, <3>3
    <3>4. CASE i > 1
      <4>1. r.sig.last + 1 < x.start
        BY <2>1, <2>2, <2>3, <3>4
      <4> QED
        BY <3>1, <3>2, <4>1
    <3> QED
      BY <2>1, <3>3, <3>4
  <2> DEFINE B == C \cup Spread(q, i - 1)
  <2>5. C \cup Spread(q, i) = B \cup (x.start .. x.end)
    BY <2>2
  <2> HIDE DEF r, y, x, B, Stays
  <2>6. ASSUME i - 1 # 0 \/ sig.last # 0 PROVE y.sig.last = x.end /\ Stays(i)
    <3>1. ASSUME NEW f, ReadsRow(f, list, r.closed, row)
          PROVE  Waits(r.sig, f[Len(r.closed)], B)
      BY <2>3, <2>6, <3>1 DEF Stays, r, B
    <3>2. r.closed \in Seq(Gaps) /\ Len(r.closed) \in Nat
      BY <2>1, LenProperties DEF Partly
    <3>3. CASE ~(x.start > r.sig.last + 1)
      <4>1. y = Step(r, x) /\ x \in Stretches /\ x.start <= x.end /\ r.sig.last <= x.start
        BY <2>1, <2>2, <2>4
      <4>2. ASSUME NEW f, ReadsRow(f, list, r.closed, row)
            PROVE  Waits(y.sig, f[Len(r.closed)], B \cup (x.start .. x.end))
        <5>1. Waits(r.sig, f[Len(r.closed)], B)
          BY <3>1, <4>2
        <5> QED
          BY <3>3, <4>1, <5>1, StepJoins
      <4>3. y.closed = r.closed /\ y.sig.last = x.end
        BY <2>1, <2>4, <3>3 DEF Step
      <4> QED
        BY <2>5, <4>2, <4>3 DEF Stays, y
    <3>4. CASE x.start > r.sig.last + 1
      <4> DEFINE c == [length |-> r.sig.last - r.sig.open, silence |-> x.start - r.sig.last,
                       gap |-> r.sig.gap]
                 m == Len(r.closed)
      <4>1. r.sig.last # 0
        <5>1. CASE i = 1
          BY <2>1, <2>3, <2>6, <5>1
        <5>2. CASE i > 1
          <6>1. i - 1 \in 1 .. Len(q) /\ i - 1 # 0
            BY <1>1, <2>1, <5>2 DEF n
          <6>2. q[i - 1] \in Stretches /\ q[i - 1].start <= q[i - 1].end /\ q[i - 1].start \in D
            BY <6>1, LaidAt
          <6>3. q[i - 1].start > TMin /\ q[i - 1].start \in Nat /\ q[i - 1].end \in Nat
            BY <6>2 DEF Stretches
          <6>4. q[i - 1].end # 0
            BY <6>2, <6>3
          <6> QED
            BY <2>3, <6>1, <6>4
        <5> QED
          BY <2>1, <5>1, <5>2
      <4>2. y.closed = Append(r.closed, c) /\ y.sig.last = x.end
        BY <2>1, <3>4, <4>1 DEF Step
      <4>3. c \in Gaps
        <5>1. r.sig.last \in Nat /\ r.sig.open \in Nat /\ r.sig.gap \in {0, 1}
          BY <2>1 DEF Partly, Sigs
        <5> QED
          BY <2>4, <5>1 DEF Gaps
      <4> HIDE DEF c
      <4>4. y = Step(r, x) /\ x \in Stretches /\ x.start <= x.end /\ x.start <= row.end
        BY <2>1, <2>2, <2>4
      <4>5. ASSUME NEW f, ReadsRow(f, list, y.closed, row)
            PROVE  Waits(y.sig, f[Len(y.closed)], B \cup (x.start .. x.end))
        <5>1. /\ ReadsRow(f, list, r.closed, row) /\ Len(y.closed) = m + 1
              /\ f[m + 1] = Closes(f[m], c, row)
          BY <3>2, <4>2, <4>3, <4>5, ReadsOne
        <5>2. Waits(r.sig, f[m], B)
          BY <3>1, <5>1
        <5> HIDE DEF m
        <5>3. PICK k \in Gaps : /\ y.closed = Append(r.closed, k)
                                /\ Waits(y.sig, Closes(f[m], k, row), B \cup (x.start .. x.end))
          BY <3>4, <4>4, <5>2, StepCloses
        <5>4. Append(r.closed, k)[m + 1] = k /\ Append(r.closed, c)[m + 1] = c
          BY <3>2, <4>3, AppendOne DEF m
        <5>5. k = c
          BY <4>2, <5>3, <5>4
        <5> QED
          BY <5>1, <5>3, <5>5
      <4> QED
        BY <2>5, <4>2, <4>5 DEF Stays, y
    <3> QED
      BY <3>3, <3>4
  <2>7. ASSUME i - 1 = 0, sig.last = 0 PROVE y.sig.last = x.end /\ Stays(i)
    <3>1. /\ sig = Sig /\ C = {} /\ i = 1
          /\ list = [start |-> x.start, stretches |-> << >>, ok |-> TRUE]
      BY <2>1, <2>7 DEF Begins, x
    <3>2. r.sig = Sig /\ r.closed = << >>
      BY <1>3, <2>7, <3>1 DEF r
    <3>3. B = {}
      BY <2>7, <3>1, SpreadAll DEF B
    <3>4. y.closed = r.closed /\ y.sig.last = x.end /\ Waits(y.sig, list, x.start .. x.end)
      BY <2>1, <2>2, <2>4, <3>1, <3>2, StepOpens
    <3>5. ASSUME NEW f, ReadsRow(f, list, << >>, row) PROVE f[0] = list
      BY <3>5 DEF ReadsRow
    <3>6. Len(<< >>) = 0 /\ C \cup Spread(q, i) = x.start .. x.end
      BY <2>5, <3>3, EmptySeq
    <3> QED
      BY <3>2, <3>4, <3>5, <3>6 DEF Stays, y
  <2>8. y.sig.last = x.end /\ Stays(i)
    BY <2>6, <2>7
  <2> QED
    BY <2>1, <2>8 DEF y, x
<1>6. n \in S
  <2>1. \A i \in 0 .. n : i \in S
    <3> HIDE DEF S
    <3> QED
      BY <1>1, <1>4, <1>5, Along
  <2>2. n \in 0 .. n
    BY <1>1
  <2> QED
    BY <2>1, <2>2
<1>7. n # 0 \/ sig.last # 0
  BY <1>1 DEF Begins
<1>8. Stays(n) /\ at[n].sig.last = (IF n = 0 THEN sig.last ELSE q[n].end)
  <2> HIDE DEF Stays
  <2> QED
    BY <1>6, <1>7
<1>9. Spread(q, n) = D
  BY SpreadAll DEF n
<1>10. at[n].sig.last = (IF q = << >> THEN sig.last ELSE Last(q).end)
  BY <1>1, <1>8
<1> QED
  BY <1>2, <1>8, <1>9, <1>10

-----------------------------------------------------------------------------
(* Reading a row. *)

Rows == [start : Nat, end : Nat, closed : Seq(Gaps), first : Int]

Opened(list, row) ==
  LET first == row.start + row.first
  IN  IF row.first < 0 THEN list
      ELSE [list EXCEPT !.start = first,
                        !.ok = @ /\ list.start = 0 /\ first > TMin /\ first <= row.end]

LEMMA ClosesType ==
  ASSUME NEW list, NEW c, NEW row, list \in Partials, c \in Gaps, row.end \in Nat
  PROVE  Closes(list, c, row) \in Partials
<1> DEFINE e == list.start + c.length
           o == list.ok /\ list.start # 0 /\ c.silence > 1 /\ e + c.silence <= row.end
                /\ (c.length = 0) = (c.gap = 0)
           d == [start |-> list.start, end |-> e]
<1>1. list.start \in Int /\ c.length \in Int /\ c.silence \in Int
      /\ list.stretches \in Seq([start : Int, end : Int])
  BY DEF Partials, Gaps
<1>2. e \in Int /\ e + c.silence \in Int /\ d \in [start : Int, end : Int]
  BY <1>1
<1>3. o \in BOOLEAN
  OBVIOUS
<1>4. Closes(list, c, row) = [start |-> e + c.silence, stretches |-> Append(list.stretches, d),
                              ok |-> o]
  BY DEF Closes
<1> HIDE DEF e, o, d
<1>5. Append(list.stretches, d) \in Seq([start : Int, end : Int])
  BY <1>1, <1>2, AppendOne
<1> QED
  BY <1>2, <1>3, <1>4, <1>5 DEF Partials

LEMMA OpenedType ==
  ASSUME NEW list, NEW row, list \in Partials, row \in Rows
  PROVE  Opened(list, row) \in Partials
<1> DEFINE first == row.start + row.first
           o == list.ok /\ list.start = 0 /\ first > TMin /\ first <= row.end
<1>1. first \in Int /\ o \in BOOLEAN
  BY DEF Rows
<1>2. Opened(list, row) \in {list, [list EXCEPT !.start = first, !.ok = o]}
  BY DEF Opened
<1> HIDE DEF o, first
<1>3. [list EXCEPT !.start = first, !.ok = o] \in Partials
  BY <1>1 DEF Partials
<1> QED
  BY <1>2, <1>3

LEMMA ReadRowIs ==
  ASSUME NEW list, NEW row, list \in Partials, row \in Rows
  PROVE  /\ \E h : /\ ReadsRow(h, Opened(list, row), row.closed, row)
                   /\ ReadRow(list, row) = h[Len(row.closed)]
         /\ ReadRow(list, row) \in Partials
<1> DEFINE q == row.closed
           n == Len(q)
           z == Opened(list, row)
           Body(f) == [i \in 0 .. n |-> IF i = 0 THEN z ELSE Closes(f[i - 1], q[i], row)]
           G == [p \in Partials \X Gaps |-> Closes(p[1], p[2], row)]
           g == CHOOSE f : f = Body(f)
<1>1. ReadRow(list, row) = g[n]
  BY DEF ReadRow, Opened
<1>2. q \in Seq(Gaps) /\ n \in Nat /\ \A i \in 1 .. n : q[i] \in Gaps
  BY LenProperties, ElementOfSeq DEF Rows
<1>3. z \in Partials /\ row.end \in Nat
  BY OpenedType DEF Rows
<1> HIDE DEF n, z, q
<1>4. PICK f : Runs(f, G, z, q) /\ \A i \in 0 .. n : f[i] \in Partials
  <2>1. \A r \in Partials : \A x \in Gaps : G[<<r, x>>] \in Partials
    BY <1>3, ClosesType
  <2> HIDE DEF G
  <2> QED
    BY <1>2, <1>3, <2>1, RunExists DEF n
<1>5. f = Body(f)
  <2>1. ASSUME NEW i \in 0 .. n, i # 0 PROVE G[<<f[i - 1], q[i]>>] = Closes(f[i - 1], q[i], row)
    <3>1. i \in 1 .. n /\ i - 1 \in 0 .. n
      BY <1>2, <2>1
    <3> QED
      BY <1>2, <1>4, <3>1
  <2> HIDE DEF G
  <2> QED
    BY <1>4, <2>1 DEF Runs, n
<1>6. g = Body(g)
  BY <1>5
<1> HIDE DEF g
<1>7. g[0] = z /\ \A i \in 1 .. n : g[i] = Closes(g[i - 1], q[i], row)
  BY <1>2, <1>6
<1> DEFINE S == {i \in 0 .. n : g[i] \in Partials}
<1>8. 0 \in S
  BY <1>2, <1>3, <1>7
<1>9. ASSUME NEW i \in 1 .. n, i - 1 \in S PROVE i \in S
  <2>1. Closes(g[i - 1], q[i], row) \in Partials
    BY <1>2, <1>3, <1>9, ClosesType
  <2> QED
    BY <1>2, <1>7, <2>1
<1>10. \A i \in 0 .. n : i \in S
  <2> HIDE DEF S
  <2> QED
    BY <1>2, <1>8, <1>9, Along
<1>11. g[n] \in Partials
  <2>1. n \in 0 .. n
    BY <1>2
  <2> QED
    BY <1>10, <2>1
<1> QED
  BY <1>1, <1>7, <1>11 DEF ReadsRow, n, z, q

-----------------------------------------------------------------------------
(* A block more. *)

Pends(sig, list, C, e) ==
  /\ sig \in Sigs
  /\ IF sig.last = 0
     THEN sig = Sig /\ C = {} /\ list = [start |-> 0, stretches |-> << >>, ok |-> TRUE]
     ELSE Waits(sig, list, C) /\ sig.last <= e

LEMMA ActiveWithin ==
  ASSUME NEW b, NEW s, Valid(b), s \in Signals
  PROVE  \A t \in Active(b, s) : t > TMin /\ b.start <= t /\ t <= b.end
<1> DEFINE F == Full(b, s)
<1>1. F \in Seq(Within(Read, b.start, b.end))
  BY ValidSound DEF Sound
<1>2. \A i \in 1 .. Len(F) : F[i] \in Within(Read, b.start, b.end)
  <2> HIDE DEF F
  <2> QED
    BY <1>1, ElementOfSeq
<1> QED
  BY <1>2 DEF Active, Within, InWindow

LEMMA AddHolds ==
  ASSUME NEW u, NEW v, NEW list, NEW C, NEW b, NEW s, NEW e, v = Add(u, b, s),
         list \in Partials, Pends(u.sig, list, C, e), e \in Nat, e <= b.start,
         Valid(b), s \in Signals, TMin \in Nat
  PROVE  \/ v.rows = u.rows /\ Pends(v.sig, list, C \cup Active(b, s), b.end)
         \/ \E r \in Rows :
              /\ v.rows = Append(u.rows, r) /\ ReadRow(list, r) \in Partials
              /\ Pends(v.sig, ReadRow(list, r), C \cup Active(b, s), b.end)
<1> DEFINE sig == u.sig
           q == ScanBlock(b, s)
           D == Active(b, s)
           row == RowOf(sig, q)
           initial == sig.last = 0
           rec == [start |-> b.start, end |-> b.end, closed |-> row.closed,
                   first |-> IF initial THEN q[1].start - b.start ELSE -1]
<1>1. /\ b.start \in Nat /\ b.end \in Nat /\ b.start <= b.end /\ sig \in Sigs /\ Laid(q, D)
      /\ D \subseteq Nat /\ \A t \in D : t > TMin /\ b.start <= t /\ t <= b.end
  <2>1. b.start \in Nat /\ b.end \in Nat /\ b.start <= b.end
    BY DEF Valid
  <2>2. sig \in Sigs
    BY DEF Pends
  <2>3. Laid(q, D)
    BY ScanIs
  <2>4. D \subseteq Nat
    BY DEF Active
  <2>5. \A t \in D : t > TMin /\ b.start <= t /\ t <= b.end
    BY ActiveWithin
  <2> HIDE DEF D, q, sig
  <2> QED
    BY <2>1, <2>2, <2>3, <2>4, <2>5
<1>2. v = IF q = << >> \/ (~initial /\ row.closed = << >>)
          THEN [sig |-> row.sig, rows |-> u.rows]
          ELSE [sig |-> row.sig, rows |-> Append(u.rows, rec)]
  BY DEF Add
<1>3. /\ q \in Seq(Stretches) /\ Len(q) \in Nat
      /\ (q # << >> => /\ Len(q) \in 1 .. Len(q) /\ 1 \in 1 .. Len(q) /\ Last(q) = q[Len(q)])
      /\ \A k \in 1 .. Len(q) : /\ q[k].start \in Nat /\ q[k].end \in Nat
                                /\ q[k].start \in D /\ q[k].end \in D
  <2> HIDE DEF q, D
  <2> QED
    BY <1>1, LaidAt
<1>4. sig.last \in Nat /\ (initial => sig = Sig /\ C = {} /\ list.start = 0 /\ list.ok = TRUE
                                   /\ list = [start |-> 0, stretches |-> << >>, ok |-> TRUE])
      /\ (~initial => Waits(sig, list, C) /\ sig.last <= e)
  BY DEF Pends, Sigs
<1>5. PICK at : Stepping(at, sig, q) /\ row = at[Len(q)]
  <2> HIDE DEF q, sig
  <2> QED
    BY <1>1, <1>3, RowOfIs
<1>6. row \in Partly
  BY <1>3, <1>5 DEF Stepping
<1>7. \A t \in D : t > TMin /\ sig.last <= t /\ t <= b.end
  <2>1. sig.last <= e
    BY <1>4
  <2>2. sig.last \in Nat
    BY <1>4
  <2> HIDE DEF D, q, sig
  <2> QED
    BY <1>1, <2>1, <2>2
<1> HIDE DEF D, q, row, initial, sig
<1>8. CASE q = << >>
  <2>1. row = [sig |-> sig, closed |-> << >>]
    BY <1>5, <1>8, EmptySeq DEF Stepping
  <2>2. D = {}
    BY <1>1, <1>8, SpreadAll, EmptySeq
  <2>3. v.sig = sig /\ v.rows = u.rows
    BY <1>2, <1>8, <2>1
  <2>4. C \cup D = C
    BY <2>2
  <2>5. Pends(sig, list, C, b.end)
    BY <1>1, <1>4 DEF Pends, sig, initial
  <2> QED
    BY <2>3, <2>4, <2>5 DEF D
<1>9. ASSUME q # << >>, NEW o, NEW r, NEW h, Begins(sig, o, C, q), r.end = b.end,
             ReadsRow(h, o, row.closed, r)
      PROVE  Pends(row.sig, h[Len(row.closed)], C \cup D, b.end)
  <2>1. /\ row.sig.last = Last(q).end
        /\ Waits(row.sig, h[Len(row.closed)], C \cup D)
    <3>1. r.end \in Nat /\ \A t \in D : t > TMin /\ sig.last <= t /\ t <= r.end
      BY <1>1, <1>7, <1>9
    <3>2. ReadsRow(h, o, RowOf(sig, q).closed, r) /\ sig \in Sigs /\ Laid(q, D)
      BY <1>1, <1>9 DEF row
    <3>3. /\ RowOf(sig, q).sig.last = (IF q = << >> THEN sig.last ELSE Last(q).end)
          /\ Waits(RowOf(sig, q).sig, h[Len(RowOf(sig, q).closed)], C \cup D)
      BY <1>9, <3>1, <3>2, RowWaits
    <3> QED
      BY <1>9, <3>3 DEF row
  <2>2. Last(q).end \in D /\ Last(q).end \in Nat
    BY <1>3, <1>9
  <2>3. row.sig.last # 0 /\ row.sig.last <= b.end
    BY <1>1, <2>1, <2>2
  <2>4. row.sig \in Sigs
    BY <1>6 DEF Partly
  <2> QED
    BY <2>1, <2>3, <2>4 DEF Pends
<1>10. CASE q # << >> /\ ~initial /\ row.closed = << >>
  <2> DEFINE h == [i \in {0} |-> list]
  <2>1. ReadsRow(h, list, << >>, b) /\ h[0] = list /\ Len(<< >>) = 0
    BY EmptySeq DEF ReadsRow
  <2>2. Begins(sig, list, C, q)
    BY <1>4, <1>10 DEF Begins, initial
  <2> HIDE DEF h
  <2>3. Pends(row.sig, list, C \cup D, b.end)
    BY <1>9, <1>10, <2>1, <2>2
  <2>4. v.sig = row.sig /\ v.rows = u.rows
    BY <1>2, <1>10
  <2> QED
    BY <2>3, <2>4 DEF D
<1>11. CASE q # << >> /\ (initial \/ row.closed # << >>)
  <2>1. v.sig = row.sig /\ v.rows = Append(u.rows, rec)
    BY <1>2, <1>11
  <2>2. rec \in Rows
    BY <1>1, <1>3, <1>6, <1>11 DEF Rows, Partly
  <2>3. rec.end = b.end /\ rec.start = b.start /\ rec.closed = row.closed
        /\ (~initial => rec.first = -1) /\ (initial => rec.first = q[1].start - b.start)
    OBVIOUS
  <2> HIDE DEF rec
  <2>4. PICK h : /\ ReadsRow(h, Opened(list, rec), row.closed, rec)
                 /\ ReadRow(list, rec) = h[Len(row.closed)]
    BY <2>2, <2>3, ReadRowIs
  <2>5. Begins(sig, Opened(list, rec), C, q)
    <3>1. CASE ~initial
      <4>1. Opened(list, rec) = list
        BY <2>3, <3>1 DEF Opened
      <4> QED
        BY <1>4, <3>1, <4>1 DEF Begins, initial
    <3>2. CASE initial
      <4> DEFINE a == q[1].start
      <4>1. a \in Nat /\ a > TMin /\ b.start <= a /\ a <= b.end
        BY <1>1, <1>3, <1>11
      <4>2. rec.first \in Int /\ rec.first >= 0 /\ rec.start + rec.first = a
        BY <1>1, <2>3, <3>2, <4>1
      <4> HIDE DEF a
      <4> DEFINE first == rec.start + rec.first
                 o == list.ok /\ list.start = 0 /\ first > TMin /\ first <= rec.end
      <4>3. o = TRUE
        BY <1>4, <2>3, <3>2, <4>1, <4>2
      <4>4. Opened(list, rec) = [list EXCEPT !.start = first, !.ok = o]
        <5>1. ~(rec.first < 0)
          BY <4>2
        <5> QED
          BY <5>1 DEF Opened
      <4> HIDE DEF o
      <4>5. list = [start |-> 0, stretches |-> << >>, ok |-> TRUE]
        BY <1>4, <3>2 DEF initial
      <4>6. [list EXCEPT !.start = a, !.ok = o] = [start |-> a, stretches |-> list.stretches, ok |-> o]
        <5> DEFINE l == [list EXCEPT !.start = a, !.ok = o]
        <5>1. l.start = a /\ l.stretches = list.stretches /\ l.ok = o
          BY DEF Partials
        <5>2. l \in Partials
          <6>1. a \in Int /\ o \in BOOLEAN
            BY <4>1, <4>3
          <6> HIDE DEF a
          <6> QED
            BY <6>1 DEF Partials
        <5> HIDE DEF l
        <5>3. l = [start |-> l.start, stretches |-> l.stretches, ok |-> l.ok]
          BY <5>2 DEF Partials
        <5> QED
          BY <5>1, <5>3 DEF l
      <4>7. Opened(list, rec) = [start |-> a, stretches |-> << >>, ok |-> TRUE]
        BY <4>2, <4>3, <4>4, <4>5, <4>6
      <4> QED
        BY <1>4, <1>11, <3>2, <4>7 DEF Begins, a
    <3> QED
      BY <3>1, <3>2
  <2>6. Pends(row.sig, ReadRow(list, rec), C \cup D, b.end)
    BY <1>9, <1>11, <2>3, <2>4, <2>5
  <2>7. ReadRow(list, rec) \in Partials
    BY <2>2, ReadRowIs
  <2> QED
    BY <2>1, <2>2, <2>6, <2>7 DEF D
<1> QED
  BY <1>8, <1>10, <1>11

-----------------------------------------------------------------------------
(* The sections of a file and their decoding. *)

Builders == [sig : Sigs, rows : Seq(Rows)]

LEMMA AddType ==
  ASSUME NEW u, NEW v, NEW b, NEW s, v = Add(u, b, s), u \in Builders,
         Valid(b), s \in Signals, TMin \in Nat
  PROVE  v \in Builders /\ (v.rows = u.rows \/ \E r \in Rows : v.rows = Append(u.rows, r))
<1> DEFINE sig == u.sig
           q == ScanBlock(b, s)
           row == RowOf(sig, q)
           initial == sig.last = 0
           rec == [start |-> b.start, end |-> b.end, closed |-> row.closed,
                   first |-> IF initial THEN q[1].start - b.start ELSE -1]
<1>1. b.start \in Nat /\ b.end \in Nat /\ sig \in Sigs /\ u.rows \in Seq(Rows)
  BY DEF Valid, Builders
<1>2. v = IF q = << >> \/ (~initial /\ row.closed = << >>)
          THEN [sig |-> row.sig, rows |-> u.rows]
          ELSE [sig |-> row.sig, rows |-> Append(u.rows, rec)]
  BY DEF Add
<1>3. Laid(q, Active(b, s))
  BY ScanIs
<1> HIDE DEF q, sig
<1>4. /\ q \in Seq(Stretches) /\ Len(q) \in Nat /\ (q # << >> => q[1].start \in Nat)
  <2>1. q \in Seq(Stretches) /\ \A k \in 1 .. Len(q) : q[k].start \in Nat
    BY <1>3, LaidAt
  <2> QED
    BY <2>1, EmptySeq, LenProperties
<1>5. PICK at : Stepping(at, sig, q) /\ row = at[Len(q)]
  BY <1>1, <1>4, RowOfIs
<1>6. row \in Partly
  BY <1>4, <1>5 DEF Stepping
<1> HIDE DEF row, initial
<1>7. q # << >> => rec \in Rows
  BY <1>1, <1>4, <1>6 DEF Rows, Partly
<1> HIDE DEF rec
<1>8. row.sig \in Sigs
  BY <1>6 DEF Partly
<1>9. q # << >> => Append(u.rows, rec) \in Seq(Rows)
  BY <1>1, <1>7, AppendOne
<1>10. CASE q = << >> \/ (~initial /\ row.closed = << >>)
  BY <1>1, <1>2, <1>8, <1>10 DEF Builders
<1>11. CASE ~(q = << >> \/ (~initial /\ row.closed = << >>))
  BY <1>2, <1>7, <1>8, <1>9, <1>11 DEF Builders
<1> QED
  BY <1>10, <1>11

Building(at, bs, s) ==
  /\ at[0] = [sig |-> Sig, rows |-> << >>]
  /\ \A i \in 1 .. Len(bs) : at[i] = Add(at[i - 1], bs[i], s)
  /\ \A i \in 0 .. Len(bs) : at[i] \in Builders

LEMMA BuiltIs ==
  ASSUME NEW s, s \in Signals, TMin \in Nat, FileOK(blocks)
  PROVE  \E at : Building(at, blocks, s) /\ Built(s) = at[Len(blocks)]
<1> DEFINE T == Ranged(blocks)
           n == Len(blocks)
           z == [sig |-> Sig, rows |-> << >>]
           Body(f) == [i \in 0 .. n |-> IF i = 0 THEN z ELSE Add(f[i - 1], blocks[i], s)]
           G == [p \in Builders \X T |-> Add(p[1], p[2], s)]
           g == CHOOSE f : f = Body(f)
<1>1. Built(s) = g[n]
  BY DEF Built
<1>2. blocks \in Seq(T) /\ n \in Nat /\ (\A i \in 1 .. n : blocks[i] \in T) /\ \A b \in T : Valid(b)
  <2>1. blocks \in Seq(T) /\ \A b \in T : Valid(b)
    BY DEF FileOK
  <2> HIDE DEF T
  <2> QED
    BY <2>1, LenProperties, ElementOfSeq
<1>3. z \in Builders
  <2>1. << >> \in Seq(Rows)
    BY EmptySeq
  <2>2. Sig \in Sigs
    BY DEF Sig, Sigs
  <2> QED
    BY <2>1, <2>2 DEF Builders
<1> HIDE DEF n, z, T
<1>4. PICK f : Runs(f, G, z, blocks) /\ \A i \in 0 .. n : f[i] \in Builders
  <2>1. \A r \in Builders : \A x \in T : G[<<r, x>>] \in Builders
    BY <1>2, AddType
  <2> HIDE DEF G
  <2> QED
    BY <1>2, <1>3, <2>1, RunExists DEF n
<1>5. f = Body(f)
  <2>1. ASSUME NEW i \in 0 .. n, i # 0 PROVE G[<<f[i - 1], blocks[i]>>] = Add(f[i - 1], blocks[i], s)
    <3>1. i \in 1 .. n /\ i - 1 \in 0 .. n
      BY <1>2, <2>1
    <3> QED
      BY <1>2, <1>4, <3>1
  <2> HIDE DEF G
  <2> QED
    BY <1>4, <2>1 DEF Runs, n
<1>6. g = Body(g)
  BY <1>5
<1> HIDE DEF g
<1>7. g[0] = z /\ \A i \in 1 .. n : g[i] = Add(g[i - 1], blocks[i], s)
  BY <1>2, <1>6
<1> DEFINE S == {i \in 0 .. n : g[i] \in Builders}
<1>8. 0 \in S
  BY <1>2, <1>3, <1>7
<1>9. ASSUME NEW i \in 1 .. n, i - 1 \in S PROVE i \in S
  <2>1. Add(g[i - 1], blocks[i], s) \in Builders
    BY <1>2, <1>9, AddType
  <2> QED
    BY <1>2, <1>7, <2>1
<1>10. \A i \in 0 .. n : i \in S
  <2> HIDE DEF S
  <2> QED
    BY <1>2, <1>8, <1>9, Along
<1>11. \A i \in 0 .. n : g[i] \in Builders
  BY <1>10
<1> QED
  BY <1>1, <1>7, <1>11 DEF Building, n, z

ReadsRows(h, rows) ==
  /\ h[0] = [start |-> 0, stretches |-> << >>, ok |-> TRUE]
  /\ \A i \in 1 .. Len(rows) : h[i] = ReadRow(h[i - 1], rows[i])

LEMMA DecodeIs ==
  ASSUME NEW u, u \in Builders
  PROVE  \E h : /\ ReadsRows(h, u.rows)
                /\ Decode(u) = IF u.sig.last # 0 THEN ReadTail(h[Len(u.rows)], u.sig)
                               ELSE h[Len(u.rows)]
<1> DEFINE q == u.rows
           n == Len(q)
           z == [start |-> 0, stretches |-> << >>, ok |-> TRUE]
           Body(f) == [i \in 0 .. n |-> IF i = 0 THEN z ELSE ReadRow(f[i - 1], q[i])]
           G == [p \in Partials \X Rows |-> ReadRow(p[1], p[2])]
           g == CHOOSE f : f = Body(f)
<1>1. Decode(u) = IF u.sig.last # 0 THEN ReadTail(g[n], u.sig) ELSE g[n]
  BY DEF Decode
<1>2. q \in Seq(Rows) /\ n \in Nat /\ \A i \in 1 .. n : q[i] \in Rows
  BY LenProperties, ElementOfSeq DEF Builders
<1>3. z \in Partials
  <2>1. << >> \in Seq([start : Int, end : Int])
    BY EmptySeq
  <2> QED
    BY <2>1 DEF Partials
<1> HIDE DEF n, z, q
<1>4. PICK f : Runs(f, G, z, q) /\ \A i \in 0 .. n : f[i] \in Partials
  <2>1. \A r \in Partials : \A x \in Rows : G[<<r, x>>] \in Partials
    BY ReadRowIs
  <2> HIDE DEF G
  <2> QED
    BY <1>2, <1>3, <2>1, RunExists DEF n
<1>5. f = Body(f)
  <2>1. ASSUME NEW i \in 0 .. n, i # 0 PROVE G[<<f[i - 1], q[i]>>] = ReadRow(f[i - 1], q[i])
    <3>1. i \in 1 .. n /\ i - 1 \in 0 .. n
      BY <1>2, <2>1
    <3> QED
      BY <1>2, <1>4, <3>1
  <2> HIDE DEF G
  <2> QED
    BY <1>4, <2>1 DEF Runs, n
<1>6. g = Body(g)
  BY <1>5
<1> HIDE DEF g
<1>7. g[0] = z /\ \A i \in 1 .. n : g[i] = ReadRow(g[i - 1], q[i])
  BY <1>2, <1>6
<1> QED
  BY <1>1, <1>7 DEF ReadsRows, n, z, q

\* What the first blocks of the file hold of a signal, but for the first time.
Total(s, i) == {t \in Nat : \E j \in 1 .. i : t \in Active(blocks[j], s)}
Edge(i) == IF i = 0 THEN 0 ELSE blocks[i].end

\* The sections of the first blocks, read back.
Reading(u, C, e) ==
  \A f : ReadsRows(f, u.rows)
           => f[Len(u.rows)] \in Partials /\ Pends(u.sig, f[Len(u.rows)], C, e)

LEMMA RowsPrefix ==
  ASSUME NEW f, NEW rows, NEW r, rows \in Seq(Rows), r \in Rows, ReadsRows(f, Append(rows, r))
  PROVE  ReadsRows(f, rows) /\ Len(Append(rows, r)) = Len(rows) + 1
         /\ f[Len(rows) + 1] = ReadRow(f[Len(rows)], r)
<1> DEFINE n == Len(rows)
           p == Append(rows, r)
<1>1. n \in Nat /\ Len(p) = n + 1 /\ p[n + 1] = r /\ \A i \in 1 .. n : p[i] = rows[i]
  BY AppendOne
<1>2. /\ f[0] = [start |-> 0, stretches |-> << >>, ok |-> TRUE]
      /\ \A i \in 1 .. Len(p) : f[i] = ReadRow(f[i - 1], p[i])
  BY DEF ReadsRows
<1> HIDE DEF n, p
<1>3. \A i \in 1 .. n : i \in 1 .. n + 1
  BY <1>1
<1>4. n + 1 \in 1 .. n + 1 /\ (n + 1) - 1 = n
  BY <1>1
<1>5. \A i \in 1 .. n : f[i] = ReadRow(f[i - 1], rows[i])
  BY <1>1, <1>2, <1>3
<1>6. f[n + 1] = ReadRow(f[n], r)
  BY <1>1, <1>2, <1>4
<1> QED
  BY <1>1, <1>2, <1>5, <1>6 DEF ReadsRows, n, p

LEMMA ReadingNext ==
  ASSUME NEW u, NEW v, NEW C, NEW b, NEW s, NEW e, v = Add(u, b, s), u \in Builders,
         Reading(u, C, e), e \in Nat, e <= b.start, Valid(b), s \in Signals, TMin \in Nat
  PROVE  Reading(v, C \cup Active(b, s), b.end)
<1> DEFINE D == C \cup Active(b, s)
           m == Len(u.rows)
<1>1. u.rows \in Seq(Rows) /\ m \in Nat
  BY LenProperties DEF Builders
<1>2. v.rows = u.rows \/ \E r \in Rows : v.rows = Append(u.rows, r)
  BY AddType
<1>3. \A r : v.rows = Append(u.rows, r) => v.rows # u.rows
  <2> SUFFICES ASSUME NEW r, u.rows = Append(u.rows, r) PROVE FALSE
    OBVIOUS
  <2>1. Len(Append(u.rows, r)) = m + 1
    BY <1>1, AppendProperties
  <2> HIDE DEF m
  <2> QED
    BY <1>1, <2>1 DEF m
<1>4. ASSUME NEW f, ReadsRows(f, u.rows)
      PROVE  \/ v.rows = u.rows /\ Pends(v.sig, f[m], D, b.end)
             \/ \E r \in Rows : /\ v.rows = Append(u.rows, r) /\ ReadRow(f[m], r) \in Partials
                                /\ Pends(v.sig, ReadRow(f[m], r), D, b.end)
  <2>1. f[m] \in Partials /\ Pends(u.sig, f[m], C, e)
    BY <1>4 DEF Reading
  <2> HIDE DEF m
  <2> QED
    BY <2>1, AddHolds, ZenonT(30)
<1> HIDE DEF m, D
<1>5. ASSUME NEW f, ReadsRows(f, v.rows)
      PROVE  f[Len(v.rows)] \in Partials /\ Pends(v.sig, f[Len(v.rows)], D, b.end)
  <2>1. CASE v.rows = u.rows
    <3>1. f[m] \in Partials
      BY <1>5, <2>1 DEF Reading, m
    <3>2. Pends(v.sig, f[m], D, b.end)
      BY <1>3, <1>4, <1>5, <2>1
    <3> QED
      BY <2>1, <3>1, <3>2 DEF m
  <2>2. ASSUME NEW r \in Rows, v.rows = Append(u.rows, r)
        PROVE  f[Len(v.rows)] \in Partials /\ Pends(v.sig, f[Len(v.rows)], D, b.end)
    <3>1. ReadsRows(f, u.rows) /\ Len(v.rows) = m + 1 /\ f[m + 1] = ReadRow(f[m], r)
      BY <1>1, <1>5, <2>2, RowsPrefix DEF m
    <3>2. PICK k \in Rows : /\ v.rows = Append(u.rows, k) /\ ReadRow(f[m], k) \in Partials
                            /\ Pends(v.sig, ReadRow(f[m], k), D, b.end)
      BY <1>3, <1>4, <2>2, <3>1
    <3>3. Append(u.rows, r)[m + 1] = r /\ Append(u.rows, k)[m + 1] = k
      BY <1>1, AppendOne DEF m
    <3>4. k = r
      BY <2>2, <3>2, <3>3
    <3> QED
      BY <3>1, <3>2, <3>4
  <2> QED
    BY <1>2, <2>1, <2>2
<1> QED
  BY <1>5 DEF Reading, D

LEMMA ReadingAll ==
  ASSUME NEW s, NEW at, s \in Signals, TMin \in Nat, FileOK(blocks), Building(at, blocks, s)
  PROVE  Reading(at[Len(blocks)], Total(s, Len(blocks)), Edge(Len(blocks)))
<1> DEFINE n == Len(blocks)
           T == Ranged(blocks)
           S == {i \in 0 .. n : Reading(at[i], Total(s, i), Edge(i))}
<1>1. n \in Nat /\ \A i \in 1 .. n : Valid(blocks[i])
  <2>1. blocks \in Seq(T) /\ \A b \in T : Valid(b)
    BY DEF FileOK
  <2> HIDE DEF T
  <2> QED
    BY <2>1, LenProperties, ElementOfSeq
<1>2. /\ at[0] = [sig |-> Sig, rows |-> << >>]
      /\ \A i \in 1 .. n : at[i] = Add(at[i - 1], blocks[i], s)
      /\ \A i \in 0 .. n : at[i] \in Builders
  BY DEF Building
<1> HIDE DEF n
<1>3. 0 \in S
  <2> DEFINE z == [start |-> 0, stretches |-> << >>, ok |-> TRUE]
  <2>1. Total(s, 0) = {} /\ Edge(0) = 0 /\ 0 \in 0 .. n
    BY <1>1 DEF Total, Edge
  <2>2. at[0].sig = Sig /\ at[0].rows = << >> /\ Len(<< >>) = 0
    BY <1>2, EmptySeq
  <2>3. z \in Partials
    <3>1. << >> \in Seq([start : Int, end : Int])
      BY EmptySeq
    <3> QED
      BY <3>1 DEF Partials
  <2>4. Sig \in Sigs /\ Sig.last = 0
    BY DEF Sig, Sigs
  <2>5. Pends(Sig, z, {}, 0)
    BY <2>4 DEF Pends
  <2>6. \A f : ReadsRows(f, << >>) => f[0] = z
    BY DEF ReadsRows
  <2> HIDE DEF z
  <2>7. Reading(at[0], {}, 0)
    BY <2>2, <2>3, <2>5, <2>6 DEF Reading
  <2> QED
    BY <2>1, <2>7
<1>4. ASSUME NEW i \in 1 .. n, i - 1 \in S PROVE i \in S
  <2> DEFINE b == blocks[i]
             e == Edge(i - 1)
  <2>1. i \in Nat /\ i # 0 /\ i - 1 \in 0 .. n /\ i \in 0 .. n /\ Valid(b)
        /\ (i - 1 # 0 => i - 1 \in 1 .. n /\ i - 1 < i)
    BY <1>1
  <2>2. b.start \in Nat
    BY <2>1 DEF Valid
  <2>3. e \in Nat /\ e <= b.start
    <3>1. CASE i - 1 = 0
      BY <2>2, <3>1 DEF Edge
    <3>2. CASE i - 1 # 0
      <4>1. Valid(blocks[i - 1]) /\ e = blocks[i - 1].end
        BY <1>1, <2>1, <3>2 DEF Edge
      <4>2. blocks[i - 1].end <= b.start
        BY <2>1, <3>2 DEF FileOK, Ordered, n
      <4> QED
        BY <4>1, <4>2 DEF Valid
    <3> QED
      BY <3>1, <3>2
  <2>4. Reading(at[i - 1], Total(s, i - 1), e)
    BY <1>4
  <2>5. at[i] = Add(at[i - 1], b, s) /\ at[i - 1] \in Builders
    BY <1>2, <2>1
  <2>6. Total(s, i) = Total(s, i - 1) \cup Active(b, s)
    <3>1. \A j : j \in 1 .. i <=> j \in 1 .. i - 1 \/ j = i
      BY <2>1
    <3>2. Active(b, s) \subseteq Nat
      BY DEF Active
    <3> QED
      BY <3>1, <3>2 DEF Total
  <2>7. Edge(i) = b.end
    BY <2>1 DEF Edge
  <2> HIDE DEF b, e
  <2>8. Reading(at[i], Total(s, i - 1) \cup Active(b, s), b.end)
    BY <2>1, <2>3, <2>4, <2>5, ReadingNext
  <2> QED
    BY <2>1, <2>6, <2>7, <2>8
<1>5. \A i \in 0 .. n : i \in S
  <2> HIDE DEF S
  <2> QED
    BY <1>1, <1>3, <1>4, Along
<1>6. n \in 0 .. n
  BY <1>1
<1> QED
  BY <1>5, <1>6 DEF n

\* The list of a signal once the tail of the file has closed its last stretch.
LEMMA ListIs ==
  ASSUME NEW s, s \in Signals, TMin \in Nat, FileOK(blocks)
  PROVE  LET list == Decode(Built(s))
         IN  list.ok = TRUE /\ list.start = 0 /\ Laid(list.stretches, Total(s, Len(blocks)))
<1> DEFINE n == Len(blocks)
           C == Total(s, n)
           list == Decode(Built(s))
<1>1. PICK at : Building(at, blocks, s) /\ Built(s) = at[n]
  BY BuiltIs
<1> DEFINE u == at[n]
<1>2. n \in Nat
  BY LenProperties DEF FileOK
<1>3. u \in Builders /\ (n = 0 => u.sig = Sig)
  BY <1>1, <1>2 DEF Building
<1>4. Reading(u, C, Edge(n))
  BY <1>1, ReadingAll
<1> HIDE DEF u, C
<1>5. PICK h : /\ ReadsRows(h, u.rows)
               /\ Decode(u) = IF u.sig.last # 0 THEN ReadTail(h[Len(u.rows)], u.sig)
                              ELSE h[Len(u.rows)]
  BY <1>3, DecodeIs
<1> DEFINE l == h[Len(u.rows)]
<1>6. Pends(u.sig, l, C, Edge(n))
  BY <1>4, <1>5 DEF Reading
<1>7. list = Decode(u)
  BY <1>1 DEF u
<1> HIDE DEF l, list
<1>8. CASE u.sig.last = 0
  <2>1. list = [start |-> 0, stretches |-> << >>, ok |-> TRUE] /\ C = {}
    BY <1>5, <1>6, <1>7, <1>8 DEF Pends, l
  <2> QED
    BY <2>1, LaidNone DEF list, C, n
<1>9. CASE u.sig.last # 0
  <2> DEFINE o == u.sig.open
             z == u.sig.last
             d == [start |-> o, end |-> z]
             e == l.start + (u.sig.last - u.sig.open)
             ok == l.ok /\ l.start # 0 /\ e <= Last(blocks).end
                   /\ (u.sig.last = u.sig.open) = (u.sig.gap = 0)
  <2>1. Waits(u.sig, l, C) /\ z <= Edge(n)
    BY <1>6, <1>9 DEF Pends
  <2>2. /\ o \in Nat /\ z \in Nat /\ u.sig.gap \in {0, 1} /\ o > TMin /\ o <= z
        /\ (z = o <=> u.sig.gap = 0) /\ l.ok = TRUE /\ l.start = o
    BY <2>1 DEF Waits, Sigs
  <2>3. PICK B : /\ Laid(l.stretches, B) /\ Clear(l.stretches, o)
                 /\ C = B \cup (o .. z)
    BY <2>1 DEF Waits
  <2>4. Laid(Append(l.stretches, d), C)
    <3> HIDE DEF o, z
    <3> QED
      BY <2>2, <2>3, LaidAfter
  <2>5. n # 0
    BY <1>3, <1>9 DEF Sig
  <2>6. Last(blocks).end = Edge(n)
    BY <2>5 DEF Last, Edge
  <2>7. e = z
    BY <2>2
  <2>8. ok = TRUE
    BY <2>1, <2>2, <2>6, <2>7
  <2>9. list = [start |-> 0, stretches |-> Append(l.stretches, [start |-> l.start, end |-> e]),
                ok |-> ok]
    BY <1>5, <1>7, <1>9 DEF ReadTail, l
  <2> HIDE DEF ok, e
  <2>10. list = [start |-> 0, stretches |-> Append(l.stretches, d), ok |-> TRUE]
    BY <2>2, <2>7, <2>8, <2>9
  <2> QED
    BY <2>4, <2>10 DEF list, C, n
<1> QED
  BY <1>8, <1>9

-----------------------------------------------------------------------------
(* The times of the changes of a signal. *)

Moments(q) == {q[i].time : i \in 1 .. Len(q)}

LEMMA MomentsJoin ==
  ASSUME NEW T, NEW q \in Seq(T), NEW r \in Seq(T)
  PROVE  Moments(q \o r) = Moments(q) \cup Moments(r)
<1> DEFINE n == Len(q)
           m == Len(r)
           p == q \o r
<1>1. /\ n \in Nat /\ m \in Nat /\ Len(p) = n + m
      /\ \A i \in 1 .. n : p[i] = q[i]
      /\ \A i \in 1 .. m : p[n + i] = r[i]
  BY JoinTwo
<1> HIDE DEF n, m, p
<1>2. /\ \A i \in 1 .. n : i \in 1 .. n + m
      /\ \A i \in 1 .. m : n + i \in 1 .. n + m
      /\ \A i \in 1 .. n + m : i \in 1 .. n \/ (i - n \in 1 .. m /\ n + (i - n) = i)
  BY <1>1
<1>3. ASSUME NEW t \in Moments(p) PROVE t \in Moments(q) \cup Moments(r)
  <2>1. PICK i \in 1 .. n + m : t = p[i].time
    BY <1>1, <1>3 DEF Moments
  <2>2. CASE i \in 1 .. n
    BY <1>1, <2>1, <2>2 DEF Moments, n
  <2>3. CASE i - n \in 1 .. m /\ n + (i - n) = i
    <3>1. p[i] = r[i - n]
      BY <1>1, <2>3
    <3> QED
      BY <2>1, <2>3, <3>1 DEF Moments, m
  <2> QED
    BY <1>2, <2>1, <2>2, <2>3
<1>4. ASSUME NEW t \in Moments(q) PROVE t \in Moments(p)
  BY <1>1, <1>2 DEF Moments, n
<1>5. ASSUME NEW t \in Moments(r) PROVE t \in Moments(p)
  <2>1. PICK i \in 1 .. m : t = r[i].time
    BY DEF Moments, m
  <2>2. p[n + i] = r[i] /\ n + i \in 1 .. n + m
    BY <1>1, <1>2
  <2> QED
    BY <1>1, <2>1, <2>2 DEF Moments
<1> QED
  BY <1>3, <1>4, <1>5 DEF p

LEMMA MomentsOne ==
  ASSUME NEW T, NEW q \in Seq(T), NEW x \in T
  PROVE  Moments(Append(q, x)) = Moments(q) \cup {x.time} /\ Moments(<< >>) = {}
<1> DEFINE n == Len(q)
           p == Append(q, x)
<1>1. n \in Nat /\ Len(p) = n + 1 /\ p[n + 1] = x /\ \A i \in 1 .. n : p[i] = q[i]
  BY AppendOne
<1>2. Moments(<< >>) = {}
  BY EmptySeq DEF Moments
<1> HIDE DEF n, p
<1>3. \A i : i \in 1 .. n + 1 <=> i \in 1 .. n \/ i = n + 1
  BY <1>1
<1>4. Moments(p) = Moments(q) \cup {x.time}
  BY <1>1, <1>3 DEF Moments, n
<1> QED
  BY <1>2, <1>4 DEF p

LEMMA MomentsOf ==
  ASSUME NEW s, NEW q, q \in Seq(Read)
  PROVE  Moments(OfSignal(s, q)) = Moments(q)
<1> DEFINE o == OfSignal(s, q)
           n == Len(q)
<1>1. DOMAIN q = 1 .. n /\ n \in Nat
  BY LenProperties
<1>2. o = [i \in 1 .. n |-> [time |-> q[i].time, signal |-> s, code |-> q[i].code]]
  BY <1>1 DEF OfSignal
<1>3. Len(o) = n /\ \A i \in 1 .. n : o[i].time = q[i].time
  <2> HIDE DEF n
  <2> QED
    BY <1>1, <1>2
<1> HIDE DEF o, n
<1> QED
  BY <1>3 DEF Moments, o, n

LEMMA MomentsWithin ==
  ASSUME NEW a, NEW z
  PROVE  \A q \in Seq(Emissions) :
           Moments(Filter(q, Within(Emissions, a, z))) = {t \in Moments(q) : a <= t /\ t <= z}
<1> DEFINE W == Within(Emissions, a, z)
           P == {q \in Seq(Emissions) : Moments(Filter(q, W)) = {t \in Moments(q) : a <= t /\ t <= z}}
<1>1. << >> \in P
  <2>1. Moments(<< >>) = {} /\ << >> \in Seq(Emissions)
    BY EmptySeq DEF Moments
  <2> QED
    BY <2>1, FilterEmpty
<1>2. ASSUME NEW q \in Seq(Emissions), NEW x \in Emissions, q \in P PROVE Append(q, x) \in P
  <2> DEFINE f == Filter(q, W)
  <2>1. Moments(f) = {t \in Moments(q) : a <= t /\ t <= z}
    BY <1>2
  <2>2. f \in Seq(Emissions)
    <3>1. f \in Seq(Emissions \cap W)
      BY FilterType
    <3> QED
      BY <3>1, SeqMonotonic
  <2>3. x \in W <=> a <= x.time /\ x.time <= z
    BY DEF Within, InWindow
  <2> HIDE DEF f, W
  <2>4. Filter(Append(q, x), W) = IF x \in W THEN Append(f, x) ELSE f
    BY FilterAppend DEF f
  <2>5. Moments(Append(q, x)) = Moments(q) \cup {x.time}
    BY MomentsOne
  <2>6. Moments(Append(f, x)) = Moments(f) \cup {x.time}
    BY <2>2, MomentsOne
  <2>7. Append(q, x) \in Seq(Emissions)
    BY AppendOne
  <2>8. Moments(Filter(Append(q, x), W)) = {t \in Moments(Append(q, x)) : a <= t /\ t <= z}
    BY <2>1, <2>3, <2>4, <2>5, <2>6
  <2> QED
    BY <2>7, <2>8
<1> HIDE DEF P
<1>3. \A q \in Seq(Emissions) : q \in P
  BY <1>1, <1>2, Lists
<1> QED
  BY <1>3 DEF P

LEMMA MomentsRecorded ==
  ASSUME NEW T, Sounds(T), NEW s \in Signals
  PROVE  \A bs \in Seq(T) : \A t :
           t \in Moments(Recorded(bs, s)) <=> \E j \in 1 .. Len(bs) : t \in Moments(Full(bs[j], s))
<1> DEFINE Same(bs) == \A t : t \in Moments(Recorded(bs, s))
                              <=> \E j \in 1 .. Len(bs) : t \in Moments(Full(bs[j], s))
           P == {bs \in Seq(T) : Same(bs)}
<1>1. << >> \in P
  <2>1. Moments(<< >>) = {} /\ << >> \in Seq(T) /\ Len(<< >>) = 0
    BY EmptySeq DEF Moments
  <2> QED
    BY <2>1, RecordedNone
<1>2. ASSUME NEW bs \in Seq(T), NEW b \in T, bs \in P PROVE Append(bs, b) \in P
  <2> DEFINE n == Len(bs)
             p == Append(bs, b)
             F == Full(b, s)
  <2>1. p \in Seq(T) /\ n \in Nat /\ Len(p) = n + 1 /\ p[n + 1] = b /\ \A i \in 1 .. n : p[i] = bs[i]
    BY AppendOne
  <2>2. F \in Seq(Read) /\ OfSignal(s, F) \in Seq(Emissions)
    BY FullType DEF Sounds
  <2>3. Recorded(bs, s) \in Seq(Emissions) /\ Recorded(p, s) = Recorded(bs, s) \o OfSignal(s, F)
    BY RecordedAppend
  <2> HIDE DEF F, p, n
  <2>4. Moments(Recorded(p, s)) = Moments(Recorded(bs, s)) \cup Moments(OfSignal(s, F))
    BY <2>2, <2>3, MomentsJoin
  <2>5. Moments(OfSignal(s, F)) = Moments(F)
    BY <2>2, MomentsOf
  <2>6. \A i : i \in 1 .. n + 1 <=> i \in 1 .. n \/ i = n + 1
    BY <2>1
  <2>7. Same(bs)
    BY <1>2
  <2>8. ASSUME NEW t PROVE t \in Moments(Recorded(p, s)) <=> \E j \in 1 .. Len(p) : t \in Moments(Full(p[j], s))
    <3>1. t \in Moments(Recorded(p, s)) <=> (\E j \in 1 .. n : t \in Moments(Full(bs[j], s))) \/ t \in Moments(F)
      BY <2>4, <2>5, <2>7 DEF n
    <3>2. (\E j \in 1 .. n + 1 : t \in Moments(Full(p[j], s)))
            <=> (\E j \in 1 .. n : t \in Moments(Full(bs[j], s))) \/ t \in Moments(F)
      BY <2>1, <2>6 DEF F
    <3> QED
      BY <2>1, <3>1, <3>2
  <2> QED
    BY <2>1, <2>8 DEF p
<1> HIDE DEF P
<1>3. \A bs \in Seq(T) : bs \in P
  BY <1>1, <1>2, Lists
<1> QED
  BY <1>3 DEF P

\* What a reader finds after the first time is what the list is laid over.
LEMMA TimesAreTotal ==
  ASSUME IInv, NEW s, s \in Signals, TMin \in Nat
  PROVE  {c.time : c \in Range(Changes(s, TMin + 1, MaxTime))} = Total(s, Len(blocks))
<1> DEFINE T == Ranged(blocks)
           a == TMin + 1
           q == Changes(s, a, MaxTime)
           R == Recorded(blocks, s)
           n == Len(blocks)
<1>1. Sounds(T) /\ blocks \in Seq(T) /\ n \in Nat /\ \A i \in 1 .. n : Valid(blocks[i])
  <2>1. Sounds(T) /\ blocks \in Seq(T) /\ \A b \in T : Valid(b)
    BY FileSounds DEF IInv, Recording, FileOK
  <2> HIDE DEF T
  <2> QED
    BY <2>1, LenProperties, ElementOfSeq
<1>2. a \in Nat /\ MaxTime \in Nat
  BY ConstantsOK DEF ConstantsOK
<1> HIDE DEF T, a
<1>3. q \in Seq(Read) /\ OfSignal(s, q) = Filter(R, Within(Emissions, a, MaxTime))
  BY <1>2, ChangesAre
<1>4. R \in Seq(Emissions)
  BY <1>1, RecordedAppend
<1> HIDE DEF q, R
<1>5. Moments(q) = {t \in Moments(R) : a <= t /\ t <= MaxTime}
  BY <1>3, <1>4, MomentsOf, MomentsWithin
<1>6. {c.time : c \in Range(q)} = Moments(q)
  <2>1. DOMAIN q = 1 .. Len(q)
    BY <1>3, LenProperties
  <2> QED
    BY <2>1 DEF Range, Moments
<1>7. \A t : t \in Moments(R) <=> \E j \in 1 .. n : t \in Moments(Full(blocks[j], s))
  BY <1>1, MomentsRecorded DEF R
<1>8. ASSUME NEW j \in 1 .. n, NEW t
      PROVE  t \in Moments(Full(blocks[j], s)) /\ a <= t /\ t <= MaxTime <=> t \in Active(blocks[j], s)
  <2> DEFINE b == blocks[j]
             F == Full(b, s)
  <2>1. Valid(b)
    BY <1>1
  <2>2. b.end \in Nat /\ b.end <= MaxTime
    BY <2>1 DEF Valid
  <2>3. F \in Seq(Read)
    BY <2>1, ValidSound, FullType
  <2>4. \A i \in 1 .. Len(F) : F[i].time \in Nat
    <3>1. \A i \in 1 .. Len(F) : F[i] \in Read
      <4> HIDE DEF F
      <4> QED
        BY <2>3, ElementOfSeq
    <3> QED
      BY <3>1 DEF Read
  <2>5. t \in Active(b, s) => t <= MaxTime
    <3>1. t \in Active(b, s) => t <= b.end /\ t \in Nat
      BY <2>1, ActiveWithin DEF Active
    <3> QED
      BY <1>2, <2>2, <3>1
  <2>6. t \in Active(b, s) <=> t \in Nat /\ t > TMin /\ t \in Moments(F)
    BY DEF Active, Moments
  <2>7. t \in Moments(F) => t \in Nat
    BY <2>4 DEF Moments
  <2> HIDE DEF F, b
  <2>8. t \in Nat => (a <= t <=> t > TMin)
    BY DEF a
  <2> QED
    BY <2>5, <2>6, <2>7, <2>8 DEF F, b
<1>9. Total(s, n) = {t \in Moments(R) : a <= t /\ t <= MaxTime}
  <2>1. \A t : t \in Total(s, n) <=> \E j \in 1 .. n : t \in Active(blocks[j], s)
    BY DEF Total, Active
  <2> HIDE DEF n
  <2> QED
    BY <1>7, <1>8, <2>1
<1> QED
  BY <1>5, <1>6, <1>9 DEF q, a, n

LEMMA TMinType ==
  ASSUME FileOK(blocks)
  PROVE  TMin \in Nat
<1> DEFINE T == Ranged(blocks)
<1>1. blocks \in Seq(T) /\ \A b \in T : Valid(b)
  BY DEF FileOK
<1> HIDE DEF T
<1>2. blocks # << >> => blocks[1] \in T
  BY <1>1, EmptySeq, LenProperties, ElementOfSeq
<1> QED
  BY <1>1, <1>2 DEF TMin, Valid

\* ActivityExact: in every state of every run, the index accepts what the
\* builder wrote of the blocks in the file and names, for every window, just
\* the signals of which the reader finds a change there (activity/).
THEOREM ActivityIsExact == Spec => []ActivityExact
<1>1. ASSUME IInv PROVE ActivityExact
  <2>1. FileOK(blocks) /\ TMin \in Nat
    BY <1>1, TMinType DEF IInv, Recording
  <2>2. ASSUME NEW s \in Signals
        PROVE  LET list == Decode(Built(s))
                   times == {c.time : c \in Range(Changes(s, TMin + 1, MaxTime))}
               IN  /\ list.ok /\ list.start = 0
                   /\ \A w \in Windows :
                        Classify(list.stretches, w[1], w[2]) <=> (w[1] .. w[2]) \cap times # {}
    <3> DEFINE list == Decode(Built(s))
               times == {c.time : c \in Range(Changes(s, TMin + 1, MaxTime))}
    <3>1. list.ok = TRUE /\ list.start = 0 /\ Laid(list.stretches, Total(s, Len(blocks)))
      BY <2>1, ListIs
    <3>2. times = Total(s, Len(blocks))
      BY <1>1, <2>1, TimesAreTotal
    <3> HIDE DEF list, times
    <3>3. ASSUME NEW w \in Windows
          PROVE  Classify(list.stretches, w[1], w[2]) <=> (w[1] .. w[2]) \cap times # {}
      <4>1. w[1] \in Nat /\ w[2] \in Nat /\ w[1] <= w[2]
        BY ConstantsOK DEF ConstantsOK, Windows
      <4> QED
        BY <3>1, <3>2, <4>1, ClassifyIs
    <3> QED
      BY <3>1, <3>3 DEF list, times
  <2> QED
    BY <2>2 DEF ActivityExact
<1> QED
  BY <1>1, Inductive, PTL
=============================================================================
