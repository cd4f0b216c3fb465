-------------------------- MODULE PayloadPoolProofs -------------------------
(***************************************************************************)
(* PayloadPool, for any number of encoders, any limit and any lengths: no  *)
(* buffer is forgotten on the returned list, and the counter is exactly    *)
(* what the pool retains, and within its limit.                            *)
(***************************************************************************)
EXTENDS PayloadPool, DataLemmas

Steps == {"idle", "admit", "reserve", "lock", "extend", "store"}

\* The mutex: who holds it is where it says, between taking and giving it up.
Mutex ==
  /\ at \in [Encoders -> Steps]
  /\ owner \in {"refill", "clear"} <=> lock = Owner
  /\ \A e \in Encoders : at[e] \in {"extend", "store"} <=> lock = e

\* What is on the list is announced, or about to be by who holds the mutex.
Announced ==
  /\ returned # << >> => pending \/ \E e \in Encoders : at[e] = "store"
  /\ owner = "clear" => returned = << >>

IInv == Mutex /\ Announced

LEMMA InitInv ==
  ASSUME PoolAssumption, Init
  PROVE  IInv
BY DEF PoolAssumption, Init, IInv, Mutex, Announced, Steps

\* The step of an encoder that touches neither the list nor the mutex.
LEMMA Elsewhere ==
  ASSUME IInv, NEW e \in Encoders, at' \in [Encoders -> Steps],
         at[e] \notin {"extend", "store"}, at'[e] \notin {"extend", "store"},
         \A d \in Encoders \ {e} : at'[d] = at[d],
         UNCHANGED <<pending, returned, lock, owner>>
  PROVE  IInv'
BY DEF IInv, Mutex, Announced

\* A step that leaves the encoders alone, and list and mutex too.
LEMMA OutsideMutex ==
  ASSUME IInv, owner \notin {"refill", "clear"}, owner' \notin {"refill", "clear"},
         UNCHANGED <<pending, returned, lock, at>>
  PROVE  IInv'
BY DEF IInv, Mutex, Announced

LEMMA BackendStep ==
  ASSUME PoolAssumption, IInv, Backend
  PROVE  IInv'
<1> USE DEF PoolAssumption
<1>1. CASE Take
  <2>1. owner \notin {"refill", "clear"} /\ owner' \notin {"refill", "clear"}
    BY <1>1 DEF Take
  <2> QED
    BY <1>1, <2>1, OutsideMutex DEF Take, sharedVars, encoderVars
<1>2. CASE LockReturned
  <2>1. Mutex'
    BY <1>2 DEF LockReturned, IInv, Mutex, encoderVars
  <2>2. Announced'
    BY <1>2 DEF LockReturned, IInv, Announced, encoderVars
  <2> QED
    BY <2>1, <2>2 DEF IInv
<1>3. CASE Refill
  BY <1>3 DEF Refill, IInv, Mutex, Announced, encoderVars
<1>4. CASE ClearPending
  <2>1. Mutex'
    BY <1>4 DEF ClearPending, IInv, Mutex, encoderVars
  <2>2. Announced'
    BY <1>4 DEF ClearPending, IInv, Announced, encoderVars
  <2> QED
    BY <2>1, <2>2 DEF IInv
<1>5. CASE Pop
  <2>1. owner = "pop" /\ owner' = "idle"
    BY <1>5 DEF Pop, Serve
  <2> QED
    BY <1>5, <2>1, OutsideMutex DEF Pop, encoderVars
<1>6. CASE DropPool
  BY <1>6, OutsideMutex DEF DropPool, encoderVars
<1> QED
  BY <1>1, <1>2, <1>3, <1>4, <1>5, <1>6 DEF Backend

LEMMA RecycleStep ==
  ASSUME PoolAssumption, IInv, NEW e \in Encoders, Recycle(e)
  PROVE  IInv'
<1> USE DEF PoolAssumption
<1>0. at \in [Encoders -> Steps]
  BY DEF IInv, Mutex
<1>1. CASE Encode(e)
  BY <1>0, <1>1, Elsewhere DEF Encode, Steps, sharedVars, poolVars
<1>2. CASE Unwind(e)
  BY <1>0, <1>2, Elsewhere DEF Unwind, Steps, sharedVars, poolVars
<1>3. CASE Admit(e)
  <2>1. PICK step \in {"idle", "reserve"} : at' = [at EXCEPT ![e] = step]
    BY <1>3 DEF Admit, Look
  <2> QED
    BY <1>0, <1>3, <2>1, Elsewhere DEF Admit, Steps, sharedVars, poolVars
<1>4. CASE Reserve(e)
  <2>1. PICK step \in {"idle", "reserve", "lock"} : at' = [at EXCEPT ![e] = step]
    BY <1>4 DEF Reserve, Look
  <2> QED
    BY <1>0, <1>4, <2>1, Elsewhere DEF Reserve, Steps, poolVars
<1>5. CASE LockReturn(e)
  <2>1. Mutex'
    BY <1>0, <1>5 DEF LockReturn, IInv, Mutex, Steps, poolVars
  <2>2. Announced'
    <3>1. \A d \in Encoders : at[d] = "store" => at'[d] = "store"
      BY <1>0, <1>5 DEF LockReturn
    <3> QED
      BY <1>5, <3>1 DEF LockReturn, IInv, Announced, poolVars
  <2> QED
    BY <2>1, <2>2 DEF IInv
<1>6. CASE Extend(e)
  <2>1. lock = e /\ owner \notin {"refill", "clear"}
    BY <1>6 DEF Extend, IInv, Mutex
  <2>2. Mutex'
    BY <1>0, <1>6, <2>1 DEF Extend, IInv, Mutex, Steps, poolVars
  <2>3. Announced'
    BY <1>0, <1>6, <2>1 DEF Extend, Announced, poolVars
  <2> QED
    BY <2>2, <2>3 DEF IInv
<1>7. CASE StorePending(e)
  <2>1. lock = e /\ owner \notin {"refill", "clear"}
    BY <1>7 DEF StorePending, IInv, Mutex
  <2>2. Mutex'
    BY <1>0, <1>7, <2>1 DEF StorePending, IInv, Mutex, Steps, poolVars
  <2>3. Announced'
    BY <1>7, <2>1 DEF StorePending, Announced, poolVars
  <2> QED
    BY <2>2, <2>3 DEF IInv
<1> QED
  BY <1>1, <1>2, <1>3, <1>4, <1>5, <1>6, <1>7 DEF Recycle

LEMMA Quiet == IInv /\ UNCHANGED vars => IInv'
BY DEF IInv, Mutex, Announced, vars, sharedVars, poolVars, encoderVars

LEMMA Forgotten ==
  ASSUME PoolAssumption, IInv
  PROVE  NothingForgotten
BY DEF PoolAssumption, IInv, Mutex, Announced, NothingForgotten

(***************************************************************************)
(* Whatever the encoders do while take() empties the list and clears its   *)
(* flag, a buffer that is on the list is announced.                        *)
(***************************************************************************)
THEOREM ForgetsNothing ==
  ASSUME PoolAssumption
  PROVE  Spec => []NothingForgotten
<1>1. Init => IInv
  BY InitInv
<1>2. IInv /\ [Next]_vars => IInv'
  BY BackendStep, RecycleStep, Quiet DEF Next
<1>3. IInv => NothingForgotten
  BY Forgotten
<1> QED
  BY <1>1, <1>2, <1>3, PTL DEF Spec

(***************************************************************************)
(* The room: capacities are numbers, what the backend has of its own is    *)
(* what it counted, and a sum an encoder is about to reserve still fits    *)
(* the counter it read.                                                    *)
(***************************************************************************)
Types ==
  /\ available \in Seq(Nat) /\ returned \in Seq(Nat) /\ held \in Seq(Nat)
  /\ carried \in [Encoders -> Seq(Nat)] /\ seen \in [Encoders -> Nat]
  /\ released \in Nat /\ length \in Nat

Books ==
  /\ owner \in {"lock", "refill"} => available = << >>
  /\ owner # "clear" => bytes = Total(available)
  /\ \A e \in Encoders : at[e] = "reserve" => Total(carried[e]) + seen[e] <= Limit

RoomInv == Types /\ Books /\ Retained

\* What some encoders carry.
Carrying(some, what) == SumFunctionOnSet([e \in Encoders |-> Total(what[e])], some)

LEMMA TotalNat ==
  ASSUME NEW s \in Seq(Nat)
  PROVE  Total(s) \in Nat
<1>1. Total(s) = Sum(s)
  BY DEF Total, Sum
<1> QED
  BY <1>1, SumNat

LEMMA TotalNone == Total(<< >>) = 0
<1>1. Total(<< >>) = Sum(<< >>)
  BY DEF Total, Sum
<1> QED
  BY <1>1, SumNone

LEMMA TotalLast ==
  ASSUME NEW s \in Seq(Nat), s # << >>
  PROVE  /\ Front(s) \in Seq(Nat) /\ Last(s) \in Nat
         /\ Total(s) = Total(Front(s)) + Last(s)
<1>1. Total(s) = Sum(s) /\ Total(Front(s)) = Sum(Front(s))
  BY DEF Total, Sum
<1>2. s \in Seq(Int)
  BY SumNat
<1>3. Front(s) \in Seq(Nat) /\ Last(s) \in Nat
  <2>1. Len(s) \in Nat /\ Len(s) # 0 /\ \A i \in 1 .. Len(s) : s[i] \in Nat
    BY LenProperties, EmptySeq, ElementOfSeq
  <2>2. Last(s) \in Nat
    BY <2>1 DEF Last
  <2>3. SubSeq(s, 1, Len(s) - 1) \in Seq(Nat)
    <3>1. \A i \in 1 .. Len(s) - 1 : s[i] \in Nat
      BY <2>1
    <3> QED
      BY <3>1, SubSeqProperties
  <2> QED
    BY <2>2, <2>3 DEF Front
<1> QED
  BY <1>1, <1>2, <1>3, SumOne

LEMMA TotalJoin ==
  ASSUME NEW s \in Seq(Nat), NEW t \in Seq(Nat)
  PROVE  s \o t \in Seq(Nat) /\ Total(s \o t) = Total(s) + Total(t)
<1>1. Total(s) = Sum(s) /\ Total(t) = Sum(t) /\ Total(s \o t) = Sum(s \o t)
  BY DEF Total, Sum
<1>2. s \in Seq(Int) /\ t \in Seq(Int)
  BY SumNat
<1>3. s \o t \in Seq(Nat)
  BY ConcatProperties
<1> QED
  BY <1>1, <1>2, <1>3, SumJoin

LEMMA TotalAppended ==
  ASSUME NEW s \in Seq(Nat), NEW c \in Nat
  PROVE  Append(s, c) \in Seq(Nat) /\ Total(Append(s, c)) = Total(s) + c
<1>1. Total(s) = Sum(s) /\ Total(Append(s, c)) = Sum(Append(s, c))
  BY DEF Total, Sum
<1>2. s \in Seq(Int) /\ c \in Int
  BY SumNat
<1>3. Append(s, c) \in Seq(Nat)
  BY AppendProperties
<1> QED
  BY <1>1, <1>2, <1>3, SumAppended

LEMMA CarryingNat ==
  ASSUME PoolAssumption, NEW some \in SUBSET Encoders, NEW what \in [Encoders -> Seq(Nat)]
  PROVE  IsFiniteSet(some) /\ Carrying(some, what) \in Nat
<1> DEFINE f == [e \in Encoders |-> Total(what[e])]
<1>1. IsFiniteSet(some)
  BY FS_Subset DEF PoolAssumption
<1>2. \A e \in some : f[e] \in Nat
  BY TotalNat
<1>3. Carrying(some, what) = SumFunctionOnSet(f, some)
  BY DEF Carrying
<1> QED
  <2> HIDE DEF f
  <2> QED
    BY <1>1, <1>2, <1>3, SumOver

LEMMA CarryingSame ==
  ASSUME PoolAssumption, NEW some \in SUBSET Encoders, NEW what, NEW that,
         \A e \in some : what[e] = that[e]
  PROVE  Carrying(some, what) = Carrying(some, that)
<1> DEFINE f == [e \in Encoders |-> Total(what[e])]
           g == [e \in Encoders |-> Total(that[e])]
<1>1. IsFiniteSet(some)
  BY FS_Subset DEF PoolAssumption
<1>2. \A e \in some : f[e] = g[e]
  OBVIOUS
<1>3. /\ Carrying(some, what) = SumFunctionOnSet(f, some)
      /\ Carrying(some, that) = SumFunctionOnSet(g, some)
  BY DEF Carrying
<1> QED
  <2> HIDE DEF f, g
  <2> QED
    BY <1>1, <1>2, <1>3, SumAgrees

LEMMA CarryingOne ==
  ASSUME PoolAssumption, NEW some \in SUBSET Encoders, NEW what \in [Encoders -> Seq(Nat)],
         NEW e \in some
  PROVE  Carrying(some, what) = Total(what[e]) + Carrying(some \ {e}, what)
<1> DEFINE f == [d \in Encoders |-> Total(what[d])]
<1>1. IsFiniteSet(some)
  BY FS_Subset DEF PoolAssumption
<1>2. \A d \in some : f[d] \in Nat
  BY TotalNat
<1>3. /\ Carrying(some, what) = SumFunctionOnSet(f, some)
      /\ Carrying(some \ {e}, what) = SumFunctionOnSet(f, some \ {e})
  BY DEF Carrying
<1>4. f[e] = Total(what[e])
  OBVIOUS
<1> HIDE DEF f
<1>5. \A d \in some : SumFunctionOnSet(f, some) = f[d] + SumFunctionOnSet(f, some \ {d})
  BY <1>1, <1>2, SumOver
<1> QED
  BY <1>3, <1>4, <1>5, Zenon

\* A function that keeps what fits among the first i buffers.
Keeps(buffers, room, n, f) ==
  f = [i \in 0 .. n |->
         IF i = 0 THEN << >>
         ELSE IF buffers[i] # 0 /\ Total(f[i - 1]) + buffers[i] <= room
         THEN Append(f[i - 1], buffers[i])
         ELSE f[i - 1]]

LEMMA KeepExists ==
  ASSUME NEW buffers, NEW room, NEW n \in Nat
  PROVE  \E f : Keeps(buffers, room, n, f)
<1> DEFINE Fits(kept, c) == c # 0 /\ Total(kept) + c <= room
           P == {k \in Nat : \E f : Keeps(buffers, room, k, f)}
<1>1. 0 \in P
  <2> DEFINE f == [i \in 0 .. 0 |-> << >>]
  <2>1. Keeps(buffers, room, 0, f)
    BY DEF Keeps
  <2> QED
    BY <2>1
<1>2. ASSUME NEW k \in P PROVE k + 1 \in P
  <2>1. PICK f : Keeps(buffers, room, k, f)
    OBVIOUS
  <2> DEFINE more == IF Fits(f[k], buffers[k + 1]) THEN Append(f[k], buffers[k + 1]) ELSE f[k]
             g == [i \in 0 .. k + 1 |-> IF i = k + 1 THEN more ELSE f[i]]
  <2> HIDE DEF Fits
  <2>2. k \in 0 .. k + 1 /\ (k + 1) - 1 = k /\ k # k + 1 /\ k + 1 # 0 /\ k + 1 \in 0 .. k + 1
    OBVIOUS
  <2>3. f[0] = << >> /\ \A i \in 1 .. k :
          f[i] = IF Fits(f[i - 1], buffers[i]) THEN Append(f[i - 1], buffers[i]) ELSE f[i - 1]
    <3>1. 0 \in 0 .. k /\ \A i \in 1 .. k : i \in 0 .. k /\ i # 0
      OBVIOUS
    <3> QED
      BY <2>1, <3>1 DEF Keeps, Fits
  <2>4. g[0] = << >>
    BY <2>3
  <2>5. ASSUME NEW i \in 0 .. k + 1, i # 0
        PROVE  g[i] = IF Fits(g[i - 1], buffers[i]) THEN Append(g[i - 1], buffers[i]) ELSE g[i - 1]
    <3>1. CASE i = k + 1
      <4>1. g[i - 1] = f[k] /\ g[i] = more
        BY <2>2, <3>1
      <4> QED
        BY <2>2, <3>1, <4>1
    <3>2. CASE i # k + 1
      <4>1. i \in 1 .. k /\ i - 1 \in 0 .. k + 1 /\ i - 1 # k + 1 /\ i \in 0 .. k + 1
        BY <2>5, <3>2
      <4>2. g[i - 1] = f[i - 1] /\ g[i] = f[i]
        BY <3>2, <4>1
      <4> QED
        BY <2>3, <4>1, <4>2
    <3> QED
      BY <3>1, <3>2
  <2>6. g = [i \in 0 .. k + 1 |-> g[i]]
    OBVIOUS
  <2>7. Keeps(buffers, room, k + 1, g)
    <3> HIDE DEF g
    <3> QED
      BY <2>4, <2>5, <2>6 DEF Keeps, Fits
  <2> QED
    BY <2>7
<1>3. \A k \in Nat : k \in P
  <2> HIDE DEF P
  <2> QED
    BY <1>1, <1>2, Induction
<1> QED
  BY <1>3

\* What is kept fits the room.
LEMMA FittingFits ==
  ASSUME NEW buffers \in Seq(Nat), NEW room \in Nat
  PROVE  Fitting(buffers, room) \in Seq(Nat) /\ Total(Fitting(buffers, room)) <= room
<1> DEFINE n == Len(buffers)
           f == CHOOSE f : Keeps(buffers, room, n, f)
<1>1. n \in Nat /\ \A i \in 1 .. n : buffers[i] \in Nat
  BY LenProperties, ElementOfSeq
<1>2. Keeps(buffers, room, n, f)
  BY <1>1, KeepExists
<1>3. Fitting(buffers, room) = f[n]
  BY DEF Fitting, Keeps
<1> HIDE DEF n, f
<1> DEFINE P == {k \in Nat : k <= n => f[k] \in Seq(Nat) /\ Total(f[k]) <= room}
<1>4. 0 \in P
  <2>1. f[0] = << >>
    BY <1>1, <1>2 DEF Keeps
  <2>2. << >> \in Seq(Nat) /\ Total(<< >>) <= room
    BY TotalNone
  <2> QED
    BY <2>1, <2>2
<1>5. ASSUME NEW k \in P PROVE k + 1 \in P
  <2> SUFFICES ASSUME k + 1 <= n PROVE f[k + 1] \in Seq(Nat) /\ Total(f[k + 1]) <= room
    OBVIOUS
  <2>1. k + 1 \in 0 .. n /\ k + 1 # 0 /\ (k + 1) - 1 = k /\ k + 1 \in 1 .. n /\ k <= n
    BY <1>1
  <2>2. f[k] \in Seq(Nat) /\ Total(f[k]) <= room /\ buffers[k + 1] \in Nat
    BY <1>1, <2>1
  <2>3. f[k + 1] = IF buffers[k + 1] # 0 /\ Total(f[k]) + buffers[k + 1] <= room
                   THEN Append(f[k], buffers[k + 1]) ELSE f[k]
    BY <1>2, <2>1 DEF Keeps
  <2>4. /\ Append(f[k], buffers[k + 1]) \in Seq(Nat)
        /\ Total(Append(f[k], buffers[k + 1])) = Total(f[k]) + buffers[k + 1]
    BY <2>2, TotalAppended
  <2> QED
    BY <2>2, <2>3, <2>4
<1>6. \A k \in Nat : k \in P
  <2> HIDE DEF P
  <2> QED
    BY <1>4, <1>5, Induction
<1> QED
  BY <1>1, <1>3, <1>6

\* The larger of two numbers.
LEMMA Larger ==
  ASSUME NEW a \in Nat, NEW b \in Nat
  PROVE  /\ Max({a, b}) \in Nat
         /\ a <= b => Max({a, b}) = b
         /\ b <= a => Max({a, b}) = a
<1>1. a \in {a, b} /\ b \in {a, b} /\ {a, b} \in SUBSET Int
  OBVIOUS
<1>2. CASE a <= b
  <2>1. \A y \in {a, b} : b >= y
    BY <1>2
  <2>2. Max({a, b}) = b
    BY <1>1, <2>1, MaxIs
  <2> QED
    BY <1>2, <2>2
<1>3. CASE ~(a <= b)
  <2>1. \A y \in {a, b} : a >= y
    BY <1>3
  <2>2. Max({a, b}) = a
    BY <1>1, <2>1, MaxIs
  <2> QED
    BY <1>3, <2>2
<1> QED
  BY <1>2, <1>3

\* What the encoders carry that is already reserved.
Borne == Carrying(Admitted, carried)

\* The counter, with what the encoders carry as one number.
LEMMA Counted == Exact <=> reserved = Total(available) + Total(returned) + released + Borne
BY DEF Exact, Borne, Carrying

LEMMA BorneNat ==
  ASSUME PoolAssumption, Types
  PROVE  /\ Borne \in Nat /\ Admitted \in SUBSET Encoders /\ Limit \in Nat
         /\ Total(available) \in Nat /\ Total(returned) \in Nat
         /\ Exact => reserved \in Nat
<1>1. Admitted \in SUBSET Encoders
  BY DEF Admitted
<1>2. Borne \in Nat
  BY <1>1, CarryingNat DEF Types, Borne
<1>3. Total(available) \in Nat /\ Total(returned) \in Nat /\ released \in Nat
  BY TotalNat DEF Types
<1> QED
  BY <1>1, <1>2, <1>3, Counted DEF PoolAssumption

\* A step that leaves the encoders alone, seen from the books.
LEMMA OwnerMoves ==
  ASSUME PoolAssumption, RoomInv, Types', UNCHANGED <<at, carried, seen>>,
         owner' \in {"lock", "refill"} => available' = << >>,
         owner' # "clear" => bytes' = Total(available'),
         \/ UNCHANGED <<reserved, available, returned, released>>
         \/ /\ reserved' = Total(available') + Total(returned') + released' + Borne
            /\ reserved' <= reserved
  PROVE  RoomInv'
<1>1. Borne' = Borne
  BY DEF Borne, Carrying, Admitted
<1>2. Borne \in Nat /\ Limit \in Nat /\ reserved \in Nat
  BY BorneNat DEF RoomInv, Retained
<1>3. Borne' \in Nat /\ Total(available') \in Nat /\ Total(returned') \in Nat /\ released' \in Nat
  BY <1>1, <1>2, TotalNat DEF Types
<1>4. Books'
  BY DEF RoomInv, Books
<1>5. Exact'
  <2>1. CASE UNCHANGED <<reserved, available, returned, released>>
    BY <1>1, <2>1, Counted DEF RoomInv, Retained, Exact, Borne, Carrying
  <2>2. CASE reserved' = Total(available') + Total(returned') + released' + Borne
    BY <1>1, <2>2 DEF Exact, Borne, Carrying
  <2> QED
    BY <2>1, <2>2
<1>6. WithinLimit'
  <2>1. reserved' \in Nat /\ reserved' <= reserved
    BY <1>1, <1>2, <1>3
  <2> QED
    BY <1>2, <2>1 DEF RoomInv, Retained, WithinLimit
<1> QED
  BY <1>4, <1>5, <1>6 DEF RoomInv, Retained

LEMMA OwnerKeepsRoom ==
  ASSUME PoolAssumption, RoomInv, Backend
  PROVE  RoomInv'
<1>1. /\ available \in Seq(Nat) /\ returned \in Seq(Nat) /\ held \in Seq(Nat)
      /\ released \in Nat /\ length \in Nat
  BY DEF RoomInv, Types
<1>2. /\ Borne \in Nat /\ reserved \in Nat /\ Total(available) \in Nat /\ Total(returned) \in Nat
      /\ reserved = Total(available) + Total(returned) + released + Borne
  BY BorneNat, Counted DEF RoomInv, Retained
<1>3. << >> \in Seq(Nat) /\ Total(<< >>) = 0
  BY TotalNone
<1>4. owner # "clear" => bytes = Total(available)
  BY DEF RoomInv, Books
<1>5. CASE Take
  <2>1. Types'
    BY <1>5 DEF Take, RoomInv, Types, PoolAssumption, sharedVars, encoderVars
  <2> QED
    BY <1>4, <1>5, <2>1, OwnerMoves DEF Take, sharedVars, encoderVars
<1>6. CASE LockReturned
  <2>1. Types'
    BY <1>6 DEF LockReturned, RoomInv, Types, backendVars, encoderVars
  <2>2. available = << >>
    BY <1>6 DEF LockReturned, RoomInv, Books
  <2> QED
    BY <1>4, <1>6, <2>1, <2>2, OwnerMoves DEF LockReturned, backendVars, encoderVars
<1>7. CASE Refill
  <2>1. Types'
    BY <1>3, <1>7 DEF Refill, RoomInv, Types, backendVars, encoderVars
  <2>2. available = << >>
    BY <1>7 DEF Refill, RoomInv, Books
  <2>3. reserved' = Total(available') + Total(returned') + released' + Borne
    BY <1>2, <1>3, <1>7, <2>2 DEF Refill
  <2>4. reserved' <= reserved
    BY <1>2, <1>7 DEF Refill
  <2> QED
    BY <1>7, <2>1, <2>3, <2>4, OwnerMoves DEF Refill, encoderVars
<1>8. CASE ClearPending
  <2>1. Types'
    BY <1>8 DEF ClearPending, RoomInv, Types, backendVars, encoderVars
  <2> QED
    BY <1>8, <2>1, OwnerMoves DEF ClearPending, encoderVars
<1>9. CASE Pop
  <2>1. owner = "pop" /\ owner' = "idle" /\ UNCHANGED <<returned, length, at, carried, seen>>
    BY <1>9 DEF Pop, Serve, encoderVars
  <2>2. CASE available = << >>
    <3>1. held' = Append(held, Max({0, length})) /\ UNCHANGED <<reserved, available, bytes, released>>
      BY <1>9, <2>2 DEF Pop, Serve
    <3>2. held' \in Seq(Nat)
      BY <1>1, <3>1, Larger, AppendProperties
    <3>3. Types'
      BY <2>1, <3>1, <3>2 DEF RoomInv, Types
    <3> QED
      BY <1>4, <2>1, <3>1, <3>3, OwnerMoves
  <2>3. CASE available # << >>
    <3> DEFINE capacity == Last(available)
               settled == Len(available) = 1 \/ released + capacity >= Threshold
    <3>1. /\ held' = Append(held, Max({capacity, length}))
          /\ available' = Front(available) /\ bytes' = bytes - capacity
          /\ released' = IF settled THEN 0 ELSE released + capacity
          /\ reserved' = IF settled THEN reserved - (released + capacity) ELSE reserved
      BY <1>9, <2>3 DEF Pop, Serve
    <3>2. /\ Front(available) \in Seq(Nat) /\ capacity \in Nat
          /\ Total(available) = Total(Front(available)) + capacity
      BY <1>1, <2>3, TotalLast
    <3> HIDE DEF capacity, settled
    <3>3. held' \in Seq(Nat)
      BY <1>1, <3>1, <3>2, Larger, AppendProperties
    <3>4. released' \in Nat
      BY <1>1, <3>1, <3>2
    <3>5. Types'
      BY <2>1, <3>1, <3>2, <3>3, <3>4 DEF RoomInv, Types
    <3>6. PICK front \in Nat : front = Total(available')
      BY <3>1, <3>2, TotalNat
    <3>7. bytes' = Total(available')
      BY <1>4, <2>1, <3>1, <3>2, <3>6
    <3>8. /\ reserved' = Total(available') + Total(returned') + released' + Borne
          /\ reserved' <= reserved
      <4>1. PICK r \in Nat : r = Total(returned) /\ r = Total(returned')
        BY <1>2, <2>1
      <4>2. PICK b \in Nat : b = Borne
        BY <1>2
      <4>3. reserved = (front + capacity) + r + released + b
        BY <1>2, <3>1, <3>2, <3>6, <4>1, <4>2, Zenon
      <4>4. reserved' = front + r + released' + b /\ reserved' <= reserved
        BY <1>1, <3>1, <3>2, <4>3
      <4> QED
        BY <3>6, <4>1, <4>2, <4>4, Zenon
    <3> QED
      BY <2>1, <3>5, <3>7, <3>8, OwnerMoves
  <2> QED
    BY <2>2, <2>3
<1>10. CASE DropPool
  <2>1. Types'
    BY <1>3, <1>10 DEF DropPool, RoomInv, Types, encoderVars
  <2>2. bytes = Total(available) /\ bytes' = Total(available')
    BY <1>3, <1>4, <1>10 DEF DropPool
  <2>3. /\ reserved' = Total(available') + Total(returned') + released' + Borne
        /\ reserved' <= reserved
    <3>1. PICK a \in Nat : a = Total(available)
      BY <1>2
    <3>2. PICK r \in Nat : r = Total(returned) /\ r = Total(returned')
      BY <1>2, <1>10 DEF DropPool
    <3>3. PICK b \in Nat : b = Borne
      BY <1>2
    <3>4. /\ reserved = a + r + released + b /\ reserved' = reserved - (a + released)
          /\ released' = 0 /\ Total(available') = 0
      <4>1. /\ reserved' = reserved - (bytes + released) /\ released' = 0 /\ available' = << >>
        BY <1>10 DEF DropPool
      <4> QED
        BY <1>2, <1>3, <2>2, <3>1, <3>2, <3>3, <4>1, Zenon
    <3>5. reserved' = 0 + r + 0 + b /\ reserved' <= reserved
      BY <1>1, <3>4
    <3> QED
      BY <3>2, <3>3, <3>4, <3>5, Zenon
  <2> QED
    BY <1>10, <2>1, <2>2, <2>3, OwnerMoves DEF DropPool, encoderVars
<1> QED
  BY <1>5, <1>6, <1>7, <1>8, <1>9, <1>10 DEF Backend

\* The step of an encoder that reserves nothing and puts nothing on the list.
LEMMA EncoderApart ==
  ASSUME PoolAssumption, RoomInv, Types', NEW e \in Encoders,
         at \in [Encoders -> Steps], at' \in [Encoders -> Steps],
         at[e] \notin {"lock", "extend"}, at'[e] \notin {"lock", "extend"},
         at'[e] = "reserve" => Total(carried'[e]) + seen'[e] <= Limit,
         \A d \in Encoders \ {e} :
           at'[d] = at[d] /\ carried'[d] = carried[d] /\ seen'[d] = seen[d],
         UNCHANGED <<reserved, returned, available, bytes, released, owner>>
  PROVE  RoomInv'
<1>1. Admitted' = Admitted /\ \A d \in Admitted : carried'[d] = carried[d]
  BY DEF Admitted
<1>2. Borne' = Borne
  <2>1. Carrying(Admitted, carried') = Carrying(Admitted, carried)
    BY <1>1, BorneNat, CarryingSame DEF RoomInv
  <2> QED
    BY <1>1, <2>1 DEF Borne, Carrying
<1>3. Exact' /\ WithinLimit'
  BY <1>2, Counted DEF RoomInv, Retained, Exact, WithinLimit, Borne, Carrying
<1>4. Books'
  BY DEF RoomInv, Books
<1> QED
  BY <1>3, <1>4 DEF RoomInv, Retained

\* What is looked up is what is kept, and fits the counter as it was read.
LEMMA LookFits ==
  ASSUME PoolAssumption, RoomInv, NEW e \in Encoders, Look(e, carried[e])
  PROVE  /\ carried' \in [Encoders -> Seq(Nat)] /\ seen' \in [Encoders -> Nat]
         /\ Total(carried'[e]) + seen'[e] <= Limit
         /\ \A d \in Encoders \ {e} : carried'[d] = carried[d] /\ seen'[d] = seen[d]
<1>1. /\ reserved \in Nat /\ reserved <= Limit /\ Limit \in Nat
      /\ carried \in [Encoders -> Seq(Nat)] /\ seen \in [Encoders -> Nat]
  BY BorneNat DEF RoomInv, Types, Retained, WithinLimit
<1> DEFINE room == Max({0, Limit - reserved})
           kept == Fitting(carried[e], room)
<1>2. room = Limit - reserved /\ room \in Nat
  <2>1. Limit - reserved \in Nat /\ 0 <= Limit - reserved /\ 0 \in Nat
    BY <1>1
  <2> QED
    BY <2>1, Larger
<1>3. seen' = [seen EXCEPT ![e] = reserved] /\ carried' = [carried EXCEPT ![e] = kept]
  BY DEF Look
<1> HIDE DEF room
<1>4. kept \in Seq(Nat) /\ Total(kept) <= room
  BY <1>1, <1>2, FittingFits
<1> HIDE DEF kept
<1>5. PICK k \in Nat : k = Total(kept)
  BY <1>4, TotalNat
<1>6. Total(carried'[e]) + seen'[e] = k + reserved /\ k + reserved <= Limit
  <2>1. carried'[e] = kept /\ seen'[e] = reserved
    BY <1>1, <1>3
  <2>2. k + reserved <= Limit
    BY <1>1, <1>2, <1>4, <1>5
  <2> QED
    BY <1>5, <2>1, <2>2
<1>7. carried' \in [Encoders -> Seq(Nat)] /\ seen' \in [Encoders -> Nat]
  BY <1>1, <1>3, <1>4
<1>8. \A d \in Encoders \ {e} : carried'[d] = carried[d] /\ seen'[d] = seen[d]
  BY <1>1, <1>3
<1> QED
  BY <1>6, <1>7, <1>8

LEMMA EncoderKeepsRoom ==
  ASSUME PoolAssumption, IInv, RoomInv, NEW e \in Encoders, Recycle(e)
  PROVE  RoomInv'
<1>1. at \in [Encoders -> Steps]
  BY DEF IInv, Mutex
<1>2. /\ available \in Seq(Nat) /\ returned \in Seq(Nat) /\ held \in Seq(Nat)
      /\ carried \in [Encoders -> Seq(Nat)] /\ seen \in [Encoders -> Nat]
      /\ released \in Nat /\ length \in Nat /\ Total(carried[e]) \in Nat
  BY TotalNat DEF RoomInv, Types
<1>3. /\ Borne \in Nat /\ reserved \in Nat /\ Total(available) \in Nat /\ Total(returned) \in Nat
      /\ Limit \in Nat /\ reserved <= Limit /\ Admitted \in SUBSET Encoders
      /\ reserved = Total(available) + Total(returned) + released + Borne
  BY BorneNat, Counted DEF RoomInv, Retained, WithinLimit
<1>4. CASE Encode(e)
  <2>1. /\ at[e] = "idle" /\ at' = [at EXCEPT ![e] = "admit"]
        /\ UNCHANGED <<sharedVars, poolVars, takes, seen>>
    BY <1>4 DEF Encode
  <2>2. PICK n \in 1 .. Len(held) : /\ carried' = [carried EXCEPT ![e] = SubSeq(held, 1, n)]
                                    /\ held' = SubSeq(held, n + 1, Len(held))
    BY <1>4 DEF Encode
  <2>3. SubSeq(held, 1, n) \in Seq(Nat) /\ SubSeq(held, n + 1, Len(held)) \in Seq(Nat)
    <3>1. Len(held) \in Nat /\ \A i \in 1 .. Len(held) : held[i] \in Nat
      BY <1>2, LenProperties, ElementOfSeq
    <3>2. (\A i \in 1 .. n : held[i] \in Nat) /\ \A i \in n + 1 .. Len(held) : held[i] \in Nat
      BY <3>1
    <3>3. SubSeq(held, 1, n) \in Seq(Nat)
      BY <3>2, SubSeqProperties
    <3>4. SubSeq(held, n + 1, Len(held)) \in Seq(Nat)
      BY <3>1, <3>2, SubSeqProperties
    <3> QED
      BY <3>3, <3>4
  <2>4. carried' \in [Encoders -> Seq(Nat)] /\ held' \in Seq(Nat)
    BY <1>2, <2>2, <2>3
  <2>5. Types'
    BY <1>2, <2>1, <2>4 DEF Types, sharedVars, poolVars
  <2>6. /\ at' \in [Encoders -> Steps] /\ at'[e] = "admit"
        /\ \A d \in Encoders \ {e} : at'[d] = at[d] /\ carried'[d] = carried[d] /\ seen'[d] = seen[d]
    BY <1>1, <1>2, <2>1, <2>2 DEF Steps
  <2> QED
    BY <1>1, <2>1, <2>5, <2>6, EncoderApart DEF sharedVars, poolVars
<1>5. CASE Unwind(e)
  <2>1. /\ at[e] = "admit" /\ at' = [at EXCEPT ![e] = "idle"]
        /\ carried' = [carried EXCEPT ![e] = << >>]
        /\ UNCHANGED <<sharedVars, poolVars, backendVars, seen>>
    BY <1>5 DEF Unwind
  <2>2. Types'
    <3>1. << >> \in Seq(Nat)
      OBVIOUS
    <3> QED
      BY <1>2, <2>1, <3>1 DEF Types, sharedVars, poolVars, backendVars
  <2>3. /\ at' \in [Encoders -> Steps] /\ at'[e] = "idle"
        /\ \A d \in Encoders \ {e} : at'[d] = at[d] /\ carried'[d] = carried[d] /\ seen'[d] = seen[d]
    BY <1>1, <1>2, <2>1 DEF Steps
  <2> QED
    BY <1>1, <2>1, <2>2, <2>3, EncoderApart DEF sharedVars, poolVars
<1>6. ASSUME at[e] \in {"admit", "reserve"}, Look(e, carried[e]),
             UNCHANGED <<sharedVars, poolVars, backendVars>>
      PROVE  RoomInv'
  <2>1. /\ carried' \in [Encoders -> Seq(Nat)] /\ seen' \in [Encoders -> Nat]
        /\ Total(carried'[e]) + seen'[e] <= Limit
        /\ \A d \in Encoders \ {e} : carried'[d] = carried[d] /\ seen'[d] = seen[d]
    BY <1>6, LookFits
  <2>2. PICK step \in {"idle", "reserve"} : at' = [at EXCEPT ![e] = step]
    BY <1>6 DEF Look
  <2>3. at' \in [Encoders -> Steps] /\ at'[e] = step /\ \A d \in Encoders \ {e} : at'[d] = at[d]
    BY <1>1, <2>2 DEF Steps
  <2>4. Types'
    BY <1>2, <1>6, <2>1 DEF Types, sharedVars, poolVars, backendVars
  <2> QED
    BY <1>1, <1>6, <2>1, <2>3, <2>4, EncoderApart DEF sharedVars, poolVars
<1>7. CASE Admit(e)
  BY <1>6, <1>7 DEF Admit
<1>8. CASE Reserve(e)
  <2>1. at[e] = "reserve" /\ UNCHANGED <<pending, returned, lock, poolVars, backendVars>>
    BY <1>8 DEF Reserve
  <2>2. CASE reserved = seen[e]
    <3>1. /\ reserved' = reserved + Total(carried[e]) /\ at' = [at EXCEPT ![e] = "lock"]
          /\ UNCHANGED <<carried, seen>>
      BY <1>8, <2>2 DEF Reserve
    <3>2. Total(carried[e]) + reserved <= Limit
      BY <2>1, <2>2 DEF RoomInv, Books
    <3>3. /\ Admitted' = Admitted \cup {e} /\ Admitted' \in SUBSET Encoders
          /\ e \in Admitted' /\ Admitted' \ {e} = Admitted
      BY <1>1, <2>1, <3>1 DEF Admitted
    <3>4. Borne' = Total(carried[e]) + Borne
      <4>1. Carrying(Admitted', carried) = Total(carried[e]) + Carrying(Admitted' \ {e}, carried)
        BY <1>2, <3>3, CarryingOne
      <4> QED
        BY <3>1, <3>3, <4>1 DEF Borne, Carrying
    <3>5. Types'
      BY <1>2, <2>1, <3>1 DEF Types, poolVars, backendVars
    <3>6. Books'
      <4>1. \A d \in Encoders : at'[d] = "reserve" => at[d] = "reserve"
        BY <1>1, <3>1
      <4> QED
        BY <2>1, <3>1, <4>1 DEF RoomInv, Books, poolVars
    <3>7. Exact'
      <4>1. reserved' = Total(available) + Total(returned) + released + (Total(carried[e]) + Borne)
        <5> DEFINE a == Total(available)
                   r == Total(returned)
                   b == Borne
                   x == Total(carried[e])
        <5>1. a \in Nat /\ r \in Nat /\ released \in Nat /\ b \in Nat /\ x \in Nat
          BY <1>2, <1>3
        <5>2. reserved = a + r + released + b /\ reserved' = reserved + x
          BY <1>3, <3>1
        <5> HIDE DEF a, r, b, x
        <5>3. reserved' = a + r + released + (x + b)
          BY <5>1, <5>2
        <5> QED
          BY <5>3, Zenon DEF a, r, b, x
      <4>2. UNCHANGED <<available, returned, released>>
        BY <2>1 DEF poolVars
      <4> QED
        BY <3>4, <4>1, <4>2 DEF Exact, Borne, Carrying
    <3>8. WithinLimit'
      BY <1>2, <1>3, <3>1, <3>2 DEF WithinLimit
    <3> QED
      BY <3>5, <3>6, <3>7, <3>8 DEF RoomInv, Retained
  <2>3. CASE reserved # seen[e]
    <3>1. Look(e, carried[e]) /\ UNCHANGED reserved
      BY <1>8, <2>3 DEF Reserve
    <3> QED
      BY <1>6, <2>1, <3>1 DEF sharedVars
  <2> QED
    BY <2>2, <2>3
<1>9. CASE LockReturn(e)
  <2>1. /\ at[e] = "lock" /\ at' = [at EXCEPT ![e] = "extend"]
        /\ UNCHANGED <<reserved, pending, returned, poolVars, backendVars, carried, seen>>
    BY <1>9 DEF LockReturn
  <2>2. Admitted' = Admitted /\ \A d \in Encoders : at'[d] = "reserve" => at[d] = "reserve"
    BY <1>1, <2>1 DEF Admitted
  <2>3. Borne' = Borne
    BY <2>1, <2>2 DEF Borne, Carrying
  <2>4. Types'
    BY <1>2, <2>1 DEF Types, poolVars, backendVars
  <2>5. Books'
    BY <2>1, <2>2 DEF RoomInv, Books, poolVars
  <2>6. Exact' /\ WithinLimit'
    BY <1>3, <2>1, <2>3 DEF Exact, WithinLimit, Borne, Carrying, poolVars
  <2> QED
    BY <2>4, <2>5, <2>6 DEF RoomInv, Retained
<1>10. CASE Extend(e)
  <2>1. /\ at[e] = "extend" /\ at' = [at EXCEPT ![e] = "store"]
        /\ returned' = returned \o carried[e] /\ carried' = [carried EXCEPT ![e] = << >>]
        /\ UNCHANGED <<reserved, pending, lock, poolVars, backendVars, seen>>
    BY <1>10 DEF Extend
  <2>2. returned' \in Seq(Nat) /\ Total(returned') = Total(returned) + Total(carried[e])
    BY <1>2, <2>1, TotalJoin
  <2>3. /\ Admitted' = Admitted \ {e} /\ e \in Admitted /\ Admitted' \in SUBSET Encoders
        /\ \A d \in Encoders : at'[d] = "reserve" => d # e /\ at[d] = "reserve"
    BY <1>1, <2>1 DEF Admitted
  <2>4. \A d \in Encoders \ {e} : carried'[d] = carried[d]
    BY <1>2, <2>1
  <2>5. Borne = Total(carried[e]) + Borne'
    <3>1. Carrying(Admitted, carried) = Total(carried[e]) + Carrying(Admitted \ {e}, carried)
      BY <1>2, <1>3, <2>3, CarryingOne
    <3>2. Carrying(Admitted', carried) = Carrying(Admitted', carried')
      BY <2>3, <2>4, CarryingSame
    <3> QED
      BY <2>3, <3>1, <3>2 DEF Borne, Carrying
  <2>6. Types'
    <3>1. carried' \in [Encoders -> Seq(Nat)]
      <4>1. << >> \in Seq(Nat)
        OBVIOUS
      <4> QED
        BY <1>2, <2>1, <4>1
    <3> QED
      BY <1>2, <2>1, <2>2, <3>1 DEF Types, poolVars, backendVars
  <2>7. Books'
    BY <2>1, <2>3, <2>4 DEF RoomInv, Books, poolVars
  <2>8. Borne' \in Nat
    BY <2>6, BorneNat, CarryingNat, <2>3 DEF Borne, Carrying, Types
  <2>9. Exact' /\ WithinLimit'
    <3>1. reserved = Total(available) + (Total(returned) + Total(carried[e])) + released + Borne'
      <4> DEFINE a == Total(available)
                 r == Total(returned)
                 b == Borne'
                 x == Total(carried[e])
      <4>1. a \in Nat /\ r \in Nat /\ released \in Nat /\ b \in Nat /\ x \in Nat
        BY <1>2, <1>3, <2>8
      <4>2. reserved = a + r + released + (x + b)
        BY <1>3, <2>5
      <4> HIDE DEF a, r, b, x
      <4>3. reserved = a + (r + x) + released + b
        BY <4>1, <4>2
      <4> QED
        BY <4>3, Zenon DEF a, r, b, x
    <3>2. UNCHANGED <<reserved, available, released>>
      BY <2>1 DEF poolVars
    <3> QED
      BY <1>3, <2>2, <3>1, <3>2 DEF Exact, WithinLimit, Borne, Carrying
  <2> QED
    BY <2>6, <2>7, <2>9 DEF RoomInv, Retained
<1>11. CASE StorePending(e)
  <2>1. /\ at[e] = "store" /\ at' = [at EXCEPT ![e] = "idle"]
        /\ UNCHANGED <<reserved, returned, poolVars, backendVars, carried, seen>>
    BY <1>11 DEF StorePending
  <2>2. Types'
    BY <1>2, <2>1 DEF Types, poolVars, backendVars
  <2>3. at' \in [Encoders -> Steps] /\ at'[e] = "idle" /\ \A d \in Encoders \ {e} : at'[d] = at[d]
    BY <1>1, <2>1 DEF Steps
  <2> QED
    BY <1>1, <2>1, <2>2, <2>3, EncoderApart DEF poolVars
<1> QED
  BY <1>4, <1>5, <1>7, <1>8, <1>9, <1>10, <1>11 DEF Recycle

LEMMA RoomAtRest == RoomInv /\ UNCHANGED vars => RoomInv'
BY DEF RoomInv, Types, Books, Retained, Exact, WithinLimit, Admitted, vars, sharedVars, poolVars,
       backendVars, encoderVars

LEMMA RoomInit ==
  ASSUME PoolAssumption, Init
  PROVE  RoomInv
<1>1. << >> \in Seq(Nat) /\ Total(<< >>) = 0
  BY TotalNone
<1>2. Types /\ Books
  BY <1>1 DEF Init, Types, Books
<1>3. Borne = 0
  <2>1. Admitted = {}
    BY DEF Init, Admitted
  <2> QED
    BY <2>1, SumEmpty DEF Borne, Carrying
<1>4. Exact /\ WithinLimit
  BY <1>1, <1>3, Counted DEF Init, WithinLimit, PoolAssumption
<1> QED
  BY <1>2, <1>4 DEF RoomInv, Retained

(***************************************************************************)
(* The counter is exact and within its limit, for any number of encoders   *)
(* and whatever they give back at once.                                    *)
(***************************************************************************)
THEOREM RetainsExactly ==
  ASSUME PoolAssumption
  PROVE  Spec => []Retained
<1>1. Init => IInv /\ RoomInv
  BY InitInv, RoomInit
<1>2. IInv /\ RoomInv /\ [Next]_vars => IInv' /\ RoomInv'
  <2>1. ASSUME IInv, RoomInv, Backend PROVE IInv' /\ RoomInv'
    BY <2>1, BackendStep, OwnerKeepsRoom
  <2>2. ASSUME IInv, RoomInv, NEW e \in Encoders, Recycle(e) PROVE IInv' /\ RoomInv'
    BY <2>2, RecycleStep, EncoderKeepsRoom
  <2>3. ASSUME IInv, RoomInv, UNCHANGED vars PROVE IInv' /\ RoomInv'
    BY <2>3, Quiet, RoomAtRest
  <2> QED
    BY <2>1, <2>2, <2>3 DEF Next
<1>3. RoomInv => Retained
  BY DEF RoomInv
<1> QED
  BY <1>1, <1>2, <1>3, PTL DEF Spec

=============================================================================
