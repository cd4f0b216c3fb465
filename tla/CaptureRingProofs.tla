-------------------------- MODULE CaptureRingProofs --------------------------
(***************************************************************************)
(* CaptureRing is correct for every ring size, byte budget, set of packet  *)
(* shapes, batch size and ingest limit.                                    *)
(*                                                                         *)
(* The inductive invariant IInv says how the cursors of the two threads    *)
(* relate (every copy lags behind its original), that the log partitions   *)
(* the ring's positions and the charged bytes, what a reservation          *)
(* guarantees until it is committed, and what the shutdown handshake       *)
(* guarantees at each of its steps.                                        *)
(***************************************************************************)
EXTENDS CaptureRing, SequenceTheorems, TLAPS

-----------------------------------------------------------------------------
(* Positions and slots: facts about remainders. *)

\* Division with remainder, as the slot of a position uses it.
LEMMA DivMod ==
  ASSUME NEW N \in Nat \ {0}, NEW a \in Nat
  PROVE  a = N * (a \div N) + (a % N) /\ (a \div N) \in Int /\ a % N \in 0 .. N - 1
OBVIOUS

\* A positive multiple of a ring size is at least the ring size.
LEMMA PositiveMultiple ==
  ASSUME NEW N \in Nat \ {0}, NEW k \in Int, NEW d \in Int, d = N * k, 0 < d
  PROVE  d >= N
<1>1. k >= 1
  OBVIOUS
<1>2. N * (k - 1) >= 0
  BY <1>1
<1> QED BY <1>1, <1>2

\* Two positions less than a ring apart are in different slots.
LEMMA ModDistinct ==
  ASSUME NEW N \in Nat \ {0}, NEW a \in Nat, NEW b \in Nat, a < b, b - a < N
  PROVE  a % N # b % N
<1> SUFFICES ASSUME a % N = b % N PROVE FALSE
  OBVIOUS
<1>1. PICK q \in Int : a = N * q + (a % N)
  BY DivMod
<1>2. PICK p \in Int : b = N * p + (b % N)
  BY DivMod
<1>3. a % N \in Int
  BY DivMod
<1>4. b - a = N * (p - q)
  BY <1>1, <1>2, <1>3
<1>5. b - a >= N
  <2>1. b - a \in Int /\ p - q \in Int /\ 0 < b - a
    OBVIOUS
  <2> QED BY <2>1, <1>4, PositiveMultiple
<1> QED BY <1>5

\* Two numbers below N that differ by a multiple of N are equal.
LEMMA SameResidue ==
  ASSUME NEW N \in Nat \ {0}, NEW k \in Int,
         NEW x \in 0 .. N - 1, NEW y \in 0 .. N - 1, x - y = N * k
  PROVE  x = y
<1>1. ~ (0 < x - y)
  <2> SUFFICES ASSUME 0 < x - y PROVE FALSE
    OBVIOUS
  <2>1. x - y \in Int
    OBVIOUS
  <2>2. x - y >= N
    BY <2>1, PositiveMultiple
  <2> QED BY <2>2
<1>2. ~ (0 < y - x)
  <2> SUFFICES ASSUME 0 < y - x PROVE FALSE
    OBVIOUS
  <2>1. y - x \in Int /\ -k \in Int /\ y - x = N * (-k)
    OBVIOUS
  <2>2. y - x >= N
    BY <2>1, PositiveMultiple
  <2> QED BY <2>2
<1> QED BY <1>1, <1>2

\* The slot of a position inside a packet, from the packet's slot.
LEMMA ModOffset ==
  ASSUME NEW N \in Nat \ {0}, NEW a \in Nat, NEW j \in 0 .. N - 1
  PROVE  (a + j) % N = IF (a % N) + j < N THEN (a % N) + j ELSE (a % N) + j - N
<1> DEFINE r == a % N
           t == (a + j) % N
<1>1. PICK q \in Int : a = N * q + r
  BY DivMod
<1>2. a + j \in Nat
  OBVIOUS
<1>3. PICK p \in Int : a + j = N * p + t
  BY <1>2, DivMod
<1>4. r \in 0 .. N - 1 /\ t \in 0 .. N - 1
  BY <1>2, DivMod
<1> HIDE DEF r, t
<1>5. CASE r + j < N
  <2>1. r + j \in 0 .. N - 1 /\ (r + j) - t = N * (p - q) /\ p - q \in Int
    BY <1>1, <1>3, <1>4, <1>5
  <2>2. r + j = t
    BY <2>1, <1>4, SameResidue
  <2> QED BY <2>2, <1>5 DEF r, t
<1>6. CASE ~ (r + j < N)
  <2>1. r + j - N \in 0 .. N - 1 /\ (r + j - N) - t = N * (p - q - 1) /\ p - q - 1 \in Int
    BY <1>1, <1>3, <1>4, <1>6
  <2>2. r + j - N = t
    BY <2>1, <1>4, SameResidue
  <2> QED BY <2>2, <1>6 DEF r, t
<1> QED BY <1>5, <1>6

\* Packets that together span at most a ring occupy different cells, wrapped or not.
LEMMA PacketsDisjoint ==
  ASSUME NEW N \in Nat \ {0}, NEW a \in Nat, NEW m \in 1 .. N, NEW b \in Nat, NEW n \in 1 .. N,
         a + m <= b, b + n - a <= N,
         NEW i \in 0 .. m - 1, NEW j \in 0 .. n - 1
  PROVE  (a % N) + i # (b % N) + j
<1>1. (a + i) % N # (b + j) % N
  <2>1. a + i \in Nat /\ b + j \in Nat /\ a + i < b + j /\ (b + j) - (a + i) < N
    OBVIOUS
  <2> QED BY <2>1, ModDistinct
<1>2. (a + i) % N = IF (a % N) + i < N THEN (a % N) + i ELSE (a % N) + i - N
  <2>1. i \in 0 .. N - 1
    OBVIOUS
  <2> QED BY <2>1, ModOffset
<1>3. (b + j) % N = IF (b % N) + j < N THEN (b % N) + j ELSE (b % N) + j - N
  <2>1. j \in 0 .. N - 1
    OBVIOUS
  <2> QED BY <2>1, ModOffset
<1> QED BY <1>1, <1>2, <1>3

-----------------------------------------------------------------------------
(* The inductive invariant. *)

\* What the sender knows lags behind what the receiver published, which lags behind what
\* it consumed, which lags behind what was written.
Cursors ==
  /\ cachedRead <= read /\ read = published /\ published <= rread /\ rread <= written
  /\ written - cachedRead <= Slots
  /\ cachedConsumed <= consumed /\ consumed <= rconsumed /\ rconsumed <= bytes
  /\ cachedWritten <= written
  /\ quota > 0 => rread + quota <= cachedWritten

\* Packet k ends where the next one starts, in cells and in bytes.
EndOf(k) == log[k].start + log[k].cells
PaidBy(k) == log[k].from + log[k].bytes

LogShape ==
  /\ \A k \in 1 .. Len(log) : EndOf(k) <= written /\ PaidBy(k) <= bytes
  /\ \A j, k \in 1 .. Len(log) : j < k => EndOf(j) <= log[k].start
  /\ \A k \in 1 .. Len(log) : k < Len(log) => /\ EndOf(k) = log[k + 1].start
                                              /\ PaidBy(k) = log[k + 1].from
  /\ log # <<>> => EndOf(Len(log)) = written /\ PaidBy(Len(log)) = bytes

\* The receiver stands at the first packet it has not consumed.
Standing ==
  /\ taken <= Len(log)
  /\ taken < Len(log) => rread = log[taken + 1].start /\ rconsumed = log[taken + 1].from
  /\ taken = Len(log) => rread = written /\ rconsumed = bytes

\* A reservation lasts until it is committed, and its cells are written by then.
Reserved ==
  /\ spc \in {"write", "commit"} => Fits(shape, cachedRead, cachedConsumed)
  /\ spc = "commit" =>
       \A j \in 0 .. shape.cells - 1 :
         ring[Slot(written) + j] = [packet |-> Len(log) + 1, offset |-> j]

Borrowing == rpc = "hold" => held = taken + 1 /\ taken < Len(log)

\* Between entering and leaving, an independent capture is announced; an exclusive channel
\* is stopped only while its owner is outside.
Handshake ==
  /\ independent /\ spc # "idle" => active = 1
  /\ ~independent /\ stop \in {"flagged", "closing"} => spc = "idle"
  /\ stop \in {"closing", "stopped"} => closed

IInv == /\ TypeOK /\ Cursors /\ LogShape /\ Standing /\ Reserved /\ NoOverwrite
        /\ Borrowing /\ Handshake /\ ByteBudget /\ QuietAfterStop

-----------------------------------------------------------------------------

\* Which action may change what.
LEMMA Frame ==
  ASSUME [Next]_vars
  PROVE  /\ Commit \/ UNCHANGED <<written, bytes, log>>
         /\ DropCapture \/ UNCHANGED <<rread, rconsumed, taken>>
         /\ Write \/ UNCHANGED ring
         /\ ReleaseRead \/ UNCHANGED <<read, published>>
         /\ ReleaseConsumed \/ UNCHANGED consumed
         /\ LoadRead \/ UNCHANGED cachedRead
         /\ LoadConsumed \/ UNCHANGED cachedConsumed
         /\ Available \/ UNCHANGED cachedWritten
         /\ Available \/ DropCapture \/ UNCHANGED quota
         /\ TakeNext \/ DropCapture \/ UNCHANGED held
         /\ Receive \/ UNCHANGED rpc
         /\ Enter \/ UNCHANGED shape
         /\ Enter \/ Publish \/ UNCHANGED spc
         /\ Enter \/ Leave \/ UNCHANGED active
         /\ EnableIndependentStop \/ UNCHANGED independent
         /\ BeginStop \/ FinishStop \/ UNCHANGED stop
         /\ CloseChannel \/ UNCHANGED closed
<1> USE DEF SenderAt, channelVars, senderVars, receiverVars, Publish, Receive, FinishStop
<1>1. CASE Enter
  BY <1>1 DEF Enter
<1>2. CASE EnableIndependentStop
  BY <1>2 DEF EnableIndependentStop
<1>3. CASE Admit
  BY <1>3 DEF Admit
<1>4. CASE Check
  BY <1>4 DEF Check
<1>5. CASE LoadRead
  BY <1>5 DEF LoadRead
<1>6. CASE LoadConsumed
  BY <1>6 DEF LoadConsumed
<1>7. CASE WaitCheck
  BY <1>7 DEF WaitCheck
<1>8. CASE WaitClosed
  BY <1>8 DEF WaitClosed
<1>9. CASE Write
  BY <1>9 DEF Write
<1>10. CASE Commit
  BY <1>10 DEF Commit
<1>11. CASE Leave
  BY <1>11 DEF Leave
<1>12. CASE Available
  BY <1>12 DEF Available
<1>13. CASE TakeNext
  BY <1>13 DEF TakeNext
<1>14. CASE DropCapture
  BY <1>14 DEF DropCapture
<1>15. CASE EndIngest
  BY <1>15 DEF EndIngest
<1>16. CASE ReleaseConsumed
  BY <1>16 DEF ReleaseConsumed
<1>17. CASE ReleaseRead
  BY <1>17 DEF ReleaseRead
<1>18. CASE Fail
  BY <1>18 DEF Fail
<1>19. CASE BeginStop
  BY <1>19 DEF BeginStop
<1>20. CASE CloseChannel
  BY <1>20 DEF CloseChannel
<1>21. CASE AwaitQuiet
  BY <1>21 DEF AwaitQuiet
<1>22. CASE UNCHANGED vars
  BY <1>22 DEF vars, channelVars, senderVars, receiverVars
<1> QED BY <1>1, <1>2, <1>3, <1>4, <1>5, <1>6, <1>7, <1>8, <1>9, <1>10, <1>11, <1>12, <1>13,
           <1>14, <1>15, <1>16, <1>17, <1>18, <1>19, <1>20, <1>21, <1>22 DEF Next

\* The packet a capture is about to publish has one of the allowed shapes.
LEMMA ShapeType ==
  ASSUME NEW s \in Shapes
  PROVE  s.cells \in 1 .. Slots /\ s.bytes \in Nat \ {0} /\ s.cells \in Nat /\ Slots \in Nat \ {0}
BY RingAssumption

\* What a packet of the log is made of.
LEMMA LogType ==
  ASSUME TypeOK, NEW k \in 1 .. Len(log)
  PROVE  /\ log[k].start \in Nat /\ log[k].cells \in 1 .. Slots
         /\ log[k].from \in Nat /\ log[k].bytes \in Nat \ {0}
         /\ log[k].cells \in Nat /\ Slots \in Nat \ {0}
<1>1. log[k] \in Packet
  BY DEF TypeOK
<1>2. Slots \in Nat \ {0}
  BY RingAssumption
<1> QED BY <1>1, <1>2 DEF Packet

\* Every step keeps every variable in its type.
LEMMA StepType ==
  ASSUME TypeOK, Cursors, Borrowing, [Next]_vars
  PROVE  TypeOK'
<1> USE DEF TypeOK
<1>1. shape' \in Shapes
  BY Frame DEF Enter
<1>2. written' \in Nat /\ bytes' \in Nat /\ log' \in Seq(Packet)
  <2>1. CASE Commit
    <3>1. shape.cells \in 1 .. Slots /\ shape.bytes \in Nat \ {0} /\ shape.cells \in Nat
      BY ShapeType
    <3>2. [start |-> written, cells |-> shape.cells, from |-> bytes, bytes |-> shape.bytes] \in Packet
      BY <3>1 DEF Packet
    <3> QED BY <2>1, <3>1, <3>2 DEF Commit
  <2>2. CASE UNCHANGED <<written, bytes, log>>
    BY <2>2
  <2> QED BY <2>1, <2>2, Frame
<1>3. rread' \in Nat /\ rconsumed' \in Nat /\ taken' \in Nat /\ quota' \in Nat
  <2>1. CASE DropCapture
    <3>1. held \in 1 .. Len(log)
      BY <2>1 DEF DropCapture, Borrowing
    <3>2. log[held].cells \in Nat /\ log[held].bytes \in Nat
      BY <3>1, LogType
    <3>3. rread' = rread + log[held].cells /\ rconsumed' = rconsumed + log[held].bytes
      BY <2>1 DEF DropCapture
    <3>4. quota' = IF log[held].cells < quota THEN quota - log[held].cells ELSE 0
      BY <2>1 DEF DropCapture
    <3>5. taken' = taken + 1
      BY <2>1 DEF DropCapture
    <3>6. rread \in Nat /\ rconsumed \in Nat /\ taken \in Nat /\ quota \in Nat
      OBVIOUS
    <3>7. quota' \in Nat
      <4> HIDE DEF TypeOK
      <4> QED BY <3>2, <3>4, <3>6
    <3> HIDE DEF TypeOK
    <3> QED BY <3>2, <3>3, <3>5, <3>6, <3>7
  <2>2. CASE Available
    <3>1. quota' = IF written - rread <= IngestLimit THEN written - rread ELSE IngestLimit
      BY <2>2 DEF Available
    <3>2. written - rread \in Nat
      BY DEF Cursors
    <3>3. IngestLimit \in Nat
      BY RingAssumption
    <3> QED BY <2>2, <3>1, <3>2, <3>3 DEF Available
  <2>3. CASE UNCHANGED <<rread, rconsumed, taken, quota>>
    BY <2>3
  <2> QED BY <2>1, <2>2, <2>3, Frame DEF Available
<1>4. cachedWritten' \in Nat /\ published' \in Nat /\ read' \in Nat /\ consumed' \in Nat
  BY Frame DEF Available, ReleaseRead, ReleaseConsumed
<1>5. cachedRead' \in Nat /\ cachedConsumed' \in Nat
  BY Frame DEF LoadRead, LoadConsumed
<1>6. ring' \in [Cells -> [packet : Nat, offset : Nat]]
  <2>1. CASE Write
    <3>1. Slot(written) \in 0 .. Slots - 1 /\ Slots \in Nat \ {0} /\ shape.cells \in Nat
      BY DivMod, ShapeType DEF Slot
    <3>2. Len(log) + 1 \in Nat
      OBVIOUS
    <3>3. ASSUME NEW c \in Cells,
                 c \in Slot(written) .. Slot(written) + shape.cells - 1
          PROVE  c - Slot(written) \in Nat
      <4> HIDE DEF TypeOK
      <4>1. Slot(written) \in Int /\ Slot(written) + shape.cells - 1 \in Int
        BY <3>1
      <4> QED BY <3>3, <4>1
    <3> QED BY <2>1, <3>1, <3>2, <3>3 DEF Write
  <2> QED BY <2>1, Frame
<1>7. held' \in Nat
  <2>1. CASE TakeNext
    <3>1. Slot(rread) \in Cells
      <4>1. Slots \in Nat \ {0}
        BY RingAssumption
      <4>2. Slot(rread) \in 0 .. Slots - 1
        BY <4>1, DivMod DEF Slot
      <4> QED BY <4>1, <4>2 DEF Cells
    <3>2. ring[Slot(rread)] \in [packet : Nat, offset : Nat]
      BY <3>1
    <3> QED BY <2>1, <3>2 DEF TakeNext
  <2>2. CASE DropCapture
    BY <2>2 DEF DropCapture
  <2> QED BY <2>1, <2>2, Frame
<1>8. active' \in {0, 1} /\ closed' \in BOOLEAN /\ independent' \in BOOLEAN
  BY Frame DEF Enter, Leave, CloseChannel, EnableIndependentStop
<1>9. refuse' \in BOOLEAN /\ stop' \in {"none", "flagged", "closing", "stopped"}
  BY DEF Next, vars, channelVars, senderVars, receiverVars, Enter, EnableIndependentStop, Publish, Receive, Fail,
     BeginStop, FinishStop, CloseChannel, AwaitQuiet, Admit, Check, LoadRead, LoadConsumed,
     WaitCheck, WaitClosed, Write, Commit, Leave, Available, TakeNext, DropCapture, EndIngest,
     ReleaseConsumed, ReleaseRead
<1>10. spc' \in {"idle", "admit", "check", "read", "consumed", "wait", "waitclosed", "waitread",
                 "write", "commit", "leave"}
  BY Frame DEF Enter, Publish, SenderAt, Admit, Check, LoadRead, LoadConsumed, WaitCheck,
     WaitClosed, Write, Commit, Leave
<1>11. rpc' \in {"idle", "loop", "hold", "release", "releaseread"}
  BY Frame DEF Receive, Available, TakeNext, DropCapture, EndIngest, ReleaseConsumed, ReleaseRead
<1> QED BY <1>1, <1>2, <1>3, <1>4, <1>5, <1>6, <1>7, <1>8, <1>9, <1>10, <1>11

\* The integers among the variables.
LEMMA Numbers ==
  ASSUME TypeOK
  PROVE  /\ written \in Nat /\ read \in Nat /\ consumed \in Nat /\ bytes \in Nat
         /\ cachedRead \in Nat /\ cachedConsumed \in Nat
         /\ rread \in Nat /\ rconsumed \in Nat /\ published \in Nat
         /\ cachedWritten \in Nat /\ quota \in Nat /\ taken \in Nat /\ Len(log) \in Nat
BY DEF TypeOK

\* What Capture::drop does, once the borrowed packet is known to be the oldest.
LEMMA DropFacts ==
  ASSUME TypeOK, LogShape, Standing, Borrowing, DropCapture
  PROVE  /\ taken < Len(log) /\ taken + 1 \in 1 .. Len(log) /\ taken' = taken + 1
         /\ rread = log[taken + 1].start /\ rconsumed = log[taken + 1].from
         /\ rread' = EndOf(taken + 1) /\ rconsumed' = PaidBy(taken + 1)
         /\ quota' = IF log[taken + 1].cells < quota THEN quota - log[taken + 1].cells ELSE 0
<1>1. held = taken + 1 /\ taken < Len(log)
  BY DEF DropCapture, Borrowing
<1>2. taken + 1 \in 1 .. Len(log)
  BY <1>1, Numbers
<1>3. rread = log[taken + 1].start /\ rconsumed = log[taken + 1].from
  BY <1>1 DEF Standing
<1>4. /\ rread' = rread + log[held].cells /\ rconsumed' = rconsumed + log[held].bytes
      /\ quota' = IF log[held].cells < quota THEN quota - log[held].cells ELSE 0
      /\ taken' = taken + 1
  BY DEF DropCapture
<1> QED BY <1>1, <1>2, <1>3, <1>4 DEF EndOf, PaidBy

\* What WriteCursor::commit appends.
LEMMA CommitFacts ==
  ASSUME TypeOK, Commit
  PROVE  /\ Len(log') = Len(log) + 1
         /\ \A k \in 1 .. Len(log) : log'[k] = log[k]
         /\ log'[Len(log) + 1] = [start |-> written, cells |-> shape.cells,
                                  from |-> bytes, bytes |-> shape.bytes]
         /\ written' = written + shape.cells /\ bytes' = bytes + shape.bytes
         /\ shape.cells \in 1 .. Slots /\ shape.cells \in Nat \ {0}
         /\ shape.bytes \in Nat \ {0} /\ Slots \in Nat
<1>1. shape.cells \in 1 .. Slots /\ shape.bytes \in Nat \ {0} /\ Slots \in Nat /\ shape.cells \in Nat
  BY ShapeType DEF TypeOK
<1>2. log \in Seq(Packet)
  BY DEF TypeOK
<1>3. [start |-> written, cells |-> shape.cells, from |-> bytes, bytes |-> shape.bytes] \in Packet
  BY <1>1, Numbers DEF Packet
<1>4. /\ log' = Append(log, [start |-> written, cells |-> shape.cells,
                             from |-> bytes, bytes |-> shape.bytes])
      /\ written' = written + shape.cells /\ bytes' = bytes + shape.bytes
  BY DEF Commit
<1> QED BY <1>1, <1>2, <1>3, <1>4

\* Every step keeps the cursors in order: what is published never passes what is known.
LEMMA StepCursors ==
  ASSUME TypeOK, Cursors, LogShape, Standing, Reserved, Borrowing, [Next]_vars
  PROVE  Cursors'
<1>0. /\ written \in Nat /\ read \in Nat /\ consumed \in Nat /\ bytes \in Nat
      /\ cachedRead \in Nat /\ cachedConsumed \in Nat
      /\ rread \in Nat /\ rconsumed \in Nat /\ published \in Nat
      /\ cachedWritten \in Nat /\ quota \in Nat
  BY Numbers
<1>1. CASE Commit
  <2>1. shape.cells <= Slots - (written - cachedRead)
    BY <1>1 DEF Commit, SenderAt, Reserved, Fits
  <2>2. UNCHANGED <<read, consumed, cachedRead, cachedConsumed, rread, rconsumed, published,
                    cachedWritten, quota>>
    BY <1>1 DEF Commit, receiverVars
  <2>3. /\ written' = written + shape.cells /\ bytes' = bytes + shape.bytes
        /\ shape.cells \in Nat /\ shape.bytes \in Nat /\ Slots \in Nat
    BY <1>1, CommitFacts
  <2> QED BY <1>0, <2>1, <2>2, <2>3 DEF Cursors
<1>2. CASE DropCapture
  <2>1. UNCHANGED <<written, bytes, read, consumed, cachedRead, cachedConsumed, published,
                    cachedWritten>>
    BY <1>2 DEF DropCapture, channelVars, senderVars
  <2>2. /\ rread' = rread + log[taken + 1].cells
        /\ rconsumed' = rconsumed + log[taken + 1].bytes
        /\ rread' <= written /\ rconsumed' <= bytes
        /\ log[taken + 1].cells \in Nat /\ log[taken + 1].bytes \in Nat
        /\ quota' = IF log[taken + 1].cells < quota THEN quota - log[taken + 1].cells ELSE 0
    BY <1>2, DropFacts, LogType DEF LogShape, EndOf, PaidBy
  <2>3. Slots \in Nat
    BY RingAssumption
  <2> QED BY <1>0, <2>1, <2>2, <2>3 DEF Cursors
<1>3. CASE Available
  <2>1. UNCHANGED <<written, bytes, read, consumed, cachedRead, cachedConsumed, rread, rconsumed,
                    published>>
    BY <1>3 DEF Available, channelVars, senderVars
  <2>2. cachedWritten' = written /\ IngestLimit \in Nat
        /\ quota' = IF written - rread <= IngestLimit THEN written - rread ELSE IngestLimit
    BY <1>3, RingAssumption DEF Available
  <2> QED BY <1>0, <2>1, <2>2 DEF Cursors
<1>4. CASE ~ (Commit \/ DropCapture \/ Available)
  <2>1. UNCHANGED <<written, bytes, rread, rconsumed, cachedWritten, quota>>
    BY <1>4, Frame
  <2>2. cachedRead' = cachedRead \/ (cachedRead' = read /\ UNCHANGED <<read, published>>)
    BY Frame DEF LoadRead, channelVars, receiverVars
  <2>3. cachedConsumed' = cachedConsumed \/ (cachedConsumed' = consumed /\ consumed' = consumed)
    BY Frame DEF LoadConsumed, channelVars
  <2>4. UNCHANGED <<read, published>> \/ (read' = rread /\ published' = rread)
    BY Frame DEF ReleaseRead
  <2>5. consumed' = consumed \/ consumed' = rconsumed
    BY Frame DEF ReleaseConsumed
  <2>6. Slots \in Nat
    BY RingAssumption
  <2> QED BY <1>0, <2>1, <2>2, <2>3, <2>4, <2>5, <2>6 DEF Cursors
<1> QED BY <1>1, <1>2, <1>3, <1>4

\* Every step keeps the published packets contiguous, in cells and in bytes.
LEMMA StepLogShape ==
  ASSUME TypeOK, LogShape, [Next]_vars
  PROVE  LogShape'
<1>1. CASE Commit
  <2> DEFINE n == Len(log)
  <2>1. n \in Nat /\ written \in Nat /\ bytes \in Nat
    BY Numbers
  <2>2. /\ Len(log') = n + 1
        /\ \A k \in 1 .. n : log'[k] = log[k]
        /\ log'[n + 1].start = written /\ log'[n + 1].cells = shape.cells
        /\ log'[n + 1].from = bytes /\ log'[n + 1].bytes = shape.bytes
        /\ written' = written + shape.cells /\ bytes' = bytes + shape.bytes
        /\ shape.cells \in Nat /\ shape.bytes \in Nat
    BY <1>1, CommitFacts
  <2>3. \A k \in 1 .. n : /\ log[k].start \in Nat /\ log[k].cells \in Nat
                          /\ log[k].from \in Nat /\ log[k].bytes \in Nat
    BY LogType
  <2>4. /\ \A k \in 1 .. n : /\ log[k].start + log[k].cells <= written
                             /\ log[k].from + log[k].bytes <= bytes
        /\ \A j, k \in 1 .. n : j < k => log[j].start + log[j].cells <= log[k].start
        /\ \A k \in 1 .. n : k < n => /\ log[k].start + log[k].cells = log[k + 1].start
                                      /\ log[k].from + log[k].bytes = log[k + 1].from
    BY DEF LogShape, EndOf, PaidBy
  <2>5. n # 0 => /\ log[n].start + log[n].cells = written
                 /\ log[n].from + log[n].bytes = bytes
    <3>1. n # 0 => log # <<>>
      OBVIOUS
    <3> QED BY <3>1 DEF LogShape, EndOf, PaidBy
  <2> HIDE DEF n
  <2>6. \A k \in 1 .. n + 1 : k \in 1 .. n \/ k = n + 1
    BY <2>1
  <2>7. ASSUME NEW k \in 1 .. Len(log')
        PROVE  /\ log'[k].start + log'[k].cells <= written'
               /\ log'[k].from + log'[k].bytes <= bytes'
    <3>1. CASE k \in 1 .. n
      <4>1. log'[k] = log[k]
        BY <2>2, <3>1
      <4>2. /\ log[k].start + log[k].cells <= written /\ log[k].start + log[k].cells \in Nat
            /\ log[k].from + log[k].bytes <= bytes /\ log[k].from + log[k].bytes \in Nat
        BY <2>3, <2>4, <3>1
      <4> QED BY <2>1, <2>2, <4>1, <4>2
    <3>2. CASE k = n + 1
      BY <2>1, <2>2, <3>2
    <3> QED BY <2>1, <2>2, <2>6, <3>1, <3>2
  <2>8. ASSUME NEW j \in 1 .. Len(log'), NEW k \in 1 .. Len(log'), j < k
        PROVE  log'[j].start + log'[j].cells <= log'[k].start
    <3>1. j \in 1 .. n /\ log'[j] = log[j]
      BY <2>1, <2>2, <2>8
    <3>2. CASE k \in 1 .. n
      <4>1. log'[k] = log[k]
        BY <2>2, <3>2
      <4> QED BY <2>4, <2>8, <3>1, <3>2, <4>1
    <3>3. CASE k = n + 1
      BY <2>1, <2>2, <2>3, <2>4, <3>1, <3>3
    <3> QED BY <2>1, <2>2, <2>6, <3>2, <3>3
  <2>9. \A k \in 1 .. Len(log') : k < Len(log') =>
            /\ log'[k].start + log'[k].cells = log'[k + 1].start
            /\ log'[k].from + log'[k].bytes = log'[k + 1].from
    <3> SUFFICES ASSUME NEW k \in 1 .. n
                 PROVE  /\ log'[k].start + log'[k].cells = log'[k + 1].start
                        /\ log'[k].from + log'[k].bytes = log'[k + 1].from
      BY <2>1, <2>2
    <3>1. CASE k < n
      <4>1. k + 1 \in 1 .. n
        BY <2>1, <3>1
      <4> QED BY <2>2, <2>4, <3>1, <4>1
    <3>2. CASE k = n
      BY <2>1, <2>2, <2>5, <3>2
    <3> QED BY <2>1, <3>1, <3>2
  <2>10. /\ log'[Len(log')].start + log'[Len(log')].cells = written'
         /\ log'[Len(log')].from + log'[Len(log')].bytes = bytes'
    BY <2>2
  <2> QED BY <2>7, <2>8, <2>9, <2>10 DEF LogShape, EndOf, PaidBy
<1>2. CASE UNCHANGED <<written, bytes, log>>
  BY <1>2 DEF LogShape, EndOf, PaidBy
<1> QED BY <1>1, <1>2, Frame

\* Every step keeps the receiver's position at the header of the next packet to take.
LEMMA StepStanding ==
  ASSUME TypeOK, LogShape, Standing, Borrowing, [Next]_vars
  PROVE  Standing'
<1>0. /\ Len(log) \in Nat /\ taken \in Nat /\ written \in Nat /\ bytes \in Nat
      /\ rread \in Nat /\ rconsumed \in Nat
  BY Numbers
<1>1. CASE Commit
  <2>1. UNCHANGED <<rread, rconsumed, taken>>
    BY <1>1 DEF Commit, receiverVars
  <2>2. /\ Len(log') = Len(log) + 1
        /\ \A k \in 1 .. Len(log) : log'[k] = log[k]
        /\ log'[Len(log) + 1].start = written /\ log'[Len(log) + 1].from = bytes
    BY <1>1, CommitFacts
  <2>3. taken < Len(log) => taken + 1 \in 1 .. Len(log)
    BY <1>0
  <2> QED BY <1>0, <2>1, <2>2, <2>3 DEF Standing
<1>2. CASE DropCapture
  <2>1. UNCHANGED <<written, bytes, log>>
    BY <1>2 DEF DropCapture, channelVars, senderVars
  <2>2. /\ taken < Len(log) /\ taken' = taken + 1 /\ taken + 1 \in 1 .. Len(log)
        /\ rread' = EndOf(taken + 1) /\ rconsumed' = PaidBy(taken + 1)
    BY <1>2, DropFacts
  <2>3. CASE taken + 1 < Len(log)
    <3>1. EndOf(taken + 1) = log[taken + 2].start /\ PaidBy(taken + 1) = log[taken + 2].from
      BY <1>0, <2>2, <2>3 DEF LogShape
    <3> QED BY <1>0, <2>1, <2>2, <2>3, <3>1 DEF Standing
  <2>4. CASE taken + 1 = Len(log)
    <3>1. log # <<>>
      BY <1>0, <2>4
    <3>2. EndOf(Len(log)) = written /\ PaidBy(Len(log)) = bytes
      BY <3>1 DEF LogShape
    <3> QED BY <1>0, <2>1, <2>2, <2>4, <3>2 DEF Standing
  <2> QED BY <1>0, <2>2, <2>3, <2>4
<1>3. CASE UNCHANGED <<written, bytes, log>> /\ UNCHANGED <<rread, rconsumed, taken>>
  BY <1>3 DEF Standing
<1> QED BY <1>1, <1>2, <1>3, Frame

\* Credits only grow, so a reservation made with stale ones stays good.
LEMMA StepReserved ==
  ASSUME TypeOK, Cursors, Reserved, [Next]_vars
  PROVE  Reserved'
<1>1. CASE Write
  <2>1. spc = "write" /\ UNCHANGED <<written, bytes, log, shape, cachedRead, cachedConsumed>>
    BY <1>1 DEF Write, SenderAt
  <2>2. Fits(shape, cachedRead, cachedConsumed)
    BY <2>1 DEF Reserved
  <2>3. shape.cells \in 1 .. Slots /\ Slots \in Nat \ {0} /\ shape.cells \in Nat
    BY ShapeType DEF TypeOK
  <2>4. Slot(written) \in 0 .. Slots - 1
    BY <2>3, Numbers, DivMod DEF Slot
  <2>5. ASSUME NEW j \in 0 .. shape.cells - 1
        PROVE  ring'[Slot(written) + j] = [packet |-> Len(log) + 1, offset |-> j]
    <3>1. /\ Slot(written) + j \in Cells
          /\ Slot(written) + j \in Slot(written) .. Slot(written) + shape.cells - 1
          /\ Slot(written) + j - Slot(written) = j
      BY <2>3, <2>4 DEF Cells
    <3> DEFINE cell == Slot(written) + j
    <3>2. ring' = [c \in Cells |->
                IF c \in Slot(written) .. Slot(written) + shape.cells - 1
                THEN [packet |-> Len(log) + 1, offset |-> c - Slot(written)]
                ELSE ring[c]]
      BY <1>1 DEF Write
    <3>3. ring'[cell] = [packet |-> Len(log) + 1, offset |-> cell - Slot(written)]
      <4> HIDE DEF cell, Slot, Cells
      <4>1. cell \in Cells /\ cell \in Slot(written) .. Slot(written) + shape.cells - 1
        BY <3>1 DEF cell
      <4> QED BY <4>1, <3>2
    <3>4. cell - Slot(written) = j
      BY <2>3, <2>4
    <3>5. ring'[cell] = [packet |-> Len(log) + 1, offset |-> j]
      <4> HIDE DEF cell
      <4> QED BY <3>3, <3>4, Zenon
    <3> QED BY <3>5
  <2>6. Fits(shape, cachedRead, cachedConsumed)'
    BY <2>1, <2>2 DEF Fits
  <2>7. Slot(written)' = Slot(written)
    BY <2>1 DEF Slot
  <2> QED BY <2>1, <2>5, <2>6, <2>7 DEF Reserved
<1>2. CASE Check \/ LoadConsumed
  <2>1. CASE Check
    <3>1. spc' = "write" => Fits(shape, cachedRead, cachedConsumed)'
      BY <2>1 DEF Check, SenderAt, Fits, channelVars
    <3>2. spc' # "commit"
      BY <2>1 DEF Check, SenderAt
    <3> QED BY <3>1, <3>2 DEF Reserved
  <2>2. CASE LoadConsumed
    <3>1. spc' = "write" => Fits(shape, cachedRead, cachedConsumed)'
      BY <2>2 DEF LoadConsumed, SenderAt, Fits, channelVars
    <3>2. spc' # "commit"
      BY <2>2 DEF LoadConsumed, SenderAt
    <3> QED BY <3>1, <3>2 DEF Reserved
  <2> QED BY <1>2, <2>1, <2>2
<1>3. CASE ~ (Write \/ Check \/ LoadConsumed)
  <2>1. spc' = spc \/ spc' \notin {"write", "commit"}
    BY <1>3, Frame DEF Enter, Publish, Admit, LoadRead, WaitCheck, WaitClosed, Commit, Leave,
       SenderAt
  <2>2. SUFFICES ASSUME spc' = spc, spc \in {"write", "commit"} PROVE Reserved'
    BY <2>1 DEF Reserved
  <2>3. UNCHANGED <<written, bytes, log, shape, cachedRead, cachedConsumed, ring>>
    BY <1>3, <2>2, Frame DEF Commit, Enter, LoadRead, SenderAt
  <2> QED BY <2>2, <2>3 DEF Reserved, Fits, Slot
<1> QED BY <1>1, <1>2, <1>3

\* The packets still in the ring lie at or after the receiver's position.
LEMMA OutstandingAhead ==
  ASSUME TypeOK, LogShape, Standing, NEW k \in taken + 1 .. Len(log)
  PROVE  /\ k \in 1 .. Len(log) /\ taken < Len(log)
         /\ rread <= log[k].start /\ log[k].start + log[k].cells <= written
<1>1. taken \in Nat /\ Len(log) \in Nat /\ rread \in Nat
  BY Numbers
<1>2. k \in 1 .. Len(log) /\ taken < Len(log) /\ taken + 1 \in 1 .. Len(log)
  BY <1>1
<1>3. rread = log[taken + 1].start
  BY <1>2 DEF Standing
<1>4. /\ log[k].start + log[k].cells <= written
      /\ taken + 1 < k => log[taken + 1].start + log[taken + 1].cells <= log[k].start
  BY <1>2 DEF LogShape, EndOf
<1>5. /\ log[taken + 1].start \in Nat /\ log[taken + 1].cells \in Nat /\ log[k].start \in Nat
  BY <1>2, LogType
<1>6. taken + 1 = k \/ taken + 1 < k
  BY <1>1
<1>7. rread <= log[k].start
  BY <1>3, <1>4, <1>5, <1>6
<1> QED BY <1>2, <1>4, <1>7

\* Every step leaves the cells of the packets still to be taken to them.
LEMMA StepNoOverwrite ==
  ASSUME TypeOK, Cursors, LogShape, Standing, Reserved, Borrowing, NoOverwrite, [Next]_vars
  PROVE  NoOverwrite'
<1>0. taken \in Nat /\ Len(log) \in Nat /\ written \in Nat /\ rread \in Nat /\ cachedRead \in Nat
  BY Numbers
<1>1. CASE Write
  <2>1. UNCHANGED <<written, log, taken, shape, cachedRead>>
    BY <1>1 DEF Write, receiverVars
  <2>2. Fits(shape, cachedRead, cachedConsumed)
    BY <1>1 DEF Write, SenderAt, Reserved
  <2>3. shape.cells \in 1 .. Slots /\ Slots \in Nat \ {0} /\ shape.cells \in Nat
    BY ShapeType DEF TypeOK
  <2> SUFFICES ASSUME NEW k \in taken + 1 .. Len(log), NEW j \in 0 .. log[k].cells - 1
               PROVE  ring'[Slot(log[k].start) + j] = [packet |-> k, offset |-> j]
    BY <2>1, Zenon DEF NoOverwrite, Intact, Slot
  <2>4. /\ log[k].start \in Nat /\ log[k].cells \in 1 .. Slots /\ log[k].cells \in Nat
        /\ rread <= log[k].start /\ log[k].start + log[k].cells <= written
    BY OutstandingAhead, LogType
  <2>5. written + shape.cells - log[k].start <= Slots
    <3> DEFINE start == log[k].start
               n     == shape.cells
    <3>1. n <= Slots - (written - cachedRead) /\ n \in Nat /\ Slots \in Nat
      BY <2>2, <2>3 DEF Fits
    <3>2. cachedRead <= rread
      BY <1>0, Numbers DEF Cursors
    <3>3. start \in Nat /\ rread <= start
      BY <2>4
    <3>4. written + n - start <= Slots
      <4> HIDE DEF start, n
      <4> QED BY <1>0, <3>1, <3>2, <3>3
    <3> QED BY <3>4
  <2>6. Slot(written) \in 0 .. Slots - 1 /\ Slot(log[k].start) \in 0 .. Slots - 1
    BY <1>0, <2>3, <2>4, DivMod DEF Slot
  <2> DEFINE cell == Slot(log[k].start) + j
  <2>11. j \in Nat /\ j < Slots
    BY <2>3, <2>4
  <2>12. ring[cell] = [packet |-> k, offset |-> j]
    BY Zenon DEF NoOverwrite, Intact
  <2>7. cell \in Cells /\ cell \in Int
    BY <2>3, <2>6, <2>11 DEF Cells
  <2>8. cell \notin Slot(written) .. Slot(written) + shape.cells - 1
    <3> SUFFICES ASSUME cell \in Slot(written) .. Slot(written) + shape.cells - 1
                 PROVE  FALSE
      OBVIOUS
    <3>1. /\ cell - Slot(written) \in 0 .. shape.cells - 1
          /\ cell = Slot(written) + (cell - Slot(written))
      <4> DEFINE slot == Slot(written)
                 n    == shape.cells
      <4>1. cell \in slot .. slot + n - 1
        OBVIOUS
      <4>2. slot \in Int /\ n \in Int /\ cell \in Int
        BY <2>3, <2>6, <2>7
      <4>3. cell - slot \in 0 .. n - 1 /\ cell = slot + (cell - slot)
        <5> HIDE DEF cell, slot, n
        <5> QED BY <4>1, <4>2
      <4> QED BY <4>3
    <3>3. (log[k].start % Slots) + j # (written % Slots) + (cell - Slot(written))
      <4> DEFINE start  == log[k].start
                 m      == log[k].cells
                 n      == shape.cells
                 offset == cell - Slot(written)
      <4>1. /\ start \in Nat /\ m \in 1 .. Slots /\ start + m <= written
            /\ n \in 1 .. Slots /\ written + n - start <= Slots
            /\ j \in 0 .. m - 1 /\ offset \in 0 .. n - 1
        BY <2>3, <2>4, <2>5, <3>1
      <4>2. (start % Slots) + j # (written % Slots) + offset
        <5> HIDE DEF start, m, n, offset, cell
        <5> QED BY <1>0, <2>3, <4>1, PacketsDisjoint
      <4> QED BY <4>2
    <3> QED BY <3>1, <3>3 DEF Slot
  <2>9. ring' = [c \in Cells |->
                IF c \in Slot(written) .. Slot(written) + shape.cells - 1
                THEN [packet |-> Len(log) + 1, offset |-> c - Slot(written)]
                ELSE ring[c]]
    BY <1>1 DEF Write
  <2>10. ring'[cell] = ring[cell]
    <3> HIDE DEF cell
    <3> QED BY <2>7, <2>8, <2>9
  <2> QED BY <2>10, <2>12
<1>2. CASE Commit
  <2>1. UNCHANGED <<ring, taken>>
    BY <1>2 DEF Commit, receiverVars
  <2>2. /\ Len(log') = Len(log) + 1
        /\ \A k \in 1 .. Len(log) : log'[k] = log[k]
        /\ log'[Len(log) + 1].start = written /\ log'[Len(log) + 1].cells = shape.cells
    BY <1>2, CommitFacts
  <2>3. \A j \in 0 .. shape.cells - 1 :
          ring[Slot(written) + j] = [packet |-> Len(log) + 1, offset |-> j]
    BY <1>2 DEF Commit, SenderAt, Reserved
  <2> SUFFICES ASSUME NEW k \in taken + 1 .. Len(log) + 1, NEW j \in 0 .. log'[k].cells - 1
               PROVE  ring'[Slot(log'[k].start) + j] = [packet |-> k, offset |-> j]
    BY <2>1, <2>2 DEF NoOverwrite, Intact, Slot
  <2>4. CASE k = Len(log) + 1
    BY <2>1, <2>2, <2>3, <2>4
  <2>5. CASE k \in taken + 1 .. Len(log)
    <3>1. log'[k] = log[k]
      BY <1>0, <2>2, <2>5
    <3> QED BY <2>1, <2>5, <3>1 DEF NoOverwrite, Intact
  <2> QED BY <1>0, <2>4, <2>5
<1>3. CASE DropCapture
  <2>1. UNCHANGED <<ring, log>> /\ taken' = taken + 1
    BY <1>3 DEF DropCapture, channelVars, senderVars
  <2>2. \A k \in taken' + 1 .. Len(log) : k \in taken + 1 .. Len(log)
    BY <1>0, <2>1
  <2> QED BY <2>1, <2>2 DEF NoOverwrite, Intact, Slot
<1>4. CASE UNCHANGED <<ring, log, taken>>
  BY <1>4 DEF NoOverwrite, Intact, Slot
<1> QED BY <1>1, <1>2, <1>3, <1>4, Frame

\* Every step keeps the borrowed packet the oldest one that was not taken.
LEMMA StepBorrowing ==
  ASSUME TypeOK, Cursors, LogShape, Standing, NoOverwrite, Borrowing, [Next]_vars
  PROVE  Borrowing'
<1>0. /\ taken \in Nat /\ Len(log) \in Nat /\ written \in Nat /\ rread \in Nat
      /\ quota \in Nat /\ cachedWritten \in Nat
  BY Numbers
<1>1. CASE TakeNext
  <2>1. quota > 0 /\ held' = ring[Slot(rread)].packet /\ UNCHANGED <<taken, log>>
    BY <1>1 DEF TakeNext, senderVars
  <2>2. rread < written
    BY <1>0, <2>1 DEF Cursors
  <2>3. taken < Len(log)
    BY <1>0, <2>2 DEF Standing
  <2>4. taken + 1 \in taken + 1 .. Len(log) /\ taken + 1 \in 1 .. Len(log)
    BY <1>0, <2>3
  <2>5. rread = log[taken + 1].start
    BY <2>3 DEF Standing
  <2>6. 0 \in 0 .. log[taken + 1].cells - 1
    BY <2>4, LogType
  <2>7. ring[Slot(rread) + 0] = [packet |-> taken + 1, offset |-> 0]
    BY <2>4, <2>5, <2>6 DEF NoOverwrite, Intact
  <2>8. Slot(rread) \in Int
    BY <1>0, RingAssumption, DivMod DEF Slot
  <2>9. held' = taken + 1
    BY <2>1, <2>7, <2>8
  <2> QED BY <2>1, <2>3, <2>9 DEF Borrowing
<1>2. CASE rpc' # "hold"
  BY <1>2 DEF Borrowing
<1>3. CASE rpc' = rpc /\ ~TakeNext
  <2>1. CASE DropCapture
    BY <1>3, <2>1 DEF DropCapture, Borrowing
  <2>2. CASE ~DropCapture
    <3>1. UNCHANGED <<held, taken>>
      BY <1>3, <2>2, Frame
    <3>2. Len(log') = Len(log) \/ Len(log') = Len(log) + 1
      BY Frame, CommitFacts
    <3> QED BY <1>0, <1>3, <3>1, <3>2 DEF Borrowing
  <2> QED BY <2>1, <2>2
<1> QED BY <1>1, <1>2, <1>3, Frame
        DEF Receive, Available, DropCapture, EndIngest, ReleaseConsumed, ReleaseRead

\* Every step keeps `active` raised from a capture's admission to its end.
LEMMA StepHandshake ==
  ASSUME TypeOK, Handshake, [Next]_vars
  PROVE  Handshake'
<1>1. active' = 1 \/ ~independent' \/ spc' = "idle"
  <2>1. CASE spc' = "idle"
    BY <2>1
  <2>2. CASE Enter
    BY <2>2 DEF Enter, TypeOK
  <2>3. CASE ~Enter /\ spc' # "idle"
    <3>1. ~Leave /\ ~EnableIndependentStop
      BY <2>3 DEF Leave, EnableIndependentStop, SenderAt, senderVars
    <3>2. active' = active /\ independent' = independent
      BY <2>3, <3>1, Frame
    <3>3. spc # "idle"
      BY <2>3, Frame DEF Publish, SenderAt, Admit, Check, LoadRead, LoadConsumed, WaitCheck,
         WaitClosed, Write, Commit, Leave
    <3> QED BY <3>2, <3>3 DEF Handshake, TypeOK
  <2> QED BY <2>1, <2>2, <2>3
<1>2. ~independent' /\ stop' \in {"flagged", "closing"} => spc' = "idle"
  <2> SUFFICES ASSUME ~independent', stop' \in {"flagged", "closing"} PROVE spc' = "idle"
    OBVIOUS
  <2>1. ~independent
    BY Frame DEF EnableIndependentStop
  <2>2. CASE BeginStop
    BY <2>1, <2>2 DEF BeginStop, senderVars
  <2>3. CASE stop \in {"flagged", "closing"}
    <3>1. spc = "idle"
      BY <2>1, <2>3 DEF Handshake
    <3>2. ~Enter /\ ~Publish
      BY <2>1, <2>3, <3>1 DEF Enter, Publish, SenderAt, Admit, Check, LoadRead, LoadConsumed,
         WaitCheck, WaitClosed, Write, Commit, Leave
    <3> QED BY <3>1, <3>2, Frame
  <2> QED BY <2>2, <2>3, Frame DEF FinishStop, CloseChannel, AwaitQuiet
<1>3. stop' \in {"closing", "stopped"} => closed'
  BY Frame DEF Handshake, BeginStop, FinishStop, CloseChannel, AwaitQuiet, channelVars
<1> QED BY <1>1, <1>2, <1>3 DEF Handshake

\* When every charged byte was returned, nothing waits in the ring.
LEMMA AllReturned ==
  ASSUME TypeOK, LogShape, Standing, rconsumed = bytes
  PROVE  taken = Len(log)
<1>0. taken \in Nat /\ Len(log) \in Nat /\ bytes \in Nat /\ rconsumed \in Nat
  BY Numbers
<1> SUFFICES ASSUME taken < Len(log) PROVE FALSE
  BY <1>0 DEF Standing
<1>1. taken + 1 \in 1 .. Len(log)
  BY <1>0
<1>2. rconsumed = log[taken + 1].from
  BY DEF Standing
<1>3. log[taken + 1].from + log[taken + 1].bytes <= bytes
  BY <1>1 DEF LogShape, PaidBy
<1>4. log[taken + 1].bytes \in Nat \ {0} /\ log[taken + 1].from \in Nat
  BY <1>1, LogType
<1> QED BY <1>0, <1>2, <1>3, <1>4

\* Every step keeps the queued bytes within the budget, or a single capture waits.
LEMMA StepByteBudget ==
  ASSUME TypeOK, Cursors, LogShape, Standing, Reserved, Borrowing, ByteBudget, [Next]_vars
  PROVE  ByteBudget'
<1>0. /\ taken \in Nat /\ Len(log) \in Nat /\ bytes \in Nat /\ rconsumed \in Nat
      /\ cachedConsumed \in Nat /\ consumed \in Nat /\ Capacity \in Nat
  BY Numbers, RingAssumption
<1>1. CASE Commit
  <2>1. UNCHANGED <<rconsumed, taken>>
    BY <1>1 DEF Commit, receiverVars
  <2>2. /\ bytes' = bytes + shape.bytes /\ shape.bytes \in Nat \ {0}
        /\ Len(log') = Len(log) + 1
    BY <1>1, CommitFacts
  <2>3. Fits(shape, cachedRead, cachedConsumed)
    BY <1>1 DEF Commit, SenderAt, Reserved
  <2>4. cachedConsumed <= rconsumed /\ rconsumed <= bytes
    BY <1>0 DEF Cursors
  <2>5. CASE bytes = cachedConsumed
    <3>1. rconsumed = bytes
      BY <1>0, <2>4, <2>5
    <3>2. taken = Len(log)
      BY <3>1, AllReturned
    <3> QED BY <1>0, <2>1, <2>2, <3>2 DEF ByteBudget
  <2>6. CASE shape.bytes <= Capacity - (bytes - cachedConsumed)
    <3>1. bytes' - rconsumed <= Capacity
      BY <1>0, <2>2, <2>4, <2>6
    <3> QED BY <2>1, <3>1 DEF ByteBudget
  <2> QED BY <2>3, <2>5, <2>6 DEF Fits
<1>2. CASE DropCapture
  <2>1. UNCHANGED <<bytes, log>> /\ taken' = taken + 1
    BY <1>2 DEF DropCapture, senderVars
  <2>2. rconsumed' = rconsumed + log[taken + 1].bytes /\ log[taken + 1].bytes \in Nat
    BY <1>2, DropFacts, LogType DEF PaidBy
  <2>3. bytes - rconsumed <= Capacity => bytes - rconsumed' <= Capacity
    BY <1>0, <2>2
  <2> QED BY <1>0, <2>1, <2>3 DEF ByteBudget
<1>3. CASE UNCHANGED <<bytes, log>> /\ UNCHANGED <<rconsumed, taken>>
  BY <1>3 DEF ByteBudget
<1> QED BY <1>1, <1>2, <1>3, Frame

\* Every step keeps admitted captures out of a channel whose close() has returned.
LEMMA StepQuiet ==
  ASSUME TypeOK, Handshake, QuietAfterStop, [Next]_vars
  PROVE  QuietAfterStop'
<1>1. CASE AwaitQuiet
  <2>1. spc = "idle" /\ UNCHANGED spc
    BY <1>1 DEF AwaitQuiet, Handshake, senderVars
  <2> QED BY <2>1 DEF QuietAfterStop
<1>2. CASE stop' = "stopped" /\ stop = "stopped"
  <2>1. closed
    BY <1>2 DEF Handshake
  <2> QED BY <1>2, <2>1, Frame DEF QuietAfterStop, Enter, Publish, SenderAt, Admit, Check, LoadRead,
             LoadConsumed, WaitCheck, WaitClosed, Write, Commit, Leave
<1>3. CASE stop' # "stopped"
  BY <1>3 DEF QuietAfterStop
<1> QED BY <1>1, <1>2, <1>3, Frame DEF BeginStop, FinishStop, CloseChannel

-----------------------------------------------------------------------------
(* The theorems. *)

\* The inductive invariant holds at the start.
LEMMA InitInv == Init => IInv
<1> SUFFICES ASSUME Init PROVE IInv
  OBVIOUS
<1> USE RingAssumption DEF Init
<1>1. TypeOK
  <2>1. ring \in [Cells -> [packet : Nat, offset : Nat]]
    BY DEF Empty
  <2>2. log \in Seq(Packet)
    OBVIOUS
  <2> QED BY <2>1, <2>2 DEF TypeOK
<1>2. Cursors
  BY DEF Cursors
<1>3. LogShape /\ Standing /\ NoOverwrite
  BY DEF LogShape, Standing, NoOverwrite
<1>4. Reserved /\ Borrowing /\ Handshake /\ QuietAfterStop
  BY DEF Reserved, Borrowing, Handshake, QuietAfterStop
<1>5. ByteBudget
  BY DEF ByteBudget
<1> QED BY <1>1, <1>2, <1>3, <1>4, <1>5 DEF IInv

\* Every step preserves the inductive invariant.
LEMMA StepInv == IInv /\ [Next]_vars => IInv'
<1> SUFFICES ASSUME IInv, [Next]_vars PROVE IInv'
  OBVIOUS
<1>1. TypeOK' /\ Cursors' /\ LogShape' /\ Standing'
  BY StepType, StepCursors, StepLogShape, StepStanding DEF IInv
<1>2. Reserved' /\ NoOverwrite' /\ Borrowing'
  BY StepReserved, StepNoOverwrite, StepBorrowing DEF IInv
<1>3. Handshake' /\ ByteBudget' /\ QuietAfterStop'
  BY StepHandshake, StepByteBudget, StepQuiet DEF IInv
<1> QED BY <1>1, <1>2, <1>3 DEF IInv

\* IInv holds in every reachable state.
THEOREM Inductive == Spec => []IInv
BY InitInv, StepInv, PTL DEF Spec

\* Every variable keeps its type.
THEOREM TypeCorrect == Spec => []TypeOK
<1>1. IInv => TypeOK
  BY DEF IInv
<1> QED BY <1>1, Inductive, PTL

\* No capture ever overwrites a packet the worker has not finished with, whatever the ring
\* size, the shapes, the batching of credits and the staleness of the sender's view of them.
THEOREM NeverOverwrites == Spec => []NoOverwrite
<1>1. IInv => NoOverwrite
  BY DEF IInv
<1> QED BY <1>1, Inductive, PTL

\* The worker borrows packets in publication order, each exactly at its header.
THEOREM BorrowsInOrder == Spec => []BorrowInOrder
<1>1. IInv => BorrowInOrder
  <2> SUFFICES ASSUME IInv PROVE BorrowInOrder
    OBVIOUS
  <2>1. taken \in Nat /\ Len(log) \in Nat
    BY Numbers DEF IInv
  <2> QED BY <2>1 DEF IInv, Borrowing, BorrowInOrder
<1> QED BY <1>1, Inductive, PTL

\* The queued bytes stay within the budget, or a single capture waits.
THEOREM KeepsBudget == Spec => []ByteBudget
<1>1. IInv => ByteBudget
  BY DEF IInv
<1> QED BY <1>1, Inductive, PTL

\* When close() has returned, no capture is between admission and publication.
THEOREM QuietOnceStopped == Spec => []QuietAfterStop
<1>1. IInv => QuietAfterStop
  BY DEF IInv
<1> QED BY <1>1, Inductive, PTL

-----------------------------------------------------------------------------
(* The ring implements the bounded queue. *)

accepted == [k \in 1 .. Len(log) |-> log[k].bytes]

\* The abstract sequence is a sequence of charges, and grows as the log does.
LEMMA AcceptedSeq ==
  ASSUME TypeOK
  PROVE  /\ accepted \in Seq(Nat) /\ Len(accepted) = Len(log)
         /\ \A k \in 1 .. Len(log) : accepted[k] = log[k].bytes
<1>1. Len(log) \in Nat
  BY Numbers
<1>2. \A k \in 1 .. Len(log) : log[k].bytes \in Nat
  BY LogType
<1> QED BY <1>1, <1>2 DEF accepted

\* The publication of a packet is the abstract queue's Put.
LEMMA CommitPuts ==
  ASSUME IInv, IInv', Commit
  PROVE  Queue!Put(shape.bytes)
<1>1. /\ Len(log') = Len(log) + 1
      /\ \A k \in 1 .. Len(log) : log'[k] = log[k]
      /\ log'[Len(log) + 1].bytes = shape.bytes
      /\ bytes' = bytes + shape.bytes /\ shape.bytes \in Nat \ {0}
  BY CommitFacts DEF IInv
<1>2. UNCHANGED <<taken, rconsumed, stop>> /\ spc = "commit"
  BY DEF Commit, SenderAt, receiverVars
<1>3. stop # "stopped"
  BY <1>2 DEF IInv, QuietAfterStop
<1>4. bytes - rconsumed + shape.bytes <= Capacity \/ taken = Len(accepted)
  <2>0. /\ taken \in Nat /\ Len(log) \in Nat /\ bytes \in Nat /\ rconsumed \in Nat
        /\ cachedConsumed \in Nat /\ consumed \in Nat /\ Capacity \in Nat
    BY Numbers, RingAssumption DEF IInv
  <2>1. Fits(shape, cachedRead, cachedConsumed)
    BY <1>2 DEF IInv, Reserved
  <2>2. cachedConsumed <= rconsumed /\ rconsumed <= bytes
    BY <2>0 DEF IInv, Cursors
  <2>3. CASE bytes = cachedConsumed
    <3>1. rconsumed = bytes
      BY <2>0, <2>2, <2>3
    <3>2. taken = Len(log)
      BY <3>1, AllReturned DEF IInv
    <3> QED BY <3>2, AcceptedSeq DEF IInv
  <2>4. CASE shape.bytes <= Capacity - (bytes - cachedConsumed)
    BY <1>1, <2>0, <2>2, <2>4
  <2> QED BY <2>1, <2>3, <2>4 DEF Fits
<1>5. accepted' = Append(accepted, shape.bytes)
  <2> DEFINE target == Append(accepted, shape.bytes)
  <2>1. /\ accepted \in Seq(Nat) /\ Len(accepted) = Len(log) /\ Len(log) \in Nat
        /\ \A k \in 1 .. Len(log) : accepted[k] = log[k].bytes
    BY AcceptedSeq, Numbers DEF IInv
  <2>2. /\ accepted' \in Seq(Nat) /\ Len(accepted') = Len(log')
        /\ \A k \in 1 .. Len(log') : accepted'[k] = log'[k].bytes
    <3>1. TypeOK'
      BY DEF IInv
    <3>2. Len(log') \in Nat
      BY <1>1, <2>1
    <3>3. \A k \in 1 .. Len(log') : log'[k].bytes \in Nat
      <4>1. \A k \in 1 .. Len(log) : log[k].bytes \in Nat
        BY LogType DEF IInv
      <4>2. \A k \in 1 .. Len(log) + 1 : k \in 1 .. Len(log) \/ k = Len(log) + 1
        BY <2>1
      <4> QED BY <1>1, <4>1, <4>2
    <3> QED BY <3>2, <3>3 DEF accepted
  <2>3. /\ target \in Seq(Nat) /\ Len(target) = Len(log) + 1
        /\ \A k \in 1 .. Len(log) : target[k] = accepted[k]
        /\ target[Len(log) + 1] = shape.bytes
    BY <1>1, <2>1
  <2>4. ASSUME NEW k \in 1 .. Len(log) + 1
        PROVE  accepted'[k] = target[k]
    <3> HIDE DEF target, accepted
    <3>1. CASE k \in 1 .. Len(log)
      BY <1>1, <2>1, <2>2, <2>3, <3>1
    <3>2. CASE k = Len(log) + 1
      BY <1>1, <2>1, <2>2, <2>3, <3>2
    <3> QED BY <2>1, <3>1, <3>2
  <2> HIDE DEF target, accepted
  <2>5. accepted' = target
    BY <1>1, <2>2, <2>3, <2>4, SeqEqual
  <2> QED BY <2>5 DEF target
<1> QED BY <1>1, <1>2, <1>3, <1>4, <1>5 DEF Queue!Put, accepted

\* Every step of the ring is a step of the queue or leaves it as it is.
LEMMA StepRefines ==
  ASSUME IInv, IInv', [Next]_vars
  PROVE  [Queue!Next]_Queue!vars
<1>1. CASE Commit
  <2>1. shape.bytes \in {s.bytes : s \in Shapes}
    BY DEF IInv, TypeOK
  <2>2. Queue!Put(shape.bytes)
    BY <1>1, CommitPuts
  <2>3. \E charge \in {s.bytes : s \in Shapes} : Queue!Put(charge)
    BY <2>1, <2>2 DEF Queue!Put
  <2> QED BY <2>3 DEF Queue!Next
<1>2. CASE DropCapture
  <2>1. UNCHANGED <<bytes, log, stop>>
    BY <1>2 DEF DropCapture, senderVars
  <2>2. /\ taken < Len(log) /\ taken + 1 \in 1 .. Len(log) /\ taken' = taken + 1
        /\ rconsumed' = PaidBy(taken + 1) /\ rconsumed = log[taken + 1].from
    BY <1>2, DropFacts DEF IInv
  <2>3. Len(accepted) = Len(log) /\ accepted[taken + 1] = log[taken + 1].bytes
    BY <2>2, AcceptedSeq DEF IInv
  <2> QED BY <2>1, <2>2, <2>3 DEF Queue!Next, Queue!Take, PaidBy, accepted
<1>3. CASE AwaitQuiet
  BY <1>3 DEF AwaitQuiet, senderVars, receiverVars, Queue!Next, Queue!Shut
<1>4. CASE ~Commit /\ ~DropCapture /\ ~AwaitQuiet
  <2>1. UNCHANGED <<bytes, log, rconsumed, taken>>
    BY <1>4, Frame
  <2>2. (stop' = "stopped") = (stop = "stopped")
    BY <1>4, Frame DEF BeginStop, FinishStop, CloseChannel
  <2> QED BY <2>1, <2>2 DEF Queue!vars
<1> QED BY <1>1, <1>2, <1>3, <1>4

\* The ring implements the bounded first-in-first-out queue of CaptureQueue: whatever the
\* cursors, the wrapping and the batching, the worker sees accepted captures exactly once,
\* in order, within the byte budget, and none after the shutdown handshake.
THEOREM ImplementsQueue == Spec => QueueSpec
<1>1. Init => Queue!Init
  BY DEF Init, Queue!Init
<1>2. IInv /\ IInv' /\ [Next]_vars => [Queue!Next]_Queue!vars
  BY StepRefines
<1> QED BY <1>1, <1>2, Inductive, PTL DEF Spec, QueueSpec, Queue!Spec
=============================================================================
