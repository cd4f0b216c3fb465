----------------------------- MODULE CaptureRing -----------------------------
(***************************************************************************)
(* The single-producer, single-consumer capture ring of the threaded       *)
(* recorder (vtr-rs/src/recording/channel.rs), at the granularity of its   *)
(* atomic loads and stores.  Three threads meet here:                      *)
(*                                                                         *)
(*   the sender    one logical producer inside publish_*: it enters the    *)
(*                 channel, reserves cells and bytes against cached        *)
(*                 credits, writes the packet and publishes it;            *)
(*   the receiver  the recording worker inside Worker::ingest: it snapshots*)
(*                 `written`, borrows one packet at a time and returns     *)
(*                 credits in batches;                                     *)
(*   the stopper   Shared::stop, run by a crash guard or by the worker: it *)
(*                 sets the recording's flag, closes the channel and waits *)
(*                 for a capture in progress to leave.                     *)
(*                                                                         *)
(* Sizes are in cells of size_of::<Entry>() bytes.  The 64-bit cursors are *)
(* naturals: they wrap only after 2^64 cells.                              *)
(***************************************************************************)
EXTENDS Integers, Sequences

CONSTANTS Slots,         \* cells of the ring
          Capacity,      \* the byte budget, in cells
          Shapes,        \* the packets a capture may need: [cells, bytes]
          ReleaseBatch,  \* consumed cells that trigger a return of credits
          IngestLimit,   \* cells one call of ingest may take
          MaxCaptures    \* bound: captures accepted in a behaviour

ASSUME RingAssumption ==
  /\ Slots \in Nat \ {0}
  /\ Capacity \in Nat
  /\ Shapes \subseteq [cells : 1 .. Slots, bytes : Nat \ {0}]
  /\ ReleaseBatch \in 1 .. Slots
  /\ IngestLimit \in Nat \ {0}
  /\ MaxCaptures \in Nat

\* `written & (slots - 1)` is a remainder because slots is a power of two.
ASSUME PowerOfTwo == \E k \in 0 .. Slots : Slots = 2 ^ k

VARIABLES
  written, read, consumed,  \* Channel: the published cursors
  active, closed,           \* Channel: the shutdown handshake
  ring,                     \* Channel.entries: what each cell holds
  refuse,                   \* Shared.closed or Shared.failed: the check() of a capture fails
  spc,                      \* sender: control point
  shape,                    \* sender: the packet being published
  bytes,                    \* WriteCursor.bytes
  cachedRead,               \* WriteCursor.cached_read
  cachedConsumed,           \* WriteCursor.cached_consumed
  independent,              \* Sender.independent_stop
  rpc,                      \* receiver: control point
  rread, rconsumed,         \* Receiver.read, Receiver.consumed
  published,                \* Receiver.published_read
  cachedWritten,            \* Receiver.cached_written
  quota,                    \* cells ingest may still take in this call
  held,                     \* the packet the worker borrows (its number in log), or 0
  stop,                     \* stopper: control point
  log,                      \* history: every published packet
  taken                     \* history: how many of them were consumed

channelVars  == <<written, read, consumed, active, closed, ring, refuse>>
senderVars   == <<spc, shape, bytes, cachedRead, cachedConsumed, independent, log>>
receiverVars == <<rpc, rread, rconsumed, published, cachedWritten, quota, held, taken>>
vars == <<channelVars, senderVars, receiverVars, stop>>

\* A packet in the ring: its first cell, its cells, the bytes charged before it and for it.
Packet == [start : Nat, cells : 1 .. Slots, from : Nat, bytes : Nat \ {0}]

\* A cell remembers whose it is: cell `offset` of packet `packet`.
Empty == [packet |-> 0, offset |-> 0]

\* The allocation is doubled, so a packet that wraps stays contiguous.
Cells == 0 .. 2 * Slots - 1
Slot(position) == position % Slots

Init ==
  /\ written = 0 /\ read = 0 /\ consumed = 0
  /\ active = 0 /\ closed = FALSE /\ refuse = FALSE
  /\ ring = [c \in Cells |-> Empty]
  /\ spc = "idle"
  /\ shape \in Shapes
  /\ bytes = 0 /\ cachedRead = 0 /\ cachedConsumed = 0
  /\ independent \in BOOLEAN
  /\ rpc = "idle"
  /\ rread = 0 /\ rconsumed = 0 /\ published = 0 /\ cachedWritten = 0
  /\ quota = 0 /\ held = 0
  /\ stop = "none"
  /\ log = <<>> /\ taken = 0

-----------------------------------------------------------------------------
(* The sender: Sender::publish_*, WriteCursor::{fits, reserve, wait, commit}. *)

\* Mutant: what is already queued is not deducted.
FitsAlone(s, seenRead, seenConsumed) ==
  s.cells <= Slots /\ (bytes = seenConsumed \/ s.bytes <= Capacity)

\* Mutant: cells are the only budget.
FitsCellsOnly(s, seenRead, seenConsumed) == s.cells <= Slots - (written - seenRead)

\* WriteCursor::fits.  A packet over the byte budget fits only an empty queue.
Fits(s, seenRead, seenConsumed) ==
  /\ s.cells <= Slots - (written - seenRead)
  /\ \/ bytes = seenConsumed
     \/ s.bytes <= Capacity - (bytes - seenConsumed)

SenderAt(from, to) == spc = from /\ spc' = to

\* Mutant: the capture does not announce itself to close().
EnterSilently ==
  /\ Len(log) < MaxCaptures
  /\ SenderAt("idle", "admit")
  /\ shape' \in Shapes
  /\ UNCHANGED <<channelVars, bytes, cachedRead, cachedConsumed, independent, log,
                 receiverVars, stop>>

\* Channel::enter.  An exclusive channel without a sealer skips the handshake: its owner
\* is the only one who can stop it, and does so between captures.
Enter ==
  /\ Len(log) < MaxCaptures
  /\ ~independent => stop \in {"none", "stopped"}
  /\ SenderAt("idle", "admit")
  /\ active' = IF independent THEN 1 ELSE active
  /\ shape' \in Shapes
  /\ UNCHANGED <<written, read, consumed, closed, ring, refuse, bytes, cachedRead,
                 cachedConsumed, independent, log, receiverVars, stop>>

Admit ==
  /\ SenderAt("admit", IF closed THEN "leave" ELSE "check")
  /\ UNCHANGED <<channelVars, shape, bytes, cachedRead, cachedConsumed, independent, log,
                 receiverVars, stop>>

\* WriteCursor::reserve: check(), then the cached credits.
Check ==
  /\ SenderAt("check", IF refuse THEN "leave"
                       ELSE IF Fits(shape, cachedRead, cachedConsumed) THEN "write"
                       ELSE "read")
  /\ UNCHANGED <<channelVars, shape, bytes, cachedRead, cachedConsumed, independent, log,
                 receiverVars, stop>>

\* Mutant: only the first refresh looks at `read`.
LoadReadOnce ==
  /\ \/ SenderAt("read", "consumed") /\ cachedRead' = read
     \/ SenderAt("waitread", "consumed") /\ UNCHANGED cachedRead
  /\ UNCHANGED <<channelVars, shape, bytes, cachedConsumed, independent, log, receiverVars, stop>>

\* The refresh loads `read` before `consumed`; release stores them the other way round.
LoadRead ==
  /\ \/ SenderAt("read", "consumed")
     \/ SenderAt("waitread", "consumed")
  /\ cachedRead' = read
  /\ UNCHANGED <<channelVars, shape, bytes, cachedConsumed, independent, log, receiverVars, stop>>

LoadConsumed ==
  /\ SenderAt("consumed", IF Fits(shape, cachedRead, consumed) THEN "write" ELSE "wait")
  /\ cachedConsumed' = consumed
  /\ UNCHANGED <<channelVars, shape, bytes, cachedRead, independent, log, receiverVars, stop>>

\* One turn of WriteCursor::wait looks at the recording, then at the channel.
WaitCheck ==
  /\ SenderAt("wait", IF refuse THEN "leave" ELSE "waitclosed")
  /\ UNCHANGED <<channelVars, shape, bytes, cachedRead, cachedConsumed, independent, log,
                 receiverVars, stop>>

WaitClosed ==
  /\ SenderAt("waitclosed", IF closed THEN "leave" ELSE "waitread")
  /\ UNCHANGED <<channelVars, shape, bytes, cachedRead, cachedConsumed, independent, log,
                 receiverVars, stop>>

\* The packet's cells are written before they are published.
Write ==
  /\ SenderAt("write", "commit")
  /\ ring' = [c \in Cells |->
                IF c \in Slot(written) .. Slot(written) + shape.cells - 1
                THEN [packet |-> Len(log) + 1, offset |-> c - Slot(written)]
                ELSE ring[c]]
  /\ UNCHANGED <<written, read, consumed, active, closed, refuse, shape, bytes, cachedRead,
                 cachedConsumed, independent, log, receiverVars, stop>>

\* Mutant: every packet publishes a single cell.
CommitOneCell ==
  /\ SenderAt("commit", "leave")
  /\ bytes' = bytes + shape.bytes
  /\ written' = written + 1
  /\ log' = Append(log, [start |-> written, cells |-> shape.cells,
                         from |-> bytes, bytes |-> shape.bytes])
  /\ UNCHANGED <<read, consumed, active, closed, ring, refuse, shape, cachedRead,
                 cachedConsumed, independent, receiverVars, stop>>

\* WriteCursor::commit.
Commit ==
  /\ SenderAt("commit", "leave")
  /\ bytes' = bytes + shape.bytes
  /\ written' = written + shape.cells
  /\ log' = Append(log, [start |-> written, cells |-> shape.cells,
                         from |-> bytes, bytes |-> shape.bytes])
  /\ UNCHANGED <<read, consumed, active, closed, ring, refuse, shape, cachedRead,
                 cachedConsumed, independent, receiverVars, stop>>

\* Mutant: the capture stays announced.
LeaveRaised ==
  /\ SenderAt("leave", "idle")
  /\ UNCHANGED <<channelVars, shape, bytes, cachedRead, cachedConsumed, independent, log,
                 receiverVars, stop>>

\* Publication::drop, on success and on error.
Leave ==
  /\ SenderAt("leave", "idle")
  /\ active' = IF independent THEN 0 ELSE active
  /\ UNCHANGED <<written, read, consumed, closed, ring, refuse, shape, bytes, cachedRead,
                 cachedConsumed, independent, log, receiverVars, stop>>

\* Transport::rescue turns the handshake on, on the owner's thread between captures.
EnableIndependentStop ==
  /\ spc = "idle" /\ ~independent
  /\ stop = "none"
  /\ independent' = TRUE
  /\ UNCHANGED <<channelVars, spc, shape, bytes, cachedRead, cachedConsumed, log,
                 receiverVars, stop>>

Publish == \/ Admit \/ Check \/ LoadRead \/ LoadConsumed \/ WaitCheck \/ WaitClosed
           \/ Write \/ Commit \/ Leave

-----------------------------------------------------------------------------
(* The receiver: Worker::ingest, Receiver::{available, next, release}, Capture::drop. *)

\* ingest takes what was published when it began, up to its limit.
Available ==
  /\ rpc = "idle" /\ rpc' = "loop"
  /\ cachedWritten' = written
  /\ quota' = IF written - rread <= IngestLimit THEN written - rread ELSE IngestLimit
  /\ UNCHANGED <<channelVars, senderVars, rread, rconsumed, published, held, taken, stop>>

\* Receiver::next: the header cell tells which packet this is and how long it is.
TakeNext ==
  /\ rpc = "loop" /\ rpc' = "hold"
  /\ quota > 0
  /\ held' = ring[Slot(rread)].packet
  /\ UNCHANGED <<channelVars, senderVars, rread, rconsumed, published, cachedWritten, quota, taken,
                 stop>>

\* Capture::drop ends the borrow; enough consumed cells, or the last published ones, start
\* a return of credits.  release stores `consumed` first.
DropCapture ==
  /\ rpc = "hold"
  /\ LET p == log[held] IN
       /\ rread' = rread + p.cells
       /\ rconsumed' = rconsumed + p.bytes
       /\ quota' = IF p.cells < quota THEN quota - p.cells ELSE 0
       /\ rpc' = IF rread' - published >= ReleaseBatch \/ rread' = cachedWritten
                 THEN "release" ELSE "loop"
  /\ held' = 0
  /\ taken' = taken + 1
  /\ UNCHANGED <<channelVars, senderVars, published, cachedWritten, stop>>

\* ingest releases whatever is left once its quota is spent.
EndIngest ==
  /\ rpc = "loop"
  /\ quota = 0
  /\ rpc' = IF rread = published THEN "idle" ELSE "release"
  /\ UNCHANGED <<channelVars, senderVars, rread, rconsumed, published, cachedWritten, quota, held,
                 taken, stop>>

ReleaseConsumed ==
  /\ rpc = "release" /\ rpc' = "releaseread"
  /\ consumed' = rconsumed
  /\ UNCHANGED <<written, read, active, closed, ring, refuse, senderVars, rread, rconsumed,
                 published, cachedWritten, quota, held, taken, stop>>

\* Mutant: the credits of the previous batch are returned again.
ReleaseStale ==
  /\ rpc = "releaseread" /\ rpc' = "loop"
  /\ read' = published
  /\ published' = rread
  /\ UNCHANGED <<written, consumed, active, closed, ring, refuse, senderVars, rread, rconsumed,
                 cachedWritten, quota, held, taken, stop>>

ReleaseRead ==
  /\ rpc = "releaseread" /\ rpc' = "loop"
  /\ read' = rread
  /\ published' = rread
  /\ UNCHANGED <<written, consumed, active, closed, ring, refuse, senderVars, rread, rconsumed,
                 cachedWritten, quota, held, taken, stop>>

Receive == \/ Available \/ TakeNext \/ DropCapture \/ EndIngest \/ ReleaseConsumed \/ ReleaseRead

-----------------------------------------------------------------------------
(* The stopper: Shared::stop and Channel::close. *)

\* Shared.failed: a failure of the worker makes every later check() fail.
Fail ==
  /\ ~refuse /\ refuse' = TRUE
  /\ UNCHANGED <<written, read, consumed, active, closed, ring, senderVars, receiverVars, stop>>

\* Without the handshake the channel is stopped only on behalf of its idle owner.
BeginStop ==
  /\ stop = "none" /\ stop' = "flagged"
  /\ ~independent => spc = "idle"
  /\ refuse' = TRUE
  /\ UNCHANGED <<written, read, consumed, active, closed, ring, senderVars, receiverVars>>

CloseChannel ==
  /\ stop = "flagged" /\ stop' = "closing"
  /\ closed' = TRUE
  /\ UNCHANGED <<written, read, consumed, active, ring, refuse, senderVars, receiverVars>>

\* Mutant: close() does not wait for the capture in progress.
AwaitNothing ==
  /\ stop = "closing" /\ stop' = "stopped"
  /\ UNCHANGED <<channelVars, senderVars, receiverVars>>

AwaitQuiet ==
  /\ stop = "closing" /\ stop' = "stopped"
  /\ active = 0
  /\ UNCHANGED <<channelVars, senderVars, receiverVars>>

FinishStop == CloseChannel \/ AwaitQuiet

Next == Enter \/ EnableIndependentStop \/ Publish \/ Receive \/ Fail \/ BeginStop \/ FinishStop

Spec == Init /\ [][Next]_vars

\* Every thread that is inside the channel keeps running; nobody is obliged to begin a
\* capture, to fail or to stop.
Fairness == WF_vars(Publish) /\ WF_vars(Receive) /\ WF_vars(FinishStop)

FairSpec == Spec /\ Fairness

-----------------------------------------------------------------------------
TypeOK ==
  /\ written \in Nat /\ read \in Nat /\ consumed \in Nat
  /\ active \in {0, 1} /\ closed \in BOOLEAN /\ refuse \in BOOLEAN
  /\ ring \in [Cells -> [packet : Nat, offset : Nat]]
  /\ spc \in {"idle", "admit", "check", "read", "consumed", "wait", "waitclosed", "waitread",
              "write", "commit", "leave"}
  /\ shape \in Shapes
  /\ bytes \in Nat /\ cachedRead \in Nat /\ cachedConsumed \in Nat
  /\ independent \in BOOLEAN
  /\ rpc \in {"idle", "loop", "hold", "release", "releaseread"}
  /\ rread \in Nat /\ rconsumed \in Nat /\ published \in Nat
  /\ cachedWritten \in Nat /\ quota \in Nat /\ held \in Nat
  /\ stop \in {"none", "flagged", "closing", "stopped"}
  /\ log \in Seq(Packet) /\ taken \in Nat

\* The cells of a published packet hold that packet and nothing else.
Intact(k) ==
  \A j \in 0 .. log[k].cells - 1 :
    ring[Slot(log[k].start) + j] = [packet |-> k, offset |-> j]

\* The sender never overwrites a packet the worker has not finished with, the one it is
\* borrowing included, however the packet wraps and however stale the credits are
\* (channel.rs: "Cached acquire credits certify exclusive ownership of this slot").
NoOverwrite == \A k \in taken + 1 .. Len(log) : Intact(k)

\* The worker borrows the packets in the order they were published, each at its first cell.
BorrowInOrder == rpc = "hold" => held = taken + 1 /\ held <= Len(log)

\* The charged bytes in the ring stay within the budget; an oversized capture is alone
\* (docs/TRANSACTIONS.md: "A single oversized capture can exceed its nominal queue byte
\* target while alone").
ByteBudget == bytes - rconsumed <= Capacity \/ Len(log) - taken <= 1

\* Once close() has returned, no capture is between admission and publication: what the
\* worker drains afterwards is everything that will ever be accepted.
QuietAfterStop ==
  stop = "stopped" => spc \notin {"check", "read", "consumed", "wait", "waitclosed", "waitread",
                                  "write", "commit"}

\* The ring implements the bounded queue the worker relies on.
Queue == INSTANCE CaptureQueue WITH
  Charges  <- {s.bytes : s \in Shapes},
  accepted <- [k \in 1 .. Len(log) |-> log[k].bytes],
  charged  <- bytes,
  returned <- rconsumed,
  shut     <- stop = "stopped"

QueueSpec == Queue!Spec

\* A capture in progress ends, accepted or refused: a full ring cannot hold its producer
\* forever while the worker runs or once the recording is stopped.
CaptureEnds == spc # "idle" ~> spc = "idle"

\* close() does not wait forever for a capture that is itself waiting for ring space.  It may
\* only be held up by a producer that answers each refusal with another attempt, for ever:
\* such attempts raise `active` for an instant, and close() may sample each of those instants.
StopEnds == []<><<Enter>>_vars \/ (stop = "flagged" ~> stop = "stopped")

\* Every accepted capture is taken, and its credits return to the sender.
AllTaken ==
  \A n \in 1 .. MaxCaptures : Len(log) = n ~> taken >= n /\ read >= log[n].start + log[n].cells
=============================================================================
