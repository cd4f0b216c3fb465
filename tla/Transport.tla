------------------------------ MODULE Transport ------------------------------
(***************************************************************************)
(* The threaded recorder (vtr-rs/src/recording/transport.rs): producers    *)
(* capture into their channels, the recording's owner and the producers    *)
(* send commands, one worker merges the captures by time into the backend, *)
(* and a rescuer may seal the recording from outside while all of them are *)
(* in the middle of something.                                             *)
(*                                                                         *)
(* A channel is the bounded queue of CaptureQueue, which CaptureRing       *)
(* implements: `capturing` is a capture between its admission and its      *)
(* publication, and a channel closes only while there is none.  The        *)
(* backend is reduced to what the worker relies on: it applies an          *)
(* operation, rejects it, or unwinds.                                      *)
(***************************************************************************)
EXTENDS Integers, Sequences, FiniteSets

CONSTANTS LastProducer,   \* bound: explicit producers are 1 .. LastProducer
          MaxTime,        \* bound: recording time
          MaxCaptures,    \* bound: captures accepted in a behaviour
          MaxCalls,       \* bound: commands one caller sends
          RingSize,       \* captures a channel holds
          IngestLimit,    \* captures of one channel that a polling round may take
          PendingLimit,   \* captures kept in memory; the rest spill to a file
          Fates,          \* what the backend may do with an operation
          Calls,          \* the calls the owner makes in this instance
          MayFail,        \* whether output, spill files and controls may fail
          MayRescue       \* whether somebody holds a Sealer

ASSUME TransportAssumption ==
  /\ LastProducer \in Nat /\ MaxTime \in Nat /\ MaxCaptures \in Nat /\ MaxCalls \in Nat
  /\ RingSize \in Nat \ {0} /\ IngestLimit \in Nat \ {0} /\ PendingLimit \in Nat
  /\ Fates \subseteq {"good", "rejected", "panic"}
  /\ Calls \subseteq {"add", "done", "flush", "control", "stats", "close", "seal",
               "drop"}
  /\ MayFail \in BOOLEAN /\ MayRescue \in BOOLEAN

\* Producer 0 is the implicit one; its thread is the owner of the recording.
Producers == 0 .. LastProducer
Owner == 0
Rescuer == LastProducer + 1
Callers == 0 .. LastProducer + 1

VARIABLES
  front,      \* Frontend of each producer: [state, time]
  capturing,  \* a capture was admitted and is not published yet
  ring,       \* the published captures the worker has not taken
  shut,       \* Channel::close has returned
  accepted,   \* history: the times of every published capture, per producer
  mailbox,    \* the commands sent to the worker
  calls,      \* which command a caller is waiting for, or "none"
  sent,       \* how many commands a caller has sent
  closed, failed,  \* Shared.closed, Shared.failed
  rescue,     \* Rescue::seal: its control point and outcome
  wpc,        \* worker: control point
  cmd,        \* worker: the command in hand
  at, quota, active,       \* Worker::ingest: input, captures left of it, anything taken
  count,      \* producers registered: 0 .. count - 1
  clock, finished,         \* ProducerState.time, .finished
  pending, spilled,        \* ProducerState.queue: in memory, in the spill file
  memory, sequence,        \* Worker.memory, Worker.sequence
  panicked,   \* Worker.panicked
  captured,   \* Backend.captured_time
  applied,    \* history: the captures the backend applied, in order
  sealed      \* the recording: "open", "complete" or "incomplete"

frontVars   == <<front, capturing, accepted>>
channelVars == <<ring, shut>>
callVars    == <<mailbox, calls, sent>>
sharedVars  == <<closed, failed>>
ingestVars  == <<at, quota, active>>
queueVars   == <<clock, finished, pending, spilled, memory, sequence>>
workerVars  == <<wpc, cmd, ingestVars, count, queueVars, panicked>>
backend     == <<captured, applied, sealed>>
vars == <<frontVars, channelVars, callVars, sharedVars, rescue, workerVars, backend>>

NoCommand == [kind |-> "none", from |-> 0]
Registered == 0 .. count - 1

\* The places of all producers' sequences, and how many there are.
Places(queues) == UNION {{p} \X DOMAIN queues[p] : p \in Producers}
Total(queues) == Cardinality(Places(queues))

Init ==
  /\ front = [p \in Producers |-> [state |-> IF p = 0 THEN "live" ELSE "absent", time |-> 0]]
  /\ capturing = [p \in Producers |-> FALSE]
  /\ ring = [p \in Producers |-> <<>>]
  /\ shut = [p \in Producers |-> FALSE]
  /\ accepted = [p \in Producers |-> <<>>]
  /\ mailbox = <<>>
  /\ calls = [c \in Callers |-> "none"]
  /\ sent = [c \in Callers |-> 0]
  /\ closed = FALSE /\ failed = FALSE
  /\ rescue = "none"
  /\ wpc = "poll" /\ cmd = NoCommand
  /\ at = 0 /\ quota = 0 /\ active = FALSE
  /\ count = 1
  /\ clock = [p \in Producers |-> 0]
  /\ finished = [p \in Producers |-> FALSE]
  /\ pending = [p \in Producers |-> <<>>]
  /\ spilled = [p \in Producers |-> <<>>]
  /\ memory = 0 /\ sequence = 0
  /\ panicked = FALSE
  /\ captured = 0 /\ applied = <<>> /\ sealed = "open"

-----------------------------------------------------------------------------
(* Producers: captures. *)

\* Session::check, WriteCursor::reserve and Channel::enter let a capture begin.
BeginCapture(p) ==
  /\ front[p].state = "live" /\ ~capturing[p]
  /\ calls[p] = "none"
  /\ Total(accepted) + Cardinality({q \in Producers : capturing[q]}) < MaxCaptures
  /\ ~closed /\ ~failed /\ ~shut[p]
  /\ capturing' = [capturing EXCEPT ![p] = TRUE]
  /\ UNCHANGED <<front, accepted, channelVars, callVars, sharedVars, rescue, workerVars, backend>>

\* The capture is published: an advance of the producer's time, or an operation at that time.
Publish(p, time, fate) ==
  /\ capturing[p]
  /\ Len(ring[p]) < RingSize
  /\ front[p].time <= time
  /\ LET op == [from |-> p, n |-> Len(accepted[p]) + 1, stamp |-> time,
                progress |-> time > front[p].time, fate |-> fate]
     IN ring' = [ring EXCEPT ![p] = Append(@, op)]
  /\ front' = [front EXCEPT ![p].time = time]
  /\ accepted' = [accepted EXCEPT ![p] = Append(@, time)]
  /\ capturing' = [capturing EXCEPT ![p] = FALSE]
  /\ UNCHANGED <<shut, callVars, sharedVars, rescue, workerVars, backend>>

\* The capture finds the recording closed or failed, possibly while it waits for room.
RefuseCapture(p) ==
  /\ capturing[p]
  /\ closed \/ failed
  /\ capturing' = [capturing EXCEPT ![p] = FALSE]
  /\ UNCHANGED <<front, accepted, channelVars, callVars, sharedVars, rescue, workerVars, backend>>

-----------------------------------------------------------------------------
(* Callers: commands go through one mailbox, and the caller blocks on the reply. *)

\* Shared::send.  Nobody receives after the worker has gone: the call fails at once.
Send(c, kind) ==
  /\ calls[c] = "none" /\ sent[c] < MaxCalls
  /\ sent' = [sent EXCEPT ![c] = @ + 1]
  /\ IF wpc = "exited"
     THEN UNCHANGED <<mailbox, calls>>
     ELSE /\ mailbox' = Append(mailbox, [kind |-> kind, from |-> c])
          /\ calls' = [calls EXCEPT ![c] = kind]
  /\ UNCHANGED <<frontVars, channelVars, sharedVars, rescue, workerVars, backend>>

\* Writer::usable and the registration, flush and control calls it admits.
OwnerCall(kind) ==
  /\ kind \in Calls \cap {"add", "flush", "control"}
  /\ front[Owner].state \in {"live", "finished"} /\ ~capturing[Owner]
  /\ ~closed /\ ~failed
  /\ kind = "add" => count <= LastProducer
  /\ Send(Owner, kind)

\* Writer::stats asks a failed recording too; a closed one answers without the worker.
OwnerStats ==
  /\ "stats" \in Calls
  /\ front[Owner].state \in {"live", "finished"} /\ ~capturing[Owner]
  /\ ~closed
  /\ Send(Owner, "stats")

\* Writer::close (refused after a failure) and Writer::seal.
OwnerFinish(kind) ==
  /\ kind \in Calls \cap {"close", "seal"}
  /\ front[Owner].state \in {"live", "finished"} /\ ~capturing[Owner]
  /\ ~closed
  /\ kind = "close" => ~failed
  /\ Send(Owner, kind)

\* Producer::finish and Writer::finish_producer.  Drop of a Producer retries a lost call.
FinishProducer(p) ==
  /\ p = Owner => "done" \in Calls
  /\ front[p].state = "live" /\ ~capturing[p]
  /\ Send(p, "done")

\* Drop of the Writer makes a last attempt to seal ...
DropWriter ==
  /\ "drop" \in Calls
  /\ front[Owner].state \in {"live", "finished"} /\ ~capturing[Owner]
  /\ calls[Owner] = "none"
  /\ front' = [front EXCEPT ![Owner].state = "dropping"]
  /\ IF closed \/ wpc = "exited"
     THEN UNCHANGED <<mailbox, calls>>
     ELSE /\ mailbox' = Append(mailbox, [kind |-> "seal", from |-> Owner])
          /\ calls' = [calls EXCEPT ![Owner] = "seal"]
  /\ UNCHANGED <<capturing, accepted, channelVars, sent, sharedVars, rescue, workerVars, backend>>

\* ... and drop of its Transport tells the worker to stop and joins it.
DropTransport ==
  /\ front[Owner].state = "dropping" /\ calls[Owner] = "none"
  /\ front' = [front EXCEPT ![Owner].state = "joining"]
  /\ mailbox' = IF wpc = "exited" THEN mailbox
                ELSE Append(mailbox, [kind |-> "shutdown", from |-> Owner])
  /\ UNCHANGED <<capturing, accepted, channelVars, calls, sent, sharedVars, rescue, workerVars,
                 backend>>

-----------------------------------------------------------------------------
(* The rescuer: Rescue::seal, called from outside the producers' threads.  *)

\* closed.swap, and the lock on the list of channels that Shared::stop holds.  (A producer
\* registered between the two is registered before both: registration does not read `closed`.)
BeginRescue ==
  /\ MayRescue /\ rescue = "none"
  /\ IF closed THEN rescue' = "refused" /\ UNCHANGED closed
               ELSE rescue' = "closing" /\ closed' = TRUE
  /\ UNCHANGED <<frontVars, channelVars, callVars, failed, workerVars, backend>>

\* Mutant: the capture in progress is not waited for.
CloseChannelAtOnce(p) ==
  /\ p \in Registered /\ ~shut[p]
  /\ shut' = [shut EXCEPT ![p] = TRUE]

\* Channel::close.
CloseChannel(p) ==
  /\ p \in Registered /\ ~shut[p]
  /\ ~capturing[p]
  /\ shut' = [shut EXCEPT ![p] = TRUE]

RescueCloses ==
  /\ rescue = "closing"
  /\ \E p \in Producers : CloseChannel(p)
  /\ UNCHANGED <<frontVars, ring, callVars, sharedVars, rescue, workerVars, backend>>

RescueSends ==
  /\ rescue = "closing"
  /\ \A p \in Registered : shut[p]
  /\ IF wpc = "exited"
     THEN rescue' = "failed" /\ UNCHANGED <<mailbox, calls>>
     ELSE /\ rescue' = "waiting"
          /\ mailbox' = Append(mailbox, [kind |-> "rescue", from |-> Rescuer])
          /\ calls' = [calls EXCEPT ![Rescuer] = "rescue"]
  /\ UNCHANGED <<frontVars, channelVars, sent, sharedVars, workerVars, backend>>

-----------------------------------------------------------------------------
(* The worker.  A round is a bounded ingest, then at most one command, before which        *)
(* everything that was captured is ingested.  An error or an unwinding ends the round.     *)

WorkerAt(from, to) == wpc = from /\ wpc' = to

\* The backend applies a capture.
Apply(op) ==
  /\ op.fate = "good"
  /\ captured' = IF op.stamp > captured THEN op.stamp ELSE captured
  /\ applied' = Append(applied, <<op.from, op.n>>)
  /\ UNCHANGED sealed

\* The caller of the command in hand resumes.
Reply == calls' = [calls EXCEPT ![cmd.from] = "none"]

\* Mutant: the command in hand outlives the round, and its caller waits on.
AbortHoldingReply(unwinds) ==
  /\ failed' = TRUE
  /\ panicked' = (panicked \/ unwinds)
  /\ wpc' = "poll" /\ cmd' = NoCommand /\ quota' = 0
  /\ UNCHANGED <<frontVars, shut, calls, mailbox, sent, closed, rescue, at, count, backend>>

\* The recording fails and the round ends.  A command in hand is dropped with its reply
\* channel, so that its caller is told of a failure.
Abort(unwinds) ==
  /\ failed' = TRUE
  /\ panicked' = (panicked \/ unwinds)
  /\ wpc' = "poll" /\ cmd' = NoCommand /\ quota' = 0
  /\ IF cmd.kind \in {"none", "shutdown"} THEN UNCHANGED calls ELSE Reply
  /\ rescue' = IF cmd.kind = "rescue" THEN "failed" ELSE rescue
  /\ UNCHANGED <<frontVars, shut, mailbox, sent, closed, at, count, backend>>

\* Receiver::available for input p: a polling round takes a bounded number, a command all.
Snapshot(p, command) ==
  /\ at' = p
  /\ quota' = IF command.kind = "none" /\ Len(ring[p]) > IngestLimit
              THEN IngestLimit ELSE Len(ring[p])

StartRound ==
  /\ WorkerAt("poll", "take")
  /\ active' = FALSE
  /\ Snapshot(0, NoCommand)
  /\ UNCHANGED <<frontVars, channelVars, callVars, sharedVars, rescue, cmd, count, queueVars,
                 panicked, backend>>

\* Receiver::next, and the drop of the capture it returned.
Oldest == Head(ring[at])
Consume ==
  /\ wpc = "take" /\ quota > 0
  /\ ring' = [ring EXCEPT ![at] = Tail(@)]
  /\ active' = TRUE

Consumed ==
  /\ quota' = quota - 1
  /\ UNCHANGED <<frontVars, shut, callVars, sharedVars, rescue, wpc, cmd, at, count, panicked>>

\* After a failure captures are still consumed, so that nobody waits for room.
TakeDiscard ==
  /\ failed
  /\ Consume /\ Consumed
  /\ UNCHANGED <<queueVars, backend>>

\* A recording with its implicit producer alone needs no merge.
TakeDirect ==
  /\ ~failed /\ count = 1
  /\ Consume
  /\ clock' = [clock EXCEPT ![0] = Oldest.stamp]
  /\ \/ Apply(Oldest) /\ Consumed
     \/ Oldest.fate # "good" /\ Abort(Oldest.fate = "panic")
  /\ UNCHANGED <<finished, pending, spilled, memory, sequence>>

\* What Worker::push demands of a capture.
Legal(op) == ~finished[at] /\ op.stamp >= clock[at]

\* Mutant: a queue that spills goes back to memory as soon as there is room.
EnqueueAnywhere(op) ==
  IF memory < PendingLimit
  THEN /\ memory' = memory + 1
       /\ pending' = [pending EXCEPT ![at] = Append(@, [op |-> op, sequence |-> sequence])]
       /\ UNCHANGED spilled
  ELSE /\ spilled' = [spilled EXCEPT ![at] = Append(@, [op |-> op, sequence |-> sequence])]
       /\ UNCHANGED <<pending, memory>>

\* Mutant: one capture too many is kept in memory.
EnqueueOver(op) ==
  IF spilled[at] = <<>> /\ memory <= PendingLimit
  THEN /\ memory' = memory + 1
       /\ pending' = [pending EXCEPT ![at] = Append(@, [op |-> op, sequence |-> sequence])]
       /\ UNCHANGED spilled
  ELSE /\ spilled' = [spilled EXCEPT ![at] = Append(@, [op |-> op, sequence |-> sequence])]
       /\ UNCHANGED <<pending, memory>>

\* A queue that spills stays in its file until the file is empty.
Spills == spilled[at] # <<>> \/ memory >= PendingLimit

Enqueue(op) ==
  IF Spills
  THEN /\ spilled' = [spilled EXCEPT ![at] = Append(@, [op |-> op, sequence |-> sequence])]
       /\ UNCHANGED <<pending, memory>>
  ELSE /\ memory' = memory + 1
       /\ pending' = [pending EXCEPT ![at] = Append(@, [op |-> op, sequence |-> sequence])]
       /\ UNCHANGED spilled

\* Mutant: the worker waits for memory instead of spilling.
TakePushInMemory ==
  /\ ~failed /\ count > 1 /\ memory < PendingLimit
  /\ Consume /\ Enqueue(Oldest) /\ Consumed
  /\ clock' = IF Oldest.progress THEN [clock EXCEPT ![at] = Oldest.stamp] ELSE clock
  /\ sequence' = sequence + 1
  /\ UNCHANGED <<finished, backend>>

\* Worker::push: the capture is enqueued, unless it is illegal or its spill fails.
TakePush ==
  /\ ~failed /\ count > 1
  /\ Consume
  /\ clock' = IF Oldest.progress /\ Legal(Oldest) THEN [clock EXCEPT ![at] = Oldest.stamp]
              ELSE clock
  /\ sequence' = IF Legal(Oldest) THEN sequence + 1 ELSE sequence
  /\ \/ Legal(Oldest) /\ Enqueue(Oldest) /\ Consumed /\ UNCHANGED backend
     \/ /\ (MayFail /\ Spills) \/ ~Legal(Oldest)
        /\ UNCHANGED <<pending, spilled, memory>> /\ Abort(FALSE)
  /\ UNCHANGED finished

\* The end of one input, then of the whole ingest.
NextInput ==
  /\ wpc = "take" /\ quota = 0
  /\ IF at + 1 < count
     THEN Snapshot(at + 1, cmd) /\ UNCHANGED wpc
     ELSE /\ UNCHANGED <<at, quota>>
          /\ wpc' = IF active /\ count > 1 /\ ~failed THEN "merge"
                    ELSE IF cmd.kind = "none" THEN "receive" ELSE "execute"
  /\ UNCHANGED <<frontVars, channelVars, callVars, sharedVars, rescue, cmd, active, count,
                 queueVars, panicked, backend>>

-----------------------------------------------------------------------------
(* Worker::drain: the k-way merge of the producers' queues. *)

Queue(p) == pending[p] \o spilled[p]
Waiting == {p \in Registered : Queue(p) # <<>>}
First(p) == Head(Queue(p))
Live == {p \in Registered : ~finished[p]}

Before(a, b) == a.op.stamp < b.op.stamp \/ (a.op.stamp = b.op.stamp /\ a.sequence < b.sequence)
Selected(p) == p \in Waiting /\ \A q \in Waiting \ {p} : Before(First(p), First(q))

\* Mutant: one producer's promise is enough.
CompleteForOne(op) == Live = {} \/ \E p \in Live : op.stamp < clock[p]

\* No producer can still capture anything that goes before this operation.
Complete(op) ==
  \A p \in Live : op.stamp < clock[p] \/ (Live = {p} /\ op.stamp = clock[p])

\* Finish drains everything, the other callers of drain what is complete.
Due(p) ==
  Selected(p) /\ (Complete(First(p).op) \/ (wpc = "settle" /\ cmd.kind \notin {"done", "flush"}))

\* The selected operation leaves its queue.
Dequeue(p) ==
  IF pending[p] # <<>>
  THEN /\ pending' = [pending EXCEPT ![p] = Tail(@)]
       /\ memory' = memory - 1
       /\ UNCHANGED spilled
  ELSE /\ spilled' = [spilled EXCEPT ![p] = Tail(@)]
       /\ UNCHANGED <<pending, memory>>

DrainOne(p) ==
  /\ wpc \in {"merge", "settle"}
  /\ Due(p) /\ Dequeue(p) /\ Apply(First(p).op)
  /\ UNCHANGED <<frontVars, channelVars, callVars, sharedVars, rescue, wpc, cmd, ingestVars, count,
                 clock, finished, sequence, panicked>>

\* The backend rejects the operation or unwinds, or the spill file cannot be read.
Spoils(p) == {f \in {"rejected", "panic"} : First(p).op.fate = f}
             \cup {f \in {"rejected"} : MayFail /\ pending[p] = <<>>}

MergeFails(p) ==
  /\ wpc = "merge"
  /\ Due(p) /\ Dequeue(p)
  /\ \E fate \in Spoils(p) : Abort(fate = "panic")
  /\ UNCHANGED <<ring, active, clock, finished, sequence>>

MergeEnds ==
  /\ WorkerAt("merge", IF cmd.kind = "none" THEN "receive" ELSE "execute")
  /\ \A p \in Waiting : ~Due(p)
  /\ UNCHANGED <<frontVars, channelVars, callVars, sharedVars, rescue, cmd, ingestVars, count,
                 queueVars, panicked, backend>>

-----------------------------------------------------------------------------
(* Worker::command. *)

\* Output::poll may report the failure of an earlier write or encoding.
PollFails ==
  /\ wpc = "receive"
  /\ MayFail /\ ~failed
  /\ \E unwinds \in BOOLEAN : Abort(unwinds)
  /\ UNCHANGED <<ring, active, queueVars>>

\* Mutant: a command is executed without another look at the channels.
ReceiveAndExecute ==
  /\ wpc = "receive" /\ mailbox # <<>>
  /\ cmd' = Head(mailbox) /\ mailbox' = Tail(mailbox)
  /\ wpc' = "execute"
  /\ UNCHANGED <<frontVars, channelVars, calls, sent, sharedVars, rescue, ingestVars, count,
                 queueVars, panicked, backend>>

Receive ==
  /\ WorkerAt("receive", IF mailbox = <<>> THEN "poll" ELSE "take")
  /\ IF mailbox = <<>>
     THEN UNCHANGED <<cmd, mailbox, ingestVars>>
     ELSE /\ cmd' = Head(mailbox) /\ mailbox' = Tail(mailbox)
          /\ active' = FALSE
          /\ Snapshot(0, Head(mailbox))
  /\ UNCHANGED <<frontVars, channelVars, calls, sent, sharedVars, rescue, count, queueVars,
                 panicked, backend>>

Executing(kinds) == wpc = "execute" /\ cmd.kind \in kinds

\* The command is over and its caller resumes with the given outcome.
Answer(ok) ==
  /\ Reply
  /\ wpc' = "poll" /\ cmd' = NoCommand
  /\ failed' = (failed \/ ~ok)

\* The closure of a control call, which does nothing once the recording failed, may also unwind.
ExecuteControl ==
  /\ Executing({"control"})
  /\ \/ /\ \E ok \in BOOLEAN : (failed => ~ok) /\ (~ok => failed \/ MayFail) /\ Answer(ok)
        /\ UNCHANGED <<frontVars, shut, mailbox, sent, closed, rescue, at, quota, count, panicked,
                       backend>>
     \/ MayFail /\ ~failed /\ Abort(TRUE)
  /\ UNCHANGED <<ring, active, queueVars>>

\* Worker::stats reads the list of channels.
ExecuteStats ==
  /\ Executing({"stats"}) /\ rescue # "closing"
  /\ Answer(TRUE)
  /\ UNCHANGED <<frontVars, channelVars, mailbox, sent, closed, rescue, ingestVars, count,
                 queueVars, panicked, backend>>

\* A producer starts at the time the recording has reached.  Its channel joins the list that
\* Shared::stop locks.
Register ==
  /\ Executing({"add"}) /\ ~failed /\ rescue # "closing"
  /\ count' = count + 1
  /\ clock' = [clock EXCEPT ![count] = captured]
  /\ front' = [front EXCEPT ![count] = [state |-> "live", time |-> captured]]
  /\ Answer(TRUE)
  /\ UNCHANGED <<capturing, accepted, channelVars, mailbox, sent, closed, rescue, ingestVars,
                 finished, pending, spilled, memory, sequence, panicked, backend>>

\* Frontend.finished, set when ProducerDone was answered; the implicit producer needs success.
FrontDone(ok) ==
  front' = IF cmd.kind = "done" /\ (ok \/ cmd.from # Owner)
           THEN [front EXCEPT ![cmd.from].state = "finished"] ELSE front

ExecuteDone ==
  /\ Executing({"done"})
  /\ finished' = [finished EXCEPT ![cmd.from] = TRUE]
  /\ IF failed THEN Answer(FALSE) /\ FrontDone(FALSE)
               ELSE wpc' = "settle" /\ UNCHANGED <<cmd, calls, failed, front>>
  /\ UNCHANGED <<capturing, accepted, channelVars, mailbox, sent, closed, rescue, ingestVars, count,
                 clock, pending, spilled, memory, sequence, panicked, backend>>

ExecuteFlush ==
  /\ Executing({"flush"}) /\ ~failed
  /\ wpc' = "settle"
  /\ UNCHANGED <<frontVars, channelVars, callVars, sharedVars, rescue, cmd, ingestVars, count,
                 queueVars, panicked, backend>>

RefuseFailed ==
  /\ Executing({"add", "flush"}) /\ failed
  /\ Answer(FALSE)
  /\ UNCHANGED <<frontVars, channelVars, mailbox, sent, closed, rescue, ingestVars, count,
                 queueVars, panicked, backend>>

Finishes == {"close", "seal", "rescue"}
Unfinished == cmd.kind # "rescue" /\ \E p \in Registered \ {0} : ~finished[p]

Refused == panicked \/ Unfinished \/ (cmd.kind = "close" /\ failed)

\* Command::Finish ends: a rescue stops the worker whatever the outcome.  The statistics kept
\* for the caller read the list of channels, as does the stop.
EndFinish(ok) ==
  /\ failed' = (failed \/ ~ok)
  /\ IF ok \/ cmd.kind = "rescue"
     THEN wpc' = "stopping" /\ closed' = TRUE /\ UNCHANGED <<cmd, calls>>
     ELSE rescue # "closing" /\ wpc' = "poll" /\ cmd' = NoCommand /\ Reply /\ UNCHANGED closed

\* Backend::finish_with; encoding or output may also unwind, and then no reply is sent.
Finalize ==
  \/ /\ sealed' = (IF cmd.kind = "close" THEN "complete" ELSE "incomplete")
     /\ EndFinish(TRUE)
     /\ UNCHANGED <<rescue, panicked>>
  \/ MayFail /\ EndFinish(FALSE) /\ UNCHANGED <<sealed, rescue, panicked>>
  \/ MayFail /\ Abort(TRUE) /\ UNCHANGED closed

ExecuteFinish ==
  /\ Executing(Finishes)
  /\ finished' = IF cmd.kind = "rescue" THEN [p \in Producers |-> finished[p] \/ p \in Registered]
                 ELSE IF Refused THEN finished ELSE [finished EXCEPT ![0] = TRUE]
  /\ \/ Refused /\ EndFinish(FALSE) /\ UNCHANGED <<sealed, rescue, panicked>>
     \/ ~Refused /\ ~failed /\ wpc' = "settle"
        /\ UNCHANGED <<cmd, calls, sharedVars, sealed, rescue, panicked>>
     \/ ~Refused /\ failed /\ Finalize
  /\ quota' = quota
  /\ UNCHANGED <<frontVars, channelVars, mailbox, sent, at, active, count, clock, pending, spilled,
                 memory, sequence, captured, applied>>

\* The drain of a command fails: the command answers with the error.
SettleFails(p) ==
  /\ wpc = "settle"
  /\ Due(p) /\ Dequeue(p)
  /\ \E fate \in Spoils(p) :
       \/ fate = "panic" /\ Abort(TRUE)
       \/ /\ fate = "rejected"
          /\ IF cmd.kind \in Finishes THEN EndFinish(FALSE) /\ UNCHANGED front
             ELSE Answer(FALSE) /\ FrontDone(FALSE) /\ UNCHANGED closed
          /\ UNCHANGED <<capturing, accepted, shut, mailbox, sent, rescue, at, quota, count,
                         panicked, backend>>
  /\ UNCHANGED <<ring, active, clock, finished, sequence>>

SettleEnds ==
  /\ wpc = "settle"
  /\ \A p \in Waiting : ~Due(p)
  /\ \/ /\ cmd.kind \in {"done", "flush"}
        /\ \E ok \in BOOLEAN : (~ok => cmd.kind = "flush" /\ MayFail) /\ Answer(ok) /\ FrontDone(ok)
        /\ UNCHANGED <<capturing, accepted, shut, mailbox, sent, closed, rescue, at, quota, count,
                       panicked, backend>>
     \/ /\ cmd.kind \in Finishes /\ Finalize
        /\ UNCHANGED <<frontVars, shut, mailbox, sent, at, quota, count, captured, applied>>
     \/ cmd.kind = "flush" /\ MayFail /\ Abort(TRUE)
  /\ UNCHANGED <<ring, active, queueVars>>

\* Shared::stop, run by the worker: it waits for a rescuer that holds the list of channels.
StopCloses ==
  /\ wpc = "stopping" /\ rescue # "closing"
  /\ \E p \in Producers : CloseChannel(p)
  /\ UNCHANGED <<frontVars, ring, callVars, sharedVars, rescue, workerVars, backend>>

\* Mutant: the mailbox outlives the worker, so that its last commands are never answered.
ExitKeepingMailbox ==
  /\ wpc' = "exited" /\ cmd' = NoCommand
  /\ Reply
  /\ rescue' = IF cmd.kind # "rescue" THEN rescue
               ELSE IF sealed # "open" THEN "sealed" ELSE "failed"
  /\ UNCHANGED <<frontVars, channelVars, mailbox, sent, closed, ingestVars, count, queueVars,
                 panicked, backend>>

\* The worker's thread ends; commands nobody will receive are dropped with their replies.
Exit ==
  /\ wpc' = "exited" /\ cmd' = NoCommand
  /\ mailbox' = <<>>
  /\ calls' = [c \in Callers |-> "none"]
  /\ rescue' = IF rescue # "waiting" THEN rescue
               ELSE IF cmd.kind = "rescue" /\ sealed # "open" THEN "sealed" ELSE "failed"
  /\ UNCHANGED <<frontVars, channelVars, sent, closed, ingestVars, count, queueVars, panicked,
                 backend>>

StopEnds ==
  /\ wpc = "stopping" /\ rescue # "closing"
  /\ \A p \in Registered : shut[p]
  /\ Exit
  /\ UNCHANGED failed

\* Mutant: the owner's drop fails the recording and leaves the worker polling.
ExecuteShutdownPolling ==
  /\ Executing({"shutdown"})
  /\ failed' = TRUE
  /\ wpc' = "poll" /\ cmd' = NoCommand
  /\ UNCHANGED <<frontVars, channelVars, callVars, closed, rescue, ingestVars, count, queueVars,
                 panicked, backend>>

\* Command::Shutdown.
ExecuteShutdown ==
  /\ Executing({"shutdown"})
  /\ failed' = TRUE
  /\ Exit

Worker ==
  \/ StartRound \/ TakeDiscard \/ TakeDirect \/ TakePush \/ NextInput
  \/ \E p \in Producers : DrainOne(p) \/ MergeFails(p) \/ SettleFails(p)
  \/ MergeEnds \/ PollFails \/ Receive
  \/ ExecuteControl \/ ExecuteStats \/ Register \/ ExecuteDone \/ ExecuteFlush \/ RefuseFailed
  \/ ExecuteFinish
  \/ SettleEnds \/ StopCloses \/ StopEnds \/ ExecuteShutdown

-----------------------------------------------------------------------------
Captures(p) == RefuseCapture(p) \/ \E time \in 0 .. MaxTime, fate \in Fates : Publish(p, time, fate)
RescueSteps == RescueCloses \/ RescueSends

Next ==
  \/ \E p \in Producers : BeginCapture(p) \/ Captures(p) \/ FinishProducer(p)
  \/ \E kind \in Calls : OwnerCall(kind) \/ OwnerFinish(kind)
  \/ OwnerStats \/ DropWriter \/ DropTransport
  \/ BeginRescue \/ RescueSteps
  \/ Worker

Spec == Init /\ [][Next]_vars

\* The worker's loop never stops polling, a capture that was admitted goes on, and so does a
\* rescue or a drop that began.  Nobody is obliged to capture, to call or to rescue.
Fairness ==
  /\ WF_vars(Worker) /\ WF_vars(RescueSteps) /\ WF_vars(DropTransport)
  /\ \A p \in Producers : WF_vars(Captures(p))

FairSpec == Spec /\ Fairness

-----------------------------------------------------------------------------
\* How many captures of p the backend applied.
Held(p) == Cardinality({i \in DOMAIN applied : applied[i][1] = p})

\* Until a failure, every accepted capture is in exactly one place, in order: applied, pending
\* in memory, in the spill file behind it, or still in the channel (transport.rs, Queue).
Conserved ==
  ~failed => \A p \in Producers :
    LET queued == [i \in 1 .. Len(Queue(p)) |-> Queue(p)[i].op] \o ring[p]
    IN /\ Held(p) + Len(queued) = Len(accepted[p])
       /\ \A i \in 1 .. Len(queued) : queued[i].n = Held(p) + i

\* Worker.memory is the size of what is pending in memory, and stays within its limit.
PendingBudget ==
  /\ memory <= PendingLimit
  /\ memory = Total(pending)

\* The worker's checks on timestamps and lifetimes never fire against producers that use the
\* API: no capture arrives after its producer's end or before its promise, whatever the order
\* of commands and captures.
AlwaysLegal ==
  wpc = "take" /\ quota > 0 /\ ~failed /\ count > 1 => Legal(Oldest)

\* The worker implements the ordered merge: what it applies is an ordered merge of what was
\* accepted, and only a recording that never failed is sealed as complete.
Merge == INSTANCE OrderedMerge WITH
  Times    <- 0 .. MaxTime,
  poisoned <- failed

MergeSpec == Merge!Spec

\* A capture that was admitted ends, even when another producer's frontier stalls: ingestion
\* goes on and pending operations spill (docs/RATIONALE.md).
CapturesEnd == \A p \in Producers : capturing[p] ~> ~capturing[p]

\* Every call returns: answered, or told that it failed.
CallsReturn == \A c \in Callers : calls[c] # "none" ~> calls[c] = "none"

\* The drop of the recording's owner joins the worker and ends, whatever was rejected or has
\* failed before; only when a rescue unwound as well may it wait for ever (transport.rs:209
\* drops the owner's Shutdown when a last capture is rejected).
OwnerLeaves == front[Owner].state = "joining" ~> wpc = "exited" \/ (rescue = "failed" /\ panicked)

\* A rescue that began comes to an end.
RescueReturns == rescue = "closing" ~> rescue \in {"sealed", "failed"}

\* docs/TRANSACTIONS.md: "The Rust process guard can independently stop new captures, wake
\* blocked producers, and seal accepted operations while producer handles remain live.  A
\* panicked mutable backend ... retains only a verified file prefix."
RescueSeals == rescue = "closing" ~> sealed # "open" \/ panicked
=============================================================================
