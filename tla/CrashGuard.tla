----------------------------- MODULE CrashGuard -----------------------------
(***************************************************************************)
(* The process crash guard (vtr-guard/src/linux.rs) and the crash state of *)
(* a writer (vtr-rs/src/recording/crash.rs).  Each thread owns one writer  *)
(* and may have the guard watch it.  Signals interrupt a thread at any of  *)
(* its steps: a fatal one waits for a rescue, the park signal stops the    *)
(* thread for good unless it is busy inside its writer, and a stop signal  *)
(* asks for a rescue after a grace period.  The rescue itself, finish_all, *)
(* is run by the guard's thread or by a thread that exits.  Nothing keeps  *)
(* the calls of watch and unwatch of two threads apart.                    *)
(*                                                                         *)
(* Time is not measured: deadlines pass at any moment.                     *)
(***************************************************************************)
EXTENDS Naturals, FiniteSets

CONSTANTS Threads,     \* threads that own a writer
          Workers,     \* VTR's own threads
          Inline,      \* the threads whose writer has no worker to seal it
          SlotCount,   \* SLOTS
          MaxWatches,  \* bound: watches of one thread
          Faulty,      \* bound: the threads of either kind that may crash
          Kinds,       \* bound: the other ends to consider, "stop" and "exit"
          None, Guard, Reserved

ASSUME GuardAssumption ==
  /\ Inline \subseteq Threads
  /\ SlotCount \in Nat \ {0} /\ MaxWatches \in Nat
  /\ Faulty \subseteq Threads \cup Workers /\ Kinds \subseteq {"stop", "exit"}
  /\ Threads \cap Workers = {} /\ {None, Guard, Reserved} \cap (Threads \cup Workers) = {}

Slots == 1 .. SlotCount

\* A Box<Slot>: the n-th one that thread `writer` allocated.
Boxes == [writer : Threads, n : 1 .. MaxWatches]

VARIABLES
  state,      \* STATE: "idle", "rescuing" or "done"
  tid,        \* TID: the crashed thread, once it is announced
  stop,       \* STOP_SIG # 0
  stopAt,     \* STOP_AT_MS # 0
  due,        \* the grace period has passed, or STOP_ESCALATE or STOP_UNWATCHED is set
  event,      \* the eventfd is readable
  watched,    \* WATCHED: None (null), Reserved or a box
  owner, states, parked,   \* OWNER, STATES and PARKED
  busy, poisoned, request, \* CrashState.busy, .poisoned and .park
  pc,         \* what a thread's own code is doing
  mode,       \* whether it runs, or a handler holds it
  at, seen,   \* the slot and the box a thread handles in watch or unwatch
  count,      \* boxes a thread allocated
  covered,    \* watch has returned and unwatch was not called
  pending,    \* the park signal is on its way to a thread
  freed,      \* boxes that were freed
  guard,      \* rescue_main: control point
  timeout,    \* rescue_main: what its poll waits for besides the eventfd
  rescuer,    \* finish_all: who runs it
  stopped,    \* finish_all: its parameter
  step, slot, \* finish_all: control point and slot
  claimed,    \* finish_all: slots
  target,     \* finish_all: the owner it signals
  waiting,    \* finish_all: waiting
  ended,      \* how a rescue left a writer: "open", "finished", "sealed" or "failed"
  exited,     \* a thread has called exit: a second call is undefined
  over        \* the process has ended

stopVars   == <<stop, stopAt, due>>
slotVars   == <<watched, owner, states, parked>>
crashVars  == <<busy, poisoned, request>>
threadVars == <<pc, at, seen, count, covered>>
guardVars  == <<guard, timeout>>
rescueVars == <<rescuer, stopped, step, slot, claimed, target, waiting, ended>>
\* What a thread's own code, the guard's thread, a signal handler and finish_all leave alone.
outside == <<state, tid, stopVars, event, pending, guardVars, rescueVars, exited, over>>
callers == <<slotVars, crashVars, threadVars, mode, pending, freed>>
program == <<slotVars, crashVars, threadVars, freed, guardVars, rescueVars, exited>>
others  == <<state, tid, stopVars, event, owner, states, parked, poisoned, threadVars, mode, freed,
             guardVars, rescuer, stopped, exited, over>>
vars == <<state, tid, stopVars, event, slotVars, crashVars, threadVars, mode, pending, freed,
          guardVars, rescueVars, exited, over>>

NoBox == [writer |-> None, n |-> 0]

\* RESERVED is an address that no box has.
ASSUME SentinelAssumption == None # Guard /\ Reserved \notin Boxes \cup {NoBox}

Init ==
  /\ state = "idle" /\ tid = None
  /\ stop = FALSE /\ stopAt = FALSE /\ due = FALSE
  /\ event = FALSE
  /\ watched = [i \in Slots |-> NoBox]
  /\ owner = [i \in Slots |-> None] /\ states = [i \in Slots |-> None]
  /\ parked = [i \in Slots |-> FALSE]
  /\ busy = [t \in Threads |-> FALSE] /\ poisoned = [t \in Threads |-> FALSE]
  /\ request = [t \in Threads |-> FALSE]
  /\ pc = [t \in Threads |-> "out"] /\ mode = [t \in Threads \cup Workers |-> "runs"]
  /\ at = [t \in Threads |-> 1] /\ seen = [t \in Threads |-> NoBox]
  /\ count = [t \in Threads |-> 0] /\ covered = [t \in Threads |-> FALSE]
  /\ pending = [t \in Threads |-> FALSE]
  /\ freed = {}
  /\ guard = "loop" /\ timeout = "never"
  /\ rescuer = None /\ stopped = None /\ step = "none" /\ slot = 1
  /\ claimed = [i \in Slots |-> NoBox] /\ target = None /\ waiting = {}
  /\ ended = [t \in Threads |-> "open"]
  /\ exited = FALSE /\ over = FALSE

-----------------------------------------------------------------------------
(* A thread's own code. *)

Runs(t) == mode[t] = "runs"
Go(t, from, to) == Runs(t) /\ pc[t] = from /\ pc' = [pc EXCEPT ![t] = to]

\* park_here: the thread stops for good, wherever it is.
ParkHere(t) ==
  /\ mode' = [mode EXCEPT ![t] = "parked"]
  /\ parked' = [i \in Slots |-> parked[i] \/ owner[i] = t]

\* CrashState::enter and the capture's work outside the channel, user code included.  A writer
\* that is not watched is out of the guard's reach: its captures are left out.
BeginCapture(t) ==
  /\ Go(t, "out", "capture")
  /\ covered[t] /\ ~poisoned[t]
  /\ busy' = [busy EXCEPT ![t] = TRUE]
  /\ UNCHANGED <<outside, slotVars, poisoned, request, at, seen, count, covered, mode, freed>>

\* The channel is closed: the rescue has finished the writer, or waits to seal it.
Victim == claimed[slot].writer
Shut(t) == ended[t] # "open" \/ (step = "seal" /\ Victim = t)

\* Between Channel::enter and the drop of Publication: `active` is raised.
InChannel(t) ==
  /\ t \notin Inline
  /\ (Go(t, "capture", "publish") /\ ~Shut(t)) \/ Go(t, "publish", "capture")
  /\ UNCHANGED <<outside, slotVars, crashVars, at, seen, count, covered, mode, freed>>

\* Scoped::drop and Guarded::drop: CrashState::leave ...
Leave(t) ==
  /\ Go(t, "capture", "left")
  /\ busy' = [busy EXCEPT ![t] = FALSE]
  /\ UNCHANGED <<outside, slotVars, poisoned, request, at, seen, count, covered, mode, freed>>

\* ... which then obeys a request to park ...
LeaveParks(t) ==
  /\ Go(t, "left", "out")
  /\ IF request[t] THEN ParkHere(t) ELSE UNCHANGED <<mode, parked>>
  /\ UNCHANGED <<outside, crashVars, watched, owner, states, at, seen, count, covered, freed>>

\* ... or poison, when the capture unwinds.
Unwind(t) ==
  /\ Go(t, "capture", "out")
  /\ poisoned' = [poisoned EXCEPT ![t] = TRUE]
  /\ UNCHANGED <<outside, slotVars, busy, request, at, seen, count, covered, mode, freed>>

\* The loops of watch and unwatch over the slots.
NextSlot(t, loop) ==
  IF at[t] < SlotCount THEN Go(t, pc[t], loop) /\ at' = [at EXCEPT ![t] = @ + 1]
                       ELSE Go(t, pc[t], "out") /\ at' = [at EXCEPT ![t] = 1]

Watch(t) ==
  /\ Go(t, "out", "check")
  /\ ~covered[t] /\ count[t] < MaxWatches
  /\ UNCHANGED <<outside, slotVars, crashVars, at, seen, count, covered, mode, freed>>

\* watch is refused once a rescue began.
CheckState(t) ==
  /\ Go(t, "check", IF state = "idle" THEN "reserve" ELSE "out")
  /\ UNCHANGED <<outside, slotVars, crashVars, at, seen, count, covered, mode, freed>>

\* The compare_exchange of null by RESERVED, slot by slot.  It may miss one that is freed behind it.
Reserve(t) ==
  /\ IF watched[at[t]] = NoBox
     THEN /\ Go(t, "reserve", "own") /\ UNCHANGED at
          /\ watched' = [watched EXCEPT ![at[t]] = Reserved]
     ELSE pc[t] = "reserve" /\ NextSlot(t, "reserve") /\ UNCHANGED watched
  /\ UNCHANGED <<outside, crashVars, owner, states, parked, seen, count, covered, mode, freed>>

\* OWNER and PARKED: nobody else reads PARKED before the slot is published.
StoreOwner(t) ==
  /\ Go(t, "own", "state")
  /\ owner' = [owner EXCEPT ![at[t]] = t]
  /\ parked' = [parked EXCEPT ![at[t]] = FALSE]
  /\ UNCHANGED <<outside, crashVars, watched, states, at, seen, count, covered, mode, freed>>

StoreState(t) ==
  /\ Go(t, "state", "show")
  /\ count' = [count EXCEPT ![t] = @ + 1]
  /\ states' = [states EXCEPT ![at[t]] = t]
  /\ UNCHANGED <<outside, crashVars, watched, owner, parked, at, seen, covered, mode, freed>>

StoreWatched(t) ==
  /\ Go(t, "show", "recheck")
  /\ watched' = [watched EXCEPT ![at[t]] = [writer |-> t, n |-> count[t]]]
  /\ UNCHANGED <<outside, crashVars, owner, states, parked, at, seen, count, covered, mode, freed>>

\* Mutant: watch does not look again.
RecheckNothing(t) ==
  /\ Go(t, "recheck", "out")
  /\ covered' = [covered EXCEPT ![t] = TRUE]
  /\ at' = [at EXCEPT ![t] = 1]
  /\ UNCHANGED <<outside, slotVars, crashVars, seen, count, mode, freed>>

\* A rescue that began meanwhile may have passed this slot: the thread must not go on.
Recheck(t) ==
  /\ Go(t, "recheck", "out")
  /\ IF state # "idle" THEN ParkHere(t) /\ UNCHANGED covered
     ELSE covered' = [covered EXCEPT ![t] = TRUE] /\ UNCHANGED <<mode, parked>>
  /\ at' = [at EXCEPT ![t] = 1]
  /\ UNCHANGED <<outside, crashVars, watched, owner, states, seen, count, freed>>

Unwatch(t) ==
  /\ Go(t, "out", "scan")
  /\ covered[t] /\ covered' = [covered EXCEPT ![t] = FALSE]
  /\ UNCHANGED <<outside, slotVars, crashVars, at, seen, count, mode, freed>>

\* A slot of this thread that a rescue has claimed is not the thread's to free.
Scan(t) ==
  LET here == watched[at[t]]
  IN /\ pc[t] = "scan" /\ Runs(t)
     /\ IF here = Reserved /\ owner[at[t]] = t /\ state # "idle"
        THEN ParkHere(t) /\ UNCHANGED <<pc, at, seen>>
        ELSE /\ UNCHANGED <<mode, parked>>
             /\ IF here \in {NoBox, Reserved} THEN NextSlot(t, "scan") /\ UNCHANGED seen
                ELSE Go(t, "scan", "compare") /\ seen' = [seen EXCEPT ![t] = here] /\ UNCHANGED at
  /\ UNCHANGED <<outside, crashVars, watched, owner, states, count, covered, freed>>

\* (*p).writer: a box that its owner frees in the meantime may hold anything by now.
IsMine(t, box) == IF box \in freed THEN BOOLEAN ELSE {box.writer = t}

PutDown(t) == seen' = [seen EXCEPT ![t] = NoBox]

\* Mutant: the slot is cleared whatever it holds by now.
CompareAndTakeAnyway(t) ==
  /\ pc[t] = "compare" /\ Runs(t)
  /\ \E mine \in IsMine(t, seen[t]) :
       \/ ~mine /\ NextSlot(t, "scan") /\ PutDown(t) /\ UNCHANGED watched
       \/ mine /\ Go(t, "compare", "forget") /\ UNCHANGED <<at, seen>>
          /\ watched' = [watched EXCEPT ![at[t]] = NoBox]
  /\ UNCHANGED <<outside, crashVars, owner, states, parked, count, covered, mode, freed>>

\* The owner takes its box back unless a rescue has it.
CompareAndTake(t) ==
  /\ pc[t] = "compare" /\ Runs(t)
  /\ \E mine \in IsMine(t, seen[t]) :
       IF mine /\ watched[at[t]] = seen[t]
       THEN /\ Go(t, "compare", "forget")
            /\ watched' = [watched EXCEPT ![at[t]] = NoBox]
            /\ UNCHANGED <<at, seen, mode, parked>>
       ELSE /\ UNCHANGED watched
            /\ IF mine /\ state # "idle"
               THEN ParkHere(t) /\ UNCHANGED <<pc, at, seen>>
               ELSE NextSlot(t, "scan") /\ PutDown(t) /\ UNCHANGED <<mode, parked>>
  /\ UNCHANGED <<outside, crashVars, owner, states, count, covered, freed>>

ForgetState(t) ==
  /\ Go(t, "forget", "disown")
  /\ states' = [states EXCEPT ![at[t]] = None]
  /\ UNCHANGED <<outside, crashVars, watched, owner, parked, at, seen, count, covered, mode, freed>>

ForgetOwner(t) ==
  /\ Go(t, "disown", "free")
  /\ owner' = [owner EXCEPT ![at[t]] = None]
  /\ UNCHANGED <<outside, crashVars, watched, states, parked, at, seen, count, covered, mode,
                 freed>>

FreeBox(t) ==
  /\ pc[t] = "free" /\ Runs(t) /\ NextSlot(t, "scan")
  /\ freed' = freed \cup {seen[t]} /\ PutDown(t)
  /\ UNCHANGED <<outside, slotVars, crashVars, count, covered, mode>>

-----------------------------------------------------------------------------
(* Signal handlers. *)

\* on_fatal: the first crash asks for a rescue, a later one waits for the end.
OnFatal(t) ==
  /\ t \in Faulty
  /\ mode[t] \in {"runs", "exits"}
  /\ IF state = "idle"
     THEN state' = "rescuing" /\ mode' = [mode EXCEPT ![t] = "crashed"]
     ELSE UNCHANGED state /\ mode' = [mode EXCEPT ![t] = "paused"]
  /\ UNCHANGED <<program, stopVars, tid, event, pending, over>>

AnnounceCrash(t) ==
  /\ mode[t] = "crashed" /\ mode' = [mode EXCEPT ![t] = "waits"]
  /\ tid' = t /\ event' = TRUE
  /\ UNCHANGED <<program, stopVars, state, pending, over>>

\* The rescue is done or has missed its deadline: the signal takes its default effect.
EndCrash(t) ==
  /\ mode[t] = "waits"
  /\ over' = TRUE
  /\ UNCHANGED <<program, stopVars, state, tid, event, mode, pending>>

\* on_stop: the compare_exchange of STOP_SIG, then its stores and the wake-up.  A second signal
\* does not wait for the grace period.
OnStop ==
  /\ "stop" \in Kinds
  /\ \/ ~stop /\ stop' = TRUE /\ UNCHANGED <<due, event>>
     \/ stop /\ due' = TRUE /\ event' = TRUE /\ UNCHANGED stop
  /\ UNCHANGED <<program, state, tid, stopAt, mode, pending, over>>

AnyWatched == \E i \in Slots : watched[i] # NoBox

AnnounceStop ==
  /\ stop /\ ~stopAt
  /\ due' = (due \/ ~AnyWatched)
  /\ stopAt' = TRUE /\ event' = TRUE
  /\ UNCHANGED <<program, state, tid, stop, mode, pending, over>>

GracePasses ==
  /\ stopAt /\ ~due /\ due' = TRUE
  /\ UNCHANGED <<program, state, tid, stop, stopAt, event, mode, pending, over>>

\* on_park: a thread busy in a writer of its own goes on, and parks when it leaves.
OnPark(t) ==
  /\ mode[t] \in {"runs", "exits"}
  /\ pending[t] /\ pending' = [pending EXCEPT ![t] = FALSE]
  /\ IF \E i \in Slots : /\ owner[i] = t /\ states[i] # None
                         /\ busy[states[i]] /\ ~poisoned[states[i]]
     THEN UNCHANGED <<mode, parked>>
     ELSE ParkHere(t)
  /\ UNCHANGED <<rescueVars, threadVars, stopVars, crashVars, guardVars, state, tid, event,
                 watched, owner, states, freed, exited, over>>

-----------------------------------------------------------------------------
(* finish_all, run by the guard's thread or by a thread that exits. *)

\* The start of finish_all(end, who), where `who` is the thread known to have stopped.
Start(by, who) ==
  /\ rescuer' = by /\ stopped' = who
  /\ step' = "claim" /\ slot' = 1
  /\ claimed' = [i \in Slots |-> NoBox] /\ waiting' = {}
  /\ UNCHANGED <<target, ended>>

\* A rescuer that itself crashed does not go on.
Finishing(now) == step = now /\ rescuer \in {Guard} \cup {t \in Threads : mode[t] = "exits"}

\* The next slot, or the next part of finish_all.
Advance(loop, after) ==
  IF slot < SlotCount THEN step' = loop /\ slot' = slot + 1 ELSE step' = after /\ slot' = 1

Claim ==
  /\ Finishing("claim")
  /\ Advance("claim", "ask")
  /\ IF watched[slot] \in {NoBox, Reserved} THEN UNCHANGED <<watched, claimed>>
     ELSE /\ claimed' = [claimed EXCEPT ![slot] = watched[slot]]
          /\ watched' = [watched EXCEPT ![slot] = Reserved]
  /\ UNCHANGED <<others, busy, request, pending, target, waiting, ended>>

Claimed == claimed[slot] # NoBox

\* Mutant: the owner gets a signal only.
AskBySignal ==
  /\ Finishing("ask")
  /\ target' = owner[slot]
  /\ IF ~Claimed \/ owner[slot] \in {None, stopped, rescuer} THEN Advance("ask", "wait")
     ELSE step' = "signal" /\ UNCHANGED slot
  /\ UNCHANGED <<others, watched, busy, request, pending, claimed, waiting, ended>>

\* request_park comes before the signal: a busy thread will see it when it leaves.
Ask ==
  /\ Finishing("ask")
  /\ target' = owner[slot]
  /\ IF ~Claimed \/ owner[slot] \in {None, stopped, rescuer}
     THEN Advance("ask", "wait") /\ UNCHANGED request
     ELSE /\ step' = "signal" /\ UNCHANGED slot
          /\ request' = [request EXCEPT ![Victim] = TRUE]
  /\ UNCHANGED <<others, watched, busy, pending, claimed, waiting, ended>>

Signal ==
  /\ Finishing("signal")
  /\ Advance("ask", "wait")
  /\ pending' = [pending EXCEPT ![target] = TRUE]
  /\ waiting' = waiting \cup {slot}
  /\ UNCHANGED <<others, watched, busy, request, claimed, target, ended>>

\* Every thread asked has parked, or a quarter of the deadline has passed.
EndWait ==
  /\ Finishing("wait")
  /\ step' = "decide"
  /\ UNCHANGED <<others, watched, busy, request, pending, slot, claimed, target, waiting, ended>>

StoppedHere == owner[slot] \in {stopped, rescuer} \/ parked[slot]
Busy(t) == busy[t] \/ poisoned[t]

\* Mutant: a stopped owner is enough, whatever it was doing.
DecideWhileBusy ==
  /\ Finishing("decide")
  /\ IF ~Claimed THEN Advance("decide", "end") /\ UNCHANGED request
     ELSE /\ step' = (IF StoppedHere THEN "close" ELSE "seal") /\ UNCHANGED slot
          /\ request' = IF StoppedHere THEN [request EXCEPT ![Victim] = FALSE] ELSE request
  /\ UNCHANGED <<others, watched, busy, pending, claimed, target, waiting, ended>>

\* Mutant: the park request outlives the parking.
DecideKeepingRequest ==
  /\ Finishing("decide")
  /\ IF ~Claimed THEN Advance("decide", "end")
     ELSE /\ step' = (IF StoppedHere /\ ~Busy(Victim) THEN "close" ELSE "seal") /\ UNCHANGED slot
  /\ UNCHANGED <<others, watched, busy, request, pending, claimed, target, waiting, ended>>

\* An idle writer whose owner has stopped is closed through its frontend, any other one is
\* sealed independently.
Decide ==
  /\ Finishing("decide")
  /\ IF ~Claimed THEN Advance("decide", "end") /\ UNCHANGED request
     ELSE LET alone == StoppedHere /\ ~Busy(Victim)
          IN /\ step' = (IF alone THEN "close" ELSE "seal") /\ UNCHANGED slot
             /\ request' = IF alone THEN [request EXCEPT ![Victim] = FALSE] ELSE request
  /\ UNCHANGED <<others, watched, busy, pending, claimed, target, waiting, ended>>

\* Writer::close_with enters the crash state like any capture ...
Close ==
  /\ Finishing("close")
  /\ step' = "closing"
  /\ busy' = [busy EXCEPT ![Victim] = TRUE]
  /\ UNCHANGED <<others, watched, request, pending, slot, claimed, target, waiting, ended>>

\* ... and leaves it: a request that is still there parks the rescuer.
Outcome(how) == ended' = [ended EXCEPT ![Victim] = IF @ = "open" THEN how ELSE @]

EndClose ==
  /\ Finishing("closing")
  /\ busy' = [busy EXCEPT ![Victim] = FALSE]
  /\ IF request[Victim] THEN step' = "parked" /\ UNCHANGED <<slot, ended>>
     ELSE Advance("decide", "end") /\ Outcome("finished")
  /\ UNCHANGED <<others, watched, request, pending, claimed, target, waiting>>

\* Sealer::seal: the channel is closed, and a publication in progress is waited for (Transport
\* models the rest).
Seal ==
  /\ Finishing("seal")
  /\ pc[Victim] # "publish"
  /\ Advance("decide", "end")
  /\ Outcome(IF Victim \in Inline THEN "failed" ELSE "sealed")
  /\ UNCHANGED <<others, watched, busy, request, pending, claimed, target, waiting>>

\* The rescue returns: to crash_rescue, to stop_rescue, which raises the signal again, or to
\* at_exit, after which other handlers of the exit may run.
EndFinish ==
  /\ Finishing("end")
  /\ step' = "none" /\ rescuer' = None
  /\ state' = IF rescuer # Guard THEN "idle" ELSE IF guard = "crash" THEN "done" ELSE state
  /\ over' = (guard = "stop" /\ rescuer = Guard)
  /\ UNCHANGED <<callers, stopVars, guardVars, tid, event, stopped, slot, claimed, target,
                 waiting, ended, exited>>

FinishAll == \/ Claim \/ Ask \/ Signal \/ EndWait \/ Decide \/ Close \/ EndClose \/ Seal
             \/ EndFinish

-----------------------------------------------------------------------------
(* rescue_main and at_exit. *)

\* A stop whose time is not stored yet seems to have been long ago.
Sleep ==
  /\ guard = "loop" /\ guard' = "poll"
  /\ timeout' = IF ~stop THEN "never" ELSE IF stopAt /\ ~due THEN "grace" ELSE "now"
  /\ UNCHANGED <<callers, rescueVars, stopVars, state, tid, event, exited, over>>

Wake ==
  /\ guard = "poll" /\ guard' = "look"
  /\ event \/ timeout = "now" \/ (timeout = "grace" /\ due)
  /\ event' = FALSE /\ timeout' = "never"
  /\ UNCHANGED <<callers, rescueVars, stopVars, state, tid, exited, over>>

\* A crash on a thread of VTR's own is not rescued.
LookForCrash ==
  /\ guard = "look"
  /\ IF state = "rescuing" /\ tid # None
     THEN /\ guard' = "crash"
          /\ IF tid \in Workers THEN state' = "done" /\ UNCHANGED rescueVars
                                ELSE Start(Guard, tid) /\ UNCHANGED state
     ELSE guard' = "stops" /\ UNCHANGED <<state, rescueVars>>
  /\ UNCHANGED <<callers, stopVars, tid, event, timeout, exited, over>>

StopDue == stop /\ (~stopAt \/ due)

\* stop_rescue; a rescue already under way ends with the process.
LookForStop ==
  /\ guard = "stops"
  /\ IF ~StopDue THEN guard' = "loop" /\ UNCHANGED <<state, rescueVars, exited, over>>
     ELSE /\ guard' = "stop"
          /\ IF state = "idle" THEN state' = "rescuing" /\ Start(Guard, None) /\ UNCHANGED over
                               ELSE over' = TRUE /\ UNCHANGED <<state, rescueVars>>
  /\ UNCHANGED <<callers, stopVars, tid, event, timeout, exited>>

RescueMain == Sleep \/ Wake \/ LookForCrash \/ LookForStop

\* exit(), from the program's code or from user code inside a capture.
Exit(t) ==
  /\ "exit" \in Kinds
  /\ ~exited /\ exited' = TRUE
  /\ Runs(t) /\ pc[t] \in {"out", "capture"}
  /\ mode' = [mode EXCEPT ![t] = "exits"]
  /\ IF AnyWatched /\ state = "idle"
     THEN state' = "rescuing" /\ Start(t, t)
     ELSE UNCHANGED <<state, rescueVars>>
  /\ UNCHANGED <<threadVars, slotVars, stopVars, crashVars, guardVars, tid, event, pending,
                 freed, over>>

EndExit(t) ==
  /\ mode[t] = "exits" /\ rescuer # t
  /\ over' = TRUE
  /\ UNCHANGED <<program, stopVars, state, tid, event, mode, pending>>

-----------------------------------------------------------------------------
\* A capture, or a call of the guard, that began.
Proceed(t) ==
  \/ InChannel(t) \/ Leave(t) \/ LeaveParks(t)
  \/ CheckState(t) \/ Reserve(t) \/ StoreOwner(t) \/ StoreState(t) \/ StoreWatched(t) \/ Recheck(t)
  \/ Scan(t) \/ CompareAndTake(t) \/ ForgetState(t) \/ ForgetOwner(t) \/ FreeBox(t)

Handlers(t) == AnnounceCrash(t) \/ EndCrash(t)

Next ==
  /\ ~over
  /\ \/ \E t \in Threads : \/ BeginCapture(t) \/ Unwind(t) \/ Watch(t) \/ Unwatch(t) \/ Exit(t)
                           \/ Proceed(t) \/ OnPark(t) \/ EndExit(t)
     \/ \E t \in Threads \cup Workers : OnFatal(t) \/ Handlers(t)
     \/ OnStop \/ AnnounceStop \/ GracePasses
     \/ RescueMain \/ FinishAll

Spec == Init /\ [][Next]_vars

\* Handlers, the guard's thread, a rescue and an exit that began keep running, the park signal is
\* delivered, time passes, and a capture ends.  Nobody is obliged to capture, crash or stop.
Fairness ==
  /\ WF_vars(~over /\ RescueMain) /\ WF_vars(~over /\ FinishAll)
  /\ WF_vars(~over /\ (AnnounceStop \/ GracePasses))
  /\ \A t \in Threads : /\ WF_vars(~over /\ (Proceed(t) \/ Handlers(t) \/ EndExit(t)))
                        /\ SF_vars(~over /\ Leave(t)) /\ WF_vars(~over /\ OnPark(t))
  /\ \A w \in Workers : WF_vars(~over /\ Handlers(w))

FairSpec == Spec /\ Fairness

-----------------------------------------------------------------------------
\* A writer that the rescue closes through its frontend is not in use by its owner, which is
\* stopped outside of any capture, and never uses it again (linux.rs: "The owner is stopped and
\* the crash state is idle, giving rescue exclusive access").
Away(t) == ~Runs(t) /\ pc[t] \notin {"capture", "publish"}
Closes(t) == ended[t] = "finished" \/ (step = "closing" /\ Victim = t)
ExclusiveRescue == \A t \in Threads : Closes(t) => Away(t)

\* The slot that holds a box of t names another owner, or none: the unwatch of the thread that had
\* the slot before clears OWNER and STATES after it gave the slot back.
BoxIn(i) == IF claimed[i] # NoBox THEN claimed[i] ELSE watched[i]
Held(i, t) == BoxIn(i) \in Boxes /\ BoxIn(i).writer = t
Disowned(t) == \E i \in Slots : Held(i, t) /\ owner[i] # t
Stateless(t) == \E i \in Slots : Held(i, t) /\ states[i] # t

\* That is the only way to lose the exclusive access, and only a stop gets it wrong: a rescue for a
\* crash or an exit closes no writer of a thread that goes on, whatever watch and unwatch overlap.
ExclusiveUnlessDisowned ==
  \A t \in Threads : Closes(t) => Away(t) \/ (guard = "stop" /\ Disowned(t))

\* A rescue looks into no box that was freed, a thread takes its own box back only before it was
\* freed, and frees it once, when no rescue has it (linux.rs: "Claiming the slot prevents unwatch
\* from freeing it", "The successful compare_exchange claims the Box allocated by watch exactly
\* once").
NoFreedBox ==
  /\ \A i \in Slots : claimed[i] \notin freed /\ watched[i] \notin freed
  /\ \A t \in Threads :
       \/ pc[t] = "compare" /\ seen[t].writer = t
       \/ pc[t] \in {"forget", "disown", "free"}
       => seen[t] \notin freed
  /\ \A t \in Threads : pc[t] \in {"forget", "disown", "free"} =>
       \A i \in Slots : seen[t] \notin {watched[i], claimed[i]}

\* A scan of unwatch looks into no box that was freed (linux.rs: "Only the owner removes and frees a
\* slot; rescue retains claimed slots until exit").  The code does not keep this for the boxes of
\* other threads: NoFreedBox says that what a scan loads is not freed when it loads it, and the
\* box may be freed before it looks.
ScansLiveBoxes == \A t \in Threads : pc[t] = "compare" => seen[t] \notin freed

\* When a crash was rescued in time, no thread is left that believes its writer to be watched
\* while the rescue passed it over.
NobodyMissed ==
  state = "done" /\ tid \in Threads =>
    \A t \in Threads : covered[t] => ended[t] # "open"

\* A thread that a rescue asked to stop and signalled begins no further capture: it parks in the
\* handler or, if that found it busy, on leaving the capture (linux.rs: request_park comes before
\* the signal, and leave clears `busy` before it looks for the request).  The request of a thread
\* whose slot lost its owner may be taken back by a stop.
Asked(t) == \E i \in waiting : claimed[i].writer = t
Released(t) == guard = "stop" /\ Disowned(t)
AskedThreadStops ==
  [][\A t \in Threads :
       Asked(t) /\ ~pending[t] /\ ~Released(t) => ~(pc[t] = "out" /\ pc'[t] = "capture")]_vars

\* A rescue ends with the process, and so does a stop (linux.rs: finish_all clears the park request
\* before close_with, and close waits only for publications that go on).  The exception is a thread
\* whose slot lost its owner or state, so that the park signal stopped it inside a publication.  No
\* thread crashes on the way: one that crashes during a rescue, inside a publication or in its own
\* at_exit, holds it up.
Stuck(t) == mode[t] = "parked" /\ pc[t] = "publish" /\ (Disowned(t) \/ Stateless(t))
RescueEnds == state = "rescuing" \/ stopAt ~> over \/ \E t \in Threads : Stuck(t)
=============================================================================
