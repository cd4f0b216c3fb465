--------------------------- MODULE TransportProofs --------------------------
(***************************************************************************)
(* The threaded recorder, for any number of producers and captures, any    *)
(* memory, ring size and calls, and any faults: the worker's legality      *)
(* checks never fire, nothing is lost, the memory charge is right, and the *)
(* recording is an ordered merge of what was accepted.                     *)
(***************************************************************************)
EXTENDS Transport, DataLemmas

Ops == [from : Producers, n : Nat, stamp : Nat, progress : BOOLEAN, fate : Fates]
Entries == [op : Ops, sequence : Nat]
CommandKinds == {"none", "add", "done", "flush", "control", "stats", "close", "seal", "rescue",
                 "shutdown"}
Commands == [kind : CommandKinds, from : Callers]

Types ==
  /\ front \in [Producers ->
                  [state : {"absent", "live", "finished", "dropping", "joining"}, time : Nat]]
  /\ capturing \in [Producers -> BOOLEAN] /\ accepted \in [Producers -> Seq(Nat)]
  /\ ring \in [Producers -> Seq(Ops)] /\ shut \in [Producers -> BOOLEAN]
  /\ mailbox \in Seq(Commands) /\ calls \in [Callers -> CommandKinds]
  /\ closed \in BOOLEAN /\ failed \in BOOLEAN
  /\ rescue \in {"none", "refused", "closing", "waiting", "sealed", "failed"}
  /\ wpc \in {"poll", "take", "merge", "receive", "execute", "settle", "stopping", "exited"}
  /\ cmd \in Commands
  /\ at \in Nat /\ quota \in Nat /\ active \in BOOLEAN
  /\ count \in 1 .. LastProducer + 1
  /\ clock \in [Producers -> Nat] /\ finished \in [Producers -> BOOLEAN]
  /\ pending \in [Producers -> Seq(Entries)] /\ spilled \in [Producers -> Seq(Entries)]
  /\ memory \in Nat /\ sequence \in Nat
  /\ captured \in Nat /\ applied \in Seq(Producers \X Nat)
  /\ sealed \in {"open", "complete", "incomplete"}

(***************************************************************************)
(* Captures.                                                               *)
(***************************************************************************)
\* What a producer captured is in the order of its time.
Sorted ==
  \A p \in Producers : \A i \in 1 .. Len(accepted[p]) :
    /\ accepted[p][i] <= front[p].time
    /\ \A j \in 1 .. Len(accepted[p]) : i <= j => accepted[p][i] <= accepted[p][j]

\* What is in the recording was captured, and not later than the recording says.
Merged ==
  \A i \in 1 .. Len(applied) :
    /\ applied[i][2] \in 1 .. Len(accepted[applied[i][1]])
    /\ accepted[applied[i][1]][applied[i][2]] <= captured

\* The operations of s are the captures of p that follow the first `before` ones.
Follows(s, before, p) ==
  \A i \in 1 .. Len(s) : /\ s[i].from = p /\ s[i].n = before + i
                         /\ before + i \in 1 .. Len(accepted[p])
                         /\ s[i].stamp = accepted[p][before + i]
FollowsIn(s, before, p) ==
  \A i \in 1 .. Len(s) : /\ s[i].op.from = p /\ s[i].op.n = before + i
                         /\ before + i \in 1 .. Len(accepted[p])
                         /\ s[i].op.stamp = accepted[p][before + i]

\* Every capture of p is in one place, in order: applied, in memory, spilled, or in the channel.
Placed(p) ==
  /\ FollowsIn(pending[p], Held(p), p)
  /\ FollowsIn(spilled[p], Held(p) + Len(pending[p]), p)
  /\ Follows(ring[p], Held(p) + Len(pending[p]) + Len(spilled[p]), p)
  /\ Held(p) + Len(pending[p]) + Len(spilled[p]) + Len(ring[p]) = Len(accepted[p])

InQueue(p, e) ==
  \/ \E i \in 1 .. Len(pending[p]) : pending[p][i] = e
  \/ \E i \in 1 .. Len(spilled[p]) : spilled[p][i] = e

\* Nothing that is still to come is older than the recording: not what is queued, and not what a
\* producer that may still capture has promised.
Frontier ==
  \A p \in Registered :
    /\ \A i \in 1 .. Len(ring[p]) : clock[p] <= ring[p][i].stamp
    /\ clock[p] <= front[p].time
    /\ ~finished[p] => captured <= clock[p]
    /\ finished[p] => ring[p] = << >>
    /\ \A e \in Entries : InQueue(p, e) => captured <= e.op.stamp

Conveyed == ~failed => Frontier /\ \A p \in Producers : Placed(p)

\* A producer that was not registered yet has left no trace; one producer alone has no queue.
Blank ==
  /\ \A p \in Producers :
       p >= count => /\ front[p].state = "absent" /\ ~capturing[p] /\ accepted[p] = << >>
                     /\ ring[p] = << >> /\ ~finished[p]
  /\ \A p \in Producers :
       p >= count \/ count = 1 => pending[p] = << >> /\ spilled[p] = << >>

Sequenced ==
  /\ \A p \in Producers, e \in Entries : InQueue(p, e) => e.sequence < sequence
  /\ \A p, q \in Producers, e, f \in Entries :
       InQueue(p, e) /\ InQueue(q, f) /\ e.sequence = f.sequence => p = q

Budget ==
  /\ memory <= PendingLimit
  /\ IsFiniteSet(Places(pending)) /\ memory = Total(pending)

(***************************************************************************)
(* Commands.                                                               *)
(***************************************************************************)
\* A command on its way to the worker, or in its hand, holds its caller.
Outstanding ==
  /\ \A i \in 1 .. Len(mailbox) :
       /\ mailbox[i].kind # "none"
       /\ mailbox[i].kind # "shutdown" => /\ calls[mailbox[i].from] = mailbox[i].kind
                                          /\ cmd.from = mailbox[i].from =>
                                               cmd.kind \in {"none", "shutdown"}
  /\ \A i, j \in 1 .. Len(mailbox) :
       /\ mailbox[i].from = mailbox[j].from /\ i # j
       => mailbox[i].kind = "shutdown" \/ mailbox[j].kind = "shutdown"
  /\ cmd.kind \notin {"none", "shutdown"} => calls[cmd.from] = cmd.kind

\* Who makes which call, and what it waits for.
CallsMade ==
  /\ \A c \in Callers : calls[c] \in {"add", "flush", "control", "stats", "close", "seal"} => c = Owner
  /\ \A c \in Callers : calls[c] = "done" => c \in Producers /\ front[c].state = "live"
  /\ \A c \in Callers : calls[c] = "rescue" => c = Rescuer /\ rescue = "waiting"
  /\ calls[Owner] = "add" => count <= LastProducer
  /\ \A c \in Callers : calls[c] # "shutdown"

\* Where the worker is, and what it may count on there.
Control ==
  /\ wpc = "take" => at \in Registered /\ quota <= Len(ring[at])
  /\ wpc \in {"merge", "settle"} => ~failed
  /\ wpc \in {"poll", "receive", "exited"} => cmd.kind = "none"
  /\ wpc \in {"execute", "settle", "stopping"} => cmd.kind # "none"
  /\ wpc = "settle" => cmd.kind \in {"done", "flush"} \cup Finishes
  /\ wpc = "settle" /\ cmd.kind \in Finishes => \A p \in Registered : finished[p]
  /\ wpc = "stopping" => cmd.kind \in Finishes /\ closed
  /\ wpc = "exited" => mailbox = << >>

\* Who captures is alive, waits for no answer, and its channel is open.
Capturing ==
  \A p \in Producers : capturing[p] => front[p].state = "live" /\ calls[p] = "none" /\ ~shut[p]

\* Nobody captures once a rescue has closed the channels, or once the recording is sealed.
Stopped ==
  /\ rescue = "closing" => closed
  /\ rescue \in {"waiting", "sealed", "failed"} => closed /\ \A p \in Producers : ~capturing[p]
  /\ sealed # "open" => /\ closed /\ \A p \in Producers : ~capturing[p]
                        /\ wpc \in {"stopping", "exited"}

\* A producer that the worker has finished does not capture again.
Ended ==
  \A p \in Producers :
    finished[p] => /\ ~capturing[p]
                   /\ \/ failed \/ closed \/ front[p].state # "live"
                      \/ wpc = "settle" /\ cmd.from = p /\ cmd.kind # "flush"

\* The channels that a command finds empty, because it was sent after their last capture.
Covered(p) == cmd.kind = "rescue" \/ (cmd.kind \in {"done", "close", "seal"} /\ p = cmd.from)
Emptied ==
  \A p \in Producers :
    Covered(p) => /\ wpc = "take" /\ p < at => ring[p] = << >>
                  /\ wpc = "take" /\ p = at => quota = Len(ring[p])
                  /\ wpc \in {"merge", "execute", "settle"} => ring[p] = << >>

Queues == Sorted /\ Merged /\ Conveyed /\ Blank /\ Sequenced /\ Budget
Handshake == Outstanding /\ CallsMade /\ Control /\ Capturing /\ Stopped /\ Ended /\ Emptied
IInv == Types /\ Queues /\ Handshake

-----------------------------------------------------------------------------
LEMMA ActorsDistinct ==
  /\ Owner \in Producers /\ Owner \in Callers /\ Rescuer \in Callers /\ Rescuer \notin Producers
  /\ Producers \subseteq Nat /\ Producers \subseteq Callers
BY TransportAssumption DEF Producers, Owner, Rescuer, Callers

LEMMA Below ==
  ASSUME NEW n \in Nat, NEW m \in Nat PROVE m \in 0 .. n - 1 <=> m < n
OBVIOUS

LEMMA Nonempty == ASSUME NEW n \in Nat, n >= 1 PROVE 1 \in 1 .. n
OBVIOUS

LEMMA Beyond ==
  ASSUME NEW n \in Nat, NEW m \in Nat
  PROVE  (m >= n + 1 => m >= n /\ m # n) /\ (~(m >= n) => m < n)
OBVIOUS

LEMMA Registering ==
  ASSUME NEW c \in 1 .. LastProducer + 1
  PROVE  0 .. c - 1 \subseteq Producers /\ 0 \in 0 .. c - 1
BY TransportAssumption DEF Producers

\* The initial state.
LEMMA InitInv == Init => IInv
<1> SUFFICES ASSUME Init PROVE IInv
  OBVIOUS
<1> USE ActorsDistinct
<1>1. Types
  <2>1. /\ front \in [Producers ->
                  [state : {"absent", "live", "finished", "dropping", "joining"}, time : Nat]]
        /\ capturing \in [Producers -> BOOLEAN] /\ accepted \in [Producers -> Seq(Nat)]
        /\ ring \in [Producers -> Seq(Ops)] /\ shut \in [Producers -> BOOLEAN]
    BY DEF Init
  <2>2. /\ mailbox \in Seq(Commands) /\ calls \in [Callers -> CommandKinds]
        /\ cmd \in Commands
    BY DEF Init, Commands, CommandKinds, NoCommand, Owner
  <2>3. /\ clock \in [Producers -> Nat] /\ finished \in [Producers -> BOOLEAN]
        /\ pending \in [Producers -> Seq(Entries)] /\ spilled \in [Producers -> Seq(Entries)]
        /\ applied \in Seq(Producers \X Nat)
    BY DEF Init
  <2>4. /\ closed \in BOOLEAN /\ failed \in BOOLEAN /\ rescue = "none" /\ wpc = "poll"
        /\ at \in Nat /\ quota \in Nat /\ active \in BOOLEAN /\ count = 1
        /\ memory \in Nat /\ sequence \in Nat /\ captured \in Nat /\ sealed = "open"
    BY DEF Init
  <2>5. count \in 1 .. LastProducer + 1
    BY <2>4, TransportAssumption
  <2> QED
    BY <2>1, <2>2, <2>3, <2>4, <2>5 DEF Types
<1>2. Queues
  <2>1. Sorted /\ Merged /\ Blank
    BY DEF Init, Sorted, Merged, Blank
  <2>2. Frontier /\ Sequenced
    BY Registering, TransportAssumption DEF Init, Frontier, Sequenced, InQueue, Registered
  <2>3. ASSUME NEW p \in Producers PROVE Placed(p)
    <3>1. {i \in DOMAIN applied : applied[i][1] = p} = {}
      BY DEF Init
    <3>2. Held(p) = 0
      BY <3>1, FS_EmptySet DEF Held
    <3> QED
      BY <3>2 DEF Init, Placed, Follows, FollowsIn
  <2>4. Budget
    <3>1. Places(pending) = {}
      BY DEF Init, Places
    <3>2. memory = 0
      BY DEF Init
    <3> QED
      BY <3>1, <3>2, FS_EmptySet, TransportAssumption DEF Budget, Total
  <2> QED
    BY <2>1, <2>2, <2>3, <2>4 DEF Queues, Conveyed
<1>3. Handshake
  <2>1. Outstanding /\ CallsMade
    BY DEF Init, Outstanding, CallsMade, NoCommand
  <2>2. Control /\ Capturing /\ Stopped /\ Ended /\ Emptied
    BY DEF Init, Control, Capturing, Stopped, Ended, Emptied, Covered, NoCommand, Finishes
  <2> QED
    BY <2>1, <2>2 DEF Handshake
<1> QED
  BY <1>1, <1>2, <1>3 DEF IInv

-----------------------------------------------------------------------------
(* What steps leave alone. *)

\* The producers' times, and which producers there are.
SameFronts ==
  /\ front' \in [Producers ->
        [state : {"absent", "live", "finished", "dropping", "joining"}, time : Nat]]
  /\ \A p \in Producers : /\ front'[p].time = front[p].time
                          /\ front[p].state = "absent" => front'[p].state = "absent"

LEMMA SameQueues ==
  ASSUME Types, Queues, SameFronts, failed => failed',
         \A p \in Producers : capturing'[p] => capturing[p] \/ front[p].state = "live",
         UNCHANGED <<accepted, ring, clock, finished, pending, spilled, memory, sequence, captured,
                     applied, count>>
  PROVE  Queues'
<1>1. Sorted'
  BY DEF Queues, Sorted, SameFronts
<1>2. Merged'
  BY DEF Queues, Merged
<1>3. Frontier => Frontier'
  BY Registering DEF Frontier, InQueue, Registered, SameFronts, Types
<1>4. ASSUME NEW p \in Producers, Placed(p) PROVE Placed(p)'
  BY <1>4 DEF Placed, Held, Follows, FollowsIn
<1>5. Conveyed'
  BY <1>3, <1>4, Zenon DEF Queues, Conveyed
<1>6. Blank'
  BY DEF Queues, Blank, SameFronts
<1>7. Sequenced' /\ Budget'
  BY DEF Queues, Sequenced, Budget, InQueue, Places, Total
<1> QED
  BY <1>1, <1>2, <1>5, <1>6, <1>7 DEF Queues

-----------------------------------------------------------------------------
(* Operators on the recording and on the queues. *)

LEMMA HeldNat ==
  ASSUME applied \in Seq(Producers \X Nat), NEW p
  PROVE  Held(p) \in Nat /\ Held(p) <= Len(applied)
<1> DEFINE P == {e \in Producers \X Nat : e[1] = p}
<1>1. Held(p) = Count(applied, P)
  BY LenProperties, ZenonT(60) DEF Held, Count
<1> HIDE DEF P
<1> QED
  BY <1>1, CountPositions

LEMMA HeldGrows ==
  ASSUME applied \in Seq(Producers \X Nat), NEW e \in Producers \X Nat,
         applied' = Append(applied, e), NEW p
  PROVE  Held(p)' = Held(p) + (IF e[1] = p THEN 1 ELSE 0)
<1> DEFINE P == {f \in Producers \X Nat : f[1] = p}
<1>1. applied' \in Seq(Producers \X Nat)
  BY AppendOne
<1>2. Held(p) = Count(applied, P) /\ Held(p)' = Count(applied', P)
  <2>1. {i \in DOMAIN applied' : applied'[i][1] = p} = {i \in DOMAIN applied' : applied'[i] \in P}
    BY <1>1, LenProperties
  <2>2. {i \in DOMAIN applied : applied[i][1] = p} = {i \in DOMAIN applied : applied[i] \in P}
    BY LenProperties
  <2> HIDE DEF P
  <2> QED
    BY <2>1, <2>2 DEF Held, Count
<1>3. e \in P <=> e[1] = p
  OBVIOUS
<1> HIDE DEF P
<1>4. Count(applied', P) = Count(applied, P) + (IF e \in P THEN 1 ELSE 0)
  BY CountAppended, ZenonT(60)
<1> QED
  BY <1>2, <1>3, <1>4

LEMMA Entered ==
  ASSUME applied \in Seq(Producers \X Nat)
  PROVE  \A i \in 1 .. Len(applied) : applied[i][1] \in Producers /\ applied[i][2] \in Nat
<1>1. \A i \in 1 .. Len(applied) : applied[i] \in Producers \X Nat
  BY ElementOfSeq
<1> QED
  BY <1>1

\* The queue of p begins in memory, unless all of it is in the file.
LEMMA FirstOfQueue ==
  ASSUME Types, NEW p \in Producers, Queue(p) # << >>
  PROVE  /\ First(p) = IF pending[p] # << >> THEN pending[p][1] ELSE spilled[p][1]
         /\ First(p) \in Entries /\ InQueue(p, First(p))
         /\ pending[p] # << >> => Len(pending[p]) >= 1
         /\ pending[p] = << >> => Len(pending[p]) = 0 /\ Len(spilled[p]) >= 1
<1>1. pending[p] \in Seq(Entries) /\ spilled[p] \in Seq(Entries)
  BY DEF Types
<1>2. /\ Queue(p) \in Seq(Entries) /\ Len(Queue(p)) = Len(pending[p]) + Len(spilled[p])
      /\ Len(pending[p]) \in Nat /\ Len(spilled[p]) \in Nat
      /\ \A i \in 1 .. Len(pending[p]) : Queue(p)[i] = pending[p][i]
      /\ \A i \in 1 .. Len(spilled[p]) : Queue(p)[Len(pending[p]) + i] = spilled[p][i]
  <2>1. /\ pending[p] \o spilled[p] \in Seq(Entries)
        /\ Len(pending[p] \o spilled[p]) = Len(pending[p]) + Len(spilled[p])
        /\ Len(pending[p]) \in Nat /\ Len(spilled[p]) \in Nat
    BY <1>1, JoinTwo
  <2>2. \A i \in 1 .. Len(pending[p]) : (pending[p] \o spilled[p])[i] = pending[p][i]
    BY <1>1, JoinTwo
  <2>3. \A i \in 1 .. Len(spilled[p]) :
          (pending[p] \o spilled[p])[Len(pending[p]) + i] = spilled[p][i]
    <3>1. ASSUME NEW i \in 1 .. Len(spilled[p])
          PROVE  (pending[p] \o spilled[p])[Len(pending[p]) + i] = spilled[p][i]
      <4>1. pending[p] \o spilled[p] \in Seq(Entries)
        BY <1>1, JoinTwo
      <4>2. /\ Len(pending[p]) + i \in 1 .. Len(pending[p]) + Len(spilled[p])
            /\ ~(Len(pending[p]) + i <= Len(pending[p]))
            /\ (Len(pending[p]) + i) - Len(pending[p]) = i
        <5>1. ASSUME NEW m \in Nat, NEW n \in Nat, NEW j \in 1 .. n
              PROVE  m + j \in 1 .. m + n /\ ~(m + j <= m) /\ (m + j) - m = j
          OBVIOUS
        <5> QED
          BY <2>1, <5>1, Zenon
      <4> QED
        BY <1>1, <4>1, <4>2, ConcatProperties
    <3> QED
      BY <3>1
  <2> QED
    BY <2>1, <2>2, <2>3, Zenon DEF Queue
<1>3. First(p) = Queue(p)[1] /\ First(p) \in Entries /\ Len(Queue(p)) >= 1
  BY <1>2, TailOne DEF First
<1>4. pending[p] = << >> <=> Len(pending[p]) = 0
  BY <1>1, EmptySeq
<1>5. CASE pending[p] # << >>
  <2>1. 1 \in 1 .. Len(pending[p]) /\ Len(pending[p]) >= 1
    BY <1>2, <1>4, <1>5
  <2>2. Queue(p)[1] = pending[p][1]
    BY <1>2, <2>1, Zenon
  <2> QED
    BY <1>3, <1>5, <2>1, <2>2 DEF InQueue
<1>6. CASE pending[p] = << >>
  <2>1. 1 \in 1 .. Len(spilled[p]) /\ Len(pending[p]) + 1 = 1
    BY <1>2, <1>3, <1>4, <1>6
  <2>2. Queue(p)[Len(pending[p]) + 1] = spilled[p][1]
    BY <1>2, <2>1, Zenon
  <2>3. Queue(p)[1] = spilled[p][1] /\ Len(spilled[p]) >= 1
    BY <2>1, <2>2
  <2> QED
    BY <1>3, <1>4, <1>6, <2>1, <2>3 DEF InQueue
<1> QED
  BY <1>5, <1>6

\* A capture that joins the end of a queue takes one place.
LEMMA PlaceTaken ==
  ASSUME pending \in [Producers -> Seq(Entries)], NEW p \in Producers, NEW e \in Entries,
         pending' = [pending EXCEPT ![p] = Append(@, e)],
         IsFiniteSet(Places(pending))
  PROVE  IsFiniteSet(Places(pending)') /\ Total(pending)' = Total(pending) + 1
<1>1. /\ Len(pending[p]) \in Nat /\ DOMAIN pending[p] = 1 .. Len(pending[p])
      /\ DOMAIN Append(pending[p], e) = 1 .. Len(pending[p]) + 1
  BY AppendOne, LenProperties
<1>2. Places(pending)' = Places(pending) \cup {<<p, Len(pending[p]) + 1>>}
  BY <1>1 DEF Places
<1>3. <<p, Len(pending[p]) + 1>> \notin Places(pending)
  BY <1>1 DEF Places
<1> QED
  BY <1>2, <1>3, FS_AddElement, ZenonT(60) DEF Total

LEMMA PlaceGiven ==
  ASSUME pending \in [Producers -> Seq(Entries)], NEW p \in Producers, pending[p] # << >>,
         pending' = [pending EXCEPT ![p] = Tail(@)],
         IsFiniteSet(Places(pending))
  PROVE  IsFiniteSet(Places(pending)') /\ Total(pending)' = Total(pending) - 1
<1>1. /\ Len(pending[p]) \in Nat /\ Len(pending[p]) >= 1
      /\ DOMAIN pending[p] = 1 .. Len(pending[p])
      /\ DOMAIN Tail(pending[p]) = 1 .. Len(pending[p]) - 1
  BY TailOne, LenProperties
<1>2. Places(pending)' = Places(pending) \ {<<p, Len(pending[p])>>}
  BY <1>1 DEF Places
<1>3. <<p, Len(pending[p])>> \in Places(pending)
  BY <1>1 DEF Places
<1>4. Cardinality(Places(pending) \ {<<p, Len(pending[p])>>}) = Cardinality(Places(pending)) - 1
  BY <1>3, FS_RemoveElement, Zenon
<1> QED
  BY <1>2, <1>4, FS_RemoveElement DEF Total

-----------------------------------------------------------------------------
(* Every step preserves the invariant. *)

USE DEF frontVars, channelVars, callVars, sharedVars, ingestVars, queueVars, workerVars, backend

LEMMA BeginCaptureInv ==
  ASSUME IInv, NEW p \in Producers, BeginCapture(p) PROVE IInv'
<1> USE DEF IInv, Types, Handshake, BeginCapture
<1>1. Types'
  OBVIOUS
<1>2. Queues'
  BY SameQueues DEF SameFronts
<1>3. Outstanding' /\ CallsMade'
  BY DEF Outstanding, CallsMade
<1>4. Control' /\ Emptied'
  BY DEF Control, Emptied, Covered, Registered
<1>5. Capturing' /\ Stopped'
  BY DEF Capturing, Stopped
<1>6. Ended'
  BY DEF Ended, Outstanding, Control, Finishes
<1> QED
  BY <1>1, <1>2, <1>3, <1>4, <1>5, <1>6

\* A command that a caller without one sends.
LEMMA Posted ==
  ASSUME IInv, NEW c \in Callers, NEW kind \in CommandKinds \ {"none"}, calls[c] = "none",
         mailbox' = Append(mailbox, [kind |-> kind, from |-> c]), cmd' = cmd,
         calls' = IF kind = "shutdown" THEN calls ELSE [calls EXCEPT ![c] = kind]
  PROVE  /\ mailbox' \in Seq(Commands) /\ calls' \in [Callers -> CommandKinds]
         /\ Outstanding'
<1> DEFINE new == [kind |-> kind, from |-> c]
<1>1. new \in Commands /\ mailbox \in Seq(Commands) /\ calls \in [Callers -> CommandKinds]
  BY DEF Commands, IInv, Types
<1>2. /\ mailbox' \in Seq(Commands) /\ calls' \in [Callers -> CommandKinds]
      /\ Len(mailbox) \in Nat /\ Len(mailbox') = Len(mailbox) + 1
      /\ mailbox'[Len(mailbox) + 1] = new
      /\ \A i \in 1 .. Len(mailbox) : mailbox'[i] = mailbox[i] /\ mailbox[i] \in Commands
      /\ \A i \in 1 .. Len(mailbox') : i \in 1 .. Len(mailbox) \/ i = Len(mailbox) + 1
  BY <1>1, AppendOne, ElementOfSeq
<1>3. \A i \in 1 .. Len(mailbox) : mailbox[i].from = c => mailbox[i].kind = "shutdown"
  BY <1>2 DEF IInv, Handshake, Outstanding
<1>4. cmd.from = c => cmd.kind \in {"none", "shutdown"}
  BY DEF IInv, Handshake, Outstanding
<1>5. Outstanding
  BY DEF IInv, Handshake
<1>6. calls'[c] = IF kind = "shutdown" THEN "none" ELSE kind
  BY <1>1
<1>7. \A d \in Callers \ {c} : calls'[d] = calls[d]
  BY <1>1
<1>8. new.kind = kind /\ new.from = c /\ kind # "none"
  OBVIOUS
<1> HIDE DEF new
<1>9. ASSUME NEW i \in 1 .. Len(mailbox')
      PROVE  /\ mailbox'[i].kind # "none"
             /\ mailbox'[i].kind # "shutdown" =>
                  /\ calls'[mailbox'[i].from] = mailbox'[i].kind
                  /\ cmd'.from = mailbox'[i].from => cmd'.kind \in {"none", "shutdown"}
  <2>1. CASE i = Len(mailbox) + 1
    BY <1>2, <1>4, <1>6, <1>8, <2>1
  <2>2. CASE i \in 1 .. Len(mailbox)
    <3>1. mailbox'[i] = mailbox[i] /\ mailbox[i].from \in Callers
      BY <1>2, <2>2 DEF Commands
    <3>2. CASE mailbox[i].from = c
      <4>1. mailbox'[i].kind = "shutdown"
        BY <1>3, <2>2, <3>1, <3>2
      <4> QED
        BY <4>1
    <3>3. CASE mailbox[i].from # c
      <4>1. calls'[mailbox[i].from] = calls[mailbox[i].from]
        BY <1>7, <3>1, <3>3
      <4> QED
        BY <1>5, <2>2, <3>1, <4>1 DEF Outstanding
    <3> QED
      BY <3>2, <3>3
  <2> QED
    BY <1>2, <2>1, <2>2
<1>10. ASSUME NEW i \in 1 .. Len(mailbox'), NEW j \in 1 .. Len(mailbox'),
              mailbox'[i].from = mailbox'[j].from, i # j
       PROVE  mailbox'[i].kind = "shutdown" \/ mailbox'[j].kind = "shutdown"
  <2>1. CASE i \in 1 .. Len(mailbox) /\ j \in 1 .. Len(mailbox)
    <3>1. mailbox'[i] = mailbox[i] /\ mailbox'[j] = mailbox[j]
      BY <1>2, <2>1
    <3> QED
      BY <1>5, <1>10, <2>1, <3>1 DEF Outstanding
  <2>2. CASE i = Len(mailbox) + 1 /\ j \in 1 .. Len(mailbox)
    BY <1>2, <1>3, <1>8, <1>10, <2>2
  <2>3. CASE j = Len(mailbox) + 1 /\ i \in 1 .. Len(mailbox)
    BY <1>2, <1>3, <1>8, <1>10, <2>3
  <2> QED
    BY <1>2, <1>10, <2>1, <2>2, <2>3
<1>11. cmd'.kind \notin {"none", "shutdown"} => calls'[cmd'.from] = cmd'.kind
  <2>1. cmd \in Commands
    BY DEF IInv, Types
  <2>2. cmd.kind \notin {"none", "shutdown"} => calls'[cmd.from] = calls[cmd.from]
    BY <1>4, <1>7, <2>1 DEF Commands
  <2> QED
    BY <1>5, <2>2 DEF Outstanding
<1> QED
  BY <1>2, <1>9, <1>10, <1>11, ZenonT(60) DEF Outstanding

LEMMA Snapshots ==
  ASSUME Types, NEW p \in Producers, NEW command, Snapshot(p, command)
  PROVE  /\ at' = p /\ at' \in Nat /\ quota' \in Nat /\ quota' <= Len(ring[p])
         /\ command.kind # "none" => quota' = Len(ring[p])
<1>1. ring[p] \in Seq(Ops)
  BY DEF Types
<1>2. Len(ring[p]) \in Nat /\ IngestLimit \in Nat
  BY <1>1, LenProperties, TransportAssumption
<1> QED
  BY <1>2, ActorsDistinct DEF Snapshot

LEMMA RefuseCaptureInv ==
  ASSUME IInv, NEW p \in Producers, RefuseCapture(p) PROVE IInv'
<1> USE DEF IInv, Types, Handshake, RefuseCapture
<1>1. Types'
  OBVIOUS
<1>2. Queues'
  BY SameQueues DEF SameFronts
<1>3. Outstanding' /\ CallsMade'
  BY DEF Outstanding, CallsMade
<1>4. Control' /\ Emptied'
  BY DEF Control, Emptied, Covered, Registered
<1>5. Capturing' /\ Stopped'
  BY ActorsDistinct DEF Capturing, Stopped
<1>6. Ended'
  BY DEF Ended, Outstanding, Control, Finishes
<1> QED
  BY <1>1, <1>2, <1>3, <1>4, <1>5, <1>6

LEMMA DropWriterInv ==
  ASSUME IInv, DropWriter PROVE IInv'
<1> USE DEF IInv, Types, Handshake, DropWriter
<1>a. ASSUME ~closed, wpc # "exited"
      PROVE  mailbox' \in Seq(Commands) /\ calls' \in [Callers -> CommandKinds] /\ Outstanding'
  <2>1. "seal" \in CommandKinds \ {"none"} /\ Owner \in Callers /\ calls[Owner] = "none"
    BY ActorsDistinct DEF CommandKinds, CallsMade
  <2>2. /\ mailbox' = Append(mailbox, [kind |-> "seal", from |-> Owner]) /\ cmd' = cmd
        /\ calls' = IF "seal" = "shutdown" THEN calls ELSE [calls EXCEPT ![Owner] = "seal"]
    BY <1>a
  <2> QED
    BY <2>1, <2>2, Posted
<1>1. Types'
  BY <1>a, ZenonT(60)
<1>2. Queues'
  BY SameQueues DEF SameFronts
<1>3. Outstanding' /\ CallsMade'
  <2>1. CASE ~closed /\ wpc # "exited"
    BY <1>a, <2>1, ActorsDistinct, ZenonT(60) DEF CallsMade
  <2>2. CASE ~(~closed /\ wpc # "exited")
    <3>1. mailbox' = mailbox /\ calls' = calls /\ cmd' = cmd
      BY <2>2
    <3> QED
      BY <3>1, ZenonT(60) DEF Outstanding, CallsMade
  <2> QED
    BY <2>1, <2>2
<1>4. Control' /\ Emptied'
  BY DEF Control, Emptied, Covered, Registered
<1>5. Capturing' /\ Stopped'
  BY ActorsDistinct DEF Capturing, Stopped
<1>6. Ended'
  BY DEF Ended, Outstanding, Control, Finishes
<1> QED
  BY <1>1, <1>2, <1>3, <1>4, <1>5, <1>6

LEMMA DropTransportInv ==
  ASSUME IInv, DropTransport PROVE IInv'
<1> USE DEF IInv, Types, Handshake, DropTransport
<1>a. wpc # "exited" => mailbox' \in Seq(Commands) /\ calls' \in [Callers -> CommandKinds] /\ Outstanding'
  BY Posted, ActorsDistinct DEF CommandKinds
<1>1. Types'
  <2>1. front' \in [Producers ->
                     [state : {"absent", "live", "finished", "dropping", "joining"}, time : Nat]]
    BY ActorsDistinct, ZenonT(60)
  <2>2. mailbox' \in Seq(Commands) /\ calls' \in [Callers -> CommandKinds]
    BY <1>a
  <2>3. UNCHANGED <<capturing, accepted, channelVars, sharedVars, rescue, workerVars, backend>>
    OBVIOUS
  <2>4. Types
    OBVIOUS
  <2> HIDE DEF IInv, Handshake, DropTransport
  <2> QED
    BY <2>1, <2>2, <2>3, <2>4
<1>2. Queues'
  BY SameQueues DEF SameFronts
<1>3. Outstanding' /\ CallsMade'
  <2>1. Outstanding'
    BY <1>a DEF Outstanding
  <2>2. CallsMade'
    BY <1>a, ActorsDistinct DEF CallsMade
  <2> QED
    BY <2>1, <2>2
<1>4. Control' /\ Emptied'
  BY DEF Control, Emptied, Covered, Registered
<1>5. Capturing' /\ Stopped'
  BY ActorsDistinct DEF Capturing, Stopped
<1>6. Ended'
  BY DEF Ended, Outstanding, Control, Finishes
<1> QED
  BY <1>1, <1>2, <1>3, <1>4, <1>5, <1>6

LEMMA BeginRescueInv ==
  ASSUME IInv, BeginRescue PROVE IInv'
<1> USE DEF IInv, Types, Handshake, BeginRescue
<1>1. Types'
  OBVIOUS
<1>2. Queues'
  BY SameQueues DEF SameFronts
<1>3. Outstanding' /\ CallsMade'
  BY DEF Outstanding, CallsMade
<1>4. Control' /\ Emptied'
  BY DEF Control, Emptied, Covered, Registered
<1>5. Capturing' /\ Stopped'
  BY ActorsDistinct DEF Capturing, Stopped
<1>6. Ended'
  BY DEF Ended, Outstanding, Control, Finishes
<1> QED
  BY <1>1, <1>2, <1>3, <1>4, <1>5, <1>6

LEMMA RescueClosesInv ==
  ASSUME IInv, RescueCloses PROVE IInv'
<1> USE DEF IInv, Types, Handshake, RescueCloses, CloseChannel
<1>1. Types'
  OBVIOUS
<1>2. Queues'
  BY SameQueues DEF SameFronts
<1>3. Outstanding' /\ CallsMade'
  BY DEF Outstanding, CallsMade
<1>4. Control' /\ Emptied'
  BY DEF Control, Emptied, Covered, Registered
<1>5. Capturing' /\ Stopped'
  BY ActorsDistinct DEF Capturing, Stopped
<1>6. Ended'
  BY DEF Ended, Outstanding, Control, Finishes
<1> QED
  BY <1>1, <1>2, <1>3, <1>4, <1>5, <1>6

LEMMA RescueSendsInv ==
  ASSUME IInv, RescueSends PROVE IInv'
<1> USE DEF IInv, Types, Handshake, RescueSends
<1>a. ASSUME wpc # "exited"
      PROVE  mailbox' \in Seq(Commands) /\ calls' \in [Callers -> CommandKinds] /\ Outstanding'
  <2>1. "rescue" \in CommandKinds \ {"none"} /\ Rescuer \in Callers /\ calls[Rescuer] = "none"
    BY ActorsDistinct DEF CommandKinds, CallsMade
  <2>2. /\ mailbox' = Append(mailbox, [kind |-> "rescue", from |-> Rescuer]) /\ cmd' = cmd
        /\ calls' = IF "rescue" = "shutdown" THEN calls ELSE [calls EXCEPT ![Rescuer] = "rescue"]
    BY <1>a
  <2> QED
    BY <2>1, <2>2, Posted
<1>1. Types'
  BY <1>a
<1>2. Queues'
  BY SameQueues DEF SameFronts
<1>3. Outstanding' /\ CallsMade'
  <2>1. CASE wpc # "exited"
    BY <1>a, <2>1, ActorsDistinct, SMTT(30) DEF CallsMade
  <2>2. CASE ~(wpc # "exited")
    <3>1. mailbox' = mailbox /\ calls' = calls /\ cmd' = cmd
      BY <2>2
    <3> QED
      BY <3>1 DEF Outstanding, CallsMade
  <2> QED
    BY <2>1, <2>2
<1>4. Control' /\ Emptied'
  BY DEF Control, Emptied, Covered, Registered
<1>5. Capturing' /\ Stopped'
  BY ActorsDistinct DEF Capturing, Stopped, Blank, Queues, Registered
<1>6. Ended'
  BY DEF Ended, Outstanding, Control, Finishes
<1> QED
  BY <1>1, <1>2, <1>3, <1>4, <1>5, <1>6

LEMMA StartRoundInv ==
  ASSUME IInv, StartRound PROVE IInv'
<1> USE DEF IInv, Types, Handshake, StartRound, WorkerAt, NoCommand
<1>a. 0 \in Registered /\ Registered \subseteq Producers
  BY Registering DEF Registered
<1>b. at' = 0 /\ at' \in Nat /\ quota' \in Nat /\ quota' <= Len(ring[0])
  BY <1>a, Snapshots
<1>1. Types'
  BY <1>b
<1>2. Queues'
  BY SameQueues DEF SameFronts
<1>3. Outstanding' /\ CallsMade'
  BY ZenonT(60) DEF Outstanding, CallsMade
<1>4. Control' /\ Emptied'
  BY <1>a, <1>b DEF Control, Emptied, Covered, Registered
<1>5. Capturing' /\ Stopped'
  BY ActorsDistinct DEF Capturing, Stopped
<1>6. Ended'
  BY DEF Ended, Outstanding, Control, Finishes
<1> QED
  BY <1>1, <1>2, <1>3, <1>4, <1>5, <1>6

LEMMA NextInputInv ==
  ASSUME IInv, NextInput PROVE IInv'
<1> USE DEF IInv, Types, Handshake, NextInput
<1>1. /\ at \in Registered /\ Registered \subseteq Producers
      /\ \A p \in Producers : p \in Registered <=> p < count
  <2>1. at \in Registered /\ Registered \subseteq Producers
    BY Registering DEF Registered, Control
  <2>2. count \in Nat /\ \A p \in Producers : p \in Nat
    BY ActorsDistinct
  <2> QED
    BY <2>1, <2>2, Below DEF Registered
<1>2. \A p \in Producers : Covered(p) /\ p <= at => ring[p] = << >>
  <2>1. \A p \in Producers : ring[p] \in Seq(Ops) /\ (Len(ring[p]) = 0 => ring[p] = << >>)
    BY EmptySeq
  <2> QED
    BY <2>1, <1>1, ActorsDistinct DEF Emptied
<1>3. Types' /\ Control' /\ Emptied'
  <2>1. CASE at + 1 < count
    <3>1. at + 1 \in Registered /\ at + 1 \in Producers
      BY <1>1, <2>1 DEF Registered
    <3>2. /\ at' = at + 1 /\ at' \in Nat /\ quota' \in Nat /\ quota' <= Len(ring[at + 1])
          /\ cmd.kind # "none" => quota' = Len(ring[at + 1])
      BY <2>1, <3>1, Snapshots
    <3>3. Types'
      BY <2>1, <3>2
    <3>4. Control'
      BY <2>1, <3>1, <3>2 DEF Control, Registered
    <3>5. \A p \in Producers : p < at + 1 => p <= at
      BY <1>1, ActorsDistinct
    <3>6. Emptied'
      BY <1>2, <2>1, <3>2, <3>5 DEF Emptied, Covered
    <3> QED
      BY <3>3, <3>4, <3>6
  <2>2. CASE ~(at + 1 < count)
    <3>1. Types' /\ Control'
      BY <2>2 DEF Control, Registered
    <3>2. \A p \in Producers : p <= at \/ p >= count
      BY <1>1, <2>2, ActorsDistinct
    <3>3. \A p \in Producers : Covered(p) => ring[p] = << >>
      BY <1>2, <3>2 DEF Queues, Blank
    <3>4. Emptied'
      BY <2>2, <3>3 DEF Emptied, Covered
    <3> QED
      BY <3>1, <3>4
  <2> QED
    BY <2>1, <2>2
<1>4. Queues'
  BY SameQueues DEF SameFronts
<1>5. Outstanding' /\ CallsMade' /\ Capturing'
  BY DEF Outstanding, CallsMade, Capturing
<1>6. Stopped' /\ Ended'
  BY DEF Stopped, Ended
<1> QED
  BY <1>3, <1>4, <1>5, <1>6

LEMMA MergeEndsInv ==
  ASSUME IInv, MergeEnds PROVE IInv'
<1> USE DEF IInv, Types, Handshake, MergeEnds, WorkerAt
<1>1. Types'
  OBVIOUS
<1>2. Queues'
  BY SameQueues DEF SameFronts
<1>3. Outstanding' /\ CallsMade'
  BY DEF Outstanding, CallsMade
<1>4. Control' /\ Emptied'
  BY DEF Control, Emptied, Covered, Registered
<1>5. Capturing' /\ Stopped'
  BY ActorsDistinct DEF Capturing, Stopped
<1>6. Ended'
  BY DEF Ended, Outstanding, Control, Finishes
<1> QED
  BY <1>1, <1>2, <1>3, <1>4, <1>5, <1>6

\* The first command of the mailbox is taken in hand.
LEMMA Taken ==
  ASSUME mailbox \in Seq(Commands), mailbox # << >>, Outstanding,
         cmd' = Head(mailbox), mailbox' = Tail(mailbox), calls' = calls
  PROVE  /\ cmd' \in Commands /\ mailbox' \in Seq(Commands) /\ cmd'.kind # "none"
         /\ cmd'.kind # "shutdown" => calls[cmd'.from] = cmd'.kind
         /\ Outstanding'
<1> DEFINE first == Head(mailbox)
           rest == Tail(mailbox)
<1>1. /\ first = mailbox[1] /\ first \in Commands /\ rest \in Seq(Commands)
      /\ Len(mailbox) \in Nat /\ Len(mailbox) >= 1 /\ Len(rest) = Len(mailbox) - 1
      /\ \A i \in 1 .. Len(rest) : rest[i] = mailbox[i + 1] /\ i + 1 \in 1 .. Len(mailbox)
  BY TailOne
<1>2. 1 \in 1 .. Len(mailbox)
  BY <1>1, Nonempty
<1> HIDE DEF first, rest
<1>3. first.kind # "none" /\ (first.kind # "shutdown" => calls[first.from] = first.kind)
  BY <1>1, <1>2 DEF Outstanding
<1>4. ASSUME NEW i \in 1 .. Len(rest)
      PROVE  /\ rest[i].kind # "none"
             /\ rest[i].kind # "shutdown" => /\ calls[rest[i].from] = rest[i].kind
                                             /\ first.from = rest[i].from => first.kind = "shutdown"
  <2>1. rest[i] = mailbox[i + 1] /\ i + 1 \in 1 .. Len(mailbox) /\ i + 1 # 1
    BY <1>1
  <2> QED
    BY <1>1, <1>2, <2>1 DEF Outstanding
<1>5. ASSUME NEW i \in 1 .. Len(rest), NEW j \in 1 .. Len(rest), rest[i].from = rest[j].from, i # j
      PROVE  rest[i].kind = "shutdown" \/ rest[j].kind = "shutdown"
  <2>1. /\ rest[i] = mailbox[i + 1] /\ i + 1 \in 1 .. Len(mailbox)
        /\ rest[j] = mailbox[j + 1] /\ j + 1 \in 1 .. Len(mailbox)
    BY <1>1
  <2>2. i + 1 # j + 1
    BY <1>5
  <2> QED
    BY <1>5, <2>1, <2>2 DEF Outstanding
<1>6. cmd' = first /\ mailbox' = rest /\ calls' = calls
  BY DEF first, rest
<1> QED
  BY <1>1, <1>3, <1>4, <1>5, <1>6 DEF Outstanding

LEMMA ReceiveInv ==
  ASSUME IInv, Receive PROVE IInv'
<1> USE DEF IInv, Types, Handshake, Receive, WorkerAt
<1>1. ASSUME mailbox = << >>
      PROVE  Types' /\ Control' /\ Emptied' /\ Outstanding' /\ CallsMade'
  <2>1. Types' /\ Control' /\ Emptied'
    BY <1>1 DEF Control, Emptied, Registered
  <2>2. Outstanding' /\ CallsMade'
    BY <1>1 DEF Outstanding, CallsMade
  <2> QED
    BY <2>1, <2>2
<1>2. ASSUME mailbox # << >>
      PROVE  Types' /\ Control' /\ Emptied' /\ Outstanding' /\ CallsMade'
  <2>1. cmd' = Head(mailbox) /\ mailbox' = Tail(mailbox) /\ wpc' = "take" /\ active' = FALSE
    BY <1>2
  <2>2. /\ cmd' \in Commands /\ mailbox' \in Seq(Commands) /\ cmd'.kind # "none"
        /\ Outstanding'
    BY <1>2, <2>1, Taken
  <2>3. 0 \in Registered /\ 0 \in Producers /\ \A p \in Producers : ~(p < 0)
    BY Registering, ActorsDistinct DEF Registered
  <2>4. at' = 0 /\ at' \in Nat /\ quota' \in Nat /\ quota' = Len(ring[0])
    <3>1. Snapshot(0, Head(mailbox))
      BY <1>2
    <3> QED
      BY <2>1, <2>2, <2>3, <3>1, Snapshots
  <2> HIDE DEF Receive, WorkerAt
  <2>5. UNCHANGED <<front, capturing, accepted, ring, shut, calls, sent, closed, failed>>
    BY DEF Receive
  <2>6. UNCHANGED <<rescue, count, clock, finished, pending, spilled, memory, sequence>>
    BY DEF Receive
  <2>7. UNCHANGED <<panicked, captured, applied, sealed>>
    BY DEF Receive
  <2>8. wpc' = "take" /\ active' = FALSE
    BY <2>1
  <2>9. Types'
    BY <2>2, <2>4, <2>5, <2>6, <2>7, <2>8
  <2>10. CallsMade' /\ Control' /\ Emptied'
    BY <2>2, <2>3, <2>4, <2>5, <2>6, <2>8, LenProperties
    DEF CallsMade, Control, Registered, Emptied, Covered
  <2> QED
    BY <2>2, <2>9, <2>10
<1>3. Queues'
  BY SameQueues DEF SameFronts
<1>4. Capturing' /\ Stopped'
  BY DEF Capturing, Stopped
<1>5. Ended'
  BY DEF Ended
<1> QED
  BY <1>1, <1>2, <1>3, <1>4, <1>5

LEMMA ExecuteFlushInv ==
  ASSUME IInv, ExecuteFlush PROVE IInv'
<1> USE DEF IInv, Types, Handshake, ExecuteFlush, Executing
<1>1. Types'
  OBVIOUS
<1>2. Queues'
  BY SameQueues DEF SameFronts
<1>3. Outstanding' /\ CallsMade'
  BY DEF Outstanding, CallsMade
<1>4. Control' /\ Emptied'
  BY DEF Control, Emptied, Covered, Registered, Finishes
<1>5. Capturing' /\ Stopped'
  BY ActorsDistinct DEF Capturing, Stopped
<1>6. Ended'
  BY DEF Ended, Outstanding, Control, Finishes
<1> QED
  BY <1>1, <1>2, <1>3, <1>4, <1>5, <1>6

LEMMA StopClosesInv ==
  ASSUME IInv, StopCloses PROVE IInv'
<1> USE DEF IInv, Types, Handshake, StopCloses, CloseChannel
<1>1. Types'
  OBVIOUS
<1>2. Queues'
  BY SameQueues DEF SameFronts
<1>3. Outstanding' /\ CallsMade'
  BY DEF Outstanding, CallsMade
<1>4. Control' /\ Emptied'
  BY DEF Control, Emptied, Covered, Registered
<1>5. Capturing' /\ Stopped'
  BY ActorsDistinct DEF Capturing, Stopped
<1>6. Ended'
  BY DEF Ended, Outstanding, Control, Finishes
<1> QED
  BY <1>1, <1>2, <1>3, <1>4, <1>5, <1>6

-----------------------------------------------------------------------------
(* Calls. *)

LEMMA SendInv ==
  ASSUME IInv, NEW c \in Producers, NEW kind \in CommandKinds, Send(c, kind), ~capturing[c],
         \/ c = Owner /\ kind \in {"add", "flush", "control", "stats", "close", "seal"}
         \/ kind = "done" /\ front[c].state = "live",
         kind = "add" => count <= LastProducer
  PROVE  IInv'
<1> USE DEF IInv, Types, Handshake, Send
<1>1. c \in Callers /\ kind \in CommandKinds \ {"none"} /\ kind \notin {"shutdown", "rescue"}
  BY ActorsDistinct
<1>2. ASSUME wpc # "exited"
      PROVE  mailbox' \in Seq(Commands) /\ calls' \in [Callers -> CommandKinds] /\ Outstanding'
  <2>1. /\ mailbox' = Append(mailbox, [kind |-> kind, from |-> c]) /\ cmd' = cmd
        /\ calls' = IF kind = "shutdown" THEN calls ELSE [calls EXCEPT ![c] = kind]
    BY <1>1, <1>2
  <2> QED
    BY <1>1, <2>1, Posted
<1>3. Types'
  BY <1>2
<1>4. Queues'
  BY SameQueues DEF SameFronts
<1>5. Outstanding' /\ CallsMade'
  <2>1. CASE wpc # "exited"
    BY <1>1, <1>2, <2>1, ActorsDistinct, ZenonT(60) DEF CallsMade
  <2>2. CASE wpc = "exited"
    <3>1. mailbox' = mailbox /\ calls' = calls /\ cmd' = cmd
      BY <2>2
    <3> QED
      BY <3>1, SMTT(30) DEF Outstanding, CallsMade
  <2> QED
    BY <2>1, <2>2
<1>6. Control' /\ Emptied'
  BY DEF Control, Emptied, Covered, Registered
<1>7. Capturing' /\ Stopped'
  <2>1. \A p \in Producers : p # c => calls'[p] = calls[p]
    BY ActorsDistinct
  <2> QED
    BY <2>1 DEF Capturing, Stopped
<1>8. Ended'
  BY DEF Ended
<1> QED
  BY <1>3, <1>4, <1>5, <1>6, <1>7, <1>8

LEMMA CallsInv ==
  ASSUME IInv
  PROVE  /\ \A kind \in Calls : OwnerCall(kind) \/ OwnerFinish(kind) => IInv'
         /\ OwnerStats => IInv'
         /\ \A p \in Producers : FinishProducer(p) => IInv'
<1> USE ActorsDistinct, SendInv DEF CommandKinds
<1>1. ASSUME NEW kind \in Calls, OwnerCall(kind) PROVE IInv'
  BY <1>1 DEF OwnerCall
<1>2. ASSUME NEW kind \in Calls, OwnerFinish(kind) PROVE IInv'
  BY <1>2 DEF OwnerFinish
<1>3. ASSUME OwnerStats PROVE IInv'
  BY <1>3 DEF OwnerStats
<1>4. ASSUME NEW p \in Producers, FinishProducer(p) PROVE IInv'
  BY <1>4 DEF FinishProducer
<1> QED
  BY <1>1, <1>2, <1>3, <1>4

-----------------------------------------------------------------------------
(* The ends of a round, of a command, and of the worker. *)

\* Whose command is in hand, and what that says of those who capture.
LEMMA InHand ==
  ASSUME Types, Handshake, cmd.kind \notin {"none", "shutdown"}
  PROVE  /\ cmd.from \in Callers /\ calls[cmd.from] = cmd.kind
         /\ cmd.kind = "rescue" => cmd.from = Rescuer /\ rescue = "waiting"
         /\ cmd.kind = "done" => cmd.from \in Producers /\ front[cmd.from].state = "live"
         /\ cmd.kind \notin {"done", "rescue"} => cmd.from = Owner
         /\ \A p \in Producers : Covered(p) => ~capturing[p]
<1>1. cmd.from \in Callers /\ cmd.kind \in CommandKinds /\ calls[cmd.from] = cmd.kind
  BY DEF Types, Commands, Handshake, Outstanding
<1> QED
  BY <1>1 DEF Handshake, CallsMade, Covered, Capturing, Stopped, CommandKinds

LEMMA Senders ==
  ASSUME mailbox \in Seq(Commands)
  PROVE  \A i \in 1 .. Len(mailbox) : mailbox[i].from \in Callers
<1>1. \A i \in 1 .. Len(mailbox) : mailbox[i] \in Commands
  BY ElementOfSeq
<1> QED
  BY <1>1 DEF Commands

LEMMA Aborted ==
  ASSUME IInv, NEW unwinds, Abort(unwinds), wpc \notin {"stopping", "exited"},
         \A p \in Producers : finished'[p] => ~capturing[p]
  PROVE  /\ failed' /\ calls' \in [Callers -> CommandKinds] /\ cmd' \in Commands
         /\ wpc' = "poll" /\ quota' = 0
         /\ rescue' \in {"none", "refused", "closing", "waiting", "sealed", "failed"}
         /\ Handshake'
<1> USE DEF IInv, Types, Handshake, Abort
<1>1. cmd' = NoCommand /\ cmd' \in Commands /\ cmd'.kind = "none"
  BY ActorsDistinct DEF NoCommand, Commands, CommandKinds, Owner
<1>2. /\ calls' \in [Callers -> CommandKinds]
      /\ \A c \in Callers : calls'[c] \in {calls[c], "none"}
      /\ \A c \in Callers : c = cmd.from \/ calls'[c] = calls[c]
      /\ cmd.kind \in {"none", "shutdown"} => calls' = calls
  BY DEF Reply, CommandKinds
<1>3. Outstanding'
  <2>1. ASSUME NEW i \in 1 .. Len(mailbox), mailbox[i].kind # "shutdown"
        PROVE  calls'[mailbox[i].from] = mailbox[i].kind
    <3>1. mailbox[i].from \in Callers
      BY Senders
    <3> QED
      BY <1>2, <2>1, <3>1 DEF Outstanding
  <2> QED
    BY <1>1, <2>1 DEF Outstanding
<1>4. CallsMade'
  <2>1. \A c \in Callers : calls'[c] = "rescue" => rescue' = "waiting"
    BY <1>2, InHand, ActorsDistinct, ZenonT(60) DEF CallsMade, Reply
  <2> QED
    BY <1>2, <2>1, ActorsDistinct DEF CallsMade
<1>5. Control' /\ Emptied'
  BY <1>1 DEF Control, Emptied, Covered
<1>6. Capturing' /\ Stopped' /\ Ended'
  BY <1>2, InHand, ActorsDistinct DEF Capturing, Stopped, Ended
<1> QED
  BY <1>1, <1>2, <1>3, <1>4, <1>5, <1>6

LEMMA Answered ==
  ASSUME IInv, NEW ok \in BOOLEAN, Answer(ok), wpc \notin {"stopping", "exited"},
         cmd.kind \notin {"none", "shutdown", "rescue"},
         UNCHANGED <<capturing, shut, mailbox, closed, rescue, sealed>>,
         count' = count \/ cmd.from = Owner,
         \A p \in Producers :
           /\ capturing[p] => front'[p].state = "live"
           /\ p # cmd.from /\ front[p].state = "live" => front'[p].state = "live"
           /\ finished'[p] => /\ ~capturing[p]
                              /\ failed' \/ closed \/ front'[p].state # "live"
  PROVE  /\ failed' \in BOOLEAN /\ calls' \in [Callers -> CommandKinds] /\ cmd' \in Commands
         /\ wpc' = "poll" /\ (failed => failed')
         /\ Handshake'
<1> USE DEF IInv, Types, Handshake, Answer, Reply
<1>1. cmd' = NoCommand /\ cmd' \in Commands /\ cmd'.kind = "none"
  BY ActorsDistinct DEF NoCommand, Commands, CommandKinds, Owner
<1>2. /\ calls' \in [Callers -> CommandKinds]
      /\ \A c \in Callers : calls'[c] = IF c = cmd.from THEN "none" ELSE calls[c]
  BY InHand DEF CommandKinds
<1>3. Outstanding'
  <2>1. ASSUME NEW i \in 1 .. Len(mailbox), mailbox[i].kind # "shutdown"
        PROVE  calls'[mailbox[i].from] = mailbox[i].kind
    <3>1. mailbox[i].from \in Callers
      BY Senders
    <3> QED
      BY <1>2, <2>1, <3>1 DEF Outstanding
  <2> QED
    BY <1>1, <2>1, ZenonT(60) DEF Outstanding
<1>4. CallsMade'
  BY <1>2, InHand, ActorsDistinct DEF CallsMade
<1>5. Control' /\ Emptied'
  BY <1>1 DEF Control, Emptied, Covered
<1>6. Capturing' /\ Stopped'
  BY <1>2, ActorsDistinct DEF Capturing, Stopped
<1>7. Ended'
  BY DEF Ended
<1> QED
  BY <1>1, <1>2, <1>3, <1>4, <1>5, <1>6, <1>7

LEMMA Exited ==
  ASSUME IInv, Exit, wpc # "settle", failed' \in BOOLEAN, failed => failed' PROVE IInv'
<1> USE DEF IInv, Types, Handshake, Exit
<1>1. cmd' = NoCommand /\ cmd' \in Commands /\ cmd'.kind = "none"
  BY ActorsDistinct DEF NoCommand, Commands, CommandKinds, Owner
<1>2. mailbox' = << >> /\ mailbox' \in Seq(Commands) /\ Len(mailbox') = 0
  OBVIOUS
<1>3. calls' \in [Callers -> CommandKinds] /\ \A c \in Callers : calls'[c] = "none"
  BY DEF CommandKinds
<1>4. Types'
  BY <1>1, <1>2, <1>3
<1>5. Queues'
  BY SameQueues DEF SameFronts
<1>6. Outstanding' /\ CallsMade'
  BY <1>1, <1>2, <1>3, ActorsDistinct DEF Outstanding, CallsMade
<1>7. Control' /\ Emptied'
  BY <1>1, <1>2 DEF Control, Emptied, Covered
<1>8. Capturing' /\ Stopped'
  BY <1>3, ActorsDistinct DEF Capturing, Stopped
<1>9. Ended'
  BY DEF Ended
<1> QED
  BY <1>4, <1>5, <1>6, <1>7, <1>8, <1>9

LEMMA FinishEnded ==
  ASSUME IInv, NEW ok \in BOOLEAN, EndFinish(ok), wpc \in {"execute", "settle"},
         cmd.kind \in Finishes,
         UNCHANGED <<front, capturing, shut, mailbox, rescue, count>>,
         \A p \in Producers : finished'[p] => ~capturing[p],
         sealed' # "open" => ok /\ \A p \in Producers : ~capturing[p]
  PROVE  /\ failed' \in BOOLEAN /\ closed' \in BOOLEAN /\ (failed => failed')
         /\ calls' \in [Callers -> CommandKinds] /\ cmd' \in Commands
         /\ wpc' \in {"poll", "stopping"}
         /\ Handshake'
<1> USE DEF IInv, Types, Handshake
<1>1. cmd.kind \notin {"none", "shutdown"}
  BY DEF Finishes
<1>2. CASE ok \/ cmd.kind = "rescue"
  <2>1. /\ wpc' = "stopping" /\ closed' = TRUE /\ cmd' = cmd /\ calls' = calls
        /\ failed' = (failed \/ ~ok)
    BY <1>2 DEF EndFinish
  <2>2. Outstanding' /\ CallsMade'
    BY <2>1 DEF Outstanding, CallsMade
  <2>3. Control' /\ Emptied'
    BY <1>1, <2>1 DEF Control, Emptied, Finishes, Covered
  <2>4. Capturing' /\ Stopped' /\ Ended'
    BY <2>1 DEF Capturing, Stopped, Ended
  <2> QED
    BY <2>1, <2>2, <2>3, <2>4
<1>3. CASE ~(ok \/ cmd.kind = "rescue")
  <2>1. wpc' = "poll" /\ cmd' = NoCommand /\ Reply /\ closed' = closed /\ failed' = TRUE
    BY <1>3 DEF EndFinish
  <2>2. Answer(FALSE)
    BY <1>3, <2>1 DEF Answer
  <2>3. sealed' = "open" /\ sealed = "open"
    BY <1>3 DEF Stopped
  <2>4. Handshake' /\ calls' \in [Callers -> CommandKinds] /\ cmd' \in Commands
    <3>1. ASSUME NEW p \in Producers
          PROVE  /\ capturing[p] => front'[p].state = "live"
                 /\ p # cmd.from /\ front[p].state = "live" => front'[p].state = "live"
                 /\ finished'[p] => /\ ~capturing[p]
                                    /\ failed' \/ closed \/ front'[p].state # "live"
      BY <2>1 DEF Capturing
    <3> QED
      BY <1>1, <1>3, <2>1, <2>2, <2>3, <3>1, Answered
  <2> QED
    BY <2>1, <2>4
<1> QED
  BY <1>2, <1>3

-----------------------------------------------------------------------------
(* Commands that leave the queues alone. *)

\* A round that fails between two captures.
LEMMA AbortsInv ==
  ASSUME IInv, NEW unwinds \in BOOLEAN, Abort(unwinds), wpc \in {"receive", "execute"},
         UNCHANGED <<ring, active, queueVars>>
  PROVE  IInv'
<1>1. /\ failed' /\ calls' \in [Callers -> CommandKinds] /\ cmd' \in Commands
      /\ wpc' = "poll" /\ quota' = 0
      /\ rescue' \in {"none", "refused", "closing", "waiting", "sealed", "failed"}
      /\ Handshake'
  BY Aborted DEF IInv, Handshake, Ended
<1>2. Types'
  BY <1>1 DEF IInv, Types, Abort
<1>3. Queues'
  BY <1>1, SameQueues DEF IInv, Types, SameFronts, Abort
<1> QED
  BY <1>1, <1>2, <1>3 DEF IInv

LEMMA PollFailsInv ==
  ASSUME IInv, PollFails PROVE IInv'
BY AbortsInv DEF PollFails

\* A command that answers its caller and leaves the queues alone.
LEMMA AnswersInv ==
  ASSUME IInv, NEW ok \in BOOLEAN, Answer(ok),
         wpc = "execute", cmd.kind \in {"control", "stats", "add", "flush"},
         UNCHANGED <<frontVars, channelVars, mailbox, sent, closed, rescue, ingestVars, count,
                     queueVars, panicked, backend>>
  PROVE  IInv'
<1> USE DEF IInv, Types, Handshake
<1>1. UNCHANGED <<front, capturing, accepted, ring, shut, mailbox, sent, closed, rescue, at, quota,
                  active, count, clock, finished, pending, spilled, memory, sequence, panicked,
                  captured, applied, sealed>>
  OBVIOUS
<1>2. /\ failed' \in BOOLEAN /\ calls' \in [Callers -> CommandKinds] /\ cmd' \in Commands
      /\ wpc' = "poll" /\ (failed => failed')
      /\ Handshake'
  <2>1. \A p \in Producers :
          /\ capturing[p] => front'[p].state = "live"
          /\ p # cmd.from /\ front[p].state = "live" => front'[p].state = "live"
          /\ finished'[p] => /\ ~capturing[p]
                             /\ failed' \/ closed \/ front'[p].state # "live"
    BY <1>1 DEF Capturing, Ended, Answer
  <2> QED
    BY <1>1, <2>1, Answered
<1>3. Types'
  BY <1>1, <1>2
<1>4. Queues'
  BY <1>1, <1>2, SameQueues DEF SameFronts
<1> QED
  BY <1>2, <1>3, <1>4

LEMMA ExecuteControlInv ==
  ASSUME IInv, ExecuteControl \/ ExecuteStats \/ RefuseFailed PROVE IInv'
<1>1. CASE ExecuteControl /\ Abort(TRUE)
  BY <1>1, AbortsInv DEF ExecuteControl, Executing
<1>2. CASE ExecuteControl /\ ~Abort(TRUE)
  BY <1>2, AnswersInv DEF ExecuteControl, Executing
<1>3. CASE ExecuteStats \/ RefuseFailed
  BY <1>3, AnswersInv DEF ExecuteStats, RefuseFailed, Executing
<1> QED
  BY <1>1, <1>2, <1>3

LEMMA StopEndsInv ==
  ASSUME IInv, StopEnds \/ ExecuteShutdown PROVE IInv'
BY Exited DEF StopEnds, ExecuteShutdown, Executing, IInv, Types

LEMMA RegisterInv ==
  ASSUME IInv, Register PROVE IInv'
<1> USE DEF IInv, Types, Handshake, Register, Executing
<1>1. /\ cmd.kind = "add" /\ cmd.from = Owner /\ calls[Owner] = "add" /\ wpc = "execute"
      /\ count <= LastProducer
  BY InHand DEF CallsMade
<1>2. count \in Producers /\ count # Owner /\ count + 1 \in 1 .. LastProducer + 1
  BY <1>1, TransportAssumption DEF Producers, Owner
<1>3. /\ front[count].state = "absent" /\ ~capturing[count] /\ accepted[count] = << >>
      /\ ring[count] = << >> /\ ~finished[count]
      /\ pending[count] = << >> /\ spilled[count] = << >>
  BY <1>2, ActorsDistinct DEF Queues, Blank
<1>4. front' = [front EXCEPT ![count] = [state |-> "live", time |-> captured]]
  OBVIOUS
<1>5. \A p \in Producers :
        /\ capturing[p] => front'[p].state = "live"
        /\ p # cmd.from /\ front[p].state = "live" => front'[p].state = "live"
        /\ finished'[p] => /\ ~capturing[p]
                           /\ failed' \/ closed \/ front'[p].state # "live"
  BY <1>1, <1>2, <1>3 DEF Capturing, Ended, Answer
<1>6. /\ failed' \in BOOLEAN /\ calls' \in [Callers -> CommandKinds] /\ cmd' \in Commands
      /\ wpc' = "poll" /\ (failed => failed')
      /\ Handshake'
  <2>1. Answer(TRUE) /\ UNCHANGED <<capturing, shut, mailbox, closed, rescue, sealed>>
    OBVIOUS
  <2> QED
    BY <1>1, <1>5, <2>1, Answered
<1>7. Types'
  BY <1>2, <1>6
<1>8. Queues'
  <2> HIDE DEF Register
  <2>a. /\ \A p \in Producers : p # count => front'[p] = front[p] /\ clock'[p] = clock[p]
        /\ front'[count].time = captured /\ clock'[count] = captured /\ count' = count + 1
    BY <1>2 DEF Register
  <2>b. UNCHANGED <<capturing, accepted, ring, finished, pending, spilled, memory, sequence,
                    captured, applied>>
    BY DEF Register
  <2> USE DEF Queues
  <2>1. Sorted' /\ Merged'
    <3>1. Merged'
      BY <2>b DEF Merged
    <3>2. ASSUME NEW p \in Producers, NEW i \in 1 .. Len(accepted[p]) PROVE p # count
      BY <1>3
    <3>3. Sorted'
      BY <2>a, <2>b, <3>2 DEF Sorted
    <3> QED
      BY <3>1, <3>3
  <2>2. ASSUME Frontier PROVE Frontier'
    <3>1. ASSUME NEW p \in Registered', p # count PROVE p \in Registered /\ p \in Producers
      <4>1. p \in 0 .. count - 1
        BY <2>a, <3>1 DEF Registered
      <4> QED
        BY <4>1, Registering DEF Registered
    <3>2. \A e \in Entries : ~InQueue(count, e)
      BY <1>3 DEF InQueue
    <3>3. \A p \in Producers, e \in Entries : InQueue(p, e)' = InQueue(p, e)
      BY <2>b DEF InQueue
    <3>4. Len(ring[count]) = 0 /\ ~finished[count]
      BY <1>3
    <3>5. ASSUME NEW p \in Registered', p # count
          PROVE  /\ \A i \in 1 .. Len(ring'[p]) : clock'[p] <= ring'[p][i].stamp
                 /\ clock'[p] <= front'[p].time
                 /\ ~finished'[p] => captured' <= clock'[p]
                 /\ finished'[p] => ring'[p] = << >>
                 /\ \A e \in Entries : InQueue(p, e)' => captured' <= e.op.stamp
      BY <2>2, <2>a, <2>b, <3>1, <3>3, <3>5 DEF Frontier
    <3>6. ASSUME NEW p \in Registered', p = count
          PROVE  /\ \A i \in 1 .. Len(ring'[p]) : clock'[p] <= ring'[p][i].stamp
                 /\ clock'[p] <= front'[p].time
                 /\ ~finished'[p] => captured' <= clock'[p]
                 /\ finished'[p] => ring'[p] = << >>
                 /\ \A e \in Entries : InQueue(p, e)' => captured' <= e.op.stamp
      <4>1. Len(ring'[p]) = 0 /\ ~finished'[p]
        BY <2>b, <3>4, <3>6
      <4>2. captured <= captured /\ captured' = captured
        BY <2>b
      <4>3. \A e \in Entries : ~InQueue(p, e)'
        BY <1>2, <3>2, <3>3, <3>6
      <4> HIDE DEF Types
      <4> QED
        BY <2>a, <3>6, <4>1, <4>2, <4>3
    <3> HIDE DEF Types
    <3> QED
      BY <3>5, <3>6 DEF Frontier
  <2>3. ASSUME NEW p \in Producers, Placed(p) PROVE Placed(p)'
    BY <2>b, <2>3 DEF Placed, Held, Follows, FollowsIn
  <2>4. Conveyed'
    BY <2>2, <2>3, <1>6, Zenon DEF Conveyed
  <2>5. Blank'
    <3>1. ASSUME NEW p \in Producers, p >= count' PROVE p >= count /\ p # count
      <4>1. p \in Nat /\ count \in Nat /\ p >= count + 1
        BY <2>a, <3>1, ActorsDistinct
      <4> QED
        BY <4>1, Beyond
    <3>2. count' # 1
      BY <2>a
    <3> QED
      BY <2>a, <2>b, <3>1, <3>2 DEF Blank
  <2>6. Sequenced' /\ Budget'
    BY <2>b DEF Sequenced, Budget, InQueue, Places, Total
  <2> QED
    BY <2>1, <2>4, <2>5, <2>6
<1> QED
  BY <1>6, <1>7, <1>8

-----------------------------------------------------------------------------
(* Ends of producers and of the recording. *)

\* When every registered producer is finished, or a rescue has closed them all, nobody captures.
LEMMA NobodyCaptures ==
  ASSUME Types, Blank, Handshake, cmd.kind \in Finishes,
         \/ \A p \in Registered : finished[p]
         \/ \A p \in Registered \ {0} : finished[p]
         \/ cmd.kind = "rescue"
  PROVE  \A p \in Producers : ~capturing[p]
<1>1. \A p \in Producers : p \in Registered \/ p >= count
  BY Below, ActorsDistinct DEF Types, Registered
<1>2. cmd.kind = "rescue" => \A p \in Producers : ~capturing[p]
  BY InHand DEF Covered
<1>3. cmd.kind # "rescue" => ~capturing[Owner]
  BY InHand, ActorsDistinct DEF Covered, Finishes
<1>4. \A p \in Producers : p >= count \/ finished[p] => ~capturing[p]
  BY DEF Blank, Handshake, Ended
<1> QED
  BY <1>1, <1>2, <1>3, <1>4 DEF Owner

LEMMA Finalized ==
  ASSUME IInv, Finalize, wpc \in {"execute", "settle"}, cmd.kind \in Finishes,
         UNCHANGED <<front, capturing, shut, mailbox, count>>,
         \A p \in Producers : ~capturing[p]
  PROVE  /\ failed' \in BOOLEAN /\ closed' \in BOOLEAN /\ (failed => failed')
         /\ calls' \in [Callers -> CommandKinds] /\ cmd' \in Commands
         /\ wpc' \in {"poll", "stopping"}
         /\ rescue' \in {"none", "refused", "closing", "waiting", "sealed", "failed"}
         /\ sealed' \in {"open", "complete", "incomplete"}
         /\ Handshake'
<1> USE DEF IInv, Types
<1>1. ASSUME EndFinish(TRUE), sealed' \in {"complete", "incomplete"}, rescue' = rescue
      PROVE  /\ failed' \in BOOLEAN /\ closed' \in BOOLEAN /\ (failed => failed')
             /\ calls' \in [Callers -> CommandKinds] /\ cmd' \in Commands
             /\ wpc' \in {"poll", "stopping"} /\ Handshake'
  BY <1>1, FinishEnded
<1>2. ASSUME EndFinish(FALSE), sealed' = sealed, rescue' = rescue
      PROVE  /\ failed' \in BOOLEAN /\ closed' \in BOOLEAN /\ (failed => failed')
             /\ calls' \in [Callers -> CommandKinds] /\ cmd' \in Commands
             /\ wpc' \in {"poll", "stopping"} /\ Handshake'
  <2>1. sealed = "open"
    BY DEF Handshake, Stopped
  <2> QED
    BY <1>2, <2>1, FinishEnded
<1>3. ASSUME Abort(TRUE), closed' = closed
      PROVE  /\ failed' = TRUE /\ closed' \in BOOLEAN
             /\ calls' \in [Callers -> CommandKinds] /\ cmd' \in Commands
             /\ wpc' = "poll" /\ sealed' = sealed
             /\ rescue' \in {"none", "refused", "closing", "waiting", "sealed", "failed"}
             /\ Handshake'
  <2>1. failed' = TRUE /\ sealed' = sealed
    BY <1>3 DEF Abort
  <2> QED
    BY <1>3, <2>1, Aborted
<1>4. CASE /\ sealed' = (IF cmd.kind = "close" THEN "complete" ELSE "incomplete")
           /\ EndFinish(TRUE) /\ UNCHANGED <<rescue, panicked>>
  BY <1>1, <1>4
<1>5. CASE EndFinish(FALSE) /\ UNCHANGED <<sealed, rescue, panicked>>
  BY <1>2, <1>5
<1>6. CASE Abort(TRUE) /\ UNCHANGED closed
  BY <1>3, <1>6
<1> QED
  BY <1>4, <1>5, <1>6 DEF Finalize

\* Producers whose channel is empty are finished, and nothing else happens to the captures.
LEMMA Finishing ==
  ASSUME Types, Queues, SameFronts, failed => failed',
         finished' \in [Producers -> BOOLEAN],
         \A p \in Producers : finished[p] => finished'[p],
         \A p \in Producers : finished'[p] /\ ~finished[p] =>
                                ring[p] = << >> /\ p < count,
         UNCHANGED <<capturing, accepted, ring, clock, pending, spilled, memory, sequence, captured,
                     applied, count>>
  PROVE  Queues'
<1>1. Sorted'
  BY DEF Queues, Sorted, SameFronts
<1>2. Merged'
  BY DEF Queues, Merged
<1>3. Frontier => Frontier'
  BY Registering DEF Frontier, InQueue, Registered, SameFronts, Types
<1>4. ASSUME NEW p \in Producers, Placed(p) PROVE Placed(p)'
  BY <1>4 DEF Placed, Held, Follows, FollowsIn
<1>5. Conveyed'
  BY <1>3, <1>4, Zenon DEF Queues, Conveyed
<1>6. Blank'
  BY ActorsDistinct DEF Queues, Blank, SameFronts, Types
<1>7. Sequenced' /\ Budget'
  BY DEF Queues, Sequenced, Budget, InQueue, Places, Total
<1> QED
  BY <1>1, <1>2, <1>5, <1>6, <1>7 DEF Queues

LEMMA FrontAfterDone ==
  ASSUME Types, NEW ok \in BOOLEAN, FrontDone(ok),
         cmd.kind = "done" => cmd.from \in Producers /\ front[cmd.from].state = "live"
  PROVE  /\ SameFronts
         /\ \A p \in Producers : p # cmd.from => front'[p] = front[p]
         /\ cmd.kind = "done" /\ ok => front'[cmd.from].state = "finished"
         /\ cmd.kind # "done" => front' = front
<1>1. CASE cmd.kind = "done" /\ (ok \/ cmd.from # Owner)
  <2>1. front' = [front EXCEPT ![cmd.from].state = "finished"] /\ cmd.from \in Producers
    BY <1>1 DEF FrontDone
  <2> QED
    BY <1>1, <2>1, ZenonT(60) DEF Types, SameFronts
<1>2. CASE ~(cmd.kind = "done" /\ (ok \/ cmd.from # Owner))
  BY <1>2 DEF FrontDone, Types, SameFronts
<1> QED
  BY <1>1, <1>2

LEMMA SettleEndsInv ==
  ASSUME IInv, SettleEnds PROVE IInv'
<1> USE DEF IInv, Types, Handshake
<1>1. /\ wpc = "settle" /\ ~failed
      /\ UNCHANGED <<ring, active, clock, finished, pending, spilled, memory, sequence>>
      /\ \A p \in Producers : finished[p] => ~capturing[p]
  BY DEF SettleEnds, Control, Ended
<1>2. ASSUME cmd.kind \in {"done", "flush"}, NEW ok \in BOOLEAN, ~ok => cmd.kind = "flush",
             Answer(ok), FrontDone(ok),
             UNCHANGED <<capturing, accepted, shut, mailbox, sent, closed, rescue, at, quota, count,
                         panicked, backend>>
      PROVE  IInv'
  <2>1. /\ SameFronts /\ \A p \in Producers : p # cmd.from => front'[p] = front[p]
        /\ cmd.kind = "done" /\ ok => front'[cmd.from].state = "finished"
        /\ cmd.kind # "done" => front' = front
    BY <1>2, InHand, FrontAfterDone
  <2>2. cmd.kind = "done" => ok /\ calls[cmd.from] = "done"
    BY <1>2, InHand
  <2>3. failed' \/ ok
    BY <1>2 DEF Answer
  <2>4. \A p \in Producers :
          /\ capturing[p] => front'[p].state = "live"
          /\ p # cmd.from /\ front[p].state = "live" => front'[p].state = "live"
          /\ finished'[p] => /\ ~capturing[p]
                             /\ failed' \/ closed \/ front'[p].state # "live"
    BY <1>1, <1>2, <2>1, <2>2, <2>3 DEF Capturing, Ended
  <2>5. /\ failed' \in BOOLEAN /\ calls' \in [Callers -> CommandKinds] /\ cmd' \in Commands
        /\ wpc' = "poll" /\ (failed => failed')
        /\ Handshake'
    <3>1. cmd.kind \notin {"none", "shutdown", "rescue"} /\ wpc \notin {"stopping", "exited"}
      BY <1>1, <1>2
    <3> QED
      BY <1>2, <2>4, <3>1, Answered
  <2>6. Types'
    BY <1>1, <1>2, <2>1, <2>5 DEF SameFronts
  <2>7. Queues'
    BY <1>1, <1>2, <2>1, <2>5, SameQueues
  <2> QED
    BY <2>5, <2>6, <2>7
<1>3. ASSUME cmd.kind \in Finishes, Finalize,
             UNCHANGED <<frontVars, shut, mailbox, sent, at, quota, count, captured, applied>>
      PROVE  IInv'
  <2>1. \A p \in Producers : ~capturing[p]
    BY <1>1, <1>3, NobodyCaptures DEF Queues, Control
  <2>2. /\ failed' \in BOOLEAN /\ closed' \in BOOLEAN /\ (failed => failed')
        /\ calls' \in [Callers -> CommandKinds] /\ cmd' \in Commands
        /\ wpc' \in {"poll", "stopping"}
        /\ rescue' \in {"none", "refused", "closing", "waiting", "sealed", "failed"}
        /\ sealed' \in {"open", "complete", "incomplete"}
        /\ Handshake'
    BY <1>1, <1>3, <2>1, Finalized
  <2>3. Types'
    BY <1>1, <1>3, <2>2
  <2>4. Queues'
    BY <1>1, <1>3, <2>2, SameQueues DEF SameFronts
  <2> QED
    BY <2>2, <2>3, <2>4
<1>4. ASSUME cmd.kind = "flush", Abort(TRUE) PROVE IInv'
  <2>1. /\ failed' /\ calls' \in [Callers -> CommandKinds] /\ cmd' \in Commands
        /\ wpc' = "poll" /\ quota' = 0
        /\ rescue' \in {"none", "refused", "closing", "waiting", "sealed", "failed"}
        /\ Handshake'
    BY <1>1, <1>4, Aborted
  <2>2. failed' = TRUE
    BY <1>4 DEF Abort
  <2>3. Types'
    BY <1>1, <1>4, <2>1, <2>2 DEF Abort
  <2>4. Queues'
    BY <1>1, <1>4, <2>1, SameQueues DEF SameFronts, Abort
  <2> QED
    BY <2>1, <2>3, <2>4
<1>5. PICK ok \in BOOLEAN :
        \/ /\ cmd.kind \in {"done", "flush"}
           /\ (~ok => cmd.kind = "flush" /\ MayFail) /\ Answer(ok) /\ FrontDone(ok)
           /\ UNCHANGED <<capturing, accepted, shut, mailbox, sent, closed, rescue, at, quota, count,
                          panicked, backend>>
        \/ /\ cmd.kind \in Finishes /\ Finalize
           /\ UNCHANGED <<frontVars, shut, mailbox, sent, at, quota, count, captured, applied>>
        \/ cmd.kind = "flush" /\ MayFail /\ Abort(TRUE)
  BY Zenon DEF SettleEnds
<1> HIDE DEF IInv, Types, Handshake
<1> QED
  BY <1>2, <1>3, <1>4, <1>5

LEMMA ExecuteDoneInv ==
  ASSUME IInv, ExecuteDone PROVE IInv'
<1> USE DEF IInv, Types, Handshake
<1>1. /\ wpc = "execute" /\ cmd.kind = "done" /\ cmd.from \in Producers
      /\ front[cmd.from].state = "live" /\ calls[cmd.from] = "done" /\ ~capturing[cmd.from]
      /\ finished' = [finished EXCEPT ![cmd.from] = TRUE]
      /\ UNCHANGED <<capturing, accepted, ring, shut, mailbox, sent, closed, rescue, at, quota,
                     active, count, clock, pending, spilled, memory, sequence, panicked,
                     captured, applied, sealed>>
  BY InHand DEF ExecuteDone, Executing, Covered
<1>2. /\ finished' \in [Producers -> BOOLEAN] /\ finished'[cmd.from]
      /\ \A p \in Producers : finished'[p] => p = cmd.from \/ finished[p]
  BY <1>1
<1>3. ASSUME failed, Answer(FALSE), FrontDone(FALSE)
      PROVE  Types' /\ Handshake' /\ SameFronts /\ failed'
  <2>1. SameFronts /\ \A p \in Producers : p # cmd.from => front'[p] = front[p]
    BY <1>1, <1>3, FrontAfterDone
  <2>2. failed'
    BY <1>3 DEF Answer
  <2>3. \A p \in Producers :
          /\ capturing[p] => front'[p].state = "live"
          /\ p # cmd.from /\ front[p].state = "live" => front'[p].state = "live"
          /\ finished'[p] => /\ ~capturing[p]
                             /\ failed' \/ closed \/ front'[p].state # "live"
    <3>1. \A p \in Producers : capturing[p] => p # cmd.from /\ front[p].state = "live"
      BY <1>1 DEF Capturing
    <3>2. \A p \in Producers : finished'[p] => ~capturing[p]
      BY <1>1, <1>2 DEF Ended
    <3> QED
      BY <2>1, <2>2, <3>1, <3>2
  <2>4. /\ failed' \in BOOLEAN /\ calls' \in [Callers -> CommandKinds] /\ cmd' \in Commands
        /\ wpc' = "poll" /\ (failed => failed')
        /\ Handshake'
    <3>1. cmd.kind \notin {"none", "shutdown", "rescue"} /\ wpc \notin {"stopping", "exited"}
      BY <1>1
    <3> QED
      BY <1>1, <1>3, <2>3, <3>1, Answered
  <2>5. Types'
    BY <1>1, <1>2, <2>1, <2>4 DEF SameFronts
  <2> QED
    BY <2>1, <2>2, <2>4, <2>5
<1>4. ASSUME ~failed, wpc' = "settle", UNCHANGED <<cmd, calls, failed, front>>
      PROVE  Types' /\ Handshake' /\ SameFronts
  <2>1. Types' /\ SameFronts
    BY <1>1, <1>2, <1>4 DEF SameFronts
  <2>2. Outstanding' /\ CallsMade'
    BY <1>1, <1>4 DEF Outstanding, CallsMade
  <2>3. Control' /\ Emptied'
    BY <1>1, <1>4 DEF Control, Emptied, Covered, Finishes
  <2>4. Capturing' /\ Stopped'
    BY <1>1, <1>4 DEF Capturing, Stopped
  <2>5. Ended'
    BY <1>1, <1>2, <1>4 DEF Ended
  <2> QED
    BY <2>1, <2>2, <2>3, <2>4, <2>5
<1>5. Types' /\ Handshake' /\ SameFronts /\ (failed => failed')
  BY <1>3, <1>4 DEF ExecuteDone
<1>6. Queues'
  <2>1. ring[cmd.from] = << >>
    BY <1>1 DEF Emptied, Covered
  <2>2. ~(cmd.from >= count)
    BY <1>1 DEF Queues, Blank
  <2>3. cmd.from < count
    <3>a. cmd.from \in Nat
      BY <1>1, ActorsDistinct, Zenon
    <3>1. cmd.from \in Nat /\ count \in Nat
      BY <3>a
    <3> QED
      BY <2>2, <3>1, Beyond
  <2>4. \A p \in Producers : /\ finished'[p] /\ ~finished[p] => ring[p] = << >> /\ p < count
                             /\ finished[p] => finished'[p]
    BY <1>1, <1>2, <2>1, <2>3
  <2> QED
    BY <1>1, <1>2, <1>5, <2>4, Finishing
<1> QED
  BY <1>5, <1>6

LEMMA ExecuteFinishInv ==
  ASSUME IInv, ExecuteFinish PROVE IInv'
<1> USE DEF IInv, Types, Handshake
<1>1. /\ wpc = "execute" /\ cmd.kind \in Finishes /\ quota' = quota
      /\ UNCHANGED <<front, capturing, accepted, ring, shut, mailbox, sent, at, active, count, clock,
                     pending, spilled, memory, sequence, captured, applied>>
  BY DEF ExecuteFinish, Executing
<1>2. finished' = IF cmd.kind = "rescue" THEN [p \in Producers |-> finished[p] \/ p \in Registered]
                  ELSE IF Refused THEN finished ELSE [finished EXCEPT ![0] = TRUE]
  BY DEF ExecuteFinish
<1>3. /\ finished' \in [Producers -> BOOLEAN]
      /\ \A p \in Producers : finished'[p] /\ ~finished[p] => Covered(p) /\ p \in Registered
  BY <1>1, <1>2, InHand, Registering DEF Covered, Finishes, Owner, Registered
<1>4. /\ \A p \in Producers : finished'[p] => ~capturing[p]
      /\ cmd.kind \notin {"none", "shutdown"}
  BY <1>1, <1>3, InHand DEF Ended, Finishes
<1>z. \A p \in Producers : /\ finished'[p] /\ ~finished[p] => ring[p] = << >> /\ p < count
                           /\ finished[p] => finished'[p]
  <2>1. \A p \in Producers : p \in Registered => p < count
    BY Below, ActorsDistinct DEF Registered
  <2>2. \A p \in Producers : Covered(p) => ring[p] = << >>
    BY <1>1 DEF Emptied
  <2>3. \A p \in Producers : finished[p] => finished'[p]
    BY <1>2, ActorsDistinct
  <2> QED
    BY <1>3, <2>1, <2>2, <2>3
<1>5. ~Refused => \A p \in Producers : ~capturing[p]
  <2>1. ~Refused => \/ \A p \in Registered \ {0} : finished[p]
                    \/ cmd.kind = "rescue"
    BY DEF Refused, Unfinished
  <2> QED
    BY <1>1, <2>1, NobodyCaptures DEF Queues
<1>6. CASE Refused /\ EndFinish(FALSE) /\ UNCHANGED <<sealed, rescue, panicked>>
  <2>1. sealed = "open"
    BY <1>1 DEF Stopped
  <2>2. /\ failed' \in BOOLEAN /\ closed' \in BOOLEAN /\ (failed => failed')
        /\ calls' \in [Callers -> CommandKinds] /\ cmd' \in Commands
        /\ wpc' \in {"poll", "stopping"}
        /\ Handshake'
    BY <1>1, <1>4, <1>6, <2>1, FinishEnded
  <2>3. Types'
    BY <1>1, <1>3, <1>6, <2>2
  <2>4. Queues'
    BY <1>1, <1>3, <1>z, <1>6, <2>2, Finishing DEF SameFronts
  <2> QED
    BY <2>2, <2>3, <2>4
<1>7. CASE /\ ~Refused /\ ~failed /\ wpc' = "settle"
           /\ UNCHANGED <<cmd, calls, sharedVars, sealed, rescue, panicked>>
  <2>1. Types'
    BY <1>1, <1>3, <1>7
  <2>2. Outstanding' /\ CallsMade'
    BY <1>1, <1>7 DEF Outstanding, CallsMade
  <2>3. \A p \in Registered : finished'[p]
    <3>1. CASE cmd.kind = "rescue"
      BY <1>2, <3>1, Registering DEF Registered
    <3>2. CASE cmd.kind # "rescue"
      BY <1>2, <1>7, <3>2, ActorsDistinct, Registering DEF Refused, Unfinished, Registered
    <3> QED
      BY <3>1, <3>2
  <2>4. Control' /\ Emptied'
    BY <1>1, <1>7, <2>3 DEF Control, Emptied, Covered, Registered
  <2>5. Capturing' /\ Stopped'
    BY <1>1, <1>7 DEF Capturing, Stopped
  <2>6. Ended'
    BY <1>1, <1>3, <1>4, <1>7, InHand DEF Ended, Covered, Stopped, Finishes
  <2>7. Queues'
    BY <1>1, <1>3, <1>z, <1>7, Finishing DEF SameFronts
  <2> QED
    BY <2>1, <2>2, <2>4, <2>5, <2>6, <2>7
<1>8. CASE ~Refused /\ failed /\ Finalize
  <2>1. /\ failed' \in BOOLEAN /\ closed' \in BOOLEAN /\ (failed => failed')
        /\ calls' \in [Callers -> CommandKinds] /\ cmd' \in Commands
        /\ wpc' \in {"poll", "stopping"}
        /\ rescue' \in {"none", "refused", "closing", "waiting", "sealed", "failed"}
        /\ sealed' \in {"open", "complete", "incomplete"}
        /\ Handshake'
    BY <1>1, <1>5, <1>8, Finalized
  <2>2. Types'
    BY <1>1, <1>3, <1>8, <2>1
  <2>3. Queues'
    BY <1>1, <1>3, <1>z, <2>1, Finishing DEF SameFronts
  <2> QED
    BY <2>1, <2>2, <2>3
<1>9. \/ Refused /\ EndFinish(FALSE) /\ UNCHANGED <<sealed, rescue, panicked>>
      \/ /\ ~Refused /\ ~failed /\ wpc' = "settle"
         /\ UNCHANGED <<cmd, calls, sharedVars, sealed, rescue, panicked>>
      \/ ~Refused /\ failed /\ Finalize
  BY DEF ExecuteFinish
<1> QED
  BY <1>6, <1>7, <1>8, <1>9

-----------------------------------------------------------------------------
(* Captures on their way. *)

LEMMA PublishInv ==
  ASSUME IInv, NEW p \in Producers, NEW time \in 0 .. MaxTime, NEW fate \in Fates,
         Publish(p, time, fate)
  PROVE  IInv'
<1> USE DEF IInv, Types, Handshake
<1> DEFINE op == [from |-> p, n |-> Len(accepted[p]) + 1, stamp |-> time,
                  progress |-> time > front[p].time, fate |-> fate]
<1>1. /\ capturing[p] /\ front[p].time <= time
      /\ ring' = [ring EXCEPT ![p] = Append(@, op)]
      /\ front' = [front EXCEPT ![p].time = time]
      /\ accepted' = [accepted EXCEPT ![p] = Append(@, time)]
      /\ capturing' = [capturing EXCEPT ![p] = FALSE]
      /\ UNCHANGED <<shut, mailbox, calls, sent, closed, failed, rescue, wpc, cmd, at, quota, active,
                     count, clock, finished, pending, spilled, memory, sequence, panicked,
                     captured, applied, sealed>>
  BY DEF Publish
<1>2. /\ time \in Nat /\ op \in Ops /\ op.n = Len(accepted[p]) + 1 /\ op.stamp = time
      /\ op.from = p
  BY LenProperties, TransportAssumption DEF Ops
<1> HIDE DEF op
<1>3. /\ accepted'[p] \in Seq(Nat) /\ Len(accepted[p]) \in Nat
      /\ Len(accepted'[p]) = Len(accepted[p]) + 1 /\ accepted'[p][Len(accepted[p]) + 1] = time
      /\ \A i \in 1 .. Len(accepted[p]) : accepted'[p][i] = accepted[p][i]
      /\ \A i \in 1 .. Len(accepted'[p]) : i \in 1 .. Len(accepted[p]) \/ i = Len(accepted[p]) + 1
  <2> DEFINE times == Nat
  <2>1. accepted'[p] = Append(accepted[p], time) /\ accepted[p] \in Seq(times) /\ time \in times
    BY <1>1, <1>2
  <2> HIDE DEF times
  <2>2. /\ accepted'[p] \in Seq(times) /\ Len(accepted[p]) \in Nat
        /\ Len(accepted'[p]) = Len(accepted[p]) + 1 /\ accepted'[p][Len(accepted[p]) + 1] = time
        /\ \A i \in 1 .. Len(accepted[p]) : accepted'[p][i] = accepted[p][i]
        /\ \A i \in 1 .. Len(accepted'[p]) : i \in 1 .. Len(accepted[p]) \/ i = Len(accepted[p]) + 1
    BY <2>1, Appended
  <2> QED
    BY <2>2 DEF times
<1>4. /\ ring'[p] \in Seq(Ops) /\ Len(ring[p]) \in Nat
      /\ Len(ring'[p]) = Len(ring[p]) + 1 /\ ring'[p][Len(ring[p]) + 1] = op
      /\ \A i \in 1 .. Len(ring[p]) : ring'[p][i] = ring[p][i]
      /\ \A i \in 1 .. Len(ring'[p]) : i \in 1 .. Len(ring[p]) \/ i = Len(ring[p]) + 1
  <2>1. ring'[p] = Append(ring[p], op) /\ ring[p] \in Seq(Ops) /\ op \in Ops
    BY <1>1, <1>2
  <2> QED
    BY <2>1, Appended
<1>5. /\ \A q \in Producers : q # p => /\ ring'[q] = ring[q] /\ accepted'[q] = accepted[q]
                                       /\ front'[q] = front[q]
      /\ front'[p].time = time /\ front'[p].state = front[p].state /\ ~capturing'[p]
      /\ \A q \in Producers : capturing'[q] => capturing[q]
  BY <1>1
<1>6. Types'
  <2>1. /\ front' \in [Producers ->
             [state : {"absent", "live", "finished", "dropping", "joining"}, time : Nat]]
        /\ capturing' \in [Producers -> BOOLEAN]
    <3>1. ASSUME NEW q \in Producers
          PROVE  front'[q] \in [state : {"absent", "live", "finished", "dropping", "joining"},
                                time : Nat]
      BY <1>1, <1>2, ZenonT(60)
    <3>2. front' = [q \in Producers |-> front'[q]]
      BY <1>1
    <3> QED
      BY <1>1, <3>1, <3>2
  <2>2. accepted' \in [Producers -> Seq(Nat)] /\ ring' \in [Producers -> Seq(Ops)]
    BY <1>1, <1>3, <1>4
  <2> QED
    BY <1>1, <2>1, <2>2, ZenonT(60)
<1>7. Outstanding' /\ CallsMade'
  BY <1>1, <1>5 DEF Outstanding, CallsMade
<1>8. Control'
  BY <1>1, <1>4, <1>5, Registering, SMTT(30) DEF Control, Registered
<1>9. Emptied'
  <2>1. \A q \in Producers : Covered(q) => q # p
    BY <1>1, InHand DEF Covered
  <2> QED
    BY <1>1, <1>5, <2>1, ZenonT(60) DEF Emptied, Covered
<1>10. Capturing' /\ Stopped' /\ Ended'
  BY <1>1, <1>5, ZenonT(60) DEF Capturing, Stopped, Ended
<1>11. Queues'
  <2> USE DEF Queues
  <2>1. \A q \in Producers : \A i \in 1 .. Len(accepted[q]) :
          i \in 1 .. Len(accepted'[q]) /\ accepted'[q][i] = accepted[q][i]
    <3>1. ASSUME NEW i \in 1 .. Len(accepted[p]) PROVE i \in 1 .. Len(accepted'[p])
      BY <1>3
    <3> QED
      BY <1>3, <1>5, <3>1
  <2>2. Sorted'
    <3>1. ASSUME NEW q \in Producers, q # p, NEW i \in 1 .. Len(accepted'[q])
          PROVE  /\ accepted'[q][i] <= front'[q].time
                 /\ \A j \in 1 .. Len(accepted'[q]) : i <= j => accepted'[q][i] <= accepted'[q][j]
      BY <1>5, <3>1 DEF Sorted
    <3>2. \A i \in 1 .. Len(accepted[p]) :
            /\ accepted'[p][i] <= time
            /\ \A j \in 1 .. Len(accepted[p]) : i <= j => accepted'[p][i] <= accepted'[p][j]
      <4>1. ASSUME NEW i \in 1 .. Len(accepted[p])
            PROVE  accepted[p][i] \in Nat /\ accepted[p][i] <= front[p].time /\ front[p].time \in Nat
        BY ElementOfSeq DEF Sorted
      <4>2. ASSUME NEW n \in Nat, NEW m \in Nat, n <= m, m <= time PROVE n <= time
        BY <1>2, <4>2
      <4>3. \A i \in 1 .. Len(accepted[p]) : accepted[p][i] <= time
        BY <1>1, <4>1, <4>2
      <4> QED
        BY <1>3, <4>3 DEF Sorted
    <3>3. accepted'[p][Len(accepted[p]) + 1] = time /\ time <= time
      BY <1>2, <1>3
    <3>4. ASSUME NEW i \in 1 .. Len(accepted'[p])
          PROVE  /\ accepted'[p][i] <= front'[p].time
                 /\ \A j \in 1 .. Len(accepted'[p]) : i <= j => accepted'[p][i] <= accepted'[p][j]
      <4>1. CASE i \in 1 .. Len(accepted[p])
        BY <1>3, <1>5, <3>2, <3>3, <4>1
      <4>2. CASE i = Len(accepted[p]) + 1
        <5>1. \A j \in 1 .. Len(accepted'[p]) : i <= j => j = i
          BY <1>3, <4>2
        <5> QED
          BY <1>5, <3>3, <4>2, <5>1
      <4> QED
        BY <1>3, <4>1, <4>2
    <3> QED
      BY <3>1, <3>4 DEF Sorted
  <2>a. UNCHANGED <<clock, finished, pending, spilled, captured, applied, count, failed>>
    BY <1>1
  <2>b. /\ front[p].time \in Nat /\ clock[p] \in Nat /\ ~finished[p]
        /\ \A q \in Producers : /\ Len(pending[q]) \in Nat /\ Len(spilled[q]) \in Nat
                                /\ Held(q) \in Nat
        /\ \A i \in 1 .. Len(applied) : applied[i][1] \in Producers
    <3>1. \A q \in Producers : Len(pending[q]) \in Nat /\ Len(spilled[q]) \in Nat
      BY LenProperties
    <3>2. \A q \in Producers : Held(q) \in Nat
      BY HeldNat
    <3>3. \A i \in 1 .. Len(applied) : applied[i][1] \in Producers
      BY Entered
    <3>4. ~finished[p]
      BY <1>1 DEF Ended
    <3> QED
      BY <3>1, <3>2, <3>3, <3>4
  <2>c. capturing[p] /\ front[p].time <= time /\ Merged /\ Conveyed
    BY <1>1
  <2> HIDE DEF IInv, Types, Handshake, Queues
  <2>3. Merged'
    BY <2>1, <2>a, <2>b, <2>c, ZenonT(60) DEF Merged
  <2>4. ASSUME Frontier PROVE Frontier'
    <3>1. ASSUME p \in Registered
          PROVE  clock[p] <= front'[p].time /\ \A i \in 1 .. Len(ring'[p]) : clock[p] <= ring'[p][i].stamp
      <4>1. clock[p] <= front[p].time /\ \A i \in 1 .. Len(ring[p]) : clock[p] <= ring[p][i].stamp
        BY <2>4, <3>1 DEF Frontier
      <4>2. clock[p] <= time
        BY <1>2, <2>b, <2>c, <4>1
      <4> QED
        <5>1. clock[p] <= front'[p].time
          BY <1>5, <4>2
        <5>2. ASSUME NEW i \in 1 .. Len(ring'[p]) PROVE clock[p] <= ring'[p][i].stamp
          <6>1. CASE i \in 1 .. Len(ring[p])
            BY <1>4, <4>1, <6>1
          <6>2. CASE i = Len(ring[p]) + 1
            BY <1>2, <1>4, <4>2, <6>2
          <6> QED
            BY <1>4, <6>1, <6>2
        <5> QED
          BY <5>1, <5>2
    <3>2. \A q \in Producers, e \in Entries : InQueue(q, e)' = InQueue(q, e)
      BY <2>a DEF InQueue
    <3>3. Registered' = Registered /\ Registered \subseteq Producers
      BY <2>a, Registering DEF Registered, IInv, Types
    <3> QED
      BY <1>5, <2>4, <2>a, <2>b, <3>1, <3>2, <3>3 DEF Frontier
  <2>5. ASSUME NEW q \in Producers, Placed(q) PROVE Placed(q)'
    <3>1. Held(q)' = Held(q)
      BY <2>a DEF Held
    <3>2. /\ FollowsIn(pending[q], Held(q), q)'
          /\ FollowsIn(spilled[q], Held(q) + Len(pending[q]), q)'
      BY <2>1, <2>5, <2>a, <3>1, ZenonT(60) DEF Placed, FollowsIn
    <3>3. CASE q # p
      BY <1>5, <2>5, <2>a, <3>1, <3>2, <3>3 DEF Placed, Follows
    <3>4. CASE q = p
      <4> DEFINE before == Held(q) + Len(pending[q]) + Len(spilled[q])
      <4>1. before + Len(ring[q]) = Len(accepted[q]) /\ Follows(ring[q], before, q)
        BY <2>5 DEF Placed
      <4>2. before \in Nat /\ before' = before
        BY <2>a, <2>b, <3>1
      <4> HIDE DEF before
      <4>3. /\ ring'[q][Len(ring[q]) + 1] = op /\ before + (Len(ring[q]) + 1) = Len(accepted[q]) + 1
            /\ Len(accepted[q]) + 1 \in 1 .. Len(accepted'[q])
            /\ before + Len(ring'[q]) = Len(accepted'[q])
        <5>1. ASSUME NEW n \in Nat, NEW k \in Nat, NEW m \in Nat, NEW l, k + n = m, l = m + 1
              PROVE  k + (n + 1) = m + 1 /\ m + 1 \in 1 .. l
          BY <5>1
        <5>2. /\ Len(accepted[q]) \in Nat /\ Len(ring[q]) \in Nat
              /\ Len(accepted'[q]) = Len(accepted[q]) + 1 /\ Len(ring'[q]) = Len(ring[q]) + 1
              /\ ring'[q][Len(ring[q]) + 1] = op
          BY <1>3, <1>4, <3>4
        <5>3. /\ before + (Len(ring[q]) + 1) = Len(accepted[q]) + 1
              /\ Len(accepted[q]) + 1 \in 1 .. Len(accepted'[q])
          BY <4>1, <4>2, <5>1, <5>2, Zenon
        <5> QED
          BY <5>2, <5>3
      <4>4. ASSUME NEW i \in 1 .. Len(ring'[q])
            PROVE  /\ ring'[q][i].from = q /\ ring'[q][i].n = before + i
                   /\ before + i \in 1 .. Len(accepted'[q])
                   /\ ring'[q][i].stamp = accepted'[q][before + i]
        <5>1. CASE i \in 1 .. Len(ring[q])
          BY <1>4, <2>1, <3>4, <4>1, <5>1 DEF Follows
        <5>2. CASE i = Len(ring[q]) + 1
          BY <1>2, <1>3, <3>4, <4>3, <5>2
        <5> QED
          BY <1>4, <3>4, <5>1, <5>2
      <4>5. Follows(ring[q], before, q)'
        BY <4>2, <4>4 DEF Follows
      <4> QED
        BY <3>2, <4>2, <4>3, <4>5 DEF Placed, before
    <3> QED
      BY <3>3, <3>4
  <2>6. Conveyed'
    BY <2>c, <2>a, <2>4, <2>5, Zenon DEF Conveyed
  <2> USE DEF IInv, Types, Queues
  <2>7. Blank'
    <3>1. ~(p >= count)
      BY <1>1 DEF Blank
    <3> QED
      BY <1>1, <1>5, <3>1 DEF Blank
  <2>8. Sequenced' /\ Budget'
    <3>1. UNCHANGED <<pending, spilled, sequence, memory>>
      BY <1>1
    <3> HIDE DEF Types, Handshake
    <3> QED
      BY <3>1 DEF Sequenced, Budget, InQueue, Places, Total
  <2> QED
    BY <2>2, <2>3, <2>6, <2>7, <2>8
<1> QED
  BY <1>6, <1>7, <1>8, <1>9, <1>10, <1>11

-----------------------------------------------------------------------------
(* The worker takes the oldest capture of a channel. *)

LEMMA OldestKnown ==
  ASSUME Types, Control, wpc = "take", quota > 0
  PROVE  /\ at \in Registered /\ at \in Producers /\ at < count /\ Registered \subseteq Producers
         /\ ring[at] # << >> /\ Len(ring[at]) \in Nat /\ Len(ring[at]) >= 1 /\ 1 \in 1 .. Len(ring[at])
         /\ Oldest \in Ops /\ Oldest = ring[at][1] /\ Oldest.stamp \in Nat /\ quota <= Len(ring[at])
<1>1. /\ at \in Registered /\ Registered \subseteq Producers /\ count \in Nat /\ quota \in Nat
      /\ quota <= Len(ring[at])
  BY Registering DEF Registered, Types, Control
<1>2. at < count
  BY <1>1, Below, ActorsDistinct DEF Registered
<1>3. ring[at] \in Seq(Ops) /\ Len(ring[at]) \in Nat
  BY <1>1, LenProperties DEF Types
<1>4. Len(ring[at]) >= 1 /\ Len(ring[at]) # 0
  BY <1>1, <1>3
<1>5. ring[at] # << >>
  BY <1>3, <1>4, EmptySeq
<1>6. Oldest \in Ops /\ Oldest = ring[at][1]
  BY <1>3, <1>5, TailOne DEF Oldest
<1>7. Oldest.stamp \in Nat
  BY <1>6 DEF Ops
<1> QED
  BY <1>1, <1>2, <1>3, <1>4, <1>5, <1>6, <1>7, Nonempty

LEMMA RingShorter ==
  ASSUME Types, Control, Consume
  PROVE  /\ ring' \in [Producers -> Seq(Ops)]
         /\ \A q \in Producers : q # at => ring'[q] = ring[q]
         /\ Len(ring'[at]) = Len(ring[at]) - 1
         /\ \A i \in 1 .. Len(ring'[at]) : ring'[at][i] = ring[at][i + 1] /\ i + 1 \in 1 .. Len(ring[at])
<1>1. wpc = "take" /\ quota > 0 /\ ring' = [ring EXCEPT ![at] = Tail(@)]
  BY DEF Consume
<1>2. at \in Producers /\ ring[at] # << >>
  BY <1>1, OldestKnown
<1>3. ring[at] \in Seq(Ops) /\ ring'[at] = Tail(ring[at]) /\ ring \in [Producers -> Seq(Ops)]
  BY <1>1, <1>2 DEF Types
<1>4. /\ ring'[at] \in Seq(Ops) /\ Len(ring'[at]) = Len(ring[at]) - 1
      /\ \A i \in 1 .. Len(ring'[at]) : ring'[at][i] = ring[at][i + 1] /\ i + 1 \in 1 .. Len(ring[at])
  BY <1>2, <1>3, TailOne
<1> QED
  BY <1>1, <1>2, <1>3, <1>4

\* The capture is the next one of its producer; it respects the producer's promise and the
\* recording's time.
LEMMA OldestLegal ==
  ASSUME IInv, ~failed, wpc = "take", quota > 0
  PROVE  /\ Legal(Oldest) /\ captured <= Oldest.stamp /\ Oldest.stamp <= front[at].time
         /\ Placed(at) /\ Frontier
         /\ \A i \in 1 .. Len(ring[at]) : Oldest.stamp <= ring[at][i].stamp
<1>1. /\ at \in Registered /\ at \in Producers /\ ring[at] # << >>
      /\ 1 \in 1 .. Len(ring[at]) /\ Oldest = ring[at][1] /\ Oldest.stamp \in Nat
  BY OldestKnown DEF IInv, Handshake
<1>2. Placed(at) /\ Frontier /\ Sorted
  BY <1>1 DEF IInv, Queues, Conveyed
<1>3. ~finished[at] /\ clock[at] <= Oldest.stamp /\ captured <= clock[at]
  BY <1>1, <1>2 DEF Frontier
<1>4. captured \in Nat /\ clock[at] \in Nat
  BY <1>1 DEF IInv, Types
<1>5. captured <= Oldest.stamp
  BY <1>1, <1>3, <1>4
<1> DEFINE before == Held(at) + Len(pending[at]) + Len(spilled[at])
<1>6. before \in Nat
  BY <1>1, HeldNat, LenProperties DEF IInv, Types
<1>7. Follows(ring[at], before, at)
  BY <1>2 DEF Placed
<1> HIDE DEF before
<1>8. before + 1 \in 1 .. Len(accepted[at]) /\ Oldest.stamp = accepted[at][before + 1]
  BY <1>1, <1>7 DEF Follows
<1>9. Oldest.stamp <= front[at].time
  BY <1>1, <1>2, <1>8 DEF Sorted
<1>10. ASSUME NEW i \in 1 .. Len(ring[at]) PROVE Oldest.stamp <= ring[at][i].stamp
  <2>1. before + i \in 1 .. Len(accepted[at]) /\ ring[at][i].stamp = accepted[at][before + i]
    BY <1>7 DEF Follows
  <2>2. before + 1 <= before + i
    BY <1>6
  <2> QED
    BY <1>1, <1>2, <1>8, <2>1, <2>2 DEF Sorted
<1> QED
  BY <1>1, <1>2, <1>3, <1>5, <1>9, <1>10 DEF Legal

LEMMA ConsumedHandshake ==
  ASSUME IInv, Consume, Consumed, finished' = finished, sealed' = sealed
  PROVE  Handshake' /\ quota' \in Nat
<1> USE DEF IInv, Types, Handshake, Consumed
<1>1. /\ at \in Producers /\ Len(ring[at]) \in Nat /\ quota <= Len(ring[at]) /\ wpc = "take"
      /\ Len(ring'[at]) = Len(ring[at]) - 1
      /\ \A q \in Producers : q # at => ring'[q] = ring[q]
      /\ quota > 0 /\ quota' = quota - 1
  BY OldestKnown, RingShorter DEF Consume
<1>2. Outstanding' /\ CallsMade'
  BY DEF Outstanding, CallsMade
<1>3. Control'
  BY <1>1 DEF Control, Registered
<1>4. Emptied'
  <2>1. ASSUME NEW p \in Producers, Covered(p), p < at PROVE ring'[p] = << >>
    <3>1. p # at
      BY <1>1, <2>1, ActorsDistinct
    <3> QED
      BY <1>1, <2>1, <3>1 DEF Emptied
  <2>2. Covered(at) => quota - 1 = Len(ring[at]) - 1
    BY <1>1 DEF Emptied
  <2> QED
    BY <1>1, <2>1, <2>2 DEF Emptied, Covered
<1>5. Capturing' /\ Stopped' /\ Ended'
  BY DEF Capturing, Stopped, Ended
<1>6. quota' \in Nat
  BY <1>1
<1> QED
  BY <1>2, <1>3, <1>4, <1>5, <1>6

LEMMA FrontierTaken ==
  ASSUME IInv, ~failed, Consume, UNCHANGED <<front, finished, count>>,
         \A q \in Producers : q # at => clock'[q] = clock[q],
         clock'[at] \in {clock[at], Oldest.stamp},
         captured' <= clock'[at],
         count = 1 \/ captured' = captured,
         \A q \in Registered, e \in Entries : InQueue(q, e)' => captured' <= e.op.stamp
  PROVE  Frontier'
<1>1. wpc = "take" /\ quota > 0
  BY DEF Consume
<1>2. /\ at \in Registered /\ at \in Producers /\ ring[at] # << >> /\ Registered \subseteq Producers
      /\ Oldest.stamp <= front[at].time /\ Frontier /\ ~finished[at]
      /\ \A i \in 1 .. Len(ring[at]) : Oldest.stamp <= ring[at][i].stamp
  BY <1>1, OldestKnown, OldestLegal DEF IInv, Handshake, Legal
<1>3. /\ \A q \in Producers : q # at => ring'[q] = ring[q]
      /\ \A i \in 1 .. Len(ring'[at]) : ring'[at][i] = ring[at][i + 1] /\ i + 1 \in 1 .. Len(ring[at])
  BY RingShorter DEF IInv, Handshake
<1>4. Registered' = Registered
  BY DEF Registered
<1>5. ASSUME NEW q \in Registered, q # at PROVE captured' = captured
  <2>1. CASE count = 1
    <3>1. at = 0 /\ q = 0
      BY <1>2, <2>1 DEF Registered
    <3> QED
      BY <1>5, <3>1
  <2> QED
    BY <2>1
<1>6. ASSUME NEW q \in Registered, q # at
      PROVE  /\ \A i \in 1 .. Len(ring'[q]) : clock'[q] <= ring'[q][i].stamp
             /\ clock'[q] <= front'[q].time
             /\ ~finished'[q] => captured' <= clock'[q]
             /\ finished'[q] => ring'[q] = << >>
  BY <1>2, <1>3, <1>5, <1>6 DEF Frontier
<1>7. /\ \A i \in 1 .. Len(ring'[at]) : clock'[at] <= ring'[at][i].stamp
      /\ clock'[at] <= front[at].time
  BY <1>2, <1>3 DEF Frontier
<1> QED
  BY <1>2, <1>4, <1>6, <1>7 DEF Frontier

\* A capture has left its channel, and what was already on its way has not changed.
LEMMA PlacedElsewhere ==
  ASSUME NEW q \in Producers, Placed(q), ring'[q] = ring[q], pending'[q] = pending[q],
         spilled'[q] = spilled[q], Held(q)' = Held(q), accepted' = accepted
  PROVE  Placed(q)'
BY DEF Placed, Follows, FollowsIn

LEMMA Emptying ==
  ASSUME Types, Blank, SameFronts, NEW p \in Registered, Queue(p) # << >>,
         UNCHANGED <<capturing, accepted, ring, finished, count>>,
         \A q \in Producers : q # p => pending'[q] = pending[q] /\ spilled'[q] = spilled[q]
  PROVE  Blank'
<1>1. p \in Producers /\ p < count /\ ~(p >= count)
  BY Registering, Below, ActorsDistinct DEF Registered, Types
<1>2. count # 1
  <2>1. CASE count = 1
    <3>1. pending[p] = << >> /\ spilled[p] = << >>
      BY <1>1, <2>1 DEF Blank
    <3>2. Queue(p) = << >>
      BY <3>1 DEF Queue
    <3> QED
      BY <3>2
  <2> QED
    BY <2>1
<1> QED
  BY <1>1, <1>2 DEF Blank, SameFronts

LEMMA TakeDiscardInv ==
  ASSUME IInv, TakeDiscard PROVE IInv'
<1>1. /\ failed /\ failed' = failed /\ Consume /\ Consumed /\ active' = TRUE
      /\ UNCHANGED <<front, capturing, accepted, shut, mailbox, calls, sent, closed, rescue, wpc, cmd,
                     at, count, clock, finished, pending, spilled, memory, sequence, panicked,
                     captured, applied, sealed>>
  BY DEF TakeDiscard, Consumed, Consume
<1>2. Handshake' /\ quota' \in Nat
  BY <1>1, ConsumedHandshake
<1>3. /\ ring' \in [Producers -> Seq(Ops)] /\ at < count /\ at \in Producers
      /\ \A q \in Producers : q # at => ring'[q] = ring[q]
  BY <1>1, RingShorter, OldestKnown DEF IInv, Handshake, Consume
<1>4. Types'
  BY <1>1, <1>2, <1>3 DEF IInv, Types
<1>5. Blank'
  <2>1. ~(at >= count)
    BY <1>3, ActorsDistinct DEF IInv, Types
  <2> QED
    BY <1>1, <1>3, <2>1 DEF IInv, Queues, Blank
<1>6. Sorted' /\ Merged' /\ Conveyed'
  BY <1>1 DEF IInv, Queues, Sorted, Merged, Conveyed
<1>7. Sequenced' /\ Budget'
  BY <1>1 DEF IInv, Queues, Sequenced, Budget, InQueue, Places, Total
<1> QED
  BY <1>2, <1>4, <1>5, <1>6, <1>7 DEF IInv, Queues

LEMMA TakeDirectInv ==
  ASSUME IInv, TakeDirect PROVE IInv'
<1>1. /\ ~failed /\ count = 1 /\ Consume /\ active' = TRUE
      /\ clock' = [clock EXCEPT ![0] = Oldest.stamp]
      /\ UNCHANGED <<finished, pending, spilled, memory, sequence>>
  BY DEF TakeDirect, Consume
<1>2. /\ at \in Registered /\ at \in Producers /\ at < count /\ Oldest \in Ops
      /\ Oldest.stamp \in Nat /\ Len(ring[at]) \in Nat /\ Len(ring[at]) >= 1
      /\ 1 \in 1 .. Len(ring[at]) /\ Oldest = ring[at][1]
  BY <1>1, OldestKnown DEF IInv, Handshake, Consume
<1>3. at = 0
  BY <1>1, <1>2 DEF Registered
<1>4. /\ captured <= Oldest.stamp /\ Placed(at)
  BY <1>1, OldestLegal DEF Consume
<1>5. /\ ring' \in [Producers -> Seq(Ops)]
      /\ \A q \in Producers : q # at => ring'[q] = ring[q]
      /\ Len(ring'[at]) = Len(ring[at]) - 1
      /\ \A i \in 1 .. Len(ring'[at]) : ring'[at][i] = ring[at][i + 1] /\ i + 1 \in 1 .. Len(ring[at])
  BY <1>1, RingShorter DEF IInv, Handshake
<1>6. /\ clock' \in [Producers -> Nat] /\ clock'[at] = Oldest.stamp
      /\ \A q \in Producers : q # at => clock'[q] = clock[q]
  BY <1>1, <1>2, <1>3 DEF IInv, Types
<1>7. /\ \A q \in Producers : pending[q] = << >> /\ spilled[q] = << >>
      /\ \A q \in Producers, e \in Entries : ~InQueue(q, e)'
  BY <1>1 DEF IInv, Queues, Blank, InQueue
<1>8. ASSUME UNCHANGED <<front, capturing, accepted, count>> PROVE Blank'
  <2>1. ~(at >= count)
    BY <1>1, <1>3
  <2> QED
    BY <1>1, <1>5, <1>7, <1>8, <2>1 DEF IInv, Queues, Blank
<1>9. Sequenced' /\ Budget'
  BY <1>1 DEF IInv, Queues, Sequenced, Budget, InQueue, Places, Total
<1>10. ASSUME Apply(Oldest), Consumed PROVE IInv'
  <2>1. /\ UNCHANGED <<front, capturing, accepted, shut, mailbox, calls, sent, closed, failed, rescue,
                       wpc, cmd, at, count, panicked, sealed>>
        /\ captured' = IF Oldest.stamp > captured THEN Oldest.stamp ELSE captured
        /\ applied' = Append(applied, <<Oldest.from, Oldest.n>>)
    BY <1>10 DEF Apply, Consumed
  <2>2. captured \in Nat /\ captured' = Oldest.stamp
    BY <1>2, <1>4, <2>1 DEF IInv, Types
  <2>3. Handshake' /\ quota' \in Nat
    BY <1>1, <1>10, <2>1, ConsumedHandshake
  <2> DEFINE n == Held(at) + 1
  <2>4. /\ Held(at) \in Nat /\ Oldest.from = at /\ Oldest.n = n
        /\ n \in 1 .. Len(accepted[at]) /\ Oldest.stamp = accepted[at][n]
        /\ Held(at) + Len(ring[at]) = Len(accepted[at])
        /\ \A i \in 1 .. Len(ring[at]) : /\ ring[at][i].from = at /\ ring[at][i].n = Held(at) + i
                                         /\ Held(at) + i \in 1 .. Len(accepted[at])
                                         /\ ring[at][i].stamp = accepted[at][Held(at) + i]
    <3>1. Held(at) \in Nat
      BY HeldNat DEF IInv, Types
    <3>2. Held(at) + Len(pending[at]) + Len(spilled[at]) = Held(at)
      BY <1>2, <1>7, <3>1
    <3> QED
      BY <1>2, <1>4, <3>1, <3>2 DEF Placed, Follows
  <2> HIDE DEF n
  <2>5. <<Oldest.from, Oldest.n>> \in Producers \X Nat /\ Oldest.from = at
    BY <1>2, <2>4 DEF n, Ops
  <2>6. /\ applied' \in Seq(Producers \X Nat) /\ Len(applied) \in Nat
        /\ applied'[Len(applied) + 1] = <<at, n>>
        /\ \A i \in 1 .. Len(applied) : applied'[i] = applied[i]
        /\ \A i \in 1 .. Len(applied') : i \in 1 .. Len(applied) \/ i = Len(applied) + 1
    <3>1. applied \in Seq(Producers \X Nat)
      BY DEF IInv, Types
    <3> QED
      BY <2>1, <2>4, <2>5, <3>1, Appended
  <2>7. \A q \in Producers : Held(q)' = Held(q) + (IF q = at THEN 1 ELSE 0)
    BY <1>2, <2>1, <2>5, HeldGrows DEF IInv, Types
  <2>8. Types'
    BY <1>1, <1>5, <1>6, <2>1, <2>2, <2>3, <2>6, <1>2 DEF IInv, Types
  <2>9. Merged'
    <3>1. ASSUME NEW i \in 1 .. Len(applied)
          PROVE  /\ applied[i][2] \in 1 .. Len(accepted[applied[i][1]])
                 /\ accepted[applied[i][1]][applied[i][2]] <= captured
                 /\ accepted[applied[i][1]][applied[i][2]] \in Nat
      <4>1. applied[i][1] \in Producers
        BY Entered DEF IInv, Types
      <4> QED
        BY <4>1, ElementOfSeq DEF IInv, Types, Queues, Merged
    <3>2. ASSUME NEW i \in 1 .. Len(applied)
          PROVE  accepted[applied[i][1]][applied[i][2]] <= Oldest.stamp
      BY <1>2, <1>4, <2>2, <3>1, SMTT(30)
    <3>3. ASSUME NEW i \in 1 .. Len(applied')
          PROVE  /\ applied'[i][2] \in 1 .. Len(accepted[applied'[i][1]])
                 /\ accepted[applied'[i][1]][applied'[i][2]] <= Oldest.stamp
      <4>1. CASE i \in 1 .. Len(applied)
        BY <2>6, <3>1, <3>2, <4>1
      <4>2. CASE i = Len(applied) + 1
        <5>1. applied'[i][1] = at /\ applied'[i][2] = n
          BY <2>6, <4>2
        <5>2. Oldest.stamp <= Oldest.stamp
          BY <1>2
        <5> QED
          BY <2>4, <5>1, <5>2
      <4> QED
        BY <2>6, <4>1, <4>2
    <3> QED
      BY <2>1, <2>2, <3>3 DEF Merged
  <2>10. ASSUME NEW q \in Producers, q = at PROVE Placed(q)'
    <3>1. /\ Held(q)' = Held(q) + 1 /\ Held(q) \in Nat
          /\ Len(pending'[q]) = 0 /\ Len(spilled'[q]) = 0
      BY <1>1, <1>7, <2>4, <2>7, <2>10
    <3>2. Held(q)' + Len(pending'[q]) + Len(spilled'[q]) = Held(q) + 1
      BY <3>1
    <3>3. ASSUME NEW i \in 1 .. Len(ring'[q])
          PROVE  /\ ring'[q][i].from = q /\ ring'[q][i].n = Held(q) + 1 + i
                 /\ Held(q) + 1 + i \in 1 .. Len(accepted'[q])
                 /\ ring'[q][i].stamp = accepted'[q][Held(q) + 1 + i]
      <4>1. Held(q) + (i + 1) = Held(q) + 1 + i
        BY <3>1
      <4> QED
        <5>1. ring'[q][i] = ring[q][i + 1] /\ i + 1 \in 1 .. Len(ring[q])
          BY <1>5, <2>10
        <5>2. /\ ring[q][i + 1].from = q /\ ring[q][i + 1].n = Held(q) + (i + 1)
              /\ Held(q) + (i + 1) \in 1 .. Len(accepted[q])
              /\ ring[q][i + 1].stamp = accepted[q][Held(q) + (i + 1)]
          BY <2>4, <2>10, <5>1
        <5> QED
          BY <2>1, <4>1, <5>1, <5>2
    <3>4. Held(q) + 1 + Len(ring'[q]) = Len(accepted'[q])
      <4>1. ASSUME NEW h \in Nat, NEW l \in Nat, NEW m, h + l = m PROVE h + 1 + (l - 1) = m
        BY <4>1
      <4>2. Held(q) + 1 + (Len(ring[q]) - 1) = Len(accepted[q])
        BY <1>2, <2>4, <2>10, <4>1
      <4> QED
        BY <1>5, <2>1, <2>10, <4>2
    <3> QED
      BY <3>1, <3>2, <3>3, <3>4, SMTT(30) DEF Placed, Follows, FollowsIn
  <2>11. \A q \in Producers : Placed(q)'
    <3>1. ASSUME NEW q \in Producers, q # at PROVE Placed(q)'
      <4>1. Placed(q) /\ Held(q)' = Held(q)
        BY <1>1, <2>7, <3>1, HeldNat DEF IInv, Queues, Conveyed, Types
      <4> QED
        BY <1>1, <1>5, <2>1, <3>1, <4>1, PlacedElsewhere
    <3>2. ASSUME NEW q \in Producers, q = at PROVE Placed(q)'
      BY <2>10, <3>2
    <3> QED
      BY <3>1, <3>2
  <2>12. Frontier'
    <3>1. captured' <= clock'[at]
      BY <1>2, <1>6, <2>2
    <3>2. \A q \in Registered, e \in Entries : InQueue(q, e)' => captured' <= e.op.stamp
      BY <1>7, Registering DEF Registered, IInv, Types
    <3>3. UNCHANGED <<front, finished, count>>
      BY <1>1, <2>1
    <3> QED
      BY <1>1, <1>6, <3>1, <3>2, <3>3, FrontierTaken
  <2>13. Sorted'
    BY <2>1 DEF IInv, Queues, Sorted
  <2> QED
    BY <1>8, <1>9, <2>1, <2>3, <2>8, <2>9, <2>11, <2>12, <2>13 DEF IInv, Queues, Conveyed
<1>11. ASSUME NEW unwinds, Abort(unwinds) PROVE IInv'
  <2>1. UNCHANGED <<front, capturing, accepted, shut, mailbox, sent, closed, at, count, captured,
                    applied, sealed>> /\ failed' = TRUE
    BY <1>11 DEF Abort
  <2>2. /\ calls' \in [Callers -> CommandKinds] /\ cmd' \in Commands
        /\ wpc' = "poll" /\ quota' = 0
        /\ rescue' \in {"none", "refused", "closing", "waiting", "sealed", "failed"}
        /\ Handshake'
    <3>1. wpc = "take"
      BY <1>1 DEF Consume
    <3> QED
      BY <1>1, <1>11, <3>1, Aborted DEF IInv, Handshake, Ended
  <2>3. Types'
    BY <1>1, <1>5, <1>6, <2>1, <2>2 DEF IInv, Types
  <2>4. Sorted' /\ Merged' /\ Conveyed'
    BY <2>1 DEF IInv, Queues, Sorted, Merged, Conveyed
  <2> QED
    BY <1>8, <1>9, <2>1, <2>2, <2>3, <2>4 DEF IInv, Queues
<1> QED
  BY <1>10, <1>11 DEF TakeDirect

-----------------------------------------------------------------------------
(* The worker's queues. *)

LEMMA Enqueued ==
  ASSUME Types, Sequenced, Budget, at \in Producers, NEW op \in Ops, Enqueue(op),
         sequence' = sequence + 1
  PROVE  /\ pending' \in [Producers -> Seq(Entries)] /\ spilled' \in [Producers -> Seq(Entries)]
         /\ memory' \in Nat /\ sequence' \in Nat
         /\ \A q \in Producers, f \in Entries :
              InQueue(q, f)' => InQueue(q, f) \/ (q = at /\ f.op = op)
         /\ Sequenced' /\ Budget'
<1> DEFINE e == [op |-> op, sequence |-> sequence]
<1>1. /\ pending \in [Producers -> Seq(Entries)] /\ spilled \in [Producers -> Seq(Entries)]
      /\ memory \in Nat /\ sequence \in Nat /\ PendingLimit \in Nat
      /\ e \in Entries /\ e.op = op /\ e.sequence = sequence
  BY TransportAssumption DEF Types, Entries
<1> HIDE DEF e
<1>2. ASSUME Spills
      PROVE  /\ pending' \in [Producers -> Seq(Entries)] /\ spilled' \in [Producers -> Seq(Entries)]
             /\ memory' \in Nat /\ Budget'
             /\ \A q \in Producers, f \in Entries :
                  InQueue(q, f)' => InQueue(q, f) \/ (q = at /\ f = e)
  <2>1. spilled' = [spilled EXCEPT ![at] = Append(@, e)] /\ pending' = pending /\ memory' = memory
    BY <1>2 DEF Enqueue, e
  <2>2. /\ spilled'[at] \in Seq(Entries) /\ Len(spilled[at]) \in Nat
        /\ spilled'[at][Len(spilled[at]) + 1] = e
        /\ \A i \in 1 .. Len(spilled[at]) : spilled'[at][i] = spilled[at][i]
        /\ \A i \in 1 .. Len(spilled'[at]) : i \in 1 .. Len(spilled[at]) \/ i = Len(spilled[at]) + 1
    <3>1. spilled'[at] = Append(spilled[at], e) /\ spilled[at] \in Seq(Entries)
      BY <1>1, <2>1
    <3> QED
      BY <1>1, <3>1, Appended
  <2>3. spilled' \in [Producers -> Seq(Entries)] /\ \A q \in Producers : q # at => spilled'[q] = spilled[q]
    BY <1>1, <2>1, <2>2
  <2>4. \A q \in Producers, f \in Entries : InQueue(q, f)' => InQueue(q, f) \/ (q = at /\ f = e)
    BY <2>1, <2>2, <2>3 DEF InQueue
  <2>5. Budget'
    BY <2>1 DEF Budget, Places, Total
  <2> QED
    BY <1>1, <2>1, <2>3, <2>4, <2>5
<1>3. ASSUME ~Spills
      PROVE  /\ pending' \in [Producers -> Seq(Entries)] /\ spilled' \in [Producers -> Seq(Entries)]
             /\ memory' \in Nat /\ Budget'
             /\ \A q \in Producers, f \in Entries :
                  InQueue(q, f)' => InQueue(q, f) \/ (q = at /\ f = e)
  <2>1. pending' = [pending EXCEPT ![at] = Append(@, e)] /\ spilled' = spilled /\ memory' = memory + 1
    BY <1>3 DEF Enqueue, e
  <2>2. /\ pending'[at] \in Seq(Entries) /\ Len(pending[at]) \in Nat
        /\ pending'[at][Len(pending[at]) + 1] = e
        /\ \A i \in 1 .. Len(pending[at]) : pending'[at][i] = pending[at][i]
        /\ \A i \in 1 .. Len(pending'[at]) : i \in 1 .. Len(pending[at]) \/ i = Len(pending[at]) + 1
    <3>1. pending'[at] = Append(pending[at], e) /\ pending[at] \in Seq(Entries)
      BY <1>1, <2>1
    <3> QED
      BY <1>1, <3>1, Appended
  <2>3. pending' \in [Producers -> Seq(Entries)] /\ \A q \in Producers : q # at => pending'[q] = pending[q]
    BY <1>1, <2>1, <2>2
  <2>4. \A q \in Producers, f \in Entries : InQueue(q, f)' => InQueue(q, f) \/ (q = at /\ f = e)
    BY <2>1, <2>2, <2>3 DEF InQueue
  <2>5. Budget'
    <3>1. IsFiniteSet(Places(pending)') /\ Total(pending)' = Total(pending) + 1
      BY <1>1, <2>1, PlaceTaken DEF Budget
    <3>2. memory < PendingLimit
      BY <1>1, <1>3 DEF Spills
    <3> QED
      BY <1>1, <2>1, <3>1, <3>2 DEF Budget
  <2> QED
    BY <1>1, <2>1, <2>3, <2>4, <2>5
<1>4. \A q \in Producers, f \in Entries :
        InQueue(q, f)' => InQueue(q, f) \/ (q = at /\ f.op = op /\ f.sequence = sequence)
  BY <1>1, <1>2, <1>3
<1>5. Sequenced'
  <2>1. ASSUME NEW q \in Producers, NEW f \in Entries, InQueue(q, f)' PROVE f.sequence < sequence'
    <3>1. f.sequence \in Nat
      BY DEF Entries
    <3> QED
      BY <1>1, <1>4, <2>1, <3>1 DEF Sequenced
  <2>2. ASSUME NEW q \in Producers, NEW r \in Producers, NEW f \in Entries, NEW g \in Entries,
               InQueue(q, f)', InQueue(r, g)', f.sequence = g.sequence
        PROVE  q = r
    <3>1. f.sequence \in Nat /\ g.sequence \in Nat
      BY DEF Entries
    <3> QED
      BY <1>1, <1>4, <2>2, <3>1 DEF Sequenced
  <2> QED
    BY <2>1, <2>2 DEF Sequenced
<1> QED
  BY <1>1, <1>2, <1>3, <1>4, <1>5

\* The capture taken from the channel is behind everything its producer has in the queue.
LEMMA EnqueuedInPlace ==
  ASSUME Types, at \in Producers, Placed(at), Enqueue(Oldest), Control, Consume,
         UNCHANGED <<accepted, applied>>, NEW q \in Producers, q = at
  PROVE  Placed(q)'
<1> DEFINE e == [op |-> Oldest, sequence |-> sequence]
           h == Held(q)
           m == Len(pending[q])
           k == Len(spilled[q])
<1> HIDE DEF h, m, k
<1>1. /\ pending[q] \in Seq(Entries) /\ spilled[q] \in Seq(Entries) /\ m \in Nat /\ k \in Nat
      /\ h \in Nat /\ Len(ring[q]) \in Nat
  BY HeldNat, LenProperties DEF Types, h, m, k
<1>2. /\ Oldest = ring[q][1] /\ 1 \in 1 .. Len(ring[q]) /\ Oldest \in Ops /\ e \in Entries
      /\ Len(ring'[q]) = Len(ring[q]) - 1
      /\ \A i \in 1 .. Len(ring'[q]) : ring'[q][i] = ring[q][i + 1] /\ i + 1 \in 1 .. Len(ring[q])
  <2>1. /\ Oldest = ring[q][1] /\ 1 \in 1 .. Len(ring[q]) /\ Oldest \in Ops
        /\ Len(ring'[q]) = Len(ring[q]) - 1
        /\ \A i \in 1 .. Len(ring'[q]) : ring'[q][i] = ring[q][i + 1] /\ i + 1 \in 1 .. Len(ring[q])
    BY OldestKnown, RingShorter DEF Consume
  <2>2. sequence \in Nat
    BY DEF Types
  <2> QED
    BY <2>1, <2>2 DEF Entries
<1>3. /\ FollowsIn(pending[q], h, q) /\ FollowsIn(spilled[q], h + m, q)
      /\ Follows(ring[q], h + m + k, q) /\ h + m + k + Len(ring[q]) = Len(accepted[q])
  BY DEF Placed, h, m, k
<1>4. Held(q)' = h
  BY DEF Held, h
<1>5. e.op = Oldest
  OBVIOUS
<1>6. CASE Spills
  <2>1. pending' = pending /\ spilled' = [spilled EXCEPT ![at] = Append(@, e)]
    BY <1>6 DEF Enqueue
  <2>2. spilled \in [Producers -> Seq(Entries)] /\ spilled[q] \in Seq(Entries)
    BY DEF Types
  <2>3. spilled'[q] = Append(spilled[q], e)
    BY <2>1, <2>2
  <2> HIDE DEF e
  <2>4. /\ Len(spilled'[q]) = k + 1 /\ spilled'[q][k + 1] = e
        /\ \A i \in 1 .. k : spilled'[q][i] = spilled[q][i]
        /\ \A i \in 1 .. Len(spilled'[q]) : i \in 1 .. k \/ i = k + 1
    BY <1>2, <2>2, <2>3, Appended DEF k
  <2>5. /\ h + m + (k + 1) = h + m + k + 1
        /\ h + m + (k + 1) + (Len(ring[q]) - 1) = h + m + k + Len(ring[q])
        /\ \A i \in Nat : h + m + (k + 1) + i = h + m + k + (i + 1)
    <3>1. h \in Nat /\ m \in Nat /\ k \in Nat /\ Len(ring[q]) \in Nat
      BY <1>1
    <3>2. h + m + (k + 1) = h + m + k + 1
      BY <3>1
    <3>3. \A n \in Nat : h + m + (k + 1) + (n - 1) = h + m + k + n
      BY <3>1
    <3>4. \A i \in Nat : h + m + (k + 1) + i = h + m + k + (i + 1)
      BY <3>1
    <3> QED
      BY <3>1, <3>2, <3>3, <3>4
  <2>6. FollowsIn(pending[q], h, q)' /\ h' = h /\ m' = m
    BY <1>3, <1>4, <2>1 DEF FollowsIn, h, m
  <2>7. FollowsIn(spilled'[q], h + m, q)
    <3>1. /\ Oldest.from = q /\ Oldest.n = h + m + k + 1 /\ h + m + k + 1 \in 1 .. Len(accepted[q])
          /\ Oldest.stamp = accepted[q][h + m + k + 1]
      BY <1>2, <1>3 DEF Follows
    <3>2. ASSUME NEW i \in 1 .. Len(spilled'[q])
          PROVE  /\ spilled'[q][i].op.from = q /\ spilled'[q][i].op.n = h + m + i
                 /\ h + m + i \in 1 .. Len(accepted[q])
                 /\ spilled'[q][i].op.stamp = accepted[q][h + m + i]
      <4>1. CASE i \in 1 .. k
        BY <1>3, <2>4, <4>1 DEF FollowsIn, k
      <4>2. CASE i = k + 1
        BY <1>5, <2>4, <2>5, <3>1, <4>2
      <4> QED
        BY <2>4, <4>1, <4>2
    <3> QED
      BY <3>2 DEF FollowsIn
  <2>8. Follows(ring'[q], h + m + (k + 1), q)
    <3>1. ASSUME NEW i \in 1 .. Len(ring'[q])
          PROVE  /\ ring'[q][i].from = q /\ ring'[q][i].n = h + m + (k + 1) + i
                 /\ h + m + (k + 1) + i \in 1 .. Len(accepted[q])
                 /\ ring'[q][i].stamp = accepted[q][h + m + (k + 1) + i]
      <4>1. ring'[q][i] = ring[q][i + 1] /\ i + 1 \in 1 .. Len(ring[q])
        BY <1>2
      <4>2. i \in Nat
        OBVIOUS
      <4>3. h + m + (k + 1) + i = h + m + k + (i + 1)
        BY <2>5, <4>2
      <4>4. /\ ring[q][i + 1].from = q /\ ring[q][i + 1].n = h + m + k + (i + 1)
            /\ h + m + k + (i + 1) \in 1 .. Len(accepted[q])
            /\ ring[q][i + 1].stamp = accepted[q][h + m + k + (i + 1)]
        BY <1>3, <4>1 DEF Follows
      <4> QED
        BY <4>1, <4>3, <4>4
    <3> QED
      BY <3>1 DEF Follows
  <2>9. h + m + (k + 1) + Len(ring'[q]) = Len(accepted[q])
    BY <1>2, <1>3, <2>5
  <2>10. FollowsIn(pending'[q], h, q)
    BY <1>3, <2>1
  <2> QED
    BY <1>4, <2>1, <2>4, <2>7, <2>8, <2>9, <2>10, SMTT(30) DEF Placed, FollowsIn, Follows, h, m
<1>7. CASE ~Spills
  <2>1. spilled' = spilled /\ pending' = [pending EXCEPT ![at] = Append(@, e)] /\ spilled[q] = << >>
    BY <1>7 DEF Enqueue, Spills
  <2>2. pending \in [Producers -> Seq(Entries)] /\ pending[q] \in Seq(Entries) /\ k = 0
    BY <2>1 DEF Types, k
  <2>3. pending'[q] = Append(pending[q], e)
    BY <2>1, <2>2
  <2> HIDE DEF e
  <2>4. /\ Len(pending'[q]) = m + 1 /\ pending'[q][m + 1] = e
        /\ \A i \in 1 .. m : pending'[q][i] = pending[q][i]
        /\ \A i \in 1 .. Len(pending'[q]) : i \in 1 .. m \/ i = m + 1
    BY <1>2, <2>2, <2>3, Appended DEF m
  <2>5. /\ h + (m + 1) = h + m + k + 1
        /\ h + (m + 1) + k + (Len(ring[q]) - 1) = h + m + k + Len(ring[q])
        /\ \A i \in Nat : h + (m + 1) + k + i = h + m + k + (i + 1)
    <3>1. h \in Nat /\ m \in Nat /\ k = 0 /\ Len(ring[q]) \in Nat
      BY <1>1, <2>2
    <3>2. h + (m + 1) = h + m + k + 1
      BY <3>1
    <3>3. \A n \in Nat : h + (m + 1) + k + (n - 1) = h + m + k + n
      BY <3>1
    <3>4. \A i \in Nat : h + (m + 1) + k + i = h + m + k + (i + 1)
      BY <3>1
    <3> QED
      BY <3>1, <3>2, <3>3, <3>4
  <2>7. FollowsIn(pending'[q], h, q)
    <3>1. /\ Oldest.from = q /\ Oldest.n = h + m + k + 1 /\ h + m + k + 1 \in 1 .. Len(accepted[q])
          /\ Oldest.stamp = accepted[q][h + m + k + 1]
      BY <1>2, <1>3 DEF Follows
    <3>2. ASSUME NEW i \in 1 .. Len(pending'[q])
          PROVE  /\ pending'[q][i].op.from = q /\ pending'[q][i].op.n = h + i
                 /\ h + i \in 1 .. Len(accepted[q])
                 /\ pending'[q][i].op.stamp = accepted[q][h + i]
      <4>1. CASE i \in 1 .. m
        BY <1>3, <2>4, <4>1, SMTT(30) DEF FollowsIn, m
      <4>2. CASE i = m + 1
        BY <1>5, <2>4, <2>5, <3>1, <4>2
      <4> QED
        BY <2>4, <4>1, <4>2
    <3> QED
      BY <3>2 DEF FollowsIn
  <2>8. Follows(ring'[q], h + (m + 1) + k, q)
    <3>1. ASSUME NEW i \in 1 .. Len(ring'[q])
          PROVE  /\ ring'[q][i].from = q /\ ring'[q][i].n = h + (m + 1) + k + i
                 /\ h + (m + 1) + k + i \in 1 .. Len(accepted[q])
                 /\ ring'[q][i].stamp = accepted[q][h + (m + 1) + k + i]
      <4>1. ring'[q][i] = ring[q][i + 1] /\ i + 1 \in 1 .. Len(ring[q])
        BY <1>2
      <4>2. i \in Nat
        OBVIOUS
      <4>3. h + (m + 1) + k + i = h + m + k + (i + 1)
        BY <2>5, <4>2
      <4>4. /\ ring[q][i + 1].from = q /\ ring[q][i + 1].n = h + m + k + (i + 1)
            /\ h + m + k + (i + 1) \in 1 .. Len(accepted[q])
            /\ ring[q][i + 1].stamp = accepted[q][h + m + k + (i + 1)]
        BY <1>3, <4>1 DEF Follows
      <4> QED
        BY <4>1, <4>3, <4>4
    <3> QED
      BY <3>1 DEF Follows
  <2>9. h + (m + 1) + k + Len(ring'[q]) = Len(accepted[q])
    BY <1>2, <1>3, <2>5
  <2>10. FollowsIn(spilled'[q], h + (m + 1), q)
    BY <2>1, <2>2 DEF FollowsIn, k
  <2> QED
    BY <1>4, <2>1, <2>4, <2>7, <2>8, <2>9, <2>10, SMTT(30) DEF Placed, FollowsIn, Follows, h, k
<1> QED
  BY <1>6, <1>7

LEMMA TakePushInv ==
  ASSUME IInv, TakePush PROVE IInv'
<1>1. /\ ~failed /\ count > 1 /\ Consume /\ active' = TRUE /\ finished' = finished
      /\ wpc = "take" /\ quota > 0
  BY DEF TakePush, Consume
<1>2. /\ at \in Registered /\ at \in Producers /\ at < count /\ Oldest \in Ops /\ Oldest.stamp \in Nat
  BY <1>1, OldestKnown DEF IInv, Handshake
<1>3. /\ captured <= Oldest.stamp /\ Placed(at) /\ Legal(Oldest) /\ Frontier
  BY <1>1, OldestLegal
<1>4. /\ clock' \in [Producers -> Nat] /\ clock'[at] \in {clock[at], Oldest.stamp}
      /\ \A q \in Producers : q # at => clock'[q] = clock[q]
      /\ sequence' = sequence + 1 /\ sequence' \in Nat
  BY <1>2, <1>3 DEF TakePush, IInv, Types
<1>5. /\ ring' \in [Producers -> Seq(Ops)]
      /\ \A q \in Producers : q # at => ring'[q] = ring[q]
  BY <1>1, RingShorter DEF IInv, Handshake
<1>6. CASE Enqueue(Oldest) /\ Consumed /\ UNCHANGED backend
  <2>1. UNCHANGED <<front, capturing, accepted, shut, mailbox, calls, sent, closed, failed, rescue,
                    wpc, cmd, at, count, panicked, captured, applied, sealed>>
    BY <1>6 DEF Consumed
  <2>2. Handshake' /\ quota' \in Nat
    BY <1>1, <1>6, <2>1, ConsumedHandshake
  <2>3. /\ pending' \in [Producers -> Seq(Entries)] /\ spilled' \in [Producers -> Seq(Entries)]
        /\ memory' \in Nat
        /\ \A q \in Producers, f \in Entries :
             InQueue(q, f)' => InQueue(q, f) \/ (q = at /\ f.op = Oldest)
        /\ Sequenced' /\ Budget'
    BY <1>2, <1>4, <1>6, Enqueued DEF IInv, Queues
  <2>4. Types'
    BY <1>1, <1>4, <1>5, <2>1, <2>2, <2>3 DEF IInv, Types
  <2>5. \A q \in Producers : q # at => pending'[q] = pending[q] /\ spilled'[q] = spilled[q]
    BY <1>2, <1>6 DEF Enqueue, IInv, Types
  <2>6. \A q \in Producers : Placed(q)'
    <3>1. ASSUME NEW q \in Producers, q # at PROVE Placed(q)'
      <4>1. Placed(q) /\ Held(q)' = Held(q)
        BY <1>1, <2>1 DEF IInv, Queues, Conveyed, Held
      <4> QED
        BY <1>5, <2>1, <2>5, <3>1, <4>1, PlacedElsewhere
    <3>2. ASSUME NEW q \in Producers, q = at PROVE Placed(q)'
      BY <1>1, <1>2, <1>3, <1>6, <2>1, <3>2, EnqueuedInPlace DEF IInv, Handshake
    <3> QED
      BY <3>1, <3>2
  <2>7. Frontier'
    <3>1. captured' = captured /\ captured <= clock'[at]
      BY <1>2, <1>3, <1>4, <2>1 DEF Frontier, Legal
    <3>2. ASSUME NEW q \in Registered, NEW f \in Entries, InQueue(q, f)' PROVE captured' <= f.op.stamp
      <4>1. q \in Producers
        BY Registering DEF Registered, IInv, Types
      <4> QED
        BY <1>3, <2>3, <3>1, <3>2, <4>1 DEF Frontier
    <3>3. UNCHANGED <<front, finished, count>>
      BY <1>1, <2>1
    <3> QED
      BY <1>1, <1>4, <3>1, <3>2, <3>3, FrontierTaken
  <2>8. Blank'
    <3>1. ~(at >= count) /\ count # 1
      BY <1>1, <1>2, ActorsDistinct DEF IInv, Types
    <3> QED
      BY <1>1, <1>5, <2>1, <2>5, <3>1 DEF IInv, Queues, Blank
  <2>9. Sorted' /\ Merged'
    BY <2>1 DEF IInv, Queues, Sorted, Merged
  <2> QED
    BY <2>2, <2>3, <2>4, <2>6, <2>7, <2>8, <2>9 DEF IInv, Queues, Conveyed
<1>7. CASE UNCHANGED <<pending, spilled, memory>> /\ Abort(FALSE)
  <2>1. UNCHANGED <<front, capturing, accepted, shut, mailbox, sent, closed, at, count, captured,
                    applied, sealed>> /\ failed' = TRUE
    BY <1>7 DEF Abort
  <2>2. /\ calls' \in [Callers -> CommandKinds] /\ cmd' \in Commands
        /\ wpc' = "poll" /\ quota' = 0
        /\ rescue' \in {"none", "refused", "closing", "waiting", "sealed", "failed"}
        /\ Handshake'
    BY <1>1, <1>7, Aborted DEF IInv, Handshake, Ended
  <2>3. Types'
    BY <1>1, <1>4, <1>5, <1>7, <2>1, <2>2 DEF IInv, Types
  <2>4. Sorted' /\ Merged' /\ Conveyed'
    BY <2>1 DEF IInv, Queues, Sorted, Merged, Conveyed
  <2>5. Blank'
    <3>1. ~(at >= count)
      BY <1>2, ActorsDistinct DEF IInv, Types
    <3> QED
      BY <1>1, <1>5, <1>7, <2>1, <3>1 DEF IInv, Queues, Blank
  <2>6. Budget'
    BY <1>7 DEF IInv, Queues, Budget, Places, Total
  <2>7. Sequenced'
    <3>1. sequence \in Nat /\ \A e \in Entries : e.sequence \in Nat
      BY DEF IInv, Types, Entries
    <3> QED
      BY <1>4, <1>7, <3>1 DEF IInv, Queues, Sequenced, InQueue
  <2> QED
    BY <2>2, <2>3, <2>4, <2>5, <2>6, <2>7 DEF IInv, Queues
<1> QED
  BY <1>6, <1>7 DEF TakePush

-----------------------------------------------------------------------------
(* The merge. *)

\* What is first in a producer's queue is its next capture, and the oldest one there.
LEMMA FirstPlaced ==
  ASSUME Types, Sorted, NEW p \in Producers, Placed(p), Queue(p) # << >>
  PROVE  /\ First(p).op.from = p /\ First(p).op.n = Held(p) + 1 /\ First(p).op.stamp \in Nat
         /\ Held(p) + 1 \in 1 .. Len(accepted[p]) /\ First(p).op.stamp = accepted[p][Held(p) + 1]
<1> DEFINE h == Held(p)
           m == Len(pending[p])
<1>1. h \in Nat /\ m \in Nat /\ First(p) \in Entries
  BY HeldNat, FirstOfQueue, LenProperties DEF Types
<1>2. First(p).op.stamp \in Nat
  BY <1>1 DEF Entries, Ops
<1>3. FollowsIn(pending[p], h, p) /\ FollowsIn(spilled[p], h + m, p)
  BY DEF Placed
<1>4. CASE pending[p] # << >>
  <2>1. First(p) = pending[p][1] /\ 1 \in 1 .. Len(pending[p])
    BY <1>1, <1>4, FirstOfQueue, Nonempty
  <2> QED
    BY <1>2, <1>3, <2>1 DEF FollowsIn
<1>5. CASE pending[p] = << >>
  <2>1. First(p) = spilled[p][1] /\ Len(spilled[p]) \in Nat /\ Len(spilled[p]) >= 1 /\ m = 0
    BY <1>5, FirstOfQueue, LenProperties DEF Types
  <2>2. 1 \in 1 .. Len(spilled[p])
    BY <2>1, Nonempty
  <2> HIDE DEF h, m
  <2>3. h + m + 1 = h + 1
    BY <1>1, <2>1
  <2>4. /\ spilled[p][1].op.from = p /\ spilled[p][1].op.n = h + m + 1
        /\ h + m + 1 \in 1 .. Len(accepted[p])
        /\ spilled[p][1].op.stamp = accepted[p][h + m + 1]
    BY <1>3, <2>2 DEF FollowsIn
  <2>5. /\ First(p).op.from = p /\ First(p).op.n = h + 1
        /\ h + 1 \in 1 .. Len(accepted[p]) /\ First(p).op.stamp = accepted[p][h + 1]
    BY <2>1, <2>3, <2>4
  <2> QED
    BY <1>2, <2>5 DEF h
<1> QED
  BY <1>4, <1>5

LEMMA FirstOldest ==
  ASSUME Types, Sorted, NEW p \in Producers, Placed(p), NEW e \in Entries, InQueue(p, e)
  PROVE  Queue(p) # << >> /\ First(p).op.stamp <= e.op.stamp
<1> DEFINE h == Held(p)
           m == Len(pending[p])
<1>1. /\ h \in Nat /\ m \in Nat /\ Len(spilled[p]) \in Nat
      /\ pending[p] \in Seq(Entries) /\ spilled[p] \in Seq(Entries)
  BY HeldNat, LenProperties DEF Types
<1>2. Queue(p) # << >>
  <2>1. Queue(p) \in Seq(Entries) /\ Len(Queue(p)) = Len(pending[p]) + Len(spilled[p])
    BY <1>1, ConcatProperties DEF Queue
  <2>2. Len(pending[p]) >= 1 \/ Len(spilled[p]) >= 1
    BY <1>1 DEF InQueue
  <2>3. Len(Queue(p)) # 0
    <3>1. ASSUME NEW n \in Nat, NEW k \in Nat, n >= 1 \/ k >= 1 PROVE n + k # 0
      BY <3>1
    <3>2. Len(pending[p]) \in Nat /\ Len(spilled[p]) \in Nat
      BY <1>1
    <3> QED
      BY <2>1, <2>2, <3>1, <3>2, Zenon
  <2> QED
    BY <2>1, <2>3, EmptySeq
<1>3. FollowsIn(pending[p], h, p) /\ FollowsIn(spilled[p], h + m, p)
  BY DEF Placed
<1>4. h + 1 \in 1 .. Len(accepted[p]) /\ First(p).op.stamp = accepted[p][h + 1]
  BY <1>2, FirstPlaced
<1> HIDE DEF h, m
<1>5. ASSUME NEW i \in Nat, i >= 1, h + i \in 1 .. Len(accepted[p]), e.op.stamp = accepted[p][h + i]
      PROVE  First(p).op.stamp <= e.op.stamp
  <2>1. h + 1 <= h + i
    BY <1>1, <1>5
  <2> QED
    BY <1>4, <1>5, <2>1 DEF Sorted
<1>6. ASSUME NEW i \in 1 .. Len(pending[p]), pending[p][i] = e
      PROVE  First(p).op.stamp <= e.op.stamp
  <2>1. h + i \in 1 .. Len(accepted[p]) /\ e.op.stamp = accepted[p][h + i] /\ i \in Nat /\ i >= 1
    BY <1>3, <1>6 DEF FollowsIn
  <2> QED
    BY <1>5, <2>1
<1>7. ASSUME NEW i \in 1 .. Len(spilled[p]), spilled[p][i] = e
      PROVE  First(p).op.stamp <= e.op.stamp
  <2>1. h + m + i \in 1 .. Len(accepted[p]) /\ e.op.stamp = accepted[p][h + m + i]
    BY <1>3, <1>7 DEF FollowsIn
  <2>2. m + i \in Nat /\ m + i >= 1 /\ h + m + i = h + (m + i)
    <3>1. i \in Nat /\ i >= 1
      OBVIOUS
    <3> QED
      BY <1>1, <3>1
  <2> QED
    BY <1>5, <2>1, <2>2
<1> QED
  BY <1>2, <1>6, <1>7 DEF InQueue

LEMMA Dequeued ==
  ASSUME Types, Sequenced, Budget, NEW p \in Producers, Queue(p) # << >>, Dequeue(p),
         sequence' = sequence
  PROVE  /\ pending' \in [Producers -> Seq(Entries)] /\ spilled' \in [Producers -> Seq(Entries)]
         /\ memory' \in Nat
         /\ \A q \in Producers : q # p => pending'[q] = pending[q] /\ spilled'[q] = spilled[q]
         /\ \A q \in Producers, f \in Entries : InQueue(q, f)' => InQueue(q, f)
         /\ Sequenced' /\ Budget'
<1>1. /\ pending \in [Producers -> Seq(Entries)] /\ spilled \in [Producers -> Seq(Entries)]
      /\ memory \in Nat /\ PendingLimit \in Nat
  BY TransportAssumption DEF Types
<1>2. ASSUME pending[p] # << >>
      PROVE  /\ pending' \in [Producers -> Seq(Entries)] /\ spilled' \in [Producers -> Seq(Entries)]
             /\ memory' \in Nat /\ Budget'
             /\ \A q \in Producers : q # p => pending'[q] = pending[q] /\ spilled'[q] = spilled[q]
             /\ \A q \in Producers, f \in Entries : InQueue(q, f)' => InQueue(q, f)
  <2>1. pending' = [pending EXCEPT ![p] = Tail(@)] /\ spilled' = spilled /\ memory' = memory - 1
    BY <1>2 DEF Dequeue
  <2>2. /\ pending'[p] \in Seq(Entries)
        /\ \A i \in 1 .. Len(pending'[p]) :
             pending'[p][i] = pending[p][i + 1] /\ i + 1 \in 1 .. Len(pending[p])
    <3>1. pending'[p] = Tail(pending[p]) /\ pending[p] \in Seq(Entries)
      BY <1>1, <2>1
    <3> QED
      BY <1>2, <3>1, TailOne
  <2>3. pending' \in [Producers -> Seq(Entries)] /\ \A q \in Producers : q # p => pending'[q] = pending[q]
    BY <1>1, <2>1, <2>2
  <2>4. \A q \in Producers, f \in Entries : InQueue(q, f)' => InQueue(q, f)
    BY <2>1, <2>2, <2>3 DEF InQueue
  <2>5. IsFiniteSet(Places(pending)') /\ Total(pending)' = Total(pending) - 1
    BY <1>1, <1>2, <2>1, PlaceGiven DEF Budget
  <2>6. Total(pending)' \in Nat
    BY <2>5, FS_CardinalityType DEF Total
  <2>7. memory' = Total(pending)' /\ memory' \in Nat /\ memory' <= PendingLimit
    BY <1>1, <2>1, <2>5, <2>6 DEF Budget
  <2>8. Budget'
    BY <2>5, <2>7 DEF Budget
  <2> QED
    BY <1>1, <2>1, <2>3, <2>4, <2>7, <2>8
<1>3. ASSUME pending[p] = << >>
      PROVE  /\ pending' \in [Producers -> Seq(Entries)] /\ spilled' \in [Producers -> Seq(Entries)]
             /\ memory' \in Nat /\ Budget'
             /\ \A q \in Producers : q # p => pending'[q] = pending[q] /\ spilled'[q] = spilled[q]
             /\ \A q \in Producers, f \in Entries : InQueue(q, f)' => InQueue(q, f)
  <2>1. spilled' = [spilled EXCEPT ![p] = Tail(@)] /\ pending' = pending /\ memory' = memory
    BY <1>3 DEF Dequeue
  <2>2. /\ spilled'[p] \in Seq(Entries)
        /\ \A i \in 1 .. Len(spilled'[p]) :
             spilled'[p][i] = spilled[p][i + 1] /\ i + 1 \in 1 .. Len(spilled[p])
    <3>1. spilled'[p] = Tail(spilled[p]) /\ spilled[p] \in Seq(Entries) /\ spilled[p] # << >>
      <4>1. Len(spilled[p]) >= 1 /\ spilled[p] \in Seq(Entries)
        BY <1>1, <1>3, FirstOfQueue
      <4> QED
        BY <1>1, <2>1, <4>1
    <3> QED
      BY <3>1, TailOne
  <2>3. spilled' \in [Producers -> Seq(Entries)] /\ \A q \in Producers : q # p => spilled'[q] = spilled[q]
    BY <1>1, <2>1, <2>2
  <2>4. \A q \in Producers, f \in Entries : InQueue(q, f)' => InQueue(q, f)
    BY <2>1, <2>2, <2>3 DEF InQueue
  <2>5. Budget'
    BY <2>1 DEF Budget, Places, Total
  <2> QED
    BY <1>1, <2>1, <2>3, <2>4, <2>5
<1>4. Sequenced'
  BY <1>2, <1>3 DEF Sequenced
<1> QED
  BY <1>2, <1>3, <1>4

LEMMA DequeuedInPlace ==
  ASSUME Types, NEW p \in Producers, Placed(p), Queue(p) # << >>, Dequeue(p),
         UNCHANGED <<accepted, ring>>, Held(p)' = Held(p) + 1
  PROVE  Placed(p)'
<1> DEFINE h == Held(p)
           m == Len(pending[p])
           k == Len(spilled[p])
<1> HIDE DEF h, m, k
<1>1. /\ pending[p] \in Seq(Entries) /\ spilled[p] \in Seq(Entries) /\ m \in Nat /\ k \in Nat
      /\ h \in Nat /\ Len(ring[p]) \in Nat
  BY HeldNat, LenProperties DEF Types, h, m, k
<1>2. /\ FollowsIn(pending[p], h, p) /\ FollowsIn(spilled[p], h + m, p)
      /\ Follows(ring[p], h + m + k, p) /\ h + m + k + Len(ring[p]) = Len(accepted[p])
  BY DEF Placed, h, m, k
<1>3. Held(p)' = h + 1
  BY DEF h
<1>4. CASE pending[p] # << >>
  <2>1. pending'[p] = Tail(pending[p]) /\ spilled' = spilled
    BY <1>4 DEF Dequeue, Types
  <2>2. /\ Len(pending'[p]) = m - 1
        /\ \A i \in 1 .. Len(pending'[p]) :
             pending'[p][i] = pending[p][i + 1] /\ i + 1 \in 1 .. Len(pending[p])
    BY <1>1, <1>4, <2>1, TailOne DEF m
  <2>3. h + 1 + (m - 1) = h + m /\ \A i \in Nat : h + 1 + i = h + (i + 1)
    BY <1>1
  <2>4. ASSUME NEW i \in 1 .. Len(pending'[p])
        PROVE  /\ pending'[p][i].op.from = p /\ pending'[p][i].op.n = h + 1 + i
               /\ h + 1 + i \in 1 .. Len(accepted[p])
               /\ pending'[p][i].op.stamp = accepted[p][h + 1 + i]
    <3>1. pending'[p][i] = pending[p][i + 1] /\ i + 1 \in 1 .. Len(pending[p])
      BY <2>2
    <3>2. i \in Nat
      OBVIOUS
    <3>3. h + 1 + i = h + (i + 1)
      BY <2>3, <3>2
    <3>4. /\ pending[p][i + 1].op.from = p /\ pending[p][i + 1].op.n = h + (i + 1)
          /\ h + (i + 1) \in 1 .. Len(accepted[p])
          /\ pending[p][i + 1].op.stamp = accepted[p][h + (i + 1)]
      BY <1>2, <3>1 DEF FollowsIn
    <3> QED
      BY <3>1, <3>3, <3>4
  <2>5. FollowsIn(pending'[p], h + 1, p)
    BY <2>4 DEF FollowsIn
  <2>6. FollowsIn(spilled'[p], h + 1 + Len(pending'[p]), p)
    BY <1>2, <2>1, <2>2, <2>3
  <2>7. Follows(ring'[p], h + 1 + Len(pending'[p]) + Len(spilled'[p]), p)
    BY <1>2, <2>1, <2>2, <2>3 DEF k
  <2>8. h + 1 + Len(pending'[p]) + Len(spilled'[p]) + Len(ring'[p]) = Len(accepted'[p])
    BY <1>2, <2>1, <2>2, <2>3 DEF k
  <2> QED
    BY <1>3, <2>5, <2>6, <2>7, <2>8 DEF Placed, FollowsIn, Follows
<1>5. CASE pending[p] = << >>
  <2>1. spilled'[p] = Tail(spilled[p]) /\ pending' = pending /\ spilled[p] # << >> /\ m = 0
    <3>1. Len(spilled[p]) >= 1 /\ m = 0
      BY <1>5, FirstOfQueue DEF m
    <3> QED
      BY <1>5, <3>1 DEF Dequeue, Types
  <2>2. /\ Len(spilled'[p]) = k - 1
        /\ \A i \in 1 .. Len(spilled'[p]) :
             spilled'[p][i] = spilled[p][i + 1] /\ i + 1 \in 1 .. Len(spilled[p])
    BY <1>1, <2>1, TailOne DEF k
  <2>3. /\ h + 1 + m + (k - 1) = h + m + k
        /\ \A i \in Nat : h + 1 + m + i = h + m + (i + 1)
    BY <1>1
  <2>4. ASSUME NEW i \in 1 .. Len(spilled'[p])
        PROVE  /\ spilled'[p][i].op.from = p /\ spilled'[p][i].op.n = h + 1 + m + i
               /\ h + 1 + m + i \in 1 .. Len(accepted[p])
               /\ spilled'[p][i].op.stamp = accepted[p][h + 1 + m + i]
    <3>1. spilled'[p][i] = spilled[p][i + 1] /\ i + 1 \in 1 .. Len(spilled[p])
      BY <2>2
    <3>2. i \in Nat
      OBVIOUS
    <3>3. h + 1 + m + i = h + m + (i + 1)
      BY <2>3, <3>2
    <3>4. /\ spilled[p][i + 1].op.from = p /\ spilled[p][i + 1].op.n = h + m + (i + 1)
          /\ h + m + (i + 1) \in 1 .. Len(accepted[p])
          /\ spilled[p][i + 1].op.stamp = accepted[p][h + m + (i + 1)]
      BY <1>2, <3>1 DEF FollowsIn
    <3> QED
      BY <3>1, <3>3, <3>4
  <2>5. FollowsIn(spilled'[p], h + 1 + m, p)
    BY <2>4 DEF FollowsIn
  <2>6. FollowsIn(pending'[p], h + 1, p) /\ Len(pending'[p]) = m
    BY <1>5, <2>1 DEF FollowsIn, m
  <2>7. Follows(ring'[p], h + 1 + m + Len(spilled'[p]), p)
    BY <1>2, <2>2, <2>3
  <2>8. h + 1 + m + Len(spilled'[p]) + Len(ring'[p]) = Len(accepted'[p])
    BY <1>2, <2>2, <2>3
  <2> QED
    BY <1>3, <2>5, <2>6, <2>7, <2>8 DEF Placed, FollowsIn, Follows
<1> QED
  BY <1>4, <1>5

LEMMA DrainOneInv ==
  ASSUME IInv, NEW p \in Producers, DrainOne(p) PROVE IInv'
<1>1. /\ wpc \in {"merge", "settle"} /\ Selected(p) /\ Dequeue(p)
      /\ Complete(First(p).op) \/ (wpc = "settle" /\ cmd.kind \notin {"done", "flush"})
      /\ captured' = IF First(p).op.stamp > captured THEN First(p).op.stamp ELSE captured
      /\ applied' = Append(applied, <<First(p).op.from, First(p).op.n>>)
      /\ UNCHANGED <<front, capturing, accepted, ring, shut, mailbox, calls, sent, closed, failed,
                     rescue, wpc, cmd, at, quota, active, count, clock, finished, sequence, panicked,
                     sealed>>
  BY DEF DrainOne, Due, Apply
<1>2. ~failed /\ Frontier /\ (\A q \in Producers : Placed(q)) /\ Sorted
  BY <1>1 DEF IInv, Handshake, Control, Queues, Conveyed
<1>3. p \in Registered /\ Queue(p) # << >> /\ Registered \subseteq Producers
  BY <1>1, Registering DEF Selected, Waiting, Registered, IInv, Types
<1>4. /\ First(p).op.from = p /\ First(p).op.n = Held(p) + 1 /\ First(p).op.stamp \in Nat
      /\ Held(p) + 1 \in 1 .. Len(accepted[p]) /\ First(p).op.stamp = accepted[p][Held(p) + 1]
      /\ Held(p) \in Nat
  BY <1>2, <1>3, FirstPlaced, HeldNat DEF IInv, Types
<1>5. captured <= First(p).op.stamp /\ captured \in Nat /\ captured' = First(p).op.stamp
  <2>1. First(p) \in Entries /\ InQueue(p, First(p))
    BY <1>3, FirstOfQueue DEF IInv
  <2>2. captured <= First(p).op.stamp /\ captured \in Nat
    BY <1>2, <1>3, <2>1 DEF Frontier, IInv, Types
  <2> QED
    BY <1>1, <1>4, <2>2
<1>6. /\ pending' \in [Producers -> Seq(Entries)] /\ spilled' \in [Producers -> Seq(Entries)]
      /\ memory' \in Nat
      /\ \A q \in Producers : q # p => pending'[q] = pending[q] /\ spilled'[q] = spilled[q]
      /\ \A q \in Producers, f \in Entries : InQueue(q, f)' => InQueue(q, f)
      /\ Sequenced' /\ Budget'
  BY <1>1, <1>3, Dequeued DEF IInv, Queues
<1>7. /\ applied' \in Seq(Producers \X Nat) /\ Len(applied) \in Nat
      /\ applied'[Len(applied) + 1] = <<p, Held(p) + 1>>
      /\ \A i \in 1 .. Len(applied) : applied'[i] = applied[i]
      /\ \A i \in 1 .. Len(applied') : i \in 1 .. Len(applied) \/ i = Len(applied) + 1
      /\ \A q \in Producers : Held(q)' = Held(q) + (IF q = p THEN 1 ELSE 0)
  <2> DEFINE entry == <<First(p).op.from, First(p).op.n>>
  <2>1. entry \in Producers \X Nat /\ entry = <<p, Held(p) + 1>> /\ entry[1] = p
    BY <1>4
  <2>2. applied \in Seq(Producers \X Nat) /\ applied' = Append(applied, entry)
    BY <1>1 DEF IInv, Types
  <2> HIDE DEF entry
  <2>3. \A q \in Producers : Held(q)' = Held(q) + (IF q = p THEN 1 ELSE 0)
    BY <2>1, <2>2, HeldGrows
  <2> QED
    BY <2>1, <2>2, <2>3, Appended
<1>8. Types'
  BY <1>1, <1>5, <1>6, <1>7, <1>4 DEF IInv, Types
<1>9. Merged'
  <2>1. ASSUME NEW i \in 1 .. Len(applied)
        PROVE  /\ applied[i][2] \in 1 .. Len(accepted[applied[i][1]])
               /\ accepted[applied[i][1]][applied[i][2]] <= First(p).op.stamp
    <3>1. /\ applied[i][2] \in 1 .. Len(accepted[applied[i][1]])
          /\ accepted[applied[i][1]][applied[i][2]] <= captured
      BY DEF IInv, Queues, Merged
    <3>2. accepted[applied[i][1]] \in Seq(Nat)
      BY Entered DEF IInv, Types
    <3>3. accepted[applied[i][1]][applied[i][2]] \in Nat
      BY <3>1, <3>2, ElementOfSeq
    <3>4. ASSUME NEW a \in Nat, NEW b \in Nat, NEW c \in Nat, a <= b, b <= c PROVE a <= c
      BY <3>4
    <3> QED
      BY <1>4, <1>5, <3>1, <3>3, <3>4, Zenon
  <2>2. ASSUME NEW i \in 1 .. Len(applied')
        PROVE  /\ applied'[i][2] \in 1 .. Len(accepted[applied'[i][1]])
               /\ accepted[applied'[i][1]][applied'[i][2]] <= First(p).op.stamp
    <3>1. CASE i \in 1 .. Len(applied)
      BY <1>7, <2>1, <3>1
    <3>2. CASE i = Len(applied) + 1
      <4>1. applied'[i][1] = p /\ applied'[i][2] = Held(p) + 1
        BY <1>7, <3>2
      <4>2. First(p).op.stamp <= First(p).op.stamp
        BY <1>4
      <4> QED
        BY <1>4, <4>1, <4>2
    <3> QED
      BY <1>7, <3>1, <3>2
  <2> QED
    BY <1>1, <1>5, <2>2 DEF Merged
<1>10. \A q \in Producers : Placed(q)'
  <2>1. Placed(p)'
    BY <1>1, <1>2, <1>3, <1>7, DequeuedInPlace DEF IInv
  <2>2. ASSUME NEW q \in Producers, q # p PROVE Placed(q)'
    <3>1. Held(q)' = Held(q)
      BY <1>7, <2>2, HeldNat DEF IInv, Types
    <3> QED
      BY <1>1, <1>2, <1>6, <2>2, <3>1, PlacedElsewhere
  <2> QED
    BY <2>1, <2>2
<1>11. Frontier'
  <2>1. ASSUME NEW q \in Registered, ~finished[q] PROVE captured' <= clock[q]
    <3>1. clock[q] \in Nat /\ q \in Live
      BY <1>3, <2>1 DEF IInv, Types, Live
    <3>2. ~(wpc = "settle" /\ cmd.kind \notin {"done", "flush"})
      BY <2>1 DEF IInv, Handshake, Control
    <3> QED
      BY <1>1, <1>4, <1>5, <3>1, <3>2 DEF Complete
  <2>2. ASSUME NEW q \in Registered, NEW e \in Entries, InQueue(q, e)'
        PROVE  captured' <= e.op.stamp
    <3>1. q \in Producers /\ InQueue(q, e)
      BY <1>3, <1>6, <2>2
    <3>2. Queue(q) # << >> /\ First(q).op.stamp <= e.op.stamp
      BY <1>2, <3>1, FirstOldest DEF IInv
    <3>3. First(q).op.stamp \in Nat /\ e.op.stamp \in Nat
      BY <1>2, <3>1, <3>2, FirstPlaced DEF IInv, Entries, Ops
    <3>4. First(p).op.stamp <= First(q).op.stamp
      <4>1. CASE q = p
        BY <1>4, <4>1
      <4>2. CASE q # p
        BY <1>1, <1>4, <3>2, <3>3, <4>2 DEF Selected, Waiting, Before
      <4> QED
        BY <4>1, <4>2
    <3> QED
      BY <1>4, <1>5, <3>2, <3>3, <3>4
  <2>3. Registered' = Registered
    BY <1>1 DEF Registered
  <2> QED
    BY <1>1, <1>2, <2>1, <2>2, <2>3 DEF Frontier
<1>12. Sorted'
  BY <1>1 DEF IInv, Queues, Sorted
<1>13. Blank'
  <2>1. SameFronts
    BY <1>1 DEF SameFronts, IInv, Types
  <2> QED
    BY <1>1, <1>3, <1>6, <2>1, Emptying DEF IInv, Queues
<1>14. Outstanding' /\ CallsMade' /\ Control'
  BY <1>1 DEF IInv, Handshake, Outstanding, CallsMade, Control, Registered
<1>15. Capturing' /\ Stopped' /\ Ended' /\ Emptied'
  BY <1>1 DEF IInv, Handshake, Capturing, Stopped, Ended, Emptied, Covered
<1> QED
  BY <1>6, <1>8, <1>9, <1>10, <1>11, <1>12, <1>13, <1>14, <1>15
  DEF IInv, Queues, Conveyed, Handshake

\* What is common to the failures of the merge: the recording is not built up any further.
LEMMA MergeFailed ==
  ASSUME IInv, NEW p \in Producers, Due(p), Dequeue(p), failed', SameFronts,
         UNCHANGED <<capturing, accepted, ring, clock, finished, sequence, captured, applied, count>>
  PROVE  /\ Queues'
         /\ pending' \in [Producers -> Seq(Entries)] /\ spilled' \in [Producers -> Seq(Entries)]
         /\ memory' \in Nat
<1>1. p \in Registered /\ Queue(p) # << >>
  BY DEF Due, Selected, Waiting
<1>2. /\ pending' \in [Producers -> Seq(Entries)] /\ spilled' \in [Producers -> Seq(Entries)]
      /\ memory' \in Nat
      /\ \A q \in Producers : q # p => pending'[q] = pending[q] /\ spilled'[q] = spilled[q]
      /\ Sequenced' /\ Budget'
  BY <1>1, Dequeued DEF IInv, Queues
<1>3. Sorted' /\ Merged' /\ Conveyed'
  BY DEF IInv, Queues, Sorted, Merged, Conveyed, SameFronts
<1>4. Blank'
  BY <1>1, <1>2, Emptying DEF IInv, Queues
<1> QED
  BY <1>2, <1>3, <1>4 DEF Queues

LEMMA MergeFailsInv ==
  ASSUME IInv, NEW p \in Producers, MergeFails(p) PROVE IInv'
<1>1. PICK fate \in Spoils(p) : Abort(fate = "panic")
  BY DEF MergeFails
<1>2. /\ wpc = "merge" /\ Due(p) /\ Dequeue(p) /\ failed' = TRUE
      /\ UNCHANGED <<front, capturing, accepted, ring, shut, mailbox, sent, closed, at, active, count,
                     clock, finished, sequence, captured, applied, sealed>>
  BY <1>1 DEF MergeFails, Abort
<1>3. /\ calls' \in [Callers -> CommandKinds] /\ cmd' \in Commands
      /\ wpc' = "poll" /\ quota' = 0
      /\ rescue' \in {"none", "refused", "closing", "waiting", "sealed", "failed"}
      /\ Handshake'
  BY <1>1, <1>2, Aborted DEF IInv, Handshake, Ended
<1>4. SameFronts
  BY <1>2 DEF SameFronts, IInv, Types
<1>5. /\ Queues'
      /\ pending' \in [Producers -> Seq(Entries)] /\ spilled' \in [Producers -> Seq(Entries)]
      /\ memory' \in Nat
  BY <1>2, <1>4, MergeFailed
<1>6. Types'
  BY <1>2, <1>3, <1>5 DEF IInv, Types
<1> QED
  BY <1>3, <1>5, <1>6 DEF IInv

LEMMA SettleFailsInv ==
  ASSUME IInv, NEW p \in Producers, SettleFails(p) PROVE IInv'
<1>1. /\ wpc = "settle" /\ Due(p) /\ Dequeue(p) /\ cmd.kind \in {"done", "flush"} \cup Finishes
      /\ UNCHANGED <<ring, active, clock, finished, sequence>>
      /\ \A q \in Producers : finished[q] => ~capturing[q]
  BY DEF SettleFails, IInv, Handshake, Control, Ended
<1>2. ASSUME Types', Handshake', SameFronts, failed',
             pending' \in [Producers -> Seq(Entries)] /\ spilled' \in [Producers -> Seq(Entries)]
             /\ memory' \in Nat => Types',
             UNCHANGED <<capturing, accepted, captured, applied, count>>
      PROVE  IInv'
  BY <1>1, <1>2, MergeFailed DEF IInv
<1>3. /\ pending' \in [Producers -> Seq(Entries)] /\ spilled' \in [Producers -> Seq(Entries)]
      /\ memory' \in Nat
  <2>1. Queue(p) # << >>
    BY <1>1 DEF Due, Selected, Waiting
  <2> QED
    BY <1>1, <2>1, Dequeued DEF IInv, Queues
<1>4. ASSUME Abort(TRUE) PROVE IInv'
  <2>1. /\ failed' = TRUE
        /\ UNCHANGED <<front, capturing, accepted, shut, mailbox, sent, closed, at, count, captured,
                       applied, sealed>>
    BY <1>4 DEF Abort
  <2>2. /\ calls' \in [Callers -> CommandKinds] /\ cmd' \in Commands
        /\ wpc' = "poll" /\ quota' = 0
        /\ rescue' \in {"none", "refused", "closing", "waiting", "sealed", "failed"}
        /\ Handshake'
    BY <1>1, <1>4, Aborted
  <2>3. Types' /\ SameFronts
    BY <1>1, <1>3, <2>1, <2>2 DEF IInv, Types, SameFronts
  <2> QED
    BY <1>2, <2>1, <2>2, <2>3
<1>5. ASSUME cmd.kind \in Finishes, EndFinish(FALSE), UNCHANGED front,
             UNCHANGED <<capturing, accepted, shut, mailbox, sent, rescue, at, quota, count,
                         panicked, backend>>
      PROVE  IInv'
  <2>1. failed' = TRUE /\ sealed = "open"
    BY <1>1, <1>5 DEF EndFinish, IInv, Handshake, Stopped
  <2>2. /\ closed' \in BOOLEAN
        /\ calls' \in [Callers -> CommandKinds] /\ cmd' \in Commands
        /\ wpc' \in {"poll", "stopping"}
        /\ Handshake'
    BY <1>1, <1>5, <2>1, FinishEnded
  <2>3. Types' /\ SameFronts
    BY <1>1, <1>3, <1>5, <2>1, <2>2 DEF IInv, Types, SameFronts
  <2> QED
    BY <1>2, <1>5, <2>1, <2>2, <2>3
<1>6. ASSUME cmd.kind \notin Finishes, Answer(FALSE), FrontDone(FALSE), UNCHANGED closed,
             UNCHANGED <<capturing, accepted, shut, mailbox, sent, rescue, at, quota, count,
                         panicked, backend>>
      PROVE  IInv'
  <2>1. cmd.kind \in {"done", "flush"} /\ failed' = TRUE
    BY <1>1, <1>6 DEF Answer
  <2>2. SameFronts /\ \A q \in Producers : q # cmd.from => front'[q] = front[q]
    BY <2>1, <1>6, InHand, FrontAfterDone DEF IInv
  <2>3. cmd.kind # "done" => front' = front
    BY <1>6 DEF FrontDone
  <2>4. \A q \in Producers : capturing[q] => front[q].state = "live" /\ (cmd.kind = "done" => q # cmd.from)
    BY <2>1, InHand DEF IInv, Handshake, Capturing
  <2>5. \A q \in Producers :
          /\ capturing[q] => front'[q].state = "live"
          /\ q # cmd.from /\ front[q].state = "live" => front'[q].state = "live"
          /\ finished'[q] => /\ ~capturing[q]
                             /\ failed' \/ closed \/ front'[q].state # "live"
    BY <1>1, <2>1, <2>2, <2>3, <2>4
  <2>6. /\ calls' \in [Callers -> CommandKinds] /\ cmd' \in Commands
        /\ wpc' = "poll" /\ Handshake'
    BY <1>1, <1>6, <2>1, <2>5, Answered
  <2>7. Types'
    BY <1>1, <1>3, <1>6, <2>1, <2>2, <2>6 DEF IInv, Types, SameFronts
  <2> QED
    BY <1>2, <1>6, <2>1, <2>2, <2>6, <2>7
<1>7. PICK fate \in Spoils(p) :
       \/ fate = "panic" /\ Abort(TRUE)
       \/ /\ fate = "rejected"
          /\ IF cmd.kind \in Finishes THEN EndFinish(FALSE) /\ UNCHANGED front
             ELSE Answer(FALSE) /\ FrontDone(FALSE) /\ UNCHANGED closed
          /\ UNCHANGED <<capturing, accepted, shut, mailbox, sent, rescue, at, quota, count,
                         panicked, backend>>
  BY Zenon DEF SettleFails
<1> QED
  BY <1>4, <1>5, <1>6, <1>7

-----------------------------------------------------------------------------
(* The invariant. *)

LEMMA Stuttering == ASSUME IInv, UNCHANGED vars PROVE IInv'
<1> USE DEF vars
<1>1. Types'
  BY ZenonT(60) DEF IInv, Types
<1>2. Queues'
  BY SameQueues DEF IInv, Types, SameFronts
<1>3. Outstanding' /\ CallsMade' /\ Control'
  BY DEF IInv, Handshake, Outstanding, CallsMade, Control, Registered
<1>4. Capturing' /\ Stopped' /\ Ended' /\ Emptied'
  BY DEF IInv, Handshake, Capturing, Stopped, Ended, Emptied, Covered
<1> QED
  BY <1>1, <1>2, <1>3, <1>4 DEF IInv, Handshake

LEMMA WorkerInv == ASSUME IInv, Worker PROVE IInv'
BY StartRoundInv, TakeDiscardInv, TakeDirectInv, TakePushInv, NextInputInv, DrainOneInv,
   MergeFailsInv, SettleFailsInv, MergeEndsInv, PollFailsInv, ReceiveInv, ExecuteControlInv,
   RegisterInv, ExecuteDoneInv, ExecuteFlushInv, ExecuteFinishInv, SettleEndsInv, StopClosesInv,
   StopEndsInv
DEF Worker

LEMMA StepInv == ASSUME IInv, [Next]_vars PROVE IInv'
<1>1. ASSUME NEW p \in Producers, BeginCapture(p) \/ Captures(p) \/ FinishProducer(p) PROVE IInv'
  BY <1>1, BeginCaptureInv, PublishInv, RefuseCaptureInv, CallsInv DEF Captures
<1>2. ASSUME NEW kind \in Calls, OwnerCall(kind) \/ OwnerFinish(kind) PROVE IInv'
  BY <1>2, CallsInv
<1>3. CASE OwnerStats \/ DropWriter \/ DropTransport \/ BeginRescue \/ RescueSteps
  BY <1>3, CallsInv, DropWriterInv, DropTransportInv, BeginRescueInv, RescueClosesInv, RescueSendsInv
  DEF RescueSteps
<1>4. CASE Worker
  BY <1>4, WorkerInv
<1>5. CASE UNCHANGED vars
  BY <1>5, Stuttering
<1> QED
  BY <1>1, <1>2, <1>3, <1>4, <1>5 DEF Next

\* The strengthening of the worker's guarantees that every step preserves.
THEOREM Inductive == Spec => []IInv
BY InitInv, StepInv, PTL DEF Spec

\* Type correctness.
THEOREM TypeCorrect == Spec => []Types
<1>1. IInv => Types
  BY DEF IInv
<1> QED
  BY <1>1, Inductive, PTL


-----------------------------------------------------------------------------
(* What follows from the invariant: the worker's checks on captures never  *)
(* fire, every accepted capture is in exactly one place, the memory charge *)
(* is the number of captures in memory, and the threaded recorder          *)
(* implements the ordered merge of OrderedMerge.                           *)


\* The worker never meets a capture that its producer was not entitled to make: Worker::push's
\* checks for a finished producer and for time that runs backwards never fire.
THEOREM LegalAlways == Spec => []AlwaysLegal
<1>1. IInv => AlwaysLegal
  BY OldestLegal DEF AlwaysLegal
<1> QED
  BY <1>1, Inductive, PTL

\* Worker.memory is the number of captures in the queues in memory, and stays within its limit.
THEOREM BudgetKept == Spec => []PendingBudget
<1>1. IInv => PendingBudget
  BY DEF IInv, Queues, Budget, PendingBudget
<1> QED
  BY <1>1, Inductive, PTL

-----------------------------------------------------------------------------
(* Conservation. *)

\* The queue of p is what it has in memory, then what it has in the file.
LEMMA QueueInTwo ==
  ASSUME Types, NEW p \in Producers
  PROVE  /\ Queue(p) \in Seq(Entries) /\ Len(Queue(p)) = Len(pending[p]) + Len(spilled[p])
         /\ Len(pending[p]) \in Nat /\ Len(spilled[p]) \in Nat
         /\ \A i \in 1 .. Len(pending[p]) : Queue(p)[i] = pending[p][i]
         /\ \A i \in 1 .. Len(spilled[p]) : Queue(p)[Len(pending[p]) + i] = spilled[p][i]
<1>1. pending[p] \in Seq(Entries) /\ spilled[p] \in Seq(Entries)
  BY DEF Types
<1> DEFINE a == pending[p]
           b == spilled[p]
<1>2. a \in Seq(Entries) /\ b \in Seq(Entries) /\ Queue(p) = a \o b
  BY <1>1 DEF Queue
<1> HIDE DEF a, b
<1>3. /\ a \o b \in Seq(Entries) /\ Len(a \o b) = Len(a) + Len(b)
      /\ Len(a) \in Nat /\ Len(b) \in Nat
      /\ \A i \in 1 .. Len(a) : (a \o b)[i] = a[i]
      /\ \A i \in 1 .. Len(b) : (a \o b)[Len(a) + i] = b[i]
  BY <1>2, JoinTwo
<1> QED
  BY <1>2, <1>3, Zenon DEF a, b

\* A position of a queue in two parts is a position of one of them.
LEMMA Positions ==
  ASSUME NEW m \in Nat, NEW k \in Nat, NEW i \in 1 .. m + k
  PROVE  i \in 1 .. m \/ \E j \in 1 .. k : i = m + j
<1>1. CASE i <= m
  BY <1>1
<1>2. CASE i > m
  <2>1. i - m \in 1 .. k /\ i = m + (i - m)
    BY <1>2
  <2> QED
    BY <2>1
<1> QED
  BY <1>1, <1>2

LEMMA QueueFollows ==
  ASSUME Types, NEW p \in Producers, Placed(p)
  PROVE  \A i \in 1 .. Len(Queue(p)) : Queue(p)[i].op.n = Held(p) + i
<1> DEFINE h == Held(p)
           m == Len(pending[p])
           k == Len(spilled[p])
<1>1. /\ m \in Nat /\ k \in Nat /\ h \in Nat /\ Len(Queue(p)) = m + k
      /\ \A i \in 1 .. m : Queue(p)[i] = pending[p][i]
      /\ \A i \in 1 .. k : Queue(p)[m + i] = spilled[p][i]
  BY QueueInTwo, HeldNat DEF Types
<1>2. /\ \A i \in 1 .. m : pending[p][i].op.n = h + i
      /\ \A i \in 1 .. k : spilled[p][i].op.n = h + m + i
  BY DEF Placed, FollowsIn
<1> HIDE DEF h, m, k
<1>3. ASSUME NEW i \in 1 .. m PROVE Queue(p)[i].op.n = h + i
  BY <1>1, <1>2
<1>4. ASSUME NEW j \in 1 .. k PROVE Queue(p)[m + j].op.n = h + (m + j)
  <2>1. spilled[p][j].op.n = h + m + j /\ h + m + j = h + (m + j)
    BY <1>1, <1>2
  <2> QED
    BY <1>1, <2>1
<1>5. ASSUME NEW i \in 1 .. m + k PROVE Queue(p)[i].op.n = h + i
  <2>1. i \in 1 .. m \/ \E j \in 1 .. k : i = m + j
    BY <1>1, Positions
  <2> QED
    BY <1>3, <1>4, <2>1
<1> QED
  BY <1>1, <1>5 DEF h

\* Until a failure every accepted capture is in the recording, queued in memory, in the spill
\* file or in its channel: in one of them only, and in the order it was accepted.
THEOREM ConservedAlways == Spec => []Conserved
<1>1. ASSUME IInv, ~failed, NEW p \in Producers
      PROVE  LET queued == [i \in 1 .. Len(Queue(p)) |-> Queue(p)[i].op] \o ring[p]
             IN /\ Held(p) + Len(queued) = Len(accepted[p])
                /\ \A i \in 1 .. Len(queued) : queued[i].n = Held(p) + i
  <2> DEFINE ops == [i \in 1 .. Len(Queue(p)) |-> Queue(p)[i].op]
             r == ring[p]
             h == Held(p)
             m == Len(pending[p])
             k == Len(spilled[p])
  <2>1. Types /\ Placed(p)
    BY <1>1 DEF IInv, Queues, Conveyed
  <2>2. Queue(p) \in Seq(Entries) /\ Len(Queue(p)) = m + k /\ m \in Nat /\ k \in Nat
    BY <2>1, QueueInTwo
  <2>3. r \in Seq(Ops) /\ h \in Nat
    BY <2>1, HeldNat DEF Types
  <2>4. /\ \A i \in 1 .. Len(r) : r[i].n = h + m + k + i
        /\ h + m + k + Len(r) = Len(accepted[p])
    BY <2>1 DEF Placed, Follows
  <2> HIDE DEF r, h, m, k
  <2>5. ops \in Seq(Ops) /\ Len(ops) = m + k /\ m + k \in Nat
    <3>1. ASSUME NEW i \in 1 .. Len(Queue(p)) PROVE Queue(p)[i].op \in Ops
      <4>1. Queue(p)[i] \in Entries
        BY <2>2, ElementOfSeq
      <4> QED
        BY <4>1 DEF Entries
    <3>2. m + k \in Nat
      BY <2>2
    <3>3. ops \in [1 .. m + k -> Ops]
      BY <2>2, <3>1
    <3>4. DOMAIN ops = 1 .. m + k
      BY <2>2
    <3> HIDE DEF ops
    <3>5. ops \in Seq(Ops)
      BY <3>2, <3>3, SeqDef
    <3> QED
      BY <3>2, <3>4, <3>5, LenProperties
  <2>6. \A i \in 1 .. Len(ops) : ops[i].n = h + i
    <3>1. Len(ops) = Len(Queue(p))
      BY <2>2, <2>5
    <3>2. \A i \in 1 .. Len(Queue(p)) : Queue(p)[i].op.n = h + i
      BY <2>1, QueueFollows DEF h
    <3> QED
      BY <3>1, <3>2
  <2> HIDE DEF ops
  <2>7. /\ Len(ops \o r) = Len(ops) + Len(r) /\ Len(ops) \in Nat /\ Len(r) \in Nat
        /\ \A i \in 1 .. Len(ops) : (ops \o r)[i] = ops[i]
        /\ \A i \in 1 .. Len(r) : (ops \o r)[Len(ops) + i] = r[i]
    <3>1. ops \in Seq(Ops) /\ r \in Seq(Ops)
      BY <2>3, <2>5
    <3> QED
      BY <3>1, JoinTwo
  <2>8. h + Len(ops \o r) = Len(accepted[p])
    <3>1. Len(ops \o r) = m + k + Len(r)
      BY <2>5, <2>7
    <3>2. h + (m + k + Len(r)) = h + m + k + Len(r)
      BY <2>2, <2>3, <2>7
    <3> QED
      BY <2>4, <3>1, <3>2
  <2>9. ASSUME NEW i \in 1 .. Len(ops) + Len(r) PROVE (ops \o r)[i].n = h + i
    <3>1. i \in 1 .. Len(ops) \/ \E j \in 1 .. Len(r) : i = Len(ops) + j
      BY <2>7, Positions
    <3>2. CASE i \in 1 .. Len(ops)
      BY <2>6, <2>7, <3>2
    <3>3. ASSUME NEW j \in 1 .. Len(r), i = Len(ops) + j PROVE (ops \o r)[i].n = h + i
      <4>1. (ops \o r)[i] = r[j]
        BY <2>7, <3>3
      <4>2. i = m + k + j
        BY <2>5, <3>3
      <4>3. h + m + k + j = h + (m + k + j)
        BY <2>2, <2>3, <2>7
      <4> QED
        BY <2>4, <4>1, <4>2, <4>3
    <3> QED
      BY <3>1, <3>2, <3>3
  <2> QED
    BY <2>7, <2>8, <2>9 DEF ops, h, r
<1>2. IInv => Conserved
  BY <1>1 DEF Conserved
<1> QED
  BY <1>2, Inductive, PTL

-----------------------------------------------------------------------------
(* The refinement of OrderedMerge. *)

USE DEF frontVars, channelVars, callVars, sharedVars, ingestVars, queueVars, workerVars, backend

LEMMA InitMaps == Init => Merge!Init
BY DEF Init, Merge!Init

\* Both specifications count what the recording holds in the same way.
LEMMA HeldMaps == \A p : Merge!Held(p) = Held(p)
BY Zenon DEF Merge!Held, Held, Merge!Cardinality, Cardinality

\* A step that neither captures nor adds to the recording stutters, unless it fails the recording.
LEMMA StutterMaps ==
  ASSUME IInv, UNCHANGED <<accepted, applied, sealed>>,
         failed' = failed \/ (failed' /\ (sealed = "open" \/ wpc \notin {"stopping", "exited"}))
  PROVE  [Merge!Next]_Merge!vars
<1>1. CASE failed' = failed
  BY <1>1 DEF Merge!vars
<1>2. CASE failed' # failed
  <2>1. failed' = TRUE /\ ~failed /\ sealed = "open"
    BY <1>2 DEF IInv, Types, Handshake, Stopped
  <2>2. Merge!Poison
    BY <2>1 DEF Merge!Poison
  <2> QED
    BY <2>2 DEF Merge!Next
<1> QED
  BY <1>1, <1>2

LEMMA PublishMaps ==
  ASSUME IInv, NEW p \in Producers, NEW time \in 0 .. MaxTime, NEW fate \in Fates,
         Publish(p, time, fate)
  PROVE  Merge!Accept(p, time)
<1>1. /\ capturing[p] /\ front[p].time <= time
      /\ accepted' = [accepted EXCEPT ![p] = Append(@, time)]
      /\ UNCHANGED <<applied, failed, sealed>>
  BY DEF Publish
<1>2. sealed = "open"
  BY <1>1 DEF IInv, Handshake, Stopped
<1>3. ASSUME NEW n \in 1 .. Len(accepted[p]) PROVE accepted[p][n] <= time
  <2>1. accepted[p][n] <= front[p].time
    BY DEF IInv, Queues, Sorted
  <2>2. front[p].time \in Nat /\ time \in Nat /\ accepted[p] \in Seq(Nat)
    BY TransportAssumption DEF IInv, Types
  <2>3. accepted[p][n] \in Nat
    BY <2>2, ElementOfSeq
  <2> QED
    BY <1>1, <2>1, <2>2, <2>3
<1> QED
  BY <1>1, <1>2, <1>3 DEF Merge!Accept

\* The next capture of p joins the recording.
LEMMA ApplyMaps ==
  ASSUME IInv, NEW p \in Producers, ~failed, sealed = "open",
         Held(p) + 1 \in 1 .. Len(accepted[p]), captured <= accepted[p][Held(p) + 1],
         applied' = Append(applied, <<p, Held(p) + 1>>), UNCHANGED <<accepted, failed, sealed>>
  PROVE  Merge!Apply(p)
<1>1. Held(p) \in Nat /\ accepted[p] \in Seq(Nat) /\ captured \in Nat
  BY HeldNat DEF IInv, Types
<1>2. Held(p) < Len(accepted[p]) /\ accepted[p][Held(p) + 1] \in Nat
  BY <1>1, LenProperties, ElementOfSeq
<1>3. ASSUME NEW i \in 1 .. Len(applied)
      PROVE  Merge!StampOf(applied[i]) <= accepted[p][Held(p) + 1]
  <2>1. /\ applied[i][2] \in 1 .. Len(accepted[applied[i][1]])
        /\ accepted[applied[i][1]][applied[i][2]] <= captured
    BY DEF IInv, Queues, Merged
  <2>2. accepted[applied[i][1]] \in Seq(Nat)
    BY Entered DEF IInv, Types
  <2>3. accepted[applied[i][1]][applied[i][2]] \in Nat
    BY <2>1, <2>2, ElementOfSeq
  <2>4. ASSUME NEW a \in Nat, NEW b \in Nat, NEW c \in Nat, a <= b, b <= c PROVE a <= c
    BY <2>4
  <2> QED
    BY <1>1, <1>2, <2>1, <2>3, <2>4, Zenon DEF Merge!StampOf
<1> QED
  BY <1>2, <1>3, HeldMaps DEF Merge!Apply

LEMMA TakeDirectMaps == ASSUME IInv, TakeDirect PROVE [Merge!Next]_Merge!vars
<1>1. /\ ~failed /\ count = 1 /\ wpc = "take" /\ quota > 0
      /\ UNCHANGED <<accepted, sealed>>
  BY DEF TakeDirect, Consume, Apply, Consumed, Abort
<1>2. sealed = "open"
  BY <1>1 DEF IInv, Handshake, Stopped
<1>3. CASE Apply(Oldest) /\ Consumed
  <2>1. /\ applied' = Append(applied, <<Oldest.from, Oldest.n>>) /\ failed' = failed
    BY <1>3 DEF Apply, Consumed
  <2>2. /\ at \in Registered /\ at \in Producers /\ ring[at] # << >>
        /\ 1 \in 1 .. Len(ring[at]) /\ Oldest = ring[at][1]
    BY <1>1, OldestKnown DEF IInv, Handshake
  <2>3. captured <= Oldest.stamp /\ Placed(at)
    BY <1>1, OldestLegal
  <2>4. pending[at] = << >> /\ spilled[at] = << >>
    BY <1>1, <2>2 DEF IInv, Queues, Blank
  <2>5. Held(at) \in Nat
    BY HeldNat DEF IInv, Types
  <2>6. Follows(ring[at], Held(at), at)
    <3>1. Follows(ring[at], Held(at) + Len(pending[at]) + Len(spilled[at]), at)
      BY <2>3 DEF Placed
    <3>2. Len(pending[at]) = 0 /\ Len(spilled[at]) = 0 /\ Held(at) + 0 + 0 = Held(at)
      BY <2>4, <2>5
    <3> QED
      BY <3>1, <3>2
  <2>7. /\ Oldest.from = at /\ Oldest.n = Held(at) + 1
        /\ Held(at) + 1 \in 1 .. Len(accepted[at])
        /\ Oldest.stamp = accepted[at][Held(at) + 1]
    BY <2>2, <2>6 DEF Follows
  <2>8. Merge!Apply(at)
    BY <1>1, <1>2, <2>1, <2>2, <2>3, <2>7, ApplyMaps
  <2> QED
    BY <2>2, <2>8 DEF Merge!Next
<1>4. CASE Oldest.fate # "good" /\ Abort(Oldest.fate = "panic")
  <2>1. failed' = TRUE /\ UNCHANGED <<accepted, applied, sealed>>
    BY <1>4 DEF Abort
  <2> QED
    BY <1>2, <2>1, StutterMaps
<1> QED
  BY <1>3, <1>4 DEF TakeDirect

LEMMA DrainOneMaps ==
  ASSUME IInv, NEW p \in Producers, DrainOne(p) PROVE [Merge!Next]_Merge!vars
<1>1. /\ wpc \in {"merge", "settle"} /\ Selected(p)
      /\ applied' = Append(applied, <<First(p).op.from, First(p).op.n>>)
      /\ UNCHANGED <<accepted, failed, sealed>>
  BY DEF DrainOne, Due, Apply
<1>2. ~failed /\ Frontier /\ Placed(p) /\ Sorted /\ sealed = "open"
  BY <1>1 DEF IInv, Handshake, Control, Queues, Conveyed, Stopped
<1>3. p \in Registered /\ Queue(p) # << >>
  BY <1>1 DEF Selected, Waiting
<1>4. /\ First(p).op.from = p /\ First(p).op.n = Held(p) + 1
      /\ Held(p) + 1 \in 1 .. Len(accepted[p]) /\ First(p).op.stamp = accepted[p][Held(p) + 1]
  BY <1>2, <1>3, FirstPlaced DEF IInv
<1>5. captured <= First(p).op.stamp
  <2>1. First(p) \in Entries /\ InQueue(p, First(p))
    BY <1>3, FirstOfQueue DEF IInv
  <2> QED
    BY <1>2, <1>3, <2>1 DEF Frontier
<1>6. Merge!Apply(p)
  BY <1>1, <1>2, <1>4, <1>5, ApplyMaps
<1> QED
  BY <1>6 DEF Merge!Next

\* Of the first operations of the queues one goes before all others: the least in time, then the
\* one that was enqueued first.
LEMMA SomeSelected ==
  ASSUME Types, Sequenced, Waiting # {} PROVE \E p \in Waiting : Selected(p)
<1>1. ASSUME NEW q \in Waiting
      PROVE  /\ q \in Producers /\ First(q) \in Entries /\ InQueue(q, First(q))
             /\ First(q).op.stamp \in Nat /\ First(q).sequence \in Nat
  <2>1. q \in Producers /\ Queue(q) # << >>
    BY Registering DEF Waiting, Registered, Types
  <2>2. First(q) \in Entries /\ InQueue(q, First(q))
    BY <2>1, FirstOfQueue
  <2> QED
    BY <2>1, <2>2 DEF Entries, Ops
<1> DEFINE stamps == {First(q).op.stamp : q \in Waiting}
<1>2. PICK m \in stamps : \A n \in stamps : m <= n
  <2>1. stamps \in SUBSET Nat /\ stamps # {}
    BY <1>1
  <2> HIDE DEF stamps
  <2> QED
    BY <2>1, Least
<1> DEFINE orders == {First(q).sequence : q \in {r \in Waiting : First(r).op.stamp = m}}
<1>3. PICK t \in orders : \A n \in orders : t <= n
  <2>1. orders \in SUBSET Nat /\ orders # {}
    BY <1>1, <1>2
  <2> HIDE DEF orders
  <2> QED
    BY <2>1, Least
<1>4. PICK p \in Waiting : First(p).op.stamp = m /\ First(p).sequence = t
  BY <1>3
<1>5. ASSUME NEW q \in Waiting \ {p} PROVE Before(First(p), First(q))
  <2>1. First(p).op.stamp <= First(q).op.stamp
    BY <1>2, <1>4
  <2>2. ASSUME First(q).op.stamp = First(p).op.stamp PROVE First(p).sequence < First(q).sequence
    <3>1. First(p).sequence <= First(q).sequence
      BY <1>3, <1>4, <2>2
    <3>2. First(p).sequence # First(q).sequence
      BY <1>1, <1>4, <1>5 DEF Sequenced
    <3> QED
      BY <1>1, <1>4, <3>1, <3>2
  <2> QED
    BY <1>1, <1>4, <2>1, <2>2 DEF Before
<1> QED
  BY <1>4, <1>5 DEF Selected

\* When the drain of a finish ends, everything that was captured is in the recording.
LEMMA AllMerged ==
  ASSUME IInv, wpc = "settle", cmd.kind \in Finishes, \A p \in Waiting : ~Due(p)
  PROVE  \A p \in Producers : Held(p) = Len(accepted[p])
<1>1. Waiting = {}
  <2> SUFFICES ASSUME Waiting # {} PROVE FALSE
    OBVIOUS
  <2>1. PICK p \in Waiting : Selected(p)
    BY SomeSelected DEF IInv, Queues
  <2> QED
    BY <2>1 DEF Due, Finishes
<1>2. ~failed /\ (\A p \in Registered : finished[p]) /\ Frontier
  BY DEF IInv, Handshake, Control, Queues, Conveyed
<1>3. ASSUME NEW p \in Producers PROVE ring[p] = << >> /\ Queue(p) = << >>
  <2>1. CASE p \in Registered
    BY <1>1, <1>2, <2>1 DEF Frontier, Waiting
  <2>2. CASE p \notin Registered
    <3>1. p >= count
      BY <2>2, Below, Beyond, ActorsDistinct DEF Registered, IInv, Types
    <3>2. ring[p] = << >> /\ pending[p] = << >> /\ spilled[p] = << >>
      BY <3>1 DEF IInv, Queues, Blank
    <3> QED
      BY <3>2 DEF Queue
  <2> QED
    BY <2>1, <2>2
<1>4. ASSUME NEW p \in Producers PROVE Held(p) = Len(accepted[p])
  <2>1. /\ Len(pending[p]) \in Nat /\ Len(spilled[p]) \in Nat
        /\ Len(Queue(p)) = Len(pending[p]) + Len(spilled[p])
        /\ Len(Queue(p)) = 0 /\ Len(ring[p]) = 0
    BY <1>3, QueueInTwo DEF IInv
  <2>2. Held(p) \in Nat
    BY HeldNat DEF IInv, Types
  <2>3. Held(p) + Len(pending[p]) + Len(spilled[p]) + Len(ring[p]) = Len(accepted[p])
    BY <1>2 DEF IInv, Queues, Conveyed, Placed
  <2>4. Len(pending[p]) = 0 /\ Len(spilled[p]) = 0
    <3>1. ASSUME NEW a \in Nat, NEW b \in Nat, a + b = 0 PROVE a = 0 /\ b = 0
      BY <3>1
    <3> QED
      BY <2>1, <3>1
  <2> QED
    BY <2>1, <2>2, <2>3, <2>4
<1> QED
  BY <1>4

\* A finish seals the recording, or fails it, or leaves it as it was.
LEMMA FinalizeMaps ==
  ASSUME IInv, Finalize, wpc \in {"execute", "settle"}, UNCHANGED <<accepted, applied>>,
         failed => cmd.kind # "close",
         failed \/ \A p \in Producers : Held(p) = Len(accepted[p])
  PROVE  [Merge!Next]_Merge!vars
<1>1. sealed = "open"
  BY DEF IInv, Handshake, Stopped
<1>2. CASE /\ sealed' = (IF cmd.kind = "close" THEN "complete" ELSE "incomplete")
           /\ EndFinish(TRUE) /\ UNCHANGED <<rescue, panicked>>
  <2>1. failed' = failed
    BY <1>2 DEF EndFinish, IInv, Types
  <2>2. Merge!Seal
    BY <1>1, <1>2, <2>1, HeldMaps DEF Merge!Seal
  <2> QED
    BY <2>2 DEF Merge!Next
<1>3. CASE EndFinish(FALSE) /\ UNCHANGED <<sealed, rescue, panicked>>
  <2>1. failed' = TRUE
    BY <1>3 DEF EndFinish
  <2> QED
    BY <1>1, <1>3, <2>1, StutterMaps
<1>4. CASE Abort(TRUE) /\ UNCHANGED closed
  <2>1. failed' = TRUE /\ UNCHANGED <<accepted, applied, sealed>>
    BY <1>4 DEF Abort
  <2> QED
    BY <1>1, <2>1, StutterMaps
<1> QED
  BY <1>2, <1>3, <1>4 DEF Finalize

LEMMA FinishMaps == ASSUME IInv, ExecuteFinish PROVE [Merge!Next]_Merge!vars
<1>1. wpc = "execute" /\ cmd.kind \in Finishes /\ UNCHANGED <<accepted, applied>>
  BY DEF ExecuteFinish, Executing
<1>2. CASE Refused /\ EndFinish(FALSE) /\ UNCHANGED <<sealed, rescue, panicked>>
  <2>1. failed' = TRUE
    BY <1>2 DEF EndFinish
  <2> QED
    BY <1>1, <1>2, <2>1, StutterMaps
<1>3. CASE UNCHANGED <<sharedVars, sealed>>
  BY <1>1, <1>3, StutterMaps
<1>4. CASE ~Refused /\ failed /\ Finalize
  <2>1. cmd.kind # "close"
    BY <1>4 DEF Refused
  <2> QED
    BY <1>1, <1>4, <2>1, FinalizeMaps
<1> QED
  BY <1>2, <1>3, <1>4 DEF ExecuteFinish

LEMMA SettleEndsMaps == ASSUME IInv, SettleEnds PROVE [Merge!Next]_Merge!vars
<1>1. wpc = "settle" /\ ~failed /\ \A p \in Waiting : ~Due(p)
  BY DEF SettleEnds, IInv, Handshake, Control
<1>2. ASSUME NEW ok \in BOOLEAN, Answer(ok), FrontDone(ok),
             UNCHANGED <<accepted, captured, applied, sealed>>
      PROVE  [Merge!Next]_Merge!vars
  <2>1. failed' = failed \/ failed'
    <3>1. failed' = (failed \/ ~ok) /\ failed \in BOOLEAN
      BY <1>2 DEF Answer, IInv, Types
    <3> QED
      BY <3>1
  <2> QED
    BY <1>1, <1>2, <2>1, StutterMaps
<1>3. CASE cmd.kind \in Finishes /\ Finalize /\ UNCHANGED <<accepted, applied>>
  <2>1. \A p \in Producers : Held(p) = Len(accepted[p])
    BY <1>1, <1>3, AllMerged
  <2> QED
    BY <1>1, <1>3, <2>1, FinalizeMaps
<1>4. CASE Abort(TRUE)
  <2>1. failed' = TRUE /\ UNCHANGED <<accepted, applied, sealed>>
    BY <1>4 DEF Abort
  <2> QED
    BY <1>1, <2>1, StutterMaps
<1> QED
  BY <1>2, <1>3, <1>4 DEF SettleEnds

\* The steps of the worker.
LEMMA WorkerMaps == ASSUME IInv, Worker PROVE [Merge!Next]_Merge!vars
<1> USE DEF Snapshot, Consume, Consumed, Abort, Answer, Exit
<1>1. CASE StartRound \/ TakeDiscard \/ NextInput \/ MergeEnds \/ Receive \/ Register
           \/ ExecuteFlush \/ StopCloses \/ StopEnds
  <2>1. UNCHANGED <<accepted, applied, sealed>>
    BY <1>1 DEF StartRound, TakeDiscard, NextInput, MergeEnds, Receive, Register, ExecuteFlush,
                StopCloses, StopEnds
  <2>2. failed' = failed
    BY <1>1 DEF StartRound, TakeDiscard, NextInput, MergeEnds, Receive, Register, ExecuteFlush,
                StopCloses, StopEnds, IInv, Types
  <2> QED
    BY <2>1, <2>2, StutterMaps
<1>2. CASE ExecuteControl \/ ExecuteStats \/ ExecuteDone \/ RefuseFailed \/ ExecuteShutdown
           \/ TakePush \/ PollFails
  <2>1. UNCHANGED <<accepted, applied, sealed>> /\ wpc \notin {"stopping", "exited"}
    BY <1>2 DEF ExecuteControl, ExecuteStats, ExecuteDone, RefuseFailed, ExecuteShutdown, Executing,
                TakePush, PollFails
  <2>2. failed' = failed \/ failed'
    BY <1>2 DEF ExecuteControl, ExecuteStats, ExecuteDone, RefuseFailed, ExecuteShutdown,
                TakePush, PollFails, IInv, Types
  <2> QED
    BY <2>1, <2>2, StutterMaps
<1>3. ASSUME NEW p \in Producers, MergeFails(p) \/ SettleFails(p)
      PROVE  [Merge!Next]_Merge!vars
  <2>1. UNCHANGED <<accepted, applied, sealed>> /\ wpc \notin {"stopping", "exited"} /\ failed' = TRUE
    BY <1>3 DEF MergeFails, SettleFails, EndFinish
  <2> QED
    BY <2>1, StutterMaps
<1>4. CASE TakeDirect \/ ExecuteFinish \/ SettleEnds \/ \E p \in Producers : DrainOne(p)
  BY <1>4, TakeDirectMaps, FinishMaps, SettleEndsMaps, DrainOneMaps
<1> QED
  BY <1>1, <1>2, <1>3, <1>4 DEF Worker

LEMMA StepMaps == ASSUME IInv, [Next]_vars PROVE [Merge!Next]_Merge!vars
<1>1. ASSUME UNCHANGED <<accepted, applied, sealed, failed>> PROVE [Merge!Next]_Merge!vars
  BY <1>1, StutterMaps
<1>2. ASSUME NEW p \in Producers, Captures(p) PROVE [Merge!Next]_Merge!vars
  <2>1. CASE RefuseCapture(p)
    BY <1>1, <2>1 DEF RefuseCapture
  <2>2. ASSUME NEW time \in 0 .. MaxTime, NEW fate \in Fates, Publish(p, time, fate)
        PROVE  [Merge!Next]_Merge!vars
    BY <2>2, PublishMaps DEF Merge!Next
  <2> QED
    BY <1>2, <2>1, <2>2 DEF Captures
<1>3. ASSUME NEW p \in Producers, BeginCapture(p) \/ FinishProducer(p)
      PROVE  [Merge!Next]_Merge!vars
  BY <1>1, <1>3 DEF BeginCapture, FinishProducer, Send
<1>4. ASSUME NEW kind \in Calls, OwnerCall(kind) \/ OwnerFinish(kind)
      PROVE  [Merge!Next]_Merge!vars
  BY <1>1, <1>4 DEF OwnerCall, OwnerFinish, Send
<1>5. CASE OwnerStats \/ DropWriter \/ DropTransport \/ BeginRescue \/ RescueSteps
  BY <1>1, <1>5
  DEF OwnerStats, Send, DropWriter, DropTransport, BeginRescue, RescueSteps, RescueCloses, RescueSends
<1>6. CASE Worker
  BY <1>6, WorkerMaps
<1>7. CASE UNCHANGED vars
  BY <1>1, <1>7 DEF vars
<1> QED
  BY <1>2, <1>3, <1>4, <1>5, <1>6, <1>7 DEF Next

\* The threaded recorder implements the ordered merge: each producer's captures enter the
\* recording in the order they were accepted, none skipped or twice, in the order of time across
\* producers; a recording that did not fail is sealed with all of them, and one that failed keeps
\* the prefix it had and is never sealed as complete.
THEOREM Refines == Spec => MergeSpec
<1>1. Init => Merge!Init
  BY InitMaps
<1>2. IInv /\ [Next]_vars => [Merge!Next]_Merge!vars
  BY StepMaps
<1> QED
  BY <1>1, <1>2, Inductive, PTL DEF Spec, MergeSpec, Merge!Spec

=============================================================================
