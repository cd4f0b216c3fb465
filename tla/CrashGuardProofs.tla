--------------------------- MODULE CrashGuardProofs --------------------------
(***************************************************************************)
(* The crash guard, for any number of threads, slots and watches and any   *)
(* crashes, stops and exits, with the calls of watch and unwatch of all    *)
(* threads interleaved at every store: a rescue has exclusive access to    *)
(* the writers that it closes unless a stop closes one whose slot lost its *)
(* owner, it looks into no freed box and misses no watched writer, and a   *)
(* thread it asked to stop captures nothing more.                          *)
(***************************************************************************)
EXTENDS CrashGuard, TLAPS

Calling == {"check", "reserve", "own", "state", "show", "recheck",
            "scan", "compare", "forget", "disown", "free"}
Labels == {"out", "capture", "publish", "left"} \cup Calling
Modes == {"runs", "exits", "crashed", "waits", "paused", "parked"}
Steps == {"none", "claim", "ask", "signal", "wait", "decide", "close", "closing", "seal", "end",
          "parked"}

Types ==
  /\ state \in {"idle", "rescuing", "done"} /\ tid \in {None} \cup Threads \cup Workers
  /\ watched \in [Slots -> {NoBox, Reserved} \cup Boxes]
  /\ owner \in [Slots -> {None} \cup Threads] /\ states \in [Slots -> {None} \cup Threads]
  /\ parked \in [Slots -> BOOLEAN]
  /\ busy \in [Threads -> BOOLEAN] /\ poisoned \in [Threads -> BOOLEAN]
  /\ request \in [Threads -> BOOLEAN] /\ covered \in [Threads -> BOOLEAN]
  /\ pending \in [Threads -> BOOLEAN]
  /\ pc \in [Threads -> Labels]
  /\ mode \in [Threads \cup Workers -> Modes]
  /\ at \in [Threads -> Slots] /\ seen \in [Threads -> {NoBox} \cup Boxes]
  /\ count \in [Threads -> 0 .. MaxWatches] /\ freed \subseteq Boxes
  /\ guard \in {"loop", "poll", "look", "stops", "crash", "stop"}
  /\ rescuer \in {None, Guard} \cup Threads /\ stopped \in {None} \cup Threads
  /\ step \in Steps
  /\ slot \in Slots /\ claimed \in [Slots -> {NoBox} \cup Boxes]
  /\ target \in {None} \cup Threads /\ waiting \subseteq Slots
  /\ ended \in [Threads -> {"open", "finished", "sealed", "failed"}]

\* A box that was allocated and stored.
Known(b) == /\ b.n <= count[b.writer]
            /\ pc[b.writer] = "show" => b.n < count[b.writer]

\* Every box is in one place.
Heap ==
  /\ \A i \in Slots : watched[i] \in Boxes => watched[i] \notin freed /\ Known(watched[i])
  /\ \A i \in Slots : claimed[i] \in Boxes => claimed[i] \notin freed /\ Known(claimed[i])
  /\ \A i, j \in Slots : claimed[i] \in Boxes => watched[j] # claimed[i]
  /\ \A b \in freed : Known(b)

\* A box in the hands of its owner.
Taken ==
  \A t \in Threads :
    /\ pc[t] \in {"check", "reserve", "own", "state"} => count[t] < MaxWatches
    /\ pc[t] = "show" => count[t] >= 1
    /\ pc[t] = "compare" =>
         seen[t] \in Boxes /\ (seen[t].writer = t => seen[t] \notin freed /\ Known(seen[t]))
    /\ pc[t] \in {"forget", "disown", "free"} =>
         /\ seen[t] \in Boxes /\ seen[t].writer = t /\ seen[t] \notin freed /\ Known(seen[t])
         /\ \A i \in Slots : watched[i] # seen[t] /\ claimed[i] # seen[t]

\* Thread t has taken its box from slot i and not cleared STATES yet.
Leaving(t, i) == pc[t] = "forget" /\ at[t] = i

\* A slot belongs to the thread whose box it holds, or has lost its owner.
Owned ==
  /\ \A i \in Slots : watched[i] \in Boxes =>
       owner[i] \in {watched[i].writer, None} /\ states[i] \in {watched[i].writer, None}
  /\ \A i \in Slots : claimed[i] \in Boxes =>
       watched[i] = Reserved /\ owner[i] \in {claimed[i].writer, None}
  /\ \A i \in Slots, u \in Threads : states[i] = u =>
       owner[i] \in {u, None} \/ Leaving(u, i)
  /\ \A i \in Slots, u \in Threads : states[i] = u /\ watched[i] = NoBox => Leaving(u, i)

\* A slot that a call of watch has reserved is its own, but for what unwatch clears late.
Setting ==
  \A t \in Threads :
    /\ pc[t] \in {"own", "state", "show"} =>
         /\ watched[at[t]] = Reserved /\ claimed[at[t]] = NoBox
         /\ \A u \in Threads : pc[u] \in {"own", "state", "show"} /\ at[u] = at[t] => u = t
    /\ pc[t] \in {"own", "state"} =>
         \A u \in Threads : states[at[t]] = u => Leaving(u, at[t])
    /\ pc[t] \in {"state", "show"} =>
         owner[at[t]] \in {t, None} /\ (parked[at[t]] => ~Runs(t))
    /\ pc[t] = "show" => states[at[t]] \in {t, None}

\* A rescue at work has a box of t.
Caught(t) == step # "none" /\ \E i \in Slots : claimed[i] \in Boxes /\ claimed[i].writer = t

\* Slot i holds a box of t, and no rescue has claimed it.
Shows(t, i) == watched[i] \in Boxes /\ watched[i].writer = t

\* A thread has one box at a time besides those that a rescue kept, and its scan does not pass it.
Single ==
  /\ \A t \in Threads, i, j \in Slots : Shows(t, i) /\ Shows(t, j) => i = j
  /\ \A t \in Threads, i \in Slots : Shows(t, i) => ~Caught(t)
  /\ \A t \in Threads, i \in Slots : Shows(t, i) =>
       pc[t] \notin {"check", "reserve", "own", "state", "show", "forget", "disown", "free"}
  /\ \A t \in Threads, i \in Slots : Shows(t, i) /\ Runs(t) /\ pc[t] = "out" => covered[t]
  /\ \A t \in Threads, i \in Slots :
       Shows(t, i) /\ Runs(t) /\ pc[t] \in {"scan", "compare"} => i >= at[t]
  /\ \A t \in Threads, i \in Slots :
       Shows(t, i) /\ Runs(t) /\ pc[t] = "compare" /\ i = at[t] => watched[i] = seen[t]
  /\ \A t \in Threads : pc[t] \in {"capture", "publish", "left"} => covered[t]
  /\ \A t \in Threads :
       pc[t] \in {"reserve", "own", "state", "show", "forget", "disown", "free"} => ~Caught(t)
  /\ \A t \in Threads : pc[t] \in {"out", "capture", "publish", "left", "check"} => at[t] = 1

\* A stop has claimed a slot of t that lost its owner.
Lost(t) ==
  /\ guard = "stop"
  /\ \E i \in Slots : claimed[i] \in Boxes /\ claimed[i].writer = t /\ owner[i] # t

Halted ==
  /\ \A i \in Slots : parked[i] /\ watched[i] \in Boxes => ~Runs(watched[i].writer)
  /\ \A i \in Slots : parked[i] /\ claimed[i] \in Boxes => ~Runs(claimed[i].writer)
  /\ tid \in Threads => ~Runs(tid)
  /\ stopped \in Threads => ~Runs(stopped)
  /\ rescuer \in Threads => ~Runs(rescuer)
  /\ \A t \in Threads : pc[t] \in {"capture", "publish"} => busy[t] \/ Lost(t)
  /\ \A t \in Threads : busy[t] /\ ~poisoned[t] =>
       \/ pc[t] \in {"capture", "publish"} \/ Lost(t)
       \/ step = "closing" /\ Victim = t /\ ~Runs(t)

Deciding ==
  /\ step \in {"signal", "close", "closing", "seal"} => claimed[slot] \in Boxes
  /\ step \in {"close", "closing"} => Away(Victim) \/ Lost(Victim)
  /\ \A t \in Threads : ended[t] = "finished" => Away(t) \/ Lost(t)

Phase ==
  /\ step # "none" => /\ state = "rescuing" /\ rescuer # None
                      /\ rescuer = Guard => guard \in {"crash", "stop"}
                      /\ rescuer # Guard => tid = None
                      /\ stopped = None => guard = "stop"
  /\ \A t \in Threads \cup Workers : mode[t] = "crashed" =>
       /\ state = "rescuing" /\ tid = None /\ (step # "none" => rescuer = Guard)
       /\ \A u \in Threads \cup Workers : mode[u] = "crashed" => u = t
  /\ tid # None => state # "idle"
  /\ guard = "crash" => tid # None
  /\ guard = "stop" /\ ~over => state = "rescuing" /\ step # "none" /\ rescuer = Guard
  /\ step = "wait" => slot = 1

Settling(t) ==
  \E i \in Slots : /\ claimed[i] \in Boxes /\ claimed[i].writer = t
                   /\ \/ step \in {"claim", "ask", "signal", "wait"}
                      \/ step \in {"decide", "close", "closing", "seal", "parked"} /\ i >= slot

Present(t) ==
  \/ ended[t] # "open" \/ Settling(t)
  \/ \E i \in Slots : Shows(t, i)

Covering ==
  /\ \A t \in Threads : covered[t] \/ pc[t] = "recheck" => Present(t)
  /\ \A t \in Threads : covered[t] => pc[t] \notin Calling
  /\ \A t \in Threads, i \in Slots :
       covered[t] /\ Shows(t, i) /\ step # "none" => step = "claim" /\ i >= slot
  /\ state = "done" /\ tid \in Threads => \A t \in Threads : covered[t] => ended[t] # "open"

Asking ==
  /\ \A i \in waiting : claimed[i] \in Boxes
  /\ step = "claim" => waiting = {}
  /\ step = "signal" => target = Victim /\ (Runs(Victim) => request[Victim])
  /\ \A i \in waiting : Runs(claimed[i].writer) =>
       request[claimed[i].writer] \/ Lost(claimed[i].writer)
  /\ \A i \in waiting :
       Runs(claimed[i].writer) /\ ~pending[claimed[i].writer] =>
         \/ poisoned[claimed[i].writer] \/ pc[claimed[i].writer] \in {"capture", "publish", "left"}
         \/ Lost(claimed[i].writer)

IInv == /\ Types /\ Heap /\ Taken /\ Owned /\ Setting /\ Single /\ Halted /\ Deciding /\ Phase
        /\ Covering /\ Asking
-----------------------------------------------------------------------------
\* The names of this specification's actors and boxes are told apart.
LEMMA Apart ==
  /\ None \notin Threads /\ Guard \notin Threads /\ None # Guard
  /\ None \notin Workers /\ Guard \notin Workers
  /\ Reserved \notin Boxes /\ NoBox \notin Boxes /\ Reserved # NoBox
  /\ SlotCount \in Nat /\ 1 \in Slots /\ MaxWatches \in Nat
BY GuardAssumption, SentinelAssumption DEF Boxes, NoBox, Slots

LEMMA BoxFields ==
  /\ \A b \in Boxes : b.writer \in Threads /\ b.n \in 1 .. MaxWatches
  /\ \A t \in Threads, n \in 1 .. MaxWatches :
       /\ [writer |-> t, n |-> n] \in Boxes
       /\ [writer |-> t, n |-> n].writer = t /\ [writer |-> t, n |-> n].n = n
BY DEF Boxes

\* Which control points are inside watch or unwatch.
LEMMA Labelled ==
  /\ Calling \subseteq Labels
  /\ "out" \in Labels /\ "capture" \in Labels /\ "publish" \in Labels /\ "left" \in Labels
  /\ "out" \notin Calling /\ "capture" \notin Calling
  /\ "publish" \notin Calling /\ "left" \notin Calling
  /\ "check" \in Calling /\ "reserve" \in Calling /\ "own" \in Calling /\ "state" \in Calling
  /\ "show" \in Calling /\ "recheck" \in Calling /\ "scan" \in Calling
  /\ "compare" \in Calling /\ "forget" \in Calling /\ "disown" \in Calling /\ "free" \in Calling
BY DEF Labels, Calling

\* Counts are numbers.
LEMMA Counted ==
  ASSUME Types
  PROVE  \A t \in Threads : count[t] \in Nat /\ count[t] <= MaxWatches
<1>1. \A t \in Threads : count[t] \in 0 .. MaxWatches
  BY DEF Types
<1> HIDE DEF Types
<1> QED
  BY <1>1

\* The next slot, or the next part of a rescue.
LEMMA Advanced ==
  ASSUME Types, NEW loop, NEW after, Advance(loop, after)
  PROVE  /\ slot' \in Slots /\ \A i \in Slots : i >= 1
         /\ \/ step' = loop /\ \A i \in Slots : i >= slot' <=> i >= slot /\ i # slot
            \/ step' = after /\ slot' = 1 /\ \A i \in Slots : i >= slot => i = slot
<1>1. slot \in 1 .. SlotCount
  BY DEF Types, Slots
<1> HIDE DEF Types
<1>2. CASE slot < SlotCount
  BY <1>1, <1>2, Apart DEF Advance, Slots
<1>3. CASE ~(slot < SlotCount)
  BY <1>1, <1>3, Apart DEF Advance, Slots
<1> QED
  BY <1>2, <1>3

-----------------------------------------------------------------------------
(* Every step preserves the invariant. *)

USE DEF stopVars, slotVars, crashVars, threadVars, guardVars, rescueVars, outside, callers, program,
        others

LEMMA BeginCaptureInv ==
  ASSUME IInv, NEW t \in Threads, BeginCapture(t) PROVE IInv'
<1>1. /\ mode[t] = "runs" /\ pc[t] = "out"
      /\ covered[t] /\ ~poisoned[t]
      /\ pc' = [pc EXCEPT ![t] = "capture"]
      /\ busy' = [busy EXCEPT ![t] = TRUE]
      /\ UNCHANGED <<state, tid, watched, owner, states, parked, poisoned, request, covered,
                     pending, mode, at, seen, count, freed, guard, rescuer, stopped, step, slot,
                     claimed, target, waiting, ended, over>>
  BY DEF BeginCapture, Go, Runs
<1>2. Types /\ Heap /\ Taken /\ Owned /\ Setting /\ Single /\ Halted
      /\ Deciding /\ Phase /\ Covering /\ Asking
  BY DEF IInv
<1>3. /\ mode[t] = "runs" /\ pc[t] = "out"
      /\ covered[t] /\ ~poisoned[t]
      /\ \A u \in Threads : at[u] \in Slots
      /\ freed \subseteq Boxes
      /\ UNCHANGED <<state, tid, watched, owner, states, parked, poisoned, request, covered,
                     pending, mode, at, seen, count, freed, guard, rescuer, stopped, step, slot,
                     claimed, target, waiting, ended, over>>
  BY <1>1, <1>2 DEF Types
<1>4. pc'[t] = "capture" /\ \A u \in Threads : u # t => pc'[u] = pc[u]
  BY <1>1, <1>2 DEF Types
<1>5. busy'[t] = TRUE /\ \A u \in Threads : u # t => busy'[u] = busy[u]
  BY <1>1, <1>2 DEF Types
<1>6. "out" \notin Calling /\ "capture" \notin Calling
  BY Labelled
<1>7. Types'
  BY <1>1, <1>2, Labelled DEF Types
<1>8. \A b \in Boxes : Known(b) => Known(b)'
  BY <1>2, <1>3, <1>4, <1>5, <1>6, Apart, BoxFields DEF Known
<1>9. \A u \in Threads : Caught(u)' => Caught(u)
  BY <1>3 DEF Caught
<1>10. \A u \in Threads : Lost(u) => Lost(u)'
  BY <1>3 DEF Lost
<1>11. Heap'
  BY <1>2, <1>3, <1>4, <1>6, <1>8 DEF Heap
<1>12. Taken'
  BY <1>2, <1>3, <1>4, <1>6, <1>8 DEF Taken
<1>13. Owned'
  BY <1>2, <1>3, <1>4 DEF Owned, Leaving
<1>14. Setting'
  BY <1>2, <1>3, <1>4 DEF Setting, Leaving, Runs
<1>15. Single'
  BY <1>2, <1>3, <1>4, <1>6, <1>9 DEF Single, Shows, Runs
<1>16. Halted'
  BY <1>2, <1>3, <1>4, <1>5, <1>6, <1>10 DEF Halted, Runs, Victim
<1>17. Deciding'
  BY <1>2, <1>3, <1>4, <1>6, <1>10, BoxFields DEF Deciding, Away, Runs, Victim
<1>18. \A u \in Threads : Present(u) => Present(u)'
  BY <1>3 DEF Present, Settling, Shows
<1>19. Covering'
  BY <1>2, <1>3, <1>4, <1>6, <1>18 DEF Covering, Shows
<1>20. Asking'
  BY <1>2, <1>3, <1>4, <1>6, <1>10, BoxFields DEF Asking, Runs, Victim
<1>21. Phase'
  BY <1>2, <1>3 DEF Phase
<1> QED
  BY <1>7, <1>11, <1>12, <1>13, <1>14, <1>15, <1>16, <1>17, <1>19, <1>20, <1>21 DEF IInv

LEMMA LeaveInv ==
  ASSUME IInv, NEW t \in Threads, Leave(t) PROVE IInv'
<1>1. /\ mode[t] = "runs" /\ pc[t] = "capture"
      /\ pc' = [pc EXCEPT ![t] = "left"]
      /\ busy' = [busy EXCEPT ![t] = FALSE]
      /\ UNCHANGED <<state, tid, watched, owner, states, parked, poisoned, request, covered,
                     pending, mode, at, seen, count, freed, guard, rescuer, stopped, step, slot,
                     claimed, target, waiting, ended, over>>
  BY DEF Leave, Go, Runs
<1>2. Types /\ Heap /\ Taken /\ Owned /\ Setting /\ Single /\ Halted
      /\ Deciding /\ Phase /\ Covering /\ Asking
  BY DEF IInv
<1>3. /\ mode[t] = "runs" /\ pc[t] = "capture"
      /\ \A u \in Threads : at[u] \in Slots
      /\ freed \subseteq Boxes
      /\ UNCHANGED <<state, tid, watched, owner, states, parked, poisoned, request, covered,
                     pending, mode, at, seen, count, freed, guard, rescuer, stopped, step, slot,
                     claimed, target, waiting, ended, over>>
  BY <1>1, <1>2 DEF Types
<1>4. pc'[t] = "left" /\ \A u \in Threads : u # t => pc'[u] = pc[u]
  BY <1>1, <1>2 DEF Types
<1>5. busy'[t] = FALSE /\ \A u \in Threads : u # t => busy'[u] = busy[u]
  BY <1>1, <1>2 DEF Types
<1>6. "capture" \notin Calling /\ "left" \notin Calling
  BY Labelled
<1>7. Types'
  BY <1>1, <1>2, Labelled DEF Types
<1>8. \A b \in Boxes : Known(b) => Known(b)'
  BY <1>2, <1>3, <1>4, <1>5, <1>6, Apart, BoxFields DEF Known
<1>9. \A u \in Threads : Caught(u)' => Caught(u)
  BY <1>3 DEF Caught
<1>10. \A u \in Threads : Lost(u) => Lost(u)'
  BY <1>3 DEF Lost
<1>11. Heap'
  BY <1>2, <1>3, <1>4, <1>6, <1>8 DEF Heap
<1>12. Taken'
  BY <1>2, <1>3, <1>4, <1>6, <1>8 DEF Taken
<1>13. Owned'
  BY <1>2, <1>3, <1>4 DEF Owned, Leaving
<1>14. Setting'
  BY <1>2, <1>3, <1>4 DEF Setting, Leaving, Runs
<1>15. Single'
  BY <1>2, <1>3, <1>4, <1>6, <1>9 DEF Single, Shows, Runs
<1>16. Halted'
  BY <1>2, <1>3, <1>4, <1>5, <1>6, <1>10 DEF Halted, Runs, Victim
<1>17. Deciding'
  BY <1>2, <1>3, <1>4, <1>6, <1>10, BoxFields DEF Deciding, Away, Runs, Victim
<1>18. \A u \in Threads : Present(u) => Present(u)'
  BY <1>3 DEF Present, Settling, Shows
<1>19. Covering'
  BY <1>2, <1>3, <1>4, <1>6, <1>18 DEF Covering, Shows
<1>20. Asking'
  BY <1>2, <1>3, <1>4, <1>6, <1>10, BoxFields DEF Asking, Runs, Victim
<1>21. Phase'
  BY <1>2, <1>3 DEF Phase
<1> QED
  BY <1>7, <1>11, <1>12, <1>13, <1>14, <1>15, <1>16, <1>17, <1>19, <1>20, <1>21 DEF IInv

LEMMA UnwindInv ==
  ASSUME IInv, NEW t \in Threads, Unwind(t) PROVE IInv'
<1>1. /\ mode[t] = "runs" /\ pc[t] = "capture"
      /\ pc' = [pc EXCEPT ![t] = "out"]
      /\ poisoned' = [poisoned EXCEPT ![t] = TRUE]
      /\ UNCHANGED <<state, tid, watched, owner, states, parked, busy, request, covered, pending,
                     mode, at, seen, count, freed, guard, rescuer, stopped, step, slot, claimed,
                     target, waiting, ended, over>>
  BY DEF Unwind, Go, Runs
<1>2. Types /\ Heap /\ Taken /\ Owned /\ Setting /\ Single /\ Halted
      /\ Deciding /\ Phase /\ Covering /\ Asking
  BY DEF IInv
<1>3. /\ mode[t] = "runs" /\ pc[t] = "capture"
      /\ \A u \in Threads : at[u] \in Slots
      /\ freed \subseteq Boxes
      /\ UNCHANGED <<state, tid, watched, owner, states, parked, busy, request, covered, pending,
                     mode, at, seen, count, freed, guard, rescuer, stopped, step, slot, claimed,
                     target, waiting, ended, over>>
  BY <1>1, <1>2 DEF Types
<1>4. pc'[t] = "out" /\ \A u \in Threads : u # t => pc'[u] = pc[u]
  BY <1>1, <1>2 DEF Types
<1>5. poisoned'[t] = TRUE /\ \A u \in Threads : u # t => poisoned'[u] = poisoned[u]
  BY <1>1, <1>2 DEF Types
<1>6. "capture" \notin Calling /\ "out" \notin Calling
  BY Labelled
<1>7. Types'
  BY <1>1, <1>2, Labelled DEF Types
<1>8. \A b \in Boxes : Known(b) => Known(b)'
  BY <1>2, <1>3, <1>4, <1>5, <1>6, Apart, BoxFields DEF Known
<1>9. \A u \in Threads : Caught(u)' => Caught(u)
  BY <1>3 DEF Caught
<1>10. \A u \in Threads : Lost(u) => Lost(u)'
  BY <1>3 DEF Lost
<1>11. Heap'
  BY <1>2, <1>3, <1>4, <1>6, <1>8 DEF Heap
<1>12. Taken'
  BY <1>2, <1>3, <1>4, <1>6, <1>8 DEF Taken
<1>13. Owned'
  BY <1>2, <1>3, <1>4 DEF Owned, Leaving
<1>14. Setting'
  BY <1>2, <1>3, <1>4 DEF Setting, Leaving, Runs
<1>15. Single'
  BY <1>2, <1>3, <1>4, <1>6, <1>9 DEF Single, Shows, Runs
<1>16. Halted'
  BY <1>2, <1>3, <1>4, <1>5, <1>6, <1>10 DEF Halted, Runs, Victim
<1>17. Deciding'
  BY <1>2, <1>3, <1>4, <1>6, <1>10, BoxFields DEF Deciding, Away, Runs, Victim
<1>18. \A u \in Threads : Present(u) => Present(u)'
  BY <1>3 DEF Present, Settling, Shows
<1>19. Covering'
  BY <1>2, <1>3, <1>4, <1>6, <1>18 DEF Covering, Shows
<1>20. Asking'
  BY <1>2, <1>3, <1>4, <1>5, <1>6, <1>10, BoxFields DEF Asking, Runs, Victim
<1>21. Phase'
  BY <1>2, <1>3 DEF Phase
<1> QED
  BY <1>7, <1>11, <1>12, <1>13, <1>14, <1>15, <1>16, <1>17, <1>19, <1>20, <1>21 DEF IInv

LEMMA WatchInv ==
  ASSUME IInv, NEW t \in Threads, Watch(t) PROVE IInv'
<1>1. /\ mode[t] = "runs" /\ pc[t] = "out"
      /\ ~covered[t] /\ count[t] < MaxWatches
      /\ pc' = [pc EXCEPT ![t] = "check"]
      /\ UNCHANGED <<state, tid, watched, owner, states, parked, busy, poisoned, request, covered,
                     pending, mode, at, seen, count, freed, guard, rescuer, stopped, step, slot,
                     claimed, target, waiting, ended, over>>
  BY DEF Watch, Go, Runs
<1>2. Types /\ Heap /\ Taken /\ Owned /\ Setting /\ Single /\ Halted
      /\ Deciding /\ Phase /\ Covering /\ Asking
  BY DEF IInv
<1>3. /\ mode[t] = "runs" /\ pc[t] = "out"
      /\ ~covered[t] /\ count[t] < MaxWatches
      /\ \A u \in Threads : at[u] \in Slots
      /\ freed \subseteq Boxes
      /\ UNCHANGED <<state, tid, watched, owner, states, parked, busy, poisoned, request, covered,
                     pending, mode, at, seen, count, freed, guard, rescuer, stopped, step, slot,
                     claimed, target, waiting, ended, over>>
  BY <1>1, <1>2 DEF Types
<1>4. pc'[t] = "check" /\ \A u \in Threads : u # t => pc'[u] = pc[u]
  BY <1>1, <1>2 DEF Types
<1>5. "out" \notin Calling /\ "check" \in Calling
  BY Labelled
<1>6. Types'
  BY <1>1, <1>2, Labelled DEF Types
<1>7. \A b \in Boxes : Known(b) => Known(b)'
  BY <1>2, <1>3, <1>4, <1>5, Apart, BoxFields DEF Known
<1>8. \A u \in Threads : Caught(u)' => Caught(u)
  BY <1>3 DEF Caught
<1>9. \A u \in Threads : Lost(u) => Lost(u)'
  BY <1>3 DEF Lost
<1>10. Heap'
  BY <1>2, <1>3, <1>4, <1>5, <1>7 DEF Heap
<1>11. Taken'
  BY <1>2, <1>3, <1>4, <1>5, <1>7 DEF Taken
<1>12. Owned'
  BY <1>2, <1>3, <1>4 DEF Owned, Leaving
<1>13. Setting'
  BY <1>2, <1>3, <1>4 DEF Setting, Leaving, Runs
<1>14. Single'
  BY <1>2, <1>3, <1>4, <1>5, <1>8 DEF Single, Shows, Runs
<1>15. Halted'
  BY <1>2, <1>3, <1>4, <1>5, <1>9 DEF Halted, Runs, Victim
<1>16. Deciding'
  BY <1>2, <1>3, <1>4, <1>5, <1>9, BoxFields DEF Deciding, Away, Runs, Victim
<1>17. \A u \in Threads : Present(u) => Present(u)'
  BY <1>3 DEF Present, Settling, Shows
<1>18. Covering'
  BY <1>2, <1>3, <1>4, <1>5, <1>17 DEF Covering, Shows
<1>19. Asking'
  BY <1>2, <1>3, <1>4, <1>5, <1>9, BoxFields DEF Asking, Runs, Victim
<1>20. Phase'
  BY <1>2, <1>3 DEF Phase
<1> QED
  BY <1>6, <1>10, <1>11, <1>12, <1>13, <1>14, <1>15, <1>16, <1>18, <1>19, <1>20 DEF IInv

LEMMA StoreOwnerInv ==
  ASSUME IInv, NEW t \in Threads, StoreOwner(t) PROVE IInv'
<1>1. /\ mode[t] = "runs" /\ pc[t] = "own"
      /\ pc' = [pc EXCEPT ![t] = "state"]
      /\ owner' = [owner EXCEPT ![at[t]] = t]
      /\ parked' = [parked EXCEPT ![at[t]] = FALSE]
      /\ UNCHANGED <<state, tid, watched, states, busy, poisoned, request, covered, pending, mode,
                     at, seen, count, freed, guard, rescuer, stopped, step, slot, claimed, target,
                     waiting, ended, over>>
  BY DEF StoreOwner, Go, Runs
<1>2. Types /\ Heap /\ Taken /\ Owned /\ Setting /\ Single /\ Halted
      /\ Deciding /\ Phase /\ Covering /\ Asking
  BY DEF IInv
<1>3. /\ mode[t] = "runs" /\ pc[t] = "own"
      /\ \A u \in Threads : at[u] \in Slots
      /\ freed \subseteq Boxes
      /\ UNCHANGED <<state, tid, watched, states, busy, poisoned, request, covered, pending, mode,
                     at, seen, count, freed, guard, rescuer, stopped, step, slot, claimed, target,
                     waiting, ended, over>>
  BY <1>1, <1>2 DEF Types
<1>4. pc'[t] = "state" /\ \A u \in Threads : u # t => pc'[u] = pc[u]
  BY <1>1, <1>2 DEF Types
<1>5. owner'[at[t]] = t /\ \A i \in Slots : i # at[t] => owner'[i] = owner[i]
  BY <1>1, <1>2 DEF Types
<1>6. parked'[at[t]] = FALSE /\ \A i \in Slots : i # at[t] => parked'[i] = parked[i]
  BY <1>1, <1>2 DEF Types
<1>7. "own" \in Calling /\ "state" \in Calling
  BY Labelled
<1>8. /\ watched[at[t]] = Reserved /\ claimed[at[t]] = NoBox /\ at[t] \in Slots
      /\ \A u \in Threads : pc[u] \in {"own", "state", "show"} /\ at[u] = at[t] => u = t
  BY <1>2, <1>3, <1>4, <1>5, <1>6 DEF Setting, Types
<1>9. \A u \in Threads : states[at[t]] = u => Leaving(u, at[t])
  BY <1>2, <1>3, <1>4, <1>5, <1>6 DEF Setting
<1>10. Types'
  BY <1>1, <1>2, <1>8, <1>9, Labelled DEF Types
<1>11. \A b \in Boxes : Known(b) => Known(b)'
  BY <1>2, <1>3, <1>4, <1>5, <1>6, <1>7, <1>8, <1>9, Apart, BoxFields DEF Known
<1>12. \A u \in Threads : Caught(u)' => Caught(u)
  BY <1>3 DEF Caught
<1>13. \A u \in Threads : Lost(u) => Lost(u)'
  BY <1>2, <1>3, <1>4, <1>5, <1>6, <1>7, <1>8, <1>9, Apart DEF Lost
<1>14. Heap'
  BY <1>2, <1>3, <1>4, <1>7, <1>8, <1>11 DEF Heap
<1>15. Taken'
  BY <1>2, <1>3, <1>4, <1>7, <1>8, <1>11 DEF Taken
<1>16. Owned'
  BY <1>2, <1>3, <1>4, <1>5, <1>7, <1>8, <1>9, Apart DEF Owned, Leaving
<1>17. Setting'
  BY <1>2, <1>3, <1>4, <1>5, <1>6, <1>7, <1>8, <1>9 DEF Setting, Leaving, Runs
<1>18. Single'
  BY <1>2, <1>3, <1>4, <1>7, <1>8, <1>12 DEF Single, Shows, Runs
<1>19. Halted'
  BY <1>2, <1>3, <1>4, <1>5, <1>6, <1>7, <1>8, <1>9, <1>13 DEF Halted, Runs, Victim
<1>20. Deciding'
  BY <1>2, <1>3, <1>4, <1>5, <1>7, <1>8, <1>13, BoxFields DEF Deciding, Away, Runs, Victim
<1>21. \A u \in Threads : Present(u) => Present(u)'
  BY <1>3 DEF Present, Settling, Shows
<1>22. Covering'
  BY <1>2, <1>3, <1>4, <1>7, <1>8, <1>21 DEF Covering, Shows
<1>23. Asking'
  BY <1>2, <1>3, <1>4, <1>5, <1>7, <1>13, BoxFields DEF Asking, Runs, Victim
<1>24. Phase'
  BY <1>2, <1>3 DEF Phase
<1> QED
  BY <1>10, <1>14, <1>15, <1>16, <1>17, <1>18, <1>19, <1>20, <1>22, <1>23, <1>24 DEF IInv

LEMMA StoreStateInv ==
  ASSUME IInv, NEW t \in Threads, StoreState(t) PROVE IInv'
<1>1. /\ mode[t] = "runs" /\ pc[t] = "state"
      /\ pc' = [pc EXCEPT ![t] = "show"]
      /\ count' = [count EXCEPT ![t] = @ + 1]
      /\ states' = [states EXCEPT ![at[t]] = t]
      /\ UNCHANGED <<state, tid, watched, owner, parked, busy, poisoned, request, covered, pending,
                     mode, at, seen, freed, guard, rescuer, stopped, step, slot, claimed, target,
                     waiting, ended, over>>
  BY DEF StoreState, Go, Runs
<1>2. Types /\ Heap /\ Taken /\ Owned /\ Setting /\ Single /\ Halted
      /\ Deciding /\ Phase /\ Covering /\ Asking
  BY DEF IInv
<1>3. /\ mode[t] = "runs" /\ pc[t] = "state"
      /\ \A u \in Threads : at[u] \in Slots
      /\ freed \subseteq Boxes
      /\ UNCHANGED <<state, tid, watched, owner, parked, busy, poisoned, request, covered, pending,
                     mode, at, seen, freed, guard, rescuer, stopped, step, slot, claimed, target,
                     waiting, ended, over>>
  BY <1>1, <1>2 DEF Types
<1>4. pc'[t] = "show" /\ \A u \in Threads : u # t => pc'[u] = pc[u]
  BY <1>1, <1>2 DEF Types
<1>5. count'[t] = count[t] + 1 /\ \A u \in Threads : u # t => count'[u] = count[u]
  BY <1>1, <1>2 DEF Types
<1>6. states'[at[t]] = t /\ \A i \in Slots : i # at[t] => states'[i] = states[i]
  BY <1>1, <1>2 DEF Types
<1>7. "state" \in Calling /\ "show" \in Calling
  BY Labelled
<1>8. count[t] < MaxWatches
  BY <1>2, <1>3, <1>4, <1>5, <1>6 DEF Taken
<1>9. \A u \in Threads : count[u] \in Nat /\ count[u] <= MaxWatches
  BY <1>2, Counted
<1>10. /\ count[t] + 1 \in 1 .. MaxWatches
       /\ count[t] + 1 \in 0 .. MaxWatches
       /\ count[t] + 1 > count[t]
  BY <1>8, <1>9, Apart
<1>11. /\ watched[at[t]] = Reserved /\ claimed[at[t]] = NoBox /\ at[t] \in Slots
      /\ \A u \in Threads : pc[u] \in {"own", "state", "show"} /\ at[u] = at[t] => u = t
  BY <1>2, <1>3, <1>4, <1>5, <1>6 DEF Setting, Types
<1>12. owner[at[t]] \in {t, None}
  BY <1>2, <1>3, <1>4, <1>5, <1>6 DEF Setting
<1>13. Types'
  BY <1>1, <1>2, <1>8, <1>9, <1>10, <1>11, <1>12, Labelled DEF Types
<1>14. \A b \in Boxes : Known(b) => Known(b)'
  BY <1>2, <1>3, <1>4, <1>5, <1>6, <1>7, <1>8, <1>9, <1>10, <1>11, <1>12, Apart, BoxFields DEF
    Known
<1>15. \A u \in Threads : Caught(u)' => Caught(u)
  BY <1>3 DEF Caught
<1>16. \A u \in Threads : Lost(u) => Lost(u)'
  BY <1>3 DEF Lost
<1>17. Heap'
  BY <1>2, <1>3, <1>4, <1>5, <1>7, <1>8, <1>9, <1>10, <1>11, <1>14 DEF Heap
<1>18. Taken'
  BY <1>2, <1>3, <1>4, <1>5, <1>7, <1>8, <1>9, <1>10, <1>11, <1>14 DEF Taken
<1>19. Owned'
  BY <1>2, <1>3, <1>4, <1>6, <1>7, <1>8, <1>9, <1>10, <1>11, <1>12, Apart DEF Owned, Leaving
<1>20. Setting'
  BY <1>2, <1>3, <1>4, <1>6, <1>7, <1>8, <1>9, <1>10, <1>11, <1>12 DEF Setting, Leaving, Runs
<1>21. Single'
  BY <1>2, <1>3, <1>4, <1>7, <1>8, <1>9, <1>10, <1>11, <1>15 DEF Single, Shows, Runs
<1>22. Halted'
  BY <1>2, <1>3, <1>4, <1>7, <1>8, <1>9, <1>10, <1>11, <1>16 DEF Halted, Runs, Victim
<1>23. Deciding'
  BY <1>2, <1>3, <1>4, <1>7, <1>8, <1>9, <1>10, <1>11, <1>16, BoxFields DEF Deciding, Away, Runs,
    Victim
<1>24. \A u \in Threads : Present(u) => Present(u)'
  BY <1>3 DEF Present, Settling, Shows
<1>25. Covering'
  BY <1>2, <1>3, <1>4, <1>7, <1>8, <1>9, <1>10, <1>11, <1>24 DEF Covering, Shows
<1>26. Asking'
  BY <1>2, <1>3, <1>4, <1>7, <1>16, BoxFields DEF Asking, Runs, Victim
<1>27. Phase'
  BY <1>2, <1>3 DEF Phase
<1> QED
  BY <1>13, <1>17, <1>18, <1>19, <1>20, <1>21, <1>22, <1>23, <1>25, <1>26, <1>27 DEF IInv

LEMMA StoreWatchedInv ==
  ASSUME IInv, NEW t \in Threads, StoreWatched(t) PROVE IInv'
<1>1. /\ mode[t] = "runs" /\ pc[t] = "show"
      /\ pc' = [pc EXCEPT ![t] = "recheck"]
      /\ watched' = [watched EXCEPT ![at[t]] = [writer |-> t, n |-> count[t]]]
      /\ UNCHANGED <<state, tid, owner, states, parked, busy, poisoned, request, covered, pending,
                     mode, at, seen, count, freed, guard, rescuer, stopped, step, slot, claimed,
                     target, waiting, ended, over>>
  BY DEF StoreWatched, Go, Runs
<1>2. Types /\ Heap /\ Taken /\ Owned /\ Setting /\ Single /\ Halted
      /\ Deciding /\ Phase /\ Covering /\ Asking
  BY DEF IInv
<1>3. /\ mode[t] = "runs" /\ pc[t] = "show"
      /\ \A u \in Threads : at[u] \in Slots
      /\ freed \subseteq Boxes
      /\ UNCHANGED <<state, tid, owner, states, parked, busy, poisoned, request, covered, pending,
                     mode, at, seen, count, freed, guard, rescuer, stopped, step, slot, claimed,
                     target, waiting, ended, over>>
  BY <1>1, <1>2 DEF Types
<1>4. pc'[t] = "recheck" /\ \A u \in Threads : u # t => pc'[u] = pc[u]
  BY <1>1, <1>2 DEF Types
<1>5. /\ watched'[at[t]] = [writer |-> t, n |-> count[t]]
      /\ \A i \in Slots : i # at[t] => watched'[i] = watched[i]
  BY <1>1, <1>2 DEF Types
<1>6. "show" \in Calling /\ "recheck" \in Calling
  BY Labelled
<1>7. \A u \in Threads : count[u] \in Nat /\ count[u] <= MaxWatches
  BY <1>2, Counted
<1>8. count[t] \in 1 .. MaxWatches
  BY <1>2, <1>3, <1>4, <1>5, <1>6, <1>7 DEF Taken
<1>9. /\ watched'[at[t]] \in Boxes /\ watched'[at[t]].writer = t /\ watched'[at[t]].n = count[t]
      /\ \A b \in Boxes : Known(b) => b # watched'[at[t]]
  BY <1>2, <1>3, <1>4, <1>5, <1>6, <1>7, <1>8, Apart, BoxFields DEF Taken, Known
<1>10. /\ (\A b \in Boxes : b.writer = t /\ b.n = count[t] => Known(b)')
       /\ watched'[at[t]] \notin freed
  BY <1>2, <1>3, <1>4, <1>5, <1>6, <1>7, <1>8 DEF Known, Heap
<1>11. Present(t)'
  BY <1>2, <1>3, <1>4, <1>5, <1>6, <1>9 DEF Present, Shows, Types
<1>12. /\ watched[at[t]] = Reserved /\ claimed[at[t]] = NoBox /\ at[t] \in Slots
      /\ \A u \in Threads : pc[u] \in {"own", "state", "show"} /\ at[u] = at[t] => u = t
  BY <1>2, <1>3, <1>4, <1>5 DEF Setting, Types
<1>13. owner[at[t]] \in {t, None} /\ states[at[t]] \in {t, None} /\ ~parked[at[t]]
  BY <1>2, <1>3, <1>4, <1>5 DEF Setting, Runs
<1>14. ~Caught(t) /\ \A i \in Slots : ~Shows(t, i)
  BY <1>2, <1>3, <1>4, <1>5 DEF Single
<1>15. Types'
  BY <1>1, <1>2, <1>9, Labelled DEF Types
<1>16. \A b \in Boxes : Known(b) => Known(b)'
  BY <1>2, <1>3, <1>4, <1>5, <1>6, <1>7, <1>8, <1>9, <1>10, <1>11, <1>12, <1>13, <1>14, Apart,
    BoxFields DEF Known
<1>17. \A u \in Threads : Caught(u)' => Caught(u)
  BY <1>3 DEF Caught
<1>18. \A u \in Threads : Lost(u) => Lost(u)'
  BY <1>3 DEF Lost
<1>19. Heap'
  BY <1>2, <1>3, <1>4, <1>5, <1>6, <1>7, <1>8, <1>9, <1>10, <1>11, <1>12, <1>13, <1>14, <1>16 DEF
    Heap
<1>20. Taken'
  BY <1>2, <1>3, <1>4, <1>5, <1>6, <1>7, <1>8, <1>9, <1>10, <1>11, <1>12, <1>13, <1>14, <1>16 DEF
    Taken
<1>21. Owned'
  BY <1>2, <1>3, <1>4, <1>5, <1>6, <1>7, <1>8, <1>9, <1>10, <1>11, <1>12, <1>13, <1>14, Apart DEF
    Owned, Leaving
<1>22. Setting'
  BY <1>2, <1>3, <1>4, <1>5, <1>6, <1>7, <1>8, <1>9, <1>10, <1>11, <1>12, <1>13, <1>14 DEF
    Setting, Leaving, Runs
<1>23. Single'
  BY <1>2, <1>3, <1>4, <1>5, <1>6, <1>7, <1>8, <1>9, <1>10, <1>11, <1>12, <1>13, <1>14, <1>17,
    Apart DEF Single, Shows, Runs
<1>24. Halted'
  BY <1>2, <1>3, <1>4, <1>5, <1>6, <1>7, <1>8, <1>9, <1>10, <1>11, <1>12, <1>13, <1>14, <1>18,
    Apart DEF Halted, Runs, Victim
<1>25. Deciding'
  BY <1>2, <1>3, <1>4, <1>6, <1>7, <1>8, <1>9, <1>10, <1>11, <1>12, <1>13, <1>18, BoxFields DEF
    Deciding, Away, Runs, Victim
<1>26. \A u \in Threads : Present(u) => Present(u)'
  BY <1>2, <1>3, <1>4, <1>5, <1>6, <1>7, <1>8, <1>9, <1>10, <1>11, <1>12, <1>13, <1>14, Apart DEF
    Present, Settling, Shows
<1>27. Covering'
  BY <1>2, <1>3, <1>4, <1>5, <1>6, <1>7, <1>8, <1>9, <1>10, <1>11, <1>12, <1>13, <1>14, <1>26 DEF
    Covering, Shows
<1>28. Asking'
  BY <1>2, <1>3, <1>4, <1>6, <1>18, BoxFields DEF Asking, Runs, Victim
<1>29. Phase'
  BY <1>2, <1>3 DEF Phase
<1> QED
  BY <1>15, <1>19, <1>20, <1>21, <1>22, <1>23, <1>24, <1>25, <1>27, <1>28, <1>29 DEF IInv

LEMMA UnwatchInv ==
  ASSUME IInv, NEW t \in Threads, Unwatch(t) PROVE IInv'
<1>1. /\ mode[t] = "runs" /\ pc[t] = "out"
      /\ covered[t]
      /\ pc' = [pc EXCEPT ![t] = "scan"]
      /\ covered' = [covered EXCEPT ![t] = FALSE]
      /\ UNCHANGED <<state, tid, watched, owner, states, parked, busy, poisoned, request, pending,
                     mode, at, seen, count, freed, guard, rescuer, stopped, step, slot, claimed,
                     target, waiting, ended, over>>
  BY DEF Unwatch, Go, Runs
<1>2. Types /\ Heap /\ Taken /\ Owned /\ Setting /\ Single /\ Halted
      /\ Deciding /\ Phase /\ Covering /\ Asking
  BY DEF IInv
<1>3. /\ mode[t] = "runs" /\ pc[t] = "out"
      /\ covered[t]
      /\ \A u \in Threads : at[u] \in Slots
      /\ freed \subseteq Boxes
      /\ UNCHANGED <<state, tid, watched, owner, states, parked, busy, poisoned, request, pending,
                     mode, at, seen, count, freed, guard, rescuer, stopped, step, slot, claimed,
                     target, waiting, ended, over>>
  BY <1>1, <1>2 DEF Types
<1>4. pc'[t] = "scan" /\ \A u \in Threads : u # t => pc'[u] = pc[u]
  BY <1>1, <1>2 DEF Types
<1>5. covered'[t] = FALSE /\ \A u \in Threads : u # t => covered'[u] = covered[u]
  BY <1>1, <1>2 DEF Types
<1>6. "out" \notin Calling /\ "scan" \in Calling
  BY Labelled
<1>7. at[t] = 1 /\ \A i \in Slots : i >= 1
  BY <1>2, <1>3, <1>4, <1>5, <1>6 DEF Single, Slots
<1>8. Types'
  BY <1>1, <1>2, <1>7, Labelled DEF Types
<1>9. \A b \in Boxes : Known(b) => Known(b)'
  BY <1>2, <1>3, <1>4, <1>5, <1>6, <1>7, Apart, BoxFields DEF Known
<1>10. \A u \in Threads : Caught(u)' => Caught(u)
  BY <1>3 DEF Caught
<1>11. \A u \in Threads : Lost(u) => Lost(u)'
  BY <1>3 DEF Lost
<1>12. Heap'
  BY <1>2, <1>3, <1>4, <1>6, <1>9 DEF Heap
<1>13. Taken'
  BY <1>2, <1>3, <1>4, <1>6, <1>9 DEF Taken
<1>14. Owned'
  BY <1>2, <1>3, <1>4, <1>6 DEF Owned, Leaving
<1>15. Setting'
  BY <1>2, <1>3, <1>4, <1>6 DEF Setting, Leaving, Runs
<1>16. Single'
  BY <1>2, <1>3, <1>4, <1>5, <1>6, <1>7, <1>10 DEF Single, Shows, Runs
<1>17. Halted'
  BY <1>2, <1>3, <1>4, <1>6, <1>11 DEF Halted, Runs, Victim
<1>18. Deciding'
  BY <1>2, <1>3, <1>4, <1>6, <1>11, BoxFields DEF Deciding, Away, Runs, Victim
<1>19. \A u \in Threads : Present(u) => Present(u)'
  BY <1>3 DEF Present, Settling, Shows
<1>20. Covering'
  BY <1>2, <1>3, <1>4, <1>5, <1>6, <1>19 DEF Covering, Shows
<1>21. Asking'
  BY <1>2, <1>3, <1>4, <1>6, <1>11, BoxFields DEF Asking, Runs, Victim
<1>22. Phase'
  BY <1>2, <1>3 DEF Phase
<1> QED
  BY <1>8, <1>12, <1>13, <1>14, <1>15, <1>16, <1>17, <1>18, <1>20, <1>21, <1>22 DEF IInv

LEMMA ForgetStateInv ==
  ASSUME IInv, NEW t \in Threads, ForgetState(t) PROVE IInv'
<1>1. /\ mode[t] = "runs" /\ pc[t] = "forget"
      /\ pc' = [pc EXCEPT ![t] = "disown"]
      /\ states' = [states EXCEPT ![at[t]] = None]
      /\ UNCHANGED <<state, tid, watched, owner, parked, busy, poisoned, request, covered, pending,
                     mode, at, seen, count, freed, guard, rescuer, stopped, step, slot, claimed,
                     target, waiting, ended, over>>
  BY DEF ForgetState, Go, Runs
<1>2. Types /\ Heap /\ Taken /\ Owned /\ Setting /\ Single /\ Halted
      /\ Deciding /\ Phase /\ Covering /\ Asking
  BY DEF IInv
<1>3. /\ mode[t] = "runs" /\ pc[t] = "forget"
      /\ \A u \in Threads : at[u] \in Slots
      /\ freed \subseteq Boxes
      /\ UNCHANGED <<state, tid, watched, owner, parked, busy, poisoned, request, covered, pending,
                     mode, at, seen, count, freed, guard, rescuer, stopped, step, slot, claimed,
                     target, waiting, ended, over>>
  BY <1>1, <1>2 DEF Types
<1>4. pc'[t] = "disown" /\ \A u \in Threads : u # t => pc'[u] = pc[u]
  BY <1>1, <1>2 DEF Types
<1>5. states'[at[t]] = None /\ \A i \in Slots : i # at[t] => states'[i] = states[i]
  BY <1>1, <1>2 DEF Types
<1>6. "forget" \in Calling /\ "disown" \in Calling
  BY Labelled
<1>7. at[t] \in Slots
  BY <1>2, <1>3, <1>4
<1>8. Types'
  BY <1>1, <1>2, <1>7, Labelled DEF Types
<1>9. \A b \in Boxes : Known(b) => Known(b)'
  BY <1>2, <1>3, <1>4, <1>5, <1>6, <1>7, Apart, BoxFields DEF Known
<1>10. \A u \in Threads : Caught(u)' => Caught(u)
  BY <1>3 DEF Caught
<1>11. \A u \in Threads : Lost(u) => Lost(u)'
  BY <1>3 DEF Lost
<1>12. Heap'
  BY <1>2, <1>3, <1>4, <1>6, <1>9 DEF Heap
<1>13. Taken'
  BY <1>2, <1>3, <1>4, <1>6, <1>9 DEF Taken
<1>14. Owned'
  BY <1>2, <1>3, <1>4, <1>5, <1>6, <1>7, Apart DEF Owned, Leaving
<1>15. Setting'
  BY <1>2, <1>3, <1>4, <1>5, <1>6, <1>7, Apart DEF Setting, Leaving, Runs
<1>16. Single'
  BY <1>2, <1>3, <1>4, <1>6, <1>10 DEF Single, Shows, Runs
<1>17. Halted'
  BY <1>2, <1>3, <1>4, <1>6, <1>11 DEF Halted, Runs, Victim
<1>18. Deciding'
  BY <1>2, <1>3, <1>4, <1>6, <1>11, BoxFields DEF Deciding, Away, Runs, Victim
<1>19. \A u \in Threads : Present(u) => Present(u)'
  BY <1>3 DEF Present, Settling, Shows
<1>20. Covering'
  BY <1>2, <1>3, <1>4, <1>6, <1>19 DEF Covering, Shows
<1>21. Asking'
  BY <1>2, <1>3, <1>4, <1>6, <1>11, BoxFields DEF Asking, Runs, Victim
<1>22. Phase'
  BY <1>2, <1>3 DEF Phase
<1> QED
  BY <1>8, <1>12, <1>13, <1>14, <1>15, <1>16, <1>17, <1>18, <1>20, <1>21, <1>22 DEF IInv

LEMMA ForgetOwnerInv ==
  ASSUME IInv, NEW t \in Threads, ForgetOwner(t) PROVE IInv'
<1>1. /\ mode[t] = "runs" /\ pc[t] = "disown"
      /\ pc' = [pc EXCEPT ![t] = "free"]
      /\ owner' = [owner EXCEPT ![at[t]] = None]
      /\ UNCHANGED <<state, tid, watched, states, parked, busy, poisoned, request, covered,
                     pending, mode, at, seen, count, freed, guard, rescuer, stopped, step, slot,
                     claimed, target, waiting, ended, over>>
  BY DEF ForgetOwner, Go, Runs
<1>2. Types /\ Heap /\ Taken /\ Owned /\ Setting /\ Single /\ Halted
      /\ Deciding /\ Phase /\ Covering /\ Asking
  BY DEF IInv
<1>3. /\ mode[t] = "runs" /\ pc[t] = "disown"
      /\ \A u \in Threads : at[u] \in Slots
      /\ freed \subseteq Boxes
      /\ UNCHANGED <<state, tid, watched, states, parked, busy, poisoned, request, covered,
                     pending, mode, at, seen, count, freed, guard, rescuer, stopped, step, slot,
                     claimed, target, waiting, ended, over>>
  BY <1>1, <1>2 DEF Types
<1>4. pc'[t] = "free" /\ \A u \in Threads : u # t => pc'[u] = pc[u]
  BY <1>1, <1>2 DEF Types
<1>5. owner'[at[t]] = None /\ \A i \in Slots : i # at[t] => owner'[i] = owner[i]
  BY <1>1, <1>2 DEF Types
<1>6. "disown" \in Calling /\ "free" \in Calling
  BY Labelled
<1>7. at[t] \in Slots
  BY <1>2, <1>3, <1>4
<1>8. Types'
  BY <1>1, <1>2, <1>7, Labelled DEF Types
<1>9. \A b \in Boxes : Known(b) => Known(b)'
  BY <1>2, <1>3, <1>4, <1>5, <1>6, <1>7, Apart, BoxFields DEF Known
<1>10. \A u \in Threads : Caught(u)' => Caught(u)
  BY <1>3 DEF Caught
<1>11. \A u \in Threads : Lost(u) => Lost(u)'
  BY <1>2, <1>3, <1>4, <1>5, <1>6, <1>7, Apart DEF Lost
<1>12. Heap'
  BY <1>2, <1>3, <1>4, <1>6, <1>9 DEF Heap
<1>13. Taken'
  BY <1>2, <1>3, <1>4, <1>6, <1>9 DEF Taken
<1>14. Owned'
  BY <1>2, <1>3, <1>4, <1>5, <1>6, <1>7 DEF Owned, Leaving
<1>15. Setting'
  BY <1>2, <1>3, <1>4, <1>5, <1>6, <1>7 DEF Setting, Leaving, Runs
<1>16. Single'
  BY <1>2, <1>3, <1>4, <1>6, <1>10 DEF Single, Shows, Runs
<1>17. Halted'
  BY <1>2, <1>3, <1>4, <1>5, <1>6, <1>11 DEF Halted, Runs, Victim
<1>18. Deciding'
  BY <1>2, <1>3, <1>4, <1>5, <1>6, <1>11, BoxFields DEF Deciding, Away, Runs, Victim
<1>19. \A u \in Threads : Present(u) => Present(u)'
  BY <1>3 DEF Present, Settling, Shows
<1>20. Covering'
  BY <1>2, <1>3, <1>4, <1>6, <1>19 DEF Covering, Shows
<1>21. Asking'
  BY <1>2, <1>3, <1>4, <1>5, <1>6, <1>11, BoxFields DEF Asking, Runs, Victim
<1>22. Phase'
  BY <1>2, <1>3 DEF Phase
<1> QED
  BY <1>8, <1>12, <1>13, <1>14, <1>15, <1>16, <1>17, <1>18, <1>20, <1>21, <1>22 DEF IInv

LEMMA InChannelInv ==
  ASSUME IInv, NEW t \in Threads, InChannel(t) PROVE IInv'
<1>1. /\ mode[t] = "runs" /\ pc[t] \in {"capture", "publish"}
      /\ pc' = [pc EXCEPT ![t] = (IF pc[t] = "capture" THEN "publish" ELSE "capture")]
      /\ UNCHANGED <<state, tid, watched, owner, states, parked, busy, poisoned, request, covered,
                     pending, mode, at, seen, count, freed, guard, rescuer, stopped, step, slot,
                     claimed, target, waiting, ended, over>>
  BY DEF InChannel, Go, Runs
<1>2. Types /\ Heap /\ Taken /\ Owned /\ Setting /\ Single /\ Halted
      /\ Deciding /\ Phase /\ Covering /\ Asking
  BY DEF IInv
<1>3. /\ mode[t] = "runs" /\ pc[t] \in {"capture", "publish"}
      /\ \A u \in Threads : at[u] \in Slots
      /\ freed \subseteq Boxes
      /\ UNCHANGED <<state, tid, watched, owner, states, parked, busy, poisoned, request, covered,
                     pending, mode, at, seen, count, freed, guard, rescuer, stopped, step, slot,
                     claimed, target, waiting, ended, over>>
  BY <1>1, <1>2 DEF Types
<1>4. /\ pc'[t] = (IF pc[t] = "capture" THEN "publish" ELSE "capture")
      /\ \A u \in Threads : u # t => pc'[u] = pc[u]
  BY <1>1, <1>2 DEF Types
<1>5. "capture" \notin Calling /\ "publish" \notin Calling
  BY Labelled
<1>6. Types'
  BY <1>1, <1>2, Labelled DEF Types
<1>7. \A b \in Boxes : Known(b) => Known(b)'
  BY <1>2, <1>3, <1>4, <1>5, Apart, BoxFields DEF Known
<1>8. \A u \in Threads : Caught(u)' => Caught(u)
  BY <1>3 DEF Caught
<1>9. \A u \in Threads : Lost(u) => Lost(u)'
  BY <1>3 DEF Lost
<1>10. Heap'
  BY <1>2, <1>3, <1>4, <1>5, <1>7 DEF Heap
<1>11. Taken'
  BY <1>2, <1>3, <1>4, <1>5, <1>7 DEF Taken
<1>12. Owned'
  BY <1>2, <1>3, <1>4 DEF Owned, Leaving
<1>13. Setting'
  BY <1>2, <1>3, <1>4 DEF Setting, Leaving, Runs
<1>14. Single'
  BY <1>2, <1>3, <1>4, <1>5, <1>8 DEF Single, Shows, Runs
<1>15. Halted'
  BY <1>2, <1>3, <1>4, <1>5, <1>9 DEF Halted, Runs, Victim
<1>16. Deciding'
  BY <1>2, <1>3, <1>4, <1>5, <1>9, BoxFields DEF Deciding, Away, Runs, Victim
<1>17. \A u \in Threads : Present(u) => Present(u)'
  BY <1>3 DEF Present, Settling, Shows
<1>18. Covering'
  BY <1>2, <1>3, <1>4, <1>5, <1>17 DEF Covering, Shows
<1>19. Asking'
  BY <1>2, <1>3, <1>4, <1>5, <1>9, BoxFields DEF Asking, Runs, Victim
<1>20. Phase'
  BY <1>2, <1>3 DEF Phase
<1> QED
  BY <1>6, <1>10, <1>11, <1>12, <1>13, <1>14, <1>15, <1>16, <1>18, <1>19, <1>20 DEF IInv

LEMMA CheckStateInv ==
  ASSUME IInv, NEW t \in Threads, CheckState(t) PROVE IInv'
<1>1. /\ mode[t] = "runs" /\ pc[t] = "check"
      /\ pc' = [pc EXCEPT ![t] = (IF state = "idle" THEN "reserve" ELSE "out")]
      /\ UNCHANGED <<state, tid, watched, owner, states, parked, busy, poisoned, request, covered,
                     pending, mode, at, seen, count, freed, guard, rescuer, stopped, step, slot,
                     claimed, target, waiting, ended, over>>
  BY DEF CheckState, Go, Runs
<1>2. Types /\ Heap /\ Taken /\ Owned /\ Setting /\ Single /\ Halted
      /\ Deciding /\ Phase /\ Covering /\ Asking
  BY DEF IInv
<1>3. /\ mode[t] = "runs" /\ pc[t] = "check"
      /\ \A u \in Threads : at[u] \in Slots
      /\ freed \subseteq Boxes
      /\ UNCHANGED <<state, tid, watched, owner, states, parked, busy, poisoned, request, covered,
                     pending, mode, at, seen, count, freed, guard, rescuer, stopped, step, slot,
                     claimed, target, waiting, ended, over>>
  BY <1>1, <1>2 DEF Types
<1>4. /\ pc'[t] = (IF state = "idle" THEN "reserve" ELSE "out")
      /\ \A u \in Threads : u # t => pc'[u] = pc[u]
  BY <1>1, <1>2 DEF Types
<1>5. "check" \in Calling /\ "reserve" \in Calling /\ "out" \notin Calling
  BY Labelled
<1>6. state = "idle" => \A u \in Threads : ~Caught(u)
  BY <1>2, <1>3, <1>4 DEF Phase, Caught
<1>7. Types'
  BY <1>1, <1>2, <1>6, Labelled DEF Types
<1>8. \A b \in Boxes : Known(b) => Known(b)'
  BY <1>2, <1>3, <1>4, <1>5, <1>6, Apart, BoxFields DEF Known
<1>9. \A u \in Threads : Caught(u)' => Caught(u)
  BY <1>3 DEF Caught
<1>10. \A u \in Threads : Lost(u) => Lost(u)'
  BY <1>3 DEF Lost
<1>11. Heap'
  BY <1>2, <1>3, <1>4, <1>5, <1>8 DEF Heap
<1>12. Taken'
  BY <1>2, <1>3, <1>4, <1>5, <1>8 DEF Taken
<1>13. Owned'
  BY <1>2, <1>3, <1>4, <1>5 DEF Owned, Leaving
<1>14. Setting'
  BY <1>2, <1>3, <1>4, <1>5 DEF Setting, Leaving, Runs
<1>15. Single'
  BY <1>2, <1>3, <1>4, <1>5, <1>6, <1>9 DEF Single, Shows, Runs
<1>16. Halted'
  BY <1>2, <1>3, <1>4, <1>5, <1>10 DEF Halted, Runs, Victim
<1>17. Deciding'
  BY <1>2, <1>3, <1>4, <1>5, <1>10, BoxFields DEF Deciding, Away, Runs, Victim
<1>18. \A u \in Threads : Present(u) => Present(u)'
  BY <1>3 DEF Present, Settling, Shows
<1>19. Covering'
  BY <1>2, <1>3, <1>4, <1>5, <1>18 DEF Covering, Shows
<1>20. Asking'
  BY <1>2, <1>3, <1>4, <1>5, <1>10, BoxFields DEF Asking, Runs, Victim
<1>21. Phase'
  BY <1>2, <1>3 DEF Phase
<1> QED
  BY <1>7, <1>11, <1>12, <1>13, <1>14, <1>15, <1>16, <1>17, <1>19, <1>20, <1>21 DEF IInv

LEMMA ReserveSlotInv ==
  ASSUME IInv, NEW t \in Threads, Go(t, "reserve", "own"), watched[at[t]] = NoBox,
         watched' = [watched EXCEPT ![at[t]] = Reserved],
         UNCHANGED <<outside, crashVars, owner, states, parked, at, seen, count, covered, mode,
                     freed>> PROVE IInv'
<1>1. /\ mode[t] = "runs" /\ pc[t] = "reserve"
      /\ watched[at[t]] = NoBox
      /\ pc' = [pc EXCEPT ![t] = "own"]
      /\ watched' = [watched EXCEPT ![at[t]] = Reserved]
      /\ UNCHANGED <<state, tid, owner, states, parked, busy, poisoned, request, covered, pending,
                     mode, at, seen, count, freed, guard, rescuer, stopped, step, slot, claimed,
                     target, waiting, ended, over>>
  BY DEF Go, Runs
<1>2. Types /\ Heap /\ Taken /\ Owned /\ Setting /\ Single /\ Halted
      /\ Deciding /\ Phase /\ Covering /\ Asking
  BY DEF IInv
<1>3. /\ mode[t] = "runs" /\ pc[t] = "reserve"
      /\ watched[at[t]] = NoBox
      /\ \A u \in Threads : at[u] \in Slots
      /\ freed \subseteq Boxes
      /\ UNCHANGED <<state, tid, owner, states, parked, busy, poisoned, request, covered, pending,
                     mode, at, seen, count, freed, guard, rescuer, stopped, step, slot, claimed,
                     target, waiting, ended, over>>
  BY <1>1, <1>2 DEF Types
<1>4. pc'[t] = "own" /\ \A u \in Threads : u # t => pc'[u] = pc[u]
  BY <1>1, <1>2 DEF Types
<1>5. watched'[at[t]] = Reserved /\ \A i \in Slots : i # at[t] => watched'[i] = watched[i]
  BY <1>1, <1>2 DEF Types
<1>6. "reserve" \in Calling /\ "own" \in Calling
  BY Labelled
<1>7. at[t] \in Slots /\ claimed[at[t]] = NoBox
  BY <1>2, <1>3, <1>4, <1>5, <1>6, Apart DEF Owned, Types
<1>8. \A u \in Threads :
        /\ states[at[t]] = u => Leaving(u, at[t])
        /\ pc[u] \in {"own", "state", "show"} => at[u] # at[t]
  BY <1>2, <1>3, <1>4, <1>5, <1>6, Apart DEF Owned, Setting
<1>9. Types'
  BY <1>1, <1>2, <1>7, <1>8, Labelled DEF Types
<1>10. \A b \in Boxes : Known(b) => Known(b)'
  BY <1>2, <1>3, <1>4, <1>5, <1>6, <1>7, <1>8, Apart, BoxFields DEF Known
<1>11. \A u \in Threads : Caught(u)' => Caught(u)
  BY DEF Caught
<1>12. \A u \in Threads : Lost(u) => Lost(u)'
  BY DEF Lost
<1>13. Heap'
  BY <1>2, <1>3, <1>4, <1>5, <1>6, <1>7, <1>8, <1>10, Apart DEF Heap
<1>14. Taken'
  BY <1>2, <1>3, <1>4, <1>5, <1>6, <1>7, <1>8, <1>10, Apart DEF Taken
<1>15. Owned'
  BY <1>2, <1>3, <1>4, <1>5, <1>6, <1>7, <1>8, Apart DEF Owned, Leaving
<1>16. Setting'
  BY <1>2, <1>3, <1>4, <1>5, <1>6, <1>7, <1>8 DEF Setting, Leaving, Runs
<1>17. Single'
  BY <1>2, <1>3, <1>4, <1>5, <1>6, <1>7, <1>8, <1>11, Apart DEF Single, Shows, Runs
<1>18. Halted'
  BY <1>2, <1>3, <1>4, <1>5, <1>6, <1>7, <1>8, <1>12, Apart DEF Halted, Runs, Victim
<1>19. Deciding'
  BY <1>2, <1>3, <1>4, <1>6, <1>7, <1>12, BoxFields DEF Deciding, Away, Runs, Victim
<1>20. \A u \in Threads : Present(u) => Present(u)'
  BY <1>2, <1>3, <1>4, <1>5, <1>6, <1>7, <1>8, Apart DEF Present, Settling, Shows
<1>21. Covering'
  BY <1>2, <1>3, <1>4, <1>5, <1>6, <1>7, <1>8, <1>20, Apart DEF Covering, Shows
<1>22. Asking'
  BY <1>2, <1>3, <1>4, <1>6, <1>12, BoxFields DEF Asking, Runs, Victim
<1>23. Phase'
  BY <1>2 DEF Phase
<1> QED
  BY <1>9, <1>13, <1>14, <1>15, <1>16, <1>17, <1>18, <1>19, <1>21, <1>22, <1>23 DEF IInv

LEMMA RecheckCoversInv ==
  ASSUME IInv, NEW t \in Threads, Recheck(t), state = "idle" PROVE IInv'
<1>1. /\ mode[t] = "runs" /\ pc[t] = "recheck"
      /\ state = "idle"
      /\ pc' = [pc EXCEPT ![t] = "out"]
      /\ covered' = [covered EXCEPT ![t] = TRUE]
      /\ at' = [at EXCEPT ![t] = 1]
      /\ UNCHANGED <<state, tid, watched, owner, states, parked, busy, poisoned, request, pending,
                     mode, seen, count, freed, guard, rescuer, stopped, step, slot, claimed,
                     target, waiting, ended, over>>
  BY DEF Go, Runs, Recheck
<1>2. Types /\ Heap /\ Taken /\ Owned /\ Setting /\ Single /\ Halted
      /\ Deciding /\ Phase /\ Covering /\ Asking
  BY DEF IInv
<1>3. /\ mode[t] = "runs" /\ pc[t] = "recheck"
      /\ state = "idle"
      /\ freed \subseteq Boxes
      /\ UNCHANGED <<state, tid, watched, owner, states, parked, busy, poisoned, request, pending,
                     mode, seen, count, freed, guard, rescuer, stopped, step, slot, claimed,
                     target, waiting, ended, over>>
  BY <1>1, <1>2 DEF Types
<1>4. pc'[t] = "out" /\ \A u \in Threads : u # t => pc'[u] = pc[u]
  BY <1>1, <1>2 DEF Types
<1>5. covered'[t] = TRUE /\ \A u \in Threads : u # t => covered'[u] = covered[u]
  BY <1>1, <1>2 DEF Types
<1>6. at'[t] = 1 /\ \A u \in Threads : u # t => at'[u] = at[u]
  BY <1>1, <1>2 DEF Types
<1>7. "recheck" \in Calling /\ "out" \notin Calling
  BY Labelled
<1>8. step = "none"
  BY <1>2, <1>3, <1>4, <1>5, <1>6 DEF Phase
<1>9. Types'
  BY <1>1, <1>2, <1>8, Labelled, Apart DEF Types
<1>10. \A b \in Boxes : Known(b) => Known(b)'
  BY <1>2, <1>3, <1>4, <1>5, <1>6, <1>7, <1>8, Apart, BoxFields DEF Known
<1>11. \A u \in Threads : Caught(u)' => Caught(u)
  BY <1>3 DEF Caught
<1>12. \A u \in Threads : Lost(u) => Lost(u)'
  BY <1>3 DEF Lost
<1>13. Heap'
  BY <1>2, <1>3, <1>4, <1>7, <1>10 DEF Heap
<1>14. Taken'
  BY <1>2, <1>3, <1>4, <1>7, <1>10 DEF Taken
<1>15. Owned'
  BY <1>2, <1>3, <1>4, <1>6, <1>7 DEF Owned, Leaving
<1>16. Setting'
  BY <1>2, <1>3, <1>4, <1>6, <1>7 DEF Setting, Leaving, Runs
<1>17. Single'
  BY <1>2, <1>3, <1>4, <1>5, <1>6, <1>7, <1>11 DEF Single, Shows, Runs
<1>18. Halted'
  BY <1>2, <1>3, <1>4, <1>7, <1>12 DEF Halted, Runs, Victim
<1>19. Deciding'
  BY <1>2, <1>3, <1>4, <1>7, <1>12, BoxFields DEF Deciding, Away, Runs, Victim
<1>20. \A u \in Threads : Present(u) => Present(u)'
  BY <1>3 DEF Present, Settling, Shows
<1>21. Covering'
  BY <1>2, <1>3, <1>4, <1>5, <1>7, <1>8, <1>20 DEF Covering, Shows
<1>22. Asking'
  BY <1>2, <1>3, <1>4, <1>7, <1>12, BoxFields DEF Asking, Runs, Victim
<1>23. Phase'
  BY <1>2, <1>3 DEF Phase
<1> QED
  BY <1>9, <1>13, <1>14, <1>15, <1>16, <1>17, <1>18, <1>19, <1>21, <1>22, <1>23 DEF IInv

LEMMA ParksOutInv ==
  ASSUME IInv, NEW t \in Threads, mode[t] = "runs", pc[t] \in {"recheck", "left"}, ParkHere(t),
         pc' = [pc EXCEPT ![t] = "out"], at' = [at EXCEPT ![t] = 1],
         UNCHANGED <<outside, crashVars, watched, owner, states, seen, count, covered, freed>>
  PROVE  IInv'
<1>1. /\ mode[t] = "runs" /\ pc[t] \in {"recheck", "left"}
      /\ pc' = [pc EXCEPT ![t] = "out"]
      /\ mode' = [mode EXCEPT ![t] = "parked"]
      /\ at' = [at EXCEPT ![t] = 1]
      /\ parked' = [i \in Slots |-> parked[i] \/ owner[i] = t]
      /\ UNCHANGED <<state, tid, watched, owner, states, busy, poisoned, request, covered, pending,
                     seen, count, freed, guard, rescuer, stopped, step, slot, claimed, target,
                     waiting, ended, over>>
  BY DEF ParkHere
<1>2. Types /\ Heap /\ Taken /\ Owned /\ Setting /\ Single /\ Halted
      /\ Deciding /\ Phase /\ Covering /\ Asking
  BY DEF IInv
<1>3. /\ mode[t] = "runs" /\ pc[t] \in {"recheck", "left"}
      /\ freed \subseteq Boxes
      /\ UNCHANGED <<state, tid, watched, owner, states, busy, poisoned, request, covered, pending,
                     seen, count, freed, guard, rescuer, stopped, step, slot, claimed, target,
                     waiting, ended, over>>
  BY <1>1, <1>2 DEF Types
<1>4. pc'[t] = "out" /\ \A u \in Threads : u # t => pc'[u] = pc[u]
  BY <1>1, <1>2 DEF Types
<1>5. mode'[t] = "parked" /\ (\A u \in Threads : u # t => mode'[u] = mode[u])
      /\ \A u \in Threads \cup Workers : u # t => mode'[u] = mode[u]
  BY <1>1, <1>2 DEF Types
<1>6. at'[t] = 1 /\ \A u \in Threads : u # t => at'[u] = at[u]
  BY <1>1, <1>2 DEF Types
<1>7. \A i \in Slots : parked'[i] \in BOOLEAN /\ (parked'[i] <=> parked[i] \/ owner[i] = t)
  BY <1>1 DEF Types
<1>8. "recheck" \in Calling /\ "left" \notin Calling /\ "out" \notin Calling
  BY Labelled
<1>9. parked' \in [Slots -> BOOLEAN]
  BY <1>1
<1>10. \A i \in Slots : owner[i] # None => owner[i] \in Threads
  BY <1>2 DEF Types
<1>11. pc' \in [Threads -> Labels]
  BY <1>1, <1>2, Labelled DEF Types
<1>12. mode' \in [Threads \cup Workers -> Modes]
  BY <1>1, <1>2 DEF Types, Modes
<1>13. step = "signal" => claimed[slot].writer \in Threads
  BY <1>2, BoxFields DEF Deciding
<1>14. at' \in [Threads -> Slots]
  BY <1>1, <1>2, Apart DEF Types
<1>15. Types'
  BY <1>2, <1>3, <1>6, <1>9, <1>11, <1>12, Apart DEF Types
<1>16. \A b \in Boxes : Known(b) => Known(b)'
  BY <1>2, <1>3, <1>4, <1>5, <1>6, <1>7, <1>8, <1>9, <1>10, <1>11, <1>12, <1>13, <1>14, Apart DEF
    Known
<1>17. \A u \in Threads : Caught(u)' => Caught(u)
  BY DEF Caught
<1>18. \A u \in Threads : Lost(u) => Lost(u)'
  BY DEF Lost
<1>19. Heap'
  BY <1>2, <1>3, <1>4, <1>8, <1>9, <1>10, <1>11, <1>12, <1>13, <1>16 DEF Heap
<1>20. Taken'
  BY <1>2, <1>3, <1>4, <1>8, <1>9, <1>10, <1>11, <1>12, <1>13, <1>16 DEF Taken
<1>21. Owned'
  BY <1>2, <1>3, <1>4, <1>6, <1>8, <1>9, <1>10, <1>11, <1>12, <1>13 DEF Owned, Leaving
<1>22. Setting'
  BY <1>2, <1>3, <1>4, <1>5, <1>6, <1>7, <1>8, <1>9, <1>10, <1>11, <1>12, <1>13, <1>14, Apart DEF
    Setting, Leaving, Runs
<1>23. Single'
  BY <1>2, <1>3, <1>4, <1>5, <1>6, <1>8, <1>9, <1>10, <1>11, <1>12, <1>13, <1>17 DEF Single,
    Shows, Runs
<1>24. Halted'
  BY <1>2, <1>3, <1>4, <1>5, <1>7, <1>8, <1>9, <1>10, <1>11, <1>12, <1>13, <1>14, <1>18, Apart,
    BoxFields DEF Halted, Runs, Victim, Owned
<1>25. Deciding'
  BY <1>2, <1>3, <1>4, <1>5, <1>8, <1>9, <1>10, <1>11, <1>12, <1>13, <1>18, BoxFields DEF
    Deciding, Away, Runs, Victim
<1>26. Phase'
  BY <1>2, <1>3, <1>5 DEF Phase
<1>27. \A u \in Threads : Present(u) => Present(u)'
  BY DEF Present, Settling, Shows
<1>28. Covering'
  BY <1>2, <1>3, <1>4, <1>8, <1>9, <1>10, <1>11, <1>12, <1>13, <1>27 DEF Covering, Shows
<1>29. Asking'
  BY <1>2, <1>3, <1>4, <1>5, <1>8, <1>13, <1>18, BoxFields DEF Asking, Runs, Victim
<1> QED
  BY <1>15, <1>19, <1>20, <1>21, <1>22, <1>23, <1>24, <1>25, <1>26, <1>28, <1>29 DEF IInv

LEMMA ParksHereInv ==
  ASSUME IInv, NEW t \in Threads, mode[t] \in {"runs", "exits"}, ParkHere(t),
         pending' \in [Threads -> BOOLEAN], \A u \in Threads : u # t => pending'[u] = pending[u],
         UNCHANGED <<state, tid, guardVars, rescueVars, crashVars, watched, owner, states,
                     threadVars, freed, over>> PROVE IInv'
<1>1. /\ mode[t] \in {"runs", "exits"}
      /\ mode' = [mode EXCEPT ![t] = "parked"]
      /\ parked' = [i \in Slots |-> parked[i] \/ owner[i] = t]
      /\ pending' \in [Threads -> BOOLEAN] /\ \A u \in Threads : u # t => pending'[u] = pending[u]
      /\ UNCHANGED <<state, tid, watched, owner, states, busy, poisoned, request, covered, pc, at,
                     seen, count, freed, guard, rescuer, stopped, step, slot, claimed, target,
                     waiting, ended, over>>
  BY DEF ParkHere
<1>2. Types /\ Heap /\ Taken /\ Owned /\ Setting /\ Single /\ Halted
      /\ Deciding /\ Phase /\ Covering /\ Asking
  BY DEF IInv
<1>3. /\ mode[t] \in {"runs", "exits"}
      /\ \A u \in Threads : at[u] \in Slots
      /\ freed \subseteq Boxes
      /\ UNCHANGED <<state, tid, watched, owner, states, busy, poisoned, request, covered, pc, at,
                     seen, count, freed, guard, rescuer, stopped, step, slot, claimed, target,
                     waiting, ended, over>>
  BY <1>1, <1>2 DEF Types
<1>4. mode'[t] = "parked" /\ (\A u \in Threads : u # t => mode'[u] = mode[u])
      /\ \A u \in Threads \cup Workers : u # t => mode'[u] = mode[u]
  BY <1>1, <1>2 DEF Types
<1>5. \A i \in Slots : parked'[i] \in BOOLEAN /\ (parked'[i] <=> parked[i] \/ owner[i] = t)
  BY <1>1 DEF Types
<1>6. pending' \in [Threads -> BOOLEAN] /\ \A u \in Threads : u # t => pending'[u] = pending[u]
  OBVIOUS
<1>7. parked' \in [Slots -> BOOLEAN]
  BY <1>1
<1>8. \A i \in Slots : owner[i] # None => owner[i] \in Threads
  BY <1>2 DEF Types
<1>9. step = "signal" => claimed[slot].writer \in Threads
  BY <1>2, BoxFields DEF Deciding
<1>10. mode' \in [Threads \cup Workers -> Modes]
  BY <1>1, <1>2 DEF Types, Modes
<1>11. Types'
  BY <1>2, <1>3, <1>5, <1>6, <1>7, <1>10 DEF Types
<1>12. \A u \in Threads : Caught(u)' => Caught(u)
  BY DEF Caught
<1>13. \A u \in Threads : Lost(u) => Lost(u)'
  BY DEF Lost
<1>14. Setting'
  BY <1>2, <1>3, <1>4, <1>5, <1>7, <1>8, <1>9, <1>10, Apart DEF Setting, Leaving, Runs
<1>15. Single'
  BY <1>2, <1>3, <1>4, <1>7, <1>8, <1>9, <1>12 DEF Single, Shows, Runs
<1>16. Halted'
  BY <1>2, <1>3, <1>4, <1>5, <1>7, <1>8, <1>9, <1>10, <1>13, Apart, BoxFields DEF Halted, Runs,
    Victim, Owned
<1>17. Deciding'
  BY <1>2, <1>3, <1>4, <1>7, <1>8, <1>9, <1>13, BoxFields DEF Deciding, Away, Runs, Victim
<1>18. Phase'
  BY <1>2, <1>3, <1>4 DEF Phase
<1>19. Asking'
  BY <1>2, <1>3, <1>4, <1>6, <1>9, <1>13, BoxFields DEF Asking, Runs, Victim
<1>20. Heap' /\ Taken' /\ Owned' /\ Covering'
  BY <1>2 DEF Heap, Known, Taken, Owned, Leaving, Covering, Present, Settling, Shows
<1> QED
  BY <1>11, <1>14, <1>15, <1>16, <1>17, <1>18, <1>19, <1>20 DEF IInv

LEMMA LeaveGoesInv ==
  ASSUME IInv, NEW t \in Threads, LeaveParks(t), ~request[t] PROVE IInv'
<1>1. /\ mode[t] = "runs" /\ pc[t] = "left"
      /\ ~request[t]
      /\ pc' = [pc EXCEPT ![t] = "out"]
      /\ UNCHANGED <<state, tid, watched, owner, states, parked, busy, poisoned, request, covered,
                     pending, mode, at, seen, count, freed, guard, rescuer, stopped, step, slot,
                     claimed, target, waiting, ended, over>>
  BY DEF Go, Runs, LeaveParks
<1>2. Types /\ Heap /\ Taken /\ Owned /\ Setting /\ Single /\ Halted
      /\ Deciding /\ Phase /\ Covering /\ Asking
  BY DEF IInv
<1>3. /\ mode[t] = "runs" /\ pc[t] = "left"
      /\ ~request[t]
      /\ \A u \in Threads : at[u] \in Slots
      /\ freed \subseteq Boxes
      /\ UNCHANGED <<state, tid, watched, owner, states, parked, busy, poisoned, request, covered,
                     pending, mode, at, seen, count, freed, guard, rescuer, stopped, step, slot,
                     claimed, target, waiting, ended, over>>
  BY <1>1, <1>2 DEF Types
<1>4. pc'[t] = "out" /\ \A u \in Threads : u # t => pc'[u] = pc[u]
  BY <1>1, <1>2 DEF Types
<1>5. "left" \notin Calling /\ "out" \notin Calling
  BY Labelled
<1>6. Types'
  BY <1>1, <1>2, Labelled DEF Types
<1>7. \A b \in Boxes : Known(b) => Known(b)'
  BY <1>2, <1>3, <1>4, <1>5, Apart, BoxFields DEF Known
<1>8. \A u \in Threads : Caught(u)' => Caught(u)
  BY <1>3 DEF Caught
<1>9. \A u \in Threads : Lost(u) => Lost(u)'
  BY <1>3 DEF Lost
<1>10. Heap'
  BY <1>2, <1>3, <1>4, <1>5, <1>7 DEF Heap
<1>11. Taken'
  BY <1>2, <1>3, <1>4, <1>5, <1>7 DEF Taken
<1>12. Owned'
  BY <1>2, <1>3, <1>4 DEF Owned, Leaving
<1>13. Setting'
  BY <1>2, <1>3, <1>4 DEF Setting, Leaving, Runs
<1>14. Single'
  BY <1>2, <1>3, <1>4, <1>5, <1>8 DEF Single, Shows, Runs
<1>15. Halted'
  BY <1>2, <1>3, <1>4, <1>5, <1>9 DEF Halted, Runs, Victim
<1>16. Deciding'
  BY <1>2, <1>3, <1>4, <1>5, <1>9, BoxFields DEF Deciding, Away, Runs, Victim
<1>17. \A u \in Threads : Present(u) => Present(u)'
  BY <1>3 DEF Present, Settling, Shows
<1>18. Covering'
  BY <1>2, <1>3, <1>4, <1>5, <1>17 DEF Covering, Shows
<1>19. Asking'
  BY <1>2, <1>3, <1>4, <1>5, <1>9, BoxFields DEF Asking, Runs, Victim
<1>20. Phase'
  BY <1>2, <1>3 DEF Phase
<1> QED
  BY <1>6, <1>10, <1>11, <1>12, <1>13, <1>14, <1>15, <1>16, <1>18, <1>19, <1>20 DEF IInv

LEMMA StepsOnInv ==
  ASSUME IInv, NEW t \in Threads, Runs(t), pc[t] \in {"reserve", "scan", "compare"},
         NEW loop, loop = (IF pc[t] = "reserve" THEN "reserve" ELSE "scan"), NextSlot(t, loop),
         \A i \in Slots : pc[t] # "reserve" /\ Shows(t, i) => i # at[t],
         seen' \in [Threads -> {NoBox} \cup Boxes], \A u \in Threads : u # t => seen'[u] = seen[u],
         UNCHANGED <<outside, crashVars, slotVars, count, covered, mode, freed>> PROVE IInv'
<1>1. /\ mode[t] = "runs" /\ pc[t] \in {"reserve", "scan", "compare"}
      /\ \A i \in Slots : pc[t] # "reserve" /\ Shows(t, i) => i # at[t]
      /\ loop = (IF pc[t] = "reserve" THEN "reserve" ELSE "scan")
      /\ pc' = [pc EXCEPT ![t] = (IF at[t] < SlotCount THEN loop ELSE "out")]
      /\ at' = [at EXCEPT ![t] = IF at[t] < SlotCount THEN @ + 1 ELSE 1]
      /\ seen' \in [Threads -> {NoBox} \cup Boxes] /\ \A u \in Threads : u # t => seen'[u] = seen[u]
      /\ UNCHANGED <<state, tid, watched, owner, states, parked, busy, poisoned, request, covered,
                     pending, mode, count, freed, guard, rescuer, stopped, step, slot, claimed,
                     target, waiting, ended, over>>
  BY DEF Runs, NextSlot, Go
<1>2. Types /\ Heap /\ Taken /\ Owned /\ Setting /\ Single /\ Halted
      /\ Deciding /\ Phase /\ Covering /\ Asking
  BY DEF IInv
<1>3. /\ mode[t] = "runs" /\ pc[t] \in {"reserve", "scan", "compare"}
      /\ \A i \in Slots : pc[t] # "reserve" /\ Shows(t, i) => i # at[t]
      /\ loop = (IF pc[t] = "reserve" THEN "reserve" ELSE "scan")
      /\ freed \subseteq Boxes
      /\ UNCHANGED <<state, tid, watched, owner, states, parked, busy, poisoned, request, covered,
                     pending, mode, count, freed, guard, rescuer, stopped, step, slot, claimed,
                     target, waiting, ended, over>>
  BY <1>1, <1>2 DEF Types
<1>4. /\ pc'[t] = (IF at[t] < SlotCount THEN loop ELSE "out")
      /\ \A u \in Threads : u # t => pc'[u] = pc[u]
  BY <1>1, <1>2 DEF Types
<1>5. /\ at' \in [Threads -> Slots] /\ \A u \in Threads : u # t => at'[u] = at[u]
      /\ IF at[t] < SlotCount THEN at'[t] = at[t] + 1 ELSE at'[t] = 1
      /\ \A i \in Slots : i >= at[t] /\ i # at[t] => at[t] < SlotCount /\ i >= at[t] + 1
  BY <1>1, <1>2, Apart, SMTT(30) DEF Types, Slots
<1>6. seen' \in [Threads -> {NoBox} \cup Boxes] /\ \A u \in Threads : u # t => seen'[u] = seen[u]
  OBVIOUS
<1>7. "reserve" \in Calling /\ "scan" \in Calling /\ "compare" \in Calling /\ "out" \notin Calling
  BY Labelled
<1>8. pc' \in [Threads -> Labels]
  BY <1>1, <1>2, Labelled DEF Types
<1>9. Types'
  BY <1>2, <1>3, <1>5, <1>6, <1>8 DEF Types
<1>10. \A b \in Boxes : Known(b) => Known(b)'
  BY <1>2, <1>3, <1>4, <1>5, <1>6, <1>7, <1>8, Apart, BoxFields DEF Known
<1>11. \A u \in Threads : Caught(u)' => Caught(u)
  BY DEF Caught
<1>12. \A u \in Threads : Lost(u) => Lost(u)'
  BY DEF Lost
<1>13. Heap'
  BY <1>2, <1>3, <1>4, <1>7, <1>10 DEF Heap
<1>14. Taken'
  BY <1>2, <1>3, <1>4, <1>6, <1>7, <1>10 DEF Taken
<1>15. Owned'
  BY <1>2, <1>3, <1>4, <1>5, <1>7 DEF Owned, Leaving
<1>16. Setting'
  BY <1>2, <1>3, <1>4, <1>5, <1>7 DEF Setting, Leaving, Runs
<1>17. Single'
  BY <1>2, <1>3, <1>4, <1>5, <1>6, <1>7, <1>11 DEF Single, Shows, Runs
<1>18. Halted'
  BY <1>2, <1>3, <1>4, <1>7, <1>12 DEF Halted, Runs, Victim
<1>19. Deciding'
  BY <1>2, <1>3, <1>4, <1>7, <1>12, BoxFields DEF Deciding, Away, Runs, Victim
<1>20. \A u \in Threads : Present(u) => Present(u)'
  BY DEF Present, Settling, Shows
<1>21. Covering'
  BY <1>2, <1>3, <1>4, <1>7, <1>20 DEF Covering, Shows
<1>22. Asking'
  BY <1>2, <1>3, <1>4, <1>7, <1>12, BoxFields DEF Asking, Runs, Victim
<1>23. Phase'
  BY <1>2 DEF Phase
<1> QED
  BY <1>9, <1>13, <1>14, <1>15, <1>16, <1>17, <1>18, <1>19, <1>21, <1>22, <1>23 DEF IInv

LEMMA FreeBoxInv ==
  ASSUME IInv, NEW t \in Threads, FreeBox(t) PROVE IInv'
<1>1. /\ mode[t] = "runs" /\ pc[t] = "free"
      /\ pc' = [pc EXCEPT ![t] = (IF at[t] < SlotCount THEN "scan" ELSE "out")]
      /\ at' = [at EXCEPT ![t] = IF at[t] < SlotCount THEN @ + 1 ELSE 1]
      /\ seen' = [seen EXCEPT ![t] = NoBox]
      /\ freed' = freed \cup {seen[t]}
      /\ UNCHANGED <<state, tid, watched, owner, states, parked, busy, poisoned, request, covered,
                     pending, mode, count, guard, rescuer, stopped, step, slot, claimed, target,
                     waiting, ended, over>>
  BY DEF FreeBox, Runs, NextSlot, Go, PutDown
<1>2. Types /\ Heap /\ Taken /\ Owned /\ Setting /\ Single /\ Halted
      /\ Deciding /\ Phase /\ Covering /\ Asking
  BY DEF IInv
<1>3. /\ mode[t] = "runs" /\ pc[t] = "free"
      /\ freed \subseteq Boxes
      /\ UNCHANGED <<state, tid, watched, owner, states, parked, busy, poisoned, request, covered,
                     pending, mode, count, guard, rescuer, stopped, step, slot, claimed, target,
                     waiting, ended, over>>
  BY <1>1, <1>2 DEF Types
<1>4. /\ pc'[t] = (IF at[t] < SlotCount THEN "scan" ELSE "out")
      /\ \A u \in Threads : u # t => pc'[u] = pc[u]
  BY <1>1, <1>2 DEF Types
<1>5. /\ at' \in [Threads -> Slots] /\ \A u \in Threads : u # t => at'[u] = at[u]
      /\ IF at[t] < SlotCount THEN at'[t] = at[t] + 1 ELSE at'[t] = 1
      /\ \A i \in Slots : i >= at[t] /\ i # at[t] => at[t] < SlotCount /\ i >= at[t] + 1
  BY <1>1, <1>2, Apart DEF Types, Slots
<1>6. seen' \in [Threads -> {NoBox} \cup Boxes] /\ \A u \in Threads : u # t => seen'[u] = seen[u]
  BY <1>1, <1>2 DEF Types
<1>7. freed' = freed \cup {seen[t]}
  BY <1>1
<1>8. "free" \in Calling /\ "scan" \in Calling /\ "out" \notin Calling
  BY Labelled
<1>9. pc' \in [Threads -> Labels]
  BY <1>1, <1>2, Labelled DEF Types
<1>10. /\ seen[t] \in Boxes /\ seen[t].writer = t /\ Known(seen[t])
      /\ \A i \in Slots : watched[i] # seen[t] /\ claimed[i] # seen[t]
  BY <1>2, <1>3, <1>4, <1>5, <1>6, <1>7 DEF Taken
<1>11. Types'
  BY <1>2, <1>3, <1>5, <1>6, <1>7, <1>9, <1>10 DEF Types
<1>12. \A b \in Boxes : Known(b) => Known(b)'
  BY <1>2, <1>3, <1>4, <1>5, <1>6, <1>7, <1>8, <1>9, <1>10, Apart, BoxFields DEF Known
<1>13. \A u \in Threads : Caught(u)' => Caught(u)
  BY <1>3 DEF Caught
<1>14. \A u \in Threads : Lost(u) => Lost(u)'
  BY <1>3 DEF Lost
<1>15. Heap'
  BY <1>2, <1>3, <1>4, <1>7, <1>8, <1>9, <1>10, <1>12 DEF Heap
<1>16. Taken'
  BY <1>2, <1>3, <1>4, <1>6, <1>7, <1>8, <1>9, <1>12 DEF Taken
<1>17. Owned'
  BY <1>2, <1>3, <1>4, <1>5, <1>8, <1>9 DEF Owned, Leaving
<1>18. Setting'
  BY <1>2, <1>3, <1>4, <1>5, <1>8, <1>9 DEF Setting, Leaving, Runs
<1>19. Single'
  BY <1>2, <1>3, <1>4, <1>5, <1>6, <1>8, <1>9, <1>13 DEF Single, Shows, Runs
<1>20. Halted'
  BY <1>2, <1>3, <1>4, <1>8, <1>9, <1>14 DEF Halted, Runs, Victim
<1>21. Deciding'
  BY <1>2, <1>3, <1>4, <1>8, <1>9, <1>14, BoxFields DEF Deciding, Away, Runs, Victim
<1>22. \A u \in Threads : Present(u) => Present(u)'
  BY <1>3 DEF Present, Settling, Shows
<1>23. Covering'
  BY <1>2, <1>3, <1>4, <1>8, <1>9, <1>22 DEF Covering, Shows
<1>24. Asking'
  BY <1>2, <1>3, <1>4, <1>8, <1>14, BoxFields DEF Asking, Runs, Victim
<1>25. Phase'
  BY <1>2, <1>3 DEF Phase
<1> QED
  BY <1>11, <1>15, <1>16, <1>17, <1>18, <1>19, <1>20, <1>21, <1>23, <1>24, <1>25 DEF IInv

LEMMA ScanComparesInv ==
  ASSUME IInv, NEW t \in Threads, Scan(t), watched[at[t]] \notin {NoBox, Reserved} PROVE IInv'
<1>1. /\ mode[t] = "runs" /\ pc[t] = "scan"
      /\ watched[at[t]] \notin {NoBox, Reserved}
      /\ pc' = [pc EXCEPT ![t] = "compare"]
      /\ seen' = [seen EXCEPT ![t] = watched[at[t]]]
      /\ UNCHANGED <<state, tid, watched, owner, states, parked, busy, poisoned, request, covered,
                     pending, mode, at, count, freed, guard, rescuer, stopped, step, slot, claimed,
                     target, waiting, ended, over>>
  BY DEF Go, Runs, Scan
<1>2. Types /\ Heap /\ Taken /\ Owned /\ Setting /\ Single /\ Halted
      /\ Deciding /\ Phase /\ Covering /\ Asking
  BY DEF IInv
<1>3. /\ mode[t] = "runs" /\ pc[t] = "scan"
      /\ watched[at[t]] \notin {NoBox, Reserved}
      /\ \A u \in Threads : at[u] \in Slots
      /\ freed \subseteq Boxes
      /\ UNCHANGED <<state, tid, watched, owner, states, parked, busy, poisoned, request, covered,
                     pending, mode, at, count, freed, guard, rescuer, stopped, step, slot, claimed,
                     target, waiting, ended, over>>
  BY <1>1, <1>2 DEF Types
<1>4. pc'[t] = "compare" /\ \A u \in Threads : u # t => pc'[u] = pc[u]
  BY <1>1, <1>2 DEF Types
<1>5. seen'[t] = watched[at[t]] /\ \A u \in Threads : u # t => seen'[u] = seen[u]
  BY <1>1, <1>2 DEF Types
<1>6. "scan" \in Calling /\ "compare" \in Calling
  BY Labelled
<1>7. /\ at[t] \in Slots
      /\ watched[at[t]] \in Boxes
      /\ watched[at[t]] \notin freed
      /\ Known(watched[at[t]])
  BY <1>2, <1>3, <1>4, <1>5 DEF Types, Heap
<1>8. Types'
  BY <1>1, <1>2, <1>7, Labelled DEF Types
<1>9. \A b \in Boxes : Known(b) => Known(b)'
  BY <1>2, <1>3, <1>4, <1>5, <1>6, <1>7, Apart, BoxFields DEF Known
<1>10. \A u \in Threads : Caught(u)' => Caught(u)
  BY <1>3 DEF Caught
<1>11. \A u \in Threads : Lost(u) => Lost(u)'
  BY <1>3 DEF Lost
<1>12. Heap'
  BY <1>2, <1>3, <1>4, <1>6, <1>9 DEF Heap
<1>13. Taken'
  BY <1>2, <1>3, <1>4, <1>5, <1>6, <1>7, <1>9 DEF Taken
<1>14. Owned'
  BY <1>2, <1>3, <1>4, <1>6 DEF Owned, Leaving
<1>15. Setting'
  BY <1>2, <1>3, <1>4, <1>6 DEF Setting, Leaving, Runs
<1>16. Single'
  BY <1>2, <1>3, <1>4, <1>5, <1>6, <1>10 DEF Single, Shows, Runs
<1>17. Halted'
  BY <1>2, <1>3, <1>4, <1>6, <1>11 DEF Halted, Runs, Victim
<1>18. Deciding'
  BY <1>2, <1>3, <1>4, <1>6, <1>11, BoxFields DEF Deciding, Away, Runs, Victim
<1>19. \A u \in Threads : Present(u) => Present(u)'
  BY <1>3 DEF Present, Settling, Shows
<1>20. Covering'
  BY <1>2, <1>3, <1>4, <1>6, <1>19 DEF Covering, Shows
<1>21. Asking'
  BY <1>2, <1>3, <1>4, <1>6, <1>11, BoxFields DEF Asking, Runs, Victim
<1>22. Phase'
  BY <1>2, <1>3 DEF Phase
<1> QED
  BY <1>8, <1>12, <1>13, <1>14, <1>15, <1>16, <1>17, <1>18, <1>20, <1>21, <1>22 DEF IInv

LEMMA TakesInv ==
  ASSUME IInv, NEW t \in Threads, Go(t, "compare", "forget"), seen[t].writer = t,
         watched[at[t]] = seen[t], watched' = [watched EXCEPT ![at[t]] = NoBox],
         UNCHANGED <<outside, crashVars, owner, states, parked, at, seen, count, covered, mode,
                     freed>> PROVE IInv'
<1>1. /\ mode[t] = "runs" /\ pc[t] = "compare"
      /\ watched[at[t]] = seen[t] /\ seen[t].writer = t
      /\ pc' = [pc EXCEPT ![t] = "forget"]
      /\ watched' = [watched EXCEPT ![at[t]] = NoBox]
      /\ UNCHANGED <<state, tid, owner, states, parked, busy, poisoned, request, covered, pending,
                     mode, at, seen, count, freed, guard, rescuer, stopped, step, slot, claimed,
                     target, waiting, ended, over>>
  BY DEF Go, Runs
<1>2. Types /\ Heap /\ Taken /\ Owned /\ Setting /\ Single /\ Halted
      /\ Deciding /\ Phase /\ Covering /\ Asking
  BY DEF IInv
<1>3. /\ mode[t] = "runs" /\ pc[t] = "compare"
      /\ watched[at[t]] = seen[t] /\ seen[t].writer = t
      /\ \A u \in Threads : at[u] \in Slots
      /\ freed \subseteq Boxes
      /\ UNCHANGED <<state, tid, owner, states, parked, busy, poisoned, request, covered, pending,
                     mode, at, seen, count, freed, guard, rescuer, stopped, step, slot, claimed,
                     target, waiting, ended, over>>
  BY <1>1, <1>2 DEF Types
<1>4. pc'[t] = "forget" /\ \A u \in Threads : u # t => pc'[u] = pc[u]
  BY <1>1, <1>2 DEF Types
<1>5. watched'[at[t]] = NoBox /\ \A i \in Slots : i # at[t] => watched'[i] = watched[i]
  BY <1>1, <1>2 DEF Types
<1>6. "compare" \in Calling /\ "forget" \in Calling
  BY Labelled
<1>7. at[t] \in Slots /\ seen[t] \in Boxes /\ seen[t] \notin freed /\ Known(seen[t])
  BY <1>2, <1>3, <1>4, <1>5 DEF Taken, Types
<1>8. Shows(t, at[t]) /\ ~Caught(t)
  BY <1>2, <1>3, <1>4, <1>5, <1>6, <1>7 DEF Shows, Single
<1>9. \A i \in Slots : (i # at[t] => ~Shows(t, i) /\ watched[i] # seen[t]) /\ claimed[i] # seen[t]
  BY <1>2, <1>3, <1>4, <1>5, <1>6, <1>7, <1>8 DEF Heap, Single, Shows
<1>10. states[at[t]] \in {t, None}
  BY <1>2, <1>3, <1>4, <1>5, <1>6, <1>7 DEF Owned
<1>11. Types'
  BY <1>1, <1>2, <1>7, <1>8, <1>9, <1>10, Labelled DEF Types
<1>12. \A b \in Boxes : Known(b) => Known(b)'
  BY <1>2, <1>3, <1>4, <1>5, <1>6, <1>7, <1>8, <1>9, <1>10, Apart, BoxFields DEF Known
<1>13. \A u \in Threads : Caught(u)' => Caught(u)
  BY DEF Caught
<1>14. \A u \in Threads : Lost(u) => Lost(u)'
  BY DEF Lost
<1>15. Heap'
  BY <1>2, <1>3, <1>4, <1>5, <1>6, <1>7, <1>8, <1>9, <1>10, <1>12, Apart DEF Heap
<1>16. Taken'
  BY <1>2, <1>3, <1>4, <1>5, <1>6, <1>7, <1>8, <1>9, <1>10, <1>12, Apart DEF Taken
<1>17. Owned'
  BY <1>2, <1>3, <1>4, <1>5, <1>6, <1>7, <1>8, <1>9, <1>10, Apart DEF Owned, Leaving
<1>18. Setting'
  BY <1>2, <1>3, <1>4, <1>5, <1>6, <1>7, <1>8, <1>9, <1>10, Apart DEF Setting, Leaving, Runs
<1>19. Single'
  BY <1>2, <1>3, <1>4, <1>5, <1>6, <1>7, <1>8, <1>9, <1>10, <1>13, Apart DEF Single, Shows, Runs
<1>20. Halted'
  BY <1>2, <1>3, <1>4, <1>5, <1>6, <1>7, <1>8, <1>9, <1>10, <1>14, Apart DEF Halted, Runs, Victim
<1>21. Deciding'
  BY <1>2, <1>3, <1>4, <1>6, <1>7, <1>8, <1>9, <1>14, BoxFields DEF Deciding, Away, Runs, Victim
<1>22. \A u \in Threads : u # t /\ Present(u) => Present(u)'
  BY <1>2, <1>3, <1>4, <1>5, <1>6, <1>7, <1>8, <1>9, <1>10 DEF Present, Settling, Shows
<1>23. Covering'
  BY <1>2, <1>3, <1>4, <1>5, <1>6, <1>7, <1>8, <1>9, <1>10, <1>22, Apart DEF Covering, Shows
<1>24. Asking'
  BY <1>2, <1>3, <1>4, <1>6, <1>14, BoxFields DEF Asking, Runs, Victim
<1>25. Phase'
  BY <1>2 DEF Phase
<1> QED
  BY <1>11, <1>15, <1>16, <1>17, <1>18, <1>19, <1>20, <1>21, <1>23, <1>24, <1>25 DEF IInv

LEMMA FatalFirstInv ==
  ASSUME IInv, NEW t \in Threads \cup Workers, OnFatal(t), state = "idle" PROVE IInv'
<1>1. /\ mode[t] \in {"runs", "exits"} /\ state = "idle"
      /\ mode' = [mode EXCEPT ![t] = "crashed"]
      /\ state' = "rescuing"
      /\ UNCHANGED <<tid, watched, owner, states, parked, busy, poisoned, request, covered,
                     pending, pc, at, seen, count, freed, guard, rescuer, stopped, step, slot,
                     claimed, target, waiting, ended, over>>
  BY DEF OnFatal
<1>2. Types /\ Heap /\ Taken /\ Owned /\ Setting /\ Single /\ Halted
      /\ Deciding /\ Phase /\ Covering /\ Asking
  BY DEF IInv
<1>3. /\ mode[t] \in {"runs", "exits"} /\ state = "idle"
      /\ \A u \in Threads : at[u] \in Slots
      /\ freed \subseteq Boxes
      /\ UNCHANGED <<tid, watched, owner, states, parked, busy, poisoned, request, covered,
                     pending, pc, at, seen, count, freed, guard, rescuer, stopped, step, slot,
                     claimed, target, waiting, ended, over>>
  BY <1>1, <1>2 DEF Types
<1>4. mode'[t] = "crashed" /\ (\A u \in Threads : u # t => mode'[u] = mode[u])
      /\ \A u \in Threads \cup Workers : u # t => mode'[u] = mode[u]
  BY <1>1, <1>2 DEF Types
<1>5. state' = "rescuing"
  BY <1>1
<1>6. step = "signal" => claimed[slot].writer \in Threads
  BY <1>2, BoxFields DEF Deciding
<1>7. step = "none" /\ tid = None /\ \A u \in Threads \cup Workers : mode[u] # "crashed"
  BY <1>2, <1>3, <1>4 DEF Phase
<1>8. mode' \in [Threads \cup Workers -> Modes]
  BY <1>1, <1>2 DEF Types, Modes
<1>9. \A i \in Slots : owner[i] # None => owner[i] \in Threads
  BY <1>2 DEF Types
<1>10. \A i \in Slots :
        /\ watched[i] \in Boxes => watched[i].writer \in Threads
        /\ claimed[i] \in Boxes => claimed[i].writer \in Threads
  BY BoxFields
<1>11. Types'
  BY <1>2, <1>3, <1>5, <1>8 DEF Types
<1>12. \A u \in Threads : Caught(u)' => Caught(u)
  BY <1>3 DEF Caught
<1>13. \A u \in Threads : Lost(u) => Lost(u)'
  BY <1>3 DEF Lost
<1>14. Setting'
  BY <1>2, <1>3, <1>4, <1>6, <1>7, <1>8, <1>9 DEF Setting, Leaving, Runs
<1>15. Single'
  BY <1>2, <1>3, <1>4, <1>6, <1>7, <1>8, <1>9, <1>12 DEF Single, Shows, Runs
<1>16. Halted'
  BY <1>2, <1>3, <1>4, <1>6, <1>7, <1>8, <1>9, <1>10, <1>13 DEF Halted, Runs, Victim
<1>17. Deciding'
  BY <1>2, <1>3, <1>4, <1>6, <1>7, <1>8, <1>9, <1>13, BoxFields DEF Deciding, Away, Runs, Victim
<1>18. Phase'
  BY <1>2, <1>3, <1>4, <1>5 DEF Phase
<1>19. \A u \in Threads : Present(u) => Present(u)'
  BY <1>3 DEF Present, Settling, Shows
<1>20. Covering'
  BY <1>2, <1>3, <1>5, <1>6, <1>7, <1>8, <1>9, <1>19 DEF Covering, Shows
<1>21. Asking'
  BY <1>2, <1>3, <1>4, <1>6, <1>13, BoxFields DEF Asking, Runs, Victim
<1>22. Heap' /\ Taken' /\ Owned'
  BY <1>2, <1>3 DEF Heap, Known, Taken, Owned, Leaving
<1> QED
  BY <1>11, <1>14, <1>15, <1>16, <1>17, <1>18, <1>20, <1>21, <1>22 DEF IInv

LEMMA FatalLaterInv ==
  ASSUME IInv, NEW t \in Threads \cup Workers, OnFatal(t), state # "idle" PROVE IInv'
<1>1. /\ mode[t] \in {"runs", "exits"}
      /\ mode' = [mode EXCEPT ![t] = "paused"]
      /\ UNCHANGED <<state, tid, watched, owner, states, parked, busy, poisoned, request, covered,
                     pending, pc, at, seen, count, freed, guard, rescuer, stopped, step, slot,
                     claimed, target, waiting, ended, over>>
  BY DEF OnFatal
<1>2. Types /\ Heap /\ Taken /\ Owned /\ Setting /\ Single /\ Halted
      /\ Deciding /\ Phase /\ Covering /\ Asking
  BY DEF IInv
<1>3. /\ mode[t] \in {"runs", "exits"}
      /\ \A u \in Threads : at[u] \in Slots
      /\ freed \subseteq Boxes
      /\ UNCHANGED <<state, tid, watched, owner, states, parked, busy, poisoned, request, covered,
                     pending, pc, at, seen, count, freed, guard, rescuer, stopped, step, slot,
                     claimed, target, waiting, ended, over>>
  BY <1>1, <1>2 DEF Types
<1>4. mode'[t] = "paused" /\ (\A u \in Threads : u # t => mode'[u] = mode[u])
      /\ \A u \in Threads \cup Workers : u # t => mode'[u] = mode[u]
  BY <1>1, <1>2 DEF Types
<1>5. step = "signal" => claimed[slot].writer \in Threads
  BY <1>2, BoxFields DEF Deciding
<1>6. mode' \in [Threads \cup Workers -> Modes]
  BY <1>1, <1>2 DEF Types, Modes
<1>7. \A i \in Slots : owner[i] # None => owner[i] \in Threads
  BY <1>2 DEF Types
<1>8. \A i \in Slots :
        /\ watched[i] \in Boxes => watched[i].writer \in Threads
        /\ claimed[i] \in Boxes => claimed[i].writer \in Threads
  BY BoxFields
<1>9. Types'
  BY <1>2, <1>3, <1>6 DEF Types
<1>10. \A u \in Threads : Caught(u)' => Caught(u)
  BY <1>3 DEF Caught
<1>11. \A u \in Threads : Lost(u) => Lost(u)'
  BY <1>3 DEF Lost
<1>12. Setting'
  BY <1>2, <1>3, <1>4, <1>5, <1>6, <1>7 DEF Setting, Leaving, Runs
<1>13. Single'
  BY <1>2, <1>3, <1>4, <1>5, <1>6, <1>7, <1>10 DEF Single, Shows, Runs
<1>14. Halted'
  BY <1>2, <1>3, <1>4, <1>5, <1>6, <1>7, <1>8, <1>11 DEF Halted, Runs, Victim
<1>15. Deciding'
  BY <1>2, <1>3, <1>4, <1>5, <1>6, <1>7, <1>11, BoxFields DEF Deciding, Away, Runs, Victim
<1>16. Phase'
  BY <1>2, <1>3, <1>4 DEF Phase
<1>17. Asking'
  BY <1>2, <1>3, <1>4, <1>5, <1>11, BoxFields DEF Asking, Runs, Victim
<1>18. Heap' /\ Taken' /\ Owned' /\ Covering'
  BY <1>2, <1>3 DEF Heap, Known, Taken, Owned, Leaving, Covering, Present, Settling, Shows
<1> QED
  BY <1>9, <1>12, <1>13, <1>14, <1>15, <1>16, <1>17, <1>18 DEF IInv

LEMMA AnnounceCrashInv ==
  ASSUME IInv, NEW t \in Threads \cup Workers, AnnounceCrash(t) PROVE IInv'
<1>1. /\ mode[t] = "crashed"
      /\ mode' = [mode EXCEPT ![t] = "waits"]
      /\ tid' = t
      /\ UNCHANGED <<state, watched, owner, states, parked, busy, poisoned, request, covered,
                     pending, pc, at, seen, count, freed, guard, rescuer, stopped, step, slot,
                     claimed, target, waiting, ended, over>>
  BY DEF AnnounceCrash
<1>2. Types /\ Heap /\ Taken /\ Owned /\ Setting /\ Single /\ Halted
      /\ Deciding /\ Phase /\ Covering /\ Asking
  BY DEF IInv
<1>3. /\ mode[t] = "crashed"
      /\ \A u \in Threads : at[u] \in Slots
      /\ freed \subseteq Boxes
      /\ UNCHANGED <<state, watched, owner, states, parked, busy, poisoned, request, covered,
                     pending, pc, at, seen, count, freed, guard, rescuer, stopped, step, slot,
                     claimed, target, waiting, ended, over>>
  BY <1>1, <1>2 DEF Types
<1>4. mode'[t] = "waits" /\ (\A u \in Threads : u # t => mode'[u] = mode[u])
      /\ \A u \in Threads \cup Workers : u # t => mode'[u] = mode[u]
  BY <1>1, <1>2 DEF Types
<1>5. tid' = t
  BY <1>1
<1>6. step = "signal" => claimed[slot].writer \in Threads
  BY <1>2, BoxFields DEF Deciding
<1>7. /\ state = "rescuing" /\ tid = None /\ (step # "none" => rescuer = Guard)
      /\ \A u \in Threads \cup Workers : mode[u] = "crashed" => u = t
  BY <1>2, <1>3, <1>4 DEF Phase
<1>8. mode' \in [Threads \cup Workers -> Modes]
  BY <1>1, <1>2 DEF Types, Modes
<1>9. \A i \in Slots : owner[i] # None => owner[i] \in Threads
  BY <1>2 DEF Types
<1>10. \A i \in Slots :
        /\ watched[i] \in Boxes => watched[i].writer \in Threads
        /\ claimed[i] \in Boxes => claimed[i].writer \in Threads
  BY BoxFields
<1>11. Types'
  BY <1>2, <1>3, <1>5, <1>8 DEF Types
<1>12. \A u \in Threads : Caught(u)' => Caught(u)
  BY <1>3 DEF Caught
<1>13. \A u \in Threads : Lost(u) => Lost(u)'
  BY <1>3 DEF Lost
<1>14. Setting'
  BY <1>2, <1>3, <1>4, <1>6, <1>7, <1>8, <1>9 DEF Setting, Leaving, Runs
<1>15. Single'
  BY <1>2, <1>3, <1>4, <1>6, <1>7, <1>8, <1>9, <1>12 DEF Single, Shows, Runs
<1>16. Halted'
  BY <1>2, <1>3, <1>4, <1>5, <1>6, <1>7, <1>8, <1>9, <1>10, <1>13 DEF Halted, Runs, Victim
<1>17. Deciding'
  BY <1>2, <1>3, <1>4, <1>6, <1>7, <1>8, <1>9, <1>13, BoxFields DEF Deciding, Away, Runs, Victim
<1>18. Phase'
  BY <1>2, <1>3, <1>4, <1>5, <1>7 DEF Phase
<1>19. \A u \in Threads : Present(u) => Present(u)'
  BY <1>3 DEF Present, Settling, Shows
<1>20. Covering'
  BY <1>2, <1>3, <1>5, <1>6, <1>7, <1>8, <1>9, <1>19 DEF Covering, Shows
<1>21. Asking'
  BY <1>2, <1>3, <1>4, <1>6, <1>13, BoxFields DEF Asking, Runs, Victim
<1>22. Heap' /\ Taken' /\ Owned'
  BY <1>2, <1>3 DEF Heap, Known, Taken, Owned, Leaving
<1> QED
  BY <1>11, <1>14, <1>15, <1>16, <1>17, <1>18, <1>20, <1>21, <1>22 DEF IInv

LEMMA ClaimSkipsInv ==
  ASSUME IInv, Claim, watched[slot] \in {NoBox, Reserved} PROVE IInv'
<1>1. /\ step = "claim" /\ watched[slot] \in {NoBox, Reserved}
      /\ Advance("claim", "ask")
      /\ Advance("claim", "ask")
      /\ UNCHANGED <<state, tid, watched, owner, states, parked, busy, poisoned, request, covered,
                     pending, pc, mode, at, seen, count, freed, guard, rescuer, stopped, claimed,
                     target, waiting, ended, over>>
  BY DEF Claim, Finishing
<1>2. Types /\ Heap /\ Taken /\ Owned /\ Setting /\ Single /\ Halted
      /\ Deciding /\ Phase /\ Covering /\ Asking
  BY DEF IInv
<1>3. /\ step = "claim" /\ watched[slot] \in {NoBox, Reserved}
      /\ \A u \in Threads : at[u] \in Slots
      /\ freed \subseteq Boxes
      /\ UNCHANGED <<state, tid, watched, owner, states, parked, busy, poisoned, request, covered,
                     pending, pc, mode, at, seen, count, freed, guard, rescuer, stopped, claimed,
                     target, waiting, ended, over>>
  BY <1>1, <1>2 DEF Types
<1>4. /\ slot' \in Slots /\ \A i \in Slots : i >= 1
      /\ \/ step' = "claim" /\ \A i \in Slots : i >= slot' <=> i >= slot /\ i # slot
         \/ step' = "ask" /\ slot' = 1 /\ \A i \in Slots : i >= slot => i = slot
  BY <1>1, <1>2, Advanced
<1>5. Types'
  BY <1>2, <1>3, <1>4 DEF Types, Steps
<1>6. \A u \in Threads : Caught(u)' => Caught(u)
  BY <1>2, <1>3, <1>4 DEF Caught
<1>7. \A u \in Threads : Lost(u) => Lost(u)'
  BY <1>3 DEF Lost
<1>8. Single'
  BY <1>2, <1>3, <1>4, <1>6 DEF Single, Shows, Runs
<1>9. Halted'
  BY <1>2, <1>3, <1>4, <1>7 DEF Halted, Runs, Victim
<1>10. Deciding'
  BY <1>2, <1>3, <1>4, <1>7 DEF Deciding, Away, Runs, Victim
<1>11. Phase'
  BY <1>2, <1>3, <1>4 DEF Phase
<1>12. \A u \in Threads : Present(u) => Present(u)'
  BY <1>2, <1>3, <1>4 DEF Present, Settling, Shows
<1>13. Covering'
  BY <1>2, <1>3, <1>4, <1>12, Apart DEF Covering, Shows
<1>14. Asking'
  BY <1>2, <1>3, <1>4, <1>7 DEF Asking
<1>15. Heap' /\ Taken' /\ Owned' /\ Setting'
  BY <1>2, <1>3 DEF Heap, Known, Taken, Owned, Leaving, Setting, Runs
<1> QED
  BY <1>5, <1>8, <1>9, <1>10, <1>11, <1>13, <1>14, <1>15 DEF IInv

LEMMA ClaimTakesInv ==
  ASSUME IInv, Claim, watched[slot] \in Boxes PROVE IInv'
<1>1. /\ step = "claim" /\ watched[slot] \in Boxes
      /\ claimed' = [claimed EXCEPT ![slot] = watched[slot]]
      /\ watched' = [watched EXCEPT ![slot] = Reserved]
      /\ Advance("claim", "ask")
      /\ Advance("claim", "ask")
      /\ UNCHANGED <<state, tid, owner, states, parked, busy, poisoned, request, covered, pending,
                     pc, mode, at, seen, count, freed, guard, rescuer, stopped, target, waiting,
                     ended, over>>
  BY Apart DEF Claim, Finishing
<1>2. Types /\ Heap /\ Taken /\ Owned /\ Setting /\ Single /\ Halted
      /\ Deciding /\ Phase /\ Covering /\ Asking
  BY DEF IInv
<1>3. /\ step = "claim" /\ watched[slot] \in Boxes
      /\ \A u \in Threads : at[u] \in Slots
      /\ freed \subseteq Boxes
      /\ UNCHANGED <<state, tid, owner, states, parked, busy, poisoned, request, covered, pending,
                     pc, mode, at, seen, count, freed, guard, rescuer, stopped, target, waiting,
                     ended, over>>
  BY <1>1, <1>2 DEF Types
<1>4. claimed'[slot] = watched[slot] /\ \A i \in Slots : i # slot => claimed'[i] = claimed[i]
  BY <1>1, <1>2 DEF Types
<1>5. watched'[slot] = Reserved /\ \A i \in Slots : i # slot => watched'[i] = watched[i]
  BY <1>1, <1>2 DEF Types
<1>6. /\ slot' \in Slots /\ \A i \in Slots : i >= 1
      /\ \/ step' = "claim" /\ \A i \in Slots : i >= slot' <=> i >= slot /\ i # slot
         \/ step' = "ask" /\ slot' = 1 /\ \A i \in Slots : i >= slot => i = slot
  BY <1>1, <1>2, Advanced
<1>7. slot \in Slots /\ claimed[slot] \notin Boxes
  BY <1>2, <1>3, <1>4, <1>5, <1>6, Apart DEF Types, Owned
<1>8. claimed' \in [Slots -> {NoBox} \cup Boxes]
  BY <1>1, <1>2 DEF Types
<1>9. watched' \in [Slots -> {NoBox, Reserved} \cup Boxes]
  BY <1>1, <1>2 DEF Types
<1>10. \A u \in Threads, i \in Slots : Shows(u, i)' => Shows(u, i) /\ ~Shows(u, slot)
  BY <1>2, <1>3, <1>4, <1>5, <1>6, <1>7, Apart DEF Shows, Single
<1>11. \A u \in Threads : pc[u] \in {"own", "state", "show"} => at[u] # slot
  BY <1>2, <1>3, <1>4, <1>5, <1>6, <1>7, Apart DEF Setting
<1>12. Types'
  BY <1>2, <1>3, <1>6, <1>8, <1>9 DEF Types, Steps
<1>13. \A b \in Boxes : Known(b) => Known(b)'
  BY <1>2, <1>3, <1>4, <1>5, <1>6, <1>7, <1>8, <1>9, <1>10, <1>11, Apart DEF Known
<1>14. \A u \in Threads : ~Shows(u, slot) /\ Caught(u)' => Caught(u)
  BY <1>2, <1>3, <1>4, <1>5, <1>6, <1>7 DEF Caught, Shows
<1>15. \A u \in Threads : Lost(u) => Lost(u)'
  BY <1>2, <1>3, <1>4, <1>5, <1>6, <1>7, <1>8, <1>9, <1>10, <1>11 DEF Lost
<1>16. Heap'
  BY <1>2, <1>3, <1>4, <1>5, <1>7, <1>8, <1>9, <1>10, <1>11, <1>13, Apart, BoxFields DEF Heap,
    Shows
<1>17. Taken'
  BY <1>2, <1>3, <1>4, <1>5, <1>7, <1>8, <1>9, <1>10, <1>11, <1>13, Apart DEF Taken
<1>18. Owned'
  BY <1>2, <1>3, <1>4, <1>5, <1>7, <1>8, <1>9, <1>10, <1>11, Apart DEF Owned, Leaving
<1>19. Setting'
  BY <1>2, <1>3, <1>4, <1>5, <1>7, <1>8, <1>9, <1>10, <1>11 DEF Setting, Leaving, Runs
<1>20. Single'
  BY <1>2, <1>3, <1>4, <1>5, <1>6, <1>7, <1>8, <1>9, <1>10, <1>11, <1>14 DEF Single, Shows, Runs
<1>21. Halted'
  BY <1>2, <1>3, <1>4, <1>5, <1>6, <1>7, <1>8, <1>9, <1>10, <1>11, <1>15, Apart DEF Halted, Runs,
    Victim
<1>22. Deciding'
  BY <1>2, <1>3, <1>4, <1>6, <1>7, <1>8, <1>9, <1>10, <1>15, BoxFields DEF Deciding, Away, Runs,
    Victim
<1>23. Phase'
  BY <1>2, <1>3, <1>6 DEF Phase
<1>24. \A u \in Threads : Present(u) => Present(u)'
  BY <1>2, <1>3, <1>4, <1>5, <1>6, <1>7, <1>8, <1>9, <1>10, <1>11 DEF Present, Settling, Shows
<1>25. Covering'
  BY <1>2, <1>3, <1>4, <1>5, <1>6, <1>7, <1>8, <1>9, <1>10, <1>11, <1>24 DEF Covering, Shows
<1>26. Asking'
  BY <1>2, <1>3, <1>4, <1>6, <1>15 DEF Asking
<1> QED
  BY <1>12, <1>16, <1>17, <1>18, <1>19, <1>20, <1>21, <1>22, <1>23, <1>25, <1>26 DEF IInv

LEMMA AskSkipsInv ==
  ASSUME IInv, Ask, ~Claimed \/ owner[slot] \in {None, stopped, rescuer} PROVE IInv'
<1>1. /\ step = "ask"
      /\ Advance("ask", "wait")
      /\ Advance("ask", "wait")
      /\ target' = owner[slot]
      /\ UNCHANGED <<state, tid, watched, owner, states, parked, busy, poisoned, request, covered,
                     pending, pc, mode, at, seen, count, freed, guard, rescuer, stopped, claimed,
                     waiting, ended, over>>
  BY DEF Ask, Finishing
<1>2. Types /\ Heap /\ Taken /\ Owned /\ Setting /\ Single /\ Halted
      /\ Deciding /\ Phase /\ Covering /\ Asking
  BY DEF IInv
<1>3. /\ step = "ask"
      /\ \A u \in Threads : at[u] \in Slots
      /\ freed \subseteq Boxes
      /\ UNCHANGED <<state, tid, watched, owner, states, parked, busy, poisoned, request, covered,
                     pending, pc, mode, at, seen, count, freed, guard, rescuer, stopped, claimed,
                     waiting, ended, over>>
  BY <1>1, <1>2 DEF Types
<1>4. /\ slot' \in Slots /\ \A i \in Slots : i >= 1
      /\ \/ step' = "ask" /\ \A i \in Slots : i >= slot' <=> i >= slot /\ i # slot
         \/ step' = "wait" /\ slot' = 1 /\ \A i \in Slots : i >= slot => i = slot
  BY <1>1, <1>2, Advanced
<1>5. target' = owner[slot]
  BY <1>1
<1>6. target' \in {None} \cup Threads
  BY <1>1, <1>2 DEF Types
<1>7. Types'
  BY <1>2, <1>3, <1>4, <1>6 DEF Types, Steps
<1>8. \A u \in Threads : Caught(u)' => Caught(u)
  BY <1>2, <1>3, <1>4, <1>5, <1>6 DEF Caught
<1>9. \A u \in Threads : Lost(u) => Lost(u)'
  BY <1>3 DEF Lost
<1>10. Single'
  BY <1>2, <1>3, <1>4, <1>8 DEF Single, Shows, Runs
<1>11. Halted'
  BY <1>2, <1>3, <1>4, <1>9 DEF Halted, Runs, Victim
<1>12. Deciding'
  BY <1>2, <1>3, <1>4, <1>9, BoxFields DEF Deciding, Away, Runs, Victim
<1>13. Phase'
  BY <1>2, <1>3, <1>4 DEF Phase
<1>14. \A u \in Threads : Present(u) => Present(u)'
  BY <1>2, <1>3, <1>4, <1>5, <1>6 DEF Present, Settling, Shows
<1>15. Covering'
  BY <1>2, <1>3, <1>4, <1>14 DEF Covering, Shows
<1>16. Asking'
  BY <1>2, <1>3, <1>4, <1>5, <1>9, BoxFields DEF Asking, Runs, Victim
<1>17. Heap' /\ Taken' /\ Owned' /\ Setting'
  BY <1>2, <1>3 DEF Heap, Known, Taken, Owned, Leaving, Setting, Runs
<1> QED
  BY <1>7, <1>10, <1>11, <1>12, <1>13, <1>15, <1>16, <1>17 DEF IInv

LEMMA AskAsksInv ==
  ASSUME IInv, Ask, Claimed, owner[slot] \notin {None, stopped, rescuer} PROVE IInv'
<1>1. /\ step = "ask" /\ claimed[slot] # NoBox
      /\ owner[slot] # None
      /\ request' = [request EXCEPT ![Victim] = TRUE]
      /\ step' = "signal"
      /\ target' = owner[slot]
      /\ UNCHANGED <<state, tid, watched, owner, states, parked, busy, poisoned, covered, pending,
                     pc, mode, at, seen, count, freed, guard, rescuer, stopped, slot, claimed,
                     waiting, ended, over>>
  BY DEF Ask, Finishing, Claimed
<1>2. Types /\ Heap /\ Taken /\ Owned /\ Setting /\ Single /\ Halted
      /\ Deciding /\ Phase /\ Covering /\ Asking
  BY DEF IInv
<1>3. /\ step = "ask" /\ claimed[slot] # NoBox
      /\ owner[slot] # None
      /\ \A u \in Threads : at[u] \in Slots
      /\ freed \subseteq Boxes
      /\ UNCHANGED <<state, tid, watched, owner, states, parked, busy, poisoned, covered, pending,
                     pc, mode, at, seen, count, freed, guard, rescuer, stopped, slot, claimed,
                     waiting, ended, over>>
  BY <1>1, <1>2 DEF Types
<1>4. /\ claimed[slot] \in Boxes /\ Victim \in Threads /\ Victim = claimed[slot].writer
  BY <1>2, <1>3, Apart, BoxFields DEF Types, Victim, Claimed
<1>5. request'[Victim] = TRUE /\ \A u \in Threads : u # Victim => request'[u] = request[u]
  BY <1>1, <1>2, <1>4 DEF Types
<1>6. step' = "signal"
  BY <1>1
<1>7. target' = owner[slot]
  BY <1>1
<1>8. target' \in {None} \cup Threads /\ target' = Victim
  BY <1>1, <1>2, <1>3, <1>4 DEF Types, Owned
<1>9. \A i \in waiting : i \in Slots /\ claimed[i] \in Boxes /\ claimed[i].writer \in Threads
  BY <1>2, BoxFields DEF Types, Asking
<1>10. request' \in [Threads -> BOOLEAN]
  BY <1>1, <1>2 DEF Types
<1>11. Types'
  BY <1>2, <1>3, <1>4, <1>6, <1>8, <1>10 DEF Types, Steps
<1>12. \A u \in Threads : Caught(u)' => Caught(u)
  BY <1>2, <1>3, <1>4, <1>5, <1>6, <1>7, <1>8, <1>9, <1>10 DEF Caught
<1>13. \A u \in Threads : Lost(u) => Lost(u)'
  BY <1>3 DEF Lost
<1>14. Single'
  BY <1>2, <1>3, <1>4, <1>6, <1>8, <1>9, <1>12 DEF Single, Shows, Runs
<1>15. Halted'
  BY <1>2, <1>3, <1>4, <1>6, <1>8, <1>9, <1>13 DEF Halted, Runs, Victim
<1>16. Deciding'
  BY <1>2, <1>3, <1>4, <1>6, <1>8, <1>9, <1>13, BoxFields DEF Deciding, Away, Runs, Victim
<1>17. Phase'
  BY <1>2, <1>3, <1>6 DEF Phase
<1>18. \A u \in Threads : Present(u) => Present(u)'
  BY <1>2, <1>3, <1>4, <1>5, <1>6, <1>7, <1>8, <1>9, <1>10 DEF Present, Settling, Shows
<1>19. Covering'
  BY <1>2, <1>3, <1>4, <1>6, <1>8, <1>9, <1>18 DEF Covering, Shows
<1>20. Asking'
  BY <1>2, <1>3, <1>4, <1>5, <1>6, <1>7, <1>8, <1>13, BoxFields DEF Asking, Runs, Victim
<1>21. Heap' /\ Taken' /\ Owned' /\ Setting'
  BY <1>2, <1>3 DEF Heap, Known, Taken, Owned, Leaving, Setting, Runs
<1> QED
  BY <1>11, <1>14, <1>15, <1>16, <1>17, <1>19, <1>20, <1>21 DEF IInv

LEMMA SignalInv ==
  ASSUME IInv, Signal PROVE IInv'
<1>1. /\ step = "signal"
      /\ pending' = [pending EXCEPT ![target] = TRUE]
      /\ Advance("ask", "wait")
      /\ Advance("ask", "wait")
      /\ waiting' = waiting \cup {slot}
      /\ UNCHANGED <<state, tid, watched, owner, states, parked, busy, poisoned, request, covered,
                     pc, mode, at, seen, count, freed, guard, rescuer, stopped, claimed, target,
                     ended, over>>
  BY DEF Signal, Finishing
<1>2. Types /\ Heap /\ Taken /\ Owned /\ Setting /\ Single /\ Halted
      /\ Deciding /\ Phase /\ Covering /\ Asking
  BY DEF IInv
<1>3. /\ step = "signal"
      /\ \A u \in Threads : at[u] \in Slots
      /\ freed \subseteq Boxes
      /\ UNCHANGED <<state, tid, watched, owner, states, parked, busy, poisoned, request, covered,
                     pc, mode, at, seen, count, freed, guard, rescuer, stopped, claimed, target,
                     ended, over>>
  BY <1>1, <1>2 DEF Types
<1>4. /\ claimed[slot] \in Boxes /\ Victim \in Threads /\ Victim = claimed[slot].writer
  BY <1>2, <1>3, Apart, BoxFields DEF Types, Victim, Deciding
<1>5. slot \in Slots /\ target = Victim /\ (Runs(Victim) => request[Victim])
  BY <1>2, <1>3 DEF Types, Asking
<1>6. pending'[target] = TRUE /\ \A u \in Threads : u # target => pending'[u] = pending[u]
  BY <1>1, <1>2, <1>4, <1>5 DEF Types
<1>7. /\ slot' \in Slots /\ \A i \in Slots : i >= 1
      /\ \/ step' = "ask" /\ \A i \in Slots : i >= slot' <=> i >= slot /\ i # slot
         \/ step' = "wait" /\ slot' = 1 /\ \A i \in Slots : i >= slot => i = slot
  BY <1>1, <1>2, Advanced
<1>8. waiting' = waiting \cup {slot}
  BY <1>1
<1>9. \A i \in waiting : i \in Slots /\ claimed[i] \in Boxes /\ claimed[i].writer \in Threads
  BY <1>2, BoxFields DEF Types, Asking
<1>10. pending' \in [Threads -> BOOLEAN]
  BY <1>1, <1>2 DEF Types
<1>11. Types'
  BY <1>2, <1>3, <1>5, <1>7, <1>8, <1>10 DEF Types, Steps
<1>12. \A u \in Threads : Caught(u)' => Caught(u)
  BY <1>2, <1>3, <1>4, <1>5, <1>6, <1>7, <1>8, <1>9, <1>10 DEF Caught
<1>13. \A u \in Threads : Lost(u) => Lost(u)'
  BY <1>3 DEF Lost
<1>14. Single'
  BY <1>2, <1>3, <1>4, <1>5, <1>7, <1>9, <1>12 DEF Single, Shows, Runs
<1>15. Halted'
  BY <1>2, <1>3, <1>4, <1>5, <1>7, <1>9, <1>13 DEF Halted, Runs, Victim
<1>16. Deciding'
  BY <1>2, <1>3, <1>4, <1>5, <1>7, <1>9, <1>13, BoxFields DEF Deciding, Away, Runs, Victim
<1>17. Phase'
  BY <1>2, <1>3, <1>7 DEF Phase
<1>18. \A u \in Threads : Present(u) => Present(u)'
  BY <1>2, <1>3, <1>4, <1>5, <1>6, <1>7, <1>8, <1>9, <1>10 DEF Present, Settling, Shows
<1>19. Covering'
  BY <1>2, <1>3, <1>4, <1>5, <1>7, <1>9, <1>18 DEF Covering, Shows
<1>20. Asking'
  BY <1>2, <1>3, <1>4, <1>5, <1>6, <1>7, <1>8, <1>13, BoxFields DEF Asking, Runs, Victim
<1>21. Heap' /\ Taken' /\ Owned' /\ Setting'
  BY <1>2, <1>3 DEF Heap, Known, Taken, Owned, Leaving, Setting, Runs
<1> QED
  BY <1>11, <1>14, <1>15, <1>16, <1>17, <1>19, <1>20, <1>21 DEF IInv

LEMMA EndWaitInv ==
  ASSUME IInv, EndWait PROVE IInv'
<1>1. /\ step = "wait"
      /\ step' = "decide"
      /\ UNCHANGED <<state, tid, watched, owner, states, parked, busy, poisoned, request, covered,
                     pending, pc, mode, at, seen, count, freed, guard, rescuer, stopped, slot,
                     claimed, target, waiting, ended, over>>
  BY DEF EndWait, Finishing
<1>2. Types /\ Heap /\ Taken /\ Owned /\ Setting /\ Single /\ Halted
      /\ Deciding /\ Phase /\ Covering /\ Asking
  BY DEF IInv
<1>3. /\ step = "wait"
      /\ \A u \in Threads : at[u] \in Slots
      /\ freed \subseteq Boxes
      /\ UNCHANGED <<state, tid, watched, owner, states, parked, busy, poisoned, request, covered,
                     pending, pc, mode, at, seen, count, freed, guard, rescuer, stopped, slot,
                     claimed, target, waiting, ended, over>>
  BY <1>1, <1>2 DEF Types
<1>4. step' = "decide"
  BY <1>1
<1>5. slot = 1 /\ 1 \in Slots /\ \A i \in Slots : i >= slot
  BY <1>2, <1>3, <1>4, Apart DEF Phase, Slots
<1>6. Types'
  BY <1>2, <1>3, <1>4 DEF Types, Steps
<1>7. \A u \in Threads : Caught(u)' => Caught(u)
  BY <1>2, <1>3, <1>4, <1>5 DEF Caught
<1>8. \A u \in Threads : Lost(u) => Lost(u)'
  BY <1>3 DEF Lost
<1>9. Single'
  BY <1>2, <1>3, <1>4, <1>7 DEF Single, Shows, Runs
<1>10. Halted'
  BY <1>2, <1>3, <1>4, <1>8 DEF Halted, Runs, Victim
<1>11. Deciding'
  BY <1>2, <1>3, <1>4, <1>8, BoxFields DEF Deciding, Away, Runs, Victim
<1>12. Phase'
  BY <1>2, <1>3, <1>4 DEF Phase
<1>13. \A u \in Threads : Present(u) => Present(u)'
  BY <1>2, <1>3, <1>4, <1>5 DEF Present, Settling, Shows
<1>14. Covering'
  BY <1>2, <1>3, <1>4, <1>13 DEF Covering, Shows
<1>15. Asking'
  BY <1>2, <1>3, <1>4, <1>8, BoxFields DEF Asking, Runs, Victim
<1>16. Heap' /\ Taken' /\ Owned' /\ Setting'
  BY <1>2, <1>3 DEF Heap, Known, Taken, Owned, Leaving, Setting, Runs
<1> QED
  BY <1>6, <1>9, <1>10, <1>11, <1>12, <1>14, <1>15, <1>16 DEF IInv

LEMMA DecideSkipsInv ==
  ASSUME IInv, Decide, ~Claimed PROVE IInv'
<1>1. /\ step = "decide" /\ claimed[slot] \notin Boxes
      /\ Advance("decide", "end")
      /\ Advance("decide", "end")
      /\ UNCHANGED <<state, tid, watched, owner, states, parked, busy, poisoned, request, covered,
                     pending, pc, mode, at, seen, count, freed, guard, rescuer, stopped, claimed,
                     target, waiting, ended, over>>
  BY Apart DEF Decide, Finishing, Claimed
<1>2. Types /\ Heap /\ Taken /\ Owned /\ Setting /\ Single /\ Halted
      /\ Deciding /\ Phase /\ Covering /\ Asking
  BY DEF IInv
<1>3. /\ step = "decide" /\ claimed[slot] \notin Boxes
      /\ \A u \in Threads : at[u] \in Slots
      /\ freed \subseteq Boxes
      /\ UNCHANGED <<state, tid, watched, owner, states, parked, busy, poisoned, request, covered,
                     pending, pc, mode, at, seen, count, freed, guard, rescuer, stopped, claimed,
                     target, waiting, ended, over>>
  BY <1>1, <1>2 DEF Types
<1>4. /\ slot' \in Slots /\ \A i \in Slots : i >= 1
      /\ \/ step' = "decide" /\ \A i \in Slots : i >= slot' <=> i >= slot /\ i # slot
         \/ step' = "end" /\ slot' = 1 /\ \A i \in Slots : i >= slot => i = slot
  BY <1>1, <1>2, Advanced
<1>5. Types'
  BY <1>2, <1>3, <1>4 DEF Types, Steps
<1>6. \A u \in Threads : Caught(u)' => Caught(u)
  BY <1>2, <1>3, <1>4 DEF Caught
<1>7. \A u \in Threads : Lost(u) => Lost(u)'
  BY <1>3 DEF Lost
<1>8. Single'
  BY <1>2, <1>3, <1>4, <1>6 DEF Single, Shows, Runs
<1>9. Halted'
  BY <1>2, <1>3, <1>4, <1>7 DEF Halted, Runs, Victim
<1>10. Deciding'
  BY <1>2, <1>3, <1>4, <1>7 DEF Deciding, Away, Runs, Victim
<1>11. Phase'
  BY <1>2, <1>3, <1>4 DEF Phase
<1>12. \A u \in Threads : Present(u) => Present(u)'
  BY <1>2, <1>3, <1>4 DEF Present, Settling, Shows
<1>13. Covering'
  BY <1>2, <1>3, <1>4, <1>12 DEF Covering, Shows
<1>14. Asking'
  BY <1>2, <1>3, <1>4, <1>7, BoxFields DEF Asking, Runs, Victim
<1>15. Heap' /\ Taken' /\ Owned' /\ Setting'
  BY <1>2, <1>3 DEF Heap, Known, Taken, Owned, Leaving, Setting, Runs
<1> QED
  BY <1>5, <1>8, <1>9, <1>10, <1>11, <1>13, <1>14, <1>15 DEF IInv

LEMMA DecideClosesInv ==
  ASSUME IInv, Decide, Claimed, StoppedHere /\ ~Busy(Victim) PROVE IInv'
<1>1. /\ step = "decide" /\ claimed[slot] # NoBox /\ StoppedHere /\ ~Busy(Victim)
      /\ request' = [request EXCEPT ![Victim] = FALSE]
      /\ step' = "close"
      /\ UNCHANGED <<state, tid, watched, owner, states, parked, busy, poisoned, covered, pending,
                     pc, mode, at, seen, count, freed, guard, rescuer, stopped, slot, claimed,
                     target, waiting, ended, over>>
  BY DEF Decide, Finishing, Claimed
<1>2. Types /\ Heap /\ Taken /\ Owned /\ Setting /\ Single /\ Halted
      /\ Deciding /\ Phase /\ Covering /\ Asking
  BY DEF IInv
<1>3. /\ step = "decide" /\ claimed[slot] # NoBox /\ StoppedHere /\ ~Busy(Victim)
      /\ \A u \in Threads : at[u] \in Slots
      /\ freed \subseteq Boxes
      /\ UNCHANGED <<state, tid, watched, owner, states, parked, busy, poisoned, covered, pending,
                     pc, mode, at, seen, count, freed, guard, rescuer, stopped, slot, claimed,
                     target, waiting, ended, over>>
  BY <1>1, <1>2 DEF Types
<1>4. /\ claimed[slot] \in Boxes /\ Victim \in Threads /\ Victim = claimed[slot].writer
  BY <1>2, <1>3, Apart, BoxFields DEF Types, Victim, Claimed
<1>5. request'[Victim] = FALSE /\ \A u \in Threads : u # Victim => request'[u] = request[u]
  BY <1>1, <1>2, <1>4 DEF Types
<1>6. step' = "close"
  BY <1>1
<1>7. slot \in Slots /\ owner[slot] \in {Victim, None}
  BY <1>2, <1>4 DEF Types, Owned
<1>8. owner[slot] = None /\ ~parked[slot] => Lost(Victim)
  BY <1>2, <1>3, <1>4, <1>5, <1>6, <1>7, Apart DEF StoppedHere, Phase, Lost
<1>9. ~Runs(Victim) \/ Lost(Victim)
  BY <1>2, <1>3, <1>4, <1>5, <1>6, <1>7, <1>8 DEF StoppedHere, Halted
<1>10. Away(Victim) \/ Lost(Victim)
  BY <1>2, <1>3, <1>4, <1>5, <1>6, <1>9 DEF Halted, Busy, Away
<1>11. \A i \in waiting : i \in Slots /\ claimed[i] \in Boxes /\ claimed[i].writer \in Threads
  BY <1>2, BoxFields DEF Types, Asking
<1>12. request' \in [Threads -> BOOLEAN]
  BY <1>1, <1>2 DEF Types
<1>13. Types'
  BY <1>2, <1>3, <1>6, <1>12 DEF Types, Steps
<1>14. \A u \in Threads : Caught(u)' => Caught(u)
  BY <1>2, <1>3, <1>4, <1>5, <1>6, <1>7, <1>8, <1>9, <1>10, <1>11, <1>12 DEF Caught
<1>15. \A u \in Threads : Lost(u) => Lost(u)'
  BY <1>3 DEF Lost
<1>16. Single'
  BY <1>2, <1>3, <1>4, <1>6, <1>7, <1>8, <1>9, <1>10, <1>11, <1>14 DEF Single, Shows, Runs
<1>17. Halted'
  BY <1>2, <1>3, <1>4, <1>6, <1>7, <1>8, <1>9, <1>10, <1>11, <1>15 DEF Halted, Runs, Victim
<1>18. Deciding'
  BY <1>2, <1>3, <1>4, <1>6, <1>7, <1>8, <1>9, <1>10, <1>11, <1>15, BoxFields DEF Deciding, Away,
    Runs, Victim
<1>19. Phase'
  BY <1>2, <1>3, <1>6 DEF Phase
<1>20. \A u \in Threads : Present(u) => Present(u)'
  BY <1>2, <1>3, <1>4, <1>5, <1>6, <1>7, <1>8, <1>9, <1>10, <1>11, <1>12 DEF Present, Settling,
    Shows
<1>21. Covering'
  BY <1>2, <1>3, <1>4, <1>6, <1>7, <1>8, <1>9, <1>10, <1>11, <1>20 DEF Covering, Shows
<1>22. Asking'
  BY <1>2, <1>3, <1>4, <1>5, <1>6, <1>9, <1>15, BoxFields DEF Asking, Runs, Victim
<1>23. Heap' /\ Taken' /\ Owned' /\ Setting'
  BY <1>2, <1>3 DEF Heap, Known, Taken, Owned, Leaving, Setting, Runs
<1> QED
  BY <1>13, <1>16, <1>17, <1>18, <1>19, <1>21, <1>22, <1>23 DEF IInv

LEMMA DecideSealsInv ==
  ASSUME IInv, Decide, Claimed, ~(StoppedHere /\ ~Busy(Victim)) PROVE IInv'
<1>1. /\ step = "decide" /\ claimed[slot] # NoBox
      /\ step' = "seal"
      /\ UNCHANGED <<state, tid, watched, owner, states, parked, busy, poisoned, request, covered,
                     pending, pc, mode, at, seen, count, freed, guard, rescuer, stopped, slot,
                     claimed, target, waiting, ended, over>>
  BY DEF Decide, Finishing, Claimed
<1>2. Types /\ Heap /\ Taken /\ Owned /\ Setting /\ Single /\ Halted
      /\ Deciding /\ Phase /\ Covering /\ Asking
  BY DEF IInv
<1>3. /\ step = "decide" /\ claimed[slot] # NoBox
      /\ \A u \in Threads : at[u] \in Slots
      /\ freed \subseteq Boxes
      /\ UNCHANGED <<state, tid, watched, owner, states, parked, busy, poisoned, request, covered,
                     pending, pc, mode, at, seen, count, freed, guard, rescuer, stopped, slot,
                     claimed, target, waiting, ended, over>>
  BY <1>1, <1>2 DEF Types
<1>4. /\ claimed[slot] \in Boxes /\ Victim \in Threads /\ Victim = claimed[slot].writer
  BY <1>2, <1>3, Apart, BoxFields DEF Types, Victim, Claimed
<1>5. step' = "seal"
  BY <1>1
<1>6. Types'
  BY <1>2, <1>3, <1>5 DEF Types, Steps
<1>7. \A u \in Threads : Caught(u)' => Caught(u)
  BY <1>2, <1>3, <1>4, <1>5 DEF Caught
<1>8. \A u \in Threads : Lost(u) => Lost(u)'
  BY <1>3 DEF Lost
<1>9. Single'
  BY <1>2, <1>3, <1>5, <1>7 DEF Single, Shows, Runs
<1>10. Halted'
  BY <1>2, <1>3, <1>5, <1>8 DEF Halted, Runs, Victim
<1>11. Deciding'
  BY <1>2, <1>3, <1>4, <1>5, <1>8, BoxFields DEF Deciding, Away, Runs, Victim
<1>12. Phase'
  BY <1>2, <1>3, <1>5 DEF Phase
<1>13. \A u \in Threads : Present(u) => Present(u)'
  BY <1>2, <1>3, <1>4, <1>5 DEF Present, Settling, Shows
<1>14. Covering'
  BY <1>2, <1>3, <1>5, <1>13 DEF Covering, Shows
<1>15. Asking'
  BY <1>2, <1>3, <1>5, <1>8, BoxFields DEF Asking, Runs, Victim
<1>16. Heap' /\ Taken' /\ Owned' /\ Setting'
  BY <1>2, <1>3 DEF Heap, Known, Taken, Owned, Leaving, Setting, Runs
<1> QED
  BY <1>6, <1>9, <1>10, <1>11, <1>12, <1>14, <1>15, <1>16 DEF IInv

LEMMA CloseInv ==
  ASSUME IInv, Close PROVE IInv'
<1>1. /\ step = "close"
      /\ busy' = [busy EXCEPT ![Victim] = TRUE]
      /\ step' = "closing"
      /\ UNCHANGED <<state, tid, watched, owner, states, parked, poisoned, request, covered,
                     pending, pc, mode, at, seen, count, freed, guard, rescuer, stopped, slot,
                     claimed, target, waiting, ended, over>>
  BY DEF Close, Finishing
<1>2. Types /\ Heap /\ Taken /\ Owned /\ Setting /\ Single /\ Halted
      /\ Deciding /\ Phase /\ Covering /\ Asking
  BY DEF IInv
<1>3. /\ step = "close"
      /\ \A u \in Threads : at[u] \in Slots
      /\ freed \subseteq Boxes
      /\ UNCHANGED <<state, tid, watched, owner, states, parked, poisoned, request, covered,
                     pending, pc, mode, at, seen, count, freed, guard, rescuer, stopped, slot,
                     claimed, target, waiting, ended, over>>
  BY <1>1, <1>2 DEF Types
<1>4. /\ claimed[slot] \in Boxes /\ Victim \in Threads /\ Victim = claimed[slot].writer
  BY <1>2, <1>3, Apart, BoxFields DEF Types, Victim, Deciding
<1>5. busy'[Victim] = TRUE /\ \A u \in Threads : u # Victim => busy'[u] = busy[u]
  BY <1>1, <1>2, <1>4 DEF Types
<1>6. step' = "closing"
  BY <1>1
<1>7. Away(Victim) \/ Lost(Victim)
  BY <1>2, <1>3, <1>5 DEF Deciding
<1>8. ~Runs(Victim) \/ Lost(Victim)
  BY <1>7 DEF Away
<1>9. busy' \in [Threads -> BOOLEAN]
  BY <1>1, <1>2 DEF Types
<1>10. Types'
  BY <1>2, <1>3, <1>6, <1>9 DEF Types, Steps
<1>11. \A u \in Threads : Caught(u)' => Caught(u)
  BY <1>2, <1>3, <1>4, <1>5, <1>6, <1>7, <1>8, <1>9 DEF Caught
<1>12. \A u \in Threads : Lost(u) => Lost(u)'
  BY <1>3 DEF Lost
<1>13. Single'
  BY <1>2, <1>3, <1>4, <1>6, <1>7, <1>8, <1>11 DEF Single, Shows, Runs
<1>14. Halted'
  BY <1>2, <1>3, <1>4, <1>5, <1>6, <1>7, <1>8, <1>12 DEF Halted, Runs, Victim
<1>15. Deciding'
  BY <1>2, <1>3, <1>4, <1>6, <1>7, <1>8, <1>12, BoxFields DEF Deciding, Away, Runs, Victim
<1>16. Phase'
  BY <1>2, <1>3, <1>6 DEF Phase
<1>17. \A u \in Threads : Present(u) => Present(u)'
  BY <1>2, <1>3, <1>4, <1>5, <1>6, <1>7, <1>8, <1>9 DEF Present, Settling, Shows
<1>18. Covering'
  BY <1>2, <1>3, <1>4, <1>6, <1>7, <1>8, <1>17 DEF Covering, Shows
<1>19. Asking'
  BY <1>2, <1>3, <1>6, <1>12, BoxFields DEF Asking, Runs, Victim
<1>20. Heap' /\ Taken' /\ Owned' /\ Setting'
  BY <1>2, <1>3 DEF Heap, Known, Taken, Owned, Leaving, Setting, Runs
<1> QED
  BY <1>10, <1>13, <1>14, <1>15, <1>16, <1>18, <1>19, <1>20 DEF IInv

LEMMA ParksRescueInv ==
  ASSUME IInv, EndClose, request[Victim] PROVE IInv'
<1>1. /\ step = "closing"
      /\ busy' = [busy EXCEPT ![Victim] = FALSE]
      /\ step' = "parked"
      /\ UNCHANGED <<state, tid, watched, owner, states, parked, poisoned, request, covered,
                     pending, pc, mode, at, seen, count, freed, guard, rescuer, stopped, slot,
                     claimed, target, waiting, ended, over>>
  BY DEF EndClose, Finishing
<1>2. Types /\ Heap /\ Taken /\ Owned /\ Setting /\ Single /\ Halted
      /\ Deciding /\ Phase /\ Covering /\ Asking
  BY DEF IInv
<1>3. /\ step = "closing"
      /\ \A u \in Threads : at[u] \in Slots
      /\ freed \subseteq Boxes
      /\ UNCHANGED <<state, tid, watched, owner, states, parked, poisoned, request, covered,
                     pending, pc, mode, at, seen, count, freed, guard, rescuer, stopped, slot,
                     claimed, target, waiting, ended, over>>
  BY <1>1, <1>2 DEF Types
<1>4. /\ claimed[slot] \in Boxes /\ Victim \in Threads /\ Victim = claimed[slot].writer
  BY <1>2, <1>3, Apart, BoxFields DEF Types, Victim, Deciding
<1>5. busy'[Victim] = FALSE /\ \A u \in Threads : u # Victim => busy'[u] = busy[u]
  BY <1>1, <1>2, <1>4 DEF Types
<1>6. step' = "parked"
  BY <1>1
<1>7. Away(Victim) \/ Lost(Victim)
  BY <1>2, <1>3, <1>5 DEF Deciding
<1>8. pc[Victim] \notin {"capture", "publish"} \/ Lost(Victim)
  BY <1>7 DEF Away
<1>9. busy' \in [Threads -> BOOLEAN]
  BY <1>1, <1>2 DEF Types
<1>10. Types'
  BY <1>2, <1>3, <1>6, <1>9 DEF Types, Steps
<1>11. \A u \in Threads : Caught(u)' => Caught(u)
  BY <1>2, <1>3, <1>4, <1>5, <1>6, <1>7, <1>8, <1>9 DEF Caught
<1>12. \A u \in Threads : Lost(u) => Lost(u)'
  BY <1>3 DEF Lost
<1>13. Single'
  BY <1>2, <1>3, <1>4, <1>6, <1>7, <1>8, <1>11 DEF Single, Shows, Runs
<1>14. Halted'
  BY <1>2, <1>3, <1>4, <1>5, <1>6, <1>7, <1>8, <1>12 DEF Halted, Runs, Victim
<1>15. Deciding'
  BY <1>2, <1>3, <1>4, <1>6, <1>7, <1>8, <1>12, BoxFields DEF Deciding, Away, Runs, Victim
<1>16. Phase'
  BY <1>2, <1>3, <1>6 DEF Phase
<1>17. \A u \in Threads : Present(u) => Present(u)'
  BY <1>2, <1>3, <1>4, <1>5, <1>6, <1>7, <1>8, <1>9 DEF Present, Settling, Shows
<1>18. Covering'
  BY <1>2, <1>3, <1>4, <1>6, <1>7, <1>8, <1>17 DEF Covering, Shows
<1>19. Asking'
  BY <1>2, <1>3, <1>6, <1>12, BoxFields DEF Asking, Runs, Victim
<1>20. Heap' /\ Taken' /\ Owned' /\ Setting'
  BY <1>2, <1>3 DEF Heap, Known, Taken, Owned, Leaving, Setting, Runs
<1> QED
  BY <1>10, <1>13, <1>14, <1>15, <1>16, <1>18, <1>19, <1>20 DEF IInv

LEMMA ClosesInv ==
  ASSUME IInv, EndClose, ~request[Victim] PROVE IInv'
<1>1. /\ step = "closing"
      /\ busy' = [busy EXCEPT ![Victim] = FALSE]
      /\ ended' = [ended EXCEPT ![Victim] = (IF @ = "open" THEN "finished" ELSE @)]
      /\ Advance("decide", "end")
      /\ Advance("decide", "end")
      /\ UNCHANGED <<state, tid, watched, owner, states, parked, poisoned, request, covered,
                     pending, pc, mode, at, seen, count, freed, guard, rescuer, stopped, claimed,
                     target, waiting, over>>
  BY DEF EndClose, Finishing, Outcome
<1>2. Types /\ Heap /\ Taken /\ Owned /\ Setting /\ Single /\ Halted
      /\ Deciding /\ Phase /\ Covering /\ Asking
  BY DEF IInv
<1>3. /\ step = "closing"
      /\ \A u \in Threads : at[u] \in Slots
      /\ freed \subseteq Boxes
      /\ UNCHANGED <<state, tid, watched, owner, states, parked, poisoned, request, covered,
                     pending, pc, mode, at, seen, count, freed, guard, rescuer, stopped, claimed,
                     target, waiting, over>>
  BY <1>1, <1>2 DEF Types
<1>4. /\ claimed[slot] \in Boxes /\ Victim \in Threads /\ Victim = claimed[slot].writer
  BY <1>2, <1>3, Apart, BoxFields DEF Types, Victim, Deciding
<1>5. busy'[Victim] = FALSE /\ \A u \in Threads : u # Victim => busy'[u] = busy[u]
  BY <1>1, <1>2, <1>4 DEF Types
<1>6. /\ ended'[Victim] = (IF ended[Victim] = "open" THEN "finished" ELSE ended[Victim])
      /\ \A u \in Threads : u # Victim => ended'[u] = ended[u]
  BY <1>1, <1>2, <1>4 DEF Types
<1>7. /\ slot' \in Slots /\ \A i \in Slots : i >= 1
      /\ \/ step' = "decide" /\ \A i \in Slots : i >= slot' <=> i >= slot /\ i # slot
         \/ step' = "end" /\ slot' = 1 /\ \A i \in Slots : i >= slot => i = slot
  BY <1>1, <1>2, Advanced
<1>8. Away(Victim) \/ Lost(Victim)
  BY <1>2, <1>3, <1>5, <1>6 DEF Deciding
<1>9. pc[Victim] \notin {"capture", "publish"} \/ Lost(Victim)
  BY <1>8 DEF Away
<1>10. busy' \in [Threads -> BOOLEAN]
  BY <1>1, <1>2 DEF Types
<1>11. ended' \in [Threads -> {"open", "finished", "sealed", "failed"}]
  BY <1>1, <1>2 DEF Types
<1>12. Types'
  BY <1>2, <1>3, <1>7, <1>10, <1>11 DEF Types, Steps
<1>13. \A u \in Threads : Caught(u)' => Caught(u)
  BY <1>2, <1>3, <1>4, <1>5, <1>6, <1>7, <1>8, <1>9, <1>10, <1>11 DEF Caught
<1>14. \A u \in Threads : Lost(u) => Lost(u)'
  BY <1>3 DEF Lost
<1>15. Single'
  BY <1>2, <1>3, <1>4, <1>7, <1>8, <1>9, <1>10, <1>13 DEF Single, Shows, Runs
<1>16. Halted'
  BY <1>2, <1>3, <1>4, <1>5, <1>7, <1>8, <1>9, <1>10, <1>14 DEF Halted, Runs, Victim
<1>17. Deciding'
  BY <1>2, <1>3, <1>4, <1>6, <1>7, <1>8, <1>9, <1>10, <1>14, BoxFields DEF Deciding, Away, Runs,
    Victim
<1>18. Phase'
  BY <1>2, <1>3, <1>7 DEF Phase
<1>19. \A u \in Threads : Present(u) => Present(u)'
  BY <1>2, <1>3, <1>4, <1>5, <1>6, <1>7, <1>8, <1>9, <1>10, <1>11 DEF Present, Settling, Shows
<1>20. Covering'
  BY <1>2, <1>3, <1>4, <1>6, <1>7, <1>8, <1>9, <1>10, <1>19 DEF Covering, Shows
<1>21. Asking'
  BY <1>2, <1>3, <1>7, <1>14, BoxFields DEF Asking, Runs, Victim
<1>22. Heap' /\ Taken' /\ Owned' /\ Setting'
  BY <1>2, <1>3 DEF Heap, Known, Taken, Owned, Leaving, Setting, Runs
<1> QED
  BY <1>12, <1>15, <1>16, <1>17, <1>18, <1>20, <1>21, <1>22 DEF IInv

LEMMA SealInv ==
  ASSUME IInv, Seal PROVE IInv'
<1>1. /\ step = "seal"
      /\ ended' = [ended EXCEPT ![Victim] =
                     (IF @ = "open" THEN (IF Victim \in Inline THEN "failed" ELSE "sealed") ELSE @)]
      /\ Advance("decide", "end")
      /\ Advance("decide", "end")
      /\ UNCHANGED <<state, tid, watched, owner, states, parked, busy, poisoned, request, covered,
                     pending, pc, mode, at, seen, count, freed, guard, rescuer, stopped, claimed,
                     target, waiting, over>>
  BY DEF Seal, Finishing, Outcome
<1>2. Types /\ Heap /\ Taken /\ Owned /\ Setting /\ Single /\ Halted
      /\ Deciding /\ Phase /\ Covering /\ Asking
  BY DEF IInv
<1>3. /\ step = "seal"
      /\ \A u \in Threads : at[u] \in Slots
      /\ freed \subseteq Boxes
      /\ UNCHANGED <<state, tid, watched, owner, states, parked, busy, poisoned, request, covered,
                     pending, pc, mode, at, seen, count, freed, guard, rescuer, stopped, claimed,
                     target, waiting, over>>
  BY <1>1, <1>2 DEF Types
<1>4. /\ claimed[slot] \in Boxes /\ Victim \in Threads /\ Victim = claimed[slot].writer
  BY <1>2, <1>3, Apart, BoxFields DEF Types, Victim, Deciding
<1>5. /\ ended'[Victim] = (IF ended[Victim] = "open"
                             THEN (IF Victim \in Inline THEN "failed" ELSE "sealed")
                             ELSE ended[Victim])
      /\ \A u \in Threads : u # Victim => ended'[u] = ended[u]
  BY <1>1, <1>2, <1>4 DEF Types
<1>6. /\ slot' \in Slots /\ \A i \in Slots : i >= 1
      /\ \/ step' = "decide" /\ \A i \in Slots : i >= slot' <=> i >= slot /\ i # slot
         \/ step' = "end" /\ slot' = 1 /\ \A i \in Slots : i >= slot => i = slot
  BY <1>1, <1>2, Advanced
<1>7. ended' \in [Threads -> {"open", "finished", "sealed", "failed"}]
  BY <1>1, <1>2 DEF Types
<1>8. Types'
  BY <1>2, <1>3, <1>6, <1>7 DEF Types, Steps
<1>9. \A u \in Threads : Caught(u)' => Caught(u)
  BY <1>2, <1>3, <1>4, <1>5, <1>6, <1>7 DEF Caught
<1>10. \A u \in Threads : Lost(u) => Lost(u)'
  BY <1>3 DEF Lost
<1>11. Single'
  BY <1>2, <1>3, <1>4, <1>6, <1>9 DEF Single, Shows, Runs
<1>12. Halted'
  BY <1>2, <1>3, <1>4, <1>6, <1>10 DEF Halted, Runs, Victim
<1>13. Deciding'
  BY <1>2, <1>3, <1>4, <1>5, <1>6, <1>10, BoxFields DEF Deciding, Away, Runs, Victim
<1>14. Phase'
  BY <1>2, <1>3, <1>6 DEF Phase
<1>15. \A u \in Threads : Present(u) => Present(u)'
  BY <1>2, <1>3, <1>4, <1>5, <1>6, <1>7 DEF Present, Settling, Shows
<1>16. Covering'
  BY <1>2, <1>3, <1>4, <1>5, <1>6, <1>15 DEF Covering, Shows
<1>17. Asking'
  BY <1>2, <1>3, <1>6, <1>10, BoxFields DEF Asking, Runs, Victim
<1>18. Heap' /\ Taken' /\ Owned' /\ Setting'
  BY <1>2, <1>3 DEF Heap, Known, Taken, Owned, Leaving, Setting, Runs
<1> QED
  BY <1>8, <1>11, <1>12, <1>13, <1>14, <1>16, <1>17, <1>18 DEF IInv

LEMMA EndFinishInv ==
  ASSUME IInv, ~over, EndFinish PROVE IInv'
<1>1. /\ step = "end" /\ ~over
      /\ step' = "none"
      /\ rescuer' = None
      /\ state' = IF rescuer # Guard THEN "idle" ELSE IF guard = "crash" THEN "done" ELSE state
      /\ over' = (guard = "stop" /\ rescuer = Guard)
      /\ UNCHANGED <<tid, watched, owner, states, parked, busy, poisoned, request, covered,
                     pending, pc, mode, at, seen, count, freed, guard, stopped, slot, claimed,
                     target, waiting, ended>>
  BY DEF EndFinish, Finishing
<1>2. Types /\ Heap /\ Taken /\ Owned /\ Setting /\ Single /\ Halted
      /\ Deciding /\ Phase /\ Covering /\ Asking
  BY DEF IInv
<1>3. /\ step = "end" /\ ~over
      /\ \A u \in Threads : at[u] \in Slots
      /\ freed \subseteq Boxes
      /\ UNCHANGED <<tid, watched, owner, states, parked, busy, poisoned, request, covered,
                     pending, pc, mode, at, seen, count, freed, guard, stopped, slot, claimed,
                     target, waiting, ended>>
  BY <1>1, <1>2 DEF Types
<1>4. state = "rescuing" /\ rescuer # None /\ (rescuer # Guard => tid = None)
  BY <1>2, <1>3 DEF Phase
<1>5. step' = "none"
  BY <1>1
<1>6. rescuer' = None
  BY <1>1
<1>7. state' = IF rescuer # Guard THEN "idle" ELSE IF guard = "crash" THEN "done" ELSE state
  BY <1>1
<1>8. over' = (guard = "stop" /\ rescuer = Guard)
  BY <1>1
<1>9. \A u \in Threads : covered[u] => ended[u] # "open"
  BY <1>2, <1>3, <1>5, <1>6, <1>7, <1>8 DEF Covering, Present, Settling
<1>10. Types'
  BY <1>2, <1>3, <1>4, <1>5, <1>6, <1>7 DEF Types, Steps
<1>11. \A u \in Threads : Caught(u)' => Caught(u)
  BY <1>2, <1>3, <1>4, <1>5, <1>6, <1>7, <1>8, <1>9 DEF Caught
<1>12. \A u \in Threads : Lost(u) => Lost(u)'
  BY <1>3 DEF Lost
<1>13. Single'
  BY <1>2, <1>3, <1>4, <1>5, <1>11 DEF Single, Shows, Runs
<1>14. Halted'
  BY <1>2, <1>3, <1>4, <1>5, <1>6, <1>9, <1>12, Apart DEF Halted, Runs, Victim
<1>15. Deciding'
  BY <1>2, <1>3, <1>4, <1>5, <1>12, BoxFields DEF Deciding, Away, Runs, Victim
<1>16. Phase'
  BY <1>2, <1>3, <1>4, <1>5, <1>6, <1>7, <1>8 DEF Phase
<1>17. \A u \in Threads : Present(u) => Present(u)'
  BY <1>2, <1>3, <1>4, <1>5, <1>6, <1>7, <1>8, <1>9 DEF Present, Settling, Shows
<1>18. Covering'
  BY <1>2, <1>3, <1>4, <1>5, <1>7, <1>9, <1>17 DEF Covering, Shows
<1>19. Asking'
  BY <1>2, <1>3, <1>5, <1>12, BoxFields DEF Asking, Runs, Victim
<1>20. Heap' /\ Taken' /\ Owned' /\ Setting'
  BY <1>2, <1>3 DEF Heap, Known, Taken, Owned, Leaving, Setting, Runs
<1> QED
  BY <1>10, <1>13, <1>14, <1>15, <1>16, <1>18, <1>19, <1>20 DEF IInv

LEMMA OnlyExitsInv ==
  ASSUME IInv, NEW t \in Threads, Runs(t), mode' = [mode EXCEPT ![t] = "exits"],
         UNCHANGED <<state, tid, threadVars, slotVars, crashVars, guardVars, rescueVars, pending,
                     freed, over>> PROVE IInv'
<1>1. /\ mode[t] = "runs"
      /\ mode' = [mode EXCEPT ![t] = "exits"]
      /\ UNCHANGED <<state, tid, watched, owner, states, parked, busy, poisoned, request, covered,
                     pending, pc, at, seen, count, freed, guard, rescuer, stopped, step, slot,
                     claimed, target, waiting, ended, over>>
  BY DEF Runs
<1>2. Types /\ Heap /\ Taken /\ Owned /\ Setting /\ Single /\ Halted
      /\ Deciding /\ Phase /\ Covering /\ Asking
  BY DEF IInv
<1>3. /\ mode[t] = "runs"
      /\ \A u \in Threads : at[u] \in Slots
      /\ freed \subseteq Boxes
      /\ UNCHANGED <<state, tid, watched, owner, states, parked, busy, poisoned, request, covered,
                     pending, pc, at, seen, count, freed, guard, rescuer, stopped, step, slot,
                     claimed, target, waiting, ended, over>>
  BY <1>1, <1>2 DEF Types
<1>4. mode'[t] = "exits" /\ (\A u \in Threads : u # t => mode'[u] = mode[u])
      /\ \A u \in Threads \cup Workers : u # t => mode'[u] = mode[u]
  BY <1>1, <1>2 DEF Types
<1>5. step = "signal" => claimed[slot].writer \in Threads
  BY <1>2, BoxFields DEF Deciding
<1>6. mode' \in [Threads \cup Workers -> Modes]
  BY <1>1, <1>2 DEF Types, Modes
<1>7. \A i \in Slots : owner[i] # None => owner[i] \in Threads
  BY <1>2 DEF Types
<1>8. Types'
  BY <1>2, <1>3, <1>6 DEF Types
<1>9. \A u \in Threads : Caught(u)' => Caught(u)
  BY DEF Caught
<1>10. \A u \in Threads : Lost(u) => Lost(u)'
  BY DEF Lost
<1>11. Setting'
  BY <1>2, <1>3, <1>4, <1>5, <1>6, <1>7 DEF Setting, Leaving, Runs
<1>12. Single'
  BY <1>2, <1>3, <1>4, <1>5, <1>6, <1>7, <1>9 DEF Single, Shows, Runs
<1>13. Halted'
  BY <1>2, <1>3, <1>4, <1>5, <1>6, <1>7, <1>10 DEF Halted, Runs, Victim
<1>14. Deciding'
  BY <1>2, <1>3, <1>4, <1>5, <1>6, <1>7, <1>10, BoxFields DEF Deciding, Away, Runs, Victim
<1>15. Phase'
  BY <1>2, <1>3 DEF Phase
<1>16. Asking'
  BY <1>2, <1>3, <1>4, <1>5, <1>10, BoxFields DEF Asking, Runs, Victim
<1>17. Heap' /\ Taken' /\ Owned' /\ Covering'
  BY <1>2 DEF Heap, Known, Taken, Owned, Leaving, Covering, Present, Settling, Shows
<1> QED
  BY <1>8, <1>11, <1>12, <1>13, <1>14, <1>15, <1>16, <1>17 DEF IInv

LEMMA GuardMovesInv ==
  ASSUME IInv, guard \in {"loop", "poll", "look", "stops"}, over => over',
         guard' \in {"loop", "poll", "look", "stops", "stop"}, guard' = "stop" => over',
         UNCHANGED <<callers, state, tid, rescueVars>> PROVE IInv'
<1>1. /\ guard \in {"loop", "poll", "look", "stops"}
      /\ over => over'
      /\ guard' \in {"loop", "poll", "look", "stops", "stop"} /\ (guard' = "stop" => over')
      /\ UNCHANGED <<state, tid, watched, owner, states, parked, busy, poisoned, request, covered,
                     pending, pc, mode, at, seen, count, freed, rescuer, stopped, step, slot,
                     claimed, target, waiting, ended>>
  BY DEF callers
<1>2. Types /\ Heap /\ Taken /\ Owned /\ Setting /\ Single /\ Halted
      /\ Deciding /\ Phase /\ Covering /\ Asking
  BY DEF IInv
<1>3. /\ guard \in {"loop", "poll", "look", "stops"}
      /\ over => over'
      /\ \A u \in Threads : at[u] \in Slots
      /\ freed \subseteq Boxes
      /\ UNCHANGED <<state, tid, watched, owner, states, parked, busy, poisoned, request, covered,
                     pending, pc, mode, at, seen, count, freed, rescuer, stopped, step, slot,
                     claimed, target, waiting, ended>>
  BY <1>1, <1>2 DEF Types
<1>4. guard' \in {"loop", "poll", "look", "stops", "stop"} /\ (guard' = "stop" => over')
  OBVIOUS
<1>5. Types'
  BY <1>2, <1>3 DEF Types, Steps
<1>6. \A u \in Threads : Lost(u) => Lost(u)'
  BY <1>2, <1>3, <1>4 DEF Lost
<1>7. Halted'
  BY <1>2, <1>3, <1>4, <1>6 DEF Halted, Runs, Victim
<1>8. Deciding'
  BY <1>2, <1>3, <1>4, <1>6, BoxFields DEF Deciding, Away, Runs, Victim
<1>9. Phase'
  BY <1>2, <1>3 DEF Phase
<1>10. Asking'
  BY <1>2, <1>3, <1>4, <1>6, BoxFields DEF Asking, Runs, Victim
<1>11. Heap' /\ Taken' /\ Owned' /\ Setting' /\ Single' /\ Covering'
  BY <1>2 DEF Heap, Known, Taken, Owned, Leaving, Setting, Runs, Single, Shows, Caught, Covering,
    Present, Settling
<1> QED
  BY <1>5, <1>7, <1>8, <1>9, <1>10, <1>11 DEF IInv

LEMMA LeavesWorkerInv ==
  ASSUME IInv, LookForCrash, state = "rescuing", tid \in Workers PROVE IInv'
<1>1. /\ guard = "look" /\ state = "rescuing" /\ tid \in Workers
      /\ guard' = "crash"
      /\ state' = "done"
      /\ UNCHANGED <<tid, watched, owner, states, parked, busy, poisoned, request, covered,
                     pending, pc, mode, at, seen, count, freed, rescuer, stopped, step, slot,
                     claimed, target, waiting, ended, over>>
  BY Apart DEF LookForCrash
<1>2. Types /\ Heap /\ Taken /\ Owned /\ Setting /\ Single /\ Halted
      /\ Deciding /\ Phase /\ Covering /\ Asking
  BY DEF IInv
<1>3. /\ guard = "look" /\ state = "rescuing" /\ tid \in Workers
      /\ \A u \in Threads : at[u] \in Slots
      /\ freed \subseteq Boxes
      /\ UNCHANGED <<tid, watched, owner, states, parked, busy, poisoned, request, covered,
                     pending, pc, mode, at, seen, count, freed, rescuer, stopped, step, slot,
                     claimed, target, waiting, ended, over>>
  BY <1>1, <1>2 DEF Types
<1>4. tid # None /\ tid \notin Threads
  BY <1>2, <1>3, GuardAssumption
<1>5. guard' = "crash"
  BY <1>1
<1>6. state' = "done"
  BY <1>1
<1>7. Types'
  BY <1>2, <1>3, <1>5, <1>6 DEF Types, Steps
<1>8. \A u \in Threads : Lost(u) => Lost(u)'
  BY <1>2, <1>3, <1>4, <1>5, <1>6 DEF Lost
<1>9. Halted'
  BY <1>2, <1>3, <1>5, <1>8 DEF Halted, Runs, Victim
<1>10. Deciding'
  BY <1>2, <1>3, <1>5, <1>8, BoxFields DEF Deciding, Away, Runs, Victim
<1>11. Phase'
  BY <1>2, <1>3, <1>4, <1>5, <1>6 DEF Phase
<1>12. \A u \in Threads : Present(u) => Present(u)'
  BY <1>3 DEF Present, Settling, Shows
<1>13. Covering'
  BY <1>2, <1>3, <1>4, <1>6, <1>12 DEF Covering, Shows
<1>14. Asking'
  BY <1>2, <1>3, <1>5, <1>8, BoxFields DEF Asking, Runs, Victim
<1>15. Heap' /\ Taken' /\ Owned' /\ Setting' /\ Single'
  BY <1>2, <1>3 DEF Heap, Known, Taken, Owned, Leaving, Setting, Runs, Single, Shows, Caught
<1> QED
  BY <1>7, <1>9, <1>10, <1>11, <1>13, <1>14, <1>15 DEF IInv

LEMMA StartInv ==
  ASSUME IInv, NEW by \in {Guard} \cup Threads, NEW who \in {None} \cup Threads, Start(by, who),
         state' = "rescuing", step = "none", who # None => mode'[who] # "runs", guard # "stop",
         by = Guard => guard' \in {"crash", "stop"}, guard' = "crash" => tid # None,
         who = None => guard' = "stop", by # Guard => guard' # "stop",
         guard' \in {"loop", "poll", "look", "stops", "crash", "stop"},
         by # Guard => tid = None /\ mode'[by] # "runs",
         mode' \in [Threads \cup Workers -> Modes],
         \A u \in Threads : mode'[u] = "runs" => mode[u] = "runs",
         \A u \in Threads \cup Workers : mode'[u] # "crashed",
         UNCHANGED <<tid, slotVars, crashVars, threadVars, pending, freed, over>> PROVE IInv'
<1>1. /\ step = "none" /\ by \in {Guard} \cup Threads /\ who \in {None} \cup Threads
      /\ guard # "stop"
      /\ state' = "rescuing"
      /\ rescuer' = by
      /\ stopped' = who
      /\ step' = "claim"
      /\ slot' = 1
      /\ claimed' = [i \in Slots |-> NoBox]
      /\ waiting' = {}
      /\ guard' \in {"loop", "poll", "look", "stops", "crash", "stop"}
      /\ (by = Guard => guard' \in {"crash", "stop"})
      /\ (guard' = "crash" => tid # None) /\ (by # Guard => tid = None)
      /\ (who = None => guard' = "stop") /\ (by # Guard => guard' # "stop")
      /\ (who # None => mode'[who] # "runs") /\ (by # Guard => mode'[by] # "runs")
      /\ mode' \in [Threads \cup Workers -> Modes]
      /\ (\A u \in Threads : mode'[u] = "runs" => mode[u] = "runs")
      /\ \A u \in Threads \cup Workers : mode'[u] # "crashed"
      /\ UNCHANGED <<tid, watched, owner, states, parked, busy, poisoned, request, covered,
                     pending, pc, at, seen, count, freed, target, ended, over>>
  BY DEF Start
<1>2. Types /\ Heap /\ Taken /\ Owned /\ Setting /\ Single /\ Halted
      /\ Deciding /\ Phase /\ Covering /\ Asking
  BY DEF IInv
<1>3. /\ step = "none" /\ by \in {Guard} \cup Threads /\ who \in {None} \cup Threads
      /\ guard # "stop"
      /\ \A u \in Threads : at[u] \in Slots
      /\ freed \subseteq Boxes
      /\ UNCHANGED <<tid, watched, owner, states, parked, busy, poisoned, request, covered,
                     pending, pc, at, seen, count, freed, target, ended, over>>
  BY <1>1, <1>2 DEF Types
<1>4. state' = "rescuing"
  OBVIOUS
<1>5. rescuer' = by
  BY <1>1
<1>6. stopped' = who
  BY <1>1
<1>7. step' = "claim"
  BY <1>1
<1>8. slot' = 1
  BY <1>1
<1>9. claimed' \in [Slots -> {NoBox} \cup Boxes] /\ \A i \in Slots : claimed'[i] = NoBox
  BY <1>1 DEF Types
<1>10. waiting' = {}
  BY <1>1
<1>11. /\ guard' \in {"loop", "poll", "look", "stops", "crash", "stop"}
       /\ (by = Guard => guard' \in {"crash", "stop"})
      /\ (guard' = "crash" => tid # None) /\ (by # Guard => tid = None)
      /\ (who = None => guard' = "stop") /\ (by # Guard => guard' # "stop")
  OBVIOUS
<1>12. (who # None => mode'[who] # "runs") /\ (by # Guard => mode'[by] # "runs")
      /\ mode' \in [Threads \cup Workers -> Modes]
      /\ (\A u \in Threads : mode'[u] = "runs" => mode[u] = "runs")
      /\ \A u \in Threads \cup Workers : mode'[u] # "crashed"
  OBVIOUS
<1>13. \A i \in Slots : owner[i] # None => owner[i] \in Threads
  BY <1>2 DEF Types
<1>14. 1 \in Slots /\ \A i \in Slots : i >= 1
  BY Apart DEF Slots
<1>15. \A i \in Slots :
        /\ watched[i] \in Boxes => watched[i].writer \in Threads
        /\ claimed[i] \in Boxes => claimed[i].writer \in Threads
  BY BoxFields
<1>16. Types'
  BY <1>2, <1>3, <1>4, <1>5, <1>6, <1>7, <1>8, <1>9, <1>10, <1>11, <1>12, <1>13, <1>14 DEF Types,
    Steps
<1>17. \A b \in Boxes : Known(b) => Known(b)'
  BY <1>2, <1>3, <1>4, <1>5, <1>6, <1>7, <1>8, <1>9, <1>10, <1>11, <1>12, <1>13, <1>14, <1>15,
    Apart DEF Known
<1>18. \A u \in Threads : Caught(u)' => Caught(u)
  BY <1>2, <1>3, <1>4, <1>5, <1>6, <1>7, <1>8, <1>9, <1>10, <1>11, <1>12, <1>13, <1>14, <1>15,
    Apart DEF Caught
<1>19. \A u \in Threads : Lost(u) => Lost(u)'
  BY <1>2, <1>3, <1>4, <1>5, <1>6, <1>7, <1>8, <1>9, <1>10, <1>11, <1>12, <1>13, <1>14, <1>15 DEF
    Lost
<1>20. Heap'
  BY <1>2, <1>3, <1>9, <1>13, <1>14, <1>15, <1>17, Apart DEF Heap
<1>21. Taken'
  BY <1>2, <1>3, <1>9, <1>13, <1>14, <1>15, <1>17, Apart DEF Taken
<1>22. Owned'
  BY <1>2, <1>3, <1>9, <1>13, <1>14, <1>15, Apart DEF Owned, Leaving
<1>23. Setting'
  BY <1>2, <1>3, <1>9, <1>12, <1>13, <1>14, <1>15 DEF Setting, Leaving, Runs
<1>24. Single'
  BY <1>2, <1>3, <1>7, <1>9, <1>12, <1>13, <1>14, <1>18 DEF Single, Shows, Runs
<1>25. Halted'
  BY <1>2, <1>3, <1>5, <1>6, <1>7, <1>8, <1>9, <1>11, <1>12, <1>13, <1>14, <1>15, <1>19, Apart DEF
    Halted, Runs, Victim
<1>26. Deciding'
  BY <1>2, <1>3, <1>7, <1>8, <1>9, <1>11, <1>12, <1>13, <1>14, <1>15, <1>19, BoxFields DEF
    Deciding, Away, Runs, Victim
<1>27. Phase'
  BY <1>2, <1>3, <1>4, <1>5, <1>6, <1>7, <1>8, <1>11, <1>12, Apart DEF Phase
<1>28. \A u \in Threads : Present(u) => Present(u)'
  BY <1>2, <1>3 DEF Present, Settling, Shows
<1>29. Covering'
  BY <1>2, <1>3, <1>4, <1>7, <1>8, <1>9, <1>13, <1>14, <1>15, <1>28 DEF Covering, Shows
<1>30. Asking'
  BY <1>2, <1>3, <1>7, <1>8, <1>9, <1>10, <1>11, <1>12, <1>19, BoxFields DEF Asking
<1> QED
  BY <1>16, <1>20, <1>21, <1>22, <1>23, <1>24, <1>25, <1>26, <1>27, <1>29, <1>30 DEF IInv

LEMMA PassesInv ==
  ASSUME IInv, ~over, NEW t \in Threads, NEW k \in Slots, owner[k] = t, states[k] # None,
         busy[states[k]], ~poisoned[states[k]], pending' = [pending EXCEPT ![t] = FALSE],
         UNCHANGED <<state, tid, slotVars, crashVars, threadVars, mode, freed, guardVars, rescueVars,
                     over>> PROVE IInv'
<1>1. /\ pending' = [pending EXCEPT ![t] = FALSE]
      /\ ~over
      /\ pending' = [pending EXCEPT ![t] = FALSE]
      /\ UNCHANGED <<state, tid, watched, owner, states, parked, busy, poisoned, request, covered,
                     pc, mode, at, seen, count, freed, guard, rescuer, stopped, step, slot,
                     claimed, target, waiting, ended, over>>
  BY DEF callers
<1>2. Types /\ Heap /\ Taken /\ Owned /\ Setting /\ Single /\ Halted
      /\ Deciding /\ Phase /\ Covering /\ Asking
  BY DEF IInv
<1>3. /\ pending' = [pending EXCEPT ![t] = FALSE]
      /\ ~over
      /\ \A u \in Threads : at[u] \in Slots
      /\ freed \subseteq Boxes
      /\ UNCHANGED <<state, tid, watched, owner, states, parked, busy, poisoned, request, covered,
                     pc, mode, at, seen, count, freed, guard, rescuer, stopped, step, slot,
                     claimed, target, waiting, ended, over>>
  BY <1>1, <1>2 DEF Types
<1>4. pending' \in [Threads -> BOOLEAN] /\ \A u \in Threads : u # t => pending'[u] = pending[u]
  BY <1>1, <1>2 DEF Types
<1>5. states[k] \in Threads /\ (states[k] = t \/ pc[states[k]] = "forget")
  BY <1>2, Apart DEF Types, Owned, Leaving
<1>6. \A u \in Threads : Lost(u) => Caught(u)
  BY <1>2 DEF Lost, Caught, Phase
<1>7. step = "closing" => Caught(Victim)
  BY <1>2 DEF Deciding, Caught, Victim, Types
<1>8. \A u \in Threads : pc[u] = "forget" /\ busy[u] => poisoned[u]
  BY <1>2, <1>6, <1>7 DEF Halted, Single
<1>9. /\ states[k] = t
      /\ poisoned[t] = FALSE
      /\ (Runs(t) => pc[t] \in {"capture", "publish"} \/ Lost(t))
  BY <1>2, <1>5, <1>8 DEF Halted, Types
<1>10. Types'
  BY <1>2, <1>3 DEF Types
<1>11. \A u \in Threads : Lost(u) => Lost(u)'
  BY DEF Lost
<1>12. Asking'
  BY <1>2, <1>3, <1>4, <1>9, <1>11, BoxFields DEF Asking, Runs, Victim
<1>13. /\ Heap'
       /\ Taken'
       /\ Owned'
       /\ Setting'
       /\ Single'
       /\ Halted'
       /\ Deciding'
       /\ Phase'
       /\ Covering'
  BY <1>2 DEF Heap, Known, Taken, Owned, Leaving, Setting, Runs, Single, Shows, Caught, Halted,
    Victim, Lost, Deciding, Away, Phase, Covering, Present, Settling
<1> QED
  BY <1>10, <1>12, <1>13 DEF IInv

-----------------------------------------------------------------------------
(* The invariant holds in every reachable state. *)

LEMMA StaysInv ==
  ASSUME IInv, over => over', UNCHANGED <<callers, state, tid, guard, rescueVars>>
  PROVE  IInv'
<1>1. UNCHANGED <<state, tid, watched, owner, states, parked, busy, poisoned, request, covered,
                  pending, pc, mode, at, seen, count, freed, guard, rescuer, stopped, step, slot,
                  claimed, target, waiting, ended>>
  OBVIOUS
<1>2. Types /\ Heap /\ Taken /\ Owned /\ Setting /\ Single /\ Halted
      /\ Deciding /\ Phase /\ Covering /\ Asking
  BY DEF IInv
<1>3. Types' /\ Phase'
  BY <1>1, <1>2 DEF Types, Phase
<1>4. Heap' /\ Taken'
  BY <1>1, <1>2 DEF Heap, Taken, Known
<1>5. Owned' /\ Setting'
  BY <1>1, <1>2 DEF Owned, Setting, Leaving, Runs
<1>6. Single'
  BY <1>1, <1>2 DEF Single, Shows, Caught, Runs
<1>7. Halted' /\ Deciding' /\ Asking'
  BY <1>1, <1>2 DEF Halted, Deciding, Asking, Away, Runs, Victim, Lost
<1>8. Covering'
  BY <1>1, <1>2 DEF Covering, Present, Settling, Shows
<1> QED
  BY <1>3, <1>4, <1>5, <1>6, <1>7, <1>8 DEF IInv

LEMMA ReserveInv ==
  ASSUME IInv, NEW t \in Threads, Reserve(t) PROVE IInv'
<1>1. seen \in [Threads -> {NoBox} \cup Boxes]
  BY DEF IInv, Types
<1>2. CASE watched[at[t]] = NoBox
  BY <1>2, ReserveSlotInv DEF Reserve
<1>3. CASE watched[at[t]] # NoBox
  <2>1. /\ pc[t] = "reserve" /\ NextSlot(t, "reserve")
        /\ UNCHANGED <<outside, crashVars, slotVars, seen, count, covered, mode, freed>>
    BY <1>3 DEF Reserve
  <2>2. Runs(t)
    BY <2>1 DEF NextSlot, Go
  <2> QED
    BY <1>1, <2>1, <2>2, StepsOnInv
<1> QED
  BY <1>2, <1>3

LEMMA LeaveParksInv ==
  ASSUME IInv, NEW t \in Threads, LeaveParks(t) PROVE IInv'
<1>1. CASE request[t]
  <2>1. at \in [Threads -> Slots] /\ at[t] = 1
    BY DEF IInv, Types, Single, LeaveParks, Go
  <2>2. at' = [at EXCEPT ![t] = 1]
    BY <2>1 DEF LeaveParks
  <2> QED
    BY <1>1, <2>2, ParksOutInv DEF LeaveParks, Go, Runs
<1> QED
  BY <1>1, LeaveGoesInv

LEMMA RecheckInv ==
  ASSUME IInv, NEW t \in Threads, Recheck(t) PROVE IInv'
<1>1. CASE state # "idle"
  BY <1>1, ParksOutInv DEF Recheck, Go, Runs
<1> QED
  BY <1>1, RecheckCoversInv

LEMMA ScanInv ==
  ASSUME IInv, NEW t \in Threads, Scan(t) PROVE IInv'
<1>1. pending \in [Threads -> BOOLEAN] /\ seen \in [Threads -> {NoBox} \cup Boxes]
  BY DEF IInv, Types
<1>2. CASE watched[at[t]] = Reserved /\ owner[at[t]] = t /\ state # "idle"
  BY <1>1, <1>2, ParksHereInv DEF Scan, Runs
<1>3. CASE /\ ~(watched[at[t]] = Reserved /\ owner[at[t]] = t /\ state # "idle")
           /\ watched[at[t]] \in {NoBox, Reserved}
  <2>1. \A i \in Slots : pc[t] # "reserve" /\ Shows(t, i) => i # at[t]
    BY <1>3, Apart DEF Shows
  <2>2. /\ Runs(t) /\ pc[t] = "scan" /\ NextSlot(t, "scan")
        /\ UNCHANGED <<outside, crashVars, slotVars, seen, count, covered, mode, freed>>
    BY <1>3 DEF Scan
  <2> QED
    BY <1>1, <2>1, <2>2, StepsOnInv
<1> QED
  BY <1>2, <1>3, ScanComparesInv

LEMMA CompareAndTakeInv ==
  ASSUME IInv, NEW t \in Threads, CompareAndTake(t) PROVE IInv'
<1>1. /\ pending \in [Threads -> BOOLEAN] /\ seen \in [Threads -> {NoBox} \cup Boxes]
      /\ Taken /\ Heap /\ Single /\ at[t] \in Slots
  BY DEF IInv, Types
<1>2. pc[t] = "compare" /\ Runs(t)
  BY DEF CompareAndTake
<1>3. watched[at[t]] = seen[t] => seen[t] \in Boxes /\ seen[t] \notin freed
  BY <1>1, <1>2 DEF Taken, Heap
<1>4. PICK mine \in IsMine(t, seen[t]) :
        IF mine /\ watched[at[t]] = seen[t]
        THEN /\ Go(t, "compare", "forget")
             /\ watched' = [watched EXCEPT ![at[t]] = NoBox]
             /\ UNCHANGED <<at, seen, mode, parked>>
        ELSE /\ UNCHANGED watched
             /\ IF mine /\ state # "idle"
                THEN ParkHere(t) /\ UNCHANGED <<pc, at, seen>>
                ELSE NextSlot(t, "scan") /\ PutDown(t) /\ UNCHANGED <<mode, parked>>
  BY Zenon DEF CompareAndTake
<1>5. watched[at[t]] = seen[t] => (mine <=> seen[t].writer = t)
  BY <1>3 DEF IsMine
<1>6. UNCHANGED <<outside, crashVars, owner, states, count, covered, freed>>
  BY DEF CompareAndTake
<1>7. CASE mine /\ watched[at[t]] = seen[t]
  BY <1>4, <1>5, <1>6, <1>7, TakesInv
<1>8. CASE ~(mine /\ watched[at[t]] = seen[t]) /\ mine /\ state # "idle"
  BY <1>1, <1>2, <1>4, <1>6, <1>8, ParksHereInv DEF Runs
<1>9. CASE ~(mine /\ watched[at[t]] = seen[t]) /\ ~(mine /\ state # "idle")
  <2>1. NextSlot(t, "scan") /\ PutDown(t) /\ UNCHANGED <<watched, mode, parked>>
    BY <1>4, <1>9
  <2>2. \A i \in Slots : pc[t] # "reserve" /\ Shows(t, i) => i # at[t]
    BY <1>1, <1>2, <1>5, <1>9 DEF Single, Shows
  <2>3. seen' \in [Threads -> {NoBox} \cup Boxes] /\ \A u \in Threads : u # t => seen'[u] = seen[u]
    BY <1>1, <2>1 DEF PutDown
  <2> QED
    BY <1>2, <1>6, <2>1, <2>2, <2>3, StepsOnInv
<1> QED
  BY <1>7, <1>8, <1>9

LEMMA OnParkInv ==
  ASSUME IInv, ~over, NEW t \in Threads, OnPark(t) PROVE IInv'
<1>1. pending \in [Threads -> BOOLEAN]
  BY DEF IInv, Types
<1>2. CASE \E i \in Slots : /\ owner[i] = t /\ states[i] # None
                            /\ busy[states[i]] /\ ~poisoned[states[i]]
  <2>1. PICK k \in Slots : /\ owner[k] = t /\ states[k] # None
                           /\ busy[states[k]] /\ ~poisoned[states[k]]
    BY <1>2
  <2>2. /\ pending' = [pending EXCEPT ![t] = FALSE]
        /\ UNCHANGED <<state, tid, slotVars, crashVars, threadVars, mode, freed, guardVars,
                       rescueVars, over>>
    BY <1>2 DEF OnPark
  <2> QED
    BY <2>1, <2>2, PassesInv
<1>3. CASE ~\E i \in Slots : /\ owner[i] = t /\ states[i] # None
                             /\ busy[states[i]] /\ ~poisoned[states[i]]
  <2>1. /\ mode[t] \in {"runs", "exits"} /\ ParkHere(t)
        /\ pending' = [pending EXCEPT ![t] = FALSE]
        /\ UNCHANGED <<state, tid, guardVars, rescueVars, crashVars, watched, owner, states,
                       threadVars, freed, over>>
    BY <1>3 DEF OnPark
  <2>2. pending' \in [Threads -> BOOLEAN] /\ \A u \in Threads : u # t => pending'[u] = pending[u]
    BY <1>1, <2>1
  <2> QED
    BY <2>1, <2>2, ParksHereInv
<1> QED
  BY <1>2, <1>3

LEMMA OnFatalInv ==
  ASSUME IInv, NEW t \in Threads \cup Workers, OnFatal(t) PROVE IInv'
BY FatalFirstInv, FatalLaterInv

LEMMA FinishAllInv ==
  ASSUME IInv, ~over, FinishAll PROVE IInv'
<1>1. watched \in [Slots -> {NoBox, Reserved} \cup Boxes] /\ slot \in Slots
  BY DEF IInv, Types
<1>2. CASE Claim
  BY <1>1, <1>2, ClaimSkipsInv, ClaimTakesInv
<1>3. CASE Ask
  BY <1>3, AskSkipsInv, AskAsksInv
<1>4. CASE Signal
  BY <1>4, SignalInv
<1>5. CASE EndWait
  BY <1>5, EndWaitInv
<1>6. CASE Decide
  BY <1>6, DecideSkipsInv, DecideClosesInv, DecideSealsInv
<1>7. CASE Close
  BY <1>7, CloseInv
<1>8. CASE EndClose
  BY <1>8, ParksRescueInv, ClosesInv
<1>9. CASE Seal
  BY <1>9, SealInv
<1>10. CASE EndFinish
  BY <1>10, EndFinishInv
<1> QED
  BY <1>2, <1>3, <1>4, <1>5, <1>6, <1>7, <1>8, <1>9, <1>10 DEF FinishAll

LEMMA RescueMainInv ==
  ASSUME IInv, ~over, RescueMain PROVE IInv'
<1>1. Phase /\ Types /\ Halted
  BY DEF IInv
<1>2. CASE Sleep
  BY <1>2, GuardMovesInv DEF Sleep
<1>3. CASE Wake
  BY <1>3, GuardMovesInv DEF Wake
<1>4. CASE LookForCrash
  <2>1. CASE state = "rescuing" /\ tid # None /\ tid \in Workers
    BY <1>4, <2>1, LeavesWorkerInv
  <2>2. CASE state = "rescuing" /\ tid # None /\ tid \notin Workers
    <3>1. /\ guard = "look" /\ guard' = "crash" /\ Start(Guard, tid) /\ UNCHANGED state
          /\ UNCHANGED <<tid, callers, over>>
      BY <1>4, <2>2 DEF LookForCrash
    <3>2. tid \in Threads /\ mode[tid] # "runs" /\ step = "none"
      BY <1>1, <2>2, <3>1 DEF Phase, Types, Halted, Runs
    <3>3. /\ mode \in [Threads \cup Workers -> Modes]
          /\ \A u \in Threads \cup Workers : mode[u] # "crashed"
      BY <1>1, <2>2 DEF Types, Phase
    <3> QED
      BY <2>2, <3>1, <3>2, <3>3, StartInv
  <2>3. CASE ~(state = "rescuing" /\ tid # None)
    BY <1>4, <2>3, GuardMovesInv DEF LookForCrash
  <2> QED
    BY <2>1, <2>2, <2>3
<1>5. CASE LookForStop
  <2>1. CASE StopDue /\ state = "idle"
    <3>1. /\ guard = "stops" /\ guard' = "stop" /\ state' = "rescuing" /\ Start(Guard, None)
          /\ UNCHANGED <<tid, callers, over>>
      BY <1>5, <2>1 DEF LookForStop
    <3>2. step = "none"
      BY <1>1, <2>1 DEF Phase
    <3>3. /\ mode \in [Threads \cup Workers -> Modes]
          /\ \A u \in Threads \cup Workers : mode[u] # "crashed"
      BY <1>1, <2>1 DEF Types, Phase
    <3> QED
      BY <2>1, <3>1, <3>2, <3>3, StartInv
  <2>2. CASE ~(StopDue /\ state = "idle")
    BY <1>5, <2>2, GuardMovesInv DEF LookForStop
  <2> QED
    BY <2>1, <2>2
<1> QED
  BY <1>2, <1>3, <1>4, <1>5 DEF RescueMain

LEMMA ExitInv ==
  ASSUME IInv, ~over, NEW t \in Threads, Exit(t) PROVE IInv'
<1>1. Phase /\ Types
  BY DEF IInv
<1>2. /\ Runs(t) /\ mode' = [mode EXCEPT ![t] = "exits"]
      /\ UNCHANGED <<tid, threadVars, slotVars, crashVars, guardVars, pending, freed, over>>
  BY DEF Exit
<1>3. CASE AnyWatched /\ state = "idle"
  <2>1. state' = "rescuing" /\ Start(t, t)
    BY <1>3 DEF Exit
  <2>2. step = "none" /\ tid = None /\ guard \notin {"crash", "stop"}
    BY <1>1, <1>3 DEF Phase
  <2>3. /\ \A u \in Threads \cup Workers : mode[u] # "crashed"
        /\ guard \in {"loop", "poll", "look", "stops", "crash", "stop"}
    BY <1>1, <1>3 DEF Phase, Types
  <2>4. mode' \in [Threads \cup Workers -> Modes] /\ mode'[t] = "exits"
    BY <1>1, <1>2 DEF Types, Modes
  <2>5. /\ \A u \in Threads \cup Workers : mode'[u] # "crashed"
        /\ \A u \in Threads : mode'[u] = "runs" => mode[u] = "runs"
    BY <1>1, <1>2, <2>3 DEF Types
  <2> QED
    BY <1>2, <2>1, <2>2, <2>3, <2>4, <2>5, Apart, StartInv
<1>4. CASE ~(AnyWatched /\ state = "idle")
  BY <1>2, <1>4, OnlyExitsInv DEF Exit
<1> QED
  BY <1>3, <1>4

LEMMA ThreadInv ==
  ASSUME IInv, ~over, NEW t \in Threads,
         \/ BeginCapture(t) \/ Unwind(t) \/ Watch(t) \/ Unwatch(t) \/ Exit(t)
         \/ Proceed(t) \/ OnPark(t) \/ EndExit(t)
  PROVE  IInv'
<1>1. CASE BeginCapture(t) \/ Unwind(t) \/ Watch(t) \/ Unwatch(t) \/ Exit(t) \/ OnPark(t)
  BY <1>1, BeginCaptureInv, UnwindInv, WatchInv, UnwatchInv, ExitInv, OnParkInv
<1>2. CASE EndExit(t)
  BY <1>2, StaysInv DEF EndExit
<1>3. CASE InChannel(t) \/ Leave(t) \/ LeaveParks(t)
  BY <1>3, InChannelInv, LeaveInv, LeaveParksInv
<1>4. CASE \/ CheckState(t) \/ Reserve(t) \/ StoreOwner(t) \/ StoreState(t) \/ StoreWatched(t)
           \/ Recheck(t)
  BY <1>4, CheckStateInv, ReserveInv, StoreOwnerInv, StoreStateInv, StoreWatchedInv, RecheckInv
<1>5. CASE Scan(t) \/ CompareAndTake(t) \/ ForgetState(t) \/ ForgetOwner(t) \/ FreeBox(t)
  BY <1>5, ScanInv, CompareAndTakeInv, ForgetStateInv, ForgetOwnerInv, FreeBoxInv
<1> QED
  BY <1>1, <1>2, <1>3, <1>4, <1>5 DEF Proceed

LEMMA NextInv ==
  ASSUME IInv, [Next]_vars PROVE IInv'
<1>1. CASE UNCHANGED vars
  BY <1>1, StaysInv DEF vars
<1>2. ASSUME ~over, NEW t \in Threads,
             \/ BeginCapture(t) \/ Unwind(t) \/ Watch(t) \/ Unwatch(t) \/ Exit(t)
             \/ Proceed(t) \/ OnPark(t) \/ EndExit(t)
      PROVE  IInv'
  BY <1>2, ThreadInv
<1>3. ASSUME NEW t \in Threads \cup Workers, OnFatal(t) \/ Handlers(t) PROVE IInv'
  <2>1. CASE EndCrash(t)
    BY <2>1, StaysInv DEF EndCrash
  <2> QED
    BY <1>3, <2>1, OnFatalInv, AnnounceCrashInv DEF Handlers
<1>4. CASE OnStop \/ AnnounceStop \/ GracePasses
  BY <1>4, StaysInv DEF OnStop, AnnounceStop, GracePasses
<1>5. CASE ~over /\ RescueMain
  BY <1>5, RescueMainInv
<1>6. CASE ~over /\ FinishAll
  BY <1>6, FinishAllInv
<1> QED
  BY <1>1, <1>2, <1>3, <1>4, <1>5, <1>6 DEF Next

LEMMA InitInv == Init => IInv
<1> SUFFICES ASSUME Init PROVE IInv
  OBVIOUS
<1>1. /\ state = "idle" /\ tid = None /\ guard = "loop" /\ rescuer = None /\ stopped = None
      /\ step = "none" /\ slot = 1 /\ target = None /\ waiting = {} /\ freed = {}
      /\ \A i \in Slots : /\ watched[i] = NoBox /\ owner[i] = None /\ states[i] = None
                          /\ parked[i] = FALSE /\ claimed[i] = NoBox
      /\ \A t \in Threads : /\ busy[t] = FALSE /\ pc[t] = "out" /\ covered[t] = FALSE
                            /\ ended[t] = "open" /\ at[t] = 1
      /\ \A t \in Threads \cup Workers : mode[t] = "runs"
  BY DEF Init
<1>2. Types
  <2>1. 0 \in 0 .. MaxWatches
    BY Apart
  <2> QED
    BY <2>1, Apart, Labelled DEF Init, Types, Modes, Steps
<1>3. Heap /\ Taken /\ Owned /\ Setting /\ Single
  BY <1>1, <1>2, Labelled, Apart DEF Heap, Taken, Owned, Setting, Single, Shows, Types
<1>4. Halted /\ Deciding /\ Phase
  BY <1>1, Apart DEF Halted, Deciding, Phase
<1>5. Covering /\ Asking
  BY <1>1 DEF Covering, Asking
<1> QED
  BY <1>2, <1>3, <1>4, <1>5 DEF IInv

\* Only BeginCapture takes a thread from its own code into a capture.
LEMMA OnlyBegins ==
  ASSUME Types, [Next]_vars, NEW t \in Threads, pc[t] = "out", pc'[t] = "capture"
  PROVE  BeginCapture(t)
<1>1. pc \in [Threads -> Labels] /\ pc'[t] # pc[t]
  BY DEF Types
<1> HIDE DEF Types
<1>2. ASSUME NEW u \in Threads, NEW from, NEW to, Go(u, from, to), to # "capture" \/ from # "out"
      PROVE  FALSE
  BY <1>1, <1>2 DEF Go
<1>3. ASSUME NEW u \in Threads, NEW loop, NextSlot(u, loop), pc[u] # "out", loop # "capture"
      PROVE  FALSE
  BY <1>1, <1>3 DEF NextSlot, Go
<1>4. ASSUME NEW u \in Threads, BeginCapture(u) PROVE u = t
  BY <1>1, <1>4 DEF BeginCapture, Go
<1>5. ASSUME NEW u \in Threads, Unwind(u) \/ Watch(u) \/ Unwatch(u) \/ InChannel(u) \/ Leave(u)
                                \/ LeaveParks(u)
      PROVE  FALSE
  BY <1>2, <1>5 DEF Unwind, Watch, Unwatch, InChannel, Leave, LeaveParks
<1>6. ASSUME NEW u \in Threads, CheckState(u) \/ Reserve(u) \/ StoreOwner(u) \/ StoreState(u)
                                \/ StoreWatched(u) \/ Recheck(u)
      PROVE  FALSE
  BY <1>1, <1>2, <1>3, <1>6 DEF CheckState, Reserve, StoreOwner, StoreState, StoreWatched, Recheck
<1>7. ASSUME NEW u \in Threads, Scan(u) PROVE FALSE
  BY <1>1, <1>2, <1>3, <1>7 DEF Scan
<1>8. ASSUME NEW u \in Threads, CompareAndTake(u) PROVE FALSE
  BY <1>1, <1>2, <1>3, <1>8 DEF CompareAndTake
<1>9. ASSUME NEW u \in Threads, ForgetState(u) \/ ForgetOwner(u) \/ FreeBox(u) PROVE FALSE
  BY <1>2, <1>3, <1>9 DEF ForgetState, ForgetOwner, FreeBox
<1>10. ASSUME NEW u \in Threads \cup Workers, OnFatal(u) \/ Handlers(u) PROVE FALSE
  BY <1>1, <1>10 DEF OnFatal, Handlers, AnnounceCrash, EndCrash
<1>11. ASSUME NEW u \in Threads, Exit(u) \/ OnPark(u) \/ EndExit(u) PROVE FALSE
  BY <1>1, <1>11 DEF Exit, OnPark, EndExit
<1>12. ASSUME OnStop \/ AnnounceStop \/ GracePasses \/ RescueMain PROVE FALSE
  BY <1>1, <1>12 DEF OnStop, AnnounceStop, GracePasses, RescueMain, Sleep, Wake, LookForCrash,
    LookForStop
<1>13. ASSUME FinishAll PROVE FALSE
  BY <1>1, <1>13 DEF FinishAll, Claim, Ask, Signal, EndWait, Decide, Close, EndClose, Seal,
    EndFinish
<1>14. ~UNCHANGED vars
  BY DEF vars
<1> QED
  BY <1>4, <1>5, <1>6, <1>7, <1>8, <1>9, <1>10, <1>11, <1>12, <1>13, <1>14 DEF Next, Proceed

\* In every reachable state each variable has its type, every box is in one place, a slot belongs to
\* the thread whose box it holds or has lost its owner, a thread has one box that its scan finds, a
\* thread that the rescue counts as stopped does not run, a watched writer is ahead of the rescue or
\* has been seen by it, and a thread that was asked to stop has a request it will find.
THEOREM Inductive == Spec => []IInv
BY InitInv, NextInv, PTL DEF Spec

\* A writer that the rescue closes through its frontend is not in use by its owner, which is
\* stopped outside of any capture, unless a stop closes it and its slot has lost its owner
\* (rescue_slot in linux.rs).
THEOREM Exclusive == Spec => []ExclusiveUnlessDisowned
<1>1. ASSUME IInv, NEW t \in Threads, Closes(t)
      PROVE  Away(t) \/ (guard = "stop" /\ Disowned(t))
  <2>1. Away(t) \/ Lost(t)
    BY <1>1 DEF IInv, Deciding, Closes
  <2>2. Lost(t) => guard = "stop" /\ Disowned(t)
    BY <1>1, Apart DEF Lost, Disowned, Held, BoxIn
  <2> QED
    BY <2>1, <2>2
<1>2. IInv => ExclusiveUnlessDisowned
  BY <1>1 DEF ExclusiveUnlessDisowned
<1> QED
  BY <1>2, Inductive, PTL

\* A rescue looks into no box that was freed, and a thread takes and frees its own box once, before
\* it was freed and when no rescue has it (unwatch and claim in linux.rs).
THEOREM BoxesKept == Spec => []NoFreedBox
<1>1. IInv => NoFreedBox
  <2> SUFFICES ASSUME IInv PROVE NoFreedBox
    OBVIOUS
  <2>1. Types /\ Heap /\ Taken
    BY DEF IInv
  <2>2. \A i \in Slots : claimed[i] \notin freed /\ watched[i] \notin freed
    BY <2>1 DEF Types, Heap
  <2> QED
    BY <2>1, <2>2 DEF NoFreedBox, Taken
<1> QED
  BY <1>1, Inductive, PTL

\* After a crash was rescued no thread believes its writer to be watched while the rescue passed
\* it over (watch looks at the state again once its slot is published).
THEOREM NoneMissed == Spec => []NobodyMissed
<1>1. IInv => NobodyMissed
  BY DEF IInv, Covering, NobodyMissed
<1> QED
  BY <1>1, Inductive, PTL

\* A thread that a rescue asked to stop and signalled begins no further capture, unless a stop took
\* the request back because its slot lost its owner (on_park, and CrashState::leave, which clears
\* busy before it looks for the request).
THEOREM AskedStops == Spec => AskedThreadStops
<1>1. ASSUME IInv, [Next]_vars, NEW t \in Threads, Asked(t), ~pending[t], ~Released(t),
             pc[t] = "out"
      PROVE  pc'[t] # "capture"
  <2> SUFFICES ASSUME pc'[t] = "capture" PROVE FALSE
    OBVIOUS
  <2>1. Types /\ Asking
    BY <1>1 DEF IInv
  <2>2. BeginCapture(t)
    BY <1>1, <2>1, OnlyBegins
  <2>3. Runs(t) /\ ~poisoned[t]
    BY <2>2 DEF BeginCapture, Go
  <2>4. ~Lost(t)
    BY <1>1, Apart DEF Lost, Released, Disowned, Held, BoxIn
  <2> QED
    BY <1>1, <2>1, <2>3, <2>4 DEF Asking, Asked
<1>2. IInv /\ [Next]_vars => [\A t \in Threads : Asked(t) /\ ~pending[t] /\ ~Released(t) =>
                                ~(pc[t] = "out" /\ pc'[t] = "capture")]_vars
  BY <1>1
<1> QED
  BY <1>2, Inductive, PTL DEF Spec, AskedThreadStops

=============================================================================
