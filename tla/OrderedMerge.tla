---------------------------- MODULE OrderedMerge ----------------------------
(***************************************************************************)
(* What the threaded recorder promises, without rings, worker, commands or *)
(* spill files: the captures of several producers become one recording.    *)
(*                                                                         *)
(*   - each producer's captures enter the recording in the order they were *)
(*     accepted, none skipped and none twice;                              *)
(*   - recording time never runs backwards across producers;               *)
(*   - a recording that did not fail is sealed only with everything that   *)
(*     was accepted, and nothing is accepted or added afterwards;          *)
(*   - a recording that failed keeps the prefix it had, and is never       *)
(*     sealed as complete.                                                 *)
(*                                                                         *)
(* Transport implements this specification (Merge!Spec there).             *)
(***************************************************************************)
EXTENDS Naturals, Sequences, FiniteSets

CONSTANTS Producers, Times

VARIABLES accepted,  \* per producer, the times of its accepted captures, in order
          applied,   \* the recording: <<producer, number of the capture>>, in order
          poisoned,  \* a failure ended the recording's growth
          sealed     \* "open", then "complete" or "incomplete"

vars == <<accepted, applied, poisoned, sealed>>

StampOf(entry) == accepted[entry[1]][entry[2]]

\* How many captures of p the recording holds.
Held(p) == Cardinality({i \in DOMAIN applied : applied[i][1] = p})

Init ==
  /\ accepted = [p \in Producers |-> <<>>]
  /\ applied = <<>>
  /\ poisoned = FALSE
  /\ sealed = "open"

\* A producer's own time does not move backwards.
Accept(p, time) ==
  /\ sealed = "open"
  /\ \A n \in 1 .. Len(accepted[p]) : accepted[p][n] <= time
  /\ accepted' = [accepted EXCEPT ![p] = Append(@, time)]
  /\ UNCHANGED <<applied, poisoned, sealed>>

\* The next capture of p joins the recording; it is not older than the last one there.
Apply(p) ==
  /\ ~poisoned /\ sealed = "open"
  /\ Held(p) < Len(accepted[p])
  /\ applied' = Append(applied, <<p, Held(p) + 1>>)
  /\ \A i \in 1 .. Len(applied) : StampOf(applied[i]) <= accepted[p][Held(p) + 1]
  /\ UNCHANGED <<accepted, poisoned, sealed>>

Poison ==
  /\ ~poisoned /\ sealed = "open"
  /\ poisoned' = TRUE
  /\ UNCHANGED <<accepted, applied, sealed>>

Seal ==
  /\ sealed = "open" /\ sealed' \in {"complete", "incomplete"}
  /\ poisoned => sealed' = "incomplete"
  /\ poisoned \/ \A p \in Producers : Held(p) = Len(accepted[p])
  /\ UNCHANGED <<accepted, applied, poisoned>>

Next == \/ \E p \in Producers : Apply(p) \/ \E time \in Times : Accept(p, time)
        \/ Poison \/ Seal

Spec == Init /\ [][Next]_vars
=============================================================================
