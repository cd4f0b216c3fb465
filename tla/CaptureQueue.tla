---------------------------- MODULE CaptureQueue ----------------------------
(***************************************************************************)
(* What one capture channel promises to the recording worker, without the  *)
(* ring: a bounded first-in-first-out queue that can be shut.              *)
(*                                                                         *)
(*   - captures leave in the order they were accepted, each exactly once;  *)
(*   - the charged bytes waiting in the queue never exceed Capacity, but a *)
(*     capture larger than the whole queue is let in while it is alone;    *)
(*   - once the queue is shut nothing is accepted, and what was accepted   *)
(*     before can still be taken.                                          *)
(*                                                                         *)
(* CaptureRing implements this specification (Queue!Spec there).           *)
(***************************************************************************)
EXTENDS Naturals, Sequences

CONSTANTS Capacity,    \* charged bytes the queue may hold
          Charges      \* the possible charges of a capture

VARIABLES accepted,    \* the charges of every capture accepted so far, in order
          charged,     \* their sum
          taken,       \* how many of them the worker has taken
          returned,    \* the sum of the charges of the taken ones
          shut         \* no capture is accepted any more

vars == <<accepted, charged, taken, returned, shut>>

Init ==
  /\ accepted = <<>>
  /\ charged = 0
  /\ taken = 0
  /\ returned = 0
  /\ shut = FALSE

\* A capture of the given charge is accepted: the queue has room for it, or is empty.
Put(charge) ==
  /\ ~shut
  /\ charged - returned + charge <= Capacity \/ taken = Len(accepted)
  /\ accepted' = Append(accepted, charge)
  /\ charged' = charged + charge
  /\ UNCHANGED <<taken, returned, shut>>

\* The worker takes the oldest waiting capture.
Take ==
  /\ taken < Len(accepted)
  /\ taken' = taken + 1
  /\ returned' = returned + accepted[taken + 1]
  /\ UNCHANGED <<accepted, charged, shut>>

Shut ==
  /\ ~shut
  /\ shut' = TRUE
  /\ UNCHANGED <<accepted, charged, taken, returned>>

Next == (\E charge \in Charges : Put(charge)) \/ Take \/ Shut

Spec == Init /\ [][Next]_vars
=============================================================================
