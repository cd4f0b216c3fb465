--------------------------- MODULE OrderedOutput ---------------------------
(***************************************************************************)
(* What the recording's output promises, without encoders, queues or a     *)
(* file format: sections reach the file in the order they were submitted,  *)
(* none skipped and none twice; a recording is completed only with all of  *)
(* them, and a recording sealed as incomplete keeps a prefix of them.      *)
(*                                                                         *)
(* Output implements this specification (Ordered!Spec there).              *)
(***************************************************************************)
EXTENDS Naturals, Sequences

VARIABLES submitted,  \* how many sections were submitted
          published,  \* the sections in the file, in order, by number
          status      \* "open", "complete" or "incomplete"

vars == <<submitted, published, status>>

Init == submitted = 0 /\ published = <<>> /\ status = "open"

Submit ==
  /\ status = "open"
  /\ submitted' = submitted + 1
  /\ UNCHANGED <<published, status>>

Publish ==
  /\ status = "open"
  /\ Len(published) < submitted
  /\ published' = Append(published, Len(published) + 1)
  /\ UNCHANGED <<submitted, status>>

Seal ==
  /\ status = "open"
  /\ \/ status' = "complete" /\ Len(published) = submitted
     \/ status' = "incomplete"
  /\ UNCHANGED <<submitted, published>>

Next == Submit \/ Publish \/ Seal

Spec == Init /\ [][Next]_vars
=============================================================================
