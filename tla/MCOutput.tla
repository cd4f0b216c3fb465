------------------------------ MODULE MCOutput ------------------------------
(***************************************************************************)
(* Owner and encoder threads for TLC: the jobs and results they exchange   *)
(* (Output), and the payload buffers (PayloadPool).  The two share no      *)
(* variable, so a behaviour moves one of them: what can happen adds up     *)
(* rather than multiplies, and an invariant of one is none of the other's. *)
(***************************************************************************)
EXTENDS Output

CONSTANTS Limit, Threshold, Lengths, MaxTakes  \* as in PayloadPool

VARIABLES
  moving,  \* "jobs" or "buffers"
  reserved, pending, returned, lock,
  available, bytes, released, owner, length,
  held, takes,
  at, carried, seen

Buffers == INSTANCE PayloadPool WITH Owner <- "backend", Free <- "free"

ASSUME Buffers!PoolAssumption

bufferVars == <<reserved, pending, returned, lock, available, bytes, released, owner, length,
                held, takes, at, carried, seen>>
all == <<vars, moving, bufferVars>>

MCInit == Init /\ Buffers!Init /\ moving \in {"jobs", "buffers"}

MCNext ==
  \/ moving = "jobs" /\ Next /\ UNCHANGED <<moving, bufferVars>>
  \/ moving = "buffers" /\ Buffers!Next /\ UNCHANGED <<moving, vars>>

\* Output's fairness, which asks nothing of an output that does not move.
MCSpec ==
  /\ MCInit /\ [][MCNext]_all
  /\ WF_vars(Owner) /\ \A e \in Encoders : WF_vars(Encoder(e))

-----------------------------------------------------------------------------
\* The pool's counter says what the pool retains, and that is no more than
\* its limit, however many threads give buffers back at once.
Retained == Buffers!Retained

\* A returned buffer is announced whenever the returned list is at rest.
NothingForgotten == Buffers!NothingForgotten
=============================================================================
