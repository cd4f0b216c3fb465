---------------------------- MODULE MCCaptureRing ----------------------------
(***************************************************************************)
(* A ring of four cells with a budget of three: one-cell scalars, packets  *)
(* of two and four cells that wrap (the widest is over the budget), and a  *)
(* one-cell owned capture whose charge is over the budget.                 *)
(***************************************************************************)
EXTENDS CaptureRing

MCShapes == {[cells |-> 1, bytes |-> 1], [cells |-> 2, bytes |-> 2],
             [cells |-> 4, bytes |-> 4], [cells |-> 1, bytes |-> 6]}
=============================================================================
