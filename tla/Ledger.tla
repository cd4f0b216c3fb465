------------------------------- MODULE Ledger -------------------------------
(***************************************************************************)
(* What a recording promises, without blocks, pages or sections: a set of  *)
(* records, each with an identifier of its own, and a sequence of          *)
(* relations.  A record only changes while it is open; ending an owner     *)
(* ends its stages; closing ends what is open; sealing drops the records   *)
(* whose payload never came.  Backend implements this specification.       *)
(*                                                                         *)
(* A record is [id, kind, source, parent, begin, end, state, note]: its    *)
(* source is the pair of its generator and datatype, its state is "open",  *)
(* "bare" (open, and its payload is still to come) or "done", and its note *)
(* holds what else a transaction carries: status, span, keys and period.   *)
(***************************************************************************)
EXTENDS Integers, Sequences, FiniteSets, FiniteSetsExt

VARIABLES
  ledger,    \* the records
  edges,     \* the relations, in the order they were made
  captured,  \* the latest time a capture carried
  state      \* "open", "failed", "closed" or "sealed"

vars == <<ledger, edges, captured, state>>

Open(e) == e.state # "done"
Inside(e, owner) == e.parent = owner.id /\ e.kind \in {"inner_event", "inner_stage"}
StageOf(e, owner) == e.parent = owner.id /\ e.kind = "stage" /\ Open(e)
Closed(e, end, status) ==
  [e EXCEPT !.state = "done", !.end = end, !.note.status = status]

\* The last edge of a stretch that began at e.begin, up to time.
LastEdge(e, time) == e.begin + ((time - e.begin) \div e.note.period) * e.note.period
Stopped(e, end, status) ==
  [Closed(e, end, status) EXCEPT !.note.period = IF end = e.begin THEN 0 ELSE @]

Init == ledger = {} /\ edges = << >> /\ captured = 0 /\ state = "open"

Fresh(e) == \A other \in ledger : other.id # e.id

Record ==
  \E e \in ledger' \ ledger :
    /\ ledger' = ledger \cup {e} /\ Fresh(e)
    /\ e.kind \in {"transaction", "stage"} <=> Open(e)
    /\ e.parent = 0 => e.kind \in {"transaction", "log"}
    /\ e.parent # 0 => \E owner \in ledger : /\ owner.id = e.parent /\ e.parent < e.id
                                             /\ owner.kind = "transaction" /\ Open(owner)
    /\ UNCHANGED edges

EndOwner ==
  \E owner \in ledger, ended \in ledger' :
    /\ owner.kind = "transaction" /\ Open(owner) /\ ended.id = owner.id
    /\ ended.end >= owner.begin
    /\ ended = Closed(owner, ended.end, ended.note.status)
    /\ \A e \in ledger : StageOf(e, owner) => e.state = "open"
    /\ ledger' = {ended} \cup {IF StageOf(e, owner) THEN Closed(e, Max({ended.end, e.begin}), 0)
                               ELSE e : e \in ledger \ {owner}}
    /\ UNCHANGED edges

EndStage ==
  \E stage \in ledger, ended \in ledger' :
    /\ stage.kind = "stage" /\ Open(stage) /\ ended.id = stage.id
    /\ ended.end >= stage.begin /\ ended = Closed(stage, ended.end, 0)
    /\ ledger' = (ledger \ {stage}) \cup {ended}
    /\ UNCHANGED edges

\* A payload, an attribute or a span kind for a record that is open, the
\* end of an embedded stage of an owner that is.
Amend ==
  \E e \in ledger, amended \in ledger' :
    /\ amended.id = e.id
    /\ \/ /\ e.kind \in {"transaction", "stage"} /\ Open(e)
          /\ amended.state \in {e.state, "open"}
          /\ e.note.keys \subseteq amended.note.keys
          /\ amended = [e EXCEPT !.state = amended.state, !.note.keys = amended.note.keys,
                                 !.note.span = amended.note.span]
       \/ /\ e.kind = "inner_stage" /\ amended.end >= e.begin
          /\ \E owner \in ledger : owner.id = e.parent /\ Open(owner)
          /\ amended = [e EXCEPT !.end = amended.end]
    /\ ledger' = (ledger \ {e}) \cup {amended}
    /\ UNCHANGED edges

Relate ==
  /\ Len(edges') = Len(edges) + 1 /\ SubSeq(edges', 1, Len(edges)) = edges
  /\ UNCHANGED ledger

\* A stretch of a clock ends at its last edge.
ClockStop ==
  \E e \in ledger, ended \in ledger' :
    /\ e.kind = "clock" /\ Open(e) /\ ended = Stopped(e, LastEdge(e, ended.end), 0)
    /\ ended.end >= e.begin
    /\ ledger' = (ledger \ {e}) \cup {ended}
    /\ UNCHANGED edges

\* A new stretch ends the one that runs, at its last edge before the new
\* one; the stretches of a clock share no edge.
ClockRun ==
  \E e \in ledger' :
    /\ e.kind = "clock" /\ Open(e) /\ Fresh(e)
    /\ LET own == {x \in ledger : x.kind = "clock" /\ x.source = e.source}
           stop(x) == IF Open(x) THEN Stopped(x, LastEdge(x, e.begin - 1), 0) ELSE x
       IN  /\ \A x \in own : IF Open(x) THEN x.begin < e.begin ELSE x.end < e.begin
           /\ ledger' = {e} \cup (ledger \ own) \cup {stop(x) : x \in own}
    /\ UNCHANGED edges

\* Something the ledger does not tell: a sample, a gap, progress.
Observe == UNCHANGED <<ledger, edges>>

Operation ==
  /\ state = "open" /\ state' = "open" /\ captured' >= captured
  /\ \/ Record \/ EndOwner \/ EndStage \/ Amend \/ Relate \/ ClockStop \/ ClockRun \/ Observe

Fail == /\ state = "open" /\ state' = "failed" /\ captured' >= captured
        /\ UNCHANGED <<ledger, edges>>

\* What is open ends with the recording.
End(e, survivors) ==
  LET owners == {o \in survivors : o.id = e.parent /\ Open(o)}
      upto == Max({captured, e.begin} \cup {o.begin : o \in owners})
  IN  CASE e.kind = "clock" -> Stopped(e, LastEdge(e, Max({captured, e.begin})), 4)
        [] e.kind = "stage" -> Closed(e, upto, 0)
        [] OTHER            -> Closed(e, Max({captured, e.begin}), 4)
Ended(records) == {IF Open(e) THEN End(e, records) ELSE e : e \in records}

Close ==
  /\ state = "open" /\ state' = "closed"
  /\ \A e \in ledger : e.state # "bare"
  /\ \A i \in DOMAIN edges : {edges[i].source, edges[i].destination}
                               \subseteq {e.id : e \in ledger} \cup {0}
  /\ ledger' = Ended(ledger)
  /\ UNCHANGED <<edges, captured>>

\* A record without its payload goes, with what is embedded in it; its
\* stages stay.  The recording may add one log that says how it ended.
Seal ==
  LET bare == {e \in ledger : e.state = "bare"}
      kept == {e \in ledger \ bare : \A owner \in bare : ~Inside(e, owner)}
  IN  /\ state \in {"open", "failed"} /\ state' = "sealed"
      /\ \/ ledger' = Ended(kept)
         \/ \E e \in ledger' \ ledger :
              /\ e.kind = "log" /\ e.parent = 0 /\ e.begin = captured /\ Fresh(e)
              /\ ledger' = Ended(kept) \cup {e}
      /\ UNCHANGED <<edges, captured>>

Next == Operation \/ Fail \/ Close \/ Seal

Spec == Init /\ [][Next]_vars
=============================================================================
