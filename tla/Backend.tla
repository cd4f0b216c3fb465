------------------------------ MODULE Backend -------------------------------
(***************************************************************************)
(* The backend that assembles a recording (recording/backend.rs) and the   *)
(* table of active owners (recording/backend/owners.rs).  One thread runs  *)
(* it, the worker or in inline mode the caller, so an operation is one     *)
(* step; captures reach it in the order OrderedMerge promises, sections    *)
(* leave it in the order OrderedOutput promises, and signal values go to   *)
(* Waveform: only the claim of the signal is here.                         *)
(*                                                                         *)
(* `backend` is the Backend value.  An operation is a function of it; one  *)
(* that the code refuses only moves captured_time and poisons the writer,  *)
(* which can then only be sealed (Writer::control, Writer::usable).        *)
(* Payloads are told apart by being there or not, strings by their number; *)
(* BlockRecords stands for all limits of an unfinished block.              *)
(***************************************************************************)
EXTENDS TraceReader

CONSTANTS
  Producers,       \* who captures
  BlockRecords,    \* encoding.block_records
  SeparateClocks,  \* encoding.separate_clocks
  Slots,           \* SLOTS of owners.rs
  Menus,           \* what a recording declares and calls, to bound the model
  MaxId            \* record identifiers

Nobody == "nobody"

\* What a program declares: a source or a scope.
Declarable ==
  [kind : {"scope", "transaction", "stage", "event", "log", "clock"}, type : Nat, name : Nat,
   parent : Nat, clock : {0}, ending : {FALSE}]

ASSUME BackendAssumption ==
  /\ Producers # {} /\ Nobody \notin Producers
  /\ BlockRecords \in Nat \ {0} /\ Slots \in Nat \ {0}
  /\ SeparateClocks \in BOOLEAN /\ MaxId \in Nat
  /\ \A m \in Menus : m.producers \subseteq Producers /\ m.stamps \subseteq Nat
                       /\ m.nodes \in Seq(Declarable) /\ m.later \in Seq(Declarable)
                       /\ m.related \subseteq 1..MaxId
                       /\ m.times \subseteq Nat /\ m.depth \in Nat

VARIABLES
  backend,  \* the Backend
  phase,    \* "open", "failed" (poisoned), "closed" or "sealed"
  now,      \* the producer time the merge has reached
  used,     \* used[i]: the producer that captured record i, or Nobody
  touched,  \* who claimed what at `now` (history)
  authors,  \* who wrote which transaction or clock at `now` (history)
  menu,     \* the member of Menus
  ops,      \* operations so far
  ledger,   \* what the recording holds, read back (history)
  edges     \* its relations, read back (history)

vars == <<backend, phase, now, used, touched, authors, menu, ops, ledger, edges>>

(***************************************************************************)
(* Active owners: a table of slots by the low bits of the identifier, and  *)
(* an overflow map for the owners a newer one displaced.                   *)
(***************************************************************************)
NoTransaction ==
  [id |-> 0, generator |-> 0, begin |-> 0, end |-> 0, status |-> 0, span |-> 0, parent |-> 0,
   keys |-> {}, period |-> 0, events |-> << >>, stages |-> << >>, blocks |-> << >>]
Vacant == [value |-> NoTransaction, open |-> << >>, ready |-> TRUE]

InSlot(b, id) == b.slots[id % Slots].value.id = id
Owners(b) == ({b.slots[i] : i \in 0..Slots - 1} \ {Vacant}) \cup b.overflow
Active(b, id) == InSlot(b, id) \/ \E o \in b.overflow : o.value.id = id
Owner(b, id) == IF InSlot(b, id) THEN b.slots[id % Slots]
                ELSE CHOOSE o \in b.overflow : o.value.id = id
SetOwner(b, owner) ==
  LET id == owner.value.id
  IN  IF InSlot(b, id) THEN [b EXCEPT !.slots[id % Slots] = owner]
      ELSE [b EXCEPT !.overflow = {IF o.value.id = id THEN owner ELSE o : o \in @}]

\* Mutant: an owner is forgotten when a newer one takes its slot.
BeginOwnerForgetting(b, owner) == [b EXCEPT !.slots[owner.value.id % Slots] = owner]

BeginOwner(b, owner) ==
  LET i == owner.value.id % Slots
  IN  [b EXCEPT !.slots[i] = owner,
                !.overflow = @ \cup ({b.slots[i]} \ {Vacant})]
RemoveOwner(b, id) ==
  IF InSlot(b, id) THEN [b EXCEPT !.slots[id % Slots] = Vacant]
  ELSE [b EXCEPT !.overflow = {o \in @ : o.value.id # id}]

(***************************************************************************)
(* Sections of the file.                                                   *)
(***************************************************************************)
Section(kind, aux0, aux1, number, body) ==
  [kind |-> kind, aux0 |-> aux0, aux1 |-> aux1, number |-> number, body |-> body]

\* Mutant: nodes are published before the strings and types they name.
PublishNodesFirst(b) ==
  LET w == b.written
      chunk(kind, from, to, body) ==
        IF from = to THEN << >> ELSE <<Section(kind, from, to - from, 0, body)>>
      metadata == IF w.metadata THEN << >> ELSE <<Section("metadata", 0, 0, 0, << >>)>>
  IN  [b EXCEPT !.file = @ \o metadata
                           \o chunk("nodes", w.nodes, Len(b.nodes),
                                    SubSeq(b.nodes, w.nodes + 1, Len(b.nodes)))
                           \o chunk("strings", w.strings, b.strings, << >>)
                           \o chunk("types", w.types, b.types, << >>),
                !.written = [strings |-> b.strings, metadata |-> TRUE, types |-> b.types,
                             nodes |-> Len(b.nodes)]]

\* publish: what was declared since, strings before what names them.
Publish(b) ==
  LET w == b.written
      chunk(kind, from, to, body) ==
        IF from = to THEN << >> ELSE <<Section(kind, from, to - from, 0, body)>>
      metadata == IF w.metadata THEN << >> ELSE <<Section("metadata", 0, 0, 0, << >>)>>
  IN  [b EXCEPT !.file = @ \o chunk("strings", w.strings, b.strings, << >>) \o metadata
                           \o chunk("types", w.types, b.types, << >>)
                           \o chunk("nodes", w.nodes, Len(b.nodes),
                                    SubSeq(b.nodes, w.nodes + 1, Len(b.nodes))),
                !.written = [strings |-> b.strings, metadata |-> TRUE, types |-> b.types,
                             nodes |-> Len(b.nodes)]]

\* The owners of located records.
Parents(b) ==
  {r.parent : r \in {x \in ToSet(b.records) : b.nodes[x.generator].kind # "log"}}

Tell(b, ids, number) ==
  LET told(o) == IF o.value.id \in ids THEN [o EXCEPT !.value.blocks = Append(@, number)] ELSE o
  IN  [b EXCEPT !.slots = [i \in DOMAIN @ |-> told(@[i])], !.overflow = {told(o) : o \in @}]

\* flush_records: each owner is told the block that holds its records.
FlushRecords(b) ==
  LET number == b.nextBlock
      times == {r.begin : r \in ToSet(b.records)}
      ends == {r.end : r \in ToSet(b.records)}
  IN  IF b.records = << >> THEN b
      ELSE [Tell(Publish(b), Parents(b), number) EXCEPT
              !.nextBlock = @ + 1, !.records = << >>,
              !.lost = @ \/ \E id \in Parents(b) : ~Active(b, id),
              !.file = Append(@, Section("records", Min(times), Max(ends), number,
                                         RecordBlock(number, b.nodes, b.records)))]

SubmitRecord(b, record) ==
  LET next == [b EXCEPT !.records = Append(@, record)]
  IN  IF Len(next.records) >= BlockRecords THEN FlushRecords(next) ELSE next

FlushTransactions(b) ==
  LET p == Publish(b)
      rows == ToSet(b.transactions)
  IN  IF b.transactions = << >> /\ b.relations = << >> THEN b
      ELSE [p EXCEPT
              !.nextBlock = @ + 1, !.transactions = << >>, !.relations = << >>,
              !.file = Append(@, Section("transactions", Lowest({t.begin : t \in rows}),
                                         Highest({t.end : t \in rows}), b.nextBlock,
                                         TransactionBlock(b.nextBlock, b.nodes, b.transactions,
                                                          b.relations)))]

MaybeFlushTransactions(b) ==
  IF Len(b.transactions) + Len(b.relations) >= BlockRecords THEN FlushTransactions(b) ELSE b

SubmitTransaction(b, t) ==
  MaybeFlushTransactions([b EXCEPT !.transactions = Append(@, t)])

FlushBlackouts(b) ==
  LET before(i) == IF i = 1 THEN 0 ELSE b.blackout[i - 1].time
      body == [i \in DOMAIN b.blackout |-> [active |-> b.blackout[i].active,
                                            delta |-> b.blackout[i].time - before(i)]]
  IN  IF b.blackout = << >> THEN b
      ELSE [b EXCEPT !.file = Append(@, Section("blackouts", 0, 0, 0, body)),
                     !.blackout = << >>]

FlushAll(b) == FlushBlackouts(Publish(FlushTransactions(FlushRecords(b))))

(***************************************************************************)
(* Claims: at one producer time a record, clock or signal has one producer.*)
(***************************************************************************)
Conflict(b, resource, producer, stamp) ==
  \E c \in b.claims : c.resource = resource /\ c.stamp = stamp /\ c.producer # producer
Release(b, resource) == [b EXCEPT !.claims = {c \in @ : c.resource # resource}]
Claim(b, resources, producer, stamp) ==
  [b EXCEPT !.claims = {c \in @ : c.resource \notin resources}
                         \cup {[resource |-> r, producer |-> producer, stamp |-> stamp] :
                                 r \in resources}]

(***************************************************************************)
(* Ending stages, owners and clocks.                                       *)
(***************************************************************************)
StageIds(b) == {s.value.id : s \in b.stages}
StageWith(b, id) == CHOOSE s \in b.stages : s.value.id = id

\* A stage leaves its owner's list, where it is once, and its claim ends.
DropStage(b, id) ==
  LET stage == StageWith(b, id)
      owner == Owner(b, stage.value.parent)
      at == CHOOSE i \in DOMAIN owner.open : owner.open[i] = id
  IN  [Release(SetOwner(b, [owner EXCEPT !.open = RemoveAt(@, at)]), <<"record", id>>)
         EXCEPT !.stages = @ \ {stage}]

StopStage(b, id, time) ==
  LET value == StageWith(b, id).value
  IN  SubmitRecord(DropStage(b, id), [value EXCEPT !.end = Max({time, value.begin})])

StopStages(b, ids, time) == FoldLeft(LAMBDA acc, id : StopStage(acc, id, time), b, ids)
StopOpen(b, id, time) == StopStages(b, Owner(b, id).open, time)
StopOpens(b, ids, time) == FoldLeft(LAMBDA acc, id : StopOpen(acc, id, time), b, ids)
Forget(b, id) == Release(RemoveOwner(b, id), <<"record", id>>)

\* Mutant: the records of an owner may stay behind when it ends.
StopOwnerEarly(b, id, time, status) ==
  LET end == Max({time, Owner(b, id).value.begin})
      ended == StopOpen(b, id, end)
      row == [Owner(ended, id).value EXCEPT !.end = end, !.status = status]
  IN  SubmitTransaction(Forget(ended, id), row)

StopOwner(b, id, time, status) ==
  LET end == Max({time, Owner(b, id).value.begin})
      ended == FlushRecords(StopOpen(b, id, end))
      row == [Owner(ended, id).value EXCEPT !.end = end, !.status = status]
  IN  SubmitTransaction(Forget(ended, id), row)

Idle == [id |-> 0, begin |-> 0, period |-> 0, previous |-> Unset]

\* Mutant: the time of the stop is taken for the last edge.
StopClockAtTime(b, g, time, status) ==
  LET clock == b.clocks[g]
      last == Max({time, clock.begin})
      row == [NoTransaction EXCEPT !.id = clock.id, !.generator = g, !.begin = clock.begin,
                !.end = last, !.status = status,
                !.period = IF last = clock.begin THEN 0 ELSE clock.period]
  IN  [SubmitTransaction(b, row) EXCEPT !.clocks[g].id = 0, !.clocks[g].previous = last]

\* stop_clock: a stretch ends at its last edge; its period is an attribute,
\* whose name is interned on the way.
StopClock(b, g, time, status) ==
  LET clock == b.clocks[g]
      last == clock.begin + ((Max({time, clock.begin}) - clock.begin) \div clock.period)
                            * clock.period
      named == IF last = clock.begin \/ b.periodName # 0 THEN b
               ELSE [b EXCEPT !.periodName = b.strings, !.strings = @ + 1]
      row == [NoTransaction EXCEPT !.id = clock.id, !.generator = g, !.begin = clock.begin,
                !.end = last, !.status = status,
                !.keys = IF last = clock.begin THEN {} ELSE {named.periodName},
                !.period = IF last = clock.begin THEN 0 ELSE clock.period]
      alone(x) == IF SeparateClocks THEN FlushTransactions(x) ELSE x
  IN  [alone(SubmitTransaction(alone(named), row)) EXCEPT
         !.clocks[g].id = 0, !.clocks[g].previous = last]

(***************************************************************************)
(* Finishing.                                                              *)
(***************************************************************************)
\* discard_missing_payloads: bare records go, but stages of an owner that
\* goes are kept, with a locator nobody will read.
DiscardMissingPayloads(b) ==
  LET bareStages == Ascending({s.value.id : s \in {x \in b.stages : ~x.ready}})
      bare == Ascending({o.value.id : o \in {x \in Owners(b) : ~x.ready}})
      dropped == FoldLeft(DropStage, b, bareStages)
      stopped == FlushRecords(StopOpens(dropped, bare, b.captured))
  IN  FoldLeft(Forget, stopped, bare)

\* finish: owners end in the order of their identifiers, then the clocks.
StopOwners(b, ids, time) == FoldLeft(LAMBDA acc, id : StopOwner(acc, id, time, Truncated), b, ids)
StopClocks(b, gs, time) == FoldLeft(LAMBDA acc, g : StopClock(acc, g, time, Truncated), b, gs)

FinishAll(b) ==
  LET owners == Ascending({o.value.id : o \in Owners(b)})
      running == Ascending({g \in DOMAIN b.nodes : b.nodes[g].kind = "clock" /\ b.clocks[g].id # 0})
  IN  FlushAll(StopClocks(StopOwners(b, owners, b.captured), running, b.captured))

(***************************************************************************)
(* Operations.                                                             *)
(***************************************************************************)
Node(kind, type, name, parent) ==
  [kind |-> kind, type |-> type, name |-> name, parent |-> parent, clock |-> 0, ending |-> FALSE]

\* source, scope: a node, its name and, when it is new, its payload type.
Declared(b, node) ==
  [b EXCEPT !.strings = Max({@, node.name + 1}), !.types = Max({@, node.type + 1}),
            !.nodes = Append(@, node),
            !.clocks = IF node.kind = "clock"
                       THEN [g \in DOMAIN @ \cup {Len(b.nodes) + 1} |->
                               IF g \in DOMAIN @ THEN @[g] ELSE Idle]
                       ELSE @]

Empty ==
  [strings |-> 1, types |-> 1, nodes |-> << >>, periodName |-> 0, clockName |-> 0,
   written |-> [strings |-> 0, metadata |-> FALSE, types |-> 1, nodes |-> 0],
   slots |-> [i \in 0..Slots - 1 |-> Vacant], overflow |-> {}, stages |-> {},
   records |-> << >>, transactions |-> << >>, relations |-> << >>, nextBlock |-> 1,
   maxCreated |-> 0, maxReference |-> 0, captured |-> 0, clocks |-> << >>,
   blackout |-> << >>, lastBlackout |-> Unset, dump |-> TRUE, claims |-> {},
   file |-> << >>, lost |-> FALSE]

Init ==
  /\ menu \in Menus
  /\ backend = FoldLeft(Declared, Empty, menu.nodes)
  /\ phase = "open" /\ now = 0 /\ ops = 0 /\ touched = {} /\ authors = {}
  /\ used = [i \in 1..MaxId |-> Nobody] /\ ledger = {} /\ edges = << >>

Times == menu.times
Ids == {i \in 1..MaxId : used[i] # Nobody}
Sources(kind) == {g \in DOMAIN backend.nodes : backend.nodes[g].kind = kind}

\* Identifiers are reserved in one order and applied in another, but each
\* producer uses its own in order, and a child's comes after its parent's.
Reserved(p, parent) ==
  {i \in 1..MaxId : used[i] = Nobody /\ i > parent /\ \A j \in i..MaxId : used[j] # p}

\* What a capture is to the backend before its operation: who made it, when,
\* what it claims, and the identifier it uses (0 when none).
Request(p, stamp, claimed, id) ==
  [producer |-> p, stamp |-> stamp, claimed |-> claimed, id |-> id]

\* The backend that an accepted operation finds.
Admitted(call) ==
  Claim([backend EXCEPT !.captured = Max({@, call.stamp}), !.maxCreated = Max({@, call.id})],
        call.claimed, call.producer, call.stamp)

\* What the open transactions and the clocks say of themselves.  The lists of an owner's open
\* stages and of the blocks of its children are about others.
Written(b) ==
  {<<<<"record", o.value.id>>, [o.value EXCEPT !.blocks = << >>], o.ready>> : o \in Owners(b)}
    \cup {<<<<"clock", g>>, b.clocks[g]>> : g \in DOMAIN b.clocks}
Differing(b, c) == {x[1] : x \in (Written(b) \ Written(c)) \cup (Written(c) \ Written(b))}

\* A capture: accepted, its operation leaves `next`; refused, it poisons the
\* writer.
Capture(name, call, legal, next) ==
  /\ name \in menu.ops /\ phase = "open" /\ ops < menu.depth /\ ops' = ops + 1
  /\ call.producer \in menu.producers /\ call.stamp >= now /\ now' = call.stamp
  /\ IF legal /\ \A r \in call.claimed : ~Conflict(backend, r, call.producer, call.stamp)
     THEN /\ backend' = next /\ phase' = "open"
          /\ touched' = (IF call.stamp = now THEN touched ELSE {})
                         \cup (call.claimed \X {call.producer})
          /\ authors' = (IF call.stamp = now THEN authors ELSE {})
                         \cup (Differing(backend, next) \X {call.producer})
          /\ used' = IF call.id = 0 THEN used ELSE [used EXCEPT ![call.id] = call.producer]
     ELSE /\ backend' = [backend EXCEPT !.captured = Max({@, call.stamp})]
          /\ phase' = "failed" /\ UNCHANGED <<used, touched, authors>>
  /\ UNCHANGED menu

TheRecord(id) == {<<"record", id>>}

\* With payload or without: a source that asks for none never lacks it.
Begin(p, stamp) ==
  \E g \in Sources("transaction"), parent \in Ids \cup {NoRecord}, time \in Times,
     paid \in BOOLEAN : \E id \in Reserved(p, parent) :
    LET call == Request(p, stamp, TheRecord(id), id)
        value == [NoTransaction EXCEPT !.id = id, !.generator = g, !.begin = time, !.end = time,
                                       !.parent = parent]
        owner == [value |-> value, open |-> << >>, ready |-> paid \/ backend.nodes[g].type = 0]
    IN  Capture("begin", call, parent # NoRecord => Active(backend, parent),
                BeginOwner(Admitted(call), owner))

BeginStage(p, stamp) ==
  \E g \in Sources("stage"), parent \in Ids, time \in Times, paid \in BOOLEAN :
    \E id \in Reserved(p, parent) :
      LET call == Request(p, stamp, TheRecord(id), id)
          b == Admitted(call)
          value == [id |-> id, generator |-> g, datatype |-> 0, begin |-> time, end |-> time,
                    parent |-> parent]
          stage == [value |-> value, ready |-> paid \/ b.nodes[g].type = 0]
      IN  Capture("begin_stage", call, Active(backend, parent),
                  [SetOwner(b, [Owner(b, parent) EXCEPT !.open = Append(@, id)])
                     EXCEPT !.stages = @ \cup {stage}])

\* A located event or a log: submitted at once, and claimed by nobody.
Point(p, stamp) ==
  \E g \in Sources("event") \cup Sources("log"), parent \in Ids \cup {NoRecord}, time \in Times :
    \E id \in Reserved(p, parent) :
      LET call == Request(p, stamp, {}, id)
          type == IF g \in Sources("log") THEN backend.types - 1 ELSE 0
      IN  Capture("point", call,
                  IF parent = NoRecord THEN g \in Sources("log") ELSE Active(backend, parent),
                  SubmitRecord(Admitted(call),
                               [id |-> id, generator |-> g, begin |-> time, end |-> time,
                                datatype |-> type, parent |-> parent]))

\* end_owner: the payloads must be there, the stages' too.
EndTransaction(p, stamp) ==
  \E id \in Ids, time \in Times, paid \in BOOLEAN :
    LET call == Request(p, stamp, TheRecord(id), 0)
        owner == Owner(backend, id)
    IN  Capture("end", call,
          /\ Active(backend, id) /\ (owner.ready \/ paid)
          /\ \A i \in DOMAIN owner.open : StageWith(backend, owner.open[i]).ready,
          StopOwner(Admitted(call), id, time, 0))

EndStage(p, stamp) ==
  \E id \in Ids, time \in Times, paid \in BOOLEAN :
    LET call == Request(p, stamp, TheRecord(id), 0)
    IN  Capture("end_stage", call,
                id \in StageIds(backend) /\ (StageWith(backend, id).ready \/ paid),
                StopStage(Admitted(call), id, time))

\* A change to an owner that is open.
OnOwner(name, call, owner, legal, changed) ==
  Capture(name, call, Active(backend, owner) /\ legal, SetOwner(Admitted(call), changed))

\* Operation::Payload.
Payload(p, stamp) ==
  \E id \in Ids :
    LET call == Request(p, stamp, TheRecord(id), 0)
        stage == StageWith(backend, id)
    IN  Capture("payload", call, Active(backend, id) \/ id \in StageIds(backend),
                IF Active(backend, id)
                THEN SetOwner(Admitted(call), [Owner(backend, id) EXCEPT !.ready = TRUE])
                ELSE [Admitted(call) EXCEPT !.stages = (@ \ {stage})
                                                         \cup {[stage EXCEPT !.ready = TRUE]}])

\* Mutant: an attribute is set without a claim of its record.
AttributeUnclaimed(p, stamp) ==
  \E id \in Ids, key \in 0..backend.strings - 1 :
    LET owner == Owner(backend, id)
    IN  OnOwner("attribute", Request(p, stamp, {}, 0), id, key \notin owner.value.keys,
                [owner EXCEPT !.value.keys = @ \cup {key}])

Attribute(p, stamp) ==
  \E id \in Ids, key \in 0..backend.strings - 1 :
    LET owner == Owner(backend, id)
    IN  OnOwner("attribute", Request(p, stamp, TheRecord(id), 0), id, key \notin owner.value.keys,
                [owner EXCEPT !.value.keys = @ \cup {key}])

SpanKind(p, stamp) ==
  \E id \in Ids, kind \in {0, 5} :
    OnOwner("span_kind", Request(p, stamp, TheRecord(id), 0), id, TRUE,
            [Owner(backend, id) EXCEPT !.value.span = kind])

EmbeddedEvent(p, stamp) ==
  \E owner \in Ids, time \in Times : \E id \in Reserved(p, owner) :
    LET event == [id |-> id, time |-> time, name |-> backend.strings - 1]
    IN  OnOwner("embed", Request(p, stamp, TheRecord(owner), id), owner, TRUE,
                [Owner(backend, owner) EXCEPT !.value.events = Append(@, event)])

EmbeddedStage(p, stamp) ==
  \E owner \in Ids, time \in Times, end \in Times \cup {Unset} : \E id \in Reserved(p, owner) :
    LET stage == [id |-> id, begin |-> time, end |-> end, name |-> backend.strings - 1]
    IN  OnOwner("embed", Request(p, stamp, TheRecord(owner), id), owner,
                end # Unset => end >= time,
                [Owner(backend, owner) EXCEPT !.value.stages = Append(@, stage)])

EndEmbedded(p, stamp) ==
  \E owner \in Ids, stage \in Ids, time \in Times :
    LET o == Owner(backend, owner)
        ended(s) == IF s.id = stage THEN [s EXCEPT !.end = Max({time, s.begin})] ELSE s
    IN  OnOwner("end_embedded", Request(p, stamp, TheRecord(owner), 0), owner,
                \E s \in ToSet(o.value.stages) : s.id = stage,
                [o EXCEPT !.value.stages = [i \in DOMAIN @ |-> ended(@[i])]])

\* The ends of a relation need not be there yet.
Relate(p, stamp) ==
  \E from, to \in menu.related :
    LET call == Request(p, stamp, {}, 0)
        relation == [kind |-> backend.strings - 1, source |-> from, destination |-> to]
    IN  Capture("relate", call, TRUE,
                MaybeFlushTransactions([Admitted(call) EXCEPT
                                          !.relations = Append(@, relation),
                                          !.maxReference = Max({@, from, to})]))

\* A clock that runs ends its stretch at the edge before.
RunClock(b, g, id, first, period) ==
  LET idle == IF b.clocks[g].id = 0 THEN b ELSE StopClock(b, g, first - 1, 0)
  IN  [idle EXCEPT !.clocks[g].id = id, !.clocks[g].begin = first, !.clocks[g].period = period]

ClockRun(p, stamp) ==
  \E g \in Sources("clock"), first \in Times, period \in 1..2 : \E id \in Reserved(p, 0) :
    LET call == Request(p, stamp, {<<"clock", g>>}, id)
        clock == backend.clocks[g]
    IN  Capture("clock_run", call,
                IF clock.id # 0 THEN first > clock.begin ELSE first > clock.previous,
                RunClock(Admitted(call), g, id, first, period))

ClockStop(p, stamp) ==
  \E g \in Sources("clock"), time \in Times :
    LET call == Request(p, stamp, {<<"clock", g>>}, 0)
    IN  Capture("clock_stop", call, backend.clocks[g].id # 0, StopClock(Admitted(call), g, time, 0))

\* emit and emit_batch: a batch is refused as a whole.
Emit(p, stamp) ==
  \E signals \in SUBSET {1, 2} :
    LET call == Request(p, stamp, {<<"signal", s>> : s \in signals}, 0)
    IN  signals # {} /\ Capture("emit", call, TRUE, Admitted(call))

\* blackout: an imported gap, or the switch of Operation::Dump.
Blackout(p, stamp) ==
  \E time \in Times, active \in BOOLEAN :
    LET call == Request(p, stamp, {}, 0)
    IN  Capture("blackout", call, backend.lastBlackout <= time,
                [Admitted(call) EXCEPT !.blackout = Append(@, [time |-> time, active |-> active]),
                                       !.lastBlackout = time])
Dump(p, stamp) ==
  \E enabled \in BOOLEAN :
    LET call == Request(p, stamp, {}, 0)
        switched == [Admitted(call) EXCEPT
                       !.blackout = Append(@, [time |-> stamp, active |-> enabled]),
                       !.lastBlackout = stamp, !.dump = enabled]
    IN  Capture("blackout", call, backend.dump = enabled \/ backend.lastBlackout <= stamp,
                IF backend.dump = enabled THEN Admitted(call) ELSE switched)

(***************************************************************************)
(* Calls of the owner of the recording.                                    *)
(***************************************************************************)
Control(name, before, legal, next) ==
  /\ name \in menu.ops /\ phase = "open" /\ ops < menu.depth /\ ops' = ops + 1
  /\ IF legal THEN backend' = next /\ phase' = "open"
     ELSE backend' = before /\ phase' = "failed"
  /\ UNCHANGED <<now, used, touched, authors, menu>>

Intern == Control("intern", backend, TRUE, [backend EXCEPT !.strings = @ + 1])

Declare ==
  /\ Len(backend.nodes) < Len(menu.nodes) + Len(menu.later)
  /\ LET node == menu.later[Len(backend.nodes) - Len(menu.nodes) + 1]
     IN  Control("declare", backend,
                 node.parent # 0 => backend.nodes[node.parent].kind = "scope",
                 Declared(backend, node))

\* associate_clock: the name of the attribute is interned first, and stays
\* when the association is refused, as it is once the node is published.
Associate ==
  \E n \in DOMAIN backend.nodes, clock \in DOMAIN backend.nodes :
    LET named == IF backend.clockName # 0 THEN backend
                 ELSE [backend EXCEPT !.clockName = backend.strings, !.strings = @ + 1]
    IN  Control("associate", named,
                /\ n > backend.written.nodes /\ backend.nodes[clock].kind = "clock"
                /\ backend.nodes[n].clock = 0,
                [named EXCEPT !.nodes[n].clock = clock])

Flush == Control("flush", backend, TRUE, FlushAll(backend))

\* The writer closes when every capture has been applied.
Close ==
  /\ phase = "open" /\ Ids = 1..Cardinality(Ids)
  /\ IF /\ backend.maxReference <= backend.maxCreated
        /\ \A o \in Owners(backend) : o.ready
        /\ \A s \in backend.stages : s.ready
     THEN backend' = FinishAll(backend) /\ phase' = "closed"
     ELSE phase' = "failed" /\ UNCHANGED backend
  /\ UNCHANGED <<now, used, touched, authors, menu, ops>>

\* finish_with: an ending is a log in a scope and of a source of its own.
WithEnding(b) ==
  LET scope == Declared(b, Node("scope", 0, b.strings, 0))
      log == [Node("log", 0, b.strings, Len(scope.nodes)) EXCEPT !.ending = TRUE]
      source == [Declared(scope, log) EXCEPT !.types = @ + 1]
  IN  SubmitRecord(source, [id |-> MaxId + 1, generator |-> Len(source.nodes),
                            datatype |-> source.types - 1, begin |-> b.captured,
                            end |-> b.captured, parent |-> NoRecord])

Seal ==
  \E ending \in BOOLEAN :
    /\ phase \in {"open", "failed"}
    /\ backend' = LET b == IF ending THEN WithEnding(backend) ELSE backend
                  IN  FinishAll(DiscardMissingPayloads(b))
    /\ phase' = "sealed"
    /\ UNCHANGED <<now, used, touched, authors, menu, ops>>

(***************************************************************************)
(* The specification.                                                      *)
(***************************************************************************)
\* What the file and the backend's unfinished blocks hold, as a ledger.
Note(t) == [status |-> t.status, span |-> t.span, keys |-> t.keys, period |-> t.period]
Entry(id, kind, source, parent, begin, end, state, note) ==
  [id |-> id, kind |-> kind, source |-> source, parent |-> parent, begin |-> begin,
   end |-> end, state |-> state, note |-> note]
OfLocated(b, r, state) ==
  Entry(r.id, b.nodes[r.generator].kind, <<r.generator, r.datatype>>, r.parent, r.begin,
        r.end, state, Note(NoTransaction))
OfTransaction(b, t, state) ==
  LET embedded(e, kind, begin, end) ==
        Entry(e.id, kind, <<0, e.name>>, t.id, begin, end, "done", Note(NoTransaction))
      kind == b.nodes[t.generator].kind
      keys == IF kind = "clock" THEN {} ELSE t.keys
  IN  {Entry(t.id, kind, <<t.generator, 0>>, t.parent, t.begin, t.end, state,
             [Note(t) EXCEPT !.keys = keys])}
      \cup {embedded(e, "inner_event", e.time, e.time) : e \in ToSet(t.events)}
      \cup {embedded(e, "inner_stage", e.begin, e.end) : e \in ToSet(t.stages)}
OfClock(b, g) ==
  LET c == b.clocks[g]
  IN  OfTransaction(b, [NoTransaction EXCEPT !.id = c.id, !.generator = g, !.begin = c.begin,
                       !.end = c.begin, !.period = c.period], "open")
State(ready) == IF ready THEN "open" ELSE "bare"

AllRecords(b) ==
  LET located == ToSet(Records(b.file, RecordQuery)) \cup ToSet(b.records)
      owners == ToSet(Transactions(b.file, TransactionQuery)) \cup ToSet(b.transactions)
  IN  {OfLocated(b, r, "done") : r \in located}
      \cup UNION {OfTransaction(b, t, "done") : t \in owners}
      \cup UNION {OfTransaction(b, o.value, State(o.ready)) : o \in Owners(b)}
      \cup {OfLocated(b, s.value, State(s.ready)) : s \in b.stages}
      \cup UNION {OfClock(b, g) : g \in {c \in DOMAIN b.clocks : b.clocks[c].id # 0}}

AllRelations(b) == ScanRelations(b.file) \o b.relations

Step ==
  \/ \E p \in Producers, stamp \in menu.stamps :
       \/ Begin(p, stamp) \/ BeginStage(p, stamp) \/ Point(p, stamp)
       \/ EndTransaction(p, stamp) \/ EndStage(p, stamp) \/ Payload(p, stamp)
       \/ Attribute(p, stamp) \/ SpanKind(p, stamp)
       \/ EmbeddedEvent(p, stamp) \/ EmbeddedStage(p, stamp) \/ EndEmbedded(p, stamp)
       \/ Relate(p, stamp) \/ ClockRun(p, stamp) \/ ClockStop(p, stamp)
       \/ Emit(p, stamp) \/ Blackout(p, stamp) \/ Dump(p, stamp)
  \/ Intern \/ Declare \/ Associate \/ Flush \/ Close \/ Seal

Next == Step /\ \E b \in {backend'} : ledger' = AllRecords(b) /\ edges' = AllRelations(b)

Spec == Init /\ [][Next]_vars

(***************************************************************************)
(* Properties.                                                             *)
(***************************************************************************)
Finished == phase \in {"closed", "sealed"}
File == backend.file

TheLedger == INSTANCE Ledger WITH captured <- backend.captured, state <- phase

\* Whatever is captured is in the file or still with the backend, once and
\* as it was captured, through every block, page and column; an operation
\* changes only the records it is about, closing ends what is open and
\* sealing drops only what has no payload.
LedgerSpec == TheLedger!Spec

\* A crash leaves a prefix of the sections.  Every prefix that has its
\* metadata can be opened and validates as an incomplete recording, with no
\* locator or clock left hanging; a closed file validates as complete.
PrefixesValid ==
  Finished =>
    /\ phase = "closed" => Validates(File, TRUE)
    /\ \A n \in DOMAIN File :
         LET f == SubSeq(File, 1, n)
         IN  Declarations(f).metadata =>
               /\ Opens(f) /\ Validates(f, FALSE)
               /\ \A m \in Missing(f) : m.kind \in {"parent", "relation"}

\* The owner of a stage or event is active until the record is in a block,
\* or its locator would be lost and no recording could be finished.
OwnersOutliveRecords == ~backend.lost

\* A query by identifier, parent, source, kind or time finds exactly the
\* rows a full scan finds, whatever blocks, segments and pages it skips; an
\* owner's locators lead to all of its records.
RecordQueries ==
  {[RecordQuery EXCEPT !.id = i] : i \in 1..MaxId} \cup
  {[RecordQuery EXCEPT !.parent = i] : i \in 0..MaxId} \cup
  {[RecordQuery EXCEPT !.generator = g, !.logs = FALSE] : g \in DOMAIN backend.nodes} \cup
  {[RecordQuery EXCEPT !.begin = a, !.end = z] : a, z \in Times}
TransactionQueries ==
  {[TransactionQuery EXCEPT !.id = i] : i \in 1..MaxId} \cup
  {[TransactionQuery EXCEPT !.parent = i] : i \in 0..MaxId} \cup
  {[TransactionQuery EXCEPT !.embedded = i] : i \in 1..MaxId} \cup
  {[TransactionQuery EXCEPT !.generator = g] : g \in DOMAIN backend.nodes} \cup
  {[TransactionQuery EXCEPT !.begin = a, !.end = z] : a, z \in Times}
RecordMatches(r, q) ==
  /\ SelectedRow(r, q) /\ q.generator \in {Unset, r.generator}
  /\ q.logs \/ backend.nodes[r.generator].kind # "log"
QueriesExact ==
  Finished =>
    LET rows == Records(File, RecordQuery)
        owners == Transactions(File, TransactionQuery)
        children(t) == {r \in ToSet(rows) : r.parent = t.id
                                            /\ backend.nodes[r.generator].kind # "log"}
    IN  /\ \A q \in RecordQueries :
             Records(File, q) = SelectSeq(rows, LAMBDA r : RecordMatches(r, q))
        /\ \A q \in TransactionQueries :
             Transactions(File, q) = SelectSeq(owners, LAMBDA t : MatchesTransaction(t, q))
        /\ \A i \in 1..MaxId :
             /\ Relations(File, i, TRUE) = SelectSeq(edges, LAMBDA e : e.destination = i)
             /\ Relations(File, i, FALSE) = SelectSeq(edges, LAMBDA e : e.source = i)
             /\ (Lookup(File, i).how = "missing") = (\A e \in ledger : e.id # i)
        /\ \A t \in ToSet(owners) :
             LET found == Expand(File, t).located
             IN  ToSet(found) = children(t) /\ Len(found) = Cardinality(children(t))

\* Captures that claim a record, clock or signal at one producer time, and are
\* accepted, are of one producer, also when the record has ended in between.
ClaimsExclusive ==
  \A x, y \in touched : x[1] = y[1] => x[2] = y[2]

\* An open transaction or a clock is never written by two producers at one
\* producer time, where the worker merges them in any order: not by a capture
\* that forgets to claim what it changes, and not once a claim was forgotten.
\* What a transaction's children do to it is left out.  Begin, BeginStage and
\* Point only look whether the owner is active and claim no part of it
\* (backend.rs:612, 635, 682), so that a child of one producer and the end of
\* its owner by another, at one time, succeed or fail by the order of merging.
OneAuthor ==
  \A x, y \in authors : x[1] = y[1] => x[2] = y[2]

\* The cycle at a time is the number of edges up to it: stretches that are
\* cut short, replaced or ended by the recording lose and repeat no edge.
CyclesExact ==
  Finished =>
    \A g \in Sources("clock") :
      LET stretches == {e \in ledger : e.kind = "clock" /\ e.source[1] = g}
          ticks == UNION {{n \in e.begin..e.end :
                             n = e.begin \/ (n - e.begin) % e.note.period = 0} : e \in stretches}
      IN  \A time \in Times :
            CycleAt(File, g, time) = Cardinality({n \in ticks : n <= time}) - 1

\* The activity of a source is the union of what its records cover, in
\* ranges that neither touch nor overlap.
ActivityUnion ==
  Finished =>
    LET ranges == GeneratorRanges(File)
        covered(r) == r.begin..(IF r.kind = "stage" /\ r.end > r.begin THEN r.end - 1 ELSE r.end)
        of(g) == UNION {covered(e) : e \in {x \in ledger : x.source[1] = g}}
    IN  /\ \A g \in DOMAIN backend.nodes :
             UNION {r.begin..r.end : r \in {x \in ranges : x.generator = g}} = of(g)
        /\ \A r, s \in ranges : r.generator = s.generator /\ r.begin < s.begin
                                  => r.end + 1 < s.begin

\* The time range spans every record, the embedded ones too, and the ending
\* a reader tells is the one the recording had.
RangeAndEnding ==
  Finished =>
    LET ends(e) == IF e.end # Unset THEN e.end
                   ELSE Max({e.begin} \cup {o.end : o \in {x \in ledger : x.id = e.parent}})
        times == UNION {{e.begin, ends(e)} : e \in ledger}
        logged == \E n \in DOMAIN backend.nodes : backend.nodes[n].ending
    IN  /\ TimeRange(File) = IF times = {} THEN << >> ELSE <<Min(times), Max(times)>>
        /\ Declarations(File).metadata =>
             EndingOf(File, phase = "closed") = IF logged THEN "recorded"
                                                ELSE IF phase = "closed" THEN "closed"
                                                ELSE "recovered"

\* What a reader sums up about a recording, for each source and as a whole,
\* is what its records add up to.
SummariesExact == ActivityUnion /\ RangeAndEnding
=============================================================================
