---------------------------- MODULE TraceReader -----------------------------
(***************************************************************************)
(* The reader of a recording (trace/mod.rs): what opening a file checks,   *)
(* the queries, and Reader::validate.  Everything is a function of the     *)
(* sections `f` of the file and, where it matters, of whether the file was *)
(* closed complete.  The caches of owners and pages only save work, and a  *)
(* visitor that stops early sees a prefix: both are left out.              *)
(***************************************************************************)
EXTENDS TraceFile

Body(f, kind) == SelectSeq(f, LAMBDA section : section.kind = kind)

(***************************************************************************)
(* Opening.                                                                *)
(***************************************************************************)
\* Declarations::from_container: declarations come in contiguous chunks and
\* refer to what came before them; recordings come after the metadata.
ReadSection(d, s) ==
  CASE s.kind = "metadata" -> [d EXCEPT !.metadata = TRUE, !.ok = @ /\ ~d.metadata]
    [] s.kind = "strings"  -> [d EXCEPT !.strings = @ + s.aux1, !.ok = @ /\ s.aux0 = d.strings]
    [] s.kind = "types"    -> [d EXCEPT !.types = @ + s.aux1,
                                        !.ok = @ /\ d.metadata /\ s.aux0 = d.types]
    [] s.kind = "nodes"    ->
         LET nodes == d.nodes \o s.body
         IN  [d EXCEPT !.nodes = nodes,
                       !.ok = /\ @ /\ d.metadata /\ s.aux0 = Len(d.nodes)
                              /\ \A n \in s.aux0 + 1..Len(nodes) :
                                   /\ nodes[n].name < d.strings /\ nodes[n].type < d.types
                                   /\ nodes[n].parent # 0 =>
                                        /\ nodes[n].parent < n
                                        /\ nodes[nodes[n].parent].kind = "scope"]
    [] OTHER               -> [d EXCEPT !.ok = @ /\ d.metadata]

NoDeclarations == [strings |-> 0, types |-> 1, nodes |-> << >>, metadata |-> FALSE, ok |-> TRUE]
Declarations(f) == FoldLeft(ReadSection, NoDeclarations, f)
Nodes(f) == Declarations(f).nodes

\* Availability: what is declared before section n.
Available(f, n) ==
  LET end(kind, least) == Max({least} \cup {f[i].aux0 + f[i].aux1 :
                                              i \in {j \in 1..n - 1 : f[j].kind = kind}})
  IN  [strings |-> end("strings", 0), types |-> end("types", 1), nodes |-> end("nodes", 0)]

Blackouts(f) ==
  LET sections == Body(f, "blackouts")
      times(s) == Sums([i \in DOMAIN s.body |-> s.body[i].delta])
  IN  FlattenSeq([k \in DOMAIN sections |->
        [i \in DOMAIN sections[k].body |->
           [time |-> times(sections[k])[i], active |-> sections[k].body[i].active]]])

\* parse_transaction_block, parse_record_block, available_generator: a block
\* agrees with its section and uses nothing declared after it.
BlockOK(f, n) ==
  LET nodes == Nodes(f)
      block == f[n].body
      records == f[n].kind = "records"
      span == IF records THEN block ELSE block.bounds
      generators == IF records THEN {s.generator : s \in ToSet(block.segments)}
                    ELSE ToSet(block.ids)
      datatypes == IF records THEN {s.datatype : s \in ToSet(block.segments)} ELSE {}
  IN  /\ IF records THEN RecordBlockOK(block, nodes) ELSE TransactionBlockOK(block, nodes)
      /\ f[n].number = block.number /\ f[n].aux0 = span.begin /\ f[n].aux1 = span.end
      /\ \A g \in generators : g <= Available(f, n).nodes
      /\ \A t \in datatypes \cup {nodes[g].type : g \in generators} : t < Available(f, n).types

\* Reader::from_container accepts the file.
Opens(f) ==
  LET d == Declarations(f)
      blocks == {n \in DOMAIN f : f[n].kind \in {"records", "transactions"}}
      blackouts == Blackouts(f)
  IN  /\ d.ok /\ d.metadata /\ d.strings > 0
      /\ \A m, n \in blocks : f[m].number = f[n].number => m = n
      /\ \A i \in 2..Len(blackouts) : blackouts[i - 1].time <= blackouts[i].time
      /\ \A n \in blocks :
           Available(f, n).nodes <= Len(d.nodes) /\ BlockOK(f, n)

(***************************************************************************)
(* Queries.                                                                *)
(***************************************************************************)
Outside(section, q) == section.aux0 > q.end \/ section.aux1 < q.begin

Records(f, q) ==
  LET nodes == Nodes(f)
      visit(found, s) == IF Outside(s, q) THEN found
                         ELSE found \o QueryRecordBlock(nodes, s.body, q)
  IN  FoldLeft(visit, << >>, Body(f, "records"))

Transactions(f, q) ==
  LET visit(found, s) == IF Outside(s, q) THEN found
                         ELSE found \o QueryTransactionBlock(s.body, q)
  IN  FoldLeft(visit, << >>, Body(f, "transactions"))

Relations(f, endpoint, incoming) ==
  LET visit(found, s) == found \o QueryRelations(s.body, endpoint, incoming)
  IN  FoldLeft(visit, << >>, Body(f, "transactions"))

ScanRelations(f) ==
  LET pages(s) == FlattenSeq([p \in DOMAIN s.body.pages |-> PageRelations(s.body.pages[p])])
  IN  FoldLeft(LAMBDA found, s : found \o pages(s), << >>, Body(f, "transactions"))

\* lookup: the record with an identifier: an owner, a located record, or
\* the owner of an embedded one.
Lookup(f, id) ==
  LET owner == Transactions(f, [TransactionQuery EXCEPT !.id = id])
      located == Records(f, [RecordQuery EXCEPT !.id = id])
      holder == Transactions(f, [TransactionQuery EXCEPT !.embedded = id])
  IN  CASE owner # << >>   -> [how |-> "owner", row |-> owner[1]]
        [] owner = << >> /\ located # << >> -> [how |-> "located", row |-> located[1]]
        [] owner = << >> /\ located = << >> /\ holder # << >> ->
             [how |-> "embedded", row |-> holder[1]]
        [] OTHER -> [how |-> "missing", row |-> << >>]

\* expand: the located records of an owner, through its locators.
Expand(f, owner) ==
  LET nodes == Nodes(f)
      blocks == {f[n] : n \in {m \in DOMAIN f : f[m].kind = "records"}}
      q == [RecordQuery EXCEPT !.parent = owner.id, !.logs = FALSE]
      visit(found, number) ==
        LET named == {s \in blocks : s.number = number}
        IN  IF named = {} THEN [found EXCEPT !.missing = @ \cup {number}]
            ELSE [found EXCEPT !.located = @ \o QueryRecordBlock(
                                                 nodes, (CHOOSE s \in named : TRUE).body, q)]
      all == FoldLeft(visit, [located |-> << >>, missing |-> {}], owner.blocks)
  IN  [all EXCEPT !.located = SetToSortSeq(ToSet(@), LAMBDA a, b : a.id < b.id)]

\* clock_period: 0 where the code reports a corrupt stretch.
ClockPeriod(t) ==
  IF t.begin = t.end THEN IF t.period = 0 THEN 1 ELSE 0
  ELSE IF t.period # 0 /\ (t.end - t.begin) % t.period = 0 THEN t.period ELSE 0

Corrupt == -2   \* Error::Corrupt

\* cycle_at: Unset before the first edge.
CycleAt(f, clock, time) ==
  LET found == Transactions(f, [TransactionQuery EXCEPT !.generator = clock])
      stretches == SetToSortSeq(ToSet(found), LAMBDA a, b : a.begin < b.begin)
      step(acc, t) ==
        LET period == ClockPeriod(t)
        IN  IF acc.answer = Corrupt \/ period = 0 \/ t.begin <= acc.end
            THEN [acc EXCEPT !.answer = Corrupt]
            ELSE [next |-> acc.next + (t.end - t.begin) \div period + 1, end |-> t.end,
                  answer |-> IF time < t.begin THEN acc.answer
                             ELSE acc.next + (Min({time, t.end}) - t.begin) \div period]
  IN  FoldLeft(step, [next |-> 0, end |-> Unset, answer |-> Unset], stretches).answer

\* Mutant: the bounds of the blocks, which say nothing of embedded records.
TimeRangeOfBlocks(f) ==
  LET held(s) == \/ s.kind = "records"
                 \/ s.kind = "transactions" /\ s.body.bounds.transactions # 0
      times == UNION {{f[n].aux0, f[n].aux1} : n \in {m \in DOMAIN f : held(f[m])}}
  IN  IF times = {} THEN << >> ELSE <<Min(times), Max(times)>>

\* time_range without the wave blocks: embedded records are looked at only
\* on pages that have some.
TimeRange(f) ==
  LET stageEnd(t, e) == Max({IF e.end = Unset THEN t.end ELSE e.end, e.begin})
      pageTimes(ids, page) ==
        {page.bounds.begin, page.bounds.end} \cup
        (IF page.bounds.maxEmbedded = 0 THEN {}
         ELSE UNION {{e.time : e \in ToSet(t.events)}
                     \cup UNION {{e.begin, stageEnd(t, e)} : e \in ToSet(t.stages)} :
                       t \in ToSet(PageTransactions(ids, page))})
      times(s) == CASE s.kind = "records" -> {s.aux0, s.aux1}
                    [] s.kind = "transactions" /\ s.body.bounds.transactions # 0 ->
                         UNION {pageTimes(s.body.ids, page) : page \in
                                  {q \in ToSet(s.body.pages) : q.bounds.transactions # 0}}
                    [] OTHER -> {}
      all == UNION {times(f[n]) : n \in DOMAIN f}
  IN  IF all = {} THEN << >> ELSE <<Min(all), Max(all)>>

\* ending: the record of the ending source, or what the file shows.
EndingOf(f, complete) ==
  LET nodes == Nodes(f)
      sources == {n \in DOMAIN nodes : nodes[n].kind = "log" /\ nodes[n].ending}
      rows == SelectSeq(Records(f, [RecordQuery EXCEPT !.kind = "log"]),
                        LAMBDA r : r.generator \in sources)
  IN  CASE Len(rows) > 1 -> "corrupt"
        [] Len(rows) = 1 -> "recorded"
        [] OTHER -> IF complete THEN "closed" ELSE "recovered"

(***************************************************************************)
(* Activity of generators (activity/generators.rs): the reader visits the  *)
(* time each record covers, and the ranges of a generator are merged as    *)
(* they come.  A stage ends before its end.                                *)
(***************************************************************************)
ActivityRecords(f) ==
  LET nodes == Nodes(f)
      ofRecord(r) == [generator |-> r.generator, begin |-> r.begin,
                      end |-> IF nodes[r.generator].kind = "stage" /\ r.end > r.begin
                              THEN r.end - 1 ELSE r.end]
      rows(s) == IF s.kind = "records"
                 THEN FlattenSeq([i \in DOMAIN s.body.segments |->
                                    SegmentRows(nodes, s.body.segments[i])])
                 ELSE FlattenSeq([p \in DOMAIN s.body.pages |->
                                    PageTransactions(s.body.ids, s.body.pages[p])])
      blocks == SelectSeq(f, LAMBDA s : s.kind \in {"records", "transactions"})
      all == FlattenSeq([k \in DOMAIN blocks |-> rows(blocks[k])])
  IN  [i \in DOMAIN all |-> ofRecord(all[i])]

\* Mutant: a range that only touches the next one is kept apart from it.
MergeRangeApart(ranges, r) ==
  LET own == {x \in ranges : x.generator = r.generator}
      met == {x \in own : x.begin <= r.end /\ x.end >= r.begin}
  IN  (ranges \ met) \cup {[generator |-> r.generator,
                            begin |-> Min({x.begin : x \in met \cup {r}}),
                            end |-> Max({x.end : x \in met \cup {r}})]}

\* collect: the range before takes the new one in if it reaches it, then the
\* ranges after it are absorbed one by one.
MergeRange(ranges, r) ==
  LET own == {x \in ranges : x.generator = r.generator}
      before == {x \in own : x.begin <= r.begin}
      last == CHOOSE x \in before : \A y \in before : y.begin <= x.begin
      joins == before # {} /\ last.end >= r.begin - 1
      begin == IF joins THEN last.begin ELSE r.begin
      after == Ascending({x.begin : x \in {y \in own : y.begin > begin}})
      absorb(acc, b) == LET x == CHOOSE y \in own : y.begin = b
                        IN  IF ~acc.stopped /\ b <= acc.end + 1
                            THEN [acc EXCEPT !.end = Max({@, x.end}), !.gone = @ \cup {x}]
                            ELSE [acc EXCEPT !.stopped = TRUE]
      start == [end |-> IF joins THEN Max({r.end, last.end}) ELSE r.end,
                gone |-> IF joins THEN {last} ELSE {}, stopped |-> FALSE]
      all == FoldLeft(absorb, start, after)
  IN  IF joins /\ r.end <= last.end THEN ranges
      ELSE (ranges \ all.gone) \cup {[generator |-> r.generator, begin |-> begin, end |-> all.end]}

GeneratorRanges(f) == FoldLeft(MergeRange, {}, ActivityRecords(f))

(***************************************************************************)
(* Validation.                                                             *)
(***************************************************************************)
\* Every record with where it is stored: kind, parent and block.
Identities(f) ==
  LET nodes == Nodes(f)
      located(s) == {[id |-> r.id, kind |-> nodes[r.generator].kind, parent |-> r.parent,
                      block |-> s.number] :
                       r \in ToSet(QueryRecordBlock(nodes, s.body, RecordQuery))}
      owned(s, t) ==
        {[id |-> t.id, kind |-> nodes[t.generator].kind, parent |-> t.parent,
          block |-> s.number]}
        \cup {[id |-> id, kind |-> "embedded", parent |-> t.id, block |-> s.number] :
                id \in Embedded(t)}
      of(s) == CASE s.kind = "records" -> located(s)
                 [] s.kind = "transactions" ->
                      UNION {owned(s, t) : t \in
                               ToSet(QueryTransactionBlock(s.body, TransactionQuery))}
                 [] OTHER -> {}
  IN  UNION {of(f[n]) : n \in DOMAIN f}

\* How many records the blocks hold, to tell a duplicate from one record.
RecordCount(f) ==
  LET count(s) ==
        CASE s.kind = "records" -> s.body.count
          [] s.kind = "transactions" ->
               LET rows == QueryTransactionBlock(s.body, TransactionQuery)
               IN  Total([i \in DOMAIN rows |-> 1 + Len(rows[i].events) + Len(rows[i].stages)])
          [] OTHER -> 0
  IN  Total([n \in DOMAIN f |-> count(f[n])])

\* What validate could not resolve.
Missing(f) ==
  LET nodes == Nodes(f)
      records == Identities(f)
      known == {r.id : r \in records}
      owners == ToSet(Transactions(f, TransactionQuery))
      numbers == {f[n].number : n \in {m \in DOMAIN f : f[m].kind \in {"records", "transactions"}}}
      edges == ToSet(ScanRelations(f))
  IN  {[kind |-> "parent", target |-> r.parent] :
         r \in {x \in records : x.parent # NoRecord /\ x.parent \notin known}}
      \cup {[kind |-> "relation", target |-> id] :
              id \in UNION {{e.source, e.destination} : e \in edges} \ (known \cup {NoRecord})}
      \cup {[kind |-> "childBlock", target |-> n] :
              n \in UNION {ToSet(t.blocks) : t \in owners} \ numbers}
      \cup {[kind |-> "clock", target |-> n] :
              n \in {nodes[m].clock : m \in DOMAIN nodes} \ (DOMAIN nodes \cup {0})}

\* Reader::validate reports no corruption; complete recordings may miss
\* nothing.
Validates(f, complete) ==
  LET nodes == Nodes(f)
      records == Identities(f)
      owners == ToSet(Transactions(f, TransactionQuery))
      actual(id) == {r.block : r \in {x \in records : /\ x.parent = id
                                                      /\ x.kind \in {"stage", "event"}}}
      stretches(g) == {t \in owners : t.generator = g}
      clocks == {n \in DOMAIN nodes : nodes[n].kind = "clock"}
      blockKind(n) == {f[m].kind : m \in {k \in DOMAIN f : f[k].number = n}}
  IN  /\ Cardinality(records) = RecordCount(f)
      /\ Cardinality({r.id : r \in records}) = Cardinality(records)
      /\ \A n \in DOMAIN f :
           LET strings == Available(f, n).strings
           IN  /\ f[n].kind = "records" =>
                    \A r \in ToSet(QueryRecordBlock(nodes, f[n].body, RecordQuery)) :
                      ValidRecord(r, nodes[r.generator].kind)
               /\ f[n].kind = "transactions" =>
                    /\ \A t \in ToSet(QueryTransactionBlock(f[n].body, TransactionQuery)) :
                         ValidTransaction(t, nodes[t.generator].kind, strings)
                    /\ \A p \in DOMAIN f[n].body.pages :
                         \A r \in ToSet(PageRelations(f[n].body.pages[p])) : r.kind < strings
      /\ \A n \in DOMAIN nodes :
           nodes[n].clock \in DOMAIN nodes => nodes[nodes[n].clock].kind = "clock"
      /\ \A r, p \in records :
           p.id = r.parent => p.kind = "transaction" /\ p.id < r.id
      /\ \A t \in owners :
           /\ actual(t.id) \subseteq ToSet(t.blocks)
           /\ \A n \in ToSet(t.blocks) :
                blockKind(n) # {} => blockKind(n) = {"records"} /\ n \in actual(t.id)
      /\ \A g \in clocks : \A s, t \in stretches(g) :
           /\ ClockPeriod(s) # 0
           /\ s.begin < t.begin => s.end < t.begin
           /\ s.begin = t.begin => s = t
      /\ complete => Missing(f) = {}
=============================================================================
