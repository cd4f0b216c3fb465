----------------------------- MODULE TraceFile ------------------------------
(***************************************************************************)
(* The sections of a recording other than its wave blocks, and the reader  *)
(* of them (trace/): blocks of located records (records.rs) and of         *)
(* transactions and relations (transactions/), with the bounds by which a  *)
(* query skips them; the declarations they rest on (declarations.rs); and  *)
(* Reader::validate (trace/validation.rs).                                 *)
(*                                                                         *)
(* A file is the sequence of its sections.  Payload bytes are left out, a  *)
(* string, type or node is its number, and a page holds PageRows rows      *)
(* where the code counts bytes.  The columns of a page are modelled as the *)
(* code stores them: differences from the row before.                      *)
(***************************************************************************)
EXTENDS Integers, Sequences, FiniteSets, FiniteSetsExt, SequencesExt

CONSTANTS
  PageRows,      \* policy.page_bytes: rows that fill a page
  SeparateLogs   \* policy.separate_logs

ASSUME PageAssumption == PageRows \in Nat \ {0} /\ SeparateLogs \in BOOLEAN

Unset == -1        \* None in a query, an open embedded stage
Forever == 1000  \* u64::MAX
NoRecord == 0
Truncated == 4   \* the status of a transaction that its recording ended

Total(seq) == FoldLeft(LAMBDA sum, x : sum + x, 0, seq)
Lowest(S) == IF S = {} THEN 0 ELSE Min(S)
Highest(S) == IF S = {} THEN 0 ELSE Max(S)
Chunks(seq, n) ==
  [i \in 1..((Len(seq) + n - 1) \div n) |-> SubSeq(seq, (i - 1) * n + 1, Min({i * n, Len(seq)}))]
Ascending(S) ==
  [i \in 1..Cardinality(S) |-> CHOOSE x \in S : Cardinality({y \in S : y < x}) = i - 1]

\* A column of differences, and the column it stands for.
Deltas(column) == [i \in DOMAIN column |-> column[i] - (IF i = 1 THEN 0 ELSE column[i - 1])]
Sums(deltas) ==
  LET sum[i \in 0..Len(deltas)] == IF i = 0 THEN 0 ELSE sum[i - 1] + deltas[i]
  IN  [i \in DOMAIN deltas |-> sum[i]]

(***************************************************************************)
(* Blocks of located records: stages, events and logs.                     *)
(***************************************************************************)
ValidRecord(r, kind) ==
  /\ r.id # 0 /\ r.parent < r.id
  /\ kind \in {"event", "stage", "log"}
  /\ kind # "log" => r.parent # 0
  /\ r.begin <= r.end
  /\ kind # "stage" => r.begin = r.end

\* The columns of a segment: SegmentEncoder::append.
Segment(generator, datatype, kind, rows) ==
  LET ids == {rows[i].id : i \in DOMAIN rows}
      parents == {rows[i].parent : i \in DOMAIN rows} \ {NoRecord}
      before(i) == IF i = 1 THEN [id |-> 0, parent |-> 0, end |-> 0] ELSE rows[i - 1]
  IN  [generator |-> generator, datatype |-> datatype, page |-> 0, count |-> Len(rows),
       minId |-> Min(ids), maxId |-> Max(ids),
       minParent |-> Lowest(parents), maxParent |-> Highest(parents),
       begin |-> Min({rows[i].begin : i \in DOMAIN rows}),
       end |-> Max({rows[i].end : i \in DOMAIN rows}),
       begins |-> [i \in DOMAIN rows |-> rows[i].begin - before(i).end],
       ids |-> [i \in DOMAIN rows |-> rows[i].id - before(i).id],
       parents |-> [i \in DOMAIN rows |->
                      IF kind = "log"
                      THEN IF rows[i].parent = NoRecord THEN 0 ELSE rows[i].id - rows[i].parent
                      ELSE rows[i].parent - before(i).parent],
       lengths |-> [i \in DOMAIN rows |-> rows[i].end - rows[i].begin]]

\* Segments take a new page when they do not fit on the last one, and logs
\* one of their own.
Paged(nodes, segments) ==
  LET place(acc, segment) ==
        LET log == nodes[segment.generator].kind = "log"
            apart == SeparateLogs /\ log /\ acc.activity
            turn == acc.used > 0 /\ (apart \/ acc.used + segment.count > PageRows)
            page == acc.page + (IF turn THEN 1 ELSE 0)
            used == segment.count + (IF turn THEN 0 ELSE acc.used)
            full == used >= PageRows
        IN  [page |-> IF full THEN page + 1 ELSE page,
             used |-> IF full THEN 0 ELSE used,
             activity |-> IF log THEN acc.activity /\ ~apart ELSE TRUE,
             segments |-> Append(acc.segments, [segment EXCEPT !.page = page])]
  IN  FoldLeft(place, [page |-> 1, used |-> 0, activity |-> FALSE, segments |-> << >>],
               segments).segments

RecordBlock(number, nodes, records) ==
  LET key(r) == <<r.generator, r.datatype>>
      seen(keys, r) == IF Contains(keys, key(r)) THEN keys ELSE Append(keys, key(r))
      keys == FoldLeft(seen, << >>, records)
      log(k) == nodes[k[1]].kind = "log"
      ordered == IF SeparateLogs
                 THEN SelectSeq(keys, LAMBDA k : ~log(k)) \o SelectSeq(keys, log)
                 ELSE keys
      cut(k) == LET rows == Chunks(SelectSeq(records, LAMBDA r : key(r) = k), PageRows)
                IN  [i \in DOMAIN rows |-> Segment(k[1], k[2], nodes[k[1]].kind, rows[i])]
      segments == FlattenSeq([i \in DOMAIN ordered |-> cut(ordered[i])])
  IN  [number |-> number, count |-> Len(records),
       minId |-> Min({r.id : r \in ToSet(records)}), maxId |-> Max({r.id : r \in ToSet(records)}),
       begin |-> Min({r.begin : r \in ToSet(records)}),
       end |-> Max({r.end : r \in ToSet(records)}),
       segments |-> Paged(nodes, segments)]

SegmentRows(nodes, s) ==
  LET log == nodes[s.generator].kind = "log"
      ids == Sums(s.ids)
      ends == Sums([i \in DOMAIN s.begins |-> s.begins[i] + s.lengths[i]])
      parents == Sums(s.parents)
  IN  [i \in DOMAIN s.ids |->
         [id |-> ids[i], generator |-> s.generator, datatype |-> s.datatype,
          begin |-> ends[i] - s.lengths[i], end |-> ends[i],
          parent |-> IF ~log THEN parents[i]
                     ELSE IF s.parents[i] = 0 THEN NoRecord ELSE ids[i] - s.parents[i]]]

\* RecordBlockView::new.
RecordBlockOK(block, nodes) ==
  LET segments == block.segments
      all == ToSet(segments)
  IN  /\ block.number # 0 /\ block.count > 0 /\ block.minId # 0
      /\ \A s \in all :
           /\ s.generator \in DOMAIN nodes
           /\ nodes[s.generator].kind \in {"event", "stage", "log"}
           /\ s.count > 0 /\ s.minId # 0
           /\ s.minParent = 0 => s.maxParent = 0 /\ nodes[s.generator].kind = "log"
           /\ s.begin <= s.end
      /\ segments[1].page = 1
      /\ \A i \in 2..Len(segments) : segments[i].page - segments[i - 1].page \in {0, 1}
      /\ Total([i \in DOMAIN segments |-> segments[i].count]) = block.count
      /\ block.minId = Min({s.minId : s \in all}) /\ block.maxId = Max({s.maxId : s \in all})
      /\ block.begin = Min({s.begin : s \in all}) /\ block.end = Max({s.end : s \in all})

RecordQuery ==
  [datatype |-> Unset, generator |-> Unset, parent |-> Unset, id |-> Unset, kind |-> "any",
   begin |-> 0, end |-> Forever, logs |-> TRUE]

\* The rows a query selects, in the order it visits them.
SelectedRow(row, q) ==
  /\ row.begin <= q.end
  /\ IF row.begin = row.end THEN row.begin >= q.begin ELSE row.end > q.begin
  /\ q.parent \in {Unset, row.parent}
  /\ q.id \in {Unset, row.id}

\* Mutant: the first parent of a segment is taken to be outside of it.
SegmentSkippedByParent(nodes, s, q) ==
  q.parent > 0 /\ (q.parent <= s.minParent \/ q.parent > s.maxParent)

SegmentSkipped(nodes, s, q) ==
  LET kind == nodes[s.generator].kind
      type == IF kind = "log" THEN s.datatype ELSE nodes[s.generator].type
  IN  \/ q.datatype \notin {Unset, type}
      \/ q.generator \notin {Unset, s.generator}
      \/ ~q.logs /\ kind = "log"
      \/ q.kind \notin {"any", kind}
      \/ q.id # Unset /\ (q.id < s.minId \/ q.id > s.maxId)
      \/ q.parent > 0 /\ (q.parent < s.minParent \/ q.parent > s.maxParent)
      \/ q.end < s.begin
      \/ q.begin > s.end

QueryRecordBlock(nodes, block, q) ==
  LET visit(found, s) ==
        IF SegmentSkipped(nodes, s, q) THEN found
        ELSE found \o SelectSeq(SegmentRows(nodes, s), LAMBDA r : SelectedRow(r, q))
  IN  FoldLeft(visit, << >>, block.segments)

(***************************************************************************)
(* Blocks of transactions and relations.                                   *)
(***************************************************************************)
NoBounds == [transactions |-> 0, relations |-> 0, minId |-> 0, maxId |-> 0, begin |-> 0,
             end |-> 0, minParent |-> 0, maxParent |-> 0, minEmbedded |-> 0, maxEmbedded |-> 0,
             minFrom |-> 0, maxFrom |-> 0, minTo |-> 0, maxTo |-> 0]

Embedded(t) == {e.id : e \in ToSet(t.events)} \cup {e.id : e \in ToSet(t.stages)}

\* TransactionBounds::add_transaction and add_relation over a page.
PageBounds(txs, relations) ==
  LET ids == {t.id : t \in ToSet(txs)}
      parents == {t.parent : t \in ToSet(txs)} \ {NoRecord}
      embedded == UNION {Embedded(t) : t \in ToSet(txs)}
      from == {r.source : r \in ToSet(relations)}
      to == {r.destination : r \in ToSet(relations)}
  IN  [transactions |-> Len(txs), relations |-> Len(relations),
       minId |-> Lowest(ids), maxId |-> Highest(ids),
       begin |-> Lowest({t.begin : t \in ToSet(txs)}), end |-> Highest({t.end : t \in ToSet(txs)}),
       minParent |-> Lowest(parents), maxParent |-> Highest(parents),
       minEmbedded |-> Lowest(embedded), maxEmbedded |-> Highest(embedded),
       minFrom |-> Lowest(from), maxFrom |-> Highest(from),
       minTo |-> Lowest(to), maxTo |-> Highest(to)]

\* TransactionBounds::merge: what a side does not have takes no part.
MergeBounds(a, b) ==
  LET low(x, y, hasX, hasY) == Lowest((IF hasX THEN {x} ELSE {}) \cup (IF hasY THEN {y} ELSE {}))
      high(x, y) == Max({x, y})
      tx(n) == n.transactions # 0
      rel(n) == n.relations # 0
  IN  [transactions |-> a.transactions + b.transactions, relations |-> a.relations + b.relations,
       minId |-> low(a.minId, b.minId, tx(a), tx(b)), maxId |-> high(a.maxId, b.maxId),
       begin |-> low(a.begin, b.begin, tx(a), tx(b)), end |-> high(a.end, b.end),
       minParent |-> low(a.minParent, b.minParent, a.maxParent # 0, b.maxParent # 0),
       maxParent |-> high(a.maxParent, b.maxParent),
       minEmbedded |-> low(a.minEmbedded, b.minEmbedded, a.maxEmbedded # 0, b.maxEmbedded # 0),
       maxEmbedded |-> high(a.maxEmbedded, b.maxEmbedded),
       minFrom |-> low(a.minFrom, b.minFrom, rel(a), rel(b)),
       maxFrom |-> high(a.maxFrom, b.maxFrom),
       minTo |-> low(a.minTo, b.minTo, rel(a), rel(b)), maxTo |-> high(a.maxTo, b.maxTo)]

ValidTransaction(t, kind, strings) ==
  /\ t.id # 0 /\ t.parent < t.id /\ t.begin <= t.end
  /\ t.status <= 4 /\ t.span <= 5
  /\ kind \in {"transaction", "clock"}
  /\ \A i \in DOMAIN t.events : t.events[i].id > t.id /\ t.events[i].name < strings
  /\ \A i \in DOMAIN t.stages : /\ t.stages[i].id > t.id /\ t.stages[i].name < strings
                                /\ t.stages[i].end # Unset => t.stages[i].begin <= t.stages[i].end
  /\ \A i \in 2..Len(t.blocks) : t.blocks[i - 1] < t.blocks[i]
  /\ \A a \in t.keys : a < strings
  /\ kind = "clock" => /\ t.parent = NoRecord /\ t.status \in {0, Truncated} /\ t.span = 0
                       /\ t.events = << >> /\ t.stages = << >> /\ t.blocks = << >>

\* Status and span kind share a byte.
Class(t) == t.span * 16 + t.status

\* The columns of a page (page.rs).  Columns of embedded records and of
\* locators run over the whole page, counts say whose they are.
EncodedPage(local, txs, relations) ==
  LET n == DOMAIN txs
      events == FlattenSeq([i \in n |-> txs[i].events])
      stages == FlattenSeq([i \in n |-> txs[i].stages])
      owner(counts, k) == Min({i \in n : Total(SubSeq(counts, 1, i)) >= k})
      eventCounts == [i \in n |-> Len(txs[i].events)]
      stageCounts == [i \in n |-> Len(txs[i].stages)]
  IN  [bounds |-> PageBounds(txs, relations), scalar |-> FALSE,
       ids |-> Deltas([i \in n |-> txs[i].id]),
       local |-> [i \in n |-> local[txs[i].generator]],
       begins |-> Deltas([i \in n |-> txs[i].begin]),
       lengths |-> [i \in n |-> txs[i].end - txs[i].begin],
       classes |-> [i \in n |-> Class(txs[i])],
       parents |-> [i \in n |-> IF txs[i].parent = NoRecord THEN 0 ELSE txs[i].id - txs[i].parent],
       keys |-> [i \in n |-> txs[i].keys],
       periods |-> [i \in n |-> txs[i].period],
       eventCounts |-> eventCounts,
       eventTimes |-> [k \in DOMAIN events |-> events[k].time - txs[owner(eventCounts, k)].begin],
       eventNames |-> [k \in DOMAIN events |-> events[k].name],
       eventIds |-> Deltas([k \in DOMAIN events |-> events[k].id]),
       stageCounts |-> stageCounts,
       stageBegins |-> [k \in DOMAIN stages |-> stages[k].begin - txs[owner(stageCounts, k)].begin],
       stageEnds |-> [k \in DOMAIN stages |->
                        IF stages[k].end = Unset THEN 0 ELSE stages[k].end - stages[k].begin + 1],
       stageNames |-> [k \in DOMAIN stages |-> stages[k].name],
       stageIds |-> Deltas([k \in DOMAIN stages |-> stages[k].id]),
       blocks |-> [i \in n |-> Deltas(txs[i].blocks)],
       kinds |-> [j \in DOMAIN relations |-> relations[j].kind],
       from |-> Deltas([j \in DOMAIN relations |-> relations[j].source]),
       to |-> [j \in DOMAIN relations |-> relations[j].destination - relations[j].source]]

\* A page of plain transactions (scalar.rs): values, not differences.
ScalarPage(local, txs) ==
  [bounds |-> PageBounds(txs, << >>), scalar |-> TRUE,
   ids |-> [i \in DOMAIN txs |-> txs[i].id],
   local |-> [i \in DOMAIN txs |-> local[txs[i].generator]],
   begins |-> [i \in DOMAIN txs |-> txs[i].begin],
   lengths |-> [i \in DOMAIN txs |-> txs[i].end - txs[i].begin],
   classes |-> [i \in DOMAIN txs |-> Class(txs[i])],
   parents |-> [i \in DOMAIN txs |-> txs[i].parent]]

Eligible(nodes, txs) ==
  /\ txs # << >>
  /\ \A i \in DOMAIN txs :
       /\ nodes[txs[i].generator].kind = "transaction"
       /\ nodes[txs[i].generator].type = nodes[txs[1].generator].type
       /\ txs[i].keys = {} /\ txs[i].events = << >> /\ txs[i].stages = << >>
       /\ txs[i].blocks = << >>

TransactionBlock(number, nodes, transactions, relations) ==
  LET sorted == SetToSortSeq(ToSet(transactions), LAMBDA a, b : a.id < b.id)
      ids == Ascending({t.generator : t \in ToSet(transactions)})
      local == [g \in ToSet(ids) |-> CHOOSE i \in DOMAIN ids : ids[i] = g]
      rows == [i \in DOMAIN sorted |-> [tx |-> TRUE, row |-> sorted[i]]]
              \o [j \in DOMAIN relations |-> [tx |-> FALSE, row |-> relations[j]]]
      cut == Chunks(rows, PageRows)
      part(page, tx) == LET kept == SelectSeq(page, LAMBDA r : r.tx = tx)
                        IN  [i \in DOMAIN kept |-> kept[i].row]
      pages == [p \in DOMAIN cut |->
                  IF relations = << >> /\ Eligible(nodes, transactions)
                  THEN ScalarPage(local, part(cut[p], TRUE))
                  ELSE EncodedPage(local, part(cut[p], TRUE), part(cut[p], FALSE))]
  IN  [number |-> number, ids |-> ids, pages |-> pages,
       bounds |-> FoldLeft(LAMBDA b, page : MergeBounds(b, page.bounds), NoBounds, pages)]

PageTransactions(ids, page) ==
  LET n == DOMAIN page.ids
      absolute == IF page.scalar THEN page.ids ELSE Sums(page.ids)
      begins == IF page.scalar THEN page.begins ELSE Sums(page.begins)
      slice(counts, i) == LET first == Total(SubSeq(counts, 1, i - 1))
                          IN  first + 1..first + counts[i]
      event(i, k) == [id |-> Sums(page.eventIds)[k], time |-> begins[i] + page.eventTimes[k],
                      name |-> page.eventNames[k]]
      stage(i, k) == LET begin == begins[i] + page.stageBegins[k]
                     IN  [id |-> Sums(page.stageIds)[k], name |-> page.stageNames[k],
                          begin |-> begin,
                          end |-> IF page.stageEnds[k] = 0 THEN Unset
                                  ELSE begin + page.stageEnds[k] - 1]
      listed(S, item(_)) == LET order == Ascending(S) IN [k \in DOMAIN order |-> item(order[k])]
  IN  [i \in n |->
         [id |-> absolute[i], generator |-> ids[page.local[i]], begin |-> begins[i],
          end |-> begins[i] + page.lengths[i],
          status |-> page.classes[i] % 16, span |-> page.classes[i] \div 16,
          parent |-> IF page.scalar THEN page.parents[i]
                     ELSE IF page.parents[i] = 0 THEN NoRecord ELSE absolute[i] - page.parents[i],
          keys |-> IF page.scalar THEN {} ELSE page.keys[i],
          period |-> IF page.scalar THEN 0 ELSE page.periods[i],
          events |-> IF page.scalar THEN << >>
                     ELSE listed(slice(page.eventCounts, i), LAMBDA k : event(i, k)),
          stages |-> IF page.scalar THEN << >>
                     ELSE listed(slice(page.stageCounts, i), LAMBDA k : stage(i, k)),
          blocks |-> IF page.scalar THEN << >> ELSE Sums(page.blocks[i])]]

PageRelations(page) ==
  IF page.scalar THEN << >>
  ELSE LET from == Sums(page.from)
       IN  [j \in DOMAIN page.from |-> [kind |-> page.kinds[j], source |-> from[j],
                                        destination |-> from[j] + page.to[j]]]

\* TransactionBlockView::new.
TransactionBlockOK(block, nodes) ==
  LET pages == block.pages
      carry == {p \in DOMAIN pages : pages[p].bounds.transactions # 0}
  IN  /\ block.number # 0
      /\ (block.bounds.transactions # 0) = (block.ids # << >>)
      /\ \A i \in DOMAIN block.ids :
           /\ block.ids[i] \in DOMAIN nodes
           /\ nodes[block.ids[i]].kind \in {"transaction", "clock"}
           /\ i > 1 => block.ids[i - 1] < block.ids[i]
      /\ \A p \in DOMAIN pages : pages[p].bounds.transactions + pages[p].bounds.relations > 0
      /\ \A p \in carry, q \in DOMAIN pages : q < p =>
           q \in carry /\ pages[q].bounds.maxId < pages[p].bounds.minId

TransactionQuery ==
  [generator |-> Unset, parent |-> Unset, id |-> Unset, embedded |-> Unset,
   begin |-> 0, end |-> Forever]

MatchesTransaction(t, q) ==
  /\ t.begin <= q.end /\ t.end >= q.begin
  /\ q.generator \in {Unset, t.generator}
  /\ q.parent \in {Unset, t.parent} /\ q.id \in {Unset, t.id}
  /\ q.embedded = Unset \/ q.embedded \in Embedded(t)

DirectoryMatches(block, q) ==
  /\ block.bounds.transactions # 0
  /\ q.generator = Unset \/ Contains(block.ids, q.generator)
  /\ q.id = Unset \/ q.id \in block.bounds.minId..block.bounds.maxId
  /\ q.embedded = Unset \/ q.embedded \in block.bounds.minEmbedded..block.bounds.maxEmbedded

PageSkipped(bounds, q) ==
  \/ bounds.transactions = 0
  \/ bounds.begin > q.end \/ bounds.end < q.begin
  \/ q.parent > 0 /\ q.parent \notin bounds.minParent..bounds.maxParent
  \/ q.id # Unset /\ q.id \notin bounds.minId..bounds.maxId
  \/ q.embedded # Unset /\ q.embedded \notin bounds.minEmbedded..bounds.maxEmbedded

QueryTransactionBlock(block, q) ==
  LET visit(found, page) ==
        IF PageSkipped(page.bounds, q) THEN found
        ELSE found \o SelectSeq(PageTransactions(block.ids, page),
                                LAMBDA t : MatchesTransaction(t, q))
  IN  IF DirectoryMatches(block, q) THEN FoldLeft(visit, << >>, block.pages) ELSE << >>

QueryRelations(block, endpoint, incoming) ==
  LET end(r) == IF incoming THEN r.destination ELSE r.source
      visit(found, page) ==
        LET b == page.bounds
            low == IF incoming THEN b.minTo ELSE b.minFrom
            high == IF incoming THEN b.maxTo ELSE b.maxFrom
        IN  IF b.relations = 0 \/ endpoint \notin low..high THEN found
            ELSE found \o SelectSeq(PageRelations(page), LAMBDA r : end(r) = endpoint)
  IN  FoldLeft(visit, << >>, block.pages)
=============================================================================
