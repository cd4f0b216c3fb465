------------------------------ MODULE Activity ------------------------------
(***************************************************************************)
(* The activity index of a recording (activity/): which signals change in  *)
(* a window of time, answered from a sidecar file without opening the wave *)
(* blocks.  A builder scans the blocks in order and turns the changes of a *)
(* signal into stretches, maximal runs of times without a gap; a stretch   *)
(* may cross the end of a block, so a block's section holds only those     *)
(* that are known to have ended, as lengths and silences from the one      *)
(* before, and the tail of the file closes the rest.  The index decodes    *)
(* the sections and answers from the stretches.                            *)
(*                                                                         *)
(* The index is a function of the blocks.                                  *)
(***************************************************************************)
EXTENDS Waveform

TMin == IF blocks = << >> THEN 0 ELSE blocks[1].start

(***************************************************************************)
(* Scanning a block.                                                       *)
(***************************************************************************)
\* GroupView: the column of a signal, or of the signal it is an alias of.
ColumnOf(block, s) ==
  block.columns[IF s \in DOMAIN block.aliases THEN block.aliases[s] ELSE s]

\* for_each_tidx: the steps of a column, without its values.
Indices(entries) ==
  LET index[i \in 0..Len(entries)] == IF i = 0 THEN 0 ELSE index[i - 1] + entries[i].delta
  IN  [i \in DOMAIN entries |-> index[i]]

\* feed: the times of a column.
FedTimes(block, s) ==
  LET indices == Indices(ColumnOf(block, s))
      times == Times(block)
  IN  [i \in DOMAIN indices |-> times[indices[i] + 1]]

\* BlockScan::push: a change at the first time of the recording is no
\* activity; one right after the last extends it.
Push(stretches, time) ==
  IF time <= TMin \/ (stretches # << >> /\ time <= Last(stretches).end) THEN stretches
  ELSE IF stretches # << >> /\ time = Last(stretches).end + 1
       THEN [stretches EXCEPT ![Len(stretches)].end = time]
       ELSE Append(stretches, [start |-> time, end |-> time])

ScanBlock(block, s) ==
  LET times == IF s > block.signals THEN << >> ELSE FedTimes(block, s)
      pushed[i \in 0..Len(times)] ==
        IF i = 0 THEN << >> ELSE Push(pushed[i - 1], times[i])
  IN  pushed[Len(times)]

(***************************************************************************)
(* The builder.  Sig is what it remembers of a signal: the time of its     *)
(* last change, the start of its open stretch and whether that has more    *)
(* than one change.                                                        *)
(***************************************************************************)
Sig == [last |-> 0, open |-> 0, gap |-> 0]

\* Mutant: a stretch that goes on in the next block is closed at its start.
StepCutting(row, stretch) ==
  LET s == row.sig
      gap == IF stretch.end > stretch.start THEN 1 ELSE 0
  IN  [sig |-> [last |-> stretch.end, open |-> stretch.start, gap |-> gap],
       closed |-> IF s.last # 0
                  THEN Append(row.closed, [length |-> s.last - s.open,
                                           silence |-> stretch.start - s.last, gap |-> s.gap])
                  ELSE row.closed]

Step(row, stretch) ==
  LET s == row.sig
      adjacent == stretch.start = s.last + 1
      apart == s.last # 0 /\ stretch.start > s.last + 1
      gap == IF stretch.end > stretch.start \/ (s.last # 0 /\ adjacent) THEN 1
             ELSE IF apart THEN 0 ELSE s.gap
      opens == s.last = 0 \/ apart
  IN  [sig |-> [last |-> stretch.end,
                open |-> IF opens THEN stretch.start ELSE s.open,
                gap |-> gap],
       closed |-> IF apart
                  THEN Append(row.closed, [length |-> s.last - s.open,
                                           silence |-> stretch.start - s.last, gap |-> s.gap])
                  ELSE row.closed]

RowOf(sig, stretches) ==
  LET at[i \in 0..Len(stretches)] ==
        IF i = 0 THEN [sig |-> sig, closed |-> << >>] ELSE Step(at[i - 1], stretches[i])
  IN  at[Len(stretches)]

\* Builder::add and encode for one signal: the section of a block has a row
\* of it if it changes for the first time or closes a stretch.
Add(builder, block, s) ==
  LET scan == ScanBlock(block, s)
      row == RowOf(builder.sig, scan)
      initial == builder.sig.last = 0
  IN  IF scan = << >> \/ (~initial /\ row.closed = << >>)
      THEN [sig |-> row.sig, rows |-> builder.rows]
      ELSE [sig |-> row.sig,
            rows |-> Append(builder.rows,
                       [start |-> block.start, end |-> block.end, closed |-> row.closed,
                        first |-> IF initial THEN scan[1].start - block.start ELSE -1])]

Built(s) ==
  LET at[i \in 0..Len(blocks)] ==
        IF i = 0 THEN [sig |-> Sig, rows |-> << >>] ELSE Add(at[i - 1], blocks[i], s)
  IN  at[Len(blocks)]

(***************************************************************************)
(* Index::decode_with: start is where the next stretch of a signal begins, *)
(* 0 for none; ok is FALSE once a check of the decoder failed.             *)
(***************************************************************************)
Closes(list, closed, row) ==
  LET end == list.start + closed.length
  IN  [start |-> end + closed.silence,
       stretches |-> Append(list.stretches, [start |-> list.start, end |-> end]),
       ok |-> list.ok /\ list.start # 0 /\ closed.silence > 1
              /\ end + closed.silence <= row.end
              /\ (closed.length = 0) = (closed.gap = 0)]

ReadRow(list, row) ==
  LET first == row.start + row.first
      opened == IF row.first < 0 THEN list
                ELSE [list EXCEPT !.start = first,
                                  !.ok = @ /\ list.start = 0 /\ first > TMin /\ first <= row.end]
      at[i \in 0..Len(row.closed)] ==
        IF i = 0 THEN opened ELSE Closes(at[i - 1], row.closed[i], row)
  IN  at[Len(row.closed)]

\* finish wrote a tail that closes the stretch a signal has open at the end.
ReadTail(list, sig) ==
  LET end == list.start + (sig.last - sig.open)
  IN  [start |-> 0,
       stretches |-> Append(list.stretches, [start |-> list.start, end |-> end]),
       ok |-> list.ok /\ list.start # 0 /\ end <= Last(blocks).end
              /\ (sig.last = sig.open) = (sig.gap = 0)]

Decode(built) ==
  LET at[i \in 0..Len(built.rows)] ==
        IF i = 0 THEN [start |-> 0, stretches |-> << >>, ok |-> TRUE]
        ELSE ReadRow(at[i - 1], built.rows[i])
      list == at[Len(built.rows)]
  IN  IF built.sig.last # 0 THEN ReadTail(list, built.sig) ELSE list

\* classify: the first stretch that has not ended before the window.
Classify(stretches, first, last) ==
  LET ended == {i \in DOMAIN stretches : stretches[i].end < first}
      next == Cardinality(ended) + 1
  IN  next <= Len(stretches) /\ stretches[next].start <= last

(***************************************************************************)
(* Properties.                                                             *)
(***************************************************************************)
\* The index accepts what the builder wrote, and for every window it names
\* exactly the signals of which a reader finds a change there, after the
\* first time of the recording, wherever blocks cut their stretches.
ActivityExact ==
  Between =>
  \A s \in Signals :
    LET list == Decode(Built(s))
        times == {c.time : c \in Range(Changes(s, TMin + 1, MaxTime))}
    IN  /\ list.ok /\ list.start = 0
        /\ \A w \in Windows :
             Classify(list.stretches, w[1], w[2]) <=> (w[1]..w[2]) \cap times # {}
=============================================================================
