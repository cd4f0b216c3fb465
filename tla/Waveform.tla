------------------------------ MODULE Waveform ------------------------------
(***************************************************************************)
(* Waveforms, from the signal values a program emits to the values a       *)
(* reader finds: the recorder's columns (recording/waveform.rs), the wave  *)
(* blocks they are written to (block.rs, block/encode.rs), and the reader  *)
(* of those blocks (trace/waveform.rs).                                    *)
(*                                                                         *)
(* Signals come in groups of GroupSize.  A block keeps, for each group     *)
(* with a change in it, a frame (the values before the first change) and   *)
(* one column of changes per signal; for every group it names the last     *)
(* block in which the group was dirty, which is where a reader looks when  *)
(* this block has nothing.  A change is stored as a step in the block's    *)
(* table of times; a change of a one-bit signal as a toggle where it can   *)
(* be; a column equal to an earlier one as an alias of it.                 *)
(*                                                                         *)
(* The file only grows by whole blocks, so what a reader finds after a     *)
(* crash is what it finds in `blocks` in some state: the invariants speak  *)
(* of every state.                                                         *)
(***************************************************************************)
EXTENDS Integers, Sequences, FiniteSets, FiniteSetsExt, SequencesExt

CONSTANTS
  GroupSize,    \* metadata.group_size: signals per group
  Declared,     \* the signals the program declares, in order: [kind, event]
  MaxTime,      \* bound: the latest time
  MaxEmits,     \* bound: emissions of a behaviour
  MaxOthers,    \* bound: others, switches of dumping and advances
  RecordLimit,  \* encoding.waveform_records: changes after which a block ends
  AliasSize     \* entries from which a column is worth an alias

ASSUME ConstantsOK ==
  /\ {GroupSize, RecordLimit, AliasSize} \subseteq Nat \ {0}
  /\ {MaxTime, MaxEmits, MaxOthers} \subseteq Nat
  /\ Declared \in Seq([kind : [form : {"bit", "bits", "bytes"}, states : {2, 4, 9}],
                       event : BOOLEAN])

\* The elements of a sequence that pass a test, in order: SelectSeq, which
\* no prover knows, as a recursive function.
Among(seq, Test(_)) ==
  LET among[i \in 0..Len(seq)] ==
        IF i = 0 THEN << >>
        ELSE IF Test(seq[i]) THEN Append(among[i - 1], seq[i]) ELSE among[i - 1]
  IN  among[Len(seq)]

(***************************************************************************)
(* A kind is a form (one bit, a bit vector, or bytes: a real or a value of *)
(* variable length) and its alphabet.  A vector is represented by the code *)
(* of one of its positions: what matters is whether it is two-state.  Codes *)
(* are the values the program emits: both bits, or a two-state value and   *)
(* one with an unknown in it.                                              *)
(***************************************************************************)
Signals == 1..Len(Declared)
Group(s) == (s - 1) \div GroupSize
Groups(n) == 0..((n + GroupSize - 1) \div GroupSize) - 1
Members(g, n) == (g * GroupSize + 1)..Min({(g + 1) * GroupSize, n})
Codes(kind) == IF kind.states = 2 THEN {0, 1} ELSE {1, 2}
DefaultCode(kind) == IF kind.states = 2 THEN 0 ELSE 2
NoBlock == 0
NoCode == 255
Panic == 256

VARIABLES
  wave,         \* struct Waveform: columns and the block under construction
  blocks,       \* the wave blocks of the file
  dumping,      \* Backend.dump_active
  deduplicate,  \* encoding.waveform_deduplicate
  history,      \* ghost: every emission that was to be recorded
  kept,         \* ghost: how many of them the blocks account for
  emits, others \* bound counters

vars == <<wave, blocks, dumping, deduplicate, history, kept, emits, others>>

Column(signal) ==
  [kind |-> signal.kind, event |-> signal.event, emitted |-> FALSE,
   last |-> DefaultCode(signal.kind), entries |-> << >>, index |-> 0, code |-> NoCode]

Init ==
  /\ wave = [columns |-> << >>, frames |-> << >>, times |-> << >>, usedTime |-> FALSE,
             progress |-> FALSE, records |-> 0, previous |-> << >>]
  /\ blocks = << >>
  /\ dumping = TRUE
  /\ deduplicate \in BOOLEAN
  /\ history = << >> /\ kept = 0
  /\ emits = 0 /\ others = 0

(***************************************************************************)
(* The recorder.                                                           *)
(***************************************************************************)
\* A time no change was recorded at is replaced, except the first of a block.
AdvanceTo(w, t) ==
  IF w.times # << >> /\ Last(w.times) = t
  THEN w
  ELSE [w EXCEPT !.times = IF ~w.usedTime /\ Len(@) > 1
                           THEN [@ EXCEPT ![Len(@)] = t] ELSE Append(@, t),
                 !.usedTime = FALSE,
                 !.progress = TRUE]

Later(w, t) == w.times # << >> => Last(w.times) <= t

\* The frame of a group: the last values of its signals before this change.
PrepareFrame(w, g) ==
  IF g \in DOMAIN w.frames
  THEN w
  ELSE [w EXCEPT !.frames = [h \in DOMAIN @ \cup {g} |->
          IF h = g THEN [s \in Members(g, Len(w.columns)) |-> w.columns[s].last] ELSE @[h]]]

Toggles(c, code) == c.code <= 1 /\ code = 1 - c.code

\* How a change is stored: a toggle of a bit, or a value, narrowed to two
\* states when that loses nothing.
Entry(c, delta, code) ==
  CASE c.kind.form = "bit"   -> IF Toggles(c, code)
                                THEN [delta |-> delta, how |-> "toggle", code |-> NoCode]
                                ELSE [delta |-> delta, how |-> "code", code |-> code]
    [] c.kind.form = "bits"  -> [delta |-> delta, how |-> IF code < 2 THEN "compact" ELSE "full",
                                 code |-> code]
    [] c.kind.form = "bytes" -> [delta |-> delta, how |-> "full", code |-> code]

Repeats(c, code) == deduplicate /\ ~c.event /\ c.emitted /\ c.last = code

\* Mutant: the frame is taken after the change it should precede.
CapturedFrameLate(w, s, code) ==
  LET c == w.columns[s]
      index == Len(w.times) - 1
  IN  PrepareFrame([w EXCEPT !.columns[s] = [c EXCEPT
                      !.entries = Append(@, Entry(c, index - c.index, code)),
                      !.index = index,
                      !.code = IF c.kind.form = "bit" THEN code ELSE @,
                      !.last = code,
                      !.emitted = TRUE],
                    !.records = @ + 1, !.usedTime = TRUE, !.progress = TRUE], Group(s))

Captured(w, s, code) ==
  LET p == PrepareFrame(w, Group(s))
      c == p.columns[s]
      index == Len(p.times) - 1
  IN  [p EXCEPT !.columns[s] = [c EXCEPT
                    !.entries = Append(@, Entry(c, index - c.index, code)),
                    !.index = index,
                    !.code = IF c.kind.form = "bit" THEN code ELSE @,
                    !.last = code,
                    !.emitted = TRUE],
                !.records = @ + 1, !.usedTime = TRUE, !.progress = TRUE]

Emitted(w, s, t, code) ==
  LET a == AdvanceTo(w, t)
  IN  IF Repeats(a.columns[s], code) THEN a ELSE Captured(a, s, code)

(***************************************************************************)
(* Blocks.  A block stores the differences of its times, the frames of its *)
(* dirty groups, the predecessors of all groups, and the columns; equal    *)
(* columns of a kind are stored once.                                      *)
(***************************************************************************)
Deltas(times) == [i \in DOMAIN times |-> times[i] - (IF i = 1 THEN 0 ELSE times[i - 1])]

Twins(cs, s) == {r \in 1..(s - 1) : cs[r].kind = cs[s].kind /\ cs[r].entries = cs[s].entries}
Aliased(cs) == {s \in DOMAIN cs : Len(cs[s].entries) >= AliasSize /\ Twins(cs, s) # {}}

Encode(w) ==
  LET n == Len(w.columns)
      aliases == [s \in Aliased(w.columns) |-> Min(Twins(w.columns, s))]
  IN  [start |-> w.times[1], end |-> Last(w.times), times |-> Deltas(w.times), signals |-> n,
       frames |-> w.frames,
       previous |-> [g \in Groups(n) |->
                       IF g \in DOMAIN w.previous THEN w.previous[g] ELSE NoBlock],
       aliases |-> aliases,
       columns |-> [s \in 1..n |-> IF s \in DOMAIN aliases THEN << >> ELSE w.columns[s].entries]]

\* Mutant: the next block's columns go on from the last bit of this one.
RestartedKeepingCode(w, number) ==
  LET block == Encode(w)
  IN  [w EXCEPT !.columns = [s \in DOMAIN @ |-> [@[s] EXCEPT !.entries = << >>, !.index = 0]],
                !.frames = << >>,
                !.previous = [g \in DOMAIN block.previous |->
                                IF g \in DOMAIN w.frames THEN number ELSE block.previous[g]],
                !.times = <<Last(w.times)>>,
                !.records = 0, !.usedTime = FALSE, !.progress = FALSE]

\* What prepare leaves for the next block, which is number `number` + 1.
Restarted(w, number) ==
  LET block == Encode(w)
  IN  [w EXCEPT !.columns = [s \in DOMAIN @ |->
                               [@[s] EXCEPT !.entries = << >>, !.index = 0, !.code = NoCode]],
                !.frames = << >>,
                !.previous = [g \in DOMAIN block.previous |->
                                IF g \in DOMAIN w.frames THEN number ELSE block.previous[g]],
                !.times = <<Last(w.times)>>,
                !.records = 0, !.usedTime = FALSE, !.progress = FALSE]

\* Backend::flush_waves on the recorder w.  The declarations are published
\* first, so that a block never has more signals than the file declares.
FlushWaves(w) ==
  IF w.progress
  THEN /\ wave' = Restarted(w, Len(blocks) + 1)
       /\ blocks' = Append(blocks, Encode(w))
  ELSE /\ wave' = w
       /\ UNCHANGED blocks

(***************************************************************************)
(* Operations.                                                             *)
(***************************************************************************)
\* Mutant: a signal is added to the block under construction.
AddSignalOpen ==
  LET n == Len(wave.columns)
  IN  /\ n < Len(Declared)
      /\ wave' = [wave EXCEPT !.columns = Append(@, Column(Declared[n + 1]))]
      /\ UNCHANGED <<blocks, kept, dumping, deduplicate, history, emits, others>>

\* The block ends before a signal is added: its frames have no room for it.
AddSignal ==
  LET w == IF wave.progress THEN Restarted(wave, Len(blocks) + 1) ELSE wave
      n == Len(w.columns)
  IN  /\ n < Len(Declared)
      /\ wave' = [w EXCEPT !.columns = Append(@, Column(Declared[n + 1]))]
      /\ blocks' = IF wave.progress THEN Append(blocks, Encode(wave)) ELSE blocks
      /\ kept' = Len(history)
      /\ UNCHANGED <<dumping, deduplicate, history, emits, others>>

Advance(t) ==
  /\ others < MaxOthers
  /\ others' = others + 1
  /\ Later(wave, t)
  /\ wave' = AdvanceTo(wave, t)
  /\ UNCHANGED <<blocks, dumping, deduplicate, history, kept, emits>>

\* An emission while dumping is off leaves no trace, not even of its time.
Emit(s, t, code) ==
  /\ emits < MaxEmits
  /\ s \in DOMAIN wave.columns
  /\ Later(wave, t)
  /\ emits' = emits + 1
  /\ IF dumping
     THEN LET w == Emitted(wave, s, t, code)
          IN  /\ history' = Append(history, [time |-> t, signal |-> s, code |-> code])
              /\ IF w.records >= RecordLimit
                 THEN FlushWaves(w) /\ kept' = Len(history')
                 ELSE wave' = w /\ UNCHANGED <<blocks, kept>>
     ELSE UNCHANGED <<wave, blocks, history, kept>>
  /\ UNCHANGED <<dumping, deduplicate, others>>

Dump(enabled) ==
  /\ dumping # enabled
  /\ others < MaxOthers
  /\ others' = others + 1
  /\ dumping' = enabled
  /\ UNCHANGED <<wave, blocks, deduplicate, history, kept, emits>>

Flush ==
  /\ others < MaxOthers
  /\ others' = others + 1
  /\ FlushWaves(wave)
  /\ kept' = Len(history)
  /\ UNCHANGED <<dumping, deduplicate, history, emits>>

Next ==
  \/ AddSignal
  \/ \E t \in 0..MaxTime : Advance(t)
  \/ \E s \in DOMAIN wave.columns, t \in 0..MaxTime :
       \E code \in Codes(wave.columns[s].kind) : Emit(s, t, code)
  \/ \E enabled \in BOOLEAN : Dump(enabled)
  \/ Flush

Spec == Init /\ [][Next]_vars

(***************************************************************************)
(* The reader.                                                             *)
(***************************************************************************)
Kind(s) == Declared[s].kind

\* The time table: running sums of the differences.
Times(block) ==
  LET sums[i \in 0..Len(block.times)] ==
        IF i = 0 THEN << >>
        ELSE LET sum == sums[i - 1]
             IN  Append(sum, (IF i = 1 THEN 0 ELSE sum[i - 1]) + block.times[i])
  IN  sums[Len(block.times)]

\* A column decoded: for each entry the step it reaches, the code it stands
\* for, given the one before, and the alphabet it is written in.
Decoded(kind, entries) ==
  LET decoded[i \in 0..Len(entries)] ==
        IF i = 0 THEN << >>
        ELSE LET d == decoded[i - 1]
                 e == entries[i]
             IN  Append(d, [index |-> (IF i = 1 THEN 0 ELSE d[i - 1].index) + e.delta,
                            code |-> IF e.how # "toggle" THEN e.code
                                     ELSE 1 - (IF i = 1 THEN NoCode ELSE d[i - 1].code),
                            states |-> IF e.how = "compact" THEN 2 ELSE kind.states])
  IN  decoded[Len(entries)]

\* An entry the reader refuses: a toggle of no bit, a code outside the
\* alphabet, an index outside the table, a wide value of a two-state signal.
Readable(kind, entries, times) ==
  LET d == Decoded(kind, entries)
  IN  \A i \in DOMAIN d : /\ d[i].code < d[i].states /\ d[i].code >= 0
                          /\ d[i].index < Len(times)
                          /\ entries[i].how = "full" /\ kind.form = "bits" => kind.states # 2

InWindow(first, last, c) == first <= c.time /\ c.time <= last

\* column: the changes of a column that lie in the window, in order.
Visited(kind, entries, times, first, last) ==
  LET d == Decoded(kind, entries)
      c == [i \in DOMAIN d |->
              [time |-> times[d[i].index + 1], code |-> d[i].code, states |-> d[i].states]]
  IN  Among(c, LAMBDA e : InWindow(first, last, e))

\* selected_column: an alias is read from its target.
SelectedColumn(block, s, first, last) ==
  IF s > block.signals \/ Group(s) \notin DOMAIN block.frames
  THEN << >>
  ELSE LET target == IF s \in DOMAIN block.aliases THEN block.aliases[s] ELSE s
       IN  Visited(Kind(s), block.columns[target], Times(block), first, last)

\* changes: blocks outside the window are not opened.
Relevant(first, last) ==
  Among(blocks, LAMBDA b : b.start <= last /\ b.end >= first)
Changes(s, first, last) ==
  LET bs == Relevant(first, last)
  IN  FlattenSeq([i \in DOMAIN bs |-> SelectedColumn(bs[i], s, first, last)])

\* block_changes and the sort of ordered_changes: by time, then by signal.
\* Mutant: by signal only.
BeforeBySignal(a, b) == a.signal < b.signal
Before(a, b) == a.time < b.time \/ (a.time = b.time /\ a.signal < b.signal)
StableSort(seq) ==
  LET rank(i) == Cardinality({j \in DOMAIN seq : Before(seq[j], seq[i])
                                \/ (~Before(seq[i], seq[j]) /\ j <= i)})
  IN  [k \in DOMAIN seq |-> seq[CHOOSE i \in DOMAIN seq : rank(i) = k]]
OfSignal(s, seq) ==
  [i \in DOMAIN seq |-> [time |-> seq[i].time, signal |-> s, code |-> seq[i].code]]
BlockChanges(block, first, last) ==
  FlattenSeq([s \in 1..block.signals |-> OfSignal(s, SelectedColumn(block, s, first, last))])
OrderedChanges(first, last) ==
  LET bs == Relevant(first, last)
  IN  FlattenSeq([i \in DOMAIN bs |-> StableSort(BlockChanges(bs[i], first, last))])

\* value_at: the last block that has begun, or the predecessor it names.  The
\* number of signals is looked at in the first only: the predecessor may have
\* been written before s was declared, and then has no value to unwrap.
ValueAt(s, t) ==
  LET begun == {i \in DOMAIN blocks : blocks[i].start <= t}
      last == Max(begun)
      from == IF Group(s) \in DOMAIN blocks[last].frames
              THEN last ELSE blocks[last].previous[Group(s)]
      seen == SelectedColumn(blocks[from], s, 0, t)
  IN  IF begun = {} \/ s > blocks[last].signals \/ from = NoBlock THEN DefaultCode(Kind(s))
      ELSE IF s > blocks[from].signals THEN Panic
      ELSE IF seen = << >> THEN blocks[from].frames[Group(s)][s]
      ELSE Last(seen).code

\* parse_blocks: the headers, the order of blocks and the predecessors.
DirtyBefore(i, g) == {j \in 1..(i - 1) : g \in DOMAIN blocks[j].frames}
ParseBlocks ==
  \A i \in DOMAIN blocks :
    LET b == blocks[i] IN
    /\ b.start <= b.end
    /\ Times(b)[1] = b.start /\ Last(Times(b)) = b.end
    /\ \A k \in 2..Len(b.times) : b.times[k] > 0
    /\ DOMAIN b.frames \subseteq Groups(b.signals)
    /\ i > 1 => blocks[i - 1].end <= b.start /\ blocks[i - 1].signals <= b.signals
    /\ \A g \in Groups(b.signals) :
         b.previous[g] = IF DirtyBefore(i, g) = {} THEN NoBlock ELSE Max(DirtyBefore(i, g))

\* group: aliases name an unaliased column of the same kind in a dirty group.
GroupsOK ==
  \A i \in DOMAIN blocks : LET b == blocks[i] IN
    /\ \A g \in DOMAIN b.frames : DOMAIN b.frames[g] = Members(g, b.signals)
    /\ \A s \in DOMAIN b.aliases :
         /\ Group(s) \in DOMAIN b.frames /\ Group(b.aliases[s]) \in DOMAIN b.frames
         /\ b.aliases[s] \notin DOMAIN b.aliases
         /\ Kind(b.aliases[s]) = Kind(s)
    /\ \A s \in 1..b.signals : Readable(Kind(s), b.columns[s], Times(b))

\* validate_waveforms: a frame repeats the values before its block.
LastBefore(i, s) ==
  LET seen == {j \in 1..(i - 1) : SelectedColumn(blocks[j], s, 0, MaxTime) # << >>}
  IN  IF seen = {} THEN DefaultCode(Kind(s))
      ELSE Last(SelectedColumn(blocks[Max(seen)], s, 0, MaxTime)).code
ValidateWaveforms ==
  \A i \in DOMAIN blocks : \A g \in DOMAIN blocks[i].frames :
    \A s \in DOMAIN blocks[i].frames[g] : blocks[i].frames[g][s] = LastBefore(i, s)

(***************************************************************************)
(* The reference: the emissions themselves.                                *)
(***************************************************************************)
Own(s) == Among(SubSeq(history, 1, kept), LAMBDA e : e.signal = s)

\* What is worth recording: with deduplication, not a value that repeats the
\* one before it, unless the signal is an event.
Worth(s) ==
  LET own == Own(s)
      fresh(i) == i = 1 \/ Declared[s].event \/ ~deduplicate \/ own[i].code # own[i - 1].code
      worth[i \in 0..Len(own)] ==
        IF i = 0 THEN << >>
        ELSE IF fresh(i) THEN Append(worth[i - 1], own[i]) ELSE worth[i - 1]
  IN  worth[Len(own)]

LastEmitted(s, t) ==
  LET own == {i \in 1..kept : history[i].signal = s /\ history[i].time <= t}
  IN  IF own = {} THEN DefaultCode(Kind(s)) ELSE history[Max(own)].code

(***************************************************************************)
(* Properties.                                                             *)
(***************************************************************************)
\* The blocks change only when the recorder has nothing left to write, so the
\* states right after it wrote them show every file there is.
Between == ~wave.progress
Windows == {w \in (0..MaxTime) \X (0..MaxTime) : w[1] <= w[2]}

\* A reader opens and validates whatever prefix of the recording is in the
\* file: blocks in order, predecessors, frames and aliases are consistent.
BlocksValid == Between => ParseBlocks /\ GroupsOK /\ ValidateWaveforms

\* In every time window, the changes read of a signal are the emissions that
\* were recorded of it, in order, with their times and values: nothing is
\* lost, invented, moved or attributed to another signal, wherever blocks end
\* and whichever columns share their storage.
EachReadsBack ==
  Between =>
  \A s \in DOMAIN wave.columns :
    LET worth == Worth(s) IN
    \A w \in Windows :
      OfSignal(s, Changes(s, w[1], w[2]))
        = Among(worth, LAMBDA e : InWindow(w[1], w[2], e))

\* The merged iteration visits the changes of all signals in the order of
\* time, also across the ends of blocks, and those of a signal in their own.
MergedInOrder ==
  Between =>
  LET all == OrderedChanges(0, MaxTime)
  IN  /\ \A i \in 2..Len(all) : all[i - 1].time <= all[i].time
      /\ \A s \in DOMAIN wave.columns :
           Among(all, LAMBDA e : e.signal = s) = OfSignal(s, Changes(s, 0, MaxTime))

\* What is recorded of every signal reads back, signal by signal and in the
\* iteration over all of them.
ChangesReadBack == EachReadsBack /\ MergedInOrder

\* The value read of a signal at a time, found through the predecessor of its
\* group and a frame, is the last one emitted up to then; only a signal that
\* was never emitted before a block that names an older one cannot be read.
ValuesReadBack ==
  Between =>
  \A s \in DOMAIN wave.columns, t \in 0..MaxTime :
    \/ ValueAt(s, t) = LastEmitted(s, t)
    \/ ValueAt(s, t) = Panic /\ LastEmitted(s, t) = DefaultCode(Kind(s))

\* docs/SPEC.md:359-364: a signal that joined its group after a block was
\* written has its default value there; reading it is "the normal case".
LateSignalReads ==
  \A s \in DOMAIN wave.columns, t \in 0..MaxTime : ValueAt(s, t) # Panic
=============================================================================
