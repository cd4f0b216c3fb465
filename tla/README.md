# Verification of the vtr trace recorder

TLA+ models, TLC runs and TLAPS proofs about the recorder of this repository and the reader of
what it records: from a capture call in a producer's thread to the answer of a query. The
reference is the source (`vtr-rs/src/...`, `vtr-guard/src/...`); every definition is listed with
the lines it stands for in `PROJECT.json` ("map").

1. [The system](#1-the-system)
2. [What is built, and how it fits together](#2-what-is-built-and-how-it-fits-together)
3. [The modules and the code](#3-the-modules-and-the-code)
4. [What the runs check](#4-what-the-runs-check)
5. [What is proved](#5-what-is-proved)
6. [Five disagreements between the code and its comments or documents](#6-five-disagreements-between-the-code-and-its-comments-or-documents)
7. [Abstractions and limits](#7-abstractions-and-limits)

## 1. The system

vtr records transactions and waveforms of a simulation into a framed binary file and reads them
back. Recording is where threads meet. The backend and the reader are sequential, but their state
is large: blocks that refer to earlier blocks, owners that live across blocks, bounds that allow a
query to skip.

```
 producer threads                 worker thread                      encoder threads
 Session/Writer/Producer                                              (Pool)
   |  capture          ring            |  ingest, merge by time          |
   +------------> [channel 0..n] ----->+--> Backend --> Output --jobs--->+
   |  call + reply                     |                  ^               |
   +------------> [mailbox] ---------->+                  +--- results ---+
                                       |                  |
 crash guard: Sealer/Rescue --stop-----+                  +--> FramedWriter --> file
                                                                                |
                                 Reader: open, validate, queries, activity <----+
```

| Component (source) | State | Operations | Talks to |
|---|---|---|---|
| Capture channel (`recording/channel.rs`) | ring of entries, cursors `written`/`read`/`consumed`, flags `active`/`closed`; the cached copies both ends hold | enter, reserve, wait, commit; available, next, drop of a capture, release; close | producer, worker, stopper |
| Transport and worker (`recording/transport.rs`) | shared flags `closed`/`failed`, list of channels, mailbox; producers' clocks, pending queues, spill files, memory charge | send, every `Command`, ingest, push, drain, Rescue::seal, drops | channels, backend, callers |
| Output and encoders (`recording/output.rs`) | job and result channels, ready set, budgets, sticky failure | encode, poll, flush, finish, seal_failed, drop | backend, encoder threads, framed file |
| Framed file (`framing.rs`) | header, sections, directory, trailer | section, flush, finish; parse, recover | output, readers |
| Backend (`recording/backend.rs`, `backend/owners.rs`) | owners (slots and overflow), stages, clocks, claims, open blocks, `captured_time` | apply, payloads, declarations, flush, finish, seal | worker, output, signal recorder |
| Signal recorder (`recording/waveform.rs`, `block.rs`, `block/encode.rs`) | a column per signal, frames, times, `prev_dirty` | signal, emit, advance, flush | backend, output |
| Codecs (`records.rs`, `transactions/`, `schema.rs`, `declarations.rs`) | none: rows to pages, segments and blocks, and back | encode, decode, bounds | backend, reader |
| Capture frontend (`recording/mod.rs`, `session.rs`, `capture.rs`, `ids`) | closed/finished flags, producer time, identifiers | every capture call, identifier reservation | channel, transport |
| Payload pool (`recording/payload_pool.rs`) | retained bytes, deferred credits, returned list and its flag | take, admit, recycle | backend, encoders |
| Crash state, Sealer (`recording/crash.rs`) and guard (`vtr-guard`) | busy/poisoned/park flags, watched slots, rescue state | busy, park, watch, unwatch, signal handlers, rescue thread | frontend, transport |
| Reader (`trace/`) | sections, declarations; caches of owners and pages | open, validate, queries of records, transactions, relations, clocks, signals, activity, time range, ending | files |
| Activity index (`activity/`) | a sidecar per recording: stretches of change per signal | build, open, classify | reader |
| C++ SDK, command line, converters | a second engine with its own ring and handoff; presentation | as above | files |

What is hard here, and what correctness means for each part:

- **Channel.** Sender and receiver see each other's cursors late, in batches and one at a time;
  packets wrap over the end of the ring; a capture may be larger than the whole byte budget;
  `close()` races with a capture being admitted and with one that waits for room. *Correct*: no
  packet is overwritten before it was consumed, packets arrive once and in order, the budget
  holds, nothing is accepted once close() has returned, nobody waits for ever.
- **Worker.** Captures travel through rings, commands through a mailbox: the two are not ordered
  with each other. The merge must know that no earlier capture can come. Memory runs out and
  queues continue in files. Errors and unwinding cut rounds short with a command in hand. A
  rescue may start at any moment. *Correct*: the recording is an ordered merge of what was
  accepted, a failed one keeps a prefix, only a clean one is complete, every caller is answered.
- **Output.** Encoders answer out of order, fail or unwind; the job budget blocks the only thread
  that can make room; writes fail half-way; a finish can be repeated after a failure. *Correct*:
  submission order, no section lost or written after a failure, budgets, calls that return,
  nothing sealed over a torn section.
- **File.** A process may end between any two writes. *Correct*: a reader finds the complete
  sections of the prefix, can open and validate them, and trusts a directory only when it
  describes the file exactly.
- **Guard, payload pool.** Signal handlers, deadlines and free-running threads share slots and
  flags by compare-and-swap. *Correct*: a slot or a buffer is freed once, a park request is never
  missed, a writer is closed only when its owner has stopped, and the process ends.
- **Backend.** One thread, long sequences of legal calls. Blocks end in the middle of owners,
  stages and clocks; owners displace each other; sealing drops what lacks its payload but keeps
  what refers to it. *Correct*: every record is in the file or still held, once and as it was
  captured; resources have one owner at a time; every prefix of the file is consistent.
- **Signals.** Blocks end anywhere, signals join groups late, columns share their storage, values
  are stored as differences within a block and found through a chain of blocks. *Correct*: each
  change and each value reads back, in the order of time.
- **Reader, activity index.** Bounds, locators and the index let a query skip blocks. *Correct*: a
  query that skips says what a full scan says.

`PROJECT.json` lists all components with their status, and under "hazards" the places in the code
where these things can go wrong, each with the
properties that cover it, or the reason why none does.

## 2. What is built, and how it fits together

| Modules | What it is a model of | Specified by | Shown |
|---|---|---|---|
| `CaptureRing` | the channel, every atomic access | `CaptureQueue`: a bounded queue that can be shut | by TLC, and **proved** in `CaptureRingProofs`; liveness by TLC |
| `Transport` | producers, callers, worker, rescue; channels are `CaptureQueue`s | `OrderedMerge`: an ordered merge, all or a prefix | by TLC, and **proved** in `TransportProofs`; liveness by TLC |
| `Output` | owner, encoder threads, framed file | `OrderedOutput`: sections in submission order | by TLC, and **proved** in `OutputProofs`; liveness by TLC |
| `PayloadPool` | backend and encoders that pass buffers back, every access to what they share | invariants on the counter and the list | by TLC, and **proved** in `PayloadPoolProofs` and `OutputProofs` |
| `CrashGuard` | signal handlers, parked threads, watch and unwatch, the rescue; `Transport` has the seal it ends in | invariants on exclusive access | by TLC, and **proved** in `CrashGuardProofs`; liveness by TLC |
| `Waveform`, `Activity` | the signal recorder, its blocks, their reader; the index over them | the history of emissions | by TLC, and every invariant **proved** in `WaveformProofs` |
| `Backend` over `TraceFile` and `TraceReader` | the sequential backend, the sections it writes, and the reader that opens, validates and queries them | `Ledger`: a set of records and a list of relations | by TLC; owners and claims **proved** in `BackendProofs` |

The parts meet at abstract specifications. `Transport` takes a channel for the queue that
`CaptureRing` implements. `Backend` takes its captures with producer times that do not run back,
which is what `OrderedMerge` promises. What `Backend` writes is a sequence of sections, which
`OrderedOutput` promises to be the sequence in the file, and `TraceReader` reads any prefix of it,
which is what a crash leaves. The `MC...` modules give constants their values.

Not built: recovery of a torn file at the level of bytes and checksums, the handoff files, the C++
engine. Section 7 says why.

## 3. The modules and the code

**`CaptureRing`** (channel.rs). One action per atomic load or store, in program order. The sender
goes `Enter` (`active := 1`), `Admit` (load `closed`), `Check` (the `check()` closure and the
cached credits, `WriteCursor::reserve`), `LoadRead`, `LoadConsumed` (the refresh), `WaitCheck`,
`WaitClosed` (one turn of `WriteCursor::wait`), `Write` (the entries of the packet), `Commit`
(store `written`), `Leave` (drop of `Publication`). The receiver goes `Available`, `TakeNext`,
`DropCapture`, `EndIngest`, and through `ReleaseConsumed` and `ReleaseRead`, the two stores of
`release`. The stopper is `BeginStop`, `CloseChannel`, `AwaitQuiet`. A cell remembers which packet
wrote it and which part of it; the ring has `2 * Slots` cells because the code allocates the ring
twice so that a packet which wraps remains contiguous. `independent` is the exclusive channel's
choice to take part in the handshake; it is switched on by `EnableIndependentStop`. `log` and
`taken` are history: nothing in the guards reads `taken`, and `log` only for the bound.

**`CaptureQueue`** is what the worker may assume about a channel: a bounded FIFO of charges that
can be shut.

**`Transport`** (transport.rs, with the callers in mod.rs, session.rs). Captures are
`BeginCapture`, `Publish`, `RefuseCapture`; a channel is the queue above. Calls are messages in
`mailbox`, and `calls` says who waits for which reply. The worker's loop is `StartRound` (poll),
`TakeDiscard`/`TakeDirect`/`TakePush` (one capture of `Worker::ingest`, after a failure, for a
recording with one producer, and for several), `NextInput`, `DrainOne`/`MergeFails`/`MergeEnds`
(`Worker::drain`), `PollFails` (`Output::poll`), `Receive` (one command, followed by an unbounded
ingest), then one `Execute...` action per command and `settle` for the drain a command performs.
`Abort` is what both `Err` and `catch_unwind` lead to: the recording fails, the round ends, a
command in hand is dropped together with its reply. `Shared::stop`, `Rescue::seal`, `Writer::drop`
and `Transport::drop` are the remaining actions.

**`OrderedMerge`** is the promise: per-producer order, time that does not run back, all or a
prefix.

**`Output`** (output.rs, framing.rs). The owner's control point names the call it is in; `Encode`
... `Submit`, `Receive`, `DrainOne`, `DrainEnds` follow `Output::encode`, `Pool::receive` and
`drain_ready`; `Flush`, `Finish`, `StopPool`, `WriteDirectory` follow finish and seal_failed. Each
encoder thread takes a job and answers it, whether encoding succeeded, failed or unwound. `wire`
is the file: sections, directories, and parts left by writes that failed. `Completion` is what
`Container::parse` reports about it.

**`OrderedOutput`** is the promise: sections in submission order, complete only with all.

**`PayloadPool`** (payload_pool.rs). `reserved`, `pending`, `returned` and `lock` are the `Shared`
struct; a buffer is its capacity. The backend's take is `Take` (the load of `pending`),
`LockReturned`, `Refill`, `ClearPending` and `Pop`, which gives room back when the credits reach the
threshold; `DropPool` is its drop, which encoders may outlive. An encoder is handed the buffers of a
block (`Encode`, as in `Backend::flush_records`), may unwind with them (`Unwind`), and gives them
back: `Admit` (the load and what fits), `Reserve` (the compare-and-swap, which looks again when it
fails), `LockReturn`, `Extend`, `StorePending`.

**`Waveform`** (recording/waveform.rs, block.rs, block/encode.rs, trace/waveform.rs). `wave` is the
recorder: a column per signal (its last value and the changes since the block began), the frame of
each group that changed, the table of times. Actions are `AddSignal`, `Emit`, `Advance`, `Dump` and
`Flush`; an emission ends the block when the record limit is reached. `FlushWaves` turns columns
into a block: aliases for equal columns, toggles and two-state vectors where a change can be stored
so, and for each group the last block in which it was dirty (`previous`). The second half is the
reader: `ParseBlocks`, `GroupsOK` and `ValidateWaveforms` are what opening and `validate` check,
`Changes`, `OrderedChanges` and `ValueAt` the queries. `history` is every emission that was to be
recorded; the properties compare the reader with it, never with the recorder's own state. `Among`,
the filter the reader's iterators and the reference use, is a recursive function where `SelectSeq`
would do for TLC, because the provers know nothing of `SelectSeq`.

**`Activity`** (activity/). The builder's scan of the blocks in order (`ScanBlock` makes stretches
of the times of a column, `Step` joins them where they cross blocks), the encoding of stretches as lengths and silences,
the decoding, and `Classify`. It is a function of the blocks, checked in every state of `Waveform`.

**`TraceFile`** (records.rs, transactions/, trace/validation.rs) has the sections: blocks of located
records in segments and pages, blocks of transactions and relations with their chunks and bounds,
and what the reader refuses in them. **`TraceReader`** (trace/mod.rs and the files beside it) has
`Opens`, `Validates`, `Records`, `Transactions`, `Relations`, `Lookup`, `Expand`, `CycleAt`,
`GeneratorRanges`, `TimeRange` and `EndingOf`, each as a function of the sections.

**`Backend`** (recording/backend.rs, backend/owners.rs). `backend` is the `Backend` value, with the
file it has written as one of its fields, and an operation is a function of it, so that an action
reads like the method. `Capture` is what every captured operation shares (the claim of its resource,
what a refusal leaves), `Admitted` the backend that an accepted one finds, `Control` what the calls
of the owner share. Captures are `Begin`, `BeginStage`, `Point`, `EndTransaction`, `EndStage`,
`Payload`, `Attribute`, `SpanKind`, three on embedded records, `Relate`, `ClockRun`, `ClockStop`,
`Emit`, `Blackout` and `Dump`; controls are `Intern`, `Declare`, `Associate`, `Flush`, `Close` and
`Seal`. `phase` is "failed" once an operation was refused: only `Seal` is left. The owner table has
`Slots` slots and the overflow map, so that owners displace each other. A *menu* names what a
recording declares and which operations it uses; without menus there could be fewer operations.

**`Ledger`** is the promise: records with identifiers of their own, which change only while open;
ending an owner ends its stages, closing ends what is open, sealing drops what has no payload.
`ledger` and `edges` in `Backend` are read back from the file and the backend together after every
step (`AllRecords`, `AllRelations`), so the refinement fails when a record is lost, doubled or
changed on its way through blocks and pages.

**`CrashGuard`** (vtr-guard/src/linux.rs, recording/crash.rs). Each thread owns one writer. `pc` is
where its own code is: outside, in a capture, inside a channel (`active` raised), between the two
halves of `leave`, or at a store of `watch` or `unwatch`; `mode` says whether that code runs or a
handler holds it. A capture sets `busy` and, when it unwinds, `poisoned`. `watch` is `CheckState`,
`Reserve`, `StoreOwner`, `StoreState`, `StoreWatched`, `Recheck`; `unwatch` is `Scan`,
`CompareAndTake`, `ForgetState`, `ForgetOwner`, `FreeBox`: one action per store, as a signal or another
thread may come between any two. `OnFatal`, `AnnounceCrash`, `EndCrash`, `OnStop`, `AnnounceStop` and
`OnPark` are the handlers. finish_all is `Claim`, `Ask` (request_park), `Signal` (tgkill), `EndWait`,
`Decide`, then `Close`/`EndClose` (close_with on the rescuer's thread) or `Seal` (the independent
sealer, which waits for a publication in progress), slot by slot. The guard's thread is `Sleep`,
`Wake`, `LookForCrash`, `LookForStop`; at_exit is `Exit` and `EndExit`. Deadlines and the grace period pass at any moment.
`freed` and `covered` are history: boxes given back, and threads that believe they are watched.

Operators commented `Mutant:` are plausible bugs of the code. They are used by no specification;
they are there to show that the property they belong to would notice (`PROJECT.json`, "mutants").

## 4. What the runs check

| Run (configuration) | Question | Instance |
|---|---|---|
| `ring` (MCCaptureRing) | Is a packet ever overwritten, reordered, over budget or accepted after close? Does the ring implement the queue? Does every wait end, is everything taken and its room given back? | 4 cells, budget 3; packets of 1, 2 and 4 cells (the last over the budget) and an owned one of 1 cell charged 6; 3 captures; fair threads. 103,000 states |
| `merge` (MCTransportMerge) | Is the merge ordered for every interleaving of captures, registrations, ends and polls, also across memory, spill file and ring? Are the charge right and the worker's legality checks silent? | the implicit producer and a registered one, times 0..2, 4 captures, 3 calls, memory for 1 pending. 1,988,000 states |
| `fail_live` (MCTransportFail) | What if backend, output, control and spill fail and a rescue comes at any moment? Does every capture, call, drop and rescue come to an end? | the same producers, 2 captures, one call of add/flush/control/stats/close/drop, nothing fits in memory. 244,000 states |
| `rescue_seals` (MCTransportRescue) | Does a rescue seal what was accepted unless the backend panicked? **No** (section 6) | 1 producer, 2 captures |
| `output` (MCOutput) | Order, accounting, budgets, sealing and termination for all orders of encoders and all failing writes; is the buffer pool's counter exact and within its limit, and every returned buffer found again? | 2 encoders; 2 jobs, budget 7, sizes 2, 5, 9, 5 sections, every write may fail; or pool limit 5, threshold 3, lengths 0, 2, 3, 6, 4 takes. 564,000 states |
| `sealed_reopens` (MCOutputSealed) | Does a sealed recording read back as sealed? **No** (section 6) | 1 encoder, a directory write may fail once |
| `guard` (MCCrashGuard) | Does a rescue close a writer in use, unless its slot lost its owner? Does it look into a freed box or miss a thread? Does a thread asked to stop go on? | 2 threads, one of which may crash, 2 slots, one watch each, a stop; all stores of watch and unwatch interleave. 1,913,000 states |
| `guard_live` (MCCrashGuardLive) | Does a stop, or an exit, end the process? | 2 threads, one of them with an inline writer, 1 slot, stops and an exit. 532,000 states |
| `slot_reused` (MCCrashGuardOverlap) | Is the owner of a closed writer always stopped? **No** (section 6) | 2 threads, 2 slots, stops |
| `waveform` (MCWaveform) | Do blocks validate, and does every change, value and window read back, in order, also through the index? | 3 signals in 2 groups, times 0..3, 3 emissions, 2 records in a block, one switch of dumping or advance. 373,000 states |
| `late_signal` (MCWaveformLate) | Can a signal that joined its group late be read? **No** (section 6) | the same, times 0..2 |
| `backend` (MCBackend) | Are file and open records the ledger of what was captured? Does every prefix open and validate? Do queries, expansions, cycles, activity, time range and ending say what the ledger says? Is a record or clock ever written by two producers at one time? | 10 menus, up to 4 operations each, identifiers 1..3, relations between 1 and 2, 1 slot, 3 rows in a block, 2 in a page. 83,000 states |

Why these bounds are enough to mean something:

- *Ring.* With four cells, packets of 1, 2 and 4 cells start at every slot, wrap, and fill the
  ring exactly; `ReleaseBatch` 2 stands for `clamp(slots / 16, 1, 256)`, so credits are withheld
  and then given back in a batch; three captures go around once and more. Size 4 over a budget of 3
  and the owned packet exercise the oversized rule through cells and through bytes alone. The
  theorems of section 5 remove the bounds for all the safety properties.
- *Transport.* Ties at the frontier need two producers at one time, and a late registration one
  that begins while captures of the other are pending. Spilling needs one capture more than memory
  holds, and "spills although memory is free again" one that comes after a spilled one: four
  captures do both, with one more in a ring. The effects of failures do not depend on the number of
  captures beyond two (one applied, one that fails); with no memory for pending ones each of them
  spills. `fail_live` leaves out a backend that rejects an operation: with failing controls it makes
  the state space too large for liveness. `rescue_seals` has it.
- *Output.* Two encoders reorder; three jobs are needed for a queue of two to be full while a
  result is ready ahead of its turn; size 9 exceeds the budget, 5 + 2 fits exactly. `MaxParts` 1
  keeps one torn write: after a torn section no more is written, so only a directory could be torn
  twice, and that changes nothing about what the trailer says.
- *Payload pool.* `MCOutput` puts jobs and buffers side by side: they share no variable, so it is
  enough that a behaviour moves one of the two. Two encoders compete for the counter and the mutex while the backend empties the
  list. Of the lengths, 0 and 6 are never retained (empty, over the limit), 2 + 3 fill the limit
  exactly, and credits of 2 stay below the threshold of 3.
- *Guard.* Two threads are one that ends and one that is asked to stop, or two that are asked; two
  slots let both be watched at once and make the scans of unwatch and finish_all pass over another's slot. One watch
  each, because a rescue happens once. One thread may crash (`Faulty`), before, during or after a stop, which
  makes it the rescued thread or one that waits for the end; the crash of a second thread, and of a
  thread of VTR's own, which has no slot, multiply the states and are left to the theorems, which hold
  for any. Exits are left to `guard_live`, where the same rescue runs on a thread of the program.

- *Waveform.* Two signals in one group and one alone in another, with blocks of two records: a
  group is dirty in one block and clean in the next, a signal joins after its group was written,
  columns of two signals are equal and alias, a stretch crosses the end of a block. The kinds stand
  for the ways the code stores a change: a toggle, a two-state vector, a full one. One signal is an
  event, whose repeated values count. `AliasSize` 1 makes every column worth an alias.
- *Backend.* One slot makes any two owners collide; three rows in a block and two in a page make
  blocks, pages and segments end in the middle of owners; identifiers arrive out of order, as the
  producers take them from 1..3 as they like. The menus put together what interacts: stages and
  payloads; located events, logs and declarations; embedded records; relations; attributes;
  clocks; logs and gaps; and, with two producers at one time, transactions, attributes of
  transactions, and clocks that stop and run again. Four operations and an end are enough for an owner to begin,
  get something inside, end, and have another operation after it, and for a block to be cut at each
  of these points.

Every action of the next-state relations is fired by these runs. `CHECK_DEADLOCK FALSE` is set for
all but the ring because a recording ends: the worker exits, the output is dropped, the process is
over, the file is closed, bounds on calls and captures are reached.

Fairness is what the code's own scheduling gives. *Ring*: a thread inside `publish`, `ingest` or
`close` keeps running (`WF` on each thread); nobody must capture, fail or stop. *Transport*: the worker's loop
polls until it exits — it parks for at most 10 microseconds, so a lost wake-up only delays it; a
capture already admitted continues, and so do a rescue and a drop that began. `OwnerLeaves` makes an
exception for two faults in a row: a rescue has closed the recording, so the owner's drop cannot
seal it and only sends Shutdown; a capture rejected at that moment takes Shutdown with it
(`transport.rs:209`); then the rescue's own finish unwinds, and nothing is left to end the worker. *Output*: the owner
continues a call in progress, each encoder thread runs while its channel is open. *Guard*: the guard's
thread, a rescue, a handler and a call that began go on, the park signal is delivered, the grace
period passes, and a capture is left in the end (strong fairness, as it may enter the channel again
and again before). *Waveform* and *Backend* are sequential; their properties need no fairness. No run
assumes that a user calls anything. `StopEnds` is stated for the case that producers do not, for ever, answer
each refusal with another attempt: `close()` samples `active`, and could meet each attempt.

## 5. What is proved

`CaptureRingProofs` proves, for every ring size, budget, set of packet shapes, batch, ingest limit
and number of captures that satisfy `RingAssumption`:

| Theorem | Statement |
|---|---|
| `TypeCorrect` | `Spec => []TypeOK` |
| `NeverOverwrites` | `Spec => []NoOverwrite` |
| `BorrowsInOrder` | `Spec => []BorrowInOrder` |
| `KeepsBudget` | `Spec => []ByteBudget` |
| `QuietOnceStopped` | `Spec => []QuietAfterStop` |
| `ImplementsQueue` | `Spec => QueueSpec`: the ring implements `CaptureQueue` |

None of the properties is inductive alone. The invariant `IInv` (theorem `Inductive`) adds what
the code's comments take for granted:

- `Cursors`: the sender's cached credits lag behind the published ones, which lag behind the
  receiver's own, which lag behind `written`. This is why stale credits are safe: they only
  understate the room.
- `LogShape` and `Standing`: published packets are contiguous in cells and in bytes, and the
  receiver stands at the header of the next one; so borrowing at `read` is borrowing the oldest.
- `Reserved`: from the successful check to the commit, the reservation stays good (credits only
  grow while the sender itself does not write).
- `Borrowing`: the borrowed packet is the oldest one not consumed.
- `Handshake`: `active` is raised from admission to end for a channel that takes part, and a
  channel that does not is only stopped between captures.

`NoOverwrite` then follows because a new packet and all packets still to be consumed span at most
`Slots` positions (`Cursors`, `Reserved`), and positions less than a ring apart have different
slots, wrapped or not (`ModDistinct`, `PacketsDisjoint`: facts about remainders, which do not even
need the ring to be a power of two). The refinement maps `Commit` to `Put`, `DropCapture` to
`Take`, `AwaitQuiet` to `Shut`, and every other step to a stutter; that `Put` finds the queue open
is `QuietAfterStop`, and that it has room is the reservation.

A finite log is assumed by none of the proofs: `MaxCaptures` is an arbitrary number.

`OutputProofs` proves, for any number of encoders, any budgets, sizes and faults that satisfy
`OutputAssumption`:

| Theorem | Statement |
|---|---|
| `KeepsBudget` | `Spec => []WithinBudget` |
| `SealsReadable` | `Spec => []SealReadable` |
| `NothingLost` | `Spec => []Accounted` |
| `Refines` | `Spec => OutputSpec`: the output implements `OrderedOutput` |

Its `IInv` adds to the types where a call may be and what it still counts on (`Control`: past
`Usable` nothing has failed, a complete recording reaches `stop` with nothing pending), that an output
without a pool has nothing under way (`NoPool`), and the two parts that make the first two theorems
inductive. `Charged` says that `pendingBytes` is the difference of running totals at the last
submitted and the last written section: this is what makes it 0 when nothing is pending, which is
when a section over the whole budget is let in. `BytesBounded` names that section: over the budget,
all pending sections but one are charged nothing. `Sealed` says that the directory is the last item
and counts the sections before it, and that a torn section leaves `failure = "io"`, which `Usable` and
`Finish` refuse. From `Sealed` the trailer's length is right because all items before it are sections.

For the other two, `Promises` is kept beside `IInv`. `InPlace`: until something fails, the sections
that wait are those in the job queue, in encoders' hands, in the results and in the ready set, and each
is in one of these, once; `Accounted` is the count of that. `Numbered`: the sections in the file are
1, 2, ... without a gap, and while nothing has failed the file ends where `written` says. A step then
publishes the next section (`DrainOne`, or an inline `Encode`), ends the file (`WriteDirectory`), or is
a stutter of `OrderedOutput`; that a complete end finds all sections published is what `Control` says
of `stop`.

`TransportProofs` has the inductive invariant of the threaded recorder and what follows from it, for any number of producers, captures and calls, any ring size, memory and faults:

| Theorem | Statement |
|---|---|
| `Inductive`, `TypeCorrect` | `Spec => []IInv`, `Spec => []Types` |
| `LegalAlways` | `Spec => []AlwaysLegal` |
| `ConservedAlways` | `Spec => []Conserved` |
| `BudgetKept` | `Spec => []PendingBudget` |
| `Refines` | `Spec => MergeSpec`: the recorder implements `OrderedMerge` |

The invariant has two halves. `Queues` follows a capture. `Sorted` and `Merged`: what a producer
captured is in the order of its time, what was applied is not later than `captured`. `Placed`: the
captures of a producer are, in order, the applied ones, those in memory, the spilled ones and those in
the ring, and there is no other. `Frontier`: nothing that waits anywhere, and nothing a live producer
has promised, is older than `captured` - this is why the merge may apply the oldest entry.
`Sequenced`: entries of different producers differ in their sequence number, so the oldest is unique.
`Handshake` follows commands, and is needed because a capture and the command that ends its producer
travel on different ways: a command on its way holds its caller (`Outstanding`, `CallsMade`), who
therefore captures nothing (`Capturing`), so that when the worker comes to execute a Done, a close, a
seal or a rescue, the channels it speaks for are empty (`Emptied`), as the worker has ingested once more
after receiving it; so a producer that the worker has finished captures nothing more (`Ended`). `Frontier` for a
finished producer rests on `Emptied`, and `LegalAlways` on `Frontier`. `Placed` and `Frontier` are claimed
of a recording that has not failed; `Sorted` and `Merged` also of one that has, and they are enough for the
prefix that `OrderedMerge` promises then.

`CrashGuardProofs` proves, for any number of threads, slots and watches, any crashes, stops and exits,
with every store of watch and unwatch of every thread interleaved with all others:

| Theorem | Statement |
|---|---|
| `Inductive` | `Spec => []IInv` |
| `Exclusive` | `Spec => []ExclusiveUnlessDisowned` |
| `BoxesKept` | `Spec => []NoFreedBox` |
| `NoneMissed` | `Spec => []NobodyMissed` |
| `AskedStops` | `Spec => AskedThreadStops` |

`ExclusiveUnlessDisowned` says how far the code keeps its comment at line 608: a rescue for a crash or an
exit closes a writer only when its owner has stopped outside of any capture, and so does a stop, except
on a slot that has lost its owner to an overlapping unwatch. The exception is what `slot_reused` of
section 6 shows. `AskedThreadStops` has the same exception, as that stop takes the request back.
`GuardAssumption` and `SentinelAssumption` say that the model values for "no thread", the guard and a
reserved slot are none of the threads or boxes. The invariant says where a box is (`Heap`, `Taken`: in one
slot, in the rescue's hand, or in the unwatch that is about to free it). A slot that holds a box names
its thread or no thread, and a state is cleared late only by the unwatch that holds it (`Owned`); a slot
that a watch has reserved is that watch's alone, but for the two stores an unwatch may still make to it
(`Setting`); a thread has one box at a time, which its scan does not pass (`Single`). Whom the rescue counts
as stopped does not run (`Halted`); the writer it decides to close is that of a thread away from any
capture, or its slot is `Lost` (`Deciding`); `Phase` says when crash, stop and rescue exclude each other. A
thread which believes itself watched is ahead of the rescue or was settled by it (`Covering`: this is
what the second look at the state in `watch` is for), and a thread which was asked and signalled will
find its request at the latest in `leave` (`Asking`).

`PayloadPoolProofs` proves two theorems about the pool alone, from `PoolAssumption`, for any number of
encoders, any limit, threshold and lengths:

| Theorem | Statement |
|---|---|
| `ForgetsNothing` | `Spec => []NothingForgotten` |
| `RetainsExactly` | `Spec => []Retained` |

For the first, the invariant says who holds the mutex at which step (`Mutex`), and that what is on the list is
announced or about to be by the encoder that holds it, while the backend clears the flag only over
an empty list (`Announced`). For the second, `Books` adds that the backend refills only over an empty
list of its own, that `bytes` is the sum of that list except between `Refill` and `ClearPending`, and
that what an encoder is about to reserve fits beside the counter it read: so a compare-and-swap that
succeeds stays within the limit, however many encoders try. The sum over encoders that have reserved
and not yet delivered gains a term in `Reserve` and loses it in `Extend`. `OutputProofs` carries both
to the composition that the run `output` checks (theorems of the same names): a step of the jobs is a
stutter of the buffers.

`WaveformProofs` proves every invariant of the run `waveform`, of the recorder, its reader and the index
over both, for any declarations and group size, any history, and any limits on records and aliases:

| Theorem | Statement |
|---|---|
| `Inductive` | `Spec => []IInv` |
| `BlocksAreValid` | `Spec => []BlocksValid` |
| `ChangesAreRead` | `Spec => []ChangesReadBack` |
| `ValuesAreRead` | `Spec => []ValuesReadBack` |
| `ActivityIsExact` | `Spec => []ActivityExact` |

The assumption is `ConstantsOK`: the sizes are positive, and each declared signal has a form and an
alphabet of 2, 4 or 9 states. `IInv` is `Recording` of the recorder, the file and the history, and
ties three things to each other that only meet in a reader.

*The file by itself* (`FileOK`). `Valid` is what the reader checks of one block. `Ordered`: blocks do not
overlap in time and signals are only added. `Linked`: the predecessor a block names for a group is the
last block before it in which the group was dirty. `Framed`: a frame holds the last value that the
blocks before it hold. *The recorder over the file.* `TimesOK`: the table ascends, and its last time is
free to be replaced only while no change refers to it (`Reach`). `ColumnsOK`: a column decodes, its
`index` and `code` are those its decoded entries end with (`Follows`, without which an appended
difference or toggle would decode to something else), and what it holds climbs in time. `FramesOK` and
`PreviousOK` say for the block under construction what `Framed` and `Linked` say of the blocks, and
`Continues` that this block starts where the file ends. *Both against the history* (`ReadingOK`).
For every signal, what the blocks record (`Recorded`) is what is worth recording of the emissions up to
the last flush (`WorthOf`), and with the column decoded behind it, of all emissions; `last` and
`emitted` are those of the history. This is the part that fails if `prepare` forgets to reset a code, or
if an alias names a column that differs.

From this the theorems follow by lemmas about the reader. A column read through a window is the
filter of what it holds, and blocks the reader skips hold nothing in the window (`ChangesAreRead`, first
half). The sort gives each position exactly one change and keeps the order of those with the
same time and signal (its rank is a bijection), so each signal's changes come out in their own order;
blocks do not overlap, so the whole is in the order of time (second half). The value at a time is
the last one recorded up to it; deduplication drops only repeats, so this is the last one emitted, and
the predecessor chain and the frame lead to it (`ValuesAreRead`). Running totals, decoding, filtering
and flattening are recursive functions: each is shown to exist and to be unique by induction over a set
of prefixes, and then reasoned about by its equations.

The index (`ActivityIsExact`) needs no invariant of its own, as it is a function of the blocks. A
sequence of stretches is `Laid` over a set of times if it is separate, ascends with a gap of at least
one time, and covers just that set. The scan of a block is laid over the times of its changes, because
those climb (`ScanIs`). Between blocks, `Waits` ties what the builder remembers of a signal to what a
decoder of its rows so far has: the decoder waits for the end of a stretch that began at `open`, the
builder alone knows that it has lasted until `last`, and the list with that stretch is laid over
all times up to there. Each stretch of the next scan joins the open one, closes it, or opens the first of
the signal (`StepJoins`, `StepCloses`, `StepOpens`), and the checks of the decoder hold of what it
wrote (`Closes`, `Opened`), so a row keeps `Waits` (`RowWaits`), also when a block has none. The tail
closes the last stretch (`ListIs`), the reader's changes after the first time are at just those times
(`TimesAreTotal`), and counting the stretches that ended before a window finds the first that may meet
it (`ClassifyIs`).

`BackendProofs` proves two invariants of the backend, for any table size, block size, set of producers
and declarations (`BackendAssumption`), and calls of any number in any legal or refused order:

| Theorem | Statement |
|---|---|
| `Inductive` | `Spec => []Inv` |
| `OwnersOutlive` | `Spec => []OwnersOutliveRecords` |
| `ClaimsAreExclusive` | `Spec => []ClaimsExclusive` |

`ClaimsExclusive`, which is in no run, says that captures of two producers that claim the same resource at
one time are never both accepted.

The invariant says of the backend, until it is closed or sealed, that it is `Sane`. `Table`: an owner
is in the slot of its identifier or in the overflow map and not in both, so that `begin`, which moves
the displaced owner out, and `remove` touch one owner and no other. `Linked`: a stage that is open is in
the list of its owner, once; the list holds nothing else; and no stage shares its identifier with an
owner. This is what makes the loop over `owner.stages` in `end_owner` end all stages, each while its
owner is there. `RecordsOK`: what waits for a block is a log or has an active owner, which is
why every operation that removes an owner writes the block first. With it `OwnersOutlive` is what
`FlushRecords` finds. The invariant adds that open records have identifiers that were used, so that a
new one collides with none. For claims it says that each claim of the present time `Stands`: it is in
the table of claims, or its record has ended. An ended record is never claimed again, as a claim needs
an active record or a new identifier, so forgetting the claim with the record gives nobody else a way
to the same record at that time. Each operation is shown to keep `Sane` and to drop no claim but those
of records it ends (`Advances`); what `end_owner`, `finish` and `discard_missing_payloads` do in loops
is a `FoldLeft`, whose steps are shown to exist by the induction of `DataLemmas`.

What claims are for is the model-checked `OneAuthor`: no open transaction or clock is written by two producers
at one time, so that the order in which the worker merges them decides nothing there. It is not so for a
transaction and its children: `Begin`, `BeginStage` and `Point` look whether the owner is active
(`backend.rs:612`, `635`, `682`) and claim no part of it. A child of one producer and the end of its owner by
another at the same time succeed or fail by the order of merging; no document excludes it, and the property
leaves it out.

`DataLemmas` is what these proofs share. The library's induction theorems take an operator as a
parameter, which the provers cannot instantiate. Induction over natural numbers is instead proved for
a *set* of numbers (`Induction`, from the well-foundedness of inclusion on finite sets, by way of
`Least`), and is used with the set of the numbers that have a property. From it follow running totals of
sequences and `FoldLeft` (`SumIs`, `SumAppended`, `SumJoin`), sums of a function over a finite set in
whatever order it is taken (`SumOver`), the counting of distinct elements, and, in the modules that need
them, the recursive functions `Published` (of `Output`) and `Fitting` (of `PayloadPool`).

Only model-checked: what compares the file of `Backend` with what a reader makes of it (`LedgerSpec`,
`PrefixesValid`, `QueriesExact`, `CyclesExact`, `SummariesExact`: each relates long sequences of calls
to reader functions that are recursive over sections, pages and columns), `OneAuthor`, and all liveness, which the
proof system does not treat under fairness (the `...Ends`, `...Return(s)`, `AllTaken` and `OwnerLeaves`
properties). Of the concurrent parts - ring, transport, output, pool and guard - and of the signal
recorder with its index, every safety property that a passing run checks is proved, and so are the
three refinements of the concurrent parts; of the backend, `OwnersOutliveRecords` and `ClaimsExclusive`.

## 6. Five disagreements between the code and its comments or documents

**A rescue may seal nothing (`rescue_seals`).** `Rescue::seal` sets `closed`, closes the channels
and sends its command. When the worker received a command it first ingests what is left
(`transport.rs:209`). If the backend rejects one of those captures, the `?` ends the round and
drops the command with its reply. The backend did not panic and everything accepted before is
intact, but `closed` stays set, so no later seal by the writer, its drop, or another sealer is
admitted: the file has no directory. If the same capture had been taken one ingest earlier, the failed
recording would have been sealed as incomplete. `docs/TRANSACTIONS.md:607` says the guard can
"seal accepted operations", and reserves the bare prefix to a panicked backend.

**A sealed file may read as unfinished (`sealed_reopens`).** `Output::finish` and `seal_failed` do
not remember that `FramedWriter::finish` failed, as every other write does. A close whose directory
write fails half-way can be followed by a seal — the writer's drop attempts one by itself — which
appends a second directory and returns a fingerprint. The directory's recorded length is not the
file's, so `Container::parse` does not accept it and reports an unfinished file. `docs/SPEC.md:112`
says the directory's extent must match the file exactly, and `output.rs:379` that an output cannot
be sealed after an I/O failure. The weaker property that does hold, `SealReadable`, is checked by `output`.

**A slot is given away before its owner is cleared (`slot_reused`).** `unwatch` stores null into
`WATCHED[i]` and only then clears `STATES[i]` and `OWNER[i]` (`linux.rs:378-383`). Another thread's
`watch` may take the slot in between; its owner is then overwritten with 0. A stop rescue passes 0 as
the thread known to have stopped, so the slot is neither asked to park (line 587) nor taken for
running (line 604), and `close_with` runs on a writer whose thread goes on. The comment at line 608
says "The owner is stopped and the crash state is idle, giving rescue exclusive access". What
does hold, whatever overlaps, is `ExclusiveUnlessDisowned`, checked by `guard` and proved.

**A scan reads another thread's box after it was freed (`ScansLiveBoxes`).** Looking for its own slot, `unwatch`
loads each `WATCHED[i]` (line 367) and reads `(*p).writer` (line 375) before it has claimed anything. The
thread whose box that is may take it (378) and drop it (386) in between. The comment at line 374 says "Only the
owner removes and frees a slot; rescue retains claimed slots until exit", which is true and not enough: the
reader need not be the owner. No run of its own shows this, as the instance is that of `slot_reused`: with
`INVARIANT ScansLiveBoxes` instead of `ExclusiveRescue` in MCCrashGuardOverlap.cfg, TLC finds a behaviour
of 24 states. What holds is `NoFreedBox`, checked by `guard` and proved: no slot ever holds a freed box, so
that what a scan loads was not freed when it loaded it; a rescue, and a thread with its own box, look into
no freed one; and none is freed twice.

**A late signal cannot be read (`late_signal`).** `Reader::value_at` (`trace/waveform.rs:773-823`)
compares the signal with `n_signals` of the last block that has begun. If the signal's group is
clean in that block, the value is looked for in the block that `prev_dirty` names, which may be
older than the signal: its frame has no entry for it, and `value.unwrap()` panics.
`docs/SPEC.md:359-364` calls a signal that joins its group after earlier blocks stored the group
"the normal case", with the default as its value. `ValuesReadBack`, checked by `waveform`, is the
weaker property that holds: where the reader does not panic, the value is the last one emitted, and
it panics only where the default is due.

## 7. Abstractions and limits

- *Memory order.* The ring is modelled with sequentially consistent accesses. The handshake is
  SeqCst in the code; cursors are release stores read by acquire loads, each by one other thread,
  and the staleness acquire/release allows is covered by the cached copies being refreshed at
  arbitrary times. Reordering of non-atomic entry writes past the release store of `written` is
  what release forbids and is not modelled.
- *Counters.* 64-bit cursors, sequence numbers and identifiers are naturals; wrapping needs 2^64
  cells or records.
- *Data.* What a capture says is reduced to its producer, number, time and fate; a section to its
  number; payload bytes to cells and charges. Statistics are left out.
- *Backend as Transport sees it.* It applies, rejects or unwinds. Rejection is arbitrary: the model
  does not say which operation the backend refuses, so what is shown holds for any.
- *Backend.* Payloads are told apart by being there or not; strings, types and nodes are numbers;
  `PageRows` and `BlockRecords` count rows where the code counts bytes as well. Span kinds and
  attribute keys are representatives. A refused operation moves only `captured_time`: the writer is
  poisoned, and `Seal` is all that follows. In inline mode the code skips claims; such a recording
  has one producer, whose claims never conflict. Schema validation, enumerations, labels, the
  reader's caches and visitors that stop early are left out.
- *Signals.* A vector is represented by one of its positions, reals and bytes by their code.
  `GroupSize` is fixed: changing it between an emission and the first block, which
  `Backend::metadata` allows, is not modelled.
- *Merged steps.* `BeginRescue` joins `closed.swap` with taking the lock on the channel list: between the two only a
  registration could matter, which does not read `closed` and therefore commutes. A reply is
  delivered together with the step that sends it, as its receiver does nothing else meanwhile. A capture's reservation and
  publication are one step in `Transport`, because `CaptureRing` implements `CaptureQueue`.
- *Payload pool.* Its atomics are modelled as sequentially consistent. `pending` is stored under the
  mutex and read outside it, where an older value only makes take() look at an empty list, or
  allocate once more. Without encoders only one thread uses the pool, which is not modelled.
- *Output without encoders.* The inline recorder is `pool = FALSE` in `Output`, where the encoder
  threads stay idle.
- *Guard.* A thread owns one writer, which is watched at most `MaxWatches` times; captures of a writer that is not watched
  are left out, as the guard cannot reach it. Nested captures are one. exit is called once. The
  guard's rescue is the only one to end in a seal; how a seal and a close proceed is `Transport`'s,
  and that a seal closes the channel is part of the step that decides to seal. `park_here`'s read of OWNER
  and store of PARKED are one step, slot for slot, and so are `on_park`'s reads of OWNER and STATES; of a
  freed box, a scan may find anything in its `writer`, but its address is not used again. The
  accesses to the slots are sequentially consistent. `RescueEnds` leaves out a thread that lost its slot's
  owner or state and was therefore parked inside a publication: the seal of its writer waits for it.
  Locks that a parked thread may hold (the allocator's, for one), installation, alternate
  stacks and stop callbacks are not modelled. Termination is not claimed when a thread crashes during
  a rescue: it pauses for good, and a seal waiting for its publication, or the exit it was running, never ends.
- *Transport, left out.* The refusal of a rescue because the record identifiers are exhausted
  (`transport.rs:142-148`) needs 2^64 records. An encoding that panics where there are no encoder
  threads unwinds into the output's caller: a worker catches it like any other (`Abort` in `Transport`),
  an inline capture poisons the crash state (`Unwind` in `CrashGuard`). `Output` has the panics of encoder
  threads.
- *Not modelled.* Recovery of a torn file scans bytes and checksums of one immutable file: what it
  must find, the complete sections, is where `PrefixesValid` starts. The handoff spool is buffered storage used
  by one thread. The C++ engine is a second implementation of the same contracts: `CaptureQueue`,
  `OrderedMerge` and `Ledger` are what it would be checked against. Trackers are conveniences over
  captures; command line, converters and progress are presentation. `PROJECT.json` gives the reason
  for each.
