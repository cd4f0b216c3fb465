------------------------------- MODULE Output -------------------------------
(***************************************************************************)
(* The recording's output (vtr-rs/src/recording/output.rs) and the framed  *)
(* file under it (vtr-rs/src/framing.rs).  One owner, the backend, submits *)
(* sections; encoder threads compress them in any order; the owner writes  *)
(* the results in submission order and at last the directory.              *)
(*                                                                         *)
(* A section is its number, 1, 2, ...  The file is the sequence of what    *)
(* FramedWriter wrote: sections, directories, and the parts of either that *)
(* a failed write leaves behind.                                           *)
(***************************************************************************)
EXTENDS Integers, Sequences, FiniteSets, SequencesExt

CONSTANTS Encoders,     \* EncodingOptions.workers: the encoder threads
          MaxJobs,      \* EncodingOptions.queue_jobs
          MaxBytes,     \* EncodingOptions.queue_bytes
          Sizes,        \* the bytes a section may be charged for
          MaxSections,  \* bound: sections submitted in a behaviour
          MaxParts,     \* bound: failed writes that leave a part behind
          Faults        \* the writes that may fail: "section", "flush", "directory"

ASSUME OutputAssumption ==
  /\ MaxJobs \in Nat /\ MaxBytes \in Nat
  /\ Encoders # {} => MaxJobs # 0 /\ MaxBytes # 0
  /\ Sizes \subseteq Nat /\ MaxSections \in Nat /\ MaxParts \in Nat
  /\ Faults \subseteq {"section", "flush", "directory"}

VARIABLES
  pc,        \* the owner's control point inside Output
  goal,      \* the call in progress
  size,      \* the bytes of the section to be submitted
  sizes,     \* the bytes of every submitted section; its length is Pool.next
  pool,      \* Output.pool is some
  jobs,      \* the channel of jobs
  encoding,  \* the section each encoder has in hand, or 0
  results,   \* the channel of results
  spoiled,   \* the sections whose encoding failed or unwound
  ready,     \* Pool.ready
  written,   \* Pool.written
  pendingBytes,  \* Pool.pending_bytes
  failure,   \* Output.failure: "none", "encoding" (recoverable) or "io"
  wire,      \* what FramedWriter wrote
  finished   \* FramedWriter.finished, Backend.finished

ownerVars == <<pc, goal, size>>
poolVars  == <<pool, jobs, encoding, results, spoiled, ready>>
countVars == <<sizes, written, pendingBytes>>
fileVars  == <<wire, finished>>
vars == <<ownerVars, poolVars, countVars, failure, fileVars>>

next == Len(sizes)
PendingJobs == next - written

\* A recorder may also be configured without encoders.
Init ==
  /\ pc = "idle" /\ goal = "none" /\ size = 0
  /\ sizes = <<>>
  /\ pool \in {Encoders # {}, FALSE}
  /\ jobs = <<>> /\ encoding = [e \in Encoders |-> 0] /\ results = <<>>
  /\ spoiled = {} /\ ready = {}
  /\ written = 0 /\ pendingBytes = 0
  /\ failure = "none"
  /\ wire = <<>> /\ finished = FALSE

Step(from, to) == pc = from /\ pc' = to

\* A call returns, with success or with an error.
Return == pc' = "idle" /\ goal' = "none" /\ size' = 0

-----------------------------------------------------------------------------
(* Encoder threads. *)

TakeJob(e) ==
  /\ encoding[e] = 0 /\ jobs # <<>>
  /\ encoding' = [encoding EXCEPT ![e] = Head(jobs)]
  /\ jobs' = Tail(jobs)
  /\ UNCHANGED <<ownerVars, pool, results, spoiled, ready, countVars, failure, fileVars>>

\* Mutant: an encoding that unwinds takes its thread's answer with it.
EncodeJobSilently(e) ==
  /\ encoding[e] # 0
  /\ encoding' = [encoding EXCEPT ![e] = 0]
  /\ \/ results' = Append(results, encoding[e]) /\ UNCHANGED spoiled
     \/ spoiled' = spoiled \cup {encoding[e]} /\ UNCHANGED results
  /\ UNCHANGED <<ownerVars, pool, jobs, ready, countVars, failure, fileVars>>

\* An encoding that unwinds is reported like one that fails.
EncodeJob(e) ==
  /\ encoding[e] # 0
  /\ encoding' = [encoding EXCEPT ![e] = 0]
  /\ results' = Append(results, encoding[e])
  /\ \/ UNCHANGED spoiled
     \/ spoiled' = spoiled \cup {encoding[e]}
  /\ UNCHANGED <<ownerVars, pool, jobs, ready, countVars, failure, fileVars>>

-----------------------------------------------------------------------------
(* Writing: FramedWriter.section and Output::write. *)

Section(n) == [kind |-> "section", n |-> n]
PartOf(kind) == [kind |-> IF kind = "section" THEN "part of section" ELSE "part of directory",
                 n |-> 0]

\* The sections written, by number, and the directory that says where it believes to begin.
Published(file) ==
  LET upto[i \in 0 .. Len(file)] ==
        IF i = 0 THEN << >>
        ELSE IF file[i].kind = "section" THEN Append(upto[i - 1], file[i].n) ELSE upto[i - 1]
  IN upto[Len(file)]
Position(file) == Cardinality({i \in 1 .. Len(file) : file[i].kind = "section"})
Directory(status) == [kind |-> status, n |-> Position(wire)]

\* A failed write leaves nothing or a part behind.
Torn(kind) ==
  \/ UNCHANGED wire
  \/ Len(wire) - Position(wire) < MaxParts /\ wire' = Append(wire, PartOf(kind))

\* Mutant: a write error is as recoverable as an encoding error.
WriteFailsRecoverably ==
  /\ "section" \in Faults
  /\ Torn("section")
  /\ failure' = "encoding"
  /\ Return
  /\ UNCHANGED <<sizes, written, pendingBytes>>

WriteFails ==
  /\ "section" \in Faults
  /\ Torn("section")
  /\ failure' = "io"
  /\ Return
  /\ UNCHANGED <<sizes, written, pendingBytes>>

\* The payload is an encoding error, and so is the outcome of the call.
EncodingFailed ==
  /\ failure' = "encoding"
  /\ Return
  /\ UNCHANGED <<countVars, wire>>

-----------------------------------------------------------------------------
(* The owner's calls. *)

\* Mutant: a call goes on after a failure.
UsableAlways == ~finished

Usable == failure = "none" /\ ~finished

\* Output::encode and Output::section, with a pool or, inline, as encode_now.
Encode ==
  /\ Step("idle", IF pool THEN "admit" ELSE "inline") /\ goal' = "encode"
  /\ Usable
  /\ next < MaxSections
  /\ size' \in Sizes
  /\ sizes' = IF pool THEN sizes ELSE Append(sizes, size')
  /\ UNCHANGED <<poolVars, written, pendingBytes, failure, fileVars>>

EncodeNow ==
  /\ pc = "inline"
  /\ \/ wire' = Append(wire, Section(next)) /\ Return /\ UNCHANGED <<countVars, failure, spoiled>>
     \/ spoiled' = spoiled \cup {next} /\ EncodingFailed
     \/ WriteFails /\ UNCHANGED spoiled
  /\ UNCHANGED <<pool, jobs, encoding, results, ready, finished>>

BytesLeft == IF pendingBytes < MaxBytes THEN MaxBytes - pendingBytes ELSE 0

\* Mutant: one job more than the queue holds.
FullLate == PendingJobs # 0 /\ (PendingJobs > MaxJobs \/ size > BytesLeft)

\* No room for another job; a section over the whole budget is let in alone.
Full == PendingJobs # 0 /\ (PendingJobs >= MaxJobs \/ size > BytesLeft)

Callers == {"admit", "poll", "flush"}
DrainFor(caller) == IF caller = "admit" THEN "drain for admit"
                    ELSE IF caller = "poll" THEN "drain for poll" ELSE "drain for flush"
Draining(caller) == pc = DrainFor(caller)

\* Pool::receive takes one result; drain_ready follows, and then the caller goes on.
Receive(caller) ==
  /\ pc = caller /\ results # <<>>
  /\ pc' = DrainFor(caller)
  /\ ready' = ready \cup {Head(results)}
  /\ results' = Tail(results)
  /\ UNCHANGED <<goal, size, pool, jobs, encoding, spoiled, countVars, failure, fileVars>>

AwaitRoom == Full /\ Receive("admit")

\* The job goes to the channel, which has room: `jobs` is never longer than what is pending.
Submit ==
  /\ Step("admit", "poll")
  /\ ~Full
  /\ Len(jobs) < MaxJobs
  /\ jobs' = Append(jobs, next + 1)
  /\ sizes' = Append(sizes, size)
  /\ pendingBytes' = pendingBytes + size
  /\ size' = 0
  /\ UNCHANGED <<goal, pool, encoding, results, spoiled, ready, written, failure, fileVars>>

\* Output::poll, called by the backend and at the end of encode.
Poll ==
  /\ Step("idle", "poll") /\ goal' = "poll"
  /\ Usable /\ pool
  /\ UNCHANGED <<size, poolVars, countVars, failure, fileVars>>

PollEnds ==
  /\ pc = "poll" /\ results = <<>>
  /\ Return
  /\ UNCHANGED <<poolVars, countVars, failure, fileVars>>

Charge(n) == sizes[n]

\* Mutant: results are written as they come.
NextReadyAny == ready

\* Only the next section in submission order may be written.
NextReady == ready \cap {written + 1}

DrainOne ==
  /\ \E caller \in Callers : Draining(caller)
  /\ \E n \in NextReady :
       /\ ready' = ready \ {n}
       /\ \/ /\ n \notin spoiled
             /\ wire' = Append(wire, Section(n))
             /\ written' = written + 1
             /\ pendingBytes' = pendingBytes - Charge(n)
             /\ UNCHANGED <<ownerVars, sizes, failure>>
          \/ n \notin spoiled /\ WriteFails
          \/ n \in spoiled /\ EncodingFailed
  /\ UNCHANGED <<pool, jobs, encoding, results, spoiled, finished>>

DrainEnds(caller) ==
  /\ Draining(caller) /\ pc' = caller
  /\ NextReady = {}
  /\ UNCHANGED <<goal, size, poolVars, countVars, failure, fileVars>>

\* Output::flush and Backend::finish; a recording whose encoding failed is sealed without.
Flush ==
  /\ Step("idle", "flush") /\ goal' = "flush"
  /\ Usable
  /\ UNCHANGED <<size, poolVars, countVars, failure, fileVars>>

Finish(status) ==
  /\ Step("idle", IF failure = "encoding" THEN "stop" ELSE "flush") /\ goal' = status
  /\ ~finished
  /\ failure = "none" \/ (failure = "encoding" /\ status = "incomplete")
  /\ UNCHANGED <<size, poolVars, countVars, failure, fileVars>>

FlushWaits == pool /\ PendingJobs # 0 /\ Receive("flush")

Flushed == pool => PendingJobs = 0

FlushFile ==
  /\ pc = "flush" /\ Flushed
  /\ \/ /\ IF goal = "flush" THEN Return ELSE pc' = "stop" /\ UNCHANGED <<goal, size>>
        /\ UNCHANGED failure
     \/ "flush" \in Faults /\ failure' = "io" /\ Return
  /\ UNCHANGED <<poolVars, countVars, fileVars>>

\* An output that is dropped stops its pool too.
Drop ==
  /\ Step("idle", "stop") /\ goal' = "drop"
  /\ UNCHANGED <<size, poolVars, countVars, failure, fileVars>>

\* Output::stop_pool: encoders finish what was submitted, and are joined.
StopPool ==
  /\ Step("stop", IF goal = "drop" THEN "dropped" ELSE "directory")
  /\ pool => jobs = <<>> /\ \A e \in Encoders : encoding[e] = 0
  /\ pool' = FALSE /\ results' = <<>> /\ ready' = {}
  /\ UNCHANGED <<goal, size, jobs, encoding, spoiled, countVars, failure, fileVars>>

\* FramedWriter.finish.
WriteDirectory ==
  /\ pc = "directory"
  /\ \/ wire' = Append(wire, Directory(goal)) /\ finished' = TRUE
     \/ "directory" \in Faults /\ Torn("directory") /\ UNCHANGED finished
  /\ Return
  /\ UNCHANGED <<poolVars, countVars, failure>>

Owner ==
  \/ EncodeNow \/ AwaitRoom \/ Submit \/ Receive("poll") \/ PollEnds \/ DrainOne
  \/ (\E caller \in Callers : DrainEnds(caller))
  \/ FlushWaits \/ FlushFile \/ StopPool \/ WriteDirectory

Call == Encode \/ Poll \/ Flush \/ Drop \/ Finish("complete") \/ Finish("incomplete")

Encoder(e) == TakeJob(e) \/ EncodeJob(e)

Next == Call \/ Owner \/ \E e \in Encoders : Encoder(e)

Spec == Init /\ [][Next]_vars

\* A call in progress and every encoder thread keep running; nobody is obliged to call.
FairSpec == Spec /\ WF_vars(Owner) /\ \A e \in Encoders : WF_vars(Encoder(e))

-----------------------------------------------------------------------------
(* What a reader finds: Container::parse. *)

Statuses == {"complete", "incomplete"}

\* The trailer is accepted only when the file is as long as it says.
Accepted == wire # <<>> /\ Last(wire).kind \in Statuses /\ Last(wire).n = Len(wire) - 1

Completion == IF Accepted THEN Last(wire).kind ELSE "unfinished"

-----------------------------------------------------------------------------
\* While nothing has failed, every submitted section that is not in the file is in exactly one
\* place between the owner and the encoders, and it is charged: none is lost, whichever encoder
\* finishes first, and flush may count on an answer for each.
Accounted ==
  pool /\ failure = "none" =>
    LET waiting == written + 1 .. next
        busy == {e \in Encoders : encoding[e] # 0}
    IN /\ waiting = ToSet(jobs) \cup {encoding[e] : e \in busy} \cup ToSet(results) \cup ready
       /\ PendingJobs = Len(jobs) + Cardinality(busy) + Len(results) + Cardinality(ready)
       /\ pendingBytes = FoldLeft(LAMBDA a, b : a + b, 0, SubSeq(sizes, written + 1, next))

\* Encoding jobs and their bytes are bounded; only a section over the whole budget exceeds it,
\* and then it is the only one that is charged (docs/TRANSACTIONS.md: encoding job budgets).
WithinBudget ==
  /\ pool => PendingJobs <= MaxJobs
  /\ \/ pendingBytes <= MaxBytes
     \/ Cardinality({n \in written + 1 .. next : sizes[n] > 0}) <= 1

\* A write that failed is final: nothing is sealed over it.  Short of a failure of the directory
\* itself, what was sealed reads back as sealed.
SealReadable ==
  finished =>
    /\ failure # "io" /\ \A i \in 1 .. Len(wire) : wire[i].kind # "part of section"
    /\ Accepted \/ \E i \in 1 .. Len(wire) : wire[i].kind = "part of directory"

\* Encoder results are published in submission order, and a recording is completed only with
\* all of them.
Ordered == INSTANCE OrderedOutput WITH
  submitted <- next,
  published <- Published(wire),
  status    <- IF finished THEN Last(wire).kind ELSE "open"

OutputSpec == Ordered!Spec

\* Every call returns: no wait for room, for results or for the encoders' threads hangs, also
\* after an encoding or a write failed.
CallsEnd == goal # "none" ~> goal = "none" \/ pc = "dropped"

\* docs/SPEC.md: "`Incomplete` means an explicitly sealed or recovered directory"; output.rs:
\* "output cannot be sealed after an I/O failure".  A recording that was sealed, and was given
\* its fingerprint, reads back as sealed.
SealedReopens == finished => Completion \in Statuses
=============================================================================
