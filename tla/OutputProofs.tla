---------------------------- MODULE OutputProofs ----------------------------
(***************************************************************************)
(* The budgets of the encoder pool, and what is sealed, in every state of  *)
(* Output: for any number of encoders, any budgets and any faults; and     *)
(* the payload buffers beside it.                                          *)
(***************************************************************************)
EXTENDS MCOutput, DataLemmas

Busy == {"inline", "admit", "poll", "flush"} \cup {DrainFor(caller) : caller \in Callers}
Parts == {"section", "part of section", "part of directory"}
Items == [kind : Parts \cup Statuses, n : Nat]
Goals == {"none", "encode", "poll", "flush", "drop"} \cup Statuses

Types ==
  /\ pc \in Busy \cup {"idle", "stop", "directory", "dropped"}
  /\ goal \in Goals /\ size \in Nat
  /\ sizes \in Seq(Nat) /\ written \in 0 .. next /\ pendingBytes \in Int
  /\ pool \in BOOLEAN /\ (pool => Encoders # {})
  /\ jobs \in Seq(1 .. next) /\ results \in Seq(1 .. next) /\ ready \subseteq 1 .. next
  /\ encoding \in [Encoders -> 0 .. next]
  /\ failure \in {"none", "encoding", "io"} /\ finished \in BOOLEAN
  /\ wire \in Seq(Items)

\* Where a call may be, and what it may still count on there.
Control ==
  /\ pc \in Busy => failure = "none" /\ ~finished
  /\ pc \in {"admit", DrainFor("admit")} => pool
  /\ pc \in {"flush", DrainFor("flush")} => goal \in Statuses \cup {"flush"}
  /\ pc = "stop" /\ goal # "drop" => /\ goal \in Statuses /\ failure # "io" /\ ~finished
                                     /\ failure = "none" /\ pool => PendingJobs = 0
  /\ pc = "directory" => goal \in Statuses /\ failure # "io" /\ ~finished

\* Without a pool nothing is under way.
NoPool ==
  ~pool => /\ jobs = << >> /\ results = << >> /\ ready = {}
           /\ \A e \in Encoders : encoding[e] = 0

JobsBounded == pool => PendingJobs <= MaxJobs

\* pendingBytes is a difference of running totals; a section that was
\* recorded without encoders is in none of them.
Totals(last, total) ==
  /\ written <= last /\ (pool => last = next)
  /\ \A n \in 1 .. last : total[n] = total[n - 1] + sizes[n]
  /\ pendingBytes = total[last] - total[written]
Charged == \E last \in 0 .. next : \E total \in [0 .. last -> Nat] : Totals(last, total)

\* Over the budget, at most one pending section is charged anything; without
\* a pool nothing is over the budget unless something failed.
BytesBounded ==
  /\ \/ pendingBytes <= MaxBytes
     \/ \E n \in Nat : \A m \in (written + 1 .. next) \ {n} : sizes[m] = 0
  /\ ~pool /\ failure = "none" /\ pc # "dropped" => pendingBytes <= MaxBytes

\* The directory is the last item of the file and tells how many sections
\* are before it; a torn section is an error that stays.
Sealed ==
  /\ failure # "io" => \A i \in 1 .. Len(wire) : wire[i].kind # "part of section"
  /\ \A i \in 1 .. Len(wire) : i < Len(wire) \/ ~finished => wire[i].kind \in Parts
  /\ finished => /\ failure # "io" /\ wire # << >>
                 /\ wire[Len(wire)].kind \in Statuses
                 /\ wire[Len(wire)].n
                      = Cardinality({i \in 1 .. Len(wire) - 1 : wire[i].kind = "section"})

IInv == Types /\ Control /\ NoPool /\ JobsBounded /\ Charged /\ BytesBounded /\ Sealed

LEMMA AllBefore ==
  ASSUME NEW T, NEW file \in Seq(T), file # << >>, NEW P,
         \A i \in 1 .. Len(file) : i < Len(file) => i \in P
  PROVE  /\ Len(file) \in 1 .. Len(file)
         /\ \A i \in 1 .. Len(file) - 1 : i \in 1 .. Len(file)
         /\ Cardinality({i \in 1 .. Len(file) - 1 : i \in P}) = Len(file) - 1
<1>1. PICK n \in Nat : Len(file) = n + 1
  <2>1. Len(file) \in Nat /\ Len(file) # 0
    BY LenProperties, EmptySeq
  <2>2. Len(file) - 1 \in Nat /\ Len(file) = (Len(file) - 1) + 1
    BY <2>1
  <2> QED
    BY <2>2
<1>2. \A i \in 1 .. n : i \in 1 .. n + 1 /\ i < n + 1
  OBVIOUS
<1>3. \A i \in 1 .. n : i \in P
  BY <1>1, <1>2
<1>4. {i \in 1 .. n : i \in P} = 1 .. n
  BY <1>3
<1>5. Len(file) - 1 = n
  BY <1>1
<1>6. Cardinality({i \in 1 .. Len(file) - 1 : i \in P}) = n
  BY <1>4, <1>5, Interval, Zenon
<1>7. n + 1 \in 1 .. n + 1
  OBVIOUS
<1> QED
  BY <1>1, <1>2, <1>5, <1>6, <1>7, Zenon

USE OutputAssumption

LEMMA InitInv == Init => IInv
<1> SUFFICES ASSUME Init PROVE IInv
  OBVIOUS
<1>0. pool \in BOOLEAN /\ (pool => Encoders # {})
  BY Zenon DEF Init
<1>1. Types
  <2>1. next = 0 /\ sizes \in Seq(Nat)
    BY DEF Init, next
  <2>2. encoding \in [Encoders -> 0 .. next]
    BY <2>1 DEF Init
  <2>3. jobs \in Seq(1 .. next) /\ results \in Seq(1 .. next) /\ wire \in Seq(Items)
    BY DEF Init
  <2>4. size \in Nat /\ written \in 0 .. next /\ pendingBytes \in Int
    BY <2>1 DEF Init
  <2>5. /\ pc \in Busy \cup {"idle", "stop", "directory", "dropped"}
        /\ goal \in Goals /\ failure \in {"none", "encoding", "io"}
    BY DEF Init, Goals
  <2>6. ready \subseteq 1 .. next /\ finished \in BOOLEAN
    BY Zenon DEF Init
  <2> QED
    BY <1>0, <2>1, <2>2, <2>3, <2>4, <2>5, <2>6 DEF Types
<1>2. Control /\ NoPool /\ JobsBounded /\ Sealed
  BY DEF Init, Control, NoPool, JobsBounded, Sealed, Busy, Callers, DrainFor, PendingJobs, next
<1>3. Charged
  <2>1. [n \in 0 .. 0 |-> 0] \in [0 .. 0 -> Nat]
    OBVIOUS
  <2>2. Totals(0, [n \in 0 .. 0 |-> 0])
    BY DEF Init, Totals, next
  <2> QED
    BY <2>1, <2>2 DEF Charged, Init, next
<1>4. BytesBounded
  BY DEF Init, BytesBounded
<1> QED
  BY <1>1, <1>2, <1>3, <1>4 DEF IInv

(***************************************************************************)
(* What a step that leaves the counters, or the file, alone preserves.     *)
(***************************************************************************)
LEMMA SameCounts ==
  ASSUME JobsBounded, Charged, UNCHANGED <<countVars, pool>>
  PROVE  JobsBounded' /\ Charged'
BY DEF JobsBounded, Charged, Totals, PendingJobs, countVars, next

LEMMA SameBytes ==
  ASSUME BytesBounded, UNCHANGED <<countVars, pool>>,
         failure' = "none" => failure = "none", pc = "dropped" => pc' = "dropped"
  PROVE  BytesBounded'
BY DEF BytesBounded, countVars, next

LEMMA SameFile ==
  ASSUME Sealed, UNCHANGED fileVars, failure' # "io" => failure # "io",
         finished => failure' # "io"
  PROVE  Sealed'
BY DEF Sealed, fileVars

LEMMA SamePool ==
  ASSUME NoPool, UNCHANGED <<pool, jobs, encoding, results, ready>>
  PROVE  NoPool'
BY DEF NoPool

(***************************************************************************)
(* The encoder threads.                                                    *)
(***************************************************************************)
LEMMA EncoderStep ==
  ASSUME IInv, NEW e \in Encoders, Encoder(e)
  PROVE  IInv'
<1> USE DEF IInv
<1>1. UNCHANGED <<ownerVars, pool, ready, countVars, failure, fileVars>>
  BY DEF Encoder, TakeJob, EncodeJob
<1>2. pool
  BY <1>1 DEF Encoder, TakeJob, EncodeJob, NoPool, Types
<1>3. next' = next /\ next \in Nat
  BY <1>1 DEF countVars, next, Types
<1>4. jobs' \in Seq(1 .. next) /\ results' \in Seq(1 .. next)
      /\ encoding' \in [Encoders -> 0 .. next]
  <2>1. CASE TakeJob(e)
    <3>1. Head(jobs) \in 1 .. next /\ Tail(jobs) \in Seq(1 .. next)
      BY <2>1, HeadTailProperties DEF TakeJob, Types
    <3>2. encoding' \in [Encoders -> 0 .. next]
      BY <1>3, <2>1, <3>1 DEF TakeJob, Types
    <3>3. jobs' \in Seq(1 .. next) /\ results' = results
      BY <2>1, <3>1 DEF TakeJob, poolVars
    <3> QED
      BY <3>2, <3>3 DEF Types
  <2>2. CASE EncodeJob(e)
    <3>1. encoding[e] \in 1 .. next
      BY <1>3, <2>2 DEF EncodeJob, Types
    <3>2. results' \in Seq(1 .. next) /\ jobs' = jobs
      BY <2>2, <3>1 DEF EncodeJob, Types
    <3>3. encoding' \in [Encoders -> 0 .. next]
      BY <1>3, <2>2 DEF EncodeJob, Types
    <3> QED
      BY <3>2, <3>3 DEF Types
  <2> QED
    BY <2>1, <2>2 DEF Encoder
<1>5. Types'
  BY <1>1, <1>3, <1>4 DEF Types, ownerVars, countVars, fileVars
<1>6. Control' /\ NoPool'
  BY <1>1, <1>2, <1>3 DEF Control, NoPool, ownerVars, countVars, fileVars, PendingJobs
<1>7. JobsBounded' /\ Charged' /\ BytesBounded' /\ Sealed'
  BY <1>1, SameCounts, SameBytes, SameFile DEF ownerVars, Sealed
<1> QED
  BY <1>5, <1>6, <1>7

(***************************************************************************)
(* The calls begin.                                                        *)
(***************************************************************************)
\* A step to another place of a call, which changes nothing else.
LEMMA Elsewhere ==
  ASSUME IInv, UNCHANGED <<poolVars, countVars, failure, fileVars>>, size' \in {0, size},
         pc' \in Busy \cup {"idle", "stop", "directory", "dropped"}, goal' \in Goals,
         pc # "dropped", Control'
  PROVE  IInv'
<1>1. next' = next
  BY DEF countVars, next
<1>2. Types'
  BY <1>1 DEF IInv, Types, poolVars, countVars, fileVars
<1>3. NoPool' /\ JobsBounded' /\ Charged' /\ BytesBounded' /\ Sealed'
  BY SameCounts, SameBytes, SameFile, SamePool DEF IInv, poolVars, Sealed
<1> QED
  BY <1>2, <1>3 DEF IInv

LEMMA BeginStep ==
  ASSUME IInv, Poll \/ Flush \/ Drop \/ \E status \in Statuses : Finish(status)
  PROVE  IInv'
<1> USE DEF Busy, Callers, DrainFor, Step, Goals, Statuses
<1>1. CASE Poll
  BY <1>1, Elsewhere DEF Poll, Usable, Control, IInv, fileVars
<1>2. CASE Flush
  BY <1>2, Elsewhere DEF Flush, Usable, Control, IInv, fileVars
<1>3. CASE Drop
  BY <1>3, Elsewhere DEF Drop, Control, IInv, fileVars
<1>4. CASE \E status \in Statuses : Finish(status)
  <2>1. PICK status \in Statuses : Finish(status)
    BY <1>4
  <2>2. pc' \in {"stop", "flush"} /\ goal' = status /\ pc = "idle"
    BY <2>1 DEF Finish
  <2>3. Control'
    BY <2>1, <2>2 DEF Finish, Control, fileVars
  <2> QED
    BY <2>1, <2>2, <2>3, Elsewhere DEF Finish
<1> QED
  BY <1>1, <1>2, <1>3, <1>4

\* One more section, whose room is still to come or not needed.
LEMMA EncodeStep ==
  ASSUME IInv, Encode
  PROVE  IInv'
<1> USE DEF IInv
<1>1. pc = "idle" /\ pc' \in {"admit", "inline"} /\ (pc' = "admit" => pool) /\ goal' = "encode"
      /\ failure = "none" /\ finished = FALSE /\ size' \in Nat
      /\ UNCHANGED <<poolVars, written, pendingBytes, failure, fileVars>>
  BY DEF Encode, Step, Usable, Types
<1>2. Control' /\ NoPool' /\ Sealed'
  BY <1>1, SamePool, SameFile DEF Control, Busy, Callers, DrainFor, Statuses, poolVars, fileVars,
                                  Sealed
<1>3. CASE pool
  <2>1. UNCHANGED countVars /\ next' = next
    BY <1>1, <1>3 DEF Encode, countVars, next
  <2>2. Types'
    BY <1>1, <2>1 DEF Types, poolVars, countVars, fileVars, Busy, Goals
  <2>3. JobsBounded' /\ Charged' /\ BytesBounded'
    BY <1>1, <2>1, SameCounts, SameBytes DEF poolVars
  <2> QED
    BY <1>2, <2>2, <2>3
<1>4. CASE ~pool
  <2>1. sizes' = Append(sizes, size') /\ sizes' \in Seq(Nat) /\ next' = next + 1
        /\ next \in Nat /\ written \in 0 .. next
    BY <1>1, <1>4, AppendProperties DEF Encode, Types, next
  <2>2. /\ 0 .. next \subseteq 0 .. next' /\ 1 .. next \subseteq 1 .. next'
    BY <2>1
  <2>3. Types'
    <3>1. /\ jobs = << >> /\ results = << >> /\ ready = {}
          /\ encoding \in [Encoders -> 0 .. next']
      BY <1>4, <2>2 DEF NoPool, Types
    <3>2. jobs' \in Seq(1 .. next') /\ results' \in Seq(1 .. next') /\ ready' \subseteq 1 .. next'
          /\ encoding' \in [Encoders -> 0 .. next']
      BY <1>1, <3>1 DEF poolVars
    <3> QED
      BY <1>1, <2>1, <2>2, <3>2 DEF Types, poolVars, fileVars, Busy, Goals
  <2>4. JobsBounded'
    BY <1>1, <1>4 DEF JobsBounded, poolVars
  <2>5. Charged'
    <3>1. PICK last \in 0 .. next : \E total \in [0 .. last -> Nat] : Totals(last, total)
      BY DEF Charged
    <3>2. PICK total \in [0 .. last -> Nat] : Totals(last, total)
      BY <3>1
    <3>3. \A n \in 1 .. last : sizes'[n] = sizes[n]
      BY <2>1, AppendProperties DEF next, Types
    <3>4. Totals(last, total)'
      BY <1>1, <1>4, <3>2, <3>3 DEF Totals, poolVars
    <3> QED
      BY <2>2, <3>4 DEF Charged
  <2>6. BytesBounded'
    BY <1>1, <1>4 DEF BytesBounded, poolVars
  <2> QED
    BY <1>2, <2>3, <2>4, <2>5, <2>6
<1> QED
  BY <1>3, <1>4 DEF Types

(***************************************************************************)
(* Writing.                                                                *)
(***************************************************************************)
LEMMA AppendsItem ==
  ASSUME Types, Sealed, ~finished, ~finished', NEW item \in Items, item.kind \in Parts,
         wire' = Append(wire, item),
         failure' # "io" => failure # "io" /\ item.kind # "part of section"
  PROVE  Sealed' /\ wire' \in Seq(Items)
<1>1. wire \in Seq(Items)
  BY DEF Types
<1>2. /\ wire' \in Seq(Items) /\ Len(wire) \in Nat
      /\ Len(wire') = Len(wire) + 1 /\ wire'[Len(wire) + 1] = item
      /\ \A i \in 1 .. Len(wire) : wire'[i] = wire[i]
      /\ \A i \in 1 .. Len(wire') : i \in 1 .. Len(wire) \/ i = Len(wire) + 1
  <2>1. /\ Append(wire, item) \in Seq(Items) /\ Len(wire) \in Nat
        /\ Len(Append(wire, item)) = Len(wire) + 1 /\ Append(wire, item)[Len(wire) + 1] = item
        /\ \A i \in 1 .. Len(wire) : Append(wire, item)[i] = wire[i]
        /\ \A i \in 1 .. Len(Append(wire, item)) : i \in 1 .. Len(wire) \/ i = Len(wire) + 1
    BY <1>1, AppendOne, Zenon
  <2> QED
    BY <2>1, Zenon
<1> QED
  BY <1>2 DEF Sealed

LEMMA Tears ==
  ASSUME Types, Sealed, ~finished, ~finished', NEW kind \in {"section", "directory"}, Torn(kind),
         failure' # "io" => failure # "io" /\ kind = "directory"
  PROVE  Sealed' /\ wire' \in Seq(Items)
<1>1. CASE UNCHANGED wire
  BY <1>1 DEF Types, Sealed
<1>2. CASE wire' = Append(wire, PartOf(kind))
  <2>1. PartOf(kind) \in Items /\ PartOf(kind).kind \in Parts
        /\ (kind = "directory" => PartOf(kind).kind # "part of section")
    BY DEF PartOf, Items, Parts
  <2> QED
    BY <1>2, <2>1, AppendsItem
<1> QED
  BY <1>1, <1>2 DEF Torn

LEMMA WriteSection ==
  ASSUME Types, Sealed, failure = "none", UNCHANGED failure, ~finished, ~finished',
         NEW n \in Nat, wire' = Append(wire, Section(n))
  PROVE  Sealed' /\ wire' \in Seq(Items)
<1>1. Section(n) \in Items /\ Section(n).kind = "section"
  BY DEF Section, Items, Parts
<1> QED
  BY <1>1, AppendsItem DEF Parts

\* A call returns with its error, which ends all further ones.
LEMMA Fails ==
  ASSUME IInv, Return, failure' \in {"encoding", "io"}, UNCHANGED <<countVars, pool, jobs,
         encoding, results, finished>>, ready' \subseteq ready, pc \in Busy,
         Sealed', wire' \in Seq(Items)
  PROVE  IInv'
<1> USE DEF IInv
<1>1. next' = next
  BY DEF countVars, next
<1>2. Types'
  <2>1. pc' = "idle" /\ goal' \in Goals /\ size' \in Nat
    BY DEF Return, Goals
  <2>2. ready' \subseteq 1 .. next'
    BY <1>1 DEF Types
  <2>3. failure' \in {"none", "encoding", "io"}
    OBVIOUS
  <2>4. finished' \in BOOLEAN
    BY Zenon DEF Types
  <2> QED
    BY <1>1, <2>1, <2>2, <2>3, <2>4 DEF Types, countVars
<1>3. Control'
  BY DEF Control, Return, Busy, Callers, DrainFor
<1>4. NoPool' /\ JobsBounded' /\ Charged'
  BY SameCounts DEF NoPool
<1>5. BytesBounded'
  BY <1>1 DEF BytesBounded, countVars
<1> QED
  BY <1>2, <1>3, <1>4, <1>5

LEMMA EncodeNowStep ==
  ASSUME IInv, EncodeNow
  PROVE  IInv'
<1> USE DEF IInv
<1>1. pc = "inline" /\ pc \in Busy /\ failure = "none" /\ ~finished /\ ~finished' /\ next \in Nat
      /\ UNCHANGED <<pool, jobs, encoding, results, ready, finished>>
  BY DEF EncodeNow, Control, Busy, Types, next
<1>2. CASE wire' = Append(wire, Section(next)) /\ Return /\ UNCHANGED <<countVars, failure, spoiled>>
  <2>1. Sealed' /\ wire' \in Seq(Items)
    BY <1>1, <1>2, WriteSection
  <2>2. next' = next
    BY <1>2 DEF countVars, next
  <2>3. Types'
    BY <1>1, <1>2, <2>1, <2>2 DEF Types, Return, countVars, Goals
  <2>4. Control'
    BY <1>2 DEF Control, Return, Busy, Callers, DrainFor
  <2>5. NoPool' /\ JobsBounded' /\ Charged' /\ BytesBounded'
    BY <1>1, <1>2, SamePool, SameCounts, SameBytes
  <2> QED
    BY <2>1, <2>3, <2>4, <2>5
<1>3. CASE EncodingFailed
  <2>1. Sealed' /\ wire' \in Seq(Items)
    BY <1>1, <1>3, SameFile DEF EncodingFailed, fileVars, Types
  <2> QED
    BY <1>1, <1>3, <2>1, Fails DEF EncodingFailed
<1>4. CASE WriteFails
  <2>1. Sealed' /\ wire' \in Seq(Items)
    BY <1>1, <1>4, Tears DEF WriteFails
  <2> QED
    BY <1>1, <1>4, <2>1, Fails DEF WriteFails, countVars
<1> QED
  BY <1>2, <1>3, <1>4 DEF EncodeNow

(***************************************************************************)
(* The pool's results.                                                     *)
(***************************************************************************)
LEMMA ReceiveStep ==
  ASSUME IInv, NEW caller \in Callers, Receive(caller)
  PROVE  IInv'
<1> USE DEF IInv
<1>1. /\ pc = caller /\ results # << >> /\ pc' = DrainFor(caller)
      /\ ready' = ready \cup {Head(results)} /\ results' = Tail(results)
      /\ UNCHANGED <<goal, size, pool, jobs, encoding, spoiled, countVars, failure, fileVars>>
  BY DEF Receive
<1>2. pool
  BY <1>1 DEF NoPool
<1>3. next' = next /\ next \in Nat
  BY <1>1 DEF countVars, next, Types
<1>4. Head(results) \in 1 .. next /\ Tail(results) \in Seq(1 .. next)
  BY <1>1, HeadTailProperties DEF Types
<1>5. Types'
  <2>1. results' \in Seq(1 .. next') /\ ready' \subseteq 1 .. next'
    BY <1>1, <1>3, <1>4 DEF Types
  <2>2. pc' \in Busy
    BY <1>1 DEF Busy
  <2> QED
    BY <1>1, <1>3, <2>1, <2>2 DEF Types, countVars, fileVars
<1>6. Control'
  BY <1>1, <1>2 DEF Control, Callers, DrainFor, Busy, fileVars
<1>7. NoPool' /\ JobsBounded' /\ Charged' /\ BytesBounded' /\ Sealed'
  BY <1>1, <1>2, SameCounts, SameBytes, SameFile DEF NoPool, Sealed, Callers
<1> QED
  BY <1>5, <1>6, <1>7

LEMMA DrainEndsStep ==
  ASSUME IInv, NEW caller \in Callers, DrainEnds(caller)
  PROVE  IInv'
<1>1. /\ pc = DrainFor(caller) /\ pc' = caller
      /\ UNCHANGED <<goal, size, poolVars, countVars, failure, fileVars>>
  BY DEF DrainEnds, Draining
<1>2. Control'
  BY <1>1 DEF IInv, Control, Callers, DrainFor, Busy, poolVars, fileVars
<1>3. goal' \in Goals /\ pc' \in Busy /\ pc # "dropped"
  BY <1>1 DEF IInv, Types, Busy, Callers, DrainFor
<1> QED
  BY <1>1, <1>2, <1>3, Elsewhere

LEMMA PollEndsStep ==
  ASSUME IInv, PollEnds
  PROVE  IInv'
<1>1. Control'
  BY DEF PollEnds, Return, Control, Busy, Callers, DrainFor
<1> QED
  BY <1>1, Elsewhere DEF PollEnds, Return, Goals

\* The next section in submission order is written, or ends the recording.
LEMMA DrainOneStep ==
  ASSUME IInv, DrainOne
  PROVE  IInv'
<1> USE DEF IInv
<1>1. PICK caller \in Callers : pc = DrainFor(caller)
  BY DEF DrainOne, Draining
<1>2. pc \in Busy /\ failure = "none" /\ ~finished /\ UNCHANGED finished
      /\ UNCHANGED <<pool, jobs, encoding, results>>
  BY <1>1 DEF DrainOne, Busy, Control
<1>3. /\ written + 1 \in ready /\ ready' = ready \ {written + 1}
      /\ \/ /\ wire' = Append(wire, Section(written + 1)) /\ written' = written + 1
            /\ pendingBytes' = pendingBytes - sizes[written + 1]
            /\ UNCHANGED <<ownerVars, sizes, failure>>
         \/ WriteFails
         \/ EncodingFailed
  BY DEF DrainOne, NextReady, Charge
<1>4. pool /\ next \in Nat /\ written \in Nat /\ written + 1 \in 1 .. next
  BY <1>3 DEF NoPool, Types, next
<1>5. CASE /\ wire' = Append(wire, Section(written + 1)) /\ written' = written + 1
           /\ pendingBytes' = pendingBytes - sizes[written + 1]
           /\ UNCHANGED <<ownerVars, sizes, failure>>
  <2>1. next' = next /\ sizes[written + 1] \in Nat /\ pendingBytes \in Int
    BY <1>4, <1>5, ElementOfSeq DEF next, Types
  <2>2. Sealed' /\ wire' \in Seq(Items)
    BY <1>2, <1>4, <1>5, WriteSection
  <2>3. Types'
    <3>1. written' \in 0 .. next' /\ pendingBytes' \in Int /\ ready' \subseteq 1 .. next'
      BY <1>3, <1>4, <1>5, <2>1 DEF Types
    <3> QED
      BY <1>2, <1>5, <2>1, <2>2, <3>1 DEF Types, ownerVars
  <2>4. Control' /\ NoPool'
    BY <1>1, <1>2, <1>4, <1>5 DEF Control, NoPool, ownerVars, Callers, DrainFor
  <2>5. JobsBounded'
    BY <1>2, <1>4, <1>5, <2>1 DEF JobsBounded, PendingJobs
  <2>6. Charged'
    <3>1. PICK last \in 0 .. next : \E total \in [0 .. last -> Nat] : Totals(last, total)
      BY DEF Charged
    <3>2. PICK total \in [0 .. last -> Nat] : Totals(last, total)
      BY <3>1
    <3>3. last = next /\ total[written + 1] = total[written] + sizes[written + 1]
      BY <1>4, <3>2 DEF Totals
    <3>4. total[written + 1] \in Nat /\ total[written] \in Nat /\ total[last] \in Nat
      BY <1>4, <3>3
    <3>6. written' <= last /\ last = next' /\ sizes' = sizes
      BY <1>4, <1>5, <2>1, <3>3
    <3>7. pendingBytes' = total[last] - total[written']
      <4>1. pendingBytes = total[last] - total[written]
        BY <3>2 DEF Totals
      <4>2. PICK x \in Nat : x = total[last]
        BY <3>4, Zenon
      <4>3. PICK y \in Nat : y = total[written]
        BY <3>4, Zenon
      <4>4. PICK z \in Nat : z = sizes[written + 1]
        BY <2>1, Zenon
      <4>5. pendingBytes' = (x - y) - z
        BY <1>5, <4>1, <4>2, <4>3, <4>4, Zenon
      <4>6. total[written'] = y + z
        BY <1>5, <3>3, <4>3, <4>4, Zenon
      <4>7. (x - y) - z = x - (y + z)
        OBVIOUS
      <4> QED
        BY <4>2, <4>5, <4>6, <4>7, Zenon
    <3>5. Totals(last, total)'
      BY <3>2, <3>6, <3>7 DEF Totals
    <3> QED
      BY <2>1, <3>5 DEF Charged
  <2>7. BytesBounded'
    <3>1. pendingBytes <= MaxBytes => pendingBytes' <= MaxBytes
      BY <1>5, <2>1
    <3>2. (written' + 1 .. next') \subseteq (written + 1 .. next)
      BY <1>4, <1>5, <2>1
    <3>3. CASE pendingBytes <= MaxBytes
      BY <1>2, <1>4, <3>1, <3>3 DEF BytesBounded
    <3>4. CASE \E n \in Nat : \A m \in (written + 1 .. next) \ {n} : sizes[m] = 0
      <4>1. PICK n \in Nat : \A m \in (written + 1 .. next) \ {n} : sizes[m] = 0
        BY <3>4
      <4>2. \A m \in (written' + 1 .. next') \ {n} : sizes'[m] = 0
        BY <1>5, <3>2, <4>1
      <4> QED
        BY <1>2, <1>4, <4>2 DEF BytesBounded
    <3> QED
      BY <3>3, <3>4 DEF BytesBounded
  <2> QED
    BY <2>2, <2>3, <2>4, <2>5, <2>6, <2>7
<1>6. CASE EncodingFailed
  <2>1. Sealed' /\ wire' \in Seq(Items)
    BY <1>2, <1>6, SameFile DEF EncodingFailed, fileVars, Types
  <2> QED
    BY <1>2, <1>3, <1>6, <2>1, Fails DEF EncodingFailed
<1>7. CASE WriteFails
  <2>1. Sealed' /\ wire' \in Seq(Items)
    BY <1>2, <1>7, Tears DEF WriteFails
  <2> QED
    BY <1>2, <1>3, <1>7, <2>1, Fails DEF WriteFails, countVars
<1> QED
  BY <1>3, <1>5, <1>6, <1>7

(***************************************************************************)
(* A section is submitted: there is room, or nothing else is pending.      *)
(***************************************************************************)
LEMMA SubmitStep ==
  ASSUME IInv, Submit
  PROVE  IInv'
<1> USE DEF IInv
<1>1. /\ pc = "admit" /\ pc' = "poll" /\ ~Full /\ jobs' = Append(jobs, next + 1)
      /\ sizes' = Append(sizes, size) /\ pendingBytes' = pendingBytes + size /\ size' = 0
      /\ UNCHANGED <<goal, pool, encoding, results, spoiled, ready, written, failure, fileVars>>
  BY DEF Submit, Step
<1>2. pool /\ failure = "none" /\ ~finished
  BY <1>1 DEF Control, Busy
<1>3. size \in Nat /\ written \in 0 .. next /\ next \in Nat /\ pendingBytes \in Int /\ MaxBytes \in Nat
      /\ MaxJobs \in Nat /\ MaxJobs # 0
  BY <1>2 DEF Types, next
<1>4. /\ sizes' \in Seq(Nat) /\ next' = next + 1
      /\ sizes'[next + 1] = size /\ \A m \in 1 .. next : sizes'[m] = sizes[m]
  <2>1. sizes \in Seq(Nat) /\ size \in Nat
    BY DEF Types
  <2>2. /\ Append(sizes, size) \in Seq(Nat) /\ Len(sizes) \in Nat
        /\ Len(Append(sizes, size)) = Len(sizes) + 1 /\ Append(sizes, size)[Len(sizes) + 1] = size
        /\ \A i \in 1 .. Len(sizes) : Append(sizes, size)[i] = sizes[i]
        /\ \A i \in 1 .. Len(Append(sizes, size)) : i \in 1 .. Len(sizes) \/ i = Len(sizes) + 1
    BY <2>1, AppendOne, Zenon
  <2> QED
    BY <1>1, <2>2, Zenon DEF next
<1>5. Types'
  <2>1. 1 .. next \subseteq 1 .. next' /\ 0 .. next \subseteq 0 .. next' /\ next + 1 \in 1 .. next'
    BY <1>3, <1>4
  <2>2. jobs \in Seq(1 .. next') /\ results \in Seq(1 .. next')
    BY <2>1, SeqMonotonic DEF Types
  <2>3. jobs' \in Seq(1 .. next')
    BY <1>1, <2>1, <2>2, AppendProperties
  <2>4. results' \in Seq(1 .. next') /\ ready' \subseteq 1 .. next'
        /\ encoding' \in [Encoders -> 0 .. next']
    BY <1>1, <2>1, <2>2 DEF Types
  <2>5. written' \in 0 .. next' /\ pendingBytes' \in Int /\ size' \in Nat /\ pc' \in Busy
    BY <1>1, <1>3, <2>1 DEF Busy
  <2> QED
    BY <1>1, <1>4, <2>3, <2>4, <2>5 DEF Types, fileVars
<1>6. Control' /\ NoPool' /\ Sealed'
  BY <1>1, <1>2, SameFile DEF Control, NoPool, Busy, Callers, DrainFor, fileVars
<1>7. \/ next = written
      \/ next - written < MaxJobs /\ size <= BytesLeft
  BY <1>1, <1>3 DEF Full, PendingJobs, BytesLeft
<1>8. JobsBounded'
  BY <1>1, <1>3, <1>4, <1>7 DEF JobsBounded, PendingJobs
<1>9. PICK last \in 0 .. next : \E total \in [0 .. last -> Nat] : Totals(last, total)
  BY DEF Charged
<1>10. PICK total \in [0 .. next -> Nat] : Totals(next, total) /\ last = next
  BY <1>2, <1>9 DEF Totals
<1>11. /\ \A n \in 1 .. next : total[n] = total[n - 1] + sizes[n]
       /\ pendingBytes = total[next] - total[written]
  BY <1>10 DEF Totals
<1>12. Charged'
  <2>1. PICK top \in Nat : top = next
    BY <1>3
  <2>2. PICK more \in [0 .. top + 1 -> Nat] :
             /\ \A n \in 0 .. top : more[n] = total[n]
             /\ more[top + 1] = total[top] + size
    <3> DEFINE f == [n \in 0 .. top + 1 |-> IF n = top + 1 THEN total[top] + size ELSE total[n]]
    <3>1. f \in [0 .. top + 1 -> Nat]
      BY <1>3, <2>1
    <3>2. (\A n \in 0 .. top : f[n] = total[n]) /\ f[top + 1] = total[top] + size
      BY <2>1
    <3> QED
      BY <3>1, <3>2
  <2>3. \A n \in 1 .. top + 1 : more[n] = more[n - 1] + sizes'[n]
    <3> TAKE n \in 1 .. top + 1
    <3>1. CASE n = top + 1
      BY <1>4, <2>1, <2>2, <3>1
    <3>2. CASE n \in 1 .. top
      BY <1>4, <1>11, <2>1, <2>2, <3>2
    <3> QED
      BY <3>1, <3>2
  <2>4. pendingBytes' = more[top + 1] - more[written']
    <3>1. written \in 0 .. top /\ total[written] \in Nat /\ total[top] \in Nat
      BY <1>3, <2>1
    <3> QED
      BY <1>1, <1>3, <1>11, <2>1, <2>2, <3>1
  <2>5. written' <= top + 1 /\ next' = top + 1
    BY <1>1, <1>3, <1>4, <2>1
  <2>6. Totals(top + 1, more)'
    BY <2>3, <2>4, <2>5 DEF Totals
  <2>7. top + 1 \in 0 .. next'
    BY <2>5
  <2> QED
    BY <2>2, <2>6, <2>7, Zenon DEF Charged
<1>13. BytesBounded'
  <2>1. SUFFICES \/ pendingBytes' <= MaxBytes
                 \/ \E n \in Nat : \A m \in (written + 1 .. next + 1) \ {n} : sizes'[m] = 0
    <3>1. pool' /\ written' = written
      BY <1>1, <1>2
    <3> QED
      BY <1>4, <3>1, Zenon DEF BytesBounded
  <2>2. CASE next = written
    BY <1>3, <2>2
  <2>3. CASE size <= BytesLeft /\ pendingBytes < MaxBytes
    BY <1>1, <1>3, <2>3 DEF BytesLeft
  <2>4. CASE size <= BytesLeft /\ ~(pendingBytes < MaxBytes)
    <3>1. size = 0 /\ pendingBytes' = pendingBytes
      BY <1>1, <1>3, <2>4 DEF BytesLeft
    <3>2. CASE \E n \in Nat : \A m \in (written + 1 .. next) \ {n} : sizes[m] = 0
      <4>1. PICK n \in Nat : \A m \in (written + 1 .. next) \ {n} : sizes[m] = 0
        BY <3>2
      <4>2. \A m \in (written + 1 .. next + 1) \ {n} : sizes'[m] = 0
        <5> TAKE m \in (written + 1 .. next + 1) \ {n}
        <5>1. CASE m = next + 1
          BY <1>4, <3>1, <5>1
        <5>2. CASE m # next + 1
          <6>1. m \in 1 .. next /\ m \in (written + 1 .. next) \ {n}
            BY <1>3, <5>2
          <6>2. sizes'[m] = sizes[m]
            BY <1>4, <6>1
          <6> QED
            BY <4>1, <6>1, <6>2
        <5> QED
          BY <5>1, <5>2
      <4> QED
        BY <4>2
    <3> QED
      BY <3>1, <3>2, Zenon DEF BytesBounded
  <2> QED
    BY <1>7, <2>2, <2>3, <2>4
<1> QED
  BY <1>5, <1>6, <1>8, <1>12, <1>13

(***************************************************************************)
(* The recording ends.                                                     *)
(***************************************************************************)
LEMMA FlushFileStep ==
  ASSUME IInv, FlushFile
  PROVE  IInv'
<1>1. pc = "flush" /\ Flushed /\ UNCHANGED <<poolVars, countVars, fileVars>>
  BY DEF FlushFile
<1>2. pc \in Busy /\ failure = "none" /\ ~finished
  BY <1>1 DEF IInv, Control, Busy
<1>3. CASE failure' = "io" /\ Return
  <2>1. Sealed' /\ wire' \in Seq(Items)
    BY <1>1, <1>2, <1>3, SameFile DEF IInv, Types, fileVars
  <2> QED
    BY <1>1, <1>2, <1>3, <2>1, Fails DEF poolVars, countVars, fileVars
<1>4. CASE UNCHANGED failure /\ Return
  <2>1. Control'
    BY <1>4 DEF Return, Control, Busy, Callers, DrainFor
  <2> QED
    BY <1>1, <1>4, <2>1, Elsewhere DEF Return, Goals
<1>5. CASE UNCHANGED failure /\ goal # "flush" /\ pc' = "stop" /\ UNCHANGED <<goal, size>>
  <2>1. Control'
    BY <1>1, <1>2, <1>5 DEF IInv, Control, Busy, Callers, DrainFor, Flushed, PendingJobs, next,
                            poolVars, countVars, fileVars
  <2> QED
    BY <1>1, <1>5, <2>1, Elsewhere DEF IInv, Types
<1> QED
  BY <1>3, <1>4, <1>5 DEF FlushFile

\* The pool is stopped when all it was charged for is written, or after a failure.
LEMMA StopPoolStep ==
  ASSUME IInv, StopPool
  PROVE  IInv'
<1> USE DEF IInv
<1>1. /\ pc = "stop" /\ pc' = IF goal = "drop" THEN "dropped" ELSE "directory"
      /\ pool' = FALSE /\ results' = << >> /\ ready' = {}
      /\ UNCHANGED <<goal, size, jobs, encoding, spoiled, countVars, failure, fileVars>>
  BY DEF StopPool, Step
<1>2. jobs = << >> /\ \A e \in Encoders : encoding[e] = 0
  BY DEF StopPool, NoPool
<1>3. next' = next /\ written' = written /\ pendingBytes' = pendingBytes
      /\ next \in Nat /\ written \in 0 .. next
  BY <1>1 DEF countVars, next, Types
<1>4. Types'
  <2>1. pool' \in BOOLEAN /\ ~pool' /\ finished' \in BOOLEAN
    BY <1>1, Zenon DEF Types, fileVars
  <2>2. results' \in Seq(1 .. next') /\ ready' \subseteq 1 .. next'
    BY <1>1
  <2>3. pc' \in {"directory", "dropped"}
    BY <1>1
  <2> QED
    BY <1>1, <1>3, <2>1, <2>2, <2>3 DEF Types, countVars, fileVars
<1>5. Control'
  BY <1>1 DEF Control, Busy, Callers, DrainFor, fileVars
<1>6. NoPool' /\ JobsBounded'
  BY <1>1, <1>2 DEF NoPool, JobsBounded
<1>7. Charged' /\ Sealed'
  BY <1>1, <1>3, SameFile DEF Charged, Totals, Sealed, countVars
<1>8. BytesBounded'
  <2>1. ~pool' /\ failure' = "none" /\ pc' # "dropped" => pendingBytes' <= MaxBytes
    <3>1. SUFFICES ASSUME failure = "none", goal # "drop" PROVE pendingBytes <= MaxBytes
      BY <1>1, <1>3
    <3>2. CASE ~pool
      BY <1>1, <3>1, <3>2 DEF BytesBounded
    <3>3. CASE pool
      <4>1. written = next
        BY <1>1, <1>3, <3>1, <3>3 DEF Control, PendingJobs
      <4>2. PICK last \in 0 .. next : \E total \in [0 .. last -> Nat] : Totals(last, total)
        BY DEF Charged
      <4>3. PICK total \in [0 .. next -> Nat] : pendingBytes = total[next] - total[next]
        BY <3>3, <4>1, <4>2 DEF Totals
      <4>4. pendingBytes = 0
        BY <1>3, <4>3
      <4> QED
        BY <4>4
    <3> QED
      BY <3>2, <3>3
  <2> QED
    BY <1>1, <2>1 DEF BytesBounded, countVars, next
<1> QED
  BY <1>4, <1>5, <1>6, <1>7, <1>8

LEMMA PositionNat ==
  ASSUME Types
  PROVE  Position(wire) \in Nat
<1>1. IsFiniteSet(1 .. Len(wire))
  BY FS_Interval, LenProperties DEF Types
<1>2. IsFiniteSet({i \in 1 .. Len(wire) : wire[i].kind = "section"})
  BY <1>1, FS_Subset
<1> QED
  BY <1>2, FS_CardinalityType DEF Position

LEMMA WriteDirectoryStep ==
  ASSUME IInv, WriteDirectory
  PROVE  IInv'
<1> USE DEF IInv
<1>1. /\ pc = "directory" /\ goal \in Statuses /\ failure # "io" /\ ~finished
      /\ pc' = "idle" /\ goal' = "none" /\ size' = 0
      /\ UNCHANGED <<poolVars, countVars, failure>>
  BY DEF WriteDirectory, Return, Control
<1>2. Control'
  BY <1>1 DEF Control, Busy, Callers, DrainFor
<1>3. NoPool' /\ JobsBounded' /\ Charged' /\ BytesBounded'
  BY <1>1, SamePool, SameCounts, SameBytes DEF poolVars
<1>4. ASSUME Sealed', wire' \in Seq(Items), finished' \in BOOLEAN
      PROVE  IInv'
  <2>1. next' = next
    BY <1>1 DEF countVars, next
  <2>2. Types'
    BY <1>1, <1>4, <2>1 DEF Types, poolVars, countVars, Goals
  <2> QED
    BY <1>2, <1>3, <1>4, <2>2
<1>5. CASE Torn("directory") /\ UNCHANGED finished
  <2>1. Sealed' /\ wire' \in Seq(Items)
    BY <1>1, <1>5, Tears
  <2>2. finished' \in BOOLEAN
    BY <1>5, Zenon DEF Types
  <2> QED
    BY <1>4, <2>1, <2>2
<1>6. CASE wire' = Append(wire, Directory(goal)) /\ finished' = TRUE
  <2>1. PICK item \in Items : item = Directory(goal) /\ item.kind = goal /\ item.n = Position(wire)
    <3>1. Directory(goal) \in Items /\ Directory(goal).kind = goal
          /\ Directory(goal).n = Position(wire)
      BY <1>1, PositionNat DEF Directory, Items
    <3> QED
      BY <3>1, Zenon
  <2>2. /\ wire' \in Seq(Items) /\ Len(wire) \in Nat
        /\ Len(wire') = Len(wire) + 1 /\ wire'[Len(wire) + 1] = item
        /\ \A i \in 1 .. Len(wire) : wire'[i] = wire[i]
        /\ \A i \in 1 .. Len(wire') : i \in 1 .. Len(wire) \/ i = Len(wire) + 1
    <3>1. wire \in Seq(Items) /\ wire' = Append(wire, item)
      BY <1>6, <2>1 DEF Types
    <3>2. /\ Append(wire, item) \in Seq(Items) /\ Len(wire) \in Nat
          /\ Len(Append(wire, item)) = Len(wire) + 1 /\ Append(wire, item)[Len(wire) + 1] = item
          /\ \A i \in 1 .. Len(wire) : Append(wire, item)[i] = wire[i]
          /\ \A i \in 1 .. Len(Append(wire, item)) : i \in 1 .. Len(wire) \/ i = Len(wire) + 1
      BY <3>1, AppendOne, Zenon
    <3> QED
      BY <3>1, <3>2, Zenon
  <2>3. \A i \in 1 .. Len(wire) : wire'[i].kind \in Parts /\ wire'[i].kind # "part of section"
    BY <1>1, <2>2 DEF Sealed
  <2>4. wire'[Len(wire')].kind = goal /\ wire' # << >> /\ wire'[Len(wire')].n = Position(wire)
    BY <2>1, <2>2
  <2>5. Position(wire) = Cardinality({i \in 1 .. Len(wire') - 1 : wire'[i].kind = "section"})
    <3>1. {i \in 1 .. Len(wire) : wire[i].kind = "section"}
            = {i \in 1 .. Len(wire') - 1 : wire'[i].kind = "section"}
      BY <2>2
    <3> QED
      BY <3>1 DEF Position
  <2>6. \A i \in 1 .. Len(wire') : i < Len(wire') => wire'[i].kind \in Parts
    <3> TAKE i \in 1 .. Len(wire')
    <3>1. CASE i \in 1 .. Len(wire)
      BY <2>3, <3>1
    <3>2. CASE i = Len(wire) + 1
      BY <2>2, <3>2
    <3> QED
      BY <2>2, <3>1, <3>2
  <2>7. \A i \in 1 .. Len(wire') : wire'[i].kind # "part of section"
    BY <1>1, <2>2, <2>3, <2>4 DEF Statuses
  <2>8. Sealed'
    BY <1>1, <1>6, <2>4, <2>5, <2>6, <2>7 DEF Sealed
  <2>9. finished' \in BOOLEAN
    BY <1>6, Zenon
  <2> QED
    BY <1>4, <2>2, <2>8, <2>9
<1> QED
  BY <1>5, <1>6 DEF WriteDirectory

LEMMA NextInv ==
  ASSUME IInv, [Next]_vars
  PROVE  IInv'
<1>1. CASE Call
  BY <1>1, EncodeStep, BeginStep DEF Call, Statuses
<1>2. CASE Owner
  BY <1>2, EncodeNowStep, SubmitStep, ReceiveStep, PollEndsStep, DrainOneStep, DrainEndsStep,
     FlushFileStep, StopPoolStep, WriteDirectoryStep DEF Owner, AwaitRoom, FlushWaits, Callers
<1>3. CASE \E e \in Encoders : Encoder(e)
  BY <1>3, EncoderStep
<1>4. CASE UNCHANGED vars
  <2>1. UNCHANGED next
    BY <1>4 DEF vars, countVars, next
  <2>2. UNCHANGED <<ownerVars, poolVars, countVars, failure, fileVars>>
    BY <1>4 DEF vars
  <2>3. Types' /\ Control'
    BY <2>1, <2>2 DEF IInv, Types, Control, PendingJobs, ownerVars, poolVars, countVars, fileVars
  <2>4. NoPool' /\ JobsBounded' /\ Charged' /\ BytesBounded' /\ Sealed'
    BY <2>2, SamePool, SameCounts, SameBytes, SameFile DEF IInv, Sealed, poolVars, ownerVars
  <2> QED
    BY <2>3, <2>4 DEF IInv
<1> QED
  BY <1>1, <1>2, <1>3, <1>4 DEF Next

LEMMA Inductive == Spec => []IInv
<1>1. Init => IInv
  BY InitInv
<1>2. IInv /\ [Next]_vars => IInv'
  BY NextInv
<1> QED
  BY <1>1, <1>2, PTL DEF Spec

(***************************************************************************)
(* The theorems.                                                           *)
(***************************************************************************)
LEMMA Budget ==
  ASSUME IInv
  PROVE  WithinBudget
<1>1. pool => PendingJobs <= MaxJobs
  BY DEF IInv, JobsBounded
<1>2. ASSUME NEW n \in Nat, \A m \in (written + 1 .. next) \ {n} : sizes[m] = 0
      PROVE  Cardinality({m \in written + 1 .. next : sizes[m] > 0}) <= 1
  <2>1. {m \in written + 1 .. next : sizes[m] > 0} \subseteq {n}
    BY <1>2
  <2>2. IsFiniteSet({n}) /\ Cardinality({n}) = 1
    BY FS_Singleton
  <2>3. Cardinality({m \in written + 1 .. next : sizes[m] > 0}) <= Cardinality({n})
    BY <2>1, <2>2, FS_Subset
  <2> QED
    BY <2>2, <2>3
<1>3. pendingBytes <= MaxBytes
      \/ Cardinality({m \in written + 1 .. next : sizes[m] > 0}) <= 1
  BY <1>2 DEF IInv, BytesBounded
<1> QED
  BY <1>1, <1>3, Zenon DEF WithinBudget

LEMMA Readable ==
  ASSUME IInv
  PROVE  SealReadable
<1> SUFFICES ASSUME finished = TRUE,
                    \A i \in 1 .. Len(wire) : wire[i].kind # "part of directory"
             PROVE  Accepted
  BY DEF IInv, Types, Sealed, SealReadable
<1> DEFINE sections == {i \in 1 .. Len(wire) : wire[i].kind = "section"}
<1>1. wire \in Seq(Items) /\ wire # << >> /\ failure # "io"
  BY DEF IInv, Types, Sealed
<1>2. \A i \in 1 .. Len(wire) : i < Len(wire) => i \in sections
  BY <1>1 DEF IInv, Sealed, Parts
<1>3. /\ Len(wire) \in 1 .. Len(wire)
      /\ \A i \in 1 .. Len(wire) - 1 : i \in 1 .. Len(wire)
      /\ Cardinality({i \in 1 .. Len(wire) - 1 : i \in sections}) = Len(wire) - 1
  <2> HIDE DEF sections
  <2> QED
    BY <1>1, <1>2, AllBefore, Zenon
<1>4. {i \in 1 .. Len(wire) - 1 : i \in sections}
        = {i \in 1 .. Len(wire) - 1 : wire[i].kind = "section"}
  BY <1>3
<1>5. /\ wire[Len(wire)].kind \in Statuses
      /\ wire[Len(wire)].n = Cardinality({i \in 1 .. Len(wire) - 1 : wire[i].kind = "section"})
  BY DEF IInv, Sealed
<1> QED
  BY <1>1, <1>3, <1>4, <1>5 DEF Accepted, Last

\* The jobs and the bytes that are submitted and not written stay within the
\* budgets, except for one section that is larger than the whole budget:
\* whatever encoders and owner do, and whichever encoding or write fails.
THEOREM KeepsBudget == Spec => []WithinBudget
<1>1. IInv => WithinBudget
  BY Budget
<1> QED
  BY <1>1, Inductive, PTL

\* Nothing is sealed over a failed write, and what is sealed reads back as
\* sealed unless the directory itself was torn before.
THEOREM SealsReadable == Spec => []SealReadable
<1>1. IInv => SealReadable
  BY Readable
<1> QED
  BY <1>1, Inductive, PTL

(***************************************************************************)
(* What is published: the sections of the file, in its order.              *)
(***************************************************************************)
\* A function that lists the numbers of the sections among the first i items.
Lists(file, n, f) ==
  f = [i \in 0 .. n |->
         IF i = 0 THEN << >>
         ELSE IF file[i].kind = "section" THEN Append(f[i - 1], file[i].n) ELSE f[i - 1]]

LEMMA ListExists ==
  ASSUME NEW file, NEW n \in Nat
  PROVE  \E f : Lists(file, n, f)
<1> DEFINE P == {k \in Nat : \E f : Lists(file, k, f)}
<1>1. 0 \in P
  <2> DEFINE f == [i \in 0 .. 0 |-> << >>]
  <2>1. Lists(file, 0, f)
    BY DEF Lists
  <2> QED
    BY <2>1
<1>2. ASSUME NEW k \in P PROVE k + 1 \in P
  <2>1. PICK f : Lists(file, k, f)
    OBVIOUS
  <2> DEFINE more == IF file[k + 1].kind = "section" THEN Append(f[k], file[k + 1].n) ELSE f[k]
             g == [i \in 0 .. k + 1 |-> IF i = k + 1 THEN more ELSE f[i]]
  <2>2. k \in 0 .. k + 1 /\ (k + 1) - 1 = k /\ k # k + 1 /\ k + 1 # 0 /\ k + 1 \in 0 .. k + 1
    OBVIOUS
  <2>3. g[0] = << >>
    BY <2>1 DEF Lists
  <2>4. ASSUME NEW i \in 0 .. k + 1, i # 0
        PROVE  g[i] = IF file[i].kind = "section" THEN Append(g[i - 1], file[i].n) ELSE g[i - 1]
    <3>1. CASE i = k + 1
      <4>1. g[i - 1] = f[k] /\ g[i] = more
        BY <2>2, <3>1
      <4> QED
        BY <2>2, <3>1, <4>1
    <3>2. CASE i # k + 1
      <4>1. i \in 0 .. k /\ i - 1 \in 0 .. k + 1 /\ i - 1 # k + 1 /\ i \in 0 .. k + 1
        BY <2>4, <3>2
      <4>2. g[i - 1] = f[i - 1] /\ g[i] = f[i]
        BY <3>2, <4>1
      <4> QED
        BY <2>1, <2>4, <4>1, <4>2 DEF Lists
    <3> QED
      BY <3>1, <3>2
  <2>5. g = [i \in 0 .. k + 1 |-> g[i]]
    OBVIOUS
  <2>6. Lists(file, k + 1, g)
    <3> HIDE DEF g
    <3> QED
      BY <2>3, <2>4, <2>5 DEF Lists
  <2> QED
    BY <2>6
<1>3. \A k \in Nat : k \in P
  <2> HIDE DEF P
  <2> QED
    BY <1>1, <1>2, Induction
<1> QED
  BY <1>3

LEMMA PublishedIs ==
  ASSUME NEW file \in Seq(Items)
  PROVE  \E f : Lists(file, Len(file), f) /\ Published(file) = f[Len(file)]
<1> DEFINE f == CHOOSE f : Lists(file, Len(file), f)
<1>1. Lists(file, Len(file), f)
  BY LenProperties, ListExists
<1>2. Published(file) = f[Len(file)]
  BY DEF Published, Lists
<1> QED
  BY <1>1, <1>2

LEMMA PublishedNone == Published(<< >>) = << >>
<1>1. << >> \in Seq(Items) /\ Len(<< >>) = 0
  OBVIOUS
<1>2. PICK f : Lists(<< >>, 0, f) /\ Published(<< >>) = f[0]
  BY <1>1, PublishedIs
<1> QED
  BY <1>2 DEF Lists

\* One more item: a section is published with its number, a part is not.
LEMMA PublishedAppended ==
  ASSUME NEW file \in Seq(Items), NEW item \in Items
  PROVE  /\ Published(file) \in Seq(Nat)
         /\ Published(Append(file, item)) =
              IF item.kind = "section" THEN Append(Published(file), item.n) ELSE Published(file)
<1> DEFINE n == Len(file)
           long == Append(file, item)
<1>1. /\ long \in Seq(Items) /\ n \in Nat /\ Len(long) = n + 1 /\ long[n + 1] = item
      /\ \A i \in 1 .. n : long[i] = file[i]
  BY AppendOne
<1>2. PICK f : Lists(file, n, f) /\ Published(file) = f[n]
  BY PublishedIs
<1>3. PICK g : Lists(long, n + 1, g) /\ Published(long) = g[n + 1]
  BY <1>1, PublishedIs
<1> HIDE DEF n, long
<1> DEFINE P == {k \in Nat : k <= n => g[k] = f[k] /\ f[k] \in Seq(Nat)}
<1>4. 0 \in P
  <2>1. 0 \in 0 .. n /\ 0 \in 0 .. n + 1
    BY <1>1
  <2>2. g[0] = << >> /\ f[0] = << >>
    BY <1>2, <1>3, <2>1 DEF Lists
  <2>3. << >> \in Seq(Nat)
    OBVIOUS
  <2> QED
    BY <2>2, <2>3
<1>5. ASSUME NEW k \in P PROVE k + 1 \in P
  <2> SUFFICES ASSUME k + 1 <= n PROVE g[k + 1] = f[k + 1] /\ f[k + 1] \in Seq(Nat)
    OBVIOUS
  <2>1. /\ k + 1 \in 0 .. n /\ k + 1 \in 0 .. n + 1 /\ k + 1 # 0 /\ (k + 1) - 1 = k
        /\ k + 1 \in 1 .. n /\ k <= n
    BY <1>1
  <2>2. g[k] = f[k] /\ f[k] \in Seq(Nat)
    BY <2>1
  <2>3. long[k + 1] = file[k + 1]
    BY <1>1, <2>1
  <2>4. f[k + 1] = IF file[k + 1].kind = "section" THEN Append(f[k], file[k + 1].n) ELSE f[k]
    BY <1>2, <2>1 DEF Lists
  <2>5. g[k + 1] = IF long[k + 1].kind = "section" THEN Append(g[k], long[k + 1].n) ELSE g[k]
    BY <1>3, <2>1 DEF Lists
  <2>6. file[k + 1].n \in Nat
    <3>1. file[k + 1] \in Items
      BY <2>1, ElementOfSeq DEF n
    <3> QED
      BY <3>1 DEF Items
  <2>7. Append(f[k], file[k + 1].n) \in Seq(Nat)
    BY <2>2, <2>6, AppendProperties
  <2> QED
    BY <2>2, <2>3, <2>4, <2>5, <2>7
<1>6. g[n] = f[n] /\ f[n] \in Seq(Nat)
  <2>1. \A k \in Nat : k \in P
    <3> HIDE DEF P
    <3> QED
      BY <1>4, <1>5, Induction
  <2> QED
    BY <1>1, <2>1
<1>7. g[n + 1] = IF item.kind = "section" THEN Append(g[n], item.n) ELSE g[n]
  <2>1. n + 1 \in 0 .. n + 1 /\ n + 1 # 0 /\ (n + 1) - 1 = n
    BY <1>1
  <2> QED
    BY <1>1, <1>3, <2>1 DEF Lists
<1> QED
  BY <1>2, <1>3, <1>6, <1>7 DEF long

(***************************************************************************)
(* Where the sections are, and which the file holds: what OrderedOutput    *)
(* promises rests on these.                                                *)
(***************************************************************************)
Waiting == written + 1 .. next
Engaged == {e \in Encoders : encoding[e] # 0}
Hands == {encoding[e] : e \in Engaged}

\* Four places, no two of which hold the same section.
Apart(a, b, c, d) ==
  a \cap b = {} /\ a \cap c = {} /\ a \cap d = {} /\ b \cap c = {} /\ b \cap d = {} /\ c \cap d = {}

\* What waits is in one place, and there once.
Placed ==
  /\ Waiting = ToSet(jobs) \cup Hands \cup ToSet(results) \cup ready
  /\ Apart(ToSet(jobs), Hands, ToSet(results), ready)
  /\ Distinct(jobs) /\ Distinct(results)
  /\ \A e, f \in Engaged : encoding[e] = encoding[f] => e = f
InPlace == pool /\ failure = "none" => Placed

Done == Len(Published(wire))

\* The file holds the sections 1, 2, ..., and while nothing has failed it is
\* known how many.
Numbered ==
  /\ \A i \in 1 .. Done : Published(wire)[i] = i
  /\ Done <= next
  /\ failure = "none" /\ pool => Done = written
  /\ failure = "none" /\ ~pool /\ pc # "dropped" => Done = IF pc = "inline" THEN next - 1 ELSE next
  /\ pc \in {"stop", "directory"} /\ goal = "complete" => failure = "none"
  /\ pc \in {"directory", "inline"} => ~pool
  /\ finished /\ wire[Len(wire)].kind = "complete" => Done = next

Promises == InPlace /\ Numbered

\* What a step of Output is for OrderedOutput.
Kept == Promises' /\ [Ordered!Next]_(Ordered!vars)

LEMMA InitPromises == Init => Promises /\ Ordered!Init
<1> SUFFICES ASSUME Init PROVE Promises /\ Ordered!Init
  OBVIOUS
<1>1. next = 0 /\ Published(wire) = << >> /\ Done = 0 /\ ~finished
  BY PublishedNone, EmptySeq DEF Init, next, Done
<1>2. ToSet(jobs) = {} /\ ToSet(results) = {} /\ Hands = {} /\ ready = {} /\ Engaged = {}
  BY DEF Init, ToSet, Hands, Engaged
<1>3. Distinct(jobs) /\ Distinct(results)
  BY DEF Init, Distinct
<1>4. Waiting = {}
  BY <1>1 DEF Init, Waiting
<1>5. InPlace
  BY <1>2, <1>3, <1>4 DEF InPlace, Placed, Apart
<1>6. Numbered
  BY <1>1 DEF Numbered, Init
<1>7. Ordered!Init
  BY <1>1 DEF Ordered!Init
<1> QED
  BY <1>5, <1>6, <1>7 DEF Promises

(***************************************************************************)
(* Steps that publish nothing.                                             *)
(***************************************************************************)
LEMMA Stutters ==
  ASSUME UNCHANGED <<next, Published(wire), finished>>, finished => UNCHANGED wire
  PROVE  [Ordered!Next]_(Ordered!vars)
BY DEF Ordered!vars, Ordered!Next

LEMMA SamePlaces ==
  ASSUME InPlace, UNCHANGED <<countVars, jobs, encoding, results, ready>>,
         pool' /\ failure' = "none" => pool /\ failure = "none"
  PROVE  InPlace'
BY DEF InPlace, Placed, Apart, Waiting, Hands, Engaged, countVars, next

LEMMA SameNumbers ==
  ASSUME Numbered, UNCHANGED <<countVars, pool, fileVars>>, failure' = "none" => failure = "none",
         pc = "inline" <=> pc' = "inline", pc = "dropped" => pc' = "dropped",
         pc' = "directory" => pc = "directory",
         pc' \in {"stop", "directory"} /\ goal' = "complete" => failure' = "none"
  PROVE  Numbered' /\ [Ordered!Next]_(Ordered!vars)
<1>1. next' = next
  BY DEF countVars, next
<1>2. Published(wire)' = Published(wire) /\ Done' = Done
  BY DEF fileVars, Done
<1>3. Numbered'
  BY <1>1, <1>2 DEF Numbered, fileVars, countVars
<1>4. [Ordered!Next]_(Ordered!vars)
  BY <1>1, <1>2, Stutters DEF fileVars
<1> QED
  BY <1>3, <1>4

\* Beyond pc and goal, nothing changes that the file or the places depend on.
LEMMA Waits ==
  ASSUME Promises, UNCHANGED <<countVars, pool, jobs, encoding, results, ready, fileVars>>,
         pc # "inline", pc' # "inline", pc # "dropped", pc' # "directory",
         failure' = "none" => failure = "none",
         pc' = "stop" /\ goal' = "complete" => failure' = "none"
  PROVE  Kept
BY SamePlaces, SameNumbers DEF Promises, Kept

\* A call that returns with an error may leave a part in the file, never a section.
LEMMA PartPublishes ==
  ASSUME Types, NEW kind \in {"section", "directory"}, Torn(kind)
  PROVE  Published(wire)' = Published(wire)
<1>1. CASE UNCHANGED wire
  BY <1>1
<1>2. CASE wire' = Append(wire, PartOf(kind))
  <2>1. PartOf(kind) \in Items /\ PartOf(kind).kind # "section"
    BY DEF PartOf, Items, Parts
  <2>2. wire \in Seq(Items)
    BY DEF Types
  <2> QED
    BY <1>2, <2>1, <2>2, PublishedAppended
<1> QED
  BY <1>1, <1>2 DEF Torn

LEMMA GivesUp ==
  ASSUME Promises, ~finished, UNCHANGED <<countVars, pool, finished>>, failure' # "none", pc' = "idle",
         Published(wire)' = Published(wire)
  PROVE  Kept
<1>1. next' = next /\ Done' = Done
  BY DEF countVars, next, Done
<1>2. InPlace' /\ Numbered'
  BY <1>1 DEF Promises, InPlace, Numbered
<1>3. [Ordered!Next]_(Ordered!vars)
  BY <1>1, Stutters
<1> QED
  BY <1>2, <1>3 DEF Kept, Promises

(***************************************************************************)
(* One more section in the file.                                           *)
(***************************************************************************)
LEMMA Publishes ==
  ASSUME Types, Numbered, NEW n \in Nat, n = Done + 1, n <= next,
         wire' = Append(wire, Section(n)), next' = next, ~finished, ~finished'
  PROVE  /\ [Ordered!Next]_(Ordered!vars)
         /\ Done' = n /\ \A i \in 1 .. n : Published(wire)'[i] = i
<1>1. wire \in Seq(Items) /\ Section(n) \in Items /\ Section(n).kind = "section" /\ Section(n).n = n
  BY DEF Types, Section, Items, Parts
<1>2. Published(wire) \in Seq(Nat) /\ Published(wire)' = Append(Published(wire), n)
  BY <1>1, PublishedAppended
<1>3. /\ Done \in Nat /\ Done' = Done + 1 /\ Published(wire)'[Done + 1] = n
      /\ \A i \in 1 .. Done : Published(wire)'[i] = Published(wire)[i]
  <2> DEFINE numbers == Nat
  <2>1. Published(wire) \in Seq(numbers) /\ n \in numbers
    BY <1>2
  <2> HIDE DEF numbers
  <2> QED
    BY <1>2, <2>1, Appended DEF Done
<1>4. \A i \in 1 .. n : Published(wire)'[i] = i
  <2>1. \A i \in 1 .. n : i \in 1 .. Done \/ i = n
    BY <1>3
  <2>2. \A i \in 1 .. Done : Published(wire)[i] = i
    BY DEF Numbered
  <2> QED
    BY <1>3, <2>1, <2>2
<1>5. next \in Nat
  BY LenProperties DEF Types, next
<1>6. Done < next
  BY <1>3, <1>5
<1>7. Ordered!Publish
  BY <1>2, <1>6 DEF Ordered!Publish, Done
<1> QED
  BY <1>3, <1>4, <1>7 DEF Ordered!Next

(***************************************************************************)
(* A section moves from one place to the next.                             *)
(***************************************************************************)
LEMMA Moves ==
  ASSUME NEW w, NEW a, NEW b, NEW c, NEW d, NEW h \in a, w = a \cup b \cup c \cup d,
         Apart(a, b, c, d)
  PROVE  /\ h \notin b /\ h \notin c /\ h \notin d
         /\ w = (a \ {h}) \cup (b \cup {h}) \cup c \cup d
         /\ Apart(a \ {h}, b \cup {h}, c, d)
BY DEF Apart

LEMMA TakeJobPlaces ==
  ASSUME Types, Placed, NEW e \in Encoders, TakeJob(e)
  PROVE  Placed'
<1>1. /\ encoding[e] = 0 /\ jobs # << >> /\ jobs' = Tail(jobs)
      /\ encoding' = [encoding EXCEPT ![e] = Head(jobs)]
      /\ UNCHANGED <<results, ready, countVars>>
  BY DEF TakeJob
<1>2. /\ jobs \in Seq(1 .. next) /\ encoding \in [Encoders -> 0 .. next] /\ next \in Nat
      /\ Distinct(jobs)
  BY LenProperties DEF Types, next, Placed
<1>3. PICK h : h = Head(jobs)
  OBVIOUS
<1>4. /\ h \in ToSet(jobs) /\ Distinct(jobs') /\ ToSet(jobs') = ToSet(jobs) \ {h}
  BY <1>1, <1>2, <1>3, DistinctTail
<1>5. h # 0
  <2>1. Head(jobs) \in 1 .. next
    BY <1>1, <1>2, HeadTailProperties
  <2> QED
    BY <1>2, <1>3, <2>1
<1>6. encoding'[e] = h /\ \A d \in Encoders \ {e} : encoding'[d] = encoding[d]
  BY <1>1, <1>2, <1>3
<1>7. Engaged' = Engaged \cup {e} /\ e \notin Engaged
  BY <1>1, <1>5, <1>6 DEF Engaged
<1>8. Hands' = Hands \cup {h}
  BY <1>6, <1>7 DEF Hands, Engaged
<1>9. /\ h \notin Hands
      /\ Waiting = ToSet(jobs') \cup Hands' \cup ToSet(results) \cup ready
      /\ Apart(ToSet(jobs'), Hands', ToSet(results), ready)
  BY <1>4, <1>8, Moves DEF Placed
<1>10. ASSUME NEW c \in Engaged', NEW d \in Engaged', encoding'[c] = encoding'[d] PROVE c = d
  BY <1>6, <1>7, <1>9, <1>10 DEF Placed, Hands, Engaged
<1>11. Waiting' = Waiting
  BY <1>1 DEF Waiting, countVars, next
<1> QED
  BY <1>1, <1>4, <1>9, <1>10, <1>11 DEF Placed

LEMMA EncodeJobPlaces ==
  ASSUME Types, Placed, NEW e \in Encoders, EncodeJob(e)
  PROVE  Placed'
<1>1. /\ encoding[e] # 0 /\ results' = Append(results, encoding[e])
      /\ encoding' = [encoding EXCEPT ![e] = 0]
      /\ UNCHANGED <<jobs, ready, countVars>>
  BY DEF EncodeJob
<1>2. /\ results \in Seq(1 .. next) /\ encoding \in [Encoders -> 0 .. next] /\ next \in Nat
      /\ Distinct(results)
  BY LenProperties DEF Types, next, Placed
<1>3. PICK h : h = encoding[e]
  OBVIOUS
<1>4. h \in 1 .. next
  BY <1>1, <1>2, <1>3
<1>5. encoding'[e] = 0 /\ \A d \in Encoders \ {e} : encoding'[d] = encoding[d]
  BY <1>1, <1>2
<1>6. Engaged' = Engaged \ {e} /\ e \in Engaged
  BY <1>1, <1>5 DEF Engaged
<1>7. Hands' = Hands \ {h} /\ h \in Hands
  <2>1. \A d \in Engaged \ {e} : encoding[d] # h
    BY <1>3, <1>6 DEF Placed
  <2> QED
    BY <1>3, <1>5, <1>6, <2>1 DEF Hands, Engaged
<1>8. /\ h \notin ToSet(results)
      /\ Waiting = Hands' \cup (ToSet(results) \cup {h}) \cup ToSet(jobs) \cup ready
      /\ Apart(Hands', ToSet(results) \cup {h}, ToSet(jobs), ready)
  <2>1. /\ Waiting = Hands \cup ToSet(results) \cup ToSet(jobs) \cup ready
        /\ Apart(Hands, ToSet(results), ToSet(jobs), ready)
    BY DEF Placed, Apart
  <2> QED
    BY <1>7, <2>1, Moves
<1>9. Distinct(results') /\ ToSet(results') = ToSet(results) \cup {h}
  BY <1>1, <1>2, <1>3, <1>4, <1>8, DistinctAppended
<1>10. \A c, d \in Engaged' : encoding'[c] = encoding'[d] => c = d
  BY <1>5, <1>6 DEF Placed, Engaged
<1>11. Waiting' = Waiting
  BY <1>1 DEF Waiting, countVars, next
<1>12. /\ Waiting' = ToSet(jobs') \cup Hands' \cup ToSet(results') \cup ready'
       /\ Apart(ToSet(jobs'), Hands', ToSet(results'), ready')
  <2>1. jobs' = jobs /\ ready' = ready
    BY <1>1
  <2> QED
    BY <1>8, <1>9, <1>11, <2>1 DEF Apart
<1>13. Distinct(jobs')
  BY <1>1 DEF Placed
<1> QED
  BY <1>9, <1>10, <1>12, <1>13 DEF Placed

LEMMA EncoderKeeps ==
  ASSUME IInv, Promises, NEW e \in Encoders, Encoder(e)
  PROVE  Kept
<1>1. UNCHANGED <<ownerVars, pool, ready, countVars, failure, fileVars>>
  BY DEF Encoder, TakeJob, EncodeJob
<1>2. InPlace'
  <2>1. Types
    BY DEF IInv
  <2>2. Placed => Placed'
    BY <2>1, TakeJobPlaces, EncodeJobPlaces DEF Encoder
  <2> QED
    BY <1>1, <2>2 DEF InPlace, Promises
<1>3. Numbered' /\ [Ordered!Next]_(Ordered!vars)
  <2>1. UNCHANGED <<pc, goal, failure>>
    BY <1>1 DEF ownerVars
  <2>2. pc \in {"stop", "directory"} /\ goal = "complete" => failure = "none"
    BY DEF Promises, Numbered
  <2> QED
    BY <1>1, <2>1, <2>2, SameNumbers DEF Promises
<1> QED
  BY <1>2, <1>3 DEF Kept, Promises

(***************************************************************************)
(* The owner's calls.                                                      *)
(***************************************************************************)
LEMMA BeginKeeps ==
  ASSUME IInv, Promises, Poll \/ Flush \/ Drop \/ \E status \in Statuses : Finish(status)
  PROVE  Kept
<1>1. /\ pc = "idle" /\ pc' \in {"poll", "flush", "stop"}
      /\ UNCHANGED <<poolVars, countVars, failure, fileVars>>
      /\ pc' = "stop" /\ goal' = "complete" => failure = "none"
  <2>1. CASE Poll
    BY <2>1 DEF Poll, Step
  <2>2. CASE Flush
    BY <2>2 DEF Flush, Step
  <2>3. CASE Drop
    BY <2>3 DEF Drop, Step
  <2>4. CASE \E status \in Statuses : Finish(status)
    <3>1. PICK status \in Statuses : Finish(status)
      BY <2>4
    <3> QED
      BY <3>1 DEF Finish, Step
  <2> QED
    BY <2>1, <2>2, <2>3, <2>4
<1> QED
  BY <1>1, Waits DEF poolVars

LEMMA EncodeKeeps ==
  ASSUME IInv, Promises, Encode
  PROVE  Kept
<1>1. /\ pc = "idle" /\ pc' \in {"admit", "inline"} /\ (pc' = "admit" <=> pool)
      /\ failure = "none" /\ ~finished /\ size' \in Nat
      /\ UNCHANGED <<poolVars, written, pendingBytes, failure, fileVars>>
      /\ sizes' = IF pool THEN sizes ELSE Append(sizes, size')
  <2>1. size' \in Nat
    BY OutputAssumption DEF Encode
  <2> QED
    BY <2>1 DEF Encode, Step, Usable
<1>2. CASE pool
  BY <1>1, <1>2, Waits DEF poolVars, countVars
<1>3. CASE ~pool
  <2>1. next' = next + 1 /\ next \in Nat
    <3>1. sizes \in Seq(Nat)
      BY DEF IInv, Types
    <3> QED
      BY <1>1, <1>3, <3>1, AppendProperties, LenProperties DEF next
  <2>2. Published(wire)' = Published(wire) /\ Done' = Done
    BY <1>1 DEF fileVars, Done
  <2>3. Done = next
    BY <1>1, <1>3 DEF Promises, Numbered
  <2>4. InPlace' /\ Numbered'
    <3>1. pool' = FALSE /\ pc' = "inline" /\ finished' = finished
      BY <1>1, <1>3 DEF poolVars, fileVars
    <3>2. \A i \in 1 .. Done : Published(wire)[i] = i
      BY DEF Promises, Numbered
    <3> QED
      BY <1>1, <2>1, <2>2, <2>3, <3>1, <3>2 DEF InPlace, Numbered
  <2>5. [Ordered!Next]_(Ordered!vars)
    <3>1. Ordered!Submit
      BY <1>1, <2>1, <2>2 DEF Ordered!Submit, fileVars
    <3> QED
      BY <3>1 DEF Ordered!Next
  <2> QED
    BY <2>4, <2>5 DEF Kept, Promises
<1> QED
  BY <1>2, <1>3

LEMMA EncodeNowKeeps ==
  ASSUME IInv, Promises, EncodeNow
  PROVE  Kept
<1>1. /\ pc = "inline" /\ failure = "none" /\ ~finished /\ next \in Nat /\ ~pool /\ Types
      /\ UNCHANGED <<pool, jobs, encoding, results, ready, finished>>
  <2>1. pc = "inline" /\ UNCHANGED <<pool, jobs, encoding, results, ready, finished>>
    BY DEF EncodeNow
  <2>2. failure = "none" /\ ~finished
    BY <2>1 DEF IInv, Control, Busy
  <2>3. next \in Nat /\ Types
    BY LenProperties DEF IInv, Types, next
  <2> QED
    BY <2>1, <2>2, <2>3 DEF Promises, Numbered
<1>2. CASE wire' = Append(wire, Section(next)) /\ Return /\ UNCHANGED <<countVars, failure, spoiled>>
  <2>1. next' = next
    BY <1>2 DEF countVars, next
  <2>2. Done = next - 1 /\ next = Done + 1
    BY <1>1 DEF Promises, Numbered
  <2>3. /\ [Ordered!Next]_(Ordered!vars)
        /\ Done' = next /\ \A i \in 1 .. next : Published(wire)'[i] = i
    <3>1. next <= next
      BY <1>1
    <3> QED
      BY <1>1, <1>2, <2>1, <2>2, <3>1, Publishes DEF Promises
  <2>4. InPlace' /\ Numbered'
    <3>1. ~pool' /\ pc' = "idle" /\ ~finished'
      BY <1>1, <1>2 DEF Return
    <3> QED
      BY <1>1, <2>1, <2>3, <3>1 DEF InPlace, Numbered
  <2> QED
    BY <2>3, <2>4 DEF Kept, Promises
<1>3. CASE EncodingFailed
  BY <1>1, <1>3, GivesUp DEF EncodingFailed, Return
<1>4. CASE WriteFails
  <2>1. Published(wire)' = Published(wire)
    BY <1>1, <1>4, PartPublishes DEF WriteFails
  <2> QED
    BY <1>1, <1>4, <2>1, GivesUp DEF WriteFails, Return, countVars
<1> QED
  BY <1>2, <1>3, <1>4 DEF EncodeNow

LEMMA ReceiveKeeps ==
  ASSUME IInv, Promises, NEW caller \in Callers, Receive(caller)
  PROVE  Kept
<1>1. /\ pc = caller /\ results # << >> /\ pc' = DrainFor(caller)
      /\ ready' = ready \cup {Head(results)} /\ results' = Tail(results)
      /\ UNCHANGED <<goal, size, pool, jobs, encoding, spoiled, countVars, failure, fileVars>>
  BY DEF Receive
<1>2. Placed => Placed'
  <2> SUFFICES ASSUME Placed PROVE Placed'
    OBVIOUS
  <2>1. results \in Seq(1 .. next) /\ Distinct(results)
    BY DEF IInv, Types, Placed
  <2>2. PICK h : h = Head(results)
    OBVIOUS
  <2>3. h \in ToSet(results) /\ Distinct(results') /\ ToSet(results') = ToSet(results) \ {h}
    BY <1>1, <2>1, <2>2, DistinctTail
  <2>4. /\ Waiting = ToSet(results') \cup (ready \cup {h}) \cup ToSet(jobs) \cup Hands
        /\ Apart(ToSet(results'), ready \cup {h}, ToSet(jobs), Hands)
    <3>1. /\ Waiting = ToSet(results) \cup ready \cup ToSet(jobs) \cup Hands
          /\ Apart(ToSet(results), ready, ToSet(jobs), Hands)
      BY DEF Placed, Apart
    <3> QED
      BY <2>3, <3>1, Moves
  <2>5. Waiting' = Waiting /\ Hands' = Hands /\ Engaged' = Engaged /\ ready' = ready \cup {h}
    BY <1>1, <2>2 DEF Waiting, Hands, Engaged, countVars, next
  <2> QED
    BY <1>1, <2>3, <2>4, <2>5 DEF Placed, Apart
<1>3. InPlace'
  BY <1>1, <1>2 DEF InPlace, Promises
<1>4. Numbered' /\ [Ordered!Next]_(Ordered!vars)
  <2>1. pc \in Callers /\ pc' \in {DrainFor(c) : c \in Callers}
    BY <1>1
  <2>2. /\ pc # "inline" /\ pc' # "inline" /\ pc # "dropped"
        /\ pc' \notin {"stop", "directory"}
    BY <2>1 DEF Callers, DrainFor
  <2> QED
    BY <1>1, <2>2, SameNumbers DEF Promises
<1> QED
  BY <1>3, <1>4 DEF Kept, Promises

LEMMA DrainEndsKeeps ==
  ASSUME IInv, Promises, NEW caller \in Callers, DrainEnds(caller)
  PROVE  Kept
<1>1. /\ pc = DrainFor(caller) /\ pc' = caller
      /\ UNCHANGED <<goal, size, poolVars, countVars, failure, fileVars>>
  BY DEF DrainEnds, Draining
<1>2. pc # "inline" /\ pc' # "inline" /\ pc # "dropped" /\ pc' \notin {"stop", "directory"}
  BY <1>1 DEF Callers, DrainFor
<1> QED
  BY <1>1, <1>2, Waits DEF poolVars

LEMMA PollEndsKeeps ==
  ASSUME IInv, Promises, PollEnds
  PROVE  Kept
BY Waits DEF PollEnds, Return, poolVars

LEMMA FlushFileKeeps ==
  ASSUME IInv, Promises, FlushFile
  PROVE  Kept
<1>1. /\ pc = "flush" /\ pc' \in {"idle", "stop"} /\ (pc' = "stop" => UNCHANGED failure)
      /\ UNCHANGED <<poolVars, countVars, fileVars>> /\ (failure' = failure \/ failure' = "io")
  BY DEF FlushFile, Return
<1>2. failure = "none"
  BY <1>1 DEF IInv, Control, Busy
<1> QED
  BY <1>1, <1>2, Waits DEF poolVars

LEMMA DrainOneKeeps ==
  ASSUME IInv, Promises, DrainOne
  PROVE  Kept
<1>1. PICK caller \in Callers : pc = DrainFor(caller)
  BY DEF DrainOne, Draining
<1>2. /\ pc \in Busy /\ pc # "inline" /\ failure = "none" /\ ~finished /\ UNCHANGED finished
      /\ UNCHANGED <<pool, jobs, encoding, results>>
  BY <1>1 DEF DrainOne, Busy, IInv, Control, Callers, DrainFor
<1>3. /\ written + 1 \in ready /\ ready' = ready \ {written + 1}
      /\ \/ /\ wire' = Append(wire, Section(written + 1)) /\ written' = written + 1
            /\ UNCHANGED <<ownerVars, sizes, failure>>
         \/ WriteFails
         \/ EncodingFailed
  BY DEF DrainOne, NextReady, Charge
<1>4. pool /\ next \in Nat /\ written \in Nat /\ written + 1 \in 1 .. next /\ Types
  <2>1. Types /\ NoPool
    BY DEF IInv
  <2>2. pool
    BY <1>3, <2>1 DEF NoPool
  <2>3. next \in Nat /\ ready \subseteq 1 .. next /\ written \in 0 .. next
    BY <2>1, LenProperties DEF Types, next
  <2> QED
    BY <1>3, <2>1, <2>2, <2>3
<1>5. CASE /\ wire' = Append(wire, Section(written + 1)) /\ written' = written + 1
           /\ UNCHANGED <<ownerVars, sizes, failure>>
  <2>1. next' = next
    BY <1>5 DEF next
  <2>2. Done = written
    BY <1>2, <1>4 DEF Promises, Numbered
  <2>3. /\ [Ordered!Next]_(Ordered!vars)
        /\ Done' = written + 1 /\ \A i \in 1 .. written + 1 : Published(wire)'[i] = i
    <3>1. PICK n \in Nat : n = written + 1
      BY <1>4
    <3>2. n = Done + 1 /\ n <= next /\ wire' = Append(wire, Section(n)) /\ ~finished'
      BY <1>2, <1>4, <1>5, <2>2, <3>1
    <3> QED
      BY <1>2, <1>4, <2>1, <3>1, <3>2, Publishes DEF Promises
  <2>4. Numbered'
    <3>1. /\ pool' = pool /\ failure' = failure /\ pc' = pc /\ goal' = goal /\ ~finished'
          /\ written' = written + 1 /\ written + 1 <= next
      BY <1>2, <1>4, <1>5 DEF ownerVars
    <3>2. pc' \notin {"directory", "inline", "stop"}
      BY <1>1, <3>1 DEF Callers, DrainFor
    <3> QED
      BY <1>4, <2>1, <2>3, <3>1, <3>2 DEF Numbered
  <2>5. Placed
    BY <1>2, <1>4 DEF Promises, InPlace
  <2>6. Placed'
    <3>1. Waiting' = Waiting \ {written + 1}
      BY <1>4, <1>5, <2>1 DEF Waiting
    <3>2. UNCHANGED <<jobs, results, encoding, Hands, Engaged>>
      BY <1>2 DEF Hands, Engaged
    <3> QED
      BY <1>3, <2>5, <3>1, <3>2 DEF Placed, Apart
  <2> QED
    BY <2>3, <2>4, <2>6 DEF Kept, Promises, InPlace
<1>6. CASE EncodingFailed
  BY <1>2, <1>6, GivesUp DEF EncodingFailed, Return
<1>7. CASE WriteFails
  <2>1. Published(wire)' = Published(wire)
    BY <1>4, <1>7, PartPublishes DEF WriteFails
  <2> QED
    BY <1>2, <1>7, <2>1, GivesUp DEF WriteFails, Return, countVars
<1> QED
  BY <1>3, <1>5, <1>6, <1>7

LEMMA SubmitKeeps ==
  ASSUME IInv, Promises, Submit
  PROVE  Kept
<1>1. /\ pc = "admit" /\ pc' = "poll" /\ jobs' = Append(jobs, next + 1)
      /\ sizes' = Append(sizes, size)
      /\ UNCHANGED <<goal, pool, encoding, results, spoiled, ready, written, failure, fileVars>>
  BY DEF Submit, Step
<1>2. pool /\ failure = "none" /\ ~finished
  BY <1>1 DEF IInv, Control, Busy
<1>3. /\ next \in Nat /\ next' = next + 1 /\ written \in 0 .. next
      /\ jobs \in Seq(1 .. next)
  <2>1. sizes \in Seq(Nat) /\ size \in Nat /\ written \in 0 .. next /\ jobs \in Seq(1 .. next)
    BY DEF IInv, Types
  <2> QED
    BY <1>1, <2>1, AppendProperties, LenProperties DEF next
<1>4. Published(wire)' = Published(wire) /\ Done' = Done
  BY <1>1 DEF fileVars, Done
<1>5. Placed
  BY <1>2 DEF Promises, InPlace
<1>6. PICK n \in Nat : n = next + 1
  BY <1>3
<1>7. n \notin Waiting /\ Waiting' = Waiting \cup {n}
  BY <1>1, <1>3, <1>6 DEF Waiting
<1>8. Distinct(jobs') /\ ToSet(jobs') = ToSet(jobs) \cup {n}
  <2>1. 1 .. next \subseteq Nat
    BY <1>3
  <2>2. jobs \in Seq(Nat)
    BY <1>3, <2>1, SeqMonotonic
  <2>3. n \notin ToSet(jobs) /\ Distinct(jobs)
    BY <1>5, <1>7 DEF Placed
  <2> QED
    BY <1>1, <1>6, <2>2, <2>3, DistinctAppended
<1>9. Placed'
  <2>1. UNCHANGED <<results, ready, encoding, Hands, Engaged>>
    BY <1>1 DEF Hands, Engaged
  <2> QED
    BY <1>5, <1>7, <1>8, <2>1 DEF Placed, Apart
<1>10. Done \in Nat /\ Done <= next
  <2>1. Published(wire) \in Seq(Nat)
    <3>1. wire \in Seq(Items)
      BY DEF IInv, Types
    <3>2. [kind |-> "section", n |-> 0] \in Items
      BY DEF Items, Parts
    <3> QED
      BY <3>1, <3>2, PublishedAppended
  <2> QED
    BY <2>1, LenProperties DEF Done, Promises, Numbered
<1>11. Numbered'
  <2>1. pool' = pool /\ failure' = failure /\ written' = written /\ ~finished'
    BY <1>1, <1>2 DEF fileVars
  <2> QED
    BY <1>1, <1>2, <1>3, <1>4, <1>10, <2>1 DEF Promises, Numbered
<1>12. [Ordered!Next]_(Ordered!vars)
  <2>1. Ordered!Submit
    BY <1>1, <1>2, <1>3, <1>4 DEF Ordered!Submit, fileVars
  <2> QED
    BY <2>1 DEF Ordered!Next
<1> QED
  BY <1>9, <1>11, <1>12 DEF Kept, Promises, InPlace

LEMMA StopPoolKeeps ==
  ASSUME IInv, Promises, StopPool
  PROVE  Kept
<1>1. /\ pc = "stop" /\ pc' = IF goal = "drop" THEN "dropped" ELSE "directory"
      /\ pool' = FALSE
      /\ UNCHANGED <<goal, countVars, failure, fileVars>>
  BY DEF StopPool, Step
<1>2. next' = next /\ next \in Nat /\ written \in 0 .. next /\ Control
  BY <1>1, LenProperties DEF IInv, Types, countVars, next
<1>3. Published(wire)' = Published(wire) /\ Done' = Done
  BY <1>1 DEF fileVars, Done
<1>4. failure = "none" /\ pc' = "directory" => Done = next
  <2> SUFFICES ASSUME failure = "none", goal # "drop" PROVE Done = next
    BY <1>1
  <2>1. CASE pool
    <3>1. written = next
      BY <1>1, <1>2, <2>1 DEF Control, PendingJobs
    <3> QED
      BY <2>1, <3>1 DEF Promises, Numbered
  <2>2. CASE ~pool
    BY <1>1, <2>2 DEF Promises, Numbered
  <2> QED
    BY <2>1, <2>2
<1>5. Numbered' /\ InPlace'
  <2>1. UNCHANGED <<goal, failure, wire, finished>> /\ pc' \in {"dropped", "directory"}
    BY <1>1 DEF fileVars
  <2> QED
    BY <1>1, <1>2, <1>3, <1>4, <2>1 DEF Promises, Numbered, InPlace
<1>6. [Ordered!Next]_(Ordered!vars)
  BY <1>1, <1>2, <1>3, Stutters DEF fileVars
<1> QED
  BY <1>5, <1>6 DEF Kept, Promises

LEMMA WriteDirectoryKeeps ==
  ASSUME IInv, Promises, WriteDirectory
  PROVE  Kept
<1>1. /\ pc = "directory" /\ goal \in Statuses /\ ~finished /\ ~pool /\ Types
      /\ pc' = "idle" /\ goal' = "none"
      /\ UNCHANGED <<poolVars, countVars, failure>>
      /\ goal = "complete" => failure = "none"
  BY DEF WriteDirectory, Return, IInv, Control, Promises, Numbered
<1>2. next' = next /\ pool' = pool /\ failure' = failure
  BY <1>1 DEF countVars, poolVars, next
<1>3. goal = "complete" => Done = next
  BY <1>1 DEF Promises, Numbered
<1>4. ASSUME Published(wire)' = Published(wire),
             finished' => wire'[Len(wire')].kind = goal
      PROVE  Promises'
  <2>1. Done' = Done
    BY <1>4 DEF Done
  <2>2. Numbered'
    BY <1>1, <1>2, <1>3, <1>4, <2>1 DEF Promises, Numbered
  <2>3. InPlace'
    BY <1>1, <1>2 DEF InPlace
  <2> QED
    BY <2>2, <2>3 DEF Promises
<1>5. CASE Torn("directory") /\ UNCHANGED finished
  <2>1. Published(wire)' = Published(wire)
    BY <1>1, <1>5, PartPublishes
  <2>2. [Ordered!Next]_(Ordered!vars)
    BY <1>1, <1>2, <1>5, <2>1, Stutters
  <2> QED
    BY <1>1, <1>4, <1>5, <2>1, <2>2 DEF Kept
<1>6. CASE wire' = Append(wire, Directory(goal)) /\ finished' = TRUE
  <2>1. PICK item \in Items : item = Directory(goal) /\ item.kind = goal
    <3>1. Directory(goal) \in Items /\ Directory(goal).kind = goal
      BY <1>1, PositionNat DEF Directory, Items
    <3> QED
      BY <3>1, Zenon
  <2>2. wire \in Seq(Items) /\ item.kind # "section" /\ wire' = Append(wire, item)
    BY <1>1, <1>6, <2>1 DEF Types, Statuses
  <2>3. Published(wire)' = Published(wire)
    BY <2>2, PublishedAppended
  <2>4. /\ wire' \in Seq(Items) /\ Len(wire) \in Nat
        /\ Len(wire') = Len(wire) + 1 /\ wire'[Len(wire) + 1] = item
    BY <2>2, AppendOne
  <2>5. wire'[Len(wire')].kind = goal /\ Last(wire').kind = goal
    BY <2>1, <2>4 DEF Last
  <2>6. Ordered!Seal
    BY <1>1, <1>2, <1>3, <1>6, <2>3, <2>5 DEF Ordered!Seal, Statuses, Done
  <2> QED
    BY <1>4, <2>3, <2>5, <2>6 DEF Kept, Ordered!Next
<1> QED
  BY <1>5, <1>6 DEF WriteDirectory

LEMMA NextKeeps ==
  ASSUME IInv, Promises, [Next]_vars
  PROVE  Kept
<1>1. CASE Call
  BY <1>1, EncodeKeeps, BeginKeeps DEF Call, Statuses
<1>2. CASE Owner
  BY <1>2, EncodeNowKeeps, SubmitKeeps, ReceiveKeeps, PollEndsKeeps, DrainOneKeeps, DrainEndsKeeps,
     FlushFileKeeps, StopPoolKeeps, WriteDirectoryKeeps DEF Owner, AwaitRoom, FlushWaits, Callers
<1>3. CASE \E e \in Encoders : Encoder(e)
  BY <1>3, EncoderKeeps
<1>4. CASE UNCHANGED vars
  <2>1. UNCHANGED <<ownerVars, poolVars, countVars, failure, fileVars>>
    BY <1>4 DEF vars
  <2>2. InPlace'
    BY <2>1, SamePlaces DEF Promises, poolVars
  <2>3. Numbered' /\ [Ordered!Next]_(Ordered!vars)
    <3>1. UNCHANGED <<pc, goal, pool>>
      BY <2>1 DEF ownerVars, poolVars
    <3>2. pc \in {"stop", "directory"} /\ goal = "complete" => failure = "none"
      BY DEF Promises, Numbered
    <3> QED
      BY <2>1, <3>1, <3>2, SameNumbers DEF Promises
  <2> QED
    BY <2>2, <2>3 DEF Kept, Promises
<1> QED
  BY <1>1, <1>2, <1>3, <1>4 DEF Next

LEMMA PromisesKept == Spec => []Promises
<1>1. Init => Promises
  BY InitPromises
<1>2. IInv /\ Promises /\ [Next]_vars => Promises'
  BY NextKeeps DEF Kept
<1> QED
  BY <1>1, <1>2, Inductive, PTL DEF Spec

\* What waits is counted by its places, and its charges add up.
LEMMA AddsUp ==
  ASSUME IInv, Promises
  PROVE  Accounted
<1> SUFFICES ASSUME pool = TRUE, failure = "none" PROVE
      LET waiting == written + 1 .. next
          busy == {e \in Encoders : encoding[e] # 0}
      IN /\ waiting = ToSet(jobs) \cup {encoding[e] : e \in busy} \cup ToSet(results) \cup ready
         /\ PendingJobs = Len(jobs) + Cardinality(busy) + Len(results) + Cardinality(ready)
         /\ pendingBytes = FoldLeft(LAMBDA a, b : a + b, 0, SubSeq(sizes, written + 1, next))
  BY DEF Accounted, IInv, Types
<1>1. Placed
  BY DEF Promises, InPlace
<1>2. /\ jobs \in Seq(1 .. next) /\ results \in Seq(1 .. next) /\ ready \subseteq 1 .. next
      /\ next \in Nat /\ written \in 0 .. next /\ encoding \in [Encoders -> 0 .. next]
  BY LenProperties DEF IInv, Types, next
<1>3. /\ IsFiniteSet(ToSet(jobs)) /\ Cardinality(ToSet(jobs)) = Len(jobs)
      /\ IsFiniteSet(ToSet(results)) /\ Cardinality(ToSet(results)) = Len(results)
  BY <1>1, <1>2, DistinctCount DEF Placed
<1>4. IsFiniteSet(1 .. next)
  BY <1>2, Interval
<1>5. IsFiniteSet(ready)
  BY <1>2, <1>4, FS_Subset
<1>6. IsFiniteSet(Hands) /\ Cardinality(Hands) = Cardinality(Engaged)
  <2>1. Hands \subseteq 1 .. next
    <3>1. \A e \in Encoders : encoding[e] # 0 => encoding[e] \in 1 .. next
      BY <1>2
    <3> QED
      BY <3>1 DEF Hands, Engaged
  <2>2. IsFiniteSet(Hands)
    BY <1>4, <2>1, FS_Subset
  <2> DEFINE by == [h \in Hands |-> CHOOSE e \in Engaged : encoding[e] = h]
  <2>3. \A h \in Hands : by[h] \in Engaged /\ encoding[by[h]] = h
    BY DEF Hands
  <2>4. \A e \in Engaged : encoding[e] \in Hands /\ by[encoding[e]] = e
    <3> TAKE e \in Engaged
    <3>1. encoding[e] \in Hands
      BY DEF Hands
    <3>2. by[encoding[e]] \in Engaged /\ encoding[by[encoding[e]]] = encoding[e]
      BY <2>3, <3>1
    <3> HIDE DEF by
    <3> QED
      BY <1>1, <3>1, <3>2 DEF Placed
  <2> HIDE DEF by
  <2>5. {by[h] : h \in Hands} = Engaged
    BY <2>3, <2>4
  <2>6. \A h, k \in Hands : by[h] = by[k] => h = k
    BY <2>3
  <2> QED
    BY <2>2, <2>5, <2>6, Image
<1>7. Cardinality(Waiting) = PendingJobs
  <2>1. Cardinality(written + 1 .. next) = IF written + 1 > next THEN 0 ELSE next - (written + 1) + 1
    BY <1>2, FS_Interval
  <2> QED
    BY <1>2, <2>1 DEF Waiting, PendingJobs
<1>8. PendingJobs = Len(jobs) + Cardinality(Engaged) + Len(results) + Cardinality(ready)
  <2>1. Cardinality(ToSet(jobs) \cup Hands \cup ToSet(results) \cup ready)
          = Cardinality(ToSet(jobs)) + Cardinality(Hands) + Cardinality(ToSet(results))
            + Cardinality(ready)
    BY <1>1, <1>3, <1>5, <1>6, FourParts DEF Placed, Apart
  <2>2. Waiting = ToSet(jobs) \cup Hands \cup ToSet(results) \cup ready
    BY <1>1 DEF Placed
  <2> QED
    BY <1>3, <1>6, <1>7, <2>1, <2>2
<1>9. pendingBytes = Sum(SubSeq(sizes, written + 1, next))
  <2>1. PICK last \in 0 .. next : \E total \in [0 .. last -> Nat] : Totals(last, total)
    BY DEF IInv, Charged
  <2>2. PICK total \in [0 .. last -> Nat] : Totals(last, total)
    BY <2>1
  <2>3. last = next /\ pendingBytes = total[next] - total[written]
        /\ \A n \in 1 .. next : total[n] = total[n - 1] + sizes[n]
    BY <2>2 DEF Totals
  <2>4. total \in [0 .. next -> Int] /\ next = Len(sizes)
    BY <2>2, <2>3 DEF next
  <2>5. sizes \in Seq(Int)
    <3>1. sizes \in Seq(Nat) /\ Nat \subseteq Int
      BY DEF IInv, Types
    <3> QED
      BY <3>1, SeqMonotonic
  <2> QED
    BY <1>2, <2>3, <2>4, <2>5, SumBetween
<1> QED
  BY <1>1, <1>8, <1>9 DEF Placed, Waiting, Hands, Engaged, Sum

\* While nothing has failed, every section that is submitted and not in the file is with the
\* jobs, an encoder, the results or the ready ones, in one place only, and is charged once:
\* for any number of encoders, whichever of them finishes first.
THEOREM NothingLost == Spec => []Accounted
<1>1. IInv /\ Promises => Accounted
  BY AddsUp
<1> QED
  BY <1>1, Inductive, PromisesKept, PTL

\* Output implements OrderedOutput: sections reach the file in the order of submission, none
\* skipped and none twice, and a recording that is sealed as complete has all of them.
THEOREM Refines == Spec => OutputSpec
<1>1. Init => Ordered!Init
  BY InitPromises
<1>2. IInv /\ Promises /\ [Next]_vars => [Ordered!Next]_(Ordered!vars)
  BY NextKeeps DEF Kept
<1> QED
  BY <1>1, <1>2, Inductive, PromisesKept, PTL DEF Spec, OutputSpec, Ordered!Spec

(***************************************************************************)
(* Jobs and buffers side by side: what PayloadPoolProofs shows of the      *)
(* buffers alone holds beside the jobs, which leave the buffers as they    *)
(* are.                                                                    *)
(***************************************************************************)
\* The module with the proofs has the definitions of the one that the run
\* instantiates; a definition through either is a symbol of its own, library
\* operators included.
Proved == INSTANCE PayloadPoolProofs WITH Owner <- "backend", Free <- "free"

LEMMA SameAssumption == Buffers!PoolAssumption => Proved!PoolAssumption
BY DEF Buffers!PoolAssumption, Proved!PoolAssumption, Buffers!IsFiniteSet, Proved!IsFiniteSet

LEMMA SameTotal ==
  ASSUME NEW s
  PROVE  Buffers!Total(s) = Proved!Total(s)
BY DEF Buffers!Total, Proved!Total, Buffers!FoldLeft, Proved!FoldLeft, Buffers!MapThenFoldSet,
       Proved!MapThenFoldSet, Buffers!Max, Proved!Max

LEMMA SameSum ==
  ASSUME NEW f, NEW S
  PROVE  Buffers!SumFunctionOnSet(f, S) = Proved!SumFunctionOnSet(f, S)
BY DEF Buffers!SumFunctionOnSet, Proved!SumFunctionOnSet, Buffers!FoldFunctionOnSet,
       Proved!FoldFunctionOnSet, Buffers!MapThenFoldSet, Proved!MapThenFoldSet

LEMMA SameFitting ==
  ASSUME NEW s, NEW room
  PROVE  Buffers!Fitting(s, room) = Proved!Fitting(s, room)
BY DEF Buffers!Fitting, Proved!Fitting, Buffers!Total, Proved!Total, Buffers!FoldLeft,
       Proved!FoldLeft, Buffers!MapThenFoldSet, Proved!MapThenFoldSet, Buffers!Max, Proved!Max

LEMMA SameInit == Buffers!Init <=> Proved!Init
BY DEF Buffers!Init, Proved!Init

LEMMA SameBackend == Buffers!Backend <=> Proved!Backend
<1>1. Buffers!Take <=> Proved!Take
  BY DEF Buffers!Take, Proved!Take, Buffers!sharedVars, Proved!sharedVars, Buffers!encoderVars,
         Proved!encoderVars
<1>2. Buffers!LockReturned <=> Proved!LockReturned
  BY DEF Buffers!LockReturned, Proved!LockReturned, Buffers!backendVars, Proved!backendVars,
         Buffers!encoderVars, Proved!encoderVars
<1>3. Buffers!Refill <=> Proved!Refill
  BY DEF Buffers!Refill, Proved!Refill, Buffers!backendVars, Proved!backendVars,
         Buffers!encoderVars, Proved!encoderVars
<1>4. Buffers!ClearPending <=> Proved!ClearPending
  BY SameTotal DEF Buffers!ClearPending, Proved!ClearPending, Buffers!backendVars,
         Proved!backendVars, Buffers!encoderVars, Proved!encoderVars
<1>5. Buffers!Pop <=> Proved!Pop
  BY DEF Buffers!Pop, Proved!Pop, Buffers!Serve, Proved!Serve, Buffers!Max, Proved!Max,
         Buffers!Last, Proved!Last, Buffers!Front, Proved!Front, Buffers!encoderVars,
         Proved!encoderVars
<1>6. Buffers!DropPool <=> Proved!DropPool
  BY DEF Buffers!DropPool, Proved!DropPool, Buffers!encoderVars, Proved!encoderVars
<1> QED
  BY <1>1, <1>2, <1>3, <1>4, <1>5, <1>6 DEF Buffers!Backend, Proved!Backend

LEMMA SameRecycle ==
  ASSUME NEW e \in Encoders
  PROVE  Buffers!Recycle(e) <=> Proved!Recycle(e)
<1>1. Buffers!Encode(e) <=> Proved!Encode(e)
  BY DEF Buffers!Encode, Proved!Encode, Buffers!sharedVars, Proved!sharedVars,
         Buffers!poolVars, Proved!poolVars
<1>2. Buffers!Unwind(e) <=> Proved!Unwind(e)
  BY DEF Buffers!Unwind, Proved!Unwind, Buffers!sharedVars, Proved!sharedVars,
         Buffers!poolVars, Proved!poolVars, Buffers!backendVars, Proved!backendVars
<1>3. Buffers!Admit(e) <=> Proved!Admit(e)
  BY SameFitting DEF Buffers!Admit, Proved!Admit, Buffers!Look, Proved!Look, Buffers!Max,
         Proved!Max, Buffers!sharedVars, Proved!sharedVars, Buffers!poolVars, Proved!poolVars,
         Buffers!backendVars, Proved!backendVars
<1>4. Buffers!Reserve(e) <=> Proved!Reserve(e)
  BY SameTotal, SameFitting DEF Buffers!Reserve, Proved!Reserve, Buffers!Look, Proved!Look,
         Buffers!Max, Proved!Max, Buffers!poolVars, Proved!poolVars, Buffers!backendVars,
         Proved!backendVars
<1>5. Buffers!LockReturn(e) <=> Proved!LockReturn(e)
  BY DEF Buffers!LockReturn, Proved!LockReturn, Buffers!poolVars, Proved!poolVars,
         Buffers!backendVars, Proved!backendVars
<1>6. Buffers!Extend(e) <=> Proved!Extend(e)
  BY DEF Buffers!Extend, Proved!Extend, Buffers!poolVars, Proved!poolVars, Buffers!backendVars,
         Proved!backendVars
<1>7. Buffers!StorePending(e) <=> Proved!StorePending(e)
  BY DEF Buffers!StorePending, Proved!StorePending, Buffers!poolVars, Proved!poolVars,
         Buffers!backendVars, Proved!backendVars
<1> QED
  BY <1>1, <1>2, <1>3, <1>4, <1>5, <1>6, <1>7 DEF Buffers!Recycle, Proved!Recycle

\* The buffers behave as they do alone.
LEMMA BuffersAlone == MCSpec => Proved!Spec
<1>1. MCInit => Proved!Init
  BY SameInit DEF MCInit
<1>2. [MCNext]_all => [Proved!Next]_(Proved!vars)
  <2>1. ASSUME moving = "jobs" /\ Next /\ UNCHANGED <<moving, bufferVars>>
        PROVE  UNCHANGED Proved!vars
    BY <2>1 DEF bufferVars, Proved!vars, Proved!sharedVars, Proved!poolVars, Proved!backendVars,
                Proved!encoderVars
  <2>2. ASSUME Buffers!Next PROVE Proved!Next
    BY <2>2, SameBackend, SameRecycle DEF Buffers!Next, Proved!Next
  <2>3. ASSUME UNCHANGED all PROVE UNCHANGED Proved!vars
    BY <2>3 DEF all, bufferVars, Proved!vars, Proved!sharedVars, Proved!poolVars,
                Proved!backendVars, Proved!encoderVars
  <2> QED
    BY <2>1, <2>2, <2>3 DEF MCNext
<1> QED
  BY <1>1, <1>2, PTL DEF MCSpec, Proved!Spec

(***************************************************************************)
(* The pool's counter is exact and within its limit, whatever the jobs do. *)
(***************************************************************************)
THEOREM RetainsExactly ==
  ASSUME Buffers!PoolAssumption
  PROVE  MCSpec => []Retained
<1>1. Proved!Spec => []Proved!Retained
  BY SameAssumption, Proved!RetainsExactly
<1>2. Proved!Retained => Retained
  <2>1. Buffers!Admitted = Proved!Admitted
    BY DEF Buffers!Admitted, Proved!Admitted
  <2>2. [e \in Encoders |-> Buffers!Total(carried[e])]
          = [e \in Encoders |-> Proved!Total(carried[e])]
    BY SameTotal
  <2>3. Proved!Exact => Buffers!Exact
    BY <2>1, <2>2, SameTotal, SameSum DEF Buffers!Exact, Proved!Exact
  <2> QED
    BY <2>3 DEF Retained, Buffers!Retained, Buffers!WithinLimit, Proved!Retained,
                Proved!WithinLimit
<1> QED
  BY <1>1, <1>2, BuffersAlone, PTL

(***************************************************************************)
(* A returned buffer is announced, whatever the jobs do.                   *)
(***************************************************************************)
THEOREM ForgetsNothing ==
  ASSUME Buffers!PoolAssumption
  PROVE  MCSpec => []NothingForgotten
<1>1. Proved!Spec => []Proved!NothingForgotten
  BY SameAssumption, Proved!ForgetsNothing
<1>2. Proved!NothingForgotten => NothingForgotten
  BY DEF NothingForgotten, Buffers!NothingForgotten, Proved!NothingForgotten
<1> QED
  BY <1>1, <1>2, BuffersAlone, PTL
=============================================================================
