----------------------------- MODULE PayloadPool ----------------------------
(***************************************************************************)
(* The pool of payload buffers (recording/payload_pool.rs): the backend    *)
(* takes buffers, the encoder threads give them back.  Room for a buffer   *)
(* is reserved in an atomic counter before it is put on the returned list, *)
(* which a mutex protects; the backend empties the list when it has used   *)
(* up its own, and gives room back in batches.                             *)
(*                                                                         *)
(* One action per access to what the threads share.  A buffer is its       *)
(* capacity.                                                               *)
(***************************************************************************)
EXTENDS Integers, Sequences, FiniteSets, FiniteSetsExt, SequencesExt

CONSTANTS
  Encoders,   \* the threads that give buffers back
  Limit,      \* encoding.payload_pool_bytes
  Threshold,  \* release_threshold
  Lengths,    \* lengths of payloads
  MaxTakes,   \* bound: buffers the backend takes
  Owner,      \* the backend's thread
  Free        \* nobody holds the mutex

\* What is assumed of the constants, where the pool is checked and in its proofs.
PoolAssumption ==
  /\ Limit \in Nat /\ Threshold \in Nat \ {0} /\ Lengths \subseteq Nat /\ MaxTakes \in Nat
  /\ IsFiniteSet(Encoders) /\ Owner \notin Encoders /\ Free \notin Encoders /\ Owner # Free

VARIABLES
  reserved, pending, returned, lock,            \* struct Shared
  available, bytes, released, owner, length,    \* struct Pool, and take()
  held, takes,                                  \* what the backend holds; bound counter
  at, carried, seen                             \* recycle() of each encoder

sharedVars == <<reserved, pending, returned, lock>>
poolVars == <<available, bytes, released, owner, length>>
backendVars == <<held, takes>>
encoderVars == <<at, carried, seen>>
vars == <<sharedVars, poolVars, backendVars, encoderVars>>

Total(buffers) == FoldLeft(LAMBDA sum, c : sum + c, 0, buffers)

\* retain_mut: what fits the room, first come first served.  An empty buffer
\* is not kept, and one beyond the whole limit fits no room.
Fitting(buffers, room) ==
  LET kept[i \in 0..Len(buffers)] ==
        IF i = 0 THEN << >>
        ELSE IF buffers[i] # 0 /\ Total(kept[i - 1]) + buffers[i] <= room
        THEN Append(kept[i - 1], buffers[i])
        ELSE kept[i - 1]
  IN  kept[Len(buffers)]

Init ==
  /\ reserved = 0 /\ pending = FALSE /\ returned = << >> /\ lock = Free
  /\ available = << >> /\ bytes = 0 /\ released = 0 /\ owner = "idle" /\ length = 0
  /\ held = << >> /\ takes = 0
  /\ at = [e \in Encoders |-> "idle"]
  /\ carried = [e \in Encoders |-> << >>]
  /\ seen = [e \in Encoders |-> 0]

(***************************************************************************)
(* Pool::take.                                                             *)
(***************************************************************************)
Take ==
  /\ owner = "idle" /\ takes < MaxTakes /\ takes' = takes + 1
  /\ length' \in Lengths
  /\ owner' = IF available = << >> /\ pending THEN "lock" ELSE "pop"
  /\ UNCHANGED <<sharedVars, available, bytes, released, held, encoderVars>>

LockReturned ==
  /\ owner = "lock" /\ lock = Free
  /\ lock' = Owner /\ owner' = "refill"
  /\ UNCHANGED <<reserved, pending, returned, available, bytes, released, length, backendVars,
                 encoderVars>>

\* Mutant: the mutex is given up before the flag is cleared.
RefillUnlocked ==
  /\ owner = "refill" /\ owner' = "clear"
  /\ available' = returned /\ returned' = << >> /\ lock' = Free
  /\ UNCHANGED <<reserved, pending, bytes, released, length, backendVars, encoderVars>>

Refill ==
  /\ owner = "refill" /\ owner' = "clear"
  /\ available' = returned /\ returned' = << >>
  /\ UNCHANGED <<reserved, pending, lock, bytes, released, length, backendVars, encoderVars>>

ClearPending ==
  /\ owner = "clear" /\ owner' = "pop"
  /\ pending' = FALSE /\ bytes' = Total(available) /\ lock' = Free
  /\ UNCHANGED <<reserved, returned, available, released, length, backendVars, encoderVars>>

\* The backend gets a buffer, which grows to the length it needs.
Serve(capacity) == held' = Append(held, Max({capacity, length})) /\ owner' = "idle"

\* Mutant: the deferred credits are not reset once they are given back.
PopCreditingTwice ==
  /\ owner = "pop"
  /\ IF available = << >>
     THEN Serve(0) /\ UNCHANGED <<reserved, available, bytes, released>>
     ELSE LET capacity == Last(available)
              credits == released + capacity
              settled == Len(available) = 1 \/ credits >= Threshold
          IN  /\ Serve(capacity)
              /\ available' = Front(available) /\ bytes' = bytes - capacity
              /\ released' = credits
              /\ reserved' = IF settled THEN reserved - credits ELSE reserved
  /\ UNCHANGED <<pending, returned, lock, length, takes, encoderVars>>

Pop ==
  /\ owner = "pop"
  /\ IF available = << >>
     THEN Serve(0) /\ UNCHANGED <<reserved, available, bytes, released>>
     ELSE LET capacity == Last(available)
              credits == released + capacity
              settled == Len(available) = 1 \/ credits >= Threshold
          IN  /\ Serve(capacity)
              /\ available' = Front(available) /\ bytes' = bytes - capacity
              /\ released' = IF settled THEN 0 ELSE credits
              /\ reserved' = IF settled THEN reserved - credits ELSE reserved
  /\ UNCHANGED <<pending, returned, lock, length, takes, encoderVars>>

\* The backend is dropped; encoders may still give buffers back.
DropPool ==
  /\ owner = "idle" /\ owner' = "gone"
  /\ reserved' = reserved - (bytes + released)
  /\ available' = << >> /\ bytes' = 0 /\ released' = 0 /\ held' = << >>
  /\ UNCHANGED <<pending, returned, lock, length, takes, encoderVars>>

(***************************************************************************)
(* Return::recycle.                                                        *)
(***************************************************************************)
\* A block's buffers go to an encoder; they are lost when encoding unwinds.
Encode(e) ==
  /\ at[e] = "idle" /\ owner = "idle"
  /\ \E n \in 1..Len(held) : /\ carried' = [carried EXCEPT ![e] = SubSeq(held, 1, n)]
                             /\ held' = SubSeq(held, n + 1, Len(held))
  /\ at' = [at EXCEPT ![e] = "admit"]
  /\ UNCHANGED <<sharedVars, poolVars, takes, seen>>

Unwind(e) ==
  /\ at[e] = "admit" /\ at' = [at EXCEPT ![e] = "idle"]
  /\ carried' = [carried EXCEPT ![e] = << >>]
  /\ UNCHANGED <<sharedVars, poolVars, backendVars, seen>>

\* The room is read, and what does not fit is dropped.
Look(e, buffers) ==
  LET kept == Fitting(buffers, Max({0, Limit - reserved}))
  IN  /\ seen' = [seen EXCEPT ![e] = reserved]
      /\ carried' = [carried EXCEPT ![e] = kept]
      /\ at' = [at EXCEPT ![e] = IF kept = << >> THEN "idle" ELSE "reserve"]

Admit(e) ==
  /\ at[e] = "admit"
  /\ Look(e, carried[e])
  /\ UNCHANGED <<sharedVars, poolVars, backendVars>>

\* Mutant: the room is taken without another look at the counter.
ReserveAnyway(e) ==
  /\ at[e] = "reserve"
  /\ reserved' = reserved + Total(carried[e])
  /\ at' = [at EXCEPT ![e] = "lock"]
  /\ UNCHANGED <<pending, returned, lock, poolVars, backendVars, carried, seen>>

\* compare_exchange_weak; a failure that is spurious changes nothing.
Reserve(e) ==
  /\ at[e] = "reserve"
  /\ \/ /\ reserved = seen[e]
        /\ reserved' = reserved + Total(carried[e])
        /\ at' = [at EXCEPT ![e] = "lock"]
        /\ UNCHANGED <<carried, seen>>
     \/ reserved # seen[e] /\ Look(e, carried[e]) /\ UNCHANGED reserved
  /\ UNCHANGED <<pending, returned, lock, poolVars, backendVars>>

LockReturn(e) ==
  /\ at[e] = "lock" /\ lock = Free
  /\ lock' = e /\ at' = [at EXCEPT ![e] = "extend"]
  /\ UNCHANGED <<reserved, pending, returned, poolVars, backendVars, carried, seen>>

Extend(e) ==
  /\ at[e] = "extend" /\ at' = [at EXCEPT ![e] = "store"]
  /\ returned' = returned \o carried[e]
  /\ carried' = [carried EXCEPT ![e] = << >>]
  /\ UNCHANGED <<reserved, pending, lock, poolVars, backendVars, seen>>

StorePending(e) ==
  /\ at[e] = "store" /\ at' = [at EXCEPT ![e] = "idle"]
  /\ pending' = TRUE /\ lock' = Free
  /\ UNCHANGED <<reserved, returned, poolVars, backendVars, carried, seen>>

Backend == Take \/ LockReturned \/ Refill \/ ClearPending \/ Pop \/ DropPool
Recycle(e) == \/ Encode(e) \/ Unwind(e) \/ Admit(e) \/ Reserve(e)
              \/ LockReturn(e) \/ Extend(e) \/ StorePending(e)
Next == Backend \/ \E e \in Encoders : Recycle(e)

Spec == Init /\ [][Next]_vars

(***************************************************************************)
(* Properties.                                                             *)
(***************************************************************************)
\* What the counter says is what the pool retains: its own buffers, the
\* returned ones and those about to be, besides the credits it still owes.
\* So retained_bytes() does not wrap, and room that was taken comes back.
Admitted == {e \in Encoders : at[e] \in {"lock", "extend"}}
Exact ==
  reserved = Total(available) + Total(returned) + released
             + SumFunctionOnSet([e \in Encoders |-> Total(carried[e])], Admitted)

\* "Bounded payload reuse": however many threads give buffers back at once,
\* the pool retains no more than its limit.
WithinLimit == reserved <= Limit

Retained == Exact /\ WithinLimit

\* A buffer on the returned list is announced whenever the list is at rest:
\* the next take that needs one looks there, and none stays for ever.
NothingForgotten == lock = Free /\ returned # << >> => pending
=============================================================================
