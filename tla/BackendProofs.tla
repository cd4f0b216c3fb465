--------------------------- MODULE BackendProofs ----------------------------
(***************************************************************************)
(* Owners, the records that wait for a block, and claims, in every state   *)
(* of Backend.                                                             *)
(***************************************************************************)
EXTENDS Backend, DataLemmas

(***************************************************************************)
(* The shape of a backend.                                                 *)
(***************************************************************************)
IsBackend(b) ==
  b = [strings |-> b.strings, types |-> b.types, nodes |-> b.nodes, periodName |-> b.periodName,
       clockName |-> b.clockName, written |-> b.written, slots |-> b.slots,
       overflow |-> b.overflow, stages |-> b.stages, records |-> b.records,
       transactions |-> b.transactions, relations |-> b.relations, nextBlock |-> b.nextBlock,
       maxCreated |-> b.maxCreated, maxReference |-> b.maxReference, captured |-> b.captured,
       clocks |-> b.clocks, blackout |-> b.blackout, lastBlackout |-> b.lastBlackout,
       dump |-> b.dump, claims |-> b.claims, file |-> b.file, lost |-> b.lost]

IsValue(v) ==
  v = [id |-> v.id, generator |-> v.generator, begin |-> v.begin, end |-> v.end,
       status |-> v.status, span |-> v.span, parent |-> v.parent, keys |-> v.keys,
       period |-> v.period, events |-> v.events, stages |-> v.stages, blocks |-> v.blocks]

IsOwner(o) ==
  /\ o = [value |-> o.value, open |-> o.open, ready |-> o.ready]
  /\ IsValue(o.value)
  /\ o.value.id \in Nat /\ o.open \in Seq(Nat)

IsStage(s) ==
  /\ s = [value |-> s.value, ready |-> s.ready]
  /\ s.value = [id |-> s.value.id, generator |-> s.value.generator, datatype |-> s.value.datatype,
                begin |-> s.value.begin, end |-> s.value.end, parent |-> s.value.parent]
  /\ s.value.id \in Nat \ {0} /\ s.value.parent \in Nat \ {0}

\* The table of active owners: an owner is in its slot or in the map, once.
Table(b) ==
  /\ b.slots = [i \in 0 .. Slots - 1 |-> b.slots[i]]
  /\ \A i \in 0 .. Slots - 1 :
       /\ IsOwner(b.slots[i])
       /\ b.slots[i] = Vacant \/ (b.slots[i].value.id # 0 /\ b.slots[i].value.id % Slots = i)
  /\ \A o \in b.overflow : IsOwner(o) /\ o.value.id # 0 /\ ~InSlot(b, o.value.id)
  /\ \A o, p \in b.overflow : o.value.id = p.value.id => o = p

LEMMA SlotOf == ASSUME NEW id \in Nat PROVE id % Slots \in 0 .. Slots - 1
<1>1. Slots \in Nat \ {0}
  BY BackendAssumption
<1> QED
  BY <1>1

LEMMA OwnerIn ==
  ASSUME NEW b, NEW o
  PROVE  o \in Owners(b) <=> \/ o \in b.overflow
                            \/ \E i \in 0 .. Slots - 1 : o = b.slots[i] /\ o # Vacant
BY DEF Owners

\* What the table holds.
LEMMA OwnersHeld ==
  ASSUME NEW b, Table(b)
  PROVE  /\ \A o \in Owners(b) : IsOwner(o) /\ o.value.id # 0
         /\ \A o, p \in Owners(b) : o.value.id = p.value.id => o = p
         /\ \A id \in Nat \ {0} :
              /\ Active(b, id) <=> \E o \in Owners(b) : o.value.id = id
              /\ Active(b, id) => Owner(b, id) \in Owners(b) /\ Owner(b, id).value.id = id
         /\ \A o \in Owners(b) : Owner(b, o.value.id) = o /\ Active(b, o.value.id)
<1>1. Vacant.value.id = 0
  BY DEF Vacant, NoTransaction
<1>2. \A o \in Owners(b) :
        \/ o \in b.overflow
        \/ \E i \in 0 .. Slots - 1 : o = b.slots[i] /\ o # Vacant
  BY DEF Owners
<1>3. ASSUME NEW o \in Owners(b)
      PROVE  /\ IsOwner(o) /\ o.value.id \in Nat \ {0}
             /\ o \in b.overflow \/ (InSlot(b, o.value.id) /\ o = b.slots[o.value.id % Slots])
  <2>1. CASE o \in b.overflow
    BY <2>1 DEF Table, IsOwner
  <2>2. CASE \E i \in 0 .. Slots - 1 : o = b.slots[i] /\ o # Vacant
    <3>1. PICK i \in 0 .. Slots - 1 : o = b.slots[i] /\ o # Vacant
      BY <2>2
    <3>2. IsOwner(o) /\ o.value.id # 0 /\ o.value.id % Slots = i
      BY <3>1 DEF Table
    <3> QED
      BY <3>1, <3>2 DEF IsOwner, InSlot
  <2> QED
    BY <1>2, <2>1, <2>2
<1>4. ASSUME NEW id \in Nat \ {0}, InSlot(b, id)
      PROVE  b.slots[id % Slots] \in Owners(b) /\ b.slots[id % Slots].value.id = id
  <2>1. id % Slots \in 0 .. Slots - 1
    BY SlotOf
  <2>2. b.slots[id % Slots].value.id = id /\ b.slots[id % Slots] # Vacant
    BY <1>1, <1>4 DEF InSlot
  <2> QED
    BY <2>1, <2>2 DEF Owners
<1>5. ASSUME NEW o \in Owners(b), NEW p \in Owners(b), o.value.id = p.value.id PROVE o = p
  BY <1>3, <1>5 DEF Table
<1>6. ASSUME NEW id \in Nat \ {0}, ~InSlot(b, id), \E o \in b.overflow : o.value.id = id
      PROVE  Owner(b, id) \in b.overflow /\ Owner(b, id).value.id = id
  BY <1>6 DEF Owner
<1>7. b.overflow \subseteq Owners(b)
  BY DEF Owners
<1>8. ASSUME NEW id \in Nat \ {0}
      PROVE  /\ Active(b, id) <=> \E o \in Owners(b) : o.value.id = id
             /\ Active(b, id) => Owner(b, id) \in Owners(b) /\ Owner(b, id).value.id = id
  <2>1. CASE InSlot(b, id)
    BY <1>4, <2>1 DEF Active, Owner
  <2>2. CASE ~InSlot(b, id)
    BY <1>3, <1>6, <1>7, <2>2 DEF Active
  <2> QED
    BY <2>1, <2>2
<1> QED
  BY <1>3, <1>5, <1>8

\* What the operations of the table make of what it holds.
LEMMA Changed ==
  ASSUME NEW b, IsBackend(b), Table(b), NEW owner, IsOwner(owner), owner.value.id # 0,
         Active(b, owner.value.id)
  PROVE  /\ IsBackend(SetOwner(b, owner)) /\ Table(SetOwner(b, owner))
         /\ Owners(SetOwner(b, owner))
              = {IF o.value.id = owner.value.id THEN owner ELSE o : o \in Owners(b)}
<1> DEFINE id == owner.value.id
           c == SetOwner(b, owner)
<1>0. id \in Nat \ {0} /\ id % Slots \in 0 .. Slots - 1 /\ Vacant.value.id = 0
  BY SlotOf DEF IsOwner, IsValue, Vacant, NoTransaction
<1>1. CASE InSlot(b, id)
  <2>1. c = [b EXCEPT !.slots[id % Slots] = owner]
    BY <1>1 DEF SetOwner
  <2>2. /\ IsBackend(c) /\ c.overflow = b.overflow
        /\ c.slots = [b.slots EXCEPT ![id % Slots] = owner]
    <3> HIDE DEF c, id
    <3> QED
      BY <2>1 DEF IsBackend
  <2>3. c.slots = [i \in 0 .. Slots - 1 |-> IF i = id % Slots THEN owner ELSE b.slots[i]]
    <3> HIDE DEF c, id
    <3> QED
      BY <2>2 DEF Table
  <2>4. \A k \in Nat : InSlot(c, k) <=> InSlot(b, k)
    <3> TAKE k \in Nat
    <3>1. k % Slots \in 0 .. Slots - 1
      BY SlotOf
    <3> HIDE DEF c
    <3> QED
      BY <1>1, <2>3, <3>1 DEF InSlot
  <2>5. Table(c)
    <3>1. \A o \in b.overflow : o.value.id \in Nat
      BY DEF Table, IsOwner
    <3> HIDE DEF c
    <3> QED
      <4>1. c.slots = [i \in 0 .. Slots - 1 |-> c.slots[i]]
        BY <2>3
      <4>2. ASSUME NEW i \in 0 .. Slots - 1
            PROVE  /\ IsOwner(c.slots[i])
                   /\ c.slots[i] = Vacant \/ (c.slots[i].value.id # 0 /\ c.slots[i].value.id % Slots = i)
        <5>1. CASE i = id % Slots
          BY <1>0, <2>3, <5>1
        <5>2. CASE i # id % Slots
          BY <2>3, <5>2 DEF Table
        <5> QED
          BY <5>1, <5>2, ZenonT(60)
      <4>3. \A o \in c.overflow : IsOwner(o) /\ o.value.id # 0 /\ ~InSlot(c, o.value.id)
        BY <2>2, <2>4, <3>1 DEF Table
      <4>4. \A o, p \in c.overflow : o.value.id = p.value.id => o = p
        BY <2>2 DEF Table
      <4> QED
        BY <4>1, <4>2, <4>3, <4>4 DEF Table
  <2>6. \A i \in 0 .. Slots - 1 : b.slots[i] # Vacant /\ b.slots[i].value.id = id => i = id % Slots
    BY DEF Table
  <2>7. \A o \in b.overflow : o.value.id # id
    BY <1>1 DEF Table
  <2>8. b.slots[id % Slots].value.id = id /\ b.slots[id % Slots] # Vacant /\ owner # Vacant
    BY <1>0, <1>1 DEF InSlot
  <2>9. Owners(c) = {IF o.value.id = owner.value.id THEN owner ELSE o : o \in Owners(b)}
    <3> HIDE DEF c
    <3> QED
      <4>1. ASSUME NEW o \in Owners(c)
            PROVE  \E p \in Owners(b) : o = IF p.value.id = id THEN owner ELSE p
        <5>1. o = owner \/ o \in b.overflow \/ \E i \in 0 .. Slots - 1 :
                 i # id % Slots /\ o = b.slots[i] /\ o # Vacant
          <6>1. o \in c.overflow \/ \E i \in 0 .. Slots - 1 : o = c.slots[i] /\ o # Vacant
            BY <4>1, OwnerIn, Zenon
          <6>2. \A i \in 0 .. Slots - 1 :
                  c.slots[i] = IF i = id % Slots THEN owner ELSE b.slots[i]
            BY <2>3
          <6> QED
            BY <2>2, <6>1, <6>2
        <5>2. b.slots[id % Slots] \in Owners(b)
          BY <1>0, <2>8, OwnerIn
        <5>3. CASE o = owner
          BY <2>8, <5>2, <5>3
        <5>4. CASE o \in b.overflow
          BY <2>7, <5>4, OwnerIn
        <5>5. CASE \E i \in 0 .. Slots - 1 : i # id % Slots /\ o = b.slots[i] /\ o # Vacant
          BY <2>6, <5>5, OwnerIn
        <5> QED
          BY <5>1, <5>3, <5>4, <5>5
      <4>2. ASSUME NEW p \in Owners(b)
            PROVE  (IF p.value.id = id THEN owner ELSE p) \in Owners(c)
        <5>1. owner \in Owners(c)
          BY <1>0, <2>3, <2>8, OwnerIn
        <5>2. CASE p.value.id # id
          <6>1. p \in b.overflow \/ \E i \in 0 .. Slots - 1 : p = b.slots[i] /\ p # Vacant
            BY OwnerIn
          <6>2. \A i \in 0 .. Slots - 1 : p = b.slots[i] => i # id % Slots
            BY <2>8, <5>2
          <6>3. p \in Owners(c)
            BY <2>2, <2>3, <6>1, <6>2, OwnerIn
          <6> QED
            BY <5>2, <6>3
        <5> QED
          BY <5>1, <5>2
      <4> HIDE DEF id
      <4>3. Owners(c) = {IF o.value.id = id THEN owner ELSE o : o \in Owners(b)}
        BY <4>1, <4>2
      <4> QED
        BY <4>3 DEF id
  <2> QED
    BY <2>2, <2>5, <2>9
<1>2. CASE ~InSlot(b, id)
  <2>1. c = [b EXCEPT !.overflow = {IF o.value.id = id THEN owner ELSE o : o \in @}]
    BY <1>2 DEF SetOwner
  <2>2. /\ IsBackend(c) /\ c.slots = b.slots
        /\ c.overflow = {IF o.value.id = id THEN owner ELSE o : o \in b.overflow}
    <3> HIDE DEF c, id
    <3> QED
      BY <2>1 DEF IsBackend
  <2>3. Table(c)
    <3> HIDE DEF c
    <3>1. \A k : InSlot(c, k) <=> InSlot(b, k)
      BY <2>2 DEF InSlot
    <3>2. \A o \in c.overflow : o = owner \/ o \in b.overflow
      BY <2>2
    <3>3. ASSUME NEW o \in c.overflow PROVE IsOwner(o) /\ o.value.id # 0 /\ ~InSlot(c, o.value.id)
      <4>1. CASE o = owner
        BY <1>0, <1>2, <3>1, <4>1
      <4>2. CASE o \in b.overflow
        BY <3>1, <4>2 DEF Table
      <4> QED
        BY <3>2, <4>1, <4>2
    <3>4. ASSUME NEW o \in c.overflow, NEW q \in c.overflow, o.value.id = q.value.id PROVE o = q
      <4>1. \A x \in c.overflow : x = owner \/ (x \in b.overflow /\ x.value.id # id)
        BY <2>2
      <4>2. \A x, y \in b.overflow : x.value.id = y.value.id => x = y
        BY DEF Table
      <4> QED
        BY <3>4, <4>1, <4>2
    <3> QED
      BY <2>2, <3>3, <3>4 DEF Table
  <2>4. \A i \in 0 .. Slots - 1 : b.slots[i] # Vacant => b.slots[i].value.id # id
    <3> TAKE i \in 0 .. Slots - 1
    <3>1. b.slots[i] = Vacant \/ b.slots[i].value.id % Slots = i
      BY DEF Table
    <3> QED
      BY <1>2, <3>1 DEF InSlot
  <2>5. Owners(c) = {IF o.value.id = owner.value.id THEN owner ELSE o : o \in Owners(b)}
    <3> HIDE DEF c
    <3> QED
      BY <2>2, <2>4 DEF Owners
  <2> QED
    BY <2>2, <2>3, <2>5
<1> QED
  BY <1>1, <1>2

LEMMA Begun ==
  ASSUME NEW b, IsBackend(b), Table(b), NEW owner, IsOwner(owner), owner.value.id # 0,
         ~Active(b, owner.value.id)
  PROVE  /\ IsBackend(BeginOwner(b, owner)) /\ Table(BeginOwner(b, owner))
         /\ Owners(BeginOwner(b, owner)) = Owners(b) \cup {owner}
<1> DEFINE id == owner.value.id
           c == BeginOwner(b, owner)
<1>0. id \in Nat \ {0} /\ id % Slots \in 0 .. Slots - 1 /\ Vacant.value.id = 0
  BY SlotOf DEF IsOwner, IsValue, Vacant, NoTransaction
<1>1. /\ IsBackend(c) /\ c.overflow = b.overflow \cup ({b.slots[id % Slots]} \ {Vacant})
      /\ c.slots = [b.slots EXCEPT ![id % Slots] = owner]
  <2>1. c = [b EXCEPT !.slots[id % Slots] = owner,
                      !.overflow = @ \cup ({b.slots[id % Slots]} \ {Vacant})]
    BY DEF BeginOwner
  <2> HIDE DEF c, id
  <2> QED
    BY <2>1 DEF IsBackend
<1>2. c.slots = [i \in 0 .. Slots - 1 |-> IF i = id % Slots THEN owner ELSE b.slots[i]]
  <2> HIDE DEF c, id
  <2> QED
    BY <1>1 DEF Table
<1>3. \A o \in Owners(b) : o.value.id # id
  BY <1>0, OwnersHeld
<1>4. \A o \in c.overflow : o \in Owners(b) /\ IsOwner(o) /\ o.value.id \in Nat \ {0}
  <2>1. c.overflow \subseteq Owners(b)
    <3> HIDE DEF c
    <3> QED
      BY <1>0, <1>1 DEF Owners
  <2> QED
    BY <2>1, OwnersHeld DEF IsOwner
<1>5. \A o \in c.overflow : ~InSlot(c, o.value.id)
  <2> TAKE o \in c.overflow
  <2>1. o.value.id % Slots \in 0 .. Slots - 1 /\ o.value.id # id /\ o.value.id # 0
    BY <1>3, <1>4, SlotOf
  <2>2. CASE o.value.id % Slots = id % Slots
    <3> HIDE DEF c
    <3> QED
      BY <1>2, <2>1, <2>2 DEF InSlot
  <2>3. CASE o.value.id % Slots # id % Slots
    <3>1. InSlot(c, o.value.id) => InSlot(b, o.value.id)
      <4> HIDE DEF c, id
      <4> QED
        BY <1>2, <2>1, <2>3 DEF InSlot
    <3>2. o \in b.overflow
      <4>1. o = b.slots[id % Slots] /\ o # Vacant => o.value.id % Slots = id % Slots
        BY <1>0 DEF Table
      <4> HIDE DEF c, id
      <4> QED
        BY <1>1, <2>3, <4>1
    <3> QED
      BY <3>1, <3>2 DEF Table
  <2> QED
    BY <2>2, <2>3
<1>6. Table(c)
  <2>1. \A o, p \in c.overflow : o.value.id = p.value.id => o = p
    BY <1>4, OwnersHeld
  <2> HIDE DEF c
  <2> QED
    BY <1>0, <1>2, <1>4, <1>5, <2>1 DEF Table
<1>7. Owners(c) = Owners(b) \cup {owner}
  <2>1. owner # Vacant
    BY <1>0
  <2> HIDE DEF c, id
  <2> QED
    <3>1. ASSUME NEW o \in Owners(c) PROVE o \in Owners(b) \/ o = owner
      <4>1. o \in b.overflow \/ (o = b.slots[id % Slots] /\ o # Vacant)
            \/ \E i \in 0 .. Slots - 1 : o # Vacant /\ (o = owner \/ o = b.slots[i])
        <5>1. o \in c.overflow \/ \E i \in 0 .. Slots - 1 : o = c.slots[i] /\ o # Vacant
          BY <3>1, OwnerIn, Zenon
        <5>2. \A i \in 0 .. Slots - 1 :
                c.slots[i] = IF i = id % Slots THEN owner ELSE b.slots[i]
          BY <1>2
        <5> QED
          BY <1>1, <5>1, <5>2
      <4> QED
        BY <1>0, <4>1, OwnerIn
    <3>2. owner \in Owners(c)
      BY <1>0, <1>2, <2>1, OwnerIn
    <3>3. ASSUME NEW o \in Owners(b) PROVE o \in Owners(c)
      <4>1. CASE o \in b.overflow
        BY <1>1, <4>1, OwnerIn
      <4>2. CASE o = b.slots[id % Slots] /\ o # Vacant
        BY <1>1, <4>2, OwnerIn
      <4>3. CASE \E i \in 0 .. Slots - 1 : i # id % Slots /\ o = b.slots[i] /\ o # Vacant
        BY <1>2, <4>3, OwnerIn
      <4> QED
        BY <4>1, <4>2, <4>3, OwnerIn
    <3> QED
      BY <3>1, <3>2, <3>3
<1> QED
  BY <1>1, <1>6, <1>7

LEMMA Removed ==
  ASSUME NEW b, IsBackend(b), Table(b), NEW id \in Nat \ {0}
  PROVE  /\ IsBackend(RemoveOwner(b, id)) /\ Table(RemoveOwner(b, id))
         /\ Owners(RemoveOwner(b, id)) = {o \in Owners(b) : o.value.id # id}
<1> DEFINE c == RemoveOwner(b, id)
<1>0. id % Slots \in 0 .. Slots - 1 /\ Vacant.value.id = 0 /\ IsOwner(Vacant)
  <2>1. << >> \in Seq(Nat)
    OBVIOUS
  <2> QED
    BY <2>1, SlotOf DEF IsOwner, IsValue, Vacant, NoTransaction
<1>1. CASE InSlot(b, id)
  <2>1. c = [b EXCEPT !.slots[id % Slots] = Vacant]
    BY <1>1 DEF RemoveOwner
  <2>2. /\ IsBackend(c) /\ c.overflow = b.overflow
        /\ c.slots = [b.slots EXCEPT ![id % Slots] = Vacant]
    <3> HIDE DEF c
    <3> QED
      BY <2>1 DEF IsBackend
  <2>3. c.slots = [i \in 0 .. Slots - 1 |-> IF i = id % Slots THEN Vacant ELSE b.slots[i]]
    <3> HIDE DEF c
    <3> QED
      BY <2>2 DEF Table
  <2>4. \A k \in Nat \ {0} : InSlot(c, k) => InSlot(b, k)
    <3> TAKE k \in Nat \ {0}
    <3>1. k % Slots \in 0 .. Slots - 1
      BY SlotOf
    <3> HIDE DEF c
    <3> QED
      BY <1>0, <2>3, <3>1 DEF InSlot
  <2>5. Table(c)
    <3>1. \A o \in b.overflow : o.value.id \in Nat \ {0}
      BY DEF Table, IsOwner
    <3> HIDE DEF c
    <3>2. c.slots = [i \in 0 .. Slots - 1 |-> c.slots[i]]
      BY <2>3
    <3>3. ASSUME NEW i \in 0 .. Slots - 1
          PROVE  /\ IsOwner(c.slots[i])
                 /\ c.slots[i] = Vacant \/ (c.slots[i].value.id # 0 /\ c.slots[i].value.id % Slots = i)
      <4>1. c.slots[i] = Vacant \/ c.slots[i] = b.slots[i]
        BY <2>3
      <4>2. /\ IsOwner(b.slots[i])
            /\ b.slots[i] = Vacant \/ (b.slots[i].value.id # 0 /\ b.slots[i].value.id % Slots = i)
        BY DEF Table
      <4> QED
        BY <1>0, <4>1, <4>2, Zenon
    <3>4. \A o \in c.overflow : IsOwner(o) /\ o.value.id # 0 /\ ~InSlot(c, o.value.id)
      BY <2>2, <2>4, <3>1 DEF Table
    <3>5. \A o, q \in c.overflow : o.value.id = q.value.id => o = q
      BY <2>2 DEF Table
    <3> QED
      BY <3>2, <3>3, <3>4, <3>5 DEF Table
  <2>6. \A i \in 0 .. Slots - 1 : b.slots[i] # Vacant /\ b.slots[i].value.id = id => i = id % Slots
    BY DEF Table
  <2>7. \A o \in b.overflow : o.value.id # id
    BY <1>1 DEF Table
  <2>8. b.slots[id % Slots].value.id = id
    BY <1>1 DEF InSlot
  <2>9. Owners(c) = {o \in Owners(b) : o.value.id # id}
    <3> HIDE DEF c
    <3> QED
      <4>1. ASSUME NEW o \in Owners(c) PROVE o \in Owners(b) /\ o.value.id # id
        <5>1. o \in b.overflow \/ \E i \in 0 .. Slots - 1 :
                 i # id % Slots /\ o = b.slots[i] /\ o # Vacant
          <6>1. o \in c.overflow \/ \E i \in 0 .. Slots - 1 : o = c.slots[i] /\ o # Vacant
            BY <4>1, OwnerIn, Zenon
          <6>2. \A i \in 0 .. Slots - 1 :
                  c.slots[i] = IF i = id % Slots THEN Vacant ELSE b.slots[i]
            BY <2>3
          <6> QED
            BY <2>2, <6>1, <6>2
        <5> QED
          BY <2>6, <2>7, <5>1, OwnerIn
      <4>2. ASSUME NEW o \in Owners(b), o.value.id # id PROVE o \in Owners(c)
        <5>1. o \in b.overflow \/ \E i \in 0 .. Slots - 1 : o = b.slots[i] /\ o # Vacant
          BY OwnerIn
        <5>2. \A i \in 0 .. Slots - 1 : o = b.slots[i] => i # id % Slots
          BY <2>8, <4>2
        <5> QED
          BY <2>2, <2>3, <5>1, <5>2, OwnerIn
      <4> QED
        BY <4>1, <4>2
  <2> QED
    BY <2>2, <2>5, <2>9
<1>2. CASE ~InSlot(b, id)
  <2>1. c = [b EXCEPT !.overflow = {o \in @ : o.value.id # id}]
    BY <1>2 DEF RemoveOwner
  <2>2. /\ IsBackend(c) /\ c.slots = b.slots
        /\ c.overflow = {o \in b.overflow : o.value.id # id}
    <3> HIDE DEF c
    <3> QED
      BY <2>1 DEF IsBackend
  <2>3. Table(c)
    <3> HIDE DEF c
    <3> QED
      BY <2>2 DEF Table, InSlot
  <2>4. \A i \in 0 .. Slots - 1 : b.slots[i] # Vacant => b.slots[i].value.id # id
    <3> TAKE i \in 0 .. Slots - 1
    <3>1. b.slots[i] = Vacant \/ b.slots[i].value.id % Slots = i
      BY DEF Table
    <3> QED
      BY <1>2, <3>1 DEF InSlot
  <2>5. Owners(c) = {o \in Owners(b) : o.value.id # id}
    <3> HIDE DEF c
    <3> QED
      BY <2>2, <2>4 DEF Owners
  <2> QED
    BY <2>2, <2>3, <2>5
<1> QED
  BY <1>1, <1>2

\* The identifiers of the owners, and the stages an owner has open.
Held(b) == {o.value.id : o \in Owners(b)}
Open(b, id) == Owner(b, id).open

\* All but the table is as it was.
SameBut(b, c) == c = [b EXCEPT !.slots = c.slots, !.overflow = c.overflow]

LEMMA HeldAre ==
  ASSUME NEW b, Table(b)
  PROVE  /\ \A id \in Held(b) : /\ id \in Nat \ {0} /\ Active(b, id)
                                /\ Owner(b, id) \in Owners(b) /\ IsOwner(Owner(b, id))
                                /\ Owner(b, id).value.id = id /\ Open(b, id) \in Seq(Nat)
         /\ \A id \in Nat \ {0} : Active(b, id) => id \in Held(b)
         /\ \A o \in Owners(b) : o.value.id \in Held(b) /\ Owner(b, o.value.id) = o
<1>1. ASSUME NEW id \in Held(b)
      PROVE  /\ id \in Nat \ {0} /\ Active(b, id)
             /\ Owner(b, id) \in Owners(b) /\ IsOwner(Owner(b, id))
             /\ Owner(b, id).value.id = id /\ Open(b, id) \in Seq(Nat)
  <2>1. PICK o \in Owners(b) : id = o.value.id
    BY DEF Held
  <2>2. IsOwner(o) /\ o.value.id # 0 /\ Owner(b, id) = o /\ Active(b, id)
    BY <2>1, OwnersHeld
  <2> QED
    BY <2>1, <2>2 DEF IsOwner, Open
<1>2. ASSUME NEW id \in Nat \ {0}, Active(b, id) PROVE id \in Held(b)
  BY <1>2, OwnersHeld DEF Held
<1>3. ASSUME NEW o \in Owners(b) PROVE o.value.id \in Held(b) /\ Owner(b, o.value.id) = o
  BY OwnersHeld DEF Held
<1> QED
  BY <1>1, <1>2, <1>3

LEMMA OwnerSet ==
  ASSUME NEW b, IsBackend(b), Table(b), NEW owner, IsOwner(owner), owner.value.id \in Held(b)
  PROVE  LET c == SetOwner(b, owner) IN
         /\ IsBackend(c) /\ Table(c) /\ SameBut(b, c) /\ Held(c) = Held(b)
         /\ Owner(c, owner.value.id) = owner
         /\ \A id \in Held(b) : id # owner.value.id => Owner(c, id) = Owner(b, id)
<1> DEFINE c == SetOwner(b, owner)
           k == owner.value.id
<1>1. k \in Nat \ {0} /\ Active(b, k)
  BY HeldAre
<1>2. /\ IsBackend(c) /\ Table(c)
      /\ Owners(c) = {IF o.value.id = k THEN owner ELSE o : o \in Owners(b)}
  BY <1>1, Changed
<1>3. SameBut(b, c)
  <2>1. c = [b EXCEPT !.slots[k % Slots] = owner]
        \/ c = [b EXCEPT !.overflow = {IF o.value.id = k THEN owner ELSE o : o \in @}]
    BY DEF SetOwner
  <2> HIDE DEF c, k
  <2> QED
    BY <2>1 DEF SameBut, IsBackend
<1> HIDE DEF c
<1>4. \A o \in Owners(b) : o.value.id # k => o \in Owners(c)
  BY <1>2
<1>5. owner \in Owners(c)
  BY <1>2 DEF Held
<1>6. \A o \in Owners(c) : o = owner \/ (o \in Owners(b) /\ o.value.id # k)
  BY <1>2
<1>7. Held(c) = Held(b)
  <2>1. \A id \in Held(b) : id \in Held(c)
    BY <1>4, <1>5 DEF Held
  <2>2. \A id \in Held(c) : id \in Held(b)
    BY <1>6 DEF Held
  <2> QED
    BY <2>1, <2>2
<1>8. Owner(c, k) = owner
  BY <1>2, <1>5, HeldAre
<1>9. ASSUME NEW id \in Held(b), id # k PROVE Owner(c, id) = Owner(b, id)
  <2>1. Owner(b, id) \in Owners(b) /\ Owner(b, id).value.id = id
    BY HeldAre
  <2>2. Owner(b, id) \in Owners(c)
    BY <1>4, <1>9, <2>1
  <2> QED
    BY <1>2, <2>1, <2>2, HeldAre
<1> QED
  BY <1>2, <1>3, <1>7, <1>8, <1>9 DEF c

LEMMA OwnerBegun ==
  ASSUME NEW b, IsBackend(b), Table(b), NEW owner, IsOwner(owner), owner.value.id # 0,
         owner.value.id \notin Held(b)
  PROVE  LET c == BeginOwner(b, owner) IN
         /\ IsBackend(c) /\ Table(c) /\ SameBut(b, c)
         /\ Held(c) = Held(b) \cup {owner.value.id}
         /\ Owner(c, owner.value.id) = owner
         /\ \A id \in Held(b) : Owner(c, id) = Owner(b, id)
<1> DEFINE c == BeginOwner(b, owner)
           k == owner.value.id
<1>1. k \in Nat \ {0} /\ ~Active(b, k)
  BY HeldAre DEF IsOwner
<1>2. IsBackend(c) /\ Table(c) /\ Owners(c) = Owners(b) \cup {owner}
  BY <1>1, Begun
<1>3. SameBut(b, c)
  <2>1. c = [b EXCEPT !.slots[k % Slots] = owner,
                      !.overflow = @ \cup ({b.slots[k % Slots]} \ {Vacant})]
    BY DEF BeginOwner
  <2> HIDE DEF c, k
  <2> QED
    BY <2>1 DEF SameBut, IsBackend
<1> HIDE DEF c
<1>4. Held(c) = Held(b) \cup {k}
  BY <1>2 DEF Held
<1>5. Owner(c, k) = owner
  BY <1>2, HeldAre
<1>6. ASSUME NEW id \in Held(b) PROVE Owner(c, id) = Owner(b, id)
  <2>1. Owner(b, id) \in Owners(b) /\ Owner(b, id).value.id = id
    BY HeldAre
  <2>2. Owner(b, id) \in Owners(c)
    BY <1>2, <2>1
  <2> QED
    BY <1>2, <2>1, <2>2, HeldAre
<1> QED
  BY <1>2, <1>3, <1>4, <1>5, <1>6 DEF c

LEMMA OwnerRemoved ==
  ASSUME NEW b, IsBackend(b), Table(b), NEW k \in Nat \ {0}
  PROVE  LET c == RemoveOwner(b, k) IN
         /\ IsBackend(c) /\ Table(c) /\ SameBut(b, c) /\ Held(c) = Held(b) \ {k}
         /\ \A id \in Held(c) : Owner(c, id) = Owner(b, id)
<1> DEFINE c == RemoveOwner(b, k)
<1>1. IsBackend(c) /\ Table(c) /\ Owners(c) = {o \in Owners(b) : o.value.id # k}
  BY Removed
<1>2. SameBut(b, c)
  <2>1. c = [b EXCEPT !.slots[k % Slots] = Vacant]
        \/ c = [b EXCEPT !.overflow = {o \in @ : o.value.id # k}]
    BY DEF RemoveOwner
  <2> HIDE DEF c
  <2> QED
    BY <2>1 DEF SameBut, IsBackend
<1> HIDE DEF c
<1>3. Held(c) = Held(b) \ {k}
  BY <1>1 DEF Held
<1>4. ASSUME NEW id \in Held(c) PROVE Owner(c, id) = Owner(b, id)
  <2>1. Owner(c, id) \in Owners(c) /\ Owner(c, id).value.id = id
    BY <1>1, HeldAre
  <2>2. Owner(c, id) \in Owners(b)
    BY <1>1, <2>1
  <2> QED
    BY <2>1, <2>2, HeldAre
<1> QED
  BY <1>1, <1>2, <1>3, <1>4 DEF c

\* Telling owners changes neither who they are nor what they have open.
LEMMA OwnersTold ==
  ASSUME NEW b, IsBackend(b), Table(b), NEW ids, 0 \notin ids, NEW number
  PROVE  LET c == Tell(b, ids, number) IN
         /\ IsBackend(c) /\ Table(c) /\ SameBut(b, c) /\ Held(c) = Held(b)
         /\ \A id \in Held(b) : Open(c, id) = Open(b, id)
<1> DEFINE c == Tell(b, ids, number)
           told(o) == IF o.value.id \in ids
                      THEN [o EXCEPT !.value.blocks = Append(@, number)] ELSE o
<1>1. c = [b EXCEPT !.slots = [i \in DOMAIN @ |-> told(@[i])], !.overflow = {told(o) : o \in @}]
  BY DEF Tell
<1>2. /\ IsBackend(c) /\ SameBut(b, c)
      /\ c.slots = [i \in DOMAIN b.slots |-> told(b.slots[i])]
      /\ c.overflow = {told(o) : o \in b.overflow}
  <2> DEFINE slots == [i \in DOMAIN b.slots |-> told(b.slots[i])]
             overflow == {told(o) : o \in b.overflow}
  <2>1. c = [b EXCEPT !.slots = slots, !.overflow = overflow]
    BY <1>1
  <2> HIDE DEF c, slots, overflow
  <2>2. IsBackend(c) /\ SameBut(b, c) /\ c.slots = slots /\ c.overflow = overflow
    BY <2>1 DEF IsBackend, SameBut
  <2> QED
    BY <2>2 DEF slots, overflow
<1> HIDE DEF c
<1>3. ASSUME NEW o, IsOwner(o)
      PROVE  /\ IsOwner(told(o)) /\ told(o).value.id = o.value.id /\ told(o).open = o.open
             /\ o.value.id = 0 => told(o) = o
  <2>1. CASE o.value.id \in ids
    <3>1. told(o) = [o EXCEPT !.value = [o.value EXCEPT !.blocks = Append(o.value.blocks, number)]]
      BY <1>3, <2>1 DEF IsOwner
    <3> DEFINE value == [o.value EXCEPT !.blocks = Append(o.value.blocks, number)]
    <3>2. IsValue(value) /\ value.id = o.value.id
      <4>1. PICK v : v = o.value
        OBVIOUS
      <4>2. PICK w : w = [v EXCEPT !.blocks = Append(o.value.blocks, number)]
        OBVIOUS
      <4>3. IsValue(v)
        BY <1>3, <4>1 DEF IsOwner
      <4>4. IsValue(w) /\ w.id = v.id
        BY <4>2, <4>3 DEF IsValue
      <4> QED
        BY <4>1, <4>2, <4>4
    <3> HIDE DEF value
    <3>3. told(o) = [value |-> value, open |-> o.open, ready |-> o.ready]
      BY <1>3, <3>1 DEF IsOwner, value
    <3>4. told(o).value = value /\ told(o).open = o.open /\ told(o).ready = o.ready
      <4> HIDE DEF told
      <4> QED
        BY <3>3
    <3> HIDE DEF told
    <3> QED
      BY <1>3, <2>1, <3>2, <3>3, <3>4 DEF IsOwner
  <2>2. CASE o.value.id \notin ids
    BY <1>3, <2>2
  <2> QED
    BY <2>1, <2>2
<1>4. \A i \in 0 .. Slots - 1 : c.slots[i] = told(b.slots[i])
  <2> HIDE DEF told
  <2> QED
    BY <1>2 DEF Table
<1>5. c.slots = [i \in 0 .. Slots - 1 |-> c.slots[i]]
  <2> HIDE DEF told
  <2> QED
    BY <1>2, <1>4 DEF Table
<1> HIDE DEF told
<1>6. Vacant.value.id = 0
  BY DEF Vacant, NoTransaction
<1>7. ASSUME NEW i \in 0 .. Slots - 1
      PROVE  /\ IsOwner(b.slots[i]) /\ IsOwner(c.slots[i])
             /\ c.slots[i].value.id = b.slots[i].value.id /\ c.slots[i].open = b.slots[i].open
             /\ c.slots[i] = Vacant <=> b.slots[i] = Vacant
             /\ c.slots[i] = Vacant \/ (c.slots[i].value.id # 0 /\ c.slots[i].value.id % Slots = i)
  <2>1. IsOwner(b.slots[i])
    BY DEF Table
  <2>2. b.slots[i] = Vacant \/ (b.slots[i].value.id # 0 /\ b.slots[i].value.id % Slots = i)
    BY DEF Table
  <2> QED
    BY <1>3, <1>4, <1>6, <2>1, <2>2
<1>8. \A id \in Nat : InSlot(c, id) <=> InSlot(b, id)
  BY <1>7, SlotOf DEF InSlot
<1>9. \A o \in b.overflow : /\ IsOwner(o) /\ IsOwner(told(o)) /\ told(o).value.id = o.value.id
                            /\ told(o).open = o.open /\ o.value.id \in Nat \ {0}
  BY <1>3 DEF Table, IsOwner
<1>10. Table(c)
  <2>1. ASSUME NEW o \in c.overflow PROVE IsOwner(o) /\ o.value.id # 0 /\ ~InSlot(c, o.value.id)
    <3>1. PICK p \in b.overflow : o = told(p)
      BY <1>2
    <3> QED
      BY <1>8, <1>9, <3>1 DEF Table
  <2>2. ASSUME NEW o \in c.overflow, NEW p \in c.overflow, o.value.id = p.value.id PROVE o = p
    <3>1. PICK q \in b.overflow, r \in b.overflow : o = told(q) /\ p = told(r)
      BY <1>2
    <3>2. q = r
      BY <1>9, <2>2, <3>1 DEF Table
    <3> QED
      BY <3>1, <3>2
  <2> QED
    BY <1>5, <1>7, <2>1, <2>2 DEF Table
<1>11. ASSUME NEW o \in Owners(b)
       PROVE  \E p \in Owners(c) : p.value.id = o.value.id /\ p.open = o.open
  <2>1. CASE o \in b.overflow
    <3>1. told(o) \in Owners(c)
      BY <1>2, <2>1, OwnerIn
    <3> QED
      BY <1>9, <2>1, <3>1
  <2>2. CASE \E i \in 0 .. Slots - 1 : o = b.slots[i] /\ o # Vacant
    <3>1. PICK i \in 0 .. Slots - 1 : o = b.slots[i] /\ o # Vacant
      BY <2>2
    <3>2. c.slots[i] \in Owners(c)
      BY <1>7, <3>1, OwnerIn
    <3> QED
      BY <1>7, <3>1, <3>2
  <2> QED
    BY <2>1, <2>2, OwnerIn
<1>12. ASSUME NEW p \in Owners(c) PROVE \E o \in Owners(b) : p.value.id = o.value.id
  <2>1. CASE p \in c.overflow
    <3>1. PICK o \in b.overflow : p = told(o)
      BY <1>2, <2>1
    <3> QED
      BY <1>9, <3>1, OwnerIn
  <2>2. CASE \E i \in 0 .. Slots - 1 : p = c.slots[i] /\ p # Vacant
    <3>1. PICK i \in 0 .. Slots - 1 : p = c.slots[i] /\ p # Vacant
      BY <2>2
    <3>2. b.slots[i] \in Owners(b)
      BY <1>7, <3>1, OwnerIn
    <3> QED
      BY <1>7, <3>1, <3>2
  <2> QED
    BY <2>1, <2>2, OwnerIn
<1>13. Held(c) = Held(b)
  BY <1>11, <1>12 DEF Held
<1>14. ASSUME NEW id \in Held(b) PROVE Open(c, id) = Open(b, id)
  <2>1. Owner(b, id) \in Owners(b) /\ Owner(b, id).value.id = id
    BY HeldAre
  <2>2. PICK p \in Owners(c) : p.value.id = id /\ p.open = Owner(b, id).open
    BY <1>11, <2>1
  <2>3. Owner(c, id) = p
    BY <1>10, <2>2, HeldAre
  <2> QED
    BY <2>2, <2>3 DEF Open
<1> QED
  BY <1>2, <1>10, <1>13, <1>14 DEF c

(***************************************************************************)
(* A sane backend: the stages of an owner are those it has open, and what  *)
(* waits for a block has an active owner.                                  *)
(***************************************************************************)
Ranged(q) == {q[i] : i \in 1 .. Len(q)}

LEMMA Longer ==
  ASSUME NEW q, q \in Seq(Ranged(q)), NEW x
  PROVE  /\ Append(q, x) \in Seq(Ranged(Append(q, x))) /\ Len(Append(q, x)) = Len(q) + 1
         /\ Append(q, x)[Len(q) + 1] = x /\ \A i \in 1 .. Len(q) : Append(q, x)[i] = q[i]
         /\ Len(q) \in Nat /\ DOMAIN q = 1 .. Len(q)
<1>1. Len(q) \in Nat /\ DOMAIN q = 1 .. Len(q)
  BY LenProperties
<1>2. q \in Seq(Ranged(q) \cup {x}) /\ Append(q, x) \in Seq(Ranged(q) \cup {x})
  <2> DEFINE T == Ranged(q) \cup {x}
  <2>1. \A i \in 1 .. Len(q) : q[i] \in T
    BY DEF Ranged
  <2> HIDE DEF T
  <2> QED
    BY <2>1, <1>1, x \in T DEF T
<1>3. /\ Len(Append(q, x)) = Len(q) + 1 /\ Append(q, x)[Len(q) + 1] = x
      /\ \A i \in 1 .. Len(q) : Append(q, x)[i] = q[i]
  BY <1>1
<1>4. \A i \in 1 .. Len(Append(q, x)) : Append(q, x)[i] \in Ranged(Append(q, x))
  BY DEF Ranged
<1>5. Append(q, x) \in Seq(Ranged(Append(q, x)))
  BY <1>2, <1>4, SeqDef
<1> QED
  BY <1>1, <1>3, <1>5

IsNode(n) ==
  n = [kind |-> n.kind, type |-> n.type, name |-> n.name, parent |-> n.parent, clock |-> n.clock,
       ending |-> n.ending]
NodesOK(b) == b.nodes \in Seq(Ranged(b.nodes)) /\ \A i \in 1 .. Len(b.nodes) : IsNode(b.nodes[i])

StagesOK(b) ==
  /\ \A s \in b.stages : IsStage(s) /\ s.value.generator \in 1 .. Len(b.nodes)
  /\ \A s, t \in b.stages : s.value.id = t.value.id => s = t

\* A stage is in the list of its owner, once, and nothing else is.
Listed(b, id, stage) == \E i \in 1 .. Len(Open(b, id)) : Open(b, id)[i] = stage
Linked(b) ==
  /\ \A s \in b.stages : s.value.parent \in Held(b) /\ Listed(b, s.value.parent, s.value.id)
  /\ \A id \in Held(b) : \A i \in 1 .. Len(Open(b, id)) :
       /\ \E s \in b.stages : s.value.id = Open(b, id)[i] /\ s.value.parent = id
       /\ \A j \in 1 .. Len(Open(b, id)) : Open(b, id)[i] = Open(b, id)[j] => i = j
  /\ \A s \in b.stages : s.value.id \notin Held(b)

\* The owner a located record needs when its block is written.
Housed(b, r) ==
  /\ r.generator \in 1 .. Len(b.nodes)
  /\ b.nodes[r.generator].kind # "log" => r.parent \in Held(b)
RecordsOK(b) ==
  b.records \in Seq(Ranged(b.records)) /\ \A i \in 1 .. Len(b.records) : Housed(b, b.records[i])

Sane(b) ==
  /\ IsBackend(b) /\ Table(b) /\ NodesOK(b) /\ StagesOK(b) /\ Linked(b) /\ RecordsOK(b)
  /\ b.lost = FALSE

\* Nothing that a record or claim is about has changed.
Keeps(b, c) ==
  /\ c.nodes = b.nodes /\ c.stages = b.stages /\ c.claims = b.claims
  /\ Held(c) = Held(b) /\ \A id \in Held(b) : Open(c, id) = Open(b, id)
Same(b, c) ==
  /\ IsBackend(c) /\ c.slots = b.slots /\ c.overflow = b.overflow /\ c.nodes = b.nodes
  /\ c.stages = b.stages /\ c.records = b.records /\ c.lost = b.lost

LEMMA KeepsSane ==
  ASSUME NEW b, NEW c, Sane(b), IsBackend(c), Table(c), Keeps(b, c), RecordsOK(c), c.lost = FALSE
  PROVE  Sane(c)
<1>1. NodesOK(c) /\ StagesOK(c)
  BY DEF Sane, Keeps, NodesOK, StagesOK
<1>2. Linked(c)
  <2>1. Linked(b) /\ c.stages = b.stages /\ Held(c) = Held(b)
        /\ \A id \in Held(b) : Open(c, id) = Open(b, id)
    BY DEF Sane, Keeps
  <2> QED
    BY <2>1 DEF Linked, Listed
<1> QED
  BY <1>1, <1>2 DEF Sane

LEMMA SameTable ==
  ASSUME NEW b, NEW c, c.slots = b.slots, c.overflow = b.overflow
  PROVE  /\ Owners(c) = Owners(b) /\ Held(c) = Held(b) /\ (Table(c) <=> Table(b))
         /\ \A id : Owner(c, id) = Owner(b, id) /\ Open(c, id) = Open(b, id)
                    /\ (Active(c, id) <=> Active(b, id))
<1>1. Owners(c) = Owners(b)
  BY DEF Owners
<1>2. \A id : InSlot(c, id) <=> InSlot(b, id)
  BY DEF InSlot
<1>3. \A id : Owner(c, id) = Owner(b, id) /\ (Active(c, id) <=> Active(b, id))
  BY <1>2 DEF Owner, Active
<1>4. Table(c) <=> Table(b)
  BY <1>2 DEF Table
<1> QED
  BY <1>1, <1>3, <1>4 DEF Held, Open

LEMMA SameSane ==
  ASSUME NEW b, NEW c, Sane(b), Same(b, c)
  PROVE  Sane(c) /\ (c.claims = b.claims => Keeps(b, c))
<1>1. /\ Held(c) = Held(b) /\ Table(c) /\ \A id : Open(c, id) = Open(b, id)
      /\ \A id : Owner(c, id) = Owner(b, id)
  BY SameTable DEF Same, Sane
<1>2. NodesOK(c) /\ StagesOK(c)
  BY DEF Sane, Same, NodesOK, StagesOK
<1>3. Linked(c)
  BY <1>1 DEF Sane, Same, Linked, Listed
<1>4. RecordsOK(c)
  BY <1>1 DEF Sane, Same, RecordsOK, Housed
<1> QED
  BY <1>1, <1>2, <1>3, <1>4 DEF Sane, Same, Keeps

\* Declarations and transactions are no records.
LEMMA Published ==
  ASSUME NEW b, IsBackend(b)
  PROVE  /\ Same(b, Publish(b)) /\ Publish(b).claims = b.claims
         /\ Publish(b).nextBlock = b.nextBlock
<1>1. PICK file, written : Publish(b) = [b EXCEPT !.file = file, !.written = written]
  BY DEF Publish
<1> QED
  BY <1>1, ZenonT(60) DEF Same, IsBackend

LEMMA FlushedTransactions ==
  ASSUME NEW b, IsBackend(b)
  PROVE  Same(b, FlushTransactions(b)) /\ FlushTransactions(b).claims = b.claims
<1>1. CASE b.transactions = << >> /\ b.relations = << >>
  BY <1>1 DEF FlushTransactions, Same
<1>2. CASE ~(b.transactions = << >> /\ b.relations = << >>)
  <2> DEFINE p == Publish(b)
  <2>1. Same(b, p) /\ p.claims = b.claims
    BY Published
  <2>2. PICK number, file : FlushTransactions(b) =
          [p EXCEPT !.nextBlock = number, !.transactions = << >>, !.relations = << >>,
                    !.file = file]
    BY <1>2, Zenon DEF FlushTransactions
  <2> HIDE DEF p
  <2> QED
    BY <2>1, <2>2 DEF Same, IsBackend
<1> QED
  BY <1>1, <1>2

LEMMA MaybeFlushed ==
  ASSUME NEW b, IsBackend(b)
  PROVE  Same(b, MaybeFlushTransactions(b)) /\ MaybeFlushTransactions(b).claims = b.claims
<1>1. MaybeFlushTransactions(b) \in {FlushTransactions(b), b}
  BY DEF MaybeFlushTransactions
<1> QED
  BY <1>1, FlushedTransactions DEF Same

LEMMA SubmittedTransaction ==
  ASSUME NEW b, IsBackend(b), NEW t
  PROVE  Same(b, SubmitTransaction(b, t)) /\ SubmitTransaction(b, t).claims = b.claims
<1>1. PICK c : c = [b EXCEPT !.transactions = Append(@, t)]
  OBVIOUS
<1>2. Same(b, c) /\ c.claims = b.claims
  BY <1>1 DEF Same, IsBackend
<1>3. Same(c, SubmitTransaction(b, t)) /\ SubmitTransaction(b, t).claims = c.claims
  BY <1>1, <1>2, MaybeFlushed DEF SubmitTransaction, Same
<1> QED
  BY <1>2, <1>3 DEF Same

LEMMA FlushedBlackouts ==
  ASSUME NEW b, IsBackend(b)
  PROVE  Same(b, FlushBlackouts(b)) /\ FlushBlackouts(b).claims = b.claims
<1>1. CASE b.blackout = << >>
  BY <1>1 DEF FlushBlackouts, Same
<1>2. CASE b.blackout # << >>
  <2>1. PICK file : FlushBlackouts(b) = [b EXCEPT !.file = file, !.blackout = << >>]
    BY <1>2, Zenon DEF FlushBlackouts
  <2> QED
    BY <2>1 DEF Same, IsBackend
<1> QED
  BY <1>1, <1>2

\* A block of records is written: the owners of all of them are active.
LEMMA FlushedRecords ==
  ASSUME NEW b, Sane(b)
  PROVE  /\ Sane(FlushRecords(b)) /\ Keeps(b, FlushRecords(b)) /\ FlushRecords(b).records = << >>
<1>1. CASE b.records = << >>
  BY <1>1 DEF FlushRecords, Keeps
<1>2. CASE b.records # << >>
  <2> DEFINE p == Publish(b)
             t == Tell(p, Parents(b), b.nextBlock)
             c == FlushRecords(b)
             lost == b.lost \/ \E id \in Parents(b) : ~Active(b, id)
  <2>1. /\ Same(b, p) /\ p.claims = b.claims /\ Sane(p) /\ Keeps(b, p)
        /\ IsBackend(p) /\ Table(p) /\ p.lost = b.lost
    <3>1. IsBackend(b)
      BY DEF Sane
    <3>2. Same(b, p) /\ p.claims = b.claims
      BY <3>1, Published
    <3> HIDE DEF p
    <3> QED
      BY <3>2, SameSane DEF Sane, Same
  <2>2. \A id \in Parents(b) : id \in Held(b)
    <3>1. ASSUME NEW r \in ToSet(b.records), b.nodes[r.generator].kind # "log"
          PROVE  r.parent \in Held(b)
      <4>1. DOMAIN b.records = 1 .. Len(b.records)
        BY Longer DEF Sane, RecordsOK
      <4>2. PICK i \in 1 .. Len(b.records) : r = b.records[i]
        BY <4>1 DEF ToSet
      <4> QED
        BY <3>1, <4>2 DEF Sane, RecordsOK, Housed
    <3> QED
      BY <3>1 DEF Parents
  <2>3. \A id \in Parents(b) : id # 0 /\ Active(b, id)
    BY <2>2, HeldAre DEF Sane
  <2>4. /\ IsBackend(t) /\ Table(t) /\ SameBut(p, t) /\ Held(t) = Held(p)
        /\ \A id \in Held(p) : Open(t, id) = Open(p, id)
    BY <2>1, <2>3, OwnersTold
  <2>5. PICK number, file : c = [t EXCEPT !.nextBlock = number, !.records = << >>,
                                          !.lost = @ \/ \E id \in Parents(b) : ~Active(b, id),
                                          !.file = file]
    BY <1>2, Zenon DEF FlushRecords
  <2> HIDE DEF p, t, c
  <2>6. /\ t.lost = FALSE /\ t.nodes = b.nodes /\ t.stages = b.stages /\ t.claims = b.claims
    BY <2>1, <2>4, ZenonT(60) DEF SameBut, Sane, IsBackend, Same
  <2>7. /\ IsBackend(c) /\ c.records = << >> /\ c.nodes = t.nodes /\ c.stages = t.stages
        /\ c.slots = t.slots /\ c.overflow = t.overflow /\ c.claims = t.claims
    BY <2>4, <2>5 DEF IsBackend
  <2>8. c.lost = FALSE
    <3>1. PICK l : l = (t.lost \/ \E id \in Parents(b) : ~Active(b, id))
      OBVIOUS
    <3>2. l = FALSE
      BY <2>3, <2>6, <3>1
    <3>3. c.lost = l
      BY <2>4, <2>5, <3>1 DEF IsBackend
    <3> QED
      BY <3>2, <3>3
  <2>9. Table(c) /\ Held(c) = Held(t) /\ \A id : Open(c, id) = Open(t, id)
    BY <2>4, <2>7, SameTable
  <2>10. Keeps(b, c)
    BY <2>1, <2>4, <2>6, <2>7, <2>9 DEF Keeps
  <2>11. RecordsOK(c)
    BY <2>7 DEF RecordsOK, Ranged
  <2>12. Sane(c)
    BY <2>7, <2>8, <2>9, <2>10, <2>11, KeepsSane
  <2> QED
    BY <2>7, <2>10, <2>12 DEF c
<1> QED
  BY <1>1, <1>2

LEMMA Submitted ==
  ASSUME NEW b, Sane(b), NEW r, Housed(b, r)
  PROVE  Sane(SubmitRecord(b, r)) /\ Keeps(b, SubmitRecord(b, r))
<1>1. PICK c : c = [b EXCEPT !.records = Append(@, r)]
  OBVIOUS
<1>2. /\ IsBackend(c) /\ c.slots = b.slots /\ c.overflow = b.overflow /\ c.nodes = b.nodes
      /\ c.stages = b.stages /\ c.claims = b.claims /\ c.lost = b.lost
      /\ c.records = Append(b.records, r)
  BY <1>1 DEF Sane, IsBackend
<1>3. Table(c) /\ Keeps(b, c)
  BY <1>2, SameTable DEF Sane, Keeps
<1>4. RecordsOK(c)
  <2>1. \A x : Housed(b, x) => Housed(c, x)
    BY <1>3 DEF Keeps, Housed
  <2>2. /\ c.records \in Seq(Ranged(c.records)) /\ Len(c.records) = Len(b.records) + 1
        /\ c.records[Len(b.records) + 1] = r
        /\ \A i \in 1 .. Len(b.records) : c.records[i] = b.records[i]
        /\ Len(b.records) \in Nat
    BY <1>2, Longer DEF Sane, RecordsOK
  <2>3. \A i \in 1 .. Len(c.records) : i \in 1 .. Len(b.records) \/ i = Len(b.records) + 1
    BY <2>2
  <2> QED
    BY <2>1, <2>2, <2>3 DEF Sane, RecordsOK
<1>5. Sane(c)
  BY <1>2, <1>3, <1>4, KeepsSane DEF Sane
<1>6. SubmitRecord(b, r) \in {FlushRecords(c), c}
  BY <1>1 DEF SubmitRecord
<1>7. Sane(SubmitRecord(b, r)) /\ (SubmitRecord(b, r) = c \/ Keeps(c, SubmitRecord(b, r)))
  BY <1>5, <1>6, FlushedRecords
<1> QED
  BY <1>3, <1>7 DEF Keeps

(***************************************************************************)
(* Stages end.                                                             *)
(***************************************************************************)
LEMMA RemovedAt ==
  ASSUME NEW q \in Seq(Nat), NEW k \in 1 .. Len(q)
  PROVE  /\ RemoveAt(q, k) \in Seq(Nat) /\ Len(RemoveAt(q, k)) = Len(q) - 1
         /\ \A i \in 1 .. Len(q) - 1 : RemoveAt(q, k)[i] = IF i < k THEN q[i] ELSE q[i + 1]
<1>1. Len(q) \in Nat /\ k \in Nat
  OBVIOUS
<1> DEFINE l == SubSeq(q, 1, k - 1)
           r == SubSeq(q, k + 1, Len(q))
<1>2. l \in Seq(Nat) /\ Len(l) = k - 1 /\ \A i \in 1 .. k - 1 : l[i] = q[i]
  <2>1. \A i \in 1 .. k - 1 : i \in 1 .. Len(q)
    BY <1>1
  <2> QED
    BY <1>1, <2>1, SubSeqProperties
<1>3. r \in Seq(Nat) /\ Len(r) = Len(q) - k /\ \A i \in 1 .. Len(q) - k : r[i] = q[i + k]
  <2>1. CASE k + 1 <= Len(q)
    BY <1>1, <2>1, SubSeqProperties
  <2>2. CASE k = Len(q)
    BY <1>1, <2>2, SubSeqProperties
  <2> QED
    BY <1>1, <2>1, <2>2
<1>4. RemoveAt(q, k) = l \o r
  BY DEF RemoveAt
<1> HIDE DEF l, r
<1> DEFINE n == Len(q)
<1>n. n \in Nat /\ k \in 1 .. n /\ Len(l) = k - 1 /\ Len(r) = n - k
  BY <1>1, <1>2, <1>3
<1>c. /\ l \o r \in Seq(Nat) /\ Len(l \o r) = Len(l) + Len(r)
      /\ \A i \in 1 .. Len(l) + Len(r) :
           (l \o r)[i] = IF i <= Len(l) THEN l[i] ELSE r[i - Len(l)]
  BY <1>2, <1>3, ConcatProperties
<1> HIDE DEF n
<1>5. l \o r \in Seq(Nat) /\ Len(l \o r) = n - 1
  BY <1>n, <1>c
<1>6. ASSUME NEW i \in 1 .. n - 1 PROVE (l \o r)[i] = IF i < k THEN q[i] ELSE q[i + 1]
  <2>1. i \in Int /\ i \in 1 .. Len(l) + Len(r) /\ (i <= Len(l) <=> i < k)
    BY <1>n
  <2>2. (l \o r)[i] = IF i < k THEN l[i] ELSE r[i - (k - 1)]
    BY <1>n, <1>c, <2>1
  <2>3. CASE i < k
    <3>1. i \in 1 .. k - 1
      BY <1>n, <2>3
    <3> QED
      BY <1>2, <2>2, <2>3, <3>1
  <2>4. CASE ~(i < k)
    <3>1. i - (k - 1) \in 1 .. n - k /\ (i - (k - 1)) + k = i + 1
      BY <1>n, <2>1, <2>4
    <3>2. r[i - (k - 1)] = q[(i - (k - 1)) + k]
      BY <1>3, <3>1 DEF n
    <3> QED
      BY <2>2, <2>4, <3>1, <3>2
  <2> QED
    BY <2>3, <2>4
<1> QED
  BY <1>4, <1>5, <1>6 DEF n

\* The step from b to c has ended the stages with these identifiers, and their claims.
Claims(ids) == {<<"record", id>> : id \in ids}
Ends(b, c, ids) ==
  /\ Sane(c) /\ c.nodes = b.nodes /\ Held(c) = Held(b)
  /\ c.stages = {s \in b.stages : s.value.id \notin ids}
  /\ c.claims = {x \in b.claims : x.resource \notin Claims(ids)}

LEMMA EndsOn ==
  ASSUME NEW b, NEW c, NEW d, NEW E, NEW F, Ends(b, c, E), Ends(c, d, F)
  PROVE  Ends(b, d, E \cup F)
<1>1. Claims(E \cup F) = Claims(E) \cup Claims(F)
  BY DEF Claims
<1> QED
  BY <1>1 DEF Ends

LEMMA KeepsEnds ==
  ASSUME NEW b, NEW c, NEW d, NEW E, Ends(b, c, E), Sane(d), Keeps(c, d)
  PROVE  Ends(b, d, E)
BY DEF Ends, Keeps

LEMMA EndsNone ==
  ASSUME NEW b, Sane(b)
  PROVE  Ends(b, b, {})
BY DEF Ends, Claims

LEMMA StageDropped ==
  ASSUME NEW b, Sane(b), NEW id \in StageIds(b)
  PROVE  /\ Ends(b, DropStage(b, id), {id})
         /\ StageWith(b, id) \in b.stages /\ StageWith(b, id).value.id = id
<1> DEFINE stage == StageWith(b, id)
           k == stage.value.parent
           owner == Owner(b, k)
           at == CHOOSE i \in DOMAIN owner.open : owner.open[i] = id
           new == [owner EXCEPT !.open = RemoveAt(@, at)]
           set == SetOwner(b, new)
           c == DropStage(b, id)
<1>1. stage \in b.stages /\ stage.value.id = id
  BY DEF StageIds, StageWith
<1>2. \A s \in b.stages : s.value.id = id => s = stage
  BY <1>1 DEF Sane, StagesOK
<1>3. IsStage(stage) /\ k \in Held(b) /\ Listed(b, k, id) /\ id \notin Held(b)
  BY <1>1 DEF Sane, StagesOK, Linked
<1>4. IsOwner(owner) /\ owner.value.id = k /\ owner.open = Open(b, k) /\ owner.open \in Seq(Nat)
  BY <1>3, HeldAre DEF Sane, Open
<1>5. at \in 1 .. Len(owner.open) /\ owner.open[at] = id
  <2>1. DOMAIN owner.open = 1 .. Len(owner.open)
    BY <1>4, LenProperties
  <2>2. \E i \in DOMAIN owner.open : owner.open[i] = id
    BY <1>3, <1>4, <2>1 DEF Listed
  <2>3. at \in DOMAIN owner.open /\ owner.open[at] = id
    BY <2>2, Zenon
  <2> QED
    BY <2>1, <2>3
<1>6. c = [Release(set, <<"record", id>>) EXCEPT !.stages = @ \ {stage}]
  BY DEF DropStage
<1> HIDE DEF at, stage, c
<1>7. /\ new = [value |-> owner.value, open |-> RemoveAt(owner.open, at), ready |-> owner.ready]
      /\ IsOwner(new) /\ new.value.id = k /\ new.open = RemoveAt(owner.open, at)
  <2>1. RemoveAt(owner.open, at) \in Seq(Nat)
    BY <1>4, <1>5, RemovedAt
  <2> HIDE DEF owner
  <2> QED
    BY <1>4, <2>1, SMTT(30) DEF IsOwner
<1>8. /\ IsBackend(set) /\ Table(set) /\ SameBut(b, set) /\ Held(set) = Held(b)
      /\ Owner(set, k) = new /\ \A i \in Held(b) : i # k => Owner(set, i) = Owner(b, i)
  <2> HIDE DEF new, owner, k
  <2> QED
    BY <1>3, <1>7, OwnerSet DEF Sane
<1> HIDE DEF new, owner, k, set
<1>9. /\ set.nodes = b.nodes /\ set.stages = b.stages /\ set.records = b.records
      /\ set.claims = b.claims /\ set.lost = b.lost
  BY <1>8 DEF SameBut, Sane, IsBackend
<1>10. /\ IsBackend(c) /\ c.slots = set.slots /\ c.overflow = set.overflow /\ c.nodes = b.nodes
       /\ c.stages = b.stages \ {stage} /\ c.records = b.records /\ c.lost = b.lost
       /\ c.claims = {x \in b.claims : x.resource # <<"record", id>>}
  BY <1>6, <1>8, <1>9 DEF Release, IsBackend
<1>11. /\ Table(c) /\ Held(c) = Held(b) /\ Open(c, k) = new.open
       /\ \A i \in Held(b) : i # k => Open(c, i) = Open(b, i)
  BY <1>8, <1>10, SameTable DEF Open
<1>12. c.stages = {s \in b.stages : s.value.id \notin {id}}
  BY <1>1, <1>2, <1>10
<1>13. Linked(c)
  <2> DEFINE q == Open(b, k)
             r == Open(c, k)
  <2>1. /\ q \in Seq(Nat) /\ Len(q) \in Nat /\ at \in 1 .. Len(q) /\ q[at] = id
        /\ r \in Seq(Nat) /\ Len(r) = Len(q) - 1
        /\ \A i \in 1 .. Len(r) : r[i] = IF i < at THEN q[i] ELSE q[i + 1]
    <3>1. q = owner.open /\ r = RemoveAt(q, at) /\ q \in Seq(Nat)
      BY <1>4, <1>7, <1>11
    <3>2. at \in 1 .. Len(q) /\ q[at] = id
      BY <1>5, <3>1
    <3> HIDE DEF q, r
    <3>3. Len(q) \in Nat
      BY <3>1, LenProperties
    <3>4. /\ r \in Seq(Nat) /\ Len(r) = Len(q) - 1
          /\ \A i \in 1 .. Len(q) - 1 : r[i] = IF i < at THEN q[i] ELSE q[i + 1]
      BY <3>1, <3>2, RemovedAt
    <3> QED
      BY <3>1, <3>2, <3>3, <3>4
  <2>2. \A i, j \in 1 .. Len(q) : q[i] = q[j] => i = j
    BY <1>3 DEF Sane, Linked
  <2> DEFINE n == Len(q)
  <2>n. n \in Nat /\ at \in 1 .. n /\ Len(r) = n - 1
    BY <2>1
  <2>l. \A i \in 1 .. n - 1 : i < at => r[i] = q[i]
    BY <2>1
  <2>r. \A i \in 1 .. n - 1 : ~(i < at) => r[i] = q[i + 1]
    BY <2>1
  <2> HIDE DEF q, r, n
  <2>3. \A i \in 1 .. Len(r) : \E j \in 1 .. Len(q) : j # at /\ r[i] = q[j]
    <3> TAKE i \in 1 .. Len(r)
    <3>0. i \in 1 .. n - 1 /\ i \in 1 .. n /\ i + 1 \in 1 .. n
      BY <2>n
    <3>1. CASE i < at
      BY <2>n, <2>l, <3>0, <3>1 DEF n
    <3>2. CASE ~(i < at)
      <4>1. i + 1 # at
        BY <2>n, <3>0, <3>2
      <4> QED
        BY <2>r, <3>0, <3>2, <4>1 DEF n
    <3> QED
      BY <3>1, <3>2
  <2>4. \A j \in 1 .. Len(q) : j # at => \E i \in 1 .. Len(r) : r[i] = q[j]
    <3> TAKE j \in 1 .. Len(q)
    <3>0. j \in 1 .. n
      BY DEF n
    <3>1. CASE j < at
      <4>1. j \in 1 .. n - 1
        BY <2>n, <3>0, <3>1
      <4> QED
        BY <2>n, <2>l, <3>1, <4>1
    <3>2. CASE j > at
      <4>1. j - 1 \in 1 .. n - 1 /\ ~(j - 1 < at) /\ (j - 1) + 1 = j
        BY <2>n, <3>0, <3>2
      <4>2. r[j - 1] = q[(j - 1) + 1]
        BY <2>r, <4>1
      <4> QED
        BY <2>n, <4>1, <4>2
    <3> QED
      BY <2>n, <3>0, <3>1, <3>2
  <2>5. \A i, j \in 1 .. Len(r) : r[i] = r[j] => i = j
    <3> TAKE i \in 1 .. Len(r), j \in 1 .. Len(r)
    <3> DEFINE up(z) == IF z < at THEN z ELSE z + 1
    <3>0. i \in 1 .. n - 1 /\ j \in 1 .. n - 1
      BY <2>n
    <3>a. \A z \in 1 .. n - 1 : up(z) \in 1 .. Len(q)
      BY <2>n DEF n
    <3>b. \A z \in 1 .. n - 1 : r[z] = q[up(z)]
      BY <2>l, <2>r
    <3>c. up(i) = up(j) => i = j
      BY <2>n, <3>0
    <3> HIDE DEF up
    <3>1. PICK x \in 1 .. Len(q), y \in 1 .. Len(q) :
            r[i] = q[x] /\ r[j] = q[y] /\ x = up(i) /\ y = up(j)
      BY <3>0, <3>a, <3>b
    <3>2. r[i] = r[j] => x = y
      BY <2>2, <3>1
    <3> QED
      BY <3>1, <3>2, <3>c
  <2>6. ASSUME NEW s \in c.stages
        PROVE  s.value.parent \in Held(c) /\ Listed(c, s.value.parent, s.value.id)
    <3>1. s \in b.stages /\ s.value.id # id /\ s.value.parent \in Held(b)
          /\ Listed(b, s.value.parent, s.value.id)
      BY <1>12 DEF Sane, Linked
    <3>2. CASE s.value.parent = k
      <4>1. PICK j \in 1 .. Len(q) : q[j] = s.value.id
        BY <3>1, <3>2 DEF Listed, q
      <4>2. \E i \in 1 .. Len(r) : r[i] = s.value.id
        BY <2>1, <2>4, <3>1, <4>1
      <4> QED
        BY <1>11, <3>1, <3>2, <4>2 DEF Listed, r
    <3>3. CASE s.value.parent # k
      BY <1>11, <3>1, <3>3 DEF Listed
    <3> QED
      BY <3>2, <3>3
  <2>7. ASSUME NEW h \in Held(c), NEW i \in 1 .. Len(Open(c, h))
        PROVE  /\ \E s \in c.stages : s.value.id = Open(c, h)[i] /\ s.value.parent = h
               /\ \A j \in 1 .. Len(Open(c, h)) : Open(c, h)[i] = Open(c, h)[j] => i = j
    <3>1. CASE h = k
      <4>1. PICK j \in 1 .. Len(q) : j # at /\ r[i] = q[j]
        BY <2>3, <2>7, <3>1 DEF r
      <4>2. PICK s \in b.stages : s.value.id = q[j] /\ s.value.parent = k
        BY <1>3 DEF Sane, Linked, q
      <4>3. s.value.id # id
        BY <2>1, <2>2, <4>1, <4>2
      <4>4. s \in c.stages
        BY <1>12, <4>3
      <4> QED
        BY <2>5, <2>7, <3>1, <4>1, <4>2, <4>4 DEF r
    <3>2. CASE h # k
      <4>1. h \in Held(b) /\ Open(c, h) = Open(b, h)
        BY <1>11, <2>7, <3>2
      <4>2. /\ \E s \in b.stages : s.value.id = Open(b, h)[i] /\ s.value.parent = h
            /\ \A j \in 1 .. Len(Open(b, h)) : Open(b, h)[i] = Open(b, h)[j] => i = j
        BY <2>7, <4>1 DEF Sane, Linked
      <4>3. PICK s \in b.stages : s.value.id = Open(b, h)[i] /\ s.value.parent = h
        BY <4>2
      <4>4. s # stage
        BY <3>2, <4>3 DEF k
      <4> QED
        BY <1>10, <4>1, <4>2, <4>3, <4>4
    <3> QED
      BY <3>1, <3>2
  <2>8. \A s \in c.stages : s.value.id \notin Held(c)
    BY <1>10, <1>11 DEF Sane, Linked
  <2> QED
    BY <2>6, <2>7, <2>8 DEF Linked
<1>14. NodesOK(c) /\ StagesOK(c) /\ RecordsOK(c)
  BY <1>10, <1>11 DEF Sane, NodesOK, StagesOK, RecordsOK, Housed
<1>15. Sane(c)
  BY <1>10, <1>11, <1>13, <1>14 DEF Sane
<1>16. c.claims = {x \in b.claims : x.resource \notin Claims({id})}
  BY <1>10 DEF Claims
<1> QED
  BY <1>1, <1>10, <1>11, <1>12, <1>15, <1>16 DEF Ends, c, stage

LEMMA StageStopped ==
  ASSUME NEW b, Sane(b), NEW id \in StageIds(b), NEW time
  PROVE  Ends(b, StopStage(b, id, time), {id})
<1> DEFINE value == StageWith(b, id).value
           c == DropStage(b, id)
           r == [value EXCEPT !.end = Max({time, value.begin})]
<1>1. Ends(b, c, {id}) /\ StageWith(b, id) \in b.stages
  BY StageDropped
<1>2. /\ IsStage(StageWith(b, id)) /\ value.generator \in 1 .. Len(b.nodes)
      /\ value.parent \in Held(b)
  BY <1>1 DEF Sane, StagesOK, Linked
<1>3. r.generator = value.generator /\ r.parent = value.parent
  <2>1. PICK v : v = value
    OBVIOUS
  <2>2. v = [id |-> v.id, generator |-> v.generator, datatype |-> v.datatype,
             begin |-> v.begin, end |-> v.end, parent |-> v.parent]
    BY <1>2, <2>1 DEF IsStage
  <2> QED
    BY <2>1, <2>2
<1>4. StopStage(b, id, time) = SubmitRecord(c, r)
  BY DEF StopStage
<1> HIDE DEF c, r
<1>5. Housed(c, r)
  BY <1>1, <1>2, <1>3 DEF Ends, Housed
<1>6. Sane(c)
  BY <1>1 DEF Ends
<1>7. Sane(SubmitRecord(c, r)) /\ Keeps(c, SubmitRecord(c, r))
  BY <1>5, <1>6, Submitted
<1> QED
  BY <1>1, <1>4, <1>7, KeepsEnds

(***************************************************************************)
(* What a fold over a sequence computes, step by step.                     *)
(***************************************************************************)
LEMMA Subsets ==
  ASSUME NEW k \in Nat
  PROVE  \A s \in SUBSET (1 .. k + 1) :
           /\ k + 1 \in s => /\ Max(s) = k + 1 /\ s \ {k + 1} \in SUBSET (1 .. k)
                            /\ s \ {k + 1} \in SUBSET (1 .. k + 1)
           /\ k + 1 \notin s =>
                /\ s \in SUBSET (1 .. k) /\ s \ {Max(s)} \in SUBSET (1 .. k)
                /\ s \ {Max(s)} \in SUBSET (1 .. k + 1) /\ k + 1 \notin s \ {Max(s)}
<1> TAKE s \in SUBSET (1 .. k + 1)
<1>1. \A x \in 1 .. k + 1 : x \in Int /\ k + 1 >= x /\ (x # k + 1 => x \in 1 .. k)
  OBVIOUS
<1>2. s \in SUBSET Int /\ \A y \in s : k + 1 >= y
  BY <1>1
<1>3. k + 1 \in s => Max(s) = k + 1
  BY <1>2, MaxIs
<1> QED
  BY <1>1, <1>3

LEMMA Initial ==
  ASSUME NEW n \in Nat, NEW i \in 1 .. n
  PROVE  /\ i - 1 \in 0 .. n /\ 1 .. i \in SUBSET (1 .. n) /\ i \in 0 .. n
         /\ Max(1 .. i) = i /\ 1 .. i # {} /\ (1 .. i) \ {i} = 1 .. i - 1
<1>1. i - 1 \in Nat /\ (i - 1) + 1 = i
  OBVIOUS
<1>2. Max(1 .. i) = i
  BY <1>1, MaxInterval
<1> QED
  BY <1>2

StagesFolding(b, q, n, time, h) ==
  h = [s \in SUBSET (1 .. n) |-> IF s = {} THEN b ELSE StopStage(h[s \ {Max(s)}], q[Max(s)], time)]

LEMMA StagesExists ==
  ASSUME NEW b, NEW q, NEW time, NEW n \in Nat
  PROVE  \E h : StagesFolding(b, q, n, time, h)
<1> DEFINE P == {k \in Nat : \E h : StagesFolding(b, q, k, time, h)}
<1>1. 0 \in P
  <2> DEFINE h == [s \in SUBSET (1 .. 0) |-> b]
  <2>1. StagesFolding(b, q, 0, time, h)
    BY DEF StagesFolding
  <2> QED
    BY <2>1
<1>2. ASSUME NEW k \in P PROVE k + 1 \in P
  <2>1. PICK h : StagesFolding(b, q, k, time, h)
    OBVIOUS
  <2> DEFINE g == [s \in SUBSET (1 .. k + 1) |->
                     IF k + 1 \in s THEN StopStage(h[s \ {k + 1}], q[k + 1], time) ELSE h[s]]
  <2>2. ASSUME NEW s \in SUBSET (1 .. k + 1)
        PROVE  g[s] = IF s = {} THEN b ELSE StopStage(g[s \ {Max(s)}], q[Max(s)], time)
    <3>1. CASE k + 1 \in s
      <4>1. Max(s) = k + 1 /\ s \ {k + 1} \in SUBSET (1 .. k) /\ s \ {k + 1} \in SUBSET (1 .. k + 1)
        BY <3>1, Subsets
      <4>2. g[s \ {k + 1}] = h[s \ {k + 1}]
        BY <4>1
      <4>3. g[s] = StopStage(h[s \ {k + 1}], q[k + 1], time) /\ s # {}
        BY <3>1
      <4> QED
        BY <4>1, <4>2, <4>3
    <3>2. CASE k + 1 \notin s
      <4>1. /\ s \in SUBSET (1 .. k) /\ s \ {Max(s)} \in SUBSET (1 .. k)
            /\ s \ {Max(s)} \in SUBSET (1 .. k + 1) /\ k + 1 \notin s \ {Max(s)}
        BY <3>2, Subsets
      <4>2. h[s] = IF s = {} THEN b ELSE StopStage(h[s \ {Max(s)}], q[Max(s)], time)
        BY <2>1, <4>1 DEF StagesFolding
      <4>3. g[s] = h[s] /\ g[s \ {Max(s)}] = h[s \ {Max(s)}]
        BY <3>2, <4>1
      <4> QED
        BY <4>2, <4>3
    <3> QED
      BY <3>1, <3>2
  <2>3. g = [s \in SUBSET (1 .. k + 1) |-> g[s]]
    OBVIOUS
  <2> HIDE DEF g
  <2>4. StagesFolding(b, q, k + 1, time, g)
    BY <2>2, <2>3 DEF StagesFolding
  <2> QED
    BY <2>4
<1> HIDE DEF P
<1>3. n \in P
  BY <1>1, <1>2, Induction
<1> QED
  BY <1>3 DEF P

\* Stages end one after the other.
StagesSteps(b, q, time, it) ==
  it[0] = b /\ \A i \in 1 .. Len(q) : it[i] = StopStage(it[i - 1], q[i], time)
LEMMA StagesFolds ==
  ASSUME NEW b, NEW q, NEW time, DOMAIN q = 1 .. Len(q), Len(q) \in Nat
  PROVE  \E it : StagesSteps(b, q, time, it) /\ StopStages(b, q, time) = it[Len(q)]
<1> DEFINE n == Len(q)
           h == CHOOSE h : StagesFolding(b, q, n, time, h)
           it == [i \in 0 .. n |-> h[1 .. i]]
<1>1. StagesFolding(b, q, n, time, h)
  BY StagesExists
<1>2. StopStages(b, q, time) = h[1 .. n]
  BY DEF StopStages, FoldLeft, MapThenFoldSet, StagesFolding
<1> HIDE DEF h
<1>3. \A s \in SUBSET (1 .. n) :
        h[s] = IF s = {} THEN b ELSE StopStage(h[s \ {Max(s)}], q[Max(s)], time)
  BY <1>1 DEF StagesFolding
<1>4. \A i \in 0 .. n : it[i] = h[1 .. i]
  OBVIOUS
<1> HIDE DEF it
<1>5. it[0] = b
  <2>1. 0 \in 0 .. n /\ 1 .. 0 = {} /\ {} \in SUBSET (1 .. n)
    OBVIOUS
  <2>2. h[{}] = b
    BY <1>3, <2>1
  <2> QED
    BY <1>4, <2>1, <2>2
<1>6. ASSUME NEW i \in 1 .. n PROVE it[i] = StopStage(it[i - 1], q[i], time)
  <2>1. /\ i - 1 \in 0 .. n /\ 1 .. i \in SUBSET (1 .. n) /\ i \in 0 .. n
        /\ Max(1 .. i) = i /\ 1 .. i # {} /\ (1 .. i) \ {i} = 1 .. i - 1
    BY Initial
  <2>2. h[1 .. i] = StopStage(h[(1 .. i) \ {i}], q[i], time)
    BY <1>3, <2>1
  <2> QED
    BY <1>4, <2>1, <2>2
<1> QED
  BY <1>2, <1>4, <1>5, <1>6 DEF StagesSteps

DropsFolding(b, q, n, h) ==
  h = [s \in SUBSET (1 .. n) |-> IF s = {} THEN b ELSE DropStage(h[s \ {Max(s)}], q[Max(s)])]

LEMMA DropsExists ==
  ASSUME NEW b, NEW q, NEW n \in Nat
  PROVE  \E h : DropsFolding(b, q, n, h)
<1> DEFINE P == {k \in Nat : \E h : DropsFolding(b, q, k, h)}
<1>1. 0 \in P
  <2> DEFINE h == [s \in SUBSET (1 .. 0) |-> b]
  <2>1. DropsFolding(b, q, 0, h)
    BY DEF DropsFolding
  <2> QED
    BY <2>1
<1>2. ASSUME NEW k \in P PROVE k + 1 \in P
  <2>1. PICK h : DropsFolding(b, q, k, h)
    OBVIOUS
  <2> DEFINE g == [s \in SUBSET (1 .. k + 1) |->
                     IF k + 1 \in s THEN DropStage(h[s \ {k + 1}], q[k + 1]) ELSE h[s]]
  <2>2. ASSUME NEW s \in SUBSET (1 .. k + 1)
        PROVE  g[s] = IF s = {} THEN b ELSE DropStage(g[s \ {Max(s)}], q[Max(s)])
    <3>1. CASE k + 1 \in s
      <4>1. Max(s) = k + 1 /\ s \ {k + 1} \in SUBSET (1 .. k) /\ s \ {k + 1} \in SUBSET (1 .. k + 1)
        BY <3>1, Subsets
      <4>2. g[s \ {k + 1}] = h[s \ {k + 1}]
        BY <4>1
      <4>3. g[s] = DropStage(h[s \ {k + 1}], q[k + 1]) /\ s # {}
        BY <3>1
      <4> QED
        BY <4>1, <4>2, <4>3
    <3>2. CASE k + 1 \notin s
      <4>1. /\ s \in SUBSET (1 .. k) /\ s \ {Max(s)} \in SUBSET (1 .. k)
            /\ s \ {Max(s)} \in SUBSET (1 .. k + 1) /\ k + 1 \notin s \ {Max(s)}
        BY <3>2, Subsets
      <4>2. h[s] = IF s = {} THEN b ELSE DropStage(h[s \ {Max(s)}], q[Max(s)])
        BY <2>1, <4>1 DEF DropsFolding
      <4>3. g[s] = h[s] /\ g[s \ {Max(s)}] = h[s \ {Max(s)}]
        BY <3>2, <4>1
      <4> QED
        BY <4>2, <4>3
    <3> QED
      BY <3>1, <3>2
  <2>3. g = [s \in SUBSET (1 .. k + 1) |-> g[s]]
    OBVIOUS
  <2> HIDE DEF g
  <2>4. DropsFolding(b, q, k + 1, g)
    BY <2>2, <2>3 DEF DropsFolding
  <2> QED
    BY <2>4
<1> HIDE DEF P
<1>3. n \in P
  BY <1>1, <1>2, Induction
<1> QED
  BY <1>3 DEF P

\* Stages are dropped one after the other.
DropsSteps(b, q, it) ==
  it[0] = b /\ \A i \in 1 .. Len(q) : it[i] = DropStage(it[i - 1], q[i])
LEMMA DropsFolds ==
  ASSUME NEW b, NEW q, DOMAIN q = 1 .. Len(q), Len(q) \in Nat
  PROVE  \E it : DropsSteps(b, q, it) /\ FoldLeft(DropStage, b, q) = it[Len(q)]
<1> DEFINE n == Len(q)
           h == CHOOSE h : DropsFolding(b, q, n, h)
           it == [i \in 0 .. n |-> h[1 .. i]]
<1>1. DropsFolding(b, q, n, h)
  BY DropsExists
<1>2. FoldLeft(DropStage, b, q) = h[1 .. n]
  BY DEF FoldLeft, MapThenFoldSet, DropsFolding
<1> HIDE DEF h
<1>3. \A s \in SUBSET (1 .. n) :
        h[s] = IF s = {} THEN b ELSE DropStage(h[s \ {Max(s)}], q[Max(s)])
  BY <1>1 DEF DropsFolding
<1>4. \A i \in 0 .. n : it[i] = h[1 .. i]
  OBVIOUS
<1> HIDE DEF it
<1>5. it[0] = b
  <2>1. 0 \in 0 .. n /\ 1 .. 0 = {} /\ {} \in SUBSET (1 .. n)
    OBVIOUS
  <2>2. h[{}] = b
    BY <1>3, <2>1
  <2> QED
    BY <1>4, <2>1, <2>2
<1>6. ASSUME NEW i \in 1 .. n PROVE it[i] = DropStage(it[i - 1], q[i])
  <2>1. /\ i - 1 \in 0 .. n /\ 1 .. i \in SUBSET (1 .. n) /\ i \in 0 .. n
        /\ Max(1 .. i) = i /\ 1 .. i # {} /\ (1 .. i) \ {i} = 1 .. i - 1
    BY Initial
  <2>2. h[1 .. i] = DropStage(h[(1 .. i) \ {i}], q[i])
    BY <1>3, <2>1
  <2> QED
    BY <1>4, <2>1, <2>2
<1> QED
  BY <1>2, <1>4, <1>5, <1>6 DEF DropsSteps

OpensFolding(b, q, n, time, h) ==
  h = [s \in SUBSET (1 .. n) |-> IF s = {} THEN b ELSE StopOpen(h[s \ {Max(s)}], q[Max(s)], time)]

LEMMA OpensExists ==
  ASSUME NEW b, NEW q, NEW time, NEW n \in Nat
  PROVE  \E h : OpensFolding(b, q, n, time, h)
<1> DEFINE P == {k \in Nat : \E h : OpensFolding(b, q, k, time, h)}
<1>1. 0 \in P
  <2> DEFINE h == [s \in SUBSET (1 .. 0) |-> b]
  <2>1. OpensFolding(b, q, 0, time, h)
    BY DEF OpensFolding
  <2> QED
    BY <2>1
<1>2. ASSUME NEW k \in P PROVE k + 1 \in P
  <2>1. PICK h : OpensFolding(b, q, k, time, h)
    OBVIOUS
  <2> DEFINE g == [s \in SUBSET (1 .. k + 1) |->
                     IF k + 1 \in s THEN StopOpen(h[s \ {k + 1}], q[k + 1], time) ELSE h[s]]
  <2>2. ASSUME NEW s \in SUBSET (1 .. k + 1)
        PROVE  g[s] = IF s = {} THEN b ELSE StopOpen(g[s \ {Max(s)}], q[Max(s)], time)
    <3>1. CASE k + 1 \in s
      <4>1. Max(s) = k + 1 /\ s \ {k + 1} \in SUBSET (1 .. k) /\ s \ {k + 1} \in SUBSET (1 .. k + 1)
        BY <3>1, Subsets
      <4>2. g[s \ {k + 1}] = h[s \ {k + 1}]
        BY <4>1
      <4>3. g[s] = StopOpen(h[s \ {k + 1}], q[k + 1], time) /\ s # {}
        BY <3>1
      <4> QED
        BY <4>1, <4>2, <4>3
    <3>2. CASE k + 1 \notin s
      <4>1. /\ s \in SUBSET (1 .. k) /\ s \ {Max(s)} \in SUBSET (1 .. k)
            /\ s \ {Max(s)} \in SUBSET (1 .. k + 1) /\ k + 1 \notin s \ {Max(s)}
        BY <3>2, Subsets
      <4>2. h[s] = IF s = {} THEN b ELSE StopOpen(h[s \ {Max(s)}], q[Max(s)], time)
        BY <2>1, <4>1 DEF OpensFolding
      <4>3. g[s] = h[s] /\ g[s \ {Max(s)}] = h[s \ {Max(s)}]
        BY <3>2, <4>1
      <4> QED
        BY <4>2, <4>3
    <3> QED
      BY <3>1, <3>2
  <2>3. g = [s \in SUBSET (1 .. k + 1) |-> g[s]]
    OBVIOUS
  <2> HIDE DEF g
  <2>4. OpensFolding(b, q, k + 1, time, g)
    BY <2>2, <2>3 DEF OpensFolding
  <2> QED
    BY <2>4
<1> HIDE DEF P
<1>3. n \in P
  BY <1>1, <1>2, Induction
<1> QED
  BY <1>3 DEF P

\* The stages of one owner after the other end.
OpensSteps(b, q, time, it) ==
  it[0] = b /\ \A i \in 1 .. Len(q) : it[i] = StopOpen(it[i - 1], q[i], time)
LEMMA OpensFolds ==
  ASSUME NEW b, NEW q, NEW time, DOMAIN q = 1 .. Len(q), Len(q) \in Nat
  PROVE  \E it : OpensSteps(b, q, time, it) /\ StopOpens(b, q, time) = it[Len(q)]
<1> DEFINE n == Len(q)
           h == CHOOSE h : OpensFolding(b, q, n, time, h)
           it == [i \in 0 .. n |-> h[1 .. i]]
<1>1. OpensFolding(b, q, n, time, h)
  BY OpensExists
<1>2. StopOpens(b, q, time) = h[1 .. n]
  BY DEF StopOpens, FoldLeft, MapThenFoldSet, OpensFolding
<1> HIDE DEF h
<1>3. \A s \in SUBSET (1 .. n) :
        h[s] = IF s = {} THEN b ELSE StopOpen(h[s \ {Max(s)}], q[Max(s)], time)
  BY <1>1 DEF OpensFolding
<1>4. \A i \in 0 .. n : it[i] = h[1 .. i]
  OBVIOUS
<1> HIDE DEF it
<1>5. it[0] = b
  <2>1. 0 \in 0 .. n /\ 1 .. 0 = {} /\ {} \in SUBSET (1 .. n)
    OBVIOUS
  <2>2. h[{}] = b
    BY <1>3, <2>1
  <2> QED
    BY <1>4, <2>1, <2>2
<1>6. ASSUME NEW i \in 1 .. n PROVE it[i] = StopOpen(it[i - 1], q[i], time)
  <2>1. /\ i - 1 \in 0 .. n /\ 1 .. i \in SUBSET (1 .. n) /\ i \in 0 .. n
        /\ Max(1 .. i) = i /\ 1 .. i # {} /\ (1 .. i) \ {i} = 1 .. i - 1
    BY Initial
  <2>2. h[1 .. i] = StopOpen(h[(1 .. i) \ {i}], q[i], time)
    BY <1>3, <2>1
  <2> QED
    BY <1>4, <2>1, <2>2
<1> QED
  BY <1>2, <1>4, <1>5, <1>6 DEF OpensSteps

ForgetsFolding(b, q, n, h) ==
  h = [s \in SUBSET (1 .. n) |-> IF s = {} THEN b ELSE Forget(h[s \ {Max(s)}], q[Max(s)])]

LEMMA ForgetsExists ==
  ASSUME NEW b, NEW q, NEW n \in Nat
  PROVE  \E h : ForgetsFolding(b, q, n, h)
<1> DEFINE P == {k \in Nat : \E h : ForgetsFolding(b, q, k, h)}
<1>1. 0 \in P
  <2> DEFINE h == [s \in SUBSET (1 .. 0) |-> b]
  <2>1. ForgetsFolding(b, q, 0, h)
    BY DEF ForgetsFolding
  <2> QED
    BY <2>1
<1>2. ASSUME NEW k \in P PROVE k + 1 \in P
  <2>1. PICK h : ForgetsFolding(b, q, k, h)
    OBVIOUS
  <2> DEFINE g == [s \in SUBSET (1 .. k + 1) |->
                     IF k + 1 \in s THEN Forget(h[s \ {k + 1}], q[k + 1]) ELSE h[s]]
  <2>2. ASSUME NEW s \in SUBSET (1 .. k + 1)
        PROVE  g[s] = IF s = {} THEN b ELSE Forget(g[s \ {Max(s)}], q[Max(s)])
    <3>1. CASE k + 1 \in s
      <4>1. Max(s) = k + 1 /\ s \ {k + 1} \in SUBSET (1 .. k) /\ s \ {k + 1} \in SUBSET (1 .. k + 1)
        BY <3>1, Subsets
      <4>2. g[s \ {k + 1}] = h[s \ {k + 1}]
        BY <4>1
      <4>3. g[s] = Forget(h[s \ {k + 1}], q[k + 1]) /\ s # {}
        BY <3>1
      <4> QED
        BY <4>1, <4>2, <4>3
    <3>2. CASE k + 1 \notin s
      <4>1. /\ s \in SUBSET (1 .. k) /\ s \ {Max(s)} \in SUBSET (1 .. k)
            /\ s \ {Max(s)} \in SUBSET (1 .. k + 1) /\ k + 1 \notin s \ {Max(s)}
        BY <3>2, Subsets
      <4>2. h[s] = IF s = {} THEN b ELSE Forget(h[s \ {Max(s)}], q[Max(s)])
        BY <2>1, <4>1 DEF ForgetsFolding
      <4>3. g[s] = h[s] /\ g[s \ {Max(s)}] = h[s \ {Max(s)}]
        BY <3>2, <4>1
      <4> QED
        BY <4>2, <4>3
    <3> QED
      BY <3>1, <3>2
  <2>3. g = [s \in SUBSET (1 .. k + 1) |-> g[s]]
    OBVIOUS
  <2> HIDE DEF g
  <2>4. ForgetsFolding(b, q, k + 1, g)
    BY <2>2, <2>3 DEF ForgetsFolding
  <2> QED
    BY <2>4
<1> HIDE DEF P
<1>3. n \in P
  BY <1>1, <1>2, Induction
<1> QED
  BY <1>3 DEF P

\* Owners are forgotten one after the other.
ForgetsSteps(b, q, it) ==
  it[0] = b /\ \A i \in 1 .. Len(q) : it[i] = Forget(it[i - 1], q[i])
LEMMA ForgetsFolds ==
  ASSUME NEW b, NEW q, DOMAIN q = 1 .. Len(q), Len(q) \in Nat
  PROVE  \E it : ForgetsSteps(b, q, it) /\ FoldLeft(Forget, b, q) = it[Len(q)]
<1> DEFINE n == Len(q)
           h == CHOOSE h : ForgetsFolding(b, q, n, h)
           it == [i \in 0 .. n |-> h[1 .. i]]
<1>1. ForgetsFolding(b, q, n, h)
  BY ForgetsExists
<1>2. FoldLeft(Forget, b, q) = h[1 .. n]
  BY DEF FoldLeft, MapThenFoldSet, ForgetsFolding
<1> HIDE DEF h
<1>3. \A s \in SUBSET (1 .. n) :
        h[s] = IF s = {} THEN b ELSE Forget(h[s \ {Max(s)}], q[Max(s)])
  BY <1>1 DEF ForgetsFolding
<1>4. \A i \in 0 .. n : it[i] = h[1 .. i]
  OBVIOUS
<1> HIDE DEF it
<1>5. it[0] = b
  <2>1. 0 \in 0 .. n /\ 1 .. 0 = {} /\ {} \in SUBSET (1 .. n)
    OBVIOUS
  <2>2. h[{}] = b
    BY <1>3, <2>1
  <2> QED
    BY <1>4, <2>1, <2>2
<1>6. ASSUME NEW i \in 1 .. n PROVE it[i] = Forget(it[i - 1], q[i])
  <2>1. /\ i - 1 \in 0 .. n /\ 1 .. i \in SUBSET (1 .. n) /\ i \in 0 .. n
        /\ Max(1 .. i) = i /\ 1 .. i # {} /\ (1 .. i) \ {i} = 1 .. i - 1
    BY Initial
  <2>2. h[1 .. i] = Forget(h[(1 .. i) \ {i}], q[i])
    BY <1>3, <2>1
  <2> QED
    BY <1>4, <2>1, <2>2
<1> QED
  BY <1>2, <1>4, <1>5, <1>6 DEF ForgetsSteps

OwnersFolding(b, q, n, time, h) ==
  h = [s \in SUBSET (1 .. n) |-> IF s = {} THEN b ELSE StopOwner(h[s \ {Max(s)}], q[Max(s)], time, Truncated)]

LEMMA OwnersExists ==
  ASSUME NEW b, NEW q, NEW time, NEW n \in Nat
  PROVE  \E h : OwnersFolding(b, q, n, time, h)
<1> DEFINE P == {k \in Nat : \E h : OwnersFolding(b, q, k, time, h)}
<1>1. 0 \in P
  <2> DEFINE h == [s \in SUBSET (1 .. 0) |-> b]
  <2>1. OwnersFolding(b, q, 0, time, h)
    BY DEF OwnersFolding
  <2> QED
    BY <2>1
<1>2. ASSUME NEW k \in P PROVE k + 1 \in P
  <2>1. PICK h : OwnersFolding(b, q, k, time, h)
    OBVIOUS
  <2> DEFINE g == [s \in SUBSET (1 .. k + 1) |->
                     IF k + 1 \in s THEN StopOwner(h[s \ {k + 1}], q[k + 1], time, Truncated) ELSE h[s]]
  <2>2. ASSUME NEW s \in SUBSET (1 .. k + 1)
        PROVE  g[s] = IF s = {} THEN b ELSE StopOwner(g[s \ {Max(s)}], q[Max(s)], time, Truncated)
    <3>1. CASE k + 1 \in s
      <4>1. Max(s) = k + 1 /\ s \ {k + 1} \in SUBSET (1 .. k) /\ s \ {k + 1} \in SUBSET (1 .. k + 1)
        BY <3>1, Subsets
      <4>2. g[s \ {k + 1}] = h[s \ {k + 1}]
        BY <4>1
      <4>3. g[s] = StopOwner(h[s \ {k + 1}], q[k + 1], time, Truncated) /\ s # {}
        BY <3>1
      <4> QED
        BY <4>1, <4>2, <4>3
    <3>2. CASE k + 1 \notin s
      <4>1. /\ s \in SUBSET (1 .. k) /\ s \ {Max(s)} \in SUBSET (1 .. k)
            /\ s \ {Max(s)} \in SUBSET (1 .. k + 1) /\ k + 1 \notin s \ {Max(s)}
        BY <3>2, Subsets
      <4>2. h[s] = IF s = {} THEN b ELSE StopOwner(h[s \ {Max(s)}], q[Max(s)], time, Truncated)
        BY <2>1, <4>1 DEF OwnersFolding
      <4>3. g[s] = h[s] /\ g[s \ {Max(s)}] = h[s \ {Max(s)}]
        BY <3>2, <4>1
      <4> QED
        BY <4>2, <4>3
    <3> QED
      BY <3>1, <3>2
  <2>3. g = [s \in SUBSET (1 .. k + 1) |-> g[s]]
    OBVIOUS
  <2> HIDE DEF g
  <2>4. OwnersFolding(b, q, k + 1, time, g)
    BY <2>2, <2>3 DEF OwnersFolding
  <2> QED
    BY <2>4
<1> HIDE DEF P
<1>3. n \in P
  BY <1>1, <1>2, Induction
<1> QED
  BY <1>3 DEF P

\* Owners end one after the other.
OwnersSteps(b, q, time, it) ==
  it[0] = b /\ \A i \in 1 .. Len(q) : it[i] = StopOwner(it[i - 1], q[i], time, Truncated)
LEMMA OwnersFolds ==
  ASSUME NEW b, NEW q, NEW time, DOMAIN q = 1 .. Len(q), Len(q) \in Nat
  PROVE  \E it : OwnersSteps(b, q, time, it) /\ StopOwners(b, q, time) = it[Len(q)]
<1> DEFINE n == Len(q)
           h == CHOOSE h : OwnersFolding(b, q, n, time, h)
           it == [i \in 0 .. n |-> h[1 .. i]]
<1>1. OwnersFolding(b, q, n, time, h)
  BY OwnersExists
<1>2. StopOwners(b, q, time) = h[1 .. n]
  BY DEF StopOwners, FoldLeft, MapThenFoldSet, OwnersFolding
<1> HIDE DEF h
<1>3. \A s \in SUBSET (1 .. n) :
        h[s] = IF s = {} THEN b ELSE StopOwner(h[s \ {Max(s)}], q[Max(s)], time, Truncated)
  BY <1>1 DEF OwnersFolding
<1>4. \A i \in 0 .. n : it[i] = h[1 .. i]
  OBVIOUS
<1> HIDE DEF it
<1>5. it[0] = b
  <2>1. 0 \in 0 .. n /\ 1 .. 0 = {} /\ {} \in SUBSET (1 .. n)
    OBVIOUS
  <2>2. h[{}] = b
    BY <1>3, <2>1
  <2> QED
    BY <1>4, <2>1, <2>2
<1>6. ASSUME NEW i \in 1 .. n PROVE it[i] = StopOwner(it[i - 1], q[i], time, Truncated)
  <2>1. /\ i - 1 \in 0 .. n /\ 1 .. i \in SUBSET (1 .. n) /\ i \in 0 .. n
        /\ Max(1 .. i) = i /\ 1 .. i # {} /\ (1 .. i) \ {i} = 1 .. i - 1
    BY Initial
  <2>2. h[1 .. i] = StopOwner(h[(1 .. i) \ {i}], q[i], time, Truncated)
    BY <1>3, <2>1
  <2> QED
    BY <1>4, <2>1, <2>2
<1> QED
  BY <1>2, <1>4, <1>5, <1>6 DEF OwnersSteps

ClocksFolding(b, q, n, time, h) ==
  h = [s \in SUBSET (1 .. n) |-> IF s = {} THEN b ELSE StopClock(h[s \ {Max(s)}], q[Max(s)], time, Truncated)]

LEMMA ClocksExists ==
  ASSUME NEW b, NEW q, NEW time, NEW n \in Nat
  PROVE  \E h : ClocksFolding(b, q, n, time, h)
<1> DEFINE P == {k \in Nat : \E h : ClocksFolding(b, q, k, time, h)}
<1>1. 0 \in P
  <2> DEFINE h == [s \in SUBSET (1 .. 0) |-> b]
  <2>1. ClocksFolding(b, q, 0, time, h)
    BY DEF ClocksFolding
  <2> QED
    BY <2>1
<1>2. ASSUME NEW k \in P PROVE k + 1 \in P
  <2>1. PICK h : ClocksFolding(b, q, k, time, h)
    OBVIOUS
  <2> DEFINE g == [s \in SUBSET (1 .. k + 1) |->
                     IF k + 1 \in s THEN StopClock(h[s \ {k + 1}], q[k + 1], time, Truncated) ELSE h[s]]
  <2>2. ASSUME NEW s \in SUBSET (1 .. k + 1)
        PROVE  g[s] = IF s = {} THEN b ELSE StopClock(g[s \ {Max(s)}], q[Max(s)], time, Truncated)
    <3>1. CASE k + 1 \in s
      <4>1. Max(s) = k + 1 /\ s \ {k + 1} \in SUBSET (1 .. k) /\ s \ {k + 1} \in SUBSET (1 .. k + 1)
        BY <3>1, Subsets
      <4>2. g[s \ {k + 1}] = h[s \ {k + 1}]
        BY <4>1
      <4>3. g[s] = StopClock(h[s \ {k + 1}], q[k + 1], time, Truncated) /\ s # {}
        BY <3>1
      <4> QED
        BY <4>1, <4>2, <4>3
    <3>2. CASE k + 1 \notin s
      <4>1. /\ s \in SUBSET (1 .. k) /\ s \ {Max(s)} \in SUBSET (1 .. k)
            /\ s \ {Max(s)} \in SUBSET (1 .. k + 1) /\ k + 1 \notin s \ {Max(s)}
        BY <3>2, Subsets
      <4>2. h[s] = IF s = {} THEN b ELSE StopClock(h[s \ {Max(s)}], q[Max(s)], time, Truncated)
        BY <2>1, <4>1 DEF ClocksFolding
      <4>3. g[s] = h[s] /\ g[s \ {Max(s)}] = h[s \ {Max(s)}]
        BY <3>2, <4>1
      <4> QED
        BY <4>2, <4>3
    <3> QED
      BY <3>1, <3>2
  <2>3. g = [s \in SUBSET (1 .. k + 1) |-> g[s]]
    OBVIOUS
  <2> HIDE DEF g
  <2>4. ClocksFolding(b, q, k + 1, time, g)
    BY <2>2, <2>3 DEF ClocksFolding
  <2> QED
    BY <2>4
<1> HIDE DEF P
<1>3. n \in P
  BY <1>1, <1>2, Induction
<1> QED
  BY <1>3 DEF P

\* Clocks stop one after the other.
ClocksSteps(b, q, time, it) ==
  it[0] = b /\ \A i \in 1 .. Len(q) : it[i] = StopClock(it[i - 1], q[i], time, Truncated)
LEMMA ClocksFolds ==
  ASSUME NEW b, NEW q, NEW time, DOMAIN q = 1 .. Len(q), Len(q) \in Nat
  PROVE  \E it : ClocksSteps(b, q, time, it) /\ StopClocks(b, q, time) = it[Len(q)]
<1> DEFINE n == Len(q)
           h == CHOOSE h : ClocksFolding(b, q, n, time, h)
           it == [i \in 0 .. n |-> h[1 .. i]]
<1>1. ClocksFolding(b, q, n, time, h)
  BY ClocksExists
<1>2. StopClocks(b, q, time) = h[1 .. n]
  BY DEF StopClocks, FoldLeft, MapThenFoldSet, ClocksFolding
<1> HIDE DEF h
<1>3. \A s \in SUBSET (1 .. n) :
        h[s] = IF s = {} THEN b ELSE StopClock(h[s \ {Max(s)}], q[Max(s)], time, Truncated)
  BY <1>1 DEF ClocksFolding
<1>4. \A i \in 0 .. n : it[i] = h[1 .. i]
  OBVIOUS
<1> HIDE DEF it
<1>5. it[0] = b
  <2>1. 0 \in 0 .. n /\ 1 .. 0 = {} /\ {} \in SUBSET (1 .. n)
    OBVIOUS
  <2>2. h[{}] = b
    BY <1>3, <2>1
  <2> QED
    BY <1>4, <2>1, <2>2
<1>6. ASSUME NEW i \in 1 .. n PROVE it[i] = StopClock(it[i - 1], q[i], time, Truncated)
  <2>1. /\ i - 1 \in 0 .. n /\ 1 .. i \in SUBSET (1 .. n) /\ i \in 0 .. n
        /\ Max(1 .. i) = i /\ 1 .. i # {} /\ (1 .. i) \ {i} = 1 .. i - 1
    BY Initial
  <2>2. h[1 .. i] = StopClock(h[(1 .. i) \ {i}], q[i], time, Truncated)
    BY <1>3, <2>1
  <2> QED
    BY <1>4, <2>1, <2>2
<1> QED
  BY <1>2, <1>4, <1>5, <1>6 DEF ClocksSteps

NodesFolding(b, q, n, h) ==
  h = [s \in SUBSET (1 .. n) |-> IF s = {} THEN b ELSE Declared(h[s \ {Max(s)}], q[Max(s)])]

LEMMA NodesExists ==
  ASSUME NEW b, NEW q, NEW n \in Nat
  PROVE  \E h : NodesFolding(b, q, n, h)
<1> DEFINE P == {k \in Nat : \E h : NodesFolding(b, q, k, h)}
<1>1. 0 \in P
  <2> DEFINE h == [s \in SUBSET (1 .. 0) |-> b]
  <2>1. NodesFolding(b, q, 0, h)
    BY DEF NodesFolding
  <2> QED
    BY <2>1
<1>2. ASSUME NEW k \in P PROVE k + 1 \in P
  <2>1. PICK h : NodesFolding(b, q, k, h)
    OBVIOUS
  <2> DEFINE g == [s \in SUBSET (1 .. k + 1) |->
                     IF k + 1 \in s THEN Declared(h[s \ {k + 1}], q[k + 1]) ELSE h[s]]
  <2>2. ASSUME NEW s \in SUBSET (1 .. k + 1)
        PROVE  g[s] = IF s = {} THEN b ELSE Declared(g[s \ {Max(s)}], q[Max(s)])
    <3>1. CASE k + 1 \in s
      <4>1. Max(s) = k + 1 /\ s \ {k + 1} \in SUBSET (1 .. k) /\ s \ {k + 1} \in SUBSET (1 .. k + 1)
        BY <3>1, Subsets
      <4>2. g[s \ {k + 1}] = h[s \ {k + 1}]
        BY <4>1
      <4>3. g[s] = Declared(h[s \ {k + 1}], q[k + 1]) /\ s # {}
        BY <3>1
      <4> QED
        BY <4>1, <4>2, <4>3
    <3>2. CASE k + 1 \notin s
      <4>1. /\ s \in SUBSET (1 .. k) /\ s \ {Max(s)} \in SUBSET (1 .. k)
            /\ s \ {Max(s)} \in SUBSET (1 .. k + 1) /\ k + 1 \notin s \ {Max(s)}
        BY <3>2, Subsets
      <4>2. h[s] = IF s = {} THEN b ELSE Declared(h[s \ {Max(s)}], q[Max(s)])
        BY <2>1, <4>1 DEF NodesFolding
      <4>3. g[s] = h[s] /\ g[s \ {Max(s)}] = h[s \ {Max(s)}]
        BY <3>2, <4>1
      <4> QED
        BY <4>2, <4>3
    <3> QED
      BY <3>1, <3>2
  <2>3. g = [s \in SUBSET (1 .. k + 1) |-> g[s]]
    OBVIOUS
  <2> HIDE DEF g
  <2>4. NodesFolding(b, q, k + 1, g)
    BY <2>2, <2>3 DEF NodesFolding
  <2> QED
    BY <2>4
<1> HIDE DEF P
<1>3. n \in P
  BY <1>1, <1>2, Induction
<1> QED
  BY <1>3 DEF P

\* Nodes are declared one after the other.
NodesSteps(b, q, it) ==
  it[0] = b /\ \A i \in 1 .. Len(q) : it[i] = Declared(it[i - 1], q[i])
LEMMA NodesFolds ==
  ASSUME NEW b, NEW q, DOMAIN q = 1 .. Len(q), Len(q) \in Nat
  PROVE  \E it : NodesSteps(b, q, it) /\ FoldLeft(Declared, b, q) = it[Len(q)]
<1> DEFINE n == Len(q)
           h == CHOOSE h : NodesFolding(b, q, n, h)
           it == [i \in 0 .. n |-> h[1 .. i]]
<1>1. NodesFolding(b, q, n, h)
  BY NodesExists
<1>2. FoldLeft(Declared, b, q) = h[1 .. n]
  BY DEF FoldLeft, MapThenFoldSet, NodesFolding
<1> HIDE DEF h
<1>3. \A s \in SUBSET (1 .. n) :
        h[s] = IF s = {} THEN b ELSE Declared(h[s \ {Max(s)}], q[Max(s)])
  BY <1>1 DEF NodesFolding
<1>4. \A i \in 0 .. n : it[i] = h[1 .. i]
  OBVIOUS
<1> HIDE DEF it
<1>5. it[0] = b
  <2>1. 0 \in 0 .. n /\ 1 .. 0 = {} /\ {} \in SUBSET (1 .. n)
    OBVIOUS
  <2>2. h[{}] = b
    BY <1>3, <2>1
  <2> QED
    BY <1>4, <2>1, <2>2
<1>6. ASSUME NEW i \in 1 .. n PROVE it[i] = Declared(it[i - 1], q[i])
  <2>1. /\ i - 1 \in 0 .. n /\ 1 .. i \in SUBSET (1 .. n) /\ i \in 0 .. n
        /\ Max(1 .. i) = i /\ 1 .. i # {} /\ (1 .. i) \ {i} = 1 .. i - 1
    BY Initial
  <2>2. h[1 .. i] = Declared(h[(1 .. i) \ {i}], q[i])
    BY <1>3, <2>1
  <2> QED
    BY <1>4, <2>1, <2>2
<1> QED
  BY <1>2, <1>4, <1>5, <1>6 DEF NodesSteps

(***************************************************************************)
(* The stages of an owner end with it.                                     *)
(***************************************************************************)
LEMMA StagesStopped ==
  ASSUME NEW b, Sane(b), NEW q \in Seq(Nat), \A i \in 1 .. Len(q) : q[i] \in StageIds(b),
         \A i, j \in 1 .. Len(q) : q[i] = q[j] => i = j, NEW time
  PROVE  Ends(b, StopStages(b, q, time), Ranged(q))
<1> DEFINE n == Len(q)
<1>1. n \in Nat /\ DOMAIN q = 1 .. n
  BY LenProperties
<1>2. PICK it : StagesSteps(b, q, time, it) /\ StopStages(b, q, time) = it[n]
  BY <1>1, StagesFolds
<1> DEFINE P == {k \in Nat : k <= n => Ends(b, it[k], {q[j] : j \in 1 .. k})}
<1>3. 0 \in P
  <2>1. {q[j] : j \in 1 .. 0} = {} /\ it[0] = b
    BY <1>2 DEF StagesSteps
  <2> QED
    BY <2>1, EndsNone
<1>4. ASSUME NEW k \in Nat, k \in P PROVE k + 1 \in P
  <2>0. k + 1 \in Nat
    OBVIOUS
  <2> SUFFICES ASSUME k + 1 <= n PROVE Ends(b, it[k + 1], {q[j] : j \in 1 .. k + 1})
    BY <2>0, Zenon
  <2> DEFINE E == {q[j] : j \in 1 .. k}
  <2>1. Ends(b, it[k], E)
    BY <1>1, <1>4
  <2>2. k + 1 \in 1 .. n /\ (k + 1) - 1 = k /\ q[k + 1] \in StageIds(b)
    BY <1>1
  <2>3. q[k + 1] \notin E
    <3>1. \A j \in 1 .. k : j \in 1 .. n /\ j # k + 1
      BY <1>1, <2>2
    <3> QED
      BY <2>2, <3>1
  <2>4. {q[j] : j \in 1 .. k + 1} = E \cup {q[k + 1]}
    <3>1. 1 .. k + 1 = (1 .. k) \cup {k + 1}
      OBVIOUS
    <3> QED
      BY <3>1
  <2>5. it[k + 1] = StopStage(it[k], q[k + 1], time)
    BY <1>2, <2>2 DEF StagesSteps
  <2> HIDE DEF E
  <2>6. Sane(it[k]) /\ q[k + 1] \in StageIds(it[k])
    BY <2>1, <2>2, <2>3 DEF Ends, StageIds
  <2>7. Ends(it[k], it[k + 1], {q[k + 1]})
    BY <2>5, <2>6, StageStopped
  <2> QED
    BY <2>1, <2>4, <2>7, EndsOn
<1> HIDE DEF P
<1>5. n \in P
  BY <1>1, <1>3, <1>4, Induction
<1>6. Ends(b, it[n], {q[j] : j \in 1 .. n})
  BY <1>1, <1>5 DEF P
<1> QED
  BY <1>2, <1>6 DEF Ranged

LEMMA StagesDropped ==
  ASSUME NEW b, Sane(b), NEW q \in Seq(Nat), \A i \in 1 .. Len(q) : q[i] \in StageIds(b),
         \A i, j \in 1 .. Len(q) : q[i] = q[j] => i = j
  PROVE  Ends(b, FoldLeft(DropStage, b, q), Ranged(q))
<1> DEFINE n == Len(q)
<1>1. n \in Nat /\ DOMAIN q = 1 .. n
  BY LenProperties
<1>2. PICK it : DropsSteps(b, q, it) /\ FoldLeft(DropStage, b, q) = it[n]
  BY <1>1, DropsFolds
<1> DEFINE P == {k \in Nat : k <= n => Ends(b, it[k], {q[j] : j \in 1 .. k})}
<1>3. 0 \in P
  <2>1. {q[j] : j \in 1 .. 0} = {} /\ it[0] = b
    BY <1>2 DEF DropsSteps
  <2> QED
    BY <2>1, EndsNone
<1>4. ASSUME NEW k \in Nat, k \in P PROVE k + 1 \in P
  <2>0. k + 1 \in Nat
    OBVIOUS
  <2> SUFFICES ASSUME k + 1 <= n PROVE Ends(b, it[k + 1], {q[j] : j \in 1 .. k + 1})
    BY <2>0, Zenon
  <2> DEFINE E == {q[j] : j \in 1 .. k}
  <2>1. Ends(b, it[k], E)
    BY <1>1, <1>4
  <2>2. k + 1 \in 1 .. n /\ (k + 1) - 1 = k /\ q[k + 1] \in StageIds(b)
    BY <1>1
  <2>3. q[k + 1] \notin E
    <3>1. \A j \in 1 .. k : j \in 1 .. n /\ j # k + 1
      BY <1>1, <2>2
    <3> QED
      BY <2>2, <3>1
  <2>4. {q[j] : j \in 1 .. k + 1} = E \cup {q[k + 1]}
    <3>1. 1 .. k + 1 = (1 .. k) \cup {k + 1}
      OBVIOUS
    <3> QED
      BY <3>1
  <2>5. it[k + 1] = DropStage(it[k], q[k + 1])
    BY <1>2, <2>2 DEF DropsSteps
  <2> HIDE DEF E
  <2>6. Sane(it[k]) /\ q[k + 1] \in StageIds(it[k])
    BY <2>1, <2>2, <2>3 DEF Ends, StageIds
  <2>7. Ends(it[k], it[k + 1], {q[k + 1]})
    BY <2>5, <2>6, StageDropped
  <2> QED
    BY <2>1, <2>4, <2>7, EndsOn
<1> HIDE DEF P
<1>5. n \in P
  BY <1>1, <1>3, <1>4, Induction
<1>6. Ends(b, it[n], {q[j] : j \in 1 .. n})
  BY <1>1, <1>5 DEF P
<1> QED
  BY <1>2, <1>6 DEF Ranged

\* The stages of an owner.
StagesOf(b, id) == {s.value.id : s \in {x \in b.stages : x.value.parent = id}}

LEMMA OpenStopped ==
  ASSUME NEW b, Sane(b), NEW id \in Held(b), NEW time
  PROVE  Ends(b, StopOpen(b, id, time), StagesOf(b, id))
<1> DEFINE q == Open(b, id)
<1>1. q \in Seq(Nat)
  BY HeldAre DEF Sane
<1>2. \A i \in 1 .. Len(q) : q[i] \in StageIds(b) /\ q[i] \in StagesOf(b, id)
  <2> TAKE i \in 1 .. Len(q)
  <2>1. PICK s \in b.stages : s.value.id = q[i] /\ s.value.parent = id
    BY DEF Sane, Linked
  <2> QED
    BY <2>1 DEF StageIds, StagesOf
<1>3. \A i, j \in 1 .. Len(q) : q[i] = q[j] => i = j
  BY DEF Sane, Linked
<1>4. \A s \in b.stages : s.value.parent = id => \E i \in 1 .. Len(q) : q[i] = s.value.id
  BY DEF Sane, Linked, Listed
<1>5. StopOpen(b, id, time) = StopStages(b, q, time)
  BY DEF StopOpen, Open
<1> HIDE DEF q
<1>6. Ranged(q) = StagesOf(b, id)
  BY <1>2, <1>4 DEF Ranged, StagesOf
<1>7. Ends(b, StopStages(b, q, time), Ranged(q))
  BY <1>1, <1>2, <1>3, StagesStopped
<1> QED
  BY <1>5, <1>6, <1>7

LEMMA OpensStopped ==
  ASSUME NEW b, Sane(b), NEW q \in Seq(Nat), \A i \in 1 .. Len(q) : q[i] \in Held(b), NEW time
  PROVE  LET c == StopOpens(b, q, time) IN
         /\ \E E : Ends(b, c, E)
         /\ \A j \in 1 .. Len(q) : \A s \in c.stages : s.value.parent # q[j]
<1> DEFINE n == Len(q)
<1>1. n \in Nat /\ DOMAIN q = 1 .. n
  BY LenProperties
<1>2. PICK it : OpensSteps(b, q, time, it) /\ StopOpens(b, q, time) = it[n]
  BY <1>1, OpensFolds
<1> DEFINE D(k) == /\ \E E : Ends(b, it[k], E)
                   /\ \A j \in 1 .. k : \A s \in it[k].stages : s.value.parent # q[j]
<1>3. D(0)
  <2>1. it[0] = b
    BY <1>2 DEF OpensSteps
  <2> QED
    BY <2>1, EndsNone
<1>4. ASSUME NEW k \in Nat, D(k), k + 1 <= n PROVE D(k + 1)
  <2>1. PICK E : Ends(b, it[k], E)
    BY <1>4
  <2>2. k + 1 \in 1 .. n /\ (k + 1) - 1 = k /\ q[k + 1] \in Held(b)
    BY <1>1, <1>4
  <2>3. it[k + 1] = StopOpen(it[k], q[k + 1], time)
    BY <1>2, <2>2 DEF OpensSteps
  <2>4. Sane(it[k]) /\ q[k + 1] \in Held(it[k])
    BY <2>1, <2>2 DEF Ends
  <2>5. Ends(it[k], it[k + 1], StagesOf(it[k], q[k + 1]))
    BY <2>3, <2>4, OpenStopped
  <2>6. Ends(b, it[k + 1], E \cup StagesOf(it[k], q[k + 1]))
    BY <2>1, <2>5, EndsOn
  <2>7. ASSUME NEW j \in 1 .. k + 1, NEW s \in it[k + 1].stages PROVE s.value.parent # q[j]
    <3>1. s \in it[k].stages /\ s.value.id \notin StagesOf(it[k], q[k + 1])
      BY <2>5 DEF Ends
    <3>2. CASE j \in 1 .. k
      BY <1>4, <3>1, <3>2
    <3>3. CASE j = k + 1
      BY <3>1, <3>3 DEF StagesOf
    <3> QED
      BY <3>2, <3>3
  <2> QED
    BY <2>6, <2>7
<1> DEFINE P == {k \in Nat : k <= n => D(k)}
<1> HIDE DEF D
<1>5. ASSUME NEW k \in Nat, k \in P PROVE k + 1 \in P
  BY <1>1, <1>4, <1>5
<1>6. 0 \in P
  BY <1>3
<1> HIDE DEF P
<1>7. n \in P
  BY <1>1, <1>5, <1>6, Induction
<1>8. D(n)
  BY <1>1, <1>7 DEF P
<1> QED
  BY <1>2, <1>8 DEF D

(***************************************************************************)
(* Owners go.                                                              *)
(***************************************************************************)
LEMMA Forgotten ==
  ASSUME NEW b, Sane(b), NEW id \in Nat \ {0}, b.records = << >>,
         \A s \in b.stages : s.value.parent # id
  PROVE  LET c == Forget(b, id) IN
         /\ Sane(c) /\ c.records = << >> /\ c.nodes = b.nodes /\ c.stages = b.stages
         /\ Held(c) = Held(b) \ {id}
         /\ c.claims = {x \in b.claims : x.resource # <<"record", id>>}
<1> DEFINE r == RemoveOwner(b, id)
           c == Forget(b, id)
<1>1. /\ IsBackend(r) /\ Table(r) /\ SameBut(b, r) /\ Held(r) = Held(b) \ {id}
      /\ \A i \in Held(r) : Owner(r, i) = Owner(b, i)
  BY OwnerRemoved DEF Sane
<1>2. c = [r EXCEPT !.claims = {x \in @ : x.resource # <<"record", id>>}]
  BY DEF Forget, Release
<1> HIDE DEF r, c
<1>3. /\ r.nodes = b.nodes /\ r.stages = b.stages /\ r.records = b.records
      /\ r.claims = b.claims /\ r.lost = b.lost
  BY <1>1 DEF SameBut, Sane, IsBackend
<1>4. /\ IsBackend(c) /\ c.slots = r.slots /\ c.overflow = r.overflow /\ c.nodes = b.nodes
      /\ c.stages = b.stages /\ c.records = b.records /\ c.lost = b.lost
      /\ c.claims = {x \in b.claims : x.resource # <<"record", id>>}
  BY <1>1, <1>2, <1>3 DEF IsBackend
<1>5. /\ Table(c) /\ Held(c) = Held(b) \ {id} /\ \A i \in Held(c) : Open(c, i) = Open(b, i)
  BY <1>1, <1>4, SameTable DEF Open
<1>6. NodesOK(c) /\ StagesOK(c)
  BY <1>4 DEF Sane, NodesOK, StagesOK
<1>7. Linked(c)
  BY <1>4, <1>5 DEF Sane, Linked, Listed
<1>8. RecordsOK(c)
  <2>1. Len(c.records) = 0 /\ c.records = << >>
    BY <1>4
  <2>2. c.records \in Seq(Ranged(c.records))
    BY <2>1
  <2> QED
    BY <2>1, <2>2 DEF RecordsOK
<1> QED
  BY <1>4, <1>5, <1>6, <1>7, <1>8 DEF Sane, c

\* The step from b to c has ended this owner, with its stages and all claims.
Gone(b, c, id) ==
  /\ Sane(c) /\ c.nodes = b.nodes /\ Held(c) = Held(b) \ {id}
  /\ c.stages = {s \in b.stages : s.value.parent # id}
  /\ c.claims = {x \in b.claims : x.resource \notin Claims(StagesOf(b, id) \cup {id})}

LEMMA OwnerStopped ==
  ASSUME NEW b, Sane(b), NEW id \in Held(b), NEW time, NEW status
  PROVE  Gone(b, StopOwner(b, id, time, status), id)
<1> DEFINE end == Max({time, Owner(b, id).value.begin})
           o == StopOpen(b, id, end)
           f == FlushRecords(o)
           g == Forget(f, id)
           c == StopOwner(b, id, time, status)
<1>1. Ends(b, o, StagesOf(b, id))
  BY OpenStopped
<1>2. PICK row : c = SubmitTransaction(g, row)
  BY Zenon DEF StopOwner
<1>3. Sane(f) /\ Keeps(o, f) /\ f.records = << >>
  <2> HIDE DEF o
  <2> QED
    BY <1>1, FlushedRecords DEF Ends
<1> HIDE DEF end, o, f
<1>4. Ends(b, f, StagesOf(b, id))
  BY <1>1, <1>3, KeepsEnds
<1>5. id \in Nat \ {0}
  BY HeldAre DEF Sane
<1>6. ASSUME NEW s \in b.stages PROVE s.value.id \in StagesOf(b, id) <=> s.value.parent = id
  <2>1. \A t \in b.stages : t.value.id = s.value.id => t = s
    BY DEF Sane, StagesOK
  <2> QED
    BY <2>1 DEF StagesOf
<1>7. f.stages = {s \in b.stages : s.value.parent # id}
  BY <1>4, <1>6 DEF Ends
<1>8. /\ Sane(g) /\ g.nodes = b.nodes /\ g.stages = f.stages /\ Held(g) = Held(b) \ {id}
      /\ g.claims = {x \in f.claims : x.resource # <<"record", id>>}
  <2>1. f.nodes = b.nodes /\ Held(f) = Held(b)
    BY <1>4 DEF Ends
  <2> QED
    BY <1>3, <1>5, <1>7, <2>1, Forgotten
<1> HIDE DEF g, c
<1>9. Same(g, c) /\ c.claims = g.claims
  BY <1>2, <1>8, SubmittedTransaction DEF Sane
<1>10. Sane(c) /\ Keeps(g, c)
  BY <1>8, <1>9, SameSane
<1>11. g.claims = {x \in b.claims : x.resource \notin Claims(StagesOf(b, id) \cup {id})}
  <2>1. Claims(StagesOf(b, id) \cup {id}) = Claims(StagesOf(b, id)) \cup {<<"record", id>>}
    BY DEF Claims
  <2> QED
    BY <1>4, <1>8, <2>1 DEF Ends
<1> QED
  BY <1>7, <1>8, <1>10, <1>11 DEF Keeps, Gone, c

LEMMA ClockStopped ==
  ASSUME NEW b, IsBackend(b), NEW g, NEW time, NEW status
  PROVE  Same(b, StopClock(b, g, time, status)) /\ StopClock(b, g, time, status).claims = b.claims
<1> DEFINE alone(x) == IF SeparateClocks THEN FlushTransactions(x) ELSE x
<1>1. ASSUME NEW x, IsBackend(x) PROVE Same(x, alone(x)) /\ alone(x).claims = x.claims
  <2>1. CASE SeparateClocks
    BY <1>1, <2>1, FlushedTransactions
  <2>2. CASE ~SeparateClocks
    BY <1>1, <2>2 DEF Same
  <2> QED
    BY <2>1, <2>2
<1> DEFINE clock == b.clocks[g]
           last == clock.begin + ((Max({time, clock.begin}) - clock.begin) \div clock.period)
                                 * clock.period
           named == IF last = clock.begin \/ b.periodName # 0 THEN b
                    ELSE [b EXCEPT !.periodName = b.strings, !.strings = @ + 1]
           row == [NoTransaction EXCEPT !.id = clock.id, !.generator = g, !.begin = clock.begin,
                     !.end = last, !.status = status,
                     !.keys = IF last = clock.begin THEN {} ELSE {named.periodName},
                     !.period = IF last = clock.begin THEN 0 ELSE clock.period]
<1>2. /\ \/ named = b
         \/ \E name, strings : named = [b EXCEPT !.periodName = name, !.strings = strings]
      /\ StopClock(b, g, time, status)
           = [alone(SubmitTransaction(alone(named), row)) EXCEPT
                !.clocks[g].id = 0, !.clocks[g].previous = last]
  <2>1. StopClock(b, g, time, status)
           = [alone(SubmitTransaction(alone(named), row)) EXCEPT
                !.clocks[g].id = 0, !.clocks[g].previous = last]
    BY DEF StopClock
  <2>2. named = b \/ named = [b EXCEPT !.periodName = b.strings, !.strings = @ + 1]
    <3> HIDE DEF last
    <3> QED
      BY Zenon
  <2> HIDE DEF named, row, last, alone
  <2> QED
    BY <2>1, <2>2
<1> HIDE DEF named, row, last
<1> HIDE DEF alone
<1>3. Same(b, named) /\ named.claims = b.claims
  BY <1>2 DEF Same, IsBackend
<1>4. Same(named, alone(named)) /\ alone(named).claims = named.claims
  BY <1>1, <1>3 DEF Same
<1> DEFINE s == SubmitTransaction(alone(named), row)
<1>5. Same(alone(named), s) /\ s.claims = alone(named).claims
  BY <1>4, SubmittedTransaction DEF Same
<1> HIDE DEF s
<1>6. Same(s, alone(s)) /\ alone(s).claims = s.claims
  BY <1>1, <1>5 DEF Same
<1>7. Same(b, alone(s)) /\ alone(s).claims = b.claims
  BY <1>3, <1>4, <1>5, <1>6 DEF Same
<1>8. StopClock(b, g, time, status)
        = [alone(s) EXCEPT !.clocks[g].id = 0, !.clocks[g].previous = last]
  BY <1>2 DEF s
<1>9. PICK a : a = alone(s)
  OBVIOUS
<1>10. PICK clocks : StopClock(b, g, time, status) = [a EXCEPT !.clocks = clocks]
  <2>1. StopClock(b, g, time, status)
          = [a EXCEPT !.clocks = [[a.clocks EXCEPT ![g].id = 0] EXCEPT ![g].previous = last]]
    BY <1>7, <1>8, <1>9 DEF Same, IsBackend
  <2> QED
    BY <2>1
<1> QED
  BY <1>7, <1>9, <1>10 DEF Same, IsBackend

(***************************************************************************)
(* Sets of numbers in order.                                               *)
(***************************************************************************)
LEMMA AscendingIs ==
  ASSUME NEW S, S \in SUBSET Nat, IsFiniteSet(S)
  PROVE  /\ Ascending(S) \in Seq(Nat)
         /\ \A i \in 1 .. Len(Ascending(S)) : Ascending(S)[i] \in S
         /\ \A i, j \in 1 .. Len(Ascending(S)) : Ascending(S)[i] = Ascending(S)[j] => i = j
<1> DEFINE n == Cardinality(S)
           below(x) == {y \in S : y < x}
           f == [x \in S |-> Cardinality(below(x))]
           q == Ascending(S)
<1>1. n \in Nat
  BY FS_CardinalityType
<1>2. ASSUME NEW x \in S
      PROVE  IsFiniteSet(below(x)) /\ f[x] \in 0 .. n - 1 /\ f[x] = Cardinality(below(x))
  <2>1. below(x) \in SUBSET S /\ x \notin below(x)
    OBVIOUS
  <2>2. f[x] = Cardinality(below(x))
    OBVIOUS
  <2> HIDE DEF below
  <2>3. /\ IsFiniteSet(below(x)) /\ Cardinality(below(x)) <= n
        /\ (n = Cardinality(below(x)) => S = below(x))
    BY <2>1, FS_Subset
  <2>4. Cardinality(below(x)) \in Nat /\ Cardinality(below(x)) # n
    BY <2>1, <2>3, FS_CardinalityType
  <2> HIDE DEF f, n
  <2> QED
    BY <1>1, <2>2, <2>3, <2>4
<1>3. q = [i \in 1 .. n |-> CHOOSE x \in S : f[x] = i - 1]
  <2>1. q = [i \in 1 .. n |-> CHOOSE x \in S : Cardinality(below(x)) = i - 1]
    BY DEF Ascending
  <2> HIDE DEF below
  <2> QED
    BY <2>1
<1>4. f \in [S -> 0 .. n - 1]
  BY <1>2
<1> HIDE DEF f, q
<1>5. ASSUME NEW x \in S, NEW y \in S, x < y PROVE f[x] < f[y]
  <2>1. below(x) \in SUBSET below(y) /\ x \in below(y) /\ x \notin below(x)
    <3>1. x \in Nat /\ y \in Nat /\ ~(x < x)
      OBVIOUS
    <3>2. \A z \in S : z < x => z < y
      <4> TAKE z \in S
      <4>1. z \in Nat
        OBVIOUS
      <4> QED
        BY <1>5, <3>1, <4>1
    <3> QED
      BY <1>5, <3>1, <3>2
  <2>2. IsFiniteSet(below(y)) /\ f[x] \in 0 .. n - 1 /\ f[y] \in 0 .. n - 1
        /\ f[x] = Cardinality(below(x)) /\ f[y] = Cardinality(below(y))
    BY <1>2
  <2> HIDE DEF below, n
  <2>3. /\ Cardinality(below(x)) <= Cardinality(below(y))
        /\ (Cardinality(below(y)) = Cardinality(below(x)) => below(y) = below(x))
    BY <2>1, <2>2, FS_Subset
  <2> QED
    BY <1>1, <2>1, <2>2, <2>3
<1> HIDE DEF below, n
<1>6. ASSUME NEW x \in S, NEW y \in S, f[x] = f[y] PROVE x = y
  <2>1. x \in Nat /\ y \in Nat /\ f[x] \in Int /\ f[y] \in Int
    BY <1>1, <1>4
  <2>2. ~(f[x] < f[y]) /\ ~(f[y] < f[x])
    BY <1>6, <2>1
  <2>3. ~(x < y) /\ ~(y < x)
    BY <1>5, <2>2
  <2> QED
    BY <2>1, <2>3
<1>7. \A i \in 1 .. n : \E x \in S : f[x] = i - 1
  <2>1. f \in Injection(S, 0 .. n - 1)
    BY <1>4, <1>6 DEF Injection, IsInjective
  <2>2. /\ IsFiniteSet(0 .. n - 1)
        /\ Cardinality(0 .. n - 1) = IF 0 > n - 1 THEN 0 ELSE (n - 1) - 0 + 1
    <3>1. 0 \in Int /\ n - 1 \in Int
      BY <1>1
    <3> QED
      BY <3>1, FS_Interval
  <2>3. Cardinality(S) = Cardinality(0 .. n - 1)
    BY <1>1, <2>2 DEF n
  <2>4. f \in Surjection(S, 0 .. n - 1)
    BY <2>1, <2>2, <2>3, FS_Injection
  <2> TAKE i \in 1 .. n
  <2>5. i - 1 \in 0 .. n - 1
    BY <1>1
  <2> QED
    BY <2>4, <2>5 DEF Surjection
<1>8. \A i \in 1 .. n : q[i] \in S /\ f[q[i]] = i - 1
  BY <1>3, <1>7
<1>9. q \in Seq(Nat) /\ Len(q) = n
  <2>1. q \in [1 .. n -> Nat]
    BY <1>3, <1>8
  <2> QED
    BY <1>1, <2>1
<1>10. \A i, j \in 1 .. n : q[i] = q[j] => i = j
  <2> TAKE i \in 1 .. n, j \in 1 .. n
  <2>1. i \in Int /\ j \in Int
    BY <1>1
  <2>2. q[i] = q[j] => i - 1 = j - 1
    BY <1>8
  <2> QED
    BY <2>1, <2>2
<1> QED
  BY <1>8, <1>9, <1>10 DEF q

(***************************************************************************)
(* Recordings end.                                                         *)
(***************************************************************************)
LEMMA AllForgotten ==
  ASSUME NEW b, Sane(b), NEW q \in Seq(Nat), b.records = << >>,
         \A i \in 1 .. Len(q) : q[i] # 0 /\ \A s \in b.stages : s.value.parent # q[i]
  PROVE  LET c == FoldLeft(Forget, b, q) IN
         Sane(c) /\ c.stages = b.stages /\ Held(c) \subseteq Held(b)
<1> DEFINE n == Len(q)
<1>1. n \in Nat /\ DOMAIN q = 1 .. n /\ \A i \in 1 .. n : q[i] \in Nat
  BY LenProperties
<1>2. PICK it : ForgetsSteps(b, q, it) /\ FoldLeft(Forget, b, q) = it[n]
  BY <1>1, ForgetsFolds
<1> DEFINE D(k) == /\ Sane(it[k]) /\ it[k].records = << >> /\ it[k].stages = b.stages
                   /\ Held(it[k]) \subseteq Held(b)
<1>3. D(0)
  BY <1>2 DEF ForgetsSteps
<1>4. ASSUME NEW k \in Nat, D(k), k + 1 <= n PROVE D(k + 1)
  <2>1. k + 1 \in 1 .. n /\ (k + 1) - 1 = k
    BY <1>1, <1>4
  <2>2. it[k + 1] = Forget(it[k], q[k + 1])
    BY <1>2, <2>1 DEF ForgetsSteps
  <2>3. q[k + 1] \in Nat \ {0} /\ \A s \in it[k].stages : s.value.parent # q[k + 1]
    BY <1>1, <1>4, <2>1
  <2> QED
    BY <1>4, <2>2, <2>3, Forgotten
<1> DEFINE P == {k \in Nat : k <= n => D(k)}
<1> HIDE DEF D
<1>5. ASSUME NEW k \in Nat, k \in P PROVE k + 1 \in P
  BY <1>1, <1>4, <1>5
<1>6. 0 \in P
  BY <1>3
<1> HIDE DEF P
<1>7. n \in P
  BY <1>1, <1>5, <1>6, Induction
<1>8. D(n)
  BY <1>1, <1>7 DEF P
<1> QED
  BY <1>2, <1>8 DEF D

LEMMA OwnersStopped ==
  ASSUME NEW b, Sane(b), NEW q \in Seq(Nat), \A i \in 1 .. Len(q) : q[i] \in Held(b),
         \A i, j \in 1 .. Len(q) : q[i] = q[j] => i = j, NEW time
  PROVE  Sane(StopOwners(b, q, time))
<1> DEFINE n == Len(q)
<1>1. n \in Nat /\ DOMAIN q = 1 .. n
  BY LenProperties
<1>2. PICK it : OwnersSteps(b, q, time, it) /\ StopOwners(b, q, time) = it[n]
  BY <1>1, OwnersFolds
<1> DEFINE D(k) == Sane(it[k]) /\ Held(it[k]) = Held(b) \ {q[j] : j \in 1 .. k}
<1>3. D(0)
  BY <1>2 DEF OwnersSteps
<1>4. ASSUME NEW k \in Nat, D(k), k + 1 <= n PROVE D(k + 1)
  <2>1. k + 1 \in 1 .. n /\ (k + 1) - 1 = k /\ q[k + 1] \in Held(b)
    BY <1>1, <1>4
  <2>2. it[k + 1] = StopOwner(it[k], q[k + 1], time, Truncated)
    BY <1>2, <2>1 DEF OwnersSteps
  <2>3. q[k + 1] \in Held(it[k])
    <3>1. \A j \in 1 .. k : j \in 1 .. n /\ j # k + 1
      BY <1>1, <2>1
    <3> QED
      BY <1>4, <2>1, <3>1
  <2>4. Sane(it[k + 1]) /\ Held(it[k + 1]) = Held(it[k]) \ {q[k + 1]}
    <3>1. PICK x, id : x = it[k] /\ id = q[k + 1]
      OBVIOUS
    <3>2. Sane(x) /\ id \in Held(x)
      BY <1>4, <2>3, <3>1
    <3>3. /\ Sane(StopOwner(x, id, time, Truncated))
          /\ Held(StopOwner(x, id, time, Truncated)) = Held(x) \ {id}
      <4>1. Gone(x, StopOwner(x, id, time, Truncated), id)
        BY <3>2, OwnerStopped
      <4> QED
        BY <4>1 DEF Gone
    <3> QED
      BY <2>2, <3>1, <3>3
  <2>5. 1 .. k + 1 = (1 .. k) \cup {k + 1}
    OBVIOUS
  <2>6. {q[j] : j \in 1 .. k + 1} = {q[j] : j \in 1 .. k} \cup {q[k + 1]}
    BY <2>5
  <2> QED
    BY <1>4, <2>4, <2>6
<1> DEFINE P == {k \in Nat : k <= n => D(k)}
<1> HIDE DEF D
<1>5. ASSUME NEW k \in Nat, k \in P PROVE k + 1 \in P
  BY <1>1, <1>4, <1>5
<1>6. 0 \in P
  BY <1>3
<1> HIDE DEF P
<1>7. n \in P
  BY <1>1, <1>5, <1>6, Induction
<1>8. D(n)
  BY <1>1, <1>7 DEF P
<1> QED
  BY <1>2, <1>8 DEF D

LEMMA ClocksStopped ==
  ASSUME NEW b, Sane(b), NEW q \in Seq(Nat), NEW time
  PROVE  Sane(StopClocks(b, q, time))
<1> DEFINE n == Len(q)
<1>1. n \in Nat /\ DOMAIN q = 1 .. n
  BY LenProperties
<1>2. PICK it : ClocksSteps(b, q, time, it) /\ StopClocks(b, q, time) = it[n]
  BY <1>1, ClocksFolds
<1> DEFINE P == {k \in Nat : k <= n => Sane(it[k])}
<1>3. 0 \in P
  BY <1>2 DEF ClocksSteps
<1>4. ASSUME NEW k \in Nat, k \in P PROVE k + 1 \in P
  <2> SUFFICES ASSUME k + 1 <= n PROVE Sane(it[k + 1])
    OBVIOUS
  <2>1. k + 1 \in 1 .. n /\ (k + 1) - 1 = k /\ Sane(it[k])
    BY <1>1, <1>4
  <2>2. it[k + 1] = StopClock(it[k], q[k + 1], time, Truncated)
    BY <1>2, <2>1 DEF ClocksSteps
  <2>3. Same(it[k], it[k + 1])
    BY <2>1, <2>2, ClockStopped DEF Sane
  <2> QED
    BY <2>1, <2>3, SameSane
<1> HIDE DEF P
<1>5. n \in P
  BY <1>1, <1>3, <1>4, Induction
<1> QED
  BY <1>1, <1>2, <1>5 DEF P

LEMMA AllFlushed ==
  ASSUME NEW b, Sane(b)
  PROVE  Sane(FlushAll(b)) /\ Keeps(b, FlushAll(b))
<1> DEFINE c == FlushRecords(b)
           d == FlushTransactions(c)
           e == Publish(d)
           f == FlushBlackouts(e)
<1>1. Sane(c) /\ Keeps(b, c)
  BY FlushedRecords
<1> HIDE DEF c
<1>2. Same(c, d) /\ d.claims = c.claims
  BY <1>1, FlushedTransactions DEF Sane
<1> HIDE DEF d
<1>3. Same(d, e) /\ e.claims = d.claims
  BY <1>2, Published DEF Same
<1> HIDE DEF e
<1>4. Same(e, f) /\ f.claims = e.claims
  BY <1>3, FlushedBlackouts DEF Same
<1> HIDE DEF f
<1>5. Same(c, f) /\ f.claims = c.claims
  BY <1>2, <1>3, <1>4 DEF Same
<1>6. Sane(f) /\ Keeps(c, f)
  BY <1>1, <1>5, SameSane
<1>7. f = FlushAll(b)
  BY DEF FlushAll, c, d, e, f
<1> QED
  BY <1>1, <1>6, <1>7 DEF Keeps

\* The records that are open.
Live(b) == Held(b) \cup StageIds(b)

LEMMA AllFinished ==
  ASSUME NEW b, Sane(b), IsFiniteSet(Held(b))
  PROVE  Sane(FinishAll(b))
<1> DEFINE owners == Ascending(Held(b))
           clocks == {g \in DOMAIN b.nodes : b.nodes[g].kind = "clock" /\ b.clocks[g].id # 0}
           running == Ascending(clocks)
           c == StopOwners(b, owners, b.captured)
           d == StopClocks(c, running, b.captured)
<1>1. FinishAll(b) = FlushAll(d)
  BY DEF FinishAll, Held
<1>2. Held(b) \in SUBSET Nat
  BY HeldAre DEF Sane
<1>3. Sane(c)
  <2>1. /\ owners \in Seq(Nat) /\ \A i \in 1 .. Len(owners) : owners[i] \in Held(b)
        /\ \A i, j \in 1 .. Len(owners) : owners[i] = owners[j] => i = j
    BY <1>2, AscendingIs
  <2> HIDE DEF owners
  <2> QED
    BY <2>1, OwnersStopped
<1>4. running \in Seq(Nat)
  <2>1. DOMAIN b.nodes = 1 .. Len(b.nodes) /\ Len(b.nodes) \in Nat
    BY LenProperties DEF Sane, NodesOK
  <2>2. clocks \in SUBSET (1 .. Len(b.nodes)) /\ IsFiniteSet(1 .. Len(b.nodes))
    BY <2>1, Interval
  <2>3. IsFiniteSet(clocks)
    <3> HIDE DEF clocks
    <3> QED
      BY <2>2, FS_Subset
  <2>4. clocks \in SUBSET Nat
    BY <2>1, <2>2
  <2> HIDE DEF clocks
  <2> QED
    BY <2>3, <2>4, AscendingIs
<1> HIDE DEF running, c
<1>5. Sane(d)
  BY <1>3, <1>4, ClocksStopped
<1> HIDE DEF d
<1> QED
  BY <1>1, <1>5, AllFlushed

LEMMA MissingDiscarded ==
  ASSUME NEW b, Sane(b), IsFiniteSet(Live(b))
  PROVE  Sane(DiscardMissingPayloads(b)) /\ Held(DiscardMissingPayloads(b)) \subseteq Held(b)
<1> DEFINE S == {s.value.id : s \in {x \in b.stages : ~x.ready}}
           H == {o.value.id : o \in {x \in Owners(b) : ~x.ready}}
           stages == Ascending(S)
           bare == Ascending(H)
           dropped == FoldLeft(DropStage, b, stages)
           ended == StopOpens(dropped, bare, b.captured)
           stopped == FlushRecords(ended)
           c == FoldLeft(Forget, stopped, bare)
<1>1. DiscardMissingPayloads(b) = c
  BY DEF DiscardMissingPayloads
<1>2. /\ S \in SUBSET Nat /\ IsFiniteSet(S) /\ S \in SUBSET StageIds(b)
      /\ H \in SUBSET Nat /\ IsFiniteSet(H) /\ H \in SUBSET Held(b)
  <2>1. \A s \in b.stages : s.value.id \in Nat
    BY DEF Sane, StagesOK, IsStage
  <2>2. S \in SUBSET Nat /\ S \in SUBSET StageIds(b)
    BY <2>1 DEF StageIds
  <2>3. H \in SUBSET Held(b)
    BY DEF Held
  <2>4. H \in SUBSET Nat
    BY <2>3, HeldAre DEF Sane
  <2> HIDE DEF S, H
  <2>5. S \in SUBSET Live(b) /\ H \in SUBSET Live(b)
    BY <2>2, <2>3 DEF Live
  <2> QED
    BY <2>2, <2>3, <2>4, <2>5, FS_Subset
<1> HIDE DEF S, H
<1>3. /\ stages \in Seq(Nat) /\ \A i \in 1 .. Len(stages) : stages[i] \in StageIds(b)
      /\ \A i, j \in 1 .. Len(stages) : stages[i] = stages[j] => i = j
  BY <1>2, AscendingIs
<1>4. bare \in Seq(Nat) /\ \A i \in 1 .. Len(bare) : bare[i] \in Held(b)
  BY <1>2, AscendingIs
<1> HIDE DEF stages, bare
<1>5. Ends(b, dropped, Ranged(stages))
  BY <1>3, StagesDropped
<1> HIDE DEF dropped
<1>6. /\ \E E : Ends(dropped, ended, E)
      /\ \A j \in 1 .. Len(bare) : \A s \in ended.stages : s.value.parent # bare[j]
  <2>1. Sane(dropped) /\ Held(dropped) = Held(b)
    BY <1>5 DEF Ends
  <2> QED
    BY <1>4, <2>1, OpensStopped
<1>7. Sane(ended) /\ Held(ended) = Held(b)
  BY <1>5, <1>6 DEF Ends
<1> HIDE DEF ended
<1>8. Sane(stopped) /\ Keeps(ended, stopped) /\ stopped.records = << >>
  BY <1>7, FlushedRecords
<1> HIDE DEF stopped
<1>9. \A i \in 1 .. Len(bare) : bare[i] # 0 /\ \A s \in stopped.stages : s.value.parent # bare[i]
  <2>1. \A id \in Held(b) : id # 0
    BY HeldAre DEF Sane
  <2> QED
    BY <1>4, <1>6, <1>8, <2>1 DEF Keeps
<1>10. Sane(c) /\ Held(c) \subseteq Held(stopped)
  BY <1>4, <1>8, <1>9, AllForgotten
<1> QED
  BY <1>1, <1>7, <1>8, <1>10 DEF Keeps

(***************************************************************************)
(* What is declared.                                                       *)
(***************************************************************************)
LEMMA NodeDeclared ==
  ASSUME NEW b, Sane(b), NEW node, IsNode(node)
  PROVE  LET c == Declared(b, node) IN
         /\ Sane(c) /\ c.nodes = Append(b.nodes, node) /\ Len(c.nodes) = Len(b.nodes) + 1
         /\ c.nodes[Len(c.nodes)] = node
         /\ c.stages = b.stages /\ c.claims = b.claims /\ Held(c) = Held(b)
<1>1. PICK strings, types, clocks :
        Declared(b, node) = [b EXCEPT !.strings = strings, !.types = types,
                                      !.nodes = Append(@, node), !.clocks = clocks]
  BY Zenon DEF Declared
<1>2. PICK c : c = Declared(b, node)
  OBVIOUS
<1>3. /\ IsBackend(c) /\ c.slots = b.slots /\ c.overflow = b.overflow
      /\ c.nodes = Append(b.nodes, node) /\ c.stages = b.stages /\ c.claims = b.claims
      /\ c.records = b.records /\ c.lost = b.lost
  BY <1>1, <1>2, ZenonT(60) DEF Sane, IsBackend
<1>4. Held(c) = Held(b) /\ Table(c) /\ \A id : Open(c, id) = Open(b, id)
  BY <1>3, SameTable DEF Sane
<1>5. /\ c.nodes \in Seq(Ranged(c.nodes)) /\ Len(c.nodes) = Len(b.nodes) + 1
      /\ c.nodes[Len(b.nodes) + 1] = node
      /\ \A i \in 1 .. Len(b.nodes) : c.nodes[i] = b.nodes[i]
      /\ Len(b.nodes) \in Nat
  BY <1>3, Longer DEF Sane, NodesOK
<1>6. \A i \in 1 .. Len(c.nodes) : i \in 1 .. Len(b.nodes) \/ i = Len(b.nodes) + 1
  BY <1>5
<1>7. \A i \in 1 .. Len(b.nodes) : i \in 1 .. Len(c.nodes)
  BY <1>5
<1>8. NodesOK(c)
  BY <1>5, <1>6 DEF Sane, NodesOK
<1>9. StagesOK(c)
  BY <1>3, <1>7 DEF Sane, StagesOK
<1>10. Linked(c)
  BY <1>3, <1>4 DEF Sane, Linked, Listed
<1>11. RecordsOK(c)
  <2>1. \A r : Housed(b, r) => Housed(c, r)
    BY <1>4, <1>5, <1>7 DEF Housed
  <2> QED
    BY <1>3, <2>1 DEF Sane, RecordsOK
<1>12. Sane(c)
  BY <1>3, <1>4, <1>8, <1>9, <1>10, <1>11 DEF Sane
<1> QED
  BY <1>2, <1>3, <1>4, <1>5, <1>12

LEMMA EmptySane == Sane(Empty) /\ Held(Empty) = {} /\ Empty.stages = {} /\ Empty.claims = {}
                   /\ Empty.nodes = << >>
<1>1. IsValue(NoTransaction) /\ NoTransaction.id = 0
  BY DEF IsValue, NoTransaction
<1>2. IsOwner(Vacant) /\ Vacant.value.id = 0
  BY <1>1 DEF IsOwner, Vacant
<1>3. PICK b : b = Empty
  OBVIOUS
<1>4. /\ b.slots = [i \in 0 .. Slots - 1 |-> Vacant] /\ b.overflow = {} /\ b.stages = {}
      /\ b.claims = {} /\ b.nodes = << >> /\ b.records = << >> /\ b.lost = FALSE
  BY <1>3 DEF Empty
<1>5. IsBackend(b)
  BY <1>3 DEF Empty, IsBackend
<1>6. Table(b)
  BY <1>2, <1>4 DEF Table
<1>7. Owners(b) = {}
  BY <1>4 DEF Owners
<1>8. Held(b) = {}
  BY <1>7 DEF Held
<1>9. NodesOK(b) /\ RecordsOK(b)
  <2>1. \A S : << >> \in Seq(S)
    OBVIOUS
  <2>2. Len(<< >>) = 0
    OBVIOUS
  <2> QED
    BY <1>4, <2>1, <2>2 DEF NodesOK, RecordsOK
<1>10. StagesOK(b) /\ Linked(b)
  BY <1>4, <1>8 DEF StagesOK, Linked
<1> QED
  BY <1>3, <1>4, <1>5, <1>6, <1>8, <1>9, <1>10 DEF Sane

LEMMA AllDeclared ==
  ASSUME NEW q \in Seq(Declarable)
  PROVE  LET c == FoldLeft(Declared, Empty, q) IN
         /\ Sane(c) /\ Len(c.nodes) = Len(q) /\ c.claims = {} /\ Live(c) = {}
<1> DEFINE n == Len(q)
<1>1. n \in Nat /\ DOMAIN q = 1 .. n /\ \A i \in 1 .. n : q[i] \in Declarable
  BY LenProperties
<1>2. PICK it : NodesSteps(Empty, q, it) /\ FoldLeft(Declared, Empty, q) = it[n]
  BY <1>1, NodesFolds
<1> DEFINE D(k) == /\ Sane(it[k]) /\ Len(it[k].nodes) = k /\ it[k].claims = {}
                   /\ Held(it[k]) = {} /\ it[k].stages = {}
<1>3. D(0)
  <2>1. it[0] = Empty
    BY <1>2 DEF NodesSteps
  <2>2. Len(<< >>) = 0
    OBVIOUS
  <2> QED
    BY <2>1, <2>2, EmptySane
<1>4. ASSUME NEW k \in Nat, D(k), k + 1 <= n PROVE D(k + 1)
  <2>1. k + 1 \in 1 .. n /\ (k + 1) - 1 = k
    BY <1>1, <1>4
  <2>2. it[k + 1] = Declared(it[k], q[k + 1])
    BY <1>2, <2>1 DEF NodesSteps
  <2>3. IsNode(q[k + 1])
    <3>1. q[k + 1] \in Declarable
      BY <1>1, <2>1
    <3> QED
      BY <3>1 DEF Declarable, IsNode
  <2> QED
    BY <1>4, <2>2, <2>3, NodeDeclared
<1> DEFINE P == {k \in Nat : k <= n => D(k)}
<1> HIDE DEF D
<1>5. ASSUME NEW k \in Nat, k \in P PROVE k + 1 \in P
  BY <1>1, <1>4, <1>5
<1>6. 0 \in P
  BY <1>3
<1> HIDE DEF P
<1>7. n \in P
  BY <1>1, <1>5, <1>6, Induction
<1>8. D(n)
  BY <1>1, <1>7 DEF P
<1>9. it[n].stages = {} => StageIds(it[n]) = {}
  BY DEF StageIds
<1> QED
  BY <1>2, <1>8, <1>9 DEF D, Live

LEMMA EndingAdded ==
  ASSUME NEW b, Sane(b)
  PROVE  Sane(WithEnding(b)) /\ Live(WithEnding(b)) = Live(b)
<1> DEFINE node == Node("scope", 0, b.strings, 0)
           scope == Declared(b, node)
           log == [Node("log", 0, b.strings, Len(scope.nodes)) EXCEPT !.ending = TRUE]
           d == Declared(scope, log)
           source == [d EXCEPT !.types = @ + 1]
           record == [id |-> MaxId + 1, generator |-> Len(source.nodes),
                      datatype |-> source.types - 1, begin |-> b.captured,
                      end |-> b.captured, parent |-> NoRecord]
           c == SubmitRecord(source, record)
<1>1. WithEnding(b) = c
  BY DEF WithEnding
<1>2. IsNode(node) /\ IsNode(log) /\ log.kind = "log"
  <2>1. \A x : IsNode(Node("scope", 0, x, 0))
    BY DEF IsNode, Node
  <2>2. ASSUME NEW x, NEW y, NEW z, z = [Node("log", 0, x, y) EXCEPT !.ending = TRUE]
        PROVE  IsNode(z) /\ z.kind = "log"
    <3>1. z = [kind |-> "log", type |-> 0, name |-> x, parent |-> y, clock |-> 0, ending |-> TRUE]
      BY <2>2 DEF Node
    <3> QED
      BY <3>1 DEF IsNode
  <2>3. PICK z : z = log
    OBVIOUS
  <2> HIDE DEF scope
  <2>4. IsNode(z) /\ z.kind = "log"
    BY <2>2, <2>3
  <2> QED
    BY <2>1, <2>3, <2>4
<1>3. Sane(scope) /\ scope.stages = b.stages /\ Held(scope) = Held(b)
  <2> HIDE DEF node
  <2> QED
    BY <1>2, NodeDeclared
<1> HIDE DEF scope, log
<1>4. /\ Sane(d) /\ d.nodes[Len(d.nodes)] = log /\ d.stages = b.stages /\ Held(d) = Held(b)
      /\ Len(d.nodes) \in 1 .. Len(d.nodes)
  <2>1. /\ Sane(d) /\ d.nodes[Len(d.nodes)] = log /\ d.stages = b.stages /\ Held(d) = Held(b)
        /\ Len(d.nodes) = Len(scope.nodes) + 1
    BY <1>2, <1>3, NodeDeclared
  <2>2. Len(scope.nodes) \in Nat
    BY <1>3, LenProperties DEF Sane, NodesOK
  <2> HIDE DEF d
  <2> QED
    BY <2>1, <2>2
<1> HIDE DEF d
<1>5. Same(d, source) /\ source.claims = d.claims
  BY <1>4 DEF Sane, IsBackend, Same
<1> HIDE DEF source
<1>6. Sane(source) /\ Keeps(d, source)
  BY <1>4, <1>5, SameSane
<1>7. Housed(source, record)
  BY <1>2, <1>4, <1>6 DEF Housed, Keeps
<1>8. Sane(c) /\ Keeps(source, c)
  <2> HIDE DEF record
  <2> QED
    BY <1>6, <1>7, Submitted
<1> HIDE DEF c
<1>9. Held(c) = Held(b) /\ c.stages = b.stages
  BY <1>4, <1>6, <1>8 DEF Keeps
<1> QED
  BY <1>1, <1>8, <1>9 DEF Live, StageIds

(***************************************************************************)
(* The inductive invariant.                                                *)
(***************************************************************************)
\* A claim of this time stands until the record it is about has ended.
Stands(x) ==
  \/ \E c \in backend.claims : c.resource = x[1] /\ c.producer = x[2] /\ c.stamp = now
  \/ \E id \in Ids : x[1] = <<"record", id>> /\ id \notin Live(backend)

Inv ==
  /\ menu \in Menus /\ used \in [1 .. MaxId -> Producers \cup {Nobody}]
  /\ backend.lost = FALSE
  /\ phase \in {"open", "failed"} =>
       /\ Sane(backend) /\ Live(backend) \subseteq Ids /\ Len(backend.nodes) >= Len(menu.nodes)
  /\ phase = "open" => \A x \in touched : Stands(x)
  /\ ClaimsExclusive

\* What an operation makes of the backend that it is admitted to: it leaves
\* claims alone but those of the records it ends.
Advances(a, c) ==
  /\ Sane(c) /\ c.nodes = a.nodes /\ Live(c) \subseteq Live(a)
  /\ \A x \in a.claims : \/ x \in c.claims
                         \/ \E id \in Live(a) : x.resource = <<"record", id>> /\ id \notin Live(c)
Works(call, c) ==
  /\ Sane(c) /\ c.nodes = backend.nodes /\ Live(c) \subseteq Live(backend) \cup ({call.id} \ {0})
  /\ \A x \in Admitted(call).claims :
       \/ x \in c.claims
       \/ \E id \in Live(backend) : x.resource = <<"record", id>> /\ id \notin Live(c)

LEMMA KeepsAdvances ==
  ASSUME NEW a, NEW c, Sane(c), Keeps(a, c)
  PROVE  Advances(a, c) /\ Live(c) = Live(a)
BY DEF Advances, Keeps, Live, StageIds

LEMMA SameAdvances ==
  ASSUME NEW a, NEW c, Sane(a), Same(a, c), c.claims = a.claims
  PROVE  Advances(a, c) /\ Live(c) = Live(a)
<1>1. Sane(c) /\ Keeps(a, c)
  BY SameSane
<1> QED
  BY <1>1, KeepsAdvances

LEMMA EndsAdvances ==
  ASSUME NEW a, NEW c, NEW ids, Sane(a), Ends(a, c, ids), ids \subseteq StageIds(a)
  PROVE  Advances(a, c)
<1>1. /\ Sane(c) /\ c.nodes = a.nodes /\ Held(c) = Held(a)
      /\ c.stages = {s \in a.stages : s.value.id \notin ids}
      /\ c.claims = {x \in a.claims : x.resource \notin Claims(ids)}
  BY DEF Ends
<1>2. \A id \in ids : id \in Live(a) /\ id \notin Live(c)
  <2>1. \A id \in ids : id \in StageIds(a) /\ id \notin StageIds(c)
    BY <1>1 DEF StageIds
  <2>2. \A id \in StageIds(a) : id \notin Held(a)
    BY DEF Sane, Linked, StageIds
  <2> QED
    BY <1>1, <2>1, <2>2 DEF Live
<1>3. Live(c) \subseteq Live(a)
  BY <1>1 DEF Live, StageIds
<1>4. \A x \in a.claims : x \in c.claims \/ \E id \in ids : x.resource = <<"record", id>>
  BY <1>1 DEF Claims
<1> QED
  BY <1>1, <1>2, <1>3, <1>4 DEF Advances

LEMMA OwnerAdvances ==
  ASSUME NEW a, Sane(a), NEW id \in Held(a), NEW time, NEW status
  PROVE  Advances(a, StopOwner(a, id, time, status))
<1>1. PICK c : c = StopOwner(a, id, time, status)
  OBVIOUS
<1>2. /\ Sane(c) /\ c.nodes = a.nodes /\ Held(c) = Held(a) \ {id}
      /\ c.stages = {s \in a.stages : s.value.parent # id}
      /\ c.claims = {x \in a.claims : x.resource \notin Claims(StagesOf(a, id) \cup {id})}
  <2>1. Gone(a, c, id)
    BY <1>1, OwnerStopped
  <2> QED
    BY <2>1 DEF Gone
<1>3. /\ \A s \in a.stages : s.value.id \notin Held(a)
      /\ \A s, t \in a.stages : s.value.id = t.value.id => s = t
  BY DEF Sane, Linked, StagesOK
<1>4. \A i \in StagesOf(a, id) : i \in Live(a) /\ i \notin Live(c)
  <2> TAKE i \in StagesOf(a, id)
  <2>1. PICK s \in a.stages : s.value.id = i /\ s.value.parent = id
    BY DEF StagesOf
  <2>2. i \in StageIds(a) /\ i \notin StageIds(c)
    BY <1>2, <1>3, <2>1 DEF StageIds
  <2> QED
    BY <1>2, <1>3, <2>1, <2>2 DEF Live
<1>5. id \in Live(a) /\ id \notin Live(c)
  <2>1. id \notin StageIds(a)
    BY <1>3 DEF StageIds
  <2>2. StageIds(c) \subseteq StageIds(a)
    BY <1>2 DEF StageIds
  <2> QED
    BY <1>2, <2>1, <2>2 DEF Live
<1>6. Live(c) \subseteq Live(a)
  BY <1>2 DEF Live, StageIds
<1>7. \A x \in a.claims :
        x \in c.claims \/ \E i \in StagesOf(a, id) \cup {id} : x.resource = <<"record", i>>
  BY <1>2 DEF Claims
<1>8. Advances(a, c)
  BY <1>2, <1>4, <1>5, <1>6, <1>7 DEF Advances
<1> QED
  BY <1>1, <1>8

\* A claim is made before the operation runs.
LEMMA Admits ==
  ASSUME NEW call, Sane(backend)
  PROVE  /\ Same(backend, Admitted(call)) /\ Sane(Admitted(call))
         /\ Live(Admitted(call)) = Live(backend) /\ Held(Admitted(call)) = Held(backend)
         /\ \A id : Owner(Admitted(call), id) = Owner(backend, id)
         /\ Admitted(call).claims =
              {c \in backend.claims : c.resource \notin call.claimed}
                \cup {[resource |-> r, producer |-> call.producer, stamp |-> call.stamp] :
                        r \in call.claimed}
<1> DEFINE b == [backend EXCEPT !.captured = Max({@, call.stamp}), !.maxCreated = Max({@, call.id})]
           claims == {c \in b.claims : c.resource \notin call.claimed}
                       \cup {[resource |-> r, producer |-> call.producer, stamp |-> call.stamp] :
                               r \in call.claimed}
<1>1. PICK a : a = Admitted(call)
  OBVIOUS
<1>2. a = [b EXCEPT !.claims = claims]
  BY <1>1, Zenon DEF Admitted, Claim
<1>3. Same(backend, b) /\ b.claims = backend.claims
  <2>1. PICK x, y : x = Max({backend.captured, call.stamp}) /\ y = Max({backend.maxCreated, call.id})
    OBVIOUS
  <2>2. b = [backend EXCEPT !.captured = x, !.maxCreated = y]
    BY <2>1, Zenon
  <2> HIDE DEF b
  <2> QED
    BY <2>2 DEF Same, Sane, IsBackend
<1> HIDE DEF b
<1>4. Same(backend, a) /\ a.claims = claims
  <2> HIDE DEF claims
  <2> QED
    BY <1>2, <1>3 DEF Same, IsBackend
<1>5. Sane(a) /\ Held(a) = Held(backend) /\ \A id : Owner(a, id) = Owner(backend, id)
  <2>1. a.slots = backend.slots /\ a.overflow = backend.overflow
    BY <1>4 DEF Same
  <2> HIDE DEF claims
  <2>2. Held(a) = Held(backend) /\ \A id : Owner(a, id) = Owner(backend, id)
    <3>1. Held(a) = Held(backend)
      BY <2>1, SameTable, Zenon
    <3>2. ASSUME NEW id PROVE Owner(a, id) = Owner(backend, id)
      BY <2>1, SameTable
    <3> QED
      BY <3>1, <3>2
  <2>3. Sane(a)
    BY <1>4, SameSane
  <2> QED
    BY <2>2, <2>3
<1>6. Live(a) = Live(backend)
  BY <1>4, <1>5 DEF Live, StageIds, Same
<1> QED
  BY <1>1, <1>3, <1>4, <1>5, <1>6

LEMMA WorksIf ==
  ASSUME NEW call, NEW c, Sane(backend), Advances(Admitted(call), c)
  PROVE  Works(call, c)
<1>1. Live(Admitted(call)) = Live(backend) /\ Admitted(call).nodes = backend.nodes
  BY Admits DEF Same
<1> QED
  BY <1>1 DEF Works, Advances

\* A capture, whatever its operation.
LEMMA Captured ==
  ASSUME Inv, NEW name, NEW call, NEW legal, NEW next, Capture(name, call, legal, next),
         call.id = 0 \/ (call.id \in 1 .. MaxId /\ used[call.id] = Nobody),
         legal => Works(call, next),
         legal => \A r \in call.claimed :
                    \/ r[1] # "record"
                    \/ \E id \in Live(backend) \cup ({call.id} \ {0}) : r = <<"record", id>>
  PROVE  Inv'
<1>1. /\ phase = "open" /\ now' = call.stamp /\ menu' = menu
      /\ call.producer \in Producers /\ call.producer # Nobody
  BY BackendAssumption DEF Capture, Inv
<1>2. /\ Sane(backend) /\ Live(backend) \subseteq Ids /\ Len(backend.nodes) >= Len(menu.nodes)
      /\ \A x \in touched : Stands(x)
  BY <1>1 DEF Inv
<1>3. CASE legal /\ \A r \in call.claimed : ~Conflict(backend, r, call.producer, call.stamp)
  <2> DEFINE p == call.producer
  <2>1. /\ backend' = next /\ phase' = "open"
        /\ touched' = (IF call.stamp = now THEN touched ELSE {}) \cup (call.claimed \X {p})
        /\ used' = IF call.id = 0 THEN used ELSE [used EXCEPT ![call.id] = p]
    BY <1>3 DEF Capture
  <2>2. Works(call, next)
    BY <1>3
  <2>3. used' \in [1 .. MaxId -> Producers \cup {Nobody}] /\ Ids' = Ids \cup ({call.id} \ {0})
    BY <1>1, <2>1 DEF Inv, Ids
  <2>4. call.id \notin Ids
    BY DEF Ids
  <2>5. Sane(backend') /\ Live(backend') \subseteq Ids' /\ backend'.nodes = backend.nodes
    BY <1>2, <2>1, <2>2, <2>3 DEF Works
  <2>6. ASSUME NEW y \in Admitted(call).claims, y.stamp = call.stamp,
               NEW x, x[1] = y.resource, x[2] = y.producer
        PROVE  Stands(x)'
    <3>1. CASE y \in next.claims
      BY <1>1, <2>1, <2>6, <3>1 DEF Stands
    <3>2. CASE \E id \in Live(backend) : y.resource = <<"record", id>> /\ id \notin Live(next)
      BY <1>2, <2>1, <2>3, <2>6, <3>2 DEF Stands
    <3> QED
      BY <2>2, <2>6, <3>1, <3>2 DEF Works
  <2>7. /\ \A r \in call.claimed :
             [resource |-> r, producer |-> p, stamp |-> call.stamp] \in Admitted(call).claims
        /\ \A c \in backend.claims : c.resource \notin call.claimed => c \in Admitted(call).claims
    BY <1>2, Admits
  <2>8. ASSUME NEW r \in call.claimed, NEW x, x[1] = r, x[2] = p PROVE Stands(x)'
    <3>1. PICK y : y = [resource |-> r, producer |-> p, stamp |-> call.stamp]
      OBVIOUS
    <3>2. y.resource = r /\ y.producer = p /\ y.stamp = call.stamp /\ y \in Admitted(call).claims
      BY <2>7, <3>1
    <3> QED
      BY <2>6, <2>8, <3>2
  <2>9. ASSUME NEW x \in touched, call.stamp = now, x[1] \in call.claimed PROVE x[2] = p
    <3>1. CASE \E c \in backend.claims : c.resource = x[1] /\ c.producer = x[2] /\ c.stamp = now
      BY <1>3, <2>9, <3>1 DEF Conflict
    <3>2. CASE \E id \in Ids : x[1] = <<"record", id>> /\ id \notin Live(backend)
      <4>1. PICK id \in Ids : x[1] = <<"record", id>> /\ id \notin Live(backend)
        BY <3>2
      <4>2. PICK i \in Live(backend) \cup ({call.id} \ {0}) : x[1] = <<"record", i>>
        BY <1>3, <2>9, <4>1
      <4>3. i = id
        BY <4>1, <4>2
      <4> QED
        BY <2>4, <4>1, <4>2, <4>3
    <3> QED
      BY <1>2, <3>1, <3>2 DEF Stands
  <2>10. ASSUME NEW x \in touched, call.stamp = now PROVE Stands(x)'
    <3>1. CASE x[1] \in call.claimed
      BY <2>8, <2>9, <2>10, <3>1
    <3>2. CASE x[1] \notin call.claimed
      <4>1. CASE \E c \in backend.claims : c.resource = x[1] /\ c.producer = x[2] /\ c.stamp = now
        BY <2>6, <2>7, <2>10, <3>2, <4>1
      <4>2. CASE \E id \in Ids : x[1] = <<"record", id>> /\ id \notin Live(backend)
        <5>1. PICK id \in Ids : x[1] = <<"record", id>> /\ id \notin Live(backend)
          BY <4>2
        <5>2. id \notin Live(next) /\ id \in Ids'
          BY <2>2, <2>3, <2>4, <5>1 DEF Works
        <5> QED
          BY <2>1, <5>1, <5>2 DEF Stands
      <4> QED
        BY <1>2, <4>1, <4>2 DEF Stands
    <3> QED
      BY <3>1, <3>2
  <2>11. ASSUME NEW x \in touched'
         PROVE  \/ call.stamp = now /\ x \in touched
                \/ x[1] \in call.claimed /\ x[2] = p
    BY <2>1
  <2>12. \A x \in touched' : Stands(x)'
    BY <2>8, <2>10, <2>11
  <2>13. ClaimsExclusive'
    <3>1. SUFFICES ASSUME NEW x \in touched', NEW y \in touched', x[1] = y[1] PROVE x[2] = y[2]
      BY DEF ClaimsExclusive
    <3> QED
      BY <2>9, <2>11, <3>1 DEF Inv, ClaimsExclusive
  <2>14. backend'.lost = FALSE
    BY <2>5 DEF Sane
  <2> QED
    BY <1>1, <1>2, <2>1, <2>3, <2>5, <2>12, <2>13, <2>14 DEF Inv
<1>4. CASE ~(legal /\ \A r \in call.claimed : ~Conflict(backend, r, call.producer, call.stamp))
  <2>1. /\ backend' = [backend EXCEPT !.captured = Max({@, call.stamp})]
        /\ phase' = "failed" /\ used' = used /\ touched' = touched
    BY <1>4 DEF Capture
  <2>2. PICK x : backend' = [backend EXCEPT !.captured = x]
    BY <2>1
  <2>3. Same(backend, backend') /\ backend'.claims = backend.claims
    BY <1>2, <2>2 DEF Same, Sane, IsBackend
  <2>4. Sane(backend') /\ Live(backend') = Live(backend)
    BY <1>2, <2>3, SameAdvances DEF Advances
  <2>5. Ids' = Ids /\ backend'.nodes = backend.nodes /\ backend'.lost = FALSE
    BY <2>1, <2>3, <2>4 DEF Ids, Same, Sane
  <2>6. ClaimsExclusive'
    BY <2>1 DEF Inv, ClaimsExclusive
  <2> QED
    BY <1>1, <1>2, <2>1, <2>4, <2>5, <2>6 DEF Inv
<1> QED
  BY <1>3, <1>4

(***************************************************************************)
(* Every call.                                                             *)
(***************************************************************************)
LEMMA InvSane ==
  ASSUME Inv, phase \in {"open", "failed"}
  PROVE  /\ Sane(backend) /\ Live(backend) \subseteq Ids /\ \A id : id \in Ids => id \in Nat \ {0}
         /\ \A p, parent : \A id \in Reserved(p, parent) :
              id \in 1 .. MaxId /\ used[id] = Nobody /\ id \notin Live(backend) /\ id \in Nat \ {0}
         /\ \A id \in Ids : Active(backend, id) => id \in Held(backend)
<1>1. Sane(backend) /\ Live(backend) \subseteq Ids
  BY DEF Inv
<1>2. \A id : id \in Ids => id \in Nat \ {0} /\ used[id] # Nobody
  BY BackendAssumption DEF Ids
<1>3. ASSUME NEW p, NEW parent, NEW id \in Reserved(p, parent)
      PROVE  id \in 1 .. MaxId /\ used[id] = Nobody /\ id \in Nat \ {0}
  BY BackendAssumption DEF Reserved
<1>4. \A id \in Ids : Active(backend, id) => id \in Held(backend)
  BY <1>1, <1>2, HeldAre DEF Sane
<1> QED
  BY <1>1, <1>2, <1>3, <1>4

LEMMA EmitStep ==
  ASSUME Inv, NEW p \in Producers, NEW stamp, Emit(p, stamp)
  PROVE  Inv'
<1>1. PICK signals \in SUBSET {1, 2} :
        Capture("emit", Request(p, stamp, {<<"signal", s>> : s \in signals}, 0), TRUE,
                Admitted(Request(p, stamp, {<<"signal", s>> : s \in signals}, 0)))
  BY DEF Emit
<1> DEFINE call == Request(p, stamp, {<<"signal", s>> : s \in signals}, 0)
<1>2. phase = "open"
  BY <1>1 DEF Capture
<1>3. call.id = 0 /\ \A r \in call.claimed : r[1] # "record"
  BY DEF Request
<1>4. Sane(backend)
  BY <1>2, InvSane
<1> HIDE DEF call
<1>5. Works(call, Admitted(call))
  BY <1>4, Admits, SameAdvances, WorksIf DEF Advances
<1>6. Capture("emit", call, TRUE, Admitted(call))
  BY <1>1 DEF call
<1> QED
  BY <1>3, <1>5, <1>6, Captured

LEMMA BeginStep ==
  ASSUME Inv, NEW p \in Producers, NEW stamp, Begin(p, stamp)
  PROVE  Inv'
<1> DEFINE call(id) == Request(p, stamp, TheRecord(id), id)
           value(g, parent, time, id) ==
             [NoTransaction EXCEPT !.id = id, !.generator = g, !.begin = time, !.end = time,
                                   !.parent = parent]
           owner(g, parent, time, paid, id) ==
             [value |-> value(g, parent, time, id), open |-> << >>,
              ready |-> paid \/ backend.nodes[g].type = 0]
<1>0. PICK g \in Sources("transaction"), parent \in Ids \cup {NoRecord}, time \in Times,
           paid \in BOOLEAN : \E id \in Reserved(p, parent) :
        Capture("begin", call(id), parent # NoRecord => Active(backend, parent),
                BeginOwner(Admitted(call(id)), owner(g, parent, time, paid, id)))
  BY Zenon DEF Begin
<1>1. PICK id \in Reserved(p, parent) :
        Capture("begin", call(id), parent # NoRecord => Active(backend, parent),
                BeginOwner(Admitted(call(id)), owner(g, parent, time, paid, id)))
  BY <1>0
<1> DEFINE k == call(id)
           a == Admitted(k)
           o == owner(g, parent, time, paid, id)
           c == BeginOwner(a, o)
<1>2. /\ k.id = id /\ k.claimed = {<<"record", id>>} /\ phase = "open"
  BY <1>1 DEF Request, TheRecord, Capture
<1>3. /\ Sane(backend) /\ id \in 1 .. MaxId /\ used[id] = Nobody /\ id \notin Live(backend)
      /\ id \in Nat \ {0}
  BY <1>1, <1>2, InvSane
<1>4. IsOwner(o) /\ o.value.id = id /\ o.open = << >>
  <2>1. PICK v : v = value(g, parent, time, id)
    OBVIOUS
  <2>2. IsValue(v) /\ v.id = id
    BY <2>1 DEF IsValue, NoTransaction
  <2>3. PICK r : r = (paid \/ backend.nodes[g].type = 0)
    OBVIOUS
  <2>4. o = [value |-> v, open |-> << >>, ready |-> r]
    BY <2>1, <2>3, Zenon
  <2>5. << >> \in Seq(Nat)
    OBVIOUS
  <2> HIDE DEF o, value
  <2> QED
    BY <1>3, <2>2, <2>4, <2>5 DEF IsOwner
<1>5. Capture("begin", k, parent # NoRecord => Active(backend, parent), c)
  BY <1>1
<1> HIDE DEF k, o, a, call, owner, value
<1>6. /\ Sane(a) /\ Held(a) = Held(backend) /\ Live(a) = Live(backend) /\ a.nodes = backend.nodes
      /\ a.stages = backend.stages /\ IsBackend(a) /\ Table(a) /\ a.lost = FALSE
  BY <1>3, Admits DEF Same, Sane, a
<1>7. /\ IsBackend(c) /\ Table(c) /\ SameBut(a, c) /\ Held(c) = Held(a) \cup {id}
      /\ Owner(c, id) = o /\ \A i \in Held(a) : Owner(c, i) = Owner(a, i)
  <2>1. o.value.id # 0 /\ o.value.id \notin Held(a)
    BY <1>3, <1>4, <1>6 DEF Live
  <2> HIDE DEF c
  <2>2. c = BeginOwner(a, o)
    BY DEF c
  <2> QED
    BY <1>4, <1>6, <2>1, <2>2, OwnerBegun
<1> HIDE DEF c
<1>8. /\ c.nodes = a.nodes /\ c.stages = a.stages /\ c.records = a.records
      /\ c.claims = a.claims /\ c.lost = FALSE
  BY <1>6, <1>7 DEF SameBut, IsBackend
<1>9. Open(c, id) = << >> /\ \A i \in Held(a) : Open(c, i) = Open(a, i)
  BY <1>4, <1>7 DEF Open
<1>10. id \notin StageIds(a) /\ id \notin Held(a)
  BY <1>3, <1>6 DEF Live
<1>11. Linked(c)
  <2>1. \A s \in c.stages : /\ s.value.parent \in Held(c)
                            /\ Listed(c, s.value.parent, s.value.id)
    BY <1>6, <1>7, <1>8, <1>9 DEF Sane, Linked, Listed
  <2>2. ASSUME NEW i \in Held(c), NEW j \in 1 .. Len(Open(c, i))
        PROVE  /\ \E s \in c.stages : s.value.id = Open(c, i)[j] /\ s.value.parent = i
               /\ \A x \in 1 .. Len(Open(c, i)) : Open(c, i)[j] = Open(c, i)[x] => j = x
    <3>1. i # id
      <4>1. Len(<< >>) = 0
        OBVIOUS
      <4> QED
        BY <1>9, <2>2, <4>1
    <3>2. i \in Held(a) /\ Open(c, i) = Open(a, i)
      BY <1>7, <1>9, <3>1
    <3> QED
      BY <1>6, <1>8, <2>2, <3>2 DEF Sane, Linked
  <2>3. \A s \in c.stages : s.value.id \notin Held(c)
    BY <1>6, <1>7, <1>8, <1>10 DEF Sane, Linked, StageIds
  <2> QED
    BY <2>1, <2>2, <2>3 DEF Linked
<1>12. NodesOK(c) /\ StagesOK(c) /\ RecordsOK(c)
  BY <1>6, <1>7, <1>8 DEF Sane, NodesOK, StagesOK, RecordsOK, Housed
<1>13. Sane(c)
  BY <1>7, <1>8, <1>11, <1>12 DEF Sane
<1>14. Live(c) = Live(backend) \cup {id}
  <2>1. StageIds(c) = StageIds(a)
    BY <1>8 DEF StageIds
  <2> QED
    BY <1>6, <1>7, <2>1 DEF Live
<1>15. Works(k, c)
  BY <1>2, <1>3, <1>6, <1>8, <1>13, <1>14 DEF Works, a
<1> HIDE DEF Works
<1>16. k.id = 0 \/ (k.id \in 1 .. MaxId /\ used[k.id] = Nobody)
  BY <1>2, <1>3
<1>17. \A r \in k.claimed : \E i \in Live(backend) \cup ({k.id} \ {0}) : r = <<"record", i>>
  BY <1>2, <1>3
<1> DEFINE legal == parent # NoRecord => Active(backend, parent)
<1>18. Capture("begin", k, legal, c)
  BY <1>5
<1> HIDE DEF legal
<1> QED
  BY <1>15, <1>16, <1>17, <1>18, Captured

\* An owner is rewritten: its identifier and its list of stages stay.
LEMMA SetAdvances ==
  ASSUME NEW a, Sane(a), NEW o, IsOwner(o), NEW id \in Held(a), o.value.id = id,
         o.open = Open(a, id)
  PROVE  Advances(a, SetOwner(a, o))
<1>1. PICK c : c = SetOwner(a, o)
  OBVIOUS
<1>2. /\ IsBackend(c) /\ Table(c) /\ SameBut(a, c) /\ Held(c) = Held(a) /\ Owner(c, id) = o
      /\ \A i \in Held(a) : i # id => Owner(c, i) = Owner(a, i)
  BY <1>1, OwnerSet DEF Sane
<1>3. /\ c.nodes = a.nodes /\ c.stages = a.stages /\ c.records = a.records
      /\ c.claims = a.claims /\ c.lost = FALSE
  BY <1>2 DEF SameBut, Sane, IsBackend
<1>4. Keeps(a, c)
  BY <1>2, <1>3 DEF Keeps, Open
<1>5. RecordsOK(c)
  BY <1>2, <1>3 DEF Sane, RecordsOK, Housed
<1>6. Sane(c)
  BY <1>2, <1>3, <1>4, <1>5, KeepsSane
<1> QED
  BY <1>1, <1>4, <1>6, KeepsAdvances

LEMMA Rewritten ==
  ASSUME NEW o, IsOwner(o)
  PROVE  LET fine(x) == IsOwner(x) /\ x.value.id = o.value.id /\ x.open = o.open IN
         /\ fine([o EXCEPT !.ready = TRUE])
         /\ \A v : /\ fine([o EXCEPT !.value.keys = v]) /\ fine([o EXCEPT !.value.span = v])
                   /\ fine([o EXCEPT !.value.events = v]) /\ fine([o EXCEPT !.value.stages = v])
<1>1. ASSUME NEW x, NEW w, IsValue(w), w.id = o.value.id, x = [o EXCEPT !.value = w]
      PROVE  IsOwner(x) /\ x.value.id = o.value.id /\ x.open = o.open
  BY <1>1 DEF IsOwner
<1>2. ASSUME NEW v
      PROVE  /\ IsValue([o.value EXCEPT !.keys = v]) /\ IsValue([o.value EXCEPT !.span = v])
             /\ IsValue([o.value EXCEPT !.events = v]) /\ IsValue([o.value EXCEPT !.stages = v])
             /\ [o.value EXCEPT !.keys = v].id = o.value.id
             /\ [o.value EXCEPT !.span = v].id = o.value.id
             /\ [o.value EXCEPT !.events = v].id = o.value.id
             /\ [o.value EXCEPT !.stages = v].id = o.value.id
  <2>1. PICK w : w = o.value
    OBVIOUS
  <2>2. IsValue(w)
    BY <2>1 DEF IsOwner
  <2> QED
    BY <2>1, <2>2 DEF IsValue
<1>3. ASSUME NEW v
      PROVE  /\ [o EXCEPT !.value.keys = v] = [o EXCEPT !.value = [o.value EXCEPT !.keys = v]]
             /\ [o EXCEPT !.value.span = v] = [o EXCEPT !.value = [o.value EXCEPT !.span = v]]
             /\ [o EXCEPT !.value.events = v] = [o EXCEPT !.value = [o.value EXCEPT !.events = v]]
             /\ [o EXCEPT !.value.stages = v] = [o EXCEPT !.value = [o.value EXCEPT !.stages = v]]
  OBVIOUS
<1>4. ASSUME NEW x, x = [o EXCEPT !.ready = TRUE]
      PROVE  IsOwner(x) /\ x.value.id = o.value.id /\ x.open = o.open
  BY <1>4 DEF IsOwner
<1> QED
  BY <1>1, <1>2, <1>3, <1>4

LEMMA BeginStageStep ==
  ASSUME Inv, NEW p \in Producers, NEW stamp, BeginStage(p, stamp)
  PROVE  Inv'
<1> DEFINE call(id) == Request(p, stamp, TheRecord(id), id)
           value(g, parent, time, id) ==
             [id |-> id, generator |-> g, datatype |-> 0, begin |-> time, end |-> time,
              parent |-> parent]
           stage(g, parent, time, paid, id) ==
             [value |-> value(g, parent, time, id),
              ready |-> paid \/ Admitted(call(id)).nodes[g].type = 0]
           next(g, parent, time, paid, id) ==
             [SetOwner(Admitted(call(id)),
                       [Owner(Admitted(call(id)), parent) EXCEPT !.open = Append(@, id)])
                EXCEPT !.stages = @ \cup {stage(g, parent, time, paid, id)}]
<1>0. PICK g \in Sources("stage"), parent \in Ids, time \in Times, paid \in BOOLEAN :
        \E id \in Reserved(p, parent) :
          Capture("begin_stage", call(id), Active(backend, parent),
                  next(g, parent, time, paid, id))
  BY Zenon DEF BeginStage
<1>1. PICK id \in Reserved(p, parent) :
        Capture("begin_stage", call(id), Active(backend, parent),
                next(g, parent, time, paid, id))
  BY <1>0
<1> DEFINE k == call(id)
           a == Admitted(k)
           s == stage(g, parent, time, paid, id)
           x == Owner(a, parent)
           o == [x EXCEPT !.open = Append(@, id)]
           b == SetOwner(a, o)
           c == next(g, parent, time, paid, id)
<1>2. /\ k.id = id /\ k.claimed = {<<"record", id>>} /\ phase = "open"
  BY <1>1 DEF Request, TheRecord, Capture
<1>3. /\ Sane(backend) /\ id \in 1 .. MaxId /\ used[id] = Nobody /\ id \notin Live(backend)
      /\ id \in Nat \ {0}
  BY <1>1, <1>2, InvSane
<1>4. Capture("begin_stage", k, Active(backend, parent), c)
  BY <1>1
<1>5. c = [b EXCEPT !.stages = @ \cup {s}]
  OBVIOUS
<1>6. /\ IsStage(s) \/ parent \notin Nat \ {0}
      /\ s.value.id = id /\ s.value.parent = parent /\ s.value.generator = g
  <2>1. PICK v, r : v = value(g, parent, time, id) /\ s = [value |-> v, ready |-> r]
    OBVIOUS
  <2>2. v = [id |-> id, generator |-> g, datatype |-> 0, begin |-> time, end |-> time,
             parent |-> parent]
    BY <2>1
  <2> HIDE DEF s
  <2> QED
    BY <1>3, <2>1, <2>2 DEF IsStage
<1>7. parent \in Nat \ {0} /\ g \in 1 .. Len(backend.nodes)
  <2>1. DOMAIN backend.nodes = 1 .. Len(backend.nodes)
    BY <1>3, LenProperties DEF Sane, NodesOK
  <2> QED
    BY <1>1, <1>2, <2>1, InvSane DEF Sources
<1> HIDE DEF c, b, o, x, s, a, k, call, value, stage, next
<1>8. /\ Sane(a) /\ Held(a) = Held(backend) /\ Live(a) = Live(backend) /\ a.nodes = backend.nodes
      /\ IsBackend(a) /\ Table(a) /\ a.lost = FALSE
  BY <1>3, Admits DEF Same, Sane, a
<1>9. ASSUME Active(backend, parent) PROVE Works(k, c)
  <2>1. parent \in Held(a)
    BY <1>1, <1>2, <1>8, <1>9, InvSane
  <2>2. IsOwner(x) /\ x.value.id = parent /\ x.open = Open(a, parent) /\ x.open \in Seq(Nat)
    BY <1>8, <2>1, HeldAre DEF Open, x
  <2>3. Append(x.open, id) \in Seq(Nat)
    BY <1>3, <2>2
  <2>4. IsOwner(o) /\ o.value.id = parent /\ o.open = Append(x.open, id)
    <3>1. x = [value |-> x.value, open |-> x.open, ready |-> x.ready]
      BY <2>2 DEF IsOwner
    <3>2. o = [value |-> x.value, open |-> Append(x.open, id), ready |-> x.ready]
      BY <3>1 DEF o
    <3> QED
      BY <2>2, <2>3, <3>2 DEF IsOwner
  <2>5. /\ IsBackend(b) /\ Table(b) /\ SameBut(a, b) /\ Held(b) = Held(a) /\ Owner(b, parent) = o
        /\ \A i \in Held(a) : i # parent => Owner(b, i) = Owner(a, i)
    <3>1. b = SetOwner(a, o)
      BY DEF b
    <3>2. o.value.id \in Held(a)
      BY <2>1, <2>4
    <3> QED
      BY <1>8, <2>4, <3>1, <3>2, OwnerSet
  <2>6. /\ b.nodes = a.nodes /\ b.stages = a.stages /\ b.records = a.records
        /\ b.claims = a.claims /\ b.lost = FALSE
    BY <1>8, <2>5 DEF SameBut, IsBackend
  <2>7. /\ IsBackend(c) /\ c.slots = b.slots /\ c.overflow = b.overflow /\ c.nodes = a.nodes
        /\ c.stages = a.stages \cup {s} /\ c.records = a.records /\ c.claims = a.claims
        /\ c.lost = FALSE
    BY <1>5, <2>5, <2>6 DEF IsBackend
  <2>8. /\ Table(c) /\ Held(c) = Held(a) /\ Open(c, parent) = Append(Open(a, parent), id)
        /\ \A i \in Held(a) : i # parent => Open(c, i) = Open(a, i)
    <3>1. /\ Table(c) /\ Held(c) = Held(a)
      BY <2>5, <2>7, SameTable
    <3>2. \A i : Open(c, i) = Open(b, i)
      BY <2>7, SameTable
    <3> QED
      BY <2>2, <2>4, <2>5, <3>1, <3>2 DEF Open
  <2>9. id \notin StageIds(a) /\ id \notin Held(a)
    BY <1>3, <1>8 DEF Live
  <2>10. StagesOK(c)
    <3>1. \A t \in a.stages : t.value.id # id
      BY <2>9 DEF StageIds
    <3> QED
      BY <1>6, <1>7, <1>8, <2>7, <3>1 DEF Sane, StagesOK
  <2>11. Linked(c)
    <3> DEFINE q == Open(a, parent)
               r == Open(c, parent)
    <3>1. /\ q \in Seq(Nat) /\ r = Append(q, id)
      BY <2>2, <2>8
    <3> HIDE DEF q, r
    <3>2. /\ Len(q) \in Nat /\ Len(r) = Len(q) + 1 /\ r[Len(q) + 1] = id
          /\ \A i \in 1 .. Len(q) : r[i] = q[i]
      BY <1>3, <3>1
    <3>3. \A i \in 1 .. Len(r) : i \in 1 .. Len(q) \/ i = Len(q) + 1
      BY <3>2
    <3>4. \A i \in 1 .. Len(q) : i \in 1 .. Len(r)
      BY <3>2
    <3>5. Len(q) + 1 \in 1 .. Len(r)
      BY <3>2
    <3>6. \A i \in 1 .. Len(q) : \E t \in a.stages : t.value.id = q[i] /\ t.value.parent = parent
      BY <1>8, <2>1 DEF Sane, Linked, q
    <3>7. \A i, j \in 1 .. Len(q) : q[i] = q[j] => i = j
      BY <1>8, <2>1 DEF Sane, Linked, q
    <3>8. \A i \in 1 .. Len(q) : q[i] # id
      BY <2>9, <3>6 DEF StageIds
    <3>9. \A i, j \in 1 .. Len(r) : r[i] = r[j] => i = j
      BY <3>2, <3>3, <3>7, <3>8
    <3>10. ASSUME NEW t \in c.stages
           PROVE  t.value.parent \in Held(c) /\ Listed(c, t.value.parent, t.value.id)
      <4>1. CASE t = s
        BY <1>6, <2>1, <2>8, <3>2, <3>5, <4>1 DEF Listed, r
      <4>2. CASE t \in a.stages
        <5>1. t.value.parent \in Held(a) /\ Listed(a, t.value.parent, t.value.id)
          BY <1>8, <4>2 DEF Sane, Linked
        <5>2. CASE t.value.parent = parent
          <6>1. PICK i \in 1 .. Len(q) : q[i] = t.value.id
            BY <5>1, <5>2 DEF Listed, q
          <6>2. i \in 1 .. Len(r) /\ r[i] = t.value.id
            BY <3>2, <3>4, <6>1
          <6> QED
            BY <2>8, <5>1, <5>2, <6>2 DEF Listed, r
        <5>3. CASE t.value.parent # parent
          BY <2>8, <5>1, <5>3 DEF Listed
        <5> QED
          BY <5>2, <5>3
      <4> QED
        BY <2>7, <4>1, <4>2
    <3>11. ASSUME NEW h \in Held(c), NEW i \in 1 .. Len(Open(c, h))
           PROVE  /\ \E t \in c.stages : t.value.id = Open(c, h)[i] /\ t.value.parent = h
                  /\ \A j \in 1 .. Len(Open(c, h)) : Open(c, h)[i] = Open(c, h)[j] => i = j
      <4>1. CASE h = parent
        <5>1. i \in 1 .. Len(r)
          BY <3>11, <4>1 DEF r
        <5>2. CASE i \in 1 .. Len(q)
          BY <2>7, <3>2, <3>6, <3>9, <4>1, <5>1, <5>2 DEF r
        <5>3. CASE i = Len(q) + 1
          BY <1>6, <2>7, <3>2, <3>9, <4>1, <5>1, <5>3 DEF r
        <5> QED
          BY <3>3, <5>1, <5>2, <5>3
      <4>2. CASE h # parent
        <5>1. h \in Held(a) /\ Open(c, h) = Open(a, h)
          BY <2>8, <3>11, <4>2
        <5> QED
          BY <1>8, <2>7, <3>11, <5>1 DEF Sane, Linked
      <4> QED
        BY <4>1, <4>2
    <3>12. \A t \in c.stages : t.value.id \notin Held(c)
      BY <1>6, <1>8, <2>7, <2>8, <2>9 DEF Sane, Linked
    <3> QED
      BY <3>10, <3>11, <3>12 DEF Linked
  <2>12. NodesOK(c) /\ RecordsOK(c)
    BY <1>8, <2>7, <2>8 DEF Sane, NodesOK, RecordsOK, Housed
  <2>13. Sane(c)
    BY <2>7, <2>8, <2>10, <2>11, <2>12 DEF Sane
  <2>14. Live(c) = Live(backend) \cup {id}
    <3>1. StageIds(c) = StageIds(a) \cup {id}
      BY <1>6, <2>7 DEF StageIds
    <3> QED
      BY <1>8, <2>8, <3>1 DEF Live
  <2> QED
    BY <1>2, <1>3, <1>8, <2>7, <2>13, <2>14 DEF Works, a
<1>10. k.id = 0 \/ (k.id \in 1 .. MaxId /\ used[k.id] = Nobody)
  BY <1>2, <1>3
<1>11. \A r \in k.claimed : \E i \in Live(backend) \cup ({k.id} \ {0}) : r = <<"record", i>>
  BY <1>2, <1>3
<1> DEFINE legal == Active(backend, parent)
<1> HIDE DEF legal
<1>12. Capture("begin_stage", k, legal, c)
  BY <1>4 DEF legal
<1>13. legal => Works(k, c)
  BY <1>9 DEF legal
<1> QED
  BY <1>10, <1>11, <1>12, <1>13, Captured

LEMMA PointStep ==
  ASSUME Inv, NEW p \in Producers, NEW stamp, Point(p, stamp)
  PROVE  Inv'
<1> DEFINE call(id) == Request(p, stamp, {}, id)
           record(g, parent, time, id) ==
             [id |-> id, generator |-> g, begin |-> time, end |-> time,
              datatype |-> IF g \in Sources("log") THEN backend.types - 1 ELSE 0,
              parent |-> parent]
<1>1. PICK g, parent, time, id :
        /\ g \in Sources("event") \cup Sources("log") /\ parent \in Ids \cup {NoRecord}
        /\ id \in Reserved(p, parent)
        /\ Capture("point", call(id),
                   IF parent = NoRecord THEN g \in Sources("log") ELSE Active(backend, parent),
                   SubmitRecord(Admitted(call(id)), record(g, parent, time, id)))
  BY DEF Point
<1> DEFINE k == call(id)
           a == Admitted(k)
           r == record(g, parent, time, id)
           c == SubmitRecord(a, r)
           legal == IF parent = NoRecord THEN g \in Sources("log") ELSE Active(backend, parent)
<1>2. k.id = id /\ k.claimed = {} /\ phase = "open"
  BY <1>1 DEF Request, Capture
<1>3. Sane(backend) /\ id \in 1 .. MaxId /\ used[id] = Nobody
  BY <1>1, <1>2, InvSane
<1>4. Capture("point", k, legal, c)
  BY <1>1
<1>5. r.generator = g /\ r.parent = parent
  OBVIOUS
<1>6. g \in 1 .. Len(backend.nodes)
  <2>1. DOMAIN backend.nodes = 1 .. Len(backend.nodes)
    BY <1>3, LenProperties DEF Sane, NodesOK
  <2> QED
    BY <1>1, <2>1 DEF Sources
<1>7. legal => (backend.nodes[g].kind # "log" => parent \in Held(backend))
  BY <1>1, <1>2, InvSane DEF Sources
<1> HIDE DEF legal, c, r, a, k, call, record
<1>8. Sane(a) /\ Held(a) = Held(backend) /\ a.nodes = backend.nodes
  BY <1>3, Admits DEF Same, a
<1>9. ASSUME legal PROVE Works(k, c)
  <2>1. Housed(a, r)
    BY <1>5, <1>6, <1>7, <1>8, <1>9 DEF Housed
  <2>2. Sane(c) /\ Keeps(a, c)
    BY <1>8, <2>1, Submitted DEF c
  <2>3. Advances(a, c)
    BY <2>2, KeepsAdvances
  <2> QED
    BY <1>3, <2>3, WorksIf DEF a
<1> QED
  BY <1>2, <1>3, <1>4, <1>9, Captured

LEMMA EndTransactionStep ==
  ASSUME Inv, NEW p \in Producers, NEW stamp, EndTransaction(p, stamp)
  PROVE  Inv'
<1> DEFINE call(id) == Request(p, stamp, TheRecord(id), 0)
           fine(id, paid) ==
             /\ Active(backend, id) /\ (Owner(backend, id).ready \/ paid)
             /\ \A i \in DOMAIN Owner(backend, id).open :
                  StageWith(backend, Owner(backend, id).open[i]).ready
<1>1. PICK id, time, paid :
        /\ id \in Ids
        /\ Capture("end", call(id), fine(id, paid), StopOwner(Admitted(call(id)), id, time, 0))
  BY Zenon DEF EndTransaction
<1> DEFINE k == call(id)
           a == Admitted(k)
           c == StopOwner(a, id, time, 0)
           legal == fine(id, paid)
<1>2. k.id = 0 /\ k.claimed = {<<"record", id>>} /\ phase = "open"
  BY <1>1 DEF Request, TheRecord, Capture
<1>3. Sane(backend) /\ (legal => id \in Held(backend))
  BY <1>1, <1>2, InvSane
<1>4. Capture("end", k, legal, c)
  BY <1>1
<1> HIDE DEF legal, fine, c, a, k, call
<1>5. Sane(a) /\ Held(a) = Held(backend)
  BY <1>3, Admits DEF a
<1>6. ASSUME legal PROVE Works(k, c)
  <2>1. Advances(a, c)
    BY <1>3, <1>5, <1>6, OwnerAdvances DEF c
  <2> QED
    BY <1>3, <2>1, WorksIf DEF a
<1>7. legal => \A r \in k.claimed : \E i \in Live(backend) \cup ({k.id} \ {0}) : r = <<"record", i>>
  BY <1>2, <1>3 DEF Live
<1> QED
  BY <1>2, <1>4, <1>6, <1>7, Captured

LEMMA EndStageStep ==
  ASSUME Inv, NEW p \in Producers, NEW stamp, EndStage(p, stamp)
  PROVE  Inv'
<1> DEFINE call(id) == Request(p, stamp, TheRecord(id), 0)
           fine(id, paid) == id \in StageIds(backend) /\ (StageWith(backend, id).ready \/ paid)
<1>1. PICK id, time, paid :
        Capture("end_stage", call(id), fine(id, paid), StopStage(Admitted(call(id)), id, time))
  BY Zenon DEF EndStage
<1> DEFINE k == call(id)
           a == Admitted(k)
           c == StopStage(a, id, time)
           legal == fine(id, paid)
<1>2. k.id = 0 /\ k.claimed = {<<"record", id>>} /\ phase = "open"
  BY <1>1 DEF Request, TheRecord, Capture
<1>3. Sane(backend) /\ (legal => id \in StageIds(backend))
  BY <1>2, InvSane
<1>4. Capture("end_stage", k, legal, c)
  BY <1>1
<1> HIDE DEF legal, fine, c, a, k, call
<1>5. Sane(a) /\ a.stages = backend.stages
  BY <1>3, Admits DEF a, Same
<1>6. ASSUME legal PROVE Works(k, c)
  <2>1. id \in StageIds(a)
    BY <1>3, <1>5, <1>6 DEF StageIds
  <2>2. Ends(a, c, {id})
    BY <1>5, <2>1, StageStopped DEF c
  <2>3. Advances(a, c)
    BY <1>5, <2>1, <2>2, EndsAdvances
  <2> QED
    BY <1>3, <2>3, WorksIf DEF a
<1>7. legal => \A r \in k.claimed : \E i \in Live(backend) \cup ({k.id} \ {0}) : r = <<"record", i>>
  BY <1>2, <1>3 DEF Live
<1> QED
  BY <1>2, <1>4, <1>6, <1>7, Captured

\* A change to an owner that keeps its identifier and its list of stages.
Rewrites(o, x) == IsOwner(o) => IsOwner(x) /\ x.value.id = o.value.id /\ x.open = o.open

LEMMA RewrittenTo ==
  ASSUME NEW o, NEW x, NEW v,
         \/ x = [o EXCEPT !.value.keys = v] \/ x = [o EXCEPT !.value.span = v]
         \/ x = [o EXCEPT !.value.events = v] \/ x = [o EXCEPT !.value.stages = v]
  PROVE  Rewrites(o, x)
<1>1. SUFFICES ASSUME IsOwner(o) PROVE IsOwner(x) /\ x.value.id = o.value.id /\ x.open = o.open
  BY DEF Rewrites
<1> DEFINE fine(y) == IsOwner(y) /\ y.value.id = o.value.id /\ y.open = o.open
<1>2. /\ fine([o EXCEPT !.value.keys = v]) /\ fine([o EXCEPT !.value.span = v])
      /\ fine([o EXCEPT !.value.events = v]) /\ fine([o EXCEPT !.value.stages = v])
  BY <1>1, Rewritten
<1>3. fine(x)
  <2> HIDE DEF fine
  <2> QED
    BY <1>2, Zenon
<1> QED
  BY <1>3

LEMMA OwnerStep ==
  ASSUME Inv, NEW name, NEW k, NEW owner \in Ids, NEW legal, NEW changed,
         OnOwner(name, k, owner, legal, changed), k.claimed = {<<"record", owner>>},
         k.id = 0 \/ (k.id \in 1 .. MaxId /\ used[k.id] = Nobody),
         Rewrites(Owner(backend, owner), changed)
  PROVE  Inv'
<1> DEFINE a == Admitted(k)
           c == SetOwner(a, changed)
           allowed == Active(backend, owner) /\ legal
<1>1. Capture(name, k, allowed, c)
  BY DEF OnOwner
<1>2. Sane(backend) /\ (allowed => owner \in Held(backend))
  <2>1. phase = "open"
    BY <1>1 DEF Capture
  <2> QED
    BY <2>1, InvSane
<1> HIDE DEF allowed, a, c
<1>3. Sane(a) /\ Held(a) = Held(backend) /\ Owner(a, owner) = Owner(backend, owner)
  BY <1>2, Admits DEF a
<1>4. ASSUME allowed PROVE Works(k, c)
  <2>1. /\ owner \in Held(a) /\ IsOwner(Owner(backend, owner))
        /\ Owner(backend, owner).value.id = owner
    BY <1>2, <1>3, <1>4, HeldAre DEF Sane
  <2>2. IsOwner(changed) /\ changed.value.id = owner /\ changed.open = Open(a, owner)
    BY <1>3, <2>1 DEF Rewrites, Open
  <2>3. Advances(a, c)
    BY <1>3, <2>1, <2>2, SetAdvances DEF c
  <2> QED
    BY <1>2, <2>3, WorksIf DEF a
<1>5. allowed => \A r \in k.claimed :
                   \E id \in Live(backend) \cup ({k.id} \ {0}) : r = <<"record", id>>
  BY <1>2 DEF Live
<1> QED
  BY <1>1, <1>4, <1>5, Captured

LEMMA AttributeStep ==
  ASSUME Inv, NEW p \in Producers, NEW stamp, Attribute(p, stamp)
  PROVE  Inv'
<1> DEFINE k(id) == Request(p, stamp, TheRecord(id), 0)
           o(id) == Owner(backend, id)
           changed(id, key) == [o(id) EXCEPT !.value.keys = @ \cup {key}]
           legal(id, key) == key \notin o(id).value.keys
<1>1. PICK id, key : id \in Ids /\ OnOwner("attribute", k(id), id, legal(id, key), changed(id, key))
  BY Zenon DEF Attribute
<1>2. k(id).id = 0 /\ k(id).claimed = {<<"record", id>>}
  BY DEF Request, TheRecord
<1>3. Rewrites(o(id), changed(id, key))
  <2>1. PICK v : changed(id, key) = [o(id) EXCEPT !.value.keys = v]
    OBVIOUS
  <2> HIDE DEF o, changed
  <2> QED
    BY <2>1, RewrittenTo
<1> HIDE DEF k, changed, legal
<1> QED
  BY <1>1, <1>2, <1>3, OwnerStep

LEMMA SpanKindStep ==
  ASSUME Inv, NEW p \in Producers, NEW stamp, SpanKind(p, stamp)
  PROVE  Inv'
<1> DEFINE k(id) == Request(p, stamp, TheRecord(id), 0)
           o(id) == Owner(backend, id)
           changed(id, kind) == [o(id) EXCEPT !.value.span = kind]
<1>1. PICK id, kind : id \in Ids /\ OnOwner("span_kind", k(id), id, TRUE, changed(id, kind))
  BY Zenon DEF SpanKind
<1>2. k(id).id = 0 /\ k(id).claimed = {<<"record", id>>}
  BY DEF Request, TheRecord
<1>3. Rewrites(o(id), changed(id, kind))
  <2> HIDE DEF o
  <2> QED
    BY Rewritten DEF Rewrites
<1> HIDE DEF k, changed
<1> QED
  BY <1>1, <1>2, <1>3, OwnerStep

LEMMA EmbeddedEventStep ==
  ASSUME Inv, NEW p \in Producers, NEW stamp, EmbeddedEvent(p, stamp)
  PROVE  Inv'
<1> DEFINE k(owner, id) == Request(p, stamp, TheRecord(owner), id)
           o(owner) == Owner(backend, owner)
           event(id, time) == [id |-> id, time |-> time, name |-> backend.strings - 1]
           changed(owner, id, time) ==
             [o(owner) EXCEPT !.value.events = Append(@, event(id, time))]
<1>1. PICK owner, id, time :
        /\ owner \in Ids /\ id \in Reserved(p, owner)
        /\ OnOwner("embed", k(owner, id), owner, TRUE, changed(owner, id, time))
  BY Zenon DEF EmbeddedEvent
<1>2. k(owner, id).id = id /\ k(owner, id).claimed = {<<"record", owner>>}
  BY DEF Request, TheRecord
<1>3. id \in 1 .. MaxId /\ used[id] = Nobody
  BY <1>1 DEF Reserved
<1>4. Rewrites(o(owner), changed(owner, id, time))
  <2>1. PICK v : changed(owner, id, time) = [o(owner) EXCEPT !.value.events = v]
    OBVIOUS
  <2> HIDE DEF o, changed
  <2> QED
    BY <2>1, RewrittenTo
<1> HIDE DEF k, changed
<1> QED
  BY <1>1, <1>2, <1>3, <1>4, OwnerStep

LEMMA EmbeddedStageStep ==
  ASSUME Inv, NEW p \in Producers, NEW stamp, EmbeddedStage(p, stamp)
  PROVE  Inv'
<1> DEFINE k(owner, id) == Request(p, stamp, TheRecord(owner), id)
           o(owner) == Owner(backend, owner)
           stage(id, time, end) ==
             [id |-> id, begin |-> time, end |-> end, name |-> backend.strings - 1]
           changed(owner, id, time, end) ==
             [o(owner) EXCEPT !.value.stages = Append(@, stage(id, time, end))]
           legal(time, end) == end # Unset => end >= time
<1>1. PICK owner, id, time, end :
        /\ owner \in Ids /\ id \in Reserved(p, owner)
        /\ OnOwner("embed", k(owner, id), owner, legal(time, end), changed(owner, id, time, end))
  BY Zenon DEF EmbeddedStage
<1>2. k(owner, id).id = id /\ k(owner, id).claimed = {<<"record", owner>>}
  BY DEF Request, TheRecord
<1>3. id \in 1 .. MaxId /\ used[id] = Nobody
  BY <1>1 DEF Reserved
<1>4. Rewrites(o(owner), changed(owner, id, time, end))
  <2>1. PICK v : changed(owner, id, time, end) = [o(owner) EXCEPT !.value.stages = v]
    OBVIOUS
  <2> HIDE DEF o, changed
  <2> QED
    BY <2>1, RewrittenTo
<1> HIDE DEF k, changed, legal
<1> QED
  BY <1>1, <1>2, <1>3, <1>4, OwnerStep

LEMMA EndEmbeddedStep ==
  ASSUME Inv, NEW p \in Producers, NEW stamp, EndEmbedded(p, stamp)
  PROVE  Inv'
<1> DEFINE k(owner) == Request(p, stamp, TheRecord(owner), 0)
           o(owner) == Owner(backend, owner)
           ended(stage, time, s) ==
             IF s.id = stage THEN [s EXCEPT !.end = Max({time, s.begin})] ELSE s
           changed(owner, stage, time) ==
             [o(owner) EXCEPT !.value.stages =
                [i \in DOMAIN @ |-> ended(stage, time, @[i])]]
           legal(owner, stage) == \E s \in ToSet(o(owner).value.stages) : s.id = stage
<1>1. PICK owner, stage, time :
        /\ owner \in Ids
        /\ OnOwner("end_embedded", k(owner), owner, legal(owner, stage),
                   changed(owner, stage, time))
  BY Zenon DEF EndEmbedded
<1>2. k(owner).id = 0 /\ k(owner).claimed = {<<"record", owner>>}
  BY DEF Request, TheRecord
<1>3. Rewrites(o(owner), changed(owner, stage, time))
  <2>1. PICK v : changed(owner, stage, time) = [o(owner) EXCEPT !.value.stages = v]
    BY Zenon
  <2> HIDE DEF o, changed
  <2> QED
    BY <2>1, RewrittenTo
<1> HIDE DEF k, changed, legal
<1> QED
  BY <1>1, <1>2, <1>3, OwnerStep

\* A call that leaves owners, stages and records alone.
LEMMA SameStep ==
  ASSUME Inv, NEW name, NEW k, NEW legal, NEW c, Capture(name, k, legal, c),
         k.id = 0 \/ (k.id \in 1 .. MaxId /\ used[k.id] = Nobody),
         \A r \in k.claimed : r[1] # "record",
         IsBackend(Admitted(k)) => Same(Admitted(k), c) /\ c.claims = Admitted(k).claims
  PROVE  Inv'
<1>1. Sane(backend)
  BY InvSane DEF Capture
<1>2. Sane(Admitted(k))
  BY <1>1, Admits
<1>3. Advances(Admitted(k), c)
  BY <1>2, SameAdvances DEF Sane
<1>4. Works(k, c)
  BY <1>1, <1>3, WorksIf
<1> QED
  BY <1>4, Captured

LEMMA RelateStep ==
  ASSUME Inv, NEW p \in Producers, NEW stamp, Relate(p, stamp)
  PROVE  Inv'
<1> DEFINE k == Request(p, stamp, {}, 0)
           relation(from, to) ==
             [kind |-> backend.strings - 1, source |-> from, destination |-> to]
           related(from, to) ==
             [Admitted(k) EXCEPT !.relations = Append(@, relation(from, to)),
                                 !.maxReference = Max({@, from, to})]
<1>1. PICK from, to :
        Capture("relate", k, TRUE, MaybeFlushTransactions(related(from, to)))
  BY Zenon DEF Relate
<1>2. k.id = 0 /\ k.claimed = {}
  BY DEF Request
<1> HIDE DEF k
<1>3. ASSUME IsBackend(Admitted(k))
      PROVE  LET c == MaybeFlushTransactions(related(from, to))
             IN  Same(Admitted(k), c) /\ c.claims = Admitted(k).claims
  <2>1. PICK a, x, y, b :
          /\ a = Admitted(k) /\ b = related(from, to)
          /\ b = [a EXCEPT !.relations = x, !.maxReference = y]
    BY Zenon
  <2>2. Same(a, b) /\ b.claims = a.claims
    BY <1>3, <2>1, ZenonT(60) DEF Same, IsBackend
  <2>3. Same(b, MaybeFlushTransactions(b)) /\ MaybeFlushTransactions(b).claims = b.claims
    BY <2>2, MaybeFlushed DEF Same
  <2> HIDE DEF related
  <2> QED
    BY <2>1, <2>2, <2>3 DEF Same
<1> HIDE DEF related
<1> QED
  BY <1>1, <1>2, <1>3, SameStep

LEMMA ClockRuns ==
  ASSUME NEW a, IsBackend(a), NEW g, NEW id, NEW first, NEW period
  PROVE  LET c == RunClock(a, g, id, first, period) IN Same(a, c) /\ c.claims = a.claims
<1> DEFINE idle == IF a.clocks[g].id = 0 THEN a ELSE StopClock(a, g, first - 1, 0)
<1>1. Same(a, idle) /\ idle.claims = a.claims
  <2>1. Same(a, a)
    BY DEF Same
  <2>2. LET x == StopClock(a, g, first - 1, 0) IN Same(a, x) /\ x.claims = a.claims
    BY ClockStopped
  <2> QED
    BY <2>1, <2>2
<1>2. PICK b, c : b = idle /\ c = RunClock(a, g, id, first, period)
  OBVIOUS
<1>3. c = [b EXCEPT !.clocks[g].id = id, !.clocks[g].begin = first, !.clocks[g].period = period]
  BY <1>2, Zenon DEF RunClock
<1> HIDE DEF idle
<1>4. IsBackend(b)
  BY <1>1, <1>2 DEF Same
<1>5. c = [b EXCEPT !.clocks = [[[b.clocks EXCEPT ![g].id = id] EXCEPT ![g].begin = first]
                                   EXCEPT ![g].period = period]]
  BY <1>3, <1>4, ZenonT(60) DEF IsBackend
<1>6. PICK clocks : c = [b EXCEPT !.clocks = clocks]
  BY <1>5
<1>7. Same(b, c) /\ c.claims = b.claims
  BY <1>4, <1>6 DEF Same, IsBackend
<1> QED
  BY <1>1, <1>2, <1>7 DEF Same

LEMMA ClockRunStep ==
  ASSUME Inv, NEW p \in Producers, NEW stamp, ClockRun(p, stamp)
  PROVE  Inv'
<1> DEFINE k(g, id) == Request(p, stamp, {<<"clock", g>>}, id)
           legal(g, first) == IF backend.clocks[g].id # 0 THEN first > backend.clocks[g].begin
                              ELSE first > backend.clocks[g].previous
<1>1. PICK g, first, period, id :
        /\ id \in Reserved(p, 0)
        /\ Capture("clock_run", k(g, id), legal(g, first),
                   RunClock(Admitted(k(g, id)), g, id, first, period))
  BY DEF ClockRun
<1>2. k(g, id).id = id /\ k(g, id).claimed = {<<"clock", g>>}
  BY DEF Request
<1>3. id \in 1 .. MaxId /\ used[id] = Nobody
  BY <1>1 DEF Reserved
<1>4. <<"clock", g>>[1] # "record"
  OBVIOUS
<1> HIDE DEF k, legal
<1> QED
  BY <1>1, <1>2, <1>3, <1>4, ClockRuns, SameStep

LEMMA ClockStopStep ==
  ASSUME Inv, NEW p \in Producers, NEW stamp, ClockStop(p, stamp)
  PROVE  Inv'
<1> DEFINE k(g) == Request(p, stamp, {<<"clock", g>>}, 0)
<1>1. PICK g, time :
        Capture("clock_stop", k(g), backend.clocks[g].id # 0,
                StopClock(Admitted(k(g)), g, time, 0))
  BY Zenon DEF ClockStop
<1>2. k(g).id = 0 /\ k(g).claimed = {<<"clock", g>>}
  BY DEF Request
<1>3. <<"clock", g>>[1] # "record"
  OBVIOUS
<1> HIDE DEF k
<1> QED
  BY <1>1, <1>2, <1>3, ClockStopped, SameStep

LEMMA BlackoutStep ==
  ASSUME Inv, NEW p \in Producers, NEW stamp, Blackout(p, stamp)
  PROVE  Inv'
<1> DEFINE k == Request(p, stamp, {}, 0)
           next(time, active) ==
             [Admitted(k) EXCEPT !.blackout = Append(@, [time |-> time, active |-> active]),
                                 !.lastBlackout = time]
<1>1. PICK time, active :
        Capture("blackout", k, backend.lastBlackout <= time, next(time, active))
  BY Zenon DEF Blackout
<1>2. k.id = 0 /\ k.claimed = {}
  BY DEF Request
<1> HIDE DEF k
<1>3. ASSUME IsBackend(Admitted(k))
      PROVE  Same(Admitted(k), next(time, active))
             /\ next(time, active).claims = Admitted(k).claims
  <2>1. PICK a, b, x :
          /\ a = Admitted(k) /\ b = next(time, active)
          /\ b = [a EXCEPT !.blackout = x, !.lastBlackout = time]
    BY Zenon
  <2> HIDE DEF next
  <2>2. Same(a, b) /\ b.claims = a.claims
    BY <1>3, <2>1, ZenonT(60) DEF Same, IsBackend
  <2> QED
    BY <2>1, <2>2
<1> HIDE DEF next
<1> QED
  BY <1>1, <1>2, <1>3, SameStep

LEMMA DumpStep ==
  ASSUME Inv, NEW p \in Producers, NEW stamp, Dump(p, stamp)
  PROVE  Inv'
<1> DEFINE k == Request(p, stamp, {}, 0)
           switched(enabled) ==
             [Admitted(k) EXCEPT !.blackout = Append(@, [time |-> stamp, active |-> enabled]),
                                 !.lastBlackout = stamp, !.dump = enabled]
           next(enabled) == IF backend.dump = enabled THEN Admitted(k) ELSE switched(enabled)
           legal(enabled) == backend.dump = enabled \/ backend.lastBlackout <= stamp
<1>1. PICK enabled : Capture("blackout", k, legal(enabled), next(enabled))
  BY Zenon DEF Dump
<1>2. k.id = 0 /\ k.claimed = {}
  BY DEF Request
<1> HIDE DEF k, legal
<1>3. ASSUME IsBackend(Admitted(k))
      PROVE  Same(Admitted(k), next(enabled)) /\ next(enabled).claims = Admitted(k).claims
  <2>1. PICK a, b, c, x :
          /\ a = Admitted(k) /\ b = switched(enabled) /\ c = next(enabled)
          /\ b = [a EXCEPT !.blackout = x, !.lastBlackout = stamp, !.dump = enabled]
    BY Zenon
  <2>2. Same(a, b) /\ b.claims = a.claims
    <3> HIDE DEF switched, next
    <3> QED
      BY <1>3, <2>1, ZenonT(60) DEF Same, IsBackend
  <2>3. Same(a, a)
    BY <1>3, <2>1 DEF Same
  <2>4. c = a \/ c = b
    BY <2>1
  <2> HIDE DEF next
  <2> QED
    BY <2>1, <2>2, <2>3, <2>4
<1> HIDE DEF next
<1> QED
  BY <1>1, <1>2, <1>3, SameStep

LEMMA PayloadStep ==
  ASSUME Inv, NEW p \in Producers, NEW stamp, Payload(p, stamp)
  PROVE  Inv'
<1> DEFINE k(id) == Request(p, stamp, TheRecord(id), 0)
           stage(id) == StageWith(backend, id)
           paid(id) == [stage(id) EXCEPT !.ready = TRUE]
           x(id) == Owner(backend, id)
           o(id) == [x(id) EXCEPT !.ready = TRUE]
           ready(id) == [Admitted(k(id)) EXCEPT !.stages = (@ \ {stage(id)}) \cup {paid(id)}]
           next(id) == IF Active(backend, id) THEN SetOwner(Admitted(k(id)), o(id)) ELSE ready(id)
           legal(id) == Active(backend, id) \/ id \in StageIds(backend)
<1>1. PICK id : id \in Ids /\ Capture("payload", k(id), legal(id), next(id))
  BY Zenon DEF Payload
<1>2. k(id).id = 0 /\ k(id).claimed = {<<"record", id>>} /\ phase = "open"
  BY <1>1 DEF Request, TheRecord, Capture
<1>3. /\ Sane(backend) /\ (Active(backend, id) => id \in Held(backend))
  BY <1>1, <1>2, InvSane
<1> DEFINE a == Admitted(k(id))
<1> HIDE DEF k
<1>4. Sane(a) /\ Held(a) = Held(backend) /\ Owner(a, id) = x(id) /\ a.stages = backend.stages
  <2> HIDE DEF x
  <2> QED
    BY <1>3, Admits DEF Same, x
<1>5. ASSUME Active(backend, id) PROVE Advances(a, next(id))
  <2>1. id \in Held(a) /\ IsOwner(x(id)) /\ x(id).value.id = id
    <3> HIDE DEF x
    <3> QED
      BY <1>3, <1>4, <1>5, HeldAre DEF Sane
  <2>2. IsOwner(o(id)) /\ o(id).value.id = x(id).value.id /\ o(id).open = x(id).open
    <3> HIDE DEF x
    <3> QED
      BY <2>1, Rewritten
  <2>3. next(id) = SetOwner(a, o(id))
    BY <1>5
  <2>4. o(id).open = Open(a, id)
    <3> HIDE DEF x, o
    <3> QED
      BY <1>4, <2>2 DEF Open
  <2> HIDE DEF x, o, a, next
  <2> QED
    BY <1>4, <2>1, <2>2, <2>3, <2>4, SetAdvances
<1>6. ASSUME ~Active(backend, id), id \in StageIds(backend) PROVE Advances(a, next(id))
  <2>1. PICK s, t, b, c :
          /\ s = stage(id) /\ t = [s EXCEPT !.ready = TRUE] /\ b = a /\ c = next(id)
          /\ c = [b EXCEPT !.stages = (b.stages \ {s}) \cup {t}]
    BY <1>6, Zenon
  <2>2. s \in a.stages /\ s.value.id = id
    BY <1>4, <1>6, <2>1 DEF StageIds, StageWith
  <2> HIDE DEF next, stage, a
  <2>3. IsStage(s) /\ IsStage(t) /\ t.value = s.value
    <3>1. IsStage(s)
      BY <1>4, <2>2 DEF Sane, StagesOK
    <3> QED
      BY <2>1, <3>1 DEF IsStage
  <2>4. /\ IsBackend(c) /\ c.slots = a.slots /\ c.overflow = a.overflow /\ c.nodes = a.nodes
        /\ c.stages = (a.stages \ {s}) \cup {t} /\ c.records = a.records
        /\ c.claims = a.claims /\ c.lost = FALSE
    BY <1>4, <2>1 DEF Sane, IsBackend
  <2>5. /\ Table(c) /\ Held(c) = Held(a) /\ \A i : Open(c, i) = Open(a, i)
    BY <1>4, <2>4, SameTable DEF Sane
  <2>6. /\ \A u \in c.stages : \E v \in a.stages : v.value = u.value /\ (IsStage(v) => IsStage(u))
        /\ \A v \in a.stages : \E u \in c.stages : v.value = u.value
    BY <2>2, <2>3, <2>4
  <2>7. StagesOK(c)
    <3>1. \A u \in c.stages : IsStage(u) /\ u.value.generator \in 1 .. Len(c.nodes)
      BY <1>4, <2>4, <2>6 DEF Sane, StagesOK
    <3>2. ASSUME NEW u \in c.stages, NEW v \in c.stages, u.value.id = v.value.id PROVE u = v
      <4>1. \A y, z \in a.stages : y.value.id = z.value.id => y = z
        BY <1>4 DEF Sane, StagesOK
      <4>2. CASE u = t /\ v # t
        BY <2>2, <2>3, <2>4, <3>2, <4>1, <4>2
      <4>3. CASE u # t /\ v = t
        BY <2>2, <2>3, <2>4, <3>2, <4>1, <4>3
      <4>4. CASE u # t /\ v # t
        BY <2>4, <3>2, <4>1, <4>4
      <4> QED
        BY <4>2, <4>3, <4>4
    <3> QED
      BY <3>1, <3>2 DEF StagesOK
  <2>8. Linked(c)
    <3>1. Linked(a)
      BY <1>4 DEF Sane
    <3>2. ASSUME NEW u \in c.stages
          PROVE  /\ u.value.parent \in Held(c)
                 /\ Listed(c, u.value.parent, u.value.id) /\ u.value.id \notin Held(c)
      <4>1. PICK v \in a.stages : v.value = u.value
        BY <2>6, <3>2
      <4>2. /\ v.value.parent \in Held(a)
            /\ Listed(a, v.value.parent, v.value.id) /\ v.value.id \notin Held(a)
        BY <3>1 DEF Linked
      <4> QED
        BY <2>5, <4>1, <4>2 DEF Listed
    <3>3. ASSUME NEW h \in Held(c), NEW i \in 1 .. Len(Open(c, h))
          PROVE  /\ \E u \in c.stages : u.value.id = Open(c, h)[i] /\ u.value.parent = h
                 /\ \A j \in 1 .. Len(Open(c, h)) : Open(c, h)[i] = Open(c, h)[j] => i = j
      <4>1. /\ \E v \in a.stages : v.value.id = Open(c, h)[i] /\ v.value.parent = h
            /\ \A j \in 1 .. Len(Open(c, h)) : Open(c, h)[i] = Open(c, h)[j] => i = j
        BY <2>5, <3>1, <3>3 DEF Linked
      <4> QED
        BY <2>6, <4>1
    <3> QED
      BY <3>2, <3>3 DEF Linked
  <2>9. NodesOK(c) /\ RecordsOK(c)
    BY <1>4, <2>4, <2>5 DEF Sane, NodesOK, RecordsOK, Housed
  <2>10. Sane(c)
    BY <2>4, <2>5, <2>7, <2>8, <2>9 DEF Sane
  <2>11. StageIds(c) = StageIds(a)
    <3>1. \A i : i \in StageIds(c) => i \in StageIds(a)
      BY <2>6 DEF StageIds
    <3>2. \A i : i \in StageIds(a) => i \in StageIds(c)
      BY <2>6 DEF StageIds
    <3> QED
      BY <3>1, <3>2
  <2> QED
    BY <2>1, <2>4, <2>5, <2>10, <2>11 DEF Advances, Live
<1> HIDE DEF next, a
<1>7. legal(id) => Works(k(id), next(id))
  BY <1>3, <1>5, <1>6, WorksIf DEF a
<1>8. legal(id) => \A r \in k(id).claimed :
                     \E i \in Live(backend) \cup ({k(id).id} \ {0}) : r = <<"record", i>>
  BY <1>2, <1>3 DEF Live
<1> HIDE DEF legal
<1> QED
  BY <1>1, <1>2, <1>7, <1>8, Captured

(***************************************************************************)
(* The owner of the recording, and the end.                                *)
(***************************************************************************)
Settled(b) ==
  /\ Sane(b) /\ Live(b) = Live(backend) /\ b.claims = backend.claims
  /\ Len(b.nodes) >= Len(backend.nodes)

LEMMA SettledIf ==
  ASSUME Sane(backend), NEW b, Sane(b)
  PROVE  /\ Keeps(backend, b) => Settled(b)
         /\ Same(backend, b) /\ b.claims = backend.claims => Settled(b)
<1>1. Len(backend.nodes) \in Nat
  BY LenProperties DEF Sane, NodesOK
<1>2. Keeps(backend, b) => Settled(b)
  BY <1>1, KeepsAdvances DEF Settled, Keeps
<1>3. Same(backend, b) /\ b.claims = backend.claims => Keeps(backend, b)
  BY SameSane
<1> QED
  BY <1>2, <1>3

LEMMA Controlled ==
  ASSUME Inv, NEW name, NEW before, NEW legal, NEW next, Control(name, before, legal, next),
         ~legal => Settled(before), legal => Settled(next)
  PROVE  Inv'
<1>1. /\ phase = "open" /\ now' = now /\ used' = used /\ touched' = touched /\ menu' = menu
      /\ phase' \in {"open", "failed"} /\ Settled(backend')
  BY DEF Control
<1>2. /\ Sane(backend) /\ Live(backend) \subseteq Ids /\ Len(backend.nodes) >= Len(menu.nodes)
      /\ \A x \in touched : Stands(x)
  BY <1>1 DEF Inv
<1>3. /\ Len(menu.nodes) \in Nat /\ Len(backend.nodes) \in Nat /\ Len(backend'.nodes) \in Nat
  <2>1. menu.nodes \in Seq(Declarable)
    BY BackendAssumption DEF Inv
  <2> QED
    BY <1>1, <1>2, <2>1, LenProperties DEF Settled, Sane, NodesOK
<1>4. Ids' = Ids
  BY <1>1 DEF Ids
<1>5. /\ Sane(backend') /\ Live(backend') \subseteq Ids' /\ backend'.lost = FALSE
      /\ Len(backend'.nodes) >= Len(menu'.nodes)
  BY <1>1, <1>2, <1>3, <1>4 DEF Settled, Sane
<1>6. \A x \in touched' : Stands(x)'
  BY <1>1, <1>2, <1>4 DEF Stands, Settled
<1>7. ClaimsExclusive'
  BY <1>1 DEF Inv, ClaimsExclusive
<1> QED
  BY <1>1, <1>5, <1>6, <1>7 DEF Inv

LEMMA InternStep == ASSUME Inv, Intern PROVE Inv'
<1>1. Control("intern", backend, TRUE, [backend EXCEPT !.strings = @ + 1])
  BY DEF Intern
<1>2. Sane(backend)
  BY <1>1, InvSane DEF Control
<1>3. PICK b : b = [backend EXCEPT !.strings = @ + 1]
  OBVIOUS
<1>4. Same(backend, b) /\ b.claims = backend.claims
  BY <1>2, <1>3 DEF Same, Sane, IsBackend
<1>5. Settled(b)
  BY <1>2, <1>4, SameSane, SettledIf
<1>6. Control("intern", backend, TRUE, b)
  BY <1>1, <1>3
<1> QED
  BY <1>5, <1>6, Controlled

LEMMA FlushStep == ASSUME Inv, Flush PROVE Inv'
<1>1. Control("flush", backend, TRUE, FlushAll(backend))
  BY DEF Flush
<1>2. Sane(backend)
  BY <1>1, InvSane DEF Control
<1>3. Settled(FlushAll(backend))
  BY <1>2, AllFlushed, SettledIf
<1> QED
  BY <1>1, <1>3, Controlled

LEMMA DeclareStep == ASSUME Inv, Declare PROVE Inv'
<1> DEFINE n == Len(backend.nodes) - Len(menu.nodes) + 1
           node == menu.later[n]
           legal == node.parent # 0 => backend.nodes[node.parent].kind = "scope"
           c == Declared(backend, node)
<1>1. /\ Len(backend.nodes) < Len(menu.nodes) + Len(menu.later)
      /\ Control("declare", backend, legal, c)
  BY DEF Declare
<1>2. Sane(backend) /\ Len(backend.nodes) >= Len(menu.nodes)
  BY <1>1 DEF Control, Inv
<1>3. IsNode(node)
  <2>1. menu.nodes \in Seq(Declarable) /\ menu.later \in Seq(Declarable)
    BY BackendAssumption DEF Inv
  <2>2. Len(menu.nodes) \in Nat /\ Len(menu.later) \in Nat /\ Len(backend.nodes) \in Nat
    BY <1>2, <2>1, LenProperties DEF Sane, NodesOK
  <2>3. n \in 1 .. Len(menu.later)
    <3>1. PICK x, y, z : x = Len(backend.nodes) /\ y = Len(menu.nodes) /\ z = Len(menu.later)
      OBVIOUS
    <3>2. x < y + z
      BY <1>1, <3>1
    <3>3. x >= y /\ x \in Nat /\ y \in Nat /\ z \in Nat
      BY <1>2, <2>2, <3>1
    <3>4. x - y + 1 \in 1 .. z
      BY <3>2, <3>3
    <3> QED
      BY <3>1, <3>4
  <2>4. node \in Declarable
    <3> HIDE DEF n
    <3> QED
      BY <2>1, <2>3
  <2> HIDE DEF node
  <2> QED
    BY <2>4 DEF Declarable, IsNode
<1> HIDE DEF node
<1>4. /\ Sane(c) /\ Len(c.nodes) = Len(backend.nodes) + 1 /\ c.stages = backend.stages
      /\ c.claims = backend.claims /\ Held(c) = Held(backend)
  BY <1>2, <1>3, NodeDeclared
<1>5. Len(backend.nodes) \in Nat
  BY <1>2, LenProperties DEF Sane, NodesOK
<1>6. Settled(c)
  <2> HIDE DEF c
  <2> QED
    BY <1>4, <1>5 DEF Settled, Live, StageIds
<1>7. Settled(backend)
  BY <1>2, <1>5 DEF Settled
<1>8. Control("declare", backend, legal, c)
  BY <1>1
<1> HIDE DEF legal, c
<1> QED
  BY <1>6, <1>7, <1>8, Controlled, SMTT(60)

\* What a node is does not depend on the clock it is associated with.
LEMMA NodeAssociated ==
  ASSUME NEW b, Sane(b), NEW n \in DOMAIN b.nodes, NEW clock
  PROVE  LET c == [b EXCEPT !.nodes[n].clock = clock] IN
         /\ Sane(c) /\ Len(c.nodes) = Len(b.nodes) /\ Live(c) = Live(b) /\ c.claims = b.claims
<1> DEFINE node == [b.nodes[n] EXCEPT !.clock = clock]
           nodes == [b.nodes EXCEPT ![n] = node]
<1>1. /\ DOMAIN b.nodes = 1 .. Len(b.nodes) /\ Len(b.nodes) \in Nat
      /\ b.nodes \in Seq(Ranged(b.nodes)) /\ \A i \in 1 .. Len(b.nodes) : IsNode(b.nodes[i])
  BY LenProperties DEF Sane, NodesOK
<1>2. PICK c : c = [b EXCEPT !.nodes = nodes] /\ c = [b EXCEPT !.nodes[n].clock = clock]
  OBVIOUS
<1>3. IsNode(node) /\ node.kind = b.nodes[n].kind
  <2>1. PICK x, y : x = b.nodes[n] /\ y = [x EXCEPT !.clock = clock] /\ y = node
    OBVIOUS
  <2>2. IsNode(x)
    BY <1>1, <2>1
  <2> HIDE DEF node
  <2> QED
    BY <2>1, <2>2 DEF IsNode
<1> HIDE DEF node
<1>4. /\ nodes \in Seq(Ranged(nodes)) /\ Len(nodes) = Len(b.nodes)
      /\ \A i \in 1 .. Len(b.nodes) : IsNode(nodes[i]) /\ nodes[i].kind = b.nodes[i].kind
  <2>1. DOMAIN nodes = 1 .. Len(b.nodes)
    BY <1>1
  <2>2. \A i \in 1 .. Len(b.nodes) : nodes[i] = IF i = n THEN node ELSE b.nodes[i]
    BY <1>1
  <2>3. nodes = [i \in 1 .. Len(b.nodes) |-> nodes[i]]
    BY <2>1
  <2> HIDE DEF nodes
  <2>4. \E T : nodes \in Seq(T)
    <3>1. nodes \in [1 .. Len(b.nodes) -> {nodes[i] : i \in 1 .. Len(b.nodes)}]
      BY <2>1, <2>3
    <3> QED
      BY <1>1, <3>1, SeqDef
  <2>5. Len(nodes) = Len(b.nodes)
    BY <1>1, <2>1, <2>4, LenProperties
  <2>6. nodes \in Seq(Ranged(nodes))
    <3>1. \A i \in 1 .. Len(b.nodes) : nodes[i] \in Ranged(nodes)
      BY <2>5 DEF Ranged
    <3>2. nodes \in [1 .. Len(b.nodes) -> Ranged(nodes)]
      BY <2>1, <2>3, <3>1
    <3> QED
      BY <1>1, <3>2, SeqDef
  <2> QED
    BY <1>1, <1>3, <2>2, <2>5, <2>6
<1> HIDE DEF nodes
<1>5. /\ IsBackend(c) /\ c.slots = b.slots /\ c.overflow = b.overflow /\ c.nodes = nodes
      /\ c.stages = b.stages /\ c.claims = b.claims /\ c.records = b.records /\ c.lost = b.lost
  BY <1>2 DEF Sane, IsBackend
<1>6. Held(c) = Held(b) /\ Table(c) /\ \A id : Open(c, id) = Open(b, id)
  BY <1>5, SameTable DEF Sane
<1>7. NodesOK(c) /\ StagesOK(c) /\ Linked(c)
  <2>1. NodesOK(c)
    BY <1>4, <1>5 DEF NodesOK
  <2>2. StagesOK(c)
    BY <1>4, <1>5 DEF Sane, StagesOK
  <2>3. Linked(c)
    <3>1. Linked(b) /\ c.stages = b.stages
      BY <1>5 DEF Sane
    <3>2. \A s \in c.stages : s.value.parent \in Held(c) /\ Listed(c, s.value.parent, s.value.id)
      BY <1>6, <3>1 DEF Linked, Listed
    <3> QED
      BY <1>6, <3>1, <3>2 DEF Linked
  <2> QED
    BY <2>1, <2>2, <2>3
<1>8. RecordsOK(c)
  <2>1. \A r : Housed(b, r) => Housed(c, r)
    BY <1>4, <1>5, <1>6 DEF Housed
  <2> QED
    BY <1>5, <2>1 DEF Sane, RecordsOK
<1>9. Sane(c)
  BY <1>5, <1>6, <1>7, <1>8 DEF Sane
<1> QED
  BY <1>2, <1>4, <1>5, <1>6, <1>9 DEF Live, StageIds

LEMMA AssociateStep == ASSUME Inv, Associate PROVE Inv'
<1> DEFINE named == IF backend.clockName # 0 THEN backend
                    ELSE [backend EXCEPT !.clockName = backend.strings, !.strings = @ + 1]
           legal(n, clock) == /\ n > backend.written.nodes /\ backend.nodes[clock].kind = "clock"
                              /\ backend.nodes[n].clock = 0
           next(n, clock) == [named EXCEPT !.nodes[n].clock = clock]
<1>1. PICK n, clock : /\ n \in DOMAIN backend.nodes
                      /\ Control("associate", named, legal(n, clock), next(n, clock))
  BY Zenon DEF Associate
<1>2. Sane(backend)
  BY <1>1, InvSane DEF Control
<1>3. Same(backend, named) /\ named.claims = backend.claims
  BY <1>2 DEF Same, Sane, IsBackend
<1> HIDE DEF named, legal
<1>4. Settled(named)
  BY <1>2, <1>3, SameSane, SettledIf
<1>5. Settled(next(n, clock))
  <2>1. Sane(named) /\ n \in DOMAIN named.nodes
    BY <1>1, <1>3, <1>4 DEF Same, Settled
  <2>2. LET c == next(n, clock) IN
        Sane(c) /\ Len(c.nodes) = Len(named.nodes) /\ Live(c) = Live(named) /\ c.claims = named.claims
    BY <2>1, NodeAssociated
  <2> HIDE DEF next
  <2> QED
    BY <1>4, <2>2 DEF Settled
<1> HIDE DEF next
<1> QED
  BY <1>1, <1>4, <1>5, Controlled

LEMMA LiveFinite ==
  ASSUME Inv, phase \in {"open", "failed"}
  PROVE  IsFiniteSet(Live(backend)) /\ IsFiniteSet(Held(backend))
<1>1. Live(backend) \subseteq Ids
  BY DEF Inv
<1>2. Ids \subseteq 1 .. MaxId
  BY DEF Ids
<1>3. IsFiniteSet(1 .. MaxId)
  BY Interval, BackendAssumption
<1>4. Held(backend) \subseteq Live(backend)
  BY DEF Live
<1> QED
  BY <1>1, <1>2, <1>3, <1>4, FS_Subset

LEMMA CloseStep == ASSUME Inv, Close PROVE Inv'
<1>1. /\ phase = "open" /\ now' = now /\ used' = used /\ touched' = touched /\ menu' = menu
      /\ \/ backend' = FinishAll(backend) /\ phase' = "closed"
         \/ phase' = "failed" /\ backend' = backend
  BY DEF Close
<1>2. ClaimsExclusive'
  BY <1>1 DEF Inv, ClaimsExclusive
<1>3. CASE backend' = FinishAll(backend) /\ phase' = "closed"
  <2>1. Sane(backend')
    BY <1>1, <1>3, AllFinished, InvSane, LiveFinite
  <2> QED
    BY <1>1, <1>2, <1>3, <2>1 DEF Inv, Sane
<1>4. CASE phase' = "failed" /\ backend' = backend
  BY <1>1, <1>2, <1>4 DEF Inv, Ids
<1> QED
  BY <1>1, <1>3, <1>4

LEMMA SealStep == ASSUME Inv, Seal PROVE Inv'
<1>1. PICK ending \in BOOLEAN :
        /\ phase \in {"open", "failed"} /\ phase' = "sealed"
        /\ backend' = FinishAll(DiscardMissingPayloads(IF ending THEN WithEnding(backend)
                                                       ELSE backend))
        /\ now' = now /\ used' = used /\ touched' = touched /\ menu' = menu
  BY DEF Seal
<1> DEFINE b == IF ending THEN WithEnding(backend) ELSE backend
           c == DiscardMissingPayloads(b)
<1>2. Sane(b) /\ IsFiniteSet(Live(b))
  <2>1. Sane(backend) /\ IsFiniteSet(Live(backend))
    BY <1>1, InvSane, LiveFinite
  <2>2. Sane(WithEnding(backend)) /\ Live(WithEnding(backend)) = Live(backend)
    BY <2>1, EndingAdded
  <2> QED
    BY <2>1, <2>2
<1>3. backend' = FinishAll(c)
  BY <1>1
<1> HIDE DEF b
<1>4. Sane(c) /\ Held(c) \subseteq Held(b)
  BY <1>2, MissingDiscarded
<1>5. IsFiniteSet(Held(c))
  <2>1. Held(c) \subseteq Live(b)
    BY <1>4 DEF Live
  <2> QED
    BY <1>2, <2>1, FS_Subset
<1> HIDE DEF c
<1>6. Sane(backend')
  BY <1>3, <1>4, <1>5, AllFinished
<1>7. ClaimsExclusive'
  BY <1>1 DEF Inv, ClaimsExclusive
<1> QED
  BY <1>1, <1>6, <1>7 DEF Inv, Sane

(***************************************************************************)
(* Every state.                                                            *)
(***************************************************************************)
LEMMA InitInv == Init => Inv
<1> SUFFICES ASSUME Init PROVE Inv
  OBVIOUS
<1>1. /\ menu \in Menus /\ backend = FoldLeft(Declared, Empty, menu.nodes) /\ phase = "open"
      /\ touched = {} /\ used = [i \in 1 .. MaxId |-> Nobody]
  BY DEF Init
<1>2. menu.nodes \in Seq(Declarable)
  BY <1>1, BackendAssumption
<1>3. /\ Sane(backend) /\ Len(backend.nodes) = Len(menu.nodes) /\ backend.claims = {}
      /\ Live(backend) = {}
  BY <1>1, <1>2, AllDeclared
<1>4. Len(menu.nodes) \in Nat
  BY <1>2, LenProperties
<1>5. backend.lost = FALSE
  BY <1>3 DEF Sane
<1> QED
  BY <1>1, <1>3, <1>4, <1>5 DEF Inv, ClaimsExclusive

LEMMA CaptureInv ==
  ASSUME Inv, NEW p \in Producers, NEW stamp,
         \/ Begin(p, stamp) \/ BeginStage(p, stamp) \/ Point(p, stamp)
         \/ EndTransaction(p, stamp) \/ EndStage(p, stamp) \/ Payload(p, stamp)
         \/ Attribute(p, stamp) \/ SpanKind(p, stamp)
         \/ EmbeddedEvent(p, stamp) \/ EmbeddedStage(p, stamp) \/ EndEmbedded(p, stamp)
         \/ Relate(p, stamp) \/ ClockRun(p, stamp) \/ ClockStop(p, stamp)
         \/ Emit(p, stamp) \/ Blackout(p, stamp) \/ Dump(p, stamp)
  PROVE  Inv'
<1>1. CASE Begin(p, stamp)
  BY <1>1, BeginStep
<1>2. CASE BeginStage(p, stamp)
  BY <1>2, BeginStageStep
<1>3. CASE Point(p, stamp)
  BY <1>3, PointStep
<1>4. CASE EndTransaction(p, stamp)
  BY <1>4, EndTransactionStep
<1>5. CASE EndStage(p, stamp)
  BY <1>5, EndStageStep
<1>6. CASE Payload(p, stamp)
  BY <1>6, PayloadStep
<1>7. CASE Attribute(p, stamp)
  BY <1>7, AttributeStep
<1>8. CASE SpanKind(p, stamp)
  BY <1>8, SpanKindStep
<1>9. CASE EmbeddedEvent(p, stamp)
  BY <1>9, EmbeddedEventStep
<1>10. CASE EmbeddedStage(p, stamp)
  BY <1>10, EmbeddedStageStep
<1>11. CASE EndEmbedded(p, stamp)
  BY <1>11, EndEmbeddedStep
<1>12. CASE Relate(p, stamp)
  BY <1>12, RelateStep
<1>13. CASE ClockRun(p, stamp)
  BY <1>13, ClockRunStep
<1>14. CASE ClockStop(p, stamp)
  BY <1>14, ClockStopStep
<1>15. CASE Emit(p, stamp)
  BY <1>15, EmitStep
<1>16. CASE Blackout(p, stamp)
  BY <1>16, BlackoutStep
<1>17. CASE Dump(p, stamp)
  BY <1>17, DumpStep
<1> QED
  BY <1>1, <1>2, <1>3, <1>4, <1>5, <1>6, <1>7, <1>8, <1>9, <1>10, <1>11, <1>12, <1>13, <1>14,
     <1>15, <1>16, <1>17

LEMMA NextInv == Inv /\ [Next]_vars => Inv'
<1> SUFFICES ASSUME Inv, [Next]_vars PROVE Inv'
  OBVIOUS
<1>1. CASE UNCHANGED vars
  BY <1>1 DEF vars, Inv, Stands, Ids, ClaimsExclusive
<1>2. CASE Next
  <2>1. Step
    BY <1>2 DEF Next
  <2>2. ASSUME NEW p \in Producers, NEW stamp,
               \/ Begin(p, stamp) \/ BeginStage(p, stamp) \/ Point(p, stamp)
               \/ EndTransaction(p, stamp) \/ EndStage(p, stamp) \/ Payload(p, stamp)
               \/ Attribute(p, stamp) \/ SpanKind(p, stamp)
               \/ EmbeddedEvent(p, stamp) \/ EmbeddedStage(p, stamp) \/ EndEmbedded(p, stamp)
               \/ Relate(p, stamp) \/ ClockRun(p, stamp) \/ ClockStop(p, stamp)
               \/ Emit(p, stamp) \/ Blackout(p, stamp) \/ Dump(p, stamp)
        PROVE  Inv'
    BY <2>2, CaptureInv
  <2>3. CASE Intern \/ Declare \/ Associate \/ Flush \/ Close \/ Seal
    BY <2>3, InternStep, DeclareStep, AssociateStep, FlushStep, CloseStep, SealStep
  <2> QED
    BY <2>1, <2>2, <2>3 DEF Step
<1> QED
  BY <1>1, <1>2

\* In every state, whatever was called: the table of owners, with its slots
\* and its overflow map, holds each owner once; the stages that are open are
\* those their owners list; a record that waits for a block has an active
\* owner; and a claim of this time stands until its record has ended.
THEOREM Inductive == Spec => []Inv
BY InitInv, NextInv, PTL DEF Spec

\* No locator is ever lost: when flush_records writes a block, the owner of
\* each of its stages and events is active, so a recording can be finished.
THEOREM OwnersOutlive == Spec => []OwnersOutliveRecords
<1>1. Inv => OwnersOutliveRecords
  BY DEF Inv, OwnersOutliveRecords
<1> QED
  BY <1>1, Inductive, PTL

\* Captures that claim a record, clock or signal at one producer time, and are
\* accepted, are of one producer (Backend::claim in backend.rs).
THEOREM ClaimsAreExclusive == Spec => []ClaimsExclusive
<1>1. Inv => ClaimsExclusive
  BY DEF Inv
<1> QED
  BY <1>1, Inductive, PTL
=============================================================================
