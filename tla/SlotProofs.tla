----------------------------- MODULE SlotProofs -----------------------------
(***************************************************************************)
(* Proofs about the table of slots: it is the map from ids to entries that *)
(* the kernel takes it for, for any capacity and any range of the counter. *)
(***************************************************************************)
EXTENDS SlotTable, FiniteSetTheorems, TLAPS

\* An id drawn n calls of alloc before the counter stood at c.
DrawnBefore(id, n, c) == id + n = c \/ id + n = c + (Wrap - 1)

\* Of the entry in slot k: its age tells how far the counter has moved since.
EntryOk(k) ==
    slots[k] # Empty =>
        /\ slots[k] \in [id : Id, owner : Owner, dead : BOOLEAN]
        /\ age[k] <= Wrap - 2
        /\ DrawnBefore(slots[k].id, age[k] + 1, next_id)

SlotInv ==
    /\ slots \in [SlotNo -> Slot] /\ age \in [SlotNo -> 0 .. Wrap] /\ next_id \in Id
    /\ \A k \in SlotNo : EntryOk(k)
    /\ \A k, j \in SlotNo : slots[k] # Empty /\ slots[j] # Empty /\ slots[k].id = slots[j].id => k = j

\* Min picks an element.
LEMMA MinIsMember ==
    ASSUME NEW S \in SUBSET Nat, S # {}
    PROVE  Min(S) \in S
  <1>1. \E s \in S : \A t \in S : ~(<<t, s>> \in OpToRel(<, Nat))
    BY WFMin, NatLessThanWellFounded
  <1>2. \A s, t \in Nat : t < s => <<t, s>> \in OpToRel(<, Nat)
    BY DEF OpToRel
  <1>3. PICK s \in S : \A t \in S : ~(<<t, s>> \in OpToRel(<, Nat))
    BY <1>1
  <1>4. \A t \in S : ~(t < s)
    BY <1>2, <1>3
  <1>5. \E r \in S : \A t \in S : r <= t
    BY <1>4
  <1> QED BY <1>5 DEF Min

\* The counter counts up, and from the last id to the first.
LEMMA SuccCounts ==
    ASSUME NEW n \in Id
    PROVE  Succ(n) = (IF n = Wrap - 1 THEN 1 ELSE n + 1) /\ Succ(n) \in Id
  <1>1. n \in Nat /\ 1 <= n /\ n <= Wrap - 1 /\ Wrap \in Nat /\ Wrap > 1
    BY SlotAssumption DEF Id
  <1> DEFINE m == (n + 1) % Wrap
  <1>2. m = IF n = Wrap - 1 THEN 0 ELSE n + 1
    BY <1>1
  <1> HIDE DEF m
  <1>3. m \in Nat
    BY <1>1, <1>2
  <1>4. \E x \in {1, m} : \A y \in {1, m} : x >= y
    BY <1>3
  <1>5. Max({1, m}) \in {1, m} /\ \A y \in {1, m} : Max({1, m}) >= y
    BY <1>4 DEF Max
  <1>6. Max({1, m}) = IF n = Wrap - 1 THEN 1 ELSE n + 1
    BY <1>1, <1>2, <1>3, <1>5
  <1>7. Succ(n) = Max({1, m})
    BY DEF Succ, m
  <1> QED BY <1>1, <1>6, <1>7 DEF Id

\* An empty slot has no id.
LEMMA EmptyHasNoId == Empty \notin [id : Id, owner : Owner, dead : BOOLEAN] /\ Empty \in Slot
  BY DEF Empty, Id, Slot

\* The table starts empty.
LEMMA SlotInit == Init => SlotInv
  BY SlotAssumption, EmptyHasNoId DEF Init, SlotInv, EntryOk, Id

\* While all entries are younger than a turn of the counter, none has the next id.
LEMMA NextIdIsFree ==
    ASSUME SlotInv, Young, NEW k \in SlotNo, slots[k] # Empty
    PROVE  slots[k].id # next_id /\ age[k] < Wrap - 2
  <1>1. age[k] < Wrap - 2
    BY DEF Young, FreeSlots
  <1>2. /\ age[k] \in Nat /\ slots[k].id \in Nat /\ next_id \in Nat /\ Wrap \in Nat
        /\ DrawnBefore(slots[k].id, age[k] + 1, next_id)
    BY SlotAssumption DEF SlotInv, EntryOk, Id
  <1> QED BY <1>1, <1>2 DEF DrawnBefore

\* alloc leaves the entries as they are, one call older, and puts the new one into a
\* free slot if there is one.
LEMMA AllocSteps ==
    ASSUME SlotInv, NEW o \in Owner, Alloc(o)
    PROVE  /\ SlotInv'
           /\ \/ FreeSlots = {} /\ slots' = slots
              \/ \E k \in FreeSlots :
                    slots' = [slots EXCEPT ![k] = [id |-> next_id, owner |-> o, dead |-> FALSE]]
  <1> DEFINE new == [id |-> next_id, owner |-> o, dead |-> FALSE]
  <1>1. /\ slots \in [SlotNo -> Slot] /\ age \in [SlotNo -> Nat] /\ next_id \in Id
        /\ next_id' = Succ(next_id) /\ Wrap \in Nat /\ Wrap > 1 /\ next_id \in Nat
    BY SlotAssumption DEF SlotInv, Alloc, Id
  <1>2. next_id' = (IF next_id = Wrap - 1 THEN 1 ELSE next_id + 1) /\ next_id' \in Id
    BY <1>1, SuccCounts
  <1>3. /\ age' \in [SlotNo -> 0 .. Wrap]
        /\ \A k \in SlotNo : age'[k] = IF slots[k] = Empty THEN 0 ELSE age[k] + 1
    <2>1. \A k \in SlotNo : slots[k] # Empty => age[k] < Wrap - 2
      BY NextIdIsFree DEF Alloc
    <2> QED BY <1>1, <2>1 DEF Alloc
  <1>4. new \in Slot /\ new # Empty /\ new \in [id : Id, owner : Owner, dead : BOOLEAN]
        /\ new.id = next_id
    BY <1>1 DEF Slot, Empty, Id
  <1> HIDE DEF new
  <1>5. ASSUME NEW k \in SlotNo, slots[k] # Empty, slots'[k] = slots[k]
        PROVE  EntryOk(k)'
    <2>1. /\ age[k] < Wrap - 2 /\ age[k] \in Nat /\ slots[k].id \in Nat
          /\ DrawnBefore(slots[k].id, age[k] + 1, next_id)
          /\ slots[k] \in [id : Id, owner : Owner, dead : BOOLEAN]
      BY <1>1, <1>5, NextIdIsFree DEF SlotInv, EntryOk, Id, Alloc
    <2>2. age'[k] = age[k] + 1
      BY <1>3, <1>5
    <2>3. slots[k].id <= Wrap - 1
      BY <1>1, <2>1 DEF Id
    <2>4. DrawnBefore(slots[k].id, age[k] + 1 + 1, next_id')
      BY <1>1, <1>2, <2>1, <2>3 DEF DrawnBefore
    <2>5. age[k] + 1 <= Wrap - 2
      BY <1>1, <2>1
    <2> QED BY <1>5, <2>1, <2>2, <2>4, <2>5 DEF EntryOk, Empty
  <1>6. CASE FreeSlots = {}
    <2>1. slots' = slots /\ \A k \in SlotNo : slots[k] # Empty
      BY <1>6 DEF Alloc, FreeSlots
    <2>2. \A k \in SlotNo : EntryOk(k)'
      BY <1>5, <2>1
    <2>3. SlotInv'
      BY <1>1, <1>2, <1>3, <2>1, <2>2 DEF SlotInv, Empty
    <2> QED BY <1>6, <2>1, <2>3
  <1>7. CASE FreeSlots # {}
    <2> DEFINE j == Min(FreeSlots)
    <2>1. j \in FreeSlots
      BY <1>7, MinIsMember DEF FreeSlots, SlotNo
    <2>2. slots' = [slots EXCEPT ![j] = new]
      BY <1>7 DEF Alloc, new
    <2> HIDE DEF j
    <2>3. /\ j \in SlotNo /\ slots[j] = Empty /\ slots' \in [SlotNo -> Slot]
          /\ \A k \in SlotNo : slots'[k] = IF k = j THEN new ELSE slots[k]
      BY <1>1, <1>4, <2>1, <2>2 DEF FreeSlots
    <2>4. ASSUME NEW k \in SlotNo PROVE EntryOk(k)'
      <3>1. CASE k = j
        <4>1. slots'[k] = new /\ age'[k] = 0
          BY <1>3, <2>3, <3>1
        <4>2. DrawnBefore(next_id, 0 + 1, next_id')
          BY <1>1, <1>2 DEF DrawnBefore
        <4> QED BY <1>1, <1>4, <4>1, <4>2 DEF EntryOk
      <3>2. CASE k # j
        BY <1>5, <2>3, <3>2 DEF EntryOk, Empty
      <3> QED BY <3>1, <3>2
    <2>5. ASSUME NEW k \in SlotNo, NEW i \in SlotNo, slots'[k] # Empty, slots'[i] # Empty,
                 slots'[k].id = slots'[i].id
          PROVE  k = i
      <3>1. \A h \in SlotNo : h # j /\ slots'[h] # Empty => slots'[h].id # next_id
        BY <2>3, NextIdIsFree DEF Alloc
      <3> QED BY <1>4, <2>3, <2>5, <3>1 DEF SlotInv
    <2>6. SlotInv'
      BY <1>2, <1>3, <2>3, <2>4, <2>5 DEF SlotInv, Empty
    <2> QED BY <2>1, <2>2, <2>6 DEF new
  <1> QED BY <1>6, <1>7

\* take empties the slot of the id.
LEMMA TakeSteps ==
    ASSUME SlotInv, NEW id \in Id, Take(id)
    PROVE  /\ SlotInv'
           /\ \E k \in SlotNo : /\ slots[k] # Empty /\ slots[k].id = id
                                /\ slots' = [slots EXCEPT ![k] = Empty]
  <1> DEFINE j == Min(SlotsOf(id))
  <1>1. j \in SlotsOf(id)
    BY MinIsMember DEF Take, SlotsOf, SlotNo
  <1>2. slots' = [slots EXCEPT ![j] = Empty] /\ age' = [age EXCEPT ![j] = 0] /\ next_id' = next_id
    BY DEF Take
  <1> HIDE DEF j
  <1>3. j \in SlotNo /\ slots[j] # Empty /\ slots[j].id = id
    BY <1>1 DEF SlotsOf
  <1>4. /\ slots' \in [SlotNo -> Slot] /\ age' \in [SlotNo -> 0 .. Wrap] /\ next_id' \in Id
        /\ \A k \in SlotNo : slots'[k] = IF k = j THEN Empty ELSE slots[k]
        /\ \A k \in SlotNo : age'[k] = IF k = j THEN 0 ELSE age[k]
    BY <1>2, <1>3, EmptyHasNoId, SlotAssumption DEF SlotInv
  <1>5. \A k \in SlotNo : EntryOk(k)'
    BY <1>2, <1>4 DEF SlotInv, EntryOk, Empty
  <1>6. SlotInv'
    BY <1>4, <1>5 DEF SlotInv, Empty
  <1> QED BY <1>2, <1>3, <1>6

\* poison_instance marks the entries of an owner and moves nothing.
LEMMA PoisonSteps ==
    ASSUME SlotInv, NEW o \in Owner, PoisonInstance(o)
    PROVE  /\ SlotInv'
           /\ \A k \in SlotNo :
                 /\ slots[k] = Empty => slots'[k] = Empty
                 /\ slots[k] # Empty =>
                       /\ slots'[k] # Empty /\ slots'[k].id = slots[k].id
                       /\ slots'[k].owner = slots[k].owner
                       /\ slots'[k].dead = (slots[k].dead \/ slots[k].owner = o)
  <1> DEFINE Full == [id : Id, owner : Owner, dead : BOOLEAN]
  <1>1. /\ \A k \in SlotNo : slots'[k] = IF slots[k] # Empty /\ slots[k].owner = o
                                         THEN [slots[k] EXCEPT !.dead = TRUE] ELSE slots[k]
        /\ slots' = [k \in SlotNo |-> slots'[k]] /\ next_id' = next_id /\ age' = age
    BY DEF PoisonInstance
  <1>2. \A k \in SlotNo : slots[k] # Empty => slots[k] \in Full
    BY DEF SlotInv, EntryOk
  <1>3. ASSUME NEW k \in SlotNo, slots[k] # Empty
        PROVE  /\ slots'[k] \in Full /\ slots'[k].id = slots[k].id
               /\ slots'[k].owner = slots[k].owner
               /\ slots'[k].dead = (slots[k].dead \/ slots[k].owner = o)
    <2>1. slots[k] \in Full
      BY <1>2, <1>3
    <2>2. CASE slots[k].owner = o
      <3>1. slots'[k] = [slots[k] EXCEPT !.dead = TRUE]
        BY <1>1, <1>3, <2>2
      <3> QED BY <2>1, <2>2, <3>1
    <2>3. CASE slots[k].owner # o
      <3>1. slots'[k] = slots[k]
        BY <1>1, <2>3
      <3> QED BY <2>1, <2>3, <3>1
    <2> QED BY <2>2, <2>3
  <1>4. \A k \in SlotNo : slots[k] # Empty => slots'[k] # Empty
    BY <1>3, EmptyHasNoId
  <1>5. \A k \in SlotNo : slots[k] = Empty => slots'[k] = Empty
    BY <1>1
  <1>6. \A k \in SlotNo : EntryOk(k)'
    BY <1>1, <1>3, <1>4, <1>5 DEF SlotInv, EntryOk, Empty
  <1>7. slots' \in [SlotNo -> Slot]
    <2>1. \A k \in SlotNo : slots'[k] \in Slot
      BY <1>3, <1>5, EmptyHasNoId DEF Slot
    <2> QED BY <1>1, <2>1
  <1>8. SlotInv'
    <2>1. ASSUME NEW k \in SlotNo, NEW j \in SlotNo, slots'[k] # Empty, slots'[j] # Empty,
                 slots'[k].id = slots'[j].id
          PROVE  k = j
      BY <1>3, <1>5, <2>1 DEF SlotInv
    <2> QED BY <1>1, <1>6, <1>7, <2>1 DEF SlotInv, Empty
  <1> QED BY <1>3, <1>4, <1>5, <1>8

\* The invariant holds after every step.
LEMMA SlotInductive == SlotInv /\ [Next]_vars => SlotInv'
  <1>1. SlotInv /\ UNCHANGED vars => SlotInv'
    BY DEF vars, SlotInv, EntryOk, Empty
  <1> QED BY <1>1, AllocSteps, TakeSteps, PoisonSteps DEF Next

\* The ids and the counter stay in their range: 0 is never handed out, although the
\* counter wraps.
THEOREM SlotTypes == Spec => []TypeOK
  <1>1. SlotInv => TypeOK
    <2> SUFFICES ASSUME SlotInv PROVE TypeOK
      OBVIOUS
    <2> QED BY DEF SlotInv, TypeOK
  <1> QED BY <1>1, SlotInit, SlotInductive, PTL DEF Spec

-----------------------------------------------------------------------------
(* The map *)

Holds(tab) == {k \in SlotNo : tab[k] # Empty}
Unique(tab) ==
    \A k, j \in SlotNo : tab[k] # Empty /\ tab[j] # Empty /\ tab[k].id = tab[j].id => k = j
EntryAt(tab, k) == [owner |-> tab[k].owner, dead |-> tab[k].dead]

\* The map that a table is, by the same definition as the refinement's.
MapOf(tab) ==
    [id \in {tab[k].id : k \in Holds(tab)} |->
        LET s == tab[Min({k \in SlotNo : tab[k] # Empty /\ tab[k].id = id})]
        IN  [owner |-> s.owner, dead |-> s.dead]]

\* get finds the one entry with the id.
LEMMA MapAt ==
    ASSUME NEW tab, Unique(tab), NEW k \in Holds(tab)
    PROVE  tab[k].id \in DOMAIN MapOf(tab) /\ MapOf(tab)[tab[k].id] = EntryAt(tab, k)
  <1> DEFINE id == tab[k].id
             S == {j \in SlotNo : tab[j] # Empty /\ tab[j].id = id}
  <1>1. k \in S /\ S \in SUBSET Nat
    BY DEF Holds, SlotNo
  <1>2. Min(S) \in S
    BY <1>1, MinIsMember
  <1>3. Min(S) = k
    BY <1>1, <1>2 DEF Unique
  <1>4. id \in {tab[j].id : j \in Holds(tab)}
    OBVIOUS
  <1>5. MapOf(tab)[id] = [owner |-> tab[Min(S)].owner, dead |-> tab[Min(S)].dead]
    BY <1>4 DEF MapOf
  <1> QED BY <1>3, <1>4, <1>5 DEF MapOf, EntryAt

\* The ids of the map are those of the slots in use.
LEMMA MapDomain ==
    ASSUME NEW tab
    PROVE  /\ DOMAIN MapOf(tab) = {tab[k].id : k \in Holds(tab)}
           /\ MapOf(tab) = [id \in DOMAIN MapOf(tab) |-> MapOf(tab)[id]]
  BY DEF MapOf

\* The refinement mapping is MapOf, before and after a step.
LEMMA MapIsRefined ==
    LET m == [id \in {slots[k].id : k \in SlotNo \ FreeSlots} |->
                 LET s == slots[Min(SlotsOf(id))] IN [owner |-> s.owner, dead |-> s.dead]]
    IN  m = MapOf(slots) /\ m' = MapOf(slots')
  <1>1. SlotNo \ FreeSlots = Holds(slots) /\ (SlotNo \ FreeSlots)' = Holds(slots')
    BY DEF FreeSlots, Holds, Empty
  <1> QED BY <1>1 DEF MapOf, SlotsOf, Empty

\* With a free slot there are less entries than the capacity.
LEMMA RoomLeft ==
    ASSUME NEW tab, Unique(tab), NEW j \in SlotNo, tab[j] = Empty
    PROVE  Cardinality(DOMAIN MapOf(tab)) < Cap
  <1> DEFINE H == Holds(tab)
             D == DOMAIN MapOf(tab)
             f == [k \in H |-> tab[k].id]
  <1>1. IsFiniteSet(SlotNo) /\ Cardinality(SlotNo) = Cap /\ Cap \in Nat
    BY FS_Interval, SlotAssumption DEF SlotNo
  <1>2. H \in SUBSET (SlotNo \ {j})
    BY DEF Holds
  <1>3. IsFiniteSet(SlotNo \ {j}) /\ Cardinality(SlotNo \ {j}) = Cap - 1
    BY <1>1, FS_RemoveElement
  <1>4. IsFiniteSet(H) /\ Cardinality(H) <= Cap - 1
    BY <1>2, <1>3, FS_Subset
  <1>5. f \in Bijection(H, D)
    <2>1. D = {tab[k].id : k \in H}
      BY MapDomain
    <2>2. f \in [H -> D] /\ \A d \in D : \E k \in H : f[k] = d
      BY <2>1
    <2>3. \A k, i \in H : f[k] = f[i] => k = i
      BY DEF Unique, Holds
    <2> QED BY <2>2, <2>3 DEF Bijection, Injection, Surjection, IsInjective
  <1>6. Cardinality(D) = Cardinality(H) /\ Cardinality(H) \in Nat
    BY <1>4, <1>5, FS_Bijection, FS_CardinalityType DEF ExistsBijection
  <1> QED BY <1>1, <1>4, <1>6

\* A new entry in a free slot is an insertion.
LEMMA InsertStep ==
    ASSUME SlotInv, SlotInv', NEW o \in Owner, NEW j \in SlotNo, slots[j] = Empty,
           \A k \in Holds(slots) : slots[k].id # next_id,
           slots' = [slots EXCEPT ![j] = [id |-> next_id, owner |-> o, dead |-> FALSE]]
    PROVE  LET m == MapOf(slots)
           IN  /\ next_id \notin DOMAIN m
               /\ MapOf(slots') = [i \in DOMAIN m \cup {next_id} |->
                                      IF i = next_id THEN [owner |-> o, dead |-> FALSE] ELSE m[i]]
  <1> DEFINE m == MapOf(slots)
             n == MapOf(slots')
             D == DOMAIN m \cup {next_id}
             g == [i \in D |-> IF i = next_id THEN [owner |-> o, dead |-> FALSE] ELSE m[i]]
             new == [id |-> next_id, owner |-> o, dead |-> FALSE]
  <1>1. Unique(slots) /\ Unique(slots') /\ slots \in [SlotNo -> Slot] /\ next_id \in Id
    BY DEF SlotInv, Unique, Empty
  <1>2. new # Empty /\ new.id = next_id
    BY <1>1 DEF Empty, Id
  <1>3. \A k \in SlotNo : slots'[k] = IF k = j THEN new ELSE slots[k]
    BY <1>1
  <1>4. Holds(slots') = Holds(slots) \cup {j}
    BY <1>2, <1>3 DEF Holds
  <1>5. DOMAIN m = {slots[k].id : k \in Holds(slots)}
    BY MapDomain
  <1>6. next_id \notin DOMAIN m
    BY <1>5
  <1> HIDE DEF new
  <1>7. DOMAIN n = D
    <2>1. DOMAIN n = {slots'[k].id : k \in Holds(slots')}
      BY MapDomain, ZenonT(60)
    <2>2. \A k \in Holds(slots) : slots'[k] = slots[k]
      BY <1>3 DEF Holds
    <2>3. slots'[j].id = next_id
      BY <1>2, <1>3
    <2> HIDE DEF m, n
    <2> QED BY <1>4, <1>5, <2>1, <2>2, <2>3
  <1>8. n[next_id] = [owner |-> o, dead |-> FALSE]
    <2>1. j \in Holds(slots') /\ slots'[j] = new
      BY <1>3, <1>4
    <2>2. n[slots'[j].id] = EntryAt(slots', j)
      BY <1>1, <2>1, MapAt
    <2>3. EntryAt(slots', j) = [owner |-> o, dead |-> FALSE]
      <3>1. new.owner = o /\ new.dead = FALSE
        BY Zenon DEF new
      <3> QED BY <2>1, <3>1, Zenon DEF EntryAt
    <2> QED BY <1>2, <2>1, <2>2, <2>3
  <1>9. ASSUME NEW i \in DOMAIN m PROVE n[i] = m[i]
    <2>1. PICK k \in Holds(slots) : i = slots[k].id
      BY <1>5
    <2>2. slots'[k] = slots[k] /\ k \in Holds(slots')
      BY <1>3, <1>4 DEF Holds
    <2>3. m[i] = EntryAt(slots, k) /\ n[i] = EntryAt(slots', k)
      BY <1>1, <2>1, <2>2, MapAt
    <2> QED BY <2>2, <2>3 DEF EntryAt
  <1>10. n = [i \in D |-> n[i]]
    BY <1>7, MapDomain
  <1> HIDE DEF m, n
  <1>11. n = g
    BY <1>6, <1>8, <1>9, <1>10
  <1> QED BY <1>6, <1>11 DEF m, n

\* An emptied slot is a removal.
LEMMA RemoveStep ==
    ASSUME SlotInv, SlotInv', NEW j \in Holds(slots), slots' = [slots EXCEPT ![j] = Empty]
    PROVE  LET m == MapOf(slots)
           IN  /\ slots[j].id \in DOMAIN m
               /\ MapOf(slots') = [i \in DOMAIN m \ {slots[j].id} |-> m[i]]
  <1> DEFINE m == MapOf(slots)
             n == MapOf(slots')
             id == slots[j].id
             D == DOMAIN m \ {id}
  <1>1. Unique(slots) /\ Unique(slots') /\ slots \in [SlotNo -> Slot] /\ j \in SlotNo
    BY DEF SlotInv, Unique, Empty, Holds
  <1>2. \A k \in SlotNo : slots'[k] = IF k = j THEN Empty ELSE slots[k]
    BY <1>1
  <1>3. Holds(slots') = Holds(slots) \ {j}
    BY <1>2 DEF Holds
  <1>4. DOMAIN m = {slots[k].id : k \in Holds(slots)}
    BY MapDomain
  <1>5. DOMAIN n = D
    <2>1. DOMAIN n = {slots'[k].id : k \in Holds(slots')}
      BY MapDomain, ZenonT(60)
    <2>2. \A k \in Holds(slots) : k # j => slots'[k] = slots[k] /\ slots[k].id # id
      BY <1>1, <1>2 DEF Holds, Unique
    <2> HIDE DEF m, n
    <2> QED BY <1>3, <1>4, <2>1, <2>2
  <1>6. ASSUME NEW i \in D PROVE n[i] = m[i]
    <2>1. PICK k \in Holds(slots) : i = slots[k].id
      BY <1>4
    <2>2. k # j
      BY <2>1
    <2>3. slots'[k] = slots[k] /\ k \in Holds(slots')
      BY <1>2, <1>3, <2>2 DEF Holds
    <2>4. m[i] = EntryAt(slots, k) /\ n[i] = EntryAt(slots', k)
      BY <1>1, <2>1, <2>3, MapAt
    <2> QED BY <2>3, <2>4 DEF EntryAt
  <1>7. n = [i \in D |-> n[i]]
    BY <1>5, MapDomain
  <1> HIDE DEF m, n, D
  <1>8. n = [i \in D |-> m[i]]
    BY <1>6, <1>7
  <1> QED BY <1>4, <1>8 DEF m, n, D

\* Marking the entries of an owner is a kill.
LEMMA KillStep ==
    ASSUME SlotInv, SlotInv', NEW o \in Owner,
           \A k \in SlotNo :
              /\ slots[k] = Empty => slots'[k] = Empty
              /\ slots[k] # Empty =>
                    /\ slots'[k] # Empty /\ slots'[k].id = slots[k].id
                    /\ slots'[k].owner = slots[k].owner
                    /\ slots'[k].dead = (slots[k].dead \/ slots[k].owner = o)
    PROVE  LET m == MapOf(slots)
           IN  MapOf(slots') = [i \in DOMAIN m |->
                                   IF m[i].owner = o THEN [m[i] EXCEPT !.dead = TRUE] ELSE m[i]]
  <1> DEFINE m == MapOf(slots)
             n == MapOf(slots')
             D == DOMAIN m
  <1>1. Unique(slots) /\ Unique(slots') /\ Holds(slots') = Holds(slots)
    BY DEF SlotInv, Unique, Empty, Holds
  <1>2. D = {slots[k].id : k \in Holds(slots)} /\ DOMAIN n = {slots'[k].id : k \in Holds(slots')}
    BY MapDomain
  <1>3. DOMAIN n = D
    <2>1. \A k \in Holds(slots) : slots'[k].id = slots[k].id
      BY DEF Holds
    <2> HIDE DEF m, n
    <2> QED BY <1>1, <1>2, <2>1
  <1>4. ASSUME NEW i \in D
        PROVE  n[i] = IF m[i].owner = o THEN [m[i] EXCEPT !.dead = TRUE] ELSE m[i]
    <2>1. PICK k \in Holds(slots) : i = slots[k].id
      BY <1>2
    <2>2. /\ k \in SlotNo /\ slots[k] # Empty /\ slots'[k].id = i
          /\ slots'[k].owner = slots[k].owner
          /\ slots'[k].dead = (slots[k].dead \/ slots[k].owner = o)
      BY <2>1 DEF Holds
    <2>3. m[i] = EntryAt(slots, k)
      BY <1>1, <2>1, MapAt
    <2>4. n[i] = EntryAt(slots', k)
      BY <1>1, <2>1, <2>2, MapAt
    <2>5. slots[k].dead \in BOOLEAN
      BY <2>2 DEF SlotInv, EntryOk
    <2> HIDE DEF m, n
    <2>6. CASE slots[k].owner = o
      <3>1. slots'[k].dead = TRUE
        BY <2>2, <2>6
      <3>2. m[i] = [owner |-> o, dead |-> slots[k].dead] /\ n[i] = [owner |-> o, dead |-> TRUE]
        BY <2>2, <2>3, <2>4, <2>6, <3>1 DEF EntryAt
      <3>3. m[i].owner = o /\ [m[i] EXCEPT !.dead = TRUE] = [owner |-> o, dead |-> TRUE]
        <4>1. m[i].owner = o /\ \A b : [m[i] EXCEPT !.dead = b] = [owner |-> o, dead |-> b]
          BY <3>2
        <4> QED BY <4>1, Zenon
      <3> QED BY <3>2, <3>3
    <2>7. CASE slots[k].owner # o
      <3>1. slots'[k].dead = slots[k].dead
        BY <2>2, <2>5, <2>7
      <3> QED BY <2>2, <2>3, <2>4, <2>7, <3>1 DEF EntryAt
    <2> QED BY <2>6, <2>7
  <1>5. n = [i \in D |-> n[i]]
    BY <1>3, MapDomain
  <1> HIDE DEF m, n, D
  <1>6. n = [i \in D |-> IF m[i].owner = o THEN [m[i] EXCEPT !.dead = TRUE] ELSE m[i]]
    BY <1>4, <1>5
  <1> QED BY <1>6 DEF m, n, D

\* The table is the map the kernel takes it for: get and take of an id reach the entry
\* that alloc returned the id for, whatever slots were freed and filled in between and
\* although the counter wraps.
THEOREM TableIsMap == Spec => ImplementsTable
  <1>1. Init => Table!MapInit
    <2> SUFFICES ASSUME Init PROVE Table!MapInit
      OBVIOUS
    <2>1. FreeSlots = SlotNo
      BY DEF Init, FreeSlots
    <2> QED BY <2>1 DEF Table!MapInit
  <1>2. SlotInv /\ SlotInv' /\ [Next]_vars => Table!MapNext \/ MapOf(slots') = MapOf(slots)
    <2> SUFFICES ASSUME SlotInv, SlotInv', [Next]_vars
                 PROVE  Table!MapNext \/ MapOf(slots') = MapOf(slots)
      OBVIOUS
    <2>1. CASE UNCHANGED vars
      BY <2>1 DEF vars
    <2>2. ASSUME NEW o \in Owner, Alloc(o)
          PROVE  Table!MapNext \/ MapOf(slots') = MapOf(slots)
      <3>1. CASE slots' = slots
        BY <3>1
      <3>2. ASSUME NEW j \in FreeSlots,
                   slots' = [slots EXCEPT ![j] = [id |-> next_id, owner |-> o, dead |-> FALSE]]
            PROVE  Table!MapNext
        <4>1. j \in SlotNo /\ slots[j] = Empty /\ next_id \in Id /\ Unique(slots)
          BY DEF FreeSlots, SlotInv, Unique
        <4>2. \A k \in Holds(slots) : slots[k].id # next_id
          BY <2>2, NextIdIsFree DEF Alloc, Holds
        <4>3. /\ next_id \notin DOMAIN MapOf(slots)
              /\ MapOf(slots') = [i \in DOMAIN MapOf(slots) \cup {next_id} |->
                     IF i = next_id THEN [owner |-> o, dead |-> FALSE] ELSE MapOf(slots)[i]]
          BY <3>2, <4>1, <4>2, InsertStep
        <4>4. Cardinality(DOMAIN MapOf(slots)) < Cap
          BY <4>1, RoomLeft
        <4>5. \A S : Table!Cardinality(S) = Cardinality(S)
          BY DEF Table!Cardinality, Cardinality
        <4>6. Table!Insert(next_id, o)
          BY <4>3, <4>4, <4>5, MapIsRefined DEF Table!Insert
        <4> QED BY <4>1, <4>6 DEF Table!MapNext
      <3> QED BY <2>2, <3>1, <3>2, AllocSteps
    <2>3. ASSUME NEW o \in Owner, PoisonInstance(o)
          PROVE  Table!MapNext
      <3>1. \A k \in SlotNo :
              /\ slots[k] = Empty => slots'[k] = Empty
              /\ slots[k] # Empty =>
                    /\ slots'[k] # Empty /\ slots'[k].id = slots[k].id
                    /\ slots'[k].owner = slots[k].owner
                    /\ slots'[k].dead = (slots[k].dead \/ slots[k].owner = o)
        BY <2>3, PoisonSteps
      <3>2. MapOf(slots') = [i \in DOMAIN MapOf(slots) |->
                IF MapOf(slots)[i].owner = o THEN [MapOf(slots)[i] EXCEPT !.dead = TRUE]
                ELSE MapOf(slots)[i]]
        BY <3>1, KillStep
      <3> DEFINE m == [id \in {slots[k].id : k \in SlotNo \ FreeSlots} |->
                         LET s == slots[Min(SlotsOf(id))] IN [owner |-> s.owner, dead |-> s.dead]]
      <3>a. m = MapOf(slots) /\ m' = MapOf(slots')
        BY MapIsRefined
      <3> HIDE DEF m
      <3>b. m' = [i \in DOMAIN m |->
                     IF m[i].owner = o THEN [m[i] EXCEPT !.dead = TRUE] ELSE m[i]]
        BY <3>2, <3>a
      <3>3. Table!Kill(o)
        BY <3>b, Zenon DEF Table!Kill, m
      <3> QED BY <3>3 DEF Table!MapNext
    <2>4. ASSUME NEW id \in Id, Take(id)
          PROVE  Table!MapNext
      <3>1. PICK k \in SlotNo : /\ slots[k] # Empty /\ slots[k].id = id
                                /\ slots' = [slots EXCEPT ![k] = Empty]
        BY <2>4, TakeSteps
      <3>2. /\ id \in DOMAIN MapOf(slots)
            /\ MapOf(slots') = [i \in DOMAIN MapOf(slots) \ {id} |-> MapOf(slots)[i]]
        BY <3>1, RemoveStep DEF Holds
      <3>3. Table!Remove(id)
        BY <3>2, MapIsRefined DEF Table!Remove
      <3> QED BY <3>3 DEF Table!MapNext
    <2> QED BY <2>1, <2>2, <2>3, <2>4 DEF Next
  <1>3. SlotInv /\ SlotInv' /\ [Next]_vars =>
            [Table!MapNext]_([id \in {slots[k].id : k \in SlotNo \ FreeSlots} |->
                LET s == slots[Min(SlotsOf(id))] IN [owner |-> s.owner, dead |-> s.dead]])
    BY <1>2, MapIsRefined
  <1> QED BY <1>1, <1>3, SlotInit, SlotInductive, PTL DEF Spec, ImplementsTable, Table!MapSpec

=============================================================================
