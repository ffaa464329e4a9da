------------------------------ MODULE SlotTable ------------------------------
(***************************************************************************)
(* SessionTable (and InstanceTable, which is the same code) of rustee-os:  *)
(* a vector of slots that is searched from the front, and an id counter    *)
(* that wraps.  An entry is abstracted to the instance it names and        *)
(* whether it is Dead.                                                     *)
(*                                                                         *)
(* Nothing in alloc looks for an entry that still has the id which the     *)
(* counter comes back to.  `age' is a history variable, the number of      *)
(* calls of alloc since the entry was made; the environment assumption     *)
(* below keeps every entry younger than one turn of the counter.           *)
(***************************************************************************)
EXTENDS Naturals, FiniteSets, FiniteSetsExt

CONSTANTS
    Cap,     \* capacity of the table
    Wrap,    \* values of next_id, 2^32 in the code
    Owner    \* instances that entries name

ASSUME SlotAssumption == Cap \in Nat /\ Wrap \in Nat /\ Wrap > 1 /\ Owner # {}

VARIABLES slots, next_id, age

vars == <<slots, next_id, age>>

SlotNo == 1..Cap
Id == 1..(Wrap - 1)
Empty == [id |-> 0, owner |-> CHOOSE o \in Owner : TRUE, dead |-> FALSE]
Slot == [id : Id, owner : Owner, dead : BOOLEAN] \cup {Empty}

Init ==
    /\ slots = [k \in SlotNo |-> Empty]
    /\ next_id = 1
    /\ age = [k \in SlotNo |-> 0]

\* A faulty counter, for mutation: it wraps to 0.
SuccNoMax(n) == (n + 1) % Wrap

\* wrapping_add(1).max(1)
Succ(n) == Max({1, (n + 1) % Wrap})

FreeSlots == {k \in SlotNo : slots[k] = Empty}

\* get and take: the first slot with the id.
SlotsOf(id) == {k \in SlotNo : slots[k] # Empty /\ slots[k].id = id}

\* Assumption of the model: less than a turn of the counter while an entry lives.
Young == \A k \in SlotNo \ FreeSlots : age[k] < Wrap - 2

\* A faulty alloc, for mutation: a full table gives up its first entry.
AllocEvicts(o) ==
    LET k == IF FreeSlots = {} THEN 1 ELSE Min(FreeSlots)
    IN  /\ Young
        /\ next_id' = Succ(next_id)
        /\ slots' = [slots EXCEPT ![k] = [id |-> next_id, owner |-> o, dead |-> FALSE]]
        /\ age' = [j \in SlotNo |-> IF j = k \/ slots[j] = Empty THEN 0 ELSE age[j] + 1]

\* alloc: the id is drawn before a slot is found, so a full table spends it too.
Alloc(o) ==
    /\ Young
    /\ next_id' = Succ(next_id)
    /\ IF FreeSlots = {}
       THEN UNCHANGED slots
       ELSE slots' = [slots EXCEPT ![Min(FreeSlots)] =
                         [id |-> next_id, owner |-> o, dead |-> FALSE]]
    /\ age' = [k \in SlotNo |-> IF slots[k] = Empty THEN 0 ELSE age[k] + 1]

\* take, and drop_id of InstanceTable.
Take(id) ==
    /\ SlotsOf(id) # {}
    /\ slots' = [slots EXCEPT ![Min(SlotsOf(id))] = Empty]
    /\ age' = [age EXCEPT ![Min(SlotsOf(id))] = 0]
    /\ UNCHANGED next_id

\* poison_instance.
PoisonInstance(o) ==
    /\ slots' = [k \in SlotNo |->
                    IF slots[k] # Empty /\ slots[k].owner = o
                    THEN [slots[k] EXCEPT !.dead = TRUE] ELSE slots[k]]
    /\ UNCHANGED <<next_id, age>>

Next ==
    \/ \E o \in Owner : Alloc(o) \/ PoisonInstance(o)
    \/ \E id \in Id : Take(id)

Spec == Init /\ [][Next]_vars

-----------------------------------------------------------------------------

\* The counter never hands out 0, the id of a session that is not in a table
\* yet, although it wraps.
TypeOK ==
    /\ slots \in [SlotNo -> Slot]
    /\ next_id \in Id
    /\ age \in [SlotNo -> 0..Wrap]

\* The table is a map: get and take of an id reach the entry that alloc returned
\* the id for, whatever slots were freed and filled in between.
Table == INSTANCE IdTable WITH
    entries <- [id \in {slots[k].id : k \in SlotNo \ FreeSlots} |->
                   LET s == slots[Min(SlotsOf(id))] IN [owner |-> s.owner, dead |-> s.dead]]
ImplementsTable == Table!MapSpec

=============================================================================
