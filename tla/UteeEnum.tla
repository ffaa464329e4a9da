------------------------------ MODULE UteeEnum ------------------------------
(***************************************************************************)
(* The enumerators of a TA: those of properties and those of persistent    *)
(* objects, in crates/rustee-utee/src/runtime.rs, property.rs and c_abi.rs.*)
(* A handle is the number of a slot, so a freed handle becomes that of the *)
(* next enumerator.  The store is external: it lists the objects it has.   *)
(***************************************************************************)
EXTENDS Naturals, Sequences, FiniteSets, Functions

CONSTANTS
  ENUM_SLOTS, \* enumerators of each sort, 4 in the code
  Objects,    \* ids of persistent objects
  MaxList     \* bound: objects the store has at a time

ASSUME EnumAssumption == ENUM_SLOTS \in Nat \ {0}

VARIABLES
  enums,     \* property enumerators
  obj_enums, \* object enumerators
  objects,   \* external: the objects of the store, as it lists them
  given,     \* history: objects each enumerator gave since its start
  snap,      \* history: objects there were at its start
  ended      \* history: it said ITEM_NOT_FOUND since

enumVars == <<enums, obj_enums, objects, given, snap, ended>>

Slots == 1..ENUM_SLOTS

\* EnumSlot::empty and ObjEnumSlot::empty
NoEnum == [used |-> FALSE, set |-> "none", idx |-> 0, started |-> FALSE]
NoObjEnum == [used |-> FALSE, started |-> FALSE, idx |-> 0, items |-> <<>>]

EnumInit ==
  /\ enums = [s \in Slots |-> NoEnum]
  /\ obj_enums = [s \in Slots |-> NoObjEnum]
  /\ objects = <<>>
  /\ given = [s \in Slots |-> <<>>] /\ snap = [s \in Slots |-> <<>>]
  /\ ended = [s \in Slots |-> FALSE]

\* The slot a handle means, if it is in use; other handles change nothing.
slot_mut(e, h) == e[h].used

FreeSlots(e) == {s \in Slots : ~e[s].used}

LowestFree(e) == CHOOSE s \in FreeSlots(e) : \A t \in FreeSlots(e) : s <= t

----------------------------------------------------------------------------
(* Persistent objects *)

AllocObjectEnumerator ==
  /\ FreeSlots(obj_enums) # {}
  /\ obj_enums' = [obj_enums EXCEPT ![LowestFree(obj_enums)] = [NoObjEnum EXCEPT !.used = TRUE]]
  /\ UNCHANGED <<enums, objects, given, snap, ended>>

\* The history of slot h starts anew.
Forget(h, s) ==
  /\ given' = [given EXCEPT ![h] = <<>>]
  /\ snap' = [snap EXCEPT ![h] = s]
  /\ ended' = [ended EXCEPT ![h] = FALSE]

FreeObjectEnumerator(h) ==
  /\ slot_mut(obj_enums, h)
  /\ obj_enums' = [obj_enums EXCEPT ![h] = NoObjEnum]
  /\ Forget(h, <<>>)
  /\ UNCHANGED <<enums, objects>>

\* An enumerator that was started stays so.
ResetObjectEnumerator(h) ==
  /\ slot_mut(obj_enums, h)
  /\ obj_enums' = [obj_enums EXCEPT ![h].idx = 0]
  /\ Forget(h, snap[h])
  /\ UNCHANGED <<enums, objects>>

\* A faulty start_object_enumerator, for mutation: the position is kept.
StartKeepsPosition(h) ==
  /\ slot_mut(obj_enums, h)
  /\ obj_enums' = [obj_enums EXCEPT ![h].items = objects, ![h].started = TRUE]
  /\ Forget(h, objects)
  /\ UNCHANGED <<enums, objects>>

\* start_object_enumerator of the private storage when the store can be
\* listed; otherwise an error is returned and nothing changes.
StartObjectEnumerator(h) ==
  /\ slot_mut(obj_enums, h)
  /\ obj_enums' = [obj_enums EXCEPT ![h].items = objects, ![h].idx = 0, ![h].started = TRUE]
  /\ Forget(h, objects)
  /\ UNCHANGED <<enums, objects>>

\* TEE_GetNextPersistentObject with room for the id or without: only an id
\* that was handed out is passed.
GetNextPersistentObject(h, room) ==
  /\ slot_mut(obj_enums, h) /\ obj_enums[h].started
  /\ LET e == obj_enums[h]
     IN  IF e.idx >= Len(e.items)
         THEN ended' = [ended EXCEPT ![h] = TRUE] /\ UNCHANGED <<obj_enums, given>>
         ELSE /\ room
              /\ obj_enums' = [obj_enums EXCEPT ![h].idx = @ + 1]
              /\ given' = [given EXCEPT ![h] = Append(@, e.items[e.idx + 1])]
              /\ UNCHANGED ended
  /\ UNCHANGED <<enums, objects, snap>>

\* Other sessions of the TA create and delete objects meanwhile.
StoreChanges ==
  /\ \/ \E o \in Objects \ Range(objects) : Len(objects) < MaxList /\ objects' = Append(objects, o)
     \/ \E i \in DOMAIN objects : objects' = [j \in 1..(Len(objects) - 1) |-> objects[IF j < i THEN j ELSE j + 1]]
  /\ UNCHANGED <<enums, obj_enums, given, snap, ended>>

ObjEnumNext ==
  \/ AllocObjectEnumerator \/ StoreChanges
  \/ \E h \in Slots :
       \/ FreeObjectEnumerator(h) \/ ResetObjectEnumerator(h) \/ StartObjectEnumerator(h)
       \/ \E room \in BOOLEAN : GetNextPersistentObject(h, room)

ObjEnumSpec == EnumInit /\ [][ObjEnumNext]_enumVars

----------------------------------------------------------------------------
(* Properties of the TA, its client and the TEE *)

\* Set, name and kind.
PROPS == <<
  <<"TA", "gpd.ta.appID", "Uuid">>,
  <<"TA", "gpd.ta.singleInstance", "Bool">>,
  <<"TA", "gpd.ta.multiSession", "Bool">>,
  <<"TA", "gpd.ta.instanceKeepAlive", "Bool">>,
  <<"TA", "gpd.ta.dataSize", "U32">>,
  <<"TA", "gpd.ta.stackSize", "U32">>,
  <<"TA", "gpd.ta.version", "Str">>,
  <<"TA", "gpd.ta.description", "Str">>,
  <<"TA", "gpd.ta.endian", "U32">>,
  <<"TA", "gpd.ta.doesNotCloseHandleOnCorruptObject", "Bool">>,
  <<"CLIENT", "gpd.client.identity", "Identity">>,
  <<"CLIENT", "gpd.client.endian", "U32">>,
  <<"TEE", "gpd.tee.apiversion", "Str">>,
  <<"TEE", "gpd.tee.internalCore.version", "U32">>,
  <<"TEE", "gpd.tee.description", "Str">>,
  <<"TEE", "gpd.tee.deviceID", "Uuid">>,
  <<"TEE", "gpd.tee.systemTime.protectionLevel", "U32">>,
  <<"TEE", "gpd.tee.TAPersistentTime.protectionLevel", "U32">>,
  <<"TEE", "gpd.tee.arith.maxBigIntSize", "U32">>,
  <<"TEE", "gpd.tee.trustedStorage.antiRollback.protectionLevel", "U32">>,
  <<"TEE", "gpd.tee.cryptography.ecc", "Bool">>,
  <<"TEE", "gpd.tee.cryptography.nist", "Bool">>,
  <<"TEE", "gpd.tee.cryptography.bsi-r", "Bool">>,
  <<"TEE", "gpd.tee.cryptography.bsi-t", "Bool">>,
  <<"TEE", "gpd.tee.cryptography.ietf", "Bool">>,
  <<"TEE", "gpd.tee.cryptography.rsa", "Bool">>,
  <<"TEE", "gpd.tee.trustedos.implementation.version", "Str">>,
  <<"TEE", "gpd.tee.trustedos.implementation.description", "Str">>,
  <<"TEE", "gpd.tee.firmware.implementation.version", "Str">>,
  <<"TEE", "gpd.tee.firmware.implementation.description", "Str">>>>

\* Names as pairs of set and name, of the properties each getter knows.
BoolArms ==
  ({"TA"} \X {"gpd.ta.singleInstance", "gpd.ta.multiSession", "gpd.ta.instanceKeepAlive",
              "gpd.ta.doesNotCloseHandleOnCorruptObject"})
  \cup ({"TEE"} \X {"gpd.tee.cryptography.ecc", "gpd.tee.cryptography.nist",
                    "gpd.tee.cryptography.bsi-r", "gpd.tee.cryptography.bsi-t",
                    "gpd.tee.cryptography.ietf", "gpd.tee.cryptography.rsa"})

U32Arms ==
  {"gpd.ta.dataSize", "gpd.ta.stackSize", "gpd.ta.endian", "gpd.client.endian",
   "gpd.tee.internalCore.version", "gpd.tee.systemTime.protectionLevel",
   "gpd.tee.TAPersistentTime.protectionLevel", "gpd.tee.arith.maxBigIntSize",
   "gpd.tee.trustedStorage.antiRollback.protectionLevel"}

StrArms ==
  ({"TA"} \X {"gpd.ta.version", "gpd.ta.description"})
  \cup ({"TEE"} \X {"gpd.tee.apiversion", "gpd.tee.description",
                    "gpd.tee.trustedos.implementation.version",
                    "gpd.tee.trustedos.implementation.description",
                    "gpd.tee.firmware.implementation.version",
                    "gpd.tee.firmware.implementation.description"})

UuidArms == {<<"TA", "gpd.ta.appID">>, <<"TEE", "gpd.tee.deviceID">>}

IdentityArms == {<<"CLIENT", "gpd.client.identity">>}

\* The kind the table gives a name, as a set with at most one element.
find(set, name) == {PROPS[i][3] : i \in {j \in DOMAIN PROPS : PROPS[j][1] = set /\ PROPS[j][2] = name}}

\* A faulty get_u32, for mutation: booleans are not read as numbers, which
\* binary_of relies on.
get_u32_only(set, name) == "U32" \in find(set, name) /\ name \in U32Arms

get_u32(set, name) ==
  \/ "U32" \in find(set, name) /\ name \in U32Arms
  \/ "Bool" \in find(set, name) /\ <<set, name>> \in BoolArms

\* Whether the getter of a kind succeeds; get_u64 is get_u32.
Gets(kind, set, name) ==
  CASE kind = "Bool" -> <<set, name>> \in BoolArms
    [] kind \in {"U32", "U64"} -> get_u32(set, name)
    [] kind = "Str" -> <<set, name>> \in StrArms
    [] kind = "Uuid" -> <<set, name>> \in UuidArms
    [] kind = "Identity" -> <<set, name>> \in IdentityArms

\* The strings a TA chooses for itself (configure_ta).
TaStrings == {"gpd.ta.version", "gpd.ta.description"}

\* binary_of, into the 256 bytes that TEE_GetPropertyAsBinaryBlock has for
\* it, tries the getters in turn.  long: the strings with more bytes than
\* that; uuids, identities, numbers and the strings of the TEE have fewer.
binary_of(set, name, long) ==
  CASE \E k \in {"Uuid", "Identity", "U32"} : Gets(k, set, name) -> "SUCCESS"
    [] OTHER -> IF ~Gets("Str", set, name) THEN "ITEM_NOT_FOUND"
                ELSE IF name \in long THEN "SHORT_BUFFER" ELSE "SUCCESS"

names_for(set) == SelectSeq(PROPS, LAMBDA p : p[1] = set)

AllocEnumerator ==
  /\ FreeSlots(enums) # {}
  /\ enums' = [enums EXCEPT ![LowestFree(enums)] = [NoEnum EXCEPT !.used = TRUE]]
  /\ UNCHANGED <<obj_enums, objects, given, snap, ended>>

\* free_enumerator, start_enumerator, reset_enumerator and enumerator_next.
\* The last stops at the end here; in the code the position runs on.
WithEnumerator(h) ==
  /\ slot_mut(enums, h)
  /\ \/ enums' = [enums EXCEPT ![h] = NoEnum]
     \/ \E set \in {"TA", "CLIENT", "TEE"} :
          enums' = [enums EXCEPT ![h].set = set, ![h].idx = 0, ![h].started = TRUE]
     \/ enums' = [enums EXCEPT ![h].idx = 0]
     \/ /\ enums[h].started /\ enums[h].idx < Len(names_for(enums[h].set))
        /\ enums' = [enums EXCEPT ![h].idx = @ + 1]
  /\ UNCHANGED <<obj_enums, objects, given, snap, ended>>

\* enumerator_current: whether there is one, and which.
HasCurrent(h) ==
  slot_mut(enums, h) /\ enums[h].started /\ enums[h].idx < Len(names_for(enums[h].set))

enumerator_current(h) == names_for(enums[h].set)[enums[h].idx + 1]

PropEnumNext == AllocEnumerator \/ \E h \in Slots : WithEnumerator(h)

----------------------------------------------------------------------------
(* Properties *)

EnumTypeOK ==
  /\ \A s \in Slots :
       /\ enums[s].used \in BOOLEAN /\ enums[s].idx \in Nat
       /\ ~obj_enums[s].used => obj_enums[s] = NoObjEnum

\* An enumerator gives the objects that were there when it was started, each
\* once and in order, and says that there are no more only after the last
\* one, whatever is created and deleted meanwhile, with buffers that are too
\* short, and after resets and reuse of its slot.
EnumeratesSnapshot ==
  \A h \in Slots :
    /\ Len(given[h]) <= Len(snap[h])
    /\ \A i \in DOMAIN given[h] : given[h][i] = snap[h][i]
    /\ ended[h] => given[h] = snap[h]

\* What an enumerator of properties stands on can be read through it: the
\* getter of its kind knows it, the getter of another kind only where a
\* boolean or a number is read as a number, and TEE_GetPropertyAsBinaryBlock
\* reads all but the strings of the TA that are longer than its buffer, for
\* which it says SHORT_BUFFER.
EnumeratedPropertyReadable ==
  \A h \in Slots : HasCurrent(h) =>
    LET set == enumerator_current(h)[1]
        name == enumerator_current(h)[2]
        kind == enumerator_current(h)[3]
    IN  /\ Gets(kind, set, name)
        /\ \A k \in {"Bool", "U32", "U64", "Str", "Uuid", "Identity"} :
             Gets(k, set, name) =>
               k = kind \/ (k \in {"U32", "U64"} /\ kind \in {"Bool", "U32"})
        /\ \A long \in SUBSET TaStrings :
             binary_of(set, name, long) = IF name \in long THEN "SHORT_BUFFER" ELSE "SUCCESS"
============================================================================
