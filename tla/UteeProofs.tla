----------------------------- MODULE UteeProofs -----------------------------
(***************************************************************************)
(* Proofs about the runtime library of a TA: its session table, its object *)
(* enumerators, its persistent time and its heap.  Each part is proved     *)
(* under its own specification, for tables, clocks and buffers of any size.*)
(***************************************************************************)
EXTENDS UteeClient, UteeEnum, UteeTime, UteeHeap, FiniteSetTheorems,
        SequenceTheorems, TLAPS

-----------------------------------------------------------------------------
(* The session table *)

\* First picks an element, the least one.
LEMMA FirstIsMember ==
    ASSUME NEW S \in SUBSET Nat, S # {}
    PROVE  First(S) \in S
  <1>1. \E s \in S : \A t \in S : ~(<<t, s>> \in OpToRel(<, Nat))
    BY WFMin, NatLessThanWellFounded, Zenon
  <1>2. \A s, t \in Nat : t < s => <<t, s>> \in OpToRel(<, Nat)
    BY DEF OpToRel
  <1>3. PICK s \in S : \A t \in S : ~(<<t, s>> \in OpToRel(<, Nat))
    BY <1>1, Zenon
  <1>4. \A t \in S : ~(t < s)
    BY <1>2, <1>3, Zenon
  <1>5. \E r \in S : \A t \in S : r <= t
    BY <1>4
  <1> QED BY <1>5, Zenon DEF First

\* What the table always satisfies, crowded or not: an id is in it at most once,
\* and is one the kernel gave out.
TableSound ==
  /\ sessions \in [Entry -> Nat] /\ opened \in Nat /\ opened <= MaxSession
  /\ live \subseteq 1..opened
  /\ \A s \in Entry : sessions[s] <= opened
  /\ \A s, t \in Entry : sessions[s] = sessions[t] /\ sessions[s] # 0 => s = t
  /\ next_cancel_id \in 1..(CancelWrap - 1)

\* As long as the table was never full, it is the set of live sessions.
TableExact ==
  ~crowded => /\ \A s \in Entry : sessions[s] # 0 => sessions[s] \in live
              /\ \A h \in live : \E s \in Entry : sessions[s] = h
              /\ ~panicked

ClientInv == TableSound /\ TableExact

\* Closing h takes out the one entry that holds it.
LEMMA ForgetsOne ==
    ASSUME TableSound, NEW h \in Nat \ {0}, has_session(h)
    PROVE  \E e \in Entry : /\ sessions[e] = h
                            /\ forget_session(h) = [sessions EXCEPT ![e] = 0]
  <1> DEFINE S == {s \in Entry : sessions[s] = h}
  <1>1. S \in SUBSET Nat /\ S # {}
    BY DEF has_session, Entry
  <1>2. First(S) \in S
    BY <1>1, FirstIsMember
  <1>3. forget_session(h) = [sessions EXCEPT ![First(S)] = 0]
    BY <1>1 DEF forget_session
  <1> QED BY <1>2, <1>3

\* A new session takes one free entry, when there is one.
LEMMA RemembersOne ==
    ASSUME NEW id, FreeEntries # {}
    PROVE  \E e \in Entry : /\ sessions[e] = 0
                            /\ remember_session(id) = [sessions EXCEPT ![e] = id]
  <1>1. FreeEntries \in SUBSET Nat
    BY DEF FreeEntries, Entry
  <1>2. First(FreeEntries) \in FreeEntries
    BY <1>1, FirstIsMember
  <1> QED BY <1>2, Zenon DEF remember_session, FreeEntries

\* The table starts empty.
LEMMA ClientInvInit == ClientInit => ClientInv
  BY ClientAssumption DEF ClientInit, ClientInv, TableSound, TableExact

\* Every call of the Internal Client API keeps the table's invariant.
LEMMA ClientInvInductive == ClientInv /\ [ClientNext]_clientVars => ClientInv'
  <1> SUFFICES ASSUME ClientInv, [ClientNext]_clientVars PROVE ClientInv'
    OBVIOUS
  <1> USE DEF Entry
  <1>1. mint_cancel_id \in 1..(CancelWrap - 1)
    BY ClientAssumption DEF ClientInv, TableSound, mint_cancel_id
  <1>2. CASE OpenTaSession /\ UNCHANGED <<sessions, opened, live, crowded>>
    BY <1>1, <1>2 DEF OpenTaSession, ClientInv, TableSound, TableExact
  <1>3. ASSUME OpenTaSession, opened < MaxSession, opened' = opened + 1,
               live' = live \cup {opened'}, sessions' = remember_session(opened'),
               crowded' = (crowded \/ FreeEntries = {})
        PROVE  ClientInv'
    <2>1. next_cancel_id' \in 1..(CancelWrap - 1) /\ ~panicked /\ ~panicked'
      BY <1>1, <1>3 DEF OpenTaSession
    <2>2. CASE FreeEntries = {}
      <3>1. sessions' = sessions /\ crowded'
        BY <1>3, <2>2, Zenon DEF remember_session
      <3>2. TableSound'
        BY <1>3, <2>1, <3>1, ClientAssumption DEF ClientInv, TableSound
      <3> QED BY <3>1, <3>2 DEF ClientInv, TableExact
    <2>3. CASE FreeEntries # {}
      <3> DEFINE id == opened + 1
      <3>1. PICK e \in Entry : sessions[e] = 0 /\ sessions' = [sessions EXCEPT ![e] = id]
        BY <1>3, <2>3, RemembersOne
      <3>2. /\ sessions' \in [Entry -> Nat] /\ opened' \in Nat /\ opened' <= MaxSession
            /\ \A s \in Entry : sessions'[s] = IF s = e THEN id ELSE sessions[s]
        BY <1>3, <3>1, ClientAssumption DEF ClientInv, TableSound
      <3>3. TableSound'
        BY <1>3, <2>1, <3>2, SMTT(40) DEF ClientInv, TableSound
      <3>4. TableExact'
        <4>1. SUFFICES ASSUME ~crowded' PROVE TableExact'
          BY DEF TableExact
        <4>2. /\ \A s \in Entry : sessions[s] # 0 => sessions[s] \in live
              /\ \A h \in live : \E s \in Entry : sessions[s] = h
          BY <1>3, <4>1, Zenon DEF ClientInv, TableExact
        <4>3. ASSUME NEW h \in live' PROVE \E s \in Entry : sessions'[s] = h
          <5>1. CASE h = id
            BY <3>2, <5>1
          <5>2. CASE h \in live
            <6>1. h # 0
              BY <5>2 DEF ClientInv, TableSound
            <6> QED BY <3>1, <3>2, <4>2, <5>2, <6>1
          <5> QED BY <1>3, <5>1, <5>2
        <4> QED BY <1>3, <2>1, <3>2, <4>2, <4>3 DEF TableExact
      <3> QED BY <3>3, <3>4 DEF ClientInv
    <2> QED BY <2>2, <2>3
  <1>4. ASSUME NEW h \in live, ~has_session(h), tee_panic
        PROVE  ClientInv'
    <2>1. crowded
      BY <1>4 DEF has_session, ClientInv, TableExact
    <2> QED BY <1>4, <2>1 DEF tee_panic, ClientInv, TableSound, TableExact
  <1>5. ASSUME NEW h \in live, InvokeTaCommand(h)
        PROVE  ClientInv'
    <2>1. CASE has_session(h)
      BY <1>1, <1>5, <2>1, Zenon DEF InvokeTaCommand, ClientInv, TableSound, TableExact
    <2> QED BY <1>4, <1>5, <2>1 DEF InvokeTaCommand
  <1>6. ASSUME NEW h \in live, CloseTaSession(h)
        PROVE  ClientInv'
    <2>1. CASE has_session(h)
      <3>1. h \in Nat \ {0} /\ TableSound
        BY DEF ClientInv, TableSound
      <3>2. PICK e \in Entry : sessions[e] = h /\ sessions' = [sessions EXCEPT ![e] = 0]
        BY <1>6, <2>1, <3>1, ForgetsOne DEF CloseTaSession
      <3>3. \A s \in Entry : sessions'[s] = IF s = e THEN 0 ELSE sessions[s]
        BY <3>1, <3>2 DEF TableSound
      <3>4. /\ live' = live \ {h}
            /\ UNCHANGED <<next_cancel_id, hook, opened, crowded, panicked>>
        BY <1>6, <2>1 DEF CloseTaSession
      <3>5. TableSound'
        BY <3>1, <3>2, <3>3, <3>4 DEF TableSound
      <3>6. TableExact'
        BY <3>1, <3>2, <3>3, <3>4 DEF ClientInv, TableSound, TableExact
      <3> QED BY <3>5, <3>6 DEF ClientInv
    <2> QED BY <1>4, <1>6, <2>1 DEF CloseTaSession
  <1>7. CASE UNCHANGED clientVars
    BY <1>7 DEF clientVars, ClientInv, TableSound, TableExact
  <1>8. CASE OpenTaSession
    BY <1>2, <1>3, <1>8 DEF OpenTaSession
  <1> QED BY <1>5, <1>6, <1>7, <1>8 DEF ClientNext

\* As long as a TA keeps no more sessions than the table has entries, the table has
\* exactly the sessions the kernel has open for it, each once, and no use of one of
\* its handles panics it.
THEOREM TableHasTheSessions == ClientSpec => []SessionTableExact
  <1>1. ClientInv => SessionTableExact
    <2> SUFFICES ASSUME ClientInv, ~crowded
                 PROVE  /\ {sessions[s] : s \in Entry} \ {0} = live
                        /\ Cardinality(live) = Cardinality(Entry \ FreeEntries)
                        /\ ~panicked
      BY DEF SessionTableExact
    <2>1. ~panicked /\ {sessions[s] : s \in Entry} \ {0} = live
      <3>1. /\ ~panicked
            /\ \A s \in Entry : sessions[s] # 0 => sessions[s] \in live
            /\ \A h \in live : \E s \in Entry : sessions[s] = h
            /\ 0 \notin live
        BY DEF ClientInv, TableSound, TableExact
      <3>2. live \subseteq {sessions[s] : s \in Entry} \ {0}
        BY <3>1
      <3>3. {sessions[s] : s \in Entry} \ {0} \subseteq live
        BY <3>1
      <3> QED BY <3>1, <3>2, <3>3
    <2> DEFINE S == Entry \ FreeEntries
               f == [s \in S |-> sessions[s]]
    <2>2. IsFiniteSet(Entry) /\ S \in SUBSET Entry
      BY FS_Interval, ClientAssumption DEF Entry
    <2>3. IsFiniteSet(S)
      BY <2>2, FS_Subset
    <2>4. f \in Bijection(S, live)
      <3>1. f \in [S -> live]
        BY <2>1 DEF FreeEntries
      <3>2. \A s, t \in S : f[s] = f[t] => s = t
        BY DEF FreeEntries, ClientInv, TableSound
      <3>3. \A h \in live : \E s \in S : f[s] = h
        BY <2>1 DEF FreeEntries, ClientInv, TableSound
      <3> QED BY <3>1, <3>2, <3>3 DEF Bijection, Injection, Surjection, IsInjective
    <2>5. Cardinality(live) = Cardinality(S)
      BY <2>3, <2>4, FS_Bijection DEF ExistsBijection
    <2> QED BY <2>1, <2>5
  <1> QED BY <1>1, ClientInvInit, ClientInvInductive, PTL DEF ClientSpec

-----------------------------------------------------------------------------
(* The object enumerators *)

ObjEnum == [used : BOOLEAN, started : BOOLEAN, idx : Nat, items : Seq(Objects)]

ObjEnumTypes ==
  /\ objects \in Seq(Objects)
  /\ obj_enums \in [Slots -> ObjEnum]
  /\ given \in [Slots -> Seq(Objects)] /\ snap \in [Slots -> Seq(Objects)]
  /\ ended \in [Slots -> BOOLEAN]

\* Enumerator e works on the list sn it was started with, and gave the first idx
\* objects of it; a free slot has forgotten all.
Follows(e, g, sn, end) ==
  /\ ~e.used => e = NoObjEnum
  /\ e.items = sn
  /\ e.idx <= Len(sn) /\ Len(g) = e.idx
  /\ \A i \in 1..e.idx : g[i] = sn[i]
  /\ end => e.idx = Len(sn)

ObjEnumInv ==
  ObjEnumTypes /\ \A h \in Slots : Follows(obj_enums[h], given[h], snap[h], ended[h])

\* An empty enumerator follows an empty list, and a fresh start any list.
LEMMA FreshFollows ==
    ASSUME NEW sn \in Seq(Objects), NEW e \in ObjEnum, e.idx = 0, e.items = sn,
           ~e.used => e = NoObjEnum
    PROVE  Follows(e, <<>>, sn, FALSE)
  BY EmptySeq, LenProperties DEF Follows, ObjEnum

\* A function on 1..n is a sequence of length n.
LEMMA FunctionIsSeq ==
    ASSUME NEW S, NEW n \in Nat, NEW f \in [1..n -> S]
    PROVE  f \in Seq(S) /\ Len(f) = n
  OBVIOUS

\* Taking an object out of the list leaves a list.
LEMMA RemovesToSeq ==
    ASSUME NEW s \in Seq(Objects), NEW i \in DOMAIN s
    PROVE  [j \in 1..(Len(s) - 1) |-> s[IF j < i THEN j ELSE j + 1]] \in Seq(Objects)
  <1>1. Len(s) \in Nat /\ DOMAIN s = 1..Len(s) /\ \A j \in 1..Len(s) : s[j] \in Objects
    BY LenProperties, ElementOfSeq
  <1>2. Len(s) - 1 \in Nat
    BY <1>1
  <1>3. \A j \in 1..(Len(s) - 1) : s[IF j < i THEN j ELSE j + 1] \in Objects
    BY <1>1
  <1> DEFINE f == [j \in 1..(Len(s) - 1) |-> s[IF j < i THEN j ELSE j + 1]]
  <1>4. f \in [1..(Len(s) - 1) -> Objects]
    BY <1>3
  <1> HIDE DEF f
  <1>5. f \in Seq(Objects)
    BY <1>2, <1>4, FunctionIsSeq
  <1> QED BY <1>5 DEF f

\* A step on the enumerator of slot h keeps the invariant when it does so for h.
LEMMA OneEnumerator ==
    ASSUME ObjEnumInv, NEW h \in Slots, NEW e \in ObjEnum, NEW g \in Seq(Objects),
           NEW sn \in Seq(Objects), NEW end \in BOOLEAN, Follows(e, g, sn, end),
           obj_enums' = [obj_enums EXCEPT ![h] = e], given' = [given EXCEPT ![h] = g],
           snap' = [snap EXCEPT ![h] = sn], ended' = [ended EXCEPT ![h] = end],
           objects' = objects
    PROVE  ObjEnumInv'
  <1>1. ObjEnumTypes'
    BY DEF ObjEnumInv, ObjEnumTypes
  <1>2. ASSUME NEW t \in Slots
        PROVE  Follows(obj_enums'[t], given'[t], snap'[t], ended'[t])
    <2>1. CASE t = h
      <3>1. obj_enums'[t] = e /\ given'[t] = g /\ snap'[t] = sn /\ ended'[t] = end
        BY <2>1 DEF ObjEnumInv, ObjEnumTypes
      <3> QED BY <3>1
    <2>2. CASE t # h
      <3>1. /\ obj_enums'[t] = obj_enums[t] /\ given'[t] = given[t]
            /\ snap'[t] = snap[t] /\ ended'[t] = ended[t]
        BY <2>2 DEF ObjEnumInv, ObjEnumTypes
      <3> QED BY <3>1 DEF ObjEnumInv
    <2> QED BY <2>1, <2>2
  <1> QED BY <1>1, <1>2 DEF ObjEnumInv

\* Every step on object enumerators keeps the invariant.
LEMMA ObjEnumInductive == ObjEnumInv /\ [ObjEnumNext]_enumVars => ObjEnumInv'
  <1> SUFFICES ASSUME ObjEnumInv, [ObjEnumNext]_enumVars PROVE ObjEnumInv'
    OBVIOUS
  <1>1. /\ ObjEnumTypes
        /\ \A h \in Slots :
              /\ Follows(obj_enums[h], given[h], snap[h], ended[h]) /\ obj_enums[h] \in ObjEnum
              /\ given[h] \in Seq(Objects) /\ snap[h] \in Seq(Objects) /\ ended[h] \in BOOLEAN
    BY DEF ObjEnumInv, ObjEnumTypes
  <1>2. given \in [Slots -> Seq(Objects)] /\ snap \in [Slots -> Seq(Objects)]
        /\ ended \in [Slots -> BOOLEAN] /\ obj_enums \in [Slots -> ObjEnum]
    BY <1>1 DEF ObjEnumTypes
  <1>3. /\ <<>> \in Seq(Objects) /\ Len(<<>>) = 0
        /\ NoObjEnum \in ObjEnum /\ NoObjEnum.idx = 0 /\ NoObjEnum.items = <<>>
    BY EmptySeq DEF NoObjEnum, ObjEnum
  <1>4. CASE AllocObjectEnumerator
    <2> DEFINE h == LowestFree(obj_enums)
               e == [NoObjEnum EXCEPT !.used = TRUE]
    <2>1. h \in Slots /\ ~obj_enums[h].used
      <3>1. FreeSlots(obj_enums) \in SUBSET Nat /\ FreeSlots(obj_enums) # {}
        BY <1>4 DEF AllocObjectEnumerator, FreeSlots, Slots
      <3>2. First(FreeSlots(obj_enums)) \in FreeSlots(obj_enums)
        BY <3>1, FirstIsMember
      <3>3. h \in FreeSlots(obj_enums)
        BY <3>2 DEF First, LowestFree
      <3> QED BY <3>3 DEF FreeSlots
    <2>2. UNCHANGED <<objects, given, snap, ended>> /\ obj_enums' = [obj_enums EXCEPT ![h] = e]
      BY <1>4 DEF AllocObjectEnumerator
    <2> HIDE DEF h
    <2>3. snap[h] = <<>> /\ given[h] = <<>>
      <3>1. obj_enums[h] = NoObjEnum /\ obj_enums[h].items = snap[h] /\ Len(given[h]) = obj_enums[h].idx
        BY <1>1, <2>1 DEF Follows
      <3> QED BY <1>1, <1>3, <2>1, <3>1, EmptySeq
    <2>4. e \in ObjEnum /\ Follows(e, <<>>, <<>>, ended[h])
      BY <1>1, <1>3, <2>1, <2>3, Zenon DEF Follows, ObjEnum, NoObjEnum
    <2>5. /\ given' = [given EXCEPT ![h] = given[h]] /\ snap' = [snap EXCEPT ![h] = snap[h]]
          /\ ended' = [ended EXCEPT ![h] = ended[h]]
      BY <1>2, <2>1, <2>2
    <2> HIDE DEF e
    <2>6. /\ h \in Slots /\ e \in ObjEnum /\ given[h] \in Seq(Objects) /\ snap[h] \in Seq(Objects)
          /\ ended[h] \in BOOLEAN /\ objects' = objects
          /\ obj_enums' = [obj_enums EXCEPT ![h] = e]
      BY <1>1, <2>1, <2>2, <2>4
    <2>7. Follows(e, given[h], snap[h], ended[h])
      BY <2>3, <2>4
    <2> QED BY <2>5, <2>6, <2>7, OneEnumerator, Zenon
  <1>5. ASSUME NEW h \in Slots, FreeObjectEnumerator(h)
        PROVE  ObjEnumInv'
    <2>1. Follows(NoObjEnum, <<>>, <<>>, FALSE)
      BY <1>3, FreshFollows, Zenon
    <2> QED BY <1>3, <1>5, <2>1, OneEnumerator, Zenon DEF FreeObjectEnumerator, Forget
  <1>6. ASSUME NEW h \in Slots, ResetObjectEnumerator(h)
        PROVE  ObjEnumInv'
    <2> DEFINE e == [obj_enums[h] EXCEPT !.idx = 0]
    <2>1. /\ e \in ObjEnum /\ e.idx = 0 /\ e.used /\ e.items = snap[h]
          /\ obj_enums' = [obj_enums EXCEPT ![h] = e]
      BY <1>1, <1>2, <1>6, Zenon DEF ResetObjectEnumerator, slot_mut, ObjEnum, Follows
    <2>2. /\ given' = [given EXCEPT ![h] = <<>>] /\ snap' = [snap EXCEPT ![h] = snap[h]]
          /\ ended' = [ended EXCEPT ![h] = FALSE] /\ objects' = objects
      BY <1>6 DEF ResetObjectEnumerator, Forget
    <2> HIDE DEF e
    <2>3. Follows(e, <<>>, snap[h], FALSE)
      BY <1>1, <2>1, FreshFollows, Zenon
    <2> QED BY <1>1, <1>3, <2>1, <2>2, <2>3, OneEnumerator, Zenon
  <1>7. ASSUME NEW h \in Slots, StartObjectEnumerator(h)
        PROVE  ObjEnumInv'
    <2> DEFINE e == [obj_enums[h] EXCEPT !.items = objects, !.idx = 0, !.started = TRUE]
    <2>1. objects \in Seq(Objects)
      BY <1>1 DEF ObjEnumTypes
    <2>2. /\ e \in ObjEnum /\ e.idx = 0 /\ e.used /\ e.items = objects
          /\ obj_enums' = [obj_enums EXCEPT ![h] = e]
      BY <1>1, <1>2, <1>7, <2>1, Zenon DEF StartObjectEnumerator, slot_mut, ObjEnum
    <2>3. /\ given' = [given EXCEPT ![h] = <<>>] /\ snap' = [snap EXCEPT ![h] = objects]
          /\ ended' = [ended EXCEPT ![h] = FALSE] /\ objects' = objects
      BY <1>7 DEF StartObjectEnumerator, Forget
    <2> HIDE DEF e
    <2>4. Follows(e, <<>>, objects, FALSE)
      BY <2>1, <2>2, FreshFollows, Zenon
    <2> QED BY <1>1, <1>3, <2>1, <2>2, <2>3, <2>4, OneEnumerator, Zenon
  <1>8. ASSUME NEW h \in Slots, NEW room \in BOOLEAN, GetNextPersistentObject(h, room)
        PROVE  ObjEnumInv'
    <2> DEFINE e == obj_enums[h]
    <2>1. /\ e.used /\ e.items = snap[h] /\ e.idx \in Nat /\ e.idx <= Len(snap[h])
          /\ Len(given[h]) = e.idx /\ Len(snap[h]) \in Nat
          /\ \A i \in 1..e.idx : given[h][i] = snap[h][i]
      BY <1>1, <1>8, LenProperties DEF GetNextPersistentObject, slot_mut, Follows, ObjEnum
    <2>2. objects' = objects /\ snap' = [snap EXCEPT ![h] = snap[h]]
      BY <1>2, <1>8 DEF GetNextPersistentObject
    <2>3. CASE e.idx >= Len(e.items)
      <3>1. Follows(e, given[h], snap[h], TRUE)
        BY <2>1, <2>3 DEF Follows
      <3>2. /\ obj_enums' = [obj_enums EXCEPT ![h] = e] /\ given' = [given EXCEPT ![h] = given[h]]
            /\ ended' = [ended EXCEPT ![h] = TRUE]
        BY <1>2, <1>8, <2>3 DEF GetNextPersistentObject
      <3> HIDE DEF e
      <3> QED BY <1>1, <2>2, <3>1, <3>2, OneEnumerator, Zenon DEF e
    <2>4. CASE ~(e.idx >= Len(e.items))
      <3> DEFINE f == [e EXCEPT !.idx = e.idx + 1]
                 o == snap[h][e.idx + 1]
                 g == Append(given[h], o)
      <3>1. /\ obj_enums' = [obj_enums EXCEPT ![h] = f] /\ given' = [given EXCEPT ![h] = g]
            /\ ended' = [ended EXCEPT ![h] = ended[h]]
        BY <1>2, <1>8, <2>1, <2>4 DEF GetNextPersistentObject
      <3>2. e.idx + 1 \in 1..Len(snap[h]) /\ o \in Objects
        BY <1>1, <2>1, <2>4, ElementOfSeq
      <3>3. /\ f \in ObjEnum /\ f.idx = e.idx + 1 /\ f.items = snap[h] /\ f.used
        BY <1>1, <2>1, SMTT(40) DEF ObjEnum
      <3>4. /\ g \in Seq(Objects) /\ Len(g) = e.idx + 1 /\ g[e.idx + 1] = o
            /\ \A i \in 1..e.idx : g[i] = given[h][i]
        <4> HIDE DEF o
        <4> QED BY <1>1, <2>1, <3>2, AppendProperties
      <3>5. ~ended[h]
        BY <1>1, <2>1, <2>4 DEF Follows
      <3> HIDE DEF f, g
      <3>6. \A i \in 1..(e.idx + 1) : g[i] = snap[h][i]
        BY <2>1, <3>4
      <3>7. Follows(f, g, snap[h], ended[h])
        BY <2>1, <3>2, <3>3, <3>4, <3>5, <3>6 DEF Follows
      <3>8. /\ f \in ObjEnum /\ g \in Seq(Objects) /\ snap[h] \in Seq(Objects)
            /\ ended[h] \in BOOLEAN
        BY <1>1, <3>3, <3>4
      <3> QED BY <2>2, <3>1, <3>7, <3>8, OneEnumerator, ZenonT(60)
    <2> QED BY <2>3, <2>4
  <1>9. CASE StoreChanges
    <2>1. UNCHANGED <<obj_enums, given, snap, ended>>
      BY <1>9 DEF StoreChanges
    <2>2. objects' \in Seq(Objects)
      <3>1. objects \in Seq(Objects)
        BY <1>1 DEF ObjEnumTypes
      <3>2. ASSUME NEW o \in Objects PROVE Append(objects, o) \in Seq(Objects)
        BY <3>1, AppendProperties
      <3>3. ASSUME NEW i \in DOMAIN objects 
            PROVE  [j \in 1..(Len(objects) - 1) |-> objects[IF j < i THEN j ELSE j + 1]] \in Seq(Objects)
        BY <3>1, RemovesToSeq
      <3> QED BY <1>9, <3>2, <3>3 DEF StoreChanges
    <2> QED BY <1>1, <2>1, <2>2 DEF ObjEnumInv, ObjEnumTypes
  <1>10. CASE UNCHANGED enumVars
    BY <1>10 DEF enumVars, ObjEnumInv, ObjEnumTypes
  <1> QED BY <1>4, <1>5, <1>6, <1>7, <1>8, <1>9, <1>10 DEF ObjEnumNext

\* An enumerator gives the objects that were there when it was started, each once
\* and in order, whatever happens to the store and to other enumerators meanwhile.
THEOREM EnumeratorsGiveSnapshots == ObjEnumSpec => []EnumeratesSnapshot
  <1>1. EnumInit => ObjEnumInv
    <2> SUFFICES ASSUME EnumInit PROVE ObjEnumInv
      OBVIOUS
    <2>1. <<>> \in Seq(Objects) /\ NoObjEnum \in ObjEnum /\ NoObjEnum.idx = 0
          /\ NoObjEnum.items = <<>>
      BY EmptySeq DEF NoObjEnum, ObjEnum
    <2>2. Follows(NoObjEnum, <<>>, <<>>, FALSE)
      BY <2>1, FreshFollows, Zenon
    <2> QED BY <2>1, <2>2, Zenon DEF EnumInit, ObjEnumInv, ObjEnumTypes
  <1>2. ObjEnumInv => EnumeratesSnapshot
    <2> SUFFICES ASSUME ObjEnumInv, NEW h \in Slots
                 PROVE  /\ Len(given[h]) <= Len(snap[h])
                        /\ \A i \in DOMAIN given[h] : given[h][i] = snap[h][i]
                        /\ ended[h] => given[h] = snap[h]
      BY DEF EnumeratesSnapshot
    <2> DEFINE g == given[h]
               sn == snap[h]
               n == obj_enums[h].idx
    <2>1. /\ g \in Seq(Objects) /\ sn \in Seq(Objects) /\ n \in Nat
          /\ n <= Len(sn) /\ Len(g) = n /\ (ended[h] => n = Len(sn))
          /\ \A i \in 1..n : g[i] = sn[i]
      BY DEF ObjEnumInv, ObjEnumTypes, Follows, ObjEnum
    <2> HIDE DEF g, sn, n
    <2>2. Len(g) <= Len(sn) /\ \A i \in DOMAIN g : g[i] = sn[i]
      BY <2>1, LenProperties
    <2>3. ASSUME ended[h] PROVE g = sn
      BY <2>1, <2>3, SeqEqual
    <2> QED BY <2>2, <2>3 DEF g, sn
  <1> QED BY <1>1, <1>2, ObjEnumInductive, PTL DEF ObjEnumSpec

-----------------------------------------------------------------------------
(* The persistent time *)

TimeVal == [seconds : Nat, millis : 0..(PerSecond - 1)]

\* Multiplication keeps the order, with a whole factor to spare.
LEMMA NextMultiple ==
    ASSUME NEW k \in Nat \ {0}, NEW x \in Nat, NEW y \in Nat, x < y
    PROVE  x * k + k <= y * k
  <1>1. PICK d \in Nat : y = x + 1 + d
    OBVIOUS
  <1>2. y * k = x * k + k + d * k /\ d * k \in Nat /\ x * k \in Nat /\ y * k \in Nat
    BY <1>1
  <1> QED BY <1>2

\* A number is its quotient times the divisor plus its remainder.
LEMMA DivMod ==
    ASSUME NEW n \in Nat, NEW k \in Nat \ {0}
    PROVE  n \div k \in Nat /\ n % k \in 0..(k - 1) /\ n = (n \div k) * k + (n % k)
  <1>1. n \div k \in Nat
    OBVIOUS
  <1>2. n % k \in 0..(k - 1)
    OBVIOUS
  <1>3. n = k * (n \div k) + (n % k)
    OBVIOUS
  <1> QED BY <1>1, <1>2, <1>3

\* Quotient and remainder are the only such numbers.
LEMMA DivModUnique ==
    ASSUME NEW k \in Nat \ {0}, NEW q \in Nat, NEW r \in 0..(k - 1)
    PROVE  (q * k + r) \div k = q /\ (q * k + r) % k = r
  <1> DEFINE n == q * k + r
             p == n \div k
             m == n % k
  <1>1. n \in Nat /\ q * k \in Nat
    OBVIOUS
  <1>2. p \in Nat /\ m \in 0..(k - 1) /\ n = p * k + m
    BY <1>1, DivMod, Zenon
  <1> HIDE DEF p, m
  <1>3. p * k \in Nat
    BY <1>2
  <1>4. ~(p < q)
    BY <1>1, <1>2, <1>3, NextMultiple
  <1>5. ~(q < p)
    BY <1>1, <1>2, <1>3, NextMultiple
  <1>6. p = q
    BY <1>2, <1>4, <1>5
  <1>7. m = r
    BY <1>1, <1>2, <1>6
  <1> QED BY <1>6, <1>7 DEF p, m

\* Milliseconds to a time and back.
LEMMA TimeOfMillis ==
    ASSUME NEW n \in Nat
    PROVE  Time(n) \in TimeVal /\ Millis(Time(n)) = n
  BY DivMod, TimeAssumption, Zenon DEF Time, Millis, TimeVal

\* A time to milliseconds and back.
LEMMA MillisOfTime ==
    ASSUME NEW t \in TimeVal
    PROVE  Millis(t) \in Nat /\ Time(Millis(t)) = t
  <1>1. t.seconds \in Nat /\ t.millis \in 0..(PerSecond - 1) /\ PerSecond \in Nat \ {0}
    BY TimeAssumption DEF TimeVal
  <1>2. Millis(t) \in Nat
    BY <1>1 DEF Millis
  <1>3. Time(Millis(t)) = [seconds |-> t.seconds, millis |-> t.millis]
    BY <1>1, DivModUnique, Zenon DEF Time, Millis
  <1>4. t = [seconds |-> t.seconds, millis |-> t.millis]
    BY DEF TimeVal
  <1> QED BY <1>2, <1>3, <1>4

\* The order of times, by seconds first.
LEMMA MillisOrder ==
    ASSUME NEW a \in TimeVal, NEW b \in TimeVal, a.seconds < b.seconds
    PROVE  Millis(a) < Millis(b)
  <1>1. /\ a.seconds \in Nat /\ a.millis \in 0..(PerSecond - 1)
        /\ b.seconds \in Nat /\ b.millis \in 0..(PerSecond - 1) /\ PerSecond \in Nat \ {0}
    BY TimeAssumption DEF TimeVal
  <1>2. a.seconds * PerSecond + PerSecond <= b.seconds * PerSecond
    BY <1>1, NextMultiple
  <1>3. a.seconds * PerSecond \in Nat /\ b.seconds * PerSecond \in Nat
    BY <1>1
  <1> QED BY <1>1, <1>2, <1>3 DEF Millis

\* sat_sub is the difference, and zero for an earlier time.
LEMMA SubExact ==
    ASSUME NEW a \in TimeVal, NEW b \in TimeVal
    PROVE  /\ sat_sub(a, b) \in TimeVal
           /\ Millis(sat_sub(a, b)) = IF Millis(a) < Millis(b) THEN 0 ELSE Millis(a) - Millis(b)
  <1> DEFINE ms == a.millis - b.millis
             borrow == IF ms < 0 THEN 1 ELSE 0
             sec == a.seconds - b.seconds - borrow
             d == [seconds |-> sec, millis |-> ms + borrow * PerSecond]
  <1>1. /\ a.seconds \in Nat /\ a.millis \in 0..(PerSecond - 1)
        /\ b.seconds \in Nat /\ b.millis \in 0..(PerSecond - 1) /\ PerSecond \in Nat \ {0}
    BY TimeAssumption DEF TimeVal
  <1>2. /\ borrow \in {0, 1} /\ sec \in Int /\ ms \in Int
        /\ ms + borrow * PerSecond \in 0..(PerSecond - 1)
    BY <1>1
  <1>3. Millis(a) \in Nat /\ Millis(b) \in Nat
    BY MillisOfTime
  <1>4. sat_sub(a, b) = IF sec < 0 THEN Time(0) ELSE d
    BY DEF sat_sub
  <1>5. sec * PerSecond = a.seconds * PerSecond - b.seconds * PerSecond - borrow * PerSecond
    BY <1>1, <1>2
  <1>6. Millis(d) = Millis(a) - Millis(b)
    <2>1. /\ a.seconds * PerSecond \in Int /\ b.seconds * PerSecond \in Int
          /\ borrow * PerSecond \in Int /\ sec * PerSecond \in Int
      BY <1>1, <1>2
    <2>2. Millis(d) = sec * PerSecond + (ms + borrow * PerSecond)
      BY DEF Millis
    <2>3. /\ Millis(a) = a.seconds * PerSecond + a.millis
          /\ Millis(b) = b.seconds * PerSecond + b.millis
      BY DEF Millis
    <2> HIDE DEF borrow, sec
    <2> QED BY <1>1, <1>2, <1>5, <2>1, <2>2, <2>3
  <1>7. CASE sec < 0
    <2>1. Millis(a) < Millis(b)
      <3>1. CASE a.seconds < b.seconds
        BY <3>1, MillisOrder
      <3>2. CASE a.seconds >= b.seconds
        <4>1. a.seconds = b.seconds /\ a.millis < b.millis
          BY <1>1, <1>2, <1>7, <3>2
        <4>2. a.seconds * PerSecond = b.seconds * PerSecond /\ a.seconds * PerSecond \in Nat
          BY <1>1, <4>1
        <4> HIDE DEF borrow, sec
        <4> QED BY <1>1, <4>1, <4>2 DEF Millis
      <3> QED BY <1>1, <3>1, <3>2
    <2>2. sat_sub(a, b) = Time(0)
      BY <1>4, <1>7
    <2> QED BY <2>1, <2>2, TimeOfMillis
  <1>8. CASE sec >= 0
    <2>1. d \in TimeVal /\ sat_sub(a, b) = d
      BY <1>2, <1>4, <1>8 DEF TimeVal
    <2>2. Millis(d) \in Nat
      BY <2>1, MillisOfTime
    <2> HIDE DEF d, sec, borrow
    <2> QED BY <1>3, <1>6, <2>1, <2>2
  <1> QED BY <1>2, <1>7, <1>8

\* add is the sum, and nothing when its seconds do not fit.
LEMMA AddExact ==
    ASSUME NEW a \in TimeVal, NEW b \in TimeVal
    PROVE  LET due == Millis(a) + Millis(b)
           IN  time_add(a, b) =
                   IF due < (MaxSecond + 1) * PerSecond THEN {Time(due)} ELSE {}
  <1> DEFINE ms == a.millis + b.millis
             carry == ms \div PerSecond
             left == ms % PerSecond
             sec == a.seconds + b.seconds + carry
             due == Millis(a) + Millis(b)
  <1>1. /\ a.seconds \in Nat /\ a.millis \in 0..(PerSecond - 1)
        /\ b.seconds \in Nat /\ b.millis \in 0..(PerSecond - 1) /\ PerSecond \in Nat \ {0}
        /\ MaxSecond \in Nat
    BY TimeAssumption DEF TimeVal
  <1>2. ms \in Nat
    BY <1>1
  <1>3. carry \in Nat /\ left \in 0..(PerSecond - 1) /\ ms = carry * PerSecond + left
    BY <1>1, <1>2, DivMod, Zenon
  <1>4. time_add(a, b) = IF sec > MaxSecond THEN {} ELSE {[seconds |-> sec, millis |-> left]}
    BY DEF time_add
  <1> HIDE DEF carry, left
  <1>5. due = sec * PerSecond + left /\ sec \in Nat
    <2>1. /\ sec \in Nat
          /\ sec * PerSecond = a.seconds * PerSecond + b.seconds * PerSecond + carry * PerSecond
      BY <1>1, <1>3
    <2>2. /\ a.seconds * PerSecond \in Nat /\ b.seconds * PerSecond \in Nat
          /\ carry * PerSecond \in Nat
      BY <1>1, <1>3
    <2>3. /\ Millis(a) = a.seconds * PerSecond + a.millis
          /\ Millis(b) = b.seconds * PerSecond + b.millis
      BY DEF Millis
    <2> DEFINE A == a.seconds * PerSecond
               B == b.seconds * PerSecond
               C == carry * PerSecond
               m == a.millis
               n == b.millis
    <2>4. A \in Nat /\ B \in Nat /\ C \in Nat /\ m \in Nat /\ n \in Nat /\ left \in Nat
      BY <1>1, <1>3, <2>2
    <2>5. m + n = C + left
      BY <1>3
    <2>6. sec * PerSecond = A + B + C /\ Millis(a) = A + m /\ Millis(b) = B + n
      BY <2>1, <2>3
    <2> HIDE DEF A, B, C, m, n, sec
    <2>7. (A + m) + (B + n) = (A + B + C) + left
      BY <2>4, <2>5
    <2> QED BY <2>1, <2>6, <2>7
  <1> HIDE DEF sec, due
  <1>6. Time(due) = [seconds |-> sec, millis |-> left]
    BY <1>1, <1>3, <1>5, DivModUnique, Zenon DEF Time
  <1>7. sec > MaxSecond <=> ~(due < (MaxSecond + 1) * PerSecond)
    <2>1. (MaxSecond + 1) * PerSecond \in Nat /\ sec * PerSecond \in Nat
      BY <1>1, <1>5
    <2>2. CASE sec < MaxSecond + 1
      BY <1>1, <1>3, <1>5, <2>1, <2>2, NextMultiple
    <2>3. CASE sec = MaxSecond + 1
      BY <1>1, <1>3, <1>5, <2>1, <2>3
    <2>4. CASE MaxSecond + 1 < sec
      <3>1. (MaxSecond + 1) * PerSecond + PerSecond <= sec * PerSecond
        BY <1>1, <1>5, <2>4, NextMultiple
      <3> QED BY <1>1, <1>3, <1>5, <2>1, <2>4, <3>1
    <2> QED BY <1>1, <1>5, <2>2, <2>3, <2>4
  <1> QED BY <1>4, <1>6, <1>7 DEF due

TimeInv ==
  /\ clock \in Nat
  /\ persist \in [set : BOOLEAN, sys_base : TimeVal, value : TimeVal]
  /\ PersistentTimeExact

\* The persistent time is what was set plus the time the clock has moved on since,
\* to the millisecond, and an overflow exactly when the seconds do not fit.
THEOREM TimeIsExact == TimeSpec => []PersistentTimeExact
  <1>1. TimeInit => TimeInv
    BY TimeOfMillis DEF TimeInit, TimeInv, PersistentTimeExact, NoAnswer
  <1>2. TimeInv /\ [TimeNext]_timeVars => TimeInv'
    <2> SUFFICES ASSUME TimeInv, [TimeNext]_timeVars PROVE TimeInv'
      OBVIOUS
    <2>1. CASE ClockMoves
      BY <2>1 DEF ClockMoves, TimeInv, PersistentTimeExact, NoAnswer
    <2>2. ASSUME NEW t \in [seconds : 0..MaxSecond, millis : 0..PerSecond],
                 SetTaPersistentTime(t)
          PROVE  TimeInv'
      <3>1. t \in TimeVal /\ Time(clock) \in TimeVal
        BY <2>2, TimeOfMillis, TimeAssumption DEF SetTaPersistentTime, TimeVal, TimeInv
      <3> QED BY <2>2, <3>1 DEF SetTaPersistentTime, TimeInv, PersistentTimeExact, NoAnswer
    <2>3. CASE GetTaPersistentTime
      <3>1. CASE ~persist.set
        BY <2>3, <3>1 DEF GetTaPersistentTime, TimeInv, PersistentTimeExact
      <3>2. CASE persist.set
        <4> DEFINE base == persist.sys_base
                   value == persist.value
                   delta == sat_sub(Time(clock), base)
                   r == time_add(value, delta)
                   passed == clock - Millis(base)
                   due == Millis(value) + (IF passed < 0 THEN 0 ELSE passed)
        <4>1. Time(clock) \in TimeVal /\ base \in TimeVal /\ value \in TimeVal
              /\ Millis(Time(clock)) = clock /\ Millis(base) \in Nat /\ clock \in Nat
          BY TimeOfMillis, MillisOfTime DEF TimeInv
        <4>2. delta \in TimeVal /\ Millis(delta) = IF passed < 0 THEN 0 ELSE passed
          <5>1. /\ delta \in TimeVal
                /\ Millis(delta) = IF clock < Millis(base) THEN 0 ELSE clock - Millis(base)
            BY <4>1, SubExact
          <5> HIDE DEF delta
          <5> QED BY <4>1, <5>1
        <4>3. r = IF due < (MaxSecond + 1) * PerSecond THEN {Time(due)} ELSE {}
          <5> HIDE DEF delta, passed
          <5> QED BY <4>1, <4>2, AddExact, Zenon
        <4>4. got' = [st |-> IF r = {} THEN "OVERFLOW" ELSE "ok", t |-> r,
                      at |-> clock, of |-> persist]
          BY <2>3, <3>2 DEF GetTaPersistentTime
        <4>5. UNCHANGED <<clock, persist>>
          BY <2>3 DEF GetTaPersistentTime
        <4>6. PersistentTimeExact'
          <5>1. /\ got'.at = clock /\ got'.of = persist /\ got'.t = r
                /\ got'.st = IF r = {} THEN "OVERFLOW" ELSE "ok"
            BY <4>4
          <5>2. IF due < (MaxSecond + 1) * PerSecond THEN r = {Time(due)}
                ELSE (IF r = {} THEN "OVERFLOW" ELSE "ok") = "OVERFLOW"
            <6> HIDE DEF r, due
            <6> QED BY <4>3
          <5> HIDE DEF r
          <5> QED BY <5>1, <5>2 DEF PersistentTimeExact
        <4> QED BY <4>5, <4>6 DEF TimeInv
      <3> QED BY <3>1, <3>2
    <2>4. CASE UNCHANGED timeVars
      BY <2>4 DEF timeVars, TimeInv, PersistentTimeExact
    <2> QED BY <2>1, <2>2, <2>3, <2>4 DEF TimeNext
  <1> QED BY <1>1, <1>2, PTL DEF TimeSpec, TimeInv

-----------------------------------------------------------------------------
(* The heap *)

Byte == Fills \cup Nat

HeapTypes ==
  /\ used \in Nat /\ used <= HEAP_CAP
  /\ buf \in [0..(HEAP_CAP - 1) -> Byte]
  /\ blocks \in [DOMAIN blocks -> Seq(Byte)] /\ DOMAIN blocks \subseteq Nat

\* Block p with contents c lies below u, with its header in front of it.
Intact(b, u, p, c) ==
  /\ 2 * HDR <= p /\ p + Len(c) <= u
  /\ b[p - 2 * HDR] = MAGIC /\ b[p - HDR] = Len(c)
  /\ \A i \in 1..Len(c) : b[p + i - 1] = c[i]

\* Block p and its header end before those of q begin, or the other way round.
Apart(p, n, q, m) == p + n + 2 * HDR <= q \/ q + m + 2 * HDR <= p

HeapInv ==
  /\ HeapTypes
  /\ \A p \in DOMAIN blocks : Intact(buf, used, p, blocks[p])
  /\ \A p, q \in DOMAIN blocks : p # q => Apart(p, Len(blocks[p]), q, Len(blocks[q]))

\* Intact depends on the bytes of the block and of its header only.
LEMMA IntactFrame ==
    ASSUME NEW b, NEW d, NEW u \in Nat, NEW v \in Nat, NEW p \in Nat, NEW c \in Seq(Byte),
           Intact(b, u, p, c), u <= v,
           \A i \in (p - 2 * HDR)..(p + Len(c) - 1) : d[i] = b[i]
    PROVE  Intact(d, v, p, c)
  <1>1. HDR \in Nat \ {0} /\ Len(c) \in Nat
    BY HeapAssumption, LenProperties
  <1>2. /\ p - 2 * HDR \in (p - 2 * HDR)..(p + Len(c) - 1)
        /\ p - HDR \in (p - 2 * HDR)..(p + Len(c) - 1)
        /\ \A i \in 1..Len(c) : p + i - 1 \in (p - 2 * HDR)..(p + Len(c) - 1)
    BY <1>1
  <1>3. 2 * HDR <= p /\ p + Len(c) <= v
    BY <1>1 DEF Intact
  <1> QED BY <1>2, <1>3, Zenon DEF Intact

\* A block of contents c is taken from the free end, at q; old, if it is one of the
\* blocks, goes.
LEMMA Allocated ==
    ASSUME HeapInv, NEW old \in Int, NEW q \in Nat, NEW c \in Seq(Byte),
           used + 2 * HDR <= q, used' = q + Len(c), used' <= HEAP_CAP,
           buf' \in [0..(HEAP_CAP - 1) -> Byte],
           \A i \in 0..(used - 1) : buf'[i] = buf[i],
           Intact(buf', used', q, c), q # old, Holding(old, q, c)
    PROVE  HeapInv'
  <1>1. HDR \in Nat \ {0} /\ HEAP_CAP \in Nat /\ Len(c) \in Nat /\ used \in Nat
    BY HeapAssumption, LenProperties DEF HeapInv, HeapTypes
  <1>2. /\ DOMAIN blocks' = (DOMAIN blocks \cup {q}) \ {old} /\ blocks'[q] = c
        /\ \A p \in DOMAIN blocks' : p # q => p \in DOMAIN blocks /\ blocks'[p] = blocks[p]
        /\ blocks' = [p \in DOMAIN blocks' |-> blocks'[p]]
    BY DEF Holding
  <1>3. ASSUME NEW p \in DOMAIN blocks
        PROVE  /\ p \in Nat /\ blocks[p] \in Seq(Byte) /\ Len(blocks[p]) \in Nat
               /\ Intact(buf, used, p, blocks[p])
    BY LenProperties DEF HeapInv, HeapTypes
  <1>4. HeapTypes'
    <2>1. used' \in Nat
      BY <1>1
    <2>2. \A p \in DOMAIN blocks' : p \in Nat /\ blocks'[p] \in Seq(Byte)
      BY <1>2, <1>3
    <2>3. blocks' \in [DOMAIN blocks' -> Seq(Byte)]
      BY <1>2, <2>2
    <2> QED BY <2>1, <2>2, <2>3 DEF HeapTypes
  <1>5. ASSUME NEW p \in DOMAIN blocks' PROVE Intact(buf', used', p, blocks'[p])
    <2>1. CASE p = q
      BY <1>2, <2>1
    <2>2. CASE p # q
      <3>1. p \in DOMAIN blocks /\ blocks'[p] = blocks[p]
        BY <1>2, <2>2
      <3>2. /\ p \in Nat /\ blocks[p] \in Seq(Byte) /\ Len(blocks[p]) \in Nat
            /\ Intact(buf, used, p, blocks[p])
        BY <1>3, <3>1
      <3>3. 2 * HDR <= p /\ p + Len(blocks[p]) <= used
        BY <3>2 DEF Intact
      <3>4. \A i \in (p - 2 * HDR)..(p + Len(blocks[p]) - 1) : buf'[i] = buf[i]
        BY <1>1, <3>2, <3>3, SMTT(40)
      <3>5. used' \in Nat /\ used <= used'
        BY <1>1
      <3>6. Intact(buf', used', p, blocks[p])
        BY <1>1, <3>2, <3>4, <3>5, IntactFrame, Zenon
      <3> QED BY <3>1, <3>6
    <2> QED BY <2>1, <2>2
  <1>6. ASSUME NEW p \in DOMAIN blocks', NEW r \in DOMAIN blocks', p # r
        PROVE  Apart(p, Len(blocks'[p]), r, Len(blocks'[r]))
    <2>1. ASSUME NEW x \in DOMAIN blocks
          PROVE  Apart(x, Len(blocks[x]), q, Len(c)) /\ Apart(q, Len(c), x, Len(blocks[x]))
      <3>1. x \in Nat /\ Len(blocks[x]) \in Nat /\ x + Len(blocks[x]) <= used
        BY <1>3 DEF Intact
      <3> QED BY <1>1, <3>1 DEF Apart
    <2>2. CASE p = q
      BY <1>2, <1>6, <2>1, <2>2
    <2>3. CASE r = q
      BY <1>2, <1>6, <2>1, <2>3
    <2>4. CASE p # q /\ r # q
      <3>1. /\ p \in DOMAIN blocks /\ blocks'[p] = blocks[p]
            /\ r \in DOMAIN blocks /\ blocks'[r] = blocks[r]
        BY <1>2, <2>4
      <3> QED BY <1>6, <3>1 DEF HeapInv
    <2> QED BY <2>2, <2>3, <2>4
  <1> QED BY <1>4, <1>5, <1>6 DEF HeapInv

\* A block is given back.
LEMMA Released ==
    ASSUME HeapInv, NEW p \in DOMAIN blocks, UNCHANGED <<buf, used>>,
           blocks' = [q \in DOMAIN blocks \ {p} |-> blocks[q]]
    PROVE  HeapInv'
  <1>1. DOMAIN blocks' = DOMAIN blocks \ {p} /\ \A q \in DOMAIN blocks' : blocks'[q] = blocks[q]
    OBVIOUS
  <1>2. HeapTypes'
    BY DEF HeapInv, HeapTypes
  <1> QED BY <1>1, <1>2 DEF HeapInv

\* The bytes of a block are written, to c.
LEMMA Written ==
    ASSUME HeapInv, NEW q \in DOMAIN blocks, NEW c \in Seq(Byte), Len(c) = Len(blocks[q]),
           used' = used, blocks' = [blocks EXCEPT ![q] = c],
           buf' \in [0..(HEAP_CAP - 1) -> Byte],
           \A i \in 0..(HEAP_CAP - 1) : i < q \/ i >= q + Len(c) => buf'[i] = buf[i],
           \A i \in 1..Len(c) : buf'[q + i - 1] = c[i]
    PROVE  HeapInv'
  <1>1. HDR \in Nat \ {0} /\ HEAP_CAP \in Nat /\ Len(c) \in Nat /\ used \in Nat /\ used <= HEAP_CAP
    BY HeapAssumption, LenProperties DEF HeapInv, HeapTypes
  <1>2. /\ DOMAIN blocks' = DOMAIN blocks /\ blocks'[q] = c
        /\ \A p \in DOMAIN blocks : p # q => blocks'[p] = blocks[p]
        /\ \A p \in DOMAIN blocks : Len(blocks'[p]) = Len(blocks[p])
    BY DEF HeapInv, HeapTypes
  <1>3. ASSUME NEW p \in DOMAIN blocks
        PROVE  /\ p \in Nat /\ blocks[p] \in Seq(Byte) /\ Len(blocks[p]) \in Nat
               /\ Intact(buf, used, p, blocks[p])
               /\ 2 * HDR <= p /\ p + Len(blocks[p]) <= used
    BY LenProperties DEF HeapInv, HeapTypes, Intact
  <1>4. HeapTypes'
    BY DEF HeapInv, HeapTypes
  <1>5. Intact(buf', used', q, c)
    <2>1. q \in Nat /\ 2 * HDR <= q /\ q + Len(c) <= used
      BY <1>3
    <2>2. /\ q - 2 * HDR \in 0..(HEAP_CAP - 1) /\ q - 2 * HDR < q
          /\ q - HDR \in 0..(HEAP_CAP - 1) /\ q - HDR < q
      BY <1>1, <2>1
    <2>3. buf'[q - 2 * HDR] = MAGIC /\ buf'[q - HDR] = Len(c)
      BY <1>3, <2>2 DEF Intact
    <2> QED BY <2>1, <2>3 DEF Intact
  <1>6. ASSUME NEW p \in DOMAIN blocks, p # q
        PROVE  Intact(buf', used', p, blocks[p])
    <2>1. Apart(p, Len(blocks[p]), q, Len(c))
      BY <1>6 DEF HeapInv
    <2>2. /\ p \in Nat /\ Len(blocks[p]) \in Nat /\ 2 * HDR <= p /\ p + Len(blocks[p]) <= used
          /\ q \in Nat
      BY <1>3
    <2>3. ASSUME NEW i \in (p - 2 * HDR)..(p + Len(blocks[p]) - 1)
          PROVE  buf'[i] = buf[i]
      <3>1. i \in 0..(HEAP_CAP - 1)
        BY <1>1, <2>2
      <3>2. i < q \/ i >= q + Len(c)
        <4> DEFINE n == Len(blocks[p])
                   m == Len(c)
        <4>1. /\ n \in Nat /\ m \in Nat /\ HDR \in Nat \ {0} /\ p \in Nat /\ q \in Nat
              /\ i \in (p - 2 * HDR)..(p + n - 1)
          BY <1>1, <2>2
        <4>2. p + n + 2 * HDR <= q \/ q + m + 2 * HDR <= p
          BY <2>1 DEF Apart
        <4> HIDE DEF n, m
        <4>3. i < q \/ i >= q + m
          BY <4>1, <4>2, SMTT(40)
        <4> QED BY <4>3 DEF m
      <3> QED BY <3>1, <3>2
    <2>4. used' \in Nat /\ used <= used'
      BY <1>1
    <2> QED BY <1>1, <1>3, <2>2, <2>3, <2>4, IntactFrame, Zenon
  <1>7. \A p \in DOMAIN blocks' : Intact(buf', used', p, blocks'[p])
    BY <1>2, <1>5, <1>6
  <1> QED BY <1>2, <1>4, <1>7 DEF HeapInv

\* The next header starts behind all that is in use.
LEMMA StartIsFree ==
    ASSUME HeapInv
    PROVE  start \in Nat /\ used <= start
  <1> DEFINE n == used + HDR - 1
             q == n \div HDR
             r == n % HDR
  <1>1. used \in Nat /\ HDR \in Nat \ {0} /\ n \in Nat
    BY HeapAssumption DEF HeapInv, HeapTypes
  <1>2. q \in Nat /\ r \in 0..(HDR - 1) /\ n = q * HDR + r
    BY <1>1, DivMod, Zenon
  <1>3. start = q * HDR
    BY DEF start, Align
  <1> HIDE DEF q, r
  <1>4. q * HDR \in Nat
    BY <1>1, <1>2
  <1> QED BY <1>1, <1>2, <1>3, <1>4

\* malloc_buf writes a header and, if asked, zeros, behind all that is in use.
LEMMA MallocBuf ==
    ASSUME HeapInv, NEW size \in Nat, NEW fill \in BOOLEAN, start + 2 * HDR + size <= HEAP_CAP
    PROVE  LET b == malloc_buf(size, fill)
               q == start + 2 * HDR
           IN  /\ b \in [0..(HEAP_CAP - 1) -> Byte]
               /\ \A i \in 0..(used - 1) : b[i] = buf[i]
               /\ size > 0 => b[q - 2 * HDR] = MAGIC /\ b[q - HDR] = size
               /\ fill => \A i \in 1..size : b[q + i - 1] = Clear
  <1> DEFINE b == malloc_buf(size, fill)
             q == start + 2 * HDR
  <1>1. /\ start \in Nat /\ used <= start /\ HDR \in Nat \ {0} /\ used \in Nat /\ HEAP_CAP \in Nat
        /\ used <= HEAP_CAP
    BY StartIsFree, HeapAssumption DEF HeapInv, HeapTypes
  <1>2. DOMAIN buf = 0..(HEAP_CAP - 1) /\ \A i \in DOMAIN buf : buf[i] \in Byte
    BY DEF HeapInv, HeapTypes
  <1>3. \A i \in 0..(HEAP_CAP - 1) :
           b[i] = IF i = start THEN MAGIC
                  ELSE IF i = start + HDR THEN size
                  ELSE IF fill /\ i - q \in 0..(size - 1) THEN Clear
                  ELSE buf[i]
    BY <1>2 DEF malloc_buf
  <1>4. MAGIC \in Byte /\ size \in Byte /\ Clear \in Byte
    BY DEF MAGIC, Clear, Byte
  <1>5. b \in [0..(HEAP_CAP - 1) -> Byte]
    BY <1>2, <1>4 DEF malloc_buf
  <1> HIDE DEF b
  <1>6. ASSUME NEW i \in 0..(used - 1) PROVE b[i] = buf[i]
    <2>1. i \in 0..(HEAP_CAP - 1) /\ i # start /\ i # start + HDR /\ i - q \notin 0..(size - 1)
      BY <1>1
    <2> HIDE DEF q
    <2> QED BY <1>3, <2>1
  <1>7. ASSUME size > 0 PROVE b[q - 2 * HDR] = MAGIC /\ b[q - HDR] = size
    <2>1. /\ q - 2 * HDR = start /\ q - HDR = start + HDR /\ start # start + HDR
          /\ start \in 0..(HEAP_CAP - 1) /\ start + HDR \in 0..(HEAP_CAP - 1)
      BY <1>1, <1>7
    <2> HIDE DEF q
    <2> QED BY <1>3, <2>1
  <1>8. ASSUME fill, NEW i \in 1..size PROVE b[q + i - 1] = Clear
    <2>1. /\ q + i - 1 \in 0..(HEAP_CAP - 1) /\ q + i - 1 # start /\ q + i - 1 # start + HDR
          /\ (q + i - 1) - q \in 0..(size - 1)
      BY <1>1
    <2> HIDE DEF q
    <2> QED BY <1>3, <1>8, <2>1
  <1> QED BY <1>5, <1>6, <1>7, <1>8 DEF b

\* When malloc returns a block, this is where it lies.
LEMMA MallocAt ==
    ASSUME HeapInv, NEW size \in Nat, size # 0, malloc_at(size) # Null
    PROVE  /\ malloc_at(size) = start + 2 * HDR /\ start + 2 * HDR + size <= HEAP_CAP
           /\ malloc_at(size) \in Nat /\ used + 2 * HDR <= malloc_at(size)
  <1>1. /\ start \in Nat /\ used <= start /\ HDR \in Nat \ {0} /\ used \in Nat /\ HEAP_CAP \in Nat
    BY StartIsFree, HeapAssumption DEF HeapInv, HeapTypes
  <1>2. malloc_at(size) = start + 2 * HDR /\ ~(start + 2 * HDR + size > HEAP_CAP)
    BY DEF malloc_at
  <1> QED BY <1>1, <1>2

\* malloc keeps the invariant.
LEMMA MallocKeeps ==
    ASSUME HeapInv, NEW size \in Sizes, NEW fill \in BOOLEAN, Malloc(size, fill)
    PROVE  HeapInv'
  <1> DEFINE q == malloc_at(size)
             c == IF fill THEN [i \in 1..size |-> Clear] ELSE Contents(buf', q, size)
  <1>1. size \in Nat /\ HDR \in Nat \ {0} /\ HEAP_CAP \in Nat
    BY HeapAssumption
  <1>2. CASE ~Block(q)
    BY <1>2 DEF Malloc, heapVars, HeapInv, HeapTypes
  <1>3. CASE Block(q)
    <2>1. size # 0 /\ q # Null
      BY <1>3 DEF Block, malloc_at
    <2>2. /\ q = start + 2 * HDR /\ start + 2 * HDR + size <= HEAP_CAP /\ q \in Nat
          /\ used + 2 * HDR <= q
      BY <1>1, <2>1, MallocAt
    <2>3. /\ buf' = malloc_buf(size, fill) /\ used' = start + 2 * HDR + size
          /\ Holding(Null, q, c)
      BY <1>3 DEF Malloc
    <2> HIDE DEF q
    <2>4. /\ buf' \in [0..(HEAP_CAP - 1) -> Byte]
          /\ \A i \in 0..(used - 1) : buf'[i] = buf[i]
          /\ size > 0 => buf'[q - 2 * HDR] = MAGIC /\ buf'[q - HDR] = size
          /\ fill => \A i \in 1..size : buf'[q + i - 1] = Clear
      BY <1>1, <2>2, <2>3, MallocBuf
    <2>5. c \in [1..size -> Byte] /\ \A i \in 1..size : c[i] = buf'[q + i - 1]
      <3>1. CASE fill
        BY <2>4, <3>1 DEF Clear, Byte
      <3>2. CASE ~fill
        <4>1. \A i \in 1..size : q + i - 1 \in 0..(HEAP_CAP - 1)
          BY <1>1, <2>2
        <4> QED BY <2>4, <3>2, <4>1 DEF Contents
      <3> QED BY <3>1, <3>2
    <2> HIDE DEF c
    <2>6. c \in Seq(Byte) /\ Len(c) = size
      BY <1>1, <2>5, FunctionIsSeq
    <2>7. used' = q + Len(c) /\ used' <= HEAP_CAP
      BY <1>1, <2>2, <2>3, <2>6
    <2>8. Intact(buf', used', q, c)
      <3>1. 2 * HDR <= q
        BY <1>1, <2>2 DEF HeapInv, HeapTypes
      <3>2. q + Len(c) <= used'
        BY <1>1, <2>2, <2>6, <2>7
      <3>3. size > 0
        BY <1>1, <2>1
      <3> QED BY <2>4, <2>5, <2>6, <3>1, <3>2, <3>3 DEF Intact
    <2>9. Null \in Int /\ q # Null
      BY <2>1 DEF Null, q
    <2> QED BY <2>2, <2>3, <2>4, <2>6, <2>7, <2>8, <2>9, Allocated
  <1> QED BY <1>2, <1>3

\* What the invariant says of one block.
LEMMA BlockFacts ==
    ASSUME HeapInv, NEW p \in DOMAIN blocks
    PROVE  /\ p \in Nat /\ blocks[p] \in Seq(Byte) /\ Len(blocks[p]) \in Nat
           /\ blocks[p] \in [1..Len(blocks[p]) -> Byte]
           /\ 2 * HDR <= p /\ p + Len(blocks[p]) <= used /\ used \in Nat /\ used <= HEAP_CAP
           /\ buf[p - 2 * HDR] = MAGIC /\ buf[p - HDR] = Len(blocks[p])
           /\ \A i \in 1..Len(blocks[p]) : buf[p + i - 1] = blocks[p][i]
           /\ DOMAIN buf = 0..(HEAP_CAP - 1) /\ \A i \in 0..(HEAP_CAP - 1) : buf[i] \in Byte
  BY LenProperties DEF HeapInv, HeapTypes, Intact

\* realloc keeps the invariant.
LEMMA ReallocKeeps ==
    ASSUME HeapInv, NEW p \in DOMAIN blocks, NEW size \in Sizes, Realloc(p, size)
    PROVE  HeapInv'
  <1> DEFINE q == malloc_at(size)
             n == copied(p, size)
             b == malloc_buf(size, TRUE)
             old == blocks[p]
             len == Len(old)
             c == [i \in 1..size |-> IF i <= len THEN old[i] ELSE Clear]
  <1>1. size \in Nat /\ HDR \in Nat \ {0} /\ HEAP_CAP \in Nat
    BY HeapAssumption
  <1>2. CASE size = 0
    <2>1. UNCHANGED <<buf, used>> /\ blocks' = [r \in DOMAIN blocks \ {p} |-> blocks[r]]
      BY <1>2 DEF Realloc
    <2> QED BY <2>1, Released
  <1>3. CASE size # 0 /\ q = Null
    BY <1>3 DEF Realloc, heapVars, HeapInv, HeapTypes
  <1>4. CASE size # 0 /\ q # Null
    <2>1. /\ q = start + 2 * HDR /\ start + 2 * HDR + size <= HEAP_CAP /\ q \in Nat
          /\ used + 2 * HDR <= q
      BY <1>1, <1>4, MallocAt
    <2>2. /\ buf' = [i \in DOMAIN buf |-> IF i - q \in 0..(n - 1) THEN buf[p + i - q] ELSE b[i]]
          /\ used' = start + 2 * HDR + size
          /\ Holding(p, q, c)
      BY <1>4, Zenon DEF Realloc
    <2>3. /\ p \in Nat /\ len \in Nat /\ 2 * HDR <= p /\ p + len <= used /\ used \in Nat
          /\ used <= HEAP_CAP /\ size # 0
      BY <1>4, BlockFacts
    <2>4. /\ old \in [1..len -> Byte] /\ buf[p - 2 * HDR] = MAGIC /\ buf[p - HDR] = len
          /\ \A i \in 1..len : buf[p + i - 1] = old[i]
          /\ DOMAIN buf = 0..(HEAP_CAP - 1) /\ \A i \in 0..(HEAP_CAP - 1) : buf[i] \in Byte
      BY BlockFacts
    <2>5. n = IF len < size THEN len ELSE size
      BY <2>4 DEF copied, size_of
    <2>6. q \in Nat /\ q + size <= HEAP_CAP /\ used + 2 * HDR <= q /\ used' = q + size
      BY <2>1, <2>2
    <2>7. /\ b \in [0..(HEAP_CAP - 1) -> Byte]
          /\ \A i \in 0..(used - 1) : b[i] = buf[i]
          /\ size > 0 => b[q - 2 * HDR] = MAGIC /\ b[q - HDR] = size
          /\ \A i \in 1..size : b[q + i - 1] = Clear
      <3>1. start + 2 * HDR + size <= HEAP_CAP /\ TRUE \in BOOLEAN
        BY <2>1
      <3>2. LET b0 == malloc_buf(size, TRUE)
                q0 == start + 2 * HDR
            IN  /\ b0 \in [0..(HEAP_CAP - 1) -> Byte]
                /\ \A i \in 0..(used - 1) : b0[i] = buf[i]
                /\ size > 0 => b0[q0 - 2 * HDR] = MAGIC /\ b0[q0 - HDR] = size
                /\ TRUE => \A i \in 1..size : b0[q0 + i - 1] = Clear
        BY <1>1, <3>1, MallocBuf, Zenon
      <3> HIDE DEF b, q
      <3> QED BY <2>1, <3>2, Zenon DEF b
    <2> HIDE DEF q, n, b, old, len
    <2>8. n \in Nat /\ n <= size /\ n <= len
      BY <1>1, <2>3, <2>5
    <2>9. /\ buf' \in [0..(HEAP_CAP - 1) -> Byte]
          /\ \A i \in 0..(HEAP_CAP - 1) :
                buf'[i] = IF i - q \in 0..(n - 1) THEN buf[p + i - q] ELSE b[i]
      <3>1. ASSUME NEW i \in 0..(HEAP_CAP - 1), i - q \in 0..(n - 1)
            PROVE  p + i - q \in 0..(HEAP_CAP - 1)
        BY <1>1, <2>3, <2>6, <2>8, <3>1
      <3> QED BY <2>2, <2>4, <2>7, <3>1
    <2>10. \A i \in 0..(used - 1) : buf'[i] = buf[i]
      <3>1. ASSUME NEW i \in 0..(used - 1)
            PROVE  i \in 0..(HEAP_CAP - 1) /\ i - q \notin 0..(n - 1)
        BY <1>1, <2>3, <2>6, <2>8
      <3> QED BY <2>7, <2>9, <3>1
    <2>11. buf'[q - 2 * HDR] = MAGIC /\ buf'[q - HDR] = size
      <3>1. /\ q - 2 * HDR \in 0..(HEAP_CAP - 1) /\ q - HDR \in 0..(HEAP_CAP - 1) /\ size > 0
            /\ (q - 2 * HDR) - q \notin 0..(n - 1) /\ (q - HDR) - q \notin 0..(n - 1)
        BY <1>1, <2>3, <2>6, <2>8
      <3> QED BY <2>7, <2>9, <3>1
    <2>12. /\ c \in Seq(Byte) /\ Len(c) = size
           /\ \A i \in 1..size : c[i] = IF i <= len THEN old[i] ELSE Clear
      <3>1. ASSUME NEW i \in 1..size PROVE (IF i <= len THEN old[i] ELSE Clear) \in Byte
        <4>1. CASE i <= len
          <5>1. i \in 1..len
            BY <1>1, <2>3, <4>1
          <5> QED BY <2>4, <4>1, <5>1
        <4> QED BY <4>1 DEF Byte, Clear
      <3>2. c \in [1..size -> Byte]
        BY <3>1
      <3>3. \A i \in 1..size : c[i] = IF i <= len THEN old[i] ELSE Clear
        OBVIOUS
      <3> HIDE DEF c
      <3> QED BY <1>1, <3>2, <3>3, FunctionIsSeq
    <2> HIDE DEF c
    <2>13. ASSUME NEW i \in 1..size PROVE buf'[q + i - 1] = c[i]
      <3>1. q + i - 1 \in 0..(HEAP_CAP - 1) /\ (q + i - 1) - q = i - 1
        BY <1>1, <2>6
      <3>2. CASE i <= n
        <4>1. i - 1 \in 0..(n - 1) /\ p + (q + i - 1) - q = p + i - 1 /\ i \in 1..len
          BY <1>1, <2>3, <2>6, <2>8, <3>2
        <4>2. c[i] = old[i] /\ buf[p + i - 1] = old[i]
          BY <2>3, <2>4, <2>12, <4>1
        <4> QED BY <2>9, <3>1, <4>1, <4>2
      <3>3. CASE ~(i <= n)
        <4>1. i - 1 \notin 0..(n - 1) /\ ~(i <= len)
          BY <1>1, <2>3, <2>5, <3>3
        <4> QED BY <2>7, <2>9, <2>12, <3>1, <4>1
      <3> QED BY <3>2, <3>3
    <2>14. used' = q + Len(c) /\ used' <= HEAP_CAP
      BY <2>6, <2>12
    <2>15. Intact(buf', used', q, c)
      <3>1. 2 * HDR <= q /\ q + Len(c) <= used'
        BY <1>1, <2>3, <2>6, <2>14
      <3> QED BY <2>11, <2>12, <2>13, <3>1 DEF Intact
    <2>16. p \in Int /\ q # p
      BY <1>1, <2>3, <2>6
    <2> QED BY <2>2, <2>6, <2>9, <2>10, <2>12, <2>14, <2>15, <2>16, Allocated, Zenon
  <1> QED BY <1>2, <1>3, <1>4

\* MemFill and MemMove keep the invariant.
LEMMA WritesKeep ==
    ASSUME HeapInv, NEW p \in DOMAIN blocks, NEW q \in DOMAIN blocks,
           \/ \E v \in Fills : MemFill(q, v)
           \/ Len(blocks[p]) <= Len(blocks[q]) /\ MemMove(p, q, Len(blocks[p]))
    PROVE  HeapInv'
  <1> DEFINE new == blocks[q]
             old == blocks[p]
  <1>1. HDR \in Nat \ {0} /\ HEAP_CAP \in Nat
    BY HeapAssumption
  <1>2. /\ q \in Nat /\ new \in Seq(Byte) /\ Len(new) \in Nat /\ new \in [1..Len(new) -> Byte]
        /\ 2 * HDR <= q /\ q + Len(new) <= used /\ used \in Nat /\ used <= HEAP_CAP
        /\ \A i \in 1..Len(new) : buf[q + i - 1] = new[i]
        /\ DOMAIN buf = 0..(HEAP_CAP - 1) /\ \A i \in 0..(HEAP_CAP - 1) : buf[i] \in Byte
    BY BlockFacts
  <1>3. ASSUME NEW n \in 0..Len(new), NEW w, NEW c, c \in [1..Len(new) -> Byte],
               \A i \in 0..(n - 1) : w[i] \in Byte /\ c[i + 1] = w[i],
               \A i \in (n + 1)..Len(new) : c[i] = new[i],
               buf' = [i \in DOMAIN buf |-> IF i - q \in 0..(n - 1) THEN w[i - q] ELSE buf[i]],
               blocks' = [blocks EXCEPT ![q] = c], used' = used
        PROVE  HeapInv'
    <2> HIDE DEF new
    <2>1. c \in Seq(Byte) /\ Len(c) = Len(new)
      BY <1>2, <1>3, FunctionIsSeq, SMTT(40)
    <2>2. /\ buf' \in [0..(HEAP_CAP - 1) -> Byte]
          /\ \A i \in 0..(HEAP_CAP - 1) :
                buf'[i] = IF i - q \in 0..(n - 1) THEN w[i - q] ELSE buf[i]
      BY <1>2, <1>3
    <2>3. ASSUME NEW i \in 0..(HEAP_CAP - 1), i < q \/ i >= q + Len(c)
          PROVE  buf'[i] = buf[i]
      <3>1. i - q \notin 0..(n - 1)
        BY <1>2, <2>1, <2>3
      <3> QED BY <2>2, <3>1
    <2>4. ASSUME NEW i \in 1..Len(c) PROVE buf'[q + i - 1] = c[i]
      <3>1. /\ q + i - 1 \in 0..(HEAP_CAP - 1) /\ (q + i - 1) - q = i - 1 /\ i \in 1..Len(new)
            /\ i - 1 + 1 = i
        BY <1>1, <1>2, <2>1
      <3>2. CASE i <= n
        <4>1. i - 1 \in 0..(n - 1)
          BY <1>2, <3>1, <3>2
        <4>2. c[i] = w[i - 1]
          BY <1>3, <3>1, <4>1
        <4> QED BY <2>2, <3>1, <4>1, <4>2
      <3>3. CASE ~(i <= n)
        <4>1. i - 1 \notin 0..(n - 1) /\ i \in (n + 1)..Len(new)
          BY <1>2, <3>1, <3>3
        <4> QED BY <1>2, <1>3, <2>2, <3>1, <4>1
      <3> QED BY <3>2, <3>3
    <2>5. Len(c) = Len(blocks[q])
      BY <2>1 DEF new
    <2> QED BY <1>3, <2>1, <2>2, <2>3, <2>4, <2>5, Written, Zenon
  <1>4. ASSUME NEW v \in Fills, MemFill(q, v)
        PROVE  HeapInv'
    <2> DEFINE n == Len(new)
               w == [i \in 0..(n - 1) |-> v]
               c == [i \in 1..n |-> v]
    <2>1. v \in Byte /\ n \in 0..Len(new) /\ n \in Nat
      BY <1>2 DEF Byte
    <2>2. /\ c \in [1..n -> Byte] /\ \A i \in (n + 1)..n : c[i] = new[i]
          /\ \A i \in 0..(n - 1) : w[i] \in Byte /\ c[i + 1] = w[i]
      BY <2>1
    <2>3. buf' = [i \in DOMAIN buf |-> IF i - q \in 0..(n - 1) THEN w[i - q] ELSE buf[i]]
      BY <1>4 DEF MemFill
    <2>4. blocks' = [blocks EXCEPT ![q] = c] /\ used' = used
      BY <1>2, <1>4 DEF MemFill
    <2> HIDE DEF w, c
    <2> QED BY <1>3, <2>1, <2>2, <2>3, <2>4, Zenon
  <1>5. ASSUME Len(old) <= Len(new), MemMove(p, q, Len(old))
        PROVE  HeapInv'
    <2> DEFINE n == Len(old)
               w == [i \in 0..(n - 1) |-> buf[p + i]]
               c == [i \in 1..Len(new) |-> IF i <= n THEN old[i] ELSE new[i]]
    <2>1. /\ p \in Nat /\ n \in Nat /\ old \in [1..n -> Byte] /\ p + n <= used
          /\ \A i \in 1..n : buf[p + i - 1] = old[i]
      BY BlockFacts
    <2>2. n \in 0..Len(new)
      BY <1>2, <1>5, <2>1
    <2>3. c \in [1..Len(new) -> Byte] /\ \A i \in (n + 1)..Len(new) : c[i] = new[i]
      BY <1>2, <2>1, <2>2
    <2>4. ASSUME NEW i \in 0..(n - 1) PROVE w[i] \in Byte /\ c[i + 1] = w[i]
      <3>1. i + 1 \in 1..n /\ i + 1 \in 1..Len(new) /\ p + (i + 1) - 1 = p + i
        BY <1>2, <2>1, <2>2, SMTT(40)
      <3>2. w[i] = old[i + 1] /\ c[i + 1] = old[i + 1]
        BY <2>1, <3>1
      <3> QED BY <2>1, <3>1, <3>2
    <2>5. buf' = [i \in DOMAIN buf |-> IF i - q \in 0..(n - 1) THEN w[i - q] ELSE buf[i]]
      <3>1. ASSUME NEW i \in DOMAIN buf, i - q \in 0..(n - 1)
            PROVE  buf[p + i - q] = w[i - q]
        <4>1. p + i - q = p + (i - q)
          BY <1>2, <2>1
        <4> QED BY <3>1, <4>1
      <3> QED BY <1>5, <3>1 DEF MemMove
    <2>6. blocks' = [blocks EXCEPT ![q] = c] /\ used' = used
      BY <1>2, <1>5 DEF MemMove
    <2> HIDE DEF w, c
    <2> QED BY <1>3, <2>2, <2>3, <2>4, <2>5, <2>6, Zenon
  <1> QED BY <1>4, <1>5

\* Every block a TA holds has the bytes the TA left there, whatever is allocated,
\* enlarged, given back and written elsewhere.
THEOREM HeapIsKept == HeapSpec => []HeapKeepsContents
  <1>1. HeapInit => HeapInv
    BY HeapAssumption DEF HeapInit, HeapInv, HeapTypes, Byte, Clear
  <1>2. HeapInv /\ [HeapNext]_heapVars => HeapInv'
    <2> SUFFICES ASSUME HeapInv, [HeapNext]_heapVars PROVE HeapInv'
      OBVIOUS
    <2>1. CASE UNCHANGED heapVars
      BY <2>1 DEF heapVars, HeapInv, HeapTypes
    <2>2. ASSUME NEW p \in DOMAIN blocks, Free(p) PROVE HeapInv'
      BY <2>2, Released DEF Free
    <2> QED BY <2>1, <2>2, MallocKeeps, ReallocKeeps, WritesKeep DEF HeapNext
  <1>3. HeapInv => HeapKeepsContents
    <2> SUFFICES ASSUME HeapInv, NEW p \in DOMAIN blocks
                 PROVE  /\ p + Len(blocks[p]) <= HEAP_CAP
                        /\ Contents(buf, p, Len(blocks[p])) = blocks[p]
      BY DEF HeapKeepsContents
    <2>1. HEAP_CAP \in Nat
      BY HeapAssumption
    <2> QED BY <2>1, BlockFacts DEF Contents
  <1> QED BY <1>1, <1>2, <1>3, PTL DEF HeapSpec

=============================================================================
