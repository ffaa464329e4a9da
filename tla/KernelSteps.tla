----------------------------- MODULE KernelSteps -----------------------------
(***************************************************************************)
(* What every step of the kernel does to the session table and to the      *)
(* instance table, for all constants.                                      *)
(***************************************************************************)
EXTENDS KernelLocks, FiniteSetTheorems

-----------------------------------------------------------------------------
(* Sessions and their number *)

\* The sessions of a table that name instance i.
NamedIn(tab, i) == {s \in SessionId : tab[s].state # "Free" /\ tab[s].instance = i}

\* SessionsOf looks at nothing but the session table, and it is finite.
LEMMA SessionsFinite ==
    ASSUME NEW i
    PROVE  /\ SessionsOf(i) = NamedIn(sessions, i)
           /\ SessionsOf(i)' = NamedIn(sessions', i)
           /\ IsFiniteSet(NamedIn(sessions, i))
           /\ Cardinality(NamedIn(sessions, i)) \in Nat
  <1>1. SessionsOf(i) = NamedIn(sessions, i) /\ SessionsOf(i)' = NamedIn(sessions', i)
    BY DEF SessionsOf, UsedSessions, NamedIn
  <1>2. IsFiniteSet(1..IdMax)
    BY KernelAssumption, FS_Interval
  <1>3. NamedIn(sessions, i) \in SUBSET (1..IdMax)
    BY DEF NamedIn, SessionId
  <1>4. IsFiniteSet(NamedIn(sessions, i))
    BY <1>2, <1>3, FS_Subset, Zenon
  <1> QED BY <1>1, <1>4, FS_CardinalityType

\* add_session: one more session for the instance that the new one names.
LEMMA SessionAdded ==
    ASSUME TypeOK, UnusedIdsFree, next_sid <= IdMax, NEW x \in Session, x.state # "Free",
           sessions' = [sessions EXCEPT ![next_sid] = x], NEW i \in InstanceId
    PROVE  Cardinality(NamedIn(sessions', i)) =
               Cardinality(NamedIn(sessions, i)) + (IF x.instance = i THEN 1 ELSE 0)
  <1>1. next_sid \in SessionId /\ sessions \in [SessionId -> Session]
    BY KernelAssumption DEF TypeOK, SessionId
  <1>2. sessions[next_sid].state = "Free"
    <2>1. sessions[next_sid] = NoSession
      BY <1>1 DEF UnusedIdsFree, SessionId
    <2> QED BY <2>1 DEF NoSession
  <1>3. CASE x.instance = i
    <2>1. NamedIn(sessions', i) = NamedIn(sessions, i) \cup {next_sid}
      BY <1>1, <1>2, <1>3 DEF NamedIn
    <2>2. next_sid \notin NamedIn(sessions, i)
      BY <1>2 DEF NamedIn
    <2>3. IsFiniteSet(NamedIn(sessions, i))
      BY SessionsFinite
    <2>4. Cardinality(NamedIn(sessions, i) \cup {next_sid}) = Cardinality(NamedIn(sessions, i)) + 1
      BY <2>2, <2>3, FS_AddElement, Zenon
    <2> QED BY <1>3, <2>1, <2>4, Zenon
  <1>4. CASE x.instance # i
    <2>1. NamedIn(sessions', i) = NamedIn(sessions, i)
      BY <1>1, <1>2, <1>4 DEF NamedIn
    <2> QED BY <1>4, <2>1, SessionsFinite
  <1> QED BY <1>3, <1>4

\* remove: one session fewer for the instance that the old one named.
LEMMA SessionRemoved ==
    ASSUME TypeOK, NEW sid \in SessionId, sessions[sid].state # "Free",
           sessions' = [sessions EXCEPT ![sid] = NoSession], NEW i \in InstanceId
    PROVE  /\ Cardinality(NamedIn(sessions', i)) =
               Cardinality(NamedIn(sessions, i)) - (IF sessions[sid].instance = i THEN 1 ELSE 0)
           /\ Cardinality(NamedIn(sessions', i)) \in Nat
  <1>1. sessions \in [SessionId -> Session] /\ NoSession.state = "Free"
    BY DEF TypeOK, NoSession
  <1>2. CASE sessions[sid].instance = i
    <2>1. NamedIn(sessions', i) = NamedIn(sessions, i) \ {sid}
      BY <1>1, <1>2 DEF NamedIn
    <2>2. sid \in NamedIn(sessions, i)
      BY <1>2 DEF NamedIn
    <2>3. IsFiniteSet(NamedIn(sessions, i))
      BY SessionsFinite
    <2>4. /\ IsFiniteSet(NamedIn(sessions, i) \ {sid})
          /\ Cardinality(NamedIn(sessions, i) \ {sid}) = Cardinality(NamedIn(sessions, i)) - 1
      BY <2>2, <2>3, FS_RemoveElement, Zenon
    <2>5. Cardinality(NamedIn(sessions, i) \ {sid}) \in Nat
      BY <2>4, FS_CardinalityType
    <2> QED BY <1>2, <2>1, <2>4, <2>5, Zenon
  <1>3. CASE sessions[sid].instance # i
    <2>1. NamedIn(sessions', i) = NamedIn(sessions, i)
      BY <1>1, <1>3 DEF NamedIn
    <2> QED BY <1>3, <2>1, SessionsFinite
  <1> QED BY <1>2, <1>3

-----------------------------------------------------------------------------
(* What a step does to the tables *)

\* Calls that hold no instance.
Quiet == {"idle", "halted"} \cup PtaEntry

\* The only instance that changes is iid.
OnlyInstance(iid) == \A i \in InstanceId \ {iid} : instances'[i] = instances[i]

\* Neither table changes, except that an id may be spent.
Untouched ==
    /\ UNCHANGED <<sessions, instances>>
    /\ next_sid' \in {next_sid, next_sid + 1} /\ next_iid' \in {next_iid, next_iid + 1}
    /\ \/ UNCHANGED call
       \/ call.at \in Quiet /\ call'.at \in Quiet
       \/ call.at \in TaEntry /\ call'.at = "spin"

\* open_session of a PTA.
AddsPta ==
    /\ UNCHANGED <<instances, next_iid>>
    /\ next_sid <= IdMax /\ next_sid' = next_sid + 1
    /\ \E u \in Uuid : sessions' = [sessions EXCEPT ![next_sid] =
            [state |-> "Ready", kind |-> "Pta", uuid |-> u, instance |-> None]]
    /\ call.at \in Quiet /\ call'.at \in Quiet

\* close of a session without instance, or whose instance is dead.
Drops(sid) ==
    /\ UNCHANGED <<next_sid, instances, next_iid>>
    /\ sessions[sid].state = "Dead" \/ (sessions[sid].state = "Ready" /\ sessions[sid].kind = "Pta")
    /\ sessions' = [sessions EXCEPT ![sid] = NoSession]
    /\ call.at \in Quiet /\ call'.at \in Quiet

\* bind_session for a Live instance, up to its entry point or its end, or after it.
Binds(iid) ==
    /\ instances[iid].state = "Live" /\ next_sid <= IdMax
    /\ \/ call.at \in {"create", "open"} /\ call.iid = iid
       \/ call.at = "idle" /\ ~SessionLimit(iid)
    /\ OnlyInstance(iid) /\ SameTa(instances'[iid], instances[iid])
    /\ Bound(instances[iid].uuid, iid, instances[iid].session_count)
    /\ call'.at # "create" /\ next_iid' = next_iid

\* instantiate_and_bind with a new instance.
Creates(img, u) ==
    /\ call.at = "idle" /\ next_sid <= IdMax /\ next_iid <= IdMax
    /\ next_iid' = next_iid + 1
    /\ OnlyInstance(next_iid) /\ SameTa(instances'[next_iid], NewInstance(img, u))
    /\ Bound(u, next_iid, 0)
    /\ LiveSingles(u) = {}
    /\ (u \in DOMAIN Early /\ UNCHANGED yielding) \/ yielding' = NoLoad

\* invoke: the instance changes in its lock and its mappings only.
Touches(iid) ==
    /\ UNCHANGED <<sessions, next_sid, next_iid>>
    /\ OnlyInstance(iid) /\ SameTa(instances'[iid], instances[iid])
    /\ instances'[iid].session_count = instances[iid].session_count
    /\ call.at \in {"idle", "invoke"} /\ call'.at \in {"idle", "invoke"}

\* create failed, or destroy returned: the instance is gone.
Removes(iid) ==
    /\ UNCHANGED <<sessions, next_sid, next_iid>>
    /\ call.at \in {"create", "destroy"} /\ call.iid = iid /\ call' = Idle
    /\ OnlyInstance(iid) /\ instances'[iid] = NoInstance

\* close of a session whose TA is called, and of one whose TA has no entry points.
StartsClose(sid, iid) ==
    /\ call.at = "idle" /\ call'.at = "close" /\ call'.iid = iid
    /\ UNCHANGED <<next_sid, next_iid>>
    /\ sessions[sid].state = "Ready" /\ sessions[sid].instance = iid
    /\ sessions' = [sessions EXCEPT ![sid] = NoSession]
    /\ OnlyInstance(iid) /\ SameTa(instances'[iid], instances[iid])
    /\ instances'[iid].session_count = instances[iid].session_count

Closes(sid, iid) ==
    /\ call.at = "idle" /\ UNCHANGED <<next_sid, next_iid>>
    /\ sessions[sid].state = "Ready" /\ sessions[sid].instance = iid
    /\ sessions' = [sessions EXCEPT ![sid] = NoSession]
    /\ OnlyInstance(iid) /\ Released(iid)

\* The end of close after the TA was called.
EndsClose(iid) ==
    /\ call.at = "close" /\ call.iid = iid
    /\ UNCHANGED <<sessions, next_sid, next_iid>>
    /\ OnlyInstance(iid) /\ Released(iid)

\* on_ta_panic.
Dies(iid) ==
    /\ call.at \in TaEntry /\ call.iid = iid /\ call' = Idle
    /\ UNCHANGED <<next_sid, next_iid>>
    /\ OnlyInstance(iid) /\ instances'[iid].state = "Dead"
    /\ sessions' = PoisonInstance(iid)

\* Every step of the kernel is one of these.
TableStep ==
    \/ Untouched
    \/ AddsPta
    \/ \E sid \in SessionId : Drops(sid)
    \/ \E iid \in InstanceId :
          Binds(iid) \/ Touches(iid) \/ Removes(iid) \/ EndsClose(iid) \/ Dies(iid)
    \/ \E img \in Image, u \in Uuid : Creates(img, u)
    \/ \E sid \in SessionId, iid \in InstanceId : StartsClose(sid, iid) \/ Closes(sid, iid)

\* lock_instance leaves the counter alone.
LEMMA LockKeepsCount ==
    ASSUME NEW tab \in [InstanceId -> Instance], NEW iid \in InstanceId
    PROVE  [tab EXCEPT ![iid].busy = TRUE][iid].session_count = tab[iid].session_count
  <1>1. [tab EXCEPT ![iid].busy = TRUE][iid] = [tab[iid] EXCEPT !.busy = TRUE]
    OBVIOUS
  <1>2. tab[iid] \in Instance
    OBVIOUS
  <1> QED BY <1>1, <1>2 DEF Instance

\* unmap_params leaves the counter alone.
LEMMA UnmapKeepsCount ==
    ASSUME NEW tab \in [InstanceId -> Instance], NEW iid \in InstanceId, NEW p \in ParamList
    PROVE  [tab EXCEPT ![iid] = UnmapParams(@, p)][iid].session_count = tab[iid].session_count
  <1>1. [tab EXCEPT ![iid] = UnmapParams(@, p)][iid] = UnmapParams(tab[iid], p)
    OBVIOUS
  <1>2. tab[iid] \in Instance
    OBVIOUS
  <1> QED BY <1>1, <1>2, MappingKeeps

\* instantiate_and_bind takes one of these steps.
LEMMA InstantiateSteps ==
    ASSUME TypeInv, call.at = "idle", next_sid <= IdMax, next_iid <= IdMax,
           NEW img \in Image, NEW u \in Uuid, NEW p \in ParamList,
           InstantiateAndBind(img, u, p), LiveSingles(u) = {},
           (u \in DOMAIN Early /\ UNCHANGED yielding) \/ yielding' = NoLoad
    PROVE  Untouched \/ Creates(img, u)
  <1>1. /\ next_iid' \in {next_iid, next_iid + 1}
        /\ \/ /\ UNCHANGED <<sessions, next_sid, instances, current_instance>>
              /\ call' = Idle
           \/ /\ next_iid' = next_iid + 1
              /\ \A i \in InstanceId \ {next_iid} : instances'[i] = instances[i]
              /\ SameTa(instances'[next_iid], NewInstance(img, u))
              /\ Bound(u, next_iid, 0)
    BY InstantiateOutcome DEF TypeInv
  <1>2. CASE UNCHANGED <<sessions, next_sid, instances, current_instance>> /\ call' = Idle
    <2>1. call'.at \in Quiet /\ call.at \in Quiet
      BY <1>2 DEF Quiet, Idle
    <2> QED BY <1>1, <1>2, <2>1 DEF Untouched
  <1>3. CASE /\ next_iid' = next_iid + 1
             /\ \A i \in InstanceId \ {next_iid} : instances'[i] = instances[i]
             /\ SameTa(instances'[next_iid], NewInstance(img, u))
             /\ Bound(u, next_iid, 0)
    BY <1>3 DEF Creates, OnlyInstance
  <1> QED BY <1>1, <1>2, <1>3

\* The steps of OpenSession.
LEMMA OpenSteps ==
    ASSUME TypeInv, LockHolders, OpenSession
    PROVE  TableStep
  <1> USE KernelAssumption
  <1> PICK u \in Uuid, cid \in CancelIds, p \in Params :
          \/ OpenCancelled(cid) \/ OpenPta(u, cid) \/ OpenLive(u, cid, p)
          \/ OpenEarly(u, cid, p) \/ OpenLoad(u, cid, p)
    BY DEF OpenSession
  <1>p. p \in ParamList
    OBVIOUS
  <1>a. call.at = "idle" /\ call.at \in Quiet
    BY DEF OpenCancelled, OpenPta, OpenLive, OpenEarly, OpenLoad, Ready, Quiet
  <1>1. CASE OpenCancelled(cid)
    BY <1>1, <1>a DEF OpenCancelled, Answer, Idle, tables, Quiet, Untouched, TableStep
  <1>2. CASE OpenPta(u, cid)
    BY <1>2, <1>a DEF OpenPta, RunPta, tables, Quiet, PtaEntry, Untouched, TableStep
  <1>3. CASE OpenLive(u, cid, p)
    <2> PICK i \in LiveSingles(u) :
            LET code == IF SessionLimit(i) THEN "BUSY" ELSE LockCode(i)
            IN  IF code = "SUCCESS"
                THEN BindSession([instances EXCEPT ![i].busy = TRUE], i, p)
                ELSE /\ Answer(code)
                     /\ UNCHANGED <<sessions, next_sid, instances, current_instance>>
      BY <1>3, Zenon DEF OpenLive
    <2> DEFINE tab == [instances EXCEPT ![i].busy = TRUE]
    <2>0. IdsLeft /\ next_iid' = next_iid
      BY <1>3 DEF OpenLive
    <2>1. i \in InstanceId /\ instances[i].state = "Live" /\ next_sid <= IdMax
      BY <2>0, IdRoom DEF LiveSingles
    <2>2. CASE BindSession(tab, i, p) /\ ~SessionLimit(i)
      <3>1. /\ tab \in [InstanceId -> Instance] /\ tab[i].busy /\ SameTa(tab[i], instances[i])
            /\ tab[i].session_count = instances[i].session_count
            /\ \A j \in InstanceId \ {i} : tab[j] = instances[j]
        <4>1. instances \in [InstanceId -> Instance]
          BY DEF TypeInv, TypeOK
        <4>2. tab[i].session_count = instances[i].session_count
          BY <2>1, <4>1, LockKeepsCount
        <4>3. /\ tab \in [InstanceId -> Instance] /\ tab[i].busy
              /\ SameTa(tab[i], instances[i])
              /\ \A j \in InstanceId \ {i} : tab[j] = instances[j]
          BY <2>1, <4>1, LockOutcome, Zenon
        <4> HIDE DEF tab
        <4> QED BY <4>2, <4>3
      <3> HIDE DEF tab
      <3>2. /\ \A j \in InstanceId \ {i} : instances'[j] = tab[j]
            /\ SameTa(instances'[i], tab[i])
            /\ Bound(tab[i].uuid, i, tab[i].session_count)
        BY <1>p, <2>1, <2>2, <3>1, BindOutcome
      <3>3. call'.at # "create"
        BY <2>1, <2>2, BindHasInstance
      <3>4. Binds(i)
        BY <1>a, <2>0, <2>1, <2>2, <3>1, <3>2, <3>3 DEF Binds, SameTa, OnlyInstance
      <3> QED BY <2>1, <3>4 DEF TableStep
    <2>3. CASE ~(BindSession(tab, i, p) /\ ~SessionLimit(i))
      <3>1. UNCHANGED <<sessions, next_sid, instances>> /\ call'.at = "idle"
        BY <2>3 DEF Answer, Idle
      <3> QED BY <1>a, <2>0, <3>1 DEF Quiet, Untouched, TableStep
    <2> QED BY <2>2, <2>3
  <1>4. CASE OpenEarly(u, cid, p)
    <2>1. /\ InstantiateAndBind(Early[u], u, p) /\ Early[u] \in Image /\ IdsLeft
          /\ u \in DOMAIN Early /\ LiveSingles(u) = {} /\ UNCHANGED yielding
      BY <1>4 DEF OpenEarly, rest
    <2>2. next_iid <= IdMax /\ next_sid <= IdMax
      BY <2>1, IdRoom
    <2>3. Untouched \/ Creates(Early[u], u)
      BY <1>p, <1>a, <2>1, <2>2, InstantiateSteps
    <2> QED BY <2>1, <2>3 DEF TableStep
  <1>5. CASE OpenLoad(u, cid, p)
    BY <1>5 DEF OpenLoad, tables, Untouched, TableStep
  <1> QED BY <1>1, <1>2, <1>3, <1>4, <1>5

\* The steps of RpcComplete: no live single instance of the awaited TA came to be
\* while its image was on its way.
LEMMA RpcSteps ==
    ASSUME TypeInv, LockHolders, WaitingForFirst, RpcComplete
    PROVE  TableStep
  <1> USE KernelAssumption
  <1>1. CASE RpcSpurious
    BY <1>1 DEF RpcSpurious, Ready, Answer, Idle, tables, Quiet, Untouched, TableStep
  <1>2. ASSUME NEW code \in {"RPC_ERROR", "NOT_SUPPORTED", "LOAD_ERROR"}, RpcFails(code)
        PROVE  TableStep
    BY <1>2 DEF RpcFails, Ready, Answer, Idle, tables, Quiet, Untouched, TableStep
  <1>3. ASSUME NEW img \in Images, RpcImage(img)
        PROVE  TableStep
    <2>1. call.at = "idle" /\ yielding.active /\ yielding' = NoLoad
      BY <1>3 DEF RpcImage, Ready
    <2>2. CASE LoadCancelled
      BY <1>3, <2>1, <2>2 DEF RpcImage, Answer, Idle, tables, Quiet, Untouched, TableStep
    <2>3. CASE ~LoadCancelled
      <3>1. /\ InstantiateAndBind(img, yielding.uuid, yielding.params)
            /\ img \in Image /\ yielding.uuid \in Uuid /\ yielding.params \in ParamList
        BY <1>3, <2>3 DEF RpcImage, TypeInv, TypeOK, Load
      <3>2. LiveSingles(yielding.uuid) = {} /\ next_sid <= IdMax /\ next_iid <= IdMax
        BY <2>1, IdRoom DEF WaitingForFirst
      <3>3. Untouched \/ Creates(img, yielding.uuid)
        BY <2>1, <3>1, <3>2, InstantiateSteps
      <3> QED BY <3>1, <3>3 DEF TableStep
    <2> QED BY <2>2, <2>3
  <1> QED BY <1>1, <1>2, <1>3 DEF RpcComplete

\* The steps of Invoke.
LEMMA InvokeSteps ==
    ASSUME TypeInv, LockHolders, Invoke
    PROVE  TableStep
  <1> USE KernelAssumption
  <1> PICK sid \in SessionId, cid \in CancelIds, p \in Params :
          InvokeRefused(sid, cid) \/ InvokePta(sid, cid) \/ InvokeTa(sid, cid, p)
    BY DEF Invoke
  <1>p. p \in ParamList
    OBVIOUS
  <1>a. call.at = "idle" /\ call.at \in Quiet
    BY DEF InvokeRefused, InvokePta, InvokeTa, Ready, Quiet
  <1>1. CASE InvokeRefused(sid, cid)
    BY <1>1, <1>a DEF InvokeRefused, Answer, Idle, tables, Quiet, Untouched, TableStep
  <1>2. CASE InvokePta(sid, cid)
    BY <1>2, <1>a DEF InvokePta, RunPta, tables, Quiet, PtaEntry, Untouched, TableStep
  <1>3. CASE InvokeTa(sid, cid, p)
    <2> DEFINE iid == sessions[sid].instance
    <2>1. /\ iid \in InstanceId
          /\ \A i \in InstanceId \ {iid} : instances'[i] = instances[i]
          /\ SameTa(instances'[iid], instances[iid])
          /\ instances'[iid].session_count = instances[iid].session_count
          /\ call'.at = "invoke" \/ call' = Idle
      BY <1>p, <1>3, InvokeOutcome
    <2>2. UNCHANGED <<sessions, next_sid, next_iid>>
      BY <1>3 DEF InvokeTa
    <2> HIDE DEF iid
    <2>3. Touches(iid)
      BY <1>a, <2>1, <2>2 DEF Touches, OnlyInstance, Idle
    <2> QED BY <2>1, <2>3 DEF TableStep
  <1> QED BY <1>1, <1>2, <1>3

\* The steps of CloseSession: the lock of a session's instance is refused only if
\* that instance is dead.
LEMMA CloseSteps ==
    ASSUME TypeInv, LockHolders, SessionTargets, CloseSession
    PROVE  TableStep
  <1> USE KernelAssumption
  <1> PICK sid \in SessionId : CloseUnknown(sid) \/ ClosePta(sid) \/ CloseTa(sid)
    BY DEF CloseSession
  <1>a. call.at = "idle" /\ call.at \in Quiet
    BY DEF CloseUnknown, ClosePta, CloseTa, Ready, Quiet
  <1>s. sessions[sid].state \in {"Free", "Ready", "Dead"}
    BY DEF TypeInv, TypeOK, Session
  <1>1. CASE CloseUnknown(sid)
    BY <1>1, <1>a DEF CloseUnknown, Answer, Idle, tables, Quiet, Untouched, TableStep
  <1>2. CASE ClosePta(sid)
    <2>1. /\ UNCHANGED <<next_sid, instances, next_iid>>
          /\ sessions[sid].state # "Free" /\ sessions[sid].kind = "Pta"
          /\ sessions' = [sessions EXCEPT ![sid] = NoSession]
          /\ call' = RunPta("pta_close", sessions[sid].uuid) \/ call' = Idle
      BY <1>2 DEF ClosePta, Answer
    <2>2. call'.at \in Quiet
      BY <2>1 DEF RunPta, Idle, Quiet, PtaEntry
    <2>3. Drops(sid)
      BY <1>a, <1>s, <2>1, <2>2 DEF Drops
    <2> QED BY <2>3 DEF TableStep
  <1>3. CASE CloseTa(sid)
    <2> DEFINE iid == sessions[sid].instance
    <2>1. /\ sessions[sid].state # "Free" /\ sessions[sid].kind = "UserTa"
          /\ sessions' = [sessions EXCEPT ![sid] = NoSession]
          /\ UNCHANGED <<next_sid, next_iid>>
      BY <1>3 DEF CloseTa
    <2>2. iid \in InstanceId \cup {None} /\ iid # None
      BY <2>1 DEF TypeInv, TypeOK, Session, SessionTargets
    <2>3. iid \in InstanceId
      BY <2>2
    <2>4. CASE LockCode(iid) # "SUCCESS"
      <3>1. UNCHANGED instances /\ call'.at = "idle"
        BY <1>3, <2>2, <2>4 DEF CloseTa, Answer, Idle
      <3>2. sessions[sid].state = "Dead"
        <4>1. ASSUME sessions[sid].state = "Ready"
              PROVE  FALSE
          <5>1. instances[iid].state = "Live"
            BY <2>1, <4>1 DEF SessionTargets, ReadySessionHasLiveInstance
          <5>2. ~instances[iid].busy
            BY <1>a, <2>3, <5>1 DEF LockHolders, TaEntry
          <5> QED BY <2>4, <5>1, <5>2 DEF LockCode
        <4> QED BY <1>s, <2>1, <4>1
      <3>3. Drops(sid)
        BY <1>a, <2>1, <3>1, <3>2 DEF Drops, Quiet
      <3> QED BY <3>3 DEF TableStep
    <2>5. CASE LockCode(iid) = "SUCCESS"
      <3>1. instances[iid].state = "Live"
        BY <2>3, <2>5, LockedIsLive
      <3>2. sessions[sid].state = "Ready"
        BY <1>s, <2>1, <3>1 DEF SessionTargets
      <3>3. CASE instances[iid].props.entries
        <4>1. /\ instances' = [instances EXCEPT ![iid].busy = TRUE]
              /\ call' = Run("close", iid, NoParams)
          BY <1>3, <2>2, <2>5, <3>3 DEF CloseTa
        <4>2. call'.at = "close" /\ call'.iid = iid
          BY <4>1 DEF Run
        <4>3. instances \in [InstanceId -> Instance] /\ sessions[sid].instance = iid
          BY DEF TypeInv, TypeOK
        <4> HIDE DEF iid
        <4>4. /\ OnlyInstance(iid) /\ SameTa(instances'[iid], instances[iid])
              /\ instances'[iid].session_count = instances[iid].session_count
          <5>1. instances'[iid].session_count = instances[iid].session_count
            BY <2>3, <4>1, <4>3, LockKeepsCount
          <5>2. OnlyInstance(iid) /\ SameTa(instances'[iid], instances[iid])
            BY <2>3, <4>1, <4>3, LockOutcome, Zenon DEF OnlyInstance
          <5> QED BY <5>1, <5>2
        <4>5. StartsClose(sid, iid)
          BY <1>a, <2>1, <3>2, <4>2, <4>3, <4>4 DEF StartsClose
        <4> QED BY <2>3, <4>5 DEF TableStep
      <3>4. CASE ~instances[iid].props.entries
        <4>1. ReleaseInstance(iid) /\ sessions[sid].instance = iid
          BY <1>3, <2>2, <2>5, <3>4 DEF CloseTa
        <4> HIDE DEF iid
        <4>2. OnlyInstance(iid) /\ Released(iid)
          BY <2>3, <4>1, ReleaseOutcome DEF OnlyInstance, TypeInv
        <4>3. Closes(sid, iid)
          BY <1>a, <2>1, <3>2, <4>1, <4>2 DEF Closes
        <4> QED BY <2>3, <4>3 DEF TableStep
      <3> QED BY <3>3, <3>4
    <2> QED BY <2>4, <2>5
  <1> QED BY <1>1, <1>2, <1>3

\* The steps that end a handler after an entry point.
LEMMA ReturnsSteps ==
    ASSUME TypeInv, LockHolders, EntryReturns
    PROVE  TableStep
  <1> USE KernelAssumption
  <1>t. instances \in [InstanceId -> Instance] /\ call.params \in ParamList /\ call.uuid \in Uuid
    BY DEF TypeInv, TypeOK, Call
  <1>r. ASSUME call.at \in TaEntry
        PROVE  /\ call.iid \in InstanceId
               /\ instances[call.iid].state = "Live" /\ instances[call.iid].busy
    BY <1>r DEF TypeInv, CallHasInstance, LockHolders, RunningInstanceIsLive, TaEntry
  <1>1. ASSUME NEW ok \in BOOLEAN, CreateReturns(ok)
        PROVE  TableStep
    <2>1. call.at = "create" /\ call.at \in TaEntry /\ next_iid' = next_iid
      BY <1>1 DEF CreateReturns, TaEntry
    <2>2. call.iid \in InstanceId /\ instances[call.iid].state = "Live" /\ next_sid <= IdMax
      BY <1>r, <2>1, IdRoom
    <2>3. CASE ok
      <3>1. BindSession(instances, call.iid, call.params)
        BY <1>1, <2>3 DEF CreateReturns
      <3>2. /\ OnlyInstance(call.iid)
            /\ SameTa(instances'[call.iid], instances[call.iid])
            /\ Bound(instances[call.iid].uuid, call.iid, instances[call.iid].session_count)
        BY <1>t, <1>r, <2>1, <3>1, BindOutcome DEF OnlyInstance
      <3>3. call'.at # "create"
        BY <2>2, <3>1, BindHasInstance
      <3>4. Binds(call.iid)
        BY <2>1, <2>2, <3>2, <3>3 DEF Binds
      <3> QED BY <2>2, <3>4 DEF TableStep
    <2>4. CASE ~ok
      <3>1. /\ instances' = [instances EXCEPT ![call.iid] = NoInstance]
            /\ call' = Idle /\ UNCHANGED <<sessions, next_sid>>
        BY <1>1, <2>4 DEF CreateReturns, Answer
      <3>2. OnlyInstance(call.iid) /\ instances'[call.iid] = NoInstance
        BY <1>t, <2>2, <3>1 DEF OnlyInstance
      <3>3. Removes(call.iid)
        BY <2>1, <3>1, <3>2 DEF Removes
      <3> QED BY <2>2, <3>3 DEF TableStep
    <2> QED BY <2>3, <2>4
  <1>2. ASSUME NEW ok \in BOOLEAN, OpenReturns(ok)
        PROVE  TableStep
    <2> DEFINE iid == call.iid
               tab == [instances EXCEPT ![iid] = UnmapParams(@, call.params)]
    <2>1. /\ call.at = "open" /\ call.at \in TaEntry
          /\ current_instance' = None /\ next_iid' = next_iid /\ call.iid = iid
      BY <1>2 DEF OpenReturns, TaEntry
    <2>2. iid \in InstanceId /\ instances[iid].state = "Live" /\ next_sid <= IdMax
      BY <1>r, <2>1, IdRoom
    <2>3. \/ AddSession(tab, iid)
          \/ instances' = Unlock(tab, iid) /\ call' = Idle /\ UNCHANGED <<sessions, next_sid>>
      BY <1>2 DEF OpenReturns, Answer
    <2> HIDE DEF iid
    <2>4. /\ tab \in [InstanceId -> Instance]
          /\ \A i \in InstanceId \ {iid} : tab[i] = instances[i]
          /\ SameTa(tab[iid], instances[iid])
          /\ tab[iid].session_count = instances[iid].session_count
      <3>1. tab[iid].session_count = instances[iid].session_count
        BY <1>t, <2>2, UnmapKeepsCount
      <3>2. /\ tab \in [InstanceId -> Instance]
            /\ \A i \in InstanceId \ {iid} : tab[i] = instances[i]
            /\ SameTa(tab[iid], instances[iid])
        BY <1>t, <2>2, UnmapOutcome, Zenon
      <3> HIDE DEF tab
      <3> QED BY <3>1, <3>2
    <2> HIDE DEF tab
    <2>5. /\ \A i \in InstanceId \ {iid} : instances'[i] = tab[i]
          /\ SameTa(instances'[iid], tab[iid])
          /\ Bound(tab[iid].uuid, iid, tab[iid].session_count)
      <3>1. CASE AddSession(tab, iid)
        BY <2>1, <2>2, <2>4, <3>1, AddSessionOutcome DEF Bound
      <3>2. CASE instances' = Unlock(tab, iid) /\ call' = Idle /\ UNCHANGED <<sessions, next_sid>>
        BY <2>1, <2>2, <2>4, <3>2, UnlockOutcome DEF Bound
      <3> QED BY <2>3, <3>1, <3>2
    <2>6. OnlyInstance(iid) /\ SameTa(instances'[iid], instances[iid])
      BY <2>4, <2>5 DEF OnlyInstance, SameTa
    <2>7. tab[iid].uuid = instances[iid].uuid /\ call'.at # "create"
      <3>1. call' = Idle
        BY <2>2, <2>3, <2>4, AddSessionOutcome
      <3> QED BY <2>4, <3>1 DEF SameTa, Idle
    <2>8. Binds(iid)
      BY <2>1, <2>2, <2>4, <2>5, <2>6, <2>7 DEF Binds
    <2> QED BY <2>2, <2>8 DEF TableStep
  <1>3. ASSUME NEW ok \in BOOLEAN, InvokeReturns(ok)
        PROVE  TableStep
    <2> DEFINE iid == call.iid
               tab == [instances EXCEPT ![iid] = UnmapParams(@, call.params)]
    <2>1. /\ call.at = "invoke" /\ call.at \in TaEntry
          /\ UNCHANGED <<sessions, next_sid, next_iid>>
          /\ instances' = Unlock(tab, iid) /\ call' = Idle
      BY <1>3 DEF InvokeReturns, TaEntry, Answer
    <2>2. iid \in InstanceId
      BY <1>r, <2>1
    <2> HIDE DEF iid
    <2>3. /\ tab \in [InstanceId -> Instance]
          /\ \A i \in InstanceId \ {iid} : tab[i] = instances[i]
          /\ SameTa(tab[iid], instances[iid])
          /\ tab[iid].session_count = instances[iid].session_count
      <3>1. tab[iid].session_count = instances[iid].session_count
        BY <1>t, <2>2, UnmapKeepsCount
      <3>2. /\ tab \in [InstanceId -> Instance]
            /\ \A i \in InstanceId \ {iid} : tab[i] = instances[i]
            /\ SameTa(tab[iid], instances[iid])
        BY <1>t, <2>2, UnmapOutcome, Zenon
      <3> HIDE DEF tab
      <3> QED BY <3>1, <3>2
    <2> HIDE DEF tab
    <2>4. /\ \A i \in InstanceId \ {iid} : instances'[i] = tab[i]
          /\ SameTa(instances'[iid], tab[iid])
          /\ instances'[iid].session_count = tab[iid].session_count
      BY <2>1, <2>2, <2>3, UnlockOutcome
    <2>5. OnlyInstance(iid) /\ SameTa(instances'[iid], instances[iid])
      BY <2>3, <2>4 DEF OnlyInstance, SameTa
    <2>6. instances'[iid].session_count = instances[iid].session_count
      BY <2>3, <2>4
    <2>7. call'.at = "idle"
      BY <2>1 DEF Idle
    <2>8. Touches(iid)
      BY <2>1, <2>5, <2>6, <2>7 DEF Touches
    <2> QED BY <2>2, <2>8 DEF TableStep
  <1>4. ASSUME NEW ok \in BOOLEAN, PtaOpenReturns(ok)
        PROVE  TableStep
    <2>1. call.at = "pta_open" /\ call.at \in Quiet /\ UNCHANGED <<instances, next_iid>>
      BY <1>4 DEF PtaOpenReturns, Quiet, PtaEntry
    <2>2. call' = Idle
      BY <1>4 DEF PtaOpenReturns, Answer
    <2>3. call'.at \in Quiet
      BY <2>2 DEF Idle, Quiet
    <2>4. next_sid <= IdMax
      BY <2>1, IdRoom
    <2>5. \/ UNCHANGED sessions /\ next_sid' \in {next_sid, next_sid + 1}
          \/ /\ next_sid' = next_sid + 1
             /\ sessions' = [sessions EXCEPT ![next_sid] =
                    [state |-> "Ready", kind |-> "Pta", uuid |-> call.uuid, instance |-> None]]
      BY <1>4 DEF PtaOpenReturns
    <2>6. Untouched \/ AddsPta
      BY <1>t, <2>1, <2>3, <2>4, <2>5 DEF Untouched, AddsPta
    <2> QED BY <2>6 DEF TableStep
  <1>5. ASSUME NEW ok \in BOOLEAN, PtaInvokeReturns(ok)
        PROVE  TableStep
    BY <1>5 DEF PtaInvokeReturns, Answer, Idle, tables, Quiet, PtaEntry, Untouched, TableStep
  <1>6. CASE CloseReturns
    <2>1. call.at = "close" /\ call.at \in TaEntry /\ UNCHANGED <<sessions, next_sid, next_iid>>
      BY <1>6 DEF CloseReturns, TaEntry
    <2>2. call.iid \in InstanceId /\ ReleaseInstance(call.iid)
      BY <1>6, <1>r, <2>1 DEF CloseReturns
    <2>3. OnlyInstance(call.iid) /\ Released(call.iid)
      BY <2>2, ReleaseOutcome DEF OnlyInstance, TypeInv
    <2>4. EndsClose(call.iid)
      BY <2>1, <2>3 DEF EndsClose
    <2> QED BY <2>2, <2>4 DEF TableStep
  <1>7. CASE DestroyReturns
    <2>1. /\ call.at = "destroy" /\ call.at \in TaEntry /\ call' = Idle
          /\ instances' = [instances EXCEPT ![call.iid] = NoInstance]
          /\ UNCHANGED <<sessions, next_sid, next_iid>>
      BY <1>7 DEF DestroyReturns, TaEntry, Answer
    <2>2. call.iid \in InstanceId
      BY <1>r, <2>1
    <2>3. OnlyInstance(call.iid) /\ instances'[call.iid] = NoInstance
      BY <1>t, <2>1, <2>2 DEF OnlyInstance
    <2>4. Removes(call.iid)
      BY <2>1, <2>3 DEF Removes
    <2> QED BY <2>2, <2>4 DEF TableStep
  <1>8. CASE PtaCloseReturns
    BY <1>8 DEF PtaCloseReturns, Answer, Idle, tables, Quiet, PtaEntry, Untouched, TableStep
  <1> QED BY <1>1, <1>2, <1>3, <1>4, <1>5, <1>6, <1>7, <1>8 DEF EntryReturns

\* The steps of a panic.
LEMMA PanicsSteps ==
    ASSUME TypeInv, LockHolders, Panics
    PROVE  TableStep
  <1>1. UNCHANGED <<next_sid, next_iid>>
    BY PanicOutcome
  <1>2. CASE UNCHANGED <<instances, sessions>> /\ call'.at = "spin" /\ call.at \in TaEntry
    BY <1>1, <1>2 DEF Untouched, TableStep
  <1>3. CASE UNCHANGED <<instances, sessions>> /\ call'.at = "halted" /\ call.at \in PtaEntry
    BY <1>1, <1>3 DEF Untouched, TableStep, Quiet
  <1>4. CASE UNCHANGED <<instances, sessions>> /\ call' = Idle /\ call.at \in PtaEntry
    BY <1>1, <1>4 DEF Untouched, TableStep, Quiet, Idle
  <1>5. CASE /\ call' = Idle /\ call.at \in TaEntry
             /\ instances' = [instances EXCEPT ![call.iid].state = "Dead",
                                               ![call.iid].aspace = FALSE,
                                               ![call.iid].mapped = 0]
             /\ sessions' = PoisonInstance(call.iid)
    <2>1. instances \in [InstanceId -> Instance] /\ call.iid \in InstanceId
      BY <1>5 DEF TypeInv, TypeOK, CallHasInstance
    <2>2. /\ instances'[call.iid] = [instances[call.iid] EXCEPT
                 !.state = "Dead", !.aspace = FALSE, !.mapped = 0]
          /\ \A j \in InstanceId \ {call.iid} : instances'[j] = instances[j]
      BY <1>5, <2>1, Zenon
    <2>3. instances'[call.iid].state = "Dead"
      BY <2>1, <2>2 DEF Instance
    <2>4. Dies(call.iid)
      BY <1>1, <1>5, <2>2, <2>3, Zenon DEF Dies, OnlyInstance
    <2> QED BY <2>1, <2>4 DEF TableStep
  <1> QED BY <1>2, <1>3, <1>4, <1>5, PanicOutcome

\* Every step of the kernel changes the tables in one of these ways.
LEMMA NextSteps ==
    ASSUME TypeInv, LockHolders, SessionTargets, WaitingForFirst, [Next]_vars
    PROVE  TableStep
  <1>1. CASE \/ Refuse \/ EmitReeNotices \/ (\E cid \in CancelIds : Cancel(cid))
             \/ LoopForever \/ UNCHANGED vars
    <2>1. UNCHANGED <<sessions, next_sid, instances, next_iid, call>>
      BY <1>1 DEF Refuse, EmitReeNotices, Cancel, LoopForever, vars, tables, rest
    <2> QED BY <2>1 DEF Untouched, TableStep
  <1> QED BY <1>1, OpenSteps, RpcSteps, InvokeSteps, CloseSteps, ReturnsSteps, PanicsSteps
          DEF Next
==============================================================================
