---------------------------- MODULE KernelLocks -----------------------------
(***************************************************************************)
(* Who holds the lock of an instance, for all constants: the steps of the  *)
(* handlers as changes of single instances, and LockHolders as an          *)
(* inductive invariant.                                                    *)
(***************************************************************************)
EXTENDS KernelTypes

\* Two states of an instance that differ in its lock, counter and mappings.
SameTa(a, b) == a.state = b.state /\ a.uuid = b.uuid /\ a.props = b.props

\* map_params and unmap_params keep the identity, the lock and the counter.
LEMMA MappingKeeps ==
    ASSUME NEW inst \in Instance, NEW p \in ParamList
    PROVE  /\ SameTa(MapParams(inst, p), inst)
           /\ MapParams(inst, p).busy = inst.busy
           /\ MapParams(inst, p).session_count = inst.session_count
           /\ SameTa(UnmapParams(inst, p), inst)
           /\ UnmapParams(inst, p).busy = inst.busy
           /\ UnmapParams(inst, p).session_count = inst.session_count
  <1>1. CASE ~inst.aspace
    BY <1>1 DEF SameTa, MapParams, UnmapParams, Instance
  <1>2. CASE inst.aspace /\ p.fail = "bad"
    BY <1>2 DEF SameTa, MapParams, UnmapParams, Instance
  <1>3. CASE inst.aspace /\ p.fail # "bad"
    BY <1>3 DEF SameTa, MapParams, UnmapParams, Instance
  <1> QED BY <1>1, <1>2, <1>3

\* unlock_instance and the counter.
LEMMA UnlockOutcome ==
    ASSUME NEW tab \in [InstanceId -> Instance], NEW iid \in InstanceId
    PROVE  /\ \A i \in InstanceId \ {iid} : Unlock(tab, iid)[i] = tab[i]
           /\ SameTa(Unlock(tab, iid)[iid], tab[iid])
           /\ ~Unlock(tab, iid)[iid].busy
           /\ Unlock(tab, iid)[iid].session_count = tab[iid].session_count
  BY DEF Unlock, SameTa, Instance

\* lock_instance.
LEMMA LockOutcome ==
    ASSUME NEW tab \in [InstanceId -> Instance], NEW iid \in InstanceId,
           NEW locked, locked = [tab EXCEPT ![iid].busy = TRUE]
    PROVE  /\ locked \in [InstanceId -> Instance]
           /\ \A i \in InstanceId \ {iid} : locked[i] = tab[i]
           /\ SameTa(locked[iid], tab[iid])
           /\ locked[iid].busy
           /\ locked[iid].session_count = tab[iid].session_count
  <1>1. locked \in [InstanceId -> Instance]
    BY TableTyped, Zenon
  <1>2. locked[iid] = [tab[iid] EXCEPT !.busy = TRUE]
    OBVIOUS
  <1> QED BY <1>1, <1>2 DEF SameTa, Instance

\* The new session of AddSession.
NewSession(u, iid) == [state |-> "Ready", kind |-> "UserTa", uuid |-> u, instance |-> iid]

\* What the end of bind_session does to the tables.
LEMMA AddSessionOutcome ==
    ASSUME NEW tab \in [InstanceId -> Instance], NEW iid \in InstanceId,
           AddSession(tab, iid)
    PROVE  /\ \A i \in InstanceId \ {iid} : instances'[i] = tab[i]
           /\ SameTa(instances'[iid], tab[iid])
           /\ ~instances'[iid].busy
           /\ call' = Idle
           /\ next_sid' = next_sid + 1
           /\ \/ /\ sessions' = [sessions EXCEPT ![next_sid] = NewSession(tab[iid].uuid, iid)]
                 /\ instances'[iid].session_count = tab[iid].session_count + 1
              \/ /\ sessions' = sessions
                 /\ instances'[iid].session_count = tab[iid].session_count
  <1> DEFINE tab2 == [tab EXCEPT ![iid].session_count = @ + 1]
  <1>1. /\ tab2 \in [InstanceId -> Instance]
        /\ \A i \in InstanceId \ {iid} : tab2[i] = tab[i]
        /\ SameTa(tab2[iid], tab[iid])
        /\ tab2[iid].session_count = tab[iid].session_count + 1
    <2>1. tab2 \in [InstanceId -> Instance]
      BY TableTyped, Zenon
    <2>2. tab2[iid] = [tab[iid] EXCEPT !.session_count = @ + 1]
      OBVIOUS
    <2> QED BY <2>1, <2>2 DEF SameTa, Instance
  <1>2. CASE Cardinality(UsedSessions) < MaxSessions
    <2>1. /\ instances' = Unlock(tab2, iid)
          /\ sessions' = [sessions EXCEPT ![next_sid] = NewSession(tab[iid].uuid, iid)]
          /\ call' = Idle /\ next_sid' = next_sid + 1
      BY <1>2 DEF AddSession, Answer, NewSession
    <2> HIDE DEF tab2
    <2> QED BY <1>1, <2>1, UnlockOutcome DEF SameTa
  <1>3. CASE ~(Cardinality(UsedSessions) < MaxSessions)
    <2>1. /\ instances' = Unlock(tab, iid) /\ sessions' = sessions
          /\ call' = Idle /\ next_sid' = next_sid + 1
      BY <1>3 DEF AddSession, Answer
    <2> QED BY <2>1, UnlockOutcome
  <1> QED BY <1>2, <1>3

\* The ways an open of a session of u on instance iid goes on: an entry point of
\* the instance runs, or the call is over and the instance unlocked, without a
\* new session or with one.  `count' is the number of sessions before.
Bound(u, iid, count) ==
    \/ /\ call'.at \in {"create", "open"} /\ call'.iid = iid /\ current_instance' = iid
       /\ instances'[iid].busy /\ instances'[iid].session_count = count
       /\ sessions' = sessions /\ next_sid' = next_sid
    \/ /\ call' = Idle /\ current_instance' = None
       /\ ~instances'[iid].busy /\ instances'[iid].session_count = count
       /\ sessions' = sessions /\ next_sid' \in {next_sid, next_sid + 1}
    \/ /\ call' = Idle /\ current_instance' = None
       /\ ~instances'[iid].busy /\ instances'[iid].session_count = count + 1
       /\ sessions' = [sessions EXCEPT ![next_sid] = NewSession(u, iid)]
       /\ next_sid' = next_sid + 1

\* What bind_session does up to the entry point or its end.
LEMMA BindOutcome ==
    ASSUME NEW tab \in [InstanceId -> Instance], NEW iid \in InstanceId,
           NEW p \in ParamList, tab[iid].busy, BindSession(tab, iid, p)
    PROVE  /\ \A i \in InstanceId \ {iid} : instances'[i] = tab[i]
           /\ SameTa(instances'[iid], tab[iid])
           /\ Bound(tab[iid].uuid, iid, tab[iid].session_count)
  <1> DEFINE inst == MapParams(tab[iid], p)
             tab2 == [tab EXCEPT ![iid] = inst]
  <1>1. /\ inst \in Instance /\ SameTa(inst, tab[iid]) /\ inst.busy = tab[iid].busy
        /\ inst.session_count = tab[iid].session_count
    BY MappingTyped, MappingKeeps, Zenon
  <1>2. /\ tab2 \in [InstanceId -> Instance] /\ tab2[iid] = inst
        /\ \A i \in InstanceId \ {iid} : tab2[i] = tab[i]
    BY <1>1
  <1>3. CASE ~tab[iid].props.entries
    <2>1. AddSession(tab, iid) /\ current_instance' = None
      BY <1>3 DEF BindSession
    <2> QED BY <2>1, AddSessionOutcome DEF Bound
  <1>4. CASE tab[iid].props.entries /\ MapCode(tab[iid], p) = "SUCCESS"
    <2>1. /\ instances' = tab2 /\ current_instance' = iid /\ call' = Run("open", iid, p)
          /\ sessions' = sessions /\ next_sid' = next_sid
      BY <1>4 DEF BindSession
    <2>2. call'.at = "open" /\ call'.iid = iid
      BY <2>1 DEF Run
    <2> HIDE DEF tab2, inst
    <2> QED BY <1>1, <1>2, <2>1, <2>2, Zenon DEF Bound
  <1>5. CASE tab[iid].props.entries /\ MapCode(tab[iid], p) # "SUCCESS"
    <2>1. /\ instances' = Unlock(tab2, iid) /\ current_instance' = None /\ call' = Idle
          /\ sessions' = sessions /\ next_sid' = next_sid
      BY <1>5 DEF BindSession, Answer
    <2> HIDE DEF tab2, inst
    <2> QED BY <1>1, <1>2, <2>1, UnlockOutcome DEF SameTa, Bound
  <1> QED BY <1>3, <1>4, <1>5

\* What instantiate_and_bind does: nothing but to spend an id, or a new Live
\* instance whose create runs, or that goes through bind_session.
LEMMA InstantiateOutcome ==
    ASSUME TypeOK, next_iid <= IdMax,
           NEW img \in Image, NEW u \in Uuid, NEW p \in ParamList,
           InstantiateAndBind(img, u, p)
    PROVE  /\ next_iid' \in {next_iid, next_iid + 1}
           /\ \/ /\ UNCHANGED <<sessions, next_sid, instances, current_instance>>
                 /\ call' = Idle
              \/ /\ next_iid' = next_iid + 1
                 /\ \A i \in InstanceId \ {next_iid} : instances'[i] = instances[i]
                 /\ SameTa(instances'[next_iid], NewInstance(img, u))
                 /\ Bound(u, next_iid, 0)
  <1> DEFINE tab == [instances EXCEPT ![next_iid] = NewInstance(img, u)]
  <1>1. next_iid \in InstanceId
    BY KernelAssumption DEF TypeOK, InstanceId
  <1>2. /\ NewInstance(img, u) \in Instance /\ NewInstance(img, u).busy
        /\ NewInstance(img, u).session_count = 0 /\ NewInstance(img, u).uuid = u
    BY DEF NewInstance, Instance
  <1>3. /\ tab \in [InstanceId -> Instance] /\ tab[next_iid] = NewInstance(img, u)
        /\ \A i \in InstanceId \ {next_iid} : tab[i] = instances[i]
    BY <1>1, <1>2 DEF TypeOK
  <1>4. CASE img.uuid # u \/ Cardinality(UsedInstances) >= MaxInstances
    BY <1>4 DEF InstantiateAndBind, Answer, tables
  <1>5. CASE img.uuid = u /\ ~(Cardinality(UsedInstances) >= MaxInstances) /\ img.entries
    <2>1. /\ instances' = tab /\ current_instance' = next_iid
          /\ call' = Run("create", next_iid, p) /\ next_iid' = next_iid + 1
          /\ sessions' = sessions /\ next_sid' = next_sid
      BY <1>5 DEF InstantiateAndBind
    <2>2. call'.at = "create" /\ call'.iid = next_iid
      BY <2>1 DEF Run
    <2> HIDE DEF tab
    <2> QED BY <1>2, <1>3, <2>1, <2>2 DEF SameTa, Bound
  <1>6. CASE img.uuid = u /\ ~(Cardinality(UsedInstances) >= MaxInstances) /\ ~img.entries
    <2>1. next_iid' = next_iid + 1 /\ BindSession(tab, next_iid, p)
      BY <1>6 DEF InstantiateAndBind
    <2> HIDE DEF tab
    <2>2. /\ \A i \in InstanceId \ {next_iid} : instances'[i] = tab[i]
          /\ SameTa(instances'[next_iid], tab[next_iid])
          /\ Bound(tab[next_iid].uuid, next_iid, tab[next_iid].session_count)
      BY <1>1, <1>2, <1>3, <2>1, BindOutcome
    <2> QED BY <1>2, <1>3, <2>1, <2>2
  <1> QED BY <1>4, <1>5, <1>6

\* What the end of close does: destroy runs, the instance is gone, or it lost
\* one session and is unlocked.
Released(iid) ==
    LET old == instances[iid]
        new == instances'[iid]
    IN  \/ /\ call'.at = "destroy" /\ call'.iid = iid /\ current_instance' = iid
           /\ SameTa(new, old) /\ new.busy
           /\ old.session_count <= 1 /\ new.session_count = 0
        \/ /\ call' = Idle /\ current_instance' = None
           /\ old.session_count <= 1 /\ new = NoInstance
        \/ /\ call' = Idle /\ current_instance' = None
           /\ SameTa(new, old) /\ ~new.busy
           /\ new.session_count = IF old.session_count > 0 THEN old.session_count - 1 ELSE 0

\* release_instance counts the session down and either keeps the instance,
\* unlocked, or drops it or goes on to TA_DestroyEntryPoint with the lock held.
LEMMA ReleaseOutcome ==
    ASSUME TypeOK, NEW iid \in InstanceId, ReleaseInstance(iid)
    PROVE  /\ \A i \in InstanceId \ {iid} : instances'[i] = instances[i]
           /\ Released(iid)
  <1> DEFINE inst == instances[iid]
             count == IF inst.session_count > 0 THEN inst.session_count - 1 ELSE 0
             tab == [instances EXCEPT ![iid].session_count = count]
  <1>1. inst \in Instance /\ inst.session_count \in Nat /\ count \in Nat
    BY DEF TypeOK, Instance
  <1>2. CASE count = 0 /\ ~inst.props.instance_keep_alive /\ inst.props.entries
    <2>1. /\ instances' = [instances EXCEPT ![iid].session_count = 0, ![iid].busy = TRUE]
          /\ current_instance' = iid /\ call' = Run("destroy", iid, NoParams)
      BY <1>2 DEF ReleaseInstance
    <2>2. call'.at = "destroy" /\ call'.iid = iid
      BY <2>1 DEF Run
    <2>3. /\ instances'[iid] = [inst EXCEPT !.session_count = 0, !.busy = TRUE]
          /\ \A i \in InstanceId \ {iid} : instances'[i] = instances[i]
      BY <2>1 DEF TypeOK
    <2>4. /\ SameTa(instances'[iid], inst) /\ instances'[iid].busy
          /\ instances'[iid].session_count = 0
      BY <1>1, <2>3 DEF SameTa, Instance
    <2>5. instances[iid].session_count <= 1
      BY <1>1, <1>2
    <2>6. current_instance' = iid
      BY <2>1
    <2> QED BY <2>2, <2>3, <2>4, <2>5, <2>6 DEF Released
  <1>3. CASE count = 0 /\ ~inst.props.instance_keep_alive /\ ~inst.props.entries
    BY <1>1, <1>3 DEF ReleaseInstance, Answer, Released, TypeOK
  <1>4. CASE ~(count = 0 /\ ~inst.props.instance_keep_alive)
    <2>1. instances' = Unlock(tab, iid) /\ current_instance' = None /\ call' = Idle
      BY <1>4 DEF ReleaseInstance, Answer
    <2>2. tab[iid] = [inst EXCEPT !.session_count = count]
      BY DEF TypeOK
    <2>3. /\ tab \in [InstanceId -> Instance] /\ SameTa(tab[iid], inst)
          /\ tab[iid].session_count = count
          /\ \A i \in InstanceId \ {iid} : tab[i] = instances[i]
      <3>1. [inst EXCEPT !.session_count = count] \in Instance
        BY <1>1 DEF Instance
      <3> QED BY <1>1, <2>2, <3>1 DEF TypeOK, SameTa, Instance
    <2>4. /\ \A i \in InstanceId \ {iid} : instances'[i] = instances[i]
          /\ SameTa(instances'[iid], inst) /\ ~instances'[iid].busy
          /\ instances'[iid].session_count = count
      <3> HIDE DEF tab, count, inst
      <3> QED BY <2>1, <2>3, UnlockOutcome DEF SameTa
    <2> QED BY <2>1, <2>4, Zenon DEF Released
  <1> QED BY <1>2, <1>3, <1>4

-----------------------------------------------------------------------------

\* A step of a handler on one instance keeps LockHolders: it leaves the call over
\* and the instance unlocked or gone, or an entry point of it running.
LEMMA LockStep ==
    ASSUME TypeInv, TypeInv', LockHolders, NEW iid \in InstanceId,
           call.at \in {"idle"} \cup TaEntry, call.at \in TaEntry => call.iid = iid,
           \A i \in InstanceId \ {iid} : instances'[i] = instances[i],
           UNCHANGED current_pta,
           instances'[iid].state = "Dead" => instances'[iid].busy,
           \/ /\ call'.at = "idle" /\ current_instance' = None
              /\ ~(instances'[iid].state = "Live" /\ instances'[iid].busy)
           \/ /\ call'.at \in TaEntry /\ call'.iid = iid /\ current_instance' = iid
              /\ instances'[iid].state = "Live" /\ instances'[iid].busy
    PROVE  LockHolders'
  <1>1. ~current_pta /\ call.at # "spin" /\ iid # None
    BY KernelAssumption DEF LockHolders, TaEntry, InstanceId, None
  <1>2. \A i \in InstanceId \ {iid} :
            /\ instances'[i].state = "Dead" => instances'[i].busy
            /\ ~(instances'[i].state = "Live" /\ instances'[i].busy)
    BY <1>1 DEF LockHolders
  <1>3. CASE call'.at = "idle"
    BY <1>1, <1>2, <1>3 DEF LockHolders, TaEntry, PtaEntry
  <1>4. CASE call'.at \in TaEntry
    <2>1. RunningInstanceIsLive'
      BY <1>1, <1>4 DEF RunningInstanceIsLive, TaEntry
    <2> QED BY <1>1, <1>2, <1>4, <2>1 DEF LockHolders, TaEntry, PtaEntry
  <1> QED BY <1>3, <1>4 DEF TaEntry

\* A step that touches no instance and runs no TA code keeps LockHolders.
LEMMA LockFrame ==
    ASSUME LockHolders, UNCHANGED <<instances, current_instance>>,
           call.at \in {"idle"} \cup PtaEntry,
           call'.at \in {"idle"} \cup PtaEntry,
           current_pta' <=> call'.at = "pta_invoke"
    PROVE  LockHolders'
  BY DEF LockHolders, RunningInstanceIsLive, TaEntry, PtaEntry

\* instantiate_and_bind keeps LockHolders.
LEMMA InstantiateKeepsLocks ==
    ASSUME TypeInv, TypeInv', LockHolders, call.at = "idle", next_iid <= IdMax,
           NEW img \in Image, NEW u \in Uuid, NEW p \in ParamList,
           InstantiateAndBind(img, u, p), UNCHANGED current_pta
    PROVE  LockHolders'
  <1>1. next_iid \in InstanceId /\ TypeOK
    BY KernelAssumption DEF TypeInv, TypeOK, InstanceId
  <1>2. NewInstance(img, u).state = "Live" /\ Idle.at = "idle"
    BY DEF NewInstance, Idle
  <1>3. \/ UNCHANGED <<instances, current_instance>> /\ call' = Idle
        \/ /\ \A i \in InstanceId \ {next_iid} : instances'[i] = instances[i]
           /\ SameTa(instances'[next_iid], NewInstance(img, u))
           /\ Bound(u, next_iid, 0)
    BY <1>1, InstantiateOutcome
  <1>4. CASE UNCHANGED <<instances, current_instance>> /\ call' = Idle
    BY <1>2, <1>4, LockFrame DEF LockHolders
  <1>5. CASE /\ \A i \in InstanceId \ {next_iid} : instances'[i] = instances[i]
             /\ SameTa(instances'[next_iid], NewInstance(img, u))
             /\ Bound(u, next_iid, 0)
    BY <1>1, <1>2, <1>5, LockStep DEF SameTa, Bound, TaEntry
  <1> QED BY <1>3, <1>4, <1>5

\* OpenSession keeps LockHolders.
LEMMA OpenLocks ==
    ASSUME TypeInv, TypeInv', LockHolders, OpenSession
    PROVE  LockHolders'
  <1> USE KernelAssumption
  <1> PICK u \in Uuid, cid \in CancelIds, p \in Params :
          \/ OpenCancelled(cid) \/ OpenPta(u, cid) \/ OpenLive(u, cid, p)
          \/ OpenEarly(u, cid, p) \/ OpenLoad(u, cid, p)
    BY DEF OpenSession
  <1>p. p \in ParamList
    OBVIOUS
  <1>a. call.at = "idle" /\ ~current_pta /\ UNCHANGED current_pta
    BY DEF OpenCancelled, OpenPta, OpenLive, OpenEarly, OpenLoad, Ready, rest, LockHolders
  <1>1. CASE OpenCancelled(cid)
    BY <1>1, <1>a, LockFrame DEF OpenCancelled, Answer, Idle, tables
  <1>2. CASE OpenPta(u, cid)
    BY <1>2, <1>a, LockFrame DEF OpenPta, RunPta, tables, PtaEntry
  <1>3. CASE OpenLive(u, cid, p)
    <2> PICK i \in LiveSingles(u) :
            LET code == IF SessionLimit(i) THEN "BUSY" ELSE LockCode(i)
            IN  IF code = "SUCCESS"
                THEN BindSession([instances EXCEPT ![i].busy = TRUE], i, p)
                ELSE /\ Answer(code)
                     /\ UNCHANGED <<sessions, next_sid, instances, current_instance>>
      BY <1>3, Zenon DEF OpenLive
    <2> DEFINE tab == [instances EXCEPT ![i].busy = TRUE]
    <2>1. i \in InstanceId /\ instances[i].state = "Live"
      BY DEF LiveSingles
    <2>2. CASE BindSession(tab, i, p)
      <3>1. /\ tab \in [InstanceId -> Instance] /\ tab[i].busy /\ SameTa(tab[i], instances[i])
            /\ \A j \in InstanceId \ {i} : tab[j] = instances[j]
        <4>1. instances \in [InstanceId -> Instance]
          BY DEF TypeInv, TypeOK
        <4> QED BY <2>1, <4>1, LockOutcome, Zenon
      <3> HIDE DEF tab
      <3>2. /\ \A j \in InstanceId \ {i} : instances'[j] = tab[j]
            /\ SameTa(instances'[i], tab[i])
            /\ Bound(tab[i].uuid, i, tab[i].session_count)
        BY <1>p, <2>1, <2>2, <3>1, BindOutcome
      <3> QED BY <1>a, <2>1, <3>1, <3>2, LockStep DEF SameTa, Bound, TaEntry, Idle
    <2>3. CASE ~BindSession(tab, i, p)
      <3>1. UNCHANGED <<instances, current_instance>> /\ call'.at = "idle"
        BY <2>3 DEF Answer, Idle
      <3> QED BY <1>a, <3>1, LockFrame
    <2> QED BY <2>2, <2>3
  <1>4. CASE OpenEarly(u, cid, p)
    <2>1. InstantiateAndBind(Early[u], u, p) /\ Early[u] \in Image /\ IdsLeft
      BY <1>4 DEF OpenEarly
    <2>2. next_iid <= IdMax
      BY <2>1, IdRoom
    <2> QED BY <1>p, <1>a, <2>1, <2>2, InstantiateKeepsLocks
  <1>5. CASE OpenLoad(u, cid, p)
    BY <1>5, <1>a, LockFrame DEF OpenLoad, tables
  <1> QED BY <1>1, <1>2, <1>3, <1>4, <1>5

\* RpcComplete keeps LockHolders.
LEMMA RpcLocks ==
    ASSUME TypeInv, TypeInv', LockHolders, RpcComplete
    PROVE  LockHolders'
  <1> USE KernelAssumption
  <1>1. CASE RpcSpurious
    BY <1>1, LockFrame DEF RpcSpurious, Ready, Answer, Idle, tables, rest, LockHolders
  <1>2. ASSUME NEW code \in {"RPC_ERROR", "NOT_SUPPORTED", "LOAD_ERROR"}, RpcFails(code)
        PROVE  LockHolders'
    BY <1>2, LockFrame DEF RpcFails, Ready, Answer, Idle, tables, LockHolders
  <1>3. ASSUME NEW img \in Images, RpcImage(img)
        PROVE  LockHolders'
    <2>1. call.at = "idle" /\ yielding.active /\ UNCHANGED current_pta /\ ~current_pta
      BY <1>3 DEF RpcImage, Ready, LockHolders
    <2>2. CASE LoadCancelled
      BY <1>3, <2>1, <2>2, LockFrame DEF RpcImage, Answer, Idle, tables
    <2>3. CASE ~LoadCancelled
      <3>1. /\ InstantiateAndBind(img, yielding.uuid, yielding.params)
            /\ img \in Image /\ yielding.uuid \in Uuid /\ yielding.params \in ParamList
        BY <1>3, <2>3 DEF RpcImage, TypeInv, TypeOK, Load
      <3> QED BY <2>1, <3>1, IdRoom, InstantiateKeepsLocks
    <2> QED BY <2>2, <2>3
  <1> QED BY <1>1, <1>2, <1>3 DEF RpcComplete

\* lock_instance succeeds only on a Live instance.
LEMMA LockedIsLive ==
    ASSUME TypeInv, LockHolders, NEW iid \in InstanceId, LockCode(iid) = "SUCCESS"
    PROVE  instances[iid].state = "Live" /\ ~instances[iid].busy
  BY DEF LockCode, LockHolders, TypeInv, TypeOK, Instance

\* What the call of a TA in invoke does to its instance: the entry point runs, or
\* the call is over and the instance unlocked.
LEMMA InvokeOutcome ==
    ASSUME TypeInv, LockHolders, NEW sid \in SessionId, NEW cid, NEW p \in ParamList,
           InvokeTa(sid, cid, p)
    PROVE  LET iid == sessions[sid].instance
           IN  /\ iid \in InstanceId /\ instances[iid].state = "Live"
               /\ \A i \in InstanceId \ {iid} : instances'[i] = instances[i]
               /\ SameTa(instances'[iid], instances[iid])
               /\ instances'[iid].session_count = instances[iid].session_count
               /\ \/ /\ call'.at = "invoke" /\ call'.iid = iid /\ current_instance' = iid
                     /\ instances'[iid].busy
                  \/ /\ call' = Idle /\ current_instance' = None
                     /\ ~instances'[iid].busy
  <1> DEFINE iid == sessions[sid].instance
             inst == MapParams(instances[iid], p)
             code == MapCode(instances[iid], p)
             done == IF code = "SUCCESS" THEN UnmapParams(inst, p) ELSE inst
  <1>1. iid \in InstanceId /\ LockCode(iid) = "SUCCESS"
    <2>1. iid \in InstanceId \cup {None}
      BY DEF TypeInv, TypeOK, Session
    <2>2. iid # None /\ LockCode(iid) = "SUCCESS"
      BY DEF InvokeTa, InvokeCode
    <2> QED BY <2>1, <2>2
  <1> HIDE DEF iid
  <1>2. instances[iid].state = "Live" /\ ~instances[iid].busy
    BY <1>1, LockedIsLive
  <1>3. /\ instances \in [InstanceId -> Instance] /\ instances[iid] \in Instance
        /\ inst \in Instance /\ SameTa(inst, instances[iid]) /\ ~inst.busy
        /\ inst.session_count = instances[iid].session_count
    <2>1. instances \in [InstanceId -> Instance]
      BY DEF TypeInv, TypeOK
    <2>2. instances[iid] \in Instance
      BY <1>1, <2>1
    <2> QED BY <1>2, <2>1, <2>2, MappingTyped, MappingKeeps
  <1> HIDE DEF inst
  <1>4. /\ done \in Instance /\ SameTa(done, instances[iid]) /\ ~done.busy
        /\ done.session_count = instances[iid].session_count
    BY <1>3, MappingTyped, MappingKeeps DEF SameTa
  <1> HIDE DEF done
  <1>5. CASE code = "SUCCESS" /\ instances[iid].props.entries
    <2>1. /\ instances' = [instances EXCEPT ![iid] = [inst EXCEPT !.busy = TRUE]]
          /\ current_instance' = iid /\ call' = Run("invoke", iid, p)
      BY <1>5 DEF InvokeTa, iid, inst
    <2>2. call'.at = "invoke" /\ call'.iid = iid
      BY <2>1 DEF Run
    <2>3. instances'[iid] = [inst EXCEPT !.busy = TRUE]
      BY <1>1, <1>3, <2>1
    <2>4. /\ SameTa(instances'[iid], instances[iid]) /\ instances'[iid].busy
          /\ instances'[iid].session_count = instances[iid].session_count
      BY <1>3, <2>3 DEF SameTa, Instance
    <2>5. \A i \in InstanceId \ {iid} : instances'[i] = instances[i]
      BY <1>3, <2>1
    <2> QED BY <1>1, <1>2, <2>1, <2>2, <2>4, <2>5 DEF iid
  <1>6. CASE ~(code = "SUCCESS" /\ instances[iid].props.entries)
    <2>1. /\ instances' = [instances EXCEPT ![iid] = done]
          /\ current_instance' = None /\ call' = Idle
      BY <1>6 DEF InvokeTa, iid, inst, done, Answer
    <2>2. instances'[iid] = done /\ \A i \in InstanceId \ {iid} : instances'[i] = instances[i]
      BY <1>1, <1>3, <2>1
    <2> QED BY <1>1, <1>2, <1>4, <2>1, <2>2 DEF iid
  <1> QED BY <1>5, <1>6

\* Invoke keeps LockHolders.
LEMMA InvokeLocks ==
    ASSUME TypeInv, TypeInv', LockHolders, Invoke
    PROVE  LockHolders'
  <1> USE KernelAssumption
  <1> PICK sid \in SessionId, cid \in CancelIds, p \in Params :
          InvokeRefused(sid, cid) \/ InvokePta(sid, cid) \/ InvokeTa(sid, cid, p)
    BY DEF Invoke
  <1>p. p \in ParamList
    OBVIOUS
  <1>a. call.at = "idle" /\ ~current_pta
    BY DEF InvokeRefused, InvokePta, InvokeTa, Ready, LockHolders
  <1>1. CASE InvokeRefused(sid, cid)
    BY <1>1, <1>a, LockFrame DEF InvokeRefused, Answer, Idle, tables, rest
  <1>2. CASE InvokePta(sid, cid)
    <2>1. /\ call'.at = "pta_invoke" /\ current_pta'
          /\ UNCHANGED <<instances, current_instance>>
      BY <1>2 DEF InvokePta, RunPta, tables
    <2> QED BY <1>a, <2>1, LockFrame DEF PtaEntry
  <1>3. CASE InvokeTa(sid, cid, p)
    <2> DEFINE iid == sessions[sid].instance
    <2>1. /\ iid \in InstanceId /\ instances[iid].state = "Live"
          /\ \A i \in InstanceId \ {iid} : instances'[i] = instances[i]
          /\ SameTa(instances'[iid], instances[iid])
          /\ \/ /\ call'.at = "invoke" /\ call'.iid = iid /\ current_instance' = iid
                /\ instances'[iid].busy
             \/ /\ call' = Idle /\ current_instance' = None
                /\ ~instances'[iid].busy
      BY <1>p, <1>3, InvokeOutcome
    <2>2. UNCHANGED current_pta
      BY <1>3 DEF InvokeTa, rest
    <2> HIDE DEF iid
    <2>3. iid \in InstanceId /\ instances'[iid].state = "Live"
      BY <2>1 DEF SameTa
    <2>4. \/ /\ call'.at = "idle" /\ current_instance' = None /\ ~instances'[iid].busy
          \/ /\ call'.at \in TaEntry /\ call'.iid = iid /\ current_instance' = iid
             /\ instances'[iid].busy
      <3>1. CASE /\ call'.at = "invoke" /\ call'.iid = iid /\ current_instance' = iid
                 /\ instances'[iid].busy
        BY <3>1 DEF TaEntry
      <3>2. CASE call' = Idle /\ current_instance' = None /\ ~instances'[iid].busy
        BY <3>2 DEF Idle
      <3> QED BY <2>1, <3>1, <3>2
    <2>5. call.at \in {"idle"} \cup TaEntry /\ call.at \notin TaEntry
      BY <1>a DEF TaEntry
    <2>6. \A i \in InstanceId \ {iid} : instances'[i] = instances[i]
      BY <2>1
    <2> QED BY <2>2, <2>3, <2>4, <2>5, <2>6, LockStep
  <1> QED BY <1>1, <1>2, <1>3

\* The end of close keeps LockHolders.
LEMMA ReleaseKeepsLocks ==
    ASSUME TypeInv, TypeInv', LockHolders, NEW iid \in InstanceId, ReleaseInstance(iid),
           call.at \in {"idle"} \cup TaEntry, call.at \in TaEntry => call.iid = iid,
           instances[iid].state = "Live", UNCHANGED current_pta
    PROVE  LockHolders'
  <1>1. (\A i \in InstanceId \ {iid} : instances'[i] = instances[i]) /\ Released(iid)
    BY ReleaseOutcome DEF TypeInv
  <1>2. NoInstance.state = "Free" /\ Idle.at = "idle"
    BY DEF NoInstance, Idle
  <1> QED BY <1>1, <1>2, LockStep DEF Released, SameTa, TaEntry

\* CloseSession keeps LockHolders.
LEMMA CloseLocks ==
    ASSUME TypeInv, TypeInv', LockHolders, CloseSession
    PROVE  LockHolders'
  <1> USE KernelAssumption
  <1> PICK sid \in SessionId : CloseUnknown(sid) \/ ClosePta(sid) \/ CloseTa(sid)
    BY DEF CloseSession
  <1>a. call.at = "idle" /\ ~current_pta /\ UNCHANGED current_pta
    BY DEF CloseUnknown, ClosePta, CloseTa, Ready, rest, LockHolders
  <1>1. CASE CloseUnknown(sid)
    BY <1>1, <1>a, LockFrame DEF CloseUnknown, Answer, Idle, tables
  <1>2. CASE ClosePta(sid)
    <2>1. /\ UNCHANGED <<instances, current_instance, current_pta>>
          /\ call' = RunPta("pta_close", sessions[sid].uuid) \/ call' = Idle
      BY <1>2 DEF ClosePta, Answer, rest
    <2>2. call'.at \in {"idle", "pta_close"}
      BY <2>1 DEF RunPta, Idle
    <2> QED BY <1>a, <2>1, <2>2, LockFrame DEF PtaEntry
  <1>3. CASE CloseTa(sid)
    <2> DEFINE iid == sessions[sid].instance
    <2>1. iid \in InstanceId \cup {None}
      BY DEF TypeInv, TypeOK, Session
    <2>2. CASE iid = None \/ (iid # None /\ LockCode(iid) # "SUCCESS")
      BY <1>3, <1>a, <2>2, LockFrame DEF CloseTa, Answer, Idle
    <2>3. CASE iid # None /\ LockCode(iid) = "SUCCESS"
      <3>1. iid \in InstanceId
        BY <2>1, <2>3
      <3>2. instances[iid].state = "Live" /\ ~instances[iid].busy
        BY <2>3, <3>1, LockedIsLive
      <3>3. CASE instances[iid].props.entries
        <4>1. /\ instances' = [instances EXCEPT ![iid].busy = TRUE]
              /\ current_instance' = iid /\ call' = Run("close", iid, NoParams)
          BY <1>3, <2>3, <3>3 DEF CloseTa
        <4>2. call'.at = "close" /\ call'.iid = iid
          BY <4>1 DEF Run
        <4>3. instances \in [InstanceId -> Instance]
          BY DEF TypeInv, TypeOK
        <4> HIDE DEF iid
        <4>4. /\ \A i \in InstanceId \ {iid} : instances'[i] = instances[i]
              /\ SameTa(instances'[iid], instances[iid]) /\ instances'[iid].busy
          BY <3>1, <4>1, <4>3, LockOutcome, Zenon
        <4> QED BY <1>a, <3>1, <3>2, <4>1, <4>2, <4>4, LockStep DEF SameTa, TaEntry
      <3>4. CASE ~instances[iid].props.entries
        <4>1. ReleaseInstance(iid)
          BY <1>3, <2>3, <3>4 DEF CloseTa
        <4> HIDE DEF iid
        <4> QED BY <1>a, <3>1, <3>2, <4>1, ReleaseKeepsLocks DEF TaEntry
      <3> QED BY <3>3, <3>4
    <2> QED BY <2>2, <2>3
  <1> QED BY <1>1, <1>2, <1>3

\* The unlock after an entry point that had parameters.
LEMMA UnmapOutcome ==
    ASSUME NEW tab \in [InstanceId -> Instance], NEW iid \in InstanceId, NEW p \in ParamList,
           NEW unmapped, unmapped = [tab EXCEPT ![iid] = UnmapParams(@, p)]
    PROVE  /\ unmapped \in [InstanceId -> Instance]
           /\ \A i \in InstanceId \ {iid} : unmapped[i] = tab[i]
           /\ SameTa(unmapped[iid], tab[iid])
           /\ unmapped[iid].busy = tab[iid].busy
           /\ unmapped[iid].session_count = tab[iid].session_count
  <1>1. tab[iid] \in Instance /\ unmapped[iid] = UnmapParams(tab[iid], p)
    OBVIOUS
  <1>2. unmapped \in [InstanceId -> Instance]
    BY <1>1, MappingTyped
  <1> QED BY <1>1, <1>2, MappingKeeps

\* The remainders of the handlers keep LockHolders.
LEMMA ReturnsLocks ==
    ASSUME TypeInv, TypeInv', LockHolders, EntryReturns
    PROVE  LockHolders'
  <1> USE KernelAssumption
  <1>t. instances \in [InstanceId -> Instance] /\ call.params \in ParamList
    BY DEF TypeInv, TypeOK, Call
  <1>r. ASSUME call.at \in TaEntry
        PROVE  /\ call.iid \in InstanceId /\ ~current_pta
               /\ instances[call.iid].state = "Live" /\ instances[call.iid].busy
    BY <1>r DEF TypeInv, CallHasInstance, LockHolders, RunningInstanceIsLive, TaEntry
  <1>1. ASSUME NEW ok \in BOOLEAN, CreateReturns(ok)
        PROVE  LockHolders'
    <2>1. call.at = "create" /\ call.at \in TaEntry /\ UNCHANGED current_pta
      BY <1>1 DEF CreateReturns, rest, TaEntry
    <2>2. CASE ok
      <3>1. BindSession(instances, call.iid, call.params)
        BY <1>1, <2>2 DEF CreateReturns
      <3>2. /\ \A j \in InstanceId \ {call.iid} : instances'[j] = instances[j]
            /\ SameTa(instances'[call.iid], instances[call.iid])
            /\ Bound(instances[call.iid].uuid, call.iid, instances[call.iid].session_count)
        BY <1>t, <1>r, <2>1, <3>1, BindOutcome
      <3>3. instances'[call.iid].state = "Live" /\ call.iid \in InstanceId
        BY <1>r, <2>1, <3>2 DEF SameTa
      <3>4. \/ /\ call'.at = "idle" /\ current_instance' = None /\ ~instances'[call.iid].busy
            \/ /\ call'.at \in TaEntry /\ call'.iid = call.iid
               /\ current_instance' = call.iid /\ instances'[call.iid].busy
        <4>1. CASE call' = Idle
          BY <3>2, <4>1 DEF Bound, TaEntry, Idle
        <4>2. CASE call' # Idle
          BY <3>2, <4>2 DEF Bound, TaEntry
        <4> QED BY <4>1, <4>2
      <3> QED BY <2>1, <3>2, <3>3, <3>4, LockStep
    <2>3. CASE ~ok
      <3>1. /\ instances' = [instances EXCEPT ![call.iid] = NoInstance]
            /\ current_instance' = None /\ call'.at = "idle"
        BY <1>1, <2>3 DEF CreateReturns, Answer, Idle
      <3>2. /\ \A j \in InstanceId \ {call.iid} : instances'[j] = instances[j]
            /\ instances'[call.iid].state = "Free"
        BY <1>t, <1>r, <2>1, <3>1 DEF NoInstance
      <3> QED BY <1>r, <2>1, <3>1, <3>2, LockStep DEF TaEntry
    <2> QED BY <2>2, <2>3
  <1>2. ASSUME NEW ok \in BOOLEAN, OpenReturns(ok)
        PROVE  LockHolders'
    <2> DEFINE tab == [instances EXCEPT ![call.iid] = UnmapParams(@, call.params)]
    <2>1. /\ call.at = "open" /\ call.at \in TaEntry /\ UNCHANGED current_pta
          /\ current_instance' = None
      BY <1>2 DEF OpenReturns, rest, TaEntry
    <2>2. /\ tab \in [InstanceId -> Instance]
          /\ \A i \in InstanceId \ {call.iid} : tab[i] = instances[i]
          /\ SameTa(tab[call.iid], instances[call.iid])
      BY <1>t, <1>r, <2>1, UnmapOutcome, Zenon
    <2>3. AddSession(tab, call.iid) \/ (instances' = Unlock(tab, call.iid) /\ call' = Idle)
      BY <1>2 DEF OpenReturns, Answer
    <2> HIDE DEF tab
    <2>4. /\ \A i \in InstanceId \ {call.iid} : instances'[i] = instances[i]
          /\ SameTa(instances'[call.iid], instances[call.iid])
          /\ ~instances'[call.iid].busy /\ call' = Idle
      <3>1. /\ \A i \in InstanceId \ {call.iid} : instances'[i] = tab[i]
            /\ SameTa(instances'[call.iid], tab[call.iid])
            /\ ~instances'[call.iid].busy /\ call' = Idle
        <4>1. CASE AddSession(tab, call.iid)
          BY <1>r, <2>1, <2>2, <4>1, AddSessionOutcome
        <4>2. CASE instances' = Unlock(tab, call.iid) /\ call' = Idle
          <5>1. /\ \A i \in InstanceId \ {call.iid} : Unlock(tab, call.iid)[i] = tab[i]
                /\ SameTa(Unlock(tab, call.iid)[call.iid], tab[call.iid])
                /\ ~Unlock(tab, call.iid)[call.iid].busy
            BY <1>r, <2>1, <2>2, UnlockOutcome
          <5> QED BY <4>2, <5>1
        <4> QED BY <2>3, <4>1, <4>2
      <3>2. SameTa(instances'[call.iid], instances[call.iid])
        BY <2>2, <3>1 DEF SameTa
      <3> QED BY <2>2, <3>1, <3>2
    <2>5. call'.at = "idle" /\ call.iid \in InstanceId /\ instances'[call.iid].state = "Live"
      BY <1>r, <2>1, <2>4 DEF SameTa, Idle
    <2> QED BY <2>1, <2>4, <2>5, LockStep
  <1>3. ASSUME NEW ok \in BOOLEAN, InvokeReturns(ok)
        PROVE  LockHolders'
    <2> DEFINE tab == [instances EXCEPT ![call.iid] = UnmapParams(@, call.params)]
    <2>1. /\ call.at = "invoke" /\ call.at \in TaEntry /\ UNCHANGED current_pta
          /\ current_instance' = None /\ instances' = Unlock(tab, call.iid) /\ call' = Idle
      BY <1>3 DEF InvokeReturns, rest, TaEntry, Answer
    <2>2. /\ tab \in [InstanceId -> Instance]
          /\ \A i \in InstanceId \ {call.iid} : tab[i] = instances[i]
          /\ SameTa(tab[call.iid], instances[call.iid])
      BY <1>t, <1>r, <2>1, UnmapOutcome, Zenon
    <2> HIDE DEF tab
    <2>3. /\ \A i \in InstanceId \ {call.iid} : instances'[i] = instances[i]
          /\ SameTa(instances'[call.iid], instances[call.iid])
          /\ ~instances'[call.iid].busy
      <3>1. /\ \A i \in InstanceId \ {call.iid} : instances'[i] = tab[i]
            /\ SameTa(instances'[call.iid], tab[call.iid])
            /\ ~instances'[call.iid].busy
        <4>1. /\ \A i \in InstanceId \ {call.iid} : Unlock(tab, call.iid)[i] = tab[i]
              /\ SameTa(Unlock(tab, call.iid)[call.iid], tab[call.iid])
              /\ ~Unlock(tab, call.iid)[call.iid].busy
          BY <1>r, <2>1, <2>2, UnlockOutcome
        <4> QED BY <2>1, <4>1
      <3>2. SameTa(instances'[call.iid], instances[call.iid])
        BY <2>2, <3>1 DEF SameTa
      <3> QED BY <2>2, <3>1, <3>2
    <2>4. call'.at = "idle" /\ call.iid \in InstanceId /\ instances'[call.iid].state = "Live"
      BY <1>r, <2>1, <2>3 DEF SameTa, Idle
    <2> QED BY <2>1, <2>3, <2>4, LockStep
  <1>4. ASSUME NEW ok \in BOOLEAN, PtaOpenReturns(ok) \/ PtaInvokeReturns(ok)
        PROVE  LockHolders'
    <2>1. /\ UNCHANGED <<instances, current_instance>> /\ call.at \in PtaEntry
          /\ call'.at = "idle" /\ ~current_pta'
      <3>1. CASE PtaOpenReturns(ok)
        <4>1. /\ UNCHANGED <<instances, current_instance, current_pta>>
              /\ call.at = "pta_open" /\ call' = Idle
          BY <3>1 DEF PtaOpenReturns, Answer, rest
        <4> QED BY <4>1 DEF Idle, PtaEntry, LockHolders
      <3>2. CASE PtaInvokeReturns(ok)
        BY <3>2 DEF PtaInvokeReturns, Answer, Idle, tables, PtaEntry
      <3> QED BY <1>4, <3>1, <3>2
    <2> QED BY <2>1, LockFrame
  <1>5. CASE CloseReturns
    BY <1>5, <1>r, ReleaseKeepsLocks DEF CloseReturns, rest, TaEntry
  <1>6. CASE DestroyReturns
    <2>1. /\ call.at = "destroy" /\ call.at \in TaEntry /\ UNCHANGED current_pta
          /\ current_instance' = None /\ call'.at = "idle"
          /\ instances' = [instances EXCEPT ![call.iid] = NoInstance]
      BY <1>6 DEF DestroyReturns, rest, TaEntry, Answer, Idle
    <2>2. /\ \A j \in InstanceId \ {call.iid} : instances'[j] = instances[j]
          /\ instances'[call.iid].state = "Free"
      BY <1>t, <1>r, <2>1 DEF NoInstance
    <2> QED BY <1>r, <2>1, <2>2, LockStep DEF TaEntry
  <1>7. CASE PtaCloseReturns
    BY <1>7, LockFrame DEF PtaCloseReturns, Answer, Idle, tables, rest, PtaEntry, LockHolders
  <1> QED BY <1>1, <1>2, <1>3, <1>4, <1>5, <1>6, <1>7 DEF EntryReturns

\* What a panic does: the CPU loops, the instance that ran dies with its
\* sessions, or (in the open or close of a PTA) nothing but the call ends.
LEMMA PanicOutcome ==
    ASSUME TypeInv, LockHolders, Panics
    PROVE  /\ UNCHANGED <<next_sid, next_iid, yielding, current_pta, notices_ok, cancelled>>
           /\ \/ /\ UNCHANGED <<instances, sessions, current_instance>>
                 /\ call'.at = "spin" /\ call.at \in TaEntry /\ call'.iid = call.iid
              \/ /\ UNCHANGED <<instances, sessions, current_instance>>
                 /\ call'.at = "halted" /\ call.at \in PtaEntry
              \/ /\ UNCHANGED <<instances, sessions, current_instance>>
                 /\ call' = Idle /\ call.at \in PtaEntry \ {"pta_invoke"}
              \/ /\ call' = Idle /\ call.at \in TaEntry /\ current_instance' = None
                 /\ instances' = [instances EXCEPT ![call.iid].state = "Dead",
                                                   ![call.iid].aspace = FALSE,
                                                   ![call.iid].mapped = 0]
                 /\ sessions' = PoisonInstance(call.iid)
  <1>1. CASE TaPanics
    <2>1. /\ ~current_pta /\ current_instance = call.iid /\ call.iid # None
          /\ call.at \in TaEntry
      BY <1>1 DEF TaPanics, LockHolders, RunningInstanceIsLive, TaEntry
    <2>2. CASE GuestBuild
      <3>1. call' = [call EXCEPT !.at = "spin"] /\ call \in Call
        BY <1>1, <2>2 DEF TaPanics, TypeInv, TypeOK
      <3>2. call'.at = "spin" /\ call'.iid = call.iid
        BY <3>1 DEF Call
      <3> QED BY <1>1, <2>1, <2>2, <3>2 DEF TaPanics
    <2>3. CASE ~GuestBuild
      BY <1>1, <2>1, <2>3 DEF TaPanics, OnPanic, OnTaPanic, Answer
    <2> QED BY <2>2, <2>3
  <1>2. CASE PtaPanics
    <2>1. call.at \in PtaEntry /\ current_instance = None
          /\ (current_pta <=> call.at = "pta_invoke")
      BY <1>2 DEF PtaPanics, LockHolders, PtaEntry
    <2>2. CASE HaltKernel
      <3>1. call' = [call EXCEPT !.at = "halted"] /\ call \in Call
        BY <2>2 DEF HaltKernel, TypeInv, TypeOK
      <3>2. call'.at = "halted"
        BY <3>1 DEF Call
      <3> QED BY <1>2, <2>1, <2>2, <3>2 DEF PtaPanics, HaltKernel
    <2>3. CASE ~HaltKernel
      BY <1>2, <2>1, <2>3 DEF PtaPanics, OnPanic, OnTaPanic, Answer
    <2> QED BY <2>2, <2>3
  <1> QED BY <1>1, <1>2 DEF Panics

\* Panics keep LockHolders.
LEMMA PanicsLocks ==
    ASSUME TypeInv, TypeInv', LockHolders, Panics
    PROVE  LockHolders'
  <1>1. UNCHANGED current_pta
    BY PanicOutcome
  <1>2. CASE /\ UNCHANGED <<instances, sessions, current_instance>>
             /\ call'.at = "spin" /\ call.at \in TaEntry
    BY <1>1, <1>2 DEF LockHolders, RunningInstanceIsLive, TaEntry, PtaEntry
  <1>3. CASE /\ UNCHANGED <<instances, sessions, current_instance>>
             /\ call'.at = "halted" /\ call.at \in PtaEntry
    BY <1>1, <1>3 DEF LockHolders, RunningInstanceIsLive, TaEntry, PtaEntry
  <1>4. CASE /\ UNCHANGED <<instances, sessions, current_instance>>
             /\ call' = Idle /\ call.at \in PtaEntry \ {"pta_invoke"}
    <2>1. call'.at = "idle"
      BY <1>4 DEF Idle
    <2> QED BY <1>1, <1>4, <2>1, LockFrame DEF LockHolders, PtaEntry
  <1>5. CASE /\ call' = Idle /\ call.at \in TaEntry /\ current_instance' = None
             /\ instances' = [instances EXCEPT ![call.iid].state = "Dead",
                                               ![call.iid].aspace = FALSE,
                                               ![call.iid].mapped = 0]
    <2>1. /\ instances \in [InstanceId -> Instance] /\ call.iid \in InstanceId
          /\ instances[call.iid].busy
      BY <1>5 DEF TypeInv, TypeOK, CallHasInstance, LockHolders, RunningInstanceIsLive
    <2>2. /\ instances'[call.iid] = [instances[call.iid] EXCEPT
                 !.state = "Dead", !.aspace = FALSE, !.mapped = 0]
          /\ \A j \in InstanceId \ {call.iid} : instances'[j] = instances[j]
      BY <1>5, <2>1, Zenon
    <2>3. instances'[call.iid].state = "Dead" /\ instances'[call.iid].busy
      BY <2>1, <2>2 DEF Instance
    <2> QED BY <1>1, <1>5, <2>1, <2>2, <2>3, LockStep DEF Idle
  <1> QED BY <1>2, <1>3, <1>4, <1>5, PanicOutcome

\* LockHolders is inductive with the type invariant.
LEMMA LocksInductive ==
    TypeInv /\ LockHolders /\ [Next]_vars => TypeInv' /\ LockHolders'
  <1> SUFFICES ASSUME TypeInv, LockHolders, [Next]_vars
               PROVE  TypeInv' /\ LockHolders'
    OBVIOUS
  <1>1. TypeInv'
    BY TypeInvInductive
  <1>2. CASE \/ Refuse \/ EmitReeNotices \/ (\E cid \in CancelIds : Cancel(cid))
             \/ LoopForever \/ UNCHANGED vars
    <2>1. UNCHANGED <<instances, current_instance, current_pta, call>>
      BY <1>2 DEF Refuse, EmitReeNotices, Cancel, LoopForever, vars, tables, rest
    <2>2. LockHolders'
      BY <2>1 DEF LockHolders, RunningInstanceIsLive
    <2> QED BY <1>1, <2>2
  <1>3. CASE OpenSession
    BY <1>1, <1>3, OpenLocks
  <1>4. CASE RpcComplete
    BY <1>1, <1>4, RpcLocks
  <1>5. CASE Invoke
    BY <1>1, <1>5, InvokeLocks
  <1>6. CASE CloseSession
    BY <1>1, <1>6, CloseLocks
  <1>7. CASE EntryReturns
    BY <1>1, <1>7, ReturnsLocks
  <1>8. CASE Panics
    BY <1>1, <1>8, PanicsLocks
  <1> QED BY <1>1, <1>2, <1>3, <1>4, <1>5, <1>6, <1>7, <1>8 DEF Next

\* A new kernel has no instances and runs nothing.
LEMMA LocksInit == Init => LockHolders
  <1> SUFFICES ASSUME Init PROVE LockHolders
    OBVIOUS
  <1>1. call.at = "idle" /\ current_instance = None /\ ~current_pta
    BY DEF Init, Idle
  <1>2. \A i \in InstanceId : instances[i].state = "Free"
    BY DEF Init, NoInstance
  <1> QED BY <1>1, <1>2 DEF LockHolders, RunningInstanceIsLive, TaEntry, PtaEntry

\* The kernel only ever runs the code of an instance that is Live and locked and
\* that current_instance names, so a panic is charged to the TA that caused it.
THEOREM RunsLiveInstancesOnly == Spec => []RunningInstanceIsLive
  <1>1. LockHolders => RunningInstanceIsLive
    BY DEF LockHolders, RunningInstanceIsLive
  <1> QED BY <1>1, InitTyped, LocksInit, LocksInductive, PTL DEF Spec

\* No path of open, invoke or close leaves a Live instance locked when the
\* command has been answered.
THEOREM LocksAreReleased == Spec => []NothingHeldWhenIdle
  <1>1. LockHolders => NothingHeldWhenIdle
    BY DEF LockHolders, NothingHeldWhenIdle, TaEntry
  <1> QED BY <1>1, InitTyped, LocksInit, LocksInductive, PTL DEF Spec

=============================================================================
