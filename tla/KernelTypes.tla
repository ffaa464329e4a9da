---------------------------- MODULE KernelTypes -----------------------------
(***************************************************************************)
(* Type correctness of Kernel, for all constants.                          *)
(***************************************************************************)
EXTENDS KernelInv, TLAPS

\* The values of an empty slot, of no call and of no load have their types.
LEMMA DefaultsTyped ==
    /\ AnyUuid \in Uuid
    /\ NoParams \in ParamList
    /\ NoSession \in Session
    /\ NoInstance \in Instance
    /\ NoLoad \in Load
    /\ Idle \in Call
  <1>1. AnyUuid \in Uuid
    BY KernelAssumption DEF AnyUuid
  <1>2. NoParams \in ParamList
    BY KernelAssumption DEF NoParams, ParamList
  <1>3. NoSession \in Session
    BY <1>1 DEF NoSession, Session
  <1>4. NoInstance \in Instance
    BY <1>1 DEF NoInstance, Instance, Image
  <1>5. NoLoad \in Load
    BY <1>1, <1>2 DEF NoLoad, Load
  <1>6. Idle \in Call
    BY <1>1, <1>2 DEF Idle, Call
  <1> QED BY <1>1, <1>2, <1>3, <1>4, <1>5, <1>6

\* map_params and unmap_params return instances.
LEMMA MappingTyped ==
    ASSUME NEW inst \in Instance, NEW p \in ParamList
    PROVE  /\ MapParams(inst, p) \in Instance
           /\ UnmapParams(inst, p) \in Instance
           /\ MapCode(inst, p) \in Codes
  <1>1. p.good \in Nat /\ p.fail \in {"none", "long", "bad"}
    BY KernelAssumption DEF ParamList
  <1>2. MapParams(inst, p) \in Instance
    <2>1. CASE ~inst.aspace
      BY <2>1 DEF MapParams
    <2>2. CASE inst.aspace /\ p.fail = "bad"
      <3>1. [inst EXCEPT !.aspace = FALSE, !.mapped = 0] \in Instance
        BY Zenon DEF Instance
      <3> QED BY <2>2, <3>1 DEF MapParams
    <2>3. CASE inst.aspace /\ p.fail # "bad"
      <3>1. [inst EXCEPT !.mapped = @ + p.good] \in Instance
        BY <1>1 DEF Instance
      <3> QED BY <2>3, <3>1 DEF MapParams
    <2> QED BY <2>1, <2>2, <2>3
  <1>3. UnmapParams(inst, p) \in Instance
    BY <1>1 DEF UnmapParams, Instance
  <1>4. MapCode(inst, p) \in Codes
    BY DEF MapCode, Codes
  <1> QED BY <1>2, <1>3, <1>4

\* The updates of an instance table.
LEMMA TableTyped ==
    ASSUME NEW tab \in [InstanceId -> Instance], NEW iid \in InstanceId
    PROVE  /\ Unlock(tab, iid) \in [InstanceId -> Instance]
           /\ [tab EXCEPT ![iid].busy = TRUE] \in [InstanceId -> Instance]
           /\ [tab EXCEPT ![iid].session_count = @ + 1] \in [InstanceId -> Instance]
  <1>1. [tab[iid] EXCEPT !.busy = FALSE] \in Instance /\ [tab[iid] EXCEPT !.busy = TRUE] \in Instance
    BY Zenon DEF Instance
  <1>2. [tab[iid] EXCEPT !.session_count = @ + 1] \in Instance
    BY DEF Instance
  <1> QED BY <1>1, <1>2 DEF Unlock

\* The end of bind_session keeps the types.
LEMMA AddSessionTyped ==
    ASSUME TypeOK, next_sid <= IdMax,
           NEW tab \in [InstanceId -> Instance], NEW iid \in InstanceId,
           AddSession(tab, iid)
    PROVE  /\ sessions' \in [SessionId -> Session]
           /\ next_sid' \in 1..(IdMax + 1)
           /\ instances' \in [InstanceId -> Instance]
           /\ call' \in Call
           /\ out' \in Codes
  <1> USE KernelAssumption
  <1>1. next_sid' \in 1..(IdMax + 1) /\ next_sid \in SessionId
    BY DEF AddSession, TypeOK, SessionId
  <1>2. sessions' \in [SessionId -> Session]
    <2>1. [state |-> "Ready", kind |-> "UserTa", uuid |-> tab[iid].uuid, instance |-> iid]
            \in Session
      BY DEF Session, Instance
    <2> QED BY <1>1, <2>1 DEF AddSession, TypeOK
  <1>3. instances' \in [InstanceId -> Instance]
    <2>1. [tab EXCEPT ![iid].session_count = @ + 1] \in [InstanceId -> Instance]
      BY TableTyped, Zenon
    <2>2. Unlock([tab EXCEPT ![iid].session_count = @ + 1], iid) \in [InstanceId -> Instance]
      BY <2>1, TableTyped, Zenon
    <2>3. Unlock(tab, iid) \in [InstanceId -> Instance]
      BY TableTyped, Zenon
    <2> QED BY <2>2, <2>3, Zenon DEF AddSession
  <1>4. call' \in Call /\ out' \in Codes
    BY DefaultsTyped DEF AddSession, Answer, Codes
  <1> QED BY <1>1, <1>2, <1>3, <1>4

\* A running entry point.
LEMMA RunTyped ==
    ASSUME NEW e \in TaEntry, NEW iid \in InstanceId, NEW p \in ParamList
    PROVE  Run(e, iid, p) \in Call
  BY DefaultsTyped DEF Run, Call

\* bind_session up to the entry point keeps the types.
LEMMA BindSessionTyped ==
    ASSUME TypeOK, next_sid <= IdMax,
           NEW tab \in [InstanceId -> Instance], NEW iid \in InstanceId, NEW p \in ParamList,
           BindSession(tab, iid, p)
    PROVE  /\ sessions' \in [SessionId -> Session]
           /\ next_sid' \in 1..(IdMax + 1)
           /\ instances' \in [InstanceId -> Instance]
           /\ current_instance' \in InstanceId \cup {None}
           /\ call' \in Call
           /\ out' \in Codes
  <1> DEFINE inst == MapParams(tab[iid], p)
             code == MapCode(tab[iid], p)
  <1>1. CASE ~tab[iid].props.entries
    <2>1. AddSession(tab, iid) /\ current_instance' = None
      BY <1>1 DEF BindSession
    <2> QED BY <2>1, AddSessionTyped
  <1>2. CASE tab[iid].props.entries
    <2>1. inst \in Instance /\ code \in Codes
      BY MappingTyped
    <2>2. [tab EXCEPT ![iid] = inst] \in [InstanceId -> Instance]
      BY <2>1
    <2>3. Unlock([tab EXCEPT ![iid] = inst], iid) \in [InstanceId -> Instance]
      BY <2>2, TableTyped, Zenon
    <2>4. Run("open", iid, p) \in Call
      BY RunTyped DEF TaEntry
    <2>5. UNCHANGED <<sessions, next_sid>>
      BY <1>2 DEF BindSession
    <2>6. CASE code = "SUCCESS"
      BY <1>2, <2>2, <2>4, <2>5, <2>6 DEF BindSession, TypeOK
    <2>7. CASE code # "SUCCESS"
      BY <1>2, <2>1, <2>3, <2>5, <2>7, DefaultsTyped, Zenon DEF BindSession, TypeOK, Answer
    <2> QED BY <2>6, <2>7
  <1> QED BY <1>1, <1>2

\* instantiate_and_bind keeps the types.
LEMMA InstantiateTyped ==
    ASSUME TypeOK, next_sid <= IdMax, next_iid <= IdMax,
           NEW img \in Image, NEW u \in Uuid, NEW p \in ParamList,
           InstantiateAndBind(img, u, p)
    PROVE  /\ sessions' \in [SessionId -> Session]
           /\ next_sid' \in 1..(IdMax + 1)
           /\ instances' \in [InstanceId -> Instance]
           /\ next_iid' \in 1..(IdMax + 1)
           /\ current_instance' \in InstanceId \cup {None}
           /\ call' \in Call
           /\ out' \in Codes
  <1> DEFINE tab == [instances EXCEPT ![next_iid] = NewInstance(img, u)]
  <1>1. next_iid \in InstanceId /\ next_iid + 1 \in 1..(IdMax + 1)
    BY KernelAssumption DEF TypeOK, InstanceId
  <1>2. tab \in [InstanceId -> Instance]
    <2>1. NewInstance(img, u) \in Instance
      BY DEF NewInstance, Instance
    <2> QED BY <2>1, Zenon DEF TypeOK
  <1>3. CASE img.uuid # u
    BY <1>3, DefaultsTyped DEF InstantiateAndBind, TypeOK, tables, Answer, Codes
  <1>4. CASE img.uuid = u /\ Cardinality(UsedInstances) >= MaxInstances
    BY <1>1, <1>4, DefaultsTyped DEF InstantiateAndBind, TypeOK, Answer, Codes
  <1>5. CASE img.uuid = u /\ ~(Cardinality(UsedInstances) >= MaxInstances) /\ img.entries
    <2>1. Run("create", next_iid, p) \in Call
      BY <1>1, RunTyped DEF TaEntry
    <2> QED BY <1>1, <1>2, <1>5, <2>1 DEF InstantiateAndBind, TypeOK
  <1>6. CASE img.uuid = u /\ ~(Cardinality(UsedInstances) >= MaxInstances) /\ ~img.entries
    <2>1. next_iid' = next_iid + 1 /\ BindSession(tab, next_iid, p)
      BY <1>6 DEF InstantiateAndBind
    <2> HIDE DEF tab
    <2> QED BY <1>1, <1>2, <2>1, BindSessionTyped
  <1> QED BY <1>3, <1>4, <1>5, <1>6

\* The end of close keeps the types.
LEMMA ReleaseTyped ==
    ASSUME TypeOK, NEW iid \in InstanceId, ReleaseInstance(iid)
    PROVE  /\ instances' \in [InstanceId -> Instance]
           /\ current_instance' \in InstanceId \cup {None}
           /\ call' \in Call
           /\ out' \in Codes
  <1> DEFINE inst == instances[iid]
             count == IF inst.session_count > 0 THEN inst.session_count - 1 ELSE 0
  <1>1. inst \in Instance /\ count \in Nat
    BY DEF TypeOK, Instance
  <1>2. [instances EXCEPT ![iid].session_count = count] \in [InstanceId -> Instance]
    <2>1. [inst EXCEPT !.session_count = count] \in Instance
      BY <1>1 DEF Instance
    <2> QED BY <2>1 DEF TypeOK
  <1>3. Unlock([instances EXCEPT ![iid].session_count = count], iid) \in [InstanceId -> Instance]
    BY <1>2, TableTyped, Zenon
  <1>4. [instances EXCEPT ![iid] = NoInstance] \in [InstanceId -> Instance]
    BY DefaultsTyped DEF TypeOK
  <1>5. [instances EXCEPT ![iid].session_count = 0, ![iid].busy = TRUE]
          \in [InstanceId -> Instance]
    <2>1. [inst EXCEPT !.session_count = 0, !.busy = TRUE] \in Instance
      BY <1>1, Zenon DEF Instance
    <2> QED BY <2>1 DEF TypeOK
  <1>6. Run("destroy", iid, NoParams) \in Call
    BY RunTyped, DefaultsTyped DEF TaEntry
  <1>7. CASE count = 0 /\ ~inst.props.instance_keep_alive /\ inst.props.entries
    BY <1>5, <1>6, <1>7, Zenon DEF ReleaseInstance, TypeOK
  <1>8. CASE count = 0 /\ ~inst.props.instance_keep_alive /\ ~inst.props.entries
    BY <1>4, <1>8, DefaultsTyped DEF ReleaseInstance, Answer, Codes
  <1>9. CASE ~(count = 0 /\ ~inst.props.instance_keep_alive)
    <2>1. /\ instances' = Unlock([instances EXCEPT ![iid].session_count = count], iid)
          /\ current_instance' = None /\ Answer("SUCCESS")
      BY <1>9 DEF ReleaseInstance
    <2> QED BY <1>3, <2>1, DefaultsTyped, Zenon DEF Answer, Codes
  <1> QED BY <1>7, <1>8, <1>9

\* What the bound on ids leaves to a call that starts or goes on.
LEMMA IdRoom ==
    ASSUME TypeInv
    PROVE  /\ IdsLeft => next_sid <= IdMax /\ next_iid <= IdMax
           /\ yielding.active => next_sid <= IdMax /\ next_iid <= IdMax
           /\ call.at \in {"create", "open", "pta_open"} => next_sid <= IdMax
  BY KernelAssumption DEF TypeInv, TypeOK, IdBounds, IdsLeft

\* Initially the type invariant holds.
LEMMA InitTyped == Init => TypeInv
  <1> SUFFICES ASSUME Init PROVE TypeInv
    OBVIOUS
  <1>1. TypeOK
    <2>1. notices_ok \in BOOLEAN
      BY Zenon DEF Init
    <2>2. 1 \in 1..(IdMax + 1)
      BY KernelAssumption
    <2>3. sessions \in [SessionId -> Session] /\ instances \in [InstanceId -> Instance]
      BY DefaultsTyped DEF Init
    <2> QED BY <2>1, <2>2, <2>3, DefaultsTyped, Zenon DEF Init, TypeOK, Codes
  <1>2. IdBounds
    BY KernelAssumption DEF Init, IdBounds, NoLoad, Idle
  <1>3. CallHasInstance
    BY DEF Init, CallHasInstance, Idle, TaEntry
  <1> QED BY <1>1, <1>2, <1>3 DEF TypeInv

\* instantiate_and_bind keeps the type invariant, when it is called with an id
\* in reserve and the reserve is given up or was not counted.
LEMMA InstantiateKeepsTypeInv ==
    ASSUME TypeInv, NEW img \in Image, NEW u \in Uuid, NEW p \in ParamList,
           InstantiateAndBind(img, u, p), call.at = "idle",
           next_sid <= IdMax, next_iid <= IdMax,
           UNCHANGED <<current_pta, notices_ok, cancelled>>,
           \/ IdsLeft /\ UNCHANGED yielding
           \/ yielding.active /\ yielding' = NoLoad
    PROVE  TypeInv'
  <1> USE KernelAssumption
  <1>1. yielding' \in Load
    BY DefaultsTyped DEF TypeInv, TypeOK
  <1>2. TypeOK'
    BY <1>1, InstantiateTyped DEF TypeInv, TypeOK
  <1>3. /\ CallHasInstance'
        /\ next_sid' \in {next_sid, next_sid + 1} /\ next_iid' \in {next_iid, next_iid + 1}
        /\ (call'.at # "idle" => next_sid' = next_sid)
    <2> DEFINE tab == [instances EXCEPT ![next_iid] = NewInstance(img, u)]
    <2>1. next_iid \in InstanceId
      BY DEF TypeInv, TypeOK, InstanceId
    <2>2. CASE BindSession(tab, next_iid, p) /\ next_iid' = next_iid + 1
      <3> HIDE DEF tab
      <3> QED BY <2>1, <2>2 DEF BindSession, AddSession, Answer, CallHasInstance, Idle,
              TaEntry, Run, TypeInv, TypeOK
    <2>3. CASE ~(BindSession(tab, next_iid, p) /\ next_iid' = next_iid + 1)
      <3>1. /\ next_sid' = next_sid /\ next_iid' \in {next_iid, next_iid + 1}
            /\ \/ call' = Idle
               \/ call' = Run("create", next_iid, p) /\ current_instance' = next_iid
        BY <2>3 DEF InstantiateAndBind, Answer, tables
      <3>2. CASE call' = Idle
        BY <3>1, <3>2 DEF CallHasInstance, Idle, TaEntry
      <3>3. CASE call' = Run("create", next_iid, p) /\ current_instance' = next_iid
        BY <2>1, <3>1, <3>3 DEF CallHasInstance, Run, TaEntry
      <3> QED BY <3>1, <3>2, <3>3
    <2> QED BY <2>2, <2>3
  <1>4. IdBounds'
    <2>1. /\ IdMax \in Nat /\ next_sid \in Nat /\ next_iid \in Nat
          /\ next_sid' = next_sid \/ next_sid' = next_sid + 1
          /\ next_iid' = next_iid \/ next_iid' = next_iid + 1
          /\ call'.at \in {"create", "open", "pta_open"} => next_sid' = next_sid
      BY <1>3 DEF TypeInv, TypeOK
    <2>2. CASE ~yielding'.active
      <3>1. CASE call'.at \in {"create", "open", "pta_open"}
        BY <2>1, <2>2, <3>1 DEF IdBounds
      <3>2. CASE call'.at \notin {"create", "open", "pta_open"}
        BY <2>1, <2>2, <3>2 DEF IdBounds
      <3> QED BY <3>1, <3>2
    <2>3. CASE yielding'.active
      <3>1. yielding.active /\ next_sid + 1 <= IdMax /\ next_iid + 1 <= IdMax
        <4>1. yielding' # NoLoad
          BY <2>3 DEF NoLoad
        <4> QED BY <2>1, <2>3, <4>1 DEF IdsLeft
      <3>2. CASE call'.at \in {"create", "open", "pta_open"}
        BY <2>1, <2>3, <3>1, <3>2 DEF IdBounds
      <3>3. CASE call'.at \notin {"create", "open", "pta_open"}
        BY <2>1, <2>3, <3>1, <3>3 DEF IdBounds
      <3> QED BY <3>2, <3>3
    <2> QED BY <2>2, <2>3
  <1> QED BY <1>2, <1>3, <1>4 DEF TypeInv

\* OpenSession keeps the type invariant.
LEMMA OpenTyped ==
    ASSUME TypeInv, OpenSession
    PROVE  TypeInv'
  <1> USE KernelAssumption
  <1> PICK u \in Uuid, cid \in CancelIds, p \in Params :
          \/ OpenCancelled(cid) \/ OpenPta(u, cid) \/ OpenLive(u, cid, p)
          \/ OpenEarly(u, cid, p) \/ OpenLoad(u, cid, p)
    BY DEF OpenSession
  <1>p. p \in ParamList
    OBVIOUS
  <1>1. CASE OpenCancelled(cid)
    BY <1>1, DefaultsTyped DEF OpenCancelled, Answer, Ready, TypeInv, TypeOK, IdBounds,
       CallHasInstance, tables, rest, Codes, Idle, TaEntry
  <1>2. CASE OpenPta(u, cid)
    <2>1. RunPta("pta_open", u) \in Call
      BY DefaultsTyped DEF RunPta, Call, PtaEntry
    <2>2. /\ IdsLeft /\ call' = RunPta("pta_open", u) /\ call'.at = "pta_open"
          /\ UNCHANGED <<sessions, next_sid, instances, next_iid, yielding, current_instance,
                         current_pta, notices_ok, cancelled, out>>
      BY <1>2 DEF OpenPta, RunPta, tables, rest
    <2>3. TypeOK'
      BY <2>1, <2>2 DEF TypeInv, TypeOK
    <2>4. IdBounds'
      BY <2>2 DEF TypeInv, TypeOK, IdBounds, IdsLeft
    <2>5. CallHasInstance'
      BY <2>2 DEF CallHasInstance, TaEntry
    <2> QED BY <2>3, <2>4, <2>5 DEF TypeInv
  <1>3. CASE OpenLive(u, cid, p)
    <2> PICK i \in InstanceId :
          LET code == IF SessionLimit(i) THEN "BUSY" ELSE LockCode(i)
          IN  IF code = "SUCCESS"
              THEN BindSession([instances EXCEPT ![i].busy = TRUE], i, p)
              ELSE /\ Answer(code)
                   /\ UNCHANGED <<sessions, next_sid, instances, current_instance>>
      BY <1>3, Zenon DEF OpenLive, LiveSingles
    <2> DEFINE code == IF SessionLimit(i) THEN "BUSY" ELSE LockCode(i)
               tab == [instances EXCEPT ![i].busy = TRUE]
    <2>1. UNCHANGED <<next_iid, rest>> /\ next_sid <= IdMax /\ IdsLeft /\ call.at = "idle"
      BY <1>3, IdRoom DEF OpenLive, Ready
    <2>2. code \in Codes
      BY DEF LockCode, Codes
    <2>3. CASE code = "SUCCESS"
      <3>1. tab \in [InstanceId -> Instance]
        BY TableTyped, Zenon DEF TypeInv, TypeOK
      <3>2. BindSession(tab, i, p)
        BY <2>3
      <3>3. TypeOK'
        <4> HIDE DEF tab
        <4> QED BY <1>p, <2>1, <3>1, <3>2, BindSessionTyped DEF TypeInv, TypeOK, rest
      <3>4. CallHasInstance' /\ (next_sid' \in {next_sid, next_sid + 1})
            /\ (call'.at # "idle" => next_sid' = next_sid)
        BY <3>2 DEF BindSession, AddSession, Answer, CallHasInstance, Idle, TaEntry, Run,
           TypeInv, TypeOK
      <3>5. IdBounds'
        BY <2>1, <3>3, <3>4 DEF TypeInv, TypeOK, IdBounds, IdsLeft, rest
      <3> QED BY <3>3, <3>4, <3>5 DEF TypeInv
    <2>4. CASE code # "SUCCESS"
      BY <2>1, <2>2, <2>4, DefaultsTyped DEF Answer, TypeInv, TypeOK, IdBounds,
         CallHasInstance, rest, Idle, TaEntry
    <2> QED BY <2>3, <2>4
  <1>4. CASE OpenEarly(u, cid, p)
    <2>1. /\ IdsLeft /\ call.at = "idle" /\ UNCHANGED rest
          /\ Early[u] \in Image /\ InstantiateAndBind(Early[u], u, p)
      BY <1>4 DEF OpenEarly, Ready
    <2> QED BY <1>p, <2>1, IdRoom, InstantiateKeepsTypeInv DEF rest
  <1>5. CASE OpenLoad(u, cid, p)
    <2>1. UNCHANGED <<sessions, next_sid, instances, next_iid, current_instance, current_pta,
                      notices_ok, cancelled, call>>
      BY <1>5 DEF OpenLoad, tables
    <2>2. CASE yielding.active
      BY <1>5, <2>1, <2>2 DEF OpenLoad, TypeInv, TypeOK, IdBounds, CallHasInstance, Codes
    <2>3. CASE ~yielding.active
      <3>1. /\ IdsLeft /\ call.at = "idle" /\ out' = "RPC"
            /\ yielding' = [active |-> TRUE, uuid |-> u, params |-> p, cancel_id |-> cid]
        BY <1>5, <2>3 DEF OpenLoad, Ready
      <3>2. yielding' \in Load
        BY <1>p, <3>1 DEF Load
      <3>3. IdBounds'
        BY <2>1, <3>1, <3>2 DEF TypeInv, TypeOK, IdBounds, IdsLeft
      <3> QED BY <2>1, <3>1, <3>2, <3>3 DEF TypeInv, TypeOK, CallHasInstance, Codes
    <2> QED BY <2>2, <2>3
  <1> QED BY <1>1, <1>2, <1>3, <1>4, <1>5

\* RpcComplete keeps the type invariant.
LEMMA RpcTyped ==
    ASSUME TypeInv, RpcComplete
    PROVE  TypeInv'
  <1> USE KernelAssumption
  <1>1. CASE RpcSpurious
    BY <1>1, DefaultsTyped DEF RpcSpurious, Answer, Ready, TypeInv, TypeOK, IdBounds,
       CallHasInstance, tables, rest, Codes, Idle, TaEntry
  <1>2. ASSUME NEW code \in {"RPC_ERROR", "NOT_SUPPORTED", "LOAD_ERROR"}, RpcFails(code)
        PROVE  TypeInv'
    <2>1. /\ yielding' = NoLoad /\ call' = Idle /\ out' \in Codes
          /\ UNCHANGED <<sessions, next_sid, instances, next_iid, current_instance, current_pta,
                         notices_ok, cancelled>>
      BY <1>2 DEF RpcFails, Answer, tables, Codes
    <2>2. ~yielding'.active /\ call'.at = "idle"
      BY <2>1 DEF NoLoad, Idle
    <2> QED
      BY <2>1, <2>2, DefaultsTyped DEF TypeInv, TypeOK, IdBounds, CallHasInstance, TaEntry
  <1>3. ASSUME NEW img \in Images, RpcImage(img)
        PROVE  TypeInv'
    <2>1. /\ yielding.active /\ yielding' = NoLoad /\ call.at = "idle"
          /\ UNCHANGED <<current_pta, notices_ok, cancelled>>
          /\ ~yielding'.active
      BY <1>3 DEF RpcImage, Ready, NoLoad
    <2>2. CASE LoadCancelled
      <3>1. call' = Idle /\ call'.at = "idle" /\ out' \in Codes
            /\ UNCHANGED <<sessions, next_sid, instances, next_iid, current_instance>>
        BY <1>3, <2>2 DEF RpcImage, Answer, Idle, Codes, tables
      <3> QED
        BY <2>1, <3>1, DefaultsTyped DEF TypeInv, TypeOK, IdBounds, CallHasInstance, TaEntry
    <2>3. CASE ~LoadCancelled
      <3>1. InstantiateAndBind(img, yielding.uuid, yielding.params)
        BY <1>3, <2>3 DEF RpcImage
      <3>2. img \in Image /\ yielding.uuid \in Uuid /\ yielding.params \in ParamList
        BY DEF TypeInv, TypeOK, Load
      <3> QED BY <2>1, <3>1, <3>2, IdRoom, InstantiateKeepsTypeInv
    <2> QED BY <2>2, <2>3
  <1> QED BY <1>1, <1>2, <1>3 DEF RpcComplete

\* Invoke keeps the type invariant.
LEMMA InvokeTyped ==
    ASSUME TypeInv, Invoke
    PROVE  TypeInv'
  <1> USE KernelAssumption
  <1> PICK sid \in SessionId, cid \in CancelIds, p \in Params :
          InvokeRefused(sid, cid) \/ InvokePta(sid, cid) \/ InvokeTa(sid, cid, p)
    BY DEF Invoke
  <1>p. p \in ParamList
    OBVIOUS
  <1>1. CASE InvokeRefused(sid, cid)
    <2>1. InvokeCode(sid, cid) \in Codes
      BY DEF InvokeCode, LockCode, Codes
    <2> QED
      BY <1>1, <2>1, DefaultsTyped DEF InvokeRefused, Answer, Ready, TypeInv, TypeOK,
         IdBounds, CallHasInstance, tables, rest, Idle, TaEntry
  <1>2. CASE InvokePta(sid, cid)
    <2>1. /\ call' = RunPta("pta_invoke", sessions[sid].uuid) /\ current_pta' = TRUE
          /\ UNCHANGED <<sessions, next_sid, instances, next_iid, yielding, current_instance,
                         notices_ok, cancelled, out>>
      BY <1>2 DEF InvokePta, tables
    <2>2. call' \in Call /\ call'.at = "pta_invoke"
      <3>1. sessions[sid].uuid \in Uuid
        BY DEF TypeInv, TypeOK, Session
      <3> QED BY <2>1, <3>1, DefaultsTyped DEF RunPta, Call, PtaEntry
    <2>3. TypeOK'
      BY <2>1, <2>2 DEF TypeInv, TypeOK
    <2>4. IdBounds'
      BY <2>1, <2>2 DEF TypeInv, TypeOK, IdBounds
    <2>5. CallHasInstance'
      BY <2>2 DEF CallHasInstance, TaEntry
    <2> QED BY <2>3, <2>4, <2>5 DEF TypeInv
  <1>3. CASE InvokeTa(sid, cid, p)
    <2> DEFINE iid == sessions[sid].instance
               inst == MapParams(instances[iid], p)
               code == MapCode(instances[iid], p)
    <2>1. iid \in InstanceId
      <3>1. iid \in InstanceId \cup {None}
        BY DEF TypeInv, TypeOK, Session
      <3>2. iid # None
        BY <1>3 DEF InvokeTa, InvokeCode
      <3> QED BY <3>1, <3>2
    <2>2. inst \in Instance /\ UnmapParams(inst, p) \in Instance /\ code \in Codes
      <3>1. instances[iid] \in Instance
        BY <2>1 DEF TypeInv, TypeOK
      <3>2. inst \in Instance /\ code \in Codes
        BY <1>p, <3>1, MappingTyped
      <3> HIDE DEF inst
      <3> QED BY <1>p, <3>2, MappingTyped
    <2>3. UNCHANGED <<sessions, next_sid, next_iid, yielding, current_pta, notices_ok, cancelled>>
          /\ call.at = "idle"
      BY <1>3 DEF InvokeTa, rest, Ready
    <2>4. CASE code = "SUCCESS" /\ instances[iid].props.entries
      <3>1. /\ instances' = [instances EXCEPT ![iid] = [inst EXCEPT !.busy = TRUE]]
            /\ current_instance' = iid /\ call' = Run("invoke", iid, p) /\ UNCHANGED out
        BY <1>3, <2>4 DEF InvokeTa
      <3>2. [inst EXCEPT !.busy = TRUE] \in Instance
        BY <2>2, Zenon DEF Instance
      <3>3. call' \in Call /\ call'.at = "invoke" /\ call'.iid = iid
        BY <1>p, <2>1, <3>1, RunTyped DEF TaEntry, Run
      <3> HIDE DEF iid, inst
      <3> QED
        BY <2>1, <2>3, <3>1, <3>2, <3>3 DEF TypeInv, TypeOK, IdBounds, CallHasInstance
    <2>5. CASE ~(code = "SUCCESS" /\ instances[iid].props.entries)
      <3>1. /\ instances' = [instances EXCEPT ![iid] =
                    IF code = "SUCCESS" THEN UnmapParams(inst, p) ELSE inst]
            /\ current_instance' = None /\ call' = Idle /\ out' = code
        BY <1>3, <2>5 DEF InvokeTa, Answer
      <3>2. call'.at = "idle"
        BY <3>1 DEF Idle
      <3> HIDE DEF iid, inst, code
      <3> QED
        BY <2>1, <2>2, <2>3, <3>1, <3>2, DefaultsTyped
           DEF TypeInv, TypeOK, IdBounds, CallHasInstance, TaEntry
    <2> QED BY <2>4, <2>5
  <1> QED BY <1>1, <1>2, <1>3

\* The instance that a step of close leaves running is the current one.
LEMMA ReleaseHasInstance ==
    ASSUME TypeOK, NEW iid \in InstanceId, ReleaseInstance(iid)
    PROVE  /\ call'.at \in {"idle", "destroy"}
           /\ call'.at = "destroy" => call'.iid = iid /\ current_instance' = iid
  <1> DEFINE count == IF instances[iid].session_count > 0
                      THEN instances[iid].session_count - 1 ELSE 0
  <1>1. CASE count = 0 /\ ~instances[iid].props.instance_keep_alive
             /\ instances[iid].props.entries
    BY <1>1 DEF ReleaseInstance, Run
  <1>2. CASE ~(count = 0 /\ ~instances[iid].props.instance_keep_alive
               /\ instances[iid].props.entries)
    BY <1>2 DEF ReleaseInstance, Answer, Idle
  <1> QED BY <1>1, <1>2

\* CloseSession keeps the type invariant.
LEMMA CloseTyped ==
    ASSUME TypeInv, CloseSession
    PROVE  TypeInv'
  <1> USE KernelAssumption
  <1> PICK sid \in SessionId : CloseUnknown(sid) \/ ClosePta(sid) \/ CloseTa(sid)
    BY DEF CloseSession
  <1>1. CASE CloseUnknown(sid)
    BY <1>1, DefaultsTyped DEF CloseUnknown, Answer, Ready, TypeInv, TypeOK, IdBounds,
       CallHasInstance, tables, rest, Codes, Idle, TaEntry
  <1>2. CASE ClosePta(sid)
    <2>1. /\ UNCHANGED <<next_sid, instances, next_iid, yielding, current_instance,
                         current_pta, notices_ok, cancelled>>
          /\ sessions' \in [SessionId -> Session]
      BY <1>2, DefaultsTyped DEF ClosePta, rest, TypeInv, TypeOK
    <2>2. call' \in Call /\ call'.at \in {"idle", "pta_close"} /\ out' \in Codes
      <3>1. CASE sessions[sid].uuid \in Ptas
        <4>1. RunPta("pta_close", sessions[sid].uuid) \in Call
          BY <3>1, DefaultsTyped, Zenon DEF RunPta, Call, PtaEntry
        <4>2. call' = RunPta("pta_close", sessions[sid].uuid) /\ out' = out
          BY <1>2, <3>1, Zenon DEF ClosePta
        <4>3. out \in Codes
          BY DEF TypeInv, TypeOK
        <4>4. call'.at = "pta_close"
          BY <4>2 DEF RunPta
        <4> QED BY <4>1, <4>2, <4>3, <4>4
      <3>2. CASE sessions[sid].uuid \notin Ptas
        <4>1. call' = Idle /\ out' = "SUCCESS"
          BY <1>2, <3>2 DEF ClosePta, Answer
        <4> QED BY <4>1, DefaultsTyped DEF Codes, Idle
      <3> QED BY <3>1, <3>2
    <2> QED BY <1>2, <2>1, <2>2 DEF ClosePta, Ready, TypeInv, TypeOK, IdBounds,
            CallHasInstance, TaEntry
  <1>3. CASE CloseTa(sid)
    <2> DEFINE iid == sessions[sid].instance
    <2>1. /\ UNCHANGED <<next_sid, next_iid, yielding, current_pta, notices_ok, cancelled>>
          /\ sessions' \in [SessionId -> Session] /\ call.at = "idle"
          /\ iid \in InstanceId \cup {None}
      BY <1>3, DefaultsTyped DEF CloseTa, Ready, rest, TypeInv, TypeOK, Session
    <2>2. /\ instances' \in [InstanceId -> Instance]
          /\ current_instance' \in InstanceId \cup {None}
          /\ call' \in Call /\ out' \in Codes
          /\ call'.at \in {"idle", "close", "destroy"}
          /\ call'.at # "idle" => call'.iid \in InstanceId /\ current_instance' = call'.iid
      <3>1. CASE iid = None \/ (iid # None /\ LockCode(iid) # "SUCCESS")
        <4>1. LockCode(iid) \in Codes
          BY DEF LockCode, Codes
        <4> QED BY <1>3, <3>1, <4>1, DefaultsTyped DEF CloseTa, Answer, Codes, Idle,
                TypeInv, TypeOK
      <3>2. CASE iid # None /\ LockCode(iid) = "SUCCESS" /\ instances[iid].props.entries
        <4>1. iid \in InstanceId /\ instances \in [InstanceId -> Instance]
          BY <2>1, <3>2 DEF TypeInv, TypeOK
        <4>2. /\ instances' = [instances EXCEPT ![iid].busy = TRUE]
              /\ current_instance' = iid /\ call' = Run("close", iid, NoParams)
              /\ UNCHANGED out
          BY <1>3, <3>2 DEF CloseTa
        <4>3. Run("close", iid, NoParams) \in Call
          BY <4>1, DefaultsTyped, RunTyped DEF TaEntry
        <4>4. call'.at = "close" /\ call'.iid = iid
          BY <4>2 DEF Run
        <4> HIDE DEF iid
        <4> QED BY <4>1, <4>2, <4>3, <4>4, TableTyped, Zenon DEF TypeInv, TypeOK
      <3>3. CASE iid # None /\ LockCode(iid) = "SUCCESS" /\ ~instances[iid].props.entries
        <4>1. iid \in InstanceId /\ ReleaseInstance(iid) /\ TypeOK
          BY <1>3, <2>1, <3>3 DEF CloseTa, TypeInv
        <4> HIDE DEF iid
        <4> QED BY <4>1, ReleaseTyped, ReleaseHasInstance
      <3> QED BY <3>1, <3>2, <3>3, Zenon
    <2> QED BY <2>1, <2>2 DEF TypeInv, TypeOK, IdBounds, CallHasInstance, TaEntry
  <1> QED BY <1>1, <1>2, <1>3

\* The bounds on ids hold after a step that draws a session id only at the end
\* of an open, and no instance id.
LEMMA IdBoundsKept ==
    ASSUME TypeInv, UNCHANGED <<yielding, next_iid>>,
           LET Opening == {"create", "open", "pta_open"}
           IN  \/ next_sid' = next_sid /\ (call'.at \in Opening => call.at \in Opening)
               \/ next_sid' = next_sid + 1 /\ call.at \in Opening /\ call'.at \notin Opening
    PROVE  IdBounds'
  <1> USE KernelAssumption
  <1>1. next_sid \in Nat /\ next_iid \in Nat
    BY DEF TypeInv, TypeOK
  <1>2. CASE yielding.active
    BY <1>1, <1>2 DEF TypeInv, IdBounds
  <1>3. CASE ~yielding.active
    BY <1>1, <1>3 DEF TypeInv, IdBounds
  <1> QED BY <1>2, <1>3

\* bind_session leaves the call idle, or its instance running; it spends a
\* session id only when the call ends.
LEMMA BindHasInstance ==
    ASSUME NEW tab, NEW iid \in InstanceId, NEW p, BindSession(tab, iid, p)
    PROVE  /\ call'.at \in {"idle", "open"}
           /\ call'.at = "open" => /\ call'.iid = iid /\ current_instance' = iid
                                   /\ next_sid' = next_sid
           /\ next_sid' = next_sid \/ next_sid' = next_sid + 1
  BY DEF BindSession, AddSession, Answer, Idle, Run

\* The remainders of the handlers after an entry point keep the type invariant.
LEMMA ReturnsTyped ==
    ASSUME TypeInv, EntryReturns
    PROVE  TypeInv'
  <1> USE KernelAssumption
  <1>iid. call.at \in TaEntry => call.iid \in InstanceId
    BY DEF TypeInv, CallHasInstance
  <1>p. call.params \in ParamList
    BY DEF TypeInv, TypeOK, Call
  <1>1. ASSUME NEW ok \in BOOLEAN, CreateReturns(ok)
        PROVE  TypeInv'
    <2>1. /\ call.iid \in InstanceId /\ call.at = "create"
          /\ UNCHANGED <<next_iid, yielding, current_pta, notices_ok, cancelled>>
      BY <1>1, <1>iid DEF CreateReturns, rest, TaEntry
    <2>2. /\ TypeOK' /\ call'.at \in {"idle", "open"}
          /\ call'.at = "open" => call'.iid = call.iid /\ current_instance' = call.iid
                                  /\ next_sid' = next_sid
          /\ next_sid' = next_sid \/ next_sid' = next_sid + 1
      <3>1. CASE ok
        <4>1. BindSession(instances, call.iid, call.params) /\ next_sid <= IdMax
          BY <1>1, <2>1, <3>1, IdRoom DEF CreateReturns
        <4>2. instances \in [InstanceId -> Instance] /\ TypeOK
          BY DEF TypeInv, TypeOK
        <4>3. /\ sessions' \in [SessionId -> Session] /\ next_sid' \in 1..(IdMax + 1)
              /\ instances' \in [InstanceId -> Instance] /\ call' \in Call /\ out' \in Codes
              /\ current_instance' \in InstanceId \cup {None}
          BY <1>p, <2>1, <4>1, <4>2, BindSessionTyped
        <4> QED BY <2>1, <4>1, <4>2, <4>3, BindHasInstance DEF TypeOK
      <3>2. CASE ~ok
        <4>1. /\ instances' = [instances EXCEPT ![call.iid] = NoInstance]
              /\ current_instance' = None /\ call' = Idle /\ out' = "TA_ERROR"
              /\ UNCHANGED <<sessions, next_sid>>
          BY <1>1, <3>2 DEF CreateReturns, Answer
        <4>2. /\ instances' \in [InstanceId -> Instance] /\ call' \in Call
              /\ call'.at = "idle"
          BY <2>1, <4>1, DefaultsTyped DEF TypeInv, TypeOK, Idle
        <4> QED BY <2>1, <4>1, <4>2 DEF TypeInv, TypeOK, Codes
      <3> QED BY <3>1, <3>2
    <2>3. IdBounds'
      BY <2>1, <2>2, IdBoundsKept
    <2> QED BY <2>1, <2>2, <2>3 DEF TypeInv, CallHasInstance, TaEntry
  <1>2. ASSUME NEW ok \in BOOLEAN, OpenReturns(ok)
        PROVE  TypeInv'
    <2> DEFINE tab == [instances EXCEPT ![call.iid] = UnmapParams(@, call.params)]
    <2>1. /\ call.iid \in InstanceId /\ call.at = "open" /\ current_instance' = None
          /\ UNCHANGED <<next_iid, yielding, current_pta, notices_ok, cancelled>>
      BY <1>2, <1>iid DEF OpenReturns, rest, TaEntry
    <2>2. tab \in [InstanceId -> Instance] /\ TypeOK
      BY <1>p, <2>1, MappingTyped DEF TypeInv, TypeOK
    <2>3. /\ TypeOK' /\ call' = Idle
          /\ next_sid' = next_sid \/ next_sid' = next_sid + 1
      <3>1. CASE ok
        <4>1. AddSession(tab, call.iid) /\ next_sid <= IdMax
          BY <1>2, <2>1, <3>1, IdRoom DEF OpenReturns
        <4>2. call' = Idle /\ (next_sid' = next_sid \/ next_sid' = next_sid + 1)
          BY <4>1 DEF AddSession, Answer
        <4> HIDE DEF tab
        <4> QED BY <2>1, <2>2, <4>1, <4>2, AddSessionTyped DEF TypeOK
      <3>2. CASE ~ok
        <4>1. /\ instances' = Unlock(tab, call.iid) /\ call' = Idle /\ out' = "TA_ERROR"
              /\ UNCHANGED <<sessions, next_sid>>
          BY <1>2, <3>2 DEF OpenReturns, Answer
        <4> HIDE DEF tab
        <4> QED BY <2>1, <2>2, <4>1, TableTyped, DefaultsTyped, Zenon DEF Codes, TypeOK
      <3> QED BY <3>1, <3>2
    <2>4. IdBounds'
      BY <2>1, <2>3, IdBoundsKept DEF Idle
    <2> QED BY <2>1, <2>3, <2>4 DEF TypeInv, CallHasInstance, TaEntry, Idle
  <1>3. ASSUME NEW ok \in BOOLEAN, InvokeReturns(ok)
        PROVE  TypeInv'
    <2> DEFINE tab == [instances EXCEPT ![call.iid] = UnmapParams(@, call.params)]
    <2>1. /\ call.iid \in InstanceId /\ current_instance' = None
          /\ instances' = Unlock(tab, call.iid) /\ call' = Idle /\ out' \in Codes
          /\ UNCHANGED <<sessions, next_sid, next_iid, yielding, current_pta, notices_ok,
                         cancelled>>
      BY <1>3, <1>iid DEF InvokeReturns, rest, TaEntry, Answer, Codes
    <2>2. tab \in [InstanceId -> Instance]
      BY <1>p, <2>1, MappingTyped DEF TypeInv, TypeOK
    <2> HIDE DEF tab
    <2>3. TypeOK'
      BY <2>1, <2>2, TableTyped, DefaultsTyped, Zenon DEF TypeInv, TypeOK
    <2>4. IdBounds'
      BY <2>1, IdBoundsKept DEF Idle
    <2> QED BY <2>1, <2>3, <2>4 DEF TypeInv, CallHasInstance, TaEntry, Idle
  <1>4. ASSUME NEW ok \in BOOLEAN, PtaOpenReturns(ok)
        PROVE  TypeInv'
    <2>1. /\ call.at = "pta_open" /\ call' = Idle /\ out' \in Codes
          /\ UNCHANGED <<instances, next_iid, yielding, current_instance, current_pta,
                         notices_ok, cancelled>>
      BY <1>4 DEF PtaOpenReturns, rest, Answer, Codes
    <2>2. next_sid <= IdMax /\ next_sid \in SessionId
      BY <2>1, IdRoom DEF SessionId, TypeInv, TypeOK
    <2>3. /\ sessions' \in [SessionId -> Session]
          /\ next_sid' = next_sid \/ next_sid' = next_sid + 1
      <3>1. [state |-> "Ready", kind |-> "Pta", uuid |-> call.uuid, instance |-> None] \in Session
        BY DEF Session, TypeInv, TypeOK, Call
      <3> QED BY <1>4, <2>2, <3>1 DEF PtaOpenReturns, TypeInv, TypeOK
    <2>4. TypeOK'
      BY <2>1, <2>2, <2>3, DefaultsTyped DEF TypeInv, TypeOK
    <2>5. IdBounds'
      BY <2>1, <2>3, IdBoundsKept DEF Idle
    <2> QED BY <2>1, <2>4, <2>5 DEF TypeInv, CallHasInstance, TaEntry, Idle
  <1>5. ASSUME NEW ok \in BOOLEAN, PtaInvokeReturns(ok)
        PROVE  TypeInv'
    BY <1>5, DefaultsTyped, Zenon DEF PtaInvokeReturns, Answer, Codes, tables, TypeInv, TypeOK,
       IdBounds, CallHasInstance, TaEntry, Idle
  <1>6. CASE CloseReturns
    <2>1. /\ call.iid \in InstanceId /\ ReleaseInstance(call.iid) /\ TypeOK /\ call.at = "close"
          /\ UNCHANGED <<sessions, next_sid, next_iid, yielding, current_pta, notices_ok,
                         cancelled>>
      BY <1>6, <1>iid DEF CloseReturns, rest, TaEntry, TypeInv
    <2>2. TypeOK'
      BY <2>1, ReleaseTyped DEF TypeOK
    <2>3. IdBounds'
      BY <2>1, IdBoundsKept, ReleaseHasInstance
    <2> QED BY <2>1, <2>2, <2>3, ReleaseHasInstance DEF TypeInv, CallHasInstance, TaEntry
  <1>7. CASE DestroyReturns
    BY <1>7, <1>iid, DefaultsTyped DEF DestroyReturns, Answer, Codes, rest, TypeInv, TypeOK,
       IdBounds, CallHasInstance, TaEntry, Idle
  <1>8. CASE PtaCloseReturns
    BY <1>8, DefaultsTyped DEF PtaCloseReturns, Answer, Codes, rest, tables, TypeInv, TypeOK,
       IdBounds, CallHasInstance, TaEntry, Idle
  <1> QED BY <1>1, <1>2, <1>3, <1>4, <1>5, <1>6, <1>7, <1>8 DEF EntryReturns

\* Panics keep the type invariant.
LEMMA PanicsTyped ==
    ASSUME TypeInv, Panics
    PROVE  TypeInv'
  <1> USE KernelAssumption
  <1>1. /\ call.at \in TaEntry \cup PtaEntry
        /\ UNCHANGED <<next_sid, next_iid, yielding, notices_ok, cancelled>>
        /\ \/ /\ call' = [call EXCEPT !.at = "spin"] \/ HaltKernel
              /\ UNCHANGED <<instances, sessions, current_instance, current_pta, out>>
              /\ \/ call' = [call EXCEPT !.at = "spin"]
                 \/ call' = [call EXCEPT !.at = "halted"]
           \/ OnTaPanic
    BY DEF Panics, TaPanics, PtaPanics, OnPanic, HaltKernel
  <1>2. CASE /\ UNCHANGED <<instances, sessions, current_instance, current_pta, out>>
             /\ \/ call' = [call EXCEPT !.at = "spin"]
                \/ call' = [call EXCEPT !.at = "halted"]
    <2>1. call' \in Call /\ call'.at \in {"spin", "halted"}
      BY <1>2 DEF TypeInv, TypeOK, Call
    <2>2. TypeOK'
      BY <1>1, <1>2, <2>1 DEF TypeInv, TypeOK
    <2>3. IdBounds'
      BY <1>1, <2>1, IdBoundsKept
    <2> QED BY <2>1, <2>2, <2>3 DEF TypeInv, CallHasInstance, TaEntry
  <1>3. CASE OnTaPanic
    <2>1. instances' \in [InstanceId -> Instance]
      <3>1. CASE current_instance = None
        BY <1>3, <3>1 DEF OnTaPanic, TypeInv, TypeOK
      <3>2. CASE current_instance # None
        <4>1. current_instance \in InstanceId
          BY <3>2 DEF TypeInv, TypeOK
        <4>2. [instances[current_instance] EXCEPT !.state = "Dead", !.aspace = FALSE,
                   !.mapped = 0] \in Instance
          BY <4>1, Zenon DEF TypeInv, TypeOK, Instance
        <4> QED BY <1>3, <3>2, <4>1, <4>2, Zenon DEF OnTaPanic, TypeInv, TypeOK
      <3> QED BY <3>1, <3>2
    <2>2. sessions' \in [SessionId -> Session]
      <3>1. \A s \in SessionId : [sessions[s] EXCEPT !.state = "Dead"] \in Session
        BY DEF TypeInv, TypeOK, Session
      <3> QED BY <1>3, <3>1 DEF OnTaPanic, PoisonInstance, TypeInv, TypeOK
    <2>3. /\ current_instance' = None /\ call' = Idle /\ out' \in Codes
          /\ UNCHANGED current_pta
      BY <1>3 DEF OnTaPanic, Answer, Codes
    <2>4. TypeOK'
      BY <1>1, <2>1, <2>2, <2>3, DefaultsTyped DEF TypeInv, TypeOK
    <2>5. IdBounds'
      BY <1>1, <2>3, IdBoundsKept DEF Idle
    <2> QED BY <2>3, <2>4, <2>5 DEF TypeInv, CallHasInstance, TaEntry, Idle
  <1> QED BY <1>1, <1>2, <1>3

\* The commands that touch no table keep the type invariant.
LEMMA OthersTyped ==
    ASSUME TypeInv,
           \/ Refuse \/ EmitReeNotices \/ (\E cid \in CancelIds : Cancel(cid))
           \/ LoopForever \/ UNCHANGED vars
    PROVE  TypeInv'
  <1>1. CASE Refuse
    BY <1>1 DEF Refuse, tables, rest, Codes, TypeInv, TypeOK, IdBounds, CallHasInstance, TaEntry
  <1>2. CASE EmitReeNotices
    BY <1>2 DEF EmitReeNotices, tables, TypeInv, TypeOK, IdBounds, CallHasInstance, TaEntry
  <1>3. CASE \E cid \in CancelIds : Cancel(cid)
    BY <1>3 DEF Cancel, tables, Codes, TypeInv, TypeOK, IdBounds, CallHasInstance, TaEntry
  <1>4. CASE LoopForever \/ UNCHANGED vars
    BY <1>4 DEF LoopForever, vars, TypeInv, TypeOK, IdBounds, CallHasInstance
  <1> QED BY <1>1, <1>2, <1>3, <1>4

\* The type invariant is inductive.
LEMMA TypeInvInductive == TypeInv /\ [Next]_vars => TypeInv'
  BY OpenTyped, RpcTyped, InvokeTyped, CloseTyped, ReturnsTyped, PanicsTyped, OthersTyped
     DEF Next

\* Every field of Kernel keeps its type, and ids stay below the bound of the
\* model, for all TAs, images, parameter lists and table sizes.
THEOREM TypeCorrect == Spec => []TypeOK
  <1>1. TypeInv => TypeOK
    BY DEF TypeInv
  <1> QED BY <1>1, InitTyped, TypeInvInductive, PTL DEF Spec

=============================================================================
