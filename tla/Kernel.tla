------------------------------- MODULE Kernel -------------------------------
(***************************************************************************)
(* The RUSTEE kernel (crates/rustee-os): the session table, the instance   *)
(* table, the single yielding LOAD_TA call, cancellation and panics.       *)
(*                                                                         *)
(* A command (Kernel::handle) runs to completion under &mut self, so it is *)
(* one action, except where it calls into a TA or a PTA: the entry point   *)
(* may return a code or panic, and a panic abandons the rest of the        *)
(* handler.  `call' says which entry point is running; an action named     *)
(* ...Returns is the remainder of the handler after that entry point.      *)
(*                                                                         *)
(* The two tables are maps from the id the table handed out; SlotTable     *)
(* shows that the slot vectors of the code implement these maps while the  *)
(* 32-bit id counter has not wrapped.                                      *)
(***************************************************************************)
EXTENDS Naturals, FiniteSets

CONSTANTS
    Uuid,          \* TA and PTA identities
    Ptas,          \* identities the PTA registry knows
    Images,        \* what load_image accepts: parsed headers of TA images
    Early,         \* registered early TAs: a function from Uuid to images
    Params,        \* parameter lists of a call, as map_params sees them
    CancelIds,     \* cancellation ids of clients
    MaxSessions,   \* MAX_SESSIONS
    MaxInstances,  \* MAX_INSTANCES
    IdMax,         \* bound: ids handed out before the run stops opening
    MaxMapped,     \* bound: shared memory mappings of one instance
    ReeHost,       \* entropy comes from the REE host
    GuestBuild     \* TA code built for the bare guest (target_os = "none")

\* TaProperties and whether the image exports the five entry points.
Image == [uuid : Uuid, single_instance : BOOLEAN, multi_session : BOOLEAN,
          instance_keep_alive : BOOLEAN, entries : BOOLEAN]

\* TaProperties::validate, for the fields that decide instance life cycles.
Validate(img) ==
    img.single_instance \/ (~img.multi_session /\ ~img.instance_keep_alive)

\* A parameter list: `good' REE memrefs that map, then the memref that does
\* not, if any: its range exceeds the shared memory ("long"), or its cookie is
\* unknown, its sync or its mapping fails ("bad").
ParamList == [good : 0..MaxMapped, fail : {"none", "long", "bad"}]

ASSUME KernelAssumption ==
    /\ Uuid # {} /\ Ptas \subseteq Uuid
    /\ Images \subseteq Image /\ \A img \in Images : Validate(img)
    /\ DOMAIN Early \subseteq Uuid /\ \A u \in DOMAIN Early : Early[u] \in Image
    /\ Params \subseteq ParamList
    /\ MaxSessions \in Nat /\ MaxInstances \in Nat
    /\ IdMax \in Nat /\ MaxMapped \in Nat
    /\ ReeHost \in BOOLEAN /\ GuestBuild \in BOOLEAN

VARIABLES
    sessions,          \* SessionTable: session id -> session
    next_sid,          \* its next_id
    instances,         \* InstanceTable: instance id -> instance
    next_iid,          \* its next_id
    yielding,          \* the open that waits for LOAD_TA, or NoLoad
    current_instance,  \* Option<InstanceId>, 0 for None
    current_pta,
    notices_ok,
    cancelled,         \* the ids Cancel was called with
    call,              \* the entry point that is running
    out                \* code of the last answer

tables == <<sessions, next_sid, instances, next_iid>>
rest == <<yielding, current_pta, notices_ok, cancelled>>
vars == <<sessions, next_sid, instances, next_iid, yielding, current_instance,
          current_pta, notices_ok, cancelled, call, out>>

SessionId == 1..IdMax
InstanceId == 1..IdMax
None == 0

AnyUuid == CHOOSE u \in Uuid : TRUE

Session == [state : {"Free", "Ready", "Dead"}, kind : {"UserTa", "Pta"},
            uuid : Uuid, instance : InstanceId \cup {None}]
NoSession == [state |-> "Free", kind |-> "Pta", uuid |-> AnyUuid, instance |-> None]

\* aspace: the instance holds its address space; mapped: SHM mappings in it.
Instance == [state : {"Free", "Live", "Dead"}, uuid : Uuid, props : Image,
             aspace : BOOLEAN, mapped : Nat, session_count : Nat, busy : BOOLEAN]
NoInstance == [state |-> "Free", uuid |-> AnyUuid,
               props |-> [uuid |-> AnyUuid, single_instance |-> FALSE,
                          multi_session |-> FALSE, instance_keep_alive |-> FALSE,
                          entries |-> FALSE],
               aspace |-> FALSE, mapped |-> 0, session_count |-> 0, busy |-> FALSE]

NoParams == [good |-> 0, fail |-> "none"]

Load == [active : BOOLEAN, uuid : Uuid, params : ParamList, cancel_id : CancelIds \cup {None}]
NoLoad == [active |-> FALSE, uuid |-> AnyUuid, params |-> NoParams, cancel_id |-> None]

\* Entry points of a user TA and of a PTA.  "spin" is the wfe loop of
\* tee_panic in a guest build, "halted" the loop of halt_kernel.
TaEntry == {"create", "open", "invoke", "close", "destroy"}
PtaEntry == {"pta_open", "pta_invoke", "pta_close"}
Call == [at : {"idle", "spin", "halted"} \cup TaEntry \cup PtaEntry,
         iid : InstanceId \cup {None}, uuid : Uuid, params : ParamList]
Idle == [at |-> "idle", iid |-> None, uuid |-> AnyUuid, params |-> NoParams]
Run(entry, iid, p) == [at |-> entry, iid |-> iid, uuid |-> AnyUuid, params |-> p]
RunPta(entry, u) == [at |-> entry, iid |-> None, uuid |-> u, params |-> NoParams]

Codes == {"SUCCESS", "RPC", "CANCEL", "BUSY", "OUT_OF_MEMORY", "TARGET_DEAD", "SECURITY",
          "BAD_PARAMETERS", "ITEM_NOT_FOUND", "NOT_SUPPORTED", "LOAD_ERROR",
          "RPC_ERROR", "TA_ERROR"}

Init ==
    /\ sessions = [s \in SessionId |-> NoSession]
    /\ next_sid = 1
    /\ instances = [i \in InstanceId |-> NoInstance]
    /\ next_iid = 1
    /\ yielding = NoLoad
    /\ current_instance = None
    /\ current_pta = FALSE
    /\ notices_ok = ~ReeHost
    /\ cancelled = {}
    /\ call = Idle
    /\ out = "SUCCESS"

-----------------------------------------------------------------------------
(* The tables *)

UsedSessions == {s \in SessionId : sessions[s].state # "Free"}
UsedInstances == {i \in InstanceId : instances[i].state # "Free"}

\* The sessions that name instance i, Dead ones included.
SessionsOf(i) == {s \in UsedSessions : sessions[s].instance = i}

\* A faulty live_single, for mutation: it only finds instances in use.
LiveSinglesInUse(u) ==
    {i \in InstanceId : /\ instances[i].state = "Live"
                        /\ instances[i].uuid = u
                        /\ instances[i].props.single_instance
                        /\ instances[i].session_count > 0}

\* Instances that InstanceTable::live_single may return for u.
LiveSingles(u) ==
    {i \in InstanceId : /\ instances[i].state = "Live"
                        /\ instances[i].uuid = u
                        /\ instances[i].props.single_instance}

\* A faulty lock_instance, for mutation: it does not look at busy.
LockCodeAnyway(i) ==
    IF instances[i].state = "Free" THEN "TARGET_DEAD" ELSE "SUCCESS"

\* lock_instance: the code of its Err, or SUCCESS.
LockCode(i) ==
    IF instances[i].state = "Free" THEN "TARGET_DEAD"
    ELSE IF instances[i].busy THEN "BUSY" ELSE "SUCCESS"

\* A faulty unlock_instance, for mutation: it skips instances without sessions.
UnlockInUse(tab, iid) ==
    [tab EXCEPT ![iid].busy = (tab[iid].session_count = 0)]

\* unlock_instance.
Unlock(tab, iid) == [tab EXCEPT ![iid].busy = FALSE]

\* A faulty test of open_user_ta, for mutation: off by one.
SessionLimitOffByOne(i) ==
    ~instances[i].props.multi_session /\ instances[i].session_count > 1

\* The instance does not take another session.
SessionLimit(i) ==
    ~instances[i].props.multi_session /\ instances[i].session_count > 0

\* map_params on an instance: its result and what it leaves of the instance.
\* The address space is taken out first and put back at the end and on the
\* length error, but not on the other errors.
MapCode(inst, p) ==
    IF ~inst.aspace THEN "TARGET_DEAD"
    ELSE IF p.fail = "none" THEN "SUCCESS" ELSE "BAD_PARAMETERS"
MapParams(inst, p) ==
    IF ~inst.aspace THEN inst
    ELSE IF p.fail = "bad" THEN [inst EXCEPT !.aspace = FALSE, !.mapped = 0]
    ELSE [inst EXCEPT !.mapped = @ + p.good]

\* A faulty unmap_params, for mutation: it unmaps one memref too many.
UnmapOneMore(inst, p) == [inst EXCEPT !.mapped = @ - (p.good + 1)]

\* unmap_params: one unmap per memref that was mapped.
UnmapParams(inst, p) ==
    [inst EXCEPT !.mapped = IF @ >= p.good THEN @ - p.good ELSE 0]

\* Bounds of the model: a call that may hand out ids starts only while ids are
\* left (one is kept for the open that waits for LOAD_TA), and a call maps only
\* up to MaxMapped.
IdsLeft ==
    LET reserved == IF yielding.active THEN 1 ELSE 0
    IN  next_sid + reserved <= IdMax /\ next_iid + reserved <= IdMax
MapRoom(i, p) == instances[i].mapped + p.good <= MaxMapped

-----------------------------------------------------------------------------
(* Answers *)

Ready == call.at = "idle" /\ notices_ok

\* The handler answers; no entry point is running any more.
Answer(code) ==
    /\ call' = Idle
    /\ out' = code

\* handle before the REE notices were written.
Refuse ==
    /\ call.at = "idle"
    /\ ~notices_ok
    /\ out' = "SECURITY"
    /\ UNCHANGED <<tables, current_instance, call, rest>>

\* emit_ree_notices whose writes succeed; a failed write changes nothing.
EmitReeNotices ==
    /\ call.at = "idle"
    /\ notices_ok' = TRUE
    /\ UNCHANGED <<tables, yielding, current_instance, current_pta, cancelled, call, out>>

Cancel(cid) ==
    /\ Ready
    /\ cancelled' = cancelled \cup {cid}
    /\ out' = "SUCCESS"
    /\ UNCHANGED <<tables, yielding, current_instance, current_pta, notices_ok, call>>

-----------------------------------------------------------------------------
(* bind_session and instantiate_and_bind *)

\* A faulty end of bind_session, for mutation: the session is counted before
\* the table is known to have a slot for it.
AddSessionCountFirst(tab, iid) ==
    /\ next_sid' = next_sid + 1
    /\ instances' = [tab EXCEPT ![iid].session_count = @ + 1, ![iid].busy = FALSE]
    /\ IF Cardinality(UsedSessions) < MaxSessions
       THEN /\ sessions' = [sessions EXCEPT ![next_sid] =
                    [state |-> "Ready", kind |-> "UserTa", uuid |-> tab[iid].uuid,
                     instance |-> iid]]
            /\ Answer("SUCCESS")
       ELSE Answer("OUT_OF_MEMORY") /\ UNCHANGED sessions

\* The end of bind_session: the TA accepted the session.  `tab' is the instance
\* table at that point; the caller unlocks the instance.
AddSession(tab, iid) ==
    /\ next_sid' = next_sid + 1
    /\ IF Cardinality(UsedSessions) < MaxSessions
       THEN /\ sessions' = [sessions EXCEPT ![next_sid] =
                    [state |-> "Ready", kind |-> "UserTa", uuid |-> tab[iid].uuid,
                     instance |-> iid]]
            /\ instances' = Unlock([tab EXCEPT ![iid].session_count = @ + 1], iid)
            /\ Answer("SUCCESS")
       ELSE /\ instances' = Unlock(tab, iid)
            /\ Answer("OUT_OF_MEMORY")
            /\ UNCHANGED sessions

\* bind_session up to the entry point, for a locked instance of `tab'.
BindSession(tab, iid, p) ==
    LET inst == MapParams(tab[iid], p)
        code == MapCode(tab[iid], p)
    IN  IF ~tab[iid].props.entries
        THEN AddSession(tab, iid) /\ current_instance' = None
        ELSE /\ UNCHANGED <<sessions, next_sid>>
             /\ IF code = "SUCCESS"
                THEN /\ instances' = [tab EXCEPT ![iid] = inst]
                     /\ current_instance' = iid
                     /\ call' = Run("open", iid, p)
                     /\ UNCHANGED out
                ELSE /\ instances' = Unlock([tab EXCEPT ![iid] = inst], iid)
                     /\ current_instance' = None
                     /\ Answer(code)

NewInstance(img, u) ==
    [state |-> "Live", uuid |-> u, props |-> img, aspace |-> TRUE, mapped |-> 0,
     session_count |-> 0, busy |-> TRUE]

InstantiateAndBind(img, u, p) ==
    LET tab == [instances EXCEPT ![next_iid] = NewInstance(img, u)]
    IN  IF img.uuid # u
        THEN /\ Answer("SECURITY")
             /\ UNCHANGED <<tables, current_instance>>
        ELSE /\ next_iid' = next_iid + 1
             /\ IF Cardinality(UsedInstances) >= MaxInstances
                THEN /\ Answer("OUT_OF_MEMORY")
                     /\ UNCHANGED <<sessions, next_sid, instances, current_instance>>
                ELSE IF img.entries
                THEN /\ instances' = tab
                     /\ current_instance' = next_iid
                     /\ call' = Run("create", next_iid, p)
                     /\ UNCHANGED <<sessions, next_sid, out>>
                ELSE BindSession(tab, next_iid, p)

\* instantiate_and_bind after ep.create().
CreateReturns(ok) ==
    LET iid == call.iid
    IN  /\ call.at = "create"
        /\ IF ok
           THEN BindSession(instances, iid, call.params)
           ELSE /\ instances' = [instances EXCEPT ![iid] = NoInstance]
                /\ current_instance' = None
                /\ Answer("TA_ERROR")
                /\ UNCHANGED <<sessions, next_sid>>
        /\ UNCHANGED <<next_iid, rest>>

\* bind_session after ep.open_session().
OpenReturns(ok) ==
    LET iid == call.iid
        tab == [instances EXCEPT ![iid] = UnmapParams(@, call.params)]
    IN  /\ call.at = "open"
        /\ current_instance' = None
        /\ IF ok
           THEN AddSession(tab, iid)
           ELSE /\ instances' = Unlock(tab, iid)
                /\ Answer("TA_ERROR")
                /\ UNCHANGED <<sessions, next_sid>>
        /\ UNCHANGED <<next_iid, rest>>

-----------------------------------------------------------------------------
(* OpenSession *)

OpenCancelled(cid) ==
    /\ Ready
    /\ cid \in cancelled
    /\ Answer("CANCEL")
    /\ UNCHANGED <<tables, current_instance, rest>>

OpenPta(u, cid) ==
    /\ Ready /\ IdsLeft
    /\ cid \notin cancelled
    /\ u \in Ptas
    /\ call' = RunPta("pta_open", u)
    /\ UNCHANGED <<tables, current_instance, out, rest>>

PtaOpenReturns(ok) ==
    /\ call.at = "pta_open"
    /\ IF ok
       THEN /\ next_sid' = next_sid + 1
            /\ IF Cardinality(UsedSessions) < MaxSessions
               THEN /\ sessions' = [sessions EXCEPT ![next_sid] =
                            [state |-> "Ready", kind |-> "Pta", uuid |-> call.uuid,
                             instance |-> None]]
                    /\ Answer("SUCCESS")
               ELSE Answer("OUT_OF_MEMORY") /\ UNCHANGED sessions
       ELSE /\ Answer("TA_ERROR")
            /\ UNCHANGED <<sessions, next_sid>>
    /\ UNCHANGED <<instances, next_iid, current_instance, rest>>

\* open_user_ta, a live single instance exists.
OpenLive(u, cid, p) ==
    /\ Ready /\ IdsLeft
    /\ cid \notin cancelled
    /\ u \notin Ptas
    /\ \E i \in LiveSingles(u) :
          LET code == IF SessionLimit(i) THEN "BUSY" ELSE LockCode(i)
          IN  /\ MapRoom(i, p)
              /\ IF code = "SUCCESS"
                 THEN BindSession([instances EXCEPT ![i].busy = TRUE], i, p)
                 ELSE /\ Answer(code)
                      /\ UNCHANGED <<sessions, next_sid, instances, current_instance>>
    /\ UNCHANGED <<next_iid, rest>>

\* open_user_ta, no live single instance and an early TA is registered.
OpenEarly(u, cid, p) ==
    /\ Ready /\ IdsLeft
    /\ cid \notin cancelled
    /\ u \in DOMAIN Early \ Ptas
    /\ LiveSingles(u) = {}
    /\ InstantiateAndBind(Early[u], u, p)
    /\ UNCHANGED <<rest>>

\* open_user_ta, the image has to come from the REE.
OpenLoad(u, cid, p) ==
    /\ Ready
    /\ cid \notin cancelled
    /\ u \notin Ptas \cup DOMAIN Early
    /\ LiveSingles(u) = {}
    /\ IF yielding.active
       THEN out' = "BUSY" /\ UNCHANGED yielding
       ELSE /\ IdsLeft
            /\ yielding' = [active |-> TRUE, uuid |-> u, params |-> p, cancel_id |-> cid]
            /\ out' = "RPC"
    /\ UNCHANGED <<tables, current_instance, current_pta, notices_ok, cancelled, call>>

-----------------------------------------------------------------------------
(* RpcComplete *)

RpcSpurious ==
    /\ Ready
    /\ ~yielding.active
    /\ Answer("BAD_PARAMETERS")
    /\ UNCHANGED <<tables, current_instance, rest>>

\* A faulty error path of rpc_complete, for mutation: the open keeps waiting.
RpcFailsKeepsWaiting(code) ==
    /\ Ready
    /\ yielding.active
    /\ Answer(code)
    /\ UNCHANGED <<tables, current_instance, rest>>

\* A rpc_complete that does not look at the cancelled ids, for mutation.
NeverCancelled == FALSE

\* The open that waits for LOAD_TA was cancelled meanwhile.
LoadCancelled == yielding.cancel_id \in cancelled

\* The reply is an error, not a LOAD_TA reply, or bytes that load_image or
\* map_elf rejects.
RpcFails(code) ==
    /\ Ready
    /\ yielding.active
    /\ yielding' = NoLoad
    /\ Answer(IF code = "LOAD_ERROR" /\ LoadCancelled
              THEN "CANCEL" ELSE code)
    /\ UNCHANGED <<tables, current_instance, current_pta, notices_ok, cancelled>>

RpcImage(img) ==
    /\ Ready
    /\ yielding.active
    /\ yielding' = NoLoad
    /\ IF LoadCancelled
       THEN Answer("CANCEL") /\ UNCHANGED <<tables, current_instance>>
       ELSE InstantiateAndBind(img, yielding.uuid, yielding.params)
    /\ UNCHANGED <<current_pta, notices_ok, cancelled>>

-----------------------------------------------------------------------------
(* Invoke *)

\* The early returns of invoke, before the session's target is called.
InvokeCode(sid, cid) ==
    IF cid \in cancelled THEN "CANCEL"
    ELSE IF sessions[sid].state = "Free" THEN "BAD_PARAMETERS"
    ELSE IF sessions[sid].state = "Dead" THEN "TARGET_DEAD"
    ELSE IF sessions[sid].kind = "Pta"
    THEN IF sessions[sid].uuid \in Ptas THEN "SUCCESS" ELSE "ITEM_NOT_FOUND"
    ELSE IF sessions[sid].instance = None THEN "TARGET_DEAD"
    ELSE LockCode(sessions[sid].instance)

InvokeRefused(sid, cid) ==
    /\ Ready
    /\ InvokeCode(sid, cid) # "SUCCESS"
    /\ Answer(InvokeCode(sid, cid))
    /\ UNCHANGED <<tables, current_instance, rest>>

InvokePta(sid, cid) ==
    /\ Ready
    /\ InvokeCode(sid, cid) = "SUCCESS"
    /\ sessions[sid].kind = "Pta"
    /\ current_pta' = TRUE
    /\ call' = RunPta("pta_invoke", sessions[sid].uuid)
    /\ UNCHANGED <<tables, yielding, current_instance, notices_ok, cancelled, out>>

PtaInvokeReturns(ok) ==
    /\ call.at = "pta_invoke"
    /\ current_pta' = FALSE
    /\ Answer(IF ok THEN "SUCCESS" ELSE "TA_ERROR")
    /\ UNCHANGED <<tables, yielding, current_instance, notices_ok, cancelled>>

InvokeTa(sid, cid, p) ==
    LET iid == sessions[sid].instance
        inst == MapParams(instances[iid], p)
        code == MapCode(instances[iid], p)
    IN  /\ Ready
        /\ InvokeCode(sid, cid) = "SUCCESS"
        /\ sessions[sid].kind = "UserTa"
        /\ MapRoom(iid, p)
        /\ IF code = "SUCCESS" /\ instances[iid].props.entries
           THEN /\ instances' = [instances EXCEPT ![iid] = [inst EXCEPT !.busy = TRUE]]
                /\ current_instance' = iid
                /\ call' = Run("invoke", iid, p)
                /\ UNCHANGED out
           ELSE /\ instances' = [instances EXCEPT ![iid] =
                        IF code = "SUCCESS" THEN UnmapParams(inst, p) ELSE inst]
                /\ current_instance' = None
                /\ Answer(code)
        /\ UNCHANGED <<sessions, next_sid, next_iid, rest>>

InvokeReturns(ok) ==
    /\ call.at = "invoke"
    /\ instances' = Unlock([instances EXCEPT ![call.iid] = UnmapParams(@, call.params)],
                           call.iid)
    /\ current_instance' = None
    /\ Answer(IF ok THEN "SUCCESS" ELSE "TA_ERROR")
    /\ UNCHANGED <<sessions, next_sid, next_iid, rest>>

-----------------------------------------------------------------------------
(* CloseSession *)

CloseUnknown(sid) ==
    /\ Ready
    /\ sessions[sid].state = "Free"
    /\ Answer("BAD_PARAMETERS")
    /\ UNCHANGED <<tables, current_instance, rest>>

ClosePta(sid) ==
    /\ Ready
    /\ sessions[sid].state # "Free" /\ sessions[sid].kind = "Pta"
    /\ sessions' = [sessions EXCEPT ![sid] = NoSession]
    /\ IF sessions[sid].uuid \in Ptas
       THEN call' = RunPta("pta_close", sessions[sid].uuid) /\ UNCHANGED out
       ELSE Answer("SUCCESS")
    /\ UNCHANGED <<next_sid, instances, next_iid, current_instance, rest>>

PtaCloseReturns ==
    /\ call.at = "pta_close"
    /\ Answer("SUCCESS")
    /\ UNCHANGED <<tables, current_instance, rest>>

\* close after ep.close_session(), and at once for a TA without entry points.
\* The last session of an instance that is not kept alive ends it.
ReleaseInstance(iid) ==
    LET inst == instances[iid]
        count == IF inst.session_count > 0 THEN inst.session_count - 1 ELSE 0
    IN  IF count = 0 /\ ~inst.props.instance_keep_alive
        THEN IF inst.props.entries
             THEN /\ instances' = [instances EXCEPT ![iid].session_count = 0,
                                                    ![iid].busy = TRUE]
                  /\ current_instance' = iid
                  /\ call' = Run("destroy", iid, NoParams)
                  /\ UNCHANGED out
             ELSE /\ instances' = [instances EXCEPT ![iid] = NoInstance]
                  /\ current_instance' = None
                  /\ Answer("SUCCESS")
        ELSE /\ instances' = Unlock([instances EXCEPT ![iid].session_count = count], iid)
             /\ current_instance' = None
             /\ Answer("SUCCESS")

\* The session leaves the table before its instance is locked.
CloseTa(sid) ==
    LET iid == sessions[sid].instance
    IN  /\ Ready
        /\ sessions[sid].state # "Free" /\ sessions[sid].kind = "UserTa"
        /\ sessions' = [sessions EXCEPT ![sid] = NoSession]
        /\ IF iid = None
           THEN Answer("SUCCESS") /\ UNCHANGED <<instances, current_instance>>
           ELSE IF LockCode(iid) # "SUCCESS"
           THEN Answer(LockCode(iid)) /\ UNCHANGED <<instances, current_instance>>
           ELSE IF instances[iid].props.entries
           THEN /\ instances' = [instances EXCEPT ![iid].busy = TRUE]
                /\ current_instance' = iid
                /\ call' = Run("close", iid, NoParams)
                /\ UNCHANGED out
           ELSE ReleaseInstance(iid)
        /\ UNCHANGED <<next_sid, next_iid, rest>>

CloseReturns ==
    /\ call.at = "close"
    /\ ReleaseInstance(call.iid)
    /\ UNCHANGED <<sessions, next_sid, next_iid, rest>>

DestroyReturns ==
    /\ call.at = "destroy"
    /\ instances' = [instances EXCEPT ![call.iid] = NoInstance]
    /\ current_instance' = None
    /\ Answer("SUCCESS")
    /\ UNCHANGED <<sessions, next_sid, next_iid, rest>>

-----------------------------------------------------------------------------
(* Panics *)

\* Faulty versions of poison_instance, for mutation: no session is marked, all
\* sessions of the same TA are, or all sessions in the table.
PoisonNothing(iid) == sessions
PoisonWholeTa(iid) ==
    [s \in SessionId |->
        IF sessions[s].state # "Free" /\ sessions[s].uuid = instances[iid].uuid
        THEN [sessions[s] EXCEPT !.state = "Dead"] ELSE sessions[s]]

PoisonAll(iid) ==
    [s \in SessionId |->
        IF s \in UsedSessions THEN [sessions[s] EXCEPT !.state = "Dead"] ELSE sessions[s]]

\* SessionTable::poison_instance.
PoisonInstance(iid) ==
    [s \in SessionId |->
        IF s \in SessionsOf(iid) THEN [sessions[s] EXCEPT !.state = "Dead"] ELSE sessions[s]]

\* Faulty versions of on_ta_panic, for mutation: the instance is unlocked and
\* lives on without its sessions, or the kernel waits for the TA.
OnTaPanicSparesInstance ==
    LET iid == current_instance
    IN  /\ current_instance' = None
        /\ IF iid = None
           THEN UNCHANGED <<instances, sessions>>
           ELSE instances' = Unlock(instances, iid) /\ sessions' = PoisonInstance(iid)
        /\ Answer("TARGET_DEAD")
        /\ UNCHANGED current_pta

OnTaPanicWaits ==
    /\ call' = [call EXCEPT !.at = "spin"]
    /\ UNCHANGED <<instances, sessions, current_instance, current_pta, out>>

\* on_ta_panic.  The instance stays locked: the handler that locked it is gone.
OnTaPanic ==
    LET iid == current_instance
    IN  /\ current_instance' = None
        /\ IF iid = None
           THEN UNCHANGED <<instances, sessions>>
           ELSE /\ instances' = [instances EXCEPT ![iid].state = "Dead",
                                                  ![iid].aspace = FALSE,
                                                  ![iid].mapped = 0]
                /\ sessions' = PoisonInstance(iid)
        /\ Answer("TARGET_DEAD")
        /\ UNCHANGED current_pta

HaltKernel ==
    /\ call' = [call EXCEPT !.at = "halted"]
    /\ UNCHANGED <<instances, sessions, current_instance, current_pta, out>>

OnPanic == IF current_pta THEN HaltKernel ELSE OnTaPanic

\* TEE_Panic in a TA entry point: in a guest build the TA spins and never comes
\* back to the kernel.
TaPanics ==
    /\ call.at \in TaEntry
    /\ IF GuestBuild
       THEN /\ call' = [call EXCEPT !.at = "spin"]
            /\ UNCHANGED <<instances, sessions, current_instance, current_pta, out>>
       ELSE OnPanic
    /\ UNCHANGED <<next_sid, next_iid, yielding, notices_ok, cancelled>>

\* A PTA is kernel code: in a guest build the guest's panic handler stops.
PtaPanics ==
    /\ call.at \in PtaEntry
    /\ IF GuestBuild THEN HaltKernel ELSE OnPanic
    /\ UNCHANGED <<next_sid, next_iid, yielding, notices_ok, cancelled>>

\* The loops of tee_panic and halt_kernel.
LoopForever ==
    /\ call.at \in {"spin", "halted"}
    /\ UNCHANGED vars

-----------------------------------------------------------------------------

OpenSession ==
    \E u \in Uuid, cid \in CancelIds, p \in Params :
        \/ OpenCancelled(cid)
        \/ OpenPta(u, cid)
        \/ OpenLive(u, cid, p)
        \/ OpenEarly(u, cid, p)
        \/ OpenLoad(u, cid, p)

RpcComplete ==
    \/ RpcSpurious
    \/ \E code \in {"RPC_ERROR", "NOT_SUPPORTED", "LOAD_ERROR"} : RpcFails(code)
    \/ \E img \in Images : RpcImage(img)

Invoke ==
    \E sid \in SessionId, cid \in CancelIds, p \in Params :
        \/ InvokeRefused(sid, cid)
        \/ InvokePta(sid, cid)
        \/ InvokeTa(sid, cid, p)

CloseSession ==
    \E sid \in SessionId : CloseUnknown(sid) \/ ClosePta(sid) \/ CloseTa(sid)

\* The entry point that is running returns.
EntryReturns ==
    \/ \E ok \in BOOLEAN :
          \/ CreateReturns(ok) \/ OpenReturns(ok) \/ InvokeReturns(ok)
          \/ PtaOpenReturns(ok) \/ PtaInvokeReturns(ok)
    \/ CloseReturns \/ DestroyReturns \/ PtaCloseReturns

Panics == TaPanics \/ PtaPanics

Next ==
    \/ Refuse
    \/ EmitReeNotices
    \/ \E cid \in CancelIds : Cancel(cid)
    \/ OpenSession
    \/ RpcComplete
    \/ Invoke
    \/ CloseSession
    \/ EntryReturns
    \/ Panics
    \/ LoopForever

Spec == Init /\ [][Next]_vars

\* TA and PTA code does not run forever: it returns or panics.  The reply to
\* LOAD_TA, or the error that stands for it, is handed to the kernel in the end,
\* other commands before it or not.
LoadAnswered ==
    \/ \E code \in {"RPC_ERROR", "NOT_SUPPORTED", "LOAD_ERROR"} : RpcFails(code)
    \/ \E img \in Images : RpcImage(img)

FairSpec == Spec /\ WF_vars(EntryReturns \/ Panics) /\ SF_vars(LoadAnswered)

-----------------------------------------------------------------------------
(* Properties *)

\* Every variable has the type of the field of Kernel that it models.
TypeOK ==
    /\ sessions \in [SessionId -> Session]
    /\ next_sid \in 1..(IdMax + 1)
    /\ instances \in [InstanceId -> Instance]
    /\ next_iid \in 1..(IdMax + 1)
    /\ yielding \in Load
    /\ current_instance \in InstanceId \cup {None}
    /\ current_pta \in BOOLEAN
    /\ notices_ok \in BOOLEAN
    /\ cancelled \subseteq CancelIds
    /\ call \in Call
    /\ out \in Codes

\* A session that is not Dead belongs to a Live instance of the same TA: close
\* never drops an instance (count = 0, not kept alive) that another session
\* still uses, and a panic leaves no Ready session of the instance behind.
ReadySessionHasLiveInstance ==
    \A s \in SessionId :
        sessions[s].state = "Ready" /\ sessions[s].kind = "UserTa" =>
            LET i == sessions[s].instance
            IN  i # None /\ instances[i].state = "Live" /\ instances[i].uuid = sessions[s].uuid

\* session_count of a Live instance is the number of sessions in the table that
\* name it, plus the one that close has taken out and not yet counted: the
\* counter that decides when an instance is destroyed does not drift, whichever
\* of the paths through open, close and panic were taken.
SessionCountExact ==
    \A i \in InstanceId :
        instances[i].state = "Live" /\ call.at # "spin" =>
            instances[i].session_count =
                Cardinality(SessionsOf(i)) + (IF call.at = "close" /\ call.iid = i THEN 1 ELSE 0)

\* At most one instance of a single-instance TA is Live, although the test in
\* open_user_ta (live_single) and the creation in rpc_complete are separated by
\* the LOAD_TA call, during which other commands run.
OneLiveSingle ==
    \A i, j \in InstanceId :
        /\ instances[i].state = "Live" /\ instances[j].state = "Live"
        /\ instances[i].uuid = instances[j].uuid
        /\ instances[i].props.single_instance /\ instances[j].props.single_instance
        => i = j

\* A TA that does not allow multiple sessions never has two: neither through
\* live_single nor through an instance of its own per session.
OneSessionUnlessMulti ==
    \A s, t \in UsedSessions :
        /\ sessions[s].kind = "UserTa" /\ sessions[t].kind = "UserTa"
        /\ sessions[s].instance = sessions[t].instance
        /\ sessions[s].state = "Ready"
        /\ ~instances[sessions[s].instance].props.multi_session
        => s = t

\* The kernel runs the code of an instance only while that instance is Live and
\* locked, and current_instance names it, so that a panic is charged to the TA
\* that caused it and no code of a dead TA runs again (close of its sessions
\* included).
RunningInstanceIsLive ==
    call.at \in TaEntry =>
        /\ current_instance = call.iid
        /\ call.iid # None
        /\ instances[call.iid].state = "Live"
        /\ instances[call.iid].busy

\* Between calls no Live instance is locked and current_instance and
\* current_pta are clear: no error path of open, invoke or close leaves the TA
\* answering BUSY for ever.
NothingHeldWhenIdle ==
    call.at = "idle" =>
        /\ current_instance = None /\ ~current_pta
        /\ \A i \in InstanceId : instances[i].state = "Live" => ~instances[i].busy

\* The image of a TA stays mapped while its code runs: "Pointers returned by
\* map_image stay valid until drop_all" (rustee-hal-virt), and drop_all is only
\* called when the instance ends.
RunningTaIsMapped ==
    call.at \in TaEntry => instances[call.iid].aspace

\* What a panic leaves behind.
PanicContained ==
    /\ out' = "TARGET_DEAD" /\ call' = Idle
    /\ instances'[call.iid].state = "Dead"
    /\ \A i \in InstanceId \ {call.iid} : instances'[i] = instances[i]
    /\ \A s \in SessionId :
          sessions'[s] = IF s \in SessionsOf(call.iid)
                         THEN [sessions[s] EXCEPT !.state = "Dead"] ELSE sessions[s]

\* on_ta_panic: "poison that instance and its sessions only".  A panic of a TA
\* that comes back to the kernel is charged to the instance that ran, whichever
\* entry point it was in: that instance and all its sessions are Dead, no other
\* instance and no other session changes, and the kernel answers TARGET_DEAD and
\* goes on.
PanicPoisonsItsInstanceOnly == [][TaPanics /\ ~GuestBuild => PanicContained]_vars

\* A cancellation that arrives while the open waits for LOAD_TA wins: the reply
\* ends the open without an instance or a session.
CancelledLoadHasNoEffect ==
    [][yielding.active /\ ~yielding'.active /\ yielding.cancel_id \in cancelled
          => UNCHANGED <<instances, sessions>> /\ call'.at = "idle"]_vars

\* "PTA panics halt the kernel" (on_panic, and Pta in pta.rs): a step that takes
\* a running PTA entry point to TARGET_DEAD is a PTA panic that did not.
PtaPanicHalts ==
    [][call.at \in PtaEntry => out' # "TARGET_DEAD" \/ out = "TARGET_DEAD"]_vars

\* Every call into a TA or PTA comes to an end: "panicking TA dies; kernel does
\* not" (docs/architecture.md).
CallsReturn == call.at \in TaEntry ~> call.at \in {"idle", "halted"}

\* An open that waits for its image is answered, whatever commands come between,
\* unless a PTA panic halts the kernel.
LoadsEnd == yielding.active ~> ~yielding.active \/ call.at = "halted"

-----------------------------------------------------------------------------
(* The session service that the kernel implements *)

ClientState(s) ==
    IF s >= next_sid THEN "unused"
    ELSE CASE sessions[s].state = "Ready" -> "open"
           [] sessions[s].state = "Dead" -> "dead"
           [] sessions[s].state = "Free" -> "closed"

Service == INSTANCE SessionService WITH
    Ta <- Uuid, NoTa <- AnyUuid,
    state <- [s \in SessionId |-> ClientState(s)],
    owner <- [s \in SessionId |-> sessions[s].uuid],
    next <- next_sid

\* The kernel implements the session service: see SessionService.
ImplementsService == Service!ServiceSpec

=============================================================================
