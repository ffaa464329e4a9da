--------------------------- MODULE KernelSessions ---------------------------
(***************************************************************************)
(* The sessions of the kernel, for all constants: the counters as an       *)
(* inductive invariant, what it gives, and the session service as an       *)
(* implemented specification.                                              *)
(***************************************************************************)
EXTENDS KernelSteps

-----------------------------------------------------------------------------
(* The invariant of the sessions, one session and one instance at a time *)

\* The session that close took out of the table and has not yet counted down, and
\* the session that open has let in and not yet counted.
Owed(i) == IF call.at = "close" /\ call.iid = i THEN 1 ELSE 0
Opening(i) == IF call.at \in {"create", "open"} /\ call.iid = i THEN 1 ELSE 0

CountOf(i) ==
    instances[i].state = "Live" =>
        /\ Cardinality(NamedIn(sessions, i)) <= instances[i].session_count
        /\ call.at # "spin" =>
              instances[i].session_count = Cardinality(NamedIn(sessions, i)) + Owed(i)
        /\ ~instances[i].props.multi_session => instances[i].session_count + Opening(i) <= 1

TargetOf(s) ==
    LET x == sessions[s]
    IN  /\ x.state = "Ready" /\ x.kind = "UserTa" =>
              /\ x.instance # None
              /\ instances[x.instance].state = "Live" /\ instances[x.instance].uuid = x.uuid
        /\ x.state = "Free" => x = NoSession
        /\ x.state # "Free" /\ x.kind = "UserTa" => x.instance # None
        /\ x.kind = "Pta" => x.instance = None
        /\ x.state = "Dead" => x.kind = "UserTa" /\ instances[x.instance].state = "Dead"

SessionParts ==
    /\ UnusedIdsFree /\ NoSessionAtEnds
    /\ \A s \in SessionId : TargetOf(s)
    /\ \A i \in InstanceId : CountOf(i)

\* SessionInv says these of every session and every instance.
LEMMA PartsOfInv == SessionInv <=> SessionParts
  <1>1. SessionTargets <=> \A s \in SessionId : TargetOf(s)
    BY DEF SessionTargets, ReadySessionHasLiveInstance, TargetOf
  <1>2. \A i \in InstanceId : SessionsOf(i) = NamedIn(sessions, i)
    BY SessionsFinite
  <1>3. SessionCountExact <=>
            \A i \in InstanceId : instances[i].state = "Live" /\ call.at # "spin" =>
                instances[i].session_count = Cardinality(NamedIn(sessions, i)) + Owed(i)
    BY <1>2 DEF SessionCountExact, Owed
  <1>4. CountCovers <=>
            \A i \in InstanceId : instances[i].state = "Live" =>
                Cardinality(NamedIn(sessions, i)) <= instances[i].session_count
    BY <1>2 DEF CountCovers
  <1>5. SessionLimits <=>
            \A i \in InstanceId : instances[i].state = "Live" /\ ~instances[i].props.multi_session
                => instances[i].session_count + Opening(i) <= 1
    BY DEF SessionLimits, Opening
  <1>6. (SessionCountExact /\ CountCovers /\ SessionLimits) <=> \A i \in InstanceId : CountOf(i)
    BY <1>3, <1>4, <1>5 DEF CountOf
  <1> QED BY <1>1, <1>6 DEF SessionInv, SessionParts

\* The same of the next state.
LEMMA PartsNext ==
    ASSUME UnusedIdsFree', NoSessionAtEnds',
           \A s \in SessionId : TargetOf(s)',
           \A i \in InstanceId : CountOf(i)'
    PROVE  SessionInv'
  <1>1. SessionTargets'
    BY DEF SessionTargets, ReadySessionHasLiveInstance, TargetOf
  <1>2. \A i \in InstanceId : SessionsOf(i)' = NamedIn(sessions', i)
    BY SessionsFinite
  <1>3. SessionCountExact'
    BY <1>2 DEF SessionCountExact, CountOf, Owed
  <1>4. CountCovers'
    BY <1>2 DEF CountCovers, CountOf
  <1>5. SessionLimits'
    BY DEF SessionLimits, CountOf, Opening
  <1> QED BY <1>1, <1>3, <1>4, <1>5 DEF SessionInv

\* A session that stays as it is and does not name an instance that changes its
\* state or its TA keeps its target.
LEMMA TargetFrame ==
    ASSUME TypeOK, NEW iid, OnlyInstance(iid), NEW s \in SessionId, TargetOf(s),
           sessions'[s] = sessions[s],
           \/ SameTa(instances'[iid], instances[iid])
           \/ s \notin NamedIn(sessions, iid)
    PROVE  TargetOf(s)'
  <1>1. sessions[s] \in Session
    BY DEF TypeOK
  <1>2. sessions[s].instance \in InstanceId \cup {None}
    BY <1>1 DEF Session
  <1>3. CASE sessions[s].state = "Free" \/ sessions[s].instance = None
    BY <1>1, <1>3 DEF TargetOf, Session
  <1>4. CASE sessions[s].state # "Free" /\ sessions[s].instance # None
    <2>1. sessions[s].instance \in InstanceId
      BY <1>2, <1>4
    <2>2. SameTa(instances'[sessions[s].instance], instances[sessions[s].instance])
      BY <1>4, <2>1 DEF OnlyInstance, SameTa, NamedIn
    <2> QED BY <1>1, <1>4, <2>2, Zenon DEF TargetOf, SameTa, Session
  <1> QED BY <1>3, <1>4

\* What stands for no call, no instance and no session.
LEMMA Blanks == Idle.at = "idle" /\ NoInstance.state = "Free" /\ NoSession.state = "Free"
  BY DEF Idle, NoInstance, NoSession

\* An id without a session has none.
LEMMA NoTarget ==
    ASSUME NEW s \in SessionId, sessions'[s] = NoSession
    PROVE  TargetOf(s)'
  BY DEF TargetOf, NoSession

\* An instance that neither the call nor the tables touch keeps its count.
LEMMA CountFrame ==
    ASSUME TypeOK, NEW i \in InstanceId, CountOf(i), instances'[i] = instances[i],
           Cardinality(NamedIn(sessions', i)) = Cardinality(NamedIn(sessions, i)),
           call.at # "spin", Owed(i) = 0, Owed(i)' = 0, Opening(i)' = 0
    PROVE  CountOf(i)'
  <1>1. instances[i] \in Instance
    BY DEF TypeOK
  <1>2. instances[i].session_count \in Nat
    BY <1>1 DEF Instance
  <1>3. Opening(i) \in {0, 1}
    BY DEF Opening
  <1> QED BY <1>2, <1>3 DEF CountOf

\* The count of a live instance while no call spins and none is owed.
LEMMA CountMeans ==
    ASSUME NEW i, CountOf(i), instances[i].state = "Live", call.at # "spin", Owed(i) = 0,
           Cardinality(NamedIn(sessions, i)) \in Nat
    PROVE  instances[i].session_count = Cardinality(NamedIn(sessions, i))
  BY DEF CountOf

\* An instance that stays, with a count that did not grow, keeps its limit.
LEMMA CountKept ==
    ASSUME NEW i, CountOf(i), instances[i].state = "Live", SameTa(instances'[i], instances[i]),
           instances[i].session_count \in Nat, instances'[i].session_count \in Nat,
           instances'[i].session_count <= instances[i].session_count,
           Cardinality(NamedIn(sessions', i)) \in Nat,
           instances'[i].session_count = Cardinality(NamedIn(sessions', i)) + Owed(i)',
           Opening(i)' = 0
    PROVE  CountOf(i)'
  <1>1. Opening(i) \in {0, 1} /\ Owed(i)' \in {0, 1}
    BY Zenon DEF Opening, Owed
  <1> QED BY <1>1 DEF CountOf, SameTa

\* The sessions of an instance are finitely many in every table.
LEMMA NamedFinite ==
    ASSUME NEW tab, NEW i, Cardinality(NamedIn(tab, i)) = 0
    PROVE  NamedIn(tab, i) = {}
  <1>1. IsFiniteSet(1..IdMax)
    BY KernelAssumption, FS_Interval
  <1>2. NamedIn(tab, i) \in SUBSET (1..IdMax)
    BY DEF NamedIn, SessionId
  <1>3. IsFiniteSet(NamedIn(tab, i))
    BY <1>1, <1>2, FS_Subset, Zenon
  <1> QED BY <1>3, FS_EmptySet

-----------------------------------------------------------------------------
(* Each kind of step keeps the invariant *)

\* The number of sessions of an instance does not change with the instances.
LEMMA Numbers ==
    ASSUME TypeOK, NEW i \in InstanceId
    PROVE  /\ instances[i].session_count \in Nat
           /\ Cardinality(NamedIn(sessions, i)) \in Nat
           /\ i # None
           /\ Cardinality(NamedIn(sessions, i)) = 0 => NamedIn(sessions, i) = {}
  <1>1. instances[i] \in Instance
    BY DEF TypeOK
  <1>2. instances[i].session_count \in Nat
    BY <1>1 DEF Instance
  <1>3. IsFiniteSet(NamedIn(sessions, i)) /\ Cardinality(NamedIn(sessions, i)) \in Nat
    BY SessionsFinite
  <1>4. Cardinality(NamedIn(sessions, i)) = 0 => NamedIn(sessions, i) = {}
    BY NamedFinite
  <1>5. i # None
    BY DEF InstanceId, None
  <1> QED BY <1>2, <1>3, <1>4, <1>5

\* No session names an id that was not handed out as an instance.
LEMMA FreeHasNoSession ==
    ASSUME TypeOK, SessionParts, NEW i \in InstanceId, instances[i].state = "Free"
    PROVE  NamedIn(sessions, i) = {} /\ Cardinality(NamedIn(sessions, i)) = 0
  <1>1. i # None
    BY Numbers
  <1>2. ASSUME NEW s \in SessionId, sessions[s].state # "Free", sessions[s].instance = i
        PROVE  FALSE
    <2>1. sessions[s] \in Session
      BY DEF TypeOK
    <2>2. sessions[s].state \in {"Ready", "Dead"} /\ sessions[s].kind \in {"UserTa", "Pta"}
      BY <1>2, <2>1 DEF Session
    <2> QED BY <1>1, <1>2, <2>2 DEF SessionParts, TargetOf
  <1>3. NamedIn(sessions, i) = {}
    BY <1>2 DEF NamedIn
  <1> QED BY <1>3, FS_EmptySet

\* Steps that leave the tables alone.
LEMMA UntouchedKeeps ==
    ASSUME TypeOK, SessionParts, Untouched
    PROVE  SessionInv'
  <1>1. UnusedIdsFree'
    BY DEF SessionParts, UnusedIdsFree, Untouched, TypeOK, SessionId, InstanceId
  <1>2. NoSessionAtEnds'
    BY DEF SessionParts, NoSessionAtEnds, Untouched, Quiet, PtaEntry
  <1>3. \A s \in SessionId : TargetOf(s)'
    BY DEF SessionParts, TargetOf, Untouched
  <1>4. ASSUME NEW i \in InstanceId
        PROVE  CountOf(i)'
    <2>1. /\ instances[i].session_count \in Nat /\ instances'[i] = instances[i]
          /\ Cardinality(NamedIn(sessions', i)) = Cardinality(NamedIn(sessions, i))
          /\ CountOf(i)
      BY Numbers DEF Untouched, SessionParts
    <2>2. CASE UNCHANGED call
      BY <2>1, <2>2 DEF CountOf, Owed, Opening
    <2>3. CASE call.at \in Quiet /\ call'.at \in Quiet
      <3>1. Owed(i) = 0 /\ Owed(i)' = 0 /\ Opening(i)' = 0 /\ call.at # "spin"
        BY <2>3 DEF Quiet, PtaEntry, Owed, Opening
      <3> QED BY <2>1, <3>1, CountFrame
    <2>4. CASE call.at \in TaEntry /\ call'.at = "spin"
      <3>1. Opening(i)' = 0 /\ Opening(i) \in {0, 1}
        BY <2>4 DEF Opening
      <3> QED BY <2>1, <2>4, <3>1 DEF CountOf
    <2> QED BY <2>2, <2>3, <2>4 DEF Untouched
  <1> QED BY <1>1, <1>2, <1>3, <1>4, PartsNext

\* Sessions of PTAs come and go without an instance, and dead sessions go.
LEMMA PtaKeeps ==
    ASSUME TypeOK, SessionParts, AddsPta \/ \E sid \in SessionId : Drops(sid)
    PROVE  SessionInv'
  <1>0. /\ call.at \in Quiet /\ call'.at \in Quiet /\ UNCHANGED <<instances, next_iid>>
        /\ sessions \in [SessionId -> Session]
    BY DEF AddsPta, Drops, TypeOK
  <1>1. NoSessionAtEnds'
    BY <1>0 DEF NoSessionAtEnds, Quiet, PtaEntry
  <1>2. \A i \in InstanceId : Owed(i) = 0 /\ Owed(i)' = 0 /\ Opening(i)' = 0 /\ call.at # "spin"
    BY <1>0 DEF Quiet, PtaEntry, Owed, Opening
  <1>3. \A s \in SessionId : sessions'[s] = sessions[s] => TargetOf(s)'
    BY <1>0 DEF SessionParts, TargetOf
  <1>4. CASE AddsPta
    <2> PICK u \in Uuid : sessions' = [sessions EXCEPT ![next_sid] =
            [state |-> "Ready", kind |-> "Pta", uuid |-> u, instance |-> None]]
      BY <1>4, Zenon DEF AddsPta
    <2> DEFINE x == [state |-> "Ready", kind |-> "Pta", uuid |-> u, instance |-> None]
    <2>1. x \in Session /\ x.state # "Free" /\ x.instance = None /\ x.kind = "Pta" /\ x.state = "Ready"
      BY DEF Session
    <2>2. sessions' = [sessions EXCEPT ![next_sid] = x]
      OBVIOUS
    <2> HIDE DEF x
    <2>3. next_sid <= IdMax /\ next_sid' = next_sid + 1 /\ next_sid \in SessionId
      BY <1>4, KernelAssumption DEF AddsPta, TypeOK, SessionId
    <2>4. UnusedIdsFree'
      BY <1>0, <2>2, <2>3, SMTT(30) DEF SessionParts, UnusedIdsFree, TypeOK, SessionId
    <2>5. \A s \in SessionId : TargetOf(s)'
      <3>1. \A s \in SessionId : sessions'[s] = IF s = next_sid THEN x ELSE sessions[s]
        BY <1>0, <2>2, <2>3
      <3>2. \A s \in SessionId : sessions'[s] = x => TargetOf(s)'
        BY <2>1 DEF TargetOf
      <3> QED BY <1>3, <3>1, <3>2
    <2>6. ASSUME NEW i \in InstanceId
          PROVE  CountOf(i)'
      <3>1. i # x.instance /\ Cardinality(NamedIn(sessions, i)) \in Nat /\ UnusedIdsFree
        BY <2>1, Numbers DEF SessionParts
      <3>2. Cardinality(NamedIn(sessions', i)) = Cardinality(NamedIn(sessions, i))
        <4>1. Cardinality(NamedIn(sessions', i)) =
                  Cardinality(NamedIn(sessions, i)) + (IF x.instance = i THEN 1 ELSE 0)
          BY <2>1, <2>2, <2>3, <3>1, SessionAdded, Zenon
        <4> QED BY <3>1, <4>1
      <3> QED BY <1>0, <1>2, <3>2, CountFrame, Zenon DEF SessionParts
    <2> QED BY <1>1, <2>4, <2>5, <2>6, PartsNext
  <1>5. ASSUME NEW sid \in SessionId, Drops(sid)
        PROVE  SessionInv'
    <2>1. /\ sessions' = [sessions EXCEPT ![sid] = NoSession] /\ next_sid' = next_sid
          /\ sessions[sid].state # "Free"
      BY <1>5 DEF Drops
    <2>2. UnusedIdsFree'
      BY <1>0, <2>1 DEF SessionParts, UnusedIdsFree
    <2>3. \A s \in SessionId : TargetOf(s)'
      <3>1. \A s \in SessionId \ {sid} : sessions'[s] = sessions[s]
        BY <1>0, <2>1
      <3>2. sessions'[sid] = NoSession
        BY <1>0, <2>1
      <3>3. TargetOf(sid)'
        BY <3>2, NoTarget
      <3> QED BY <1>3, <3>1, <3>3
    <2>4. ASSUME NEW i \in InstanceId
          PROVE  CountOf(i)'
      <3>1. CASE sessions[sid].instance = i
        <4>1. instances[i].state = "Dead"
          BY <1>5, <3>1, Numbers, Zenon DEF Drops, SessionParts, TargetOf
        <4> QED BY <1>0, <4>1 DEF CountOf
      <3>2. CASE sessions[sid].instance # i
        <4>1. Cardinality(NamedIn(sessions', i)) = Cardinality(NamedIn(sessions, i))
          <5>1. Cardinality(NamedIn(sessions', i)) =
               Cardinality(NamedIn(sessions, i)) - (IF sessions[sid].instance = i THEN 1 ELSE 0)
            BY <2>1, SessionRemoved, Zenon
          <5>2. Cardinality(NamedIn(sessions, i)) \in Nat
            BY Numbers
          <5> QED BY <3>2, <5>1, <5>2
        <4> QED BY <1>0, <1>2, <4>1, CountFrame DEF SessionParts
      <3> QED BY <3>1, <3>2
    <2> QED BY <1>1, <2>2, <2>3, <2>4, PartsNext
  <1> QED BY <1>4, <1>5

\* An open that goes on or ends on an instance with `count' sessions.
LEMMA BoundKeeps ==
    ASSUME TypeOK, SessionParts, next_sid <= IdMax,
           NEW iid \in InstanceId, NEW u \in Uuid, NEW count,
           count = Cardinality(NamedIn(sessions, iid)),
           OnlyInstance(iid), Bound(u, iid, count),
           instances'[iid].state = "Live", instances'[iid].uuid = u,
           ~instances'[iid].props.multi_session => count = 0,
           call'.at = "create" => count = 0,
           call.at # "spin", \A i \in InstanceId \ {iid} : Owed(i) = 0,
           next_iid' \in Int, next_iid <= next_iid', iid < next_iid',
           SameTa(instances'[iid], instances[iid]) \/ NamedIn(sessions, iid) = {}
    PROVE  SessionInv'
  <1> DEFINE x == NewSession(u, iid)
  <1>0. /\ count \in Nat /\ iid # None /\ sessions \in [SessionId -> Session]
        /\ next_sid \in SessionId /\ next_sid \in Nat /\ UnusedIdsFree
    BY Numbers, KernelAssumption, SMTT(30) DEF TypeOK, SessionParts, SessionId
  <1>1. x \in Session /\ x.state = "Ready" /\ x.kind = "UserTa" /\ x.uuid = u /\ x.instance = iid
    BY Zenon DEF NewSession, Session
  <1>2. /\ \/ sessions' = sessions /\ next_sid' \in {next_sid, next_sid + 1}
           \/ sessions' = [sessions EXCEPT ![next_sid] = x] /\ next_sid' = next_sid + 1
        /\ call'.at \in {"idle", "create", "open"} /\ (call'.at # "idle" => call'.iid = iid)
    BY Blanks, Zenon DEF Bound
  <1>h. x.state # "Free"
    BY <1>1, Zenon
  <1> HIDE DEF x
  <1>3. \A s \in SessionId :
            sessions'[s] = sessions[s] \/ (s = next_sid /\ next_sid' = next_sid + 1 /\ sessions'[s] = x)
    BY <1>0, <1>2, Zenon
  <1>4. UnusedIdsFree'
    <2>1. \A s \in SessionId : s >= next_sid' => sessions'[s] = NoSession
      BY <1>0, <1>2, <1>3 DEF UnusedIdsFree, SessionId
    <2>2. \A i \in InstanceId : i >= next_iid' => instances'[i].state = "Free"
      <3> SUFFICES ASSUME NEW i \in InstanceId, i >= next_iid'
                   PROVE  instances'[i].state = "Free"
        OBVIOUS
      <3>1. i # iid /\ i >= next_iid
        BY SMTT(30) DEF InstanceId, TypeOK
      <3> QED BY <1>0, <3>1 DEF UnusedIdsFree, OnlyInstance
    <2> QED BY <2>1, <2>2 DEF UnusedIdsFree
  <1>5. NoSessionAtEnds'
    BY <1>2, Blanks, Zenon DEF NoSessionAtEnds, Bound
  <1>6. ASSUME NEW s \in SessionId
        PROVE  TargetOf(s)'
    <2>1. CASE sessions'[s] = sessions[s]
      <3>1. s \notin NamedIn(sessions, iid) \/ SameTa(instances'[iid], instances[iid])
        BY Zenon
      <3> QED BY <2>1, <3>1, TargetFrame, Zenon DEF SessionParts
    <2>2. CASE sessions'[s] = x
      BY <1>0, <1>1, <2>2, Zenon DEF TargetOf
    <2> QED BY <1>3, <2>1, <2>2, Zenon
  <1>7. ASSUME NEW i \in InstanceId, i # iid
        PROVE  CountOf(i)'
    <2>1. Owed(i) = 0 /\ Owed(i)' = 0 /\ Opening(i)' = 0
      BY <1>2, <1>7 DEF Owed, Opening
    <2>2. Cardinality(NamedIn(sessions', i)) = Cardinality(NamedIn(sessions, i))
      <3>1. CASE sessions' = sessions
        BY <3>1, Zenon
      <3>2. CASE sessions' = [sessions EXCEPT ![next_sid] = x]
        <4>1. Cardinality(NamedIn(sessions', i)) =
                  Cardinality(NamedIn(sessions, i)) + (IF x.instance = i THEN 1 ELSE 0)
          BY <1>0, <1>1, <1>h, <3>2, SessionAdded, Zenon
        <4>2. Cardinality(NamedIn(sessions, i)) \in Nat
          BY Numbers
        <4> QED BY <1>1, <1>7, <4>1, <4>2
      <3> QED BY <1>2, <3>1, <3>2
    <2>3. instances'[i] = instances[i] /\ CountOf(i)
      BY <1>7 DEF OnlyInstance, SessionParts
    <2> QED BY <2>1, <2>2, <2>3, CountFrame
  <1>8. CountOf(iid)'
    <2>1. Owed(iid)' = 0
      BY <1>2 DEF Owed
    <2>2. Opening(iid)' \in {0, 1} /\ (call' = Idle => Opening(iid)' = 0)
      BY Blanks, Zenon DEF Opening
    <2>3. CASE /\ call' = Idle /\ instances'[iid].session_count = count + 1
               /\ sessions' = [sessions EXCEPT ![next_sid] = x]
      <3>1. Cardinality(NamedIn(sessions', iid)) =
                Cardinality(NamedIn(sessions, iid)) + (IF x.instance = iid THEN 1 ELSE 0)
        BY <1>0, <1>1, <1>h, <2>3, SessionAdded, Zenon
      <3>2. Cardinality(NamedIn(sessions', iid)) = count + 1
        BY <1>1, <3>1, Zenon
      <3> QED BY <1>0, <2>1, <2>2, <2>3, <3>2, SMTT(30) DEF CountOf
    <2>4. CASE instances'[iid].session_count = count /\ sessions' = sessions
      <3>1. Cardinality(NamedIn(sessions', iid)) = count
        BY <2>4
      <3> QED BY <1>0, <2>1, <2>2, <2>4, <3>1 DEF CountOf
    <2> QED BY <2>3, <2>4, Zenon DEF Bound, x
  <1> QED BY <1>4, <1>5, <1>6, <1>7, <1>8, PartsNext

\* open on an instance that is there, and its entry points.
LEMMA BindsKeeps ==
    ASSUME TypeOK, TypeOK', LockHolders, SessionParts, NEW iid \in InstanceId, Binds(iid)
    PROVE  SessionInv'
  <1> DEFINE count == instances[iid].session_count
  <1>0. instances[iid] \in Instance /\ instances[iid].uuid \in Uuid /\ call.at # "spin"
    BY DEF TypeOK, Instance, Binds
  <1>1. /\ count \in Nat /\ Cardinality(NamedIn(sessions, iid)) \in Nat
        /\ CountOf(iid) /\ UnusedIdsFree /\ NoSessionAtEnds
    BY Numbers, Zenon DEF SessionParts
  <1>2. \A i \in InstanceId : Owed(i) = 0
    BY DEF Binds, Owed
  <1>3. count = Cardinality(NamedIn(sessions, iid))
    <2>1. instances[iid].state = "Live"
      BY Zenon DEF Binds
    <2> QED BY <1>0, <1>1, <1>2, <2>1, CountMeans, Zenon
  <1>4. ~instances[iid].props.multi_session => count = 0
    <2>1. CASE call.at \in {"create", "open"} /\ call.iid = iid
      <3>1. Opening(iid) = 1
        BY <2>1 DEF Opening
      <3> QED BY <1>1, <3>1, SMTT(30) DEF CountOf, Binds
    <2>2. CASE ~SessionLimit(iid)
      BY <1>1, <2>2 DEF SessionLimit
    <2> QED BY <2>1, <2>2 DEF Binds
  <1>5. /\ SameTa(instances'[iid], instances[iid]) /\ OnlyInstance(iid)
        /\ Bound(instances[iid].uuid, iid, count) /\ next_sid <= IdMax /\ next_iid' = next_iid
        /\ call'.at # "create" /\ instances[iid].state = "Live"
    BY Zenon DEF Binds
  <1>6. iid < next_iid /\ next_iid \in Int
    <2>1. ~(iid >= next_iid)
      BY <1>1, <1>5 DEF UnusedIdsFree
    <2> QED BY <2>1 DEF TypeOK, InstanceId
  <1>7. /\ instances'[iid].state = "Live" /\ instances'[iid].uuid = instances[iid].uuid
        /\ instances'[iid].props = instances[iid].props
    BY <1>5 DEF SameTa
  <1> HIDE DEF count
  <1> QED BY <1>0, <1>1, <1>2, <1>3, <1>4, <1>5, <1>6, <1>7, BoundKeeps, SMTT(30)

\* open with a new instance.
LEMMA CreatesKeeps ==
    ASSUME TypeOK, SessionParts, NEW img \in Image, NEW u \in Uuid, Creates(img, u)
    PROVE  SessionInv'
  <1>0. next_iid \in InstanceId /\ next_iid \in Int /\ UnusedIdsFree /\ next_iid' = next_iid + 1
    BY KernelAssumption DEF Creates, TypeOK, InstanceId, SessionParts
  <1>1. instances[next_iid].state = "Free"
    BY <1>0 DEF UnusedIdsFree, InstanceId
  <1>2. NamedIn(sessions, next_iid) = {} /\ Cardinality(NamedIn(sessions, next_iid)) = 0
    BY <1>0, <1>1, FreeHasNoSession
  <1>3. instances'[next_iid].state = "Live" /\ instances'[next_iid].uuid = u
    BY Zenon DEF Creates, SameTa, NewInstance
  <1>4. call.at # "spin" /\ \A i \in InstanceId : Owed(i) = 0
    BY DEF Creates, Owed
  <1>5. Bound(u, next_iid, 0) /\ OnlyInstance(next_iid) /\ next_sid <= IdMax
    BY DEF Creates
  <1> QED BY <1>0, <1>2, <1>3, <1>4, <1>5, BoundKeeps

\* The ids in use do not change with a step that adds no session and no instance.
LEMMA IdsFrame ==
    ASSUME TypeOK, SessionParts, NEW iid \in InstanceId, OnlyInstance(iid),
           instances[iid].state # "Free", UNCHANGED <<next_sid, next_iid>>,
           \A s \in SessionId : sessions[s] = NoSession => sessions'[s] = NoSession
    PROVE  UnusedIdsFree'
  <1>1. UnusedIdsFree
    BY DEF SessionParts
  <1> QED BY <1>1 DEF UnusedIdsFree, OnlyInstance

\* invoke.
LEMMA TouchesKeeps ==
    ASSUME TypeOK, SessionParts, NEW iid \in InstanceId, Touches(iid)
    PROVE  SessionInv'
  <1>0. /\ UNCHANGED <<sessions, next_sid, next_iid>> /\ OnlyInstance(iid)
        /\ SameTa(instances'[iid], instances[iid]) /\ UnusedIdsFree
        /\ instances'[iid].session_count = instances[iid].session_count
    BY DEF Touches, SessionParts
  <1>1. /\ \A i \in InstanceId : Owed(i) = 0 /\ Owed(i)' = 0 /\ Opening(i)' = 0 /\ Opening(i) = 0
        /\ call.at # "spin" /\ call'.at # "spin"
    BY DEF Touches, Owed, Opening
  <1>2. UnusedIdsFree'
    BY <1>0 DEF UnusedIdsFree, OnlyInstance, SameTa
  <1>3. NoSessionAtEnds'
    BY DEF Touches, NoSessionAtEnds
  <1>4. \A s \in SessionId : TargetOf(s)'
    BY <1>0, TargetFrame DEF SessionParts
  <1>5. ASSUME NEW i \in InstanceId
        PROVE  CountOf(i)'
    <2>1. CountOf(i) /\ Cardinality(NamedIn(sessions', i)) = Cardinality(NamedIn(sessions, i))
      BY <1>0 DEF SessionParts
    <2>2. CASE i # iid
      <3>1. instances'[i] = instances[i]
        BY <1>0, <2>2 DEF OnlyInstance
      <3> QED BY <1>1, <2>1, <3>1, CountFrame
    <2>3. CASE i = iid
      BY <1>0, <1>1, <2>1, <2>3, Zenon DEF CountOf, SameTa
    <2> QED BY <2>2, <2>3
  <1> QED BY <1>2, <1>3, <1>4, <1>5, PartsNext

\* A step on the instance of the running call, after which no call is owed: its
\* sessions, if it stays, are as many as its count, and none if it goes.
LEMMA InstanceStep ==
    ASSUME TypeOK, SessionParts, NEW iid \in InstanceId, OnlyInstance(iid),
           instances[iid].state = "Live", UNCHANGED <<next_sid, next_iid>>,
           call.at # "spin", \A i \in InstanceId \ {iid} : Owed(i) = 0,
           \A i \in InstanceId \ {iid} : Owed(i)' = 0,
           call'.at \notin {"create", "open"},
           call'.at = "destroy" => call'.iid = iid /\ instances'[iid].session_count = 0,
           \A s \in SessionId : sessions'[s] = sessions[s] \/ sessions'[s] = NoSession,
           \A i \in InstanceId \ {iid} :
              Cardinality(NamedIn(sessions', i)) = Cardinality(NamedIn(sessions, i)),
           \/ /\ NamedIn(sessions', iid) = {} /\ instances'[iid].state = "Free"
           \/ /\ SameTa(instances'[iid], instances[iid])
              /\ instances'[iid].session_count \in Nat
              /\ instances'[iid].session_count <= instances[iid].session_count
              /\ Cardinality(NamedIn(sessions', iid)) \in Nat
              /\ instances'[iid].session_count = Cardinality(NamedIn(sessions', iid)) + Owed(iid)'
    PROVE  SessionInv'
  <1>1. UnusedIdsFree'
    BY IdsFrame, Zenon
  <1>2. NoSessionAtEnds'
    BY Zenon DEF NoSessionAtEnds
  <1>3. ASSUME NEW s \in SessionId
        PROVE  TargetOf(s)'
    <2>1. CASE sessions'[s] = NoSession
      BY <2>1, NoTarget, Zenon
    <2>2. CASE sessions'[s] = sessions[s]
      <3>1. CASE SameTa(instances'[iid], instances[iid])
        BY <2>2, <3>1, TargetFrame, Zenon DEF SessionParts
      <3>2. CASE NamedIn(sessions', iid) = {}
        <4>1. s \notin NamedIn(sessions, iid)
          BY <2>2, <3>2, Zenon DEF NamedIn
        <4> QED BY <2>2, <4>1, TargetFrame, Zenon DEF SessionParts
      <3> QED BY <3>1, <3>2, Zenon
    <2> QED BY <2>1, <2>2, Zenon
  <1>4. \A i \in InstanceId : Opening(i)' = 0
    BY DEF Opening
  <1>5. ASSUME NEW i \in InstanceId, i # iid
        PROVE  CountOf(i)'
    <2>1. instances'[i] = instances[i] /\ CountOf(i)
      BY <1>5, Zenon DEF OnlyInstance, SessionParts
    <2> QED BY <1>4, <1>5, <2>1, CountFrame, Zenon
  <1>6. CountOf(iid)'
    <2>1. CASE instances'[iid].state = "Free"
      BY <2>1, Zenon DEF CountOf
    <2>2. CASE /\ SameTa(instances'[iid], instances[iid])
               /\ instances'[iid].session_count \in Nat
               /\ instances'[iid].session_count <= instances[iid].session_count
               /\ Cardinality(NamedIn(sessions', iid)) \in Nat
               /\ instances'[iid].session_count = Cardinality(NamedIn(sessions', iid)) + Owed(iid)'
      <3>1. instances[iid].session_count \in Nat /\ CountOf(iid) /\ Opening(iid)' = 0
        BY <1>4, Numbers, Zenon DEF SessionParts
      <3> QED BY <2>2, <3>1, CountKept, Zenon
    <2> QED BY <2>1, <2>2, Zenon
  <1> QED BY <1>1, <1>2, <1>3, <1>5, <1>6, PartsNext, Zenon

\* An instance that goes after a failed create or after destroy has no session.
LEMMA RemovesKeeps ==
    ASSUME TypeOK, LockHolders, SessionParts, NEW iid \in InstanceId, Removes(iid)
    PROVE  SessionInv'
  <1>1. /\ call.at \in {"create", "destroy"} /\ call.iid = iid /\ call'.at = "idle"
        /\ OnlyInstance(iid) /\ instances'[iid].state = "Free"
        /\ UNCHANGED <<sessions, next_sid, next_iid>>
    BY Blanks, Zenon DEF Removes
  <1>2. instances[iid].state = "Live" /\ instances[iid].session_count = 0 /\ CountOf(iid)
    BY <1>1 DEF LockHolders, RunningInstanceIsLive, TaEntry, SessionParts, NoSessionAtEnds
  <1>3. \A i \in InstanceId : Owed(i) = 0 /\ Owed(i)' = 0
    BY <1>1 DEF Owed
  <1>4. NamedIn(sessions, iid) = {}
    <2>1. Cardinality(NamedIn(sessions, iid)) \in Nat
      BY Numbers
    <2>2. Cardinality(NamedIn(sessions, iid)) = 0
      BY <1>2, <2>1 DEF CountOf
    <2> QED BY <2>2, Numbers
  <1> QED BY <1>1, <1>2, <1>3, <1>4, InstanceStep, Zenon

\* A count of one more than n.
LEMMA CountDown ==
    ASSUME NEW n \in Nat
    PROVE  /\ n + 1 <= 1 => n = 0
           /\ (IF n + 1 > 0 THEN (n + 1) - 1 ELSE 0) = n
           /\ n <= n + 1 /\ n = n + 0
  OBVIOUS

\* release_instance: `n' sessions are left in the table, one fewer than counted.
LEMMA ReleasedKeeps ==
    ASSUME TypeOK, SessionParts, NEW iid \in InstanceId, OnlyInstance(iid), Released(iid),
           instances[iid].state = "Live", UNCHANGED <<next_sid, next_iid>>,
           call.at # "spin", \A i \in InstanceId \ {iid} : Owed(i) = 0,
           \A s \in SessionId : sessions'[s] = sessions[s] \/ sessions'[s] = NoSession,
           \A i \in InstanceId \ {iid} :
              Cardinality(NamedIn(sessions', i)) = Cardinality(NamedIn(sessions, i)),
           NEW n \in Nat, Cardinality(NamedIn(sessions', iid)) = n,
           instances[iid].session_count = n + 1, n = 0 => NamedIn(sessions', iid) = {}
    PROVE  SessionInv'
  <1>1. call'.at \in {"idle", "destroy"}
    BY Blanks, Zenon DEF Released
  <1>2. \A i \in InstanceId : Owed(i)' = 0
    BY <1>1, Zenon DEF Owed
  <1>3. ASSUME instances'[iid].session_count = n
        PROVE  /\ instances'[iid].session_count \in Nat
               /\ instances'[iid].session_count <= instances[iid].session_count
               /\ Cardinality(NamedIn(sessions', iid)) \in Nat
               /\ instances'[iid].session_count = Cardinality(NamedIn(sessions', iid)) + Owed(iid)'
    <2>1. n <= n + 1 /\ n = n + 0 /\ Owed(iid)' = 0
      BY <1>2, CountDown, Zenon
    <2>2. n = Cardinality(NamedIn(sessions', iid)) + Owed(iid)'
      BY <2>1, Zenon
    <2> QED BY <1>3, <2>1, <2>2, Zenon
  <1>4. CASE /\ call'.at = "destroy" /\ call'.iid = iid
             /\ SameTa(instances'[iid], instances[iid])
             /\ instances[iid].session_count <= 1 /\ instances'[iid].session_count = 0
    <2>1. n = 0
      BY <1>4, CountDown, Zenon
    <2> QED BY <1>2, <1>3, <1>4, <2>1, InstanceStep, Zenon
  <1>5. CASE call' = Idle /\ instances[iid].session_count <= 1 /\ instances'[iid] = NoInstance
    <2>1. n = 0
      BY <1>5, CountDown, Zenon
    <2>2. instances'[iid].state = "Free" /\ call'.at = "idle"
      BY <1>5, Blanks, Zenon
    <2> QED BY <1>2, <2>1, <2>2, InstanceStep, Zenon
  <1>6. CASE /\ call' = Idle /\ SameTa(instances'[iid], instances[iid])
             /\ instances'[iid].session_count =
                    IF instances[iid].session_count > 0 THEN instances[iid].session_count - 1 ELSE 0
    <2>1. call'.at = "idle"
      BY <1>6, Blanks, Zenon
    <2>2. instances'[iid].session_count = n
      BY <1>6, CountDown, Zenon
    <2> QED BY <1>2, <1>3, <1>6, <2>1, <2>2, InstanceStep, Zenon
  <1> QED BY <1>4, <1>5, <1>6, Zenon DEF Released

\* close after the TA was called.
LEMMA EndsCloseKeeps ==
    ASSUME TypeOK, LockHolders, SessionParts, NEW iid \in InstanceId, EndsClose(iid)
    PROVE  SessionInv'
  <1> DEFINE n == Cardinality(NamedIn(sessions, iid))
  <1>1. /\ call.at = "close" /\ call.iid = iid /\ OnlyInstance(iid) /\ Released(iid)
        /\ UNCHANGED <<sessions, next_sid, next_iid>> /\ CountOf(iid)
    BY DEF EndsClose, SessionParts
  <1>2. instances[iid].state = "Live"
    BY <1>1, Zenon DEF LockHolders, RunningInstanceIsLive, TaEntry
  <1>3. Owed(iid) = 1 /\ \A i \in InstanceId \ {iid} : Owed(i) = 0
    BY <1>1 DEF Owed
  <1>4. n \in Nat /\ (n = 0 => NamedIn(sessions, iid) = {})
    BY Numbers
  <1>5. instances[iid].session_count = n + 1
    BY <1>1, <1>2, <1>3 DEF CountOf
  <1> HIDE DEF n
  <1>6. Cardinality(NamedIn(sessions', iid)) = n /\ NamedIn(sessions', iid) = NamedIn(sessions, iid)
    BY <1>1 DEF n
  <1> QED BY <1>1, <1>2, <1>3, <1>4, <1>5, <1>6, ReleasedKeeps, Zenon

\* close up to the call of the TA, and of a TA without entry points.
LEMMA ClosesKeeps ==
    ASSUME TypeOK, SessionParts, NEW sid \in SessionId, NEW iid \in InstanceId,
           StartsClose(sid, iid) \/ Closes(sid, iid)
    PROVE  SessionInv'
  <1> DEFINE n == Cardinality(NamedIn(sessions', iid))
  <1>1. /\ call.at = "idle" /\ OnlyInstance(iid) /\ UNCHANGED <<next_sid, next_iid>>
        /\ sessions[sid].state = "Ready" /\ sessions[sid].instance = iid
        /\ sessions' = [sessions EXCEPT ![sid] = NoSession]
        /\ CountOf(iid) /\ TargetOf(sid) /\ sessions \in [SessionId -> Session]
    BY Zenon DEF StartsClose, Closes, SessionParts, TypeOK
  <1>2. instances[iid].state = "Live"
    <2>1. sessions[sid].kind \in {"UserTa", "Pta"} /\ iid # None
      BY <1>1, Numbers, Zenon DEF Session
    <2> QED BY <1>1, <2>1 DEF TargetOf
  <1>3. \A i \in InstanceId : Owed(i) = 0
    BY <1>1 DEF Owed
  <1>4. \A s \in SessionId : sessions'[s] = sessions[s] \/ sessions'[s] = NoSession
    BY <1>1
  <1>5. ASSUME NEW i \in InstanceId \ {iid}
        PROVE  Cardinality(NamedIn(sessions', i)) = Cardinality(NamedIn(sessions, i))
    <2>1. Cardinality(NamedIn(sessions', i)) =
              Cardinality(NamedIn(sessions, i)) - (IF sessions[sid].instance = i THEN 1 ELSE 0)
      BY <1>1, SessionRemoved, Zenon
    <2>2. Cardinality(NamedIn(sessions, i)) \in Nat
      BY Numbers
    <2> QED BY <1>1, <2>1, <2>2
  <1>6. n \in Nat /\ instances[iid].session_count = n + 1
    <2>1. /\ n = Cardinality(NamedIn(sessions, iid)) - (IF sessions[sid].instance = iid THEN 1 ELSE 0)
          /\ n \in Nat
      BY <1>1, SessionRemoved, Zenon
    <2>2. Cardinality(NamedIn(sessions, iid)) \in Nat
      BY Numbers
    <2>3. instances[iid].session_count = Cardinality(NamedIn(sessions, iid))
      BY <1>1, <1>2, <1>3, <2>2, CountMeans, Zenon
    <2> HIDE DEF n
    <2> QED BY <1>1, <2>1, <2>2, <2>3
  <1>7. n = 0 => NamedIn(sessions', iid) = {}
    BY NamedFinite, Zenon
  <1>8. Cardinality(NamedIn(sessions', iid)) = n
    OBVIOUS
  <1> HIDE DEF n
  <1>9. CASE Closes(sid, iid)
    <2>1. Released(iid)
      BY <1>9 DEF Closes
    <2>2. call.at # "spin" /\ UNCHANGED <<next_sid, next_iid>> /\ OnlyInstance(iid)
      BY <1>1
    <2>3. \A i \in InstanceId \ {iid} : Owed(i) = 0
      BY <1>3
    <2> QED BY <1>2, <1>4, <1>5, <1>6, <1>7, <1>8, <2>1, <2>2, <2>3, ReleasedKeeps, Zenon
  <1>10. CASE StartsClose(sid, iid)
    <2>1. /\ call'.at = "close" /\ call'.iid = iid /\ SameTa(instances'[iid], instances[iid])
          /\ instances'[iid].session_count = instances[iid].session_count
      BY <1>10, Zenon DEF StartsClose
    <2>2. Owed(iid)' = 1 /\ \A i \in InstanceId \ {iid} : Owed(i)' = 0
      BY <2>1, Zenon DEF Owed
    <2>3. instances'[iid].session_count = n + 1 /\ instances'[iid].session_count \in Nat
      BY <1>6, <2>1
    <2>4. /\ instances'[iid].session_count <= instances[iid].session_count
          /\ Cardinality(NamedIn(sessions', iid)) \in Nat
          /\ instances'[iid].session_count = Cardinality(NamedIn(sessions', iid)) + Owed(iid)'
      BY <1>6, <1>8, <2>1, <2>2, <2>3
    <2>5. /\ call.at # "spin" /\ UNCHANGED <<next_sid, next_iid>> /\ OnlyInstance(iid)
          /\ call'.at \notin {"create", "open"} /\ call'.at # "destroy"
      BY <1>1, <2>1, Zenon
    <2>6. \A i \in InstanceId \ {iid} : Owed(i) = 0 /\ Owed(i)' = 0
      BY <1>3, <2>2
    <2> QED BY <1>2, <1>4, <1>5, <2>1, <2>3, <2>4, <2>5, <2>6, InstanceStep, Zenon
  <1> QED BY <1>9, <1>10

\* A panic: the sessions of the instance die with it, the others do not notice.
LEMMA DiesKeeps ==
    ASSUME TypeOK, LockHolders, SessionParts, NEW iid \in InstanceId, Dies(iid)
    PROVE  SessionInv'
  <1>1. /\ call.at \in TaEntry /\ call.iid = iid /\ call'.at = "idle"
        /\ UNCHANGED <<next_sid, next_iid>> /\ OnlyInstance(iid)
        /\ instances'[iid].state = "Dead" /\ sessions' = PoisonInstance(iid)
        /\ sessions \in [SessionId -> Session] /\ iid # None
    BY Numbers, Zenon DEF Dies, Idle, TypeOK
  <1>2. instances[iid].state = "Live"
    BY <1>1, Zenon DEF LockHolders, RunningInstanceIsLive
  <1>3. /\ \A s \in NamedIn(sessions, iid) : sessions'[s] = [sessions[s] EXCEPT !.state = "Dead"]
        /\ \A s \in SessionId \ NamedIn(sessions, iid) : sessions'[s] = sessions[s]
    BY <1>1, SessionsFinite, Zenon DEF PoisonInstance, NamedIn
  <1>4. UnusedIdsFree'
    <2>1. \A s \in SessionId : sessions[s] = NoSession => sessions'[s] = NoSession
      BY <1>3 DEF NamedIn, NoSession
    <2> QED BY <1>1, <1>2, <2>1, IdsFrame
  <1>5. NoSessionAtEnds'
    BY <1>1 DEF NoSessionAtEnds
  <1>6. ASSUME NEW s \in SessionId
        PROVE  TargetOf(s)'
    <2>1. CASE s \in NamedIn(sessions, iid)
      <3>1. /\ sessions[s] \in Session /\ sessions[s].instance = iid
            /\ sessions'[s] = [sessions[s] EXCEPT !.state = "Dead"]
        BY <1>1, <1>3, <2>1 DEF NamedIn
      <3>2. /\ sessions'[s].state = "Dead" /\ sessions'[s].instance = iid
            /\ sessions'[s].kind = sessions[s].kind /\ sessions[s].kind \in {"UserTa", "Pta"}
        BY <3>1 DEF Session
      <3>3. sessions[s].kind = "UserTa"
        BY <1>1, <3>1, <3>2 DEF SessionParts, TargetOf
      <3> QED BY <1>1, <3>2, <3>3, Zenon DEF TargetOf
    <2>2. CASE s \notin NamedIn(sessions, iid)
      BY <1>1, <1>3, <2>2, TargetFrame DEF SessionParts
    <2> QED BY <2>1, <2>2
  <1>7. ASSUME NEW i \in InstanceId
        PROVE  CountOf(i)'
    <2>1. CASE i = iid
      BY <1>1, <2>1 DEF CountOf
    <2>2. CASE i # iid
      <3>1. NamedIn(sessions', i) = NamedIn(sessions, i)
        <4>1. ASSUME NEW s \in SessionId
              PROVE  /\ sessions'[s].state = "Free" <=> sessions[s].state = "Free"
                     /\ sessions'[s].instance = sessions[s].instance
          <5>1. CASE s \in NamedIn(sessions, iid)
            <6>1. /\ sessions[s] \in Session /\ sessions[s].state # "Free"
                  /\ sessions'[s] = [sessions[s] EXCEPT !.state = "Dead"]
              BY <1>1, <1>3, <5>1 DEF NamedIn
            <6> QED BY <6>1 DEF Session
          <5>2. CASE s \notin NamedIn(sessions, iid)
            BY <1>3, <5>2
          <5> QED BY <5>1, <5>2
        <4> QED BY <4>1 DEF NamedIn
      <3>2. Owed(i) = 0 /\ Owed(i)' = 0 /\ Opening(i)' = 0 /\ call.at # "spin"
        BY <1>1, <2>2 DEF Owed, Opening, TaEntry
      <3>3. instances'[i] = instances[i] /\ CountOf(i)
        BY <1>1, <2>2 DEF OnlyInstance, SessionParts
      <3> QED BY <3>1, <3>2, <3>3, CountFrame, Zenon
    <2> QED BY <2>1, <2>2
  <1> QED BY <1>4, <1>5, <1>6, <1>7, PartsNext

\* The sessions and their counters: SessionInv is inductive relative to the rest.
LEMMA SessionStep ==
    ASSUME TypeOK, TypeOK', LockHolders, SessionInv, TableStep
    PROVE  SessionInv'
  <1>1. SessionParts
    BY PartsOfInv
  <1> QED BY <1>1, UntouchedKeeps, PtaKeeps, BindsKeeps, CreatesKeeps, TouchesKeeps,
             RemovesKeeps, EndsCloseKeeps, ClosesKeeps, DiesKeeps DEF TableStep

-----------------------------------------------------------------------------
(* Single instances *)

\* Instances that are Live afterwards were Live before, for the same TA.
NoNewInstance ==
    \A i \in InstanceId : instances'[i].state = "Live" => SameTa(instances'[i], instances[i])

\* Only instantiate_and_bind makes an instance.
LEMMA InstancesComeFromOpen ==
    ASSUME TableStep
    PROVE  NoNewInstance \/ \E img \in Image, u \in Uuid : Creates(img, u)
  <1>1. CASE Untouched \/ AddsPta \/ \E sid \in SessionId : Drops(sid)
    BY <1>1 DEF Untouched, AddsPta, Drops, NoNewInstance, SameTa
  <1>2. ASSUME NEW iid \in InstanceId, OnlyInstance(iid),
               \/ SameTa(instances'[iid], instances[iid])
               \/ instances'[iid].state # "Live"
        PROVE  NoNewInstance
    BY <1>2 DEF OnlyInstance, NoNewInstance, SameTa
  <1>3. ASSUME NEW iid \in InstanceId,
               Binds(iid) \/ Touches(iid) \/ Removes(iid) \/ EndsClose(iid) \/ Dies(iid)
        PROVE  NoNewInstance
    BY <1>2, <1>3, Blanks, Zenon DEF Binds, Touches, Removes, EndsClose, Dies, Released
  <1>4. ASSUME NEW sid \in SessionId, NEW iid \in InstanceId,
               StartsClose(sid, iid) \/ Closes(sid, iid)
        PROVE  NoNewInstance
    BY <1>2, <1>4, Blanks, Zenon DEF StartsClose, Closes, Released
  <1> QED BY <1>1, <1>3, <1>4 DEF TableStep

\* What a step does to the waiting open: nothing, it ends, or an open for a TA
\* that has no live single instance begins.
LEMMA YieldSteps ==
    ASSUME [Next]_vars
    PROVE  \/ UNCHANGED yielding
           \/ yielding' = NoLoad
           \/ /\ UNCHANGED instances
              /\ yielding'.uuid \notin DOMAIN Early /\ LiveSingles(yielding'.uuid) = {}
  <1>1. CASE \/ Refuse \/ EmitReeNotices \/ (\E cid \in CancelIds : Cancel(cid))
             \/ LoopForever \/ UNCHANGED vars \/ CloseSession \/ Invoke
    BY <1>1, Zenon DEF Refuse, EmitReeNotices, Cancel, LoopForever, vars, rest, CloseSession,
       CloseUnknown, ClosePta, CloseTa, Invoke, InvokeRefused, InvokePta, InvokeTa
  <1>2. CASE EntryReturns
    BY <1>2, Zenon DEF EntryReturns, CreateReturns, OpenReturns, InvokeReturns, PtaOpenReturns,
       PtaInvokeReturns, CloseReturns, DestroyReturns, PtaCloseReturns, rest
  <1>3. CASE Panics
    BY <1>3 DEF Panics, TaPanics, PtaPanics
  <1>4. CASE RpcComplete
    BY <1>4, Zenon DEF RpcComplete, RpcSpurious, RpcFails, RpcImage, rest
  <1>5. CASE OpenSession
    <2> PICK u \in Uuid, cid \in CancelIds, p \in Params :
            \/ OpenCancelled(cid) \/ OpenPta(u, cid) \/ OpenLive(u, cid, p)
            \/ OpenEarly(u, cid, p) \/ OpenLoad(u, cid, p)
      BY <1>5 DEF OpenSession
    <2>1. CASE OpenLoad(u, cid, p)
      BY <2>1 DEF OpenLoad, tables
    <2>2. CASE ~OpenLoad(u, cid, p)
      BY <2>2 DEF OpenCancelled, OpenPta, OpenLive, OpenEarly, rest
    <2> QED BY <2>1, <2>2
  <1> QED BY <1>1, <1>2, <1>3, <1>4, <1>5, Zenon DEF Next

\* An image that arrives finds no live single instance of its TA, and none is made
\* while another is there.
LEMMA SinglesStep ==
    ASSUME TypeOK, TypeOK', OneLiveSingle, WaitingForFirst, TableStep, [Next]_vars
    PROVE  OneLiveSingle' /\ WaitingForFirst'
  <1>n. ~NoLoad.active
    BY DEF NoLoad
  <1>1. CASE NoNewInstance
    <2>1. OneLiveSingle'
      BY <1>1 DEF NoNewInstance, SameTa, OneLiveSingle
    <2>2. \A u : LiveSingles(u) = {} => LiveSingles(u)' = {}
      BY <1>1 DEF NoNewInstance, SameTa, LiveSingles
    <2>3. WaitingForFirst'
      BY <1>n, <2>2, YieldSteps DEF WaitingForFirst
    <2> QED BY <2>1, <2>3
  <1>2. ASSUME NEW img \in Image, NEW u \in Uuid, Creates(img, u)
        PROVE  OneLiveSingle' /\ WaitingForFirst'
    <2>1. /\ OnlyInstance(next_iid) /\ SameTa(instances'[next_iid], NewInstance(img, u))
          /\ LiveSingles(u) = {}
          /\ (u \in DOMAIN Early /\ UNCHANGED yielding) \/ yielding' = NoLoad
      BY <1>2 DEF Creates
    <2>2. instances'[next_iid].uuid = u
      BY <2>1 DEF SameTa, NewInstance
    <2>3. \A i \in InstanceId \ {next_iid} : instances'[i] = instances[i]
      BY <2>1 DEF OnlyInstance
    <2>4. \A i \in InstanceId : ~(/\ instances[i].state = "Live" /\ instances[i].uuid = u
                                  /\ instances[i].props.single_instance)
      BY <2>1, Zenon DEF LiveSingles
    <2>5. OneLiveSingle'
      BY <2>2, <2>3, <2>4 DEF OneLiveSingle
    <2>6. CASE yielding' = NoLoad
      BY <1>n, <2>5, <2>6 DEF WaitingForFirst
    <2>7. CASE u \in DOMAIN Early /\ UNCHANGED yielding
      <3>1. \A v : v # u /\ LiveSingles(v) = {} => LiveSingles(v)' = {}
        BY <2>2, <2>3 DEF LiveSingles
      <3> QED BY <2>5, <2>7, <3>1 DEF WaitingForFirst
    <2> QED BY <2>1, <2>6, <2>7
  <1> QED BY <1>1, <1>2, InstancesComeFromOpen

-----------------------------------------------------------------------------

\* A new kernel satisfies the inductive invariant.
LEMMA InvInit == Init => IInv
  <1> SUFFICES ASSUME Init PROVE IInv
    OBVIOUS
  <1>1. TypeInv /\ LockHolders
    BY InitTyped, LocksInit
  <1>2. /\ sessions = [s \in SessionId |-> NoSession] /\ instances = [i \in InstanceId |-> NoInstance]
        /\ NoSession.state = "Free" /\ NoInstance.state = "Free" /\ call.at = "idle"
        /\ ~yielding.active
    BY Zenon DEF Init, NoSession, NoInstance, Idle, NoLoad
  <1>3. SessionParts
    BY <1>2 DEF SessionParts, UnusedIdsFree, NoSessionAtEnds, TargetOf, CountOf, NoSession
  <1>4. SessionInv
    BY <1>3, PartsOfInv
  <1>5. OneLiveSingle /\ WaitingForFirst
    BY <1>2 DEF OneLiveSingle, WaitingForFirst
  <1> QED BY <1>1, <1>4, <1>5 DEF IInv

\* Every step of the kernel keeps it.
LEMMA InvInductive == IInv /\ [Next]_vars => IInv'
  <1> SUFFICES ASSUME IInv, [Next]_vars PROVE IInv'
    OBVIOUS
  <1>1. TypeInv /\ LockHolders /\ SessionInv /\ OneLiveSingle /\ WaitingForFirst
    BY DEF IInv
  <1>2. TypeInv' /\ LockHolders'
    BY <1>1, LocksInductive
  <1>3. TableStep
    BY <1>1, NextSteps DEF SessionInv
  <1>4. TypeOK /\ TypeOK'
    BY <1>1, <1>2 DEF TypeInv
  <1>5. SessionInv'
    BY <1>1, <1>3, <1>4, SessionStep
  <1>6. OneLiveSingle' /\ WaitingForFirst'
    BY <1>1, <1>3, <1>4, SinglesStep
  <1> QED BY <1>2, <1>5, <1>6 DEF IInv

\* The inductive invariant holds throughout.
LEMMA InvHolds == Spec => []IInv
  BY InvInit, InvInductive, PTL DEF Spec

\* A session that is not dead always names a Live instance of its own TA: close
\* and panic never leave a session behind whose instance is gone.
THEOREM SessionsHaveInstances == Spec => []ReadySessionHasLiveInstance
  <1>1. IInv => ReadySessionHasLiveInstance
    BY DEF IInv, SessionInv, SessionTargets
  <1> QED BY <1>1, InvHolds, PTL

\* session_count never drifts from the sessions in the table, on any path through
\* open, close and panic.
THEOREM CountsAreExact == Spec => []SessionCountExact
  <1>1. IInv => SessionCountExact
    BY DEF IInv, SessionInv
  <1> QED BY <1>1, InvHolds, PTL

\* A single-instance TA never has two Live instances, although its image is loaded
\* by a call that other commands interleave with.
THEOREM SinglesAreSingle == Spec => []OneLiveSingle
  <1>1. IInv => OneLiveSingle
    BY DEF IInv
  <1> QED BY <1>1, InvHolds, PTL

\* Two elements of a set of at most one element are the same.
LEMMA AtMostOne ==
    ASSUME NEW S, IsFiniteSet(S), Cardinality(S) <= 1, NEW s \in S, NEW t \in S
    PROVE  s = t
  <1> SUFFICES ASSUME s # t PROVE FALSE
    OBVIOUS
  <1>1. IsFiniteSet({s}) /\ Cardinality({s}) = 1
    BY FS_Singleton, Zenon
  <1>2. Cardinality({s} \cup {t}) = 2
    <2>1. t \notin {s}
      OBVIOUS
    <2>2. Cardinality({s} \cup {t}) = Cardinality({s}) + 1
      BY <1>1, <2>1, FS_AddElement
    <2> QED BY <1>1, <2>2
  <1>3. {s} \cup {t} \in SUBSET S
    OBVIOUS
  <1>4. Cardinality({s} \cup {t}) <= Cardinality(S)
    BY <1>3, FS_Subset
  <1>5. Cardinality(S) \in Nat
    BY FS_CardinalityType
  <1> QED BY <1>2, <1>4, <1>5

\* A TA that does not allow several sessions never has two, not even when opens of
\* it interleave with the load of its image.
THEOREM OneSessionEach == Spec => []OneSessionUnlessMulti
  <1>1. IInv => OneSessionUnlessMulti
    <2> SUFFICES ASSUME IInv, NEW s \in UsedSessions, NEW t \in UsedSessions,
                        sessions[s].kind = "UserTa", sessions[t].kind = "UserTa",
                        sessions[s].instance = sessions[t].instance,
                        sessions[s].state = "Ready",
                        ~instances[sessions[s].instance].props.multi_session
                 PROVE  s = t
      BY DEF OneSessionUnlessMulti
    <2> DEFINE i == sessions[s].instance
    <2>1. TypeOK /\ SessionTargets /\ CountCovers /\ SessionLimits /\ s \in SessionId
      BY DEF IInv, SessionInv, TypeInv, UsedSessions
    <2>2. i \in InstanceId \cup {None} /\ i # None /\ instances[i].state = "Live"
      BY <2>1 DEF TypeOK, Session, SessionTargets, ReadySessionHasLiveInstance
    <2>3. i \in InstanceId
      BY <2>2
    <2>4. s \in NamedIn(sessions, i) /\ t \in NamedIn(sessions, i)
      BY DEF NamedIn, UsedSessions
    <2> HIDE DEF i
    <2>5. /\ instances[i].session_count \in Nat /\ Cardinality(NamedIn(sessions, i)) \in Nat
          /\ IsFiniteSet(NamedIn(sessions, i)) /\ SessionsOf(i) = NamedIn(sessions, i)
      BY <2>1, <2>3, Numbers, SessionsFinite, Zenon
    <2>6. Cardinality(NamedIn(sessions, i)) <= instances[i].session_count
      BY <2>1, <2>2, <2>3, <2>5, Zenon DEF CountCovers
    <2>7. instances[i].session_count <= 1
      BY <2>1, <2>2, <2>3, <2>5, SMTT(30) DEF SessionLimits, i
    <2>8. Cardinality(NamedIn(sessions, i)) <= 1
      BY <2>5, <2>6, <2>7
    <2> QED BY <2>4, <2>5, <2>8, AtMostOne
  <1> QED BY <1>1, InvHolds, PTL

\* A panic of a TA that comes back to the kernel is charged to the instance whose
\* code ran: that instance and its sessions become Dead, no other instance and no
\* other session changes, and the kernel answers TARGET_DEAD and is ready again.
\* That current_instance names the instance that ran, and that no PTA is marked as
\* running, is the invariant LockHolders.
THEOREM PanicsAreContained == Spec => PanicPoisonsItsInstanceOnly
  <1>1. ASSUME IInv, TaPanics, ~GuestBuild
        PROVE  PanicContained
    <2>1. /\ ~current_pta /\ current_instance = call.iid /\ call.iid # None
          /\ call.iid \in InstanceId
          /\ instances \in [InstanceId -> Instance] /\ sessions \in [SessionId -> Session]
      BY <1>1 DEF IInv, TaPanics, TypeInv, TypeOK, CallHasInstance, LockHolders,
         RunningInstanceIsLive, TaEntry
    <2>2. /\ out' = "TARGET_DEAD" /\ call' = Idle
          /\ instances' = [instances EXCEPT ![call.iid].state = "Dead",
                                            ![call.iid].aspace = FALSE,
                                            ![call.iid].mapped = 0]
          /\ sessions' = PoisonInstance(call.iid)
      BY <1>1, <2>1, Zenon DEF TaPanics, OnPanic, OnTaPanic, Answer
    <2>3. /\ instances'[call.iid] = [instances[call.iid] EXCEPT
                 !.state = "Dead", !.aspace = FALSE, !.mapped = 0]
          /\ \A i \in InstanceId \ {call.iid} : instances'[i] = instances[i]
      BY <2>1, <2>2, Zenon
    <2>4. instances'[call.iid].state = "Dead"
      BY <2>1, <2>3 DEF Instance
    <2>5. \A s \in SessionId :
              sessions'[s] = IF s \in SessionsOf(call.iid)
                             THEN [sessions[s] EXCEPT !.state = "Dead"] ELSE sessions[s]
      BY <2>2, Zenon DEF PoisonInstance
    <2> QED BY <2>2, <2>3, <2>4, <2>5, Zenon DEF PanicContained
  <1>2. IInv /\ [Next]_vars => [TaPanics /\ ~GuestBuild => PanicContained]_vars
    BY <1>1
  <1> QED BY <1>2, InvHolds, PTL DEF Spec, PanicPoisonsItsInstanceOnly

\* The reply to a LOAD_TA whose open was cancelled meanwhile makes no instance and
\* no session and runs no TA code.
THEOREM CancelledLoadsEnd == Spec => CancelledLoadHasNoEffect
  <1> DEFINE Ends == yielding.active /\ ~yielding'.active /\ yielding.cancel_id \in cancelled
  <1>1. ASSUME [Next]_vars, Ends
        PROVE  UNCHANGED <<instances, sessions>> /\ call'.at = "idle"
    <2>1. CASE RpcComplete
      <3>1. CASE RpcSpurious
        BY <1>1, <3>1 DEF RpcSpurious
      <3>2. ASSUME NEW code, RpcFails(code)
            PROVE  UNCHANGED <<instances, sessions>> /\ call'.at = "idle"
        BY <3>2 DEF RpcFails, Answer, Idle, tables
      <3>3. ASSUME NEW img \in Images, RpcImage(img)
            PROVE  UNCHANGED <<instances, sessions>> /\ call'.at = "idle"
        BY <1>1, <3>3 DEF RpcImage, LoadCancelled, Answer, Idle, tables
      <3> QED BY <2>1, <3>1, <3>2, <3>3 DEF RpcComplete
    <2>2. CASE OpenSession
      <3> PICK u \in Uuid, cid \in CancelIds, p \in Params :
              \/ OpenCancelled(cid) \/ OpenPta(u, cid) \/ OpenLive(u, cid, p)
              \/ OpenEarly(u, cid, p) \/ OpenLoad(u, cid, p)
        BY <2>2 DEF OpenSession
      <3>1. UNCHANGED yielding
        BY <1>1 DEF OpenCancelled, OpenPta, OpenLive, OpenEarly, OpenLoad, rest
      <3> QED BY <1>1, <3>1
    <2>3. CASE EntryReturns
      <3>1. UNCHANGED yielding
        BY <2>3, Zenon DEF EntryReturns, CreateReturns, OpenReturns, InvokeReturns, PtaOpenReturns,
           PtaInvokeReturns, CloseReturns, DestroyReturns, PtaCloseReturns, rest
      <3> QED BY <1>1, <3>1
    <2>4. CASE \/ Refuse \/ EmitReeNotices \/ (\E cid \in CancelIds : Cancel(cid))
               \/ LoopForever \/ UNCHANGED vars \/ CloseSession \/ Invoke \/ Panics
      <3>1. UNCHANGED yielding
        BY <2>4, Zenon DEF Refuse, EmitReeNotices, Cancel, LoopForever, vars, rest, CloseSession,
           CloseUnknown, ClosePta, CloseTa, Invoke, InvokeRefused, InvokePta, InvokeTa,
           Panics, TaPanics, PtaPanics
      <3> QED BY <1>1, <3>1
    <2> QED BY <1>1, <2>1, <2>2, <2>3, <2>4 DEF Next
  <1>2. [Next]_vars => [Ends => UNCHANGED <<instances, sessions>> /\ call'.at = "idle"]_vars
    BY <1>1
  <1> QED BY <1>2, PTL DEF Spec, CancelledLoadHasNoEffect

-----------------------------------------------------------------------------
(* The session service *)

\* What a step does to the session table.
SessionTableStep ==
    \/ UNCHANGED sessions /\ next_sid' \in {next_sid, next_sid + 1}
    \/ \E x \in Session :
          /\ x.state = "Ready" /\ next_sid' = next_sid + 1
          /\ sessions' = [sessions EXCEPT ![next_sid] = x]
    \/ \E sid \in SessionId :
          /\ sessions[sid].state # "Free" /\ next_sid' = next_sid
          /\ sessions' = [sessions EXCEPT ![sid] = NoSession]
    \/ \E iid \in InstanceId :
          /\ sessions' = PoisonInstance(iid) /\ next_sid' = next_sid
          /\ instances[iid].state = "Live"

\* Every kind of step does one of these.
LEMMA SessionTableSteps ==
    ASSUME TypeOK, LockHolders, TableStep
    PROVE  SessionTableStep
  <1>1. CASE Untouched
    BY <1>1 DEF Untouched, SessionTableStep
  <1>2. CASE AddsPta
    <2> PICK u \in Uuid : sessions' = [sessions EXCEPT ![next_sid] =
            [state |-> "Ready", kind |-> "Pta", uuid |-> u, instance |-> None]]
      BY <1>2, Zenon DEF AddsPta
    <2> DEFINE x == [state |-> "Ready", kind |-> "Pta", uuid |-> u, instance |-> None]
    <2>1. x \in Session /\ x.state = "Ready" /\ sessions' = [sessions EXCEPT ![next_sid] = x]
      BY DEF Session
    <2> HIDE DEF x
    <2> QED BY <1>2, <2>1, Zenon DEF AddsPta, SessionTableStep
  <1>3. ASSUME NEW sid \in SessionId, Drops(sid)
        PROVE  SessionTableStep
    <2>1. sessions[sid].state # "Free"
      BY <1>3 DEF Drops
    <2> QED BY <1>3, <2>1, Zenon DEF Drops, SessionTableStep
  <1>4. ASSUME NEW u \in Uuid, NEW iid \in InstanceId, NEW count, Bound(u, iid, count)
        PROVE  SessionTableStep
    <2>1. NewSession(u, iid) \in Session /\ NewSession(u, iid).state = "Ready"
      BY DEF NewSession, Session
    <2> QED BY <1>4, <2>1, Zenon DEF Bound, SessionTableStep
  <1>5. ASSUME NEW iid \in InstanceId, Binds(iid)
        PROVE  SessionTableStep
    <2>1. instances[iid].uuid \in Uuid
      BY DEF TypeOK, Instance
    <2> QED BY <1>4, <1>5, <2>1, Zenon DEF Binds
  <1>6. ASSUME NEW img \in Image, NEW u \in Uuid, Creates(img, u)
        PROVE  SessionTableStep
    <2>1. next_iid \in InstanceId /\ Bound(u, next_iid, 0)
      BY <1>6, KernelAssumption DEF Creates, TypeOK, InstanceId
    <2> QED BY <1>4, <2>1
  <1>7. ASSUME NEW iid \in InstanceId, Touches(iid) \/ Removes(iid) \/ EndsClose(iid)
        PROVE  SessionTableStep
    BY <1>7, Zenon DEF Touches, Removes, EndsClose, SessionTableStep
  <1>8. ASSUME NEW iid \in InstanceId, Dies(iid)
        PROVE  SessionTableStep
    BY <1>8 DEF Dies, LockHolders, RunningInstanceIsLive, SessionTableStep
  <1>9. ASSUME NEW sid \in SessionId, NEW iid \in InstanceId,
               StartsClose(sid, iid) \/ Closes(sid, iid)
        PROVE  SessionTableStep
    <2>1. sessions[sid].state # "Free"
      BY <1>9, Zenon DEF StartsClose, Closes
    <2> QED BY <1>9, <2>1, Zenon DEF StartsClose, Closes, SessionTableStep
  <1> QED BY <1>1, <1>2, <1>3, <1>5, <1>6, <1>7, <1>8, <1>9 DEF TableStep

\* One step of the session service, or none, is seen through every step of the
\* kernel.
LEMMA ServiceStep ==
    ASSUME IInv, IInv', SessionTableStep
    PROVE  [Service!ServiceNext]_(Service!svars)
  <1> DEFINE state == [s \in SessionId |-> ClientState(s)]
             owner == [s \in SessionId |-> sessions[s].uuid]
  <1>1. /\ TypeOK /\ TypeOK' /\ next_sid \in Nat \ {0} /\ next_sid' <= IdMax + 1
        /\ \A s \in SessionId : s >= next_sid => sessions[s] = NoSession
        /\ \A s \in SessionId : s \in Nat /\ 1 <= s /\ s <= IdMax
        /\ \A s \in SessionId : sessions[s].state \in {"Free", "Ready", "Dead"}
        /\ IdMax \in Nat
    BY KernelAssumption
       DEF IInv, TypeInv, TypeOK, IdBounds, SessionInv, UnusedIdsFree, SessionId, Session
  <1>2. /\ NoSession.state = "Free" /\ NoSession.uuid = AnyUuid
    BY DEF NoSession
  <1>3. ASSUME next_sid' = next_sid + 1 PROVE next_sid \in SessionId
    BY <1>1, <1>3 DEF SessionId
  <1>4. CASE UNCHANGED sessions /\ next_sid' = next_sid
    <2>1. state' = state /\ owner' = owner
      BY <1>4 DEF ClientState
    <2> QED BY <1>4, <2>1 DEF Service!svars
  <1>5. CASE UNCHANGED sessions /\ next_sid' = next_sid + 1
    <2>1. next_sid \in SessionId /\ sessions[next_sid].state = "Free"
      BY <1>1, <1>2, <1>3, <1>5
    <2>2. owner' = owner
      BY <1>5
    <2>3. state' = [state EXCEPT ![next_sid] = "closed"]
      <3>1. ASSUME NEW s \in SessionId
            PROVE  ClientState(s)' = IF s = next_sid THEN "closed" ELSE ClientState(s)
        BY <1>1, <1>5, <2>1 DEF ClientState
      <3> QED BY <2>1, <3>1, Zenon
    <2> QED BY <1>5, <2>1, <2>2, <2>3 DEF Service!Spend, Service!ServiceNext
  <1>6. ASSUME NEW x \in Session, x.state = "Ready", next_sid' = next_sid + 1,
               sessions' = [sessions EXCEPT ![next_sid] = x]
        PROVE  Service!ServiceNext
    <2>1. next_sid \in SessionId /\ state[next_sid] = "unused"
      BY <1>1, <1>3, <1>6 DEF ClientState
    <2>2. x.uuid \in Uuid
      BY DEF Session
    <2>3. owner' = [owner EXCEPT ![next_sid] = x.uuid]
      BY <1>1, <1>6, <2>1, Zenon DEF TypeOK
    <2>4. state' = [state EXCEPT ![next_sid] = "open"]
      <3>1. ASSUME NEW s \in SessionId
            PROVE  ClientState(s)' = IF s = next_sid THEN "open" ELSE ClientState(s)
        BY <1>1, <1>6, <2>1 DEF ClientState, TypeOK
      <3> QED BY <2>1, <3>1, Zenon
    <2> QED BY <1>6, <2>1, <2>2, <2>3, <2>4, Zenon DEF Service!Open, Service!ServiceNext
  <1>7. ASSUME NEW sid \in SessionId, sessions[sid].state # "Free", next_sid' = next_sid,
               sessions' = [sessions EXCEPT ![sid] = NoSession]
        PROVE  Service!ServiceNext
    <2>1. sid < next_sid
      BY <1>1, <1>2, <1>7
    <2>2. state[sid] \in {"open", "dead"}
      BY <1>1, <1>7, <2>1 DEF ClientState
    <2>3. owner' = [owner EXCEPT ![sid] = AnyUuid]
      BY <1>1, <1>2, <1>7, Zenon DEF TypeOK
    <2>4. state' = [state EXCEPT ![sid] = "closed"]
      BY <1>1, <1>2, <1>7, <2>1, Zenon DEF ClientState, TypeOK
    <2> QED BY <1>7, <2>2, <2>3, <2>4, Zenon DEF Service!Close, Service!ServiceNext
  <1>8. ASSUME NEW iid \in InstanceId, sessions' = PoisonInstance(iid), next_sid' = next_sid,
               instances[iid].state = "Live"
        PROVE  Service!ServiceNext
    <2> DEFINE u == instances[iid].uuid
               K == {s \in SessionsOf(iid) : sessions[s].state = "Ready"}
    <2>0. SessionsOf(iid) = {s \in SessionId : sessions[s].state # "Free" /\ sessions[s].instance = iid}
      BY SessionsFinite, Zenon DEF NamedIn
    <2>1. u \in Uuid /\ K \in SUBSET SessionId
      BY <1>1, <2>0 DEF TypeOK, Instance
    <2>2. ASSUME NEW s \in K PROVE state[s] = "open" /\ owner[s] = u
      <3>1. s \in SessionId /\ sessions[s].state = "Ready" /\ sessions[s].instance = iid
        BY <2>0
      <3>2. iid # None /\ sessions[s].kind \in {"UserTa", "Pta"}
        BY <1>1, <3>1, KernelAssumption DEF TypeOK, Session, None, InstanceId
      <3>3. sessions[s].kind = "UserTa"
        BY <3>1, <3>2 DEF IInv, SessionInv, SessionTargets
      <3>4. instances[iid].uuid = sessions[s].uuid
        BY <3>1, <3>3, Zenon DEF IInv, SessionInv, SessionTargets, ReadySessionHasLiveInstance
      <3>5. s < next_sid
        BY <1>1, <1>2, <3>1
      <3> QED BY <1>1, <3>1, <3>4, <3>5 DEF ClientState
    <2>3. owner' = owner
      BY <1>1, <1>8 DEF TypeOK, Session, PoisonInstance
    <2>4. state' = [s \in SessionId |-> IF s \in K THEN "dead" ELSE state[s]]
      <3>1. ASSUME NEW s \in SessionId
            PROVE  ClientState(s)' = IF s \in K THEN "dead" ELSE state[s]
        <4>1. CASE s \in SessionsOf(iid)
          <5>1. /\ sessions'[s] = [sessions[s] EXCEPT !.state = "Dead"]
                /\ sessions[s].state # "Free"
            BY <1>8, <2>0, <4>1 DEF PoisonInstance
          <5>2. sessions'[s].state = "Dead" /\ s < next_sid
            BY <1>1, <1>2, <5>1 DEF TypeOK, Session
          <5> QED BY <1>1, <1>8, <4>1, <5>1, <5>2 DEF ClientState
        <4>2. CASE s \notin SessionsOf(iid)
          <5>1. sessions'[s] = sessions[s]
            BY <1>8, <4>2 DEF PoisonInstance
          <5> QED BY <1>1, <1>8, <4>2, <5>1 DEF ClientState
        <4> QED BY <4>1, <4>2
      <3> QED BY <3>1
    <2> HIDE DEF K, u
    <2> QED BY <1>8, <2>1, <2>2, <2>3, <2>4, Zenon DEF Service!Panic, Service!ServiceNext
  <1> QED BY <1>4, <1>5, <1>6, <1>7, <1>8 DEF SessionTableStep

\* The kernel implements the session service: through every interleaving of opens,
\* loads, closes and panics a client sees ids handed out once and in order, sessions
\* that die only together with sessions of the same TA, and closed sessions stay
\* closed.
THEOREM KernelImplementsService == Spec => ImplementsService
  <1>1. Init => Service!ServiceInit
    <2> SUFFICES ASSUME Init PROVE Service!ServiceInit
      OBVIOUS
    <2>1. next_sid = 1 /\ sessions = [s \in SessionId |-> NoSession] /\ NoSession.uuid = AnyUuid
      BY DEF Init, NoSession
    <2>2. \A s \in SessionId : s >= next_sid
      BY <2>1 DEF SessionId
    <2> QED BY <2>1, <2>2 DEF Service!ServiceInit, ClientState
  <1>2. IInv /\ IInv' /\ [Next]_vars => [Service!ServiceNext]_(Service!svars)
    <2> SUFFICES ASSUME IInv, IInv', [Next]_vars
                 PROVE  [Service!ServiceNext]_(Service!svars)
      OBVIOUS
    <2>1. TypeInv /\ LockHolders /\ SessionTargets /\ WaitingForFirst /\ TypeOK
      BY DEF IInv, SessionInv, TypeInv
    <2>2. TableStep
      BY <2>1, NextSteps
    <2>3. SessionTableStep
      BY <2>1, <2>2, SessionTableSteps
    <2> QED BY <2>3, ServiceStep
  <1> QED BY <1>1, <1>2, InvHolds, PTL DEF Spec, ImplementsService, Service!ServiceSpec

=============================================================================
