----------------------------- MODULE KernelInv ------------------------------
(***************************************************************************)
(* The inductive invariant of Kernel.                                      *)
(***************************************************************************)
EXTENDS Kernel

\* The id counters stay in range: an id is in reserve for each open that has
\* been let in, waiting for LOAD_TA or in an entry point.
IdBounds ==
    LET waiting == IF yielding.active THEN 1 ELSE 0
        opening == IF call.at \in {"create", "open", "pta_open"} THEN 1 ELSE 0
    IN  /\ next_sid + waiting + opening <= IdMax + 1
        /\ next_iid + waiting <= IdMax + 1

\* A running TA entry point belongs to the current instance.
CallHasInstance ==
    call.at \in TaEntry => call.iid \in InstanceId /\ current_instance = call.iid

TypeInv == TypeOK /\ IdBounds /\ CallHasInstance

\* Ids that were not handed out are free.
UnusedIdsFree ==
    /\ \A s \in SessionId : s >= next_sid => sessions[s] = NoSession
    /\ \A i \in InstanceId : i >= next_iid => instances[i].state = "Free"

\* Who holds a lock: the call that is running, and for ever the call that a
\* panic ended.
LockHolders ==
    /\ call.at \in TaEntry => RunningInstanceIsLive
    /\ call.at \in {"idle"} \cup PtaEntry => current_instance = None
    /\ call.at # "halted" => (current_pta <=> call.at = "pta_invoke")
    /\ \A i \in InstanceId :
          /\ instances[i].state = "Dead" => instances[i].busy
          /\ instances[i].state = "Live" /\ instances[i].busy /\ call.at # "spin" =>
                call.at \in TaEntry /\ call.iid = i

\* What the sessions in the table say of instances.
SessionTargets ==
    /\ ReadySessionHasLiveInstance
    /\ \A s \in SessionId :
          /\ sessions[s].state = "Free" => sessions[s] = NoSession
          /\ sessions[s].state # "Free" /\ sessions[s].kind = "UserTa" =>
                sessions[s].instance # None
          /\ sessions[s].kind = "Pta" => sessions[s].instance = None
          /\ sessions[s].state = "Dead" =>
                sessions[s].kind = "UserTa" /\ instances[sessions[s].instance].state = "Dead"

\* The count never falls behind the table, not even when a guest TA spins in
\* close after its session left the table.
CountCovers ==
    \A i \in InstanceId :
        instances[i].state = "Live" => Cardinality(SessionsOf(i)) <= instances[i].session_count

\* An instance has no session before create returns and when destroy runs.
NoSessionAtEnds ==
    call.at \in {"create", "destroy"} => instances[call.iid].session_count = 0

\* An instance that takes one session has at most one, opened or being opened.
SessionLimits ==
    \A i \in InstanceId :
        instances[i].state = "Live" /\ ~instances[i].props.multi_session =>
            instances[i].session_count
                + (IF call.at \in {"create", "open"} /\ call.iid = i THEN 1 ELSE 0) <= 1

\* While an open waits for its image no live single instance of that TA exists
\* and none can come to exist but from the reply.
WaitingForFirst ==
    yielding.active => yielding.uuid \notin DOMAIN Early /\ LiveSingles(yielding.uuid) = {}

\* The sessions and the counters.
SessionInv ==
    /\ UnusedIdsFree /\ SessionTargets /\ SessionCountExact /\ CountCovers
    /\ NoSessionAtEnds /\ SessionLimits

IInv == TypeInv /\ LockHolders /\ SessionInv /\ OneLiveSingle /\ WaitingForFirst

=============================================================================
