--------------------------- MODULE SessionService ---------------------------
(***************************************************************************)
(* What the kernel promises its clients about sessions: ids are handed out *)
(* in order and never again, a session belongs to one TA for its life, it  *)
(* goes from open to dead at most once, always together with sessions of   *)
(* the same TA only, and a closed session stays closed.                    *)
(***************************************************************************)
EXTENDS Naturals

CONSTANTS
    SessionId,   \* ids, a set of positive numbers
    Ta,          \* TA identities
    NoTa         \* owner of an id that is not in use

VARIABLES
    state,   \* of each id
    owner,   \* TA of each id
    next     \* the next id

svars == <<state, owner, next>>

ServiceInit ==
    /\ state = [s \in SessionId |-> "unused"]
    /\ owner = [s \in SessionId |-> NoTa]
    /\ next = 1

\* A session of u is opened under the next id.
Open(u) ==
    /\ next \in SessionId /\ state[next] = "unused"
    /\ state' = [state EXCEPT ![next] = "open"]
    /\ owner' = [owner EXCEPT ![next] = u]
    /\ next' = next + 1

\* An open that fails after the id was drawn: the id is spent.
Spend ==
    /\ next \in SessionId
    /\ state' = [state EXCEPT ![next] = "closed"]
    /\ owner' = owner
    /\ next' = next + 1

Close(s) ==
    /\ state[s] \in {"open", "dead"}
    /\ state' = [state EXCEPT ![s] = "closed"]
    /\ owner' = [owner EXCEPT ![s] = NoTa]
    /\ next' = next

\* A TA panics: the sessions K of one of its instances die together.
Panic(u, K) ==
    /\ \A s \in K : state[s] = "open" /\ owner[s] = u
    /\ state' = [s \in SessionId |-> IF s \in K THEN "dead" ELSE state[s]]
    /\ owner' = owner
    /\ next' = next

ServiceNext ==
    \/ \E u \in Ta : Open(u)
    \/ Spend
    \/ \E s \in SessionId : Close(s)
    \/ \E u \in Ta, K \in SUBSET SessionId : Panic(u, K)

ServiceSpec == ServiceInit /\ [][ServiceNext]_svars

=============================================================================
