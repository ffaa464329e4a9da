------------------------------- MODULE IdTable -------------------------------
(***************************************************************************)
(* What Kernel assumes of its session table and its instance table: a map  *)
(* from ids to entries with a capacity, in which a new entry gets an id    *)
(* that no entry in the table has.                                         *)
(***************************************************************************)
EXTENDS Naturals, FiniteSets

CONSTANTS Id, Owner, Cap

VARIABLE entries   \* a function from the ids in use to [owner, dead]

Entry == [owner : Owner, dead : BOOLEAN]

MapInit == entries = << >>

Insert(id, o) ==
    /\ id \notin DOMAIN entries
    /\ Cardinality(DOMAIN entries) < Cap
    /\ entries' = [k \in DOMAIN entries \cup {id} |->
                      IF k = id THEN [owner |-> o, dead |-> FALSE] ELSE entries[k]]

Remove(id) ==
    /\ id \in DOMAIN entries
    /\ entries' = [k \in DOMAIN entries \ {id} |-> entries[k]]

Kill(o) ==
    entries' = [k \in DOMAIN entries |->
                   IF entries[k].owner = o THEN [entries[k] EXCEPT !.dead = TRUE]
                   ELSE entries[k]]

MapNext ==
    \/ \E id \in Id, o \in Owner : Insert(id, o)
    \/ \E id \in Id : Remove(id)
    \/ \E o \in Owner : Kill(o)

MapSpec == MapInit /\ [][MapNext]_entries

=============================================================================
