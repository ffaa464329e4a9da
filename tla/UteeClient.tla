----------------------------- MODULE UteeClient -----------------------------
(***************************************************************************)
(* The Internal Client API of a TA, crates/rustee-utee/src/client.rs, with *)
(* the session table and the cancel ids of runtime.rs.  A TA opens         *)
(* sessions to other TAs through system calls; the handles it gets are the *)
(* kernel's session ids, and a table of the runtime tells which of them    *)
(* are its own.  Using any other handle panics the TA.                     *)
(***************************************************************************)
EXTENDS Naturals, FiniteSets

CONSTANTS
  SESSION_SLOTS, \* entries of the table, 16 in the code
  MaxSession,    \* bound: sessions the kernel opens
  CancelWrap     \* values of a cancel id, 2^32 in the code

ASSUME ClientAssumption ==
  SESSION_SLOTS \in Nat \ {0} /\ MaxSession \in Nat /\ CancelWrap \in Nat /\ CancelWrap > 1

VARIABLES
  sessions,       \* Core.sessions: 0 is a free entry
  next_cancel_id,
  hook,           \* a system call handler is installed
  opened,         \* external: sessions the kernel ever opened for this TA
  live,           \* external: those it has not closed; it got a handle to each
  crowded,        \* history: a session came when the table was full
  panicked        \* tee_panic was called

clientVars == <<sessions, next_cancel_id, hook, opened, live, crowded, panicked>>

Entry == 1..SESSION_SLOTS

ClientInit ==
  /\ sessions = [s \in Entry |-> 0]
  /\ next_cancel_id = 1
  /\ hook \in BOOLEAN
  /\ opened = 0 /\ live = {}
  /\ crowded = FALSE /\ panicked = FALSE

----------------------------------------------------------------------------
First(S) == CHOOSE s \in S : \A t \in S : s <= t

FreeEntries == {s \in Entry : sessions[s] = 0}

remember_session(id) ==
  IF FreeEntries = {} THEN sessions ELSE [sessions EXCEPT ![First(FreeEntries)] = id]

has_session(id) == \E s \in Entry : sessions[s] = id

\* A faulty forget_session, for mutation: the first entry in use goes.
forget_session_first(id) ==
  LET S == Entry \ FreeEntries IN IF S = {} THEN sessions ELSE [sessions EXCEPT ![First(S)] = 0]

forget_session(id) ==
  LET S == {s \in Entry : sessions[s] = id}
  IN  IF S = {} THEN sessions ELSE [sessions EXCEPT ![First(S)] = 0]

\* A faulty mint_cancel_id, for mutation: 0 is not skipped.
mint_cancel_id_zero == (next_cancel_id + 1) % CancelWrap

\* The next cancel id: wrapping_add(1).max(1).
mint_cancel_id == IF next_cancel_id + 1 = CancelWrap THEN 1 ELSE next_cancel_id + 1

\* open_ta_session of good parameters: without a handler, with an error of
\* the kernel, and with a session.  A session the table has no entry for is
\* handed out all the same.  (Bad parameters change nothing.)
OpenTaSession ==
  /\ ~panicked
  /\ next_cancel_id' = mint_cancel_id
  /\ \/ UNCHANGED <<sessions, opened, live, crowded>>
     \/ /\ hook /\ opened < MaxSession
        /\ opened' = opened + 1
        /\ live' = live \cup {opened'}
        /\ sessions' = remember_session(opened')
        /\ crowded' = (crowded \/ FreeEntries = {})
  /\ UNCHANGED <<hook, panicked>>

tee_panic ==
  /\ panicked' = TRUE
  /\ UNCHANGED <<sessions, next_cancel_id, hook, opened, live, crowded>>

\* invoke_ta_command; the kernel's answer is the caller's.
InvokeTaCommand(h) ==
  /\ ~panicked
  /\ IF has_session(h)
     THEN /\ next_cancel_id' = mint_cancel_id
          /\ UNCHANGED <<sessions, hook, opened, live, crowded, panicked>>
     ELSE tee_panic

\* close_ta_session; what the kernel says to the close is not looked at.
CloseTaSession(h) ==
  /\ ~panicked
  /\ IF has_session(h)
     THEN /\ live' = live \ {h}
          /\ sessions' = forget_session(h)
          /\ UNCHANGED <<next_cancel_id, hook, opened, crowded, panicked>>
     ELSE tee_panic

ClientNext ==
  \/ OpenTaSession
  \/ \E h \in live : InvokeTaCommand(h) \/ CloseTaSession(h)

ClientSpec == ClientInit /\ [][ClientNext]_clientVars

----------------------------------------------------------------------------
(* Properties *)

ClientTypeOK ==
  /\ sessions \in [Entry -> 0..MaxSession]
  /\ next_cancel_id \in 1..(CancelWrap - 1)
  /\ live \subseteq 1..opened

\* As long as a TA keeps no more sessions than the table has entries, the
\* table has exactly the sessions the kernel has open for it, each once, in
\* whatever order they were opened and closed: no use of an own handle
\* panics the TA, and no entry stays behind and takes the place of a later
\* session.
SessionTableExact ==
  ~crowded => /\ {sessions[s] : s \in Entry} \ {0} = live
              /\ Cardinality(live) = Cardinality(Entry \ FreeEntries)
              /\ ~panicked
============================================================================
