------------------------------ MODULE Sessions ------------------------------
(***************************************************************************)
(* The authenticated sessions of a storage instance and the subscribers  *)
(* bound to them (crates/bonsaidb-local/src/storage.rs).                  *)
(*                                                                         *)
(* assume_user allocates a session id under the `sessions` write lock and *)
(* inserts an Arc<AuthenticatedSession> into the session table; the       *)
(* returned Storage holds a clone of that Arc, and cloning the Storage    *)
(* clones it again.  AuthenticatedSession::drop runs when the last Arc is *)
(* dropped: if the instance's Data is still alive it removes the session  *)
(* from the table and, under the `subscribers` write lock, every          *)
(* subscriber of the session.                                             *)
(*                                                                         *)
(* An application variable that may hold a Storage is a Holder.  A       *)
(* handle is NoHandle, an unauthenticated Storage (Anonymous) or the id   *)
(* of the session whose Arc it holds.  Every Storage also holds the      *)
(* instance, so Data lives while any holder has a handle.  Subscribers    *)
(* are created by the server, which is not in this tree: that step is    *)
(* modelled from the specification.                                       *)
(***************************************************************************)
EXTENDS Naturals, FiniteSets

CONSTANTS
    Holders,       \* application variables that may hold a Storage
    MaxSessions,   \* bound on last_session_id
    MaxSubs,       \* bound on the subscriber ids
    NoHandle, Anonymous

SessionIds == 1..MaxSessions
SubIds == 1..MaxSubs

VARIABLES
    alive,          \* the instance's Data exists
    lastSessionId,  \* AuthenticatedSessions::last_session_id
    table,          \* ids whose Arc the session table holds
    handle,         \* holder -> NoHandle, Anonymous or a session id
    dropPc,         \* session -> "None" | "Subscribers" (drop between its
                    \* two locks) | "Done"
    subSession,     \* SessionSubscribers::subscribers: id -> session
                    \* (Anonymous for a subscriber without one)
    bySession,      \* SessionSubscribers::subscribers_by_session
    lastSubId       \* SessionSubscribers::last_id

vars == <<alive, lastSessionId, table, handle, dropPc, subSession, bySession,
          lastSubId>>

\* The strong count of a session's Arc<AuthenticatedSession>.
Strong(i) == (IF i \in table THEN 1 ELSE 0) + Cardinality({h \in Holders : handle[h] = i})

Init ==
    /\ alive = TRUE
    /\ lastSessionId = 0
    /\ table = {}
    /\ handle = [h \in Holders |-> NoHandle]
    /\ dropPc = [i \in SessionIds |-> "None"]
    /\ subSession = [s \in {} |-> Anonymous]
    /\ bySession = [i \in {} |-> {}]
    /\ lastSubId = 0

-----------------------------------------------------------------------------
(* Handles                                                                *)

\* Storage::open hands out an unauthenticated Storage.
Open(h) ==
    /\ alive /\ handle[h] = NoHandle
    /\ handle' = [handle EXCEPT ![h] = Anonymous]
    /\ UNCHANGED <<alive, lastSessionId, table, dropPc, subSession, bySession,
                   lastSubId>>

\* assume_user, reached from authenticate and assume_identity: under the
\* sessions write lock, last_session_id += 1 and the new session's Arc is
\* inserted into the table; the returned Storage holds a clone.
AssumeUser(h) ==
    /\ alive /\ handle[h] # NoHandle
    /\ lastSessionId < MaxSessions
    /\ LET i == lastSessionId + 1 IN
       /\ lastSessionId' = i
       /\ table' = table \cup {i}
       /\ handle' = [handle EXCEPT ![h] = i]
    /\ UNCHANGED <<alive, dropPc, subSession, bySession, lastSubId>>

\* Storage is Clone: the clone shares the session's Arc.
CloneHandle(h, g) ==
    /\ handle[h] # NoHandle /\ handle[g] = NoHandle
    /\ handle' = [handle EXCEPT ![g] = handle[h]]
    /\ UNCHANGED <<alive, lastSessionId, table, dropPc, subSession, bySession,
                   lastSubId>>

\* A Storage goes out of scope, dropping its Arc.
DropHandle(h) ==
    /\ handle[h] # NoHandle
    /\ handle' = [handle EXCEPT ![h] = NoHandle]
    /\ UNCHANGED <<alive, lastSessionId, table, dropPc, subSession, bySession,
                   lastSubId>>

\* The last StorageInstance is gone: Data is dropped with the session table
\* and the subscriber table it owns.
Teardown ==
    /\ alive /\ \A h \in Holders : handle[h] = NoHandle
    /\ alive' = FALSE
    /\ table' = {}
    /\ subSession' = [s \in {} |-> Anonymous]
    /\ bySession' = [i \in {} |-> {}]
    /\ UNCHANGED <<lastSessionId, handle, dropPc, lastSubId>>

-----------------------------------------------------------------------------
(* AuthenticatedSession::drop, once the strong count is zero              *)

\* If the storage upgrades: take the sessions write lock and remove the
\* session; the guard is held into the next step.  Otherwise nothing.
DropSession(i) ==
    /\ i <= lastSessionId /\ dropPc[i] = "None" /\ Strong(i) = 0
    /\ IF alive
         THEN /\ table' = table \ {i}
              /\ dropPc' = [dropPc EXCEPT ![i] = "Subscribers"]
         ELSE /\ dropPc' = [dropPc EXCEPT ![i] = "Done"]
              /\ UNCHANGED table
    /\ UNCHANGED <<alive, lastSessionId, handle, subSession, bySession, lastSubId>>

\* Under the subscribers write lock: remove subscribers_by_session[id] and
\* each subscriber it names.
DropSubscribers(i) ==
    /\ dropPc[i] = "Subscribers"
    /\ LET gone == IF i \in DOMAIN bySession THEN bySession[i] ELSE {} IN
       /\ subSession' = [s \in DOMAIN subSession \ gone |-> subSession[s]]
       /\ bySession' = [j \in DOMAIN bySession \ {i} |-> bySession[j]]
    /\ dropPc' = [dropPc EXCEPT ![i] = "Done"]
    /\ UNCHANGED <<alive, lastSessionId, table, handle, lastSubId>>

-----------------------------------------------------------------------------
(* The server's subscriber creation (from the specification)              *)

\* A subscriber created over a holder's session is recorded under it.
CreateSubscriber(h) ==
    /\ alive /\ handle[h] # NoHandle
    /\ lastSubId < MaxSubs
    /\ LET s == lastSubId + 1
           i == handle[h]
       IN  /\ lastSubId' = s
           /\ subSession' = [x \in DOMAIN subSession \cup {s} |->
                               IF x = s THEN i ELSE subSession[x]]
           /\ bySession' = IF i = Anonymous THEN bySession
                           ELSE [j \in DOMAIN bySession \cup {i} |->
                                   IF j = i THEN (IF i \in DOMAIN bySession
                                                  THEN bySession[i] ELSE {}) \cup {s}
                                   ELSE bySession[j]]
    /\ UNCHANGED <<alive, lastSessionId, table, handle, dropPc>>

Next ==
    \/ Teardown
    \/ \E h \in Holders :
          \/ Open(h) \/ AssumeUser(h) \/ DropHandle(h) \/ CreateSubscriber(h)
          \/ \E g \in Holders : CloneHandle(h, g)
    \/ \E i \in SessionIds : DropSession(i) \/ DropSubscribers(i)

\* A drop, once it has started, runs to completion in the dropping thread.
Fairness == \A i \in SessionIds : WF_vars(DropSession(i)) /\ WF_vars(DropSubscribers(i))

Spec == Init /\ [][Next]_vars /\ Fairness

-----------------------------------------------------------------------------
(* Properties                                                             *)

TypeOK ==
    /\ alive \in BOOLEAN
    /\ lastSessionId \in 0..MaxSessions
    /\ table \subseteq 1..lastSessionId
    /\ handle \in [Holders -> {NoHandle, Anonymous} \cup SessionIds]
    /\ dropPc \in [SessionIds -> {"None", "Subscribers", "Done"}]

\* Spec (Session): "dropping the last handle removes the entry and
\* cascades to remove that session's subscribers".  Once no Storage holds a
\* session, the session eventually leaves the table and has no
\* subscribers, or the instance itself is gone.
SessionRemovedWithLastHandle ==
    \A i \in SessionIds :
        (alive /\ i \in table /\ \A h \in Holders : handle[h] # i)
            ~> (~alive \/ (i \notin table /\ i \notin DOMAIN bySession))

====
