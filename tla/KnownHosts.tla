----------------------------- MODULE KnownHosts -----------------------------
(***************************************************************************)
(* Host key pinning as the code does it: every connection attempt opens    *)
(* its own SQLite connection in check_server_key (ssh/session.rs) and runs *)
(* verify_or_trust (ssh/known_hosts.rs), a transaction begun with BEGIN    *)
(* IMMEDIATE.  Attempts run concurrently with each other, with the pin     *)
(* deletion of the settings panel, and with the end of the process.        *)
(***************************************************************************)
EXTENDS Naturals

CONSTANTS
    Endpoints, Keys, Checks, NoKey,  \* as in TrustOnFirstUse
    NoCheck, NoEndpoint,
    MaxDeletes                       \* bound on deletions of a pin

ASSUME KnownHostsAssumption ==
    /\ NoKey \notin Keys
    /\ NoCheck \notin Checks /\ NoEndpoint \notin Endpoints
    /\ MaxDeletes \in Nat

VARIABLES
    table,     \* committed rows: endpoint -> key, or NoKey
    writer,    \* which check holds SQLite's write lock
    pc,        \* control point of each check
    endpoint,  \* what the check is about
    key,       \* the key the server presented
    seen,      \* what its SELECT returned
    insert,    \* does the open transaction hold an INSERT?
    verdict,   \* its outcome
    deletes,   \* history: deletions of each endpoint's pin so far
    deletesAt  \* history: the same, when the check committed

trustVars == <<table, writer, pc, endpoint, key, seen, insert, verdict, deletes, deletesAt>>

TrustTypeOK ==
    /\ table \in [Endpoints -> Keys \cup {NoKey}]
    /\ writer \in Checks \cup {NoCheck}
    /\ pc \in [Checks -> {"idle", "begin", "select", "decide", "commit", "done"}]
    /\ endpoint \in [Checks -> Endpoints \cup {NoEndpoint}]
    /\ key \in [Checks -> Keys \cup {NoKey}]
    /\ \A c \in Checks : pc[c] # "idle" => endpoint[c] \in Endpoints /\ key[c] \in Keys
    /\ seen \in [Checks -> Keys \cup {NoKey}]
    /\ insert \in [Checks -> BOOLEAN]
    /\ verdict \in [Checks -> {"pending", "accepted", "rejected", "failed"}]
    /\ deletes \in [Endpoints -> Nat]
    /\ deletesAt \in [Checks -> Nat]

TrustInit ==
    /\ table = [e \in Endpoints |-> NoKey]
    /\ writer = NoCheck
    /\ pc = [c \in Checks |-> "idle"]
    /\ endpoint = [c \in Checks |-> NoEndpoint]
    /\ key = [c \in Checks |-> NoKey]
    /\ seen = [c \in Checks |-> NoKey]
    /\ insert = [c \in Checks |-> FALSE]
    /\ verdict = [c \in Checks |-> "pending"]
    /\ deletes = [e \in Endpoints |-> 0]
    /\ deletesAt = [c \in Checks |-> 0]

\* The handshake calls check_server_key with the server's key.
CheckServerKey(c, e, k) ==
    /\ pc[c] = "idle"
    /\ pc' = [pc EXCEPT ![c] = "begin"]
    /\ endpoint' = [endpoint EXCEPT ![c] = e]
    /\ key' = [key EXCEPT ![c] = k]
    /\ UNCHANGED <<table, writer, seen, insert, verdict, deletes, deletesAt>>

\* BEGIN IMMEDIATE takes the write lock before the SELECT; a deferred BEGIN
\* takes it only with the first write.
LockFreeDeferred == TRUE
LockFree == writer = NoCheck

Begin(c) ==
    /\ pc[c] = "begin" /\ LockFree
    /\ writer' = c
    /\ pc' = [pc EXCEPT ![c] = "select"]
    /\ UNCHANGED <<table, endpoint, key, seen, insert, verdict, deletes, deletesAt>>

\* The lock stays taken longer than busy_timeout, or the file cannot be opened.
Busy(c) ==
    /\ pc[c] = "begin"
    /\ pc' = [pc EXCEPT ![c] = "done"]
    /\ verdict' = [verdict EXCEPT ![c] = "failed"]
    /\ UNCHANGED <<table, writer, endpoint, key, seen, insert, deletes, deletesAt>>

\* The fingerprint column of the row.
Found(c) == table[endpoint[c]]

Select(c) ==
    /\ pc[c] = "select"
    /\ seen' = [seen EXCEPT ![c] = Found(c)]
    /\ pc' = [pc EXCEPT ![c] = "decide"]
    /\ UNCHANGED <<table, writer, endpoint, key, insert, verdict, deletes, deletesAt>>

\* match existing: no row is inserted unless there was none; a mismatch
\* overwrites the pin in the version that re-trusts silently.
InsertsAlways(c) == TRUE
Inserts(c) == seen[c] = NoKey

Decide(c) ==
    /\ pc[c] = "decide"
    /\ insert' = [insert EXCEPT ![c] = Inserts(c)]
    /\ pc' = [pc EXCEPT ![c] = "commit"]
    /\ UNCHANGED <<table, writer, endpoint, key, seen, verdict, deletes, deletesAt>>

\* tx.commit() and the result: the lock is free again.
Commit(c) ==
    /\ pc[c] = "commit"
    /\ table' = IF insert[c] THEN [table EXCEPT ![endpoint[c]] = key[c]] ELSE table
    /\ verdict' = [verdict EXCEPT ![c] =
                     IF seen[c] \in {NoKey, key[c]} THEN "accepted" ELSE "rejected"]
    /\ deletesAt' = [deletesAt EXCEPT ![c] = deletes[endpoint[c]]]
    /\ writer' = NoCheck
    /\ pc' = [pc EXCEPT ![c] = "done"]
    /\ UNCHANGED <<endpoint, key, seen, insert, deletes>>

\* SELECT, INSERT or COMMIT fails (disk full, I/O error): the transaction is
\* dropped and rolls back, the handshake ends with an error.
Rollback(c) ==
    /\ pc[c] \in {"select", "decide", "commit"}
    /\ verdict' = [verdict EXCEPT ![c] = "failed"]
    /\ writer' = NoCheck
    /\ pc' = [pc EXCEPT ![c] = "done"]
    /\ UNCHANGED <<table, endpoint, key, seen, insert, deletes, deletesAt>>

\* The settings list the pins, each with a Remove button; a list that is out of date
\* makes a delete that finds nothing.
Listed(e) == table[e] # NoKey

\* known_hosts::delete on the main connection: one statement, which waits for
\* the write lock; NotFound when there is no such pin.
Delete(e) ==
    /\ writer = NoCheck /\ Listed(e) /\ deletes[e] < MaxDeletes
    /\ table' = [table EXCEPT ![e] = NoKey]
    /\ deletes' = [deletes EXCEPT ![e] = @ + 1]
    /\ UNCHANGED <<writer, pc, endpoint, key, seen, insert, verdict, deletesAt>>

\* The process ends: open transactions are rolled back by SQLite, and the
\* attempts under way are gone.
Killed ==
    LET open == {c \in Checks : pc[c] \notin {"idle", "done"}}
    IN  /\ open # {}
        /\ writer' = NoCheck
        /\ pc' = [c \in Checks |-> IF c \in open THEN "done" ELSE pc[c]]
        /\ verdict' = [c \in Checks |-> IF c \in open THEN "failed" ELSE verdict[c]]
        /\ UNCHANGED <<table, endpoint, key, seen, insert, deletes, deletesAt>>

TrustNext ==
    \/ \E c \in Checks :
        \/ \E e \in Endpoints, k \in Keys : CheckServerKey(c, e, k)
        \/ Begin(c) \/ Busy(c) \/ Select(c) \/ Decide(c) \/ Commit(c) \/ Rollback(c)
    \/ \E e \in Endpoints : Delete(e)
    \/ Killed

TrustSpec == TrustInit /\ [][TrustNext]_trustVars

-----------------------------------------------------------------------------
\* Two checks of one endpoint that both accepted did so for the same key,
\* unless the user deleted the pin between the two decisions.
OneKeyPerEndpoint ==
    \A c, d \in Checks :
        /\ verdict[c] = "accepted" /\ verdict[d] = "accepted"
        /\ endpoint[c] = endpoint[d] /\ deletesAt[c] = deletesAt[d]
        => key[c] = key[d]

\* verify_or_trust, interleaved as it is, behaves as if checks happened one at
\* a time: the concurrent transactions implement TrustOnFirstUse.
TOFU == INSTANCE TrustOnFirstUse WITH pins <- table

ImplementsTOFU == TOFU!Spec

\* A pin changes only by the user's deletion: no check ever replaces it, also
\* when a transaction fails half-way or the process is killed.
PinsOnlyDeleted ==
    [][\A e \in Endpoints :
        table[e] # NoKey => \/ table'[e] = table[e]
                            \/ table'[e] = NoKey /\ deletes'[e] > deletes[e]]_trustVars
=============================================================================
