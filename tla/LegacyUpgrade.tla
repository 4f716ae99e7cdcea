---------------------------- MODULE LegacyUpgrade ---------------------------
(***************************************************************************)
(* An EventStore whose database was written by the version before V4 and   *)
(* has just been migrated.  Migration 2 adds result_schema_version and     *)
(* leaves it NULL in the rows that are there, migration 3 creates          *)
(* observe_runs empty: a legacy event has attempts but no runs.  From      *)
(* there on it is used like any other.                                     *)
(***************************************************************************)
EXTENDS EventStore

\* A first event as the previous version left it after one attempt; its
\* result, if it has one, is of no V4 shape.
LegacyRow(b, state, failure) ==
    [AbsentEvent EXCEPT
        !.state = state, !.failure = failure, !.seq = 1, !.body = b, !.pseq = 1,
        !.attempt = 1, !.token = IF state = "pending" THEN 1 ELSE 0]

LegacyRows(b) ==
    {LegacyRow(b, "completed", "none"), LegacyRow(b, "pending", "none"),
     LegacyRow(b, "failed", "retryable")}

\* The cursor of the session of an event that was left in row.
LegacyCursor(row) == IF row.state = "completed" THEN 2 ELSE 1

UpgradedInit ==
    \E k \in Keys, b \in Bodies : \E row \in LegacyRows(b) :
        /\ event = [[l \in Keys |-> AbsentEvent] EXCEPT ![k] = row]
        /\ cursor = [[p \in Projects |-> [s \in Sessions |-> 0]]
                        EXCEPT ![k.project][k.session] = LegacyCursor(row)]
        /\ run = [l \in Keys |-> [n \in Attempts |-> "none"]]
        /\ memory = [m \in MemoryIds |-> Nil]
        /\ relations = {}

UpgradedSpec == UpgradedInit /\ [][Next]_vars

\* tests/test_storage_migrations.py: "legacy rows survive additive migrations
\* with nullable v4 metadata"; so every later start accepts the upgraded
\* database, whatever has been done with its legacy events since.
UpgradedRestartable == StartupAccepts
=============================================================================
