---------------------------- MODULE StartupAudit ----------------------------
(***************************************************************************)
(* Opening the store while it is in use.  demo_server.py constructs a      *)
(* SqliteEventStore for every request, so _init_db of one request runs     *)
(* beside the transactions of the others.  Its reads are not in one        *)
(* transaction: the preflight, the foreign keys and relations, the event   *)
(* rows, and the runs of each event row are SELECTs of their own, and      *)
(* transactions may commit between any two.                                *)
(***************************************************************************)
EXTENDS EventStore

CONSTANT Openers \* the requests that open the store

VARIABLE opening \* how far the _init_db of each opener has come

audit == <<event, cursor, run, memory, relations, opening>>

\* rows: the event rows as they were read; left: the rows whose runs are
\* still to be read.
NotOpened == [step |-> "closed", rows |-> [k \in Keys |-> AbsentEvent], left |-> {}]

Doing(o, step) == opening[o].step = step

\* A check of _init_db that raises leaves no store, one that does not goes on.
Check(o, ok, next) ==
    opening' = [opening EXCEPT ![o].step = IF ok THEN next ELSE "raised"]

Open(o) ==
    /\ opening[o].step \in {"closed", "opened", "raised"}
    /\ opening' = [opening EXCEPT ![o] = [NotOpened EXCEPT !.step = "preflight"]]
    /\ UNCHANGED vars

\* _preflight_project_event_sequences.
Preflight(o) ==
    /\ Doing(o, "preflight")
    /\ Check(o, UniqueProjectSeqs, "relations")
    /\ UNCHANGED vars

\* _audit_integrity, foreign keys and relations.
AuditRelations(o) ==
    /\ Doing(o, "relations")
    /\ Check(o, ForeignKeysHold /\ OneSuccessor, "events")
    /\ UNCHANGED vars

\* The rows with result_schema_version.
V4Rows == {k \in Keys : Present(k) /\ event[k].v4}

\* _audit_integrity, the event rows are read and looked at one by one.
AuditEvents(o) ==
    /\ Doing(o, "events")
    /\ opening' = [opening EXCEPT ![o] =
            [@ EXCEPT !.rows = event, !.left = V4Rows,
                      !.step = IF \A k \in V4Rows : ValidEventRow(event[k])
                               THEN "runs" ELSE "raised"]]
    /\ UNCHANGED vars

\* The runs of each row that was read are what they are now.
AuditRuns(o) ==
    /\ Doing(o, "runs")
    /\ \/ \E k \in opening[o].left :
            LET ok == RunsMatch(k, opening[o].rows[k]) IN
            opening' = [opening EXCEPT ![o].left = @ \ {k},
                                       ![o].step = IF ok THEN "runs" ELSE "raised"]
       \/ /\ opening[o].left = {}
          /\ opening' = [opening EXCEPT ![o].step = "opened"]
    /\ UNCHANGED vars

\* A transaction of another request commits.
Commit == Next /\ UNCHANGED opening

AuditInit == Init /\ opening = [o \in Openers |-> NotOpened]

AuditNext ==
    \/ Commit
    \/ \E o \in Openers : \/ Open(o) \/ Preflight(o) \/ AuditRelations(o)
                          \/ AuditEvents(o) \/ AuditRuns(o)

AuditSpec == AuditInit /\ [][AuditNext]_audit

---------------------------------------------------------------------------
\* storage.py: IntegrityAuditError is "Raised when persisted V4 state
\* violates a startup invariant", so a store that has satisfied its startup
\* invariants since it was created is never refused.
RaisedOnlyOnViolation == \A o \in Openers : ~Doing(o, "raised")
=============================================================================
