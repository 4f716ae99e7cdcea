----------------------------- MODULE EventStore -----------------------------
(***************************************************************************)
(* The SQLite event store of recallpack (storage.py, SqliteEventStore).    *)
(* Every public method is one short transaction opened with BEGIN          *)
(* IMMEDIATE, so every method is one action.  The clients are unrestricted *)
(* here: any caller may present any request at any time it reads from any  *)
(* clock, and any attempt that was ever handed out may still come back to  *)
(* complete or fail its event.  ObserveRuntime restricts the callers to    *)
(* the threads of observe.py.                                              *)
(*                                                                         *)
(* The tables: session_events (event), session_cursors (cursor),           *)
(* observe_runs (run), memories (memory), memory_relations (relations).    *)
(* Rows are indexed by their UNIQUE key, and a row that is not there is    *)
(* the row AbsentEvent, the cursor 0, the run "none", the memory Nil.      *)
(***************************************************************************)
EXTENDS Integers, FiniteSets

CONSTANTS
    Projects, Sessions, EventIds, \* the names a request is addressed with
    Bodies,        \* the actor, kind, observed_at and text that are hashed
    Slots,         \* lifecycle keys: (type, subject, scope_level, component)
    LessonSlots,   \* the lifecycle keys whose type is "lesson"
    Texts,         \* the texts of memories
    Blank,         \* an empty text (or subject)
    MemoryIds,     \* values _new_id("mem") may return
    Nil,           \* SQL NULL
    Times,         \* the values of now that callers pass
    LeaseSeconds,  \* how long a claim owns its event
    MaxSequence,   \* bound: the sequence numbers requests carry
    MaxProjectSeq, \* bound: events per project
    MaxAttempts    \* bound: attempts per event

ASSUME LessonsAreSlots == LessonSlots \subseteq Slots
ASSUME TimesAreIntegers == Times \subseteq Int /\ LeaseSeconds \in Int
ASSUME BoundsAreNatural ==
    MaxSequence \in Nat /\ MaxProjectSeq \in Nat /\ MaxAttempts \in Nat

Keys        == [project : Projects, session : Sessions, id : EventIds]
Sequences   == 1..MaxSequence
ProjectSeqs == 1..MaxProjectSeq
Attempts    == 1..MaxAttempts

VARIABLES
    event,     \* session_events, by (project, session, external event id)
    cursor,    \* session_cursors: next_expected_sequence_no
    run,       \* observe_runs: the state of each attempt of each event
    memory,    \* memories, by id
    relations  \* memory_relations

vars == <<event, cursor, run, memory, relations>>

---------------------------------------------------------------------------
\* Results and rows

Reasons ==
    {"given", "blank", "stale_project_event", "forbidden_lesson_supersession",
     "inactive_supersession_target", "cross_project_candidate",
     "supersession_requires_older_prior", "supersession_scope_mismatch"}

\* A final_result: memory is the id written, or the id duplicated.
Results ==
    [op : {"no_op", "duplicate", "write"}, reason : Reasons,
     memory : MemoryIds \cup {Nil}, superseded : SUBSET MemoryIds]

NoOp(why)     == [op |-> "no_op", reason |-> why, memory |-> Nil, superseded |-> {}]
Duplicate(m)  == [op |-> "duplicate", reason |-> "given", memory |-> m, superseded |-> {}]
Write(m, sup) == [op |-> "write", reason |-> "given", memory |-> m, superseded |-> sup]

\* _valid_v4_final_result: a reason is required, and so is a memory
\* where the operation names one.
ValidResult(r) ==
    /\ r \in Results
    /\ r.reason # "blank"
    /\ r.op = "no_op" <=> r.memory = Nil

\* A row of session_events.  token is the attempt a lease_token was minted
\* for (0 is NULL): the uuid is fresh, so it names that attempt and no other.
EventRows ==
    [state : {"absent", "pending", "completed", "failed"},
     failure : {"none", "retryable", "terminal"},
     seq : 0..MaxSequence, body : Bodies \cup {Nil}, pseq : 0..MaxProjectSeq,
     attempt : 0..MaxAttempts, token : 0..MaxAttempts, lease : Int,
     result : Results \cup {Nil}, v4 : BOOLEAN]

AbsentEvent ==
    [state |-> "absent", failure |-> "none", seq |-> 0, body |-> Nil,
     pseq |-> 0, attempt |-> 0, token |-> 0, lease |-> 0, result |-> Nil,
     v4 |-> FALSE]

\* The row of a new event: its first attempt holds the lease.
FirstRow(s, b, n, now) ==
    [state |-> "pending", failure |-> "none", seq |-> s, body |-> b, pseq |-> n,
     attempt |-> 1, token |-> 1, lease |-> now + LeaseSeconds, result |-> Nil,
     v4 |-> TRUE]

\* _take_over_lease: the next attempt holds the lease.
RetriedRow(row, now) ==
    [state |-> "pending", failure |-> "none", seq |-> row.seq, body |-> row.body,
     pseq |-> row.pseq, attempt |-> row.attempt + 1, token |-> row.attempt + 1,
     lease |-> now + LeaseSeconds, result |-> row.result, v4 |-> row.v4]

\* _complete_pending_event: the lease is given up for the result.
CompletedRow(row, r) ==
    [state |-> "completed", failure |-> row.failure, seq |-> row.seq, body |-> row.body,
     pseq |-> row.pseq, attempt |-> row.attempt, token |-> 0, lease |-> 0,
     result |-> r, v4 |-> TRUE]

\* fail_retryable_event: the lease is given up for another attempt's.
FailedRow(row) ==
    [state |-> "failed", failure |-> "retryable", seq |-> row.seq, body |-> row.body,
     pseq |-> row.pseq, attempt |-> row.attempt, token |-> 0, lease |-> 0,
     result |-> row.result, v4 |-> row.v4]

MemoryRows == [project : Projects, slot : Slots, text : Texts, source : Keys,
               pseq : 0..MaxProjectSeq]
Relations  == [prior : MemoryIds, successor : MemoryIds, source : Keys]
RunStates  == {"none", "running", "succeeded", "semantic_no_op",
               "failed_retryable", "lost_lease"}

ASSUME NilIsNoValue ==
    Nil \notin MemoryIds \cup Bodies /\ Nil \notin MemoryRows /\ Nil \notin Results

Present(k)    == event[k].state # "absent"
Incomplete(k) == event[k].state \in {"pending", "failed"}
Stored(m)     == memory[m] # Nil
Superseded(m) == \E r \in relations : r.prior = m
MutActive(m)  == Stored(m)
Active(m)     == Stored(m) /\ ~Superseded(m)

InSession(k, p, s) == k.project = p /\ k.session = s

---------------------------------------------------------------------------
\* Claiming an event

\* _cursor_for reads the row after INSERT OR IGNORE of 1.
Expected(p, s) == IF cursor[p][s] = 0 THEN 1 ELSE cursor[p][s]

MutBlockedOnlyByPending(p, s) ==
    \E k \in Keys : InSession(k, p, s) /\ event[k].state = "pending"

\* _blocking_event: incomplete, and not failed for good.
Blocked(p, s) ==
    \E k \in Keys : /\ InSession(k, p, s)
                    /\ Incomplete(k)
                    /\ event[k].failure # "terminal"

MutNextSeqPerSession(k, n) ==
    /\ \A l \in Keys : Present(l) /\ InSession(l, k.project, k.session)
                        => event[l].pseq < n
    /\ n = 1 \/ \E l \in Keys :
                    Present(l) /\ InSession(l, k.project, k.session) /\ event[l].pseq = n - 1

\* _next_project_event_seq: n = COALESCE(MAX(project_event_seq), 0) + 1.
NextProjectSeq(k, n) ==
    /\ \A l \in Keys : Present(l) /\ l.project = k.project => event[l].pseq < n
    /\ \/ n = 1
       \/ \E l \in Keys : Present(l) /\ l.project = k.project /\ event[l].pseq = n - 1

\* claim_event, for a key that has no row: which request gets a new event.
Claimable(k, s) ==
    /\ s = Expected(k.project, k.session)
    /\ ~Blocked(k.project, k.session)

\* claim_event, new event: the cursor row is there from now on, the event
\* gets the next place in its project and its first attempt.
ClaimNew(k, s, b, now) ==
    /\ ~Present(k)
    /\ Claimable(k, s)
    /\ 1 \in Attempts
    /\ \E n \in ProjectSeqs :
        /\ NextProjectSeq(k, n)
        /\ event' = [event EXCEPT ![k] = FirstRow(s, b, n, now)]
    /\ cursor' = [cursor EXCEPT ![k.project][k.session] = Expected(k.project, k.session)]
    /\ run' = [run EXCEPT ![k][1] = "running"]
    /\ UNCHANGED <<memory, relations>>

\* claim_event, no row and not claimable (sequence_conflict, out_of_order or
\* prior_event_incomplete): the cursor row that was read stays inserted.
ClaimRefused(k, s) ==
    /\ ~Present(k)
    /\ ~Claimable(k, s)
    /\ cursor' = [cursor EXCEPT ![k.project][k.session] = Expected(k.project, k.session)]
    /\ UNCHANGED <<event, run, memory, relations>>

\* The payload hash covers the body and the sequence number.
SamePayload(k, s, b) == event[k].seq = s /\ event[k].body = b

MutLeaseExpired(k, now) == event[k].lease < now

LeaseExpired(k, now) == event[k].lease <= now

MutTakeable(k, now) ==
    \/ event[k].state \in {"pending", "completed"} /\ LeaseExpired(k, now)
    \/ event[k].state = "failed" /\ event[k].failure = "retryable"
MutTakeableFailed(k, now) == event[k].state = "failed" /\ event[k].failure = "retryable"

\* _claim_existing: which row is given a further attempt.
Takeable(k, now) == \/ event[k].state = "pending" /\ LeaseExpired(k, now)
                    \/ event[k].state = "failed" /\ event[k].failure = "retryable"

\* The runs of k once attempt n is taken over: a pending predecessor ends
\* as lost_lease, a failed one has ended already.
RunsAfterTakeOver(k, n) ==
    IF event[k].state = "pending"
    THEN [run[k] EXCEPT ![n] = "lost_lease", ![n + 1] = "running"]
    ELSE [run[k] EXCEPT ![n + 1] = "running"]

\* _take_over_lease.  _finish_run needs the predecessor's running row, and
\* UNIQUE (event_internal_id, attempt_no) a free number; the claim is
\* refused without them.
TakeOver(k, s, b, now) ==
    LET n == event[k].attempt IN
    /\ SamePayload(k, s, b)
    /\ Takeable(k, now)
    /\ n + 1 \in Attempts
    /\ event[k].state = "pending" => n \in Attempts /\ run[k][n] = "running"
    /\ run[k][n + 1] = "none"
    /\ event' = [event EXCEPT ![k] = RetriedRow(@, now)]
    /\ run' = [run EXCEPT ![k] = RunsAfterTakeOver(k, n)]
    /\ UNCHANGED <<cursor, memory, relations>>

---------------------------------------------------------------------------
\* Ending an attempt

\* _pending_event_for_attempt, and the WHERE clause of every UPDATE that ends
\* an attempt: the caller holds the token and the number of attempt n.
Fence(k, n) ==
    /\ event[k].state = "pending"
    /\ event[k].token = n
    /\ event[k].attempt = n

\* The cursor after k is completed: one past k, if the session has a row.
CursorAfter(k) ==
    IF cursor[k.project][k.session] = 0 THEN cursor
    ELSE [cursor EXCEPT ![k.project][k.session] = event[k].seq + 1]

RunStateOf(r) == IF r.op = "write" THEN "succeeded" ELSE "semantic_no_op"

\* _complete_pending_event, for attempt n of k: the row, its run and the
\* cursor change together or not at all.
Complete(k, n, r) ==
    /\ ValidResult(r)
    /\ Fence(k, n)
    /\ n \in Attempts /\ run[k][n] = "running"
    /\ event' = [event EXCEPT ![k] = CompletedRow(@, r)]
    /\ run' = [run EXCEPT ![k][n] = RunStateOf(r)]
    /\ cursor' = CursorAfter(k)

\* complete_event: a no-op or a duplicate; nothing is remembered.
CompleteEvent(k, n, r) ==
    /\ r.op # "write"
    /\ Complete(k, n, r)
    /\ UNCHANGED <<memory, relations>>

\* _newer_active_lifecycle_memory, as a test on one memory.
NewerActive(k, slot, m) ==
    /\ Active(m)
    /\ memory[m].project = k.project
    /\ memory[m].slot = slot
    /\ memory[m].pseq > event[k].pseq

StaleFor(k, slot) == \E m \in MemoryIds : NewerActive(k, slot, m)

\* _supersession_validation_error, the checks on one active prior.
PriorErrors(k, slot, m) ==
    IF memory[m].project # k.project THEN {"cross_project_candidate"}
    ELSE IF memory[m].pseq >= event[k].pseq THEN {"supersession_requires_older_prior"}
    ELSE IF memory[m].slot # slot THEN {"supersession_scope_mismatch"}
    ELSE {}

MutSupersessionErrorsInactive(k, slot, sup) ==
    IF sup = {} THEN {}
    ELSE IF slot \in LessonSlots THEN {"forbidden_lesson_supersession"}
    ELSE UNION {PriorErrors(k, slot, m) : m \in sup}

\* _supersession_validation_error: the errors it may report, any of the
\* priors' first errors, for the SELECT orders no rows.  A list with an id
\* twice does not come out of observe.py and is not a set here.
SupersessionErrors(k, slot, sup) ==
    IF sup = {} THEN {}
    ELSE IF slot \in LessonSlots THEN {"forbidden_lesson_supersession"}
    ELSE IF \E m \in sup : ~Active(m) THEN {"inactive_supersession_target"}
    ELSE UNION {PriorErrors(k, slot, m) : m \in sup}

\* complete_observe_operation, stale_project_event.
CompleteStale(k, n, slot) ==
    /\ StaleFor(k, slot)
    /\ Complete(k, n, NoOp("stale_project_event"))
    /\ UNCHANGED <<memory, relations>>

\* complete_observe_operation, the supersession is refused.
CompleteRejected(k, n, slot, sup) ==
    /\ ~StaleFor(k, slot)
    /\ \E why \in SupersessionErrors(k, slot, sup) : Complete(k, n, NoOp(why))
    /\ UNCHANGED <<memory, relations>>

MutEdges(k, m, sup) == {}
MutEdgesSwapped(k, m, sup) == {[prior |-> m, successor |-> q, source |-> k] : q \in sup}

\* _insert_supersession_edges.
Edges(k, m, sup) == {[prior |-> q, successor |-> m, source |-> k] : q \in sup}

\* complete_observe_operation, the memory and its edges are written with the
\* event's completion; _valid_memory_summary wants a text.
CompleteWrite(k, n, slot, text, sup) ==
    /\ ~StaleFor(k, slot)
    /\ SupersessionErrors(k, slot, sup) = {}
    /\ text # Blank
    /\ \E m \in MemoryIds :
        /\ ~Stored(m)
        /\ Complete(k, n, Write(m, sup))
        /\ memory' = [memory EXCEPT ![m] =
                [project |-> k.project, slot |-> slot, text |-> text, source |-> k,
                 pseq |-> event[k].pseq]]
        /\ relations' = relations \cup Edges(k, m, sup)

\* fail_retryable_event.
FailRetryable(k, n) ==
    /\ Fence(k, n)
    /\ n \in Attempts /\ run[k][n] = "running"
    /\ event' = [event EXCEPT ![k] = FailedRow(@)]
    /\ run' = [run EXCEPT ![k][n] = "failed_retryable"]
    /\ UNCHANGED <<cursor, memory, relations>>

---------------------------------------------------------------------------
\* The specification

Init ==
    /\ event = [k \in Keys |-> AbsentEvent]
    /\ cursor = [p \in Projects |-> [s \in Sessions |-> 0]]
    /\ run = [k \in Keys |-> [n \in Attempts |-> "none"]]
    /\ memory = [m \in MemoryIds |-> Nil]
    /\ relations = {}

\* What a candidate list can name: a stored memory of the project.
Known(k) == {m \in MemoryIds : Stored(m) /\ memory[m].project = k.project}

Claim(k) ==
    \E s \in Sequences :
        \/ ClaimRefused(k, s)
        \/ \E b \in Bodies, now \in Times : ClaimNew(k, s, b, now) \/ TakeOver(k, s, b, now)

Forget(k, n) ==
    \/ CompleteEvent(k, n, NoOp("given"))
    \/ \E m \in Known(k) : CompleteEvent(k, n, Duplicate(m))

Remember(k, n) ==
    \E slot \in Slots :
        \/ CompleteStale(k, n, slot)
        \/ \E sup \in SUBSET {m \in MemoryIds : Stored(m)} :
            \/ CompleteRejected(k, n, slot, sup)
            \/ \E text \in Texts : CompleteWrite(k, n, slot, text, sup)

Next ==
    \E k \in Keys :
        \/ Claim(k)
        \/ \E n \in Attempts : Forget(k, n) \/ Remember(k, n) \/ FailRetryable(k, n)

Spec == Init /\ [][Next]_vars

---------------------------------------------------------------------------
\* The checks every start of the store makes

\* _valid_v4_event_state, the columns that go with each processing state.
ValidEventRow(row) ==
    CASE row.state = "pending" ->
            row.failure = "none" /\ row.token # 0 /\ row.result = Nil
      [] row.state = "completed" ->
            row.failure = "none" /\ row.token = 0 /\ ValidResult(row.result)
      [] row.state = "failed" ->
            row.failure = "retryable" /\ row.token = 0 /\ row.result = Nil
      [] OTHER -> FALSE

\* _expected_current_run_state.
ExpectedRunState(row) ==
    CASE row.state = "pending" -> "running"
      [] row.state = "failed" -> "failed_retryable"
      [] OTHER -> RunStateOf(row.result)

\* _audit_v4_event_run_consistency, on the row of k: attempts 1 to
\* attempt_count have runs and no others do, the earlier ones ended without
\* completing the event, and the current one is in the state the row says.
RunsMatch(k, row) ==
    LET last == row.attempt IN
    /\ last \in Attempts
    /\ \A n \in Attempts :
        /\ run[k][n] # "none" <=> n <= last
        /\ n < last => run[k][n] \in {"failed_retryable", "lost_lease"}
    /\ run[k][last] = ExpectedRunState(row)

ConsistentRuns(k) == RunsMatch(k, event[k])

\* PRAGMA foreign_key_check.
ForeignKeysHold ==
    /\ \A r \in relations : Stored(r.prior) /\ Stored(r.successor) /\ Present(r.source)
    /\ \A m \in MemoryIds : Stored(m) => Present(memory[m].source)
    /\ \A k \in Keys, n \in Attempts : run[k][n] # "none" => Present(k)

\* UNIQUE (prior_memory_id), audited as duplicate_active_relation.
OneSuccessor == \A q, r \in relations : q.prior = r.prior => q = r

\* _preflight_project_event_sequences.
UniqueProjectSeqs ==
    \A k, l \in Keys : /\ Present(k) /\ Present(l) /\ k # l
                       /\ k.project = l.project
                       => event[k].pseq # event[l].pseq

\* _init_db on a database that has its migrations.
StartupAccepts ==
    /\ UniqueProjectSeqs
    /\ ForeignKeysHold
    /\ OneSuccessor
    /\ \A k \in Keys : Present(k) /\ event[k].v4 => ValidEventRow(event[k]) /\ ConsistentRuns(k)

---------------------------------------------------------------------------
\* Properties

\* The rows have their types.
TypeOK ==
    /\ event \in [Keys -> EventRows]
    /\ cursor \in [Projects -> [Sessions -> 0..(MaxSequence + 1)]]
    /\ run \in [Keys -> [Attempts -> RunStates]]
    /\ memory \in [MemoryIds -> MemoryRows \cup {Nil}]
    /\ relations \subseteq Relations

\* Whatever callers did, and wherever the process was killed between two
\* transactions, the next start finds a database its preflight and its
\* integrity audit accept.
AlwaysRestartable == StartupAccepts

\* A session is a gapless queue: an event is completed exactly when the
\* cursor is past it, at most one event of a session is incomplete, and it
\* is the one at the cursor.
SessionsInOrder ==
    \A p \in Projects, s \in Sessions :
        /\ \A k \in Keys : InSession(k, p, s) /\ Present(k) =>
            /\ event[k].state = "completed" <=> event[k].seq < cursor[p][s]
            /\ event[k].seq <= cursor[p][s]
            /\ event[k].seq >= 1
        /\ \A k, l \in Keys :
            /\ InSession(k, p, s) /\ InSession(l, p, s)
            /\ Present(k) /\ Present(l) /\ event[k].seq = event[l].seq
            => k = l
        /\ \A i \in Sequences : i < cursor[p][s] =>
            \E k \in Keys : InSession(k, p, s) /\ Present(k) /\ event[k].seq = i

\* An event is remembered once: a stored memory is the one its source
\* event's result names, a result that says write names a stored memory of
\* that event, and the event's edges are exactly the supersessions its
\* result reports.  No attempt leaves a memory behind without the result.
RememberedOnce ==
    /\ \A m \in MemoryIds : Stored(m) =>
        LET row == event[memory[m].source] IN
        /\ row.state = "completed"
        /\ row.result.op = "write"
        /\ row.result.memory = m
        /\ memory[m].project = memory[m].source.project
        /\ memory[m].pseq = row.pseq
    /\ \A k \in Keys : event[k].state = "completed" /\ event[k].result.op = "write" =>
        /\ Stored(event[k].result.memory)
        /\ memory[event[k].result.memory].source = k
        /\ {r \in relations : r.source = k} =
                {[prior |-> m, successor |-> event[k].result.memory, source |-> k] :
                    m \in event[k].result.superseded}
    /\ \A r \in relations : event[r.source].state = "completed" /\ event[r.source].result.op = "write"

\* A memory is only ever superseded by a newer one of its own project and
\* lifecycle key, never a lesson, and the newest memory of a key is always
\* active: superseding cannot leave a key with only outdated memories.
NewestIsActive ==
    /\ \A r \in relations :
        LET prior == memory[r.prior] next == memory[r.successor] IN
        /\ prior.project = next.project
        /\ prior.slot = next.slot
        /\ prior.pseq < next.pseq
        /\ next.slot \notin LessonSlots
    /\ \A m \in MemoryIds : Stored(m) =>
        \E l \in MemoryIds :
            /\ Active(l)
            /\ memory[l].project = memory[m].project
            /\ memory[l].slot = memory[m].slot
            /\ memory[l].pseq >= memory[m].pseq

\* A result that was ever returned is the result of every later replay: no
\* step changes a completed event, and its payload and its place in the
\* project stay what the first claim made them.
ResultsAreFinal ==
    [][\A k \in Keys :
        /\ event[k].state = "completed" => event'[k] = event[k]
        /\ Present(k) => event'[k].seq = event[k].seq /\ event'[k].body = event[k].body
                            /\ event'[k].pseq = event[k].pseq]_vars

\* The record of an attempt is written once: an attempt that lost its lease
\* or failed never turns into one that succeeded, and it succeeds only in
\* the step that completes its event as the event's last attempt.
RunsAreFinal ==
    [][\A k \in Keys, n \in Attempts :
        /\ run[k][n] \notin {"none", "running"} => run'[k][n] = run[k][n]
        /\ run'[k][n] # run[k][n] /\ run'[k][n] \in {"succeeded", "semantic_no_op"} =>
            /\ event[k].state = "pending" /\ event[k].attempt = n
            /\ event'[k].state = "completed"]_vars

\* Whatever order attempts finish in, the memories of a lifecycle key are
\* written in project order: a delayed event never writes behind a newer one.
WrittenInProjectOrder ==
    [][\A m \in MemoryIds : ~Stored(m) /\ memory'[m] # Nil =>
        \A l \in MemoryIds :
            /\ Stored(l)
            /\ memory[l].project = memory'[m].project
            /\ memory[l].slot = memory'[m].slot
            => memory[l].pseq < memory'[m].pseq]_vars

---------------------------------------------------------------------------
\* The store is a lifecycle ledger: an event's place is its project sequence
\* number and its outcome the result stored with it.  Claims that are
\* refused, take-overs and failed attempts change nothing the ledger knows.
Ledger == INSTANCE LifecycleLedger WITH
    place <- [k \in Keys |-> event[k].pseq],
    outcome <- [k \in Keys |-> event[k].result]

ImplementsLedger == Ledger!Spec
=============================================================================
