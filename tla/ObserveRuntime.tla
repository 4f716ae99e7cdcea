--------------------------- MODULE ObserveRuntime ---------------------------
(***************************************************************************)
(* observe.py: ObserveRuntime.observe, run by request threads against one  *)
(* EventStore.  A thread's steps are the places where it touches state it  *)
(* shares: the claim, the registration of its ticket (still under          *)
(* _CLAIM_COORDINATOR), the turnstile, and each transaction of the store.  *)
(* What the providers answer between two of them is any answer the         *)
(* normalisation of observe.py lets through.                               *)
(*                                                                         *)
(* _CLAIM_COORDINATOR and _DEFAULT_TURNSTILES are module globals, one of   *)
(* each per process; the database is shared by the processes.  Only the    *)
(* deployment fixes their number at one.                                   *)
(***************************************************************************)
EXTENDS EventStore

CONSTANTS
    Threads,        \* the request threads
    Processes,      \* the processes that serve one database
    ProcessOf,      \* the process of each thread
    Requests,       \* the observations clients send, as [key, seq, body]
    SameMeaning,    \* pairs: a new text, and a stored one it only repeats
    CandidateLimit, \* candidates shown to the model: 8
    ClockLimit,     \* bound: the last value of the clock
    HttpClock,      \* whether the caller is demo_server.py
    Nobody          \* no thread

ASSUME RuntimeAssumption ==
    /\ ProcessOf \in [Threads -> Processes]
    /\ Requests \subseteq [key : Keys, seq : Sequences, body : Bodies]
    /\ SameMeaning \subseteq Texts \X Texts
    /\ \A x \in Texts : <<x, x>> \in SameMeaning
    /\ CandidateLimit \in Nat /\ ClockLimit \in Nat
    /\ HttpClock \in BOOLEAN
    /\ IF HttpClock THEN \A q \in Requests : 100 + q.seq \in Times
                    ELSE 0..ClockLimit \subseteq Times
    /\ Nobody \notin Threads

VARIABLES
    clock,       \* the time
    since,       \* the time of each event's last claim (history)
    coordinator, \* the holder of _CLAIM_COORDINATOR, per process
    phase, turn, \* the tickets of the turnstiles
    local        \* each thread's frame

runtime == <<event, cursor, run, memory, relations, clock, since, coordinator,
             phase, turn, local>>

\* One turnstile per process, ordering the events of each project.
Gate == INSTANCE Turnstile WITH
    Tickets <- Threads, TurnProjects <- Processes \X Projects,
    MaxTurnSeq <- MaxProjectSeq, MaxTurnAttempt <- MaxAttempts

\* A frame: the request, the attempt it owns, the candidates its decision
\* saw (seen: the active memories they were chosen from), the decision, and
\* the response.
NoPlan  == [op |-> "none", result |-> Nil, slot |-> Nil, text |-> Nil, sup |-> {}]
NoReply == [code |-> 0, error |-> "none", result |-> Nil]
Idle    == [pc |-> "idle", request |-> Nil, attempt |-> 0, seen |-> {},
            plan |-> NoPlan, reply |-> NoReply]

Key(t)     == local[t].request.key
Attempt(t) == local[t].attempt
Owns(t)    == Fence(Key(t), Attempt(t))
At(t, pc)  == local[t].pc = pc

\* What _observe_owned shows the model and validates its answer against:
\* active_memories of the project.
ActiveIn(p) == {m \in MemoryIds : Active(m) /\ memory[m].project = p}

Goto(t, pc) == local' = [local EXCEPT ![t].pc = pc]

Answer(code, error, result) == [code |-> code, error |-> error, result |-> result]

\* The response is known; the with statement is left next.
Return(t, reply) ==
    local' = [local EXCEPT ![t].pc = "leaving", ![t].seen = {}, ![t].plan = NoPlan,
                           ![t].reply = reply]

---------------------------------------------------------------------------
\* Claim and registration, under the coordinator

MutCoordinatorFree(t) == TRUE

CoordinatorFree(t) == coordinator[ProcessOf[t]] = Nobody

Frame(q) == [Idle EXCEPT !.request = q]

\* The now a request is observed at.  demo_server.py passes a number made
\* from the request instead of the time.
Now(q) == IF HttpClock THEN 100 + q.seq ELSE clock

\* claim_event gave t an attempt of its own.
Claimed(t, q) ==
    /\ CoordinatorFree(t)
    /\ \/ ClaimNew(q.key, q.seq, q.body, Now(q))
       \/ TakeOver(q.key, q.seq, q.body, Now(q))
    /\ since' = [since EXCEPT ![q.key] = clock]
    /\ coordinator' = [coordinator EXCEPT ![ProcessOf[t]] = t]
    /\ local' = [local EXCEPT ![t] =
            [Frame(q) EXCEPT !.pc = "claimed", !.attempt = event'[q.key].attempt]]
    /\ UNCHANGED <<clock, phase, turn>>

\* claim_event answered and t owns nothing: a conflict, a replay, or an
\* attempt that is under way elsewhere.
AnsweredBy(q) ==
    LET row == event[q.key] IN
    CASE ~Present(q.key) -> Answer(409, "not_claimable", Nil)
      [] Present(q.key) /\ ~SamePayload(q.key, q.seq, q.body) ->
            Answer(409, "idempotency_conflict", Nil)
      [] row.state = "completed" -> Answer(200, "none", row.result)
      [] OTHER -> Answer(202, "none", Nil)

Refused(t, q) ==
    /\ CoordinatorFree(t)
    /\ \/ ClaimRefused(q.key, q.seq)
       \/ /\ Present(q.key)
          /\ SamePayload(q.key, q.seq, q.body) => ~Takeable(q.key, Now(q))
          /\ UNCHANGED vars
    /\ local' = [local EXCEPT ![t] = [Frame(q) EXCEPT !.pc = "done", !.reply = AnsweredBy(q)]]
    /\ UNCHANGED <<clock, since, coordinator, phase, turn>>

Request(t) ==
    /\ local[t].pc \in {"idle", "done"}
    /\ \E q \in Requests : Claimed(t, q) \/ Refused(t, q)

\* The ticket of the attempt t owns.
TurnOf(t) ==
    [project |-> <<ProcessOf[t], Key(t).project>>, seq |-> event[Key(t)].pseq,
     attempt |-> Attempt(t)]

\* turnstiles.register, and the coordinator is given up.
RegisterTurn(t) ==
    /\ At(t, "claimed")
    /\ Gate!Register(t, TurnOf(t))
    /\ coordinator' = [coordinator EXCEPT ![ProcessOf[t]] = Nobody]
    /\ Goto(t, "waiting")
    /\ UNCHANGED <<vars, clock, since>>

---------------------------------------------------------------------------
\* The body of "with ticket"

\* The thread gets its turn.
TakeTurn(t) ==
    /\ At(t, "waiting")
    /\ Gate!Enter(t)
    /\ Goto(t, "inside")
    /\ UNCHANGED <<vars, clock, since, coordinator>>

LeaseLost == Answer(409, "lease_lost", Nil)

\* owns_event_attempt.
CheckOwner(t) ==
    /\ At(t, "inside")
    /\ IF Owns(t) THEN Goto(t, "owner") ELSE Return(t, LeaseLost)
    /\ UNCHANGED <<vars, clock, since, coordinator, phase, turn>>

\* select_write_candidates: the CandidateLimit nearest of the active ones;
\* any of them may be the nearest.
CandidateLists(seen) ==
    LET size == Cardinality(seen) IN
    {c \in SUBSET seen :
        Cardinality(c) = IF size < CandidateLimit THEN size ELSE CandidateLimit}

Forgetting(r) == [NoPlan EXCEPT !.op = "forget", !.result = r]

MutEquivalents(slot, text, shown) == {}

\* _equivalent_active_candidate_index.  _meaning_equivalent is not symmetric:
\* a retry policy may repeat another that does not repeat it.
Equivalents(slot, text, shown) ==
    {m \in shown : memory[m].slot = slot /\ <<text, memory[m].text>> \in SameMeaning}

\* _normalize_write, after the memory itself was found valid.  An
\* equivalent candidate makes it a duplicate; a supersession that
\* _validate_supersession refuses makes it a no-op with a reason.
WritePlans(k, shown) ==
    UNION {
        IF Equivalents(slot, text, shown) # {}
        THEN {Forgetting(Duplicate(m)) : m \in Equivalents(slot, text, shown)}
        ELSE {[NoPlan EXCEPT !.op = "remember", !.slot = slot, !.text = text, !.sup = sup] :
                sup \in {s \in SUBSET shown :
                            s # {} => /\ slot \notin LessonSlots
                                      /\ \A m \in s : PriorErrors(k, slot, m) = {}}}
        : slot \in Slots, text \in Texts}

\* What deciding and normalising, with at most one repair, may come to.  A
\* failure is a provider error or an unparseable answer; the reason of a
\* no-op is the model's own string and may be empty.
Plans(k, shown) ==
    {[NoPlan EXCEPT !.op = "fail"], Forgetting(NoOp("given")), Forgetting(NoOp("blank"))}
    \cup {Forgetting(Duplicate(m)) : m \in shown}
    \cup WritePlans(k, shown)

\* select_write_candidates and decide_memory_operation: one read, then a
\* long call.
Decide(t) ==
    /\ At(t, "owner")
    /\ LET seen == ActiveIn(Key(t).project) IN
       \E shown \in CandidateLists(seen) : \E plan \in Plans(Key(t), shown) :
            local' = [local EXCEPT ![t].pc = IF plan.op = "remember" THEN "decided" ELSE "ready",
                                   ![t].seen = seen, ![t].plan = plan]
    /\ UNCHANGED <<vars, clock, since, coordinator, phase, turn>>

\* has_newer_active_lifecycle_memory, before the document is embedded; the
\* embedding may fail.
PreCheck(t) ==
    /\ At(t, "decided")
    /\ \E plan \in (IF StaleFor(Key(t), local[t].plan.slot)
                    THEN {Forgetting(NoOp("stale_project_event"))}
                    ELSE {local[t].plan, [NoPlan EXCEPT !.op = "fail"]}) :
            local' = [local EXCEPT ![t].pc = "ready", ![t].plan = plan]
    /\ UNCHANGED <<vars, clock, since, coordinator, phase, turn>>

\* complete_observe_operation: the three ways it completes the event.
Observed(t) ==
    LET k == Key(t) n == Attempt(t) p == local[t].plan IN
    \/ CompleteStale(k, n, p.slot)
    \/ CompleteRejected(k, n, p.slot, p.sup)
    \/ CompleteWrite(k, n, p.slot, p.text, p.sup)

Ready(t, op) == At(t, "ready") /\ local[t].plan.op = op

\* complete_event or complete_observe_operation commits.
Commit(t) ==
    /\ \/ Ready(t, "forget") /\ CompleteEvent(Key(t), Attempt(t), local[t].plan.result)
       \/ Ready(t, "remember") /\ Observed(t)
    /\ Return(t, Answer(200, "none", event'[Key(t)].result))
    /\ UNCHANGED <<clock, since, coordinator, phase, turn>>

\* fail_retryable_event commits.
Fail(t) ==
    /\ Ready(t, "fail")
    /\ FailRetryable(Key(t), Attempt(t))
    /\ Return(t, Answer(503, "provider", Nil))
    /\ UNCHANGED <<clock, since, coordinator, phase, turn>>

\* The result of the attempt is one the store accepts: _valid_v4_final_result
\* wants a reason of every result and a text of every memory written.
AcceptableResult(t) ==
    LET k == Key(t) p == local[t].plan IN
    CASE p.op = "forget" -> ValidResult(p.result)
      [] p.op = "remember" -> \/ StaleFor(k, p.slot)
                              \/ SupersessionErrors(k, p.slot, p.sup) # {}
                              \/ p.text # Blank
      [] OTHER -> TRUE

\* complete_event, complete_observe_operation or fail_retryable_event
\* answers False or None: nothing was written, and the caller takes it for a
\* lost lease.
CommitNothing(t) ==
    /\ At(t, "ready")
    /\ ~Owns(t) \/ ~AcceptableResult(t)
    /\ Return(t, LeaseLost)
    /\ UNCHANGED <<vars, clock, since, coordinator, phase, turn>>

\* A store access raises sqlite3.Error, or an exception nobody catches: the
\* ticket is released and the event stays as it is.
Escape(t) ==
    /\ local[t].pc \in {"inside", "owner", "decided", "ready"}
    /\ Return(t, Answer(503, "sqlite_io_error", Nil))
    /\ UNCHANGED <<vars, clock, since, coordinator, phase, turn>>

\* The with statement ends and the response is sent.
LeaveTurn(t) ==
    /\ At(t, "leaving")
    /\ Gate!Release(t)
    /\ Goto(t, "done")
    /\ UNCHANGED <<vars, clock, since, coordinator>>

---------------------------------------------------------------------------
\* The process is killed and started again: its threads, its coordinator
\* and its turnstile are gone, the database is as the last commit left it.
Crash(p) ==
    /\ \E t \in Threads : ProcessOf[t] = p /\ local[t].pc \notin {"idle", "done"}
    /\ local' = [t \in Threads |-> IF ProcessOf[t] = p THEN Idle ELSE local[t]]
    /\ phase' = [t \in Threads |-> IF ProcessOf[t] = p THEN "new" ELSE phase[t]]
    /\ coordinator' = [coordinator EXCEPT ![p] = Nobody]
    /\ UNCHANGED <<vars, clock, since, turn>>

Tick ==
    /\ clock < ClockLimit
    /\ clock' = clock + 1
    /\ UNCHANGED <<vars, since, coordinator, phase, turn, local>>

Serve(t) ==
    \/ RegisterTurn(t) \/ TakeTurn(t) \/ CheckOwner(t) \/ Decide(t) \/ PreCheck(t)
    \/ Commit(t) \/ Fail(t) \/ CommitNothing(t) \/ LeaveTurn(t)

RuntimeInit ==
    /\ Init
    /\ clock = 0
    /\ since = [k \in Keys |-> 0]
    /\ coordinator = [p \in Processes |-> Nobody]
    /\ Gate!Init
    /\ local = [t \in Threads |-> Idle]

RuntimeNext ==
    \/ \E t \in Threads : Request(t) \/ Serve(t) \/ Escape(t)
    \/ \E p \in Processes : Crash(p)
    \/ Tick

RuntimeSpec == RuntimeInit /\ [][RuntimeNext]_runtime

\* The threads of a process run, a free coordinator and a free turn are
\* taken, provider calls return (they have timeouts), time passes, and a
\* client repeats a request that has not been answered with its result.
RuntimeFairness ==
    /\ \A t \in Threads : WF_runtime(Serve(t))
    /\ \A q \in Requests : WF_runtime(\E t \in Threads : Request(t) /\ local'[t].request = q
                                            /\ local'[t].pc = "claimed")
    /\ WF_runtime(Tick)

FairRuntimeSpec == RuntimeSpec /\ RuntimeFairness

---------------------------------------------------------------------------
\* Properties

\* Two first attempts of a project that are under way in one process take
\* their turns in project order: the one that enters has no earlier event
\* of the project behind it, claimed but not yet let in.
FirstAttemptsInOrder ==
    [][\A t, u \in Threads :
        /\ At(t, "waiting") /\ local'[t].pc = "inside" /\ Attempt(t) = 1
        /\ u # t /\ local[u].pc \in {"claimed", "waiting"} /\ Attempt(u) = 1
        /\ TurnOf(u).project = TurnOf(t).project
        => TurnOf(t).seq < TurnOf(u).seq]_runtime

\* The active memories a decision was made against are still the active
\* memories of its project when the decision is committed: nothing a thread
\* read before its provider calls is stale after them.
DecisionsAreFresh ==
    \A t \in Threads : local[t].pc \in {"decided", "ready"} =>
        local[t].seen = ActiveIn(Key(t).project)

\* A project with no more active memories than the model is shown never
\* holds an active memory that only repeats an older active one of its key.
NoActiveTwins ==
    \A m, l \in MemoryIds :
        /\ Active(m) /\ Active(l)
        /\ memory[m].project = memory[l].project
        /\ memory[m].slot = memory[l].slot
        /\ memory[m].pseq < memory[l].pseq
        => <<memory[l].text, memory[m].text>> \notin SameMeaning

\* What a response says stays true: an answered result is the stored one,
\* and a reported provider failure is on the record of the attempt.
ResponsesHold ==
    \A t \in Threads : local[t].pc \in {"leaving", "done"} =>
        LET reply == local[t].reply IN
        /\ reply.code = 200 => /\ event[Key(t)].state = "completed"
                               /\ event[Key(t)].result = reply.result
        /\ reply.error = "provider" => run[Key(t)][Attempt(t)] = "failed_retryable"

\* A request answered 202 is owned by an attempt whose lease has not run
\* out: no more than LeaseSeconds have passed since it was claimed.
PendingIsLeased ==
    [][\A t \in Threads :
        local'[t] # local[t] /\ local'[t].pc = "done" /\ local'[t].reply.code = 202 =>
            clock < since[local'[t].request.key] + LeaseSeconds]_runtime

\* No claim waits for ever: a thread that owns an attempt answers, whatever
\* other threads do with the coordinator and the turnstile, or is killed.
EveryClaimIsAnswered ==
    \A t \in Threads : At(t, "claimed") ~> local[t].pc \in {"idle", "done"}

\* An abandoned attempt does not block its session for ever: a pending
\* attempt ends, by its own thread or by a take-over once its lease is out.
EveryAttemptEnds ==
    \A k \in Keys, n \in Attempts : n < MaxAttempts =>
        (event[k].state = "pending" /\ event[k].attempt = n
            /\ since[k] + LeaseSeconds <= ClockLimit)
        ~> ~(event[k].state = "pending" /\ event[k].attempt = n)
=============================================================================
