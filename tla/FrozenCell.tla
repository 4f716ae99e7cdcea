----------------------------- MODULE FrozenCell -----------------------------
(***************************************************************************)
(* One execution of a frozen cell (execute_frozen_live_cell): a variant    *)
(* selects the context of the handoff among what a scenario's events tell, *)
(* asking live providers, and a patch is generated from it.  Every call of *)
(* a provider is one step.  The call of the executor ends with a result    *)
(* whose outcome says whether the attempt counts, or raises and leaves no  *)
(* result at all.  FrozenExecution takes this whole module for one step.   *)
(*                                                                         *)
(*   raw_full_history      every event                                     *)
(*   semantic_rerank       events embedded, the nearest reranked           *)
(*   recency_aware         those, the latest first                         *)
(*   recall_time_resolver  those, observed into a scratch store; of their  *)
(*                         memories those that are active in the end       *)
(*   recallpack            every event observed into a scratch store, and  *)
(*                         a compile of it                                 *)
(*                                                                         *)
(* The events before the handoff are numbered, and an event's memory has   *)
(* its number.                                                             *)
(***************************************************************************)
EXTENDS FrozenPlan, Providers, MemoryDecision, PatchPreparation

CONSTANTS
  Requests,          \* manifest, bytes, slot and surroundings
  Operations,        \* what a model may call its tool with
  Patches,           \* the lists of files a model may answer
  TopN,              \* 20
  Fits(_)            \* whether a pack of these events is within 512 tokens

ASSUME TopNAssumption == TopN \in Nat \ {0}

VARIABLES
  input, step, at,   \* at: the event being embedded or observed
  calls,             \* every call of a provider, with its event and reply
  kept,              \* the traces each of the lists in memory has by now
  ranked,            \* the events the reranker ordered
  memories,          \* of each event, in the scratch store
  decided,           \* the operation that is about to be stored
  context,           \* selected_context
  outcome

cell == <<input, step, at, calls, kept, ranked, memories, decided, context, outcome>>

Events == DOMAIN input.events
Selectors == {"semantic_rerank", "recency_aware", "recall_time_resolver"}
Variants == Selectors \cup {"raw_full_history", "recallpack"}

Running ==
  [status |-> "running", stage |-> "none", code |-> "none", traces |-> <<>>, files |-> <<>>]
Raised == [Running EXCEPT !.status = "raised"]
Ended(status, stage, code, traces, files) ==
  [status |-> status, stage |-> stage, code |-> code, traces |-> traces, files |-> files]

Goes(next) == step' = next /\ UNCHANGED outcome
Ends(result) == step' = "over" /\ outcome' = result

Raises == Ends(Raised)

(* A result whose record cannot be serialized cannot be fixed; paths are   *)
(* those the model answered.                                               *)
EndsRecorded(result, paths) ==
  IF Recordable(input, result, paths) THEN Ends(result) ELSE Raises

Asked(role, reply) ==
  calls' = Append(calls, [role |-> role, event |-> at, during |-> step, reply |-> reply])

(* The trace of the call that is being made.                               *)
TraceOf(reply) == [call |-> Len(calls) + 1, answered |-> reply.got = "answer"]

(* _TracingEmbeddingProvider and the decider keep a trace of an error,     *)
(* too, the ranking and the ranker of an answer only.  An exception leaves *)
(* none.                                                                   *)
Lists == {"embedding", "ranking", "decider", "ranker"}
Kept(list, reply) ==
  CASE list \in {"embedding", "decider"} /\ reply.got = "exception" -> kept[list]
    [] list \in {"ranking", "ranker"} /\ reply # Answer -> kept[list]
    [] OTHER -> Append(kept[list], TraceOf(reply))

Keeps(lists, reply) ==
  kept' = [list \in Lists |-> IF list \in lists THEN Kept(list, reply) ELSE kept[list]]

(* _selection_provider_error_trace: an error the ranking kept no trace of. *)
ErrorTraced(traces, reply) == Append(traces, TraceOf(reply))

(* The traces of a selection, when it ends; of the embeddings of a recall  *)
(* time resolver the ranking has the first.                                *)
RankingEmbeddings == 1 + Len(input.events)

(* The resolver's record has the ranking's embeddings twice.               *)
MutTracesOf(k) ==
  IF input.variant = "recallpack" THEN k.decider \o k.embedding \o k.ranker
  ELSE IF input.variant = "recall_time_resolver" THEN k.ranking \o k.decider \o k.embedding
  ELSE k.ranking

TracesOf(k) ==
  CASE input.variant = "recallpack" -> k.decider \o k.embedding \o k.ranker
    [] input.variant = "recall_time_resolver" ->
         k.ranking \o k.decider \o
           SubSeq(k.embedding, RankingEmbeddings + 1, Len(k.embedding))
    [] OTHER -> k.ranking

-----------------------------------------------------------------------------
(* Failures of the selection                                               *)

(* A provider that is asked to change is no technical failure, here.       *)
MutRetryableFrozenFailure(code) == code \in input.codes

(* _retryable_frozen_failure_code.                                         *)
RetryableFrozenFailure(code) ==
  code \in input.codes /\ code # "provider_operator_action_required"

(* _selection_failure_result.  It counts the tokens of an empty context,   *)
(* so without its tokenizer even a failure has no result.                  *)
SelectionFails(code, traces) ==
  IF ~input.tokenizer THEN Raises
  ELSE EndsRecorded(Ended(IF RetryableFrozenFailure(code) THEN "invalidated" ELSE "adverse",
                          "selection", code, traces, <<>>), <<>>)

(* The observe or the compile of a selection failed.                       *)
RuntimeFails(code) == SelectionFails(code, TracesOf(kept'))

(* _required_provider.                                                     *)
Made(role) == role \in input.factories

-----------------------------------------------------------------------------
(* select_frozen_context                                                   *)

(* missing_frozen_memory_events: a fixture may have its task and no more.  *)
NothingToSelect ==
  /\ step = "begin" /\ Events = {}
  /\ Raises
  /\ UNCHANGED <<input, at, calls, kept, ranked, memories, decided, context>>

Begin ==
  /\ step = "begin" /\ Events # {}
  /\ CASE input.variant = "raw_full_history" ->
            IF input.tokenizer
            THEN Goes("generate") /\ context' = [e \in Events |-> e]
            ELSE Raises /\ UNCHANGED context
       [] input.variant = "recallpack" ->
            /\ IF \A role \in Roles \ {"patch_generation"} : Made(role)
               THEN Goes("observe") ELSE Raises
            /\ UNCHANGED context
       [] input.variant \in Selectors ->
            /\ IF Made("embedding") /\ Made("rerank") THEN Goes("embed goal") ELSE Raises
            /\ UNCHANGED context
       [] OTHER -> Raises /\ UNCHANGED context
  /\ at' = IF input.variant = "recallpack" THEN 1 ELSE 0
  /\ UNCHANGED <<input, calls, kept, ranked, memories, decided>>

(* A vector is validated outside the handlers of a provider's failure.     *)
RankingGoesOn(reply, traces, next) ==
  IF reply = Answer THEN Goes(next)
  ELSE IF reply.got = "error" THEN SelectionFails(reply.code, traces)
  ELSE Raises

(* _semantic_rank_frozen: the goal, then each event.                       *)
EmbedGoal ==
  /\ step = "embed goal"
  /\ \E reply \in EmbeddingReplies :
       /\ Asked("embedding", reply) /\ Keeps({"embedding", "ranking"}, reply)
       /\ RankingGoesOn(reply, kept'.embedding, "embed events")
  /\ at' = 1
  /\ UNCHANGED <<input, ranked, memories, decided, context>>

EmbedEvent ==
  /\ step = "embed events"
  /\ \E reply \in EmbeddingReplies :
       /\ Asked("embedding", reply) /\ Keeps({"embedding", "ranking"}, reply)
       /\ RankingGoesOn(reply, kept'.embedding,
                       IF at = Len(input.events) THEN "rerank" ELSE "embed events")
  /\ at' = IF at = Len(input.events) THEN 0 ELSE at + 1
  /\ UNCHANGED <<input, ranked, memories, decided, context>>

(* The orders a reranker may give to those the embeddings are nearest to.  *)
Rankings(S) ==
  UNION {SetToSeqs(near) :
           near \in {T \in SUBSET S : Cardinality(T) = IF Cardinality(S) < TopN
                                                      THEN Cardinality(S) ELSE TopN}}

Least(S) == CHOOSE e \in S : \A f \in S : e <= f

Rerank ==
  /\ step = "rerank"
  /\ \E reply \in RerankReplies :
       /\ Asked("rerank", reply) /\ Keeps({"ranking"}, reply)
       /\ IF reply = Answer
          THEN \E order \in Rankings(Events) :
                 /\ ranked' = order
                 /\ IF input.variant # "recall_time_resolver"
                    THEN Goes("select") /\ UNCHANGED at
                    ELSE /\ IF Made("memory_decision") THEN Goes("observe") ELSE Raises
                         /\ at' = Least(ToSet(order))
          ELSE /\ RankingGoesOn(reply, ErrorTraced(kept.ranking, reply), "none")
               /\ UNCHANGED <<ranked, at>>
  /\ UNCHANGED <<input, memories, decided, context>>

InOrder(S, Before(_, _)) ==
  {order \in SetToSeqs(S) :
     \A i, j \in DOMAIN order : i < j => Before(order[i], order[j])}

(* recency_aware sorts the ranked events by _timestamp_key, which wants    *)
(* fourteen digits.                                                        *)
TimeOf(e) == input.events[e].time
Place(e)  == CHOOSE i \in DOMAIN ranked : ranked[i] = e
Unreadable == 0

LatestFirst ==
  InOrder(ToSet(ranked),
    LAMBDA e, f : \/ TimeOf(e) > TimeOf(f)
                  \/ (TimeOf(e) = TimeOf(f) /\ Place(e) < Place(f)))

AsRanked(S) == InOrder(S, LAMBDA e, f : Place(e) < Place(f))

(* Every memory of a ranked event, superseded or not.                      *)
MutResolved == AsRanked({e \in ToSet(ranked) : memories[e] # NoMemory})

(* _select_recall_time_resolver_context: active_by_source.                 *)
Resolved == AsRanked({e \in ToSet(ranked) : memories[e] # NoMemory /\ memories[e].active})

(* Each variant has one order.                                             *)
Ordered ==
  CASE input.variant = "semantic_rerank" -> {ranked}
    [] input.variant = "recency_aware" -> LatestFirst
    [] input.variant = "recall_time_resolver" -> Resolved

(* BudgetSelector.select.                                                  *)
Greedy(order) ==
  FoldLeft(LAMBDA pack, e : IF Fits(Append(pack, e)) THEN Append(pack, e) ELSE pack,
           <<>>, order)

Select ==
  /\ step = "select"
  /\ IF \/ ~input.tokenizer
        \/ input.variant = "recency_aware" /\ \E e \in ToSet(ranked) : TimeOf(e) = Unreadable
     THEN Raises /\ UNCHANGED context
     ELSE Goes("generate") /\ \E order \in Ordered : context' = Greedy(order)
  /\ UNCHANGED <<input, at, calls, kept, ranked, memories, decided>>

-----------------------------------------------------------------------------
(* observe, of one event after the other, alone in a scratch store         *)

Observed == IF input.variant = "recallpack" THEN Events ELSE ToSet(ranked)
Later(e) == {f \in Observed : f > e}

Active == {e \in Events : memories[e] # NoMemory /\ memories[e].active}

(* The candidates a decision is shown.  In which order makes no difference *)
(* to a set of operations that has every index; no store of a cell has     *)
(* more than CandidateLimit of them in a model of a few events.            *)
Candidates ==
  [i \in 1..Cardinality(Active) |->
     LET e == SetToSortSeq(Active, >)[i] IN memories[e]]

(* The store numbers events by session, the selection across sessions.     *)
SequenceNo(e) == Cardinality({f \in Observed : f <= e})
Expected(e) ==
  Cardinality({f \in Observed : f <= e /\ input.events[f].session = input.events[e].session})

Claim ==
  /\ step = "observe" /\ UNCHANGED kept
  /\ IF SequenceNo(at) # Expected(at) THEN RuntimeFails("out_of_order")
     ELSE Goes(IF Active = {} THEN "decide" ELSE "retrieve")
  /\ decided' = Refused
  /\ UNCHANGED <<input, at, calls, ranked, memories, context>>

(* Any statement of the store may fail, whatever it is between.            *)
Observing == {"observe", "retrieve", "decide", "repair", "embed memory"}
StoreFails ==
  /\ step \in Observing /\ UNCHANGED kept
  /\ \E code \in {"sqlite_busy", "sqlite_io_error"} : RuntimeFails(code)
  /\ UNCHANGED <<input, at, calls, ranked, memories, decided, context>>

(* An embedding, to observe: what cannot be used is an unparseable answer. *)
ObserveGoesOn(reply, next) ==
  IF reply = Answer THEN Goes(next)
  ELSE IF reply.got = "error" THEN RuntimeFails(ObserveError(reply))
  ELSE IF reply = UnusableVector THEN RuntimeFails("provider_http_response_unparseable")
  ELSE Raises

(* select_write_candidates.                                                *)
Retrieve ==
  /\ step = "retrieve"
  /\ \E reply \in EmbeddingReplies :
       /\ Asked("embedding", reply) /\ Keeps({"embedding"}, reply)
       /\ ObserveGoesOn(reply, "decide")
  /\ UNCHANGED <<input, at, ranked, memories, decided, context>>

(* The event is completed, or the store refuses its result.                *)
Completed(result) ==
  IF ~Storable(result)
  THEN RuntimeFails("lease_lost") /\ UNCHANGED <<at, memories>>
  ELSE /\ memories' = [e \in Events |->
            IF e = at /\ result.operation = "write"
            THEN [result.memory EXCEPT !.seq = SequenceNo(at), !.active = TRUE]
            ELSE IF memories[e] # NoMemory /\ memories[e].seq \in result.supersedes
            THEN [memories[e] EXCEPT !.active = FALSE] ELSE memories[e]]
       /\ IF Later(at) # {} THEN Goes("observe") /\ at' = Least(Later(at))
          ELSE Goes(IF input.variant = "recallpack" THEN "compile" ELSE "select") /\ at' = 0

(* A refused repair is asked for again.                                    *)
MutNeedsRepair(result, repaired) == result = Refused

(* _v4_decide: an operation that is refused is asked for once more.        *)
NeedsRepair(result, repaired) == result = Refused /\ ~repaired

(* An answer is normalized, and a write is then embedded; an operation     *)
(* that is still refused is stored as a no-op.                             *)
OnDecision(op, repaired) ==
  LET result == NormalizedOperation(op, input.events[at].actor, SequenceNo(at), Candidates) IN
  /\ decided' = result
  /\ IF NeedsRepair(result, repaired) THEN Goes("repair") /\ UNCHANGED <<at, memories>>
     ELSE IF result.operation = "write"
     THEN Goes("embed memory") /\ UNCHANGED <<at, memories>>
     ELSE Completed(result)

Decide ==
  /\ step = "decide"
  /\ \E reply \in DecisionReplies :
       /\ Asked("memory_decision", reply) /\ Keeps({"decider"}, reply)
       /\ IF reply = Answer THEN \E op \in Operations : OnDecision(op, FALSE)
          ELSE /\ IF reply.got = "exception" THEN Raises
                  ELSE IF reply = Unparseable THEN Goes("repair")
                  ELSE RuntimeFails(DeciderError(reply))
               /\ UNCHANGED <<at, memories, decided>>
  /\ UNCHANGED <<input, ranked, context>>

(* repair_memory_operation, once.                                          *)
AfterRepair(code) ==
  IF code = "model_output_unparseable" THEN "model_output_unparseable_after_repair" ELSE code

Repair ==
  /\ step = "repair"
  /\ \E reply \in DecisionReplies :
       /\ Asked("memory_decision", reply) /\ Keeps({"decider"}, reply)
       /\ IF reply = Answer THEN \E op \in Operations : OnDecision(op, TRUE)
          ELSE /\ IF reply.got = "exception" THEN Raises
                  ELSE RuntimeFails(AfterRepair(DeciderError(reply)))
               /\ UNCHANGED <<at, memories, decided>>
  /\ UNCHANGED <<input, ranked, context>>

EmbedMemory ==
  /\ step = "embed memory"
  /\ \E reply \in EmbeddingReplies :
       /\ Asked("embedding", reply) /\ Keeps({"embedding"}, reply)
       /\ IF reply = Answer THEN Completed(decided)
          ELSE ObserveGoesOn(reply, "none") /\ UNCHANGED <<at, memories>>
  /\ UNCHANGED <<input, ranked, decided, context>>

-----------------------------------------------------------------------------
(* The compile of recallpack: whatever fails in it, for whatever reason,   *)
(* is one of its own codes, of which none is technical.                    *)
InScope ==
  {e \in Active : memories[e].scope = "project" \/ memories[e].component = input.component}

CompileNothing ==
  /\ step = "compile" /\ InScope = {}
  /\ IF input.tokenizer THEN Goes("generate") ELSE Raises
  /\ context' = <<>>
  /\ UNCHANGED <<input, at, calls, kept, ranked, memories, decided>>

CompileFails ==
  /\ step = "compile" /\ UNCHANGED kept
  /\ RuntimeFails("storage_failure")
  /\ UNCHANGED <<input, at, calls, ranked, memories, decided, context>>

CompileEmbed ==
  /\ step = "compile" /\ InScope # {}
  /\ \E reply \in EmbeddingReplies :
       /\ Asked("embedding", reply) /\ Keeps({"embedding"}, reply)
       /\ IF reply = Answer THEN Goes("compile rerank") ELSE RuntimeFails("embedding_failure")
  /\ UNCHANGED <<input, at, ranked, memories, decided, context>>

CompileRerank ==
  /\ step = "compile rerank"
  /\ \E reply \in RerankReplies :
       /\ Asked("rerank", reply) /\ Keeps({"ranker"}, reply)
       /\ IF reply # Answer THEN RuntimeFails("rerank_failure") /\ UNCHANGED context
          ELSE IF ~input.tokenizer THEN Raises /\ UNCHANGED context
          ELSE /\ \E order \in Rankings(InScope) : context' = Greedy(order)
               /\ Goes("generate")
  /\ UNCHANGED <<input, at, ranked, memories, decided>>

-----------------------------------------------------------------------------
(* prepare_frozen_downstream_patch_result and the outcome of the attempt   *)

FromMemories == input.variant \in {"recallpack", "recall_time_resolver"}
Texts ==
  [i \in DOMAIN context |-> IF FromMemories THEN memories[context[i]].text
                            ELSE input.events[context[i]].text]

(* The request is refused before the provider is asked, by an exception    *)
(* nobody handles.                                                         *)
RefuseRequest ==
  /\ step = "generate"
  /\ ~Made("patch_generation") \/ ~ValidRequest(input.goal, Texts)
  /\ Raises
  /\ UNCHANGED <<input, at, calls, kept, ranked, memories, decided, context>>

(* _patch_trace_record: every attempt has one, last.                       *)
PatchTraced(reply) == Append(TracesOf(kept), TraceOf(reply))

PatchEnds(status, stage, code, reply, files, paths) ==
  EndsRecorded(Ended(status, stage, code, PatchTraced(reply), files), paths)

PatchFails(reply) ==
  PatchEnds(IF reply.retryable /\ reply.code \in input.codes
            THEN "invalidated" ELSE "adverse", "patch_generation", reply.code, reply, <<>>, <<>>)

(* A patch that is rejected keeps its paths, but not its files.            *)
PatchJudged(files) ==
  LET error == PatchError(files, input.allowed)
      paths == [i \in DOMAIN files |-> files[i].path] IN
  IF error = "none"
  THEN PatchEnds("incomplete", "isolated_evaluation", "not_run", Answer, files, paths)
  ELSE PatchEnds("adverse", "patch_generation", error, Answer, <<>>, paths)

GeneratePatch ==
  /\ step = "generate"
  /\ Made("patch_generation") /\ ValidRequest(input.goal, Texts)
  /\ \E reply \in PatchReplies :
       /\ Asked("patch_generation", reply)
       /\ CASE reply = Answer -> \E files \in Patches : PatchJudged(files)
            [] reply = Miscounted -> Raises
            [] reply.got = "error" -> PatchFails(reply)
            [] reply.got = "exception" ->
                 PatchEnds("adverse", "patch_generation", "provider_exception", reply, <<>>, <<>>)
  /\ UNCHANGED <<input, at, kept, ranked, memories, decided, context>>

-----------------------------------------------------------------------------
(* unknown_execution_slot_index: of the cells of a plan.                   *)
Executable(request) ==
  /\ Plannable(request.manifest, request.bytes)
  /\ request.slot \in DOMAIN request.manifest.order
Inputs == {CellInput(request) : request \in {q \in Requests : Executable(q)}}

(* A manifest that is drafted names every technical failure there is.      *)
TechnicalCodes ==
  ObserveCodes \cup {"sqlite_busy", "sqlite_io_error", "sandbox_unavailable", "sandbox_timeout"}
ASSUME CodesAssumption ==
  \A request \in Requests : Executable(request) => request.manifest.codes = TechnicalCodes

(* What a variant is called, and what an attempt may end for, is public.   *)
ASSUME NamesAssumption ==
  PrivateIdentifiers \cap
    (Variants \cup TechnicalCodes \cup
       {"model_output_unparseable", "out_of_order", "lease_lost", "storage_failure",
        "embedding_failure", "rerank_failure", "provider_terminal_failure",
        "provider_exception", "not_run", "empty_patch", "path_not_allowed",
        "duplicate_path", "unsafe_python_content"}) = {}

(* A list of one more event has no fewer tokens.                           *)
ASSUME RoomAssumption ==
  \A i \in Inputs : LET events == DOMAIN i.events IN
    \A pack \in BoundedSeq(events, Len(i.events)), e \in events, f \in events :
      Fits(Append(Append(pack, e), f)) => Fits(Append(pack, f))

CellInit ==
  /\ input \in Inputs
  /\ step = "begin" /\ at = 0
  /\ calls = <<>> /\ ranked = <<>> /\ context = <<>>
  /\ kept = [list \in Lists |-> <<>>]
  /\ memories = [e \in Events |-> NoMemory]
  /\ decided = Refused
  /\ outcome = Running

CellNext ==
  \/ NothingToSelect \/ Begin \/ EmbedGoal \/ EmbedEvent \/ Rerank \/ Select
  \/ Claim \/ StoreFails \/ Retrieve \/ Decide \/ Repair \/ EmbedMemory
  \/ CompileNothing \/ CompileFails \/ CompileEmbed \/ CompileRerank
  \/ RefuseRequest \/ GeneratePatch

CellSpec == CellInit /\ [][CellNext]_cell

-----------------------------------------------------------------------------
(* Properties                                                              *)

HasResult == outcome.status \notin {"running", "raised"}
LastCall == calls[Len(calls)]

(* No trace is kept of a reranker that fails recallpack's compile, nor of  *)
(* a connection that is cut off in it.                                     *)
LeavesATrace(call) ==
  \/ call.role = "patch_generation"
  \/ call.reply.got # "exception" /\ ~(call.during = "compile rerank" /\ call.reply # Answer)

(* The record of an attempt accounts for the money it cost: each call of a *)
(* provider has one trace, an answered or a failed one, whichever list of  *)
(* traces it was kept in and wherever the attempt ended; no trace is of a  *)
(* call that was not made; and the calls of a role are in order            *)
(* (_selection_failure_result, retained_prior_trace_count).                *)
CallsAreTraced ==
  HasResult =>
    /\ \A i \in DOMAIN calls : LeavesATrace(calls[i]) =>
         Cardinality({j \in DOMAIN outcome.traces : outcome.traces[j].call = i}) = 1
    /\ \A j \in DOMAIN outcome.traces :
         LET trace == outcome.traces[j] IN
         /\ trace.call \in DOMAIN calls /\ LeavesATrace(calls[trace.call])
         /\ trace.answered = (calls[trace.call].reply.got = "answer")
    /\ \A j, k \in DOMAIN outcome.traces :
         LET first == outcome.traces[j].call  second == outcome.traces[k].call IN
         j < k /\ calls[first].role = calls[second].role => first < second

(* Failures nothing in the attempt can help.                               *)
Outage(reply) ==
  reply.code \in TransportErrors \cup {"provider_rate_limit", "provider_server_error"}

(* No retry hides in an attempt: after a call that failed nothing more is  *)
(* asked, but for the one repair of a decision that could not be parsed;   *)
(* no event is decided more than twice; and at most one patch is asked     *)
(* for, after everything else (execute_frozen_live_cell).                  *)
NothingAfterAFailure ==
  /\ \A i \in 1..(Len(calls) - 1) :
       /\ calls[i].reply # Answer =>
            /\ calls[i].during = "decide" /\ calls[i].reply = Unparseable
            /\ calls[i + 1].during = "repair" /\ calls[i + 1].event = calls[i].event
       /\ calls[i].role # "patch_generation"
  /\ \A e \in Events :
       Cardinality({i \in DOMAIN calls : calls[i].role = "memory_decision"
                                        /\ calls[i].event = e}) <= 2

(* The handoff is given what holds by then, in full: no memory that a      *)
(* later one has superseded; within the budget; and nothing that was       *)
(* ranked and would still fit is missing (select_frozen_context).          *)
ContextIsCurrent ==
  step = "generate" /\ input.variant # "raw_full_history" =>
    /\ IsInjective(context) /\ (context # <<>> => Fits(context))
    /\ FromMemories => ToSet(context) \subseteq Active
    /\ input.variant # "recallpack" => ToSet(context) \subseteq ToSet(ranked)
    /\ \A e \in CASE input.variant = "recallpack" -> {f \in InScope : Cardinality(InScope) <= TopN}
                 [] input.variant = "recall_time_resolver" -> Active
                 [] OTHER -> ToSet(ranked) :
         e \notin ToSet(context) => ~Fits(Append(context, e))

FitToRun ==
  /\ Events # {} /\ input.variant \in Variants
  /\ input.tokenizer /\ input.factories = Roles /\ Writable(input.goal)
  /\ Public({input.id, input.scenario, input.model})
  /\ Len(input.events) <= MaxContextItems
  /\ \A e \in Events : input.events[e].time # Unreadable /\ Writable(input.events[e].text)

(* An attempt counts against its variant only for what the variant did: an *)
(* outage of a provider or of the database has it repeated, and nothing    *)
(* else does, but a vector observe cannot use, two answers in a row no one *)
(* can parse, and a refused request for a patch.  Not so in recallpack's   *)
(* compile, whose failures all count.  And of a cell that is fit to run    *)
(* every attempt has an outcome, whatever a provider or the database does, *)
(* but for a connection cut off while the selection reads from it, a       *)
(* vector the ranking cannot compare, a patch no record can be made of and *)
(* a memory whose text a request for a patch may not have: then the call   *)
(* raises, and the attempt is never fixed (execute_frozen_live_cell).  A   *)
(* patch that goes on to the hidden tests replaces files of the snapshot   *)
(* and no others, each once and one of them with other contents: of the    *)
(* manifest's writable paths some are another scenario's.                  *)
AttemptsAreJudged ==
  /\ outcome.status = "adverse" =>
       /\ outcome.code \notin {"sqlite_busy", "sqlite_io_error"}
       /\ calls # <<>> /\ Outage(LastCall.reply) =>
            LastCall.during \in {"compile", "compile rerank"}
  /\ outcome.status = "invalidated" =>
       \/ outcome.code \in {"sqlite_busy", "sqlite_io_error"}
       \/ Outage(LastCall.reply)
       \/ LastCall.role = "embedding" /\ LastCall.reply = UnusableVector
       \/ LastCall.during = "repair" /\ LastCall.reply = Unparseable
       \/ LastCall.role = "patch_generation" /\ LastCall.reply.got = "error"
  /\ outcome.status = "raised" /\ FitToRun =>
       \/ calls # <<>> /\ LastCall.reply = Exception
            /\ LastCall.during \notin {"compile", "compile rerank", "generate"}
       \/ calls # <<>> /\ LastCall.reply = UnusableVector
            /\ LastCall.during \in {"embed goal", "embed events"}
       \/ calls # <<>> /\ LastCall.role = "patch_generation"
            /\ (LastCall.reply = Miscounted \/ LastCall.reply = Answer)
       \/ FromMemories /\ \E i \in DOMAIN Texts : ~Writable(Texts[i])
  /\ outcome.status = "incomplete" =>
       /\ PathsOf(outcome.files) \subseteq PathsOf(input.files)
       /\ ~Twice(outcome.files)
       /\ \E i \in DOMAIN outcome.files : outcome.files[i].content # "same"
=============================================================================
