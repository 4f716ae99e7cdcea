-------------------------- MODULE EvaluationProofs --------------------------
(***************************************************************************)
(* Proofs about Evaluation, for every choice of its constants.  A call of  *)
(* the executor of frozen cells is a sequence of steps of which each asks  *)
(* one provider or none.  Invariant is what is said of the last call and   *)
(* the step that comes next (Calling), of the decisions an event has had   *)
(* (Deciding), of the lists the traces are kept in (Ledger, Counted), and  *)
(* of the order a context is chosen in (Picking, Chosen).  The judgement   *)
(* of an attempt follows step by step from its last call.                  *)
(*                                                                         *)
(* What a claim counts of a cell are its first headline runs, so a run     *)
(* that comes later changes nothing of a verdict (ClaimsInv).              *)
(*                                                                         *)
(* The two lives of a policy are followed event by event: DiagnosticInv    *)
(* says what the resolver's list has of every policy, and what the scratch *)
(* store has, after the events that have been heard.                       *)
(***************************************************************************)
EXTENDS Evaluation, TLAPS, FiniteSetTheorems

---------------------------------------------------------------------------
\* Sequences and events

LEMMA Appended ==
    ASSUME NEW T, NEW s \in Seq(T), NEW x \in T
    PROVE  /\ Append(s, x) \in Seq(T)
           /\ Len(Append(s, x)) = Len(s) + 1
           /\ DOMAIN Append(s, x) = 1..(Len(s) + 1)
           /\ Append(s, x)[Len(s) + 1] = x
           /\ \A i \in 1..Len(s) : Append(s, x)[i] = s[i]
OBVIOUS

\* The events of a cell are those of a list before its last.
LEMMA FrontDomain ==
    ASSUME NEW s, IsList(s), s # <<>>
    PROVE  /\ Front(s) \in Seq(ToSet(s))
           /\ DOMAIN Front(s) = 1..(Len(s) - 1)
           /\ Len(s) \in Nat \ {0}
<1> DEFINE S == ToSet(s)
<1>1. s \in Seq(S)
  BY DEF IsList
<1> HIDE DEF S
<1>2. Len(s) \in Nat /\ Len(s) # 0
  BY <1>1
<1>3. SubSeq(s, 1, Len(s) - 1) \in Seq(S) /\ DOMAIN SubSeq(s, 1, Len(s) - 1) = 1..(Len(s) - 1)
  BY <1>1, <1>2
<1> QED BY <1>2, <1>3 DEF Front, S

\* What an attempt is given is of a plan that was built.
LEMMA InputFacts ==
    ASSUME input \in Inputs
    PROVE  /\ \E s : IsList(s) /\ s # <<>> /\ input.events = Front(s)
           /\ input.codes \cap PrivateIdentifiers = {}
<1>1. PICK q \in Requests : Executable(q) /\ input = CellInput(q)
  BY DEF Inputs
<1> DEFINE manifest == q.manifest
           place == manifest.order[q.slot]
           At(i) == i \in DOMAIN manifest.scenarios /\ manifest.scenarios[i].slot = place.scenario
           scenario == manifest.scenarios[CHOOSE i \in DOMAIN manifest.scenarios :
                                            manifest.scenarios[i].slot = place.scenario]
           contract == Contract(manifest, q.bytes, scenario)
<1>2. \E i \in DOMAIN manifest.scenarios : manifest.scenarios[i].slot = place.scenario
  BY <1>1 DEF Executable, Plannable, ValidOrder
<1>3. ValidScenario(manifest, q.bytes, scenario)
  BY <1>1, <1>2 DEF Executable, Plannable
<1>4. ValidFixture(q.bytes[scenario.fixture], scenario.slot)
  BY <1>3 DEF ValidScenario
<1>5. /\ input.events = contract.events
      /\ input.codes = manifest.codes
  BY <1>1 DEF CellInput, ScenarioContract
<1>6. contract.events = Front(q.bytes[scenario.fixture].events)
  BY DEF Contract
<1>7. manifest.codes \cap PrivateIdentifiers = {}
  BY <1>1 DEF Executable, Plannable, ValidFailureCodes
<1> QED BY <1>4, <1>5, <1>6, <1>7 DEF ValidFixture

LEMMA EventsAreNumbered ==
    ASSUME input \in Inputs
    PROVE  /\ Events = 1..Len(input.events) /\ Len(input.events) \in Nat
           /\ Events \subseteq Nat /\ IsFiniteSet(Events) /\ Cardinality(Events) = Len(input.events)
<1>1. PICK s : IsList(s) /\ s # <<>> /\ input.events = Front(s)
  BY InputFacts
<1>2. input.events \in Seq(ToSet(s))
  BY <1>1, FrontDomain
<1>3. Len(input.events) \in Nat /\ DOMAIN input.events = 1..Len(input.events)
  BY <1>2
<1>4. Events = 1..Len(input.events)
  BY <1>3 DEF Events
<1>5. IsFiniteSet(1..Len(input.events)) /\ Cardinality(1..Len(input.events)) = Len(input.events)
  BY <1>3, FS_Interval
<1> QED BY <1>3, <1>4, <1>5

\* A set of numbers has a least one.
LEMMA LeastOf ==
    ASSUME NEW S \in SUBSET Nat, S # {}
    PROVE  Least(S) \in S /\ \A e \in S : Least(S) <= e
<1>1. \E e \in S : \A f \in S : e <= f
  <2>1. PICK e \in S : \A f \in S : ~(<<f, e>> \in OpToRel(<, Nat))
    BY NatLessThanWellFounded, WFMin
  <2>2. ASSUME NEW f \in S PROVE e <= f
    <3>1. e \in Nat /\ f \in Nat
      OBVIOUS
    <3>2. <<f, e>> \in OpToRel(<, Nat) <=> f < e
      BY <3>1, Zenon DEF OpToRel
    <3>3. ~(f < e)
      BY <2>1, <3>2, Zenon
    <3> QED BY <3>1, <3>3
  <2> QED BY <2>2
<1> QED BY <1>1 DEF Least

---------------------------------------------------------------------------
\* Types, and which variant comes to which step

Ranking == {"embed goal", "embed events", "rerank"}
Compiling == {"compile", "compile rerank"}
Steps == {"begin", "select", "generate", "over"} \cup Ranking \cup Observing \cup Compiling
Replies == EmbeddingReplies \cup RerankReplies \cup DecisionReplies \cup PatchReplies
Calls == [role : Roles, event : Nat, during : Steps, reply : Replies]
Traces == [call : Nat, answered : BOOLEAN]

CellType ==
    /\ input \in Inputs
    /\ step \in Steps /\ at \in Nat
    /\ calls \in Seq(Calls)
    /\ kept \in [Lists -> Seq(Traces)]
    /\ ToSet(ranked) \subseteq Events

Remembering == {"recallpack", "recall_time_resolver"}

\* A running call has no outcome.
Phases ==
    /\ step \in Ranking \cup {"select"} => input.variant \in Selectors
    /\ step \in Observing => input.variant \in Remembering
    /\ step \in Compiling => input.variant = "recallpack"
    /\ step = "generate" => input.variant \in Variants
    /\ step \in Ranking => Events # {}
    /\ step # "over" => outcome = Running

\* The call that is made in this step.
CallOf(role, reply) == [role |-> role, event |-> at, during |-> step, reply |-> reply]

LEMMA AskedOf ==
    ASSUME CellType, NEW role \in Roles, NEW reply \in Replies, Asked(role, reply)
    PROVE  /\ calls' = Append(calls, CallOf(role, reply))
           /\ CallOf(role, reply) \in Calls
           /\ calls' \in Seq(Calls)
<1>1. CallOf(role, reply) \in Calls
  BY DEF CellType, Calls, CallOf
<1>2. calls' = Append(calls, CallOf(role, reply))
  BY DEF Asked, CallOf
<1> QED BY <1>1, <1>2, Appended DEF CellType

LEMMA KeptOf ==
    ASSUME CellType, NEW lists, NEW reply, Keeps(lists, reply)
    PROVE  /\ kept' \in [Lists -> Seq(Traces)]
           /\ \A list \in Lists :
                kept'[list] = IF list \in lists THEN Kept(list, reply) ELSE kept[list]
<1>1. kept' = [list \in Lists |-> IF list \in lists THEN Kept(list, reply) ELSE kept[list]]
  BY DEF Keeps
<1>2. ASSUME NEW list \in Lists PROVE Kept(list, reply) \in Seq(Traces)
  <2>1. TraceOf(reply) \in Traces
    BY DEF TraceOf, Traces, CellType
  <2>2. kept[list] \in Seq(Traces)
    BY DEF CellType
  <2>3. Append(kept[list], TraceOf(reply)) \in Seq(Traces)
    BY <2>1, <2>2, Appended
  <2> QED BY <2>2, <2>3 DEF Kept
<1>3. ASSUME NEW list \in Lists
      PROVE  (IF list \in lists THEN Kept(list, reply) ELSE kept[list]) \in Seq(Traces)
  BY <1>2 DEF CellType
<1> QED BY <1>1, <1>3

\* How the call of the executor ends: with these traces, or with no result.
Result(traces) == outcome' = Raised \/ outcome'.traces = traces

\* A call that fails is over, and raises or has the outcome of the failure.
LEMMA SelectionEnds ==
    ASSUME NEW code, NEW traces, SelectionFails(code, traces)
    PROVE  step' = "over" /\ Result(traces)
<1>1. CASE Raises
  BY <1>1 DEF Raises, Ends, Result
<1> DEFINE status == IF RetryableFrozenFailure(code) THEN "invalidated" ELSE "adverse"
<1>2. CASE Ends(Ended(status, "selection", code, traces, <<>>))
  BY <1>2 DEF Ends, Ended, Result
<1> QED BY <1>1, <1>2 DEF SelectionFails, EndsRecorded

LEMMA RuntimeEnds ==
    ASSUME NEW code, RuntimeFails(code)
    PROVE  step' = "over" /\ Result(TracesOf(kept'))
BY SelectionEnds DEF RuntimeFails

LEMMA ObservedAreEvents ==
    ASSUME CellType
    PROVE  Observed \subseteq Events /\ Observed \subseteq Nat
BY EventsAreNumbered DEF CellType, Observed

\* An event is completed, and the next begins.
LEMMA CompletedOf ==
    ASSUME CellType, NEW result, Completed(result)
    PROVE  /\ step' \in {"over", "observe", "compile", "select"} /\ at' \in Nat
           /\ step' = "observe" => at' > at
           /\ step' = "compile" => input.variant = "recallpack"
           /\ step' = "select" => input.variant # "recallpack"
           /\ step' # "over" => outcome' = outcome
           /\ step' = "over" => Result(TracesOf(kept'))
<1>1. CASE ~Storable(result)
  BY <1>1, RuntimeEnds DEF Completed, CellType
<1>2. CASE Storable(result) /\ Later(at) # {}
  <2>1. Later(at) \in SUBSET Nat
    BY ObservedAreEvents DEF Later
  <2>2. Least(Later(at)) \in Later(at)
    BY <1>2, <2>1, LeastOf
  <2>3. Least(Later(at)) > at
    BY <2>2 DEF Later
  <2> QED BY <1>2, <2>1, <2>2, <2>3 DEF Completed, Goes
<1>3. CASE Storable(result) /\ Later(at) = {}
  BY <1>3 DEF Completed, Goes
<1> QED BY <1>1, <1>2, <1>3

LEMMA DecisionOf ==
    ASSUME CellType, NEW op, NEW repaired \in BOOLEAN, OnDecision(op, repaired)
    PROVE  \/ step' = "repair" /\ ~repaired /\ at' = at /\ outcome' = outcome
           \/ step' = "embed memory" /\ at' = at /\ outcome' = outcome
           \/ Completed(decided')
<1> DEFINE result == NormalizedOperation(op, input.events[at].actor, SequenceNo(at), Candidates)
<1> HIDE DEF result
<1>1. /\ decided' = result
      /\ IF NeedsRepair(result, repaired) THEN Goes("repair") /\ UNCHANGED <<at, memories>>
         ELSE IF result.operation = "write"
         THEN Goes("embed memory") /\ UNCHANGED <<at, memories>>
         ELSE Completed(result)
  BY DEF OnDecision, result
<1> QED BY <1>1 DEF NeedsRepair, Goes

---------------------------------------------------------------------------
\* The steps

Before == {"begin"} \cup Ranking
Awaiting == {"observe", "retrieve", "decide"}

\* How a call of the executor gets from one event to the next.
Turns ==
    /\ step' \in Before => step \in Before
    /\ step' \in Awaiting =>
         \/ step \in Before
         \/ step \in {"observe", "retrieve"} /\ at' = at
         \/ step \in {"decide", "repair", "embed memory"} /\ at' > at
    /\ step' = "repair" => step = "decide" /\ at' = at
    /\ step' = "embed memory" => step \in {"decide", "repair"} /\ at' = at

\* Which steps embed, and how far the ranking is.
Ranked == {"select", "generate"} \cup Observing
Embeds ==
    /\ step' \in {"begin", "embed goal"} => step = "begin"
    /\ step' = "embed events" =>
         \/ step = "embed goal" /\ at' = 1
         \/ step = "embed events" /\ at' = at + 1 /\ at # Len(input.events)
    /\ step' = "rerank" => step = "embed events" /\ at = Len(input.events)
    /\ step' \in Ranked => step \in Ranked \cup {"rerank"} \/ input.variant \notin Selectors

\* Which provider a step asks, and the lists that keep its trace.
Talking == {"retrieve", "decide", "repair", "embed memory", "generate"} \cup Ranking \cup Compiling
RoleAt(s) ==
    IF s \in {"decide", "repair"} THEN "memory_decision"
    ELSE IF s \in {"rerank", "compile rerank"} THEN "rerank"
    ELSE IF s = "generate" THEN "patch_generation"
    ELSE "embedding"
ListsAt(s) ==
    IF s \in {"embed goal", "embed events"} THEN {"embedding", "ranking"}
    ELSE IF s = "rerank" THEN {"ranking"}
    ELSE IF s = "compile rerank" THEN {"ranker"}
    ELSE IF s \in {"decide", "repair"} THEN {"decider"}
    ELSE IF s = "generate" THEN {}
    ELSE {"embedding"}

\* The traces of a result, where the call is the last one.
Closing(reply) ==
    IF step \in {"embed goal", "embed events"} THEN kept'.embedding
    ELSE IF step = "rerank" THEN ErrorTraced(kept.ranking, reply)
    ELSE IF step = "generate" THEN PatchTraced(reply)
    ELSE TracesOf(kept')

Silent ==
    /\ UNCHANGED <<calls, kept>>
    /\ step \notin Ranking /\ (step' = "over" \/ step # "repair")
    /\ step' = "over" => Result(TracesOf(kept))

Speaks(role, reply) ==
    /\ calls' = Append(calls, CallOf(role, reply)) /\ CallOf(role, reply) \in Calls
    /\ step \in Talking /\ role = RoleAt(step) /\ Keeps(ListsAt(step), reply)
    /\ step' # "over" =>
         /\ role # "patch_generation"
         /\ reply = Answer \/ (reply = Unparseable /\ step = "decide" /\ step' = "repair")
    /\ step' = "over" =>
         /\ Result(Closing(reply))
         /\ step \in Ranking => outcome' = Raised \/ reply.got = "error"

Move ==
    /\ step # "over" /\ UNCHANGED input
    /\ step' \in Steps /\ at' \in Nat /\ ToSet(ranked') \subseteq Events
    /\ kept' \in [Lists -> Seq(Traces)]
    /\ Phases' /\ Turns /\ Embeds
    /\ Silent \/ \E role \in Roles, reply \in Replies : Speaks(role, reply)

LEMMA Speaking ==
    ASSUME CellType, NEW role \in Roles, NEW reply \in Replies, Asked(role, reply),
           step \in Talking, role = RoleAt(step), Keeps(ListsAt(step), reply),
           \/ step' # "over" /\ step # "generate"
              /\ (reply = Answer \/ (reply = Unparseable /\ step = "decide" /\ step' = "repair"))
           \/ step' = "over" /\ Result(Closing(reply))
              /\ (step \in Ranking => outcome' = Raised \/ reply.got = "error")
    PROVE  Speaks(role, reply) /\ kept' \in [Lists -> Seq(Traces)]
<1>1. /\ calls' = Append(calls, CallOf(role, reply))
      /\ CallOf(role, reply) \in Calls
  BY AskedOf
<1>2. step # "generate" => role # "patch_generation"
  BY DEF RoleAt
<1>3. kept' \in [Lists -> Seq(Traces)]
  BY KeptOf
<1> QED BY <1>1, <1>2, <1>3 DEF Speaks

LEMMA RankingEnds ==
    ASSUME NEW reply, NEW traces, NEW next, RankingGoesOn(reply, traces, next)
    PROVE  \/ reply = Answer /\ Goes(next)
           \/ step' = "over" /\ Result(traces) /\ (outcome' = Raised \/ reply.got = "error")
BY SelectionEnds DEF RankingGoesOn, Raises, Ends, Result

LEMMA ObserveEnds ==
    ASSUME NEW reply, NEW next, ObserveGoesOn(reply, next)
    PROVE  \/ reply = Answer /\ Goes(next)
           \/ step' = "over" /\ Result(TracesOf(kept'))
BY RuntimeEnds DEF ObserveGoesOn, Raises, Ends, Result

LEMMA PatchIsLast ==
    ASSUME RefuseRequest \/ GeneratePatch
    PROVE  /\ step' = "over"
           /\ \/ UNCHANGED calls /\ outcome' = Raised
              \/ \E reply \in PatchReplies :
                   Asked("patch_generation", reply) /\ Result(PatchTraced(reply))
<1>1. CASE RefuseRequest
  BY <1>1 DEF RefuseRequest, Raises, Ends
<1>2. CASE GeneratePatch
  <2>1. PICK reply \in PatchReplies :
          /\ Asked("patch_generation", reply)
          /\ CASE reply = Answer -> \E files \in Patches : PatchJudged(files)
               [] reply = Miscounted -> Raises
               [] reply.got = "error" -> PatchFails(reply)
               [] reply.got = "exception" ->
                    PatchEnds("adverse", "patch_generation", "provider_exception", reply, <<>>, <<>>)
    BY <1>2 DEF GeneratePatch
  <2>2. ASSUME NEW status, NEW stage, NEW code, NEW files, NEW paths,
               PatchEnds(status, stage, code, reply, files, paths)
        PROVE  step' = "over" /\ Result(PatchTraced(reply))
    BY <2>2 DEF PatchEnds, EndsRecorded, Ends, Raises, Ended, Result
  <2>3. reply = Answer \/ reply = Miscounted \/ reply.got = "error" \/ reply.got = "exception"
    BY DEF PatchReplies, PostReplies, Answer, Exception, Retryable, Terminal, Miscounted
  <2>4. ASSUME NEW files, reply = Answer, PatchJudged(files)
        PROVE  step' = "over" /\ Result(PatchTraced(reply))
    BY <2>2, <2>4 DEF PatchJudged
  <2>5. PatchFails(reply) => step' = "over" /\ Result(PatchTraced(reply))
    BY <2>2 DEF PatchFails
  <2>6. Raises => step' = "over" /\ Result(PatchTraced(reply))
    BY DEF Raises, Ends, Result
  <2> QED BY <2>1, <2>2, <2>3, <2>4, <2>5, <2>6
<1> QED BY <1>1, <1>2

LEMMA BeginMoves ==
    ASSUME CellType, Phases, NothingToSelect \/ Begin
    PROVE  Move
<1>1. step = "begin" /\ UNCHANGED <<input, calls, kept, ranked>>
  BY DEF NothingToSelect, Begin
<1>2. at' \in Nat
  <2>1. CASE NothingToSelect
    BY <2>1 DEF NothingToSelect, CellType
  <2>2. CASE Begin
    <3>1. at' = IF input.variant = "recallpack" THEN 1 ELSE 0
      BY <2>2, Zenon DEF Begin
    <3> QED BY <3>1
  <2> QED BY <2>1, <2>2
<1>3. \/ step' = "over" /\ outcome' = Raised
      \/ /\ outcome' = outcome
         /\ \/ step' = "generate" /\ input.variant = "raw_full_history"
            \/ step' = "observe" /\ input.variant = "recallpack"
            \/ step' = "embed goal" /\ input.variant \in Selectors /\ Events # {}
  <2>1. CASE NothingToSelect
    BY <2>1 DEF NothingToSelect, Raises, Ends
  <2>2. CASE Begin /\ input.variant = "raw_full_history"
    BY <2>2 DEF Begin, Goes, Raises, Ends, Selectors
  <2>3. CASE Begin /\ input.variant = "recallpack"
    BY <2>3 DEF Begin, Goes, Raises, Ends, Selectors
  <2>4. CASE Begin /\ input.variant \in Selectors
    BY <2>4 DEF Begin, Goes, Raises, Ends, Selectors
  <2>5. CASE Begin /\ input.variant \notin Variants
    BY <2>5 DEF Begin, Raises, Ends, Selectors, Variants
  <2> QED BY <2>1, <2>2, <2>3, <2>4, <2>5 DEF Variants
<1> QED BY <1>1, <1>2, <1>3 DEF Variants, Move, CellType, Phases, Turns, Silent, Steps, Before,
          Ranking, Awaiting, Observing, Compiling, Remembering, Selectors, Events,
          Embeds, Ranked, Result

LEMMA EmbeddingMoves ==
    ASSUME CellType, Phases, EmbedGoal \/ EmbedEvent
    PROVE  Move
<1> DEFINE next == IF step = "embed goal" \/ at # Len(input.events) THEN "embed events" ELSE "rerank"
<1>1. PICK reply \in EmbeddingReplies :
        /\ Asked("embedding", reply) /\ Keeps({"embedding", "ranking"}, reply)
        /\ RankingGoesOn(reply, kept'.embedding, next)
  BY DEF EmbedGoal, EmbedEvent
<1> HIDE DEF next
<1>2. /\ UNCHANGED <<input, ranked>> /\ at' \in Nat
      /\ \/ step = "embed goal" /\ at' = 1
         \/ step = "embed events" /\ at' = IF at = Len(input.events) THEN 0 ELSE at + 1
  <2>1. CASE EmbedGoal
    BY <2>1 DEF EmbedGoal
  <2>2. CASE EmbedEvent
    <3>1. at' = IF at = Len(input.events) THEN 0 ELSE at + 1
      BY <2>2 DEF EmbedEvent
    <3>2. at' \in Nat
      BY <3>1 DEF CellType
    <3> QED BY <2>2, <3>1, <3>2 DEF EmbedEvent
  <2> QED BY <2>1, <2>2
<1>3. \/ reply = Answer /\ step' = next /\ step' # "over" /\ outcome' = outcome
      \/ /\ step' = "over" /\ Result(kept'.embedding)
         /\ outcome' = Raised \/ reply.got = "error"
  <2>1. next # "over"
    BY DEF next
  <2> QED BY <1>1, <2>1, RankingEnds DEF Goes
<1>4. "embedding" \in Roles /\ reply \in Replies
  BY DEF Roles, Replies
<1>5. \/ step' = "embed events" /\ (step = "embed goal" \/ at # Len(input.events))
      \/ step' = "rerank" /\ step = "embed events" /\ at = Len(input.events)
      \/ step' = "over"
  BY <1>2, <1>3 DEF next
<1>6. Speaks("embedding", reply) /\ kept' \in [Lists -> Seq(Traces)]
  <2>1. step \in Talking /\ RoleAt(step) = "embedding" /\ ListsAt(step) = {"embedding", "ranking"}
        /\ step \in Ranking /\ step # "generate" /\ Closing(reply) = kept'.embedding
    BY <1>2 DEF Talking, RoleAt, ListsAt, Ranking, Closing
  <2>2. CASE reply = Answer /\ step' # "over"
    BY <1>1, <1>4, <2>1, <2>2, Speaking
  <2>3. CASE step' = "over" /\ Result(kept'.embedding) /\ (outcome' = Raised \/ reply.got = "error")
    BY <1>1, <1>4, <2>1, <2>3, Speaking
  <2> QED BY <1>3, <2>2, <2>3
<1>8. Phases' /\ Turns /\ step' \in Steps
  BY <1>2, <1>3, <1>5 DEF Phases, Turns, Steps, Variants, Before, Ranking, Awaiting, Observing,
       Compiling, Events
<1>9. Embeds
  BY <1>2, <1>5 DEF Embeds, Ranked, Observing
<1> QED BY <1>2, <1>4, <1>6, <1>8, <1>9 DEF Move, CellType, Events

\* The reranker orders some of the events, and one at least.
LEMMA RankingsOf ==
    ASSUME NEW S, IsFiniteSet(S), NEW order \in Rankings(S)
    PROVE  /\ ToSet(order) \subseteq S
           /\ order \in Seq(S) /\ Len(order) <= Cardinality(S)
           /\ S # {} => ToSet(order) # {}
           /\ Cardinality(S) <= TopN => ToSet(order) = S
           /\ \A i, j \in DOMAIN order : i # j => order[i] # order[j]
<1> DEFINE size == IF Cardinality(S) < TopN THEN Cardinality(S) ELSE TopN
<1>1. PICK T \in SUBSET S : Cardinality(T) = size /\ order \in SetToSeqs(T)
  BY DEF Rankings
<1>2. IsFiniteSet(T) /\ Cardinality(S) \in Nat /\ Cardinality(T) \in Nat /\ Cardinality(T) <= Cardinality(S)
  BY <1>1, FS_Subset, FS_CardinalityType
<1>3. /\ order \in [1..Cardinality(T) -> T]
      /\ \A i, j \in 1..Cardinality(T) : i # j => order[i] # order[j]
  BY <1>1 DEF SetToSeqs
<1>4. order \in Seq(S) /\ Len(order) = Cardinality(T) /\ DOMAIN order = 1..Cardinality(T)
  BY <1>2, <1>3
<1>5. ToSet(order) \subseteq T
  BY <1>3 DEF ToSet
<1>6. S # {} => ToSet(order) # {}
  <2> SUFFICES ASSUME S # {} PROVE ToSet(order) # {}
    OBVIOUS
  <2>1. Cardinality(S) # 0
    BY FS_EmptySet
  <2>2. Cardinality(T) # 0
    BY <1>1, <1>2, <2>1, TopNAssumption
  <2>3. 1 \in DOMAIN order
    BY <1>2, <1>4, <2>2
  <2> QED BY <2>3 DEF ToSet
<1>7. Cardinality(S) <= TopN => ToSet(order) = S
  <2> SUFFICES ASSUME Cardinality(S) <= TopN PROVE S \subseteq ToSet(order)
    BY <1>5
  <2>1. Cardinality(T) = Cardinality(S)
    BY <1>1, <1>2, TopNAssumption
  <2>2. T = S
    BY <1>1, <2>1, FS_Subset
  <2>3. IsFiniteSet(ToSet(order)) /\ Cardinality(ToSet(order)) = Cardinality(T)
    <3>1. order \in Bijection(1..Cardinality(T), ToSet(order))
      BY <1>3, <1>4 DEF Bijection, Injection, Surjection, ToSet, IsInjective
    <3>2. ExistsBijection(1..Cardinality(T), ToSet(order))
      BY <3>1 DEF ExistsBijection
    <3>3. IsFiniteSet(1..Cardinality(T)) /\ Cardinality(1..Cardinality(T)) = Cardinality(T)
      BY <1>2, FS_Interval
    <3> QED BY <3>2, <3>3, FS_Bijection
  <2>4. ToSet(order) = T
    BY <1>2, <1>5, <2>3, FS_Subset
  <2> QED BY <2>2, <2>4
<1> QED BY <1>2, <1>3, <1>4, <1>5, <1>6, <1>7

LEMMA RerankMoves ==
    ASSUME CellType, Phases, Rerank
    PROVE  Move
<1>1. PICK reply \in RerankReplies :
        /\ Asked("rerank", reply) /\ Keeps({"ranking"}, reply)
        /\ IF reply = Answer
           THEN \E order \in Rankings(Events) :
                  /\ ranked' = order
                  /\ IF input.variant # "recall_time_resolver"
                     THEN Goes("select") /\ UNCHANGED at
                     ELSE /\ IF Made("memory_decision") THEN Goes("observe") ELSE Raises
                          /\ at' = Least(ToSet(order))
           ELSE /\ RankingGoesOn(reply, ErrorTraced(kept.ranking, reply), "none")
                /\ UNCHANGED <<ranked, at>>
  BY DEF Rerank
<1>2. step = "rerank" /\ UNCHANGED input
  BY DEF Rerank
<1>3. /\ \/ reply = Answer /\ step' \in {"select", "observe"} /\ outcome' = outcome
         \/ /\ step' = "over" /\ Result(ErrorTraced(kept.ranking, reply))
            /\ outcome' = Raised \/ reply.got = "error"
      /\ step' = "observe" => input.variant = "recall_time_resolver"
      /\ at' \in Nat /\ ToSet(ranked') \subseteq Events
  <2>1. CASE reply = Answer
    <3>1. PICK order \in Rankings(Events) :
            /\ ranked' = order
            /\ IF input.variant # "recall_time_resolver"
               THEN Goes("select") /\ UNCHANGED at
               ELSE /\ IF Made("memory_decision") THEN Goes("observe") ELSE Raises
                    /\ at' = Least(ToSet(order))
      BY <1>1, <2>1
    <3>2. ToSet(order) \in SUBSET Nat /\ ToSet(order) # {} /\ ToSet(order) \subseteq Events
      BY <1>2, RankingsOf, EventsAreNumbered DEF CellType, Phases, Ranking
    <3>3. Least(ToSet(order)) \in Nat
      BY <3>2, LeastOf
    <3> QED BY <2>1, <3>1, <3>2, <3>3 DEF CellType, Goes, Raises, Ends, Result
  <2>2. CASE reply # Answer
    <3>1. /\ step' = "over" /\ Result(ErrorTraced(kept.ranking, reply))
          /\ outcome' = Raised \/ reply.got = "error"
      BY <1>1, <2>2, RankingEnds
    <3> QED BY <1>1, <2>2, <3>1 DEF CellType
  <2> QED BY <2>1, <2>2
<1>4. "rerank" \in Roles /\ reply \in Replies
  BY DEF Roles, Replies
<1>5. Speaks("rerank", reply) /\ kept' \in [Lists -> Seq(Traces)]
  <2>1. step \in Talking /\ RoleAt(step) = "rerank" /\ ListsAt(step) = {"ranking"}
        /\ step # "generate" /\ Closing(reply) = ErrorTraced(kept.ranking, reply)
    BY <1>2 DEF Talking, RoleAt, ListsAt, Ranking, Closing
  <2>2. CASE reply = Answer /\ step' # "over"
    BY <1>1, <1>4, <2>1, <2>2, Speaking
  <2>3. CASE /\ step' = "over" /\ Result(ErrorTraced(kept.ranking, reply))
             /\ outcome' = Raised \/ reply.got = "error"
    BY <1>1, <1>4, <2>1, <2>3, Speaking
  <2> QED BY <1>3, <2>2, <2>3
<1>6. Embeds
  BY <1>2, <1>3 DEF Embeds, Ranked, Observing
<1>7. Phases' /\ Turns /\ step' \in Steps
  BY <1>2, <1>3 DEF Phases, Turns, Steps, Variants, Before, Ranking, Awaiting, Observing, Compiling,
       Events, Remembering
<1> QED BY <1>2, <1>3, <1>4, <1>5, <1>6, <1>7 DEF Move, Events

LEMMA SilentMoves ==
    ASSUME CellType, Phases, Select \/ Claim \/ StoreFails \/ CompileNothing \/ CompileFails
    PROVE  Move
<1>1. /\ UNCHANGED <<input, at, calls, kept, ranked>>
      /\ step \in {"select", "compile"} \cup Observing
  BY DEF Select, Claim, StoreFails, CompileNothing, CompileFails, Observing
<1>2. \/ step' = "over" /\ Result(TracesOf(kept))
      \/ step = "observe" /\ step' \in {"retrieve", "decide"} /\ outcome' = outcome
      \/ step \in {"select", "compile"} /\ step' = "generate" /\ outcome' = outcome
  <2>1. CASE Select
    BY <2>1 DEF Select, Goes, Raises, Ends, Result
  <2>2. CASE Claim
    BY <1>1, <2>2, RuntimeEnds DEF Claim, Goes
  <2>3. CASE StoreFails
    BY <1>1, <2>3, RuntimeEnds DEF StoreFails
  <2>4. CASE CompileNothing
    BY <2>4 DEF CompileNothing, Goes, Raises, Ends, Result
  <2>5. CASE CompileFails
    BY <1>1, <2>5, RuntimeEnds DEF CompileFails
  <2> QED BY <2>1, <2>2, <2>3, <2>4, <2>5
<1>3. Phases' /\ Turns /\ step' \in Steps
  BY <1>1, <1>2 DEF Phases, Turns, Steps, Variants, Before, Ranking, Awaiting, Observing, Compiling,
       Events
<1>4. Silent
  BY <1>1, <1>2 DEF Silent, Observing, Ranking
<1>5. Embeds
  BY <1>1, <1>2 DEF Embeds, Ranked, Observing, Phases, Compiling, Selectors
<1> QED BY <1>1, <1>3, <1>4, <1>5 DEF Move, CellType, Events, Observing

LEMMA RetrieveMoves ==
    ASSUME CellType, Phases, Retrieve \/ CompileEmbed
    PROVE  Move
<1>1. PICK reply \in EmbeddingReplies :
        /\ Asked("embedding", reply) /\ Keeps({"embedding"}, reply)
        /\ \/ step = "retrieve" /\ ObserveGoesOn(reply, "decide")
           \/ /\ step = "compile"
              /\ IF reply = Answer THEN Goes("compile rerank") ELSE RuntimeFails("embedding_failure")
  BY DEF Retrieve, CompileEmbed
<1>2. UNCHANGED <<input, at, ranked>>
  BY DEF Retrieve, CompileEmbed
<1>3. \/ step' = "over" /\ step \in {"retrieve", "compile"} /\ Result(TracesOf(kept'))
      \/ reply = Answer /\ step = "retrieve" /\ step' = "decide" /\ outcome' = outcome
      \/ reply = Answer /\ step = "compile" /\ step' = "compile rerank" /\ outcome' = outcome
  BY <1>1, ObserveEnds, RuntimeEnds DEF Goes
<1>4. "embedding" \in Roles /\ reply \in Replies
  BY DEF Roles, Replies
<1>5. Speaks("embedding", reply) /\ kept' \in [Lists -> Seq(Traces)]
  <2>1. step \in Talking /\ RoleAt(step) = "embedding" /\ ListsAt(step) = {"embedding"}
        /\ step # "generate" /\ step \notin Ranking /\ Closing(reply) = TracesOf(kept')
    BY <1>3 DEF Talking, RoleAt, ListsAt, Ranking, Compiling, Closing
  <2>2. CASE reply = Answer /\ step' # "over"
    BY <1>1, <1>4, <2>1, <2>2, Speaking
  <2>3. CASE step' = "over" /\ Result(TracesOf(kept'))
    BY <1>1, <1>4, <2>1, <2>3, Speaking
  <2> QED BY <1>3, <2>2, <2>3
<1>6. Embeds
  BY <1>3 DEF Embeds, Ranked, Observing
<1>7. Phases' /\ Turns /\ step' \in Steps
  BY <1>2, <1>3 DEF Phases, Turns, Steps, Variants, Before, Ranking, Awaiting, Observing, Compiling,
       Events
<1> QED BY <1>2, <1>3, <1>4, <1>5, <1>6, <1>7 DEF Move, CellType, Events

LEMMA DecideMoves ==
    ASSUME CellType, Phases, Decide \/ Repair
    PROVE  Move
<1> DEFINE repaired == step = "repair"
<1>1. PICK reply \in DecisionReplies :
        /\ Asked("memory_decision", reply) /\ Keeps({"decider"}, reply)
        /\ \/ reply = Answer /\ \E op \in Operations : OnDecision(op, repaired)
           \/ /\ UNCHANGED at
              /\ \/ step' = "over" /\ Result(TracesOf(kept'))
                 \/ reply = Unparseable /\ ~repaired /\ Goes("repair")
  <2>1. CASE Decide
    BY <2>1, RuntimeEnds DEF Decide, Raises, Ends, Result
  <2>2. CASE Repair
    BY <2>2, RuntimeEnds DEF Repair, Raises, Ends, Result
  <2> QED BY <2>1, <2>2
<1>2. step \in {"decide", "repair"} /\ UNCHANGED <<input, ranked>>
  BY DEF Decide, Repair
<1>3. \/ reply = Answer /\ step' = "repair" /\ step = "decide" /\ at' = at /\ outcome' = outcome
      \/ reply = Answer /\ step' = "embed memory" /\ at' = at /\ outcome' = outcome
      \/ /\ reply = Answer /\ at' \in Nat /\ outcome' = outcome
         /\ \/ step' = "observe" /\ at' > at
            \/ step' = "compile" /\ input.variant = "recallpack"
            \/ step' = "select" /\ input.variant # "recallpack"
      \/ step' = "over" /\ Result(TracesOf(kept')) /\ at' \in Nat
      \/ reply = Unparseable /\ step' = "repair" /\ step = "decide" /\ at' = at /\ outcome' = outcome
  <2>1. CASE reply = Answer /\ \E op \in Operations : OnDecision(op, repaired)
    <3>1. PICK op \in Operations : OnDecision(op, repaired)
      BY <2>1
    <3>2. repaired \in BOOLEAN
      OBVIOUS
    <3>3. \/ step' = "repair" /\ ~repaired /\ at' = at /\ outcome' = outcome
          \/ step' = "embed memory" /\ at' = at /\ outcome' = outcome
          \/ Completed(decided')
      <4> HIDE DEF repaired
      <4> QED BY <3>1, <3>2, DecisionOf
    <3>4. CASE Completed(decided')
      BY <1>2, <2>1, <3>4, CompletedOf
    <3> QED BY <1>2, <2>1, <3>3, <3>4
  <2>2. CASE UNCHANGED at /\ 
             (\/ step' = "over" /\ Result(TracesOf(kept'))
              \/ reply = Unparseable /\ ~repaired /\ Goes("repair"))
    BY <1>2, <2>2 DEF Goes, CellType
  <2> QED BY <1>1, <2>1, <2>2
<1>4. "memory_decision" \in Roles /\ reply \in Replies
  BY DEF Roles, Replies
<1>5. Speaks("memory_decision", reply) /\ kept' \in [Lists -> Seq(Traces)]
  <2>1. step \in Talking /\ RoleAt(step) = "memory_decision" /\ ListsAt(step) = {"decider"}
        /\ step # "generate" /\ step \notin Ranking /\ Closing(reply) = TracesOf(kept')
    BY <1>2 DEF Talking, RoleAt, ListsAt, Ranking, Compiling, Closing
  <2>2. CASE step' = "over" /\ Result(TracesOf(kept'))
    BY <1>1, <1>4, <2>1, <2>2, Speaking
  <2>3. CASE /\ step' # "over"
             /\ reply = Answer \/ (reply = Unparseable /\ step = "decide" /\ step' = "repair")
    BY <1>1, <1>4, <2>1, <2>3, Speaking
  <2> QED BY <1>3, <2>2, <2>3
<1>6. Embeds
  BY <1>2, <1>3 DEF Embeds, Ranked, Observing
<1>7. Phases' /\ Turns /\ step' \in Steps /\ at' \in Nat
  BY <1>2, <1>3 DEF Phases, Turns, Steps, Variants, Before, Ranking, Awaiting, Observing, Compiling,
       Events, Remembering, Selectors, CellType
<1> QED BY <1>2, <1>4, <1>5, <1>6, <1>7 DEF Move, CellType, Events

LEMMA EmbedMemoryMoves ==
    ASSUME CellType, Phases, EmbedMemory
    PROVE  Move
<1>1. PICK reply \in EmbeddingReplies :
        /\ Asked("embedding", reply) /\ Keeps({"embedding"}, reply)
        /\ IF reply = Answer THEN Completed(decided)
           ELSE ObserveGoesOn(reply, "none") /\ UNCHANGED <<at, memories>>
  BY DEF EmbedMemory
<1>2. step = "embed memory" /\ UNCHANGED <<input, ranked>>
  BY DEF EmbedMemory
<1>3. \/ /\ reply = Answer /\ at' \in Nat /\ outcome' = outcome
         /\ \/ step' = "observe" /\ at' > at
            \/ step' = "compile" /\ input.variant = "recallpack"
            \/ step' = "select" /\ input.variant # "recallpack"
      \/ step' = "over" /\ Result(TracesOf(kept')) /\ at' \in Nat
  <2>1. CASE reply = Answer
    BY <1>1, <2>1, CompletedOf
  <2>2. CASE reply # Answer
    BY <1>1, <2>2, ObserveEnds DEF CellType
  <2> QED BY <2>1, <2>2
<1>4. "embedding" \in Roles /\ reply \in Replies
  BY DEF Roles, Replies
<1>5. Speaks("embedding", reply) /\ kept' \in [Lists -> Seq(Traces)]
  <2>1. step \in Talking /\ RoleAt(step) = "embedding" /\ ListsAt(step) = {"embedding"}
        /\ step # "generate" /\ step \notin Ranking /\ Closing(reply) = TracesOf(kept')
    BY <1>2 DEF Talking, RoleAt, ListsAt, Ranking, Compiling, Closing
  <2>2. CASE reply = Answer /\ step' # "over"
    BY <1>1, <1>4, <2>1, <2>2, Speaking
  <2>3. CASE step' = "over" /\ Result(TracesOf(kept'))
    BY <1>1, <1>4, <2>1, <2>3, Speaking
  <2> QED BY <1>3, <2>2, <2>3
<1>6. Embeds
  BY <1>2, <1>3 DEF Embeds, Ranked, Observing
<1>7. Phases' /\ Turns /\ step' \in Steps /\ at' \in Nat
  BY <1>2, <1>3 DEF Phases, Turns, Steps, Variants, Before, Ranking, Awaiting, Observing, Compiling,
       Events, Remembering, Selectors
<1> QED BY <1>2, <1>4, <1>5, <1>6, <1>7 DEF Move, CellType, Events

LEMMA CompileRerankMoves ==
    ASSUME CellType, Phases, CompileRerank
    PROVE  Move
<1>1. PICK reply \in RerankReplies :
        /\ Asked("rerank", reply) /\ Keeps({"ranker"}, reply)
        /\ (step' = "over" /\ Result(TracesOf(kept'))) \/ (reply = Answer /\ Goes("generate"))
  BY RuntimeEnds DEF CompileRerank, Raises, Ends, Result
<1>2. step = "compile rerank" /\ UNCHANGED <<input, at, ranked>>
  BY DEF CompileRerank
<1>3. "rerank" \in Roles /\ reply \in Replies
  BY DEF Roles, Replies
<1>4. Speaks("rerank", reply) /\ kept' \in [Lists -> Seq(Traces)]
  <2>1. step \in Talking /\ RoleAt(step) = "rerank" /\ ListsAt(step) = {"ranker"}
        /\ step # "generate" /\ step \notin Ranking /\ Closing(reply) = TracesOf(kept')
    BY <1>2 DEF Talking, RoleAt, ListsAt, Ranking, Compiling, Closing
  <2>2. CASE reply = Answer /\ step' = "generate"
    BY <1>1, <1>3, <2>1, <2>2, Speaking
  <2>3. CASE step' = "over" /\ Result(TracesOf(kept'))
    BY <1>1, <1>3, <2>1, <2>3, Speaking
  <2> QED BY <1>1, <2>2, <2>3 DEF Goes
<1>5. Embeds
  BY <1>1, <1>2 DEF Embeds, Ranked, Observing, Goes, Phases, Compiling, Selectors
<1>6. Phases' /\ Turns /\ step' \in Steps
  BY <1>1, <1>2 DEF Phases, Turns, Steps, Variants, Before, Ranking, Awaiting, Observing, Compiling,
       Events, Goes
<1> QED BY <1>2, <1>3, <1>4, <1>5, <1>6 DEF Move, CellType, Events

LEMMA PatchMoves ==
    ASSUME CellType, Phases, RefuseRequest \/ GeneratePatch
    PROVE  Move
<1>1. UNCHANGED <<input, at, ranked, kept>> /\ step = "generate"
  BY DEF RefuseRequest, GeneratePatch
<1>2. /\ step' = "over"
      /\ \/ UNCHANGED calls /\ outcome' = Raised
         \/ \E reply \in PatchReplies :
              Asked("patch_generation", reply) /\ Result(PatchTraced(reply))
  BY PatchIsLast
<1>3. ASSUME NEW reply \in PatchReplies,
             Asked("patch_generation", reply), Result(PatchTraced(reply))
      PROVE  /\ "patch_generation" \in Roles /\ reply \in Replies
             /\ Speaks("patch_generation", reply)
  <2>1. "patch_generation" \in Roles /\ reply \in Replies
    BY DEF Roles, Replies
  <2>2. step \in Talking /\ RoleAt(step) = "patch_generation" /\ ListsAt(step) = {}
        /\ step \notin Ranking /\ Closing(reply) = PatchTraced(reply)
    BY <1>1 DEF Talking, RoleAt, ListsAt, Ranking, Compiling, Closing
  <2>3. Keeps({}, reply)
    BY <1>1 DEF Keeps, CellType
  <2> QED BY <1>2, <1>3, <2>1, <2>2, <2>3, Speaking
<1>4. Silent \/ \E role \in Roles, reply \in Replies : Speaks(role, reply)
  BY <1>1, <1>2, <1>3 DEF Silent, Result, Ranking
<1>5. Embeds
  BY <1>2 DEF Embeds, Ranked, Observing
<1>6. Phases' /\ Turns /\ step' \in Steps
  BY <1>1, <1>2 DEF Phases, Turns, Steps, Variants, Before, Ranking, Awaiting, Observing, Compiling,
       Events
<1> QED BY <1>1, <1>4, <1>5, <1>6 DEF Move, CellType, Events

\* Every step of a call of the executor is a move.
LEMMA CellMoves ==
    ASSUME CellType, Phases, CellNext
    PROVE  Move
BY BeginMoves, EmbeddingMoves, RerankMoves, SilentMoves, RetrieveMoves, DecideMoves,
   EmbedMemoryMoves, CompileRerankMoves, PatchMoves DEF CellNext

---------------------------------------------------------------------------
\* Nothing is asked after a failure

\* Of the calls that were made, each but the last is the last no more.
Chained ==
    \A i \in 1..(Len(calls) - 1) :
      /\ calls[i].reply # Answer =>
           /\ calls[i].during = "decide" /\ calls[i].reply = Unparseable
           /\ calls[i + 1].during = "repair" /\ calls[i + 1].event = calls[i].event
      /\ calls[i].role # "patch_generation"

\* While the cell goes on, its last call was answered, or its event is about
\* to be repaired.
Calling ==
    calls # <<>> /\ step # "over" =>
      /\ LastCall.role # "patch_generation"
      /\ \/ LastCall.reply = Answer
         \/ /\ step = "repair" /\ LastCall.event = at
            /\ LastCall.during = "decide" /\ LastCall.reply = Unparseable

DecisionsOf(e) ==
    {i \in DOMAIN calls : calls[i].role = "memory_decision" /\ calls[i].event = e}

\* An event has no decision before its turn, one before its repair, two in all.
Deciding ==
    \A e \in Nat :
      /\ \E i, j : DecisionsOf(e) \subseteq {i, j}
      /\ step \in Before => DecisionsOf(e) = {}
      /\ step \in Awaiting /\ e >= at => DecisionsOf(e) = {}
      /\ step \in {"repair", "embed memory"} /\ e > at => DecisionsOf(e) = {}
      /\ step = "repair" /\ e = at => DecisionsOf(e) \subseteq {Len(calls)}

CallInv == CellType /\ Phases /\ Chained /\ Calling /\ Deciding

LEMMA TypesMove ==
    ASSUME CellType, Phases, Move
    PROVE  (CellType /\ Phases)'
<1>1. calls' \in Seq(Calls)
  <2>1. ASSUME NEW role \in Roles, NEW reply \in Replies, Speaks(role, reply)
        PROVE  calls' \in Seq(Calls)
    BY <2>1, Appended DEF Speaks, CellType
  <2> QED BY <2>1 DEF Move, Silent, CellType
<1>2. Events' = Events
  BY DEF Move, Events
<1> QED BY <1>1, <1>2 DEF Move, CellType

\* What a move does to the list of the calls.
LEMMA CallsMove ==
    ASSUME CellType, NEW role \in Roles, NEW reply \in Replies, Speaks(role, reply)
    PROVE  /\ Len(calls) \in Nat /\ Len(calls') = Len(calls) + 1
           /\ DOMAIN calls = 1..Len(calls) /\ DOMAIN calls' = 1..(Len(calls) + 1)
           /\ calls' # <<>>
           /\ calls'[Len(calls')] = CallOf(role, reply)
           /\ \A i \in 1..Len(calls) : calls'[i] = calls[i]
<1>1. calls' = Append(calls, CallOf(role, reply)) /\ CallOf(role, reply) \in Calls /\ calls \in Seq(Calls)
  BY DEF Speaks, CellType
<1> HIDE DEF CallOf
<1>2. Len(calls) \in Nat /\ DOMAIN calls = 1..Len(calls)
  BY <1>1
<1> QED BY <1>1, <1>2, Appended

LEMMA ChainMoves ==
    ASSUME CellType, Chained, Calling, Move
    PROVE  Chained' /\ Calling'
<1>1. CASE Silent
  BY <1>1 DEF Silent, Chained, Calling, LastCall, Move, Turns
<1>2. ASSUME NEW role \in Roles, NEW reply \in Replies, Speaks(role, reply)
      PROVE  Chained' /\ Calling'
  <2> DEFINE call == CallOf(role, reply)
  <2>1. /\ call.role = role /\ call.reply = reply /\ call.during = step /\ call.event = at
    BY DEF CallOf
  <2> HIDE DEF call
  <2>2. /\ Len(calls) \in Nat /\ Len(calls') = Len(calls) + 1
        /\ DOMAIN calls = 1..Len(calls) /\ calls' # <<>>
        /\ calls'[Len(calls')] = call
        /\ \A i \in 1..Len(calls) : calls'[i] = calls[i]
    BY <1>2, CallsMove DEF call
  <2>3. Calling'
    <3>1. LastCall' = call
      BY <2>2 DEF LastCall
    <3>2. step' # "over" =>
            /\ role # "patch_generation"
            /\ reply = Answer \/ (reply = Unparseable /\ step = "decide" /\ step' = "repair" /\ at' = at)
      BY <1>2 DEF Speaks, Move, Turns
    <3> QED BY <2>1, <3>1, <3>2 DEF Calling
  <2>4. ASSUME NEW i \in 1..(Len(calls') - 1)
        PROVE  /\ calls'[i].reply # Answer =>
                    /\ calls'[i].during = "decide" /\ calls'[i].reply = Unparseable
                    /\ calls'[i + 1].during = "repair" /\ calls'[i + 1].event = calls'[i].event
               /\ calls'[i].role # "patch_generation"
    <3>1. CASE i < Len(calls)
      <4>1. i \in 1..(Len(calls) - 1) /\ calls'[i] = calls[i] /\ calls'[i + 1] = calls[i + 1]
        BY <2>2, <3>1
      <4> QED BY <4>1 DEF Chained
    <3>2. CASE i = Len(calls)
      <4>1. calls'[i] = LastCall /\ calls'[i + 1] = call /\ calls # <<>> /\ step # "over"
        BY <2>2, <3>2 DEF LastCall, Move
      <4> QED BY <2>1, <4>1 DEF Calling
    <3>3. i < Len(calls) \/ i = Len(calls)
      <4>1. Len(calls) \in Nat /\ Len(calls') - 1 = Len(calls)
        BY <2>2
      <4>2. i \in 1..Len(calls)
        BY <4>1, Zenon
      <4> QED BY <4>1, <4>2
    <3> QED BY <3>1, <3>2, <3>3
  <2> QED BY <2>3, <2>4 DEF Chained
<1> QED BY <1>1, <1>2 DEF Move

LEMMA DecisionsMove ==
    ASSUME CellType, Deciding, Move
    PROVE  Deciding'
<1> SUFFICES ASSUME NEW e \in Nat
             PROVE  /\ \E i, j : DecisionsOf(e)' \subseteq {i, j}
                    /\ step' \in Before => DecisionsOf(e)' = {}
                    /\ step' \in Awaiting /\ e >= at' => DecisionsOf(e)' = {}
                    /\ step' \in {"repair", "embed memory"} /\ e > at' => DecisionsOf(e)' = {}
                    /\ step' = "repair" /\ e = at' => DecisionsOf(e)' \subseteq {Len(calls')}
  BY DEF Deciding
<1>1. /\ \E i, j : DecisionsOf(e) \subseteq {i, j}
      /\ step \in Before => DecisionsOf(e) = {}
      /\ step \in Awaiting /\ e >= at => DecisionsOf(e) = {}
      /\ step \in {"repair", "embed memory"} /\ e > at => DecisionsOf(e) = {}
      /\ step = "repair" /\ e = at => DecisionsOf(e) \subseteq {Len(calls)}
  BY DEF Deciding
<1>2. /\ step' \in Before => step \in Before
      /\ step' \in Awaiting =>
           \/ step \in Before
           \/ step \in {"observe", "retrieve"} /\ at' = at
           \/ step \in {"decide", "repair", "embed memory"} /\ at' > at
      /\ step' = "repair" => step = "decide" /\ at' = at
      /\ step' = "embed memory" => step \in {"decide", "repair"} /\ at' = at
  BY DEF Move, Turns, CellType
<1>0. /\ at' > at /\ e >= at' => e > at
      /\ e > at => e >= at
      /\ e = at => e >= at /\ ~(e > at)
      /\ e = at /\ at' > at => ~(e >= at')
  <2>1. at \in Nat /\ at' \in Nat /\ e \in Nat
    BY DEF Move, CellType
  <2> QED BY ONLY <2>1
<1>3. CASE DecisionsOf(e)' = DecisionsOf(e)
           /\ (step' = "repair" /\ e = at' => DecisionsOf(e)' = {})
  <2>1. step' \in Awaiting /\ e >= at' => DecisionsOf(e) = {}
    BY <1>0, <1>1, <1>2 DEF Awaiting
  <2>2. step' \in {"repair", "embed memory"} /\ e > at' => DecisionsOf(e) = {}
    BY <1>0, <1>1, <1>2 DEF Awaiting
  <2>3. step' \in Before => DecisionsOf(e) = {}
    BY <1>1, <1>2
  <2> QED BY <1>1, <1>3, <2>1, <2>2, <2>3, Zenon
<1>4. CASE Silent
  <2>1. DecisionsOf(e)' = DecisionsOf(e)
    BY <1>4 DEF Silent, DecisionsOf
  <2>2. step' = "repair" /\ e = at' => DecisionsOf(e) = {}
    BY <1>1, <1>2 DEF Awaiting
  <2> QED BY <1>3, <2>1, <2>2
<1>5. ASSUME NEW role \in Roles, NEW reply \in Replies, Speaks(role, reply)
      PROVE  /\ \E i, j : DecisionsOf(e)' \subseteq {i, j}
             /\ step' \in Before => DecisionsOf(e)' = {}
             /\ step' \in Awaiting /\ e >= at' => DecisionsOf(e)' = {}
             /\ step' \in {"repair", "embed memory"} /\ e > at' => DecisionsOf(e)' = {}
             /\ step' = "repair" /\ e = at' => DecisionsOf(e)' \subseteq {Len(calls')}
  <2> DEFINE call == CallOf(role, reply)
  <2>1. call.role = role /\ call.event = at
    BY DEF CallOf
  <2> HIDE DEF call
  <2>2. /\ Len(calls) \in Nat /\ Len(calls') = Len(calls) + 1
        /\ DOMAIN calls = 1..Len(calls) /\ DOMAIN calls' = 1..(Len(calls) + 1)
        /\ calls'[Len(calls')] = call
        /\ \A i \in 1..Len(calls) : calls'[i] = calls[i]
    BY <1>5, CallsMove DEF call
  <2>3. role = "memory_decision" <=> step \in {"decide", "repair"}
    BY <1>5 DEF Speaks, RoleAt
  <2>4. DecisionsOf(e)' = DecisionsOf(e) \cup
          (IF role = "memory_decision" /\ e = at THEN {Len(calls) + 1} ELSE {})
    BY <2>1, <2>2 DEF DecisionsOf
  <2>5. CASE ~(role = "memory_decision" /\ e = at)
    <3>1. DecisionsOf(e)' = DecisionsOf(e)
      BY <2>4, <2>5
    <3>2. step' = "repair" /\ e = at' => DecisionsOf(e)' = {}
      BY <1>2, <2>3, <2>5
    <3> QED BY <1>3, <3>1, <3>2
  <2>6. CASE role = "memory_decision" /\ e = at /\ step = "decide"
    <3>1. DecisionsOf(e) = {}
      BY <1>0, <1>1, <2>6 DEF Awaiting
    <3>2. DecisionsOf(e)' = {Len(calls')}
      BY <2>2, <2>4, <2>6, <3>1
    <3>3. step' \notin Before /\ ~(e > at' /\ step' \in {"repair", "embed memory"})
          /\ ~(e >= at' /\ step' \in Awaiting)
      BY <1>0, <1>2, <2>6 DEF Before, Ranking, Awaiting
    <3> QED BY <3>2, <3>3
  <2>7. CASE role = "memory_decision" /\ e = at /\ step = "repair"
    <3>1. DecisionsOf(e)' \subseteq {Len(calls), Len(calls) + 1}
      BY <1>1, <2>4, <2>7
    <3>2. step' \notin Before /\ ~(e > at' /\ step' \in {"repair", "embed memory"})
          /\ ~(e >= at' /\ step' \in Awaiting) /\ step' # "repair"
      BY <1>0, <1>2, <2>7 DEF Before, Ranking, Awaiting
    <3> QED BY <3>1, <3>2
  <2> QED BY <2>3, <2>5, <2>6, <2>7
<1> QED BY <1>4, <1>5 DEF Move

LEMMA CallInit ==
    ASSUME CellInit
    PROVE  CallInv
<1>1. input \in Inputs /\ step = "begin" /\ at = 0 /\ calls = <<>> /\ ranked = <<>>
      /\ kept = [list \in Lists |-> <<>>] /\ outcome = Running
  BY DEF CellInit
<1>2. CellType
  <2>1. ToSet(ranked) = {}
    BY <1>1 DEF ToSet
  <2>2. kept \in [Lists -> Seq(Traces)]
    BY <1>1
  <2> QED BY <1>1, <2>1, <2>2 DEF CellType, Steps
<1>3. Phases
  BY <1>1 DEF Phases, Ranking, Observing, Compiling
<1>4. Chained /\ Calling /\ Deciding
  BY <1>1 DEF Chained, Calling, Deciding, DecisionsOf, Awaiting
<1> QED BY <1>2, <1>3, <1>4 DEF CallInv

LEMMA CallNext ==
    ASSUME CallInv, [Next]_evaluated
    PROVE  CallInv'
<1>1. CASE CellNext
  <2>1. CellType /\ Phases /\ Move
    BY <1>1, CellMoves DEF CallInv
  <2> QED BY <2>1, TypesMove, ChainMoves, DecisionsMove DEF CallInv
<1>2. CASE UNCHANGED cell
  BY <1>2 DEF cell, CallInv, CellType, Phases, Chained, Calling, Deciding, DecisionsOf, LastCall, Events
<1> QED BY <1>1, <1>2 DEF Next, Live, Diagnosing, Claiming, evaluated

\* What is invariant of the calls of a cell.
THEOREM CallsInductive == Spec => []CallInv
<1>1. Init => CallInv
  BY CallInit DEF Init
<1>2. CallInv /\ [Next]_evaluated => CallInv'
  BY CallNext
<1> QED BY <1>1, <1>2, PTL DEF Spec

LEMMA AtMostTwo ==
    ASSUME NEW S, NEW i, NEW j, S \subseteq {i, j}
    PROVE  Cardinality(S) <= 2
<1>1. IsFiniteSet({i}) /\ Cardinality({i}) = 1
  BY FS_Singleton
<1>2. IsFiniteSet({i} \cup {j}) /\ Cardinality({i} \cup {j}) \in Nat /\ Cardinality({i} \cup {j}) <= 2
  <2>1. /\ IsFiniteSet({i} \cup {j})
        /\ Cardinality({i} \cup {j}) = IF j \in {i} THEN Cardinality({i}) ELSE Cardinality({i}) + 1
    BY <1>1, FS_AddElement, Zenon
  <2> QED BY <1>1, <2>1
<1>3. {i} \cup {j} = {i, j}
  OBVIOUS
<1> QED BY <1>2, <1>3, FS_Subset, FS_CardinalityType

\* No retry hides in an attempt: after a call that failed nothing more is
\* asked, but for the one repair of a decision; no event is decided more than
\* twice; and one patch at most is asked for, last (execute_frozen_live_cell).
THEOREM NothingFollowsAFailure == Spec => []NothingAfterAFailure
<1>1. CallInv => NothingAfterAFailure
  <2> SUFFICES ASSUME CallInv PROVE NothingAfterAFailure
    OBVIOUS
  <2>1. ASSUME NEW e \in Events PROVE Cardinality(DecisionsOf(e)) <= 2
    BY EventsAreNumbered, AtMostTwo DEF CallInv, CellType, Deciding
  <2> QED BY <2>1 DEF CallInv, Chained, NothingAfterAFailure, DecisionsOf
<1> QED BY <1>1, CallsInductive, PTL

---------------------------------------------------------------------------
\* Every call is traced

\* A list of traces accounts for some of the calls.
Accounts(cs, list, S) ==
    /\ \A j \in DOMAIN list :
         /\ list[j].call \in S
         /\ list[j].answered = (cs[list[j].call].reply.got = "answer")
    /\ \A i \in S : \E j \in DOMAIN list : list[j].call = i
    /\ \A j, k \in DOMAIN list :
         j < k /\ cs[list[j].call].role = cs[list[k].call].role => list[j].call < list[k].call

Noted(cs) == {i \in DOMAIN cs : LeavesATrace(cs[i])}
ByRole(cs, role) == {i \in Noted(cs) : cs[i].role = role}
During(cs, steps) == {i \in Noted(cs) : cs[i].during \in steps}

\* What each list in memory accounts for.
Books(cs, k) ==
    /\ Accounts(cs, k["embedding"], ByRole(cs, "embedding"))
    /\ Accounts(cs, k["decider"], ByRole(cs, "memory_decision"))
    /\ Accounts(cs, k["ranking"], During(cs, Ranking))
    /\ Accounts(cs, k["ranker"], During(cs, {"compile rerank"}))

\* Where a call comes from.
Sourced(cs) ==
    \A i \in DOMAIN cs :
      /\ cs[i].during \in Talking /\ cs[i].role = RoleAt(cs[i].during)
      /\ cs[i].during \in Ranking => input.variant \in Selectors
      /\ cs[i].during \in Observing => input.variant \in Remembering
      /\ cs[i].during \in Compiling => input.variant = "recallpack"

\* The ranking comes first, and its embeddings are the first.
RanksFirst(cs) ==
    \A i, j \in DOMAIN cs : cs[i].during \in Ranking /\ cs[j].during \notin Ranking => i < j
Splits(cs, k) ==
    \A j \in DOMAIN k["embedding"] :
      input.variant \in Selectors =>
        (j <= RankingEmbeddings <=> cs[k["embedding"][j].call].during \in Ranking)

Ledger(cs, k) ==
    /\ cs \in Seq(Calls) /\ k \in [Lists -> Seq(Traces)]
    /\ Books(cs, k) /\ Sourced(cs) /\ RanksFirst(cs) /\ Splits(cs, k)

\* How far the ranking is.
Counted ==
    /\ step \in Before => \A i \in DOMAIN calls : calls[i].during \in Ranking
    /\ step \in Before \ {"rerank"} => \A i \in DOMAIN calls : calls[i].during # "rerank"
    /\ input.variant \in Selectors =>
         /\ step \in {"begin", "embed goal"} => Len(kept["embedding"]) = 0
         /\ step = "embed events" =>
              Len(kept["embedding"]) = at /\ at <= Len(input.events)
         /\ step \in Ranked \cup {"rerank"} => Len(kept["embedding"]) >= RankingEmbeddings

\* Calls are added, and lists grow by the trace of the last.
LEMMA AccountsGrow ==
    ASSUME NEW cs \in Seq(Calls), NEW c \in Calls, NEW list \in Seq(Traces),
           NEW S \in SUBSET DOMAIN cs, Accounts(cs, list, S)
    PROVE  /\ Accounts(Append(cs, c), list, S)
           /\ \A trace \in Traces :
                trace.call = Len(cs) + 1 /\ trace.answered = (c.reply.got = "answer") =>
                  Accounts(Append(cs, c), Append(list, trace), S \cup {Len(cs) + 1})
<1> DEFINE n == Len(cs) + 1
           next == Append(cs, c)
<1>1. /\ Len(cs) \in Nat /\ DOMAIN cs = 1..Len(cs) /\ n \in Nat /\ n > Len(cs)
      /\ next[n] = c /\ \A i \in DOMAIN cs : next[i] = cs[i]
  BY Appended
<1>2. /\ \A j \in DOMAIN list : list[j].call \in S /\ list[j].call \in DOMAIN cs
      /\ \A j \in DOMAIN list : list[j].answered = (cs[list[j].call].reply.got = "answer")
      /\ \A i \in S : \E j \in DOMAIN list : list[j].call = i
      /\ \A j, k \in DOMAIN list :
           j < k /\ cs[list[j].call].role = cs[list[k].call].role => list[j].call < list[k].call
  BY DEF Accounts
<1> HIDE DEF next, n
<1>3. Accounts(next, list, S)
  BY <1>1, <1>2 DEF Accounts
<1>4. ASSUME NEW trace \in Traces, trace.call = n, trace.answered = (c.reply.got = "answer")
      PROVE  Accounts(next, Append(list, trace), S \cup {n})
  <2> DEFINE longer == Append(list, trace)
             m == Len(list) + 1
  <2>1. /\ Len(list) \in Nat /\ DOMAIN list = 1..Len(list) /\ m \in Nat /\ m > Len(list)
        /\ DOMAIN longer = DOMAIN list \cup {m} /\ m \notin DOMAIN list
        /\ longer[m] = trace /\ \A j \in DOMAIN list : longer[j] = list[j] /\ j < m
    BY Appended
  <2> HIDE DEF longer, m
  <2>2. ASSUME NEW j \in DOMAIN longer
        PROVE  /\ longer[j].call \in S \cup {n}
               /\ longer[j].answered = (next[longer[j].call].reply.got = "answer")
    BY <1>1, <1>2, <1>4, <2>1
  <2>3. ASSUME NEW i \in S \cup {n} PROVE \E j \in DOMAIN longer : longer[j].call = i
    BY <1>2, <1>4, <2>1
  <2>4. ASSUME NEW j \in DOMAIN longer, NEW k \in DOMAIN longer, j < k,
               next[longer[j].call].role = next[longer[k].call].role
        PROVE  longer[j].call < longer[k].call
    <3>1. j \in DOMAIN list
      <4>1. j # m \/ k # m
        BY <2>1, <2>4
      <4>2. k \in DOMAIN list => k < m
        BY <2>1
      <4> QED BY <2>1, <2>4, <4>1, <4>2
    <3>2. CASE k \in DOMAIN list
      BY <1>1, <1>2, <2>1, <2>4, <3>1, <3>2
    <3>3. CASE k = m
      <4>1. longer[k].call = n /\ longer[j].call \in DOMAIN cs
        BY <1>2, <1>4, <2>1, <3>1, <3>3
      <4> QED BY <1>1, <4>1
    <3> QED BY <2>1, <3>2, <3>3
  <2> QED BY <2>2, <2>3, <2>4 DEF Accounts, longer
<1> QED BY <1>3, <1>4 DEF next, n

LEMMA AccountsJoin ==
    ASSUME NEW cs, NEW l \in Seq(Traces), NEW m \in Seq(Traces),
           NEW S \in SUBSET Nat, NEW T \in SUBSET Nat, Accounts(cs, l, S), Accounts(cs, m, T),
           \A i \in S, j \in T : cs[i].role = cs[j].role => i < j
    PROVE  Accounts(cs, l \o m, S \cup T)
<1> DEFINE both == l \o m
<1>1. /\ Len(l) \in Nat /\ DOMAIN l = 1..Len(l) /\ Len(m) \in Nat /\ DOMAIN m = 1..Len(m)
      /\ DOMAIN both = 1..(Len(l) + Len(m))
      /\ \A j \in DOMAIN l : both[j] = l[j]
      /\ \A j \in DOMAIN m : both[Len(l) + j] = m[j]
  OBVIOUS
<1> HIDE DEF both
<1>2. ASSUME NEW j \in DOMAIN both
      PROVE  \/ j \in DOMAIN l /\ both[j] = l[j]
             \/ j - Len(l) \in DOMAIN m /\ both[j] = m[j - Len(l)] /\ j \notin DOMAIN l
  <2>1. CASE j <= Len(l)
    BY <1>1, <2>1
  <2>2. CASE j > Len(l)
    <3>1. j - Len(l) \in DOMAIN m /\ Len(l) + (j - Len(l)) = j /\ j \notin DOMAIN l
      BY <1>1, <2>2
    <3>2. both[Len(l) + (j - Len(l))] = m[j - Len(l)]
      BY <1>1, <3>1
    <3> QED BY <3>1, <3>2
  <2> QED BY <1>1, <2>1, <2>2
<1>3. ASSUME NEW j \in DOMAIN both
      PROVE  /\ both[j].call \in S \cup T
             /\ both[j].answered = (cs[both[j].call].reply.got = "answer")
  BY <1>2 DEF Accounts
<1>4. ASSUME NEW i \in S \cup T PROVE \E j \in DOMAIN both : both[j].call = i
  <2>1. CASE i \in S
    <3>1. PICK j \in DOMAIN l : l[j].call = i
      BY <2>1 DEF Accounts
    <3>2. j \in DOMAIN both
      BY <1>1
    <3> QED BY <1>1, <3>1, <3>2
  <2>2. CASE i \in T
    <3>1. PICK j \in DOMAIN m : m[j].call = i
      BY <2>2 DEF Accounts
    <3>2. Len(l) + j \in DOMAIN both
      BY <1>1
    <3> QED BY <1>1, <3>1, <3>2
  <2> QED BY <2>1, <2>2
<1>5. ASSUME NEW j \in DOMAIN both, NEW k \in DOMAIN both, j < k,
             cs[both[j].call].role = cs[both[k].call].role
      PROVE  both[j].call < both[k].call
  <2>1. CASE j \in DOMAIN l /\ k \in DOMAIN l
    BY <1>1, <1>5, <2>1 DEF Accounts
  <2>2. CASE j \in DOMAIN l /\ k \notin DOMAIN l
    <3>1. both[j].call \in S /\ both[k].call \in T
      BY <1>2, <2>2 DEF Accounts
    <3> QED BY <1>5, <3>1
  <2>3. CASE j \notin DOMAIN l
    <3>1. k \notin DOMAIN l /\ j - Len(l) < k - Len(l)
      BY <1>1, <1>5, <2>3
    <3> QED BY <1>2, <1>5, <2>3, <3>1 DEF Accounts
  <2> QED BY <2>1, <2>2, <2>3
<1> QED BY <1>3, <1>4, <1>5 DEF Accounts, both

LEMMA NotedGrow ==
    ASSUME NEW cs \in Seq(Calls), NEW c \in Calls
    PROVE  /\ Noted(Append(cs, c)) =
                Noted(cs) \cup (IF LeavesATrace(c) THEN {Len(cs) + 1} ELSE {})
           /\ \A role : ByRole(Append(cs, c), role) =
                ByRole(cs, role) \cup
                  (IF LeavesATrace(c) /\ c.role = role THEN {Len(cs) + 1} ELSE {})
           /\ \A steps : During(Append(cs, c), steps) =
                During(cs, steps) \cup
                  (IF LeavesATrace(c) /\ c.during \in steps THEN {Len(cs) + 1} ELSE {})
<1> DEFINE next == Append(cs, c)
           n == Len(cs) + 1
<1>1. /\ DOMAIN next = DOMAIN cs \cup {n} /\ n \notin DOMAIN cs
      /\ next[n] = c /\ \A i \in DOMAIN cs : next[i] = cs[i]
  BY Appended
<1> HIDE DEF next, n
<1>2. Noted(next) = Noted(cs) \cup (IF LeavesATrace(c) THEN {n} ELSE {})
  BY <1>1 DEF Noted
<1>3. \A i \in Noted(cs) : i \in DOMAIN cs
  BY DEF Noted
<1>4. ASSUME NEW role
      PROVE  ByRole(next, role) =
               ByRole(cs, role) \cup (IF LeavesATrace(c) /\ c.role = role THEN {n} ELSE {})
  BY <1>1, <1>2, <1>3 DEF ByRole
<1>5. ASSUME NEW steps
      PROVE  During(next, steps) =
               During(cs, steps) \cup (IF LeavesATrace(c) /\ c.during \in steps THEN {n} ELSE {})
  BY <1>1, <1>2, <1>3 DEF During
<1> QED BY <1>2, <1>4, <1>5 DEF next, n

\* Whether a list keeps the trace of a reply (Kept).
KeepsIt(list, reply) ==
    /\ list \in ListsAt(step)
    /\ list \in {"embedding", "decider"} => reply.got # "exception"
    /\ list \in {"ranking", "ranker"} => reply = Answer

LEMMA ListMoves ==
    ASSUME CellType, NEW role \in Roles, NEW reply \in Replies, Speaks(role, reply),
           NEW list \in Lists, NEW S \in SUBSET DOMAIN calls, Accounts(calls, kept[list], S)
    PROVE  /\ Accounts(calls', kept'[list],
                        S \cup (IF KeepsIt(list, reply) THEN {Len(calls) + 1} ELSE {}))
           /\ kept'[list] = IF KeepsIt(list, reply) THEN Append(kept[list], TraceOf(reply))
                            ELSE kept[list]
<1> DEFINE call == CallOf(role, reply)
           trace == TraceOf(reply)
<1>1. calls' = Append(calls, call) /\ call \in Calls /\ calls \in Seq(Calls)
  BY DEF Speaks, CellType
<1>2. call.reply = reply
  BY DEF CallOf
<1>3. trace \in Traces /\ trace.call = Len(calls) + 1 /\ trace.answered = (reply.got = "answer")
  BY DEF TraceOf, Traces, CellType
<1>4. kept'[list] = IF list \in ListsAt(step) THEN Kept(list, reply) ELSE kept[list]
  BY KeptOf DEF Speaks
<1>5. kept'[list] = IF KeepsIt(list, reply) THEN Append(kept[list], trace) ELSE kept[list]
  BY <1>4 DEF Kept, KeepsIt, Lists
<1>6. kept[list] \in Seq(Traces)
  BY DEF CellType
<1> HIDE DEF call, trace
<1>7. /\ Accounts(calls', kept[list], S)
      /\ Accounts(calls', Append(kept[list], trace), S \cup {Len(calls) + 1})
  BY <1>1, <1>2, <1>3, <1>6, AccountsGrow
<1>8. S \cup {} = S
  OBVIOUS
<1> QED BY <1>5, <1>7, <1>8 DEF trace

LEMMA BooksMove ==
    ASSUME CellType, Books(calls, kept), NEW role \in Roles, NEW reply \in Replies,
           Speaks(role, reply)
    PROVE  /\ Accounts(calls', kept'["embedding"], ByRole(calls', "embedding"))
           /\ step \notin Ranking \/ reply = Answer => Books(calls', kept')
<1> DEFINE call == CallOf(role, reply)
           n == Len(calls) + 1
<1>1. calls' = Append(calls, call) /\ call \in Calls /\ calls \in Seq(Calls)
  BY DEF Speaks, CellType
<1>2. call.role = role /\ call.reply = reply /\ call.during = step
  BY DEF CallOf
<1>3. step \in Talking /\ role = RoleAt(step)
  BY DEF Speaks
<1>4. Answer.got = "answer"
  BY DEF Answer
<1> HIDE DEF call
<1>5. /\ KeepsIt("embedding", reply) <=> LeavesATrace(call) /\ call.role = "embedding"
      /\ KeepsIt("decider", reply) <=> LeavesATrace(call) /\ call.role = "memory_decision"
      /\ step \notin Ranking \/ reply = Answer =>
           (KeepsIt("ranking", reply) <=> LeavesATrace(call) /\ call.during \in Ranking)
      /\ KeepsIt("ranker", reply) <=> LeavesATrace(call) /\ call.during \in {"compile rerank"}
  BY <1>2, <1>3, <1>4 DEF KeepsIt, LeavesATrace, Talking, RoleAt, ListsAt, Ranking, Compiling
<1>6. /\ "embedding" \in Lists /\ "decider" \in Lists /\ "ranking" \in Lists /\ "ranker" \in Lists
  BY DEF Lists
<1>7. /\ ByRole(calls, "embedding") \subseteq DOMAIN calls
      /\ ByRole(calls, "memory_decision") \subseteq DOMAIN calls
      /\ During(calls, Ranking) \subseteq DOMAIN calls
      /\ During(calls, {"compile rerank"}) \subseteq DOMAIN calls
  BY DEF ByRole, During, Noted
<1>8. /\ Accounts(calls', kept'["embedding"],
                   ByRole(calls, "embedding") \cup (IF KeepsIt("embedding", reply) THEN {n} ELSE {}))
      /\ Accounts(calls', kept'["decider"],
                   ByRole(calls, "memory_decision") \cup (IF KeepsIt("decider", reply) THEN {n} ELSE {}))
      /\ Accounts(calls', kept'["ranking"],
                   During(calls, Ranking) \cup (IF KeepsIt("ranking", reply) THEN {n} ELSE {}))
      /\ Accounts(calls', kept'["ranker"],
                   During(calls, {"compile rerank"}) \cup (IF KeepsIt("ranker", reply) THEN {n} ELSE {}))
  BY <1>6, <1>7, ListMoves DEF Books
<1>9. /\ ByRole(calls', "embedding") =
            ByRole(calls, "embedding") \cup
              (IF LeavesATrace(call) /\ call.role = "embedding" THEN {n} ELSE {})
      /\ ByRole(calls', "memory_decision") =
            ByRole(calls, "memory_decision") \cup
              (IF LeavesATrace(call) /\ call.role = "memory_decision" THEN {n} ELSE {})
      /\ During(calls', Ranking) =
            During(calls, Ranking) \cup
              (IF LeavesATrace(call) /\ call.during \in Ranking THEN {n} ELSE {})
      /\ During(calls', {"compile rerank"}) =
            During(calls, {"compile rerank"}) \cup
              (IF LeavesATrace(call) /\ call.during \in {"compile rerank"} THEN {n} ELSE {})
  <2>1. /\ \A r : ByRole(Append(calls, call), r) =
              ByRole(calls, r) \cup (IF LeavesATrace(call) /\ call.role = r THEN {n} ELSE {})
        /\ \A t : During(Append(calls, call), t) =
              During(calls, t) \cup (IF LeavesATrace(call) /\ call.during \in t THEN {n} ELSE {})
    BY <1>1, NotedGrow
  <2> HIDE DEF n
  <2>2. /\ \A r : ByRole(calls', r) =
              ByRole(calls, r) \cup (IF LeavesATrace(call) /\ call.role = r THEN {n} ELSE {})
        /\ \A t : During(calls', t) =
              During(calls, t) \cup (IF LeavesATrace(call) /\ call.during \in t THEN {n} ELSE {})
    BY <1>1, <2>1
  <2> QED BY <2>2, Zenon
<1> HIDE DEF n
<1> QED BY <1>5, <1>8, <1>9 DEF Books

LEMMA SourcesMove ==
    ASSUME CellType, Phases, Sourced(calls), NEW role \in Roles, NEW reply \in Replies,
           Speaks(role, reply), UNCHANGED input
    PROVE  Sourced(calls)'
<1> DEFINE call == CallOf(role, reply)
<1>1. call.role = role /\ call.during = step
  BY DEF CallOf
<1>2. step \in Talking /\ role = RoleAt(step)
  BY DEF Speaks
<1> HIDE DEF call
<1>3. /\ DOMAIN calls = 1..Len(calls) /\ DOMAIN calls' = 1..(Len(calls) + 1)
      /\ Len(calls) \in Nat /\ calls'[Len(calls) + 1] = call
      /\ \A i \in 1..Len(calls) : calls'[i] = calls[i]
  BY CallsMove DEF call
<1>4. ASSUME NEW i \in DOMAIN calls'
      PROVE  /\ calls'[i].during \in Talking /\ calls'[i].role = RoleAt(calls'[i].during)
             /\ calls'[i].during \in Ranking => input.variant \in Selectors
             /\ calls'[i].during \in Observing => input.variant \in Remembering
             /\ calls'[i].during \in Compiling => input.variant = "recallpack"
  <2>1. CASE i = Len(calls) + 1
    BY <1>1, <1>2, <1>3, <2>1 DEF Phases
  <2>2. CASE i # Len(calls) + 1
    <3>1. i \in DOMAIN calls /\ calls'[i] = calls[i]
      BY <1>3, <2>2
    <3> QED BY <3>1 DEF Sourced
  <2> QED BY <2>1, <2>2
<1> QED BY <1>4 DEF Sourced

LEMMA RankingMoves ==
    ASSUME CellType, RanksFirst(calls), Counted, NEW role \in Roles, NEW reply \in Replies,
           Speaks(role, reply)
    PROVE  RanksFirst(calls')
<1> DEFINE call == CallOf(role, reply)
<1>1. call.during = step
  BY DEF CallOf
<1> HIDE DEF call
<1>2. /\ DOMAIN calls = 1..Len(calls) /\ DOMAIN calls' = 1..(Len(calls) + 1)
      /\ Len(calls) \in Nat /\ calls'[Len(calls) + 1] = call
      /\ \A i \in 1..Len(calls) : calls'[i] = calls[i]
  BY CallsMove DEF call
<1>3. ASSUME NEW i \in DOMAIN calls', NEW j \in DOMAIN calls',
             calls'[i].during \in Ranking, calls'[j].during \notin Ranking
      PROVE  i < j
  <2>1. CASE i = Len(calls) + 1
    <3>1. step \in Ranking /\ j \in DOMAIN calls /\ calls'[j] = calls[j]
      BY <1>1, <1>2, <1>3, <2>1
    <3> QED BY <1>3, <3>1 DEF Counted, Before
  <2>2. CASE i # Len(calls) + 1 /\ j = Len(calls) + 1
    BY <1>2, <2>2
  <2>3. CASE i # Len(calls) + 1 /\ j # Len(calls) + 1
    <3>1. i \in DOMAIN calls /\ calls'[i] = calls[i] /\ j \in DOMAIN calls /\ calls'[j] = calls[j]
      BY <1>2, <2>3
    <3> QED BY <1>3, <3>1 DEF RanksFirst
  <2> QED BY <2>1, <2>2, <2>3
<1> QED BY <1>3 DEF RanksFirst

\* What becomes of the list of embeddings.
LEMMA EmbeddingsMove ==
    ASSUME CellType, Books(calls, kept), NEW role \in Roles, NEW reply \in Replies,
           Speaks(role, reply)
    PROVE  /\ \/ kept'["embedding"] = kept["embedding"]
              \/ /\ kept'["embedding"] = Append(kept["embedding"], TraceOf(reply))
                 /\ step \in {"embed goal", "embed events", "retrieve", "embed memory", "compile"}
           /\ step \in {"embed goal", "embed events"} /\ reply = Answer =>
                kept'["embedding"] = Append(kept["embedding"], TraceOf(reply))
<1>1. "embedding" \in Lists /\ ByRole(calls, "embedding") \subseteq DOMAIN calls
  BY DEF Lists, ByRole, Noted
<1>2. kept'["embedding"] = IF KeepsIt("embedding", reply)
                           THEN Append(kept["embedding"], TraceOf(reply)) ELSE kept["embedding"]
  BY <1>1, ListMoves DEF Books
<1>3. step \in Talking
  BY DEF Speaks
<1>4. KeepsIt("embedding", reply) =>
        step \in {"embed goal", "embed events", "retrieve", "embed memory", "compile"}
  BY <1>3 DEF KeepsIt, ListsAt, Talking, Ranking, Compiling
<1>5. step \in {"embed goal", "embed events"} /\ reply = Answer => KeepsIt("embedding", reply)
  <2>1. "embedding" \in ListsAt("embed goal") /\ "embedding" \in ListsAt("embed events")
    BY DEF ListsAt
  <2>2. Answer.got # "exception"
    BY DEF Answer
  <2> QED BY <2>1, <2>2 DEF KeepsIt
<1> QED BY <1>2, <1>4, <1>5

LEMMA SplitsMove ==
    ASSUME CellType, Phases, Ledger(calls, kept), Counted,
           NEW role \in Roles, NEW reply \in Replies, Speaks(role, reply), UNCHANGED input
    PROVE  Splits(calls, kept)'
<1> DEFINE list == kept["embedding"]
           call == CallOf(role, reply)
           R == RankingEmbeddings
<1>1. call.during = step
  BY DEF CallOf
<1>2. /\ list \in Seq(Traces) /\ Len(list) \in Nat /\ DOMAIN list = 1..Len(list)
      /\ \A j \in DOMAIN list : list[j].call \in DOMAIN calls
  <2>1. "embedding" \in Lists
    BY DEF Lists
  <2>2. \A j \in DOMAIN list : list[j].call \in DOMAIN calls
    BY DEF Ledger, Books, Accounts, ByRole, Noted
  <2> QED BY <2>1, <2>2 DEF CellType
<1> HIDE DEF call
<1>3. /\ DOMAIN calls = 1..Len(calls) /\ Len(calls) \in Nat
      /\ calls'[Len(calls) + 1] = call /\ \A i \in 1..Len(calls) : calls'[i] = calls[i]
  BY CallsMove DEF call
<1>4. R \in Nat /\ R' = R
  BY EventsAreNumbered DEF RankingEmbeddings, CellType
<1> SUFFICES ASSUME input.variant \in Selectors, NEW j \in DOMAIN kept'["embedding"]
             PROVE  j <= R <=> calls'[kept'["embedding"][j].call].during \in Ranking
  BY <1>4 DEF Splits
<1>5. ASSUME NEW i \in DOMAIN list
      PROVE  i <= R <=> calls'[list[i].call].during \in Ranking
  <2>1. calls'[list[i].call] = calls[list[i].call]
    BY <1>2, <1>3
  <2> QED BY <2>1 DEF Ledger, Splits
<1>6. CASE kept'["embedding"] = list
  BY <1>5, <1>6
<1>7. CASE /\ kept'["embedding"] = Append(list, TraceOf(reply))
           /\ step \in {"embed goal", "embed events", "retrieve", "embed memory", "compile"}
  <2>1. TraceOf(reply) \in Traces /\ TraceOf(reply).call = Len(calls) + 1
    BY <1>3 DEF TraceOf, Traces
  <2>2. /\ DOMAIN kept'["embedding"] = 1..(Len(list) + 1)
        /\ kept'["embedding"][Len(list) + 1] = TraceOf(reply)
        /\ \A i \in 1..Len(list) : kept'["embedding"][i] = list[i]
    <3> HIDE DEF list
    <3>1. /\ DOMAIN Append(list, TraceOf(reply)) = 1..(Len(list) + 1)
          /\ Append(list, TraceOf(reply))[Len(list) + 1] = TraceOf(reply)
          /\ \A i \in 1..Len(list) : Append(list, TraceOf(reply))[i] = list[i]
      BY <1>2, <2>1, Appended
    <3> QED BY <1>7, <3>1
  <2>3. CASE j # Len(list) + 1
    <3>1. j \in DOMAIN list /\ kept'["embedding"][j] = list[j]
      BY <1>2, <2>2, <2>3
    <3> QED BY <1>5, <3>1
  <2>4. CASE j = Len(list) + 1
    <3>1. calls'[kept'["embedding"][j].call].during = step
      BY <1>1, <1>3, <2>1, <2>2, <2>4
    <3>2. CASE step \in {"embed goal", "embed events"}
      <4>1. Len(list) <= Len(input.events) /\ Len(input.events) \in Nat
        <5>1. Len(input.events) \in Nat
          BY EventsAreNumbered DEF CellType
        <5>2. CASE step = "embed goal"
          <6>1. Len(list) = 0
            BY <5>2 DEF Counted
          <6> QED BY ONLY <5>1, <6>1
        <5>3. CASE step = "embed events"
          BY <1>2, <5>1, <5>3 DEF Counted
        <5> QED BY <3>2, <5>1, <5>2, <5>3
      <4>2. j <= R
        BY <1>2, <2>4, <4>1 DEF RankingEmbeddings
      <4>3. step \in Ranking
        BY <3>2 DEF Ranking
      <4> QED BY <3>1, <4>2, <4>3
    <3>3. CASE step \in {"retrieve", "embed memory", "compile"}
      <4>1. step # "compile"
        BY DEF Phases, Compiling, Selectors
      <4>2. Len(list) >= R
        BY <3>3, <4>1 DEF Counted, Ranked, Observing
      <4>3. ~(j <= R)
        BY <1>2, <1>4, <2>4, <4>2
      <4>4. step \notin Ranking
        BY <3>3 DEF Ranking
      <4> QED BY <3>1, <4>3, <4>4
    <3> QED BY <1>7, <3>2, <3>3
  <2> QED BY <2>3, <2>4
<1> QED BY <1>6, <1>7, EmbeddingsMove DEF Ledger

LEMMA LedgerMoves ==
    ASSUME CellType, Phases, Ledger(calls, kept), Counted,
           NEW role \in Roles, NEW reply \in Replies, Speaks(role, reply), UNCHANGED input,
           kept' \in [Lists -> Seq(Traces)], step \notin Ranking \/ reply = Answer
    PROVE  Ledger(calls, kept)'
<1>1. calls' \in Seq(Calls)
  BY Appended DEF Speaks, CellType
<1>2. Books(calls', kept') /\ RanksFirst(calls')
  BY BooksMove, RankingMoves DEF Ledger
<1> QED BY <1>1, <1>2, SourcesMove, SplitsMove DEF Ledger

LEMMA CountsMove ==
    ASSUME CellType, Phases, Ledger(calls, kept), Counted, Move, step' # "over"
    PROVE  Counted'
<1>1. Turns /\ Embeds /\ Events' = Events /\ UNCHANGED input
  BY DEF Move, Events
<1>2. Len(input.events) \in Nat /\ Events = 1..Len(input.events) /\ at \in Nat /\ at' \in Nat
      /\ Len(kept["embedding"]) \in Nat /\ RankingEmbeddings' = RankingEmbeddings
  <2>1. kept["embedding"] \in Seq(Traces)
    BY DEF CellType, Lists
  <2> QED BY <1>1, <2>1, EventsAreNumbered DEF CellType, Move, RankingEmbeddings
<1>3. CASE Silent
  <2>1. /\ UNCHANGED <<calls, kept>> /\ step \notin Ranking
    BY <1>3 DEF Silent
  <2>2. /\ step' \in Before => step = "begin"
        /\ step' \notin {"embed events", "rerank"}
        /\ step' \in {"begin", "embed goal"} => step = "begin"
        /\ step' \in Ranked /\ input.variant \in Selectors => step \in Ranked
    BY <1>1, <2>1 DEF Turns, Embeds, Before, Ranking
  <2>3. /\ step' \in Before => \A i \in DOMAIN calls' : calls'[i].during \in Ranking
        /\ step' \in Before \ {"rerank"} => \A i \in DOMAIN calls' : calls'[i].during # "rerank"
    BY <2>1, <2>2 DEF Counted, Before
  <2> QED BY <1>1, <1>2, <2>1, <2>2, <2>3 DEF Counted
<1>4. ASSUME NEW role \in Roles, NEW reply \in Replies, Speaks(role, reply)
      PROVE  Counted'
  <2> DEFINE list == kept["embedding"]
             call == CallOf(role, reply)
  <2>1. call.during = step
    BY DEF CallOf
  <2> HIDE DEF call
  <2>2. /\ DOMAIN calls = 1..Len(calls) /\ DOMAIN calls' = 1..(Len(calls) + 1)
        /\ Len(calls) \in Nat /\ calls'[Len(calls) + 1] = call
        /\ \A i \in 1..Len(calls) : calls'[i] = calls[i]
    BY <1>4, CallsMove DEF call
  <2>3. ASSUME NEW i \in DOMAIN calls'
        PROVE  \/ calls'[i].during = step
               \/ i \in DOMAIN calls /\ calls'[i].during = calls[i].during
    BY <2>1, <2>2
  <2>4. step \in Talking
    BY <1>4 DEF Speaks
  <2>5. step' \in Before => \A i \in DOMAIN calls' : calls'[i].during \in Ranking
    <3>1. step' \in Before => step \in Ranking /\ step \in Before
      BY <1>1, <2>4 DEF Turns, Before, Talking, Ranking, Compiling
    <3> QED BY <2>3, <3>1 DEF Counted
  <2>6. step' \in Before \ {"rerank"} => \A i \in DOMAIN calls' : calls'[i].during # "rerank"
    <3>1. step' \in Before \ {"rerank"} => step \in Before \ {"rerank"}
      BY <1>1, <2>4 DEF Embeds, Before, Talking, Ranking, Compiling
    <3> QED BY <2>3, <3>1 DEF Counted
  <2>7. TraceOf(reply) \in Traces /\ list \in Seq(Traces)
    BY <2>2 DEF TraceOf, Traces, CellType, Lists
  <2>8. Len(Append(list, TraceOf(reply))) = Len(list) + 1 /\ Len(list) \in Nat
    BY <2>7, Appended
  <2>9. /\ Len(kept'["embedding"]) >= Len(list)
        /\ step \in {"embed goal", "embed events"} => Len(kept'["embedding"]) = Len(list) + 1
    <3>1. step \in {"embed goal", "embed events"} => reply = Answer
      BY <1>4 DEF Speaks
    <3>2. kept'["embedding"] = list \/ kept'["embedding"] = Append(list, TraceOf(reply))
      BY <1>4, EmbeddingsMove DEF Ledger
    <3>3. step \in {"embed goal", "embed events"} => kept'["embedding"] = Append(list, TraceOf(reply))
      BY <1>4, <3>1, EmbeddingsMove DEF Ledger
    <3> HIDE DEF list
    <3>4. step \in {"embed goal", "embed events"} => Len(kept'["embedding"]) = Len(list) + 1
      BY <2>8, <3>3
    <3>5. Len(kept'["embedding"]) = Len(list) \/ Len(kept'["embedding"]) = Len(list) + 1
      BY <2>8, <3>2
    <3>6. Len(list) >= Len(list) /\ Len(list) + 1 >= Len(list)
      BY <2>8
    <3> QED BY <3>4, <3>5, <3>6
  <2>10. ASSUME input.variant \in Selectors
         PROVE  /\ step' \in {"begin", "embed goal"} => Len(kept'["embedding"]) = 0
                /\ step' = "embed events" =>
                     Len(kept'["embedding"]) = at' /\ at' <= Len(input.events)
                /\ step' \in Ranked \cup {"rerank"} => Len(kept'["embedding"]) >= RankingEmbeddings
    <3>1. step' \notin {"begin", "embed goal"}
      BY <1>1, <2>4 DEF Embeds, Talking, Ranking, Compiling
    <3>2. CASE step' = "embed events" /\ step = "embed goal"
      <4>1. Len(list) = 0 /\ at' = 1 /\ Events # {}
        BY <1>1, <2>10, <3>2 DEF Counted, Embeds, Phases, Ranking
      <4>2. 1 <= Len(input.events)
        BY <1>2, <4>1
      <4>3. Len(kept'["embedding"]) = 1
        <5>1. Len(kept'["embedding"]) = 0 + 1
          BY <2>9, <3>2, <4>1
        <5> QED BY <5>1
      <4>4. at' <= Len(input.events)
        BY <4>1, <4>2
      <4> QED BY <3>2, <4>1, <4>3, <4>4 DEF Ranked, Observing
    <3>3. CASE step' = "embed events" /\ step # "embed goal"
      <4>1. /\ step = "embed events" /\ at' = at + 1 /\ at # Len(input.events)
        BY <1>1, <3>3 DEF Embeds
      <4>2. Len(list) = at /\ at <= Len(input.events)
        BY <2>10, <4>1 DEF Counted
      <4>3. at' <= Len(input.events) /\ Len(list) + 1 = at'
        <5>1. Len(input.events) \in Nat /\ at \in Nat /\ at' = at + 1 /\ at # Len(input.events)
              /\ Len(list) = at /\ at <= Len(input.events)
          BY <1>2, <4>1, <4>2
        <5> QED BY ONLY <5>1
      <4> QED BY <2>9, <3>3, <4>1, <4>3 DEF Ranked, Observing
    <3>4. CASE step' = "rerank"
      <4>1. step = "embed events" /\ at = Len(input.events) /\ Len(list) = at
        BY <1>1, <2>10, <3>4 DEF Embeds, Counted
      <4>2. Len(kept'["embedding"]) = Len(input.events) + 1
        BY <2>9, <4>1
      <4>3. Len(kept'["embedding"]) >= RankingEmbeddings
        BY <1>2, <4>2 DEF RankingEmbeddings
      <4> QED BY <3>4, <4>3
    <3>5. CASE step' \in Ranked
      <4>1. step \in Ranked \cup {"rerank"}
        BY <1>1, <2>10, <3>5 DEF Embeds
      <4>2. Len(list) >= RankingEmbeddings
        BY <2>10, <4>1 DEF Counted
      <4>3. RankingEmbeddings \in Nat /\ Len(kept'["embedding"]) \in Nat
        <5>1. kept'["embedding"] \in Seq(Traces)
          BY DEF Move, Lists
        <5> QED BY <1>2, <5>1 DEF RankingEmbeddings
      <4>4. Len(kept'["embedding"]) >= RankingEmbeddings
        <5> DEFINE after == Len(kept'["embedding"])
        <5>1. after \in Nat /\ Len(list) \in Nat /\ RankingEmbeddings \in Nat
              /\ after >= Len(list) /\ Len(list) >= RankingEmbeddings
          BY <2>8, <2>9, <4>2, <4>3
        <5> HIDE DEF list, after
        <5>2. after >= RankingEmbeddings
          BY ONLY <5>1
        <5> QED BY <5>2 DEF after
      <4> QED BY <3>1, <3>5, <4>4 DEF Ranked, Observing
    <3> QED BY <3>1, <3>2, <3>3, <3>4, <3>5
  <2> QED BY <1>1, <1>2, <2>5, <2>6, <2>10 DEF Counted
<1> QED BY <1>3, <1>4 DEF Move

\* With no patch yet, what a selection keeps accounts for every call.
LEMMA TracesAccount ==
    ASSUME NEW cs, NEW k, Ledger(cs, k), RankingEmbeddings \in Nat,
           \A i \in DOMAIN cs : cs[i].role # "patch_generation"
    PROVE  Accounts(cs, TracesOf(k), Noted(cs)) /\ TracesOf(k) \in Seq(Traces)
<1> DEFINE E == ByRole(cs, "embedding")
           D == ByRole(cs, "memory_decision")
           R == During(cs, Ranking)
           C == During(cs, {"compile rerank"})
<1>1. /\ k["embedding"] \in Seq(Traces) /\ k["decider"] \in Seq(Traces)
      /\ k["ranking"] \in Seq(Traces) /\ k["ranker"] \in Seq(Traces)
  BY DEF Ledger, Lists
<1>2. /\ Accounts(cs, k["embedding"], E) /\ Accounts(cs, k["decider"], D)
      /\ Accounts(cs, k["ranking"], R) /\ Accounts(cs, k["ranker"], C)
  BY DEF Ledger, Books
<1>3. /\ DOMAIN cs \subseteq Nat /\ Noted(cs) \subseteq DOMAIN cs
      /\ E \subseteq Noted(cs) /\ D \subseteq Noted(cs) /\ R \subseteq Noted(cs) /\ C \subseteq Noted(cs)
  <2>1. DOMAIN cs \subseteq Nat
    BY DEF Ledger
  <2>2. Noted(cs) \subseteq DOMAIN cs
    BY DEF Noted
  <2> QED BY <2>1, <2>2 DEF ByRole, During
<1>4. ASSUME NEW i \in Noted(cs)
      PROVE  /\ cs[i].during \in Talking \ {"generate"} /\ cs[i].role = RoleAt(cs[i].during)
             /\ i \in E <=> cs[i].role = "embedding"
             /\ i \in D <=> cs[i].role = "memory_decision"
             /\ i \in R <=> cs[i].during \in Ranking
             /\ i \in C <=> cs[i].during = "compile rerank"
             /\ cs[i].during \in Ranking => input.variant \in Selectors
             /\ cs[i].during \in Observing => input.variant \in Remembering
             /\ cs[i].during \in Compiling => input.variant = "recallpack"
  <2>1. /\ cs[i].during \in Talking /\ cs[i].role = RoleAt(cs[i].during)
        /\ cs[i].during \in Ranking => input.variant \in Selectors
        /\ cs[i].during \in Observing => input.variant \in Remembering
        /\ cs[i].during \in Compiling => input.variant = "recallpack"
    BY <1>3 DEF Ledger, Sourced
  <2>2. cs[i].role # "patch_generation"
    BY <1>3
  <2>3. cs[i].during # "generate"
    BY <2>1, <2>2 DEF RoleAt
  <2> QED BY <2>1, <2>3 DEF ByRole, During
<1> HIDE DEF E, D, R, C
<1>5. CASE input.variant = "recallpack"
  <2>1. Accounts(cs, k["decider"] \o k["embedding"], D \cup E)
    <3>1. \A i \in D, j \in E : cs[i].role # cs[j].role
      BY <1>3, <1>4
    <3> QED BY <1>1, <1>2, <1>3, <3>1, AccountsJoin
  <2>2. Accounts(cs, (k["decider"] \o k["embedding"]) \o k["ranker"], (D \cup E) \cup C)
    <3>1. \A i \in D \cup E, j \in C : cs[i].role # cs[j].role
      BY <1>3, <1>4 DEF RoleAt
    <3>2. k["decider"] \o k["embedding"] \in Seq(Traces)
      BY <1>1
    <3>3. D \cup E \subseteq Nat /\ C \subseteq Nat
      BY <1>3
    <3> QED BY <1>1, <1>2, <2>1, <3>1, <3>2, <3>3, AccountsJoin
  <2>3. (D \cup E) \cup C = Noted(cs)
    <3>1. ASSUME NEW i \in Noted(cs) PROVE i \in D \cup E \cup C
      <4>1. cs[i].during \notin Ranking
        BY <1>4, <1>5 DEF Selectors
      <4> QED BY <1>4, <4>1 DEF RoleAt, Talking, Ranking
    <3> QED BY <1>3, <3>1
  <2>4. TracesOf(k) = (k["decider"] \o k["embedding"]) \o k["ranker"]
    BY <1>5 DEF TracesOf
  <2>5. (k["decider"] \o k["embedding"]) \o k["ranker"] \in Seq(Traces)
    BY <1>1
  <2> QED BY <2>2, <2>3, <2>4, <2>5, Zenon
<1>6. CASE input.variant = "recall_time_resolver"
  <2> DEFINE first == RankingEmbeddings
             later == SubSeq(k["embedding"], first + 1, Len(k["embedding"]))
             L == {i \in E : cs[i].during \notin Ranking}
  <2>1. later \in Seq(Traces) /\ Accounts(cs, later, L)
    <3> DEFINE list == k["embedding"]
    <3>1. Len(list) \in Nat /\ DOMAIN list = 1..Len(list) /\ first \in Nat
      BY <1>1
    <3>2. /\ later \in Seq(Traces)
          /\ \A j \in DOMAIN later : first + j \in DOMAIN list /\ later[j] = list[first + j] /\ j \in Nat /\ j >= 1
          /\ \A j \in DOMAIN list : j > first => j - first \in DOMAIN later /\ later[j - first] = list[j]
      <4> HIDE DEF list, first
      <4>1. SubSeq(list, first + 1, Len(list)) =
              [i \in 1..(Len(list) - first) |-> list[first + i]]
        BY <1>1, <3>1 DEF list
      <4>2. list \in Seq(Traces)
        BY <1>1 DEF list
      <4>3. later = [i \in 1..(Len(list) - first) |-> list[first + i]]
        BY <4>1 DEF list
      <4> HIDE DEF later
      <4>4. later \in Seq(Traces)
        BY <3>1, <4>2, <4>3
      <4>5. ASSUME NEW j \in DOMAIN later
            PROVE  first + j \in DOMAIN list /\ later[j] = list[first + j] /\ j \in Nat /\ j >= 1
        BY <3>1, <4>3
      <4>6. ASSUME NEW j \in DOMAIN list, j > first
            PROVE  j - first \in DOMAIN later /\ later[j - first] = list[j]
        <5>1. j - first \in 1..(Len(list) - first) /\ first + (j - first) = j
          BY <3>1, <4>6
        <5> QED BY <4>3, <5>1
      <4> QED BY <4>4, <4>5, <4>6
    <3>3. \A j \in DOMAIN list : j <= first <=> cs[list[j].call].during \in Ranking
      BY <1>6 DEF Ledger, Splits, Selectors
    <3> HIDE DEF list, later, first
    <3>4. /\ \A j \in DOMAIN list : list[j].call \in E
          /\ \A j \in DOMAIN list : list[j].answered = (cs[list[j].call].reply.got = "answer")
          /\ \A i \in E : \E j \in DOMAIN list : list[j].call = i
          /\ \A i, j \in DOMAIN list :
               i < j /\ cs[list[i].call].role = cs[list[j].call].role => list[i].call < list[j].call
      BY <1>2 DEF Accounts, list
    <3>5. ASSUME NEW j \in DOMAIN later
          PROVE  later[j].call \in L /\ later[j].answered = (cs[later[j].call].reply.got = "answer")
      <4>1. ~(first + j <= first)
        BY <3>1, <3>2
      <4> QED BY <3>2, <3>3, <3>4, <4>1
    <3>6. ASSUME NEW i \in L PROVE \E j \in DOMAIN later : later[j].call = i
      <4>1. PICK j \in DOMAIN list : list[j].call = i
        BY <3>4
      <4>2. j > first
        BY <3>1, <3>3, <4>1
      <4> QED BY <3>2, <4>1, <4>2
    <3>7. ASSUME NEW i \in DOMAIN later, NEW j \in DOMAIN later, i < j,
                 cs[later[i].call].role = cs[later[j].call].role
          PROVE  later[i].call < later[j].call
      <4>1. first + i < first + j
        BY <3>1, <3>2, <3>7
      <4> QED BY <3>2, <3>4, <3>7, <4>1
    <3> QED BY <3>2, <3>5, <3>6, <3>7 DEF Accounts
  <2>2. Accounts(cs, k["ranking"] \o k["decider"], R \cup D)
    <3>1. \A i \in R, j \in D : cs[i].role # cs[j].role
      BY <1>3, <1>4 DEF RoleAt, Ranking
    <3> QED BY <1>1, <1>2, <1>3, <3>1, AccountsJoin
  <2>3. Accounts(cs, (k["ranking"] \o k["decider"]) \o later, (R \cup D) \cup L)
    <3>1. ASSUME NEW i \in R \cup D, NEW j \in L, cs[i].role = cs[j].role PROVE i < j
      <4>1. i \in Noted(cs) /\ j \in Noted(cs) /\ cs[j].role = "embedding" /\ cs[j].during \notin Ranking
        BY <1>3, <1>4
      <4>2. cs[i].during \in Ranking
        BY <1>4, <3>1, <4>1
      <4> QED BY <1>3, <4>1, <4>2 DEF Ledger, RanksFirst
    <3>2. k["ranking"] \o k["decider"] \in Seq(Traces)
      BY <1>1
    <3>3. R \cup D \subseteq Nat /\ L \subseteq Nat
      BY <1>3
    <3> HIDE DEF later, L
    <3> QED BY <2>1, <2>2, <3>1, <3>2, <3>3, AccountsJoin
  <2>4. (R \cup D) \cup L = Noted(cs)
    <3>1. ASSUME NEW i \in Noted(cs) PROVE i \in R \cup D \cup L
      <4>1. cs[i].during \notin Compiling
        BY <1>4, <1>6
      <4> QED BY <1>4, <4>1 DEF RoleAt, Talking, Compiling, Ranking
    <3> QED BY <1>3, <3>1
  <2>5. TracesOf(k) = (k["ranking"] \o k["decider"]) \o later
    BY <1>6 DEF TracesOf
  <2> HIDE DEF later, L
  <2>6. (k["ranking"] \o k["decider"]) \o later \in Seq(Traces)
    BY <1>1, <2>1
  <2> QED BY <2>3, <2>4, <2>5, <2>6, Zenon
<1>7. CASE input.variant \notin Remembering
  <2>1. R = Noted(cs)
    <3>1. ASSUME NEW i \in Noted(cs) PROVE i \in R
      <4>1. cs[i].during \notin Observing /\ cs[i].during \notin Compiling
        BY <1>4, <1>7 DEF Remembering
      <4> QED BY <1>4, <4>1 DEF Talking, Compiling, Ranking, Observing
    <3> QED BY <1>3, <3>1
  <2>2. TracesOf(k) = k["ranking"]
    BY <1>7 DEF TracesOf, Remembering
  <2> QED BY <1>1, <1>2, <2>1, <2>2
<1> QED BY <1>5, <1>6, <1>7 DEF Remembering

LEMMA Accounted ==
    ASSUME NEW cs \in Seq(Calls), NEW list \in Seq(Traces), Accounts(cs, list, Noted(cs))
    PROVE  /\ \A i \in DOMAIN cs : LeavesATrace(cs[i]) =>
                Cardinality({j \in DOMAIN list : list[j].call = i}) = 1
           /\ \A j \in DOMAIN list :
                /\ list[j].call \in DOMAIN cs /\ LeavesATrace(cs[list[j].call])
                /\ list[j].answered = (cs[list[j].call].reply.got = "answer")
           /\ \A j, k \in DOMAIN list :
                j < k /\ cs[list[j].call].role = cs[list[k].call].role => list[j].call < list[k].call
<1>1. /\ \A j \in DOMAIN list : list[j].call \in Noted(cs)
      /\ \A j \in DOMAIN list : list[j].answered = (cs[list[j].call].reply.got = "answer")
      /\ \A i \in Noted(cs) : \E j \in DOMAIN list : list[j].call = i
      /\ \A j, k \in DOMAIN list :
           j < k /\ cs[list[j].call].role = cs[list[k].call].role => list[j].call < list[k].call
  BY DEF Accounts
<1>2. DOMAIN cs \subseteq Nat /\ DOMAIN list \subseteq Nat
  OBVIOUS
<1>3. ASSUME NEW i \in DOMAIN cs, LeavesATrace(cs[i])
      PROVE  Cardinality({j \in DOMAIN list : list[j].call = i}) = 1
  <2>1. PICK j \in DOMAIN list : list[j].call = i
    BY <1>1, <1>3 DEF Noted
  <2>2. ASSUME NEW k \in DOMAIN list, list[k].call = i PROVE k = j
    <3>1. ~(j < k) /\ ~(k < j)
      <4>1. i \in Nat /\ ~(i < i)
        BY <1>2
      <4> QED BY <1>1, <2>1, <2>2, <4>1
    <3> QED BY <1>2, <3>1
  <2>3. {k \in DOMAIN list : list[k].call = i} = {j}
    BY <2>1, <2>2
  <2> QED BY <2>3, FS_Singleton
<1> QED BY <1>1, <1>3 DEF Noted

LEMMA TracedMoves ==
    ASSUME CallInv, Ledger(calls, kept), Counted, Move
    PROVE  CallsAreTraced'
<1>1. CellType /\ Phases /\ UNCHANGED input /\ step # "over"
  BY DEF CallInv, Move
<1>2. RankingEmbeddings \in Nat /\ RankingEmbeddings' = RankingEmbeddings
  BY <1>1, EventsAreNumbered DEF CellType, RankingEmbeddings
<1>3. ASSUME NEW cs \in Seq(Calls), NEW list \in Seq(Traces), Accounts(cs, list, Noted(cs)),
             calls' = cs, outcome'.traces = list
      PROVE  CallsAreTraced'
  BY <1>3, Accounted, Zenon DEF CallsAreTraced
<1>4. CASE outcome' \in {Running, Raised}
  BY <1>4 DEF CallsAreTraced, HasResult, Running, Raised
<1>5. step' # "over" => outcome' = Running
  BY DEF Move, Phases
<1>6. \A i \in DOMAIN calls : calls[i].role # "patch_generation"
  <2>1. calls \in Seq(Calls)
    BY <1>1 DEF CellType
  <2>2. ASSUME NEW i \in DOMAIN calls PROVE calls[i].role # "patch_generation"
    <3>1. i \in 1..(Len(calls) - 1) \/ i = Len(calls)
      BY <2>1
    <3>2. calls # <<>>
      BY <2>1
    <3> QED BY <1>1, <3>1, <3>2 DEF CallInv, Chained, Calling, LastCall
  <2> QED BY <2>2
<1>7. CASE Silent
  <2>1. Accounts(calls, TracesOf(kept), Noted(calls)) /\ TracesOf(kept) \in Seq(Traces)
    BY <1>2, <1>6, TracesAccount
  <2>2. CASE step' = "over" /\ outcome'.traces = TracesOf(kept)
    BY <1>1, <1>3, <1>7, <2>1, <2>2 DEF Silent, CellType
  <2> QED BY <1>4, <1>5, <1>7, <2>2 DEF Silent, Result
<1>8. ASSUME NEW role \in Roles, NEW reply \in Replies, Speaks(role, reply)
      PROVE  CallsAreTraced'
  <2> DEFINE call == CallOf(role, reply)
             n == Len(calls) + 1
  <2>1. call.during = step /\ call.role = role /\ call.reply = reply
    BY DEF CallOf
  <2> HIDE DEF call
  <2>2. calls' = Append(calls, call) /\ call \in Calls /\ calls \in Seq(Calls) /\ calls' \in Seq(Calls)
    BY <1>1, <1>8, Appended DEF Speaks, CellType, call
  <2>3. /\ DOMAIN calls = 1..Len(calls) /\ DOMAIN calls' = 1..n
        /\ Len(calls) \in Nat /\ calls'[n] = call
        /\ \A i \in 1..Len(calls) : calls'[i] = calls[i]
    BY <1>1, <1>8, CallsMove DEF call
  <2>4. Noted(calls') = Noted(calls) \cup (IF LeavesATrace(call) THEN {n} ELSE {})
    <3>1. Noted(Append(calls, call)) = Noted(calls) \cup (IF LeavesATrace(call) THEN {n} ELSE {})
      BY <2>2, NotedGrow
    <3> HIDE DEF n
    <3> QED BY <2>2, <3>1
  <2>5. /\ TraceOf(reply) \in Traces /\ TraceOf(reply).call = n
        /\ TraceOf(reply).answered = (call.reply.got = "answer")
    BY <2>1, <2>3 DEF TraceOf, Traces
  <2>6. step \in Talking /\ role = RoleAt(step)
    BY <1>8 DEF Speaks
  <2>7. ASSUME NEW list \in Seq(Traces), NEW S \in SUBSET DOMAIN calls, Accounts(calls, list, S)
        PROVE  Append(list, TraceOf(reply)) \in Seq(Traces)
               /\ Accounts(calls', Append(list, TraceOf(reply)), S \cup {n})
    <3> DEFINE trace == TraceOf(reply)
    <3> HIDE DEF trace
    <3>1. Accounts(Append(calls, call), Append(list, trace), S \cup {n})
      BY <2>2, <2>5, <2>7, AccountsGrow DEF trace
    <3>2. Append(list, trace) \in Seq(Traces)
      BY <2>5, Appended DEF trace
    <3> HIDE DEF n
    <3> QED BY <2>2, <3>1, <3>2 DEF trace
  <2>8. Noted(calls) \subseteq DOMAIN calls
    BY DEF Noted
  <2> HIDE DEF n
  <2> SUFFICES ASSUME step' = "over", outcome' # Raised, outcome'.traces = Closing(reply),
                      step \in Ranking => reply.got = "error"
               PROVE  CallsAreTraced'
    BY <1>4, <1>5, <1>8 DEF Speaks, Result
  <2>9. CASE step \in {"embed goal", "embed events"}
    <3>1. ASSUME NEW i \in Noted(calls') PROVE calls'[i].role = "embedding"
      <4>1. CASE i = n
        BY <2>1, <2>3, <2>6, <2>9, <4>1 DEF RoleAt
      <4>2. CASE i # n
        <5>1. i \in DOMAIN calls /\ calls'[i] = calls[i]
          BY <2>3, <2>4, <2>8, <4>2
        <5>2. calls[i].during \in Ranking /\ calls[i].during # "rerank"
          BY <2>9, <5>1 DEF Counted, Before, Ranking
        <5>3. calls[i].role = RoleAt(calls[i].during)
          BY <5>1 DEF Ledger, Sourced
        <5> QED BY <5>1, <5>2, <5>3 DEF RoleAt, Ranking
      <4> QED BY <4>1, <4>2
    <3>2. ByRole(calls', "embedding") = Noted(calls')
      BY <3>1 DEF ByRole
    <3>3. Accounts(calls', kept'["embedding"], Noted(calls'))
      <4>1. Accounts(calls', kept'["embedding"], ByRole(calls', "embedding"))
        BY <1>1, <1>8, BooksMove DEF Ledger
      <4> QED BY <3>2, <4>1
    <3>4. kept'["embedding"] \in Seq(Traces)
      BY DEF Move, Lists
    <3>5. outcome'.traces = kept'["embedding"]
      BY <2>9 DEF Closing
    <3> QED BY <1>3, <2>2, <3>3, <3>4, <3>5
  <2>10. CASE step = "rerank"
    <3>1. LeavesATrace(call)
      BY <2>1, <2>10 DEF LeavesATrace, Ranking
    <3>2. During(calls, Ranking) = Noted(calls)
      BY <2>8, <2>10 DEF During, Counted, Before, Ranking
    <3>3. kept["ranking"] \in Seq(Traces) /\ Accounts(calls, kept["ranking"], Noted(calls))
      BY <3>2 DEF Ledger, Books, Lists
    <3>4. Closing(reply) = Append(kept["ranking"], TraceOf(reply))
      BY <2>10 DEF Closing, ErrorTraced
    <3>5. Noted(calls') = Noted(calls) \cup {n}
      BY <2>4, <3>1
    <3>6. /\ Append(kept["ranking"], TraceOf(reply)) \in Seq(Traces)
          /\ Accounts(calls', Append(kept["ranking"], TraceOf(reply)), Noted(calls) \cup {n})
      BY <2>7, <2>8, <3>3
    <3> QED BY <1>3, <2>2, <3>4, <3>5, <3>6
  <2>11. CASE step = "generate"
    <3>1. LeavesATrace(call)
      BY <2>1, <2>6, <2>11 DEF LeavesATrace, RoleAt
    <3>2. Accounts(calls, TracesOf(kept), Noted(calls)) /\ TracesOf(kept) \in Seq(Traces)
      BY <1>2, <1>6, TracesAccount
    <3>3. Closing(reply) = Append(TracesOf(kept), TraceOf(reply))
      BY <2>11 DEF Closing, PatchTraced
    <3>4. Noted(calls') = Noted(calls) \cup {n}
      BY <2>4, <3>1
    <3>5. /\ Append(TracesOf(kept), TraceOf(reply)) \in Seq(Traces)
          /\ Accounts(calls', Append(TracesOf(kept), TraceOf(reply)), Noted(calls) \cup {n})
      BY <2>7, <2>8, <3>2
    <3> QED BY <1>3, <2>2, <3>3, <3>4, <3>5
  <2>12. CASE step \notin Ranking \cup {"generate"}
    <3>1. \A i \in DOMAIN calls' : calls'[i].role # "patch_generation"
      <4>1. call.role # "patch_generation"
        BY <2>1, <2>6, <2>12 DEF RoleAt
      <4>2. ASSUME NEW i \in DOMAIN calls' PROVE i = n \/ (i \in DOMAIN calls /\ calls'[i] = calls[i])
        BY <2>3 DEF n
      <4> QED BY <1>6, <2>3, <4>1, <4>2
    <3>2. Ledger(calls', kept') /\ kept' \in [Lists -> Seq(Traces)]
      <4>1. Ledger(calls, kept)'
        BY <1>1, <1>8, <2>12, LedgerMoves DEF Move
      <4> QED BY <1>1, <1>2, <4>1 DEF Move, Ledger, Sourced, Splits
    <3>3. Accounts(calls', TracesOf(kept'), Noted(calls')) /\ TracesOf(kept') \in Seq(Traces)
      BY <1>2, <3>1, <3>2, TracesAccount
    <3>4. outcome'.traces = TracesOf(kept')
      BY <2>12 DEF Closing, Ranking
    <3> QED BY <1>3, <2>2, <3>3, <3>4
  <2> QED BY <2>9, <2>10, <2>11, <2>12 DEF Ranking
<1> QED BY <1>7, <1>8 DEF Move

TraceInv == CallInv /\ (step # "over" => Ledger(calls, kept) /\ Counted) /\ CallsAreTraced

LEMMA TraceInit ==
    ASSUME CellInit
    PROVE  TraceInv
<1>1. /\ step = "begin" /\ calls = <<>> /\ outcome = Running
      /\ \A list \in Lists : kept[list] = <<>>
  BY DEF CellInit
<1>2. CallInv
  BY CallInit
<1>3. /\ kept["embedding"] = <<>> /\ kept["decider"] = <<>>
      /\ kept["ranking"] = <<>> /\ kept["ranker"] = <<>>
  BY <1>1 DEF Lists
<1>4. Noted(calls) = {}
  BY <1>1 DEF Noted
<1>5. Books(calls, kept)
  <2>1. \A S : S = {} => Accounts(calls, <<>>, S)
    BY DEF Accounts
  <2> QED BY <1>3, <1>4, <2>1 DEF Books, ByRole, During
<1>6. Ledger(calls, kept)
  BY <1>1, <1>2, <1>3, <1>5 DEF Ledger, CallInv, CellType, Sourced, RanksFirst, Splits
<1>7. Counted
  BY <1>1, <1>3 DEF Counted, Ranked, Observing
<1>8. CallsAreTraced
  BY <1>1 DEF CallsAreTraced, HasResult, Running
<1> QED BY <1>2, <1>6, <1>7, <1>8 DEF TraceInv

LEMMA TraceNext ==
    ASSUME TraceInv, [Next]_evaluated
    PROVE  TraceInv'
<1>1. CallInv'
  BY CallNext DEF TraceInv
<1>2. CASE CellNext
  <2>1. CellType /\ Phases /\ Move
    BY <1>2, CellMoves DEF TraceInv, CallInv
  <2>2. CallInv /\ Ledger(calls, kept) /\ Counted /\ UNCHANGED input /\ kept' \in [Lists -> Seq(Traces)]
    BY <2>1 DEF TraceInv, Move
  <2>3. CallsAreTraced'
    BY <2>1, <2>2, TracedMoves
  <2>4. ASSUME step' # "over" PROVE Ledger(calls, kept)' /\ Counted'
    <3>1. Counted'
      BY <2>1, <2>2, <2>4, CountsMove
    <3>2. CASE Silent
      <4>1. calls' = calls /\ kept' = kept /\ RankingEmbeddings' = RankingEmbeddings
        BY <2>2, <3>2 DEF Silent, RankingEmbeddings
      <4> QED BY <2>2, <3>1, <4>1 DEF Ledger, Books, Sourced, RanksFirst, Splits
    <3>3. ASSUME NEW role \in Roles, NEW reply \in Replies, Speaks(role, reply)
          PROVE  Ledger(calls, kept)'
      <4>1. step \notin Ranking \/ reply = Answer
        BY <2>4, <3>3 DEF Speaks, Ranking
      <4> QED BY <2>1, <2>2, <3>3, <4>1, LedgerMoves
    <3> QED BY <2>1, <3>1, <3>2, <3>3 DEF Move
  <2> QED BY <1>1, <2>3, <2>4 DEF TraceInv
<1>3. CASE UNCHANGED cell
  <2>1. UNCHANGED <<input, step, at, calls, kept, outcome>>
    BY <1>3 DEF cell
  <2>2. CallsAreTraced'
    BY <2>1 DEF CallsAreTraced, HasResult, TraceInv
  <2>3. step' # "over" => Ledger(calls, kept)' /\ Counted'
    BY <2>1 DEF Ledger, Books, Sourced, RanksFirst, Splits, Counted, RankingEmbeddings, TraceInv
  <2> QED BY <1>1, <2>2, <2>3 DEF TraceInv
<1> QED BY <1>2, <1>3 DEF Next, Live, Diagnosing, Claiming, evaluated

\* What is invariant of the lists of traces.
THEOREM TracesInductive == Spec => []TraceInv
<1>1. Init => TraceInv
  BY TraceInit DEF Init
<1>2. TraceInv /\ [Next]_evaluated => TraceInv'
  BY TraceNext
<1> QED BY <1>1, <1>2, PTL DEF Spec

\* The record of an attempt accounts for the money it cost: each call of a
\* provider has one trace, and its own, and a role's are in order, wherever the
\* attempt ended (_selection_failure_result, retained_prior_trace_count).
THEOREM EveryCallIsTraced == Spec => []CallsAreTraced
<1>1. TraceInv => CallsAreTraced
  BY DEF TraceInv
<1> QED BY <1>1, TracesInductive, PTL

---------------------------------------------------------------------------
\* Folds over sequences

\* What holds of no step, and of a step more than it holds of, holds of all.
LEMMA Climb ==
    ASSUME NEW n \in Nat, NEW S, 0 \in S, \A i \in 1..n : i - 1 \in S => i \in S
    PROVE  0..n \subseteq S
<1> DEFINE rest == (0..n) \ S
<1> SUFFICES ASSUME rest # {} PROVE FALSE
  OBVIOUS
<1>1. rest \in SUBSET Nat
  OBVIOUS
<1>2. Least(rest) \in rest /\ \A e \in rest : Least(rest) <= e
  BY <1>1, LeastOf
<1> DEFINE least == Least(rest)
<1> HIDE DEF least
<1>3. least \in 0..n /\ least \notin S /\ \A e \in 0..n : e \notin S => least <= e
  BY <1>2 DEF least
<1>4. least \in 1..n /\ least - 1 \in 0..n /\ ~(least <= least - 1)
  BY <1>3
<1> QED BY <1>3, <1>4

LEMMA GreatestOf ==
    ASSUME NEW n \in Nat, NEW s \in SUBSET (1..n), s # {}
    PROVE  /\ Max(s) \in s /\ \A e \in s : Max(s) >= e
           /\ n \in s => Max(s) = n
<1> DEFINE S == {n - e : e \in s}
<1>1. S \in SUBSET Nat /\ S # {}
  <2>1. \A e \in s : n - e \in Nat
    OBVIOUS
  <2> QED BY <2>1
<1>2. Least(S) \in S /\ \A e \in S : Least(S) <= e
  BY <1>1, LeastOf
<1>3. PICK x \in s : Least(S) = n - x
  BY <1>2
<1>4. ASSUME NEW e \in s PROVE x >= e
  <2>1. n - x <= n - e
    BY <1>2, <1>3
  <2> QED BY <2>1
<1>5. Max(s) \in s /\ \A e \in s : Max(s) >= e
  BY <1>4 DEF Max
<1>6. ASSUME n \in s PROVE Max(s) = n
  <2>1. Max(s) \in 1..n /\ Max(s) >= n
    BY <1>5, <1>6
  <2> QED BY <2>1
<1> QED BY <1>5, <1>6

\* A fold of n steps exists: a step is of a number and of what is folded.
Folding(f, n, base, Step) ==
    \A s \in SUBSET (1..n) :
      f[s] = IF s = {} THEN base ELSE Step[<<Max(s), f[s \ {Max(s)}]>>]

LEMMA FoldExists ==
    ASSUME NEW P, NEW base \in P, NEW n \in Nat, NEW Step \in [(1..n) \X P -> P]
    PROVE  \E f \in [SUBSET (1..n) -> P] : Folding(f, n, base, Step)
<1> DEFINE S == {k \in 0..n : \E f \in [SUBSET (1..k) -> P] : Folding(f, k, base, Step)}
<1>1. 0 \in S
  <2> DEFINE f == [s \in SUBSET (1..0) |-> base]
  <2>1. f \in [SUBSET (1..0) -> P]
    OBVIOUS
  <2>2. \A s \in SUBSET (1..0) : s = {}
    OBVIOUS
  <2>3. Folding(f, 0, base, Step)
    BY <2>2 DEF Folding
  <2> QED BY <2>1, <2>3
<1>2. ASSUME NEW k \in 1..n, k - 1 \in S PROVE k \in S
  <2>1. PICK g \in [SUBSET (1..(k - 1)) -> P] : Folding(g, k - 1, base, Step)
    BY <1>2
  <2> DEFINE f == [s \in SUBSET (1..k) |-> IF k \in s THEN Step[<<k, g[s \ {k}]>>] ELSE g[s]]
  <2>2. \A s \in SUBSET (1..k) :
          /\ s \ {k} \in SUBSET (1..(k - 1))
          /\ k \notin s => s \in SUBSET (1..(k - 1))
    OBVIOUS
  <2>3. f \in [SUBSET (1..k) -> P]
    <3>1. ASSUME NEW s \in SUBSET (1..k)
          PROVE  (IF k \in s THEN Step[<<k, g[s \ {k}]>>] ELSE g[s]) \in P
      <4>1. CASE k \in s
        <5>1. g[s \ {k}] \in P
          BY <2>1, <2>2
        <5> QED BY <4>1, <5>1
      <4>2. CASE k \notin s
        BY <2>1, <2>2, <4>2
      <4> QED BY <4>1, <4>2
    <3> QED BY <3>1
  <2>4. ASSUME NEW s \in SUBSET (1..k)
        PROVE  f[s] = IF s = {} THEN base ELSE Step[<<Max(s), f[s \ {Max(s)}]>>]
    <3>1. CASE s = {}
      <4>1. f[s] = g[s] /\ s \in SUBSET (1..(k - 1))
        BY <3>1
      <4> QED BY <2>1, <3>1, <4>1 DEF Folding
    <3>2. CASE s # {} /\ k \in s
      <4>1. Max(s) = k
        BY <3>2, GreatestOf
      <4>2. s \ {k} \in SUBSET (1..k) /\ k \notin s \ {k}
        OBVIOUS
      <4>3. f[s \ {k}] = g[s \ {k}] /\ f[s] = Step[<<k, g[s \ {k}]>>]
        BY <3>2, <4>2
      <4> QED BY <3>2, <4>1, <4>3
    <3>3. CASE s # {} /\ k \notin s
      <4>1. s \in SUBSET (1..(k - 1)) /\ f[s] = g[s]
        BY <2>2, <3>3
      <4>2. Max(s) \in s
        BY <3>3, GreatestOf
      <4>3. s \ {Max(s)} \in SUBSET (1..k) /\ k \notin s \ {Max(s)}
        BY <3>3
      <4>4. f[s \ {Max(s)}] = g[s \ {Max(s)}]
        BY <4>3
      <4>5. g[s] = Step[<<Max(s), g[s \ {Max(s)}]>>]
        BY <2>1, <3>3, <4>1 DEF Folding
      <4> QED BY <3>3, <4>1, <4>4, <4>5
    <3> QED BY <3>1, <3>2, <3>3
  <2>5. Folding(f, k, base, Step)
    BY <2>4 DEF Folding
  <2> HIDE DEF f
  <2> QED BY <2>3, <2>5
<1>3. n \in S
  <2> HIDE DEF S
  <2>1. 0..n \subseteq S
    BY <1>1, <1>2, Climb
  <2> QED BY <2>1
<1> QED BY <1>3

\* How BudgetSelector takes an event into a pack.
Taken(pack, e) == IF Fits(Append(pack, e)) THEN Append(pack, e) ELSE pack

\* The packs of a greedy selection, one for each event it has tried.
Packs(order, f) ==
    f = [s \in SUBSET DOMAIN order |->
           IF s = {} THEN <<>> ELSE Taken(f[s \ {Max(s)}], order[Max(s)])]

LEMMA GreedyIs ==
    ASSUME NEW order
    PROVE  Greedy(order) = (CHOOSE f : Packs(order, f))[DOMAIN order]
BY DEF Greedy, FoldLeft, MapThenFoldSet, Packs, Taken

LEMMA GreedySteps ==
    ASSUME NEW T, NEW order \in Seq(T)
    PROVE  \E h : /\ h \in [0..Len(order) -> Seq(T)]
                  /\ h[0] = <<>> /\ h[Len(order)] = Greedy(order)
                  /\ \A i \in 1..Len(order) : h[i] = Taken(h[i - 1], order[i])
<1> DEFINE n == Len(order)
           f == CHOOSE f : Packs(order, f)
           h == [i \in 0..n |-> f[1..i]]
<1>1. n \in Nat /\ DOMAIN order = 1..n /\ \A i \in 1..n : order[i] \in T
  OBVIOUS
<1>2. \A pack \in Seq(T), i \in 1..n : Taken(pack, order[i]) \in Seq(T)
  BY <1>1, Appended DEF Taken
<1> HIDE DEF n
<1>3. \E g : Packs(order, g)
  <2> DEFINE Step == [p \in (1..n) \X Seq(T) |-> Taken(p[2], order[p[1]])]
  <2>1. Step \in [(1..n) \X Seq(T) -> Seq(T)]
    BY <1>2
  <2>2. <<>> \in Seq(T)
    OBVIOUS
  <2> HIDE DEF Step
  <2>3. PICK g \in [SUBSET (1..n) -> Seq(T)] : Folding(g, n, <<>>, Step)
    BY <1>1, <2>1, <2>2, FoldExists
  <2>4. ASSUME NEW s \in SUBSET (1..n)
        PROVE  g[s] = IF s = {} THEN <<>> ELSE Taken(g[s \ {Max(s)}], order[Max(s)])
    <3>1. CASE s = {}
      BY <2>3, <3>1 DEF Folding
    <3>2. CASE s # {}
      <4>1. Max(s) \in 1..n
        BY <1>1, <3>2, GreatestOf
      <4>2. g[s \ {Max(s)}] \in Seq(T)
        BY <2>3
      <4>3. <<Max(s), g[s \ {Max(s)}]>> \in (1..n) \X Seq(T)
        BY <4>1, <4>2
      <4>4. Step[<<Max(s), g[s \ {Max(s)}]>>] = Taken(g[s \ {Max(s)}], order[Max(s)])
        BY <4>3 DEF Step
      <4> QED BY <2>3, <3>2, <4>4 DEF Folding
    <3> QED BY <3>1, <3>2
  <2>5. g = [s \in SUBSET (1..n) |->
               IF s = {} THEN <<>> ELSE Taken(g[s \ {Max(s)}], order[Max(s)])]
    BY <2>3, <2>4
  <2> QED BY <1>1, <2>5 DEF Packs
<1>4. Packs(order, f)
  BY <1>3
<1>5. \A s \in SUBSET (1..n) :
        f[s] = IF s = {} THEN <<>> ELSE Taken(f[s \ {Max(s)}], order[Max(s)])
  <2> HIDE DEF f
  <2> QED BY <1>1, <1>4 DEF Packs
<1>6. f[1..n] = Greedy(order)
  BY <1>1, GreedyIs
<1> HIDE DEF f
<1>7. h[0] = <<>>
  <2>1. 1..0 = {} /\ 1..0 \in SUBSET (1..n)
    OBVIOUS
  <2>2. h[0] = f[1..0]
    BY <1>1
  <2> QED BY <1>5, <2>1, <2>2
<1>8. ASSUME NEW i \in 1..n PROVE h[i] = Taken(h[i - 1], order[i])
  <2>1. i \in Nat /\ 1..i \in SUBSET (1..n) /\ i \in 1..i /\ i \in 0..n /\ i - 1 \in 0..n
    BY <1>1
  <2>2. Max(1..i) = i
    BY <2>1, GreatestOf
  <2>3. (1..i) \ {i} = 1..(i - 1)
    BY <2>1
  <2>4. f[1..i] = Taken(f[1..(i - 1)], order[i])
    <3>1. 1..i # {}
      BY <2>1
    <3> QED BY <1>5, <2>1, <2>2, <2>3, <3>1
  <2> QED BY <2>1, <2>4
<1>9. \A i \in 0..n : h[i] \in Seq(T)
  <2> DEFINE S == {i \in 0..n : h[i] \in Seq(T)}
  <2> HIDE DEF h
  <2>1. 0 \in S
    <3>1. <<>> \in Seq(T) /\ 0 \in 0..n
      BY <1>1
    <3> QED BY <1>7, <3>1
  <2>2. ASSUME NEW i \in 1..n, i - 1 \in S PROVE i \in S
    BY <1>2, <1>8, <2>2
  <2> HIDE DEF S
  <2>3. 0..n \subseteq S
    BY <1>1, <2>1, <2>2, Climb
  <2> QED BY <2>3 DEF S
<1>10. h[n] = Greedy(order)
  BY <1>1, <1>6
<1>11. h \in [0..n -> Seq(T)]
  BY <1>9
<1> HIDE DEF h
<1> QED BY <1>7, <1>8, <1>10, <1>11 DEF n

LEMMA GreedyOf ==
    ASSUME NEW T, NEW order \in Seq(T)
    PROVE  /\ Greedy(order) \in Seq(T) /\ Len(Greedy(order)) <= Len(order)
           /\ ToSet(Greedy(order)) \subseteq ToSet(order)
           /\ Greedy(order) # <<>> => Fits(Greedy(order))
           /\ IsInjective(order) => IsInjective(Greedy(order))
<1>1. PICK h : /\ h \in [0..Len(order) -> Seq(T)]
               /\ h[0] = <<>> /\ h[Len(order)] = Greedy(order)
               /\ \A i \in 1..Len(order) : h[i] = Taken(h[i - 1], order[i])
  BY GreedySteps
<1> DEFINE n == Len(order)
           Good(i) == /\ Len(h[i]) <= i
                      /\ \A k \in DOMAIN h[i] : \E j \in 1..i : h[i][k] = order[j]
                      /\ h[i] # <<>> => Fits(h[i])
                      /\ IsInjective(order) =>
                           \A k, l \in DOMAIN h[i] : h[i][k] = h[i][l] => k = l
           S == {i \in 0..n : Good(i)}
<1>2. n \in Nat /\ DOMAIN order = 1..n /\ \A i \in 1..n : order[i] \in T
  OBVIOUS
<1> HIDE DEF n
<1>3. 0 \in S
  <2>1. DOMAIN h[0] = {} /\ Len(h[0]) = 0
    BY <1>1
  <2> QED BY <1>1, <1>2, <2>1
<1>4. ASSUME NEW i \in 1..n, i - 1 \in S PROVE i \in S
  <2> DEFINE pack == h[i - 1]
             e == order[i]
  <2>1. Good(i - 1) /\ pack \in Seq(T) /\ e \in T /\ h[i] = Taken(pack, e)
        /\ i \in Nat /\ i \in 0..n
    <3>1. i \in Nat /\ i \in 0..n /\ i - 1 \in 0..n
      BY <1>2
    <3>2. Good(i - 1)
      BY <1>4
    <3> HIDE DEF Good
    <3> QED BY <1>1, <1>2, <3>1, <3>2 DEF n
  <2>2. CASE ~Fits(Append(pack, e))
    <3>1. h[i] = pack
      BY <2>1, <2>2 DEF Taken
    <3>2. Len(pack) <= i
      BY <2>1
    <3>3. \A k \in DOMAIN pack : \E j \in 1..i : pack[k] = order[j]
      BY <2>1
    <3> QED BY <2>1, <3>1, <3>2, <3>3
  <2>3. CASE Fits(Append(pack, e))
    <3>1. h[i] = Append(pack, e)
      BY <2>1, <2>3 DEF Taken
    <3> DEFINE m == Len(pack)
    <3>2. /\ m \in Nat /\ Len(h[i]) = m + 1 /\ DOMAIN h[i] = 1..(m + 1) /\ DOMAIN pack = 1..m
          /\ h[i][m + 1] = e /\ \A k \in 1..m : h[i][k] = pack[k]
      BY <2>1, <3>1
    <3>3. m + 1 <= i
      <4>1. m <= i - 1
        BY <2>1
      <4> HIDE DEF m
      <4> QED BY <2>1, <3>2, <4>1
    <3> HIDE DEF m
    <3>4. ASSUME NEW k \in DOMAIN h[i] PROVE \E j \in 1..i : h[i][k] = order[j]
      <4>1. CASE k = m + 1
        <5>1. i \in 1..i
          BY <2>1
        <5> QED BY <3>2, <4>1, <5>1
      <4>2. CASE k # m + 1
        <5>1. k \in 1..m
          BY <3>2, <4>2
        <5>2. PICK j \in 1..(i - 1) : pack[k] = order[j]
          BY <2>1, <3>2, <5>1
        <5> QED BY <2>1, <3>2, <5>1, <5>2
      <4> QED BY <4>1, <4>2
    <3>5. ASSUME IsInjective(order), NEW k \in DOMAIN h[i], NEW l \in DOMAIN h[i], h[i][k] = h[i][l]
          PROVE  k = l
      <4>1. ASSUME NEW a \in 1..m PROVE h[i][a] # e
        <5>1. PICK j \in 1..(i - 1) : pack[a] = order[j]
          BY <2>1, <3>2
        <5>2. j \in DOMAIN order /\ i \in DOMAIN order /\ j # i
          BY <1>2, <2>1
        <5> QED BY <3>2, <3>5, <5>1, <5>2 DEF IsInjective
      <4>2. \A a, b \in 1..m : h[i][a] = h[i][b] => a = b
        BY <2>1, <3>2, <3>5
      <4>3. k \in 1..m \/ k = m + 1
        BY <3>2
      <4>4. l \in 1..m \/ l = m + 1
        BY <3>2
      <4> QED BY <3>2, <3>5, <4>1, <4>2, <4>3, <4>4
    <3>6. Fits(h[i])
      BY <2>3, <3>1
    <3>7. Good(i)
      BY <3>2, <3>3, <3>4, <3>5, <3>6
    <3> QED BY <2>1, <3>7
  <2> QED BY <2>2, <2>3
<1>5. Good(n)
  <2>1. 0..n \subseteq S
    <3> HIDE DEF S
    <3> QED BY <1>2, <1>3, <1>4, Climb
  <2>2. n \in 0..n
    BY <1>2
  <2> QED BY <2>1, <2>2
<1>6. h[n] = Greedy(order) /\ h[n] \in Seq(T)
  BY <1>1, <1>2 DEF n
<1> QED BY <1>2, <1>5, <1>6 DEF n, ToSet, IsInjective

\* An event that a pack has room for has room in it without its last, too: a
\* longer list has no fewer tokens.
LEMMA RoomStays ==
    ASSUME input \in Inputs, NEW pack \in Seq(Events), Len(pack) <= Len(input.events),
           NEW e \in Events, NEW f \in Events, Fits(Append(Append(pack, e), f))
    PROVE  Fits(Append(pack, f))
<1>1. pack \in [1..Len(pack) -> Events] /\ Len(pack) \in 0..Len(input.events)
  BY EventsAreNumbered
<1>2. pack \in BoundedSeq(Events, Len(input.events))
  BY <1>1 DEF BoundedSeq, SeqOf
<1> QED BY <1>2, RoomAssumption DEF Events

LEMMA GreedyIsFull ==
    ASSUME input \in Inputs, NEW order \in Seq(Events), Len(order) <= Len(input.events),
           NEW f \in ToSet(order), f \notin ToSet(Greedy(order))
    PROVE  ~Fits(Append(Greedy(order), f))
<1>1. PICK h : /\ h \in [0..Len(order) -> Seq(Events)]
               /\ h[0] = <<>> /\ h[Len(order)] = Greedy(order)
               /\ \A i \in 1..Len(order) : h[i] = Taken(h[i - 1], order[i])
  BY GreedySteps
<1> DEFINE n == Len(order)
           Full(i) == /\ Len(h[i]) <= i
                      /\ \A j \in 1..i : order[j] \in ToSet(h[i]) \/ ~Fits(Append(h[i], order[j]))
           S == {i \in 0..n : Full(i)}
<1>2. n \in Nat /\ n <= Len(input.events) /\ Len(input.events) \in Nat
      /\ DOMAIN order = 1..n /\ \A i \in 1..n : order[i] \in Events
  BY EventsAreNumbered
<1> HIDE DEF n
<1>3. 0 \in S
  BY <1>1, <1>2
<1>4. ASSUME NEW i \in 1..n, i - 1 \in S PROVE i \in S
  <2> DEFINE pack == h[i - 1]
             e == order[i]
  <2>1. Full(i - 1) /\ pack \in Seq(Events) /\ e \in Events /\ h[i] = Taken(pack, e)
        /\ i \in Nat /\ i \in 0..n
    BY <1>1, <1>2, <1>4 DEF n
  <2>2. \A j \in 1..i : j = i \/ j \in 1..(i - 1)
    BY <2>1
  <2>3. CASE ~Fits(Append(pack, e))
    <3>1. h[i] = pack
      BY <2>1, <2>3 DEF Taken
    <3> QED BY <2>1, <2>2, <2>3, <3>1
  <2>4. CASE Fits(Append(pack, e))
    <3>1. h[i] = Append(pack, e)
      BY <2>1, <2>4 DEF Taken
    <3>2. ToSet(h[i]) = ToSet(pack) \cup {e}
      <4>1. DOMAIN h[i] = DOMAIN pack \cup {Len(pack) + 1} /\ h[i][Len(pack) + 1] = e
            /\ \A k \in DOMAIN pack : h[i][k] = pack[k]
        BY <2>1, <3>1
      <4> QED BY <4>1 DEF ToSet
    <3>3. ASSUME NEW j \in 1..i
          PROVE  order[j] \in ToSet(h[i]) \/ ~Fits(Append(h[i], order[j]))
      <4>1. CASE j = i
        BY <3>2, <4>1
      <4>2. CASE j \in 1..(i - 1)
        <5>1. order[j] \in Events
          BY <1>2, <2>1, <4>2
        <5>2. Fits(Append(Append(pack, e), order[j])) => Fits(Append(pack, order[j]))
          BY <1>2, <2>1, <5>1, RoomStays
        <5> QED BY <2>1, <3>1, <3>2, <4>2, <5>2
      <4> QED BY <2>2, <4>1, <4>2
    <3>4. Len(h[i]) <= i
      BY <2>1, <3>1
    <3> QED BY <2>1, <3>3, <3>4
  <2> QED BY <2>3, <2>4
<1>5. Full(n)
  <2>1. 0..n \subseteq S
    <3> HIDE DEF S
    <3> QED BY <1>2, <1>3, <1>4, Climb
  <2>2. n \in 0..n
    BY <1>2
  <2> QED BY <2>1, <2>2
<1>6. PICK j \in 1..n : f = order[j]
  BY <1>2 DEF ToSet
<1> QED BY <1>1, <1>5, <1>6 DEF n

---------------------------------------------------------------------------
\* Attempts are judged

\* What an outcome may be named for, and the names of the variants, are such
\* that a record may have them (_safe_public_identifier).
SelectionCodes ==
    ObserveCodes \cup
      {"model_output_unparseable", "out_of_order", "lease_lost", "sqlite_busy", "sqlite_io_error",
       "storage_failure", "embedding_failure", "rerank_failure"}
OutcomeCodes ==
    SelectionCodes \cup
      {"provider_terminal_failure", "provider_exception", "not_run", "empty_patch",
       "path_not_allowed", "duplicate_path", "unsafe_python_content"}
LEMMA PublicNames == (Variants \cup OutcomeCodes) \cap PrivateIdentifiers = {}
BY NamesAssumption DEF TechnicalCodes, SelectionCodes, OutcomeCodes

LEMMA ContractFacts ==
    ASSUME input \in Inputs
    PROVE  input.codes = TechnicalCodes /\ input.allowed \subseteq PathsOf(input.files)
<1>1. PICK q \in Requests : Executable(q) /\ input = CellInput(q)
  BY DEF Inputs
<1>2. input.codes = q.manifest.codes
  BY <1>1 DEF CellInput
<1>3. \A manifest, bytes, scenario :
        /\ Contract(manifest, bytes, scenario).files = bytes[scenario.snapshot].files
        /\ Contract(manifest, bytes, scenario).allowed
             = AllowedEditPaths(manifest, bytes[scenario.snapshot])
  BY DEF Contract
<1>4. \A manifest, bytes, slot :
        ScenarioContract(manifest, bytes, slot).allowed
          \subseteq PathsOf(ScenarioContract(manifest, bytes, slot).files)
  BY <1>3 DEF ScenarioContract, AllowedEditPaths
<1>5. \E manifest, bytes, slot :
        /\ input.allowed = ScenarioContract(manifest, bytes, slot).allowed
        /\ input.files = ScenarioContract(manifest, bytes, slot).files
  BY <1>1 DEF CellInput
<1> QED BY <1>1, <1>2, <1>4, <1>5, CodesAssumption

\* A result that keeps no path of a patch can be recorded in a cell that is
\* fit to run.
LEMMA FitIsRecordable ==
    ASSUME FitToRun, NEW result, result.code \in OutcomeCodes, result.files = <<>>
    PROVE  Recordable(input, result, <<>>)
<1>1. input.variant \in Variants /\ {input.id, input.scenario, input.model} \cap PrivateIdentifiers = {}
  BY DEF FitToRun, Public
<1>2. Public({input.id, input.scenario, input.variant, result.code})
  BY <1>1, PublicNames DEF Public
<1>3. RecordableTraces(input, result.traces)
  BY <1>1 DEF RecordableTraces, Public
<1>4. RecordablePatch(<<>>, result.files)
  BY DEF RecordablePatch, IsInjective, Canonical, ToSet
<1> QED BY <1>2, <1>3, <1>4 DEF Recordable

\* A failed selection counts against its variant unless it is technical.
Technical == TechnicalCodes \ {"provider_operator_action_required"}
FailedFor(code) ==
    \/ outcome' = Raised /\ ~FitToRun
    \/ /\ outcome'.code = code
       /\ outcome'.status = IF code \in Technical THEN "invalidated" ELSE "adverse"

LEMMA FailsFor ==
    ASSUME input \in Inputs,
           NEW code \in SelectionCodes, NEW traces, SelectionFails(code, traces)
    PROVE  FailedFor(code)
<1> DEFINE result == Ended(IF RetryableFrozenFailure(code) THEN "invalidated" ELSE "adverse",
                           "selection", code, traces, <<>>)
<1>1. /\ result.code = code /\ result.files = <<>>
      /\ result.status = IF code \in Technical THEN "invalidated" ELSE "adverse"
  <2>1. RetryableFrozenFailure(code) <=> code \in Technical
    BY ContractFacts DEF RetryableFrozenFailure, Technical
  <2> QED BY <2>1 DEF Ended
<1>2. \/ ~input.tokenizer /\ outcome' = Raised
      \/ ~Recordable(input, result, <<>>) /\ outcome' = Raised
      \/ outcome' = result
  BY DEF SelectionFails, EndsRecorded, Ends, Raises
<1> HIDE DEF result
<1>3. FitToRun => input.tokenizer /\ Recordable(input, result, <<>>)
  BY <1>1, FitIsRecordable DEF FitToRun, OutcomeCodes
<1> QED BY <1>1, <1>2, <1>3 DEF FailedFor

LEMMA RuntimeFailsFor ==
    ASSUME input \in Inputs,
           NEW code \in SelectionCodes, RuntimeFails(code)
    PROVE  FailedFor(code)
BY FailsFor DEF RuntimeFails

LEMMA FitStays ==
    ASSUME UNCHANGED input
    PROVE  FitToRun' <=> FitToRun
BY DEF FitToRun, Events

\* What may be said of an attempt whose last call, in this step, has this reply.
MayRaise(role, reply) ==
    FitToRun =>
      \/ reply = Exception /\ step \notin {"compile", "compile rerank", "generate"}
      \/ reply = UnusableVector /\ step \in {"embed goal", "embed events"}
      \/ role = "patch_generation" /\ (reply = Miscounted \/ reply = Answer)
MayCount(reply) == Outage(reply) => step \in {"compile", "compile rerank"}
MayRepeat(role, reply) ==
    \/ Outage(reply)
    \/ role = "embedding" /\ reply = UnusableVector
    \/ step = "repair" /\ reply = Unparseable
    \/ role = "patch_generation" /\ reply.got = "error"
Sqlite == {"sqlite_busy", "sqlite_io_error"}

LEMMA Statuses == Running.status = "running" /\ Raised.status = "raised"
BY DEF Running, Raised

LEMMA JudgedByItsCall ==
    ASSUME CellType, UNCHANGED input, NEW role \in Roles, NEW reply \in Replies, Asked(role, reply),
           \/ outcome' = Running
           \/ outcome' = Raised /\ MayRaise(role, reply)
           \/ outcome'.status = "adverse" /\ outcome'.code \notin Sqlite /\ MayCount(reply)
           \/ outcome'.status = "invalidated" /\ MayRepeat(role, reply)
    PROVE  AttemptsAreJudged'
<1> DEFINE call == CallOf(role, reply)
<1>1. call.role = role /\ call.reply = reply /\ call.during = step
  BY DEF CallOf
<1>2. calls' = Append(calls, call) /\ call \in Calls /\ calls \in Seq(Calls)
  BY AskedOf DEF CellType
<1> HIDE DEF call
<1>3. /\ Len(calls) \in Nat /\ Len(calls') = Len(calls) + 1 /\ calls' # <<>>
      /\ calls'[Len(calls) + 1] = call
  BY ONLY <1>2, Appended
<1>4. LastCall' = call
  BY <1>3 DEF LastCall
<1>5. (Outage(LastCall.reply))' <=> Outage(reply)
  BY <1>1, <1>4 DEF Outage
<1>6. CASE outcome' = Running
  BY <1>6 DEF AttemptsAreJudged, Running
<1>7. CASE outcome' = Raised /\ MayRaise(role, reply)
  <2>1. FitToRun' =>
          \/ LastCall'.reply = Exception
               /\ LastCall'.during \notin {"compile", "compile rerank", "generate"}
          \/ LastCall'.reply = UnusableVector
               /\ LastCall'.during \in {"embed goal", "embed events"}
          \/ LastCall'.role = "patch_generation"
               /\ (LastCall'.reply = Miscounted \/ LastCall'.reply = Answer)
    BY <1>1, <1>4, <1>7, FitStays DEF MayRaise
  <2> QED BY <1>3, <1>7, <2>1, Statuses DEF AttemptsAreJudged
<1>8. CASE outcome'.status = "adverse" /\ outcome'.code \notin Sqlite /\ MayCount(reply)
  <2>1. (Outage(LastCall.reply))' => LastCall'.during \in {"compile", "compile rerank"}
    BY <1>1, <1>4, <1>5, <1>8 DEF MayCount
  <2> QED BY <1>8, <2>1 DEF AttemptsAreJudged, Sqlite
<1>9. CASE outcome'.status = "invalidated" /\ MayRepeat(role, reply)
  <2>1. \/ (Outage(LastCall.reply))'
        \/ LastCall'.role = "embedding" /\ LastCall'.reply = UnusableVector
        \/ LastCall'.during = "repair" /\ LastCall'.reply = Unparseable
        \/ LastCall'.role = "patch_generation" /\ LastCall'.reply.got = "error"
    BY <1>1, <1>4, <1>5, <1>9 DEF MayRepeat
  <2> QED BY <1>9, <2>1 DEF AttemptsAreJudged
<1> QED BY <1>6, <1>7, <1>8, <1>9

\* An attempt that ends without one.
LEMMA JudgedByItself ==
    ASSUME CallInv, step # "over", UNCHANGED <<input, calls>>,
           \/ outcome' = Running
           \/ outcome' = Raised /\ ~FitToRun
           \/ outcome'.status = "adverse" /\ outcome'.code \notin Sqlite
           \/ outcome'.status = "invalidated" /\ outcome'.code \in Sqlite
    PROVE  AttemptsAreJudged'
<1>1. calls' # <<>> => (~Outage(LastCall.reply))'
  <2>1. calls # <<>> => LastCall.reply \in {Answer, Unparseable}
    BY DEF CallInv, Calling
  <2>2. LastCall' = LastCall
    BY DEF LastCall
  <2>3. \A reply \in {Answer, Unparseable} : ~Outage(reply)
    BY DEF Outage, Answer, Unparseable, Retryable, TransportErrors
  <2>4. Outage(LastCall.reply)' <=> Outage(LastCall.reply)
    BY <2>2 DEF Outage
  <2> QED BY <2>1, <2>3, <2>4
<1>2. CASE outcome' = Running
  BY <1>2 DEF AttemptsAreJudged, Running
<1>3. CASE outcome' = Raised /\ ~FitToRun
  <2>1. outcome'.status = "raised" /\ ~FitToRun'
    BY <1>3, FitStays DEF Raised, Running
  <2> QED BY <2>1 DEF AttemptsAreJudged
<1>4. CASE outcome'.status = "adverse" /\ outcome'.code \notin Sqlite
  BY <1>1, <1>4 DEF AttemptsAreJudged, Sqlite
<1>5. CASE outcome'.status = "invalidated" /\ outcome'.code \in Sqlite
  BY <1>5 DEF AttemptsAreJudged, Sqlite
<1> QED BY <1>2, <1>3, <1>4, <1>5

\* What a reply may be.
OutageCodes == TransportErrors \cup {"provider_rate_limit", "provider_server_error"}
PostCodes == OutageCodes \cup {"provider_operator_action_required"}

LEMMA RepliesAre ==
    /\ \A reply \in EmbeddingReplies :
         \/ reply \in {Answer, UnusableVector, Exception}
         \/ reply.got = "error" /\ reply.code \in PostCodes
    /\ \A reply \in RerankReplies :
         \/ reply \in {Answer, Exception}
         \/ reply.got = "error" /\ reply.code \in PostCodes \cup {"rerank_failure"}
    /\ \A reply \in DecisionReplies :
         \/ reply \in {Answer, Exception, Unparseable}
         \/ reply.got = "error" /\ reply.retryable /\ reply.code \in PostCodes
    /\ \A reply \in PatchReplies :
         \/ reply \in {Answer, Exception, Miscounted}
         \/ reply.got = "error" /\ reply.retryable /\ reply.code \in PostCodes
         \/ reply = Terminal
<1>1. \A status : HttpErrorCode(status) \in PostCodes
  BY DEF HttpErrorCode, PostCodes, OutageCodes, TransportErrors
<1>2. \A reply \in PostReplies :
         \/ reply \in {Answer, Exception}
         \/ reply.got = "error" /\ reply.retryable /\ reply.code \in PostCodes
  BY <1>1 DEF PostReplies, Retryable, PostCodes, OutageCodes
<1>3. Malformed.got = "error" /\ Malformed.retryable /\ Malformed.code \in PostCodes
  BY DEF Malformed, Retryable, PostCodes, OutageCodes, TransportErrors
<1>4. NoPermutation.got = "error" /\ NoPermutation.code = "rerank_failure"
  BY DEF NoPermutation, Retryable
<1> QED BY <1>2, <1>3, <1>4 DEF EmbeddingReplies, RerankReplies, DecisionReplies, PatchReplies

LEMMA OutagesAre ==
    /\ \A reply : Outage(reply) <=> reply.code \in OutageCodes
    /\ \A reply \in {Answer, Exception, UnusableVector, Unparseable, Miscounted, Terminal} : ~Outage(reply)
    /\ OutageCodes \subseteq Technical /\ Sqlite \subseteq Technical
    /\ Technical \cap PostCodes = OutageCodes
    /\ PostCodes \subseteq SelectionCodes
    /\ \A reply \in {Answer, Exception, UnusableVector, Miscounted} : reply.got # "error"
<1>1. \A reply : Outage(reply) <=> reply.code \in OutageCodes
  BY DEF Outage, OutageCodes
<1>2. \A reply \in {Answer, Exception, UnusableVector, Unparseable, Miscounted, Terminal} :
        reply.code \notin OutageCodes
  BY DEF Answer, Exception, UnusableVector, Unparseable, Miscounted, Terminal, Retryable,
         OutageCodes, TransportErrors
<1>3. \A reply \in {Answer, Exception, UnusableVector, Miscounted} : reply.got # "error"
  BY DEF Answer, Exception, UnusableVector, Miscounted
<1>4. /\ OutageCodes \subseteq Technical /\ Sqlite \subseteq Technical
      /\ Technical \cap PostCodes = OutageCodes /\ PostCodes \subseteq SelectionCodes
  BY DEF OutageCodes, PostCodes, Technical, TechnicalCodes, SelectionCodes, ObserveCodes, TransportErrors, Sqlite
<1> QED BY <1>1, <1>2, <1>3, <1>4

LEMMA FailureIsJudged ==
    ASSUME CellType, UNCHANGED input, NEW role \in Roles, NEW reply \in Replies, Asked(role, reply),
           NEW code, FailedFor(code),
           code \in Technical => MayRepeat(role, reply),
           code \notin Technical => MayCount(reply)
    PROVE  AttemptsAreJudged'
<1>1. CASE outcome' = Raised /\ ~FitToRun
  BY <1>1, JudgedByItsCall DEF MayRaise
<1>2. CASE outcome'.code = code /\ outcome'.status = IF code \in Technical THEN "invalidated" ELSE "adverse"
  <2>1. CASE code \in Technical
    BY <1>2, <2>1, JudgedByItsCall
  <2>2. CASE code \notin Technical
    BY <1>2, <2>2, JudgedByItsCall, OutagesAre
  <2> QED BY <2>1, <2>2
<1> QED BY <1>1, <1>2 DEF FailedFor

LEMMA FailureIsJudgedAlone ==
    ASSUME CallInv, step # "over", UNCHANGED <<input, calls>>, NEW code, FailedFor(code),
           code \in Technical => code \in Sqlite
    PROVE  AttemptsAreJudged'
<1>1. CASE outcome' = Raised /\ ~FitToRun
  BY <1>1, JudgedByItself
<1>2. CASE outcome'.code = code /\ outcome'.status = IF code \in Technical THEN "invalidated" ELSE "adverse"
  <2>1. CASE code \in Technical
    BY <1>2, <2>1, JudgedByItself
  <2>2. CASE code \notin Technical
    BY <1>2, <2>2, JudgedByItself, OutagesAre
  <2> QED BY <2>1, <2>2
<1> QED BY <1>1, <1>2 DEF FailedFor

LEMMA RankingJudged ==
    ASSUME CellType, Phases, EmbedGoal \/ EmbedEvent \/ Rerank
    PROVE  AttemptsAreJudged'
<1>1. /\ input \in Inputs /\ UNCHANGED input /\ outcome = Running
      /\ "embedding" \in Roles /\ "rerank" \in Roles
      /\ EmbeddingReplies \subseteq Replies /\ RerankReplies \subseteq Replies
  BY DEF CellType, Phases, EmbedGoal, EmbedEvent, Rerank, Roles, Replies
<1>2. CASE EmbedGoal \/ EmbedEvent
  <2>1. step \in {"embed goal", "embed events"}
    BY <1>2 DEF EmbedGoal, EmbedEvent
  <2>2. PICK reply \in EmbeddingReplies :
          Asked("embedding", reply) /\ \E next : RankingGoesOn(reply, kept'.embedding, next)
    <3>1. CASE EmbedGoal
      BY <3>1, Zenon DEF EmbedGoal
    <3>2. CASE EmbedEvent
      BY <3>2, Zenon DEF EmbedEvent
    <3> QED BY <1>2, <3>1, <3>2
  <2>3. CASE reply = Answer
    BY <1>1, <2>2, <2>3, JudgedByItsCall DEF RankingGoesOn, Goes
  <2>4. CASE reply.got = "error"
    <3>1. reply.code \in PostCodes /\ reply.code \in SelectionCodes
      BY <2>4, RepliesAre, OutagesAre
    <3>2. SelectionFails(reply.code, kept'.embedding)
      BY <2>2, <2>4, OutagesAre DEF RankingGoesOn
    <3>3. FailedFor(reply.code)
      BY <1>1, <3>1, <3>2, FailsFor
    <3>4. reply.code \in Technical <=> Outage(reply)
      BY <3>1, OutagesAre
    <3> QED BY <1>1, <2>2, <3>3, <3>4, FailureIsJudged DEF MayRepeat, MayCount
  <2>5. CASE reply \in {UnusableVector, Exception}
    <3>1. outcome' = Raised
      BY <2>2, <2>5, OutagesAre DEF RankingGoesOn, Raises, Ends, Answer, UnusableVector, Exception
    <3>2. MayRaise("embedding", reply)
      BY <2>1, <2>5 DEF MayRaise
    <3> QED BY <1>1, <2>2, <3>1, <3>2, JudgedByItsCall
  <2> QED BY <2>3, <2>4, <2>5, RepliesAre
<1>3. CASE Rerank
  <2>1. PICK reply \in RerankReplies :
          /\ Asked("rerank", reply)
          /\ reply = Answer =>
               outcome' = outcome \/ (outcome' = Raised /\ ~Made("memory_decision"))
          /\ reply # Answer => RankingGoesOn(reply, ErrorTraced(kept.ranking, reply), "none")
    BY <1>3 DEF Rerank, Goes, Raises, Ends
  <2>2. step = "rerank"
    BY <1>3 DEF Rerank
  <2>3. CASE reply = Answer
    <3>1. ~Made("memory_decision") => ~FitToRun
      BY DEF Made, FitToRun, Roles
    <3>2. ~FitToRun => MayRaise("rerank", reply)
      BY DEF MayRaise
    <3> QED BY <1>1, <2>1, <2>3, <3>1, <3>2, JudgedByItsCall
  <2>4. CASE reply.got = "error"
    <3>1. /\ reply.code \in PostCodes \cup {"rerank_failure"} /\ reply.code \in SelectionCodes
          /\ "rerank_failure" \notin Technical /\ "rerank_failure" \notin OutageCodes
      BY <2>4, RepliesAre, OutagesAre
         DEF SelectionCodes, Technical, TechnicalCodes, OutageCodes, ObserveCodes, TransportErrors
    <3>2. SelectionFails(reply.code, ErrorTraced(kept.ranking, reply))
      BY <2>1, <2>4, OutagesAre DEF RankingGoesOn
    <3>3. FailedFor(reply.code)
      BY <1>1, <3>1, <3>2, FailsFor
    <3>4. reply.code \in Technical <=> Outage(reply)
      BY <3>1, OutagesAre
    <3> QED BY <1>1, <2>1, <3>3, <3>4, FailureIsJudged DEF MayRepeat, MayCount
  <2>5. CASE reply = Exception
    <3>1. outcome' = Raised
      BY <2>1, <2>5, OutagesAre DEF RankingGoesOn, Raises, Ends, Answer, Exception
    <3>2. MayRaise("rerank", reply)
      BY <2>2, <2>5 DEF MayRaise
    <3> QED BY <1>1, <2>1, <3>1, <3>2, JudgedByItsCall
  <2> QED BY <2>3, <2>4, <2>5, RepliesAre
<1> QED BY <1>2, <1>3

\* The codes observe makes of a reply are those it has.
LEMMA ObserveCodesAre ==
    /\ \A reply : reply.code \in PostCodes => ObserveError(reply) = reply.code
    /\ \A reply : reply.retryable => DeciderError(reply) = reply.code
    /\ \A code \in PostCodes : AfterRepair(code) = code
    /\ Unparseable.retryable /\ Unparseable.code = "model_output_unparseable"
    /\ AfterRepair("model_output_unparseable") = "model_output_unparseable_after_repair"
<1>1. PostCodes \subseteq ObserveCodes /\ "model_output_unparseable" \notin PostCodes
  BY DEF PostCodes, OutageCodes, ObserveCodes, TransportErrors
<1> QED BY <1>1 DEF ObserveError, DeciderError, AfterRepair, Unparseable, Retryable

LEMMA ClaimJudged ==
    ASSUME CallInv, Claim \/ StoreFails \/ CompileFails
    PROVE  AttemptsAreJudged'
<1>1. /\ input \in Inputs /\ UNCHANGED <<input, calls>> /\ outcome = Running
      /\ step # "over"
  BY DEF CallInv, CellType, Phases, Claim, StoreFails, CompileFails, Observing
<1>2. \/ outcome' = outcome
      \/ \E code \in {"out_of_order", "storage_failure"} \cup Sqlite : RuntimeFails(code)
  <2>1. CASE Claim
    BY <2>1 DEF Claim, Goes
  <2>2. CASE StoreFails
    BY <2>2 DEF StoreFails, Sqlite
  <2>3. CASE CompileFails
    BY <2>3 DEF CompileFails
  <2> QED BY <2>1, <2>2, <2>3
<1>3. ASSUME NEW code \in {"out_of_order", "storage_failure"} \cup Sqlite, RuntimeFails(code)
      PROVE  AttemptsAreJudged'
  <2>1. code \in SelectionCodes
    BY DEF SelectionCodes, Sqlite
  <2>2. code \in Technical => code \in Sqlite
    BY DEF Technical, TechnicalCodes, ObserveCodes, TransportErrors
  <2> QED BY <1>1, <1>3, <2>1, <2>2, RuntimeFailsFor, FailureIsJudgedAlone
<1> QED BY <1>1, <1>2, <1>3, JudgedByItself

\* An embedding, to observe: retrieved, or of a memory that is to be stored.
LEMMA ObserveEmbeds ==
    ASSUME CellType, UNCHANGED input, outcome = Running,
           step \in {"retrieve", "embed memory"},
           NEW reply \in EmbeddingReplies, NEW next,
           Asked("embedding", reply), ObserveGoesOn(reply, next)
    PROVE  AttemptsAreJudged'
<1>1. /\ input \in Inputs /\ "embedding" \in Roles /\ reply \in Replies
  BY DEF CellType, Roles, Replies
<1>2. CASE reply = Answer
  BY <1>1, <1>2, JudgedByItsCall DEF ObserveGoesOn, Goes
<1>3. CASE reply.got = "error"
  <2>1. reply.code \in PostCodes /\ reply.code \in SelectionCodes
    BY <1>3, RepliesAre, OutagesAre
  <2>2. RuntimeFails(reply.code)
    BY <1>3, <2>1, OutagesAre, ObserveCodesAre DEF ObserveGoesOn
  <2>3. FailedFor(reply.code)
    BY <1>1, <2>1, <2>2, RuntimeFailsFor
  <2>4. reply.code \in Technical <=> Outage(reply)
    BY <2>1, OutagesAre
  <2> QED BY <1>1, <2>3, <2>4, FailureIsJudged DEF MayRepeat, MayCount
<1>4. CASE reply = UnusableVector
  <2> DEFINE code == "provider_http_response_unparseable"
  <2>1. code \in Technical /\ code \in SelectionCodes
    BY DEF Technical, TechnicalCodes, SelectionCodes, ObserveCodes, TransportErrors
  <2>2. RuntimeFails(code)
    BY <1>4, OutagesAre DEF ObserveGoesOn, UnusableVector, Answer
  <2> HIDE DEF code
  <2>3. FailedFor(code)
    BY <1>1, <2>1, <2>2, RuntimeFailsFor
  <2> QED BY <1>1, <1>4, <2>1, <2>3, FailureIsJudged DEF MayRepeat
<1>5. CASE reply = Exception
  <2>1. outcome' = Raised
    BY <1>5, OutagesAre DEF ObserveGoesOn, Raises, Ends, Answer, UnusableVector, Exception
  <2>2. MayRaise("embedding", reply)
    BY <1>5 DEF MayRaise
  <2> QED BY <1>1, <2>1, <2>2, JudgedByItsCall
<1> QED BY <1>2, <1>3, <1>4, <1>5, RepliesAre

\* After an answer, an event is completed or the store refuses it.
LEMMA AnswerCompletes ==
    ASSUME CellType, UNCHANGED input, outcome = Running,
           NEW role \in Roles, Asked(role, Answer), Answer \in Replies,
           outcome' = outcome \/ \E result : Completed(result)
    PROVE  AttemptsAreJudged'
<1>1. ASSUME NEW result, Completed(result), outcome' # outcome
      PROVE  RuntimeFails("lease_lost")
  BY <1>1 DEF Completed, Goes
<1>2. "lease_lost" \in SelectionCodes /\ "lease_lost" \notin Technical
  BY DEF SelectionCodes, Technical, TechnicalCodes, ObserveCodes, TransportErrors
<1>3. RuntimeFails("lease_lost") => FailedFor("lease_lost")
  BY <1>2, RuntimeFailsFor DEF CellType
<1>4. MayCount(Answer)
  BY OutagesAre DEF MayCount
<1>5. CASE outcome' = outcome
  BY <1>5, JudgedByItsCall
<1>6. CASE RuntimeFails("lease_lost")
  BY <1>2, <1>3, <1>4, <1>6, FailureIsJudged
<1> QED BY <1>1, <1>5, <1>6

LEMMA DecidingJudged ==
    ASSUME CellType, Phases, Decide \/ Repair
    PROVE  AttemptsAreJudged'
<1>1. /\ input \in Inputs /\ UNCHANGED input /\ outcome = Running
      /\ "memory_decision" \in Roles /\ DecisionReplies \subseteq Replies
      /\ step \in {"decide", "repair"}
  BY DEF CellType, Phases, Decide, Repair, Roles, Replies
<1>2. PICK reply \in DecisionReplies :
        /\ Asked("memory_decision", reply)
        /\ \/ reply = Answer /\ \E op \in Operations, repaired \in BOOLEAN : OnDecision(op, repaired)
           \/ reply = Exception /\ Raises
           \/ reply = Unparseable /\ step = "decide" /\ Goes("repair")
           \/ /\ step = "decide" /\ reply \notin {Answer, Exception, Unparseable}
              /\ RuntimeFails(DeciderError(reply))
           \/ /\ step = "repair" /\ reply \notin {Answer, Exception}
              /\ RuntimeFails(AfterRepair(DeciderError(reply)))
  <2>0. Answer.got = "answer" /\ Unparseable.got = "error" /\ Exception.got = "exception"
    BY DEF Answer, Unparseable, Retryable, Exception
  <2>1. CASE Decide
    <3>1. PICK reply \in DecisionReplies :
            /\ Asked("memory_decision", reply)
            /\ IF reply = Answer THEN \E op \in Operations : OnDecision(op, FALSE)
               ELSE IF reply.got = "exception" THEN Raises
               ELSE IF reply = Unparseable THEN Goes("repair")
               ELSE RuntimeFails(DeciderError(reply))
      BY <2>1 DEF Decide
    <3>2. reply.got = "exception" => reply = Exception
      BY <2>0, RepliesAre
    <3>3. step = "decide"
      BY <2>1 DEF Decide
    <3> QED BY <2>0, <3>1, <3>2, <3>3
  <2>2. CASE Repair
    <3>1. PICK reply \in DecisionReplies :
            /\ Asked("memory_decision", reply)
            /\ IF reply = Answer THEN \E op \in Operations : OnDecision(op, TRUE)
               ELSE IF reply.got = "exception" THEN Raises
               ELSE RuntimeFails(AfterRepair(DeciderError(reply)))
      BY <2>2 DEF Repair
    <3>2. reply.got = "exception" => reply = Exception
      BY <2>0, RepliesAre
    <3>3. step = "repair"
      BY <2>2 DEF Repair
    <3> QED BY <2>0, <3>1, <3>2, <3>3
  <2> QED BY <2>1, <2>2
<1>3. CASE reply = Answer /\ \E op \in Operations, repaired \in BOOLEAN : OnDecision(op, repaired)
  <2>1. outcome' = outcome \/ \E result : Completed(result)
    BY <1>3, DecisionOf
  <2> QED BY <1>1, <1>2, <1>3, <2>1, AnswerCompletes
<1>4. CASE reply = Exception /\ Raises
  <2>1. MayRaise("memory_decision", reply)
    BY <1>1, <1>4 DEF MayRaise
  <2> QED BY <1>1, <1>2, <1>4, <2>1, JudgedByItsCall DEF Raises, Ends
<1>5. CASE Goes("repair")
  BY <1>1, <1>2, <1>5, JudgedByItsCall DEF Goes
<1>6. CASE reply \notin {Answer, Exception, Unparseable}
           /\ (RuntimeFails(DeciderError(reply)) \/ RuntimeFails(AfterRepair(DeciderError(reply))))
  <2>1. reply.code \in PostCodes /\ reply.code \in SelectionCodes /\ reply.retryable
    BY <1>6, RepliesAre, OutagesAre
  <2>2. RuntimeFails(reply.code)
    BY <1>6, <2>1, ObserveCodesAre
  <2>3. FailedFor(reply.code)
    BY <1>1, <2>1, <2>2, RuntimeFailsFor
  <2>4. reply.code \in Technical <=> Outage(reply)
    BY <2>1, OutagesAre
  <2> QED BY <1>1, <1>2, <2>3, <2>4, FailureIsJudged DEF MayRepeat, MayCount
<1>7. CASE reply = Unparseable /\ step = "repair" /\ RuntimeFails(AfterRepair(DeciderError(reply)))
  <2> DEFINE code == "model_output_unparseable_after_repair"
  <2>1. code \in Technical /\ code \in SelectionCodes
    BY DEF Technical, TechnicalCodes, SelectionCodes, ObserveCodes, TransportErrors
  <2>2. RuntimeFails(code)
    BY <1>7, ObserveCodesAre
  <2> HIDE DEF code
  <2>3. FailedFor(code)
    BY <1>1, <2>1, <2>2, RuntimeFailsFor
  <2> QED BY <1>1, <1>2, <1>7, <2>1, <2>3, FailureIsJudged DEF MayRepeat
<1> QED BY <1>2, <1>3, <1>4, <1>5, <1>6, <1>7

LEMMA ObservingJudged ==
    ASSUME CellType, Phases, Retrieve \/ EmbedMemory
    PROVE  AttemptsAreJudged'
<1>1. UNCHANGED input /\ outcome = Running /\ step \in {"retrieve", "embed memory"}
  BY DEF Phases, Retrieve, EmbedMemory
<1>2. PICK reply \in EmbeddingReplies :
        /\ Asked("embedding", reply)
        /\ \/ \E next : ObserveGoesOn(reply, next)
           \/ reply = Answer /\ Completed(decided)
  BY Zenon DEF Retrieve, EmbedMemory
<1>3. CASE \E next : ObserveGoesOn(reply, next)
  BY <1>1, <1>2, <1>3, ObserveEmbeds
<1>4. CASE reply = Answer /\ Completed(decided)
  <2>1. "embedding" \in Roles /\ Answer \in Replies
    BY <1>4 DEF Roles, Replies
  <2> QED BY <1>1, <1>2, <1>4, <2>1, AnswerCompletes
<1> QED BY <1>2, <1>3, <1>4

LEMMA BeginJudged ==
    ASSUME CallInv, NothingToSelect \/ Begin \/ Select \/ CompileNothing
    PROVE  AttemptsAreJudged'
<1>1. /\ UNCHANGED <<input, calls>> /\ outcome = Running /\ step # "over"
      /\ ToSet(ranked) \subseteq Events
  BY DEF CallInv, CellType, Phases, NothingToSelect, Begin, Select, CompileNothing
<1>2. outcome' = outcome \/ (outcome' = Raised /\ ~FitToRun)
  <2>0. FitToRun => /\ Events # {} /\ input.variant \in Variants /\ input.tokenizer
                    /\ \A role \in Roles : Made(role)
                    /\ \A e \in Events : TimeOf(e) # Unreadable
    BY DEF FitToRun, Made, TimeOf
  <2>1. CASE NothingToSelect
    BY <2>0, <2>1 DEF NothingToSelect, Raises, Ends
  <2>2. CASE Begin
    <3>1. input.variant \in Variants <=>
            \/ input.variant = "raw_full_history" \/ input.variant = "recallpack"
            \/ input.variant \in Selectors
      BY DEF Variants
    <3>2. "embedding" \in Roles /\ "rerank" \in Roles
      BY DEF Roles
    <3>3. \/ outcome' = outcome
          \/ /\ outcome' = Raised
             /\ \/ ~input.tokenizer
                \/ \E role \in Roles : ~Made(role)
                \/ input.variant \notin Variants
      BY <2>2, <3>1, <3>2 DEF Begin, Goes, Raises, Ends
    <3> QED BY <2>0, <3>3
  <2>3. CASE Select
    BY <1>1, <2>0, <2>3 DEF Select, Goes, Raises, Ends
  <2>4. CASE CompileNothing
    BY <2>0, <2>4 DEF CompileNothing, Goes, Raises, Ends
  <2> QED BY <2>1, <2>2, <2>3, <2>4
<1> QED BY <1>1, <1>2, JudgedByItself

\* Whatever fails in recallpack's compile counts against it.
LEMMA CompilingJudged ==
    ASSUME CellType, Phases, CompileEmbed \/ CompileRerank
    PROVE  AttemptsAreJudged'
<1>1. /\ input \in Inputs /\ UNCHANGED input /\ outcome = Running
      /\ "embedding" \in Roles /\ "rerank" \in Roles
      /\ EmbeddingReplies \subseteq Replies /\ RerankReplies \subseteq Replies
      /\ step \in {"compile", "compile rerank"}
  BY DEF CellType, Phases, CompileEmbed, CompileRerank, Roles, Replies
<1>2. PICK role \in {"embedding", "rerank"}, reply \in EmbeddingReplies \cup RerankReplies :
        /\ Asked(role, reply)
        /\ \/ outcome' = outcome
           \/ (outcome' = Raised /\ ~input.tokenizer)
           \/ \E code \in {"embedding_failure", "rerank_failure"} : RuntimeFails(code)
  <2>1. CASE CompileEmbed
    BY <2>1 DEF CompileEmbed, Goes
  <2>2. CASE CompileRerank
    <3>1. PICK reply \in RerankReplies :
            /\ Asked("rerank", reply)
            /\ \/ RuntimeFails("rerank_failure")
               \/ ~input.tokenizer /\ Raises
               \/ Goes("generate")
      BY <2>2 DEF CompileRerank
    <3> QED BY <3>1 DEF Raises, Ends, Goes
  <2> QED BY <2>1, <2>2
<1>3. role \in Roles /\ reply \in Replies
  BY <1>1
<1>4. CASE outcome' = Raised /\ ~input.tokenizer
  <2>1. MayRaise(role, reply)
    BY <1>4 DEF MayRaise, FitToRun
  <2> QED BY <1>1, <1>2, <1>3, <1>4, <2>1, JudgedByItsCall
<1>5. ASSUME NEW code \in {"embedding_failure", "rerank_failure"}, RuntimeFails(code)
      PROVE  AttemptsAreJudged'
  <2>1. code \in SelectionCodes /\ code \notin Technical
    BY DEF SelectionCodes, Technical, TechnicalCodes, ObserveCodes, TransportErrors
  <2>2. FailedFor(code)
    BY <1>1, <1>5, <2>1, RuntimeFailsFor
  <2>3. MayCount(reply)
    BY <1>1 DEF MayCount
  <2> QED BY <1>1, <1>2, <1>3, <2>1, <2>2, <2>3, FailureIsJudged
<1> QED BY <1>1, <1>2, <1>3, <1>4, <1>5, JudgedByItsCall

\* The context a patch is asked for is of events before the hand-off.
ContextOfEvents ==
    step = "generate" => context \in Seq(Events) /\ Len(context) <= Len(input.events)

LEMMA RefusalJudged ==
    ASSUME CallInv, ContextOfEvents, RefuseRequest
    PROVE  AttemptsAreJudged'
<1>1. /\ UNCHANGED <<input, calls, memories, context>> /\ outcome' = Raised
      /\ step = "generate" /\ CellType
      /\ ~Made("patch_generation") \/ ~ValidRequest(input.goal, Texts)
  BY DEF RefuseRequest, Raises, Ends, CallInv
<1>2. context \in Seq(Events) /\ Len(context) <= Len(input.events)
  BY <1>1 DEF ContextOfEvents
<1>3. FitToRun => FromMemories /\ \E i \in DOMAIN Texts : ~Writable(Texts[i])
  <2> SUFFICES ASSUME FitToRun PROVE FromMemories /\ \E i \in DOMAIN Texts : ~Writable(Texts[i])
    OBVIOUS
  <2>1. /\ Made("patch_generation") /\ Writable(input.goal) /\ Len(input.events) <= MaxContextItems
        /\ \A e \in Events : Writable(input.events[e].text)
    BY DEF FitToRun, Made, Roles
  <2>2. DOMAIN Texts = DOMAIN context
    BY DEF Texts
  <2>3. PICK i \in DOMAIN Texts : ~Writable(Texts[i])
    <3>1. ~ValidRequest(input.goal, Texts)
      BY <1>1, <2>1
    <3>2. Len(Texts) <= MaxContextItems
      <4>1. Len(Texts) = Len(context)
        BY <1>2 DEF Texts
      <4>2. Len(context) \in Nat /\ Len(input.events) \in Nat
        BY <1>1, <1>2, EventsAreNumbered DEF CellType
      <4> QED BY <1>2, <2>1, <4>1, <4>2, ContextAssumption
    <3> QED BY <2>1, <3>1, <3>2 DEF ValidRequest
  <2>4. ~FromMemories => Texts[i] = input.events[context[i]].text
    BY <2>2, <2>3 DEF Texts
  <2>5. context[i] \in Events
    BY <1>2, <2>2, <2>3
  <2> QED BY <2>1, <2>3, <2>4, <2>5
<1>4. (FitToRun => FromMemories /\ \E i \in DOMAIN Texts : ~Writable(Texts[i]))'
  <2>1. Texts' = Texts /\ FromMemories' = FromMemories
    BY <1>1 DEF Texts, FromMemories
  <2> QED BY <1>1, <1>3, <2>1, FitStays
<1>5. outcome'.status = "raised"
  BY <1>1, Statuses
<1> QED BY <1>4, <1>5 DEF AttemptsAreJudged

\* What the validator and the contract leave of a patch.
LEMMA AcceptedPatch ==
    ASSUME NEW files, NEW allowed, PatchError(files, allowed) = "none"
    PROVE  /\ PathsOf(files) \subseteq allowed /\ ~Twice(files)
           /\ \E i \in DOMAIN files : files[i].content # "same"
<1>1. ContractError(files, allowed) = "none"
  BY DEF PatchError, ValidatorError
<1> QED BY <1>1 DEF ContractError, PathsOf

LEMMA PatchErrorsAre ==
    ASSUME NEW files, NEW allowed
    PROVE  PatchError(files, allowed) \in
             {"none", "empty_patch", "path_not_allowed", "duplicate_path", "unsafe_python_content"}
BY DEF PatchError, ContractError, ValidatorError

LEMMA PatchJudgement ==
    ASSUME CellType, Phases, GeneratePatch
    PROVE  AttemptsAreJudged'
<1>1. PICK reply \in PatchReplies :
        /\ Asked("patch_generation", reply)
        /\ CASE reply = Answer -> \E files \in Patches : PatchJudged(files)
             [] reply = Miscounted -> Raises
             [] reply.got = "error" -> PatchFails(reply)
             [] reply.got = "exception" ->
                  PatchEnds("adverse", "patch_generation", "provider_exception", reply, <<>>, <<>>)
  BY DEF GeneratePatch
<1>2. /\ input \in Inputs /\ UNCHANGED input /\ "patch_generation" \in Roles /\ reply \in Replies
  BY DEF CellType, GeneratePatch, Roles, Replies
<1>3. ASSUME NEW status, NEW stage, NEW code, NEW files, NEW paths,
             PatchEnds(status, stage, code, reply, files, paths)
      PROVE  \/ outcome' = Raised /\ (paths = <<>> /\ files = <<>> /\ code \in OutcomeCodes => ~FitToRun)
             \/ outcome'.status = status /\ outcome'.code = code /\ outcome'.files = files
  <2> DEFINE result == Ended(status, stage, code, PatchTraced(reply), files)
  <2>1. result.status = status /\ result.code = code /\ result.files = files
    BY DEF Ended
  <2>2. \/ outcome' = Raised /\ ~Recordable(input, result, paths)
        \/ outcome' = result
    BY <1>3 DEF PatchEnds, EndsRecorded, Ends, Raises
  <2> HIDE DEF result
  <2> QED BY <2>1, <2>2, FitIsRecordable
<1>4. CASE reply = Answer
  <2>1. PICK files \in Patches : PatchJudged(files)
    BY <1>1, <1>4 DEF Answer, Miscounted
  <2> DEFINE error == PatchError(files, input.allowed)
             paths == [i \in DOMAIN files |-> files[i].path]
  <2>2. /\ error = "none" =>
             PatchEnds("incomplete", "isolated_evaluation", "not_run", Answer, files, paths)
        /\ error # "none" => PatchEnds("adverse", "patch_generation", error, Answer, <<>>, paths)
    BY <2>1 DEF PatchJudged
  <2>3. MayRaise("patch_generation", Answer) /\ MayCount(Answer)
    BY OutagesAre DEF MayRaise, MayCount
  <2>4. CASE error # "none"
    <3>1. error \notin Sqlite
      BY PatchErrorsAre DEF Sqlite
    <3> HIDE DEF error, paths
    <3>2. outcome' = Raised \/ (outcome'.status = "adverse" /\ outcome'.code = error)
      BY <1>3, <1>4, <2>2, <2>4
    <3> QED BY <1>1, <1>2, <1>4, <2>3, <3>1, <3>2, JudgedByItsCall
  <2>5. CASE error = "none"
    <3>1. outcome' = Raised \/ (outcome'.status = "incomplete" /\ outcome'.files = files)
      <4> HIDE DEF error, paths
      <4> QED BY <1>3, <1>4, <2>2, <2>5
    <3>2. CASE outcome' = Raised
      BY <1>1, <1>2, <1>4, <2>3, <3>2, JudgedByItsCall
    <3>3. CASE outcome'.status = "incomplete" /\ outcome'.files = files
      <4>1. /\ PathsOf(files) \subseteq input.allowed /\ ~Twice(files)
            /\ \E i \in DOMAIN files : files[i].content # "same"
        BY <2>5, AcceptedPatch
      <4>2. PathsOf(outcome'.files) \subseteq PathsOf(input'.files)
        BY <1>2, <3>3, <4>1, ContractFacts
      <4> QED BY <3>3, <4>1, <4>2 DEF AttemptsAreJudged
    <3> QED BY <3>1, <3>2, <3>3
  <2> QED BY <2>4, <2>5
<1>5. CASE reply = Miscounted
  <2>1. outcome' = Raised
    BY <1>1, <1>5 DEF Raises, Ends, Answer, Miscounted
  <2>2. MayRaise("patch_generation", reply)
    BY <1>5 DEF MayRaise
  <2> QED BY <1>1, <1>2, <2>1, <2>2, JudgedByItsCall
<1>6. CASE reply.got = "error"
  <2>0. reply # Answer /\ reply # Miscounted
    BY <1>6, OutagesAre
  <2> DEFINE status == IF reply.retryable /\ reply.code \in input.codes
                       THEN "invalidated" ELSE "adverse"
  <2>1. PatchEnds(status, "patch_generation", reply.code, reply, <<>>, <<>>)
    BY <1>1, <1>6, <2>0 DEF PatchFails
  <2>2. \/ reply.code \in PostCodes /\ reply.code \in input.codes /\ reply.retryable
        \/ reply = Terminal /\ ~Terminal.retryable /\ Terminal.code = "provider_terminal_failure"
    <3>1. PostCodes \subseteq TechnicalCodes
      BY DEF TechnicalCodes, PostCodes, OutageCodes, ObserveCodes
    <3>2. \/ reply.retryable /\ reply.code \in PostCodes
          \/ reply = Terminal
      <4>1. Exception.got # "error"
        BY DEF Exception
      <4> QED BY <1>6, <2>0, <4>1, RepliesAre
    <3> QED BY <1>2, <3>1, <3>2, ContractFacts DEF Terminal
  <2>3. reply.code \in OutcomeCodes
    BY <2>2, OutagesAre DEF OutcomeCodes
  <2>4. \/ outcome' = Raised /\ ~FitToRun
        \/ outcome'.status = status /\ outcome'.code = reply.code
    <3> HIDE DEF status
    <3> QED BY <1>3, <2>1, <2>3
  <2>5. CASE outcome' = Raised /\ ~FitToRun
    <3>1. MayRaise("patch_generation", reply)
      BY <2>5 DEF MayRaise
    <3> QED BY <1>1, <1>2, <2>5, <3>1, JudgedByItsCall
  <2>6. CASE outcome'.status = status /\ outcome'.code = reply.code /\ status = "invalidated"
    <3>1. MayRepeat("patch_generation", reply)
      BY <1>6 DEF MayRepeat
    <3> QED BY <1>1, <1>2, <2>6, <3>1, JudgedByItsCall
  <2>7. CASE outcome'.status = status /\ outcome'.code = reply.code /\ status = "adverse"
    <3>1. reply = Terminal /\ reply.code = "provider_terminal_failure"
      BY <2>2, <2>7
    <3>2. MayCount(reply) /\ reply.code \notin Sqlite
      BY <3>1, OutagesAre DEF MayCount, Sqlite
    <3> QED BY <1>1, <1>2, <2>7, <3>2, JudgedByItsCall
  <2> QED BY <2>4, <2>5, <2>6, <2>7
<1>7. CASE reply = Exception
  <2>1. PatchEnds("adverse", "patch_generation", "provider_exception", reply, <<>>, <<>>)
    BY <1>1, <1>7 DEF Exception, Answer, Miscounted
  <2>2. "provider_exception" \in OutcomeCodes /\ "provider_exception" \notin Sqlite
    BY DEF OutcomeCodes, Sqlite
  <2>3. \/ outcome' = Raised /\ ~FitToRun
        \/ outcome'.status = "adverse" /\ outcome'.code = "provider_exception"
    BY <1>3, <2>1, <2>2
  <2>4. MayCount(reply) /\ (~FitToRun => MayRaise("patch_generation", reply))
    BY <1>7, OutagesAre DEF MayCount, MayRaise
  <2> QED BY <1>1, <1>2, <2>2, <2>3, <2>4, JudgedByItsCall
<1>8. Terminal.got = "error"
  BY DEF Terminal
<1> QED BY <1>4, <1>5, <1>6, <1>7, <1>8, RepliesAre

LEMMA CellJudged ==
    ASSUME CallInv, ContextOfEvents, CellNext
    PROVE  AttemptsAreJudged'
BY BeginJudged, RankingJudged, ClaimJudged, DecidingJudged, ObservingJudged, CompilingJudged,
   RefusalJudged, PatchJudgement DEF CellNext, CallInv

---------------------------------------------------------------------------
\* The context is current

LEMMA SeqsOf ==
    ASSUME NEW S, IsFiniteSet(S), NEW order \in SetToSeqs(S)
    PROVE  /\ order \in Seq(S) /\ Len(order) = Cardinality(S)
           /\ IsInjective(order) /\ ToSet(order) = S
<1>1. Cardinality(S) \in Nat
  BY FS_CardinalityType
<1>2. /\ order \in [1..Cardinality(S) -> S]
      /\ \A i, j \in 1..Cardinality(S) : i # j => order[i] # order[j]
  BY DEF SetToSeqs
<1>3. order \in Seq(S) /\ Len(order) = Cardinality(S) /\ DOMAIN order = 1..Cardinality(S)
  BY <1>1, <1>2
<1>4. ToSet(order) \subseteq S /\ IsInjective(order)
  BY <1>2, <1>3 DEF ToSet, IsInjective
<1>5. IsFiniteSet(ToSet(order)) /\ Cardinality(ToSet(order)) = Cardinality(S)
  <2>1. order \in Bijection(1..Cardinality(S), ToSet(order))
    BY <1>2, <1>3 DEF Bijection, Injection, Surjection, ToSet, IsInjective
  <2>2. ExistsBijection(1..Cardinality(S), ToSet(order))
    BY <2>1 DEF ExistsBijection
  <2> QED BY <1>1, <2>2, FS_CountingElements, FS_NatBijection, FS_CardinalityType
<1>6. ToSet(order) = S
  BY <1>4, <1>5, FS_Subset
<1> QED BY <1>3, <1>4, <1>6

\* The memories are of events that were ranked, where ranked events are
\* observed only; and there are none before.
Picking ==
    /\ ranked \in Seq(Events) /\ IsInjective(ranked)
    /\ input.variant = "recall_time_resolver" =>
         /\ step \in Observing => at \in ToSet(ranked)
         /\ \A e \in Events : memories[e] # NoMemory => e \in ToSet(ranked) /\ step \notin Before

\* Any order a context may be packed in.
Ordering(order) ==
    /\ order \in Seq(Events) /\ IsInjective(order) /\ Len(order) <= Len(input.events)

LEMMA SomeOrder ==
    ASSUME CellType, NEW S \in SUBSET Events
    PROVE  /\ \A order \in SetToSeqs(S) : Ordering(order) /\ ToSet(order) = S
           /\ \A order \in Rankings(S) :
                /\ Ordering(order) /\ ToSet(order) \subseteq S
                /\ Cardinality(S) <= TopN => ToSet(order) = S
<1>1. /\ IsFiniteSet(S) /\ Cardinality(S) \in Nat /\ Cardinality(S) <= Len(input.events)
      /\ Len(input.events) \in Nat
  BY EventsAreNumbered, FS_Subset, FS_CardinalityType DEF CellType
<1>2. ASSUME NEW order \in SetToSeqs(S) PROVE Ordering(order) /\ ToSet(order) = S
  <2>1. /\ order \in Seq(S) /\ Len(order) = Cardinality(S)
        /\ IsInjective(order) /\ ToSet(order) = S
    BY <1>1, SeqsOf
  <2> QED BY <1>1, <2>1 DEF Ordering
<1>3. ASSUME NEW order \in Rankings(S)
      PROVE  /\ Ordering(order) /\ ToSet(order) \subseteq S
             /\ Cardinality(S) <= TopN => ToSet(order) = S
  <2>1. /\ ToSet(order) \subseteq S
        /\ order \in Seq(S) /\ Len(order) <= Cardinality(S)
        /\ Cardinality(S) <= TopN => ToSet(order) = S
        /\ \A i, j \in DOMAIN order : i # j => order[i] # order[j]
    BY <1>1, RankingsOf
  <2>2. order \in Seq(Events) /\ Len(order) \in Nat
    BY <2>1
  <2>3. Len(order) <= Len(input.events)
    BY <1>1, <2>1, <2>2
  <2> QED BY <2>1, <2>2, <2>3 DEF Ordering, IsInjective
<1> QED BY <1>2, <1>3

LEMMA InOrderOf ==
    /\ \A S : AsRanked(S) \subseteq SetToSeqs(S)
    /\ LatestFirst \subseteq SetToSeqs(ToSet(ranked))
BY Zenon DEF AsRanked, LatestFirst, InOrder

LEMMA PickRerank ==
    ASSUME CellType, Phases, Picking, Rerank
    PROVE  Picking'
<1>1. /\ step = "rerank" /\ UNCHANGED <<input, memories>> /\ Events # {}
  BY DEF Phases, Rerank, Ranking
<1>2. \/ step' = "over" /\ ranked' = ranked
      \/ \E order \in Rankings(Events) :
           /\ ranked' = order
           /\ input.variant = "recall_time_resolver" => step' \in {"observe", "over"} /\ at' = Least(ToSet(order))
           /\ input.variant # "recall_time_resolver" => step' = "select"
  <2>1. PICK reply \in RerankReplies :
          /\ reply = Answer => \E order \in Rankings(Events) :
               /\ ranked' = order
               /\ IF input.variant # "recall_time_resolver"
                  THEN Goes("select") /\ UNCHANGED at
                  ELSE /\ IF Made("memory_decision") THEN Goes("observe") ELSE Raises
                       /\ at' = Least(ToSet(order))
          /\ reply # Answer => /\ RankingGoesOn(reply, ErrorTraced(kept.ranking, reply), "none")
                               /\ UNCHANGED <<ranked, at>>
    BY DEF Rerank
  <2>2. CASE reply = Answer
    BY <2>1, <2>2 DEF Goes, Raises, Ends
  <2>3. CASE reply # Answer
    BY <2>1, <2>3, RankingEnds
  <2> QED BY <2>2, <2>3
<1>3. \A e \in Events : input.variant = "recall_time_resolver" => memories[e] = NoMemory
  BY <1>1 DEF Picking, Before, Ranking
<1>4. Events' = Events
  BY <1>1 DEF Events
<1>5. CASE step' = "over" /\ ranked' = ranked
  BY <1>1, <1>3, <1>4, <1>5 DEF Picking, Observing
<1>6. ASSUME NEW order \in Rankings(Events), ranked' = order,
             input.variant = "recall_time_resolver" => step' \in {"observe", "over"} /\ at' = Least(ToSet(order))
      PROVE  Picking'
  <2>1. /\ order \in Seq(Events) /\ IsInjective(order)
    BY SomeOrder DEF Ordering
  <2>2. Least(ToSet(order)) \in ToSet(order)
    <3>1. IsFiniteSet(Events) /\ Events \subseteq Nat
      BY EventsAreNumbered DEF CellType
    <3>2. ToSet(order) \subseteq Events /\ ToSet(order) # {}
      BY <1>1, <3>1, RankingsOf
    <3> QED BY <3>1, <3>2, LeastOf
  <2> QED BY <1>1, <1>3, <1>4, <1>6, <2>1, <2>2 DEF Picking
<1> QED BY <1>2, <1>5, <1>6

LEMMA PickCompleted ==
    ASSUME CellType, Picking, step \in Observing, UNCHANGED <<input, ranked>>,
           NEW result, Completed(result)
    PROVE  Picking'
<1>1. Events' = Events
  BY DEF Events
<1>2. CASE ~Storable(result)
  <2>1. step' = "over" /\ UNCHANGED memories
    BY <1>2, RuntimeEnds DEF Completed
  <2> QED BY <1>1, <2>1 DEF Picking, Observing, Before, Ranking
<1>3. CASE Storable(result)
  <2>1. \A e \in Events : memories'[e] # NoMemory => e = at \/ memories[e] # NoMemory
    BY <1>3 DEF Completed
  <2>2. step' \notin Before /\ (step' \in Observing => at' = Least(Later(at)) /\ Later(at) # {})
    BY <1>3 DEF Completed, Goes, Before, Ranking, Observing
  <2>3. step' \in Observing => at' \in Observed
    <3>1. Later(at) \subseteq Observed /\ Observed \subseteq Nat
      BY ObservedAreEvents DEF Later
    <3>2. Later(at) # {} => Least(Later(at)) \in Later(at)
      BY <3>1, LeastOf
    <3> QED BY <2>2, <3>1, <3>2
  <2>4. input.variant = "recall_time_resolver" => Observed = ToSet(ranked)
    BY DEF Observed
  <2> QED BY <1>1, <2>1, <2>2, <2>3, <2>4 DEF Picking
<1> QED BY <1>2, <1>3

LEMMA PickDecided ==
    ASSUME CellType, Picking, Decide \/ Repair \/ EmbedMemory
    PROVE  Picking'
<1>1. UNCHANGED <<input, ranked>> /\ step \in Observing
  BY DEF Decide, Repair, EmbedMemory, Observing
<1>2. \/ \E result : Completed(result)
      \/ UNCHANGED <<at, memories>> /\ step' \notin Before
  <2>1. ASSUME NEW op \in Operations, NEW repaired \in BOOLEAN, OnDecision(op, repaired)
        PROVE  \/ \E result : Completed(result)
               \/ UNCHANGED <<at, memories>> /\ step' \notin Before
    <3> DEFINE result == NormalizedOperation(op, input.events[at].actor, SequenceNo(at), Candidates)
    <3> HIDE DEF result
    <3>1. IF NeedsRepair(result, repaired) THEN Goes("repair") /\ UNCHANGED <<at, memories>>
          ELSE IF result.operation = "write"
          THEN Goes("embed memory") /\ UNCHANGED <<at, memories>>
          ELSE Completed(result)
      BY <2>1 DEF OnDecision, result
    <3> QED BY <3>1 DEF Goes, Before, Ranking
  <2>2. CASE Decide
    <3>1. PICK reply \in DecisionReplies :
            \/ \E op \in Operations : OnDecision(op, FALSE)
            \/ UNCHANGED <<at, memories>> /\ (Raises \/ Goes("repair") \/ RuntimeFails(DeciderError(reply)))
      BY <2>2 DEF Decide
    <3> QED BY <2>1, <3>1, RuntimeEnds DEF Raises, Ends, Goes, Before, Ranking
  <2>3. CASE Repair
    <3>1. PICK reply \in DecisionReplies :
            \/ \E op \in Operations : OnDecision(op, TRUE)
            \/ UNCHANGED <<at, memories>> /\ (Raises \/ RuntimeFails(AfterRepair(DeciderError(reply))))
      BY <2>3 DEF Repair
    <3> QED BY <2>1, <3>1, RuntimeEnds DEF Raises, Ends, Before, Ranking
  <2>4. CASE EmbedMemory
    <3>1. PICK reply \in EmbeddingReplies :
            \/ Completed(decided)
            \/ UNCHANGED <<at, memories>> /\ reply # Answer /\ ObserveGoesOn(reply, "none")
      BY <2>4 DEF EmbedMemory
    <3> QED BY <3>1, ObserveEnds DEF Before, Ranking
  <2> QED BY <2>2, <2>3, <2>4
<1>3. CASE UNCHANGED <<at, memories>> /\ step' \notin Before
  <2>1. Events' = Events
    BY <1>1 DEF Events
  <2> QED BY <1>1, <1>3, <2>1 DEF Picking
<1> QED BY <1>1, <1>2, <1>3, PickCompleted

LEMMA PickQuietly ==
    ASSUME CellType, Phases, Picking, Move, UNCHANGED <<ranked, memories>>,
           input.variant = "recall_time_resolver" /\ step' \in Observing => step \in Observing /\ at' = at
    PROVE  Picking'
<1>1. Events' = Events /\ (step' \in Before => step \in Before) /\ UNCHANGED input
  BY DEF Move, Turns, Events
<1> QED BY <1>1 DEF Picking

LEMMA PickingMoves ==
    ASSUME CellType, Phases, Picking, CellNext
    PROVE  Picking'
<1>1. Move
  BY CellMoves
<1>2. CASE NothingToSelect \/ Begin \/ EmbedGoal \/ EmbedEvent \/ Select \/ Claim \/ StoreFails
           \/ Retrieve \/ CompileNothing \/ CompileFails \/ CompileEmbed \/ CompileRerank
           \/ RefuseRequest \/ GeneratePatch
  <2>1. UNCHANGED <<ranked, memories>>
    BY <1>2 DEF NothingToSelect, Begin, EmbedGoal, EmbedEvent, Select, Claim, StoreFails,
         Retrieve, CompileNothing, CompileFails, CompileEmbed, CompileRerank, RefuseRequest, GeneratePatch
  <2>2. CASE Begin
    BY <1>1, <2>1, <2>2, PickQuietly DEF Begin, Goes, Raises, Ends, Observing, Selectors
  <2>3. CASE Claim \/ StoreFails \/ Retrieve
    <3>1. at' = at /\ step \in Observing
      BY <2>3 DEF Claim, StoreFails, Retrieve, Observing
    <3> QED BY <1>1, <2>1, <3>1, PickQuietly
  <2>4. CASE NothingToSelect \/ EmbedGoal \/ EmbedEvent \/ Select \/ CompileNothing \/ CompileFails
             \/ CompileEmbed \/ CompileRerank \/ RefuseRequest \/ GeneratePatch
    <3>1. step' \notin Observing
      <4>1. CASE NothingToSelect \/ Select \/ CompileNothing \/ RefuseRequest
        BY <4>1 DEF NothingToSelect, Select, CompileNothing, RefuseRequest, Goes, Raises, Ends, Observing
      <4>2. CASE EmbedGoal \/ EmbedEvent
        <5>1. PICK reply \in EmbeddingReplies :
                \E next \in {"embed events", "rerank"} : RankingGoesOn(reply, kept'.embedding, next)
          BY <4>2 DEF EmbedGoal, EmbedEvent
        <5> QED BY <5>1, RankingEnds DEF Goes, Observing
      <4>3. CASE CompileFails \/ CompileEmbed \/ CompileRerank
        BY <4>3, RuntimeEnds DEF CompileFails, CompileEmbed, CompileRerank, Goes, Raises, Ends, Observing
      <4>4. CASE GeneratePatch
        BY <4>4, PatchIsLast DEF Observing
      <4> QED BY <2>4, <4>1, <4>2, <4>3, <4>4
    <3> QED BY <1>1, <2>1, <3>1, PickQuietly
  <2> QED BY <1>2, <2>2, <2>3, <2>4
<1> QED BY <1>2, PickRerank, PickDecided DEF CellNext

\* What may be in a context, and what must be if there is room for it.
Allowed(e) ==
    /\ FromMemories => e \in Active
    /\ input.variant # "recallpack" => e \in ToSet(ranked)
Due ==
    CASE input.variant = "recallpack" -> {f \in InScope : Cardinality(InScope) <= TopN}
      [] input.variant = "recall_time_resolver" -> Active
      [] OTHER -> ToSet(ranked)

\* The selection of a context: greedily, in an order of what is allowed.
Selected(pack) ==
    \E order : /\ Ordering(order) /\ pack = Greedy(order)
               /\ \A e \in ToSet(order) : Allowed(e)
               /\ Due \subseteq ToSet(order)

LEMMA EmptyIsSelected ==
    ASSUME CellType, input.variant = "recallpack", InScope = {}
    PROVE  Selected(<<>>)
<1>1. Ordering(<<>>) /\ ToSet(<<>>) = {}
  BY EventsAreNumbered DEF CellType, Ordering, IsInjective, ToSet
<1>2. Greedy(<<>>) = <<>>
  <2>1. <<>> \in Seq(Nat) /\ Len(<<>>) = 0
    OBVIOUS
  <2>2. Greedy(<<>>) \in Seq(Nat) /\ Len(Greedy(<<>>)) <= 0
    BY <2>1, GreedyOf
  <2> DEFINE pack == Greedy(<<>>)
  <2> HIDE DEF pack
  <2>3. pack \in Seq(Nat) /\ Len(pack) <= 0
    BY <2>2 DEF pack
  <2>4. pack = <<>>
    BY <2>3
  <2> QED BY <2>4 DEF pack
<1>3. Due = {}
  BY DEF Due
<1> QED BY <1>1, <1>2, <1>3 DEF Selected

LEMMA SelectSelects ==
    ASSUME CellType, Phases, Picking, Select, step' = "generate"
    PROVE  Selected(context') /\ UNCHANGED <<input, memories, ranked>>
<1>1. /\ step = "select" /\ input.variant \in Selectors
      /\ UNCHANGED <<input, memories, ranked>>
      /\ ranked \in Seq(Events) /\ IsInjective(ranked)
      /\ ToSet(ranked) \subseteq Events
  BY DEF Select, Phases, Picking, CellType
<1>2. PICK order \in Ordered : context' = Greedy(order)
  BY DEF Select, Raises, Ends
<1>3. CASE input.variant = "semantic_rerank"
  <2>1. order = ranked
    BY <1>2, <1>3 DEF Ordered
  <2>2. Len(ranked) <= Len(input.events)
    <3>1. ranked \in Injection(1..Len(ranked), Events) /\ Len(ranked) \in Nat
      BY <1>1 DEF Injection
    <3>2. IsFiniteSet(Events) /\ Cardinality(Events) = Len(input.events)
      BY EventsAreNumbered DEF CellType
    <3>3. IsFiniteSet(1..Len(ranked)) /\ Cardinality(1..Len(ranked)) = Len(ranked)
      BY <3>1, FS_Interval
    <3> QED BY <3>1, <3>2, <3>3, FS_Injection DEF ExistsInjection
  <2> QED BY <1>1, <1>2, <1>3, <2>1, <2>2 DEF Selected, Ordering, Allowed, FromMemories, Due
<1>4. CASE input.variant = "recency_aware"
  <2>1. order \in SetToSeqs(ToSet(ranked))
    BY <1>2, <1>4, InOrderOf DEF Ordered
  <2>2. Ordering(order) /\ ToSet(order) = ToSet(ranked)
    BY <1>1, <2>1, SomeOrder
  <2> QED BY <1>1, <1>2, <1>4, <2>2 DEF Selected, Allowed, FromMemories, Due
<1>5. CASE input.variant = "recall_time_resolver"
  <2> DEFINE S == {e \in ToSet(ranked) : memories[e] # NoMemory /\ memories[e].active}
  <2>1. order \in AsRanked(S)
    BY <1>2, <1>5 DEF Ordered, Resolved
  <2>2. S = Active
    BY <1>1, <1>5 DEF Active, Picking
  <2>3. S \in SUBSET Events
    BY <1>1
  <2> HIDE DEF S
  <2>4. Ordering(order) /\ ToSet(order) = S
    BY <2>1, <2>3, SomeOrder, InOrderOf
  <2>5. S \subseteq ToSet(ranked)
    BY DEF S
  <2> QED BY <1>1, <1>2, <1>5, <2>2, <2>4, <2>5 DEF Selected, Allowed, FromMemories, Due
<1> QED BY <1>1, <1>3, <1>4, <1>5 DEF Selectors

LEMMA CompileSelects ==
    ASSUME CellType, Phases, CompileNothing \/ CompileRerank, step' = "generate"
    PROVE  Selected(context') /\ UNCHANGED <<input, memories, ranked>>
<1>1. /\ step \in Compiling /\ input.variant = "recallpack"
      /\ UNCHANGED <<input, memories, ranked>>
  BY DEF CompileNothing, CompileRerank, Phases, Compiling
<1>2. CASE CompileNothing
  BY <1>1, <1>2, EmptyIsSelected DEF CompileNothing
<1>3. CASE CompileRerank
  <2>1. PICK order \in Rankings(InScope) : context' = Greedy(order)
    <3>1. PICK reply \in RerankReplies :
            \/ RuntimeFails("rerank_failure")
            \/ Raises
            \/ \E order \in Rankings(InScope) : context' = Greedy(order)
      BY <1>3 DEF CompileRerank
    <3> QED BY <3>1, RuntimeEnds DEF Raises, Ends
  <2>2. InScope \in SUBSET Events /\ InScope \subseteq Active
    BY DEF InScope, Active
  <2>3. /\ Ordering(order) /\ ToSet(order) \subseteq InScope
        /\ Cardinality(InScope) <= TopN => ToSet(order) = InScope
    BY <2>1, <2>2, SomeOrder
  <2>4. Due \subseteq ToSet(order)
    BY <1>1, <2>3 DEF Due
  <2>5. \A e \in ToSet(order) : Allowed(e)
    BY <1>1, <2>2, <2>3 DEF Allowed
  <2> QED BY <1>1, <2>1, <2>3, <2>4, <2>5 DEF Selected
<1> QED BY <1>2, <1>3

\* A selected context is within the budget, and has what it is due.
LEMMA SelectedIsCurrent ==
    ASSUME CellType, NEW pack, Selected(pack)
    PROVE  /\ pack \in Seq(Events) /\ Len(pack) <= Len(input.events)
           /\ IsInjective(pack) /\ (pack # <<>> => Fits(pack))
           /\ \A e \in ToSet(pack) : Allowed(e)
           /\ \A e \in Due : e \notin ToSet(pack) => ~Fits(Append(pack, e))
<1>1. PICK order : /\ Ordering(order) /\ pack = Greedy(order)
                   /\ \A e \in ToSet(order) : Allowed(e)
                   /\ Due \subseteq ToSet(order)
  BY DEF Selected
<1>2. /\ order \in Seq(Events) /\ IsInjective(order) /\ Len(order) <= Len(input.events)
      /\ Len(order) \in Nat
  BY <1>1 DEF Ordering
<1>3. /\ pack \in Seq(Events) /\ Len(pack) <= Len(order)
      /\ ToSet(pack) \subseteq ToSet(order)
      /\ pack # <<>> => Fits(pack)
      /\ IsInjective(pack)
  BY <1>1, <1>2, GreedyOf
<1>4. Len(pack) <= Len(input.events)
  <2>1. Len(pack) \in Nat /\ Len(input.events) \in Nat
    BY <1>3, EventsAreNumbered DEF CellType
  <2> QED BY <1>2, <1>3, <2>1
<1>5. ASSUME NEW e \in Due, e \notin ToSet(pack) PROVE ~Fits(Append(pack, e))
  BY <1>1, <1>2, <1>5, GreedyIsFull DEF CellType
<1> QED BY <1>1, <1>3, <1>4, <1>5

LEMMA SelectedStays ==
    ASSUME UNCHANGED <<input, memories, ranked>>
    PROVE  Selected(context)' <=> Selected(context')
<1>1. /\ Events' = Events /\ Active' = Active /\ InScope' = InScope /\ Due' = Due
      /\ FromMemories' = FromMemories
  BY DEF Events, Active, InScope, Due, FromMemories
<1>2. \A e : Allowed(e)' <=> Allowed(e)
  BY <1>1 DEF Allowed
<1>3. \A order : Ordering(order)' <=> Ordering(order)
  BY <1>1 DEF Ordering
<1> QED BY <1>1, <1>2, <1>3 DEF Selected

Chosen ==
    step = "generate" =>
      IF input.variant = "raw_full_history" THEN context = [e \in Events |-> e]
      ELSE Selected(context)

ContextInv == CallInv /\ Picking /\ Chosen

LEMMA ChosenIsOfEvents ==
    ASSUME CellType, Chosen
    PROVE  ContextOfEvents
<1>1. CASE input.variant = "raw_full_history" /\ step = "generate"
  <2>1. Events = 1..Len(input.events) /\ Len(input.events) \in Nat
    BY EventsAreNumbered DEF CellType
  <2>2. context \in [1..Len(input.events) -> Events]
    BY <1>1, <2>1 DEF Chosen
  <2>3. context \in Seq(Events) /\ Len(context) = Len(input.events)
    BY <2>1, <2>2
  <2> QED BY <2>1, <2>3 DEF ContextOfEvents
<1>2. CASE input.variant # "raw_full_history" /\ step = "generate"
  BY <1>2, SelectedIsCurrent DEF Chosen, ContextOfEvents
<1> QED BY <1>1, <1>2 DEF ContextOfEvents

LEMMA ChosenMoves ==
    ASSUME CellType, Phases, Picking, CellNext
    PROVE  Chosen'
<1> SUFFICES ASSUME step' = "generate" PROVE Chosen'
  BY DEF Chosen
<1>1. CASE Begin
  <2>1. /\ input.variant = "raw_full_history" /\ context' = [e \in Events |-> e]
        /\ UNCHANGED input
    BY <1>1 DEF Begin, Goes, Raises, Ends
  <2> QED BY <2>1 DEF Chosen, Events
<1>2. CASE Select \/ CompileNothing \/ CompileRerank
  <2>1. Selected(context') /\ UNCHANGED <<input, memories, ranked>>
    BY <1>2, SelectSelects, CompileSelects
  <2>2. input.variant # "raw_full_history"
    BY <1>2 DEF Phases, Select, CompileNothing, CompileRerank, Selectors, Compiling
  <2>3. Selected(context)'
    BY <2>1, SelectedStays
  <2> QED BY <2>1, <2>2, <2>3 DEF Chosen
<1>3. CASE ~(Begin \/ Select \/ CompileNothing \/ CompileRerank)
  <2>1. CASE NothingToSelect \/ EmbedGoal \/ EmbedEvent \/ Rerank
    <3>1. step' # "generate"
      <4>1. CASE NothingToSelect
        BY <4>1 DEF NothingToSelect, Raises, Ends
      <4>2. CASE EmbedGoal \/ EmbedEvent
        <5>1. PICK reply \in EmbeddingReplies :
                \E next \in {"embed events", "rerank"} : RankingGoesOn(reply, kept'.embedding, next)
          BY <4>2 DEF EmbedGoal, EmbedEvent
        <5> QED BY <5>1, RankingEnds DEF Goes
      <4>3. CASE Rerank
        <5>1. PICK reply \in RerankReplies :
                \/ \E next \in {"select", "observe"} : Goes(next)
                \/ Raises
                \/ reply # Answer /\ RankingGoesOn(reply, ErrorTraced(kept.ranking, reply), "none")
          BY <4>3 DEF Rerank
        <5> QED BY <5>1, RankingEnds DEF Goes, Raises, Ends
      <4> QED BY <2>1, <4>1, <4>2, <4>3
    <3> QED BY <3>1
  <2>2. CASE Claim \/ StoreFails \/ CompileFails \/ CompileEmbed \/ RefuseRequest \/ GeneratePatch
    <3>1. step' # "generate"
      <4>1. CASE RefuseRequest \/ GeneratePatch
        BY <4>1, PatchIsLast
      <4>2. CASE Claim \/ StoreFails \/ CompileFails \/ CompileEmbed
        BY <4>2, RuntimeEnds DEF Claim, StoreFails, CompileFails, CompileEmbed, Goes
      <4> QED BY <2>2, <4>1, <4>2
    <3> QED BY <3>1
  <2>3. CASE Retrieve \/ EmbedMemory \/ Decide \/ Repair
    <3>1. step' # "generate"
      <4>1. CASE Retrieve \/ EmbedMemory
        <5>1. PICK reply \in EmbeddingReplies :
                \/ \E next \in {"decide", "none"} : next # "generate" /\ ObserveGoesOn(reply, next)
                \/ Completed(decided)
          BY <4>1 DEF Retrieve, EmbedMemory
        <5> QED BY <5>1, ObserveEnds, CompletedOf DEF Goes
      <4>2. CASE Decide \/ Repair
        <5>1. \/ \E op \in Operations, repaired \in BOOLEAN : OnDecision(op, repaired)
              \/ Raises \/ Goes("repair") \/ \E code : RuntimeFails(code)
          BY <4>2 DEF Decide, Repair
        <5> QED BY <5>1, DecisionOf, CompletedOf, RuntimeEnds DEF Goes, Raises, Ends
      <4> QED BY <2>3, <4>1, <4>2
    <3> QED BY <3>1
  <2> QED BY <1>3, <2>1, <2>2, <2>3 DEF CellNext
<1> QED BY <1>1, <1>2, <1>3

LEMMA ContextInit ==
    ASSUME CellInit
    PROVE  ContextInv
<1>1. /\ step = "begin" /\ ranked = <<>> /\ memories = [e \in Events |-> NoMemory]
  BY DEF CellInit
<1>2. Picking
  BY <1>1 DEF Picking, IsInjective, Observing
<1>3. Chosen
  BY <1>1 DEF Chosen
<1> QED BY <1>2, <1>3, CallInit DEF ContextInv

LEMMA ContextNext ==
    ASSUME ContextInv, [Next]_evaluated
    PROVE  ContextInv'
<1>1. CallInv'
  BY CallNext DEF ContextInv
<1>2. CASE CellNext
  BY <1>1, <1>2, PickingMoves, ChosenMoves DEF ContextInv, CallInv
<1>3. CASE UNCHANGED cell
  <2>1. UNCHANGED <<input, step, at, ranked, memories, context>>
    BY <1>3 DEF cell
  <2>2. Picking'
    BY <2>1 DEF ContextInv, Picking, Events
  <2>3. Chosen'
    <3>1. Selected(context)' <=> Selected(context)
      BY <2>1, SelectedStays
    <3> QED BY <2>1, <3>1 DEF ContextInv, Chosen, Events
  <2> QED BY <1>1, <2>2, <2>3 DEF ContextInv
<1> QED BY <1>2, <1>3 DEF Next, Live, Diagnosing, Claiming, evaluated

\* What is invariant of the selection of a context.
THEOREM ContextsInductive == Spec => []ContextInv
<1>1. Init => ContextInv
  BY ContextInit DEF Init
<1>2. ContextInv /\ [Next]_evaluated => ContextInv'
  BY ContextNext
<1> QED BY <1>1, <1>2, PTL DEF Spec

\* The handoff is given what holds by then: no memory that a later one has
\* superseded, within the budget, each once, and nothing that would still fit
\* is missing (select_frozen_context, BudgetSelector.select).
THEOREM ContextsAreCurrent == Spec => []ContextIsCurrent
<1>1. ContextInv => ContextIsCurrent
  <2> SUFFICES ASSUME ContextInv, step = "generate", input.variant # "raw_full_history"
               PROVE  ContextIsCurrent
    BY DEF ContextIsCurrent
  <2>1. CellType /\ Selected(context)
    BY DEF ContextInv, CallInv, Chosen
  <2>2. /\ IsInjective(context) /\ (context # <<>> => Fits(context))
        /\ \A e \in ToSet(context) : Allowed(e)
        /\ \A e \in Due : e \notin ToSet(context) => ~Fits(Append(context, e))
    BY <2>1, SelectedIsCurrent
  <2>3. /\ FromMemories => ToSet(context) \subseteq Active
        /\ input.variant # "recallpack" => ToSet(context) \subseteq ToSet(ranked)
    BY <2>2 DEF Allowed
  <2> QED BY <2>2, <2>3, Zenon DEF ContextIsCurrent, Due
<1> QED BY <1>1, ContextsInductive, PTL

\* An attempt counts against its variant only for what the variant did, and is
\* repeated for an outage; and of a cell that is fit to run every attempt has an
\* outcome, but where the call raises (execute_frozen_live_cell).
THEOREM EveryAttemptIsJudged ==
    Spec => []AttemptsAreJudged
<1>1. Init => AttemptsAreJudged
  BY DEF Init, CellInit, AttemptsAreJudged, Running
<1>2. ContextInv /\ AttemptsAreJudged /\ [Next]_evaluated => AttemptsAreJudged'
  <2> SUFFICES ASSUME ContextInv, AttemptsAreJudged, [Next]_evaluated PROVE AttemptsAreJudged'
    OBVIOUS
  <2>1. CASE CellNext
    BY <2>1, CellJudged, ChosenIsOfEvents DEF ContextInv, CallInv
  <2>2. CASE UNCHANGED cell
    <3>1. UNCHANGED <<input, step, calls, memories, context, outcome>>
      BY <2>2 DEF cell
    <3>2. /\ LastCall' = LastCall /\ FromMemories' = FromMemories /\ Texts' = Texts
          /\ FitToRun' = FitToRun /\ (Outage(LastCall.reply))' = Outage(LastCall.reply)
      BY <3>1 DEF LastCall, FromMemories, Texts, FitToRun, Outage, Events
    <3> QED BY <3>1, <3>2 DEF AttemptsAreJudged
  <2> QED BY <2>1, <2>2 DEF Next, Live, Diagnosing, Claiming, evaluated
<1> QED BY <1>1, <1>2, ContextsInductive, PTL DEF Spec

---------------------------------------------------------------------------
\* The runs that count in a claim

\* What designate_v4_claim_runs has found so far.
Findings ==
    [error : {"none", "invalid_designation", "invalid_replacement"}, pending : Nat,
     claimed : Seq(Nat), replacements : Seq(Nat \X Nat)]

LEMMA DesignateTypes ==
    ASSUME NEW attempts, NEW so \in Findings, NEW n \in Nat
    PROVE  Claims!Designate(attempts, so, n) \in Findings
<1> DEFINE run == attempts[n]
<1>1. /\ Claims!Nothing \in Findings
      /\ Claims!RefusedFor("invalid_designation") \in Findings
      /\ Claims!RefusedFor("invalid_replacement") \in Findings
  <2>1. <<>> \in Seq(Nat) /\ <<>> \in Seq(Nat \X Nat)
    OBVIOUS
  <2> QED BY <2>1 DEF Claims!Nothing, Claims!RefusedFor, Findings
<1>2. Claims!Claim(so, n) \in Findings
  <2>1. /\ Append(so.claimed, n) \in Seq(Nat)
        /\ <<so.pending, n>> \in Nat \X Nat
        /\ Append(so.replacements, <<so.pending, n>>) \in Seq(Nat \X Nat)
    BY DEF Findings
  <2> QED BY <2>1 DEF Claims!Claim, Findings
<1>3. [so EXCEPT !.pending = n] \in Findings
  BY DEF Findings
<1> QED BY <1>1, <1>2, <1>3 DEF Claims!Designate

\* The findings after each number of attempts.
Foldings(attempts, numbers, f) ==
    f = [s \in SUBSET DOMAIN numbers |->
           IF s = {} THEN Claims!Nothing
           ELSE Claims!Designate(attempts, f[s \ {Max(s)}], numbers[Max(s)])]

\* What is found, before it is asked whether it is complete.
Numbers(attempts) == [n \in DOMAIN attempts |-> n]
Found(attempts) == (CHOOSE f : Foldings(attempts, Numbers(attempts), f))[DOMAIN attempts]

LEMMA DesignatedIs ==
    ASSUME NEW attempts
    PROVE  Claims!Designated(attempts) =
             IF /\ Found(attempts).error = "none"
                /\ \/ Found(attempts).pending # 0
                   \/ Len(Found(attempts).claimed) # ClaimRuns
             THEN Claims!RefusedFor("invalid_replacement") ELSE Found(attempts)
<1>1. DOMAIN [n \in DOMAIN attempts |-> n] = DOMAIN attempts
  OBVIOUS
<1> QED BY <1>1 DEF Claims!Designated, Claims!FoldLeft, Claims!MapThenFoldSet, Claims!Max,
             Max, Found, Numbers, Foldings

LEMMA FoundSteps ==
    ASSUME NEW T, NEW attempts \in Seq(T)
    PROVE  \E h \in [0..Len(attempts) -> Findings] :
             /\ h[0] = Claims!Nothing /\ h[Len(attempts)] = Found(attempts)
             /\ \A i \in 1..Len(attempts) : h[i] = Claims!Designate(attempts, h[i - 1], i)
<1> DEFINE n == Len(attempts)
           f == CHOOSE f : Foldings(attempts, Numbers(attempts), f)
           h == [i \in 0..n |-> f[1..i]]
<1>1. /\ n \in Nat /\ DOMAIN attempts = 1..n
      /\ DOMAIN Numbers(attempts) = 1..n /\ \A i \in 1..n : Numbers(attempts)[i] = i
  BY DEF Numbers
<1>2. Claims!Nothing \in Findings
  <2>1. <<>> \in Seq(Nat) /\ <<>> \in Seq(Nat \X Nat)
    OBVIOUS
  <2> QED BY <2>1 DEF Claims!Nothing, Findings
<1> HIDE DEF n
<1>3. \E g : Foldings(attempts, Numbers(attempts), g)
  <2> DEFINE Step == [p \in (1..n) \X Findings |-> Claims!Designate(attempts, p[2], p[1])]
  <2>1. Step \in [(1..n) \X Findings -> Findings]
    <3>1. \A p \in (1..n) \X Findings : p[1] \in Nat /\ p[2] \in Findings
      BY <1>1
    <3> QED BY <3>1, DesignateTypes
  <2> HIDE DEF Step
  <2>2. PICK g \in [SUBSET (1..n) -> Findings] : Folding(g, n, Claims!Nothing, Step)
    BY <1>1, <1>2, <2>1, FoldExists
  <2>3. ASSUME NEW s \in SUBSET (1..n)
        PROVE  g[s] = IF s = {} THEN Claims!Nothing
                      ELSE Claims!Designate(attempts, g[s \ {Max(s)}], Max(s))
    <3>1. CASE s = {}
      BY <2>2, <3>1 DEF Folding
    <3>2. CASE s # {}
      <4>1. Max(s) \in 1..n
        BY <1>1, <3>2, GreatestOf
      <4>2. g[s \ {Max(s)}] \in Findings
        BY <2>2
      <4>3. <<Max(s), g[s \ {Max(s)}]>> \in (1..n) \X Findings
        BY <4>1, <4>2
      <4>4. Step[<<Max(s), g[s \ {Max(s)}]>>] = Claims!Designate(attempts, g[s \ {Max(s)}], Max(s))
        BY <4>3 DEF Step
      <4> QED BY <2>2, <3>2, <4>4 DEF Folding
    <3> QED BY <3>1, <3>2
  <2>4. g = [s \in SUBSET (1..n) |->
               IF s = {} THEN Claims!Nothing
               ELSE Claims!Designate(attempts, g[s \ {Max(s)}], Numbers(attempts)[Max(s)])]
    <3>1. ASSUME NEW s \in SUBSET (1..n)
          PROVE  g[s] = IF s = {} THEN Claims!Nothing
                        ELSE Claims!Designate(attempts, g[s \ {Max(s)}], Numbers(attempts)[Max(s)])
      <4>1. CASE s = {}
        BY <2>3, <4>1
      <4>2. CASE s # {}
        <5>1. Max(s) \in 1..n
          BY <1>1, <4>2, GreatestOf
        <5>2. Numbers(attempts)[Max(s)] = Max(s)
          BY <1>1, <5>1
        <5> QED BY <2>3, <4>2, <5>2
      <4> QED BY <4>1, <4>2
    <3> QED BY <2>2, <3>1
  <2> QED BY <1>1, <2>4, Zenon DEF Foldings
<1>4. Foldings(attempts, Numbers(attempts), f)
  BY <1>3
<1>5. \A s \in SUBSET (1..n) :
        f[s] = IF s = {} THEN Claims!Nothing
               ELSE Claims!Designate(attempts, f[s \ {Max(s)}], Max(s))
  <2> HIDE DEF f
  <2>1. \A s \in SUBSET (1..n) :
          f[s] = IF s = {} THEN Claims!Nothing
                 ELSE Claims!Designate(attempts, f[s \ {Max(s)}], Numbers(attempts)[Max(s)])
    BY <1>1, <1>4 DEF Foldings
  <2>2. ASSUME NEW s \in SUBSET (1..n), s # {} PROVE Numbers(attempts)[Max(s)] = Max(s)
    <3>1. Max(s) \in 1..n
      BY <1>1, <2>2, GreatestOf
    <3> QED BY <1>1, <3>1
  <2> QED BY <2>1, <2>2
<1>6. f[1..n] = Found(attempts)
  BY <1>1 DEF Found
<1> HIDE DEF f
<1>7. h[0] = Claims!Nothing
  <2>1. 1..0 = {} /\ 1..0 \in SUBSET (1..n)
    OBVIOUS
  <2>2. h[0] = f[1..0]
    BY <1>1
  <2> QED BY <1>5, <2>1, <2>2
<1>8. ASSUME NEW i \in 1..n PROVE h[i] = Claims!Designate(attempts, h[i - 1], i)
  <2>1. i \in Nat /\ 1..i \in SUBSET (1..n) /\ i \in 1..i /\ i \in 0..n /\ i - 1 \in 0..n
    BY <1>1
  <2>2. Max(1..i) = i
    BY <2>1, GreatestOf
  <2>3. (1..i) \ {i} = 1..(i - 1)
    BY <2>1
  <2>4. f[1..i] = Claims!Designate(attempts, f[1..(i - 1)], i)
    <3>1. 1..i # {}
      BY <2>1
    <3> QED BY <1>5, <2>1, <2>2, <2>3, <3>1
  <2> QED BY <2>1, <2>4
<1>9. \A i \in 0..n : h[i] \in Findings
  <2> DEFINE S == {i \in 0..n : h[i] \in Findings}
  <2> HIDE DEF h
  <2>1. 0 \in S
    BY <1>1, <1>2, <1>7
  <2>2. ASSUME NEW i \in 1..n, i - 1 \in S PROVE i \in S
    <3>1. i \in Nat /\ i \in 0..n /\ h[i - 1] \in Findings
      BY <1>1, <2>2
    <3>2. Claims!Designate(attempts, h[i - 1], i) \in Findings
      BY <3>1, DesignateTypes
    <3> QED BY <1>8, <3>1, <3>2
  <2> HIDE DEF S
  <2>3. 0..n \subseteq S
    BY <1>1, <2>1, <2>2, Climb
  <2> QED BY <2>3 DEF S
<1>10. h[n] = Found(attempts)
  BY <1>1, <1>6
<1>11. h \in [0..n -> Findings]
  BY <1>9
<1> HIDE DEF h
<1> QED BY <1>7, <1>8, <1>10, <1>11 DEF n

LEMMA FoundTypes ==
    ASSUME NEW T, NEW attempts \in Seq(T)
    PROVE  Found(attempts) \in Findings
<1>1. PICK h \in [0..Len(attempts) -> Findings] : h[Len(attempts)] = Found(attempts)
  BY FoundSteps
<1>2. Len(attempts) \in 0..Len(attempts)
  OBVIOUS
<1> QED BY <1>1, <1>2

\* Nothing is found in no attempts, and one more is judged behind the others.
LEMMA FoundNothing == Found(<<>>) = Claims!Nothing
<1>1. <<>> \in Seq(Nat) /\ Len(<<>>) = 0
  OBVIOUS
<1> QED BY <1>1, FoundSteps

LEMMA FoundNext ==
    ASSUME NEW T, NEW attempts \in Seq(T), NEW run \in T
    PROVE  Found(Append(attempts, run)) =
             Claims!Designate(Append(attempts, run), Found(attempts), Len(attempts) + 1)
<1> DEFINE n == Len(attempts)
           more == Append(attempts, run)
<1>1. /\ n \in Nat /\ more \in Seq(T) /\ Len(more) = n + 1
      /\ \A i \in 1..n : more[i] = attempts[i]
  BY Appended
<1>2. PICK h \in [0..n -> Findings] :
        /\ h[0] = Claims!Nothing /\ h[n] = Found(attempts)
        /\ \A i \in 1..n : h[i] = Claims!Designate(attempts, h[i - 1], i)
  BY FoundSteps
<1>3. PICK g \in [0..(n + 1) -> Findings] :
        /\ g[0] = Claims!Nothing /\ g[n + 1] = Found(more)
        /\ \A i \in 1..(n + 1) : g[i] = Claims!Designate(more, g[i - 1], i)
  <2> HIDE DEF more
  <2>1. PICK g \in [0..Len(more) -> Findings] :
          /\ g[0] = Claims!Nothing /\ g[Len(more)] = Found(more)
          /\ \A i \in 1..Len(more) : g[i] = Claims!Designate(more, g[i - 1], i)
    BY <1>1, FoundSteps
  <2> QED BY <1>1, <2>1
<1> DEFINE S == {i \in 0..n : g[i] = h[i]}
<1> HIDE DEF n, more
<1>4. 0 \in S
  BY <1>1, <1>2, <1>3
<1>5. ASSUME NEW i \in 1..n, i - 1 \in S PROVE i \in S
  <2>1. /\ i \in 0..n /\ i \in 1..(n + 1) /\ g[i - 1] = h[i - 1] /\ more[i] = attempts[i]
    BY <1>1, <1>5
  <2>2. Claims!Designate(more, h[i - 1], i) = Claims!Designate(attempts, h[i - 1], i)
    BY <2>1 DEF Claims!Designate
  <2> QED BY <1>2, <1>3, <2>1, <2>2
<1>6. n \in S
  <2> HIDE DEF S
  <2>1. 0..n \subseteq S
    BY <1>1, <1>4, <1>5, Climb
  <2> QED BY <1>1, <2>1
<1>7. n + 1 \in 1..(n + 1) /\ (n + 1) - 1 = n
  BY <1>1
<1> QED BY <1>2, <1>3, <1>6, <1>7 DEF n, more

\* The headline runs of a cell, and the place of one among them.
Headline(attempts) == {n \in DOMAIN attempts : attempts[n].designation = "headline"}
Rank(attempts, n) == Cardinality({m \in Headline(attempts) : m <= n})

\* As long as nothing is wrong with the attempts, the runs that count are the
\* first headline runs, in their order, and as many of them as there are.
FirstCount(attempts) ==
    LET claimed == Found(attempts).claimed IN
    Found(attempts).error = "none" =>
      /\ Len(claimed) <= ClaimRuns
      /\ Len(claimed) <= Cardinality(Headline(attempts))
      /\ Len(claimed) < ClaimRuns => Len(claimed) = Cardinality(Headline(attempts))
      /\ \A i \in DOMAIN claimed :
           claimed[i] \in Headline(attempts) /\ Rank(attempts, claimed[i]) = i
      /\ \A n \in Headline(attempts) :
           Rank(attempts, n) <= ClaimRuns => \E i \in DOMAIN claimed : claimed[i] = n

\* What becomes of the findings with one more attempt.
LEMMA DesignateCases ==
    ASSUME NEW attempts, NEW so \in Findings, NEW n \in Nat
    PROVE  LET run == attempts[n]
               next == Claims!Designate(attempts, so, n)
           IN \/ so.error # "none" /\ next = so
              \/ next.error # "none"
                 /\ ~Claims!ClaimBearing(run)
              \/ so.error = "none" /\ run.designation = "diagnostic" /\ next = so
              \/ /\ so.error = "none" /\ run.designation = "invalidated_technical"
                 /\ next.error = "none" /\ next.claimed = so.claimed /\ next.pending = n
              \/ /\ so.error = "none" /\ Claims!ClaimBearing(run)
                 /\ next = Claims!Claim(so, n)
<1> DEFINE run == attempts[n]
           next == Claims!Designate(attempts, so, n)
<1>1. /\ Claims!RefusedFor("invalid_designation").error # "none"
      /\ Claims!RefusedFor("invalid_replacement").error # "none"
  BY DEF Claims!RefusedFor, Claims!Nothing
<1>2. LET p == [so EXCEPT !.pending = n] IN
      p.error = so.error /\ p.claimed = so.claimed /\ p.pending = n
  BY DEF Findings
<1>3. CASE so.error # "none"
  BY <1>3 DEF Claims!Designate
<1>4. CASE so.error = "none" /\ ~run.bound
  BY <1>1, <1>4 DEF Claims!Designate, Claims!ClaimBearing
<1>5. CASE so.error = "none" /\ run.bound
  <2> DEFINE q == [so EXCEPT !.pending = n]
  <2>1. next = CASE run.designation = "invalidated_abort" -> Claims!RefusedFor("invalid_replacement")
                 [] run.designation = "invalidated_technical" ->
                      IF so.pending # 0 \/ ~Claims!TechnicalFailure(run)
                      THEN Claims!RefusedFor("invalid_replacement") ELSE q
                 [] run.designation = "diagnostic" -> so
                 [] run.designation = "headline" /\ Claims!Completed(run) -> Claims!Claim(so, n)
                 [] OTHER -> Claims!RefusedFor("invalid_designation")
    BY <1>5 DEF Claims!Designate
  <2>2. q.error = "none" /\ q.claimed = so.claimed /\ q.pending = n
    BY <1>2, <1>5
  <2> HIDE DEF next, q
  <2>3. CASE run.designation = "invalidated_abort"
    <3>1. next = Claims!RefusedFor("invalid_replacement")
      BY <2>1, <2>3
    <3> QED BY <1>1, <2>3, <3>1 DEF next, Claims!ClaimBearing
  <2>4. CASE run.designation = "invalidated_technical"
    <3>1. next = Claims!RefusedFor("invalid_replacement") \/ next = q
      BY <2>1, <2>4
    <3> QED BY <1>1, <1>5, <2>2, <2>4, <3>1 DEF next, Claims!ClaimBearing
  <2>5. CASE run.designation = "diagnostic"
    <3>1. next = so
      BY <2>1, <2>5
    <3> QED BY <1>5, <2>5, <3>1 DEF next
  <2>6. CASE run.designation = "headline" /\ Claims!Completed(run)
    <3>1. next = Claims!Claim(so, n)
      BY <2>1, <2>6
    <3> QED BY <1>5, <2>6, <3>1 DEF next, Claims!ClaimBearing
  <2>7. CASE /\ ~(run.designation = "headline" /\ Claims!Completed(run))
             /\ run.designation \notin {"invalidated_abort", "invalidated_technical", "diagnostic"}
    <3>1. next = Claims!RefusedFor("invalid_designation")
      BY <2>1, <2>7
    <3> QED BY <1>1, <2>7, <3>1 DEF next, Claims!ClaimBearing
  <2> QED BY <2>3, <2>4, <2>5, <2>6, <2>7
<1> QED BY <1>3, <1>4, <1>5

LEMMA ClaimOf ==
    ASSUME NEW so \in Findings, NEW n \in Nat
    PROVE  LET next == Claims!Claim(so, n) IN
           /\ next.error = so.error
           /\ Len(so.claimed) = ClaimRuns => next = so
           /\ Len(so.claimed) # ClaimRuns => next.claimed = Append(so.claimed, n)
BY DEF Claims!Claim, Findings

LEMMA HeadlineNext ==
    ASSUME NEW T, NEW attempts \in Seq(T), NEW run \in T
    PROVE  LET more == Append(attempts, run)
               n == Len(attempts) + 1
           IN /\ Headline(attempts) \subseteq 1..Len(attempts)
              /\ IsFiniteSet(Headline(attempts)) /\ Cardinality(Headline(attempts)) \in Nat
              /\ Headline(more) = IF run.designation = "headline"
                                  THEN Headline(attempts) \cup {n} ELSE Headline(attempts)
              /\ \A i \in Headline(attempts) : Rank(more, i) = Rank(attempts, i)
              /\ run.designation = "headline" =>
                   /\ Cardinality(Headline(more)) = Cardinality(Headline(attempts)) + 1
                   /\ Rank(more, n) = Cardinality(Headline(attempts)) + 1
<1> DEFINE more == Append(attempts, run)
           n == Len(attempts) + 1
           H == Headline(attempts)
<1>1. /\ Len(attempts) \in Nat /\ n \in Nat /\ DOMAIN attempts = 1..Len(attempts)
      /\ DOMAIN more = 1..n /\ more[n] = run
      /\ \A i \in 1..Len(attempts) : more[i] = attempts[i]
  BY Appended
<1>2. H \subseteq 1..Len(attempts)
  BY <1>1 DEF Headline
<1>3. IsFiniteSet(H) /\ Cardinality(H) \in Nat
  <2>1. IsFiniteSet(1..Len(attempts))
    BY <1>1, FS_Interval
  <2> QED BY <1>2, <2>1, FS_Subset, FS_CardinalityType
<1>4. Headline(more) = IF run.designation = "headline" THEN H \cup {n} ELSE H
  BY <1>1 DEF Headline
<1> HIDE DEF more, n, H
<1>5. ASSUME NEW i \in H PROVE Rank(more, i) = Rank(attempts, i)
  <2>1. i <= Len(attempts) /\ ~(n <= i)
    BY <1>1, <1>2 DEF n
  <2>2. {m \in Headline(more) : m <= i} = {m \in H : m <= i}
    BY <1>4, <2>1
  <2> QED BY <2>2 DEF Rank, H
<1>6. ASSUME run.designation = "headline"
      PROVE  /\ Cardinality(Headline(more)) = Cardinality(H) + 1
             /\ Rank(more, n) = Cardinality(H) + 1
  <2>1. n \notin H /\ \A m \in H : m <= n
    BY <1>1, <1>2 DEF n
  <2>2. Headline(more) = H \cup {n}
    BY <1>4, <1>6
  <2>3. Cardinality(H \cup {n}) = Cardinality(H) + 1
    BY <1>3, <2>1, FS_AddElement
  <2>4. {m \in Headline(more) : m <= n} = H \cup {n}
    BY <1>1, <2>1, <2>2
  <2> QED BY <2>2, <2>3, <2>4 DEF Rank
<1> QED BY <1>2, <1>3, <1>4, <1>5, <1>6 DEF more, n, H

LEMMA FirstCountNothing == FirstCount(<<>>)
<1>1. Headline(<<>>) = {} /\ Cardinality({}) = 0
  BY FS_EmptySet DEF Headline
<1> DEFINE claimed == Found(<<>>).claimed
           headline == Headline(<<>>)
<1>2. claimed = <<>>
  BY FoundNothing DEF Claims!Nothing
<1>3. Len(claimed) = 0 /\ DOMAIN claimed = {} /\ ClaimRuns \in Nat
  BY <1>2, GridAssumption
<1>4. /\ Len(claimed) <= ClaimRuns
      /\ Len(claimed) = Cardinality(headline) /\ Len(claimed) <= Cardinality(headline)
  <2>1. headline = {} /\ Cardinality(headline) = 0
    BY <1>1
  <2> HIDE DEF claimed, headline
  <2> QED BY <1>3, <2>1
<1> QED BY <1>1, <1>3, <1>4, Zenon DEF FirstCount

LEMMA FirstCountNext ==
    ASSUME NEW T, NEW attempts \in Seq(T), NEW run \in T, FirstCount(attempts)
    PROVE  FirstCount(Append(attempts, run))
<1> DEFINE more == Append(attempts, run)
           n == Len(attempts) + 1
           so == Found(attempts)
           next == Found(more)
           H == Headline(attempts)
           G == Headline(more)
<1>1. /\ so \in Findings /\ next = Claims!Designate(more, so, n) /\ n \in Nat
      /\ more[n] = run /\ ClaimRuns \in Nat
  BY FoundTypes, FoundNext, Appended, GridAssumption
<1>2. /\ H \subseteq 1..Len(attempts) /\ n \notin H /\ Cardinality(H) \in Nat
      /\ G = IF run.designation = "headline" THEN H \cup {n} ELSE H
      /\ \A i \in H : Rank(more, i) = Rank(attempts, i)
      /\ run.designation = "headline" =>
           /\ Cardinality(G) = Cardinality(H) + 1
           /\ Rank(more, n) = Cardinality(H) + 1
  <2>1. H \subseteq 1..Len(attempts) => n \notin H
    OBVIOUS
  <2> QED BY <2>1, HeadlineNext
<1>3. so.error = "none" =>
        /\ Len(so.claimed) <= ClaimRuns
        /\ Len(so.claimed) <= Cardinality(H)
        /\ Len(so.claimed) < ClaimRuns => Len(so.claimed) = Cardinality(H)
        /\ \A i \in DOMAIN so.claimed : so.claimed[i] \in H /\ Rank(attempts, so.claimed[i]) = i
        /\ \A k \in H :
             Rank(attempts, k) <= ClaimRuns => \E i \in DOMAIN so.claimed : so.claimed[i] = k
  BY DEF FirstCount
<1>4. so.claimed \in Seq(Nat) /\ Len(so.claimed) \in Nat
      /\ DOMAIN so.claimed = 1..Len(so.claimed)
  BY <1>1 DEF Findings
<1> DEFINE Goal(claimed) ==
             /\ Len(claimed) <= ClaimRuns
             /\ Len(claimed) <= Cardinality(G)
             /\ Len(claimed) < ClaimRuns => Len(claimed) = Cardinality(G)
             /\ \A i \in DOMAIN claimed : claimed[i] \in G /\ Rank(more, claimed[i]) = i
             /\ \A k \in G :
                  Rank(more, k) <= ClaimRuns => \E i \in DOMAIN claimed : claimed[i] = k
<1>5. ASSUME next.error = "none" => Goal(next.claimed) PROVE FirstCount(more)
  BY <1>5 DEF FirstCount
<1> HIDE DEF more, n, so, next, H, G
<1>6. SUFFICES ASSUME next.error = "none" PROVE Goal(next.claimed)
  BY <1>5, <1>6 DEF more
<1>7. \/ so.error # "none" /\ next = so
      \/ so.error = "none" /\ run.designation = "diagnostic" /\ next = so
      \/ /\ so.error = "none" /\ run.designation = "invalidated_technical"
         /\ next.claimed = so.claimed
      \/ so.error = "none" /\ run.designation = "headline" /\ next = Claims!Claim(so, n)
  BY <1>1, <1>6, DesignateCases DEF Claims!ClaimBearing
<1>8. CASE so.error = "none" /\ run.designation # "headline" /\ next.claimed = so.claimed
  BY <1>2, <1>3, <1>8
<1>9. CASE so.error = "none" /\ run.designation = "headline" /\ next = Claims!Claim(so, n)
  <2>1. CASE Len(so.claimed) = ClaimRuns
    <3>1. next.claimed = so.claimed
      BY <1>1, <1>9, <2>1, ClaimOf
    <3>2. ~(Rank(more, n) <= ClaimRuns)
      BY <1>1, <1>2, <1>3, <1>9, <2>1
    <3>3. G = H \cup {n} /\ Cardinality(G) = Cardinality(H) + 1
      BY <1>2, <1>9
    <3>4. /\ Len(so.claimed) <= ClaimRuns /\ Len(so.claimed) <= Cardinality(G)
          /\ ~(Len(so.claimed) < ClaimRuns)
      BY <1>1, <1>2, <1>3, <1>9, <2>1, <3>3
    <3>5. \A i \in DOMAIN so.claimed : so.claimed[i] \in G /\ Rank(more, so.claimed[i]) = i
      BY <1>2, <1>3, <1>9, <3>3
    <3>6. \A k \in G :
            Rank(more, k) <= ClaimRuns => \E i \in DOMAIN so.claimed : so.claimed[i] = k
      BY <1>2, <1>3, <1>9, <3>2, <3>3
    <3> QED BY <3>1, <3>4, <3>5, <3>6
  <2>2. CASE Len(so.claimed) # ClaimRuns
    <3> DEFINE claimed == Append(so.claimed, n)
               len == Len(so.claimed)
    <3>1. next.claimed = claimed
      BY <1>1, <1>9, <2>2, ClaimOf
    <3>2. len = Cardinality(H) /\ len + 1 <= ClaimRuns /\ len \in Nat
      BY <1>1, <1>3, <1>4, <1>9, <2>2
    <3>3. /\ Len(claimed) = len + 1 /\ DOMAIN claimed = 1..(len + 1)
          /\ claimed[len + 1] = n /\ \A i \in 1..len : claimed[i] = so.claimed[i]
      BY <1>1, <1>4, Appended
    <3> HIDE DEF claimed
    <3>4. /\ Cardinality(G) = len + 1 /\ Rank(more, n) = len + 1 /\ G = H \cup {n}
      BY <1>2, <1>9, <3>2
    <3>5. ASSUME NEW i \in 1..(len + 1)
          PROVE  claimed[i] \in G /\ Rank(more, claimed[i]) = i
      <4>1. CASE i = len + 1
        BY <3>3, <3>4, <4>1
      <4>2. CASE i \in 1..len
        BY <1>2, <1>3, <1>4, <1>9, <3>3, <3>4, <4>2
      <4> QED BY <3>2, <4>1, <4>2
    <3>6. ASSUME NEW k \in G, Rank(more, k) <= ClaimRuns
          PROVE  \E i \in 1..(len + 1) : claimed[i] = k
      <4>1. CASE k = n
        BY <3>2, <3>3, <4>1
      <4>2. CASE k \in H
        <5>1. PICK i \in 1..len : so.claimed[i] = k
          BY <1>2, <1>3, <1>4, <1>9, <3>6, <4>2
        <5> QED BY <3>2, <3>3, <5>1
      <4> QED BY <3>4, <4>1, <4>2
    <3> QED BY <3>1, <3>2, <3>3, <3>4, <3>5, <3>6
  <2> QED BY <2>1, <2>2
<1> QED BY <1>6, <1>7, <1>8, <1>9

\* As long as nothing is wrong with the attempts, every run that counts is one
\* that a report may name.
Countable(attempts) ==
    LET claimed == Found(attempts).claimed IN
    Found(attempts).error = "none" =>
      \A i \in DOMAIN claimed :
        claimed[i] \in DOMAIN attempts /\ Claims!ClaimBearing(attempts[claimed[i]])

LEMMA CountableNext ==
    ASSUME NEW T, NEW attempts \in Seq(T), NEW run \in T, Countable(attempts)
    PROVE  Countable(Append(attempts, run))
<1> DEFINE more == Append(attempts, run)
           n == Len(attempts) + 1
           so == Found(attempts)
           next == Found(more)
           Counts(k) == k \in DOMAIN more /\ Claims!ClaimBearing(more[k])
<1>1. /\ so \in Findings /\ next = Claims!Designate(more, so, n) /\ n \in Nat
      /\ more[n] = run /\ n \in DOMAIN more
      /\ \A k \in DOMAIN attempts : k \in DOMAIN more /\ more[k] = attempts[k]
  <2>1. Len(attempts) \in Nat /\ DOMAIN attempts = 1..Len(attempts)
    OBVIOUS
  <2> QED BY <2>1, FoundTypes, FoundNext, Appended
<1>2. ASSUME so.error = "none", NEW i \in DOMAIN so.claimed PROVE Counts(so.claimed[i])
  BY <1>1, <1>2 DEF Countable
<1>3. so.claimed \in Seq(Nat)
  BY <1>1 DEF Findings
<1>4. ASSUME next.error = "none" => \A i \in DOMAIN next.claimed : Counts(next.claimed[i])
      PROVE  Countable(more)
  BY <1>4 DEF Countable
<1>5. Claims!ClaimBearing(run) => Counts(n)
  BY <1>1
<1> HIDE DEF more, n, so, next, Counts
<1>6. SUFFICES ASSUME next.error = "none", NEW i \in DOMAIN next.claimed
               PROVE  Counts(next.claimed[i])
  BY <1>4, <1>6 DEF more
<1>7. /\ so.error = "none"
      /\ \/ next.claimed = so.claimed
         \/ Claims!ClaimBearing(run) /\ next = Claims!Claim(so, n)
  BY <1>1, <1>6, DesignateCases
<1>8. \/ next.claimed = so.claimed
      \/ Claims!ClaimBearing(run) /\ next.claimed = Append(so.claimed, n)
  BY <1>1, <1>7, ClaimOf
<1>9. CASE next.claimed = so.claimed
  BY <1>2, <1>6, <1>7, <1>9
<1>10. CASE Claims!ClaimBearing(run) /\ next.claimed = Append(so.claimed, n)
  <2>1. /\ DOMAIN next.claimed = 1..(Len(so.claimed) + 1)
        /\ next.claimed[Len(so.claimed) + 1] = n
        /\ \A j \in 1..Len(so.claimed) : next.claimed[j] = so.claimed[j]
        /\ DOMAIN so.claimed = 1..Len(so.claimed) /\ Len(so.claimed) \in Nat
    BY <1>1, <1>3, <1>10, Appended
  <2>2. i = Len(so.claimed) + 1 \/ i \in 1..Len(so.claimed)
    BY <1>6, <2>1
  <2> QED BY <1>2, <1>5, <1>7, <1>10, <2>1, <2>2
<1> QED BY <1>8, <1>9, <1>10

LEMMA SameCardinality ==
    ASSUME NEW S
    PROVE  Claims!Cardinality(S) = Cardinality(S)
BY DEF Claims!Cardinality, Cardinality

\* The headline runs of a designated cell that count: the first ones, in order.
LEMMA ClaimedAreFirst ==
    ASSUME NEW T, NEW attempts \in Seq(T), FirstCount(attempts),
           Claims!Designated(attempts).error = "none"
    PROVE  LET claimed == Claims!Designated(attempts).claimed IN
           /\ claimed = Found(attempts).claimed /\ Found(attempts).error = "none"
           /\ Found(attempts).pending = 0
           /\ claimed \in [1..ClaimRuns -> DOMAIN attempts]
           /\ \A i, j \in 1..ClaimRuns : claimed[i] = claimed[j] => i = j
           /\ Claims!FirstRuns(attempts) = {claimed[i] : i \in 1..ClaimRuns}
<1> DEFINE so == Found(attempts)
<1>1. so \in Findings /\ ClaimRuns \in Nat
  BY FoundTypes, GridAssumption
<1>2. Claims!RefusedFor("invalid_replacement").error # "none"
  BY DEF Claims!RefusedFor, Claims!Nothing
<1>3. Claims!Designated(attempts) = so /\ so.error = "none" /\ so.pending = 0
      /\ Len(so.claimed) = ClaimRuns
  BY <1>1, <1>2, DesignatedIs
<1>4. so.claimed \in Seq(Nat) /\ DOMAIN so.claimed = 1..ClaimRuns
  BY <1>1, <1>3 DEF Findings
<1>5. /\ \A i \in 1..ClaimRuns :
           so.claimed[i] \in Headline(attempts) /\ Rank(attempts, so.claimed[i]) = i
      /\ \A n \in Headline(attempts) :
           Rank(attempts, n) <= ClaimRuns => \E i \in 1..ClaimRuns : so.claimed[i] = n
  BY <1>3, <1>4 DEF FirstCount
<1>6. Claims!FirstRuns(attempts) = {n \in Headline(attempts) : Rank(attempts, n) <= ClaimRuns}
  BY SameCardinality DEF Claims!FirstRuns, Headline, Rank
<1> HIDE DEF so
<1>7. Claims!FirstRuns(attempts) = {so.claimed[i] : i \in 1..ClaimRuns}
  <2>1. \A i \in 1..ClaimRuns : i <= ClaimRuns
    BY <1>1
  <2> QED BY <1>5, <1>6, <2>1
<1>8. so.claimed \in [1..ClaimRuns -> DOMAIN attempts]
  <2>1. Headline(attempts) \subseteq DOMAIN attempts
    BY DEF Headline
  <2> DEFINE claimed == so.claimed
  <2>2. claimed \in Seq(Nat) /\ Len(claimed) = ClaimRuns
    BY <1>3, <1>4
  <2> HIDE DEF claimed
  <2>3. claimed \in [1..ClaimRuns -> Nat]
    BY <2>2
  <2>4. \A i \in 1..ClaimRuns : claimed[i] \in DOMAIN attempts
    BY <1>5, <2>1 DEF claimed
  <2>5. claimed \in [1..ClaimRuns -> DOMAIN attempts]
    BY <2>3, <2>4
  <2> QED BY <2>5 DEF claimed
<1>9. \A i, j \in 1..ClaimRuns : so.claimed[i] = so.claimed[j] => i = j
  BY <1>5
<1> QED BY <1>3, <1>7, <1>8, <1>9 DEF so

\* The runs designated in a cell are its first headline runs, as many as count,
\* and a report may name them.
LEMMA DesignatedAre ==
    ASSUME NEW T, NEW v, retained[v] \in Seq(T), FirstCount(retained[v]),
           Countable(retained[v]), Claims!Designatable(v)
    PROVE  /\ Claims!DesignatedRuns(v) = Claims!FirstRuns(retained[v])
           /\ IsFiniteSet(Claims!DesignatedRuns(v))
           /\ Cardinality(Claims!DesignatedRuns(v)) = ClaimRuns
           /\ Claims!Reportable(v, Claims!DesignatedRuns(v))
<1> DEFINE claimed == Claims!ClaimsOf(v).claimed
           D == Claims!DesignatedRuns(v)
<1>1. /\ claimed = Found(retained[v]).claimed /\ Found(retained[v]).error = "none"
      /\ claimed \in [1..ClaimRuns -> DOMAIN retained[v]]
      /\ \A i, j \in 1..ClaimRuns : claimed[i] = claimed[j] => i = j
      /\ Claims!FirstRuns(retained[v]) = {claimed[i] : i \in 1..ClaimRuns}
  BY ClaimedAreFirst DEF Claims!Designatable, Claims!ClaimsOf
<1>2. DOMAIN claimed = 1..ClaimRuns
  BY <1>1
<1>3. \A i \in 1..ClaimRuns : Claims!ClaimBearing(retained[v][claimed[i]])
  <2>1. \A i \in DOMAIN claimed : Claims!ClaimBearing(retained[v][claimed[i]])
    BY <1>1 DEF Countable
  <2> QED BY <1>2, <2>1
<1>4. D = {claimed[i] : i \in 1..ClaimRuns}
  BY <1>2 DEF Claims!DesignatedRuns, Claims!ToSet
<1> HIDE DEF claimed, D
<1>5. claimed \in Bijection(1..ClaimRuns, D)
  <2>1. claimed \in [1..ClaimRuns -> D]
    BY <1>1, <1>4
  <2>2. \A n \in D : \E i \in 1..ClaimRuns : claimed[i] = n
    BY <1>4
  <2> QED BY <1>1, <2>1, <2>2 DEF Bijection, Injection, Surjection, IsInjective
<1>6. IsFiniteSet(1..ClaimRuns) /\ Cardinality(1..ClaimRuns) = ClaimRuns
  BY GridAssumption, FS_Interval
<1>7. IsFiniteSet(D) /\ Cardinality(D) = ClaimRuns
  BY <1>5, <1>6, FS_Bijection DEF ExistsBijection
<1>8. Claims!Reportable(v, D)
  BY <1>3, <1>4, <1>7, SameCardinality DEF Claims!Reportable
<1> QED BY <1>1, <1>4, <1>7, <1>8 DEF D

\* Of the runs designated in a cell as many passed as of its first ones.
LEMMA FirstPassesAre ==
    ASSUME NEW T, NEW v, retained[v] \in Seq(T), FirstCount(retained[v]),
           Countable(retained[v]), Claims!Designatable(v)
    PROVE  /\ Claims!PassCount(v, Claims!DesignatedRuns(v)) = Claims!FirstPasses(v)
           /\ Claims!FirstPasses(v) \in 0..ClaimRuns
<1> DEFINE first == Claims!FirstRuns(retained[v])
           S == {n \in first : Claims!Passed(retained[v][n])}
<1>1. /\ Claims!DesignatedRuns(v) = first /\ IsFiniteSet(first)
      /\ Cardinality(first) = ClaimRuns /\ ClaimRuns \in Nat
  BY DesignatedAre, GridAssumption
<1>2. Claims!FirstPasses(v) = Cardinality(S)
  BY SameCardinality DEF Claims!FirstPasses
<1>3. Claims!PassCount(v, first) = Cardinality(S)
  BY SameCardinality DEF Claims!PassCount
<1>4. S \subseteq first
  OBVIOUS
<1> HIDE DEF first, S
<1>5. IsFiniteSet(S) /\ Cardinality(S) <= Cardinality(first)
  BY <1>1, <1>4, FS_Subset
<1>6. Cardinality(S) \in 0..ClaimRuns
  BY <1>1, <1>5, FS_CardinalityType
<1> QED BY <1>1, <1>2, <1>3, <1>6

\* Once the runs of a cell are designated, another attempt leaves them alone or
\* takes the designation away, and then it is none a report may name.
LEMMA DesignationStands ==
    ASSUME NEW T, NEW attempts \in Seq(T), NEW run \in T,
           Claims!Designated(attempts).error = "none"
    PROVE  LET more == Append(attempts, run) IN
           \/ /\ Claims!Designated(more).error = "none"
              /\ Claims!Designated(more).claimed = Claims!Designated(attempts).claimed
           \/ /\ Claims!Designated(more).error # "none"
              /\ ~Claims!ClaimBearing(run)
<1> DEFINE more == Append(attempts, run)
           n == Len(attempts) + 1
           so == Found(attempts)
           next == Found(more)
<1>1. /\ so \in Findings /\ next = Claims!Designate(more, so, n) /\ n \in Nat
      /\ n # 0 /\ more[n] = run /\ ClaimRuns \in Nat
  BY FoundTypes, FoundNext, Appended, GridAssumption
<1>2. Claims!RefusedFor("invalid_replacement").error # "none"
  BY DEF Claims!RefusedFor, Claims!Nothing
<1>3. Claims!Designated(attempts) = so /\ so.error = "none" /\ so.pending = 0
      /\ Len(so.claimed) = ClaimRuns
  BY <1>1, <1>2, DesignatedIs
<1>4. Claims!Designated(more) =
        IF next.error = "none" /\ (next.pending # 0 \/ Len(next.claimed) # ClaimRuns)
        THEN Claims!RefusedFor("invalid_replacement") ELSE next
  BY DesignatedIs
<1> HIDE DEF more, n, so, next
<1>5. \/ next.error # "none"
         /\ ~Claims!ClaimBearing(run)
      \/ next = so
      \/ /\ run.designation = "invalidated_technical" /\ next.error = "none" /\ next.pending = n
  BY <1>1, <1>3, DesignateCases, ClaimOf
<1>6. CASE next.error # "none" /\ ~Claims!ClaimBearing(run)
  BY <1>4, <1>6 DEF more
<1>7. CASE next = so
  BY <1>3, <1>4, <1>7 DEF more
<1>8. CASE run.designation = "invalidated_technical" /\ next.error = "none" /\ next.pending = n
  BY <1>1, <1>2, <1>4, <1>8 DEF more, Claims!ClaimBearing
<1> QED BY <1>5, <1>6, <1>7, <1>8

\* A report that was accepted is over attempts there are, and classifies them.
Settled(runs) ==
    /\ aggregate.runs = runs
    /\ \A v \in Claims!ClaimVariants : runs[v] \subseteq DOMAIN retained[v]
    /\ aggregate.classification = Claims!Classification(runs)

ClaimsInv ==
    /\ retained \in [Claims!ClaimVariants -> Seq(Kinds)]
    /\ \A v \in Claims!ClaimVariants : FirstCount(retained[v]) /\ Countable(retained[v])
    /\ aggregate.status = "accepted" => \E runs : Settled(runs)

LEMMA ClaimsStart == Init => ClaimsInv
<1> SUFFICES ASSUME Init PROVE ClaimsInv
  OBVIOUS
<1>1. /\ retained = [v \in Claims!ClaimVariants |-> <<>>]
      /\ aggregate = Claims!NoAggregate
  BY DEF Init, Claims!ClaimInit
<1>2. \A v \in Claims!ClaimVariants :
        retained[v] = <<>> /\ FirstCount(retained[v]) /\ Countable(retained[v])
  <2>1. Countable(<<>>)
    BY FoundNothing DEF Countable, Claims!Nothing
  <2> QED BY <1>1, <2>1, FirstCountNothing
<1>3. retained \in [Claims!ClaimVariants -> Seq(Kinds)]
  <2>1. <<>> \in Seq(Kinds)
    OBVIOUS
  <2> QED BY <1>1, <2>1
<1>4. aggregate.status # "accepted"
  BY <1>1 DEF Claims!NoAggregate
<1> QED BY <1>2, <1>3, <1>4 DEF ClaimsInv

\* Attempts that are registered already stay what they are.
LEMMA RetainsBehind ==
    ASSUME ClaimsInv, NEW v \in Claims!ClaimVariants, NEW run \in Kinds, Claims!Retain(v, run)
    PROVE  /\ retained' \in [Claims!ClaimVariants -> Seq(Kinds)]
           /\ retained[v] \in Seq(Kinds)
           /\ retained'[v] = Append(retained[v], run)
           /\ \A w \in Claims!ClaimVariants : w # v => retained'[w] = retained[w]
           /\ \A w \in Claims!ClaimVariants :
                /\ DOMAIN retained[w] \subseteq DOMAIN retained'[w]
                /\ \A i \in DOMAIN retained[w] : retained'[w][i] = retained[w][i]
           /\ aggregate' = aggregate
<1>1. /\ retained' = [retained EXCEPT ![v] = Append(@, run)] /\ aggregate' = aggregate
      /\ retained \in [Claims!ClaimVariants -> Seq(Kinds)]
  BY DEF Claims!Retain, ClaimsInv
<1>2. /\ retained[v] \in Seq(Kinds) /\ retained'[v] = Append(retained[v], run)
      /\ \A w \in Claims!ClaimVariants : w # v => retained'[w] = retained[w]
  BY <1>1
<1>3. Append(retained[v], run) \in Seq(Kinds)
  BY <1>2
<1>4. retained' \in [Claims!ClaimVariants -> Seq(Kinds)]
  BY <1>1, <1>3
<1>5. ASSUME NEW w \in Claims!ClaimVariants
      PROVE  /\ DOMAIN retained[w] \subseteq DOMAIN retained'[w]
             /\ \A i \in DOMAIN retained[w] : retained'[w][i] = retained[w][i]
  <2>1. CASE w = v
    <3>1. /\ DOMAIN retained[v] = 1..Len(retained[v]) /\ Len(retained[v]) \in Nat
          /\ DOMAIN retained'[v] = 1..(Len(retained[v]) + 1)
          /\ \A i \in 1..Len(retained[v]) : retained'[v][i] = retained[v][i]
      BY <1>2, Appended
    <3> QED BY <2>1, <3>1
  <2>2. CASE w # v
    BY <1>2, <2>2
  <2> QED BY <2>1, <2>2
<1> QED BY <1>1, <1>2, <1>4, <1>5

\* What a report says does not depend on the attempts behind its runs.
LEMMA ClassificationStays ==
    ASSUME NEW runs,
           \A v \in Claims!ClaimVariants :
             /\ runs[v] \subseteq DOMAIN retained[v]
             /\ \A n \in DOMAIN retained[v] : retained'[v][n] = retained[v][n]
    PROVE  Claims!Classification(runs)' = Claims!Classification(runs)
<1>1. ASSUME NEW v \in Claims!ClaimVariants
      PROVE  Claims!PassCount(v, runs[v])' = Claims!PassCount(v, runs[v])
  <2>1. {n \in runs[v] : Claims!Passed(retained'[v][n])}
          = {n \in runs[v] : Claims!Passed(retained[v][n])}
    OBVIOUS
  <2> QED BY <2>1 DEF Claims!PassCount
<1>2. {Claims!PassCount(v, runs[v])' : v \in Comparators}
        = {Claims!PassCount(v, runs[v]) : v \in Comparators}
  BY <1>1, GridAssumption
<1>3. Claims!StrongestCount(runs)' = Claims!StrongestCount(runs)
  BY <1>2 DEF Claims!StrongestCount
<1>4. Claims!PassCount(Claims!RecallPack, runs[Claims!RecallPack])'
        = Claims!PassCount(Claims!RecallPack, runs[Claims!RecallPack])
  BY <1>1, GridAssumption
<1> QED BY <1>3, <1>4 DEF Claims!Classification

LEMMA RetainKeeps ==
    ASSUME ClaimsInv, NEW v \in Claims!ClaimVariants, NEW run \in Kinds, Claims!Retain(v, run)
    PROVE  ClaimsInv'
<1>1. /\ retained' \in [Claims!ClaimVariants -> Seq(Kinds)]
      /\ retained[v] \in Seq(Kinds)
      /\ retained'[v] = Append(retained[v], run)
      /\ \A w \in Claims!ClaimVariants : w # v => retained'[w] = retained[w]
      /\ \A w \in Claims!ClaimVariants :
           /\ DOMAIN retained[w] \subseteq DOMAIN retained'[w]
           /\ \A i \in DOMAIN retained[w] : retained'[w][i] = retained[w][i]
      /\ aggregate' = aggregate
  BY RetainsBehind
<1>2. ASSUME NEW w \in Claims!ClaimVariants
      PROVE  FirstCount(retained'[w]) /\ Countable(retained'[w])
  <2>1. FirstCount(retained[w]) /\ Countable(retained[w])
    BY DEF ClaimsInv
  <2>2. CASE w = v
    BY <1>1, <2>1, <2>2, FirstCountNext, CountableNext
  <2>3. CASE w # v
    BY <1>1, <2>1, <2>3
  <2> QED BY <2>2, <2>3
<1>3. ASSUME NEW runs, Settled(runs) PROVE Settled(runs)'
  <2>1. Claims!Classification(runs)' = Claims!Classification(runs)
    BY <1>1, <1>3, ClassificationStays DEF Settled
  <2> QED BY <1>1, <1>3, <2>1 DEF Settled
<1>4. aggregate'.status = "accepted" => (\E runs : Settled(runs))'
  BY <1>1, <1>3 DEF ClaimsInv
<1> QED BY <1>1, <1>2, <1>4 DEF ClaimsInv

LEMMA ReportKeeps ==
    ASSUME ClaimsInv, NEW runs, NEW adverse, NEW numerator,
           Claims!Report(runs, adverse, numerator)
    PROVE  ClaimsInv'
<1>1. /\ retained' = retained
      /\ \A v \in Claims!ClaimVariants : runs[v] \subseteq DOMAIN retained[v]
      /\ \/ /\ aggregate'.runs = runs
            /\ aggregate'.classification = Claims!Classification(runs)
         \/ aggregate'.status # "accepted"
  <2>1. [Claims!NoAggregate EXCEPT !.status = "refused"].status # "accepted"
    BY DEF Claims!NoAggregate
  <2> QED BY <2>1 DEF Claims!Report
<1>2. Claims!Classification(runs)' = Claims!Classification(runs)
  BY <1>1, ClassificationStays
<1>3. aggregate'.status = "accepted" => Settled(runs)'
  BY <1>1, <1>2 DEF Settled
<1>4. aggregate'.status = "accepted" => (\E accepted : Settled(accepted))'
  BY <1>3
<1> QED BY <1>1, <1>4 DEF ClaimsInv

LEMMA ClaimsIdle ==
    ASSUME ClaimsInv, UNCHANGED <<retained, aggregate>>
    PROVE  ClaimsInv'
<1>1. ASSUME NEW runs, Settled(runs) PROVE Settled(runs)'
  <2>1. Claims!Classification(runs)' = Claims!Classification(runs)
    BY <1>1, ClassificationStays DEF Settled
  <2> QED BY <1>1, <2>1 DEF Settled
<1>2. aggregate'.status = "accepted" => (\E runs : Settled(runs))'
  BY <1>1 DEF ClaimsInv
<1> QED BY <1>2 DEF ClaimsInv

LEMMA ClaimsNext == ClaimsInv /\ [Next]_evaluated => ClaimsInv'
<1> SUFFICES ASSUME ClaimsInv, [Next]_evaluated PROVE ClaimsInv'
  OBVIOUS
<1>1. CASE Claims!ClaimNext
  <2>1. CASE \E v \in Claims!ClaimVariants, run \in Kinds : Claims!Retain(v, run)
    BY <2>1, RetainKeeps
  <2>2. CASE \E runs, adverse, numerator : Claims!Report(runs, adverse, numerator)
    BY <2>2, ReportKeeps
  <2>3. CASE \E outputs : Claims!Preview(outputs)
    BY <2>3, ClaimsIdle DEF Claims!Preview
  <2> QED BY <1>1, <2>1, <2>2, <2>3 DEF Claims!ClaimNext
<1>2. CASE UNCHANGED preview
  BY <1>2, ClaimsIdle DEF preview
<1> QED BY <1>1, <1>2 DEF Next, Live, Diagnosing, Claiming, evaluated

\* The strongest of some counts is one of them and at least every one.
LEMMA StrongestOf ==
    ASSUME NEW S, S \subseteq 0..ClaimRuns, S # {}
    PROVE  Claims!Max(S) \in S /\ \A e \in S : Claims!Max(S) >= e
<1> DEFINE least == {ClaimRuns - e : e \in S}
<1>1. least \in SUBSET Nat /\ least # {} /\ ClaimRuns \in Nat
  <2>1. ClaimRuns \in Nat
    BY GridAssumption
  <2>2. \A e \in S : ClaimRuns - e \in Nat
    BY <2>1
  <2> QED BY <2>1, <2>2
<1>2. Least(least) \in least /\ \A e \in least : Least(least) <= e
  BY <1>1, LeastOf
<1>3. PICK x \in S : Least(least) = ClaimRuns - x
  BY <1>2
<1>4. ASSUME NEW e \in S PROVE x >= e
  <2>1. ClaimRuns - x <= ClaimRuns - e
    BY <1>2, <1>3
  <2> QED BY <1>1, <2>1
<1> QED BY <1>4 DEF Claims!Max

\* Whatever is designated may be reported, and such a report is right about a
\* win.
LEMMA ReportsBacked == ClaimsInv => Claims!ReportsAreBacked
<1> SUFFICES ASSUME ClaimsInv PROVE Claims!ReportsAreBacked
  OBVIOUS
<1>1. \A v \in Claims!ClaimVariants :
        retained[v] \in Seq(Kinds) /\ FirstCount(retained[v]) /\ Countable(retained[v])
  BY DEF ClaimsInv
<1>2. ASSUME NEW v \in Claims!ClaimVariants, Claims!Designatable(v)
      PROVE  Claims!Reportable(v, Claims!DesignatedRuns(v))
  BY <1>1, <1>2, DesignatedAre
<1>3. ASSUME Claims!OverDesignated(aggregate)
      PROVE  aggregate.classification = "strict_win" <=>
               \A c \in Comparators :
                 Claims!FirstPasses(Claims!RecallPack) > Claims!FirstPasses(c)
  <2> DEFINE First(v) == Claims!FirstPasses(v)
             S == {First(c) : c \in Comparators}
             recallpack == First(Claims!RecallPack)
  <2>1. PICK runs : Settled(runs)
    BY <1>3 DEF ClaimsInv, Claims!OverDesignated
  <2>2. ASSUME NEW v \in Claims!ClaimVariants
        PROVE  Claims!PassCount(v, runs[v]) = First(v) /\ First(v) \in 0..ClaimRuns
    <3>1. Claims!Designatable(v) /\ runs[v] = Claims!DesignatedRuns(v)
      BY <1>3, <2>1 DEF Settled, Claims!OverDesignated
    <3> QED BY <1>1, <3>1, FirstPassesAre
  <2>3. Claims!StrongestCount(runs) = Claims!Max(S)
    <3>1. {Claims!PassCount(c, runs[c]) : c \in Comparators} = S
      BY <2>2, GridAssumption
    <3> QED BY <3>1 DEF Claims!StrongestCount
  <2>4. Claims!PassCount(Claims!RecallPack, runs[Claims!RecallPack]) = recallpack
        /\ recallpack \in Nat
    BY <2>2, GridAssumption
  <2>5. aggregate.classification = "strict_win" <=> recallpack > Claims!Max(S)
    BY <2>1, <2>3, <2>4 DEF Settled, Claims!Classification
  <2>6. S \subseteq 0..ClaimRuns /\ S # {}
    BY <2>2, GridAssumption
  <2>7. \A c \in Comparators : First(c) \in S
    OBVIOUS
  <2>8. \A e \in S : \E c \in Comparators : e = First(c)
    OBVIOUS
  <2> HIDE DEF S, First, recallpack
  <2>9. Claims!Max(S) \in S /\ \A e \in S : Claims!Max(S) >= e
    BY <2>6, StrongestOf
  <2>10. (recallpack > Claims!Max(S)) <=> \A c \in Comparators : recallpack > First(c)
    <3>1. Claims!Max(S) \in Nat /\ \A c \in Comparators : First(c) \in Nat
      <4>1. \A e \in S : e \in Nat
        BY <2>6
      <4> QED BY <2>7, <2>9, <4>1, Zenon
    <3>2. \A c \in Comparators : Claims!Max(S) >= First(c)
      BY <2>7, <2>9
    <3>3. ASSUME \A c \in Comparators : recallpack > First(c) PROVE recallpack > Claims!Max(S)
      BY <2>8, <2>9, <3>3
    <3>4. \A m, f \in Nat : recallpack > m /\ m >= f => recallpack > f
      BY <2>4
    <3> QED BY <3>1, <3>2, <3>3, <3>4
  <2> QED BY <2>5, <2>10 DEF First, recallpack
<1> QED BY <1>2, <1>3 DEF Claims!ReportsAreBacked

\* The runs that count in a cell are its first headline runs and each of them
\* may be reported; a report that was accepted classifies attempts there still
\* are, whichever they are (designate_v4_claim_runs,
\* recompute_v4_aggregate_metrics).
THEOREM ClaimsInductive == Spec => []ClaimsInv
BY ClaimsStart, ClaimsNext, PTL DEF Spec

\* No attempt that is added betters what counts: the runs that are designated
\* in a cell stay or are no longer designated, and a report of the designated
\* runs of every cell is a win exactly if recallpack did better in its first
\* runs than each comparator in theirs, whatever was added to them
\* (designate_v4_claim_runs, recompute_v4_aggregate_metrics).
THEOREM EveryVerdictStands == Spec => VerdictsStand
<1> DEFINE Stands ==
      \A v \in Claims!ClaimVariants : retained'[v] # retained[v] /\ Claims!Designatable(v) =>
         \/ Claims!Designatable(v)' /\ Claims!ClaimsOf(v)'.claimed = Claims!ClaimsOf(v).claimed
         \/ ~Claims!Designatable(v)' /\ ~Claims!ClaimBearing(Claims!Last(retained'[v]))
<1>1. ASSUME ClaimsInv, [Next]_evaluated
      PROVE  [Stands]_Claims!claims
  <2>1. CASE UNCHANGED preview
    BY <2>1 DEF preview, Claims!claims
  <2>2. CASE \E v \in Claims!ClaimVariants, run \in Kinds : Claims!Retain(v, run)
    <3>1. PICK v \in Claims!ClaimVariants, run \in Kinds : Claims!Retain(v, run)
      BY <2>2
    <3>2. /\ retained[v] \in Seq(Kinds) /\ retained'[v] = Append(retained[v], run)
          /\ \A w \in Claims!ClaimVariants : w # v => retained'[w] = retained[w]
      BY <1>1, <3>1, RetainsBehind
    <3>3. Claims!Last(retained'[v]) = run
      <4>1. Len(Append(retained[v], run)) = Len(retained[v]) + 1
            /\ Append(retained[v], run)[Len(retained[v]) + 1] = run
        BY <3>2, Appended
      <4> QED BY <3>2, <4>1 DEF Claims!Last
    <3>4. Claims!Designatable(v) =>
            \/ /\ Claims!Designated(retained'[v]).error = "none"
               /\ Claims!Designated(retained'[v]).claimed = Claims!Designated(retained[v]).claimed
            \/ /\ Claims!Designated(retained'[v]).error # "none"
               /\ ~Claims!ClaimBearing(run)
      BY <3>2, DesignationStands DEF Claims!Designatable, Claims!ClaimsOf
    <3>5. ASSUME NEW w \in Claims!ClaimVariants, retained'[w] # retained[w],
                 Claims!Designatable(w)
          PROVE  \/ Claims!Designatable(w)'
                    /\ Claims!ClaimsOf(w)'.claimed = Claims!ClaimsOf(w).claimed
                 \/ /\ ~Claims!Designatable(w)'
                    /\ ~Claims!ClaimBearing(Claims!Last(retained'[w]))
      <4>1. w = v
        BY <3>2, <3>5
      <4> QED BY <3>3, <3>4, <3>5, <4>1 DEF Claims!Designatable, Claims!ClaimsOf
    <3> QED BY <3>5
  <2>3. CASE UNCHANGED retained
    BY <2>3
  <2>4. UNCHANGED preview \/ Claims!ClaimNext
    BY <1>1 DEF Next, Live, Diagnosing, Claiming, evaluated
  <2> QED BY <2>1, <2>2, <2>3, <2>4 DEF Claims!ClaimNext, Claims!Report, Claims!Preview
<1> QED BY <1>1, ReportsBacked, ClaimsInductive, PTL DEF Spec, VerdictsStand, Claims!VerdictsStand

---------------------------------------------------------------------------
\* Two lives of a policy

Told      == Diagnostic!Before
Policy(e) == PolicyOf[Told[e].text]
Policies  == {PolicyOf[text] : text \in DOMAIN PolicyOf} \ {"none", Diagnostic!DependencyPolicy}

\* What was said of a policy up to an event: to the resolver, and by users.
Heard(subject, e) ==
    {f \in Diagnostic!Statements(subject, Diagnostic!Actors) \cap ToSet(near) : f < e}
Ruled(subject, e) ==
    {f \in Diagnostic!Statements(subject, {"user"}) : f < e}

\* Of a policy, the events of a list, and the active memories of a store.
Listed(list, subject) == {f \in list : Policy(f) = subject}
Lasting(store) == {f \in DOMAIN store : store[f] # NoMemory /\ store[f].active}
Standing(store, subject) == {f \in Lasting(store) : store[f].subject = subject}

\* The list of the resolver, of the events before e.
ResolvedTo(list, e) ==
    /\ list \subseteq {f \in DOMAIN Told : f < e}
    /\ \A subject \in Policies :
         Listed(list, subject) =
           IF Heard(subject, e) = {} THEN {} ELSE {Diagnostic!Latest(Heard(subject, e))}

\* A memory that was made of an event.
MemoryFields == {"type", "subject", "scope", "component", "text", "seq", "active"}
MadeOf(m, f) ==
    /\ DOMAIN m = MemoryFields /\ m.type # "none"
    /\ m.seq = f /\ m.text = Told[f].text /\ m.subject = Policy(f)
    /\ SameKey(m, Diagnostic!PolicyMemory(m.text))

\* The scratch store, after the events before e.
Remembers(store, f, e) ==
    \/ store[f] = NoMemory
    \/ f < e /\ Policy(f) # "none" /\ Told[f].actor = "user" /\ MadeOf(store[f], f)

StoredTo(store, e) ==
    /\ DOMAIN store = DOMAIN Told
    /\ \A f \in DOMAIN Told : Remembers(store, f, e)
    /\ \A subject \in Policies : Ruled(subject, e) # {} =>
         \E f \in DOMAIN Told :
           /\ Standing(store, subject) = {f}
           /\ Equivalent(Told[Diagnostic!Latest(Ruled(subject, e))].text, Told[f].text)

DiagnosticPhases ==
    {"load", "raw_full_history", "semantic_rerank", "recency_aware", "recall_time_resolver",
     "recallpack", "done", "raised"}

\* The context of recallpack, and what its patch applies, are active memories.
Packed ==
    /\ \A i \in DOMAIN chosen["recallpack"] :
         \E f \in Lasting(stored) : chosen["recallpack"][i].text = Told[f].text
    /\ patched["recallpack"] \in {"current", "stale"} =>
         \E f \in Lasting(stored) : patched["recallpack"] = Says[Told[f].text]

DiagnosticInv ==
    /\ packet \in Packets /\ phase \in DiagnosticPhases
    /\ "recallpack" \in DOMAIN chosen /\ "recallpack" \in DOMAIN patched
    /\ hearing \in 1..(Len(Told) + 1)
    /\ phase \notin {"load", "raised"} => Diagnostic!Loadable(packet)
    /\ phase \notin {"recall_time_resolver", "recallpack", "done", "raised"} =>
         hearing = 1 /\ resolved = {}
    /\ phase \notin {"recallpack", "done", "raised"} =>
         stored = [e \in DOMAIN Told |-> NoMemory]
    /\ phase = "recall_time_resolver" => ResolvedTo(resolved, hearing)
    /\ phase \in {"recallpack", "done"} => ResolvedTo(resolved, Len(Told) + 1)
    /\ phase = "recallpack" => StoredTo(stored, hearing)
    /\ phase = "done" => StoredTo(stored, Len(Told) + 1) /\ Packed

\* The events of a packet that could be loaded.
LEMMA ToldIs ==
    ASSUME packet \in Packets, Diagnostic!Loadable(packet)
    PROVE  /\ Len(Told) \in Nat /\ DOMAIN Told = 1..Len(Told) /\ Len(Told) <= CandidateLimit
           /\ \A e \in DOMAIN Told :
                Told[e].text \in DOMAIN PolicyOf /\ Told[e].actor \in Diagnostic!Actors
<1> DEFINE s == packet.events
<1>1. IsList(s) /\ s # <<>> /\ Len(s) <= CandidateLimit + 1
  BY PacketAssumption DEF Diagnostic!Loadable, Diagnostic!LedgerCloses
<1>2. \A i \in DOMAIN s : s[i].text \in DOMAIN PolicyOf /\ s[i].actor \in Diagnostic!Actors
  BY PacketAssumption DEF Diagnostic!Loadable, Diagnostic!LedgerCloses
<1>3. Told = Front(s)
  BY DEF Told, Diagnostic!Before, Diagnostic!Front, Front
<1> HIDE DEF s
<1>4. /\ Told \in Seq(ToSet(s)) /\ DOMAIN Told = 1..(Len(s) - 1)
      /\ Len(s) \in Nat \ {0}
  BY <1>1, <1>3, FrontDomain
<1>5. Len(Told) = Len(s) - 1
  BY <1>4
<1>6. ASSUME NEW e \in DOMAIN Told
      PROVE  Told[e].text \in DOMAIN PolicyOf /\ Told[e].actor \in Diagnostic!Actors
  <2>1. Told[e] \in ToSet(s)
    BY <1>4
  <2>2. PICK i \in DOMAIN s : s[i] = Told[e]
    BY <2>1 DEF ToSet
  <2> QED BY <1>2, <2>2
<1> QED BY <1>1, <1>4, <1>5, <1>6 DEF CandidateLimit

\* Whatever the packet, it has so many events before its last.
LEMMA ToldLength ==
    ASSUME packet \in Packets
    PROVE  Len(Told) \in Nat /\ DOMAIN Told = 1..Len(Told)
<1> DEFINE s == packet.events
<1>1. IsList(s)
  BY PacketAssumption
<1>2. s \in Seq(ToSet(s))
  BY <1>1 DEF IsList
<1>3. Told = SubSeq(s, 1, Len(s) - 1)
  BY DEF Told, Diagnostic!Before, Diagnostic!Front
<1> HIDE DEF s
<1>4. Told \in Seq(ToSet(s))
  BY <1>2, <1>3
<1> QED BY <1>4

---------------------------------------------------------------------------
\* The last of some events

LEMMA LatestOf ==
    ASSUME NEW S \in SUBSET Nat, NEW e \in S, \A f \in S : f <= e
    PROVE  Diagnostic!Latest(S) = e
<1>1. \A f \in S : (\A g \in S : g <= f) => f = e
  OBVIOUS
<1> QED BY <1>1 DEF Diagnostic!Latest

\* What is said next is what was said last.
LEMMA HeardNext ==
    ASSUME DOMAIN Told \subseteq Nat, NEW e \in DOMAIN Told, NEW subject,
           Told[e].actor \in Diagnostic!Actors
    PROVE  IF e \in ToSet(near) /\ Policy(e) = subject
           THEN Heard(subject, e + 1) # {} /\ Diagnostic!Latest(Heard(subject, e + 1)) = e
           ELSE Heard(subject, e + 1) = Heard(subject, e)
<1>1. CASE e \in ToSet(near) /\ Policy(e) = subject
  <2>1. /\ Heard(subject, e + 1) \in SUBSET Nat /\ e \in Heard(subject, e + 1)
        /\ \A f \in Heard(subject, e + 1) : f <= e
    BY <1>1 DEF Heard, Diagnostic!Statements, Policy, Told
  <2> QED BY <1>1, <2>1, LatestOf
<1>2. CASE ~(e \in ToSet(near) /\ Policy(e) = subject)
  <2>1. ASSUME NEW f PROVE f \in Heard(subject, e + 1) <=> f \in Heard(subject, e)
    BY <1>2 DEF Heard, Diagnostic!Statements, Policy, Told
  <2>2. Heard(subject, e + 1) = Heard(subject, e)
    BY <2>1, Zenon
  <2> QED BY <1>2, <2>2
<1> QED BY <1>1, <1>2

LEMMA RuledNext ==
    ASSUME DOMAIN Told \subseteq Nat, NEW e \in DOMAIN Told, NEW subject
    PROVE  IF Told[e].actor = "user" /\ Policy(e) = subject
           THEN Ruled(subject, e + 1) # {} /\ Diagnostic!Latest(Ruled(subject, e + 1)) = e
           ELSE Ruled(subject, e + 1) = Ruled(subject, e)
<1>1. CASE Told[e].actor = "user" /\ Policy(e) = subject
  <2>1. /\ Ruled(subject, e + 1) \in SUBSET Nat /\ e \in Ruled(subject, e + 1)
        /\ \A f \in Ruled(subject, e + 1) : f <= e
    BY <1>1 DEF Ruled, Diagnostic!Statements, Policy, Told
  <2> QED BY <1>1, <2>1, LatestOf
<1>2. CASE ~(Told[e].actor = "user" /\ Policy(e) = subject)
  <2>1. ASSUME NEW f PROVE f \in Ruled(subject, e + 1) <=> f \in Ruled(subject, e)
    BY <1>2 DEF Ruled, Diagnostic!Statements, Policy, Told
  <2> QED BY <1>2, <2>1
<1> QED BY <1>1, <1>2

---------------------------------------------------------------------------
\* The decider finds the candidate of its policy

LEMMA PriorsOf ==
    ASSUME NEW c, NEW n \in Nat, DOMAIN c = 1..n, NEW subject,
           subject # Diagnostic!DependencyPolicy
    PROVE  \/ /\ \A i \in 1..n : c[i].subject # subject
              /\ Diagnostic!Priors(subject, c) = <<>>
           \/ \E i \in 1..n : c[i].subject = subject /\ Diagnostic!Priors(subject, c) = <<i>>
<1> DEFINE same == {i \in DOMAIN c : c[i].subject = subject}
<1>1. CASE same = {}
  BY <1>1 DEF Diagnostic!Priors
<1>2. CASE same # {}
  <2>1. same \in SUBSET Nat
    OBVIOUS
  <2>2. Diagnostic!Priors(subject, c) = <<Least(same)>>
    BY <1>2 DEF Diagnostic!Priors, Least
  <2>3. Least(same) \in same
    BY <1>2, <2>1, LeastOf
  <2> QED BY <2>2, <2>3
<1> QED BY <1>1, <1>2

\* The operators of the instance are those of this module.
LEMMA SameOperators ==
    /\ \A S : Diagnostic!SetToSeqs(S) = SetToSeqs(S)
    /\ \A s : Diagnostic!ToSet(s) = ToSet(s)
    /\ \A order : Diagnostic!Budgeted(order) = Greedy(order)
    /\ Diagnostic!NoMemory = NoMemory
    /\ Diagnostic!CandidateLimit = CandidateLimit
<1>0. \A S : Diagnostic!Cardinality(S) = Cardinality(S)
  BY DEF Diagnostic!Cardinality, Cardinality
<1>1. \A S : Diagnostic!SetToSeqs(S) = SetToSeqs(S)
  BY <1>0 DEF Diagnostic!SetToSeqs, SetToSeqs
<1>2. \A s : Diagnostic!ToSet(s) = ToSet(s)
  BY DEF Diagnostic!ToSet, ToSet
<1>3. ASSUME NEW order PROVE Diagnostic!Budgeted(order) = Greedy(order)
  <2>1. \A S : Diagnostic!Max(S) = Max(S)
    BY DEF Diagnostic!Max, Max
  <2>2. Diagnostic!Budgeted(order) = (CHOOSE f : Packs(order, f))[DOMAIN order]
    BY <2>1 DEF Diagnostic!Budgeted, Diagnostic!FoldLeft, Diagnostic!MapThenFoldSet, Packs, Taken
  <2> QED BY <2>2, GreedyIs
<1> QED BY <1>1, <1>2, <1>3 DEF Diagnostic!NoMemory, NoMemory, Diagnostic!CandidateLimit, CandidateLimit

---------------------------------------------------------------------------
\* An event is resolved

LEMMA ResolveStep ==
    ASSUME packet \in Packets, Diagnostic!Loadable(packet), hearing \in DOMAIN Told,
           ResolvedTo(resolved, hearing), NEW order \in Diagnostic!Listings(resolved)
    PROVE  ResolvedTo(Diagnostic!Resolve(order), hearing + 1)
<1> DEFINE e == hearing
           c == [i \in DOMAIN order |-> Diagnostic!PolicyItem(order[i])]
           op == Diagnostic!Decided(Told[e].text, c)
           list == Diagnostic!Resolve(order)
<1>1. /\ Len(Told) \in Nat /\ DOMAIN Told = 1..Len(Told) /\ DOMAIN Told \subseteq Nat
      /\ e \in Nat /\ Told[e].text \in DOMAIN PolicyOf /\ Told[e].actor \in Diagnostic!Actors
  BY ToldIs
<1>2. resolved \subseteq {f \in DOMAIN Told : f < e}
  BY DEF ResolvedTo
<1>3. \A subject \in Policies :
        Listed(resolved, subject) =
          IF Heard(subject, e) = {} THEN {} ELSE {Diagnostic!Latest(Heard(subject, e))}
  BY DEF ResolvedTo
<1>4. list = IF e \notin ToSet(near) \/ op.operation # "write" THEN resolved
             ELSE (resolved \ {order[i] : i \in ToSet(op.supersedes)}) \cup {e}
  BY SameOperators DEF Diagnostic!Resolve, Told
<1>5. IF Policy(e) = "none" THEN op.operation = "no_op"
      ELSE op.operation = "write" /\ op.supersedes = Diagnostic!Priors(Policy(e), c)
  BY DEF Diagnostic!Decided, Policy
<1>6. \A subject :
        IF e \in ToSet(near) /\ Policy(e) = subject
        THEN Heard(subject, e + 1) # {} /\ Diagnostic!Latest(Heard(subject, e + 1)) = e
        ELSE Heard(subject, e + 1) = Heard(subject, e)
  BY <1>1, HeardNext
<1>7. "none" \notin Policies /\ Diagnostic!DependencyPolicy \notin Policies
  BY DEF Policies
<1> HIDE DEF e, op, list
<1>8. CASE e \notin ToSet(near) \/ Policy(e) = "none"
  <2>1. list = resolved
    BY <1>4, <1>5, <1>8
  <2>2. list \subseteq {f \in DOMAIN Told : f < e + 1}
    BY <1>1, <1>2, <2>1
  <2>3. \A subject \in Policies : Heard(subject, e + 1) = Heard(subject, e)
    BY <1>6, <1>7, <1>8
  <2> QED BY <1>3, <2>1, <2>2, <2>3 DEF ResolvedTo, list, e
<1>9. CASE e \in ToSet(near) /\ Policy(e) # "none"
  <2> DEFINE dropped == {order[i] : i \in ToSet(op.supersedes)}
  <2>1. list = (resolved \ dropped) \cup {e}
    BY <1>4, <1>5, <1>9
  <2>2. op.supersedes = Diagnostic!Priors(Policy(e), c)
    BY <1>5, <1>9
  <2>3. /\ \A f \in dropped : Policy(f) = Policy(e)
        /\ Policy(e) \in Policies => Listed(resolved, Policy(e)) \subseteq dropped
    <3>1. CASE Policy(e) = Diagnostic!DependencyPolicy
      <4>1. op.supersedes = <<>>
        BY <2>2, <3>1 DEF Diagnostic!Priors
      <4> QED BY <1>7, <3>1, <4>1 DEF ToSet
    <3>2. CASE Policy(e) # Diagnostic!DependencyPolicy
      <4>1. Policy(e) \in Policies
        BY <1>1, <1>9, <3>2 DEF Policies, Policy
      <4>2. IsFiniteSet(resolved)
        <5>1. IsFiniteSet(1..Len(Told))
          BY <1>1, FS_Interval
        <5>2. resolved \subseteq 1..Len(Told)
          BY <1>1, <1>2
        <5> QED BY <5>1, <5>2, FS_Subset
      <4>3. order \in SetToSeqs(resolved)
        BY SameOperators DEF Diagnostic!Listings
      <4>4. order \in Seq(resolved) /\ ToSet(order) = resolved /\ Len(order) \in Nat
        BY <4>2, <4>3, SeqsOf
      <4>5. DOMAIN c = 1..Len(order) /\ DOMAIN order = 1..Len(order)
        BY <4>4
      <4>6. \A i \in 1..Len(order) : c[i].subject = Policy(order[i]) /\ order[i] \in resolved
        BY <4>4, <4>5 DEF Diagnostic!PolicyItem, Diagnostic!Item, Policy, Told
      <4> HIDE DEF c
      <4>7. CASE /\ \A i \in 1..Len(order) : c[i].subject # Policy(e)
                 /\ Diagnostic!Priors(Policy(e), c) = <<>>
        <5>1. dropped = {}
          BY <2>2, <4>7 DEF ToSet
        <5>2. ASSUME NEW f \in resolved PROVE Policy(f) # Policy(e)
          BY <4>4, <4>5, <4>6, <4>7 DEF ToSet
        <5> QED BY <5>1, <5>2 DEF Listed
      <4>8. ASSUME NEW i \in 1..Len(order), c[i].subject = Policy(e),
                   Diagnostic!Priors(Policy(e), c) = <<i>>
            PROVE  /\ \A f \in dropped : Policy(f) = Policy(e)
                   /\ Listed(resolved, Policy(e)) \subseteq dropped
        <5>1. dropped = {order[i]}
          BY <2>2, <4>8 DEF ToSet
        <5>2. order[i] \in Listed(resolved, Policy(e))
          BY <4>6, <4>8 DEF Listed
        <5>3. Listed(resolved, Policy(e)) = {order[i]}
          BY <1>3, <4>1, <5>2
        <5> QED BY <4>6, <4>8, <5>1, <5>3
      <4> QED BY <3>2, <4>4, <4>5, <4>7, <4>8, PriorsOf
    <3> QED BY <3>1, <3>2
  <2> HIDE DEF dropped
  <2>4. list \subseteq {f \in DOMAIN Told : f < e + 1}
    BY <1>1, <1>2, <2>1 DEF e
  <2>5. ASSUME NEW subject \in Policies
        PROVE  Listed(list, subject) =
                 IF Heard(subject, e + 1) = {} THEN {} ELSE {Diagnostic!Latest(Heard(subject, e + 1))}
    <3>1. CASE subject = Policy(e)
      <4>1. Listed(list, subject) = {e}
        BY <2>1, <2>3, <3>1 DEF Listed
      <4> QED BY <1>6, <1>9, <3>1, <4>1
    <3>2. CASE subject # Policy(e)
      <4>1. Listed(list, subject) = Listed(resolved, subject)
        BY <2>1, <2>3, <3>2 DEF Listed
      <4> QED BY <1>3, <1>6, <3>2, <4>1
    <3> QED BY <3>1, <3>2
  <2> QED BY <2>4, <2>5 DEF ResolvedTo, list, e
<1> QED BY <1>8, <1>9

---------------------------------------------------------------------------
\* An event is observed

\* What is made of an event is a memory, and one that is retired still is.
LEMMA MemoryIs ==
    /\ \A m, f : MadeOf(m, f) => m # NoMemory
    /\ \A m, f : MadeOf(m, f) => MadeOf([m EXCEPT !.active = FALSE], f)
    /\ \A m, f : MadeOf(m, f) => [m EXCEPT !.active = FALSE].active = FALSE
    /\ \A f : Policy(f) # "none" =>
         /\ MadeOf([Diagnostic!PolicyMemory(Told[f].text) EXCEPT !.seq = f, !.active = TRUE], f)
         /\ [Diagnostic!PolicyMemory(Told[f].text) EXCEPT !.seq = f, !.active = TRUE].active = TRUE
<1>1. \A m, f : MadeOf(m, f) => m # NoMemory
  BY DEF MadeOf, NoMemory
<1>2. ASSUME NEW m, NEW f, MadeOf(m, f)
      PROVE  MadeOf([m EXCEPT !.active = FALSE], f) /\ [m EXCEPT !.active = FALSE].active = FALSE
  <2> DEFINE r == [m EXCEPT !.active = FALSE]
  <2>1. /\ DOMAIN r = DOMAIN m /\ r.active = FALSE
        /\ \A field \in MemoryFields \ {"active"} : r[field] = m[field]
    BY <1>2 DEF MadeOf, MemoryFields
  <2> HIDE DEF r
  <2> QED BY <1>2, <2>1 DEF MadeOf, MemoryFields, SameKey, KeyFields, r
<1>3. ASSUME NEW f, Policy(f) # "none"
      PROVE  /\ MadeOf([Diagnostic!PolicyMemory(Told[f].text) EXCEPT !.seq = f, !.active = TRUE], f)
             /\ [Diagnostic!PolicyMemory(Told[f].text) EXCEPT !.seq = f, !.active = TRUE].active = TRUE
  <2> DEFINE m == Diagnostic!PolicyMemory(Told[f].text)
             r == [m EXCEPT !.seq = f, !.active = TRUE]
  <2>1. /\ DOMAIN m = MemoryFields /\ m.type # "none"
        /\ m.text = Told[f].text /\ m.subject = Policy(f)
    BY DEF Diagnostic!PolicyMemory, MemoryFields, Policy
  <2> HIDE DEF m
  <2>2. /\ DOMAIN r = DOMAIN m /\ r.active = TRUE /\ r.seq = f
        /\ \A field \in MemoryFields \ {"active", "seq"} : r[field] = m[field]
    BY <2>1 DEF MemoryFields
  <2> HIDE DEF r
  <2> QED BY <2>1, <2>2 DEF MadeOf, MemoryFields, SameKey, KeyFields, m, r
<1> QED BY <1>1, <1>2, <1>3

\* Memories of one policy have one key.
LEMMA KeysAre ==
    ASSUME NEW f, NEW m, MadeOf(m, f), NEW x
    PROVE  /\ SameKey(m, Diagnostic!PolicyMemory(x)) <=> Policy(f) = PolicyOf[x]
           /\ SameKey(Diagnostic!PolicyMemory(x), m) <=> Policy(f) = PolicyOf[x]
<1> DEFINE o == Diagnostic!PolicyMemory(m.text)
           p == Diagnostic!PolicyMemory(x)
<1>1. /\ m.type = o.type /\ m.subject = o.subject /\ m.scope = o.scope
      /\ m.component = o.component /\ m.subject = Policy(f)
  BY DEF MadeOf, SameKey, KeyFields
<1>2. p.subject = PolicyOf[x] /\ o.subject = PolicyOf[m.text]
  BY DEF Diagnostic!PolicyMemory
<1>3. PolicyOf[m.text] = PolicyOf[x] =>
        /\ o.type = p.type /\ o.scope = p.scope /\ o.component = p.component
  BY DEF Diagnostic!PolicyMemory
<1> HIDE DEF o, p
<1>4. SameKey(m, p) <=> Policy(f) = PolicyOf[x]
  BY <1>1, <1>2, <1>3 DEF SameKey, KeyFields
<1>5. SameKey(p, m) <=> Policy(f) = PolicyOf[x]
  BY <1>1, <1>2, <1>3 DEF SameKey, KeyFields
<1> QED BY <1>4, <1>5 DEF p

\* What observe makes of a text: a memory of a user's policy, that takes the
\* place of the first candidate of the policy, unless one is equivalent.
Operated(x, actor, e, c) ==
    Diagnostic!NormalizedOperation(Diagnostic!Decided(x, c), actor, e, c)
Alike(x, n, c) == {i \in 1..n : c[i].subject = PolicyOf[x] /\ Equivalent(x, c[i].text)}
WritesIfNew(x, actor, e, n, c) ==
    LET result == Operated(x, actor, e, c)
    IN  IF actor # "user" \/ PolicyOf[x] = "none" \/ Alike(x, n, c) # {}
        THEN result.operation # "write"
        ELSE /\ result.operation = "write" /\ result.memory = Diagnostic!PolicyMemory(x)
             /\ result.supersedes = {c[i].seq : i \in ToSet(Diagnostic!Priors(PolicyOf[x], c))}

LEMMA OperationOf ==
    ASSUME packet \in Packets, NEW e \in Nat, NEW x \in DOMAIN PolicyOf, NEW actor,
           NEW n \in Nat, n <= CandidateLimit, NEW c, c \in Seq(ToSet(c)), Len(c) = n,
           \A i \in 1..n : \E f \in Nat : f < e /\ MadeOf(c[i], f)
    PROVE  WritesIfNew(x, actor, e, n, c)
<1> USE DEF Operated, Alike, WritesIfNew
<1> DEFINE op == Diagnostic!Decided(x, c)
           result == Operated(x, actor, e, c)
           alike == Alike(x, n, c)
           mem == Diagnostic!PolicyMemory(x)
           order == Diagnostic!Priors(PolicyOf[x], c)
<1>1. DOMAIN c = 1..n
  OBVIOUS
<1>2. Diagnostic!Shown(c) = 1..n
  BY SameOperators DEF Diagnostic!Shown, CandidateLimit
<1>3. CASE PolicyOf[x] = "none"
  <2>1. op.operation = "no_op"
    BY <1>3 DEF Diagnostic!Decided
  <2>2. result.operation \in {"no_op", "refused"}
    BY <2>1 DEF Diagnostic!NormalizedOperation, Diagnostic!Normalized, Diagnostic!Refused
  <2> QED BY <1>3, <2>2
<1>4. CASE PolicyOf[x] # "none"
  <2>1. /\ op.operation = "write" /\ op.memory = mem /\ op.supersedes = order
        /\ op.duplicate = Diagnostic!NoIndex
    BY <1>4 DEF Diagnostic!Decided
  <2>2. result = Diagnostic!NormalizedWrite(op, actor, e, c)
    BY <2>1 DEF Diagnostic!NormalizedOperation
  <2>3. /\ mem.type \in {"preference", "decision"} /\ mem # Diagnostic!NoMemory
        /\ mem.subject = PolicyOf[x] /\ mem.text = x
    BY DEF Diagnostic!PolicyMemory, Diagnostic!NoMemory
  <2>4. Diagnostic!ValidMemory(mem, actor) <=> actor = "user"
    <3>1. packet.fixture.component \in Components /\ PolicyOf[x] \notin DOMAIN SubjectComponent
      BY PacketAssumption
    <3>2. Diagnostic!ScopeFits(mem)
      BY <3>1 DEF Diagnostic!PolicyMemory, Diagnostic!ScopeFits
    <3> HIDE DEF mem
    <3> QED BY <2>3, <3>1, <3>2 DEF Diagnostic!ValidMemory
  <2>5. \/ order = <<>>
        \/ \E i \in 1..n : c[i].subject = PolicyOf[x] /\ order = <<i>>
    <3>1. CASE PolicyOf[x] = Diagnostic!DependencyPolicy
      BY <3>1 DEF Diagnostic!Priors
    <3>2. CASE PolicyOf[x] # Diagnostic!DependencyPolicy
      BY <1>1, <3>2, PriorsOf
    <3> QED BY <3>1, <3>2
  <2>6. Diagnostic!ValidIndexes(order, c)
    BY <1>2, <2>5 DEF Diagnostic!ValidIndexes
  <2>7. \A i \in 1..n : \E f \in Nat :
          f < e /\ MadeOf(c[i], f) /\ c[i].subject = Policy(f) /\ c[i].seq = f
    BY DEF MadeOf
  <2>8. Diagnostic!Equivalents(mem, c) = alike
    <3>1. ASSUME NEW i \in 1..n
          PROVE  Diagnostic!SameKey(mem, c[i]) <=> c[i].subject = PolicyOf[x]
      <4>1. PICK f \in Nat : f < e /\ MadeOf(c[i], f) /\ c[i].subject = Policy(f)
        BY <2>7
      <4>2. SameKey(mem, c[i]) <=> c[i].subject = PolicyOf[x]
        BY <4>1, KeysAre, Zenon
      <4> HIDE DEF mem
      <4> QED BY <4>2 DEF Diagnostic!SameKey, SameKey, Diagnostic!KeyFields, KeyFields
    <3> QED BY <1>2, <2>3, <3>1 DEF Diagnostic!Equivalents
  <2> DEFINE priors == {c[op.supersedes[i]] : i \in DOMAIN op.supersedes}
  <2>9. priors = {c[i] : i \in ToSet(order)}
    BY <2>1, <2>5 DEF ToSet
  <2>10. Diagnostic!Supersedable(mem, e, priors)
    <3>1. ASSUME NEW p \in priors
          PROVE  p.seq < e /\ Diagnostic!SameKey(p, mem)
      <4>1. PICK i \in 1..n : p = c[i] /\ c[i].subject = PolicyOf[x]
        <5> HIDE DEF priors, order
        <5>1. PICK i \in ToSet(order) : p = c[i]
          BY <2>9, <3>1
        <5>2. i \in 1..n /\ c[i].subject = PolicyOf[x]
          BY <2>5, <5>1 DEF ToSet
        <5> QED BY <5>1, <5>2
      <4>2. PICK f \in Nat : f < e /\ MadeOf(p, f) /\ p.subject = Policy(f) /\ p.seq = f
        BY <2>7, <4>1
      <4>3. SameKey(p, mem)
        BY <4>1, <4>2, KeysAre, Zenon
      <4> HIDE DEF mem
      <4> QED BY <4>2, <4>3 DEF Diagnostic!SameKey, SameKey, Diagnostic!KeyFields, KeyFields
    <3> HIDE DEF mem
    <3> QED BY <2>3, <3>1 DEF Diagnostic!Supersedable
  <2> HIDE DEF op, mem, order, alike
  <2>11. Diagnostic!NormalizedWrite(op, actor, e, c) =
           IF actor # "user" THEN Diagnostic!Refused
           ELSE IF alike # {}
           THEN Diagnostic!Normalized("duplicate", "equivalent_active_memory", Diagnostic!NoMemory, {})
           ELSE Diagnostic!Normalized("write", op.reason, mem, {p.seq : p \in priors})
    BY <2>1, <2>3, <2>4, <2>6, <2>8, <2>10 DEF Diagnostic!NormalizedWrite
  <2>12. {p.seq : p \in priors} = {c[i].seq : i \in ToSet(order)}
    <3> HIDE DEF priors
    <3>1. \A y : y \in {p.seq : p \in priors} <=> y \in {c[i].seq : i \in ToSet(order)}
      BY <2>9, Zenon
    <3> QED BY <3>1
  <2> HIDE DEF priors
  <2>13. CASE actor # "user" \/ alike # {}
    <3>1. \/ result = Diagnostic!Refused
          \/ result = Diagnostic!Normalized("duplicate", "equivalent_active_memory", Diagnostic!NoMemory, {})
      BY <2>2, <2>11, <2>13
    <3> HIDE DEF result
    <3>2. result.operation # "write"
      <4>1. CASE result = Diagnostic!Refused
        BY <4>1 DEF Diagnostic!Refused, Diagnostic!Normalized
      <4>2. CASE result =
              Diagnostic!Normalized("duplicate", "equivalent_active_memory", Diagnostic!NoMemory, {})
        BY <4>2 DEF Diagnostic!Normalized
      <4> QED BY <3>1, <4>1, <4>2
    <3> QED BY <2>13, <3>2 DEF result, alike, op
  <2>14. CASE ~(actor # "user" \/ alike # {})
    <3>1. result = Diagnostic!Normalized("write", op.reason, mem, {p.seq : p \in priors})
      BY <2>2, <2>11, <2>14
    <3> HIDE DEF result
    <3>2. /\ result.operation = "write" /\ result.memory = mem
          /\ result.supersedes = {c[i].seq : i \in ToSet(order)}
      BY <2>12, <3>1 DEF Diagnostic!Normalized
    <3> QED BY <1>4, <2>14, <3>2 DEF result, mem, order, alike, op
  <2> QED BY <2>13, <2>14
<1> QED BY <1>3, <1>4

LEMMA ObserveStep ==
    ASSUME packet \in Packets, Diagnostic!Loadable(packet), hearing \in DOMAIN Told,
           StoredTo(stored, hearing), NEW order \in Diagnostic!SetToSeqs(Diagnostic!Active)
    PROVE  StoredTo(Diagnostic!Observe(order), hearing + 1)
<1> DEFINE e == hearing
           x == Told[e].text
           c == [i \in DOMAIN order |-> stored[order[i]]]
           n == Len(order)
           result == Operated(x, Told[e].actor, e, c)
           alike == Alike(x, n, c)
           store == Diagnostic!Observe(order)
           live == Lasting(stored)
<1>1. /\ Len(Told) \in Nat /\ DOMAIN Told = 1..Len(Told) /\ DOMAIN Told \subseteq Nat
      /\ Len(Told) <= CandidateLimit /\ e \in Nat /\ x \in DOMAIN PolicyOf
      /\ \A f \in DOMAIN Told : Told[f].text \in DOMAIN PolicyOf
  BY ToldIs
<1>2. /\ DOMAIN stored = DOMAIN Told
      /\ \A f \in DOMAIN Told : Remembers(stored, f, e)
  BY DEF StoredTo
<1>3. \A subject \in Policies : Ruled(subject, e) # {} =>
         \E f \in DOMAIN Told :
           /\ Standing(stored, subject) = {f}
           /\ Equivalent(Told[Diagnostic!Latest(Ruled(subject, e))].text, Told[f].text)
  BY DEF StoredTo
<1>4. Diagnostic!Active = live
  BY SameOperators DEF Diagnostic!Active, Lasting
<1>5. /\ live \subseteq DOMAIN Told
      /\ \A f \in live : f < e /\ Policy(f) # "none" /\ Told[f].actor = "user" /\ MadeOf(stored[f], f)
  BY <1>2 DEF Lasting, Remembers
<1>6. \A subject :
        IF Told[e].actor = "user" /\ Policy(e) = subject
        THEN Ruled(subject, e + 1) # {} /\ Diagnostic!Latest(Ruled(subject, e + 1)) = e
        ELSE Ruled(subject, e + 1) = Ruled(subject, e)
  BY <1>1, RuledNext
<1>7. /\ order \in Seq(live) /\ n \in Nat /\ ToSet(order) = live /\ n <= CandidateLimit
      /\ DOMAIN order = 1..n
  <2>1. IsFiniteSet(1..Len(Told)) /\ Cardinality(1..Len(Told)) = Len(Told)
    BY <1>1, FS_Interval
  <2>2. IsFiniteSet(live) /\ Cardinality(live) <= Len(Told)
    BY <1>1, <1>5, <2>1, FS_Subset
  <2>3. order \in SetToSeqs(live)
    BY <1>4, SameOperators
  <2>4. order \in Seq(live) /\ Len(order) = Cardinality(live) /\ ToSet(order) = live
    BY <2>2, <2>3, SeqsOf
  <2>5. Len(Told) <= 8 /\ Cardinality(live) \in Nat
    BY <1>1, <2>2, FS_CardinalityType DEF CandidateLimit
  <2> QED BY <1>1, <2>2, <2>4, <2>5 DEF CandidateLimit
<1>8. /\ c \in Seq(ToSet(c)) /\ Len(c) = n
      /\ \A i \in 1..n : order[i] \in live /\ c[i] = stored[order[i]] /\ MadeOf(c[i], order[i])
  <2>1. \A i \in 1..n : order[i] \in live
    BY <1>7
  <2>2. c \in [1..n -> ToSet(c)]
    BY <1>7 DEF ToSet
  <2> QED BY <1>5, <1>7, <2>1, <2>2
<1> HIDE DEF e, x, c, n, live
<1>9. IF Told[e].actor # "user" \/ PolicyOf[x] = "none" \/ alike # {}
      THEN result.operation # "write"
      ELSE /\ result.operation = "write" /\ result.memory = Diagnostic!PolicyMemory(x)
           /\ result.supersedes = {c[i].seq : i \in ToSet(Diagnostic!Priors(PolicyOf[x], c))}
  <2>1. \A i \in 1..n : \E f \in Nat : f < e /\ MadeOf(c[i], f)
    BY <1>1, <1>5, <1>8
  <2>2. e \in Nat /\ x \in DOMAIN PolicyOf /\ n \in Nat /\ n <= CandidateLimit
    BY <1>1, <1>7
  <2>3. c \in Seq(ToSet(c)) /\ Len(c) = n
    BY <1>8
  <2>4. WritesIfNew(x, Told[e].actor, e, n, c)
    BY <2>1, <2>2, <2>3, OperationOf
  <2> QED BY <2>4 DEF WritesIfNew
<1>10. store = IF result.operation # "write" THEN stored
               ELSE [f \in DOMAIN stored |->
                       IF f = e THEN [result.memory EXCEPT !.seq = e, !.active = TRUE]
                       ELSE IF f \in live /\ stored[f].seq \in result.supersedes
                       THEN [stored[f] EXCEPT !.active = FALSE] ELSE stored[f]]
  BY <1>4 DEF Diagnostic!Observe, Operated, Told, e, x, c
<1>11. "none" \notin Policies /\ Diagnostic!DependencyPolicy \notin Policies
  BY DEF Policies
<1> HIDE DEF result, store
<1>12. \A f \in DOMAIN Told : Remembers(stored, f, e + 1)
  BY <1>1, <1>2 DEF Remembers
<1>13. CASE Told[e].actor # "user" \/ PolicyOf[x] = "none"
  <2>1. store = stored
    BY <1>9, <1>10, <1>13
  <2>2. \A subject \in Policies : Ruled(subject, e + 1) = Ruled(subject, e)
    BY <1>6, <1>11, <1>13 DEF Policy, x
  <2> QED BY <1>2, <1>3, <1>12, <2>1, <2>2 DEF StoredTo, store, e
<1>14. CASE Told[e].actor = "user" /\ PolicyOf[x] # "none" /\ alike # {}
  <2>1. store = stored
    BY <1>9, <1>10, <1>14
  <2>2. PICK i \in 1..n : c[i].subject = PolicyOf[x] /\ Equivalent(x, c[i].text)
    BY <1>14 DEF Alike
  <2>3. /\ order[i] \in Standing(stored, Policy(e)) /\ order[i] \in DOMAIN Told
        /\ Equivalent(Told[e].text, Told[order[i]].text)
    BY <1>5, <1>8, <2>2 DEF Standing, live, MadeOf, Policy, x
  <2>4. ASSUME Policy(e) \in Policies
        PROVE  Standing(stored, Policy(e)) = {order[i]}
    <3>1. order[i] \in Ruled(Policy(e), e)
      BY <1>5, <1>8, <2>2 DEF Ruled, Diagnostic!Statements, Policy, MadeOf, Told, x
    <3> QED BY <1>3, <2>3, <2>4, <3>1
  <2>5. ASSUME NEW subject \in Policies, Ruled(subject, e + 1) # {}
        PROVE  \E f \in DOMAIN Told :
                 /\ Standing(stored, subject) = {f}
                 /\ Equivalent(Told[Diagnostic!Latest(Ruled(subject, e + 1))].text, Told[f].text)
    <3>1. CASE subject = Policy(e)
      BY <1>6, <1>14, <2>3, <2>4, <3>1
    <3>2. CASE subject # Policy(e)
      BY <1>3, <1>6, <2>5, <3>2
    <3> QED BY <3>1, <3>2
  <2> QED BY <1>2, <1>12, <2>1, <2>5 DEF StoredTo, store, e
<1>15. CASE Told[e].actor = "user" /\ PolicyOf[x] # "none" /\ alike = {}
  <2> DEFINE priors == Diagnostic!Priors(PolicyOf[x], c)
             dropped == {order[i] : i \in ToSet(priors)}
  <2>1. /\ Policy(e) = PolicyOf[x]
        /\ \A i \in 1..n : c[i].subject = Policy(order[i]) /\ c[i].seq = order[i]
    BY <1>8 DEF Policy, MadeOf, x
  <2>2. /\ ToSet(priors) \subseteq 1..n
        /\ \A f \in dropped : f \in live /\ Policy(f) = Policy(e)
        /\ Policy(e) \in Policies => \A f \in live : Policy(f) = Policy(e) => f \in dropped
    <3>1. CASE Policy(e) = Diagnostic!DependencyPolicy
      <4>1. priors = <<>>
        BY <2>1, <3>1 DEF Diagnostic!Priors
      <4> QED BY <1>11, <3>1, <4>1 DEF ToSet
    <3>2. CASE Policy(e) # Diagnostic!DependencyPolicy
      <4>1. DOMAIN c = 1..n
        BY <1>8
      <4>2. Policy(e) \in Policies
        BY <1>1, <1>15, <3>2 DEF Policies, Policy, x
      <4>3. CASE /\ \A i \in 1..n : c[i].subject # Policy(e)
                 /\ Diagnostic!Priors(Policy(e), c) = <<>>
        <5>1. ToSet(priors) = {}
          BY <2>1, <4>3 DEF ToSet
        <5>2. ASSUME NEW f \in live PROVE Policy(f) # Policy(e)
          BY <1>7, <2>1, <4>3 DEF ToSet
        <5> QED BY <5>1, <5>2
      <4>4. ASSUME NEW i \in 1..n, c[i].subject = Policy(e),
                   Diagnostic!Priors(Policy(e), c) = <<i>>
            PROVE  /\ ToSet(priors) \subseteq 1..n
                   /\ \A f \in dropped : f \in live /\ Policy(f) = Policy(e)
                   /\ \A f \in live : Policy(f) = Policy(e) => f \in dropped
        <5>1. ToSet(priors) = {i} /\ dropped = {order[i]}
          BY <2>1, <4>4 DEF ToSet
        <5>2. order[i] \in live /\ Policy(order[i]) = Policy(e)
          BY <1>8, <2>1, <4>4
        <5>3. \A f \in live : Policy(f) = Policy(e) =>
                f \in Standing(stored, Policy(e)) /\ f \in Ruled(Policy(e), e)
          BY <1>5 DEF Standing, live, MadeOf, Ruled, Diagnostic!Statements, Policy, Told
        <5>4. PICK f \in DOMAIN Told : Standing(stored, Policy(e)) = {f}
          BY <1>3, <4>2, <5>2, <5>3
        <5>5. \A g \in live : Policy(g) = Policy(e) => g = order[i]
          BY <5>2, <5>3, <5>4
        <5> QED BY <5>1, <5>2, <5>5
      <4> QED BY <1>7, <3>2, <4>1, <4>3, <4>4, PriorsOf
    <3> QED BY <3>1, <3>2
  <2>3. result.supersedes = dropped
    BY <1>9, <1>15, <2>1, <2>2
  <2>4. /\ DOMAIN store = DOMAIN Told
        /\ store[e] = [Diagnostic!PolicyMemory(x) EXCEPT !.seq = e, !.active = TRUE]
        /\ \A f \in DOMAIN Told \ {e} :
              store[f] = IF f \in dropped THEN [stored[f] EXCEPT !.active = FALSE] ELSE stored[f]
    <3>1. \A f \in live : stored[f].seq = f
      BY <1>5 DEF MadeOf
    <3>2. e \in DOMAIN Told
      BY DEF e
    <3> HIDE DEF dropped
    <3>3. store = [f \in DOMAIN Told |->
                     IF f = e THEN [Diagnostic!PolicyMemory(x) EXCEPT !.seq = e, !.active = TRUE]
                     ELSE IF f \in live /\ stored[f].seq \in dropped
                     THEN [stored[f] EXCEPT !.active = FALSE] ELSE stored[f]]
      BY <1>2, <1>9, <1>10, <1>15, <2>3
    <3> QED BY <2>2, <3>1, <3>2, <3>3
  <2> HIDE DEF dropped, priors
  <2>5. MadeOf(store[e], e) /\ store[e].active = TRUE
    BY <1>15, <2>1, <2>4, MemoryIs DEF x
  <2>6. \A f \in DOMAIN Told \ {e} : Remembers(store, f, e + 1)
    <3>1. ASSUME NEW f \in DOMAIN Told, f # e PROVE Remembers(store, f, e + 1)
      <4>1. CASE f \in dropped
        <5>1. store[f] = [stored[f] EXCEPT !.active = FALSE] /\ f \in live
          BY <2>2, <2>4, <3>1, <4>1
        <5>2. MadeOf(store[f], f)
          <6>1. MadeOf(stored[f], f)
            BY <1>5, <5>1
          <6>2. MadeOf([stored[f] EXCEPT !.active = FALSE], f)
            BY <6>1, MemoryIs, Zenon
          <6> QED BY <5>1, <6>2, Zenon
        <5>3. f < e + 1 /\ Policy(f) # "none" /\ Told[f].actor = "user"
          BY <1>1, <1>5, <5>1
        <5> QED BY <5>2, <5>3 DEF Remembers
      <4>2. CASE f \notin dropped
        <5>1. store[f] = stored[f]
          BY <2>4, <3>1, <4>2
        <5> QED BY <1>12, <5>1 DEF Remembers
      <4> QED BY <4>1, <4>2
    <3> QED BY <3>1
  <2>7. \A f \in DOMAIN Told : Remembers(store, f, e + 1)
    BY <1>1, <1>15, <2>1, <2>5, <2>6 DEF Remembers
  <2>8. Lasting(store) = (live \ dropped) \cup {e}
    <3>1. e \in Lasting(store) /\ e \notin live
      <4>1. e \in DOMAIN Told
        BY DEF e
      <4>2. store[e] # NoMemory
        BY <2>5, MemoryIs
      <4>3. ~(e < e)
        BY <1>1
      <4> QED BY <1>5, <2>4, <2>5, <4>1, <4>2, <4>3 DEF Lasting
    <3>2. \A f \in DOMAIN Told \ {e} : f \in Lasting(store) <=> f \in live /\ f \notin dropped
      BY <1>2, <1>5, <2>2, <2>4, MemoryIs DEF Lasting, live
    <3> QED BY <1>5, <2>4, <3>1, <3>2 DEF Lasting
  <2>9. \A f \in Lasting(store) : store[f].subject = Policy(f)
    <3>1. store[e].subject = Policy(e)
      BY <2>5 DEF MadeOf
    <3>2. ASSUME NEW f \in live, f \notin dropped, f # e PROVE store[f].subject = Policy(f)
      <4>1. store[f] = stored[f] /\ MadeOf(stored[f], f)
        BY <1>5, <2>4, <3>2
      <4> QED BY <4>1 DEF MadeOf
    <3> QED BY <2>8, <3>1, <3>2
  <2>10. ASSUME NEW subject \in Policies, Ruled(subject, e + 1) # {}
         PROVE  \E f \in DOMAIN Told :
                  /\ Standing(store, subject) = {f}
                  /\ Equivalent(Told[Diagnostic!Latest(Ruled(subject, e + 1))].text, Told[f].text)
    <3>1. CASE subject = Policy(e)
      <4>1. Standing(store, subject) = {e}
        BY <2>2, <2>8, <2>9, <3>1 DEF Standing
      <4>2. Equivalent(x, x) /\ e \in DOMAIN Told
        BY <1>1, PacketAssumption DEF e
      <4> QED BY <1>6, <1>15, <3>1, <4>1, <4>2 DEF x
    <3>2. CASE subject # Policy(e)
      <4>1. Standing(store, subject) = Standing(stored, subject)
        BY <1>5, <2>2, <2>8, <2>9, <3>2 DEF Standing, live, MadeOf
      <4> QED BY <1>3, <1>6, <2>10, <3>2, <4>1
    <3> QED BY <3>1, <3>2
  <2> QED BY <2>4, <2>7, <2>10 DEF StoredTo, store, e
<1> QED BY <1>13, <1>14, <1>15

---------------------------------------------------------------------------
\* Every step keeps what is said of the two lives

LEMMA TheSamePacket ==
    ASSUME UNCHANGED <<packet, near>>
    PROVE  /\ Told' = Told /\ Diagnostic!Loadable(packet)' = Diagnostic!Loadable(packet)
           /\ \A list, e : ResolvedTo(list, e)' <=> ResolvedTo(list, e)
           /\ \A store, e : StoredTo(store, e)' <=> StoredTo(store, e)
<1>1. Told' = Told
  BY DEF Told, Diagnostic!Before
<1>2. Diagnostic!Loadable(packet)' = Diagnostic!Loadable(packet)
  OBVIOUS
<1>3. ASSUME NEW list, NEW e PROVE ResolvedTo(list, e)' <=> ResolvedTo(list, e)
  BY <1>1 DEF ResolvedTo, Listed, Heard, Policy, Policies, Diagnostic!Statements,
              Diagnostic!Before, Diagnostic!Latest
<1>4. ASSUME NEW store, NEW e PROVE StoredTo(store, e)' <=> StoredTo(store, e)
  BY <1>1 DEF StoredTo, Remembers, MadeOf, Policy, Policies, Standing, Lasting, Ruled,
              Diagnostic!PolicyMemory, Diagnostic!Statements, Diagnostic!Before, Diagnostic!Latest
<1> QED BY <1>1, <1>2, <1>3, <1>4

\* Nothing is resolved or remembered before the first event.
LEMMA NothingYet ==
    ASSUME packet \in Packets
    PROVE  /\ ResolvedTo({}, 1)
           /\ StoredTo([e \in DOMAIN Told |-> NoMemory], 1)
<1>1. \A f \in DOMAIN Told : ~(f < 1)
  BY ToldLength
<1>2. \A subject : Heard(subject, 1) = {} /\ Ruled(subject, 1) = {}
  BY <1>1 DEF Heard, Ruled, Diagnostic!Statements, Told
<1>3. ResolvedTo({}, 1)
  BY <1>2 DEF ResolvedTo, Listed
<1>4. StoredTo([e \in DOMAIN Told |-> NoMemory], 1)
  BY <1>2 DEF StoredTo, Remembers
<1> QED BY <1>3, <1>4

LEMMA DiagnosticStart == Init => DiagnosticInv
<1> SUFFICES ASSUME Init PROVE DiagnosticInv
  OBVIOUS
<1>1. Diagnostic!DiagnosticInit
  BY DEF Init
<1>2. /\ packet \in Packets /\ phase = "load" /\ hearing = 1 /\ resolved = {}
      /\ stored = [e \in DOMAIN Told |-> NoMemory]
      /\ "recallpack" \in DOMAIN chosen /\ "recallpack" \in DOMAIN patched
  BY <1>1, SameOperators DEF Diagnostic!DiagnosticInit, Diagnostic!DiagnosticVariantIds, Told
<1>3. hearing \in 1..(Len(Told) + 1)
  BY <1>2, ToldLength
<1> QED BY <1>2, <1>3 DEF DiagnosticInv, DiagnosticPhases

\* A variant runs, or its patch is refused.
LEMMA VariantRuns ==
    ASSUME "recallpack" \in DOMAIN chosen, "recallpack" \in DOMAIN patched,
           NEW variant, NEW items, NEW next, Diagnostic!RunVariant(variant, items, next)
    PROVE  /\ phase' \in {"raised", next}
           /\ "recallpack" \in DOMAIN chosen' /\ "recallpack" \in DOMAIN patched'
           /\ phase' # "raised" /\ variant = "recallpack" =>
                chosen'["recallpack"] = items /\ patched'["recallpack"] = Diagnostic!PatchOf(items)
BY DEF Diagnostic!RunVariant, Diagnostic!Raising

\* A patch applies what some item of its context says.
LEMMA PatchSpeaks ==
    ASSUME NEW items, NEW n \in Nat, DOMAIN items = 1..n,
           Diagnostic!PatchOf(items) \in {"current", "stale"}
    PROVE  \E i \in 1..n : Diagnostic!PatchOf(items) = Says[items[i].text]
<1> DEFINE error == Diagnostic!PatchError(Diagnostic!PolicyPatch(items),
                                          Diagnostic!ToSet(packet.fixture.allowed))
<1>1. error \in {"none", "empty_patch", "path_not_allowed", "duplicate_path", "unsafe_python_content"}
  BY DEF Diagnostic!PatchError, Diagnostic!ContractError, Diagnostic!ValidatorError
<1>2. Diagnostic!PatchOf(items) = IF error = "none" THEN Diagnostic!Inferred(items) ELSE error
  BY DEF Diagnostic!PatchOf
<1> HIDE DEF error
<1>3. Diagnostic!PatchOf(items) = Diagnostic!Inferred(items) /\ Diagnostic!Inferred(items) # "none"
  BY <1>1, <1>2
<1> DEFINE speaking == {i \in DOMAIN items : Diagnostic!Speaks(items[i])}
<1>4. speaking # {} /\ Diagnostic!Inferred(items) = Says[items[Least(speaking)].text]
  BY <1>3 DEF Diagnostic!Inferred, Diagnostic!First, Least
<1>5. speaking \in SUBSET Nat
  OBVIOUS
<1>6. Least(speaking) \in speaking
  BY <1>4, <1>5, LeastOf
<1> QED BY <1>3, <1>4, <1>6

\* The context of recallpack is a pack of the active memories.
LEMMA PacksActive ==
    ASSUME packet \in Packets, DOMAIN stored = DOMAIN Told, NEW order \in Diagnostic!Orders(Diagnostic!Active)
    PROVE  LET items == Diagnostic!PolicyItems(Diagnostic!Budgeted(order))
           IN  /\ \E n \in Nat : DOMAIN items = 1..n
               /\ \A i \in DOMAIN items : \E f \in Lasting(stored) : items[i].text = Told[f].text
<1> DEFINE live == Lasting(stored)
           pack == Greedy(order)
<1>1. Diagnostic!Active = live
  BY SameOperators DEF Diagnostic!Active, Lasting
<1>2. PICK S \in SUBSET live : order \in SetToSeqs(S)
  BY <1>1, SameOperators DEF Diagnostic!Orders
<1>3. IsFiniteSet(S)
  <2>1. IsFiniteSet(1..Len(Told)) /\ S \subseteq 1..Len(Told)
    BY ToldLength, FS_Interval DEF Lasting
  <2> QED BY <2>1, FS_Subset
<1>4. order \in Seq(live)
  BY <1>2, <1>3, SeqsOf
<1>5. pack \in Seq(live)
  BY <1>4, GreedyOf
<1>6. Diagnostic!Budgeted(order) = pack
  BY SameOperators
<1> HIDE DEF pack, live
<1> DEFINE items == Diagnostic!PolicyItems(Diagnostic!Budgeted(order))
<1>7. DOMAIN items = 1..Len(pack) /\ Len(pack) \in Nat
  BY <1>5, <1>6 DEF Diagnostic!PolicyItems
<1>8. \A i \in 1..Len(pack) : pack[i] \in live /\ items[i].text = Told[pack[i]].text
  BY <1>5, <1>6 DEF Diagnostic!PolicyItems, Diagnostic!PolicyItem, Diagnostic!Item, Told
<1> HIDE DEF items
<1> QED BY <1>7, <1>8 DEF live, items

LEMMA DiagnosticMoves ==
    ASSUME DiagnosticInv, [Next]_evaluated
    PROVE  DiagnosticInv'
<1>1. CASE UNCHANGED diagnosis
  <2>1. UNCHANGED <<packet, phase, near, hearing, resolved, stored, chosen, patched>>
    BY <1>1 DEF diagnosis
  <2>2. Packed' <=> Packed
    BY <2>1, TheSamePacket DEF Packed, Lasting
  <2> QED BY <2>1, <2>2, TheSamePacket DEF DiagnosticInv
<1>2. ASSUME Diagnostic!DiagnosticNext PROVE DiagnosticInv'
  <2> USE DEF DiagnosticPhases
  <2>1. CASE Diagnostic!Load
    <3>1. /\ phase = "load" /\ UNCHANGED <<packet, hearing, resolved, stored, chosen, patched>>
          /\ phase' = IF Diagnostic!Loadable(packet) THEN "raw_full_history" ELSE "raised"
      BY <2>1 DEF Diagnostic!Load
    <3>2. Told' = Told /\ Diagnostic!Loadable(packet)' = Diagnostic!Loadable(packet)
      BY <3>1 DEF Told, Diagnostic!Before
    <3> QED BY <3>1, <3>2 DEF DiagnosticInv
  <2> DEFINE Runs(variant, next) ==
        /\ phase' \in {"raised", next}
        /\ "recallpack" \in DOMAIN chosen' /\ "recallpack" \in DOMAIN patched'
  <2>0. /\ "recallpack" \in DOMAIN chosen /\ "recallpack" \in DOMAIN patched
        /\ Diagnostic!Raising => Runs(phase, "raised")
        /\ \A items, next : Diagnostic!RunVariant(phase, items, next) => Runs(phase, next)
    BY VariantRuns DEF DiagnosticInv, Diagnostic!Raising
  <2>2. CASE Diagnostic!RunRaw
    <3>1. /\ phase = "raw_full_history" /\ Runs(phase, "semantic_rerank")
          /\ UNCHANGED <<packet, near, hearing, resolved, stored>>
      BY <2>0, <2>2 DEF Diagnostic!RunRaw
    <3> QED BY <3>1, TheSamePacket DEF DiagnosticInv
  <2>3. CASE Diagnostic!RunSemantic
    <3>1. /\ phase = "semantic_rerank" /\ Runs(phase, "recency_aware")
          /\ UNCHANGED <<packet, near, hearing, resolved, stored>>
      BY <2>0, <2>3 DEF Diagnostic!RunSemantic
    <3> QED BY <3>1, TheSamePacket DEF DiagnosticInv
  <2>4. CASE Diagnostic!RunRecency
    <3>1. /\ phase = "recency_aware" /\ Runs(phase, "recall_time_resolver")
          /\ UNCHANGED <<packet, near, hearing, resolved, stored>>
      BY <2>0, <2>4 DEF Diagnostic!RunRecency
    <3>2. packet \in Packets /\ hearing = 1 /\ resolved = {}
      BY <3>1 DEF DiagnosticInv
    <3>3. ResolvedTo(resolved', hearing')
      BY <3>1, <3>2, NothingYet
    <3> QED BY <3>1, <3>3, TheSamePacket DEF DiagnosticInv
  <2>5. CASE Diagnostic!ResolveEvent
    <3>1. /\ phase = "recall_time_resolver" /\ hearing \in DOMAIN Told /\ hearing' = hearing + 1
          /\ UNCHANGED <<packet, phase, near, stored, chosen, patched>>
      BY <2>5 DEF Diagnostic!ResolveEvent, Told
    <3>2. PICK order \in Diagnostic!Listings(resolved) : resolved' = Diagnostic!Resolve(order)
      BY <2>5 DEF Diagnostic!ResolveEvent
    <3>3. packet \in Packets /\ Diagnostic!Loadable(packet) /\ ResolvedTo(resolved, hearing)
      BY <3>1 DEF DiagnosticInv
    <3>4. ResolvedTo(resolved', hearing')
      BY <3>1, <3>2, <3>3, ResolveStep
    <3>5. hearing' \in 1..(Len(Told) + 1)
      BY <3>1, <3>3, ToldLength
    <3> QED BY <3>1, <3>4, <3>5, TheSamePacket DEF DiagnosticInv
  <2>6. CASE Diagnostic!RunResolver
    <3>1. /\ phase = "recall_time_resolver" /\ hearing \notin DOMAIN Told /\ hearing' = 1
          /\ Runs(phase, "recallpack") /\ UNCHANGED <<packet, near, resolved, stored>>
      BY <2>0, <2>6 DEF Diagnostic!RunResolver, Told
    <3>2. /\ packet \in Packets /\ ResolvedTo(resolved, hearing) /\ hearing \in 1..(Len(Told) + 1)
          /\ stored = [e \in DOMAIN Told |-> NoMemory] /\ Diagnostic!Loadable(packet)
      BY <3>1 DEF DiagnosticInv
    <3>3. hearing = Len(Told) + 1 /\ 1 \in 1..(Len(Told) + 1)
      BY <3>1, <3>2, ToldLength
    <3>4. ResolvedTo(resolved', Len(Told) + 1) /\ StoredTo(stored', hearing')
      BY <3>1, <3>2, <3>3, NothingYet
    <3> QED BY <3>1, <3>2, <3>3, <3>4, TheSamePacket DEF DiagnosticInv
  <2>7. CASE Diagnostic!ObserveEvent
    <3>1. /\ phase = "recallpack" /\ hearing \in DOMAIN Told /\ UNCHANGED <<packet, near, resolved>>
          /\ \/ Diagnostic!Raising /\ UNCHANGED <<hearing, stored>>
             \/ /\ \E order \in Diagnostic!SetToSeqs(Diagnostic!Active) : stored' = Diagnostic!Observe(order)
                /\ hearing' = hearing + 1 /\ UNCHANGED <<phase, chosen, patched>>
      BY <2>7 DEF Diagnostic!ObserveEvent, Told
    <3>2. /\ packet \in Packets /\ Diagnostic!Loadable(packet) /\ StoredTo(stored, hearing)
          /\ ResolvedTo(resolved, Len(Told) + 1)
      BY <3>1 DEF DiagnosticInv
    <3>3. CASE Diagnostic!Raising /\ UNCHANGED <<hearing, stored>>
      BY <3>1, <3>3, TheSamePacket DEF DiagnosticInv, Diagnostic!Raising
    <3>4. CASE phase' # "raised" /\ ~Diagnostic!Raising
      <4>1. PICK order \in Diagnostic!SetToSeqs(Diagnostic!Active) : stored' = Diagnostic!Observe(order)
        BY <3>1, <3>4
      <4>2. hearing' = hearing + 1 /\ UNCHANGED <<phase, chosen, patched>>
        BY <3>1, <3>4
      <4>3. StoredTo(stored', hearing')
        BY <3>1, <3>2, <4>1, <4>2, ObserveStep
      <4>4. hearing' \in 1..(Len(Told) + 1)
        BY <3>1, <3>2, <4>2, ToldLength
      <4> QED BY <3>1, <3>2, <4>2, <4>3, <4>4, TheSamePacket DEF DiagnosticInv
    <3> QED BY <3>1, <3>3, <3>4 DEF Diagnostic!Raising
  <2>8. CASE Diagnostic!RunRecallpack
    <3>1. /\ phase = "recallpack" /\ hearing \notin DOMAIN Told
          /\ UNCHANGED <<packet, near, hearing, resolved, stored>>
      BY <2>8 DEF Diagnostic!RunRecallpack, Told
    <3>2. PICK order \in Diagnostic!Orders(Diagnostic!Active) :
            Diagnostic!RunVariant(phase, Diagnostic!PolicyItems(Diagnostic!Budgeted(order)), "done")
      BY <2>8 DEF Diagnostic!RunRecallpack
    <3> DEFINE items == Diagnostic!PolicyItems(Diagnostic!Budgeted(order))
    <3>3. /\ packet \in Packets /\ Diagnostic!Loadable(packet) /\ StoredTo(stored, hearing)
          /\ ResolvedTo(resolved, Len(Told) + 1) /\ hearing \in 1..(Len(Told) + 1)
      BY <3>1 DEF DiagnosticInv
    <3>4. hearing = Len(Told) + 1
      BY <3>1, <3>3, ToldLength
    <3>5. /\ \E n \in Nat : DOMAIN items = 1..n
          /\ \A i \in DOMAIN items : \E f \in Lasting(stored) : items[i].text = Told[f].text
      BY <3>3, PacksActive DEF StoredTo
    <3> HIDE DEF items
    <3>6. /\ Runs(phase, "done")
          /\ phase' # "raised" =>
               chosen'["recallpack"] = items /\ patched'["recallpack"] = Diagnostic!PatchOf(items)
      BY <2>0, <3>1, <3>2, VariantRuns DEF items
    <3>7. ASSUME phase' # "raised" PROVE Packed'
      <4>1. chosen'["recallpack"] = items /\ patched'["recallpack"] = Diagnostic!PatchOf(items)
        BY <3>6, <3>7
      <4>2. Told' = Told /\ Lasting(stored') = Lasting(stored)
        BY <3>1, TheSamePacket
      <4>3. Diagnostic!PatchOf(items) \in {"current", "stale"} =>
              \E f \in Lasting(stored) : Diagnostic!PatchOf(items) = Says[Told[f].text]
        BY <3>5, PatchSpeaks
      <4> QED BY <3>5, <4>1, <4>2, <4>3 DEF Packed
    <3> QED BY <3>1, <3>3, <3>4, <3>6, <3>7, TheSamePacket DEF DiagnosticInv
  <2> QED BY <1>2, <2>1, <2>2, <2>3, <2>4, <2>5, <2>6, <2>7, <2>8 DEF Diagnostic!DiagnosticNext
<1>3. UNCHANGED diagnosis \/ Diagnostic!DiagnosticNext
  BY DEF Next, Live, Claiming, Diagnosing, evaluated
<1> QED BY <1>1, <1>2, <1>3

\* What is invariant of the two lives of a policy.
THEOREM DiagnosisInductive == Spec => []DiagnosticInv
<1>1. Init => DiagnosticInv
  BY DiagnosticStart
<1>2. DiagnosticInv /\ [Next]_evaluated => DiagnosticInv'
  BY DiagnosticMoves
<1> QED BY <1>1, <1>2, PTL DEF Spec

\* The two lives of a policy differ by who is believed, and in nothing else: the
\* resolver ends with what was said last, the store with what a user said last
\* or an equivalent of it, and no context or patch has what a user took back
\* (_resolve_with_ephemeral_lifecycle, _run_recallpack_runtime).
THEOREM TheResolversAgree == Spec => []ResolversAgree
<1>1. DiagnosticInv => ResolversAgree
  <2> SUFFICES ASSUME DiagnosticInv, phase = "done",
                      NEW subject \in {PolicyOf[Told[e].text] : e \in DOMAIN Told}
                                        \ {"none", Diagnostic!DependencyPolicy}
               PROVE  Diagnostic!LivesAgree(subject)
    BY Zenon DEF ResolversAgree, Diagnostic!ResolversAgree, Told
  <2> DEFINE end == Len(Told) + 1
             said == Heard(subject, end)
             user == Ruled(subject, end)
             stands == Standing(stored, subject)
  <2>1. /\ packet \in Packets /\ Diagnostic!Loadable(packet)
        /\ ResolvedTo(resolved, end) /\ StoredTo(stored, end) /\ Packed
    BY DEF DiagnosticInv
  <2>2. /\ Len(Told) \in Nat /\ DOMAIN Told = 1..Len(Told) /\ DOMAIN Told \subseteq Nat
        /\ \A f \in DOMAIN Told : Told[f].text \in DOMAIN PolicyOf /\ f < end
    BY <2>1, ToldIs
  <2>3. subject \in Policies
    BY <2>2 DEF Policies
  <2>4. /\ said = Diagnostic!Statements(subject, Diagnostic!Actors) \cap Diagnostic!ToSet(near)
        /\ user = Diagnostic!Statements(subject, {"user"})
    <3>1. \A S : Diagnostic!Statements(subject, S) \subseteq DOMAIN Told
      BY DEF Diagnostic!Statements, Told
    <3> QED BY <2>2, <3>1, SameOperators DEF Heard, Ruled
  <2>5. Diagnostic!Resolved(subject) = IF said = {} THEN {} ELSE {Diagnostic!Latest(said)}
    BY <2>1, <2>3 DEF ResolvedTo, Listed, Diagnostic!Resolved, Policy, Told
  <2>6. /\ \A f \in Lasting(stored) :
              /\ f \in DOMAIN Told /\ Told[f].actor = "user"
              /\ stored[f].text = Told[f].text /\ stored[f].subject = Policy(f)
        /\ user # {} => \E f \in DOMAIN Told :
              stands = {f} /\ Equivalent(Told[Diagnostic!Latest(user)].text, Told[f].text)
    BY <2>1, <2>3 DEF StoredTo, Remembers, MadeOf, Lasting
  <2>7. Diagnostic!Held(subject) = {Told[f].text : f \in stands}
    <3>1. Diagnostic!Active = Lasting(stored)
      BY SameOperators DEF Diagnostic!Active, Lasting
    <3> QED BY <2>6, <3>1 DEF Diagnostic!Held, Standing
  <2>8. stands \subseteq user
    BY <2>2, <2>4, <2>6 DEF Standing, Diagnostic!Statements, Policy, Told
  <2>9. \A f \in Lasting(stored) : Policy(f) = subject => f \in stands
    BY <2>6 DEF Standing
  <2> HIDE DEF end, said, user, stands
  <2>10. IF user = {} THEN Diagnostic!Held(subject) = {}
         ELSE \E text \in Diagnostic!Held(subject) :
                /\ Diagnostic!Held(subject) = {text}
                /\ Equivalent(Told[Diagnostic!Latest(user)].text, text)
    <3>1. CASE user = {}
      BY <2>7, <2>8, <3>1
    <3>2. CASE user # {}
      <4>1. PICK f \in DOMAIN Told :
              stands = {f} /\ Equivalent(Told[Diagnostic!Latest(user)].text, Told[f].text)
        BY <2>6, <3>2
      <4>2. Diagnostic!Held(subject) = {Told[f].text}
        BY <2>7, <4>1
      <4> QED BY <3>2, <4>1, <4>2
    <3> QED BY <3>1, <3>2
  <2>11. ASSUME NEW text \in Diagnostic!Range(Diagnostic!Texts(chosen["recallpack"]))
                               \cap {Told[e].text : e \in user}
         PROVE  text \in Diagnostic!Held(subject)
    <3>1. PICK i \in DOMAIN chosen["recallpack"] : text = chosen["recallpack"][i].text
      BY DEF Diagnostic!Range, Diagnostic!Texts
    <3>2. PICK f \in Lasting(stored) : text = Told[f].text
      BY <2>1, <3>1 DEF Packed
    <3>3. PICK e \in user : text = Told[e].text
      OBVIOUS
    <3>4. Policy(f) = subject
      BY <2>4, <3>2, <3>3 DEF Policy, Diagnostic!Statements, Told
    <3> QED BY <2>7, <2>9, <3>2, <3>4
  <2>12. ASSUME user # {}, patched["recallpack"] \in {"current", "stale"},
                \A e \in DOMAIN Told : Says[Told[e].text] # "none" => PolicyOf[Told[e].text] = subject
         PROVE  patched["recallpack"] \in {Says[text] : text \in Diagnostic!Held(subject)}
    <3>1. PICK f \in Lasting(stored) : patched["recallpack"] = Says[Told[f].text]
      BY <2>1, <2>12 DEF Packed
    <3>2. f \in stands
      BY <2>6, <2>9, <2>12, <3>1 DEF Policy
    <3> QED BY <2>7, <3>1, <3>2
  <2> QED BY <2>4, <2>5, <2>10, <2>11, <2>12 DEF Diagnostic!LivesAgree, Told
<1> QED BY <1>1, DiagnosisInductive, PTL
=============================================================================
