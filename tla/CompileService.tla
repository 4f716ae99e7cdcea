--------------------------- MODULE CompileService ---------------------------
(***************************************************************************)
(* POST /compile: compile.py and budget.py, with the ranking of            *)
(* providers.py (ProviderRanker.rank) and the validation artifacts.py      *)
(* makes of every bundle before ArtifactPublication publishes it.  A       *)
(* compile reads the store once; other requests go on writing to it while  *)
(* the compile embeds, reranks and packs what it has read.                 *)
(***************************************************************************)
EXTENDS EventStore, SequencesExt

CONSTANTS
    Compiles,       \* the requests that compile
    Components,     \* the components a request may name
    InScope,        \* the lifecycle keys a component's compile reads
    Budgets,        \* budget_tokens: 1 to 512
    Tokens(_),      \* tokens of the canonical pack with these texts
    Scores,         \* cosines and relevance scores
    TopN,           \* EMBEDDING_TOP_N: 20
    UnsafeSessions, \* sessions whose source_ref the artifact scan refuses
    UnsafeTexts     \* texts the artifact scan refuses

ASSUME CompileAssumption ==
    /\ InScope \in [Components -> SUBSET Slots]
    /\ Budgets \subseteq Nat /\ Scores \subseteq Int /\ TopN \in Nat \ {0}
    /\ UnsafeSessions \subseteq Sessions /\ UnsafeTexts \subseteq Texts

VARIABLE frame \* each compile's frame

service == <<event, cursor, run, memory, relations, frame>>

\* read: the rows of the candidates, as they were; nearest: those the query
\* embedding retrieved; ranked: those in the order of the reranker, whose
\* scores are relevance; selected: the pack; calls: the traces of each
\* provider role.
Unread == [step |-> "idle", project |-> Nil, component |-> Nil, budget |-> 0,
           snapshot |-> 0, read |-> [m \in {} |-> Nil], nearest |-> {}, ranked |-> <<>>,
           relevance |-> [m \in {} |-> 0], selected |-> <<>>, calls |-> 0, error |-> "none"]

Doing(c, step) == frame[c].step = step
Candidates(f)  == DOMAIN f.read

\* _CompileFailure, and its status code.
Fails(c, error) == frame' = [frame EXCEPT ![c].step = "failed", ![c].error = error]

---------------------------------------------------------------------------
\* Reading the store

\* The source_project_event_seq that memory_snapshot_seq is the largest of.
SnapshotSeqs(active, candidates) == {memory[m].pseq : m \in active}

\* _scope_overlaps.
Overlaps(m, component) == memory[m].slot \in InScope[component]

\* compile and _load_candidates: active_memories is one SELECT.
Load(c) ==
    /\ frame[c].step \in {"idle", "bundled", "failed"}
    /\ \E p \in Projects, component \in Components, budget \in Budgets :
        LET active == {m \in MemoryIds : Active(m) /\ memory[m].project = p}
            candidates == {m \in active : Overlaps(m, component)} IN
        frame' = [frame EXCEPT ![c] = [Unread EXCEPT
            !.step = "loaded", !.project = p, !.component = component,
            !.budget = budget, !.read = [m \in candidates |-> memory[m]],
            !.snapshot = Max({0} \cup SnapshotSeqs(active, candidates))]]
    /\ UNCHANGED vars

\* The store raises while it is read.
LoadFails(c) ==
    /\ frame[c].step \in {"idle", "bundled", "failed"}
    /\ frame' = [frame EXCEPT ![c] =
            [Unread EXCEPT !.step = "failed", !.error = "storage_failure"]]
    /\ UNCHANGED vars

---------------------------------------------------------------------------
\* Retrieval and ranking

MutPrecedes(f, score, m, l) ==
    \/ score[m] > score[l]
    \/ score[m] = score[l] /\ f.read[m].pseq < f.read[l].pseq

\* The sort key of _embedding_top_n and ProviderRanker.rank: the higher
\* score, then the newer memory.  The ids after that decide nothing, as no
\* two memories of a project have one source_project_event_seq.
Precedes(f, score, m, l) ==
    \/ score[m] > score[l]
    \/ score[m] = score[l] /\ f.read[m].pseq > f.read[l].pseq

Ordered(f, S, score) ==
    CHOOSE order \in SetToSeqs(S) :
        \A i, j \in DOMAIN order : i < j => Precedes(f, score, order[i], order[j])

Nearest(near) == {near[i] : i \in {j \in DOMAIN near : j <= TopN}}

\* _retrieve: the query is embedded unless there is nothing to retrieve.
Retrieve(c) ==
    /\ Doing(c, "loaded")
    /\ \E cosine \in [Candidates(frame[c]) -> Scores] :
        LET near == Ordered(frame[c], Candidates(frame[c]), cosine) IN
        frame' = [frame EXCEPT
            ![c].step = "retrieved",
            ![c].nearest = Nearest(near),
            ![c].calls = IF near = <<>> THEN 0 ELSE 1]
    /\ UNCHANGED vars

\* _rerank and ProviderRanker.rank.
Rerank(c) ==
    /\ Doing(c, "retrieved")
    /\ \E relevance \in [frame[c].nearest -> Scores] :
        frame' = [frame EXCEPT
            ![c].step = "ranked", ![c].relevance = relevance,
            ![c].ranked = Ordered(frame[c], frame[c].nearest, relevance),
            ![c].calls = IF frame[c].nearest = {} THEN @ ELSE @ + 1]
    /\ UNCHANGED vars

\* A provider fails or answers what the validation of its role refuses.
ProviderFails(c) ==
    /\ \/ Doing(c, "loaded") /\ Candidates(frame[c]) # {} /\ Fails(c, "embedding_failure")
       \/ Doing(c, "retrieved") /\ frame[c].nearest # {} /\ Fails(c, "rerank_failure")
    /\ UNCHANGED vars

---------------------------------------------------------------------------
\* Packing

\* The exact tokens of a pack with its texts.
PackTokens(f, pack) == Tokens([i \in DOMAIN pack |-> f.read[pack[i]].text])
Fits(f, pack)       == PackTokens(f, pack) <= f.budget

\* One step of BudgetSelector.select: a candidate that does not fit is left
\* out and the next one is tried.
Added(f, pack, m) == IF Fits(f, Append(pack, m)) THEN Append(pack, m) ELSE pack

MutGreedy(f) ==
    SubSeq(f.ranked, 1, Max({n \in 0..Len(f.ranked) : Fits(f, SubSeq(f.ranked, 1, n))}))

\* BudgetSelector.select over the ranked candidates.
Greedy(f) == FoldLeft(LAMBDA pack, m : Added(f, pack, m), <<>>, f.ranked)

Pack(c) ==
    /\ Doing(c, "ranked")
    /\ IF ~Fits(frame[c], <<>>)
       THEN Fails(c, "budget_too_small")
       ELSE frame' = [frame EXCEPT ![c].step = "packed",
                                   ![c].selected = Greedy(frame[c])]
    /\ UNCHANGED vars

\* The exact tokenizer is not available.
PackFails(c) ==
    /\ Doing(c, "ranked")
    /\ Fails(c, "tokenizer_unavailable")
    /\ UNCHANGED vars

\* The omissions of the trace, by stage.
BeyondTop(f)  == Candidates(f) \ f.nearest
OverBudget(f) == ToSet(f.ranked) \ ToSet(f.selected)

---------------------------------------------------------------------------
\* The bundle

\* _validate_candidate_order: the reranked ids follow from the scores.
RankedByScore(f) ==
    /\ ToSet(f.ranked) = f.nearest /\ Len(f.ranked) = Cardinality(f.nearest)
    /\ \A i, j \in DOMAIN f.ranked : i < j =>
        LET m == f.ranked[i] l == f.ranked[j] IN
        \/ f.relevance[m] > f.relevance[l]
        \/ f.relevance[m] = f.relevance[l] /\ f.read[m].pseq > f.read[l].pseq

\* _validate_selected_and_omissions: the selected ids keep the reranked
\* order, and no omitted one is among them.
SelectedInOrder(f) ==
    /\ \E index \in [DOMAIN f.selected -> DOMAIN f.ranked] :
        /\ \A i \in DOMAIN f.selected : f.ranked[index[i]] = f.selected[i]
        /\ \A i, j \in DOMAIN f.selected : i < j => index[i] < index[j]
    /\ ToSet(f.selected) \cap (BeyondTop(f) \cup OverBudget(f)) = {}

\* _validate_provider_traces: one trace of each role, or none.
OneTracePerRole(f) == f.calls = IF f.nearest = {} THEN 0 ELSE 2

\* _validate_token_budget.
WithinBudget(f) == Fits(f, f.selected)

\* _scan_for_sensitive_content: the source_ref of every candidate shown to
\* the reranker is in the trace, the texts of the selected ones in the pack.
Clean(f) ==
    /\ \A m \in f.nearest : f.read[m].source.session \notin UnsafeSessions
    /\ \A i \in DOMAIN f.selected : f.read[f.selected[i]].text \notin UnsafeTexts

ValidBundle(f) ==
    RankedByScore(f) /\ SelectedInOrder(f) /\ OneTracePerRole(f) /\ WithinBudget(f) /\ Clean(f)

\* build_compile_bundle_v4 and its validation; the bundle is published next.
Bundle(c) ==
    /\ Doing(c, "packed")
    /\ IF ValidBundle(frame[c])
       THEN frame' = [frame EXCEPT ![c].step = "bundled"]
       ELSE Fails(c, "artifact_validation_failed")
    /\ UNCHANGED vars

CompileStep(c) ==
    \/ Load(c) \/ LoadFails(c) \/ Retrieve(c) \/ Rerank(c) \/ ProviderFails(c)
    \/ Pack(c) \/ PackFails(c) \/ Bundle(c)

ServiceInit == Init /\ frame = [c \in Compiles |-> Unread]

ServiceNext ==
    \/ \E c \in Compiles : CompileStep(c)
    \/ Next /\ UNCHANGED frame

ServiceSpec == ServiceInit /\ [][ServiceNext]_service

---------------------------------------------------------------------------
\* Properties

\* The compile and the validation of its bundle, two implementations of the
\* same order, packing and trace, agree: artifact_validation_failed is only
\* ever answered for content the scan refuses.
RefusedOnlyIfUnsafe ==
    \A c \in Compiles : frame[c].error = "artifact_validation_failed" => ~Clean(frame[c])

\* A pack is of one moment: it never holds a memory together with one that
\* supersedes it, and all of it is of the request's project and scope,
\* however many writes were committed while it was compiled.
PackIsOneMoment ==
    \A c \in Compiles : frame[c].step \in {"packed", "bundled"} =>
        LET pack == ToSet(frame[c].selected) IN
        /\ \A r \in relations : ~({r.prior, r.successor} \subseteq pack)
        /\ \A m \in pack : /\ memory[m].project = frame[c].project
                           /\ Overlaps(m, frame[c].component)
                           /\ memory[m] = frame[c].read[m]

\* No candidate is lost: each is selected, or left out by the embedding with
\* a full list before it, or left out by the budget because it does not fit
\* behind the selected ones that rank above it.
OmissionsAreJustified ==
    \A c \in Compiles : frame[c].step \in {"packed", "bundled"} =>
        LET f == frame[c] IN
        /\ Candidates(f) = ToSet(f.selected) \cup BeyondTop(f) \cup OverBudget(f)
        /\ BeyondTop(f) # {} => Cardinality(f.nearest) = TopN
        /\ \A i \in DOMAIN f.ranked : f.ranked[i] \in OverBudget(f) =>
            \E n \in 0..Len(f.selected) :
                /\ \A j \in DOMAIN f.selected :
                        j <= n <=> \E above \in 1..(i - 1) : f.ranked[above] = f.selected[j]
                /\ ~Fits(f, Append(SubSeq(f.selected, 1, n), f.ranked[i]))
=============================================================================
