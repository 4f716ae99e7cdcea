------------------------- MODULE DiagnosticVariants -------------------------
(***************************************************************************)
(* The deterministic execution of the five variants over the packet of an  *)
(* authored scenario (execute_v4_diagnostic_variants): every provider is   *)
(* local and none fails, and what refuses a variant raises out of the      *)
(* whole execution.  Two variants follow the life of a policy, an event a  *)
(* step: recall_time_resolver in a list of its own, recallpack by          *)
(* observing the events into a scratch store.  The others are one step.    *)
(*                                                                         *)
(* Of a text matter the policy the decider files it under and what it says *)
(* of the policy of the path that is patched.  A digest is its content.    *)
(***************************************************************************)
EXTENDS MemoryDecision, PatchPreparation, SequencesExt

CONSTANTS
  Packets,          \* scenario packets, each with its downstream fixture
  PolicyOf,         \* [texts -> subjects or "none"]
  Says,             \* [texts -> {"current", "stale", "none"}]
  Contracts,        \* [policy files -> the keys a change sets, subjects of other policies]
  TopN,             \* 20
  Fits(_)           \* whether a pack of these events is within 512 tokens

VARIABLES
  packet, phase,
  near,      \* the order the deterministic reranker gives
  hearing,   \* the event that is resolved or observed next
  resolved,  \* the events the recall time resolver's list has, in their order
  stored,    \* the memory of each event in the scratch store
  chosen,    \* of each variant, the items of its context
  patched    \* of each variant, its patch or the error of it

diagnostic == <<packet, phase, near, hearing, resolved, stored, chosen, patched>>

DiagnosticVariantIds ==
  {"raw_full_history", "semantic_rerank", "recency_aware", "recall_time_resolver", "recallpack"}

-----------------------------------------------------------------------------
(* The packet                                                              *)

EventKinds == {"message", "test_result", "command_result"}
Actors == {"user", "assistant", "tool"}
Refs(events) == {events[i].ref : i \in DOMAIN events}

(* The source ledger has every event, in order, by its digest.             *)
LedgerCloses(p) ==
  /\ p.events # <<>> /\ Len(p.ledger.entries) = Len(p.events)
  /\ \A i \in DOMAIN p.events :
       /\ p.events[i].visible
       /\ p.events[i].actor \in Actors /\ p.events[i].kind \in EventKinds
       /\ p.ledger.entries[i] = [ref |-> p.events[i].ref, digest |-> p.events[i]]
       /\ \A j \in DOMAIN p.events : p.events[i].ref = p.events[j].ref => i = j

(* The relation ledger relates events of this source ledger.               *)
RelationsClose(p) ==
  /\ p.relations.source = p.ledger
  /\ \A i \in DOMAIN p.relations.entries :
       LET entry == p.relations.entries[i] IN
       /\ {entry.prior, entry.candidate} \subseteq Refs(p.events)
       /\ entry.prior # entry.candidate
       /\ entry.kind \in {"true_supersession", "hard_negative"}
       /\ \A j \in DOMAIN p.relations.entries : p.relations.entries[j].id = entry.id => i = j

(* _valid_provenance and _valid_leakage_review: both are pending, and make *)
(* no claim the packet cannot support.                                     *)
ValidProvenance(p) ==
  /\ p.provenance.class = "source_backed_synthetic"
  /\ p.provenance.status = "pending_independent_evidence_review"
  /\ p.provenance.urls # <<>> /\ IsInjective(p.provenance.urls)

ValidLeakageReview(p) ==
  /\ p.leakage.status = "pending_independent_evidence_review"
  /\ p.leakage.visible = {}    \* hidden tests, labels, gold sources
  /\ p.leakage.verdict = "diagnostic_only_until_external_review"

OneSlot(p) ==
  \A record \in {p.relations, p.provenance, p.leakage} : record.slot = p.ledger.slot

(* _load_model_visible_events and _load_downstream_fixture.                *)
Loadable(p) ==
  /\ LedgerCloses(p) /\ RelationsClose(p) /\ OneSlot(p)
  /\ ValidProvenance(p) /\ ValidLeakageReview(p)
  /\ Last(p.events).text \in {"handoff", "marked handoff"}
  /\ p.fixture.complete

Before == Front(packet.events)
Goal == Last(packet.events).text

-----------------------------------------------------------------------------
(* The deterministic decider                                               *)

DependencyPolicy == "dependency_policy"

(* The candidate of the index before.                                      *)
MutPriors(subject, candidates) ==
  IF subject = DependencyPolicy THEN <<>>
  ELSE LET same == {i \in DOMAIN candidates : candidates[i].subject = subject} IN
       IF same = {} \/ 1 \in same THEN <<>>
       ELSE <<(CHOOSE i \in same : \A j \in same : i <= j) - 1>>

(* _candidate_index: the first candidate of the subject, if any.  A        *)
(* preference supersedes nothing.                                          *)
Priors(subject, candidates) ==
  IF subject = DependencyPolicy THEN <<>>
  ELSE LET same == {i \in DOMAIN candidates : candidates[i].subject = subject} IN
       IF same = {} THEN <<>> ELSE <<CHOOSE i \in same : \A j \in same : i <= j>>

PolicyMemory(text) ==
  LET preference == PolicyOf[text] = DependencyPolicy IN
  [type |-> IF preference THEN "preference" ELSE "decision", subject |-> PolicyOf[text],
   scope |-> IF preference THEN "project" ELSE "component",
   component |-> IF preference THEN "none" ELSE packet.fixture.component, text |-> text,
   seq |-> 0, active |-> FALSE]

(* _ScenarioLifecycleDecider._operation.                                   *)
Decided(text, candidates) ==
  LET Operation(operation, memory, supersedes) ==
        [operation |-> operation, memory |-> memory, duplicate |-> NoIndex,
         supersedes |-> supersedes, reason |-> "plain"] IN
  IF PolicyOf[text] = "none" THEN Operation("no_op", NoMemory, <<>>)
  ELSE Operation("write", PolicyMemory(text), Priors(PolicyOf[text], candidates))

Item(e, subject) == [event |-> e, subject |-> subject, text |-> Before[e].text]
RawItem(e) == Item(e, "session_event")
PolicyItem(e) == Item(e, PolicyOf[Before[e].text])

(* A list that is only appended to, and filtered, has its events in order. *)
Listings(events) ==
  {order \in SetToSeqs(events) : \A i, j \in DOMAIN order : i < j => order[i] < order[j]}

(* _resolve_with_ephemeral_lifecycle: whoever said it and however often.   *)
Resolve(order) ==
  LET op == Decided(Before[hearing].text, [i \in DOMAIN order |-> PolicyItem(order[i])]) IN
  IF hearing \notin ToSet(near) \/ op.operation # "write" THEN resolved
  ELSE (resolved \ {order[i] : i \in ToSet(op.supersedes)}) \cup {hearing}

(* observe of one event, the decider having no repair: what is refused is  *)
(* a no-op.  The candidates come in the order of their similarity.         *)
Active == {e \in DOMAIN stored : stored[e] # NoMemory /\ stored[e].active}

Observe(order) ==
  LET candidates == [i \in DOMAIN order |-> stored[order[i]]]
      result == NormalizedOperation(Decided(Before[hearing].text, candidates),
                                    Before[hearing].actor, hearing, candidates) IN
  IF result.operation # "write" THEN stored
  ELSE [e \in DOMAIN stored |->
          IF e = hearing THEN [result.memory EXCEPT !.seq = hearing, !.active = TRUE]
          ELSE IF e \in Active /\ stored[e].seq \in result.supersedes
          THEN [stored[e] EXCEPT !.active = FALSE] ELSE stored[e]]

-----------------------------------------------------------------------------
(* The deterministic patch                                                 *)

(* Of each policy file: the keys a change sets, and the subjects of other  *)
(* policies of the same file.                                              *)
First(S) == CHOOSE i \in S : \A j \in S : i <= j
Target ==
  LET allowed == packet.fixture.allowed
      edited == {i \in DOMAIN allowed : allowed[i] # "pyproject.toml"} IN
  IF edited = {} THEN allowed[1] ELSE allowed[First(edited)]

Speaks(item) == item.subject \notin Contracts[Target].others /\ Says[item.text] # "none"

(* The first that says something of the policy decides.                    *)
Inferred(items) ==
  IF Target \notin DOMAIN Contracts THEN "none"
  ELSE LET speaking == {i \in DOMAIN items : Speaks(items[i])} IN
       IF speaking = {} THEN "none" ELSE Says[items[First(speaking)].text]

(* _returned_policy_dicts: a dictionary the function returns, or the only  *)
(* one a name it returns was given before.                                 *)
Returned(body) ==
  LET Given(name, j) == {i \in 1..(j - 1) : ~body[i].returns /\ body[i].name = name} IN
  {i \in DOMAIN body : body[i].returns /\ body[i].name = "none"}
    \cup {i \in DOMAIN body : \E j \in DOMAIN body :
              body[j].returns /\ body[j].name # "none" /\ Given(body[j].name, j) = {i}}

(* One dictionary has all the keys a change sets.                          *)
Updates == Contracts[Target].keys
Updatable(body) == Cardinality({i \in Returned(body) : Updates \subseteq body[i].keys}) = 1

(* _generate_policy_patch_from_context: nothing, when no policy is known   *)
(* or the function is not there or has no one dictionary to change.        *)
PolicyPatch(items) ==
  IF Inferred(items) = "none" \/ ~Updatable(packet.fixture.body) THEN <<>>
  ELSE <<[path |-> Target,
          content |-> IF Inferred(items) = packet.fixture.holds THEN "same" ELSE "changed"]>>

PatchOf(items) ==
  LET error == PatchError(PolicyPatch(items), ToSet(packet.fixture.allowed)) IN
  IF error = "none" THEN Inferred(items) ELSE error

-----------------------------------------------------------------------------
(* The steps of execute_v4_diagnostic_variants                             *)

Raising == phase' = "raised" /\ UNCHANGED <<chosen, patched>>

Texts(items) == [i \in DOMAIN items |-> items[i].text]

(* _run_variant: the request for a patch may be refused.                   *)
RunVariant(variant, items, next) ==
  IF ~ValidRequest(Goal, Texts(items)) THEN Raising
  ELSE /\ chosen' = [chosen EXCEPT ![variant] = items]
       /\ patched' = [patched EXCEPT ![variant] = PatchOf(items)]
       /\ phase' = next

(* The orders a reranker may give to those the embeddings are nearest to.  *)
Orders(S) ==
  UNION {SetToSeqs(T) : T \in {R \in SUBSET S :
           Cardinality(R) = IF Cardinality(S) < TopN THEN Cardinality(S) ELSE TopN}}

(* The ranking is computed by three of the variants, each time alike.      *)
Load ==
  /\ phase = "load"
  /\ IF Loadable(packet)
     THEN phase' = "raw_full_history" /\ near' \in Orders(DOMAIN Before)
     ELSE phase' = "raised" /\ UNCHANGED near
  /\ UNCHANGED <<packet, hearing, resolved, stored, chosen, patched>>

RunRaw ==
  /\ phase = "raw_full_history"
  /\ RunVariant(phase, [e \in DOMAIN Before |-> RawItem(e)], "semantic_rerank")
  /\ UNCHANGED <<packet, near, hearing, resolved, stored>>

(* BudgetSelector.select.                                                  *)
Budgeted(order) ==
  FoldLeft(LAMBDA pack, e : IF Fits(Append(pack, e)) THEN Append(pack, e) ELSE pack,
           <<>>, order)

RawItems(pack) == [i \in DOMAIN pack |-> RawItem(pack[i])]
PolicyItems(pack) == [i \in DOMAIN pack |-> PolicyItem(pack[i])]

RunSemantic ==
  /\ phase = "semantic_rerank"
  /\ RunVariant(phase, RawItems(Budgeted(near)), "recency_aware")
  /\ UNCHANGED <<packet, near, hearing, resolved, stored>>

(* _timestamp_key wants fourteen digits.                                   *)
When(e) == Before[e].time
Recent ==
  SetToSortSeq(DOMAIN near, LAMBDA i, j : When(near[i]) > When(near[j])
                                            \/ (When(near[i]) = When(near[j]) /\ i < j))

RunRecency ==
  /\ phase = "recency_aware"
  /\ IF \E e \in ToSet(near) : When(e) = 0 THEN Raising
     ELSE RunVariant(phase, RawItems(Budgeted([i \in DOMAIN near |-> near[Recent[i]]])),
                     "recall_time_resolver")
  /\ UNCHANGED <<packet, near, hearing, resolved, stored>>

ResolveEvent ==
  /\ phase = "recall_time_resolver" /\ hearing \in DOMAIN Before
  /\ \E order \in Listings(resolved) : resolved' = Resolve(order)
  /\ hearing' = hearing + 1
  /\ UNCHANGED <<packet, phase, near, stored, chosen, patched>>

RunResolver ==
  /\ phase = "recall_time_resolver" /\ hearing \notin DOMAIN Before
  /\ \E order \in Listings(resolved) :
       RunVariant(phase, PolicyItems(Budgeted(order)), "recallpack")
  /\ hearing' = 1
  /\ UNCHANGED <<packet, near, resolved, stored>>

(* _run_recallpack_runtime: the store numbers events by session, and every *)
(* answer that is not 200 raises; the compile finds every memory in scope. *)
OneSession == Before[hearing].session = Before[1].session

ObserveEvent ==
  /\ phase = "recallpack" /\ hearing \in DOMAIN Before
  /\ IF ~OneSession THEN Raising /\ UNCHANGED <<hearing, stored>>
     ELSE /\ \E order \in SetToSeqs(Active) : stored' = Observe(order)
          /\ hearing' = hearing + 1
          /\ UNCHANGED <<phase, chosen, patched>>
  /\ UNCHANGED <<packet, near, resolved>>

RunRecallpack ==
  /\ phase = "recallpack" /\ hearing \notin DOMAIN Before
  /\ \E order \in Orders(Active) : RunVariant(phase, PolicyItems(Budgeted(order)), "done")
  /\ UNCHANGED <<packet, near, hearing, resolved, stored>>

-----------------------------------------------------------------------------
DiagnosticInit ==
  /\ packet \in Packets
  /\ phase = "load"
  /\ near = <<>> /\ hearing = 1 /\ resolved = {}
  /\ stored = [e \in DOMAIN Before |-> NoMemory]
  /\ chosen = [v \in DiagnosticVariantIds |-> <<>>]
  /\ patched = [v \in DiagnosticVariantIds |-> "none"]

DiagnosticNext ==
  \/ Load \/ RunRaw \/ RunSemantic \/ RunRecency
  \/ ResolveEvent \/ RunResolver \/ ObserveEvent \/ RunRecallpack

-----------------------------------------------------------------------------
Statements(subject, actors) ==
  {e \in DOMAIN Before : PolicyOf[Before[e].text] = subject /\ Before[e].actor \in actors}
Latest(S) == CHOOSE e \in S : \A f \in S : f <= e
Resolved(subject) == {e \in resolved : PolicyOf[Before[e].text] = subject}
Held(subject) == {stored[e].text : e \in {f \in Active : stored[f].subject = subject}}

LivesAgree(subject) ==
  LET said == Statements(subject, Actors) \cap ToSet(near)
      user == Statements(subject, {"user"}) IN
  /\ Resolved(subject) = IF said = {} THEN {} ELSE {Latest(said)}
  /\ IF user = {} THEN Held(subject) = {}
     ELSE \E text \in Held(subject) :
            Held(subject) = {text} /\ Equivalent(Before[Latest(user)].text, text)
  /\ Range(Texts(chosen["recallpack"])) \cap {Before[e].text : e \in user} \subseteq Held(subject)
  /\ user # {} /\ patched["recallpack"] \in {"current", "stale"}
       /\ (\A e \in DOMAIN Before : Says[Before[e].text] # "none"
                                      => PolicyOf[Before[e].text] = subject)
     => patched["recallpack"] \in {Says[text] : text \in Held(subject)}

(* The two lives of a policy, in the resolver's list and in the store,     *)
(* differ by who is believed and in nothing else: of each policy that is   *)
(* superseded the resolver ends with what was said of it last, by whoever  *)
(* it was said and was among the events ranked nearest, and the store with *)
(* what a user said of it last, or an equivalent before it; and no patch   *)
(* of recallpack applies what its user has taken back                      *)
(* (_resolve_with_ephemeral_lifecycle, _run_recallpack_runtime).           *)
ResolversAgree ==
  phase = "done" =>
    \A subject \in {PolicyOf[Before[e].text] : e \in DOMAIN Before} \ {"none", DependencyPolicy} :
      LivesAgree(subject)
=============================================================================
