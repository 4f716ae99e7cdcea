--------------------------- MODULE FloorEvidence ---------------------------
(***************************************************************************)
(* What run_v4_floor_evidence_pipeline makes of a finalized population:    *)
(* runs, an aggregate over the accepted ones and an evidence manifest,     *)
(* each built and then judged by the validator a reader of the evidence    *)
(* would use (evidence_run.py, evidence_aggregate.py,                      *)
(* evidence_manifest.py).  The validators recompute what they can, so the  *)
(* interesting question is whether they refuse what the journal retained.  *)
(*                                                                         *)
(* Hashes, contexts, selected sources, usage and metrics of a run are      *)
(* copied or recomputed alike on both sides and left out.                  *)
(***************************************************************************)
EXTENDS RunnerJournal

Invalidations == {"invalidated_technical", "invalidated_abort"}

EntriesOf(population, q) == {i \in 1..Len(population) : population[i].slot = q}
Newer(population, i, j) == i < j /\ population[i].slot = population[j].slot
NextInSlot(population, i, j) ==
  /\ Newer(population, i, j)
  /\ \A h \in (i + 1)..(j - 1) : population[h].slot # population[i].slot

AcceptedOf(population, q) ==
  {i \in EntriesOf(population, q) : population[i].state = "accepted"}
Complete(population) == \A q \in Slots : AcceptedOf(population, q) # {}

(* _load_finalized_runner_outputs *)
LoaderAdmits(population) ==
  /\ Len(population) >= Len(Order)
  /\ \A i \in 1..Len(population) :
       /\ population[i].slot \in Slots
       /\ population[i].state = FinalizationState(population[i].output)
       /\ population[i].attempt >= RepetitionOf[population[i].slot]
  /\ \A i, j \in 1..Len(population) : NextInSlot(population, i, j) =>
       MayFollow(population[i], population[j].attempt, population[j].state)
  /\ \A q \in Slots :
       LET accepted == AcceptedOf(population, q) IN
       /\ EntriesOf(population, q) # {}
       /\ \A i, j \in accepted : i = j
       /\ \A i \in accepted : Newest(population, i)
       /\ accepted = {} => \A i \in EntriesOf(population, q) :
            Newest(population, i) => population[i].state \in Invalidations
  /\ Complete(population) => {VariantOf[q] : q \in Slots} = Variants

-----------------------------------------------------------------------------
(* The truth table of outcomes. *)
PatchExpected(outcome) ==
  outcome \notin {"patch_rejected", "empty_patch", "manual_abort"}
TestExpected(outcome) == outcome \in {"success", "hidden_tests_failed"}

(* _build_floor_run refuses what contradicts itself. *)
Buildable(output) ==
  /\ PatchExpected(output.outcome) <=> output.files # "none"
  /\ TestExpected(output.outcome) => output.suite \in Suites
  /\ ~TestExpected(output.outcome) => output.suite = "none"
  /\ output.suite \in Suites => (output.suite = "passed" <=> output.outcome = "success")
  /\ CASE output.outcome = "technical_failure" -> output.failure # "none"
       [] output.outcome = "manual_abort" -> output.failure = "manual_abort"
       [] OTHER -> output.failure = "none"

Designation(outcome) ==
  CASE outcome = "technical_failure" -> "invalidated_technical"
    [] outcome = "manual_abort" -> "invalidated_abort"
    [] OTHER -> "diagnostic"

PatchRecord(outcome) ==
  IF PatchExpected(outcome) THEN "accepted"
  ELSE IF outcome = "patch_rejected" THEN "rejected" ELSE "none"

(* _build_run_output_catalog: the kinds of artifact a run has. *)
ArtifactKinds(output) ==
  {"runtime_trace", "model_visible_context", "stdout", "stderr"}
    \cup (IF output.files # "none"
          THEN {"patch_diff", "original_file", "patched_file"} ELSE {})
    \cup (IF output.suite # "none" THEN {"test_result"} ELSE {})

(* _run_id of the adapter: nothing in it tells two attempts apart. *)
RunId(q) == <<ScenarioOf[q], VariantOf[q]>>

RunOf(entry) ==
  [id |-> RunId(entry.slot), slot |-> entry.slot, attempt |-> entry.attempt,
   outcome |-> entry.output.outcome,
   designation |-> Designation(entry.output.outcome),
   patch |-> PatchRecord(entry.output.outcome),
   diff |-> entry.output.files, suite |-> entry.output.suite,
   failure |-> entry.output.failure, kinds |-> ArtifactKinds(entry.output)]

(* An artifact's id is made of its run's id and its kind; two attempts     *)
(* never have the same runtime trace, which names the attempt.             *)
ArtifactIds(run) == {<<run.id, kind>> : kind \in run.kinds}
NoCollision(runs) ==
  \A i, j \in 1..Len(runs) : i # j => ArtifactIds(runs[i]) \cap ArtifactIds(runs[j]) = {}

-----------------------------------------------------------------------------
(* validate_evaluation_run. *)
ValidDesignation(run) ==
  /\ run.attempt >= RepetitionOf[run.slot]
  /\ run.designation # "headline"
  /\ CASE run.designation = "invalidated_technical" -> run.failure \in SandboxFailures
       [] run.designation = "invalidated_abort" -> run.failure = "manual_abort"
       [] OTHER -> run.failure = "none"

Sidecars == {"patch_diff", "original_file", "patched_file"}

(* _validate_patch: the retained diff is compared with one made in the     *)
(* order of the paths.                                                     *)
ValidPatch(run) ==
  IF run.patch = "accepted"
  THEN Sidecars \subseteq run.kinds /\ run.diff = "path_order"
  ELSE Sidecars \cap run.kinds = {}

ValidTestResult(run) ==
  run.suite # "none" => {"test_result", "stdout", "stderr"} \subseteq run.kinds

(* _validate_run_outcome *)
ValidOutcome(run) ==
  CASE run.designation = "invalidated_technical" ->
         /\ run.outcome = "technical_failure"
         /\ run.suite = "none" /\ run.patch = "accepted"
    [] run.designation = "invalidated_abort" ->
         run.outcome = "manual_abort" /\ run.suite = "none"
    [] run.designation = "diagnostic" /\ run.suite # "none" ->
         /\ run.patch = "accepted"
         /\ run.outcome =
              IF run.suite = "passed" THEN "success" ELSE "hidden_tests_failed"
    [] OTHER ->
         CASE run.patch = "rejected" -> run.outcome = "patch_rejected"
           [] run.patch = "accepted" -> FALSE
           [] OTHER -> run.outcome = "empty_patch"

ValidRun(run) ==
  ValidDesignation(run) /\ ValidPatch(run) /\ ValidTestResult(run) /\ ValidOutcome(run)

-----------------------------------------------------------------------------
(* _build_retained_attempt_loader *)
RetainedState(run) ==
  IF run.designation \in Invalidations THEN run.designation ELSE "accepted"

Ids(runs) == [i \in 1..Len(runs) |-> runs[i].id]
Accepted(runs) == SelectSeq(runs, LAMBDA run : run.designation \notin Invalidations)

(* Without the rejected patches.                                           *)
MutAdverse(runs) ==
  {runs[i].id : i \in {j \in 1..Len(runs) :
                         runs[j].outcome \in {"hidden_tests_failed", "empty_patch"}}}

(* The adverse ids are listed in the order of the runs' own ids, which are *)
(* compared one by one: a set of them is compared alike.                   *)
Adverse(runs) ==
  {runs[i].id : i \in {j \in 1..Len(runs) :
     runs[j].outcome \in {"hidden_tests_failed", "patch_rejected", "empty_patch"}}}

(* _build_structural_aggregate: over the accepted runs as retained. *)
AggregateOf(runs) ==
  LET accepted == Accepted(runs) IN
  [runIds |-> Ids(accepted), adverseRunIds |-> Adverse(accepted),
   n |-> Len(accepted), numerator |-> Len(accepted)]

(* _validate_retained_journal_transitions *)
TransitionsHold(runs) ==
  \A i, j \in 1..Len(runs) : Newer(runs, i, j) =>
    /\ RetainedState(runs[i]) # "invalidated_abort"
    /\ NextInSlot(runs, i, j) => runs[j].attempt > runs[i].attempt
    /\ RetainedState(runs[i]) = "accepted" => RetainedState(runs[j]) = "accepted"
    /\ RetainedState(runs[i]) = "invalidated_technical"
         /\ (\A h \in (i + 1)..(j - 1) :
               runs[h].slot = runs[i].slot => RetainedState(runs[h]) # "accepted")
       => RetainedState(runs[j]) = "accepted"

(* _authenticate_retained_population *)
RetainedValid(runs) ==
  /\ \A i, j \in 1..Len(runs) : i # j =>
       /\ runs[i].id # runs[j].id
       /\ <<runs[i].slot, runs[i].attempt>> # <<runs[j].slot, runs[j].attempt>>
  /\ \A i \in 1..Len(runs) : ValidRun(runs[i])
  /\ TransitionsHold(runs)

(* _derive_accepted_universe: the accepted run of each slot, in the order  *)
(* of the slots, if there is exactly one.                                  *)
Occupants(runs, q) ==
  {i \in 1..Len(runs) : runs[i].slot = q /\ RetainedState(runs[i]) = "accepted"}
OneOccupantEach(runs) ==
  \A q \in Slots : \E i \in 1..Len(runs) :
    Occupants(runs, q) = {i} /\ runs[i].designation = "diagnostic"
AcceptedUniverse(runs) ==
  [n \in 1..Len(Order) |-> runs[CHOOSE i \in Occupants(runs, Order[n]) : TRUE]]

(* validate_aggregate_report: the run sets are compared with the accepted  *)
(* universe, and the arithmetic recomputed.                                *)
ValidAggregate(report, runs) ==
  /\ RetainedValid(runs) /\ OneOccupantEach(runs)
  /\ LET contributors == AcceptedUniverse(runs) IN
     /\ report.runIds = Ids(contributors)
     /\ report.adverseRunIds = Adverse(contributors)
     /\ report.n = Len(contributors) /\ report.numerator = report.n

(* _build_final_evidence_manifest *)
RunArtifact(run) == <<run.id, "evaluation_run">>
EvidenceOf(runs) ==
  [runIds |-> {runs[i].id : i \in 1..Len(runs)},
   catalog |-> UNION {ArtifactIds(runs[i]) \cup {RunArtifact(runs[i])} : i \in 1..Len(runs)}
                 \cup {<<"aggregate">>},
   claim |-> "enabled"]

(* _structural_passes *)
StructuralPasses(report, runs) ==
  /\ report.runIds # <<>>
  /\ report.runIds = Ids(AcceptedUniverse(runs))
  /\ report.n = Len(report.runIds) /\ report.numerator = report.n

(* validate_evidence_manifest *)
ValidEvidence(evidence, report, runs) ==
  /\ RetainedValid(runs) /\ OneOccupantEach(runs)
  /\ evidence.runIds = {runs[i].id : i \in 1..Len(runs)}
  /\ evidence.catalog \ {<<"aggregate">>} =
       UNION {ArtifactIds(runs[i]) \cup {RunArtifact(runs[i])} : i \in 1..Len(runs)}
  /\ ValidAggregate(report, runs)
  /\ evidence.claim = IF StructuralPasses(report, runs) THEN "enabled" ELSE "disabled"

-----------------------------------------------------------------------------
NoAggregate == [runIds |-> <<>>, adverseRunIds |-> {}, n |-> 0, numerator |-> 0]
Packet(status, runs, aggregate) ==
  [status |-> status, runs |-> runs, aggregate |-> aggregate]
Refused == Packet("refused", <<>>, NoAggregate)

(* run_v4_floor_evidence_pipeline on a finalized population. *)
PacketOf(population) ==
  LET runs      == [i \in 1..Len(population) |-> RunOf(population[i])]
      aggregate == AggregateOf(runs)
  IN
  IF \/ ~LoaderAdmits(population)
     \/ \E i \in 1..Len(population) :
          ~Buildable(population[i].output) \/ ~ValidRun(runs[i])
          \/ RetainedState(runs[i]) # population[i].state
     \/ ~NoCollision(runs)
  THEN Refused
  ELSE IF ~Complete(population)
       THEN Packet("incomplete_retained_population", runs, NoAggregate)
       ELSE IF /\ ValidAggregate(aggregate, runs)
               /\ ValidEvidence(EvidenceOf(runs), aggregate, runs)
            THEN Packet("final_production_evidence", runs, aggregate)
            ELSE Refused
=============================================================================
