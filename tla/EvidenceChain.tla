---------------------------- MODULE EvidenceChain ----------------------------
(***************************************************************************)
(* How evidence comes about, by the kind of its execution manifest.        *)
(*                                                                         *)
(* A headline manifest (4.1) is registered for its review seed, and only a *)
(* registered one gets a RevealAuthority; its cells are then executed      *)
(* under custody and handed to the runner journal.  A Floor manifest (4.0) *)
(* has no review seed: its variants are evaluated in containers, and what  *)
(* the runner journal retains goes through the evidence pipeline.  Both    *)
(* end in the same runner journal, which is of one manifest.               *)
(*                                                                         *)
(* After an authority is constructed nothing of custody reads the registry *)
(* again, so the chain follows a headline manifest from the registry's     *)
(* quiet state only.                                                       *)
(***************************************************************************)
EXTENDS FrozenHandOff, ManifestRegistry

CONSTANTS
  Ours,       \* the headline manifest that is executed
  Us,         \* the process that executes it
  FloorSlots, FloorScenarios, FloorVariants, FloorScenarioOf, FloorVariantOf,
  FloorRepetitionOf, FloorOrder, MaxRounds

ASSUME ChainAssumption == Ours \in Manifests /\ Us \in Processes

VARIABLES
  route,                  \* registering, then headline; or floor
  round, results, alive   \* of FloorEvaluation

Floor == INSTANCE FloorEvaluation WITH
  Slots <- FloorSlots, Scenarios <- FloorScenarios, Variants <- FloorVariants,
  ScenarioOf <- FloorScenarioOf, VariantOf <- FloorVariantOf,
  RepetitionOf <- FloorRepetitionOf, Order <- FloorOrder

ASSUME FloorPlanAssumption == Floor!IsPlan

floor == <<round, results, alive>>
everything == <<route, registry, frozen, journal, floor>>

Quiet ==
  /\ writer = NoProcess
  /\ \A p \in Processes :
       registering[p] = Idle /\ receipts[p] = {}
         /\ authorities[p] = IF p = Us THEN {Ours} ELSE {}

Init ==
  /\ route \in {"registering", "floor"}
  /\ RegistryInit /\ FrozenInit /\ Floor!EvaluationInit

Registering == route = "registering" /\ RegistryNext /\ UNCHANGED <<route, chain, floor>>

Constructed ==
  /\ route = "registering" /\ Quiet
  /\ route' = "headline"
  /\ UNCHANGED <<registry, chain, floor>>

Headline == route = "headline" /\ ChainNext /\ UNCHANGED <<route, registry, floor>>

Evaluating ==
  /\ route = "floor"
  /\ Floor!EvaluationNext
  /\ UNCHANGED <<route, registry, frozen>>

Next == Registering \/ Constructed \/ Headline \/ Evaluating

(* Only a round of the evaluator goes on by itself: docker run and docker  *)
(* rm have timeouts, and no other step of it waits for anything.           *)
Spec == Init /\ [][Next]_everything /\ WF_everything(Evaluating /\ Floor!RoundStep)

-----------------------------------------------------------------------------
(* On the headline route the three journals agree, see FrozenHandOff       *)
(* (append_authorized_frozen_runner_output).                               *)
HeadlineJournalsAgree == route = "headline" => JournalsAgree

(* Final evidence has every slot's accepted run and every invalidated one, *)
(* see FloorEvaluation (run_v4_floor_evidence_pipeline).                   *)
FinalEvidenceIsWhole == route = "floor" => Floor!FinalEvidenceIsWhole

(* No test result and no timeout of a container that may still run         *)
(* (run_isolated_suite, _cleanup_container).                               *)
ReturnedRunsAreOver == Floor!ReturnedRunsAreOver

(* Every round ends (run_isolated_suite's timeouts).                       *)
EveryRoundEnds == Floor!EveryRoundEnds
=============================================================================
