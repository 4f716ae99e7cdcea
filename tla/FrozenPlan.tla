----------------------------- MODULE FrozenPlan -----------------------------
(***************************************************************************)
(* The plan of frozen cells (build_frozen_live_execution_plan) and the     *)
(* record an attempt at a cell leaves (serialize_frozen_pre_isolation_     *)
(* record), both of v4_live_execution.py.  A plan is made of a manifest    *)
(* and of the bytes its catalog names, and of nothing else: every request  *)
(* it refuses raises.                                                      *)
(*                                                                         *)
(* A digest is the content it is of.  Bytes are the document they parse    *)
(* to, whose field "record" is its record_type.                            *)
(***************************************************************************)
EXTENDS Naturals, Sequences, SequencesExt

CONSTANTS
  CanonicalPaths,     \* relative, normalized, ascii
  ComponentOf,        \* [paths src/<component>.py -> components]
  PrivateIdentifiers, \* identifiers no public record may carry
  HandOffTexts        \* summaries that contain "handoff task"

(* _load_frozen_artifact: of the kind that is expected, and intact.        *)
Loaded(manifest, bytes, id, kind) ==
  /\ id \in DOMAIN manifest.catalog /\ id \in DOMAIN bytes
  /\ manifest.catalog[id] = [kind |-> kind, content |-> bytes[id]]

(* _load_json_artifact: bytes that parse to an object.                     *)
LoadedJson(manifest, bytes, id, kind) ==
  Loaded(manifest, bytes, id, kind) /\ bytes[id].record # "no object"

(* _canonical_repository_path.                                             *)
Canonical(paths) == paths \subseteq CanonicalPaths

(* _frozen_writable_paths.                                                 *)
ValidWritablePaths(manifest) ==
  /\ manifest.writable # <<>> /\ IsInjective(manifest.writable)
  /\ Canonical(ToSet(manifest.writable))

(* _frozen_technical_failure_codes.                                        *)
ValidFailureCodes(manifest) ==
  manifest.codes # {} /\ manifest.codes \cap PrivateIdentifiers = {}

(* _handoff_goal: the last event is the task.                              *)
HandsOff(event) == event.kind = "message" /\ event.text \in HandOffTexts

(* _frozen_fixture_events: a list that is not empty, of events.            *)
IsList(value) == value \in Seq(ToSet(value))
ValidFixture(fixture, slot) ==
  /\ fixture.record = "fixture" /\ fixture.slot = slot
  /\ IsList(fixture.events) /\ fixture.events # <<>>
  /\ \A i \in DOMAIN fixture.events :
       /\ fixture.events[i].visible /\ fixture.events[i].text # "empty"
       /\ \A j \in DOMAIN fixture.events :
            fixture.events[i].ref = fixture.events[j].ref => i = j
  /\ HandsOff(Last(fixture.events))

(* _repository_bundle_files.                                               *)
PathsOf(files) == {files[i].path : i \in DOMAIN files}
ValidSnapshot(bundle, slot) ==
  /\ bundle.record = "deterministic_file_bundle" /\ bundle.slot = slot
  /\ bundle.files # <<>> /\ Canonical(PathsOf(bundle.files))
  /\ \A i \in DOMAIN bundle.files :
       /\ bundle.files[i].digest = bundle.files[i].content
       /\ \A j \in DOMAIN bundle.files :
            bundle.files[i].path = bundle.files[j].path => i = j

(* allowed_edit_paths: the writable paths this repository has.             *)
AllowedEditPaths(manifest, bundle) ==
  ToSet(manifest.writable) \cap PathsOf(bundle.files)

(* _derive_scenario_contract: one of them, and one only, is the module the *)
(* component is named after.                                               *)
SourcesIn(paths) == paths \cap DOMAIN ComponentOf
ValidScenario(manifest, bytes, scenario) ==
  /\ LoadedJson(manifest, bytes, scenario.fixture, "fixture")
  /\ LoadedJson(manifest, bytes, scenario.snapshot, "repository_snapshot")
  /\ Loaded(manifest, bytes, scenario.hidden, "hidden_test_hash")
  /\ scenario.slot \in DOMAIN manifest.hashes
  /\ bytes[scenario.hidden] = manifest.hashes[scenario.slot]
  /\ ValidFixture(bytes[scenario.fixture], scenario.slot)
  /\ ValidSnapshot(bytes[scenario.snapshot], scenario.slot)
  /\ \E path \in CanonicalPaths :
       SourcesIn(AllowedEditPaths(manifest, bytes[scenario.snapshot])) = {path}

(* Contract and cell: what one attempt needs of the two.                   *)
Contract(manifest, bytes, scenario) ==
  LET events  == bytes[scenario.fixture].events
      allowed == AllowedEditPaths(manifest, bytes[scenario.snapshot]) IN
  [slot |-> scenario.slot, events |-> Front(events), goal |-> Last(events).text,
   files |-> bytes[scenario.snapshot].files, allowed |-> allowed,
   component |-> ComponentOf[CHOOSE path \in SourcesIn(allowed) : TRUE]]

(* execution_order: every cell once and in its place, of a scenario and a  *)
(* variant of the manifest.                                                *)
ValidOrder(manifest) ==
  \A i \in DOMAIN manifest.order :
    LET cell == manifest.order[i] IN
    /\ cell.index = i - 1
    /\ \A j \in DOMAIN manifest.order : manifest.order[j].id = cell.id => i = j
    /\ \E s \in DOMAIN manifest.scenarios : manifest.scenarios[s].slot = cell.scenario
    /\ cell.variant \in manifest.variants
    /\ cell.repetition >= 1

(* build_frozen_live_execution_plan.                                       *)
Plannable(manifest, bytes) ==
  /\ ValidWritablePaths(manifest) /\ ValidFailureCodes(manifest)
  /\ manifest.variants # {} /\ ValidOrder(manifest)
  /\ \A i, j \in DOMAIN manifest.scenarios :
       manifest.scenarios[i].slot = manifest.scenarios[j].slot => i = j
  /\ \A i \in DOMAIN manifest.scenarios :
       ValidScenario(manifest, bytes, manifest.scenarios[i])

ScenarioContract(manifest, bytes, slot) ==
  Contract(manifest, bytes,
           manifest.scenarios[CHOOSE i \in DOMAIN manifest.scenarios :
                                manifest.scenarios[i].slot = slot])

-----------------------------------------------------------------------------
(* The record of an attempt                                                *)

(* Only what may be published is in a record: identifiers, digests and     *)
(* counts, and the paths of a patch, which must be those of its files.     *)
Public(identifiers) == identifiers \cap PrivateIdentifiers = {}

(* _sanitize_frozen_downstream.                                            *)
RecordablePatch(paths, files) ==
  /\ IsInjective(paths) /\ Canonical(ToSet(paths))
  /\ paths = [i \in DOMAIN files |-> files[i].path]

(* _sanitize_frozen_provider_trace: a trace names its model.               *)
RecordableTraces(cell, traces) == traces # <<>> => Public({cell.model})

(* serialize_frozen_pre_isolation_record, of an attempt at a cell.         *)
Recordable(cell, result, paths) ==
  /\ Public({cell.id, cell.scenario, cell.variant, result.code})
  /\ RecordableTraces(cell, result.traces)
  /\ RecordablePatch(paths, result.files)

(* What an attempt at a cell is given.  The names of the models come from  *)
(* the environment, as do the providers and the tokenizer.                 *)
CellInput(request) ==
  LET manifest == request.manifest
      cell     == manifest.order[request.slot]
      contract == ScenarioContract(manifest, request.bytes, cell.scenario) IN
  [id |-> cell.id, scenario |-> cell.scenario, variant |-> cell.variant,
   events |-> contract.events, goal |-> contract.goal, files |-> contract.files,
   component |-> contract.component, allowed |-> contract.allowed,
   codes |-> manifest.codes, model |-> request.model,
   factories |-> request.factories, tokenizer |-> request.tokenizer]
=============================================================================
