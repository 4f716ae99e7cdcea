-------------------------- MODULE PatchPreparation --------------------------
(***************************************************************************)
(* How a patch is asked for and judged (downstream_contract.py and         *)
(* prepare_downstream_patch_result_from_contract of downstream.py): a      *)
(* request is validated before the provider is asked, its answer after,    *)
(* by the patch contract and then by the validator of downstream.py.       *)
(*                                                                         *)
(* A file is a path with contents that are those of the snapshot, changed, *)
(* or changed to Python that may not run.                                  *)
(***************************************************************************)
EXTENDS Naturals, Sequences

CONSTANTS
  MaxContextItems   \* MAX_CONTEXT_ITEMS: 64

ASSUME ContextAssumption == MaxContextItems \in Nat

(* validate_patch_generation_request: the goal and every text of the       *)
(* context is non-blank and carries no marker of hidden tests or gold.     *)
Writable(text) == text \notin {"blank", "marked", "marked handoff"}
ValidRequest(goal, texts) ==
  /\ Writable(goal) /\ Len(texts) <= MaxContextItems
  /\ \A i \in DOMAIN texts : Writable(texts[i])

(* validate_patch_generation_result and then validate_downstream_files; of *)
(* the second only the content of Python files is left to refuse.          *)
Twice(files) == \E i, j \in DOMAIN files : i # j /\ files[i].path = files[j].path

ContractError(files, allowed) ==
  IF files = <<>> THEN "empty_patch"
  ELSE IF \E i \in DOMAIN files : files[i].path \notin allowed THEN "path_not_allowed"
  ELSE IF Twice(files) THEN "duplicate_path"
  ELSE IF \A i \in DOMAIN files : files[i].content = "same" THEN "empty_patch"
  ELSE "none"

ValidatorError(files, allowed) ==
  IF Twice(files) THEN "duplicate_path"
  ELSE IF \E i \in DOMAIN files : files[i].path \notin allowed THEN "path_not_allowed"
  ELSE IF \E i \in DOMAIN files : files[i].content = "unsafe" THEN "unsafe_python_content"
  ELSE "none"

PatchError(files, allowed) ==
  IF ContractError(files, allowed) # "none" THEN ContractError(files, allowed) ELSE ValidatorError(files, allowed)
=============================================================================
