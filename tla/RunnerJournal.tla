--------------------------- MODULE RunnerJournal ---------------------------
(***************************************************************************)
(* What an evaluation attempt becomes on its way from the isolated         *)
(* evaluator to a finalized population (isolation.py,                      *)
(* evaluation_evidence_adapter.py, ProductionRunnerOutputJournal of        *)
(* evidence_pipeline.py): a sealed result, the runner output the adapter   *)
(* makes of it, and the journal's entry for that output.  The journal is   *)
(* appended by evaluator code in any order of slots and is finalized once. *)
(*                                                                         *)
(* Texts, digests and receipts are left out: a result is authenticated or  *)
(* it is never offered.  What is kept is what the checks tell apart: which *)
(* authority sealed the result, whether it is blocked and why, what the    *)
(* suite said, and whether the output carries the patch's files, and in    *)
(* the order of their paths.                                               *)
(***************************************************************************)
EXTENDS ExecutionPlan

CONSTANT MaxAttempt    \* attempts per slot, bounding attempt_no

VARIABLES
  entries,     \* _entries
  finalized    \* _finalized

journal == <<entries, finalized>>

Attempts == 1..MaxAttempt

(* A sealed IsolatedSuiteResult. *)
Isolated(mode, blocked, suite, failure) ==
  [mode |-> mode, blocked |-> blocked, suite |-> suite, failure |-> failure]

Suites == {"passed", "failed"}
Executed(suite)     == Isolated("production_docker", FALSE, suite, "none")
Technical(failure)  == Isolated("production_docker", TRUE, "none", failure)
NotExecuted(error)  == Isolated("patch_not_executed", TRUE, "none", error)

SandboxFailures == {"sandbox_timeout", "sandbox_unavailable"}
PatchErrors     == {"empty_patch", "patch_rejected"}
FileOrders      == {"path_order", "other_order"}

(* validate_isolated_result: a result is one of these, or refused.         *)
IsolatedResults ==
  {Executed(s) : s \in Suites}
    \cup {Technical(f) : f \in SandboxFailures}
    \cup {NotExecuted(e) : e \in PatchErrors}

(* The runner output, with attempt_outcome named by its code. *)
Output(outcome, suite, files, failure) ==
  [outcome |-> outcome, suite |-> suite, files |-> files, failure |-> failure]

(* build_v4_diagnostic_runner_outputs: a patch is an error of downstream,  *)
(* or accepted with files, in the order its provider wrote them.           *)
AdapterOutput(patch, result) ==
  IF patch \in PatchErrors
  THEN Output(IF result.failure = "empty_patch" THEN "empty_patch"
                                                ELSE "patch_rejected",
              "none", "none", "none")
  ELSE IF result.blocked
       THEN Output("technical_failure", "none", patch, result.failure)
       ELSE Output(IF result.suite = "passed" THEN "success"
                                              ELSE "hidden_tests_failed",
                   result.suite, patch, "none")

(* _validate_production_runner_receipt: the outcome is recomputed from the *)
(* sealed result.                                                          *)
ReceiptAdmits(output, result) ==
  CASE result.mode = "production_docker" /\ result.blocked ->
         /\ output.files # "none" /\ output.suite = "none"
         /\ output.outcome = "technical_failure"
         /\ output.failure = result.failure
    [] result.mode = "production_docker" /\ ~result.blocked ->
         /\ output.files # "none"
         /\ result.suite \in Suites /\ output.suite = result.suite
         /\ output.outcome =
              IF result.suite = "passed" THEN "success" ELSE "hidden_tests_failed"
    [] OTHER ->
         /\ result.blocked /\ result.suite = "none"
         /\ output.suite = "none" /\ output.files = "none"
         /\ output.failure = "none"
         /\ output.outcome =
              IF result.failure = "empty_patch" THEN "empty_patch"
                                                ELSE "patch_rejected"

(* _runner_output_finalization_state *)
FinalizationState(output) ==
  CASE output.outcome = "technical_failure" -> "invalidated_technical"
    [] output.outcome = "manual_abort" -> "invalidated_abort"
    [] OTHER -> "accepted"

-----------------------------------------------------------------------------
(* The newest entry of its slot. *)
Newest(population, i) ==
  \A j \in 1..Len(population) :
    j > i => population[j].slot # population[i].slot

(* What an entry leaves room for in its slot. *)
MayFollow(previous, attempt, state) ==
  /\ attempt > previous.attempt
  /\ previous.state \notin {"accepted", "invalidated_abort"}
  /\ previous.state = "invalidated_technical" => state = "accepted"

MayAppend(q, attempt, output, result) ==
  /\ ~finalized
  /\ ReceiptAdmits(output, result)
  /\ \A i \in 1..Len(entries) :
       entries[i].slot = q /\ Newest(entries, i) =>
         MayFollow(entries[i], attempt, FinalizationState(output))

Entry(q, attempt, output) ==
  [slot |-> q, attempt |-> attempt, state |-> FinalizationState(output),
   output |-> output]

AppendOutput(q, attempt, output, result) ==
  /\ MayAppend(q, attempt, output, result)
  /\ entries' = Append(entries, Entry(q, attempt, output))
  /\ UNCHANGED finalized

FinalizeJournal ==
  /\ ~finalized
  /\ finalized' = TRUE
  /\ UNCHANGED entries

JournalInit == entries = <<>> /\ finalized = FALSE
=============================================================================
