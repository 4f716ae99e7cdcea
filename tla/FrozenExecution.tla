--------------------------- MODULE FrozenExecution ---------------------------
(***************************************************************************)
(* The frozen executor (v4_live_execution.py) over reveal custody: one     *)
(* cell of the plan after the other is authorized, run through selection   *)
(* and patch generation, and its outcome fixed in custody, in one call.    *)
(* The pre-isolation journal says which cell and attempt is next; a caller *)
(* may also name a cell and attempt itself.  A call that raises (a plan    *)
(* error that is no provider failure, a rejected patch that still has      *)
(* files, a custody refusal) leaves custody and journal as they were.      *)
(*                                                                         *)
(* A cell's attempts count from its repetition: attempt_no is              *)
(* cell.repetition for the first and one more for each retry.              *)
(***************************************************************************)
EXTENDS RevealCustody

CONSTANTS
  NoCell,
  MaxDry    \* journal entries made without custody, a bound of the model

VARIABLES
  prepared,   \* FrozenPreIsolationJournal._results, in order
  cells       \* the AuthorizedFrozenLiveCell callers hold, by attempt

frozen == <<custody, prepared, cells>>

(* The attempt_outcome of a cell.  A provider failure is invalidated if    *)
(* its code is both retryable and one of the manifest's technical failure  *)
(* codes; else it is adverse, and its stage tells it from an accepted      *)
(* patch, which is still incomplete.                                       *)
PatchAccepted == "isolated_evaluation"
PatchRejected == "adverse patch_generation"
SelectionFailed == "adverse selection"
TechnicalFailure == "invalidated"

(* execute_frozen_live_cell: a selection or a patch provider fails, the    *)
(* patch is refused, or it is accepted.                                    *)
CellOutcomes == {PatchAccepted, PatchRejected, SelectionFailed, TechnicalFailure}

ASSUME CellAssumption == NoCell \notin CellOutcomes

(* A result in the journal, and whether custody has its output.            *)
PreparedCell(k, outcome, fixed) == [key |-> k, outcome |-> outcome, fixed |-> fixed]
Invalidated(entry) == entry.outcome = TechnicalFailure

(* The retry of an invalidated attempt under the attempt's own number.     *)
MutNextPosition ==
  IF prepared = <<>> THEN <<Order[1], RepetitionOf[Order[1]]>>
  ELSE LET last == prepared[Len(prepared)]
           at   == CHOOSE i \in 1..Len(Order) : Order[i] = last.key[1]
       IN  IF Invalidated(last) THEN last.key
           ELSE IF at = Len(Order) THEN <<>>
           ELSE <<Order[at + 1], RepetitionOf[Order[at + 1]]>>

(* _next_execution_position: the attempt key the journal will take next.   *)
NextPosition ==
  IF prepared = <<>> THEN <<Order[1], RepetitionOf[Order[1]]>>
  ELSE LET last == prepared[Len(prepared)]
           at   == CHOOSE i \in 1..Len(Order) : Order[i] = last.key[1]
       IN  IF Invalidated(last) THEN <<last.key[1], last.key[2] + 1>>
           ELSE IF at = Len(Order) THEN <<>>
           ELSE <<Order[at + 1], RepetitionOf[Order[at + 1]]>>

(* The output custody keeps is the hash of the outcome.                    *)
FixOutcome(k) == \E o \in Outputs : FixModelOutput(k, o)

(* execute_authorized_frozen_live_cell: authorization, the providers'      *)
(* work, the hash of the outcome and its fixation; the output of an        *)
(* attempt is one of Outputs.                                              *)
ExecuteAuthorized(k, outcome) ==
  /\ k \in Keys /\ k[2] >= RepetitionOf[k[1]]
  /\ ProviderMayAct(k)
  /\ FixOutcome(k)
  /\ cells' = [cells EXCEPT ![k] = outcome]

(* execute_authorized of the journal.                                      *)
ExecuteNext(outcome) ==
  /\ NextPosition # <<>>
  /\ ExecuteAuthorized(NextPosition, outcome)
  /\ prepared' = Append(prepared, PreparedCell(NextPosition, outcome, TRUE))

(* execute of the journal asks nobody and fixes nothing.                   *)
DryEntries == {i \in 1..Len(prepared) : ~prepared[i].fixed}
ExecuteUnauthorized(outcome) ==
  /\ NextPosition # <<>> /\ NextPosition \in Keys
  /\ Cardinality(DryEntries) < MaxDry
  /\ prepared' = Append(prepared, PreparedCell(NextPosition, outcome, FALSE))
  /\ UNCHANGED <<custody, cells>>

ExecuteChosen(k, outcome) ==
  /\ ExecuteAuthorized(k, outcome)
  /\ UNCHANGED prepared

(* Custody between the executor's calls.  Outputs are fixed by it alone.   *)
CustodyStep ==
  /\ \/ \E k \in Keys :
          \/ BeginAttempt(k)
          \/ \E r \in Roots : BindExtractionRoot(k, r)
          \/ DestroyExtractionRoot(k)
          \/ \E kind \in Kinds : RevealArtifact(k, kind)
          \/ \E r \in Roots : MaterializeHiddenTests(k, r)
     \/ \E s \in Scenarios : CloseScenarioOutputs(s)
  /\ UNCHANGED <<prepared, cells>>

FrozenInit ==
  /\ CustodyInit
  /\ prepared = <<>>
  /\ cells = [k \in Keys |-> NoCell]

FrozenNext ==
  \/ CustodyStep
  \/ \E outcome \in CellOutcomes :
       \/ ExecuteNext(outcome)
       \/ ExecuteUnauthorized(outcome)
       \/ \E k \in Keys : ExecuteChosen(k, outcome)

FrozenSpec == FrozenInit /\ [][FrozenNext]_frozen

-----------------------------------------------------------------------------
(* The pre-isolation journal, the cells callers hold and custody agree: an *)
(* attempt has a cell exactly when its output is fixed; an entry made      *)
(* under custody has the outcome of its attempt's cell; no attempt is in   *)
(* the journal twice; and each is followed by its retry when it was        *)
(* invalidated, else by the next slot (execute_authorized,                 *)
(* _next_execution_position, fix_model_output).                            *)
JournalMatchesCustody ==
  /\ \A k \in Keys : cells[k] # NoCell <=> Fixed(k)
  /\ \A i \in 1..Len(prepared) :
       prepared[i].fixed => cells[prepared[i].key] = prepared[i].outcome
  /\ \A i, j \in 1..Len(prepared) : prepared[i].key = prepared[j].key => i = j
  /\ \A i \in 1..(Len(prepared) - 1) :
       LET this == prepared[i].key
           that == prepared[i + 1].key
       IN IF Invalidated(prepared[i]) THEN that = <<this[1], this[2] + 1>>
          ELSE \E n \in 1..(Len(Order) - 1) :
                 this[1] = Order[n] /\ that[1] = Order[n + 1]
=============================================================================
