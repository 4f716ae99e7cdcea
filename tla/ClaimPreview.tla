---------------------------- MODULE ClaimPreview ----------------------------
(***************************************************************************)
(* What the retained attempts at a scenario say of it (evaluation_v4.py).  *)
(* designate_v4_claim_runs picks the runs of a cell that count, out of all *)
(* its attempts in the order they were registered; recompute_v4_aggregate_ *)
(* metrics compares the variants by the runs a report is made of, and      *)
(* refuses a report that says something else; run_v4_floor_diagnostic      *)
(* previews one diagnostic run of each variant.  All three are functions,  *)
(* none calls another, and attempts are only ever added to those they are  *)
(* given: which runs a report is made of is up to who makes it.            *)
(*                                                                         *)
(* Of the manifest only its rung and its comparison contract vary.  The    *)
(* cells of the Floor rung have diagnostic runs only; a claim is made of   *)
(* others.                                                                 *)
(***************************************************************************)
EXTENDS Naturals, Sequences, FiniteSets, SequencesExt

CONSTANTS
  Grid,             \* V4_VARIANTS, in order
  Comparators,      \* the three baselines of claim SC-005
  ClaimRuns,        \* 3 runs of a cell count
  FailureCodes,     \* technical_failure_codes of the manifest
  Plans,            \* rung and comparison contract of a manifest
  Kinds,            \* what an attempt may be like
  MaxRetained       \* attempts, a bound of the model

VARIABLES
  plan,       \* of the manifest
  retained,   \* the attempts at each variant's cell
  aggregate,  \* the answer to the last report
  floor       \* the answer to the last preview

claims == <<plan, retained, aggregate, floor>>

ClaimVariants == ToSet(Grid)
RecallPack == "recallpack"
RawHistory == "raw_full_history"

-----------------------------------------------------------------------------
(* designate_v4_claim_runs                                                 *)

Passed(run) == run.suite = "passed"

(* _validate_completed_outcome: the truth table of outcomes.               *)
Completed(run) ==
  \/ run.suite = "passed" /\ run.outcome = "success"
  \/ run.suite = "failed" /\ run.outcome = "hidden_tests_failed"

(* The sandbox failed, in a way the manifest names.                        *)
TechnicalFailure(run) ==
  run.failure \in FailureCodes /\ run.outcome = "technical_failure"

Nothing == [error |-> "none", pending |-> 0, claimed |-> <<>>, replacements |-> <<>>]
RefusedFor(code) == [Nothing EXCEPT !.error = code]

(* The last runs of a cell count.                                          *)
MutClaim(so, n) ==
  [so EXCEPT !.pending = 0,
     !.claimed = IF Len(@) < ClaimRuns THEN Append(@, n) ELSE Append(Tail(@), n)]

(* A run that counts replaces the technical failure before it; runs after  *)
(* the third are extra, and replace nothing.                               *)
Claim(so, n) ==
  IF Len(so.claimed) = ClaimRuns THEN so
  ELSE [so EXCEPT !.pending = 0, !.claimed = Append(@, n),
          !.replacements = IF so.pending = 0 THEN @ ELSE Append(@, <<so.pending, n>>)]

Designate(attempts, so, n) ==
  LET run == attempts[n] IN
  IF so.error # "none" THEN so
  ELSE IF ~run.bound THEN RefusedFor("invalid_designation")
  ELSE CASE run.designation = "invalidated_abort" -> RefusedFor("invalid_replacement")
         [] run.designation = "invalidated_technical" ->
              IF so.pending # 0 \/ ~TechnicalFailure(run)
              THEN RefusedFor("invalid_replacement") ELSE [so EXCEPT !.pending = n]
         [] run.designation = "diagnostic" -> so
         [] run.designation = "headline" /\ Completed(run) -> Claim(so, n)
         [] OTHER -> RefusedFor("invalid_designation")

Designated(attempts) ==
  LET all == FoldLeft(LAMBDA so, n : Designate(attempts, so, n), Nothing,
                      [n \in DOMAIN attempts |-> n]) IN
  IF all.error = "none" /\ (all.pending # 0 \/ Len(all.claimed) # ClaimRuns)
  THEN RefusedFor("invalid_replacement") ELSE all

ClaimsOf(v) == Designated(retained[v])
Designatable(v) == ClaimsOf(v).error = "none"

-----------------------------------------------------------------------------
(* recompute_v4_aggregate_metrics: runs of every variant, by their numbers *)

(* What a run of a report must be.                                         *)
ClaimBearing(run) == run.bound /\ run.designation = "headline" /\ Completed(run)
Reportable(v, chosen) ==
  /\ Cardinality(chosen) = ClaimRuns
  /\ \A n \in chosen : ClaimBearing(retained[v][n])

PassCount(v, chosen) == Cardinality({n \in chosen : Passed(retained[v][n])})
StrongestCount(runs) == Max({PassCount(v, runs[v]) : v \in Comparators})

Classification(runs) ==
  LET passes == PassCount(RecallPack, runs[RecallPack]) IN
  IF passes > StrongestCount(runs) THEN "strict_win"
  ELSE IF passes < StrongestCount(runs) THEN "regression" ELSE "tie_neutral"

AdverseRuns(runs) ==
  {run \in ClaimVariants \X (1..MaxRetained) :
     run[2] \in runs[run[1]] /\ ~Passed(retained[run[1]][run[2]])}
Summary(runs) == IF Classification(runs) = "strict_win" THEN 1 ELSE 0

NoAggregate ==
  [status |-> "none", runs |-> [v \in ClaimVariants |-> {}],
   classification |-> "none", numerator |-> 0]

(* A report over attempts there are is accepted with the adverse runs and  *)
(* the summary recomputed of them.                                         *)
Report(runs, adverse, numerator) ==
  /\ \A v \in ClaimVariants : runs[v] \subseteq DOMAIN retained[v]
  /\ aggregate' =
       IF /\ \A v \in ClaimVariants : Reportable(v, runs[v])
          /\ adverse = AdverseRuns(runs) /\ numerator = Summary(runs)
       THEN [status |-> "accepted", runs |-> runs,
             classification |-> Classification(runs), numerator |-> numerator]
       ELSE [NoAggregate EXCEPT !.status = "refused"]
  /\ UNCHANGED <<plan, retained, floor>>

-----------------------------------------------------------------------------
(* run_v4_floor_diagnostic                                                 *)

(* validate_v4_comparison_contract: every variant but the raw history has  *)
(* the same budget, and the same inputs, five that the catalog has intact. *)
Comparable(c) ==
  /\ c.budget = 512 /\ c.tokenizer = "o200k_base" /\ c.hidden = "after_model_output_fixed"
  /\ c.comparable = ClaimVariants \ {RawHistory} /\ c.eligible = Comparators
  /\ IsInjective(c.inputs) /\ \A i \in DOMAIN c.inputs : c.inputs[i] # "tampered"

NoPreview == [status |-> "none", numerator |-> 0, ran |-> {}]

Preview(outputs) ==
  /\ floor' =
       IF /\ Comparable(plan.contract) /\ plan.rung = "Floor"
          /\ DOMAIN outputs = ClaimVariants
          /\ \A v \in DOMAIN outputs : v # RawHistory => outputs[v].tokens <= 512
       THEN [status |-> "preview", ran |-> DOMAIN outputs,
             numerator |-> Cardinality({v \in DOMAIN outputs : outputs[v].passed})]
       ELSE [NoPreview EXCEPT !.status = "refused"]
  /\ UNCHANGED <<plan, retained, aggregate>>

-----------------------------------------------------------------------------
(* Attempts in the order of their registration.                            *)
RetainedAttempts == {run \in ClaimVariants \X (1..MaxRetained) : run[2] <= Len(retained[run[1]])}
RetainedCount == Cardinality(RetainedAttempts)
Retain(v, run) ==
  /\ plan.rung # "Floor" /\ RetainedCount < MaxRetained
  /\ retained' = [retained EXCEPT ![v] = Append(@, run)]
  /\ UNCHANGED <<plan, aggregate, floor>>

ClaimInit ==
  /\ plan \in Plans
  /\ retained = [v \in ClaimVariants |-> <<>>]
  /\ aggregate = NoAggregate /\ floor = NoPreview

(* A bound of the model: a report has as many runs of each cell as count,  *)
(* or none at all, and says what is adverse or that nothing is.            *)
RunChoices(v) == {chosen \in SUBSET DOMAIN retained[v] : Cardinality(chosen) = ClaimRuns}
ReportChoices ==
  {[v \in ClaimVariants |-> {}]} \cup
  {runs \in [ClaimVariants -> UNION {RunChoices(v) : v \in ClaimVariants}] :
     \A v \in ClaimVariants : runs[v] \in RunChoices(v)}

Outputs == [passed : BOOLEAN, tokens : {512, 513}]

ClaimNext ==
  \/ \E v \in ClaimVariants, run \in Kinds : Retain(v, run)
  \/ /\ aggregate = NoAggregate    \* a report does not read the last one
     /\ \E runs \in ReportChoices :
          \E adverse \in {AdverseRuns(runs), {}}, numerator \in {0, 1} :
            Report(runs, adverse, numerator)
  \/ /\ RetainedCount = 0    \* a preview does not read them
     /\ \E ran \in {ClaimVariants, Comparators} : \E outputs \in [ran -> Outputs] : Preview(outputs)

-----------------------------------------------------------------------------
(* The first runs of a cell that are no technical failures.                *)
FirstRuns(attempts) ==
  LET headline == {n \in DOMAIN attempts : attempts[n].designation = "headline"} IN
  {n \in headline : Cardinality({m \in headline : m <= n}) <= ClaimRuns}
FirstPasses(v) == Cardinality({n \in FirstRuns(retained[v]) : Passed(retained[v][n])})

(* A report of the designated runs.                                        *)
DesignatedRuns(v) == ToSet(ClaimsOf(v).claimed)
OverDesignated(report) ==
  /\ report.status = "accepted"
  /\ \A v \in ClaimVariants : Designatable(v) /\ report.runs[v] = DesignatedRuns(v)

(* Whatever is designated may be reported; and a report of it says there   *)
(* is a win exactly if recallpack did better in its first runs than each   *)
(* of the comparators in theirs.                                           *)
ReportsAreBacked ==
  /\ \A v \in ClaimVariants : Designatable(v) => Reportable(v, DesignatedRuns(v))
  /\ OverDesignated(aggregate) =>
       (aggregate.classification = "strict_win" <=>
          \A c \in Comparators : FirstPasses(RecallPack) > FirstPasses(c))

(* What counts cannot be bettered by trying again.  Once the runs of a     *)
(* cell are designated, another run of it changes nothing: only an abort,  *)
(* a technical failure or a record that is not what it says takes the      *)
(* designation away, and none gives the cell other runs.  A report of the  *)
(* designated runs is backed, whatever is tried later                      *)
(* (designate_v4_claim_runs, recompute_v4_aggregate_metrics).  The         *)
(* recomputation accepts a report of any other headline runs as well; of   *)
(* such a report nothing is said.                                          *)
VerdictsStand ==
  /\ [][\A v \in ClaimVariants : retained'[v] # retained[v] /\ Designatable(v) =>
          \/ Designatable(v)' /\ ClaimsOf(v)'.claimed = ClaimsOf(v).claimed
          \/ ~Designatable(v)' /\ ~ClaimBearing(Last(retained'[v]))]_claims
  /\ []ReportsAreBacked
=============================================================================
