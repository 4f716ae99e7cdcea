----------------------------- MODULE Evaluation -----------------------------
(***************************************************************************)
(* The three ways the variants of a scenario are compared: live, in a      *)
(* frozen cell (FrozenCell); deterministically, over a scenario packet     *)
(* (DiagnosticVariants); and in a preview of what retained attempts say    *)
(* (ClaimPreview).  No state of one is used by another, but the rules of   *)
(* observe and of a patch are the same in the first two; a behaviour is of *)
(* one of them, and leaves the other two as they were.                     *)
(***************************************************************************)
EXTENDS FrozenCell

CONSTANTS
  Packets, PolicyOf, Says, Contracts,
  Grid, Comparators, ClaimRuns, FailureCodes, Plans, Kinds, MaxRetained

VARIABLES
  route,
  packet, phase, near, hearing, resolved, stored, chosen, patched,
  plan, retained, aggregate, floor

Diagnostic == INSTANCE DiagnosticVariants
Claims == INSTANCE ClaimPreview

(* recallpack and its baselines are variants of the grid.                  *)
ASSUME GridAssumption ==
  /\ ClaimRuns \in Nat
  /\ Claims!RecallPack \in Claims!ClaimVariants
  /\ Comparators \subseteq Claims!ClaimVariants /\ Comparators # {}

(* No packet has more events than a decision is shown memories; whatever   *)
(* is said of its component is remembered of a component the runtime knows *)
(* (_run_recallpack_runtime), of no policy that has one of its own         *)
(* (_ScenarioLifecycleDecider, _subject_component_mismatch); and a text is *)
(* equivalent to itself (_meaning_equivalent).                             *)
ASSUME PacketAssumption ==
  /\ \A p \in Packets :
       /\ IsList(p.events) /\ Len(p.events) <= CandidateLimit + 1
       /\ \A i \in DOMAIN p.events : p.events[i].text \in DOMAIN PolicyOf
       /\ p.fixture.component \in Components
  /\ \A text \in DOMAIN PolicyOf :
       PolicyOf[text] \notin DOMAIN SubjectComponent /\ Equivalent(text, text)

diagnosis == <<packet, phase, near, hearing, resolved, stored, chosen, patched>>
preview == <<plan, retained, aggregate, floor>>
evaluated == <<route, cell, diagnosis, preview>>

Init ==
  /\ route \in {"live", "diagnostic", "claims"}
  /\ route # "live" => input = CHOOSE i \in Inputs : TRUE
  /\ route # "diagnostic" => packet = CHOOSE p \in Packets : TRUE
  /\ route # "claims" => plan = CHOOSE p \in Plans : TRUE
  /\ CellInit /\ Diagnostic!DiagnosticInit /\ Claims!ClaimInit

Live ==
  route = "live" /\ CellNext /\ UNCHANGED <<route, diagnosis, preview>>
Diagnosing ==
  route = "diagnostic" /\ Diagnostic!DiagnosticNext /\ UNCHANGED <<route, cell, preview>>
Claiming ==
  route = "claims" /\ Claims!ClaimNext /\ UNCHANGED <<route, cell, diagnosis>>

Next == Live \/ Diagnosing \/ Claiming

Spec == Init /\ [][Next]_evaluated

-----------------------------------------------------------------------------
(* See DiagnosticVariants: the resolver and the store differ by who is     *)
(* believed only (_resolve_with_ephemeral_lifecycle,                       *)
(* _run_recallpack_runtime).                                               *)
ResolversAgree == Diagnostic!ResolversAgree

(* See ClaimPreview: another attempt changes no verdict                    *)
(* (designate_v4_claim_runs, recompute_v4_aggregate_metrics).              *)
VerdictsStand == Claims!VerdictsStand
=============================================================================
