---------------------------- MODULE ExecutionPlan ----------------------------
(***************************************************************************)
(* The grid an execution manifest fixes before anything runs: its slots in *)
(* execution order, each for one scenario, variant and repetition.  Custody*)
(* (evidence_custody.py), the frozen executor (v4_live_execution.py) and   *)
(* the runner journal (evidence_pipeline.py) all read it and none changes  *)
(* it.  In a headline manifest (rungs Full, R1, R2) a scenario and variant *)
(* have three slots, repetitions 1 to 3; in a Floor manifest a variant has *)
(* one.                                                                    *)
(***************************************************************************)
EXTENDS Naturals, Sequences

CONSTANTS
  Slots, Scenarios, Variants,
  ScenarioOf,    \* [Slots -> Scenarios]
  VariantOf,     \* [Slots -> Variants]
  RepetitionOf,  \* [Slots -> Nat \ {0}]
  Order          \* execution_order: every slot once; slot_index is the place

IsPlan ==
  /\ ScenarioOf \in [Slots -> Scenarios]
  /\ VariantOf \in [Slots -> Variants]
  /\ RepetitionOf \in [Slots -> Nat \ {0}]
  /\ Order \in Seq(Slots)
  /\ \A q \in Slots : \E i \in 1..Len(Order) : Order[i] = q
  /\ \A i, j \in 1..Len(Order) : Order[i] = Order[j] => i = j
  /\ \A p, q \in Slots :
       /\ ScenarioOf[p] = ScenarioOf[q] /\ VariantOf[p] = VariantOf[q]
       /\ RepetitionOf[p] = RepetitionOf[q]
       => p = q

ASSUME PlanAssumption == IsPlan
=============================================================================
