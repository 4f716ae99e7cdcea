--------------------------- MODULE MCEvidenceChain ---------------------------
(***************************************************************************)
(* A headline plan of three cells: one of a blind scenario, and            *)
(* repetitions 1 and 2 of a variant of a public one.  A Floor plan of two  *)
(* variants of one scenario.  Two manifests of one seed and one of a burnt *)
(* seed.                                                                   *)
(***************************************************************************)
EXTENDS EvidenceChain

MCSlots == {"a", "b", "c"}
MCScenarioOf == [q \in MCSlots |-> IF q = "a" THEN "blind" ELSE "public"]
MCVariantOf == [q \in MCSlots |-> "variant"]
MCRepetitionOf == [q \in MCSlots |-> IF q = "c" THEN 2 ELSE 1]
MCOrder == <<"a", "b", "c">>

MCFloorSlots == {"d", "e"}
MCFloorScenarioOf == [q \in MCFloorSlots |-> "floor"]
MCFloorVariantOf == [q \in MCFloorSlots |-> IF q = "d" THEN "raw" ELSE "recall"]
MCFloorRepetitionOf == [q \in MCFloorSlots |-> 1]
MCFloorOrder == <<"d", "e">>

MCSeedOf == [m \in {"ours", "rival", "late"} |->
               IF m = "late" THEN "burnt" ELSE "seed"]
=============================================================================
