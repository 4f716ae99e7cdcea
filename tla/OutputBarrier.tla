---------------------------- MODULE OutputBarrier ----------------------------
(***************************************************************************)
(* What reveal custody promises a scorer, without phases, roots or kinds:  *)
(* each attempt has at most one output, for good, and once the labels of a *)
(* scenario are out, every slot of it has an output and no attempt of it   *)
(* will ever have another.                                                 *)
(***************************************************************************)
CONSTANTS Slots, Scenarios, ScenarioOf, Keys, Outputs, NoOutput

VARIABLES
  output,    \* [Keys -> Outputs or NoOutput]
  labelled   \* the scenarios whose labels somebody has seen

Answered(q) == \E k \in Keys : k[1] = q /\ output[k] # NoOutput

Produce(k, o) ==
  /\ output[k] = NoOutput
  /\ ScenarioOf[k[1]] \notin labelled
  /\ output' = [output EXCEPT ![k] = o]
  /\ UNCHANGED labelled

Unseal(s) ==
  /\ \A q \in Slots : ScenarioOf[q] = s => Answered(q)
  /\ labelled' = labelled \cup {s}
  /\ UNCHANGED output

Init == output = [k \in Keys |-> NoOutput] /\ labelled = {}

Next ==
  \/ \E k \in Keys, o \in Outputs : Produce(k, o)
  \/ \E s \in Scenarios : Unseal(s)

Spec == Init /\ [][Next]_<<output, labelled>>
=============================================================================
