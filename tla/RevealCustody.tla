--------------------------- MODULE RevealCustody ---------------------------
(***************************************************************************)
(* RevealAuthority (evidence_custody.py): who may see what of a scenario's *)
(* sealed artifacts, and when.  An attempt of a slot is begun, shown its   *)
(* inputs, produces one immutable output, may then be given the hidden     *)
(* tests, and, once every output of its scenario is fixed and the scenario *)
(* is closed, the labels.  Everything is kept per attempt; only the        *)
(* closing of a scenario and the roots hidden tests are extracted to are   *)
(* shared.  The object has no lock: one thread calls it, in any order.     *)
(*                                                                         *)
(* A payload stands for its bytes: an artifact the attestation names has   *)
(* one digest, so a caller either presents those bytes or is refused.      *)
(***************************************************************************)
EXTENDS ExecutionPlan, FiniteSets

CONSTANTS
  Blind,       \* the scenarios of the evidence class blind_holdout
  Outputs,     \* pairs of an output's and a patch's SHA-256
  Roots,       \* directories hidden tests may be extracted to
  LastAttempt, \* begin_attempt takes 1 to 3; fewer is a bound of the model
  MaxBegun,    \* attempts ever begun, a bound of the model
  NoOutput, NoRoot, NoAttempt

ASSUME CustodyAssumption ==
  /\ Blind \subseteq Scenarios
  /\ NoOutput \notin Outputs
  /\ NoRoot \notin Roots
  /\ LastAttempt \in 1..3
  /\ MaxBegun \in Nat

VARIABLES
  attempts,    \* _attempts and _extraction_root of each
  closed,      \* _closed_scenarios
  owners,      \* _extraction_root_owners
  retired,     \* _retired_extraction_roots
  onDisk       \* the roots with hidden-test files in them

custody == <<attempts, closed, owners, retired, onDisk>>

AttemptNos == 1..LastAttempt
Keys == Slots \X AttemptNos

(* The attested kinds by the phase of their reveal; the two label ledgers  *)
(* (required memories, relations) have one rule and are one kind here.     *)
PreRun         == {"leakage_review"}
BeforeScenario == {"fixture", "source_ledger", "model_visible_snapshot"}
AfterOutput    == {"hidden_test_bundle"}
Labels         == {"label_ledger"}
Kinds          == PreRun \cup BeforeScenario \cup AfterOutput \cup Labels

Attested(s) == IF s \in Blind THEN Kinds ELSE PreRun \cup Labels

AttemptStates ==
  [output : Outputs \cup {NoOutput}, root : Roots \cup {NoRoot},
   destroyed : BOOLEAN, revealed : SUBSET Kinds]

FreshAttempt ==
  [output |-> NoOutput, root |-> NoRoot, destroyed |-> FALSE, revealed |-> {}]

ASSUME SentinelAssumption == NoAttempt \notin AttemptStates /\ NoAttempt \notin Keys

Scenario(k) == ScenarioOf[k[1]]
Begun(k)    == attempts[k] # NoAttempt
Fixed(k)    == Begun(k) /\ attempts[k].output # NoOutput
Saw(k, kind) == Begun(k) /\ kind \in attempts[k].revealed

RequiredReveals(s) == PreRun \cup (IF s \in Blind THEN BeforeScenario ELSE {})
Prepared(k) == Begun(k) /\ RequiredReveals(Scenario(k)) \subseteq attempts[k].revealed

Live(k) == Begun(k) /\ attempts[k].root # NoRoot /\ ~attempts[k].destroyed

-----------------------------------------------------------------------------
BeginAttempt(k) ==
  /\ k \in Keys
  /\ Scenario(k) \notin closed
  /\ ~Begun(k)
  /\ Cardinality({j \in Keys : Begun(j)}) < MaxBegun
  /\ attempts' = [attempts EXCEPT ![k] = FreshAttempt]
  /\ UNCHANGED <<closed, owners, retired, onDisk>>

FixModelOutput(k, o) ==
  /\ Prepared(k)
  /\ attempts[k].output \in {NoOutput, o}
  /\ attempts' = [attempts EXCEPT ![k].output = o]
  /\ UNCHANGED <<closed, owners, retired, onDisk>>

AttemptsIn(s) == {k \in Keys : Begun(k) /\ Scenario(k) = s}
SlotsIn(s)    == {q \in Slots : ScenarioOf[q] = s}

(* Slots nobody has begun are forgotten.                                   *)
MutClosable(s) == \A k \in AttemptsIn(s) : Fixed(k)

Closable(s) ==
  /\ {k[1] : k \in {j \in AttemptsIn(s) : Fixed(j)}} = SlotsIn(s)
  /\ \A k \in AttemptsIn(s) : Fixed(k)

CloseScenarioOutputs(s) ==
  /\ Closable(s)
  /\ closed' = closed \cup {s}
  /\ UNCHANGED <<attempts, owners, retired, onDisk>>

(* A root of another attempt.                                              *)
MutMayBind(k, r) ==
  /\ Begun(k)
  /\ r \notin retired /\ ~attempts[k].destroyed
  /\ attempts[k].root \in {NoRoot, r}

MayBind(k, r) ==
  /\ Begun(k)
  /\ r \notin retired /\ ~attempts[k].destroyed
  /\ owners[r] \in {NoAttempt, k}
  /\ attempts[k].root \in {NoRoot, r}

BindExtractionRoot(k, r) ==
  /\ MayBind(k, r)
  /\ attempts' = [attempts EXCEPT ![k].root = r]
  /\ owners' = [owners EXCEPT ![r] = k]
  /\ UNCHANGED <<closed, retired, onDisk>>

(* The caller removes the directory and then reports it destroyed. *)
DestroyExtractionRoot(k) ==
  /\ Begun(k) /\ attempts[k].root # NoRoot
  /\ attempts' = [attempts EXCEPT ![k].destroyed = TRUE]
  /\ retired' = retired \cup {attempts[k].root}
  /\ onDisk' = onDisk \ {attempts[k].root}
  /\ UNCHANGED <<closed, owners>>

(* Hidden tests before the output is fixed.                                *)
MutRevealAllowed(k, kind) ==
  /\ Begun(k)
  /\ kind \in Attested(Scenario(k))
  /\ kind \in Labels => Scenario(k) \in closed

RevealAllowed(k, kind) ==
  /\ Begun(k)
  /\ kind \in Attested(Scenario(k))
  /\ kind \in PreRun => attempts[k].revealed = {} /\ ~Fixed(k)
  /\ kind \in BeforeScenario => Saw(k, "leakage_review") /\ ~Fixed(k)
  /\ kind \in AfterOutput => Fixed(k)
  /\ kind \in Labels => Scenario(k) \in closed

(* A snapshot and a label ledger are read against the source ledger, which *)
(* is in the catalog for a public scenario and sealed for a blind one.     *)
SourceLedgerAt(k) == Scenario(k) \notin Blind \/ Saw(k, "source_ledger")
Readable(k, kind) ==
  kind \in Labels \cup {"model_visible_snapshot"} => SourceLedgerAt(k)

RevealArtifact(k, kind) ==
  /\ RevealAllowed(k, kind)
  /\ Readable(k, kind)
  /\ attempts' = [attempts EXCEPT ![k].revealed = @ \cup {kind}]
  /\ UNCHANGED <<closed, owners, retired, onDisk>>

(* The root is bound before the payload is read.  A payload that is        *)
(* refused leaves the root bound and nothing revealed; from then on the    *)
(* reveal stands, whether the files are written, or a write fails and its  *)
(* rollback removes everything, or does not.                               *)
MaterializeHiddenTests(k, r) ==
  /\ RevealAllowed(k, "hidden_test_bundle")
  /\ MayBind(k, r)
  /\ owners' = [owners EXCEPT ![r] = k]
  /\ \/ /\ attempts' = [attempts EXCEPT ![k].root = r]
        /\ UNCHANGED onDisk
     \/ /\ attempts' = [attempts EXCEPT ![k].root = r,
                                        ![k].revealed = @ \cup AfterOutput]
        /\ onDisk' \in {onDisk, onDisk \cup {r}}
  /\ UNCHANGED <<closed, retired>>

(* authorize_provider_action: the executor passes no extraction root. *)
ProviderMayAct(k) ==
  /\ Prepared(k)
  /\ ~Fixed(k)
  /\ Scenario(k) \notin closed
  /\ \A j \in Keys : ~Live(j)

-----------------------------------------------------------------------------
CustodyInit ==
  /\ attempts = [k \in Keys |-> NoAttempt]
  /\ closed = {}
  /\ owners = [r \in Roots |-> NoAttempt]
  /\ retired = {}
  /\ onDisk = {}

CustodyNext ==
  \/ \E k \in Keys :
       \/ BeginAttempt(k)
       \/ \E o \in Outputs : FixModelOutput(k, o)
       \/ \E r \in Roots : BindExtractionRoot(k, r)
       \/ DestroyExtractionRoot(k)
       \/ \E kind \in Kinds : RevealArtifact(k, kind)
       \/ \E r \in Roots : MaterializeHiddenTests(k, r)
  \/ \E s \in Scenarios : CloseScenarioOutputs(s)

CustodySpec == CustodyInit /\ [][CustodyNext]_custody

-----------------------------------------------------------------------------
(* The state keeps its types. *)
CustodyTypeOK ==
  /\ attempts \in [Keys -> AttemptStates \cup {NoAttempt}]
  /\ closed \subseteq Scenarios
  /\ owners \in [Roots -> Keys \cup {NoAttempt}]
  /\ retired \subseteq Roots
  /\ onDisk \subseteq Roots

(* The scenario barrier (close_scenario_outputs, post_outputs_fixed): when *)
(* anybody has seen a label of a scenario, every slot of the scenario has  *)
(* an immutable output, and no attempt of it is left that has none.        *)
LabelsAfterAllOutputs ==
  \A s \in Scenarios :
    (\E k \in Keys : Scenario(k) = s /\ \E label \in Labels : Saw(k, label))
      => Closable(s)

(* Hidden tests and the provider (bind_extraction_root before the payload  *)
(* is read, authorize_provider_action): whenever the authority would let a *)
(* provider work for an attempt, that attempt has seen no hidden test, no  *)
(* attempt of its scenario has seen a label, no hidden-test file is on     *)
(* disk for any attempt, and all it must be shown before has been.         *)
ProvidersWorkBlind ==
  \A k \in Keys : ProviderMayAct(k) =>
    /\ ~Saw(k, "hidden_test_bundle")
    /\ \A j \in Keys, label \in Labels :
         Scenario(j) = Scenario(k) => ~Saw(j, label)
    /\ onDisk = {}
    /\ RequiredReveals(Scenario(k)) \subseteq attempts[k].revealed

(* An extraction root serves one attempt: owners and attempts agree, a     *)
(* destroyed root stays retired, and files are only found in roots whose   *)
(* attempt is still accountable for them (bind and destroy).               *)
RootsServeOneAttempt ==
  /\ \A k \in Keys, r \in Roots :
       owners[r] = k <=> Begun(k) /\ attempts[k].root = r
  /\ \A r \in Roots :
       r \in retired <=> \E k \in Keys :
                           /\ Begun(k) /\ attempts[k].root = r
                           /\ attempts[k].destroyed
  /\ \A r \in onDisk : \E k \in Keys : Live(k) /\ attempts[k].root = r /\ Fixed(k)

(* Reveal custody keeps the output barrier. *)
Barrier == INSTANCE OutputBarrier WITH
  output   <- [k \in Keys |-> IF Begun(k) THEN attempts[k].output ELSE NoOutput],
  labelled <- {s \in Scenarios :
                 \E k \in Keys : Scenario(k) = s /\ \E label \in Labels : Saw(k, label)}

(* The authority's state machine implements the barrier: outputs, closing  *)
(* and label reveals of all attempts together.                             *)
KeepsBarrier == Barrier!Spec
=============================================================================
