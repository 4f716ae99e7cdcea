----------------------------- MODULE ChainProofs -----------------------------
(***************************************************************************)
(* Registry, reveal authority and journals of a manifest, for any plan,    *)
(* any outputs and roots, any number of attempts and any interleaving of   *)
(* the executor with callers that name cells themselves: the pre-isolation *)
(* journal follows the plan, custody has the output of exactly the cells   *)
(* callers hold, and the runner journal gets one rejected patch of a slot. *)
(*                                                                         *)
(* Nothing the journal does looks back further than its last entry.  That  *)
(* no attempt comes twice follows from an order of the attempts that every *)
(* next position goes up in.                                               *)
(*                                                                         *)
(* On the Floor's route a round is over when its containers are, and what  *)
(* is made of the journal is whole because its slots are (FloorInv).       *)
(***************************************************************************)
EXTENDS EvidenceChain, TLAPS

-----------------------------------------------------------------------------
(* The reveal authority.  No guard of a reveal looks at the other attempts *)
(* of a scenario: that their outputs are fixed when a label is shown       *)
(* follows from the scenario being closed, and that from nobody beginning  *)
(* another attempt of a closed scenario.                                   *)

(* An output comes before the hidden tests of its attempt.                 *)
TestsAfterOutput == \A k \in Keys : Saw(k, "hidden_test_bundle") => Fixed(k)

(* A label is seen of a closed scenario only, and a closed one stays       *)
(* closable.                                                               *)
LabelsAfterClosing ==
  \A k \in Keys, label \in Labels : Saw(k, label) => Scenario(k) \in closed
ClosedIsClosable == \A s \in closed : Closable(s)

CustodyInv ==
  /\ CustodyTypeOK
  /\ TestsAfterOutput /\ LabelsAfterClosing /\ ClosedIsClosable
  /\ RootsServeOneAttempt

(* The state of an attempt that has begun.                                 *)
LEMMA BegunState ==
  ASSUME CustodyTypeOK, NEW k \in Keys
  PROVE  /\ Begun(k) => attempts[k] \in AttemptStates
         /\ Begun(k) <=> attempts[k] # NoAttempt
BY DEF CustodyTypeOK, Begun

LEMMA FreshIsState == FreshAttempt \in AttemptStates /\ FreshAttempt # NoAttempt
<1>1. {} \in SUBSET Kinds
  OBVIOUS
<1>2. FreshAttempt \in AttemptStates
  BY <1>1 DEF FreshAttempt, AttemptStates
<1> QED
  BY <1>2, SentinelAssumption

LEMMA InitHolds == CustodyInit => CustodyInv
<1> SUFFICES ASSUME CustodyInit PROVE CustodyInv
  OBVIOUS
<1> USE DEF CustodyInit
<1>1. CustodyTypeOK
  BY DEF CustodyTypeOK
<1>2. TestsAfterOutput /\ LabelsAfterClosing /\ ClosedIsClosable
  BY DEF TestsAfterOutput, LabelsAfterClosing, ClosedIsClosable, Saw, Begun
<1>3. RootsServeOneAttempt
  BY SentinelAssumption DEF RootsServeOneAttempt, Begun
<1> QED
  BY <1>1, <1>2, <1>3 DEF CustodyInv

-----------------------------------------------------------------------------
(* Types                                                                   *)

LEMMA TypesStep ==
  ASSUME CustodyTypeOK, [CustodyNext]_custody
  PROVE  CustodyTypeOK'
<1> USE DEF CustodyTypeOK
<1>1. ASSUME NEW k \in Keys, BeginAttempt(k) PROVE CustodyTypeOK'
  BY <1>1, FreshIsState DEF BeginAttempt
<1>2. ASSUME NEW k \in Keys, NEW o \in Outputs, FixModelOutput(k, o) PROVE CustodyTypeOK'
  BY <1>2, BegunState DEF FixModelOutput, Prepared, AttemptStates
<1>3. ASSUME NEW k \in Keys, NEW r \in Roots, BindExtractionRoot(k, r) PROVE CustodyTypeOK'
  BY <1>3, BegunState DEF BindExtractionRoot, MayBind, AttemptStates
<1>4. ASSUME NEW k \in Keys, DestroyExtractionRoot(k) PROVE CustodyTypeOK'
  BY <1>4, BegunState DEF DestroyExtractionRoot, AttemptStates
<1>5. ASSUME NEW k \in Keys, NEW kind \in Kinds, RevealArtifact(k, kind) PROVE CustodyTypeOK'
  BY <1>5, BegunState DEF RevealArtifact, RevealAllowed, AttemptStates
<1>6. ASSUME NEW k \in Keys, NEW r \in Roots, MaterializeHiddenTests(k, r) PROVE CustodyTypeOK'
  BY <1>6, BegunState DEF MaterializeHiddenTests, RevealAllowed, MayBind, AttemptStates, Kinds
<1>7. ASSUME NEW s \in Scenarios, CloseScenarioOutputs(s) PROVE CustodyTypeOK'
  BY <1>7 DEF CloseScenarioOutputs
<1>8. CASE UNCHANGED custody
  BY <1>8 DEF custody
<1> QED
  BY <1>1, <1>2, <1>3, <1>4, <1>5, <1>6, <1>7, <1>8 DEF CustodyNext

(* The types of custody: every attempt has a state of its own or none.     *)
THEOREM CustodyTypes == CustodySpec => []CustodyTypeOK
<1>1. CustodyInit => CustodyTypeOK
  BY InitHolds DEF CustodyInv
<1>2. CustodyTypeOK /\ [CustodyNext]_custody => CustodyTypeOK'
  BY TypesStep
<1> QED
  BY <1>1, <1>2, PTL DEF CustodySpec
-----------------------------------------------------------------------------
(* What a step does to an attempt                                          *)

(* An attempt loses nothing, begins only in a scenario that is open, is    *)
(* shown hidden tests only with its output fixed, and labels only in a     *)
(* closed scenario.                                                        *)
Progresses(k) ==
  /\ Begun(k) => Begun(k)'
  /\ Begun(k)' => Begun(k) \/ Scenario(k) \notin closed
  /\ Fixed(k) => Fixed(k)'
  /\ Saw(k, "hidden_test_bundle")' => Saw(k, "hidden_test_bundle") \/ Fixed(k)
  /\ \A label \in Labels : Saw(k, label)' => Saw(k, label) \/ Scenario(k) \in closed

(* Two changes of an attempt that has begun, by what they leave alone.     *)
LEMMA SameSight ==
  ASSUME CustodyTypeOK, NEW j \in Keys, Begun(j), NEW k \in Keys, NEW x \in AttemptStates,
         attempts' = [attempts EXCEPT ![j] = x],
         attempts[j].output # NoOutput => x.output # NoOutput,
         x.revealed = attempts[j].revealed
  PROVE  Progresses(k)
<1>1. attempts'[k] = IF k = j THEN x ELSE attempts[k]
  BY DEF CustodyTypeOK
<1>2. x # NoAttempt
  BY SentinelAssumption
<1> QED
  BY <1>1, <1>2 DEF Progresses, Begun, Fixed, Saw

LEMMA MoreSeen ==
  ASSUME CustodyTypeOK, NEW j \in Keys, Begun(j), NEW k \in Keys, NEW x \in AttemptStates,
         attempts' = [attempts EXCEPT ![j] = x],
         x.output = attempts[j].output,
         NEW kind, x.revealed = attempts[j].revealed \cup {kind},
         RevealAllowed(j, kind)
  PROVE  Progresses(k)
<1>1. attempts'[k] = IF k = j THEN x ELSE attempts[k]
  BY DEF CustodyTypeOK
<1>2. x # NoAttempt
  BY SentinelAssumption
<1>3. Begun(k) => Begun(k)'
  BY <1>1, <1>2 DEF Begun
<1>4. Begun(k)' => Begun(k)
  BY <1>1 DEF Begun
<1>5. Fixed(k) => Fixed(k)'
  BY <1>1, <1>2 DEF Fixed, Begun
<1>6. Saw(k, "hidden_test_bundle")' => Saw(k, "hidden_test_bundle") \/ Fixed(k)
  <2>1. CASE k # j
    BY <1>1, <2>1 DEF Saw, Begun
  <2>2. CASE k = j /\ kind = "hidden_test_bundle"
    BY <2>2 DEF RevealAllowed, AfterOutput
  <2>3. CASE k = j /\ kind # "hidden_test_bundle"
    BY <1>1, <2>3 DEF Saw
  <2> QED
    BY <2>1, <2>2, <2>3
<1>7. ASSUME NEW label \in Labels, Saw(k, label)'
      PROVE  Saw(k, label) \/ Scenario(k) \in closed
  <2>1. CASE k # j
    BY <1>1, <1>7, <2>1 DEF Saw, Begun
  <2>2. CASE k = j /\ kind = label
    BY <2>2 DEF RevealAllowed
  <2>3. CASE k = j /\ kind # label
    BY <1>1, <1>7, <2>3 DEF Saw
  <2> QED
    BY <2>1, <2>2, <2>3
<1> QED
  BY <1>3, <1>4, <1>5, <1>6, <1>7 DEF Progresses

LEMMA StepProgresses ==
  ASSUME CustodyTypeOK, [CustodyNext]_custody, NEW k \in Keys
  PROVE  Progresses(k)
<1>1. ASSUME NEW j \in Keys, BeginAttempt(j) PROVE Progresses(k)
  <2>1. attempts'[k] = IF k = j THEN FreshAttempt ELSE attempts[k]
    BY <1>1 DEF BeginAttempt, CustodyTypeOK
  <2>2. ~Begun(j) /\ Scenario(j) \notin closed
    BY <1>1 DEF BeginAttempt
  <2> QED
    BY <2>1, <2>2, FreshIsState DEF Progresses, Begun, Fixed, Saw, FreshAttempt
<1>2. ASSUME NEW j \in Keys, NEW o \in Outputs, FixModelOutput(j, o) PROVE Progresses(k)
  <2> DEFINE x == [attempts[j] EXCEPT !.output = o]
  <2>1. Begun(j) /\ attempts' = [attempts EXCEPT ![j] = x]
    BY <1>2 DEF FixModelOutput, Prepared
  <2>2. x \in AttemptStates /\ x.output = o /\ x.revealed = attempts[j].revealed
    BY <2>1, BegunState DEF AttemptStates
  <2> HIDE DEF x
  <2> QED
    BY <2>1, <2>2, SameSight, CustodyAssumption
<1>3. ASSUME NEW j \in Keys, NEW r \in Roots, BindExtractionRoot(j, r) PROVE Progresses(k)
  <2> DEFINE x == [attempts[j] EXCEPT !.root = r]
  <2>1. Begun(j) /\ attempts' = [attempts EXCEPT ![j] = x]
    BY <1>3 DEF BindExtractionRoot, MayBind
  <2>2. x \in AttemptStates /\ x.output = attempts[j].output /\ x.revealed = attempts[j].revealed
    BY <2>1, BegunState DEF AttemptStates
  <2> HIDE DEF x
  <2> QED
    BY <2>1, <2>2, SameSight
<1>4. ASSUME NEW j \in Keys, DestroyExtractionRoot(j) PROVE Progresses(k)
  <2> DEFINE x == [attempts[j] EXCEPT !.destroyed = TRUE]
  <2>1. Begun(j) /\ attempts' = [attempts EXCEPT ![j] = x]
    BY <1>4 DEF DestroyExtractionRoot
  <2>2. x \in AttemptStates /\ x.output = attempts[j].output /\ x.revealed = attempts[j].revealed
    BY <2>1, BegunState DEF AttemptStates
  <2> HIDE DEF x
  <2> QED
    BY <2>1, <2>2, SameSight
<1>5. ASSUME NEW j \in Keys, NEW kind \in Kinds, RevealArtifact(j, kind) PROVE Progresses(k)
  <2> DEFINE x == [attempts[j] EXCEPT !.revealed = @ \cup {kind}]
  <2>1. Begun(j) /\ RevealAllowed(j, kind) /\ attempts' = [attempts EXCEPT ![j] = x]
    BY <1>5 DEF RevealArtifact, RevealAllowed
  <2>2. /\ x \in AttemptStates /\ x.output = attempts[j].output
        /\ x.revealed = attempts[j].revealed \cup {kind}
    BY <2>1, BegunState DEF AttemptStates
  <2> HIDE DEF x
  <2> QED
    BY <2>1, <2>2, MoreSeen
<1>6. ASSUME NEW j \in Keys, NEW r \in Roots, MaterializeHiddenTests(j, r) PROVE Progresses(k)
  <2> DEFINE x == [attempts[j] EXCEPT !.root = r]
             y == [attempts[j] EXCEPT !.root = r, !.revealed = @ \cup AfterOutput]
  <2>1. Begun(j) /\ RevealAllowed(j, "hidden_test_bundle")
    BY <1>6 DEF MaterializeHiddenTests, RevealAllowed
  <2>2. /\ x \in AttemptStates /\ x.output = attempts[j].output
        /\ x.revealed = attempts[j].revealed
    BY <2>1, BegunState DEF AttemptStates
  <2>3. /\ y \in AttemptStates /\ y.output = attempts[j].output
        /\ y.revealed = attempts[j].revealed \cup {"hidden_test_bundle"}
    BY <2>1, BegunState DEF AttemptStates, AfterOutput, Kinds
  <2>4. attempts' = [attempts EXCEPT ![j] = x] \/ attempts' = [attempts EXCEPT ![j] = y]
    BY <1>6, <2>1, BegunState DEF MaterializeHiddenTests, AttemptStates, CustodyTypeOK
  <2> HIDE DEF x, y
  <2> QED
    BY <2>1, <2>2, <2>3, <2>4, SameSight, MoreSeen
<1>7. ASSUME NEW s \in Scenarios, CloseScenarioOutputs(s) PROVE Progresses(k)
  BY <1>7 DEF CloseScenarioOutputs, Progresses, Begun, Fixed, Saw
<1>8. CASE UNCHANGED custody
  BY <1>8 DEF custody, Progresses, Begun, Fixed, Saw
<1> QED
  BY <1>1, <1>2, <1>3, <1>4, <1>5, <1>6, <1>7, <1>8 DEF CustodyNext
-----------------------------------------------------------------------------
(* The barrier                                                             *)

(* A closed scenario gains no attempt and loses no output.                 *)
LEMMA ClosableStays ==
  ASSUME CustodyTypeOK, [CustodyNext]_custody, NEW s \in closed, Closable(s)
  PROVE  Closable(s)'
<1>1. \A k \in Keys : Progresses(k)
  BY StepProgresses
<1>2. AttemptsIn(s)' = AttemptsIn(s)
  BY <1>1 DEF AttemptsIn, Progresses, Scenario
<1>3. \A k \in AttemptsIn(s) : Fixed(k)
  BY DEF Closable
<1>4. \A k \in AttemptsIn(s) : Fixed(k)'
  BY <1>1, <1>3 DEF Progresses, AttemptsIn
<1>5. {k \in AttemptsIn(s) : Fixed(k)} = AttemptsIn(s)
  BY <1>3
<1>6. {k \in AttemptsIn(s) : Fixed(k)}' = AttemptsIn(s)
  BY <1>2, <1>4
<1>7. {k[1] : k \in AttemptsIn(s)} = SlotsIn(s)
  BY <1>5 DEF Closable
<1> QED
  BY <1>2, <1>4, <1>6, <1>7 DEF Closable, SlotsIn

(* A scenario is closed when it is closable, and never opened.             *)
LEMMA ClosedStep ==
  ASSUME [CustodyNext]_custody
  PROVE  /\ closed \subseteq closed'
         /\ \A s \in closed' : s \in closed \/ (Closable(s) /\ UNCHANGED attempts)
BY DEF CustodyNext, custody, BeginAttempt, FixModelOutput, BindExtractionRoot,
       DestroyExtractionRoot, RevealArtifact, MaterializeHiddenTests, CloseScenarioOutputs

LEMMA BarrierStep ==
  ASSUME CustodyTypeOK, TestsAfterOutput, LabelsAfterClosing, ClosedIsClosable,
         [CustodyNext]_custody
  PROVE  TestsAfterOutput' /\ LabelsAfterClosing' /\ ClosedIsClosable'
<1>1. \A k \in Keys : Progresses(k)
  BY StepProgresses
<1>2. TestsAfterOutput'
  BY <1>1 DEF TestsAfterOutput, Progresses
<1>3. LabelsAfterClosing'
  BY <1>1, ClosedStep DEF LabelsAfterClosing, Progresses, Scenario
<1>4. ASSUME NEW s \in closed' PROVE Closable(s)'
  <2>1. CASE s \in closed
    BY <2>1, ClosableStays DEF ClosedIsClosable
  <2>2. CASE Closable(s) /\ UNCHANGED attempts
    BY <2>2 DEF Closable, AttemptsIn, SlotsIn, Fixed, Begun, Scenario
  <2> QED
    BY <2>1, <2>2, <1>4, ClosedStep
<1>5. ClosedIsClosable'
  BY <1>4 DEF ClosedIsClosable
<1> QED
  BY <1>2, <1>3, <1>5

-----------------------------------------------------------------------------
(* Extraction roots                                                        *)

(* RootsServeOneAttempt, part by part.                                     *)
OwnersAgree ==
  \A k \in Keys, r \in Roots : owners[r] = k <=> Begun(k) /\ attempts[k].root = r
Destroyed(r) == \E k \in Keys : Begun(k) /\ attempts[k].root = r /\ attempts[k].destroyed
RetiredAgree == \A r \in Roots : r \in retired <=> Destroyed(r)
Accounted(r) == \E k \in Keys : Live(k) /\ attempts[k].root = r /\ Fixed(k)
FilesAccounted == \A r \in onDisk : Accounted(r)

LEMMA RootParts == RootsServeOneAttempt <=> OwnersAgree /\ RetiredAgree /\ FilesAccounted
BY DEF RootsServeOneAttempt, OwnersAgree, RetiredAgree, FilesAccounted, Destroyed, Accounted

(* A step that leaves the roots of attempts and what was destroyed alone.  *)
LEMMA RootsAlone ==
  ASSUME CustodyTypeOK, RootsServeOneAttempt,
         \A k \in Keys : /\ Begun(k) => /\ Begun(k)' /\ attempts'[k].root = attempts[k].root
                                         /\ attempts'[k].destroyed = attempts[k].destroyed
                         /\ Begun(k)' /\ ~Begun(k) => attempts'[k].root = NoRoot
                         /\ Fixed(k) => Fixed(k)',
         UNCHANGED <<owners, retired, onDisk>>
  PROVE  RootsServeOneAttempt'
<1>1. OwnersAgree /\ RetiredAgree /\ FilesAccounted
  BY RootParts
<1>2. OwnersAgree'
  BY <1>1, CustodyAssumption DEF OwnersAgree
<1>3. \A r \in Roots : Destroyed(r) <=> Destroyed(r)'
  BY CustodyAssumption DEF Destroyed
<1>4. RetiredAgree'
  BY <1>1, <1>3 DEF RetiredAgree
<1>5. \A r : Accounted(r) => Accounted(r)'
  BY DEF Accounted, Live
<1>6. FilesAccounted'
  BY <1>1, <1>5 DEF FilesAccounted
<1> QED
  BY <1>2, <1>4, <1>6 DEF RootsServeOneAttempt, OwnersAgree, RetiredAgree, FilesAccounted,
                         Destroyed, Accounted

(* A root is bound to an attempt, with or without files in it.             *)
LEMMA RootBound ==
  ASSUME CustodyTypeOK, RootsServeOneAttempt, NEW j \in Keys, NEW r \in Roots, MayBind(j, r),
         NEW x \in AttemptStates, attempts' = [attempts EXCEPT ![j] = x],
         x.root = r, x.destroyed = attempts[j].destroyed, x.output = attempts[j].output,
         owners' = [owners EXCEPT ![r] = j], UNCHANGED retired,
         onDisk' = onDisk \/ (onDisk' = onDisk \cup {r} /\ Fixed(j))
  PROVE  RootsServeOneAttempt'
<1> USE DEF CustodyTypeOK
<1>1. OwnersAgree /\ RetiredAgree /\ FilesAccounted
  BY RootParts
<1>2. /\ Begun(j) /\ r \notin retired /\ attempts[j].destroyed = FALSE
      /\ owners[r] \in {NoAttempt, j} /\ attempts[j].root \in {NoRoot, r}
  BY BegunState DEF MayBind, AttemptStates
<1>3. /\ \A k \in Keys : attempts'[k] = IF k = j THEN x ELSE attempts[k]
      /\ \A q \in Roots : owners'[q] = IF q = r THEN j ELSE owners[q]
      /\ x # NoAttempt /\ NoRoot \notin Roots
  BY SentinelAssumption, CustodyAssumption
<1>4. \A k \in Keys : Begun(k)' <=> Begun(k)
  BY <1>2, <1>3 DEF Begun
<1>5. OwnersAgree'
  BY <1>1, <1>2, <1>3, <1>4, SentinelAssumption DEF OwnersAgree
<1>6. ASSUME NEW q \in Roots PROVE Destroyed(q)' <=> Destroyed(q)
  BY <1>2, <1>3, <1>4 DEF Destroyed
<1>7. RetiredAgree'
  BY <1>1, <1>6 DEF RetiredAgree
<1>8. ASSUME NEW q \in onDisk' PROVE Accounted(q)'
  <2>1. CASE q \in onDisk
    <3>1. PICK k \in Keys : Live(k) /\ attempts[k].root = q /\ Fixed(k)
      BY <1>1, <2>1 DEF FilesAccounted, Accounted
    <3>2. Live(k)' /\ attempts'[k].root = q /\ Fixed(k)'
      BY <1>2, <1>3, <1>4, <3>1 DEF Live, Fixed
    <3> QED
      BY <3>2 DEF Accounted
  <2>2. CASE q = r /\ Fixed(j)
    <3>1. Live(j)' /\ attempts'[j].root = q /\ Fixed(j)'
      BY <1>2, <1>3, <1>4, <2>2 DEF Live, Fixed
    <3> QED
      BY <3>1 DEF Accounted
  <2> QED
    BY <1>8, <2>1, <2>2
<1>9. FilesAccounted'
  BY <1>8 DEF FilesAccounted
<1> QED
  BY <1>5, <1>7, <1>9 DEF RootsServeOneAttempt, OwnersAgree, RetiredAgree, FilesAccounted,
                         Destroyed, Accounted

LEMMA RootDestroyed ==
  ASSUME CustodyTypeOK, RootsServeOneAttempt, NEW j \in Keys, DestroyExtractionRoot(j)
  PROVE  RootsServeOneAttempt'
<1> DEFINE x == [attempts[j] EXCEPT !.destroyed = TRUE]
           r == attempts[j].root
<1>1. OwnersAgree /\ RetiredAgree /\ FilesAccounted
  BY RootParts
<1>2. /\ Begun(j) /\ r \in Roots /\ UNCHANGED owners
      /\ retired' = retired \cup {r} /\ onDisk' = onDisk \ {r}
      /\ x \in AttemptStates /\ x.root = r /\ x.destroyed = TRUE
      /\ attempts' = [attempts EXCEPT ![j] = x]
  BY BegunState DEF DestroyExtractionRoot, AttemptStates
<1> HIDE DEF x, r
<1>3. /\ \A k \in Keys : attempts'[k] = IF k = j THEN x ELSE attempts[k]
      /\ x # NoAttempt
  BY <1>2, SentinelAssumption DEF CustodyTypeOK
<1>4. /\ \A k \in Keys : Begun(k)' <=> Begun(k)
      /\ \A k \in Keys : attempts'[k].root = attempts[k].root
  BY <1>2, <1>3 DEF Begun, r
<1>5. OwnersAgree'
  BY <1>1, <1>2, <1>4 DEF OwnersAgree
<1>6. ASSUME NEW q \in Roots PROVE Destroyed(q)' <=> Destroyed(q) \/ q = r
  <2>1. CASE q = r
    BY <1>2, <1>3, <1>4, <2>1 DEF Destroyed
  <2>2. CASE q # r
    BY <1>2, <1>3, <1>4, <2>2 DEF Destroyed, r
  <2> QED
    BY <2>1, <2>2
<1>7. RetiredAgree'
  BY <1>1, <1>2, <1>6 DEF RetiredAgree
<1>8. ASSUME NEW q \in onDisk' PROVE Accounted(q)'
  <2>1. PICK k \in Keys : Live(k) /\ attempts[k].root = q /\ Fixed(k)
    BY <1>1, <1>2, <1>8 DEF FilesAccounted, Accounted
  <2>2. k # j
    BY <1>2, <1>8, <2>1 DEF r
  <2>3. Live(k)' /\ attempts'[k].root = q /\ Fixed(k)'
    BY <1>3, <1>4, <2>1, <2>2 DEF Live, Fixed
  <2> QED
    BY <2>3 DEF Accounted
<1>9. FilesAccounted'
  BY <1>8 DEF FilesAccounted
<1> QED
  BY <1>5, <1>7, <1>9 DEF RootsServeOneAttempt, OwnersAgree, RetiredAgree, FilesAccounted,
                         Destroyed, Accounted

LEMMA RootsStep ==
  ASSUME CustodyTypeOK, RootsServeOneAttempt, TestsAfterOutput, [CustodyNext]_custody
  PROVE  RootsServeOneAttempt'
<1>0. \A k \in Keys : Progresses(k)
  BY StepProgresses
<1>1. ASSUME NEW j \in Keys, BeginAttempt(j) PROVE RootsServeOneAttempt'
  <2>1. /\ \A k \in Keys : attempts'[k] = IF k = j THEN FreshAttempt ELSE attempts[k]
        /\ ~Begun(j) /\ UNCHANGED <<owners, retired, onDisk>>
    BY <1>1 DEF BeginAttempt, CustodyTypeOK
  <2>2. \A k \in Keys :
          /\ Begun(k) => /\ Begun(k)' /\ attempts'[k].root = attempts[k].root
                         /\ attempts'[k].destroyed = attempts[k].destroyed
          /\ Begun(k)' /\ ~Begun(k) => attempts'[k].root = NoRoot
          /\ Fixed(k) => Fixed(k)'
    BY <1>0, <2>1 DEF Begun, FreshAttempt, Progresses
  <2> QED
    BY <2>1, <2>2, RootsAlone
<1>2. ASSUME NEW j \in Keys, NEW o \in Outputs, FixModelOutput(j, o) PROVE RootsServeOneAttempt'
  <2>1. /\ \A k \in Keys : attempts'[k] = IF k = j THEN [attempts[j] EXCEPT !.output = o]
                                          ELSE attempts[k]
        /\ Begun(j) /\ UNCHANGED <<owners, retired, onDisk>>
    BY <1>2 DEF FixModelOutput, Prepared, CustodyTypeOK
  <2>2. \A k \in Keys :
          /\ Begun(k) => /\ Begun(k)' /\ attempts'[k].root = attempts[k].root
                         /\ attempts'[k].destroyed = attempts[k].destroyed
          /\ Begun(k)' /\ ~Begun(k) => attempts'[k].root = NoRoot
          /\ Fixed(k) => Fixed(k)'
    BY <1>0, <2>1, BegunState DEF Begun, Progresses, AttemptStates
  <2> QED
    BY <2>1, <2>2, RootsAlone
<1>3. ASSUME NEW j \in Keys, NEW r \in Roots, BindExtractionRoot(j, r) PROVE RootsServeOneAttempt'
  <2> DEFINE x == [attempts[j] EXCEPT !.root = r]
  <2>1. /\ MayBind(j, r) /\ attempts' = [attempts EXCEPT ![j] = x]
        /\ owners' = [owners EXCEPT ![r] = j] /\ UNCHANGED <<retired, onDisk>>
    BY <1>3 DEF BindExtractionRoot
  <2>2. /\ x \in AttemptStates /\ x.root = r /\ x.destroyed = attempts[j].destroyed
        /\ x.output = attempts[j].output
    BY <2>1, BegunState DEF AttemptStates, MayBind
  <2> HIDE DEF x
  <2> QED
    BY <2>1, <2>2, RootBound
<1>4. ASSUME NEW j \in Keys, DestroyExtractionRoot(j) PROVE RootsServeOneAttempt'
  BY <1>4, RootDestroyed
<1>5. ASSUME NEW j \in Keys, NEW kind \in Kinds, RevealArtifact(j, kind) PROVE RootsServeOneAttempt'
  <2>1. /\ \A k \in Keys : attempts'[k] = IF k = j THEN [attempts[j] EXCEPT !.revealed = @ \cup {kind}]
                                          ELSE attempts[k]
        /\ Begun(j) /\ UNCHANGED <<owners, retired, onDisk>>
    BY <1>5 DEF RevealArtifact, RevealAllowed, CustodyTypeOK
  <2>2. \A k \in Keys :
          /\ Begun(k) => /\ Begun(k)' /\ attempts'[k].root = attempts[k].root
                         /\ attempts'[k].destroyed = attempts[k].destroyed
          /\ Begun(k)' /\ ~Begun(k) => attempts'[k].root = NoRoot
          /\ Fixed(k) => Fixed(k)'
    BY <1>0, <2>1, BegunState DEF Begun, Progresses, AttemptStates
  <2> QED
    BY <2>1, <2>2, RootsAlone
<1>6. ASSUME NEW j \in Keys, NEW r \in Roots, MaterializeHiddenTests(j, r)
      PROVE  RootsServeOneAttempt'
  <2> DEFINE x == [attempts[j] EXCEPT !.root = r]
             y == [attempts[j] EXCEPT !.root = r, !.revealed = @ \cup AfterOutput]
  <2>1. /\ MayBind(j, r) /\ owners' = [owners EXCEPT ![r] = j] /\ UNCHANGED retired
        /\ Begun(j) /\ Fixed(j)
    BY <1>6 DEF MaterializeHiddenTests, RevealAllowed, AfterOutput
  <2>2. /\ x \in AttemptStates /\ x.root = r /\ x.destroyed = attempts[j].destroyed
        /\ x.output = attempts[j].output
    BY <2>1, BegunState DEF AttemptStates
  <2>3. /\ y \in AttemptStates /\ y.root = r /\ y.destroyed = attempts[j].destroyed
        /\ y.output = attempts[j].output
    BY <2>1, BegunState DEF AttemptStates, AfterOutput, Kinds
  <2>4. /\ attempts' = [attempts EXCEPT ![j] = x] \/ attempts' = [attempts EXCEPT ![j] = y]
        /\ onDisk' = onDisk \/ onDisk' = onDisk \cup {r}
    BY <1>6, <2>1, BegunState DEF MaterializeHiddenTests, AttemptStates, CustodyTypeOK
  <2> HIDE DEF x, y
  <2> QED
    BY <2>1, <2>2, <2>3, <2>4, RootBound
<1>7. ASSUME NEW s \in Scenarios, CloseScenarioOutputs(s) PROVE RootsServeOneAttempt'
  BY <1>7 DEF CloseScenarioOutputs, RootsServeOneAttempt, Begun, Live, Fixed
<1>8. CASE UNCHANGED custody
  BY <1>8 DEF custody, RootsServeOneAttempt, Begun, Live, Fixed
<1> QED
  BY <1>1, <1>2, <1>3, <1>4, <1>5, <1>6, <1>7, <1>8 DEF CustodyNext

-----------------------------------------------------------------------------
(* The invariant and what follows from it                                  *)

LEMMA InvariantStep == CustodyInv /\ [CustodyNext]_custody => CustodyInv'
BY TypesStep, BarrierStep, RootsStep DEF CustodyInv

(* Types, barrier and roots are an inductive invariant of custody.         *)
THEOREM CustodyInvariant == CustodySpec => []CustodyInv
BY InitHolds, InvariantStep, PTL DEF CustodySpec

LEMMA InvLabels == CustodyInv => LabelsAfterAllOutputs
BY DEF CustodyInv, LabelsAfterAllOutputs, LabelsAfterClosing, ClosedIsClosable

LEMMA InvBlind == CustodyInv => ProvidersWorkBlind
<1> SUFFICES ASSUME CustodyInv, NEW k \in Keys, ProviderMayAct(k)
             PROVE  /\ ~Saw(k, "hidden_test_bundle")
                    /\ \A j \in Keys, label \in Labels :
                         Scenario(j) = Scenario(k) => ~Saw(j, label)
                    /\ onDisk = {}
                    /\ RequiredReveals(Scenario(k)) \subseteq attempts[k].revealed
  BY DEF ProvidersWorkBlind
<1>1. ~Saw(k, "hidden_test_bundle")
  BY DEF ProviderMayAct, CustodyInv, TestsAfterOutput
<1>2. \A j \in Keys, label \in Labels : Scenario(j) = Scenario(k) => ~Saw(j, label)
  BY DEF ProviderMayAct, CustodyInv, LabelsAfterClosing
<1>3. onDisk = {}
  BY RootParts DEF ProviderMayAct, CustodyInv, FilesAccounted, Accounted
<1> QED
  BY <1>1, <1>2, <1>3 DEF ProviderMayAct, Prepared

(* When anybody has seen a label, all outputs of its scenario are fixed    *)
(* (close_scenario_outputs).                                               *)
THEOREM LabelsTheorem == CustodySpec => []LabelsAfterAllOutputs
BY CustodyInvariant, InvLabels, PTL

(* A provider that may work has seen nothing hidden, and nothing hidden is *)
(* on disk (authorize_provider_action).                                    *)
THEOREM BlindTheorem == CustodySpec => []ProvidersWorkBlind
BY CustodyInvariant, InvBlind, PTL

(* An extraction root is of one attempt for good (bind_extraction_root,    *)
(* destroy_extraction_root).                                               *)
THEOREM RootsTheorem == CustodySpec => []RootsServeOneAttempt
<1>1. CustodyInv => RootsServeOneAttempt
  BY DEF CustodyInv
<1> QED
  BY <1>1, CustodyInvariant, PTL

-----------------------------------------------------------------------------
(* The output barrier                                                      *)

OutputOf == [k \in Keys |-> IF Begun(k) THEN attempts[k].output ELSE NoOutput]
Labelled ==
  {s \in Scenarios : \E k \in Keys : Scenario(k) = s /\ \E label \in Labels : Saw(k, label)}

(* Nothing of the barrier changes in a step that shows no label and fixes  *)
(* no output.                                                              *)
LEMMA BarrierAlone ==
  ASSUME \A k \in Keys :
           /\ (IF Begun(k) THEN attempts[k].output ELSE NoOutput)'
                = IF Begun(k) THEN attempts[k].output ELSE NoOutput
           /\ \A label \in Labels : Saw(k, label)' <=> Saw(k, label)
  PROVE  UNCHANGED <<OutputOf, Labelled>>
<1>1. OutputOf' = OutputOf
  BY DEF OutputOf
<1>2. \A s \in Scenarios : s \in Labelled' <=> s \in Labelled
  BY DEF Labelled, Scenario
<1>3. Labelled' = Labelled
  BY <1>2 DEF Labelled
<1> QED
  BY <1>1, <1>3

LEMMA FixesOutput ==
  ASSUME CustodyInv, NEW j \in Keys, NEW o \in Outputs, FixModelOutput(j, o)
  PROVE  [Barrier!Next]_<<OutputOf, Labelled>>
<1>1. /\ \A k \in Keys : attempts'[k] = IF k = j THEN [attempts[j] EXCEPT !.output = o]
                                        ELSE attempts[k]
      /\ Begun(j) /\ attempts[j].output \in {NoOutput, o} /\ attempts[j] \in AttemptStates
  BY BegunState DEF FixModelOutput, Prepared, CustodyInv, CustodyTypeOK
<1>2. attempts'[j] \in AttemptStates /\ attempts'[j].output = o
      /\ attempts'[j].revealed = attempts[j].revealed
  BY <1>1 DEF AttemptStates
<1>3. \A k \in Keys : Begun(k)' <=> Begun(k)
  BY <1>1, <1>2, SentinelAssumption DEF Begun
<1>4. \A k \in Keys : \A label \in Labels : Saw(k, label)' <=> Saw(k, label)
  BY <1>1, <1>2, <1>3 DEF Saw
<1>5. CASE attempts[j].output = o
  <2>1. \A k \in Keys : (IF Begun(k) THEN attempts[k].output ELSE NoOutput)'
                        = IF Begun(k) THEN attempts[k].output ELSE NoOutput
    BY <1>1, <1>2, <1>3, <1>5
  <2> QED
    BY <2>1, <1>4, BarrierAlone
<1>6. CASE attempts[j].output = NoOutput
  <2>1. OutputOf[j] = NoOutput
    BY <1>1, <1>6 DEF OutputOf
  <2>2. OutputOf' = [OutputOf EXCEPT ![j] = o]
    BY <1>1, <1>2, <1>3 DEF OutputOf
  <2>3. \A s \in Scenarios : s \in Labelled' <=> s \in Labelled
    BY <1>4 DEF Labelled, Scenario
  <2>4. Labelled' = Labelled
    BY <2>3 DEF Labelled
  <2>5. Scenario(j) \notin Labelled
    BY <1>1, <1>6 DEF Labelled, CustodyInv, LabelsAfterClosing, ClosedIsClosable, Closable,
                      AttemptsIn, Fixed
  <2>6. Barrier!Produce(j, o)
    BY <2>1, <2>2, <2>4, <2>5 DEF Barrier!Produce, OutputOf, Labelled, Scenario
  <2> QED
    BY <2>6 DEF Barrier!Next
<1> QED
  BY <1>1, <1>5, <1>6

LEMMA ShowsLabel ==
  ASSUME CustodyInv, NEW j \in Keys, NEW kind \in Kinds, RevealArtifact(j, kind)
  PROVE  [Barrier!Next]_<<OutputOf, Labelled>>
<1>1. /\ \A k \in Keys : attempts'[k] = IF k = j THEN [attempts[j] EXCEPT !.revealed = @ \cup {kind}]
                                        ELSE attempts[k]
      /\ Begun(j) /\ attempts[j] \in AttemptStates /\ RevealAllowed(j, kind)
  BY BegunState DEF RevealArtifact, RevealAllowed, CustodyInv, CustodyTypeOK
<1>2. attempts'[j] \in AttemptStates /\ attempts'[j].output = attempts[j].output
      /\ attempts'[j].revealed = attempts[j].revealed \cup {kind}
  BY <1>1 DEF AttemptStates
<1>3. \A k \in Keys : Begun(k)' <=> Begun(k)
  BY <1>1, <1>2, SentinelAssumption DEF Begun
<1>4. \A k \in Keys : (IF Begun(k) THEN attempts[k].output ELSE NoOutput)'
                      = IF Begun(k) THEN attempts[k].output ELSE NoOutput
  BY <1>1, <1>2, <1>3
<1>5. CASE kind \notin Labels
  <2>1. \A k \in Keys : \A label \in Labels : Saw(k, label)' <=> Saw(k, label)
    BY <1>1, <1>2, <1>3, <1>5 DEF Saw
  <2> QED
    BY <2>1, <1>4, BarrierAlone
<1>6. CASE kind \in Labels
  <2>1. OutputOf' = OutputOf
    BY <1>4 DEF OutputOf
  <2>2. Scenario(j) \in closed /\ Scenario(j) \in Scenarios
    BY <1>1, <1>6 DEF RevealAllowed, CustodyInv, CustodyTypeOK
  <2>3. \A k \in Keys, label \in Labels :
          Saw(k, label)' <=> Saw(k, label) \/ (k = j /\ label = kind)
    BY <1>1, <1>2, <1>3 DEF Saw
  <2>4. \A s \in Scenarios : s \in Labelled' <=> s \in Labelled \/ s = Scenario(j)
    BY <2>3, <1>6 DEF Labelled, Scenario
  <2>5. Labelled' = Labelled \cup {Scenario(j)}
    BY <2>2, <2>4 DEF Labelled
  <2>6. {k[1] : k \in {i \in AttemptsIn(Scenario(j)) : Fixed(i)}} = SlotsIn(Scenario(j))
    BY <2>2 DEF CustodyInv, ClosedIsClosable, Closable
  <2>7. ASSUME NEW q \in Slots, ScenarioOf[q] = Scenario(j)
        PROVE  \E k \in Keys : k[1] = q /\ OutputOf[k] # NoOutput
    <3>1. q \in SlotsIn(Scenario(j))
      BY <2>7 DEF SlotsIn
    <3>2. PICK k \in {i \in AttemptsIn(Scenario(j)) : Fixed(i)} : k[1] = q
      BY <2>6, <3>1
    <3> QED
      BY <3>2 DEF AttemptsIn, Fixed, OutputOf
  <2>8. Barrier!Unseal(Scenario(j))
    BY <2>1, <2>5, <2>7 DEF Barrier!Unseal, Barrier!Answered, OutputOf, Labelled
  <2> QED
    BY <2>2, <2>8 DEF Barrier!Next
<1> QED
  BY <1>5, <1>6

(* Roots and files are no part of the barrier, nor are the hidden tests.   *)
LEMMA OutsideBarrier ==
  ASSUME CustodyInv, NEW j \in Keys, Begun(j), NEW x \in AttemptStates,
         attempts' = [attempts EXCEPT ![j] = x], x.output = attempts[j].output,
         x.revealed = attempts[j].revealed \/ x.revealed = attempts[j].revealed \cup AfterOutput
  PROVE  UNCHANGED <<OutputOf, Labelled>>
<1>1. /\ \A k \in Keys : attempts'[k] = IF k = j THEN x ELSE attempts[k]
      /\ x # NoAttempt
  BY SentinelAssumption DEF CustodyInv, CustodyTypeOK
<1>2. \A k \in Keys : Begun(k)' <=> Begun(k)
  BY <1>1 DEF Begun
<1>3. \A k \in Keys : (IF Begun(k) THEN attempts[k].output ELSE NoOutput)'
                      = IF Begun(k) THEN attempts[k].output ELSE NoOutput
  BY <1>1, <1>2
<1>4. \A k \in Keys : \A label \in Labels : Saw(k, label)' <=> Saw(k, label)
  BY <1>1, <1>2 DEF Saw, Labels, AfterOutput
<1> QED
  BY <1>3, <1>4, BarrierAlone

LEMMA StepKeepsBarrier ==
  ASSUME CustodyInv, [CustodyNext]_custody
  PROVE  [Barrier!Next]_<<OutputOf, Labelled>>
<1> USE DEF CustodyInv
<1>1. ASSUME NEW j \in Keys, BeginAttempt(j) PROVE UNCHANGED <<OutputOf, Labelled>>
  <2>1. /\ \A k \in Keys : attempts'[k] = IF k = j THEN FreshAttempt ELSE attempts[k]
        /\ ~Begun(j)
    BY <1>1 DEF BeginAttempt, CustodyTypeOK
  <2>2. \A k \in Keys : (IF Begun(k) THEN attempts[k].output ELSE NoOutput)'
                        = IF Begun(k) THEN attempts[k].output ELSE NoOutput
    BY <2>1, FreshIsState DEF Begun, FreshAttempt
  <2>3. \A k \in Keys : \A label \in Labels : Saw(k, label)' <=> Saw(k, label)
    BY <2>1 DEF Saw, Begun, FreshAttempt
  <2> QED
    BY <2>2, <2>3, BarrierAlone
<1>2. ASSUME NEW j \in Keys, NEW r \in Roots, BindExtractionRoot(j, r)
      PROVE  UNCHANGED <<OutputOf, Labelled>>
  <2> DEFINE x == [attempts[j] EXCEPT !.root = r]
  <2>1. Begun(j) /\ attempts' = [attempts EXCEPT ![j] = x]
    BY <1>2 DEF BindExtractionRoot, MayBind
  <2>2. x \in AttemptStates /\ x.output = attempts[j].output /\ x.revealed = attempts[j].revealed
    BY <2>1, BegunState DEF AttemptStates
  <2> HIDE DEF x
  <2> QED
    BY <2>1, <2>2, OutsideBarrier
<1>3. ASSUME NEW j \in Keys, DestroyExtractionRoot(j) PROVE UNCHANGED <<OutputOf, Labelled>>
  <2> DEFINE x == [attempts[j] EXCEPT !.destroyed = TRUE]
  <2>1. Begun(j) /\ attempts' = [attempts EXCEPT ![j] = x]
    BY <1>3 DEF DestroyExtractionRoot
  <2>2. x \in AttemptStates /\ x.output = attempts[j].output /\ x.revealed = attempts[j].revealed
    BY <2>1, BegunState DEF AttemptStates
  <2> HIDE DEF x
  <2> QED
    BY <2>1, <2>2, OutsideBarrier
<1>4. ASSUME NEW j \in Keys, NEW r \in Roots, MaterializeHiddenTests(j, r)
      PROVE  UNCHANGED <<OutputOf, Labelled>>
  <2> DEFINE x == [attempts[j] EXCEPT !.root = r]
             y == [attempts[j] EXCEPT !.root = r, !.revealed = @ \cup AfterOutput]
  <2>1. Begun(j)
    BY <1>4 DEF MaterializeHiddenTests, RevealAllowed
  <2>2. x \in AttemptStates /\ x.output = attempts[j].output /\ x.revealed = attempts[j].revealed
    BY <2>1, BegunState DEF AttemptStates
  <2>3. /\ y \in AttemptStates /\ y.output = attempts[j].output
        /\ y.revealed = attempts[j].revealed \cup AfterOutput
    BY <2>1, BegunState DEF AttemptStates, AfterOutput, Kinds
  <2>4. attempts' = [attempts EXCEPT ![j] = x] \/ attempts' = [attempts EXCEPT ![j] = y]
    BY <1>4, <2>1, BegunState DEF MaterializeHiddenTests, AttemptStates, CustodyTypeOK
  <2> HIDE DEF x, y
  <2> QED
    BY <2>1, <2>2, <2>3, <2>4, OutsideBarrier
<1>5. ASSUME NEW s \in Scenarios, CloseScenarioOutputs(s) PROVE UNCHANGED <<OutputOf, Labelled>>
  BY <1>5 DEF CloseScenarioOutputs, OutputOf, Labelled, Begun, Saw, Scenario
<1>6. CASE UNCHANGED custody
  BY <1>6 DEF custody, OutputOf, Labelled, Begun, Saw, Scenario
<1> QED
  BY <1>1, <1>2, <1>3, <1>4, <1>5, <1>6, FixesOutput, ShowsLabel DEF CustodyNext

(* Reveal custody implements the output barrier (fix_model_output,         *)
(* close_scenario_outputs, the label reveals).                             *)
THEOREM BarrierTheorem == CustodySpec => KeepsBarrier
<1>1. CustodyInit => Barrier!Init
  BY DEF CustodyInit, Barrier!Init, Begun, Saw
<1>2. CustodyInv /\ [CustodyNext]_custody => [Barrier!Next]_<<OutputOf, Labelled>>
  BY StepKeepsBarrier
<1> QED
  BY <1>1, <1>2, CustodyInvariant, PTL
     DEF CustodySpec, KeepsBarrier, Barrier!Spec, OutputOf, Labelled

-----------------------------------------------------------------------------
(* The registry.  A review seed has one manifest, whatever processes race  *)
(* for it and crash.  What makes it true is not that a commit looks at the *)
(* seed, for it looked before: it is that nobody writes between the look   *)
(* and the commit, so the reader that holds the transaction still knows    *)
(* the row.                                                                *)
RegistryTypes ==
  /\ registered \in [Seeds -> Manifests \cup {NoManifest}]
  /\ writer \in Processes \cup {NoProcess}
  /\ registering \in [Processes -> [manifest : Manifests \cup {NoManifest},
                                    read : Manifests \cup {NoManifest}]]
  /\ receipts \in [Processes -> SUBSET Manifests]
  /\ authorities \in [Processes -> SUBSET Manifests]

(* The row the writer has read is the row that is there, of a seed that is *)
(* not burnt.                                                              *)
WriterKnows ==
  \A p \in Processes : writer = p =>
    /\ Wanted(p) \in Manifests
    /\ registering[p].read = registered[SeedOf[Wanted(p)]]
    /\ SeedOf[Wanted(p)] \notin BurntSeeds

(* A registered manifest is of the seed it is registered for.              *)
RowsAreTheirs ==
  \A s \in Seeds : registered[s] # NoManifest =>
    SeedOf[registered[s]] = s /\ s \notin BurntSeeds

(* What processes hold is registered.                                      *)
HeldIsRegistered ==
  \A p \in Processes : \A m \in receipts[p] \cup authorities[p] : registered[SeedOf[m]] = m

RegistryInv == RegistryTypes /\ WriterKnows /\ RowsAreTheirs /\ HeldIsRegistered

LEMMA RegistryStarts == RegistryInit => RegistryInv
BY RegistryAssumption DEF RegistryInit, RegistryInv, RegistryTypes, WriterKnows, RowsAreTheirs,
   HeldIsRegistered, Idle

(* A step that writes no row, and gives nobody anything, keeps them.       *)
LEMMA RowsStay ==
  ASSUME RegistryInv, UNCHANGED registered,
         \A p \in Processes : receipts'[p] \subseteq receipts[p] /\ authorities'[p] \subseteq authorities[p]
  PROVE  RowsAreTheirs' /\ HeldIsRegistered'
BY DEF RegistryInv, RowsAreTheirs, HeldIsRegistered

LEMMA Committed ==
  ASSUME RegistryInv, NEW p \in Processes, CommitRegistration(p)
  PROVE  RegistryInv'
<1> DEFINE m == Wanted(p)
           s == SeedOf[m]
<1> USE RegistryAssumption
<1>1. /\ m \in Manifests /\ s \in Seeds /\ s \notin BurntSeeds
      /\ registered[s] \in {NoManifest, m}
  BY DEF CommitRegistration, RegistryInv, RegistryTypes, WriterKnows, Acceptable
<1>2. registered' = [registered EXCEPT ![s] = m]
  BY DEF CommitRegistration
<1>3. RegistryTypes'
  BY <1>1 DEF CommitRegistration, RegistryInv, RegistryTypes, Idle
<1>4. WriterKnows'
  BY DEF CommitRegistration, WriterKnows
<1>5. RowsAreTheirs'
  BY <1>1, <1>2 DEF RegistryInv, RegistryTypes, RowsAreTheirs
<1>6. HeldIsRegistered'
  <2> SUFFICES ASSUME NEW q \in Processes, NEW n \in receipts'[q] \cup authorities'[q]
               PROVE  registered'[SeedOf[n]] = n
    BY DEF HeldIsRegistered
  <2>1. CASE n = m
    BY <2>1, <1>1, <1>2 DEF RegistryInv, RegistryTypes
  <2>2. CASE n # m
    <3>1. n \in receipts[q] \cup authorities[q]
      BY <2>2 DEF CommitRegistration, RegistryInv, RegistryTypes
    <3>2. n \in Manifests /\ registered[SeedOf[n]] = n
      BY <3>1 DEF RegistryInv, RegistryTypes, HeldIsRegistered
    <3> QED
      BY <3>2, <2>2, <1>1, <1>2 DEF RegistryInv, RegistryTypes
  <2> QED
    BY <2>1, <2>2
<1> QED
  BY <1>3, <1>4, <1>5, <1>6 DEF RegistryInv

LEMMA RegistryStep == RegistryInv /\ [RegistryNext]_registry => RegistryInv'
<1> SUFFICES ASSUME RegistryInv, [RegistryNext]_registry PROVE RegistryInv'
  OBVIOUS
<1> USE RegistryAssumption
<1>1. ASSUME NEW p \in Processes, NEW m \in Manifests, StartRegistration(p, m)
      PROVE  RegistryInv'
  <2>1. RegistryTypes' /\ WriterKnows'
    BY <1>1 DEF StartRegistration, RegistryInv, RegistryTypes, WriterKnows, Wanted, Idle
  <2> QED
    BY <2>1, <1>1, RowsStay DEF StartRegistration, RegistryInv
<1>2. ASSUME NEW p \in Processes, NEW m \in Manifests, OpenAuthority(p, m)
      PROVE  RegistryInv'
  BY <1>2 DEF OpenAuthority, RegistryInv, RegistryTypes, WriterKnows, RowsAreTheirs,
     HeldIsRegistered, Wanted
<1>3. ASSUME NEW p \in Processes, ReadSeed(p) PROVE RegistryInv'
  <2>1. Wanted(p) \in Manifests /\ SeedOf[Wanted(p)] \in Seeds
    BY <1>3 DEF ReadSeed, RegistryInv, RegistryTypes, Wanted
  <2>2. RegistryTypes'
    BY <2>1, <1>3 DEF ReadSeed, RegistryInv, RegistryTypes, Idle
  <2>3. WriterKnows'
    BY <2>1, <1>3 DEF ReadSeed, RegistryInv, RegistryTypes, WriterKnows, Wanted, Idle
  <2> QED
    BY <2>2, <2>3, <1>3, RowsStay DEF ReadSeed, RegistryInv
<1>4. ASSUME NEW p \in Processes, RefuseReuse(p) PROVE RegistryInv'
  <2>1. RegistryTypes' /\ WriterKnows'
    BY <1>4 DEF RefuseReuse, RegistryInv, RegistryTypes, WriterKnows, Idle
  <2> QED
    BY <2>1, <1>4, RowsStay DEF RefuseReuse, RegistryInv
<1>5. ASSUME NEW p \in Processes, CommitRegistration(p) PROVE RegistryInv'
  BY <1>5, Committed
<1>6. ASSUME NEW p \in Processes, Crash(p) PROVE RegistryInv'
  <2>1. RegistryTypes' /\ WriterKnows'
    BY <1>6 DEF Crash, RegistryInv, RegistryTypes, WriterKnows, Wanted, Idle
  <2>2. \A q \in Processes : receipts'[q] \subseteq receipts[q] /\ authorities'[q] \subseteq authorities[q]
    BY <1>6 DEF Crash, RegistryInv, RegistryTypes
  <2> QED
    BY <2>1, <2>2, <1>6, RowsStay DEF Crash, RegistryInv
<1>7. CASE UNCHANGED registry
  BY <1>7 DEF registry, RegistryInv, RegistryTypes, WriterKnows, RowsAreTheirs, HeldIsRegistered, Wanted
<1> QED
  BY <1>1, <1>2, <1>3, <1>4, <1>5, <1>6, <1>7 DEF RegistryNext

(* Rows, the transaction and what processes hold agree                     *)
(* (_record_validated_registration).                                       *)
THEOREM RegistryInvariant == RegistrySpec => []RegistryInv
BY RegistryStarts, RegistryStep, PTL DEF RegistrySpec

LEMMA InvOneManifest == RegistryInv => OneManifestPerSeed
BY RegistryAssumption DEF RegistryInv, RegistryTypes, RowsAreTheirs, HeldIsRegistered, OneManifestPerSeed

(* A seed has one manifest, which nobody's answer contradicts              *)
(* (_record_validated_registration, require_eligible_registration_41).     *)
THEOREM OneManifestTheorem == RegistrySpec => []OneManifestPerSeed
BY RegistryInvariant, InvOneManifest, PTL

(* A registered seed keeps its manifest, through crashes and whoever       *)
(* registers later (_record_validated_registration).                       *)
THEOREM KeptTheorem ==
  RegistrySpec =>
    [][\A s \in Seeds : registered[s] # NoManifest => registered'[s] = registered[s]]_registry
<1>1. ASSUME RegistryInv, RegistryNext, NEW s \in Seeds, registered[s] # NoManifest
      PROVE  registered'[s] = registered[s]
  <2>1. ASSUME NEW p \in Processes, CommitRegistration(p)
        PROVE  registered'[s] = registered[s]
    BY <1>1, <2>1, RegistryAssumption
    DEF CommitRegistration, Acceptable, RegistryInv, RegistryTypes, WriterKnows
  <2>2. CASE UNCHANGED registered
    BY <2>2
  <2> QED
    BY <1>1, <2>1, <2>2
    DEF RegistryNext, StartRegistration, OpenAuthority, ReadSeed, RefuseReuse, Crash
<1>2. RegistryInv /\ [RegistryNext]_registry =>
        [\A s \in Seeds : registered[s] # NoManifest => registered'[s] = registered[s]]_registry
  BY <1>1
<1> QED
  BY <1>2, RegistryInvariant, PTL DEF RegistrySpec

-----------------------------------------------------------------------------
(* The journals.                                                           *)
(* The plan's order of slots, and within a slot that of the attempts.      *)
Earlier(a, b) ==
  \E m, n \in 1..Len(Order) :
    Order[m] = a[1] /\ Order[n] = b[1] /\ (m < n \/ (m = n /\ a[2] < b[2]))

(* What comes after an entry: its retry, or the next slot.                 *)
Follows(entry, k) ==
  IF Invalidated(entry) THEN k = <<entry.key[1], entry.key[2] + 1>>
  ELSE \E n \in 1..(Len(Order) - 1) : entry.key[1] = Order[n] /\ k[1] = Order[n + 1]

LEMMA KeyParts ==
  ASSUME NEW k \in Keys
  PROVE  k = <<k[1], k[2]>> /\ k[1] \in Slots /\ k[2] \in Nat
         /\ \E i \in 1..Len(Order) : Order[i] = k[1]
<1>1. k \in Slots \X (1..LastAttempt)
  BY DEF Keys, AttemptNos
<1>2. k = <<k[1], k[2]>> /\ k[1] \in Slots /\ k[2] \in 1..LastAttempt
  BY <1>1
<1>3. \E i \in 1..Len(Order) : Order[i] = k[1]
  BY <1>2, PlanAssumption DEF IsPlan
<1> QED
  BY <1>2, <1>3, CustodyAssumption

LEMMA OrderPlaces ==
  /\ Len(Order) \in Nat
  /\ \A i \in 1..Len(Order) : Order[i] \in Slots
  /\ \A i, j \in 1..Len(Order) : Order[i] = Order[j] => i = j
BY PlanAssumption DEF IsPlan

LEMMA EarlierIsStrict ==
  ASSUME NEW a \in Keys, NEW b \in Keys, Earlier(a, b)
  PROVE  a # b /\ ~Earlier(b, a)
BY OrderPlaces, KeyParts DEF Earlier

LEMMA EarlierCarries ==
  ASSUME NEW a \in Keys, NEW b \in Keys, NEW c \in Keys, Earlier(a, b), Earlier(b, c)
  PROVE  Earlier(a, c)
<1>1. PICK m \in 1..Len(Order), n \in 1..Len(Order) :
        Order[m] = a[1] /\ Order[n] = b[1] /\ (m < n \/ (m = n /\ a[2] < b[2]))
  BY DEF Earlier
<1>2. PICK p \in 1..Len(Order), q \in 1..Len(Order) :
        Order[p] = b[1] /\ Order[q] = c[1] /\ (p < q \/ (p = q /\ b[2] < c[2]))
  BY DEF Earlier
<1>3. n = p
  BY <1>1, <1>2, OrderPlaces
<1>4. m < q \/ (m = q /\ a[2] < c[2])
  BY <1>1, <1>2, <1>3, KeyParts, OrderPlaces
<1> QED
  BY <1>1, <1>2, <1>4 DEF Earlier

LEMMA FollowerIsLater ==
  ASSUME NEW entry, entry.key \in Keys, NEW k \in Keys, Follows(entry, k)
  PROVE  Earlier(entry.key, k)
<1>1. CASE Invalidated(entry)
  <2>1. k[1] = entry.key[1] /\ k[2] = entry.key[2] + 1
    BY <1>1 DEF Follows
  <2>2. PICK i \in 1..Len(Order) : Order[i] = entry.key[1]
    BY KeyParts
  <2>3. entry.key[2] < k[2]
    BY <2>1, KeyParts
  <2> QED
    BY <2>1, <2>2, <2>3 DEF Earlier
<1>2. CASE ~Invalidated(entry)
  <2>1. PICK n \in 1..(Len(Order) - 1) : entry.key[1] = Order[n] /\ k[1] = Order[n + 1]
    BY <1>2 DEF Follows
  <2>2. n \in 1..Len(Order) /\ n + 1 \in 1..Len(Order) /\ n < n + 1
    BY OrderPlaces
  <2> QED
    BY <2>1, <2>2 DEF Earlier
<1> QED
  BY <1>1, <1>2

-----------------------------------------------------------------------------
(* The executor and custody                                                *)

(* The executor changes custody only by what custody's operations do.      *)
LEMMA ExecutorUsesCustody == [FrozenNext]_frozen => [CustodyNext]_custody
<1> SUFFICES ASSUME [FrozenNext]_frozen PROVE [CustodyNext]_custody
  OBVIOUS
<1>1. CASE CustodyStep
  BY <1>1 DEF CustodyStep, CustodyNext
<1>2. ASSUME NEW k, NEW outcome, ExecuteAuthorized(k, outcome) PROVE CustodyNext
  BY <1>2 DEF ExecuteAuthorized, FixOutcome, CustodyNext
<1>3. ASSUME NEW outcome, ExecuteUnauthorized(outcome) PROVE UNCHANGED custody
  BY <1>3 DEF ExecuteUnauthorized
<1>4. CASE UNCHANGED frozen
  BY <1>4 DEF frozen
<1> QED
  BY <1>1, <1>2, <1>3, <1>4 DEF FrozenNext, ExecuteNext, ExecuteChosen

LEMMA SameOutput ==
  ASSUME CustodyTypeOK, NEW j \in Keys, Begun(j), NEW x \in AttemptStates,
         attempts' = [attempts EXCEPT ![j] = x], x.output = attempts[j].output,
         NEW k \in Keys
  PROVE  Fixed(k)' <=> Fixed(k)
<1>1. attempts'[k] = IF k = j THEN x ELSE attempts[k]
  BY DEF CustodyTypeOK
<1>2. x # NoAttempt
  BY SentinelAssumption
<1> QED
  BY <1>1, <1>2 DEF Fixed, Begun

(* Between the executor's calls no output is fixed.                        *)
LEMMA OthersFixNothing ==
  ASSUME CustodyTypeOK, CustodyStep, NEW k \in Keys
  PROVE  Fixed(k)' <=> Fixed(k)
<1>1. ASSUME NEW j \in Keys, BeginAttempt(j) PROVE Fixed(k)' <=> Fixed(k)
  <2>1. attempts'[k] = IF k = j THEN FreshAttempt ELSE attempts[k]
    BY <1>1 DEF BeginAttempt, CustodyTypeOK
  <2>2. ~Begun(j)
    BY <1>1 DEF BeginAttempt
  <2> QED
    BY <2>1, <2>2 DEF Fixed, Begun, FreshAttempt
<1>2. ASSUME NEW j \in Keys, NEW r \in Roots, BindExtractionRoot(j, r)
      PROVE  Fixed(k)' <=> Fixed(k)
  <2> DEFINE x == [attempts[j] EXCEPT !.root = r]
  <2>1. Begun(j) /\ attempts' = [attempts EXCEPT ![j] = x]
    BY <1>2 DEF BindExtractionRoot, MayBind
  <2>2. x \in AttemptStates /\ x.output = attempts[j].output
    BY <2>1, BegunState DEF AttemptStates
  <2> HIDE DEF x
  <2> QED
    BY <2>1, <2>2, SameOutput
<1>3. ASSUME NEW j \in Keys, DestroyExtractionRoot(j) PROVE Fixed(k)' <=> Fixed(k)
  <2> DEFINE x == [attempts[j] EXCEPT !.destroyed = TRUE]
  <2>1. Begun(j) /\ attempts' = [attempts EXCEPT ![j] = x]
    BY <1>3 DEF DestroyExtractionRoot
  <2>2. x \in AttemptStates /\ x.output = attempts[j].output
    BY <2>1, BegunState DEF AttemptStates
  <2> HIDE DEF x
  <2> QED
    BY <2>1, <2>2, SameOutput
<1>4. ASSUME NEW j \in Keys, NEW kind \in Kinds, RevealArtifact(j, kind)
      PROVE  Fixed(k)' <=> Fixed(k)
  <2> DEFINE x == [attempts[j] EXCEPT !.revealed = @ \cup {kind}]
  <2>1. Begun(j) /\ attempts' = [attempts EXCEPT ![j] = x]
    BY <1>4 DEF RevealArtifact, RevealAllowed
  <2>2. x \in AttemptStates /\ x.output = attempts[j].output
    BY <2>1, BegunState DEF AttemptStates
  <2> HIDE DEF x
  <2> QED
    BY <2>1, <2>2, SameOutput
<1>5. ASSUME NEW j \in Keys, NEW r \in Roots, MaterializeHiddenTests(j, r)
      PROVE  Fixed(k)' <=> Fixed(k)
  <2> DEFINE x == [attempts[j] EXCEPT !.root = r]
             y == [attempts[j] EXCEPT !.root = r, !.revealed = @ \cup AfterOutput]
  <2>1. Begun(j)
    BY <1>5 DEF MaterializeHiddenTests, RevealAllowed
  <2>2. x \in AttemptStates /\ x.output = attempts[j].output
    BY <2>1, BegunState DEF AttemptStates
  <2>3. y \in AttemptStates /\ y.output = attempts[j].output
    BY <2>1, BegunState DEF AttemptStates, AfterOutput, Kinds
  <2>4. attempts' = [attempts EXCEPT ![j] = x] \/ attempts' = [attempts EXCEPT ![j] = y]
    BY <1>5, <2>1, BegunState DEF MaterializeHiddenTests, AttemptStates, CustodyTypeOK
  <2> HIDE DEF x, y
  <2> QED
    BY <2>1, <2>2, <2>3, <2>4, SameOutput
<1>6. ASSUME NEW s \in Scenarios, CloseScenarioOutputs(s) PROVE Fixed(k)' <=> Fixed(k)
  BY <1>6 DEF CloseScenarioOutputs, Fixed, Begun
<1> QED
  BY <1>1, <1>2, <1>3, <1>4, <1>5, <1>6 DEF CustodyStep

(* An authorized execution fixes one output, which was not fixed before.   *)
LEMMA ExecutionFixesOne ==
  ASSUME CustodyTypeOK, NEW j \in Keys, NEW outcome, ExecuteAuthorized(j, outcome),
         NEW k \in Keys
  PROVE  ~Fixed(j) /\ (Fixed(k)' <=> k = j \/ Fixed(k))
<1>1. PICK o \in Outputs : FixModelOutput(j, o)
  BY DEF ExecuteAuthorized, FixOutcome
<1>2. Begun(j) /\ ~Fixed(j)
  BY DEF ExecuteAuthorized, ProviderMayAct, Prepared
<1> DEFINE x == [attempts[j] EXCEPT !.output = o]
<1>3. x \in AttemptStates /\ x.output # NoOutput /\ x # NoAttempt
  BY <1>2, BegunState, CustodyAssumption, SentinelAssumption DEF AttemptStates
<1>4. attempts'[k] = IF k = j THEN x ELSE attempts[k]
  BY <1>1 DEF FixModelOutput, CustodyTypeOK
<1> HIDE DEF x
<1> QED
  BY <1>2, <1>3, <1>4 DEF Fixed, Begun
-----------------------------------------------------------------------------
(* The pre-isolation journal                                               *)

CellEntries == [key : Keys, outcome : CellOutcomes, fixed : BOOLEAN]

FrozenTypes ==
  prepared \in Seq(CellEntries) /\ cells \in [Keys -> CellOutcomes \cup {NoCell}]

CellsAreFixed == \A k \in Keys : cells[k] # NoCell <=> Fixed(k)

EntriesHaveCells ==
  \A i \in 1..Len(prepared) :
    prepared[i].fixed => cells[prepared[i].key] = prepared[i].outcome

(* The journal only goes up in the order of attempts, a step at a time.    *)
GoesUp ==
  \A i, j \in 1..Len(prepared) : i < j => Earlier(prepared[i].key, prepared[j].key)
StepByStep ==
  \A i \in 1..(Len(prepared) - 1) : Follows(prepared[i], prepared[i + 1].key)

FrozenInv ==
  /\ CustodyInv /\ FrozenTypes
  /\ CellsAreFixed /\ EntriesHaveCells
  /\ GoesUp /\ StepByStep

LEMMA FrozenStarts == FrozenInit => FrozenInv
<1> SUFFICES ASSUME FrozenInit PROVE FrozenInv
  OBVIOUS
<1>1. CustodyInv /\ \A k \in Keys : ~Fixed(k)
  BY InitHolds DEF FrozenInit, CustodyInit, Fixed, Begun
<1>2. FrozenTypes /\ CellsAreFixed
  BY <1>1 DEF FrozenInit, FrozenTypes, CellsAreFixed
<1>3. EntriesHaveCells /\ GoesUp /\ StepByStep
  BY DEF FrozenInit, EntriesHaveCells, GoesUp, StepByStep
<1> QED
  BY <1>1, <1>2, <1>3 DEF FrozenInv

LEMMA EntryTypes ==
  ASSUME FrozenTypes
  PROVE  /\ Len(prepared) \in Nat
         /\ prepared # <<>> => Len(prepared) \in 1..Len(prepared)
         /\ \A i \in 1..Len(prepared) :
              prepared[i] \in CellEntries /\ prepared[i].key \in Keys
<1>1. prepared \in Seq(CellEntries)
  BY DEF FrozenTypes
<1>2. \A i \in 1..Len(prepared) : prepared[i] \in CellEntries
  BY <1>1
<1>3. \A e \in CellEntries : e.key \in Keys
  BY DEF CellEntries
<1> QED
  BY <1>1, <1>2, <1>3

(* The next position follows the last entry.                               *)
LEMMA NextFollows ==
  ASSUME FrozenTypes, prepared # <<>>, NextPosition \in Keys
  PROVE  Follows(prepared[Len(prepared)], NextPosition)
<1> DEFINE last == prepared[Len(prepared)]
           at   == CHOOSE i \in 1..Len(Order) : Order[i] = last.key[1]
<1>1. last \in CellEntries /\ last.key \in Keys
  BY EntryTypes
<1>2. NextPosition = IF Invalidated(last) THEN <<last.key[1], last.key[2] + 1>>
                     ELSE IF at = Len(Order) THEN <<>>
                     ELSE <<Order[at + 1], RepetitionOf[Order[at + 1]]>>
  BY DEF NextPosition
<1>3. at \in 1..Len(Order) /\ Order[at] = last.key[1]
  BY <1>1, KeyParts
<1> HIDE DEF at, last
<1>4. CASE Invalidated(last)
  BY <1>2, <1>4 DEF Follows, last
<1>5. CASE ~Invalidated(last)
  <2>1. at # Len(Order)
    BY <1>2, <1>5 DEF Keys
  <2>2. at \in 1..(Len(Order) - 1) /\ NextPosition[1] = Order[at + 1]
    BY <1>2, <1>3, <1>5, <2>1, OrderPlaces
  <2> QED
    BY <1>3, <1>5, <2>2 DEF Follows, last
<1> QED
  BY <1>4, <1>5

(* An entry at the next position keeps the journal in order.               *)
LEMMA NextKeepsOrder ==
  ASSUME FrozenTypes, GoesUp, StepByStep, NextPosition \in Keys,
         NEW outcome \in CellOutcomes, NEW fixed \in BOOLEAN,
         prepared' = Append(prepared, PreparedCell(NextPosition, outcome, fixed))
  PROVE  /\ prepared' \in Seq(CellEntries) /\ GoesUp' /\ StepByStep'
         /\ Len(prepared) \in Nat /\ Len(prepared') = Len(prepared) + 1
         /\ \A i \in 1..Len(prepared) : prepared'[i] = prepared[i]
         /\ prepared'[Len(prepared) + 1] = PreparedCell(NextPosition, outcome, fixed)
<1> DEFINE new == PreparedCell(NextPosition, outcome, fixed)
<1>1. new \in CellEntries /\ new.key = NextPosition
  BY DEF PreparedCell, CellEntries
<1> HIDE DEF new
<1>2. /\ prepared' \in Seq(CellEntries) /\ Len(prepared) \in Nat
      /\ Len(prepared') = Len(prepared) + 1
      /\ \A i \in 1..Len(prepared) : prepared'[i] = prepared[i]
      /\ prepared'[Len(prepared) + 1] = new
  BY <1>1 DEF FrozenTypes, new
<1>3. \A i \in 1..Len(prepared) : prepared[i].key \in Keys
  BY EntryTypes
<1>4. \A i \in 1..Len(prepared) : Earlier(prepared[i].key, NextPosition)
  <2> SUFFICES ASSUME NEW i \in 1..Len(prepared)
               PROVE  Earlier(prepared[i].key, NextPosition)
    OBVIOUS
  <2>1. prepared # <<>> /\ Len(prepared) \in 1..Len(prepared)
    BY <1>2
  <2>2. Earlier(prepared[Len(prepared)].key, NextPosition)
    BY <2>1, <1>3, NextFollows, FollowerIsLater
  <2>3. CASE i = Len(prepared)
    BY <2>2, <2>3
  <2>4. CASE i < Len(prepared)
    BY <2>1, <2>2, <2>4, <1>3, EarlierCarries DEF GoesUp
  <2> QED
    BY <2>3, <2>4, <1>2
<1>5. GoesUp'
  <2> SUFFICES ASSUME NEW i \in 1..Len(prepared'), NEW j \in 1..Len(prepared'), i < j
               PROVE  Earlier(prepared'[i].key, prepared'[j].key)
    BY DEF GoesUp, Earlier
  <2>1. i \in 1..Len(prepared) /\ prepared'[i] = prepared[i]
    BY <1>2
  <2>2. CASE j = Len(prepared) + 1
    BY <1>1, <1>2, <1>4, <2>1, <2>2
  <2>3. CASE j \in 1..Len(prepared)
    BY <1>2, <2>1, <2>3 DEF GoesUp
  <2> QED
    BY <1>2, <2>2, <2>3
<1>6. StepByStep'
  <2> SUFFICES ASSUME NEW i \in 1..(Len(prepared') - 1)
               PROVE  Follows(prepared'[i], prepared'[i + 1].key)
    BY DEF StepByStep, Follows, Invalidated
  <2>1. i \in 1..Len(prepared) /\ prepared'[i] = prepared[i]
    BY <1>2
  <2>2. CASE i = Len(prepared)
    <3>1. prepared # <<>>
      BY <2>1
    <3> QED
      BY <1>1, <1>2, <2>1, <2>2, <3>1, NextFollows
  <2>3. CASE i \in 1..(Len(prepared) - 1)
    BY <1>2, <2>1, <2>3 DEF StepByStep
  <2> QED
    BY <1>2, <2>1, <2>2, <2>3
<1> QED
  BY <1>2, <1>5, <1>6 DEF new

(* A fixed attempt keeps its cell, and the journal its entries' cells.     *)
LEMMA ExecutedCells ==
  ASSUME FrozenInv, NEW j \in Keys, NEW outcome \in CellOutcomes,
         ExecuteAuthorized(j, outcome)
  PROVE  /\ cells' \in [Keys -> CellOutcomes \cup {NoCell}]
         /\ CellsAreFixed' /\ cells[j] = NoCell /\ cells'[j] = outcome
         /\ \A k \in Keys : cells[k] # NoCell => cells'[k] = cells[k]
<1>1. \A k \in Keys : cells'[k] = IF k = j THEN outcome ELSE cells[k]
  BY DEF ExecuteAuthorized, FrozenInv, FrozenTypes
<1>2. cells' \in [Keys -> CellOutcomes \cup {NoCell}]
  BY DEF ExecuteAuthorized, FrozenInv, FrozenTypes
<1>3. \A k \in Keys : ~Fixed(j) /\ (Fixed(k)' <=> k = j \/ Fixed(k))
  BY ExecutionFixesOne DEF FrozenInv, CustodyInv
<1>4. cells[j] = NoCell
  BY <1>3 DEF FrozenInv, CellsAreFixed
<1>5. ASSUME NEW k \in Keys PROVE cells'[k] # NoCell <=> Fixed(k)'
  BY <1>1, <1>3, CellAssumption DEF FrozenInv, CellsAreFixed
<1>6. CellsAreFixed'
  BY <1>5 DEF CellsAreFixed
<1> QED
  BY <1>1, <1>2, <1>4, <1>6

LEMMA FrozenStep == FrozenInv /\ [FrozenNext]_frozen => FrozenInv'
<1> SUFFICES ASSUME FrozenInv, [FrozenNext]_frozen PROVE FrozenInv'
  OBVIOUS
<1>1. CustodyInv'
  BY ExecutorUsesCustody, InvariantStep DEF FrozenInv
<1>2. CASE CustodyStep
  <2>1. UNCHANGED <<prepared, cells>> /\ \A k \in Keys : Fixed(k)' <=> Fixed(k)
    BY <1>2, OthersFixNothing DEF CustodyStep, FrozenInv, CustodyInv
  <2>2. CellsAreFixed'
    BY <2>1 DEF FrozenInv, CellsAreFixed
  <2>3. FrozenTypes' /\ EntriesHaveCells' /\ GoesUp' /\ StepByStep'
    BY <2>1 DEF FrozenInv, FrozenTypes, EntriesHaveCells, GoesUp, StepByStep
  <2> QED
    BY <1>1, <2>2, <2>3 DEF FrozenInv
<1>3. ASSUME NEW outcome \in CellOutcomes, ExecuteNext(outcome) PROVE FrozenInv'
  <2>1. NextPosition \in Keys /\ ExecuteAuthorized(NextPosition, outcome)
    BY <1>3 DEF ExecuteNext, ExecuteAuthorized
  <2>2. prepared' = Append(prepared, PreparedCell(NextPosition, outcome, TRUE))
    BY <1>3 DEF ExecuteNext
  <2>3. /\ cells' \in [Keys -> CellOutcomes \cup {NoCell}]
        /\ CellsAreFixed' /\ cells'[NextPosition] = outcome
        /\ \A k \in Keys : cells[k] # NoCell => cells'[k] = cells[k]
    BY <2>1, ExecutedCells
  <2>4. /\ prepared' \in Seq(CellEntries) /\ GoesUp' /\ StepByStep'
        /\ Len(prepared) \in Nat /\ Len(prepared') = Len(prepared) + 1
        /\ \A h \in 1..Len(prepared) : prepared'[h] = prepared[h]
        /\ prepared'[Len(prepared) + 1] = PreparedCell(NextPosition, outcome, TRUE)
    BY <2>1, <2>2, NextKeepsOrder DEF FrozenInv
  <2>5. EntriesHaveCells'
    <3> SUFFICES ASSUME NEW i \in 1..Len(prepared'), prepared'[i].fixed
                 PROVE  cells'[prepared'[i].key] = prepared'[i].outcome
      BY DEF EntriesHaveCells
    <3>1. i \in 1..Len(prepared) \/ i = Len(prepared) + 1
      BY <2>4
    <3>2. CASE i = Len(prepared) + 1
      BY <2>3, <2>4, <3>2 DEF PreparedCell
    <3>3. CASE i \in 1..Len(prepared)
      <4>1. prepared[i] \in CellEntries /\ prepared[i].key \in Keys
        BY <3>3, EntryTypes DEF FrozenInv
      <4>2. prepared[i].outcome # NoCell
        BY <4>1, CellAssumption DEF CellEntries
      <4>3. cells[prepared[i].key] = prepared[i].outcome
        BY <2>4, <3>3 DEF FrozenInv, EntriesHaveCells
      <4> QED
        BY <2>3, <2>4, <3>3, <4>1, <4>2, <4>3
    <3> QED
      BY <3>1, <3>2, <3>3
  <2> QED
    BY <1>1, <2>3, <2>4, <2>5 DEF FrozenInv, FrozenTypes
<1>4. ASSUME NEW outcome \in CellOutcomes, ExecuteUnauthorized(outcome) PROVE FrozenInv'
  <2>1. /\ NextPosition \in Keys /\ UNCHANGED <<custody, cells>>
        /\ prepared' = Append(prepared, PreparedCell(NextPosition, outcome, FALSE))
    BY <1>4 DEF ExecuteUnauthorized
  <2>2. /\ prepared' \in Seq(CellEntries) /\ GoesUp' /\ StepByStep'
        /\ Len(prepared) \in Nat /\ Len(prepared') = Len(prepared) + 1
        /\ \A h \in 1..Len(prepared) : prepared'[h] = prepared[h]
        /\ prepared'[Len(prepared) + 1] = PreparedCell(NextPosition, outcome, FALSE)
    BY <2>1, NextKeepsOrder DEF FrozenInv
  <2>3. CellsAreFixed'
    BY <2>1 DEF FrozenInv, CellsAreFixed, Fixed, Begun, custody
  <2>4. ASSUME NEW i \in 1..Len(prepared'), prepared'[i].fixed
        PROVE  cells'[prepared'[i].key] = prepared'[i].outcome
    <3>1. i \in 1..Len(prepared) /\ prepared'[i] = prepared[i]
      BY <2>2, <2>4 DEF PreparedCell
    <3> QED
      BY <2>1, <2>4, <3>1 DEF FrozenInv, EntriesHaveCells
  <2>5. EntriesHaveCells'
    BY <2>4 DEF EntriesHaveCells
  <2> QED
    BY <1>1, <2>1, <2>2, <2>3, <2>5 DEF FrozenInv, FrozenTypes
<1>5. ASSUME NEW outcome \in CellOutcomes, NEW k \in Keys, ExecuteChosen(k, outcome)
      PROVE  FrozenInv'
  <2>1. ExecuteAuthorized(k, outcome) /\ UNCHANGED prepared
    BY <1>5 DEF ExecuteChosen
  <2>2. /\ cells' \in [Keys -> CellOutcomes \cup {NoCell}] /\ CellsAreFixed'
        /\ \A j \in Keys : cells[j] # NoCell => cells'[j] = cells[j]
    BY <2>1, ExecutedCells
  <2>3. EntriesHaveCells'
    <3> SUFFICES ASSUME NEW i \in 1..Len(prepared), prepared[i].fixed
                 PROVE  cells'[prepared[i].key] = prepared[i].outcome
      BY <2>1 DEF EntriesHaveCells
    <3>1. prepared[i] \in CellEntries /\ prepared[i].key \in Keys
      BY EntryTypes DEF FrozenInv
    <3>2. prepared[i].outcome # NoCell
      BY <3>1, CellAssumption DEF CellEntries
    <3>3. cells[prepared[i].key] = prepared[i].outcome
      BY DEF FrozenInv, EntriesHaveCells
    <3> QED
      BY <2>2, <3>1, <3>2, <3>3
  <2>4. FrozenTypes' /\ GoesUp' /\ StepByStep'
    BY <2>1, <2>2 DEF FrozenInv, FrozenTypes, GoesUp, StepByStep
  <2> QED
    BY <1>1, <2>2, <2>3, <2>4 DEF FrozenInv
<1>6. CASE UNCHANGED frozen
  <2>1. UNCHANGED <<custody, prepared, cells>>
    BY <1>6 DEF frozen
  <2>2. CellsAreFixed'
    BY <2>1 DEF FrozenInv, CellsAreFixed, Fixed, Begun, custody
  <2>3. FrozenTypes' /\ EntriesHaveCells' /\ GoesUp' /\ StepByStep'
    BY <2>1 DEF FrozenInv, FrozenTypes, EntriesHaveCells, GoesUp, StepByStep
  <2> QED
    BY <1>1, <2>2, <2>3 DEF FrozenInv
<1> QED
  BY <1>2, <1>3, <1>4, <1>5, <1>6 DEF FrozenNext

(* What comes before a later attempt of a slot was technical.              *)
LEMMA RetriesAreTechnical ==
  ASSUME FrozenTypes, GoesUp, StepByStep,
         NEW m \in 1..Len(prepared), NEW n \in 1..Len(prepared),
         prepared[m].key[1] = prepared[n].key[1], prepared[m].key[2] < prepared[n].key[2]
  PROVE  Invalidated(prepared[m])
<1>1. /\ prepared[m].key \in Keys /\ prepared[n].key \in Keys
      /\ Len(prepared) \in Nat
  BY EntryTypes
<1>2. m # n
  BY <1>1, KeyParts
<1>3. ~(n < m)
  <2> SUFFICES ASSUME n < m PROVE FALSE
    OBVIOUS
  <2>1. Earlier(prepared[n].key, prepared[m].key)
    BY DEF GoesUp
  <2> QED
    BY <2>1, <1>1, KeyParts, OrderPlaces DEF Earlier
<1>4. m < n /\ m \in 1..(Len(prepared) - 1) /\ m + 1 \in 1..Len(prepared)
  BY <1>1, <1>2, <1>3
<1> SUFFICES ASSUME ~Invalidated(prepared[m]) PROVE FALSE
  OBVIOUS
<1>5. Follows(prepared[m], prepared[m + 1].key)
  BY <1>4 DEF StepByStep
<1>6. PICK p \in 1..(Len(Order) - 1) :
        prepared[m].key[1] = Order[p] /\ prepared[m + 1].key[1] = Order[p + 1]
  BY <1>5 DEF Follows
<1>7. p \in 1..Len(Order) /\ p + 1 \in 1..Len(Order)
  BY OrderPlaces
<1>8. CASE m + 1 = n
  <2>1. Order[p] = Order[p + 1]
    BY <1>6, <1>8
  <2> QED
    BY <1>7, <2>1, OrderPlaces
<1>9. CASE m + 1 < n
  <2>1. Earlier(prepared[m + 1].key, prepared[n].key)
    BY <1>4, <1>9 DEF GoesUp
  <2>2. PICK a \in 1..Len(Order), b \in 1..Len(Order) :
          Order[a] = prepared[m + 1].key[1] /\ Order[b] = prepared[n].key[1] /\ a <= b
    BY <2>1 DEF Earlier
  <2>3. a = p + 1 /\ b = p
    BY <1>6, <1>7, <2>2, OrderPlaces
  <2> QED
    BY <2>2, <2>3, <1>7
<1> QED
  BY <1>4, <1>8, <1>9

LEMMA InvMatches == FrozenInv => JournalMatchesCustody
<1> SUFFICES ASSUME FrozenInv PROVE JournalMatchesCustody
  OBVIOUS
<1>1. ASSUME NEW i \in 1..Len(prepared), NEW j \in 1..Len(prepared),
             prepared[i].key = prepared[j].key
      PROVE  i = j
  <2>1. /\ prepared[i].key \in Keys /\ prepared[j].key \in Keys
        /\ Len(prepared) \in Nat
    BY EntryTypes DEF FrozenInv
  <2>2. ASSUME i < j PROVE FALSE
    BY <1>1, <2>1, <2>2, EarlierIsStrict DEF FrozenInv, GoesUp
  <2>3. ASSUME j < i PROVE FALSE
    BY <1>1, <2>1, <2>3, EarlierIsStrict DEF FrozenInv, GoesUp
  <2> QED
    BY <2>1, <2>2, <2>3
<1>2. ASSUME NEW i \in 1..(Len(prepared) - 1)
      PROVE  LET this == prepared[i].key
                 that == prepared[i + 1].key
             IN IF Invalidated(prepared[i]) THEN that = <<this[1], this[2] + 1>>
                ELSE \E n \in 1..(Len(Order) - 1) :
                       this[1] = Order[n] /\ that[1] = Order[n + 1]
  BY DEF FrozenInv, StepByStep, Follows
<1> QED
  BY <1>1, <1>2 DEF JournalMatchesCustody, FrozenInv, CellsAreFixed, EntriesHaveCells

(* The pre-isolation journal, the cells callers hold and custody agree     *)
(* (execute_authorized, _next_execution_position, fix_model_output).       *)
THEOREM MatchesTheorem == FrozenSpec => []JournalMatchesCustody
BY FrozenStarts, FrozenStep, InvMatches, PTL DEF FrozenSpec

-----------------------------------------------------------------------------
(* The hand-off to the runner journal                                      *)

(* What the journal of a headline manifest is given: the rejected patch of *)
(* an attempt.                                                             *)
HandOffOf(k) == Entry(k[1], k[2], AdapterOutput("patch_rejected", Rejection))
HandOffs == {HandOffOf(k) : k \in Keys}
KeyOf(entry) == <<entry.slot, entry.attempt>>

(* The attempt's output is fixed, its cell is the rejection, and there is  *)
(* one entry of a slot.                                                    *)
Grounded ==
  \A i \in 1..Len(entries) :
    Fixed(KeyOf(entries[i])) /\ cells[KeyOf(entries[i])] = PatchRejected
OneEach ==
  \A i, j \in 1..Len(entries) : entries[i].slot = entries[j].slot => i = j

HandOffInv == FrozenInv /\ entries \in Seq(HandOffs) /\ Grounded /\ OneEach

LEMMA HandOffParts ==
  ASSUME NEW k \in Keys
  PROVE  KeyOf(HandOffOf(k)) = k /\ HandOffOf(k).slot = k[1] /\ HandOffOf(k).state = "accepted"
<1>1. FinalizationState(AdapterOutput("patch_rejected", Rejection)) = "accepted"
  BY DEF AdapterOutput, Rejection, NotExecuted, Isolated, Output, PatchErrors, FinalizationState
<1> QED
  BY <1>1, KeyParts DEF HandOffOf, KeyOf, Entry

LEMMA HandOffTypes ==
  ASSUME entries \in Seq(HandOffs)
  PROVE  /\ Len(entries) \in Nat
         /\ \A i \in 1..Len(entries) :
              KeyOf(entries[i]) \in Keys /\ entries[i].state = "accepted"
<1>1. \A i \in 1..Len(entries) : entries[i] \in HandOffs
  OBVIOUS
<1> QED
  BY <1>1, HandOffParts DEF HandOffs

LEMMA ChainStarts == ChainInit => HandOffInv
<1> SUFFICES ASSUME ChainInit PROVE HandOffInv
  OBVIOUS
<1>1. entries = <<>> /\ FrozenInv
  BY FrozenStarts DEF ChainInit, JournalInit
<1> QED
  BY <1>1 DEF HandOffInv, Grounded, OneEach

(* The executor takes nothing back.                                        *)
LEMMA FixedCellsStay ==
  ASSUME FrozenInv, [FrozenNext]_frozen, NEW k \in Keys, Fixed(k)
  PROVE  Fixed(k)' /\ cells'[k] = cells[k]
<1>1. Fixed(k)'
  BY ExecutorUsesCustody, StepProgresses DEF FrozenInv, CustodyInv, Progresses
<1>2. cells[k] # NoCell
  BY DEF FrozenInv, CellsAreFixed
<1>3. ASSUME NEW j, NEW outcome \in CellOutcomes, ExecuteAuthorized(j, outcome)
      PROVE  cells'[k] = cells[k]
  <2>1. j \in Keys
    BY <1>3 DEF ExecuteAuthorized
  <2> QED
    BY <1>2, <1>3, <2>1, ExecutedCells
<1> QED
  BY <1>1, <1>3
  DEF FrozenNext, frozen, CustodyStep, ExecuteNext, ExecuteChosen, ExecuteUnauthorized

LEMMA HandOffStep == HandOffInv /\ [ChainNext]_chain => HandOffInv'
<1> SUFFICES ASSUME HandOffInv, [ChainNext]_chain PROVE HandOffInv'
  OBVIOUS
<1> USE DEF HandOffInv
<1>1. CASE [FrozenNext]_frozen /\ UNCHANGED journal
  <2>1. FrozenInv' /\ UNCHANGED entries
    BY <1>1, FrozenStep DEF journal
  <2>2. ASSUME NEW k \in Keys, Fixed(k), cells[k] = PatchRejected
        PROVE  Fixed(k)' /\ cells'[k] = PatchRejected
    BY <1>1, <2>2, FixedCellsStay
  <2>3. Grounded'
    BY <2>1, <2>2, HandOffTypes DEF Grounded, KeyOf, Fixed, Begun
  <2> QED
    BY <2>1, <2>3 DEF OneEach
<1>2. ASSUME NEW k \in Keys, AppendAuthorized(k) PROVE HandOffInv'
  <2> DEFINE new == HandOffOf(k)
  <2>1. UNCHANGED <<custody, prepared, cells>> /\ entries' = Append(entries, new)
    BY <1>2 DEF AppendAuthorized, AppendOutput, frozen, HandOffOf
  <2>2. FrozenInv'
    BY <1>2, FrozenStep DEF AppendAuthorized
  <2>3. new \in HandOffs /\ KeyOf(new) = k /\ new.slot = k[1] /\ new.state = "accepted"
    BY HandOffParts DEF HandOffs
  <2>4. Fixed(k) /\ cells[k] = PatchRejected
    BY <1>2 DEF AppendAuthorized, Sealable, RoundOfOne, IdentityDigest, BundleDigest, TreeDigest
  <2> HIDE DEF new
  <2>5. /\ entries' \in Seq(HandOffs)
        /\ Len(entries) \in Nat /\ Len(entries') = Len(entries) + 1
        /\ \A i \in 1..Len(entries) : entries'[i] = entries[i]
        /\ entries'[Len(entries) + 1] = new
    BY <2>1, <2>3
  <2>6. \A i \in 1..Len(entries) : entries[i].slot # k[1]
    <3> SUFFICES ASSUME NEW i \in 1..Len(entries), entries[i].slot = k[1] PROVE FALSE
      OBVIOUS
    <3>1. Newest(entries, i)
      BY <2>5 DEF OneEach, Newest
    <3>2. entries[i].state # "accepted"
      BY <1>2, <3>1 DEF AppendAuthorized, AppendOutput, MayAppend, MayFollow
    <3> QED
      BY <3>2, HandOffTypes
  <2>7. Grounded'
    <3> SUFFICES ASSUME NEW i \in 1..Len(entries')
                 PROVE  Fixed(KeyOf(entries'[i])) /\ cells[KeyOf(entries'[i])] = PatchRejected
      BY <2>1 DEF Grounded, KeyOf, Fixed, Begun, custody
    <3> QED
      BY <2>3, <2>4, <2>5 DEF Grounded
  <2>8. OneEach'
    BY <2>3, <2>5, <2>6 DEF OneEach
  <2> QED
    BY <2>2, <2>5, <2>7, <2>8
<1>3. CASE UNCHANGED chain
  BY <1>1, <1>3 DEF chain
<1> QED
  BY <1>1, <1>2, <1>3 DEF ChainNext

LEMMA InvAgree == HandOffInv => JournalsAgree
<1> SUFFICES ASSUME HandOffInv, NEW i \in 1..Len(entries)
             PROVE  LET k == <<entries[i].slot, entries[i].attempt>> IN
                    /\ k \in Keys /\ Fixed(k) /\ cells[k] = PatchRejected
                    /\ \A j \in 1..Len(entries) : entries[j].slot = k[1] => j = i
                    /\ (\E n \in 1..Len(prepared) : prepared[n].key = k) =>
                         \A n \in 1..Len(prepared) :
                           prepared[n].key[1] = k[1] /\ prepared[n].key[2] < k[2]
                             => Invalidated(prepared[n])
  BY DEF JournalsAgree
<1> DEFINE k == <<entries[i].slot, entries[i].attempt>>
<1>1. k \in Keys /\ Fixed(k) /\ cells[k] = PatchRejected
  BY HandOffTypes DEF HandOffInv, Grounded, KeyOf
<1>2. \A j \in 1..Len(entries) : entries[j].slot = k[1] => j = i
  BY DEF HandOffInv, OneEach
<1>3. ASSUME NEW n \in 1..Len(prepared), prepared[n].key = k,
             NEW m \in 1..Len(prepared),
             prepared[m].key[1] = k[1], prepared[m].key[2] < k[2]
      PROVE  Invalidated(prepared[m])
  BY <1>3, RetriesAreTechnical DEF HandOffInv, FrozenInv
<1> QED
  BY <1>1, <1>2, <1>3

(* A headline manifest's three journals agree                              *)
(* (append_authorized_frozen_runner_output).                               *)
THEOREM AgreeTheorem == ChainSpec => [](JournalMatchesCustody /\ JournalsAgree)
<1>1. HandOffInv => JournalMatchesCustody
  BY InvMatches DEF HandOffInv
<1> QED
  BY <1>1, ChainStarts, HandOffStep, InvAgree, PTL DEF ChainSpec
-----------------------------------------------------------------------------
(* The whole chain                                                         *)

Routes == {"registering", "headline", "floor"}

(* Until it is known that the manifest is a Floor manifest, the journal is *)
(* the headline's.                                                         *)
HeadlineInv ==
  /\ route \in Routes
  /\ RegistryInv /\ FrozenInv
  /\ route # "floor" => HandOffInv

(* What a step of the chain is to its parts.                               *)
LEMMA PartSteps ==
  ASSUME route \in Routes, [Next]_everything
  PROVE  /\ [RegistryNext]_registry /\ [FrozenNext]_frozen /\ route' \in Routes
         /\ route # "floor" => [ChainNext]_chain /\ UNCHANGED floor /\ route' # "floor"
         /\ route = "floor" => [Floor!EvaluationNext]_<<floor, journal>> /\ route' = "floor"
<1>1. CASE Registering
  BY <1>1 DEF Registering, chain, frozen
<1>2. CASE Constructed
  BY <1>2 DEF Constructed, chain, Routes
<1>3. CASE Headline
  <2>1. [FrozenNext]_frozen
    BY <1>3 DEF Headline, ChainNext, AppendAuthorized
  <2> QED
    BY <1>3, <2>1 DEF Headline
<1>4. CASE Evaluating
  BY <1>4 DEF Evaluating
<1>5. CASE UNCHANGED everything
  BY <1>5 DEF everything, chain
<1> QED
  BY <1>1, <1>2, <1>3, <1>4, <1>5 DEF Next

LEMMA HeadlineStarts == Init => HeadlineInv
<1>1. Init => ChainInit
  BY DEF Init, ChainInit, Floor!EvaluationInit, Floor!JournalInit, JournalInit
<1> QED
  BY <1>1, RegistryStarts, ChainStarts DEF Init, HeadlineInv, HandOffInv, Routes

LEMMA HeadlineStep == HeadlineInv /\ [Next]_everything => HeadlineInv'
<1> SUFFICES ASSUME HeadlineInv, [Next]_everything PROVE HeadlineInv'
  OBVIOUS
<1>1. RegistryInv' /\ FrozenInv' /\ route' \in Routes
  BY PartSteps, RegistryStep, FrozenStep DEF HeadlineInv
<1>2. route' # "floor" => HandOffInv'
  BY PartSteps, HandOffStep DEF HeadlineInv
<1> QED
  BY <1>1, <1>2 DEF HeadlineInv

LEMMA HeadlineInvariant == Spec => []HeadlineInv
BY HeadlineStarts, HeadlineStep, PTL DEF Spec

(* The journals of a manifest agree from its registration on               *)
(* (execute_authorized, append_authorized_frozen_runner_output).           *)
THEOREM JournalsTheorem == Spec => [](JournalMatchesCustody /\ HeadlineJournalsAgree)
<1>1. HeadlineInv => JournalMatchesCustody /\ HeadlineJournalsAgree
  BY InvMatches, InvAgree DEF HeadlineInv, HeadlineJournalsAgree
<1> QED
  BY <1>1, HeadlineInvariant, PTL

(* What registry and custody promise by themselves they keep in the chain. *)
THEOREM PartsTheorem ==
  Spec => []( /\ OneManifestPerSeed
              /\ ProvidersWorkBlind /\ LabelsAfterAllOutputs /\ RootsServeOneAttempt)
<1>1. HeadlineInv =>
        /\ OneManifestPerSeed
        /\ ProvidersWorkBlind /\ LabelsAfterAllOutputs /\ RootsServeOneAttempt
  BY InvOneManifest, InvBlind, InvLabels DEF HeadlineInv, FrozenInv, CustodyInv
<1> QED
  BY <1>1, HeadlineInvariant, PTL

(* The chain implements the output barrier (close_scenario_outputs).       *)
THEOREM ChainBarrierTheorem == Spec => KeepsBarrier
<1>1. Init => CustodyInit
  BY DEF Init, FrozenInit
<1>2. HeadlineInv /\ [Next]_everything => [CustodyNext]_custody
  BY PartSteps, ExecutorUsesCustody DEF HeadlineInv
<1>3. Spec => CustodySpec
  BY <1>1, <1>2, HeadlineInvariant, PTL DEF Spec, CustodySpec
<1> QED
  BY <1>3, BarrierTheorem
-----------------------------------------------------------------------------
(* Floor rounds                                                            *)

RoundPhases == {"idle", "next", "running", "cleaning"}

RoundResults ==
  [attempt : Attempts \cup {0}, patch : Floor!PatchErrors \cup Floor!FileOrders,
   isolated : Floor!IsolatedResults]
Collections == [FloorSlots -> RoundResults \cup {Floor!NoResult}]

Rounds ==
  [no : Nat, left : SUBSET FloorSlots, at : FloorSlots \cup {"none"}, phase : RoundPhases,
   attempt : Attempts \cup {0}, patch : {"none"} \cup Floor!FileOrders,
   collected : Collections]

InContainer == round.phase \in {"running", "cleaning"}

(* A container is of a variant still to do, and of a patch that was        *)
(* accepted.                                                               *)
RoundTypes ==
  /\ round \in Rounds /\ results \in Collections
  /\ InContainer => round.at \in round.left /\ round.patch \in Floor!FileOrders

(* The round waits for one container; any other that may run was given up  *)
(* as docker's failure.                                                    *)
OneContainer ==
  /\ alive \subseteq FloorSlots
  /\ round.phase = "idle" => alive = {}
  /\ \A q \in alive :
       \/ InContainer /\ q = round.at
       \/ q \notin round.left
            /\ round.collected[q].isolated = Floor!Technical("sandbox_unavailable")

(* What a Floor journal is given.                                          *)
FloorOutputs ==
  {Floor!AdapterOutput(p, r) :
     p \in Floor!PatchErrors \cup Floor!FileOrders, r \in Floor!IsolatedResults}
FloorEntries == {Floor!Entry(q, n, o) : q \in FloorSlots, n \in Attempts \cup {0}, o \in FloorOutputs}

FloorInv ==
  /\ RoundTypes /\ OneContainer
  /\ route = "floor" => entries \in Seq(FloorEntries)

LEMMA IdleRound ==
  ASSUME NEW n \in Nat
  PROVE  /\ Floor!Idle(n) \in Rounds
         /\ Floor!Idle(n).no = n /\ Floor!Idle(n).phase = "idle"
         /\ Floor!Idle(n).collected \in Collections
<1>1. [q \in FloorSlots |-> Floor!NoResult] \in Collections
  BY DEF Collections
<1> HIDE DEF Collections
<1> QED
  BY <1>1 DEF Floor!Idle, Rounds, RoundPhases

LEMMA CollectedRound ==
  ASSUME round \in Rounds, NEW q \in FloorSlots, NEW r \in RoundResults, Floor!Collect(q, r)
  PROVE  /\ round' \in Rounds /\ round'.no = round.no /\ round'.phase = "next"
         /\ round'.left = round.left \ {q}
         /\ round'.collected = [round.collected EXCEPT ![q] = r]
         /\ round'.collected[q] = r
         /\ \A p \in FloorSlots : p # q => round'.collected[p] = round.collected[p]
<1> DEFINE gathered == [round.collected EXCEPT ![q] = r]
<1>1. round.collected \in Collections
  BY DEF Rounds
<1>2. /\ gathered \in Collections /\ gathered[q] = r
      /\ \A p \in FloorSlots : p # q => gathered[p] = round.collected[p]
  BY <1>1 DEF Collections
<1>3. round' = [round EXCEPT !.phase = "next", !.left = round.left \ {q}, !.at = "none",
                             !.patch = "none", !.collected = gathered]
  BY DEF Floor!Collect, Rounds
<1>4. gathered = [round.collected EXCEPT ![q] = r]
  OBVIOUS
<1> HIDE DEF gathered, Collections
<1>5. "next" \in RoundPhases
  BY DEF RoundPhases
<1>6. round' \in Rounds /\ round'.collected = gathered
  BY <1>2, <1>3, <1>5 DEF Rounds
<1> QED
  BY <1>2, <1>3, <1>4, <1>6 DEF Rounds

(* What the round's own process collects is a result.                      *)
LEMMA SealedResults ==
  ASSUME round \in Rounds
  PROVE  /\ \A error \in Floor!PatchErrors :
              Floor!Result(error, Floor!NotExecuted(error)) \in RoundResults
         /\ \A files \in Floor!FileOrders, failure \in Floor!SandboxFailures :
              Floor!Result(files, Floor!Technical(failure)) \in RoundResults
         /\ \A files \in Floor!FileOrders, suite \in Floor!Suites :
              Floor!Result(files, Floor!Executed(suite)) \in RoundResults
<1>1. round.attempt \in Attempts \cup {0}
  BY DEF Rounds
<1>2. \A n \in Attempts \cup {0}, p \in Floor!PatchErrors \cup Floor!FileOrders,
         isolated \in Floor!IsolatedResults :
        [attempt |-> n, patch |-> p, isolated |-> isolated] \in RoundResults
  BY DEF RoundResults
<1>3. /\ \A error \in Floor!PatchErrors : Floor!NotExecuted(error) \in Floor!IsolatedResults
      /\ \A failure \in Floor!SandboxFailures : Floor!Technical(failure) \in Floor!IsolatedResults
      /\ \A suite \in Floor!Suites : Floor!Executed(suite) \in Floor!IsolatedResults
  BY DEF Floor!IsolatedResults
<1> QED
  BY <1>1, <1>2, <1>3 DEF Floor!Result

(* A round goes on to its next variant: the one it leaves behind has no    *)
(* container any more, or is collected as docker's failure.                *)
LEMMA GoesOn ==
  ASSUME RoundTypes, OneContainer, NEW q \in FloorSlots, NEW r \in RoundResults,
         Floor!Collect(q, r), UNCHANGED results, round.phase # "idle",
         q \in round.left, InContainer => q = round.at, alive' \subseteq alive,
         q \notin alive' \/ r.isolated = Floor!Technical("sandbox_unavailable")
  PROVE  RoundTypes' /\ OneContainer'
<1>1. /\ round' \in Rounds /\ round'.phase = "next" /\ round'.left = round.left \ {q}
      /\ round'.collected[q] = r
      /\ \A p \in FloorSlots : p # q => round'.collected[p] = round.collected[p]
  BY CollectedRound DEF RoundTypes
<1>2. RoundTypes'
  BY <1>1 DEF RoundTypes, InContainer
<1>3. ASSUME NEW p \in alive'
      PROVE  p \notin round'.left
               /\ round'.collected[p].isolated = Floor!Technical("sandbox_unavailable")
  <2>1. CASE p = q
    BY <1>1, <1>3, <2>1
  <2>2. CASE p # q
    <3>1. p \in alive /\ p \in FloorSlots /\ ~(InContainer /\ p = round.at)
      BY <1>3, <2>2 DEF OneContainer
    <3> QED
      BY <1>1, <2>2, <3>1 DEF OneContainer
  <2> QED
    BY <2>1, <2>2
<1>4. OneContainer'
  BY <1>1, <1>3 DEF OneContainer, InContainer
<1> QED
  BY <1>2, <1>4

(* A round that ends is followed no further.                               *)
LEMMA GivesUp ==
  ASSUME RoundTypes, Floor!Raise
  PROVE  RoundTypes' /\ OneContainer'
<1>1. round.no \in Nat /\ round' = Floor!Idle(round.no) /\ alive' = {} /\ UNCHANGED results
  BY DEF Floor!Raise, RoundTypes, Rounds
<1>2. round' \in Rounds /\ round'.phase = "idle"
  BY <1>1, IdleRound
<1> QED
  BY <1>1, <1>2 DEF RoundTypes, OneContainer, InContainer

LEMMA RoundSteps ==
  ASSUME RoundTypes, OneContainer, Floor!RoundStep \/ Floor!DockerFails
  PROVE  RoundTypes' /\ OneContainer' /\ UNCHANGED entries
<1>1. ASSUME NEW q \in FloorSlots, Floor!AtVariant(q)
      PROVE  round.phase = "next" /\ q \in round.left /\ q \notin alive /\ ~InContainer
  BY <1>1 DEF Floor!AtVariant, OneContainer, InContainer
<1>2. ASSUME NEW q \in FloorSlots, NEW error \in Floor!PatchErrors, Floor!SealRejected(q, error)
      PROVE  RoundTypes' /\ OneContainer' /\ UNCHANGED entries
  <2>1. Floor!Result(error, Floor!NotExecuted(error)) \in RoundResults
    BY SealedResults DEF RoundTypes
  <2> QED
    BY <1>1, <1>2, <2>1, GoesOn DEF Floor!SealRejected, Floor!journal
<1>3. ASSUME NEW q \in FloorSlots, NEW files \in Floor!FileOrders, Floor!DockerMissing(q, files)
      PROVE  RoundTypes' /\ OneContainer' /\ UNCHANGED entries
  <2>1. Floor!Result(files, Floor!Technical("sandbox_unavailable")) \in RoundResults
    BY SealedResults DEF RoundTypes, Floor!SandboxFailures
  <2> QED
    BY <1>1, <1>3, <2>1, GoesOn DEF Floor!DockerMissing, Floor!journal
<1>4. ASSUME NEW q \in FloorSlots, NEW files \in Floor!FileOrders, Floor!StartContainer(q, files)
      PROVE  RoundTypes' /\ OneContainer' /\ UNCHANGED entries
  <2>1. /\ round' = [round EXCEPT !.phase = "running", !.at = q, !.patch = files]
        /\ alive' = alive \cup {q} /\ UNCHANGED <<results, entries>>
        /\ q \in round.left /\ ~InContainer
    BY <1>1, <1>4 DEF Floor!StartContainer, Floor!journal
  <2>2. round' \in Rounds /\ RoundTypes'
    BY <2>1 DEF RoundTypes, Rounds, RoundPhases, InContainer
  <2>3. /\ round'.phase = "running" /\ round'.at = q
        /\ round'.left = round.left /\ round'.collected = round.collected
    BY <2>1 DEF RoundTypes, Rounds
  <2>4. OneContainer'
    BY <2>1, <2>3 DEF OneContainer, InContainer
  <2> QED
    BY <2>1, <2>2, <2>4
<1>5. ASSUME NEW suite \in Floor!Suites, Floor!SuiteCompletes(suite)
      PROVE  RoundTypes' /\ OneContainer' /\ UNCHANGED entries
  <2>1. /\ round.phase = "running" /\ round.at \in round.left /\ round.at \in FloorSlots
        /\ Floor!Result(round.patch, Floor!Executed(suite)) \in RoundResults
    BY <1>5, SealedResults DEF Floor!SuiteCompletes, Floor!Running, RoundTypes, Rounds, InContainer
  <2> QED
    BY <1>5, <2>1, GoesOn DEF Floor!SuiteCompletes, Floor!journal
<1>6. CASE Floor!SandboxUnavailable
  <2> DEFINE r == Floor!Result(round.patch, Floor!Technical("sandbox_unavailable"))
  <2>1. /\ round.phase = "running" /\ round.at \in round.left /\ round.at \in FloorSlots
        /\ r \in RoundResults
    BY <1>6, SealedResults
    DEF Floor!SandboxUnavailable, Floor!Running, RoundTypes, Rounds, InContainer, Floor!SandboxFailures
  <2>2. r.isolated = Floor!Technical("sandbox_unavailable")
    BY DEF Floor!Result
  <2> QED
    BY <1>6, <2>1, <2>2, GoesOn DEF Floor!SandboxUnavailable, Floor!journal
<1>7. CASE Floor!TimeOut
  <2>1. /\ round.phase = "running" /\ round' = [round EXCEPT !.phase = "cleaning"]
        /\ UNCHANGED <<results, alive, entries>>
    BY <1>7 DEF Floor!TimeOut, Floor!Running, Floor!journal
  <2>2. RoundTypes'
    BY <2>1 DEF RoundTypes, Rounds, RoundPhases, InContainer
  <2>3. /\ round'.phase = "cleaning" /\ round'.at = round.at
        /\ round'.left = round.left /\ round'.collected = round.collected
    BY <2>1 DEF RoundTypes, Rounds
  <2>4. OneContainer'
    BY <2>1, <2>3 DEF OneContainer, InContainer
  <2> QED
    BY <2>1, <2>2, <2>4
<1>8. CASE Floor!CleanUp
  <2>1. round.phase = "cleaning" /\ round.at \in round.left /\ round.at \in FloorSlots
    BY <1>8 DEF Floor!CleanUp, RoundTypes, Rounds, InContainer
  <2>2. CASE /\ alive' = alive \ {round.at}
             /\ Floor!Collect(round.at, Floor!Result(round.patch, Floor!Technical("sandbox_timeout")))
             /\ UNCHANGED <<results, Floor!journal>>
    <3>1. Floor!Result(round.patch, Floor!Technical("sandbox_timeout")) \in RoundResults
      BY <2>1, SealedResults DEF RoundTypes, InContainer, Floor!SandboxFailures
    <3> QED
      BY <2>1, <2>2, <3>1, GoesOn DEF Floor!journal
  <2>3. CASE Floor!Raise
    BY <2>3, GivesUp DEF Floor!Raise, Floor!journal
  <2> QED
    BY <1>8, <2>2, <2>3 DEF Floor!CleanUp
<1>9. CASE Floor!RefuseRound \/ Floor!PatchMisfits \/ Floor!MalformedResult
  <2>1. Floor!Raise
    BY <1>9 DEF Floor!RefuseRound, Floor!PatchMisfits, Floor!MalformedResult
  <2> QED
    BY <2>1, GivesUp DEF Floor!Raise, Floor!journal
<1>10. CASE Floor!FinishRound
  <2>1. /\ results' = round.collected /\ round' = Floor!Idle(round.no)
        /\ alive' = {} /\ UNCHANGED entries
    BY <1>10 DEF Floor!FinishRound, Floor!journal
  <2>2. round.no \in Nat /\ results' \in Collections
    BY <2>1 DEF RoundTypes, Rounds
  <2>3. round' \in Rounds /\ round'.phase = "idle"
    BY <2>1, <2>2, IdleRound
  <2> QED
    BY <2>1, <2>2, <2>3 DEF RoundTypes, OneContainer, InContainer
<1> QED
  BY <1>2, <1>3, <1>4, <1>5, <1>6, <1>7, <1>8, <1>9, <1>10
  DEF Floor!RoundStep, Floor!DockerFails

LEMMA EvaluationSteps ==
  ASSUME RoundTypes, OneContainer, Floor!EvaluationNext
  PROVE  RoundTypes' /\ OneContainer'
<1>1. ASSUME NEW s \in FloorScenarios, NEW n \in Floor!Attempts, Floor!StartRound(s, n)
      PROVE  RoundTypes' /\ OneContainer'
  <2> DEFINE fresh == Floor!Idle(round.no + 1)
  <2>1. /\ round' = [fresh EXCEPT !.left = Floor!Cells(s), !.attempt = n, !.phase = "next"]
        /\ results' = Floor!Idle(0).collected /\ UNCHANGED alive /\ round.phase = "idle"
        /\ round.no \in Nat /\ n \in Attempts \cup {0} /\ Floor!Cells(s) \subseteq FloorSlots
    BY <1>1 DEF Floor!StartRound, Floor!Cells, RoundTypes, Rounds, Floor!Attempts, Attempts
  <2>2. fresh \in Rounds /\ results' \in Collections
    BY <2>1, IdleRound
  <2> HIDE DEF fresh
  <2>3. round' \in Rounds /\ round'.phase = "next"
    BY <2>1, <2>2 DEF Rounds, RoundPhases
  <2> QED
    BY <2>1, <2>2, <2>3 DEF RoundTypes, OneContainer, InContainer
<1>2. ASSUME NEW q \in FloorSlots, Floor!ContainerEnds(q) PROVE RoundTypes' /\ OneContainer'
  <2>1. UNCHANGED <<round, results>> /\ alive' \subseteq alive
    BY <1>2 DEF Floor!ContainerEnds
  <2> QED
    BY <2>1 DEF RoundTypes, OneContainer, InContainer
<1>3. ASSUME NEW q \in FloorSlots, Floor!AppendResult(q) PROVE RoundTypes' /\ OneContainer'
  <2>1. UNCHANGED <<round, alive>> /\ results' = [results EXCEPT ![q] = Floor!NoResult]
    BY <1>3 DEF Floor!AppendResult
  <2>2. results' \in Collections
    BY <2>1 DEF RoundTypes, Collections
  <2> QED
    BY <2>1, <2>2 DEF RoundTypes, OneContainer, InContainer
<1>4. CASE Floor!Finalize
  <2>1. UNCHANGED <<round, results, alive>>
    BY <1>4 DEF Floor!Finalize
  <2> QED
    BY <2>1 DEF RoundTypes, OneContainer, InContainer
<1>5. CASE Floor!RoundStep \/ Floor!DockerFails
  BY <1>5, RoundSteps
<1> QED
  BY <1>1, <1>2, <1>3, <1>4, <1>5 DEF Floor!EvaluationNext

(* The Floor journal gets runner outputs the adapter made.                 *)
LEMMA FloorAppends ==
  ASSUME RoundTypes, OneContainer, Floor!EvaluationNext, entries \in Seq(FloorEntries)
  PROVE  entries' \in Seq(FloorEntries)
<1>1. ASSUME NEW q \in FloorSlots, Floor!AppendResult(q) PROVE entries' \in Seq(FloorEntries)
  <2> DEFINE held == results[q]
             new  == Floor!Entry(q, held.attempt,
                                 Floor!AdapterOutput(held.patch, held.isolated))
  <2>1. held # Floor!NoResult /\ held.isolated \in Floor!IsolatedResults
        /\ entries' = Append(entries, new)
    BY <1>1 DEF Floor!AppendResult, Floor!AppendOutput
  <2>2. held \in RoundResults
    BY <2>1 DEF RoundTypes, Collections
  <2>3. held.attempt \in Attempts \cup {0} /\ held.patch \in Floor!PatchErrors \cup Floor!FileOrders
    BY <2>2 DEF RoundResults
  <2>4. new \in FloorEntries
    BY <2>1, <2>3 DEF FloorEntries, FloorOutputs
  <2> HIDE DEF new
  <2> QED
    BY <2>1, <2>4
<1>2. ASSUME NEW s, NEW n, Floor!StartRound(s, n) PROVE UNCHANGED entries
  BY <1>2 DEF Floor!StartRound, Floor!journal
<1>3. ASSUME NEW c, Floor!ContainerEnds(c) PROVE UNCHANGED entries
  BY <1>3 DEF Floor!ContainerEnds, Floor!journal
<1>4. CASE Floor!Finalize
  BY <1>4 DEF Floor!Finalize, Floor!FinalizeJournal
<1>5. CASE Floor!RoundStep \/ Floor!DockerFails
  BY <1>5, RoundSteps
<1> QED
  BY <1>1, <1>2, <1>3, <1>4, <1>5 DEF Floor!EvaluationNext

LEMMA FloorStarts == Init => FloorInv
<1> SUFFICES ASSUME Init PROVE FloorInv
  OBVIOUS
<1>1. /\ round = Floor!Idle(0) /\ results = Floor!Idle(0).collected /\ alive = {}
      /\ entries = <<>>
  BY DEF Init, Floor!EvaluationInit, Floor!JournalInit
<1>2. round \in Rounds /\ results \in Collections /\ round.phase = "idle"
  BY <1>1, IdleRound
<1> QED
  BY <1>1, <1>2 DEF FloorInv, RoundTypes, OneContainer, InContainer

LEMMA FloorStep == HeadlineInv /\ FloorInv /\ [Next]_everything => FloorInv'
<1> SUFFICES ASSUME HeadlineInv, FloorInv, [Next]_everything PROVE FloorInv'
  OBVIOUS
<1>1. CASE route = "floor" /\ Floor!EvaluationNext
  <2>1. RoundTypes' /\ OneContainer' /\ entries' \in Seq(FloorEntries)
    BY <1>1, EvaluationSteps, FloorAppends DEF FloorInv
  <2> QED
    BY <2>1 DEF FloorInv
<1>2. CASE UNCHANGED floor /\ (route' = "floor" => route = "floor" /\ UNCHANGED journal)
  <2>1. UNCHANGED <<round, results, alive>>
    BY <1>2 DEF floor
  <2>2. RoundTypes' /\ OneContainer'
    BY <2>1 DEF FloorInv, RoundTypes, OneContainer, InContainer
  <2> QED
    BY <1>2, <2>2 DEF FloorInv, journal
<1>3. CASE route = "floor" /\ UNCHANGED <<floor, journal>>
  BY <1>2, <1>3 DEF floor, journal
<1> QED
  BY <1>1, <1>2, <1>3, PartSteps DEF HeadlineInv

(* Journals, custody, registry and rounds of the whole chain: its          *)
(* inductive invariant.                                                    *)
LEMMA ChainInvariant == Spec => [](HeadlineInv /\ FloorInv)
BY HeadlineStarts, HeadlineStep, FloorStarts, FloorStep, PTL DEF Spec

(* Of a container that may still run nobody is handed a test result or a   *)
(* timeout (run_isolated_suite, _cleanup_container).                       *)
THEOREM RoundsTheorem == Spec => ReturnedRunsAreOver
<1> DEFINE Over == round.phase # "idle" /\ round'.phase = "idle" /\ results' # results
                     => \A q \in alive :
                          results'[q].isolated = Floor!Technical("sandbox_unavailable")
<1>1. ASSUME HeadlineInv, FloorInv, [Next]_everything PROVE [Over]_Floor!evaluation
  <2> SUFFICES ASSUME round.phase # "idle", round'.phase = "idle", results' # results
               PROVE  \A q \in alive :
                        results'[q].isolated = Floor!Technical("sandbox_unavailable")
    OBVIOUS
  <2>1. Floor!EvaluationNext
    BY <1>1, PartSteps DEF HeadlineInv, floor
  <2>2. ~\E s \in FloorScenarios, n \in Floor!Attempts : Floor!StartRound(s, n)
    BY DEF Floor!StartRound
  <2>3. ~\E q \in FloorSlots : Floor!AppendResult(q)
    BY DEF Floor!AppendResult
  <2>4. Floor!RoundStep \/ Floor!DockerFails
    BY <2>1, <2>2, <2>3 DEF Floor!EvaluationNext, Floor!ContainerEnds, Floor!Finalize
  <2>5. Floor!FinishRound
    BY <2>4 DEF Floor!RoundStep, Floor!DockerFails, Floor!SealRejected, Floor!StartContainer, Floor!DockerMissing,
       Floor!SuiteCompletes, Floor!SandboxUnavailable, Floor!MalformedResult, Floor!TimeOut,
       Floor!CleanUp, Floor!RefuseRound, Floor!PatchMisfits, Floor!Raise
  <2>6. round.phase = "next" /\ results' = round.collected
    BY <2>5 DEF Floor!FinishRound
  <2> QED
    BY <1>1, <2>6 DEF FloorInv, OneContainer, InContainer
<1> QED
  BY <1>1, ChainInvariant, PTL DEF Spec, ReturnedRunsAreOver, Floor!ReturnedRunsAreOver

-----------------------------------------------------------------------------
(* Final production evidence                                               *)

RunsOf(population) == [i \in 1..Len(population) |-> Floor!RunOf(population[i])]

(* What the pipeline has checked of evidence it calls final.               *)
LEMMA FinalPacket ==
  ASSUME Floor!PacketOf(entries).status = "final_production_evidence"
  PROVE  /\ Floor!PacketOf(entries).runs = RunsOf(entries)
         /\ Floor!PacketOf(entries).aggregate = Floor!AggregateOf(RunsOf(entries))
         /\ Floor!LoaderAdmits(entries)
         /\ \A i \in 1..Len(entries) :
              Floor!RetainedState(RunsOf(entries)[i]) = entries[i].state
         /\ Floor!ValidAggregate(Floor!AggregateOf(RunsOf(entries)), RunsOf(entries))
BY DEF Floor!PacketOf, Floor!Packet, Floor!Refused, RunsOf

(* An accepted output counts as adverse exactly when it did not succeed.   *)
LEMMA AdverseOutputs ==
  ASSUME NEW entry \in FloorEntries, entry.state = "accepted"
  PROVE  entry.output.outcome # "success" <=>
           entry.output.outcome \in {"hidden_tests_failed", "patch_rejected", "empty_patch"}
<1>1. PICK q \in FloorSlots, n \in Attempts \cup {0}, o \in FloorOutputs :
        entry = Floor!Entry(q, n, o)
  BY DEF FloorEntries
<1>2. entry.output = o /\ entry.state = Floor!FinalizationState(o)
  BY <1>1 DEF Floor!Entry
<1>3. o.outcome \in {"success", "hidden_tests_failed", "patch_rejected", "empty_patch",
                     "technical_failure"}
  BY DEF FloorOutputs, Floor!AdapterOutput, Floor!Output
<1>4. o.outcome # "technical_failure"
  BY <1>2 DEF Floor!FinalizationState
<1> QED
  BY <1>2, <1>3, <1>4

(* The occupant of a slot is its accepted entry, the newest of the slot.   *)
LEMMA Occupied ==
  ASSUME entries \in Seq(FloorEntries),
         Floor!PacketOf(entries).status = "final_production_evidence",
         NEW q \in FloorSlots
  PROVE  \E i \in Floor!AcceptedEntries :
           /\ Floor!Occupants(RunsOf(entries), q) = {i}
           /\ Floor!EntriesOf(entries, q) \cap Floor!AcceptedEntries = {i}
           /\ Floor!Newest(entries, i)
<1> DEFINE runs == RunsOf(entries)
           occupants == Floor!Occupants(runs, q)
<1>1. Len(entries) \in Nat /\ Len(runs) = Len(entries)
      /\ \A i \in 1..Len(entries) : runs[i].slot = entries[i].slot
  BY DEF RunsOf, Floor!RunOf
<1>2. occupants = Floor!EntriesOf(entries, q) \cap Floor!AcceptedEntries
  BY <1>1, FinalPacket DEF Floor!Occupants, Floor!EntriesOf, Floor!AcceptedEntries
<1>3. PICK i : occupants = {i}
  <2>1. Floor!OneOccupantEach(runs)
    BY FinalPacket DEF Floor!ValidAggregate
  <2> QED
    BY <2>1 DEF Floor!OneOccupantEach
<1>4. i \in Floor!AcceptedOf(entries, q) /\ i \in Floor!AcceptedEntries
  BY <1>2, <1>3 DEF Floor!AcceptedOf, Floor!AcceptedEntries
<1>5. Floor!Newest(entries, i)
  BY <1>4, FinalPacket DEF Floor!LoaderAdmits
<1> QED
  BY <1>2, <1>3, <1>4, <1>5 DEF occupants

(* The contributors of the aggregate are the accepted runs.                *)
LEMMA Contributors ==
  ASSUME entries \in Seq(FloorEntries),
         Floor!PacketOf(entries).status = "final_production_evidence"
  PROVE  LET runs == RunsOf(entries)
             universe == Floor!AcceptedUniverse(runs)
         IN /\ Len(universe) \in Nat
            /\ \A n \in 1..Len(universe) : \E i \in Floor!AcceptedEntries : universe[n] = runs[i]
            /\ \A i \in Floor!AcceptedEntries : \E n \in 1..Len(universe) : universe[n] = runs[i]
<1> DEFINE runs == RunsOf(entries)
           universe == Floor!AcceptedUniverse(runs)
<1>1. /\ Len(FloorOrder) \in Nat
      /\ \A n \in 1..Len(FloorOrder) : FloorOrder[n] \in FloorSlots
      /\ \A q \in FloorSlots : \E n \in 1..Len(FloorOrder) : FloorOrder[n] = q
  BY FloorPlanAssumption DEF Floor!IsPlan
<1>2. universe = [n \in 1..Len(FloorOrder) |->
                    runs[CHOOSE i \in Floor!Occupants(runs, FloorOrder[n]) : TRUE]]
  BY DEF Floor!AcceptedUniverse
<1> HIDE DEF universe
<1>3. Len(universe) = Len(FloorOrder)
  BY <1>1, <1>2
<1>4. ASSUME NEW n \in 1..Len(FloorOrder), NEW i,
             Floor!Occupants(runs, FloorOrder[n]) = {i}
      PROVE  universe[n] = runs[i]
  BY <1>2, <1>4
<1>5. ASSUME NEW n \in 1..Len(universe)
      PROVE  \E i \in Floor!AcceptedEntries : universe[n] = runs[i]
  <2>1. PICK i \in Floor!AcceptedEntries : Floor!Occupants(runs, FloorOrder[n]) = {i}
    BY <1>1, <1>3, Occupied
  <2> QED
    BY <1>3, <1>4, <2>1
<1>6. ASSUME NEW i \in Floor!AcceptedEntries
      PROVE  \E n \in 1..Len(universe) : universe[n] = runs[i]
  <2>1. i \in 1..Len(entries) /\ entries[i].slot \in FloorSlots
    BY FinalPacket DEF Floor!AcceptedEntries, Floor!LoaderAdmits
  <2>2. PICK n \in 1..Len(FloorOrder) : FloorOrder[n] = entries[i].slot
    BY <1>1, <2>1
  <2>3. PICK j : /\ Floor!Occupants(runs, FloorOrder[n]) = {j}
                 /\ Floor!EntriesOf(entries, FloorOrder[n]) \cap Floor!AcceptedEntries = {j}
    BY <2>1, <2>2, Occupied
  <2>4. i = j
    BY <2>1, <2>2, <2>3 DEF Floor!EntriesOf
  <2> QED
    BY <1>3, <1>4, <2>3, <2>4
<1> QED
  BY <1>1, <1>3, <1>5, <1>6 DEF universe

(* Evidence the pipeline calls final has a run for every journal entry, an *)
(* accepted one for every slot, and counts the adverse as adverse          *)
(* (run_v4_floor_evidence_pipeline).                                       *)
THEOREM FinalEvidenceTheorem == Spec => []FinalEvidenceIsWhole
<1>1. ASSUME FloorInv, route = "floor",
             Floor!PacketOf(entries).status = "final_production_evidence"
      PROVE  Floor!FinalEvidenceIsWhole
  <2> DEFINE packet == Floor!PacketOf(entries)
             runs == RunsOf(entries)
             universe == Floor!AcceptedUniverse(runs)
  <2>1. entries \in Seq(FloorEntries)
    BY <1>1 DEF FloorInv
  <2>2. packet.runs = runs /\ packet.aggregate = Floor!AggregateOf(runs)
        /\ Floor!ValidAggregate(packet.aggregate, runs)
    BY <1>1, FinalPacket
  <2>3. /\ Len(entries) \in Nat /\ Len(runs) = Len(entries)
        /\ \A i \in 1..Len(entries) :
             /\ runs[i].slot = entries[i].slot
             /\ runs[i].attempt = entries[i].attempt
             /\ runs[i].outcome = entries[i].output.outcome
    BY <2>1 DEF RunsOf, Floor!RunOf
  <2>4. \A q \in FloorSlots : \E i \in Floor!AcceptedEntries :
          /\ Floor!EntriesOf(entries, q) \cap Floor!AcceptedEntries = {i}
          /\ Floor!Newest(entries, i)
    BY <1>1, <2>1, Occupied
  <2>5. packet.aggregate.runIds = Floor!Ids(universe)
        /\ packet.aggregate.adverseRunIds = Floor!Adverse(universe)
    BY <2>2 DEF Floor!ValidAggregate
  <2>6. /\ Len(universe) \in Nat
        /\ \A n \in 1..Len(universe) : \E i \in Floor!AcceptedEntries : universe[n] = runs[i]
        /\ \A i \in Floor!AcceptedEntries : \E n \in 1..Len(universe) : universe[n] = runs[i]
    BY <1>1, <2>1, Contributors
  <2>7. \A i \in Floor!AcceptedEntries :
          runs[i].outcome = entries[i].output.outcome
          /\ (runs[i].outcome # "success" <=>
                runs[i].outcome \in {"hidden_tests_failed", "patch_rejected", "empty_patch"})
    <3> SUFFICES ASSUME NEW i \in Floor!AcceptedEntries
                 PROVE  runs[i].outcome = entries[i].output.outcome
                        /\ (runs[i].outcome # "success" <=> runs[i].outcome \in
                              {"hidden_tests_failed", "patch_rejected", "empty_patch"})
      OBVIOUS
    <3>1. i \in 1..Len(entries) /\ entries[i].state = "accepted"
      BY DEF Floor!AcceptedEntries
    <3>2. entries[i] \in FloorEntries
      BY <2>1, <3>1
    <3> QED
      BY <2>3, <3>1, <3>2, AdverseOutputs
  <2> HIDE DEF packet, runs, universe
  <2>8. {packet.aggregate.runIds[n] : n \in 1..Len(packet.aggregate.runIds)}
          = {runs[i].id : i \in Floor!AcceptedEntries}
    <3>1. Len(Floor!Ids(universe)) = Len(universe)
          /\ \A n \in 1..Len(universe) : Floor!Ids(universe)[n] = universe[n].id
      BY <2>6 DEF Floor!Ids
    <3> DEFINE ids == packet.aggregate.runIds
    <3>2. Len(ids) = Len(universe) /\ \A n \in 1..Len(universe) : ids[n] = universe[n].id
      BY <2>5, <3>1
    <3> HIDE DEF ids
    <3>3. \A n \in 1..Len(ids) : \E i \in Floor!AcceptedEntries : ids[n] = runs[i].id
      BY <2>6, <3>2
    <3>4. \A i \in Floor!AcceptedEntries : \E n \in 1..Len(ids) : ids[n] = runs[i].id
      BY <2>6, <3>2
    <3>5. {ids[n] : n \in 1..Len(ids)} = {runs[i].id : i \in Floor!AcceptedEntries}
      BY <3>3, <3>4
    <3> QED
      BY <3>5 DEF ids
  <2>9. packet.aggregate.adverseRunIds
          = {runs[i].id : i \in {j \in Floor!AcceptedEntries : entries[j].output.outcome # "success"}}
    <3> DEFINE Counted == {j \in 1..Len(universe) : universe[j].outcome \in
                             {"hidden_tests_failed", "patch_rejected", "empty_patch"}}
               Failed == {j \in Floor!AcceptedEntries : entries[j].output.outcome # "success"}
    <3>1. \A n \in Counted : \E i \in Failed : universe[n].id = runs[i].id
      BY <2>6, <2>7
    <3>2. \A i \in Failed : \E n \in Counted : universe[n].id = runs[i].id
      BY <2>6, <2>7
    <3>3. Floor!Adverse(universe) = {universe[n].id : n \in Counted}
      BY DEF Floor!Adverse
    <3> HIDE DEF Counted, Failed
    <3>4. {universe[n].id : n \in Counted} = {runs[i].id : i \in Failed}
      BY <3>1, <3>2
    <3> QED
      BY <2>5, <3>3, <3>4 DEF Failed
  <2> QED
    BY <2>2, <2>3, <2>4, <2>8, <2>9 DEF Floor!FinalEvidenceIsWhole, packet
<1>2. FloorInv => FinalEvidenceIsWhole
  BY <1>1 DEF FinalEvidenceIsWhole, Floor!FinalEvidenceIsWhole
<1> QED
  BY <1>2, ChainInvariant, PTL
=============================================================================
