--------------------------- MODULE FloorEvaluation ---------------------------
(***************************************************************************)
(* Floor evaluation from the isolated runs to the evidence packet          *)
(* (evaluation_docker.py, isolation.py, evaluation_evidence_adapter.py,    *)
(* evidence_pipeline.py).  A round runs every variant of a scenario, one   *)
(* after the other, each in a container of its own that docker removes     *)
(* when it ends; it returns a result for every variant, or raises and      *)
(* returns none.  Evaluator code turns returned results into runner        *)
(* outputs, appends them to the journal in the order it likes, finalizes   *)
(* the journal and runs the pipeline on it.  Everything is in the memory   *)
(* of one process; only the containers are outside of it.                  *)
(*                                                                         *)
(* Of docker one thing is assumed: a docker run that exits with the code   *)
(* its container's result names has seen the container end.  One that      *)
(* fails with a code of its own, is killed or returns what is no result    *)
(* may leave its container running.  Containers are followed while their   *)
(* round lasts: their names are random, and no later round uses them.      *)
(*                                                                         *)
(* The patch of a variant is found out when the round gets to it: refused  *)
(* by the patch contract, or accepted with its files in some order.        *)
(***************************************************************************)
EXTENDS FloorEvidence

CONSTANT MaxRounds    \* rounds, a bound of the model

VARIABLES
  round,    \* the round under way: variants left and results collected
  results,  \* the results a round returned and nobody has appended yet
  alive     \* slots whose container of the round under way exists

evaluation == <<round, results, alive, journal>>

NoResult == [attempt |-> 0]
Result(patch, isolated) ==
  [attempt |-> round.attempt, patch |-> patch, isolated |-> isolated]

Idle(no) ==
  [no |-> no, left |-> {}, at |-> "none", phase |-> "idle",
   attempt |-> 0, patch |-> "none", collected |-> [q \in Slots |-> NoResult]]

Cells(s) == {q \in Slots : ScenarioOf[q] = s}
AtVariant(q) ==
  /\ round.phase = "next" /\ q \in round.left
  /\ \E i \in 1..Len(Order) : Order[i] = q /\ \A j \in 1..(i - 1) : Order[j] \notin round.left

Collect(q, result) ==
  round' = [round EXCEPT !.phase = "next", !.left = @ \ {q}, !.at = "none",
                         !.patch = "none", !.collected[q] = result]

(* An exception leaves the round: what it had collected is lost.           *)
Raise == round' = Idle(round.no) /\ alive' = {} /\ UNCHANGED <<results, journal>>

-----------------------------------------------------------------------------
(* The identities of a round's variants name one attempt number.  Results  *)
(* not appended when a new round starts are given up.                      *)
StartRound(s, n) ==
  /\ round.phase = "idle" /\ round.no < MaxRounds
  /\ Cells(s) # {} /\ ~finalized
  /\ round' = [Idle(round.no + 1) EXCEPT !.left = Cells(s), !.attempt = n, !.phase = "next"]
  /\ results' = Idle(0).collected
  /\ UNCHANGED <<alive, journal>>

(* A refused patch is sealed without execution.                            *)
SealRejected(q, error) ==
  /\ AtVariant(q)
  /\ Collect(q, Result(error, NotExecuted(error)))
  /\ UNCHANGED <<results, alive, journal>>

(* Frozen roots that changed, before or after a variant.                   *)
RefuseRound == round.phase = "next" /\ Raise

(* An accepted patch that writes a file the repository snapshot lacks.     *)
PatchMisfits == (\E q \in Slots : AtVariant(q)) /\ Raise

StartContainer(q, files) ==
  /\ AtVariant(q)
  /\ round' = [round EXCEPT !.phase = "running", !.at = q, !.patch = files]
  /\ alive' = alive \cup {q}
  /\ UNCHANGED <<results, journal>>

(* There is no docker to start it with.                                    *)
DockerMissing(q, files) ==
  /\ AtVariant(q)
  /\ Collect(q, Result(files, Technical("sandbox_unavailable")))
  /\ UNCHANGED <<results, alive, journal>>

(* A container ends when its suite does, watched or not; --rm removes it.  *)
ContainerEnds(q) ==
  /\ q \in alive
  /\ alive' = alive \ {q}
  /\ UNCHANGED <<round, results, journal>>

Running == round.phase = "running"

(* docker run exits with the code that its container's test result names.  *)
SuiteCompletes(suite) ==
  /\ Running /\ round.at \notin alive
  /\ Collect(round.at, Result(round.patch, Executed(suite)))
  /\ UNCHANGED <<results, alive, journal>>

(* A code of docker's own, 125 and above: nobody looks for the container.  *)
SandboxUnavailable ==
  /\ Running
  /\ Collect(round.at, Result(round.patch, Technical("sandbox_unavailable")))
  /\ UNCHANGED <<results, alive, journal>>

(* Another code, or a signal's, with no result that names it.              *)
MalformedResult == Running /\ Raise

(* docker run without a timeout.                                           *)
MutTimeOut == Running /\ round.patch = "none" /\ UNCHANGED evaluation

(* The timeout ends docker run, not the container.                         *)
TimeOut ==
  /\ Running
  /\ round' = [round EXCEPT !.phase = "cleaning"]
  /\ UNCHANGED <<results, alive, journal>>

(* A failure of docker rm is passed over.                                  *)
MutCleanUp ==
  /\ round.phase = "cleaning"
  /\ alive' \in {alive, alive \ {round.at}}
  /\ Collect(round.at, Result(round.patch, Technical("sandbox_timeout")))
  /\ UNCHANGED <<results, journal>>

(* _cleanup_container: docker rm -f removes the container, or fails, as it *)
(* may on one that is already gone; a failure raises.                      *)
CleanUp ==
  /\ round.phase = "cleaning"
  /\ \/ /\ alive' = alive \ {round.at}
        /\ Collect(round.at, Result(round.patch, Technical("sandbox_timeout")))
        /\ UNCHANGED <<results, journal>>
     \/ Raise

FinishRound ==
  /\ round.phase = "next" /\ round.left = {}
  /\ results' = round.collected
  /\ round' = Idle(round.no)
  /\ alive' = {}
  /\ UNCHANGED journal

(* The journal's append of the output the adapter makes of a result.  A    *)
(* result that is appended is not offered again: a second append of it     *)
(* would be refused.                                                       *)
AppendResult(q) ==
  /\ round.phase = "idle" /\ results[q] # NoResult
  /\ LET held == results[q] IN
     /\ held.isolated \in IsolatedResults
     /\ AppendOutput(q, held.attempt, AdapterOutput(held.patch, held.isolated),
                     held.isolated)
  /\ results' = [results EXCEPT ![q] = NoResult]
  /\ UNCHANGED <<round, alive>>

Finalize ==
  /\ round.phase = "idle"
  /\ FinalizeJournal
  /\ UNCHANGED <<round, results, alive>>

-----------------------------------------------------------------------------
EvaluationInit ==
  /\ round = Idle(0) /\ results = Idle(0).collected /\ alive = {}
  /\ JournalInit

(* docker run comes back by itself, without a test result.                 *)
DockerFails == SandboxUnavailable \/ MalformedResult

(* What the evaluator's process does once a round is under way, whether    *)
(* docker fails or not.                                                    *)
RoundStep ==
  \/ \E q \in Slots :
       \/ \E error \in PatchErrors : SealRejected(q, error)
       \/ \E files \in FileOrders : StartContainer(q, files) \/ DockerMissing(q, files)
  \/ \E suite \in Suites : SuiteCompletes(suite)
  \/ TimeOut \/ CleanUp \/ RefuseRound \/ PatchMisfits \/ FinishRound

EvaluationNext ==
  \/ \E s \in Scenarios, n \in Attempts : StartRound(s, n)
  \/ RoundStep \/ DockerFails
  \/ \E q \in Slots : ContainerEnds(q)
  \/ \E q \in Slots : AppendResult(q)
  \/ Finalize

EvaluationSpec ==
  EvaluationInit /\ [][EvaluationNext]_evaluation /\ WF_evaluation(RoundStep)

-----------------------------------------------------------------------------
AcceptedEntries == {i \in 1..Len(entries) : entries[i].state = "accepted"}

(* Final production evidence is whole (run_v4_floor_evidence_pipeline): it *)
(* has a run for every journal entry, invalidated ones included, one       *)
(* accepted run for every slot, which is the last of its slot, and counts  *)
(* as adverse exactly the accepted runs that did not succeed.              *)
FinalEvidenceIsWhole ==
  finalized /\ PacketOf(entries).status = "final_production_evidence" =>
    LET packet == PacketOf(entries) IN
    /\ Len(packet.runs) = Len(entries)
    /\ \A i \in 1..Len(entries) :
         /\ packet.runs[i].slot = entries[i].slot
         /\ packet.runs[i].attempt = entries[i].attempt
         /\ packet.runs[i].outcome = entries[i].output.outcome
    /\ \A q \in Slots : \E i \in AcceptedEntries :
         /\ EntriesOf(entries, q) \cap AcceptedEntries = {i}
         /\ Newest(entries, i)
    /\ {packet.aggregate.runIds[n] : n \in 1..Len(packet.aggregate.runIds)}
         = {packet.runs[i].id : i \in AcceptedEntries}
    /\ packet.aggregate.adverseRunIds =
         {packet.runs[i].id :
              i \in {j \in AcceptedEntries : entries[j].output.outcome # "success"}}

(* Of a container that may still run nobody is handed a test result or a   *)
(* timeout, only that docker failed: a round that returns its results      *)
(* leaves no other container behind (run_isolated_suite,                   *)
(* _cleanup_container).                                                    *)
ReturnedRunsAreOver ==
  [][round.phase # "idle" /\ round'.phase = "idle" /\ results' # results
       => \A q \in alive : results'[q].isolated = Technical("sandbox_unavailable")]_evaluation

(* A round always ends, however long a suite runs: docker run has a        *)
(* timeout, and so has docker rm.                                          *)
EveryRoundEnds == round.phase # "idle" ~> round.phase = "idle"

=============================================================================
