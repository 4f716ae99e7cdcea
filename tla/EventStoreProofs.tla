-------------------------- MODULE EventStoreProofs --------------------------
(***************************************************************************)
(* Proofs about EventStore, for every choice of its constants.  Inductive  *)
(* is the invariant all of them follow from: what startup audits, the      *)
(* order of the sessions, the memories, and that a row is either whole or  *)
(* not there.  The last part proves that EventStore implements             *)
(* LifecycleLedger: a claim of a new event admits it, a completion settles *)
(* it, and every other step of the store is no step of the ledger.         *)
(***************************************************************************)
EXTENDS EventStore, TLAPS

---------------------------------------------------------------------------
\* The steps

\* Attempt n of k ends its event without a memory.
EndWithout(k, n) ==
    \E r \in Results :
        /\ r.op # "write"
        /\ r.op = "duplicate" => r.memory \in Known(k)
        /\ Complete(k, n, r)
        /\ UNCHANGED <<memory, relations>>

\* Every step of the store is one of six: what is remembered by only one of
\* them, and the event that steps is the only one whose row changes.
LEMMA StepCases ==
    ASSUME Next
    PROVE  \E k \in Keys :
              \/ \E s \in Sequences : ClaimRefused(k, s)
              \/ \E s \in Sequences, b \in Bodies, now \in Times : ClaimNew(k, s, b, now)
              \/ \E s \in Sequences, b \in Bodies, now \in Times : TakeOver(k, s, b, now)
              \/ \E n \in Attempts : EndWithout(k, n)
              \/ \E n \in Attempts, slot \in Slots, text \in Texts, sup \in SUBSET MemoryIds :
                    CompleteWrite(k, n, slot, text, sup)
              \/ \E n \in Attempts : FailRetryable(k, n)
<1>1. ASSUME NEW k \in Keys, NEW n \in Attempts, NEW r, Complete(k, n, r), r.op # "write",
             r.op = "duplicate" => r.memory \in Known(k), UNCHANGED <<memory, relations>>
      PROVE  EndWithout(k, n)
  BY <1>1 DEF EndWithout, Complete, ValidResult
<1>2. ASSUME NEW k \in Keys, NEW n \in Attempts, Forget(k, n)
      PROVE  EndWithout(k, n)
  <2>1. CASE CompleteEvent(k, n, NoOp("given"))
    <3>1. NoOp("given").op = "no_op"
      BY DEF NoOp
    <3> QED BY <1>1, <2>1, <3>1 DEF CompleteEvent
  <2>2. ASSUME NEW m \in Known(k), CompleteEvent(k, n, Duplicate(m))
        PROVE  EndWithout(k, n)
    <3>1. Duplicate(m).memory = m
      BY DEF Duplicate
    <3> QED BY <1>1, <2>2, <3>1 DEF CompleteEvent
  <2> QED BY <1>2, <2>1, <2>2 DEF Forget
<1>3. ASSUME NEW k \in Keys, NEW n \in Attempts, NEW slot \in Slots, CompleteStale(k, n, slot)
      PROVE  EndWithout(k, n)
  <2>1. NoOp("stale_project_event").op = "no_op"
    BY DEF NoOp
  <2> QED BY <1>1, <1>3, <2>1 DEF CompleteStale
<1>4. ASSUME NEW k \in Keys, NEW n \in Attempts, NEW slot \in Slots, NEW sup,
             CompleteRejected(k, n, slot, sup)
      PROVE  EndWithout(k, n)
  <2>1. \A why : NoOp(why).op = "no_op"
    BY DEF NoOp
  <2> QED BY <1>1, <1>4, <2>1 DEF CompleteRejected
<1>5. PICK k \in Keys : \/ Claim(k)
                        \/ \E n \in Attempts : Forget(k, n) \/ Remember(k, n) \/ FailRetryable(k, n)
  BY DEF Next
<1>6. CASE Claim(k)
  BY <1>6 DEF Claim
<1>7. CASE \E n \in Attempts : Forget(k, n)
  BY <1>7, <1>2
<1>8. ASSUME NEW n \in Attempts, Remember(k, n)
      PROVE  \/ EndWithout(k, n)
             \/ \E slot \in Slots, text \in Texts, sup \in SUBSET MemoryIds :
                    CompleteWrite(k, n, slot, text, sup)
  <2>1. PICK slot \in Slots :
            \/ CompleteStale(k, n, slot)
            \/ \E sup \in SUBSET {m \in MemoryIds : Stored(m)} :
                \/ CompleteRejected(k, n, slot, sup)
                \/ \E text \in Texts : CompleteWrite(k, n, slot, text, sup)
    BY <1>8 DEF Remember
  <2>2. SUBSET {m \in MemoryIds : Stored(m)} \subseteq SUBSET MemoryIds
    OBVIOUS
  <2> QED BY <2>1, <2>2, <1>3, <1>4
<1>9. CASE \E n \in Attempts : FailRetryable(k, n)
  BY <1>9
<1> QED BY <1>5, <1>6, <1>7, <1>8, <1>9

---------------------------------------------------------------------------
\* Types

LEMMA ResultTypes ==
    /\ \A why \in Reasons : NoOp(why) \in Results
    /\ \A m \in MemoryIds : Duplicate(m) \in Results
    /\ \A m \in MemoryIds, sup \in SUBSET MemoryIds : Write(m, sup) \in Results
BY DEF NoOp, Duplicate, Write, Results, Reasons

\* TypeOK is inductive by itself.
LEMMA TypeStep ==
    ASSUME TypeOK, [Next]_vars
    PROVE  TypeOK'
<1> USE TimesAreIntegers, BoundsAreNatural
<1> USE DEF Attempts, Sequences, ProjectSeqs
<1>1. CASE UNCHANGED vars
  BY <1>1 DEF TypeOK, vars
<1>2. ASSUME NEW k \in Keys, NEW s \in Sequences, ClaimRefused(k, s)
      PROVE  TypeOK'
  BY <1>2 DEF TypeOK, ClaimRefused, Expected, Keys
<1>3. ASSUME NEW k \in Keys, NEW s \in Sequences, NEW b \in Bodies, NEW now \in Times,
             ClaimNew(k, s, b, now)
      PROVE  TypeOK'
  <2>1. event' \in [Keys -> EventRows]
    <3>1. PICK n \in ProjectSeqs : event' = [event EXCEPT ![k] = FirstRow(s, b, n, now)]
      BY <1>3 DEF ClaimNew
    <3>2. 1 \in Attempts
      BY <1>3 DEF ClaimNew
    <3>3. FirstRow(s, b, n, now) \in EventRows
      BY <3>2 DEF FirstRow, EventRows
    <3> QED BY <3>1, <3>3 DEF TypeOK
  <2>2. cursor' \in [Projects -> [Sessions -> 0..(MaxSequence + 1)]]
    BY <1>3 DEF TypeOK, ClaimNew, Expected, Keys
  <2>3. run' \in [Keys -> [Attempts -> RunStates]]
    BY <1>3 DEF TypeOK, ClaimNew, RunStates
  <2> QED BY <1>3, <2>1, <2>2, <2>3 DEF TypeOK, ClaimNew
<1>4. ASSUME NEW k \in Keys, NEW s \in Sequences, NEW b \in Bodies, NEW now \in Times,
             TakeOver(k, s, b, now)
      PROVE  TypeOK'
  <2>1. event' \in [Keys -> EventRows]
    <3>1. event[k] \in EventRows
      BY DEF TypeOK
    <3>2. event[k].attempt + 1 \in Attempts
      BY <1>4 DEF TakeOver
    <3>3. RetriedRow(event[k], now) \in EventRows
      BY <3>1, <3>2 DEF EventRows, RetriedRow
    <3> QED BY <1>4, <3>3 DEF TypeOK, TakeOver
  <2>2. run' \in [Keys -> [Attempts -> RunStates]]
    BY <1>4 DEF TypeOK, TakeOver, RunStates, RunsAfterTakeOver
  <2> QED BY <1>4, <2>1, <2>2 DEF TypeOK, TakeOver
<1>5. ASSUME NEW k \in Keys, NEW n \in Attempts, NEW r, Complete(k, n, r)
      PROVE  /\ event' \in [Keys -> EventRows]
             /\ cursor' \in [Projects -> [Sessions -> 0..(MaxSequence + 1)]]
             /\ run' \in [Keys -> [Attempts -> RunStates]]
  <2>1. event' \in [Keys -> EventRows]
    <3>1. event[k] \in EventRows
      BY DEF TypeOK
    <3>2. r \in Results
      BY <1>5 DEF Complete, ValidResult
    <3>3. CompletedRow(event[k], r) \in EventRows
      BY <3>1, <3>2 DEF EventRows, CompletedRow
    <3> QED BY <1>5, <3>3 DEF TypeOK, Complete
  <2>2. event[k].seq \in 0..MaxSequence
    BY DEF TypeOK, EventRows
  <2>3. cursor' \in [Projects -> [Sessions -> 0..(MaxSequence + 1)]]
    BY <1>5, <2>2 DEF TypeOK, Complete, CursorAfter, Keys
  <2>4. run' \in [Keys -> [Attempts -> RunStates]]
    BY <1>5 DEF TypeOK, Complete, RunStates, RunStateOf
  <2> QED BY <2>1, <2>3, <2>4
<1>6. ASSUME NEW k \in Keys, NEW n \in Attempts, EndWithout(k, n)
      PROVE  TypeOK'
  BY <1>5, <1>6 DEF TypeOK, EndWithout
<1>7. ASSUME NEW k \in Keys, NEW n \in Attempts, NEW slot \in Slots, NEW text \in Texts,
             NEW sup \in SUBSET MemoryIds, CompleteWrite(k, n, slot, text, sup)
      PROVE  TypeOK'
  <2>1. PICK m \in MemoryIds :
            /\ Complete(k, n, Write(m, sup))
            /\ memory' = [memory EXCEPT ![m] =
                    [project |-> k.project, slot |-> slot, text |-> text, source |-> k,
                     pseq |-> event[k].pseq]]
            /\ relations' = relations \cup Edges(k, m, sup)
    BY <1>7 DEF CompleteWrite
  <2>2. event[k].pseq \in 0..MaxProjectSeq
    BY DEF TypeOK, EventRows
  <2>3. memory' \in [MemoryIds -> MemoryRows \cup {Nil}]
    BY <2>1, <2>2 DEF TypeOK, MemoryRows, Keys
  <2>4. relations' \subseteq Relations
    BY <2>1 DEF TypeOK, Relations, Edges
  <2> QED BY <1>5, <2>1, <2>3, <2>4 DEF TypeOK
<1>8. ASSUME NEW k \in Keys, NEW n \in Attempts, FailRetryable(k, n)
      PROVE  TypeOK'
  <2>1. event' \in [Keys -> EventRows]
    <3>1. event[k] \in EventRows
      BY DEF TypeOK
    <3>2. FailedRow(event[k]) \in EventRows
      BY <3>1 DEF EventRows, FailedRow
    <3> QED BY <1>8, <3>2 DEF TypeOK, FailRetryable
  <2>2. run' \in [Keys -> [Attempts -> RunStates]]
    BY <1>8 DEF TypeOK, FailRetryable, RunStates
  <2> QED BY <1>8, <2>1, <2>2 DEF TypeOK, FailRetryable
<1> QED BY <1>1, <1>2, <1>3, <1>4, <1>6, <1>7, <1>8, StepCases

\* The rows always have their types.
THEOREM TypeInvariant == Spec => []TypeOK
<1>1. Init => TypeOK
  BY BoundsAreNatural DEF Init, TypeOK, EventRows, AbsentEvent, RunStates
<1> QED BY <1>1, TypeStep, PTL DEF Spec

---------------------------------------------------------------------------
\* Whole rows

\* A row of this version, as the audit wants it.
WholeRow(k) ==
    /\ event[k].v4
    /\ event[k].seq \in Sequences /\ event[k].pseq \in ProjectSeqs
    /\ ValidEventRow(event[k])
    /\ ConsistentRuns(k)

NoRow(k) == event[k] = AbsentEvent /\ \A n \in Attempts : run[k][n] = "none"

RowsWhole == \A k \in Keys : IF Present(k) THEN WholeRow(k) ELSE NoRow(k)

---------------------------------------------------------------------------
\* Rows

\* What a row may be when its attempt n is ended.
LEMMA FencedRow ==
    ASSUME TypeOK, RowsWhole, NEW k \in Keys, NEW n \in Attempts, Fence(k, n)
    PROVE  /\ Present(k) /\ WholeRow(k)
           /\ event[k].state = "pending" /\ event[k].result = Nil
BY DEF RowsWhole, Fence, Present, WholeRow, ValidEventRow

LEMMA RowsStep ==
    ASSUME TypeOK, RowsWhole, [Next]_vars
    PROVE  RowsWhole'
<1> USE TimesAreIntegers, BoundsAreNatural
<1> USE DEF Attempts, Sequences, ProjectSeqs
<1> USE DEF Present, WholeRow, NoRow
<1>1. CASE UNCHANGED vars
  BY <1>1 DEF RowsWhole, vars, ConsistentRuns, RunsMatch
<1>2. ASSUME NEW k \in Keys, NEW s \in Sequences, ClaimRefused(k, s)
      PROVE  RowsWhole'
  BY <1>2 DEF RowsWhole, ClaimRefused, ConsistentRuns, RunsMatch
<1>3. ASSUME NEW k \in Keys, event' = [event EXCEPT ![k] = event'[k]],
             run' = [run EXCEPT ![k] = run'[k]],
             event'[k].state # "absent", WholeRow(k)'
      PROVE  RowsWhole'
  <2>1. ASSUME NEW l \in Keys, l # k
        PROVE  event'[l] = event[l] /\ run'[l] = run[l]
    BY <1>3, <2>1 DEF TypeOK
  <2>2. ASSUME NEW l \in Keys
        PROVE  (IF Present(l) THEN WholeRow(l) ELSE NoRow(l))'
    <3>1. CASE l = k
      BY <1>3, <3>1
    <3>2. CASE l # k
      BY <2>1, <3>2 DEF RowsWhole, ConsistentRuns, RunsMatch
    <3> QED BY <3>1, <3>2
  <2> QED BY <2>2 DEF RowsWhole
<1>4. ASSUME NEW k \in Keys, NEW s \in Sequences, NEW b \in Bodies, NEW now \in Times,
             ClaimNew(k, s, b, now)
      PROVE  RowsWhole'
  <2>1. PICK n \in ProjectSeqs : event' = [event EXCEPT ![k] = FirstRow(s, b, n, now)]
    BY <1>4 DEF ClaimNew
  <2>2. event'[k] = FirstRow(s, b, n, now)
    BY <2>1 DEF TypeOK
  <2>3. run'[k] = [run[k] EXCEPT ![1] = "running"] /\ run' = [run EXCEPT ![k] = run'[k]]
    BY <1>4 DEF ClaimNew, TypeOK
  <2>4. \A i \in Attempts : run[k][i] = "none"
    BY <1>4 DEF ClaimNew, RowsWhole
  <2>5. 1 \in Attempts /\ run[k] \in [Attempts -> RunStates]
    BY <1>4 DEF ClaimNew, TypeOK
  <2>6. ValidEventRow(event'[k])
    BY <2>2 DEF FirstRow, ValidEventRow
  <2>7. ConsistentRuns(k)'
    BY <2>2, <2>3, <2>4, <2>5 DEF FirstRow, ConsistentRuns, RunsMatch, ExpectedRunState
  <2>8. event'[k].state # "absent" /\ WholeRow(k)'
    BY <2>2, <2>6, <2>7 DEF FirstRow
  <2>9. event' = [event EXCEPT ![k] = event'[k]]
    BY <2>1, <2>2
  <2> QED BY <1>3, <2>3, <2>8, <2>9
<1>5. ASSUME NEW k \in Keys, NEW s \in Sequences, NEW b \in Bodies, NEW now \in Times,
             TakeOver(k, s, b, now)
      PROVE  RowsWhole'
  <2> DEFINE n == event[k].attempt
  <2>1. event' = [event EXCEPT ![k] = event'[k]] /\ event'[k] = RetriedRow(event[k], now)
    BY <1>5 DEF TakeOver, TypeOK
  <2>2. run' = [run EXCEPT ![k] = run'[k]] /\ run'[k] = RunsAfterTakeOver(k, n)
    BY <1>5 DEF TakeOver, TypeOK
  <2>3. WholeRow(k) /\ event[k].state \in {"pending", "failed"} /\ event[k].result = Nil
    BY <1>5 DEF TakeOver, Takeable, RowsWhole, ValidEventRow
  <2>4. run[k] \in [Attempts -> RunStates] /\ n \in Attempts /\ n + 1 \in Attempts
    BY <1>5, <2>3 DEF TakeOver, TypeOK, ConsistentRuns, RunsMatch
  <2>5. \A i \in Attempts :
            run'[k][i] = IF i = n + 1 THEN "running"
                         ELSE IF i = n /\ event[k].state = "pending" THEN "lost_lease"
                         ELSE run[k][i]
    BY <2>2, <2>4 DEF RunsAfterTakeOver
  <2>6. /\ \A i \in Attempts : run[k][i] # "none" <=> i <= n
        /\ \A i \in Attempts : i < n => run[k][i] \in {"failed_retryable", "lost_lease"}
        /\ event[k].state = "failed" => run[k][n] = "failed_retryable"
    BY <2>3 DEF ConsistentRuns, RunsMatch, ExpectedRunState
  <2>7. event'[k].attempt = n + 1 /\ event'[k].state = "pending"
    BY <2>1 DEF RetriedRow
  <2>8. ConsistentRuns(k)'
    <3>1. \A i \in Attempts : run'[k][i] # "none" <=> i <= n + 1
      BY <2>4, <2>5, <2>6
    <3>0. event[k].state \in {"pending", "failed"}
      BY <2>3
    <3>2. ASSUME NEW i \in Attempts, i < n + 1
          PROVE  run'[k][i] \in {"failed_retryable", "lost_lease"}
      <4>1. i \in Int /\ n \in Int /\ i < n + 1
        BY <2>4, <3>2 DEF Attempts
      <4>2. run'[k][i] = IF i = n + 1 THEN "running"
                         ELSE IF i = n /\ event[k].state = "pending" THEN "lost_lease"
                         ELSE run[k][i]
        BY <2>5
      <4>3. CASE i < n
        BY <2>6, <4>1, <4>2, <4>3
      <4>4. CASE i = n /\ event[k].state = "pending"
        BY <4>1, <4>2, <4>4
      <4>5. CASE i = n /\ event[k].state = "failed"
        BY <2>6, <4>1, <4>2, <4>5
      <4> QED BY <3>0, <4>1, <4>3, <4>4, <4>5
    <3>3. run'[k][n + 1] = ExpectedRunState(event'[k])
      BY <2>4, <2>5, <2>7 DEF ExpectedRunState
    <3> QED BY <2>4, <2>7, <3>1, <3>2, <3>3 DEF ConsistentRuns, RunsMatch
  <2>9. ValidEventRow(event'[k])
    BY <2>1, <2>3, <2>4 DEF RetriedRow, ValidEventRow
  <2> QED BY <1>3, <2>1, <2>2, <2>3, <2>8, <2>9 DEF RetriedRow
<1>6. ASSUME NEW k \in Keys, NEW n \in Attempts, NEW r, Complete(k, n, r)
      PROVE  RowsWhole'
  <2>1. event' = [event EXCEPT ![k] = event'[k]] /\ event'[k] = CompletedRow(event[k], r)
    BY <1>6 DEF Complete, TypeOK
  <2>2. run' = [run EXCEPT ![k] = run'[k]] /\ run'[k] = [run[k] EXCEPT ![n] = RunStateOf(r)]
    BY <1>6 DEF Complete, TypeOK
  <2>3. WholeRow(k) /\ event[k].state = "pending" /\ event[k].attempt = n /\ ValidResult(r)
    BY <1>6, FencedRow DEF Complete, Fence
  <2>4. run[k] \in [Attempts -> RunStates]
    BY DEF TypeOK
  <2>5. ConsistentRuns(k)'
    BY <2>1, <2>2, <2>3, <2>4 DEF CompletedRow, ConsistentRuns, RunsMatch, ExpectedRunState, RunStateOf
  <2>6. ValidEventRow(event'[k])
    BY <2>1, <2>3 DEF CompletedRow, ValidEventRow
  <2> QED BY <1>3, <2>1, <2>2, <2>3, <2>5, <2>6 DEF CompletedRow
<1>7. ASSUME NEW k \in Keys, NEW n \in Attempts, EndWithout(k, n)
      PROVE  RowsWhole'
  BY <1>6, <1>7 DEF EndWithout
<1>8. ASSUME NEW k \in Keys, NEW n \in Attempts, NEW slot \in Slots, NEW text \in Texts,
             NEW sup \in SUBSET MemoryIds, CompleteWrite(k, n, slot, text, sup)
      PROVE  RowsWhole'
  BY <1>6, <1>8 DEF CompleteWrite
<1>9. ASSUME NEW k \in Keys, NEW n \in Attempts, FailRetryable(k, n)
      PROVE  RowsWhole'
  <2>1. event' = [event EXCEPT ![k] = event'[k]] /\ event'[k] = FailedRow(event[k])
    BY <1>9 DEF FailRetryable, TypeOK
  <2>2. run' = [run EXCEPT ![k] = run'[k]] /\ run'[k] = [run[k] EXCEPT ![n] = "failed_retryable"]
    BY <1>9 DEF FailRetryable, TypeOK
  <2>3. WholeRow(k) /\ event[k].result = Nil /\ event[k].attempt = n
    BY <1>9, FencedRow DEF FailRetryable, Fence
  <2>4. run[k] \in [Attempts -> RunStates]
    BY DEF TypeOK
  <2>5. ConsistentRuns(k)'
    BY <2>1, <2>2, <2>3, <2>4 DEF FailedRow, ConsistentRuns, RunsMatch, ExpectedRunState
  <2>6. ValidEventRow(event'[k])
    BY <2>1, <2>3 DEF FailedRow, ValidEventRow
  <2> QED BY <1>3, <2>1, <2>2, <2>3, <2>5, <2>6 DEF FailedRow
<1> QED BY <1>1, <1>2, <1>4, <1>5, <1>7, <1>8, <1>9, StepCases

---------------------------------------------------------------------------
\* What every step keeps

\* The step that writes memory m for k: what was checked of the memories it
\* supersedes.
Writes(k, m, slot, text, sup) ==
    /\ m \in MemoryIds /\ ~Stored(m)
    /\ memory' = [memory EXCEPT ![m] =
            [project |-> k.project, slot |-> slot, text |-> text, source |-> k,
             pseq |-> event[k].pseq]]
    /\ relations' = relations \cup Edges(k, m, sup)
    /\ ~StaleFor(k, slot)
    /\ \A q \in sup :
        /\ Active(q)
        /\ memory[q].project = k.project /\ memory[q].slot = slot
        /\ memory[q].pseq < event[k].pseq
        /\ slot \notin LessonSlots

LEMMA WriteFacts ==
    ASSUME TypeOK, NEW k \in Keys, NEW n \in Attempts, NEW slot \in Slots, NEW text \in Texts,
           NEW sup \in SUBSET MemoryIds, CompleteWrite(k, n, slot, text, sup)
    PROVE  \E m \in MemoryIds : Complete(k, n, Write(m, sup)) /\ Writes(k, m, slot, text, sup)
<1>1. PICK m \in MemoryIds :
        /\ ~Stored(m)
        /\ Complete(k, n, Write(m, sup))
        /\ memory' = [memory EXCEPT ![m] =
                [project |-> k.project, slot |-> slot, text |-> text, source |-> k,
                 pseq |-> event[k].pseq]]
        /\ relations' = relations \cup Edges(k, m, sup)
  BY DEF CompleteWrite
<1>2. ~StaleFor(k, slot) /\ SupersessionErrors(k, slot, sup) = {}
  BY DEF CompleteWrite
<1>3. ASSUME NEW q \in sup
      PROVE  /\ Active(q)
             /\ memory[q].project = k.project /\ memory[q].slot = slot
             /\ memory[q].pseq < event[k].pseq
             /\ slot \notin LessonSlots
  <2>1. slot \notin LessonSlots /\ Active(q)
    BY <1>2, <1>3 DEF SupersessionErrors
  <2>2. PriorErrors(k, slot, q) = {}
    BY <1>2, <1>3, <2>1 DEF SupersessionErrors
  <2>3. memory[q] \in MemoryRows
    BY <2>1 DEF TypeOK, Active, Stored
  <2>4. memory[q].pseq \in Int /\ event[k].pseq \in Int
    BY <2>3, BoundsAreNatural DEF TypeOK, MemoryRows, EventRows
  <2> QED BY <2>1, <2>2, <2>4 DEF PriorErrors
<1> QED BY <1>1, <1>2, <1>3 DEF Writes

\* The one row a step may change: it was not completed, and what the first
\* claim gave it stays.
LEMMA RowsKept ==
    ASSUME TypeOK, [Next]_vars
    PROVE  \A k \in Keys :
              /\ event[k].state = "completed" => event'[k] = event[k]
              /\ Present(k) => /\ Present(k)'
                               /\ event'[k].seq = event[k].seq
                               /\ event'[k].body = event[k].body
                               /\ event'[k].pseq = event[k].pseq
<1> USE DEF Present
<1>1. CASE UNCHANGED vars
  BY <1>1 DEF vars
<1>2. ASSUME NEW k \in Keys, NEW row, event' = [event EXCEPT ![k] = row],
             event[k].state # "completed",
             Present(k) => /\ row.state # "absent" /\ row.seq = event[k].seq
                           /\ row.body = event[k].body /\ row.pseq = event[k].pseq
      PROVE  \A l \in Keys :
              /\ event[l].state = "completed" => event'[l] = event[l]
              /\ Present(l) => /\ Present(l)'
                               /\ event'[l].seq = event[l].seq
                               /\ event'[l].body = event[l].body
                               /\ event'[l].pseq = event[l].pseq
  BY <1>2 DEF TypeOK
<1>3. ASSUME NEW k \in Keys, NEW s \in Sequences, NEW b \in Bodies, NEW now \in Times,
             ClaimNew(k, s, b, now)
      PROVE  \E row : /\ event' = [event EXCEPT ![k] = row]
                      /\ ~Present(k)
  BY <1>3 DEF ClaimNew
<1>4. ASSUME NEW k \in Keys, NEW s \in Sequences, NEW b \in Bodies, NEW now \in Times,
             TakeOver(k, s, b, now)
      PROVE  LET row == RetriedRow(event[k], now) IN
             /\ event' = [event EXCEPT ![k] = row]
             /\ event[k].state # "completed"
             /\ row.state # "absent" /\ row.seq = event[k].seq
             /\ row.body = event[k].body /\ row.pseq = event[k].pseq
  BY <1>4 DEF TakeOver, Takeable, RetriedRow
<1>5. ASSUME NEW k \in Keys, NEW n \in Attempts, NEW r, Complete(k, n, r)
      PROVE  LET row == CompletedRow(event[k], r) IN
             /\ event' = [event EXCEPT ![k] = row]
             /\ event[k].state # "completed"
             /\ row.state # "absent" /\ row.seq = event[k].seq
             /\ row.body = event[k].body /\ row.pseq = event[k].pseq
  BY <1>5 DEF Complete, Fence, CompletedRow
<1>6. ASSUME NEW k \in Keys, NEW n \in Attempts, FailRetryable(k, n)
      PROVE  LET row == FailedRow(event[k]) IN
             /\ event' = [event EXCEPT ![k] = row]
             /\ event[k].state # "completed"
             /\ row.state # "absent" /\ row.seq = event[k].seq
             /\ row.body = event[k].body /\ row.pseq = event[k].pseq
  BY <1>6 DEF FailRetryable, Fence, FailedRow
<1>7. CASE \E k \in Keys, s \in Sequences : ClaimRefused(k, s)
  BY <1>7 DEF ClaimRefused
<1>8. CASE \E k \in Keys, n \in Attempts : EndWithout(k, n)
  BY <1>2, <1>5, <1>8 DEF EndWithout
<1>9. CASE \E k \in Keys, n \in Attempts, slot \in Slots, text \in Texts, sup \in SUBSET MemoryIds :
                CompleteWrite(k, n, slot, text, sup)
  BY <1>2, <1>5, <1>9 DEF CompleteWrite
<1> QED BY <1>1, <1>2, <1>3, <1>4, <1>6, <1>7, <1>8, <1>9, StepCases

\* Memories and relations are only added.
LEMMA MemoriesKept ==
    ASSUME TypeOK, [Next]_vars
    PROVE  /\ \A m \in MemoryIds : Stored(m) => memory'[m] = memory[m]
           /\ relations \subseteq relations'
<1>1. CASE UNCHANGED <<memory, relations>>
  BY <1>1
<1>2. ASSUME NEW k \in Keys, NEW n \in Attempts, NEW slot \in Slots, NEW text \in Texts,
             NEW sup \in SUBSET MemoryIds, CompleteWrite(k, n, slot, text, sup)
      PROVE  /\ \A m \in MemoryIds : Stored(m) => memory'[m] = memory[m]
             /\ relations \subseteq relations'
  BY <1>2 DEF CompleteWrite, TypeOK
<1> QED BY <1>1, <1>2, StepCases DEF vars, ClaimRefused, ClaimNew, TakeOver, EndWithout,
                                      FailRetryable

---------------------------------------------------------------------------
\* What startup audits

LEMMA UniqueStep ==
    ASSUME TypeOK, UniqueProjectSeqs, [Next]_vars
    PROVE  UniqueProjectSeqs'
<1>1. CASE \A k \in Keys : Present(k)' => Present(k)
  BY <1>1, RowsKept DEF UniqueProjectSeqs
<1>2. ASSUME NEW k \in Keys, NEW s \in Sequences, NEW b \in Bodies, NEW now \in Times,
             ClaimNew(k, s, b, now)
      PROVE  UniqueProjectSeqs'
  <2>1. PICK n \in ProjectSeqs :
            NextProjectSeq(k, n) /\ event' = [event EXCEPT ![k] = FirstRow(s, b, n, now)]
    BY <1>2 DEF ClaimNew
  <2>2. event'[k].pseq = n /\ \A l \in Keys : l # k => event'[l] = event[l]
    BY <2>1 DEF FirstRow, TypeOK
  <2>3. \A l \in Keys : Present(l) /\ l.project = k.project => event[l].pseq < n
    BY <2>1 DEF NextProjectSeq
  <2>4. \A l \in Keys : event[l].pseq \in Int
    BY BoundsAreNatural DEF TypeOK, EventRows
  <2> QED BY <2>2, <2>3, <2>4 DEF UniqueProjectSeqs, Present, ProjectSeqs
<1>3. ASSUME NEW k \in Keys, NEW n \in Attempts, NEW r, Complete(k, n, r)
      PROVE  \A l \in Keys : Present(l)' => Present(l)
  BY <1>3 DEF Complete, Fence, Present, TypeOK
<1>4. CASE UNCHANGED vars \/ \E k \in Keys, s \in Sequences : ClaimRefused(k, s)
  BY <1>1, <1>4 DEF vars, ClaimRefused, Present
<1>5. CASE \E k \in Keys, s \in Sequences, b \in Bodies, now \in Times : TakeOver(k, s, b, now)
  BY <1>1, <1>5 DEF TakeOver, Takeable, Present, TypeOK
<1>6. CASE \E k \in Keys, n \in Attempts : FailRetryable(k, n)
  BY <1>1, <1>6 DEF FailRetryable, Fence, Present, TypeOK
<1>7. CASE \E k \in Keys, n \in Attempts : EndWithout(k, n)
  BY <1>1, <1>3, <1>7 DEF EndWithout
<1>8. CASE \E k \in Keys, n \in Attempts, slot \in Slots, text \in Texts, sup \in SUBSET MemoryIds :
                CompleteWrite(k, n, slot, text, sup)
  BY <1>1, <1>3, <1>8 DEF CompleteWrite
<1> QED BY <1>2, <1>4, <1>5, <1>6, <1>7, <1>8, StepCases

LEMMA ForeignKeysStep ==
    ASSUME TypeOK, RowsWhole, ForeignKeysHold, [Next]_vars
    PROVE  ForeignKeysHold'
<1>1. \A k \in Keys, n \in Attempts : run'[k][n] # "none" => Present(k)'
  BY RowsStep DEF RowsWhole, NoRow
<1>2. (\A k \in Keys : Present(k) => Present(k)') /\ (\A m \in MemoryIds : Stored(m) => Stored(m)')
  BY RowsKept, MemoriesKept DEF Stored
<1>3. CASE UNCHANGED <<memory, relations>>
  BY <1>1, <1>2, <1>3 DEF ForeignKeysHold, Stored, TypeOK, MemoryRows, Relations
<1>4. ASSUME NEW k \in Keys, NEW n \in Attempts, NEW slot \in Slots, NEW text \in Texts,
             NEW sup \in SUBSET MemoryIds, CompleteWrite(k, n, slot, text, sup)
      PROVE  ForeignKeysHold'
  <2>1. PICK m \in MemoryIds : Complete(k, n, Write(m, sup)) /\ Writes(k, m, slot, text, sup)
    BY <1>4, WriteFacts
  <2>2. Present(k)'
    BY <1>2, <2>1 DEF Complete, Fence, Present
  <2>3. memory'[m].source = k /\ \A l \in MemoryIds : l # m => memory'[l] = memory[l]
    BY <2>1 DEF Writes, TypeOK
  <2>4. Stored(m)'
    <3>1. [project |-> k.project, slot |-> slot, text |-> text, source |-> k,
           pseq |-> event[k].pseq] \in MemoryRows
      BY DEF TypeOK, EventRows, MemoryRows, Keys
    <3> QED BY <2>1, <3>1, NilIsNoValue DEF Writes, Stored, TypeOK
  <2>5. \A l \in MemoryIds : (Stored(l) => Present(memory[l].source))'
    BY <1>2, <2>2, <2>3 DEF ForeignKeysHold, Stored, TypeOK, MemoryRows
  <2>6. \A r \in relations' : Stored(r.prior)' /\ Stored(r.successor)' /\ Present(r.source)'
    <3>1. ASSUME NEW r \in relations
          PROVE  Stored(r.prior)' /\ Stored(r.successor)' /\ Present(r.source)'
      BY <1>2, <3>1 DEF ForeignKeysHold, TypeOK, Relations
    <3>2. ASSUME NEW r \in Edges(k, m, sup)
          PROVE  Stored(r.prior)' /\ Stored(r.successor)' /\ Present(r.source)'
      BY <1>2, <2>1, <2>2, <2>4, <3>2 DEF Edges, Writes, Active
    <3> QED BY <2>1, <3>1, <3>2 DEF Writes, Stored, Present
  <2> QED BY <1>1, <2>5, <2>6 DEF ForeignKeysHold
<1> QED BY <1>3, <1>4, StepCases DEF vars, ClaimRefused, ClaimNew, TakeOver, EndWithout,
                                      FailRetryable

LEMMA OneSuccessorStep ==
    ASSUME TypeOK, OneSuccessor, [Next]_vars
    PROVE  OneSuccessor'
<1>1. CASE UNCHANGED relations
  BY <1>1 DEF OneSuccessor
<1>2. ASSUME NEW k \in Keys, NEW n \in Attempts, NEW slot \in Slots, NEW text \in Texts,
             NEW sup \in SUBSET MemoryIds, CompleteWrite(k, n, slot, text, sup)
      PROVE  OneSuccessor'
  <2>1. PICK m \in MemoryIds : Writes(k, m, slot, text, sup)
    BY <1>2, WriteFacts
  <2>2. relations' = relations \cup Edges(k, m, sup)
    BY <2>1 DEF Writes
  <2>3. \A r \in relations, e \in Edges(k, m, sup) : r.prior # e.prior
    BY <2>1 DEF Writes, Edges, Active, Superseded
  <2>4. \A d, e \in Edges(k, m, sup) : d.prior = e.prior => d = e
    BY DEF Edges
  <2> QED BY <2>2, <2>3, <2>4 DEF OneSuccessor
<1> QED BY <1>1, <1>2, StepCases DEF vars, ClaimRefused, ClaimNew, TakeOver, EndWithout,
                                      FailRetryable

LEMMA AuditStep ==
    ASSUME TypeOK, RowsWhole, StartupAccepts, [Next]_vars
    PROVE  StartupAccepts'
<1>1. UniqueProjectSeqs' /\ ForeignKeysHold' /\ OneSuccessor'
  BY UniqueStep, ForeignKeysStep, OneSuccessorStep DEF StartupAccepts
<1>2. \A k \in Keys : (Present(k) /\ event[k].v4 => ValidEventRow(event[k]) /\ ConsistentRuns(k))'
  BY RowsStep DEF RowsWhole, WholeRow
<1> QED BY <1>1, <1>2 DEF StartupAccepts

---------------------------------------------------------------------------
\* Sessions

\* SessionsInOrder for one session, the part that is about its rows.
SessionInOrder(p, s) ==
    /\ \A k \in Keys : InSession(k, p, s) /\ Present(k) =>
        /\ event[k].state = "completed" <=> event[k].seq < cursor[p][s]
        /\ event[k].seq <= cursor[p][s]
        /\ event[k].seq >= 1
    /\ \A k, l \in Keys :
        /\ InSession(k, p, s) /\ InSession(l, p, s)
        /\ Present(k) /\ Present(l) /\ event[k].seq = event[l].seq
        => k = l
    /\ \A i \in Sequences : i < cursor[p][s] =>
        \E k \in Keys : InSession(k, p, s) /\ Present(k) /\ event[k].seq = i

\* The session keeps its rows, their completion and their sequence numbers,
\* and its cursor, unless that is created at 1.
Unmoved(p, s) ==
    /\ \A k \in Keys : InSession(k, p, s) =>
        /\ Present(k)' <=> Present(k)
        /\ event'[k].state = "completed" <=> event[k].state = "completed"
        /\ Present(k) => event'[k].seq = event[k].seq
    /\ cursor'[p][s] = cursor[p][s] \/ (cursor[p][s] = 0 /\ cursor'[p][s] = 1)

LEMMA SessionUnmoved ==
    ASSUME TypeOK, NEW p \in Projects, NEW s \in Sessions, SessionInOrder(p, s), Unmoved(p, s)
    PROVE  SessionInOrder(p, s)'
<1>1. CASE cursor'[p][s] = cursor[p][s]
  <2>1. \A k \in Keys : InSession(k, p, s) /\ Present(k)' =>
            /\ Present(k) /\ event'[k].seq = event[k].seq
            /\ event'[k].state = "completed" <=> event[k].state = "completed"
    BY DEF Unmoved
  <2>2. \A k \in Keys : InSession(k, p, s) /\ Present(k) =>
            Present(k)' /\ event'[k].seq = event[k].seq
    BY DEF Unmoved
  <2> QED BY <1>1, <2>1, <2>2 DEF SessionInOrder, InSession
<1>2. CASE cursor[p][s] = 0 /\ cursor'[p][s] = 1
  <2>1. \A k \in Keys : event[k].seq \in Int
    BY BoundsAreNatural DEF TypeOK, EventRows
  <2>2. \A k \in Keys : InSession(k, p, s) => ~Present(k)
    BY <1>2, <2>1 DEF SessionInOrder
  <2>3. \A k \in Keys : InSession(k, p, s) => ~Present(k)'
    BY <2>2 DEF Unmoved
  <2> QED BY <1>2, <2>3 DEF SessionInOrder, Sequences, InSession
<1> QED BY <1>1, <1>2 DEF Unmoved

LEMMA SessionsStep ==
    ASSUME TypeOK, RowsWhole, SessionsInOrder, [Next]_vars
    PROVE  SessionsInOrder'
<1> USE BoundsAreNatural
<1> SUFFICES ASSUME NEW p \in Projects, NEW q \in Sessions
             PROVE  SessionInOrder(p, q)'
  BY DEF SessionsInOrder, SessionInOrder
<1>1. SessionInOrder(p, q)
  BY DEF SessionsInOrder, SessionInOrder
<1>2. cursor[p][q] \in 0..(MaxSequence + 1) /\ \A k \in Keys : event[k].seq \in Int
  BY DEF TypeOK, EventRows
<1>3. CASE UNCHANGED vars
  BY <1>1, <1>3, SessionUnmoved DEF vars, Present, Unmoved
<1>4. ASSUME NEW k \in Keys, NEW s \in Sequences, ClaimRefused(k, s)
      PROVE  SessionInOrder(p, q)'
  <2>1. cursor'[p][q] = cursor[p][q] \/ (cursor[p][q] = 0 /\ cursor'[p][q] = 1)
    BY <1>4, <1>2 DEF ClaimRefused, Expected, TypeOK, Keys
  <2> QED BY <1>1, <1>4, <2>1, SessionUnmoved DEF ClaimRefused, Present, Unmoved
<1>5. ASSUME NEW k \in Keys, NEW s \in Sequences, NEW b \in Bodies, NEW now \in Times,
             ClaimNew(k, s, b, now)
      PROVE  SessionInOrder(p, q)'
  <2>1. cursor'[p][q] = cursor[p][q] \/ (cursor[p][q] = 0 /\ cursor'[p][q] = 1)
    BY <1>5, <1>2 DEF ClaimNew, Expected, TypeOK, Keys
  <2>2. PICK n \in ProjectSeqs : event' = [event EXCEPT ![k] = FirstRow(s, b, n, now)]
    BY <1>5 DEF ClaimNew
  <2>3. \A l \in Keys : l # k => event'[l] = event[l]
    BY <2>2 DEF TypeOK
  <2>4. CASE ~InSession(k, p, q)
    BY <1>1, <2>1, <2>3, <2>4, SessionUnmoved DEF InSession, Present, Unmoved
  <2>5. CASE InSession(k, p, q)
    <3>1. /\ Present(k)' /\ event'[k].state # "completed" /\ event'[k].seq = cursor'[p][q]
          /\ cursor'[p][q] \in Int /\ cursor'[p][q] >= 1
      <4>1. event'[k] = FirstRow(s, b, n, now)
        BY <2>2 DEF TypeOK
      <4>2. s = Expected(p, q) /\ cursor'[p][q] = Expected(p, q)
        BY <1>5, <2>5 DEF ClaimNew, Claimable, InSession, TypeOK
      <4>3. Expected(p, q) \in Int /\ Expected(p, q) >= 1
        BY <1>2 DEF Expected
      <4> QED BY <4>1, <4>2, <4>3 DEF FirstRow, Present
    <3>2. \A l \in Keys : InSession(l, p, q) /\ Present(l) => event[l].state = "completed"
      <4>1. \A l \in Keys : InSession(l, p, q) /\ Present(l) =>
                WholeRow(l) /\ (Incomplete(l) => event[l].failure = "terminal")
        BY <1>5, <2>5 DEF ClaimNew, Claimable, Blocked, RowsWhole, InSession
      <4> QED BY <4>1 DEF WholeRow, ValidEventRow, Incomplete
    <3>3. \A l \in Keys : InSession(l, p, q) /\ Present(l) =>
                event[l].seq < cursor'[p][q] /\ event[l].seq >= 1
      BY <1>1, <1>2, <2>1, <3>2 DEF SessionInOrder
    <3>4. \A i \in Sequences : i < cursor'[p][q] =>
                \E l \in Keys : l # k /\ InSession(l, p, q) /\ Present(l) /\ event[l].seq = i
      <4>1. ~Present(k)
        BY <1>5 DEF ClaimNew
      <4> QED BY <1>1, <1>2, <2>1, <4>1 DEF SessionInOrder, Sequences
    <3>5. \A l \in Keys : l # k => (Present(l)' <=> Present(l))
      BY <2>3 DEF Present
    <3>6. \A l \in Keys : InSession(l, p, q) /\ Present(l)' =>
            /\ event'[l].state = "completed" <=> event'[l].seq < cursor'[p][q]
            /\ event'[l].seq <= cursor'[p][q] /\ event'[l].seq >= 1
      BY <1>2, <2>3, <3>1, <3>2, <3>3, <3>5
    <3>7. \A l, j \in Keys :
            /\ InSession(l, p, q) /\ InSession(j, p, q)
            /\ Present(l)' /\ Present(j)' /\ event'[l].seq = event'[j].seq
            => l = j
      BY <1>1, <1>2, <2>3, <3>1, <3>3, <3>5 DEF SessionInOrder
    <3>8. \A i \in Sequences : i < cursor'[p][q] =>
            \E l \in Keys : InSession(l, p, q) /\ Present(l)' /\ event'[l].seq = i
      BY <2>3, <3>4, <3>5
    <3> QED BY <3>6, <3>7, <3>8 DEF SessionInOrder, InSession
  <2> QED BY <2>4, <2>5
<1>6. ASSUME NEW k \in Keys, NEW s \in Sequences, NEW b \in Bodies, NEW now \in Times,
             TakeOver(k, s, b, now)
      PROVE  SessionInOrder(p, q)'
  <2>1. /\ event' = [event EXCEPT ![k] = RetriedRow(event[k], now)]
        /\ event[k].state \in {"pending", "failed"} /\ UNCHANGED cursor
    BY <1>6 DEF TakeOver, Takeable
  <2>2. \A l \in Keys : /\ Present(l)' <=> Present(l)
                        /\ event'[l].state = "completed" <=> event[l].state = "completed"
                        /\ event'[l].seq = event[l].seq
    BY <2>1 DEF TypeOK, RetriedRow, Present
  <2> QED BY <1>1, <2>1, <2>2, SessionUnmoved DEF Unmoved
<1>7. ASSUME NEW k \in Keys, NEW n \in Attempts, NEW r, Complete(k, n, r)
      PROVE  SessionInOrder(p, q)'
  <2>1. /\ event' = [event EXCEPT ![k] = CompletedRow(event[k], r)]
        /\ event[k].state = "pending" /\ cursor' = CursorAfter(k)
    BY <1>7 DEF Complete, Fence
  <2>2. \A l \in Keys : l # k => event'[l] = event[l]
    BY <2>1 DEF TypeOK
  <2>3. CASE ~InSession(k, p, q)
    <3>1. cursor'[p][q] = cursor[p][q]
      BY <2>1, <2>3 DEF CursorAfter, TypeOK, InSession, Keys
    <3> QED BY <1>1, <2>2, <2>3, <3>1, SessionUnmoved DEF InSession, Present, Unmoved
  <2>4. CASE InSession(k, p, q)
    <3>1. Present(k) /\ event[k].seq = cursor[p][q] /\ cursor[p][q] >= 1
      BY <1>1, <1>2, <2>1, <2>4 DEF SessionInOrder, Present
    <3>2. cursor'[p][q] = cursor[p][q] + 1
      BY <2>1, <2>4, <3>1 DEF CursorAfter, TypeOK, InSession, Keys
    <3>3. Present(k)' /\ event'[k].state = "completed" /\ event'[k].seq = cursor[p][q]
      BY <2>1, <3>1 DEF CompletedRow, Present, TypeOK
    <3>4. \A l \in Keys : l # k /\ InSession(l, p, q) /\ Present(l) =>
                event[l].seq < cursor[p][q] /\ event[l].state = "completed"
      BY <1>1, <1>2, <2>4, <3>1 DEF SessionInOrder
    <3>5. \A l \in Keys : l # k => (Present(l)' <=> Present(l))
      BY <2>2 DEF Present
    <3>6. \A l \in Keys : InSession(l, p, q) /\ Present(l)' =>
            /\ event'[l].state = "completed" /\ event'[l].seq < cursor'[p][q]
            /\ event'[l].seq <= cursor'[p][q] /\ event'[l].seq >= 1
      BY <1>1, <1>2, <2>2, <3>1, <3>2, <3>3, <3>4, <3>5 DEF SessionInOrder
    <3>7. \A l, j \in Keys :
            /\ InSession(l, p, q) /\ InSession(j, p, q)
            /\ Present(l)' /\ Present(j)' /\ event'[l].seq = event'[j].seq
            => l = j
      BY <1>1, <1>2, <2>2, <3>1, <3>3, <3>4, <3>5 DEF SessionInOrder
    <3>8. \A i \in Sequences : i < cursor'[p][q] =>
            \E l \in Keys : InSession(l, p, q) /\ Present(l)' /\ event'[l].seq = i
      <4>1. ASSUME NEW i \in Sequences, i < cursor[p][q]
            PROVE  \E l \in Keys : InSession(l, p, q) /\ Present(l)' /\ event'[l].seq = i
        BY <1>1, <2>2, <2>4, <3>1, <3>3, <3>5, <4>1 DEF SessionInOrder
      <4> QED BY <1>2, <2>4, <3>2, <3>3, <4>1 DEF Sequences
    <3> QED BY <3>6, <3>7, <3>8 DEF SessionInOrder, InSession
  <2> QED BY <2>3, <2>4
<1>8. ASSUME NEW k \in Keys, NEW n \in Attempts, FailRetryable(k, n)
      PROVE  SessionInOrder(p, q)'
  <2>1. /\ event' = [event EXCEPT ![k] = FailedRow(event[k])]
        /\ event[k].state = "pending" /\ UNCHANGED cursor
    BY <1>8 DEF FailRetryable, Fence
  <2>2. \A l \in Keys : /\ Present(l)' <=> Present(l)
                        /\ event'[l].state = "completed" <=> event[l].state = "completed"
                        /\ event'[l].seq = event[l].seq
    BY <2>1 DEF TypeOK, FailedRow, Present
  <2> QED BY <1>1, <2>1, <2>2, SessionUnmoved DEF Unmoved
<1>9. CASE \E k \in Keys, n \in Attempts : EndWithout(k, n)
  BY <1>7, <1>9 DEF EndWithout
<1>10. CASE \E k \in Keys, n \in Attempts, slot \in Slots, text \in Texts, sup \in SUBSET MemoryIds :
                CompleteWrite(k, n, slot, text, sup)
  BY <1>7, <1>10 DEF CompleteWrite
<1> QED BY <1>3, <1>4, <1>5, <1>6, <1>8, <1>9, <1>10, StepCases

---------------------------------------------------------------------------
\* Memories

LEMMA RememberedStep ==
    ASSUME TypeOK, RowsWhole, RememberedOnce, [Next]_vars
    PROVE  RememberedOnce'
<1>1. \A k \in Keys : event[k].state = "completed" => event'[k] = event[k]
  BY RowsKept
<1>2. \A m \in MemoryIds : Stored(m) => memory[m].source \in Keys
  BY DEF TypeOK, Stored, MemoryRows
<1>3. \A r \in relations : r.source \in Keys
  BY DEF TypeOK, Relations
<1>4. \A k \in Keys : event[k].result # Nil => event[k].result \in Results
  BY DEF TypeOK, EventRows
<1>5. ASSUME UNCHANGED <<memory, relations>>,
             \A k \in Keys : event'[k].state = "completed" /\ event'[k].result.op = "write"
                                => event[k].state = "completed"
      PROVE  RememberedOnce'
  BY <1>1, <1>2, <1>3, <1>5 DEF RememberedOnce, Stored
<1>6. CASE UNCHANGED vars \/ \E k \in Keys, s \in Sequences : ClaimRefused(k, s)
  BY <1>5, <1>6 DEF vars, ClaimRefused
<1>7. CASE \E k \in Keys, s \in Sequences, b \in Bodies, now \in Times : ClaimNew(k, s, b, now)
  <2>1. \A k \in Keys : event'[k].state = "completed" => event[k].state = "completed"
    BY <1>7 DEF ClaimNew, FirstRow, TypeOK
  <2> QED BY <1>5, <1>7, <2>1 DEF ClaimNew
<1>8. CASE \E k \in Keys, s \in Sequences, b \in Bodies, now \in Times : TakeOver(k, s, b, now)
  <2>1. \A k \in Keys : event'[k].state = "completed" => event[k].state = "completed"
    BY <1>8 DEF TakeOver, RetriedRow, TypeOK
  <2> QED BY <1>5, <1>8, <2>1 DEF TakeOver
<1>9. CASE \E k \in Keys, n \in Attempts : FailRetryable(k, n)
  <2>1. \A k \in Keys : event'[k].state = "completed" => event[k].state = "completed"
    BY <1>9 DEF FailRetryable, FailedRow, TypeOK
  <2> QED BY <1>5, <1>9, <2>1 DEF FailRetryable
<1>10. CASE \E k \in Keys, n \in Attempts : EndWithout(k, n)
  <2>1. PICK k \in Keys, n \in Attempts, r \in Results :
            r.op # "write" /\ Complete(k, n, r) /\ UNCHANGED <<memory, relations>>
    BY <1>10 DEF EndWithout
  <2>2. event'[k].result = r /\ \A l \in Keys : l # k => event'[l] = event[l]
    BY <2>1 DEF Complete, CompletedRow, TypeOK
  <2> QED BY <1>5, <2>1, <2>2
<1>11. ASSUME NEW k \in Keys, NEW n \in Attempts, NEW slot \in Slots, NEW text \in Texts,
              NEW sup \in SUBSET MemoryIds, CompleteWrite(k, n, slot, text, sup)
       PROVE  RememberedOnce'
  <2>1. PICK m \in MemoryIds : Complete(k, n, Write(m, sup)) /\ Writes(k, m, slot, text, sup)
    BY <1>11, WriteFacts
  <2>2. event[k].state = "pending" /\ \A l \in Keys : l # k => event'[l] = event[l]
    BY <2>1 DEF Complete, Fence, TypeOK
  <2>3. /\ event'[k].state = "completed" /\ event'[k].pseq = event[k].pseq
        /\ event'[k].result = Write(m, sup)
    BY <2>1 DEF Complete, CompletedRow, TypeOK
  <2>4. /\ memory'[m].source = k /\ memory'[m].project = k.project
        /\ memory'[m].pseq = event[k].pseq /\ Stored(m)'
        /\ \A l \in MemoryIds : l # m => memory'[l] = memory[l]
    <3>1. [project |-> k.project, slot |-> slot, text |-> text, source |-> k,
           pseq |-> event[k].pseq] \in MemoryRows
      BY DEF TypeOK, EventRows, MemoryRows, Keys
    <3> QED BY <2>1, <3>1, NilIsNoValue DEF Writes, Stored, TypeOK
  <2>5. relations' = relations \cup Edges(k, m, sup)
    BY <2>1 DEF Writes
  <2>6. /\ \A l \in MemoryIds : Stored(l) => memory[l].source # k
        /\ \A r \in relations : r.source # k
    BY <2>2 DEF RememberedOnce
  <2>7. ASSUME NEW l \in MemoryIds, Stored(l)'
        PROVE  LET row == event'[memory'[l].source] IN
               /\ row.state = "completed"
               /\ row.result.op = "write"
               /\ row.result.memory = l
               /\ memory'[l].project = memory'[l].source.project
               /\ memory'[l].pseq = row.pseq
    <3>1. CASE l = m
      BY <2>3, <2>4, <3>1 DEF Write
    <3>2. CASE l # m
      BY <1>1, <1>2, <2>4, <2>7, <3>2 DEF RememberedOnce, Stored
    <3> QED BY <3>1, <3>2
  <2>8. ASSUME NEW l \in Keys, event'[l].state = "completed", event'[l].result.op = "write"
        PROVE  /\ memory'[event'[l].result.memory] # Nil
               /\ memory'[event'[l].result.memory].source = l
               /\ {r \in relations' : r.source = l} =
                    {[prior |-> q, successor |-> event'[l].result.memory, source |-> l] :
                        q \in event'[l].result.superseded}
    <3>1. CASE l = k
      <4>1. {r \in relations' : r.source = k} = Edges(k, m, sup)
        BY <2>5, <2>6 DEF Edges
      <4>2. event'[k].result.memory = m /\ event'[k].result.superseded = sup
        BY <2>3 DEF Write
      <4> QED BY <2>4, <3>1, <4>1, <4>2 DEF Edges, Stored
    <3>2. CASE l # k
      <4>1. event[l].state = "completed" /\ event[l].result.op = "write" /\ event'[l] = event[l]
        BY <2>2, <2>8, <3>2
      <4>2. /\ Stored(event[l].result.memory) /\ memory[event[l].result.memory].source = l
            /\ {r \in relations : r.source = l} =
                    {[prior |-> q, successor |-> event[l].result.memory, source |-> l] :
                        q \in event[l].result.superseded}
        BY <4>1 DEF RememberedOnce
      <4>3. {r \in relations' : r.source = l} = {r \in relations : r.source = l}
        BY <2>5, <3>2 DEF Edges
      <4>4. event[l].result.memory \in MemoryIds
        <5>1. ValidResult(event[l].result)
          BY <4>1 DEF RowsWhole, WholeRow, ValidEventRow, Present
        <5> QED BY <4>1, <5>1 DEF ValidResult, Results
      <4>5. event[l].result.memory # m
        BY <2>1, <4>2 DEF Writes
      <4>6. /\ memory'[event[l].result.memory] # Nil
            /\ memory'[event[l].result.memory].source = l
        BY <2>4, <4>2, <4>4, <4>5 DEF Stored
      <4> QED BY <4>1, <4>2, <4>3, <4>6
    <3> QED BY <3>1, <3>2
  <2>9. \A r \in relations' : event'[r.source].state = "completed"
                                /\ event'[r.source].result.op = "write"
    <3>1. ASSUME NEW r \in relations
          PROVE  event'[r.source].state = "completed" /\ event'[r.source].result.op = "write"
      BY <1>1, <1>3, <3>1 DEF RememberedOnce
    <3>2. ASSUME NEW r \in Edges(k, m, sup)
          PROVE  event'[r.source].state = "completed" /\ event'[r.source].result.op = "write"
      BY <2>3, <3>2 DEF Edges, Write
    <3> QED BY <2>5, <3>1, <3>2
  <2> QED BY <2>7, <2>8, <2>9 DEF RememberedOnce, Stored
<1> QED BY <1>6, <1>7, <1>8, <1>9, <1>10, <1>11, StepCases

LEMMA NewestStep ==
    ASSUME TypeOK, ForeignKeysHold, NewestIsActive, [Next]_vars
    PROVE  NewestIsActive'
<1>1. CASE UNCHANGED <<memory, relations>>
  BY <1>1 DEF NewestIsActive, Active, Stored, Superseded
<1>2. ASSUME NEW k \in Keys, NEW n \in Attempts, NEW slot \in Slots, NEW text \in Texts,
             NEW sup \in SUBSET MemoryIds, CompleteWrite(k, n, slot, text, sup)
      PROVE  NewestIsActive'
  <2>1. PICK m \in MemoryIds : Writes(k, m, slot, text, sup)
    BY <1>2, WriteFacts
  <2>2. /\ memory'[m].project = k.project /\ memory'[m].slot = slot
        /\ memory'[m].pseq = event[k].pseq /\ Stored(m)'
        /\ \A l \in MemoryIds : l # m => memory'[l] = memory[l]
    <3>1. [project |-> k.project, slot |-> slot, text |-> text, source |-> k,
           pseq |-> event[k].pseq] \in MemoryRows
      BY DEF TypeOK, EventRows, MemoryRows, Keys
    <3> QED BY <2>1, <3>1, NilIsNoValue DEF Writes, Stored, TypeOK
  <2>3. /\ ~Stored(m) /\ relations' = relations \cup Edges(k, m, sup)
        /\ m \notin sup
    BY <2>1 DEF Writes, Active
  <2>4. \A r \in relations' :
            /\ memory'[r.prior].project = memory'[r.successor].project
            /\ memory'[r.prior].slot = memory'[r.successor].slot
            /\ memory'[r.prior].pseq < memory'[r.successor].pseq
            /\ memory'[r.successor].slot \notin LessonSlots
    <3>1. \A r \in relations :
            /\ memory'[r.prior].project = memory'[r.successor].project
            /\ memory'[r.prior].slot = memory'[r.successor].slot
            /\ memory'[r.prior].pseq < memory'[r.successor].pseq
            /\ memory'[r.successor].slot \notin LessonSlots
      <4>1. ASSUME NEW r \in relations
            PROVE  memory'[r.prior] = memory[r.prior] /\ memory'[r.successor] = memory[r.successor]
        BY <2>2, <2>3, <4>1 DEF ForeignKeysHold, TypeOK, Relations
      <4> QED BY <4>1 DEF NewestIsActive
    <3>2. \A r \in Edges(k, m, sup) :
            /\ memory'[r.prior].project = memory'[r.successor].project
            /\ memory'[r.prior].slot = memory'[r.successor].slot
            /\ memory'[r.prior].pseq < memory'[r.successor].pseq
            /\ memory'[r.successor].slot \notin LessonSlots
      BY <2>1, <2>2, <2>3 DEF Edges, Writes
    <3> QED BY <2>3, <3>1, <3>2
  <2>5. \A l \in MemoryIds : Active(l) /\ l \notin sup => Active(l)'
    BY <2>2, <2>3 DEF Active, Stored, Superseded, Edges
  <2>6. Active(m)'
    <3>1. \A r \in relations : r.prior # m
      BY <2>3 DEF ForeignKeysHold
    <3>2. \A r \in Edges(k, m, sup) : r.prior # m
      BY <2>3 DEF Edges
    <3> QED BY <2>2, <2>3, <3>1, <3>2 DEF Active, Superseded
  <2>7. \A l \in MemoryIds : Stored(l) => memory[l].pseq \in Int
    BY BoundsAreNatural DEF TypeOK, Stored, MemoryRows
  <2>8. event[k].pseq \in Int
    BY BoundsAreNatural DEF TypeOK, EventRows
  <2>9. ASSUME NEW j \in MemoryIds, Stored(j)'
        PROVE  \E l \in MemoryIds :
                /\ Active(l)'
                /\ memory'[l].project = memory'[j].project
                /\ memory'[l].slot = memory'[j].slot
                /\ memory'[l].pseq >= memory'[j].pseq
    <3>1. CASE j = m
      BY <2>2, <2>6, <2>8, <3>1
    <3>2. CASE j # m
      <4>1. Stored(j) /\ memory'[j] = memory[j]
        BY <2>2, <2>9, <3>2 DEF Stored
      <4>2. PICK l \in MemoryIds :
                /\ Active(l)
                /\ memory[l].project = memory[j].project
                /\ memory[l].slot = memory[j].slot
                /\ memory[l].pseq >= memory[j].pseq
        BY <4>1 DEF NewestIsActive
      <4>3. l # m /\ memory'[l] = memory[l] /\ Stored(l)
        BY <2>2, <2>3, <4>2 DEF Active
      <4>4. CASE memory[j].project = k.project /\ memory[j].slot = slot
        <5>1. ~(memory[l].pseq > event[k].pseq)
          BY <2>1, <4>2, <4>4 DEF Writes, StaleFor, NewerActive
        <5>2. event[k].pseq >= memory[j].pseq
          BY <2>7, <2>8, <4>1, <4>2, <4>3, <5>1
        <5> QED BY <2>2, <2>6, <4>1, <4>4, <5>2
      <4>5. CASE ~(memory[j].project = k.project /\ memory[j].slot = slot)
        <5>1. l \notin sup
          BY <2>1, <4>2, <4>5 DEF Writes
        <5> QED BY <2>5, <4>1, <4>2, <4>3, <5>1
      <4> QED BY <4>4, <4>5
    <3> QED BY <3>1, <3>2
  <2> QED BY <2>4, <2>9 DEF NewestIsActive
<1> QED BY <1>1, <1>2, StepCases DEF vars, ClaimRefused, ClaimNew, TakeOver, EndWithout,
                                      FailRetryable

---------------------------------------------------------------------------
\* The inductive invariant: every safety property of the rows, and that
\* rows are whole, which none of them says of pending and failed events.
Inductive ==
    /\ TypeOK
    /\ RowsWhole
    /\ AlwaysRestartable
    /\ SessionsInOrder
    /\ RememberedOnce
    /\ NewestIsActive

LEMMA InductiveInit == Init => Inductive
<1> SUFFICES ASSUME Init PROVE Inductive
  OBVIOUS
<1>1. TypeOK
  BY BoundsAreNatural DEF Init, TypeOK, EventRows, AbsentEvent, RunStates
<1>2. \A k \in Keys : ~Present(k) /\ event[k] = AbsentEvent
                        /\ \A n \in Attempts : run[k][n] = "none"
  BY DEF Init, Present, AbsentEvent
<1>3. \A m \in MemoryIds : ~Stored(m)
  BY DEF Init, Stored
<1>4. RowsWhole
  BY <1>2 DEF RowsWhole, NoRow
<1>5. AlwaysRestartable
  BY <1>2, <1>3 DEF Init, AlwaysRestartable, StartupAccepts, UniqueProjectSeqs, ForeignKeysHold,
                    OneSuccessor
<1>6. SessionsInOrder
  BY <1>2 DEF Init, SessionsInOrder, Sequences
<1>7. RememberedOnce
  BY <1>2, <1>3 DEF Init, RememberedOnce, AbsentEvent
<1>8. NewestIsActive
  BY <1>3 DEF Init, NewestIsActive
<1> QED BY <1>1, <1>4, <1>5, <1>6, <1>7, <1>8 DEF Inductive

LEMMA InductiveStep == Inductive /\ [Next]_vars => Inductive'
<1> SUFFICES ASSUME Inductive, [Next]_vars PROVE Inductive'
  OBVIOUS
<1>1. TypeOK'
  BY TypeStep DEF Inductive
<1>2. RowsWhole'
  BY RowsStep DEF Inductive
<1>3. AlwaysRestartable'
  BY AuditStep DEF Inductive, AlwaysRestartable
<1>4. SessionsInOrder'
  BY SessionsStep DEF Inductive
<1>5. RememberedOnce'
  BY RememberedStep DEF Inductive
<1>6. NewestIsActive'
  BY NewestStep DEF Inductive, AlwaysRestartable, StartupAccepts
<1> QED BY <1>1, <1>2, <1>3, <1>4, <1>5, <1>6 DEF Inductive

\* The store's rows satisfy the inductive invariant in every reachable state.
THEOREM InductiveInvariant == Spec => []Inductive
BY InductiveInit, InductiveStep, PTL DEF Spec

---------------------------------------------------------------------------
\* The safety properties

\* storage.py _init_db: whatever the callers did, the next start of the
\* store passes its preflight and its integrity audit.
THEOREM RestartTheorem == Spec => []AlwaysRestartable
<1>1. Inductive => AlwaysRestartable
  BY DEF Inductive
<1> QED BY <1>1, InductiveInvariant, PTL

\* claim_event and _complete_pending_event: the events of a session are
\* completed in sequence order, with no gap, one at a time.
THEOREM SessionTheorem == Spec => []SessionsInOrder
<1>1. Inductive => SessionsInOrder
  BY DEF Inductive
<1> QED BY <1>1, InductiveInvariant, PTL

\* complete_observe_operation: an event's result, its memory and the edges
\* are there together or not at all.
THEOREM RememberedTheorem == Spec => []RememberedOnce
<1>1. Inductive => RememberedOnce
  BY DEF Inductive
<1> QED BY <1>1, InductiveInvariant, PTL

\* _newer_active_lifecycle_memory and _supersession_validation_error:
\* supersession goes from older to newer within a lifecycle key and never
\* hides the newest memory of it.
THEOREM NewestTheorem == Spec => []NewestIsActive
<1>1. Inductive => NewestIsActive
  BY DEF Inductive
<1> QED BY <1>1, InductiveInvariant, PTL

\* _claim_existing replays a stored result: no step changes it.
THEOREM FinalTheorem == Spec => ResultsAreFinal
<1> DEFINE Final ==
        \A k \in Keys :
            /\ event[k].state = "completed" => event'[k] = event[k]
            /\ Present(k) => event'[k].seq = event[k].seq /\ event'[k].body = event[k].body
                                /\ event'[k].pseq = event[k].pseq
<1>1. TypeOK /\ [Next]_vars => Final
  BY RowsKept
<1>2. TypeOK /\ [Next]_vars => [Final]_vars
  BY <1>1
<1> QED BY <1>2, TypeInvariant, PTL DEF Spec, ResultsAreFinal

\* The step of WrittenInProjectOrder.
WrittenInOrder ==
    \A m \in MemoryIds : ~Stored(m) /\ memory'[m] # Nil =>
        \A l \in MemoryIds :
            /\ Stored(l)
            /\ memory[l].project = memory'[m].project
            /\ memory[l].slot = memory'[m].slot
            => memory[l].pseq < memory'[m].pseq

\* An active memory of the key is not newer, so none of the key is, and none
\* is as old: it would be of the same event.
LEMMA WrittenStep == Inductive /\ [Next]_vars => WrittenInOrder
<1> SUFFICES ASSUME Inductive, [Next]_vars PROVE WrittenInOrder
  OBVIOUS
<1> USE DEF Inductive
<1>1. CASE UNCHANGED <<memory, relations>>
  BY <1>1 DEF WrittenInOrder, Stored
<1>2. ASSUME NEW k \in Keys, NEW n \in Attempts, NEW slot \in Slots, NEW text \in Texts,
             NEW sup \in SUBSET MemoryIds, CompleteWrite(k, n, slot, text, sup)
      PROVE  WrittenInOrder
  <2>1. PICK m \in MemoryIds : Complete(k, n, Write(m, sup)) /\ Writes(k, m, slot, text, sup)
    BY <1>2, WriteFacts
  <2>2. /\ memory'[m].project = k.project /\ memory'[m].slot = slot
        /\ memory'[m].pseq = event[k].pseq
        /\ \A l \in MemoryIds : l # m => memory'[l] = memory[l]
    BY <2>1 DEF Writes, TypeOK
  <2>3. event[k].state = "pending" /\ event[k].pseq \in Int
    BY <2>1, BoundsAreNatural DEF Complete, Fence, TypeOK, EventRows
  <2>4. ASSUME NEW l \in MemoryIds, Stored(l), memory[l].project = k.project,
               memory[l].slot = slot
        PROVE  memory[l].pseq < event[k].pseq
    <3>1. memory[l].pseq \in Int /\ memory[l].source \in Keys
      BY <2>4, BoundsAreNatural DEF TypeOK, Stored, MemoryRows
    <3>2. PICK j \in MemoryIds :
            /\ Active(j)
            /\ memory[j].project = k.project /\ memory[j].slot = slot
            /\ memory[j].pseq >= memory[l].pseq
      BY <2>4 DEF NewestIsActive
    <3>3. ~(memory[j].pseq > event[k].pseq)
      BY <2>1, <3>2 DEF Writes, StaleFor, NewerActive
    <3>4. memory[j].pseq \in Int
      BY <3>2, BoundsAreNatural DEF TypeOK, Active, Stored, MemoryRows
    <3>5. memory[l].pseq # event[k].pseq
      <4>1. /\ event[memory[l].source].state = "completed"
            /\ memory[l].source.project = k.project
            /\ memory[l].pseq = event[memory[l].source].pseq
        BY <2>4 DEF RememberedOnce
      <4>2. memory[l].source # k /\ Present(k) /\ Present(memory[l].source)
        BY <2>3, <4>1 DEF Present
      <4> QED BY <3>1, <4>1, <4>2 DEF AlwaysRestartable, StartupAccepts, UniqueProjectSeqs
    <3> QED BY <2>3, <3>1, <3>2, <3>3, <3>4, <3>5
  <2> QED BY <2>2, <2>4 DEF WrittenInOrder, Stored
<1> QED BY <1>1, <1>2, StepCases DEF vars, ClaimRefused, ClaimNew, TakeOver, EndWithout,
                                      FailRetryable

\* complete_observe_operation: whatever order attempts finish in, the
\* memories of a lifecycle key are written in project order.
THEOREM WrittenTheorem == Spec => WrittenInProjectOrder
<1>1. Inductive /\ [Next]_vars => [WrittenInOrder]_vars
  BY WrittenStep
<1> QED BY <1>1, InductiveInvariant, PTL DEF Spec, WrittenInProjectOrder, WrittenInOrder

\* The step of RunsAreFinal.
RunsFinal ==
    \A k \in Keys, n \in Attempts :
        /\ run[k][n] \notin {"none", "running"} => run'[k][n] = run[k][n]
        /\ run'[k][n] # run[k][n] /\ run'[k][n] \in {"succeeded", "semantic_no_op"} =>
            /\ event[k].state = "pending" /\ event[k].attempt = n
            /\ event'[k].state = "completed"

LEMMA RunsStep == Inductive /\ [Next]_vars => RunsFinal
<1> SUFFICES ASSUME Inductive, [Next]_vars PROVE RunsFinal
  OBVIOUS
<1> USE DEF Inductive
<1>1. CASE UNCHANGED run
  BY <1>1 DEF RunsFinal
<1>2. ASSUME NEW k \in Keys, NEW s \in Sequences, NEW b \in Bodies, NEW now \in Times,
             ClaimNew(k, s, b, now)
      PROVE  RunsFinal
  <2>1. run' = [run EXCEPT ![k][1] = "running"] /\ \A n \in Attempts : run[k][n] = "none"
    BY <1>2 DEF ClaimNew, RowsWhole, NoRow
  <2> QED BY <2>1 DEF RunsFinal, TypeOK
<1>3. ASSUME NEW k \in Keys, NEW s \in Sequences, NEW b \in Bodies, NEW now \in Times,
             TakeOver(k, s, b, now)
      PROVE  RunsFinal
  <2> DEFINE n == event[k].attempt
  <2>1. \A l \in Keys : l # k => run'[l] = run[l]
    BY <1>3 DEF TakeOver, TypeOK
  <2>2. ASSUME NEW i \in Attempts, run'[k][i] # run[k][i]
        PROVE  run[k][i] \in {"none", "running"} /\ run'[k][i] \in {"running", "lost_lease"}
    BY <1>3, <2>2 DEF TakeOver, RunsAfterTakeOver, TypeOK
  <2> QED BY <2>1, <2>2 DEF RunsFinal
<1>4. ASSUME NEW k \in Keys, NEW n \in Attempts, NEW r, Complete(k, n, r)
      PROVE  RunsFinal
  <2>1. /\ run[k][n] = "running" /\ run' = [run EXCEPT ![k][n] = RunStateOf(r)]
        /\ event[k].state = "pending" /\ event[k].attempt = n
    BY <1>4 DEF Complete, Fence
  <2>2. event'[k].state = "completed"
    BY <1>4 DEF Complete, CompletedRow, TypeOK
  <2> QED BY <2>1, <2>2 DEF RunsFinal, TypeOK
<1>5. ASSUME NEW k \in Keys, NEW n \in Attempts, FailRetryable(k, n)
      PROVE  RunsFinal
  BY <1>5 DEF FailRetryable, RunsFinal, TypeOK
<1>6. CASE \E k \in Keys, s \in Sequences : ClaimRefused(k, s)
  BY <1>1, <1>6 DEF ClaimRefused
<1>7. CASE \E k \in Keys, n \in Attempts : EndWithout(k, n)
  BY <1>4, <1>7 DEF EndWithout
<1>8. CASE \E k \in Keys, n \in Attempts, slot \in Slots, text \in Texts, sup \in SUBSET MemoryIds :
                CompleteWrite(k, n, slot, text, sup)
  BY <1>4, <1>8 DEF CompleteWrite
<1> QED BY <1>1, <1>2, <1>3, <1>5, <1>6, <1>7, <1>8, StepCases DEF vars

\* _finish_run: the record of an attempt is ended once, and as a success
\* only by the step that completes its event as the event's last attempt.
THEOREM RunsTheorem == Spec => RunsAreFinal
<1>1. Inductive /\ [Next]_vars => [RunsFinal]_vars
  BY RunsStep
<1> QED BY <1>1, InductiveInvariant, PTL DEF Spec, RunsAreFinal, RunsFinal

---------------------------------------------------------------------------
\* The refinement

\* The two variables of the ledger that are not variables of the store.
place   == [k \in Keys |-> event[k].pseq]
outcome == [k \in Keys |-> event[k].result]

\* Only a present row has a place, and only a completed one an outcome.
LEMMA PlaceAndOutcome ==
    ASSUME Inductive, NEW k \in Keys
    PROVE  /\ event[k].pseq # 0 <=> Present(k)
           /\ event[k].result # Nil <=> event[k].state = "completed"
<1>1. CASE Present(k)
  <2>1. WholeRow(k)
    BY <1>1 DEF Inductive, RowsWhole
  <2> QED BY <1>1, <2>1, NilIsNoValue DEF WholeRow, ValidEventRow, ValidResult, ProjectSeqs
<1>2. CASE ~Present(k)
  BY <1>2 DEF Inductive, RowsWhole, NoRow, AbsentEvent
<1> QED BY <1>1, <1>2

LEMMA LedgerInit == Init => Ledger!Init
BY DEF Init, AbsentEvent, Keys, Ledger!Init, Ledger!Keys

\* A step that changes no place, no outcome and no memory.
LEMMA LedgerStutters ==
    ASSUME NEW k \in Keys, NEW row, TypeOK, event' = [event EXCEPT ![k] = row],
           row.pseq = event[k].pseq, row.result = event[k].result,
           UNCHANGED <<memory, relations>>
    PROVE  UNCHANGED Ledger!ledger
<1>1. \A l \in Keys : event'[l].pseq = event[l].pseq /\ event'[l].result = event[l].result
  BY DEF TypeOK
<1> QED BY <1>1 DEF Ledger!ledger, Ledger!Keys, Keys

LEMMA LedgerAdmits ==
    ASSUME Inductive, NEW k \in Keys, NEW s \in Sequences, NEW b \in Bodies, NEW now \in Times,
           ClaimNew(k, s, b, now)
    PROVE  Ledger!Admit(k)
<1> USE DEF Inductive
<1>1. PICK n \in ProjectSeqs :
        NextProjectSeq(k, n) /\ event' = [event EXCEPT ![k] = FirstRow(s, b, n, now)]
  BY DEF ClaimNew
<1>2. ~Present(k) /\ ~Blocked(k.project, k.session) /\ UNCHANGED <<memory, relations>>
  BY DEF ClaimNew, Claimable
<1>3. event[k].pseq = 0 /\ event[k].result = Nil
  BY <1>2, PlaceAndOutcome DEF TypeOK, RowsWhole, NoRow, AbsentEvent
<1>4. \A l \in Keys : event[l].pseq # 0 /\ l.project = k.project /\ l.session = k.session
                        => event[l].result # Nil
  <2>1. \A l \in Keys : Present(l) => ValidEventRow(event[l])
    BY DEF RowsWhole, WholeRow
  <2>2. \A l \in Keys : Present(l) /\ InSession(l, k.project, k.session)
                            => event[l].state = "completed"
    BY <1>2, <2>1 DEF Blocked, Incomplete, ValidEventRow
  <2> QED BY <2>2, PlaceAndOutcome DEF InSession
<1>5. \A l \in Keys : event[l].pseq # 0 /\ l.project = k.project => event[l].pseq < n
  BY <1>1, PlaceAndOutcome DEF NextProjectSeq
<1>6. place' = [place EXCEPT ![k] = n] /\ outcome' = outcome
  BY <1>1, <1>3 DEF place, outcome, FirstRow, TypeOK
<1> QED BY <1>1, <1>2, <1>3, <1>4, <1>5, <1>6
        DEF Ledger!Admit, Ledger!Admitted, Ledger!Settled, Ledger!SameSession, Ledger!Keys,
            Keys, place, outcome, ProjectSeqs

LEMMA LedgerForgets ==
    ASSUME Inductive, NEW k \in Keys, NEW n \in Attempts, EndWithout(k, n)
    PROVE  Ledger!SettleForgotten(k, outcome'[k])
<1> USE DEF Inductive
<1>1. PICK r \in Results :
        /\ r.op # "write"
        /\ r.op = "duplicate" => r.memory \in Known(k)
        /\ Complete(k, n, r)
        /\ UNCHANGED <<memory, relations>>
  BY DEF EndWithout
<1>2. event' = [event EXCEPT ![k] = CompletedRow(event[k], r)] /\ event[k].state = "pending"
  BY <1>1 DEF Complete, Fence
<1>3. event[k].pseq # 0 /\ event[k].result = Nil
  BY <1>2, PlaceAndOutcome DEF Present
<1>4. place' = place /\ outcome' = [outcome EXCEPT ![k] = r] /\ outcome'[k] = r
  BY <1>2 DEF place, outcome, CompletedRow, TypeOK
<1>5. r # Nil /\ r.op \in {"no_op", "duplicate"}
  BY <1>1, NilIsNoValue DEF Results
<1>6. r.op = "duplicate" => memory[r.memory] # Nil /\ memory[r.memory].project = k.project
  BY <1>1 DEF Known, Stored
<1> QED BY <1>1, <1>3, <1>4, <1>5, <1>6
        DEF Ledger!SettleForgotten, Ledger!Admitted, Ledger!Settled, Ledger!Keys, Keys, place,
            outcome

LEMMA LedgerRemembers ==
    ASSUME Inductive, [Next]_vars, NEW k \in Keys, NEW n \in Attempts, NEW slot \in Slots,
           NEW text \in Texts, NEW sup \in SUBSET MemoryIds, CompleteWrite(k, n, slot, text, sup)
    PROVE  \E m \in MemoryIds : Ledger!SettleRemembered(k, m, slot, text, sup)
<1> USE DEF Inductive
<1>1. PICK m \in MemoryIds : Complete(k, n, Write(m, sup)) /\ Writes(k, m, slot, text, sup)
  BY WriteFacts
<1>2. /\ event' = [event EXCEPT ![k] = CompletedRow(event[k], Write(m, sup))]
      /\ event[k].state = "pending"
  BY <1>1 DEF Complete, Fence
<1>3. event[k].pseq # 0 /\ event[k].result = Nil
  BY <1>2, PlaceAndOutcome DEF Present
<1>4. place' = place /\ outcome' = [outcome EXCEPT ![k] = Write(m, sup)]
  BY <1>2 DEF place, outcome, CompletedRow, TypeOK
<1>5. /\ memory[m] = Nil
      /\ memory' = [memory EXCEPT ![m] =
            [project |-> k.project, slot |-> slot, text |-> text, source |-> k,
             pseq |-> event[k].pseq]]
      /\ relations' = relations \cup {[prior |-> q, successor |-> m, source |-> k] : q \in sup}
  BY <1>1 DEF Writes, Stored, Edges
<1>6. \A l \in MemoryIds : memory[l] # Nil /\ memory[l].project = k.project
                            /\ memory[l].slot = slot => memory[l].pseq < event[k].pseq
  <2>1. memory'[m].project = k.project /\ memory'[m].slot = slot /\ memory'[m].pseq = event[k].pseq
    BY <1>5 DEF TypeOK
  <2>2. memory'[m] # Nil /\ ~Stored(m)
    <3>1. [project |-> k.project, slot |-> slot, text |-> text, source |-> k,
           pseq |-> event[k].pseq] \in MemoryRows
      BY DEF TypeOK, EventRows, MemoryRows, Keys
    <3> QED BY <1>5, <3>1, NilIsNoValue DEF TypeOK, Stored
  <2> QED BY <2>1, <2>2, WrittenStep DEF WrittenInOrder, Stored
<1>7. /\ \A q \in sup : /\ memory[q] # Nil /\ memory[q].project = k.project
                        /\ memory[q].slot = slot /\ \A r \in relations : r.prior # q
      /\ slot \in LessonSlots => sup = {}
  BY <1>1 DEF Writes, Active, Stored, Superseded
<1> QED BY <1>3, <1>4, <1>5, <1>6, <1>7
        DEF Ledger!SettleRemembered, Ledger!Admitted, Ledger!Settled, Ledger!Line, Ledger!Current,
            Ledger!Keys, Keys, place, outcome, Write

LEMMA LedgerStep == Inductive /\ [Next]_vars => [Ledger!Next]_(Ledger!ledger)
<1> SUFFICES ASSUME Inductive, [Next]_vars PROVE [Ledger!Next]_(Ledger!ledger)
  OBVIOUS
<1>1. CASE UNCHANGED <<event, memory, relations>>
  BY <1>1 DEF Ledger!ledger
<1>2. ASSUME NEW k \in Keys, NEW s \in Sequences, NEW b \in Bodies, NEW now \in Times,
             ClaimNew(k, s, b, now)
      PROVE  Ledger!Next
  BY <1>2, LedgerAdmits DEF Ledger!Next, Ledger!Keys, Keys
<1>3. ASSUME NEW k \in Keys, NEW s \in Sequences, NEW b \in Bodies, NEW now \in Times,
             TakeOver(k, s, b, now)
      PROVE  UNCHANGED Ledger!ledger
  BY <1>3, LedgerStutters DEF TakeOver, RetriedRow, Inductive
<1>4. ASSUME NEW k \in Keys, NEW n \in Attempts, FailRetryable(k, n)
      PROVE  UNCHANGED Ledger!ledger
  BY <1>4, LedgerStutters DEF FailRetryable, FailedRow, Inductive
<1>5. ASSUME NEW k \in Keys, NEW n \in Attempts, EndWithout(k, n)
      PROVE  Ledger!Next
  BY <1>5, LedgerForgets DEF Ledger!Next, Ledger!Keys, Keys, outcome
<1>6. ASSUME NEW k \in Keys, NEW n \in Attempts, NEW slot \in Slots, NEW text \in Texts,
             NEW sup \in SUBSET MemoryIds, CompleteWrite(k, n, slot, text, sup)
      PROVE  Ledger!Next
  BY <1>6, LedgerRemembers DEF Ledger!Next, Ledger!Keys, Keys
<1> QED BY <1>1, <1>2, <1>3, <1>4, <1>5, <1>6, StepCases DEF vars, ClaimRefused

\* storage.py as a whole: the store is a lifecycle ledger, in which events
\* are admitted in project order, settled once, session by session, and
\* remembered behind every memory of their key.
THEOREM RefinementTheorem == Spec => ImplementsLedger
<1> QED BY LedgerInit, LedgerStep, InductiveInvariant, PTL DEF Spec, ImplementsLedger, Ledger!Spec
=============================================================================
