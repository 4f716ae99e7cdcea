-------------------------- MODULE TurnstileProofs ---------------------------
(***************************************************************************)
(* Proofs about TurnstileMonitor, for any number of tickets and projects:  *)
(* its books agree, no wake-up is lost, and it implements Turnstile, whose *)
(* promise is proved of it first.                                          *)
(***************************************************************************)
EXTENDS TurnstileMonitor, TLAPS

LEMMA TurnstileTypes == ASSUME TypeOK, [Next]_turnstile PROVE TypeOK'
BY DEF TypeOK, Next, turnstile, Register, Enter, Release, Withdraw, Phases

\* locking.py _can_enter: at most one ticket of a project is inside, and the
\* tickets that wait or are inside are for different attempts.
THEOREM TurnstilePromise == Spec => [](TypeOK /\ OneInside)
<1>1. Init => TypeOK /\ OneInside
  BY DEF Init, TypeOK, OneInside, Phases, Inside, Waiting
<1>2. ASSUME TypeOK, OneInside, [Next]_turnstile
      PROVE  OneInside'
  <2> USE DEF OneInside, Competes, Inside, Waiting, TypeOK
  <2>1. CASE UNCHANGED turnstile
    BY <1>2, <2>1 DEF turnstile
  <2>2. ASSUME NEW t \in Tickets, NEW w \in Turns, Register(t, w)
        PROVE  OneInside'
    BY <1>2, <2>2 DEF Register, Over, Free, Turns
  <2>3. ASSUME NEW t \in Tickets, Enter(t)
        PROVE  OneInside'
    BY <1>2, <2>3 DEF Enter, MayEnter
  <2>4. ASSUME NEW t \in Tickets, Release(t)
        PROVE  OneInside'
    BY <1>2, <2>4 DEF Release
  <2>5. ASSUME NEW t \in Tickets, Withdraw(t)
        PROVE  OneInside'
    BY <1>2, <2>5 DEF Withdraw
  <2> QED BY <1>2, <2>1, <2>2, <2>3, <2>4, <2>5 DEF Next
<1>3. TypeOK /\ OneInside /\ [Next]_turnstile => (TypeOK /\ OneInside)'
  BY <1>2, TurnstileTypes
<1> QED BY <1>1, <1>3, PTL DEF Spec

---------------------------------------------------------------------------
\* The monitor

\* A ticket that was registered has a turn.
HasTurn == \A t \in Tickets : phase[t] # "new" => turn[t] \in Turns

MonitorInvariant == MonitorTypeOK /\ HasTurn /\ BooksAgree

\* A look of wait_for that does not let the ticket in.
LookAway(t) ==
    /\ \E place \in {"raised", "asleep"} :
        /\ place = "asleep" => ~CanEnter(t)
        /\ thread' = [thread EXCEPT ![t] = place]
    /\ UNCHANGED <<phase, turn, pending, active>>

\* The steps of the monitor, by what they do to the books.
LEMMA MonitorCases ==
    ASSUME MonitorNext
    PROVE  \E t \in Tickets :
              \/ \E w \in Turns : RegisterTicket(t, w)
              \/ CanEnter(t) /\ Waiting(t) /\ Acquire(t)
              \/ thread[t] # "inside" /\ LookAway(t)
              \/ Interrupt(t) /\ Waiting(t)
              \/ Leave(t)
              \/ Cancel(t)
<1>1. ASSUME NEW t \in Tickets, Look(t)
      PROVE  (CanEnter(t) /\ Waiting(t) /\ Acquire(t)) \/ LookAway(t)
  BY <1>1 DEF Look, LookAway
<1>2. ASSUME NEW t \in Tickets, Interrupt(t), ~Waiting(t)
      PROVE  thread[t] # "inside" /\ LookAway(t)
  BY <1>2 DEF Interrupt, LookAway
<1> QED BY <1>1, <1>2 DEF MonitorNext, Call, Recheck

\* An interrupt of a thread whose ticket waits.
LEMMA InterruptedWait ==
    ASSUME NEW t \in Tickets, MonitorTypeOK, Interrupt(t), Waiting(t)
    PROVE  /\ pending' = Removed(t)
           /\ phase' = [phase EXCEPT ![t] = "cancelled"]
           /\ UNCHANGED <<turn, active>>
           /\ thread[t] # "inside"
           /\ thread' = [u \in Tickets |-> IF u = t THEN "raised"
                                          ELSE IF thread[u] = "asleep" THEN "awake"
                                          ELSE thread[u]]
<1>1. /\ thread[t] \in {"asleep", "awake"}
      /\ pending' = Removed(t)
      /\ phase' = [phase EXCEPT ![t] = "cancelled"]
      /\ thread' = [NotifyAll(thread) EXCEPT ![t] = "raised"]
      /\ UNCHANGED <<turn, active>>
  BY DEF Interrupt
<1>2. [NotifyAll(thread) EXCEPT ![t] = "raised"] =
        [u \in Tickets |-> IF u = t THEN "raised"
                           ELSE IF thread[u] = "asleep" THEN "awake" ELSE thread[u]]
  BY DEF NotifyAll
<1> QED BY <1>1, <1>2

LEMMA MonitorTypeStep ==
    ASSUME NoTicketIsNone, MonitorTypeOK, HasTurn, [MonitorNext]_monitor
    PROVE  MonitorTypeOK' /\ HasTurn'
<1> USE DEF MonitorTypeOK, TypeOK, HasTurn, Phases, Places
<1>1. CASE UNCHANGED monitor
  BY <1>1 DEF monitor
<1>2. ASSUME NEW t \in Tickets, NEW w \in Turns, RegisterTicket(t, w)
      PROVE  MonitorTypeOK' /\ HasTurn'
  BY <1>2 DEF RegisterTicket, NotifyAll, Turns
<1>3. ASSUME NEW t \in Tickets, CanEnter(t), Waiting(t), Acquire(t)
      PROVE  MonitorTypeOK' /\ HasTurn'
  BY <1>3 DEF Acquire, Waiting, Removed, Turns
<1>4. ASSUME NEW t \in Tickets, LookAway(t)
      PROVE  MonitorTypeOK' /\ HasTurn'
  BY <1>4 DEF LookAway
<1>5. ASSUME NEW t \in Tickets, Interrupt(t), Waiting(t)
      PROVE  MonitorTypeOK' /\ HasTurn'
  BY <1>5, InterruptedWait DEF Waiting, Removed, Turns
<1>6. ASSUME NEW t \in Tickets, Leave(t)
      PROVE  MonitorTypeOK' /\ HasTurn'
  BY <1>6 DEF Leave, Inside, NotifyAll, Turns
<1>7. ASSUME NEW t \in Tickets, Cancel(t)
      PROVE  MonitorTypeOK' /\ HasTurn'
  BY <1>7 DEF Cancel, Waiting, Removed, NotifyAll, Turns
<1> QED BY <1>1, <1>2, <1>3, <1>4, <1>5, <1>6, <1>7, MonitorCases

LEMMA BooksStep ==
    ASSUME MonitorTypeOK, HasTurn, BooksAgree, [MonitorNext]_monitor
    PROVE  BooksAgree'
<1> USE NoTicketIsNone
<1> USE DEF MonitorTypeOK, TypeOK, HasTurn, BooksAgree, Waiting, Inside
<1>1. CASE UNCHANGED monitor
  BY <1>1 DEF monitor
<1>2. ASSUME NEW t \in Tickets, NEW w \in Turns, RegisterTicket(t, w)
      PROVE  BooksAgree'
  BY <1>2 DEF RegisterTicket, NotifyAll, Turns
<1>3. ASSUME NEW t \in Tickets, CanEnter(t), Waiting(t), Acquire(t)
      PROVE  BooksAgree'
  BY <1>3 DEF Acquire, CanEnter, Removed, Turns
<1>4. ASSUME NEW t \in Tickets, thread[t] # "inside", LookAway(t)
      PROVE  BooksAgree'
  BY <1>4 DEF LookAway
<1>5. ASSUME NEW t \in Tickets, Interrupt(t), Waiting(t)
      PROVE  BooksAgree'
  BY <1>5, InterruptedWait DEF Removed, Turns
<1>6. ASSUME NEW t \in Tickets, Leave(t)
      PROVE  BooksAgree'
  BY <1>6 DEF Leave, NotifyAll, Turns
<1>7. ASSUME NEW t \in Tickets, Cancel(t)
      PROVE  BooksAgree'
  BY <1>7 DEF Cancel, Removed, NotifyAll, Turns
<1> QED BY <1>1, <1>2, <1>3, <1>4, <1>5, <1>6, <1>7, MonitorCases

LEMMA MonitorInvariantHolds == MonitorSpec => []MonitorInvariant
<1>1. MonitorInit => MonitorInvariant
  BY NoTicketIsNone DEF MonitorInit, Init, MonitorInvariant, MonitorTypeOK, TypeOK, HasTurn,
        BooksAgree, Phases, Places, Waiting, Inside
<1>2. MonitorInvariant /\ [MonitorNext]_monitor => MonitorInvariant'
  BY MonitorTypeStep, BooksStep, NoTicketIsNone DEF MonitorInvariant
<1> QED BY <1>1, <1>2, PTL DEF MonitorSpec

\* locking.py: _pending, _active and the tickets' own states agree in every
\* reachable state.
THEOREM BooksTheorem == MonitorSpec => []BooksAgree
<1>1. MonitorInvariant => BooksAgree
  BY DEF MonitorInvariant
<1> QED BY <1>1, MonitorInvariantHolds, PTL

---------------------------------------------------------------------------
\* Wake-ups

\* A ticket enters: only what happens in its project concerns the others,
\* and there it is the active one.
LEMMA WakeupStep ==
    ASSUME MonitorInvariant, NoLostWakeup, [MonitorNext]_monitor
    PROVE  NoLostWakeup'
<1> USE NoTicketIsNone
<1> USE DEF MonitorInvariant, MonitorTypeOK, TypeOK, HasTurn, NoLostWakeup
<1>1. CASE UNCHANGED monitor
  BY <1>1 DEF monitor, CanEnter, IsHead, Waiting
<1>2. ASSUME \A u \in Tickets : thread'[u] # "asleep"
      PROVE  NoLostWakeup'
  BY <1>2
<1>3. CASE \E t \in Tickets, w \in Turns : RegisterTicket(t, w)
  BY <1>2, <1>3 DEF RegisterTicket, NotifyAll
<1>4. ASSUME NEW t \in Tickets, CanEnter(t), Waiting(t), Acquire(t)
      PROVE  NoLostWakeup'
  <2> SUFFICES ASSUME NEW u \in Tickets, thread'[u] = "asleep"
               PROVE  ~CanEnter(u)'
    OBVIOUS
  <2>1. /\ u # t /\ thread[u] = "asleep" /\ ~CanEnter(u) /\ Waiting(u)
        /\ phase'[u] = phase[u] /\ turn' = turn
    BY <1>4 DEF Acquire, CanEnter
  <2>2. turn[t] \in Turns /\ turn[u] \in Turns
    BY <1>4, <2>1 DEF Waiting
  <2>3. CASE turn[u].project = turn[t].project
    BY <1>4, <2>1, <2>2, <2>3 DEF Acquire, CanEnter, Waiting, Turns
  <2>4. CASE turn[u].project # turn[t].project
    <3>1. active'[turn[u].project] = active[turn[u].project]
      BY <1>4, <2>2, <2>4 DEF Acquire, Turns
    <3>2. pending'[turn[u].project] = pending[turn[u].project]
      BY <1>4, <2>2, <2>4 DEF Acquire, Removed, Turns
    <3> QED BY <2>1, <3>1, <3>2 DEF CanEnter, IsHead, Waiting
  <2> QED BY <2>3, <2>4
<1>5. ASSUME NEW t \in Tickets, LookAway(t)
      PROVE  NoLostWakeup'
  <2>1. \A u \in Tickets : CanEnter(u)' <=> CanEnter(u)
    BY <1>5 DEF LookAway, CanEnter, IsHead, Waiting
  <2> QED BY <1>5, <2>1 DEF LookAway
<1>6. CASE \E t \in Tickets : Interrupt(t) /\ Waiting(t)
  BY <1>2, <1>6, InterruptedWait
<1>7. CASE \E t \in Tickets : Leave(t)
  BY <1>2, <1>7 DEF Leave, NotifyAll
<1>8. CASE \E t \in Tickets : Cancel(t)
  BY <1>2, <1>8 DEF Cancel, NotifyAll
<1> QED BY <1>1, <1>3, <1>4, <1>5, <1>6, <1>7, <1>8, MonitorCases

\* locking.py wait_for: every step that could let a sleeping ticket in
\* wakes its thread.
THEOREM WakeupTheorem == MonitorSpec => []NoLostWakeup
<1>1. MonitorInit => NoLostWakeup
  BY DEF MonitorInit, NoLostWakeup
<1>2. MonitorInvariant /\ NoLostWakeup /\ [MonitorNext]_monitor => NoLostWakeup'
  BY WakeupStep
<1> QED BY <1>1, <1>2, MonitorInvariantHolds, PTL DEF MonitorSpec

---------------------------------------------------------------------------
\* Refinement

\* Who waits is in the lists, and who is inside is the active ticket.
LEMMA Booked ==
    ASSUME MonitorInvariant, NEW t \in Tickets, Waiting(t) \/ Inside(t)
    PROVE  /\ turn[t] \in Turns
           /\ Waiting(t) => t \in pending[turn[t].project]
           /\ Inside(t) => active[turn[t].project] = t
BY DEF MonitorInvariant, BooksAgree, HasTurn, Waiting, Inside, Turns

LEMMA MonitorStepsAreTurns ==
    ASSUME MonitorInvariant, [MonitorNext]_monitor
    PROVE  [Next]_turnstile
<1>1. CASE UNCHANGED monitor
  BY <1>1 DEF monitor, turnstile
<1>2. ASSUME NEW t \in Tickets, NEW w \in Turns, RegisterTicket(t, w)
      PROVE  Register(t, w)
  <2>1. ASSUME NEW u \in Tickets, Waiting(u) \/ Inside(u)
        PROVE  turn[u] # w
    BY <1>2, <2>1, Booked, NoTicketIsNone DEF RegisterTicket
  <2> QED BY <1>2, <2>1 DEF RegisterTicket, Register, Over, Free
<1>3. ASSUME NEW t \in Tickets, CanEnter(t), Waiting(t), Acquire(t)
      PROVE  Enter(t)
  <2>1. active[turn[t].project] = NoTicket /\ IsHead(t)
    BY <1>3 DEF CanEnter
  <2>2. ASSUME NEW u \in Tickets, Competes(t, u)
        PROVE  ~Inside(u) /\ (Waiting(u) => Before(turn[t], turn[u]))
    BY <2>1, <2>2, Booked, NoTicketIsNone DEF Competes, IsHead
  <2> QED BY <1>3, <2>2 DEF Enter, MayEnter, Acquire
<1>4. ASSUME NEW t \in Tickets, LookAway(t)
      PROVE  UNCHANGED turnstile
  BY <1>4 DEF LookAway, turnstile
<1>5. ASSUME NEW t \in Tickets, Interrupt(t), Waiting(t)
      PROVE  Withdraw(t)
  BY <1>5, InterruptedWait DEF Withdraw, MonitorInvariant
<1>6. ASSUME NEW t \in Tickets, Leave(t)
      PROVE  Release(t)
  BY <1>6 DEF Leave, Release
<1>7. ASSUME NEW t \in Tickets, Cancel(t)
      PROVE  Withdraw(t)
  BY <1>7 DEF Cancel, Withdraw
<1> QED BY <1>1, <1>2, <1>3, <1>4, <1>5, <1>6, <1>7, MonitorCases DEF Next

\* locking.py as a whole: with its lock, lists and wake-ups the registry is
\* the turnstile its callers rely on.
THEOREM TurnstileTheorem == MonitorSpec => ImplementsTurnstile
<1>1. MonitorInit => Init
  BY DEF MonitorInit
<1> QED BY <1>1, MonitorStepsAreTurns, MonitorInvariantHolds, PTL
        DEF MonitorSpec, ImplementsTurnstile, Spec
=============================================================================
