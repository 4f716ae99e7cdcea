----------------------------- MODULE Turnstile ------------------------------
(***************************************************************************)
(* What the project turnstile of locking.py promises its callers: tickets  *)
(* for attempts of the events of a project, at most one of them inside at  *)
(* a time, let in lowest (project_event_seq, attempt_no) first.  There is  *)
(* no lock, no list and no wake-up here: TurnstileMonitor has those and    *)
(* implements this, and ObserveRuntime is composed with this.              *)
(***************************************************************************)
EXTENDS Integers

CONSTANTS
    Tickets,       \* the tickets that may be asked for
    TurnProjects,  \* projects
    MaxTurnSeq,    \* bound: project_event_seq
    MaxTurnAttempt \* bound: attempt_no

ASSUME TurnBoundsAreNatural == MaxTurnSeq \in Nat /\ MaxTurnAttempt \in Nat

VARIABLES
    phase, \* the _state of each ticket, "new" before it is registered
    turn   \* the turn each ticket is for

turnstile == <<phase, turn>>

Turns  == [project : TurnProjects, seq : 1..MaxTurnSeq, attempt : 1..MaxTurnAttempt]
NoTurn == [project |-> "none", seq |-> 0, attempt |-> 0]
Phases == {"new", "registered", "active", "released", "cancelled"}

\* _ticket_order, strictly.
Before(a, b) == a.seq < b.seq \/ (a.seq = b.seq /\ a.attempt < b.attempt)

Waiting(t) == phase[t] = "registered"
Inside(t)  == phase[t] = "active"
Over(t)    == phase[t] \in {"new", "released", "cancelled"}

Competes(t, u) == t # u /\ turn[t].project = turn[u].project

\* register.  A second ticket for an attempt that waits or is inside is
\* refused (project_turn_already_registered).
Free(w) == \A u \in Tickets : (Waiting(u) \/ Inside(u)) => turn[u] # w

Register(t, w) ==
    /\ Over(t)
    /\ Free(w)
    /\ phase' = [phase EXCEPT ![t] = "registered"]
    /\ turn' = [turn EXCEPT ![t] = w]

MutMayEnterBesides(t) ==
    \A u \in Tickets : Competes(t, u) => (Waiting(u) => Before(turn[t], turn[u]))
MutMayEnterAlone(t)    == \A u \in Tickets : Competes(t, u) => ~Inside(u) /\ ~Waiting(u)

\* _can_enter for a registered ticket: nobody is inside and it is the head.
MayEnter(t) ==
    \A u \in Tickets : Competes(t, u) =>
        /\ ~Inside(u)
        /\ Waiting(u) => Before(turn[t], turn[u])

Enter(t) ==
    /\ Waiting(t)
    /\ MayEnter(t)
    /\ phase' = [phase EXCEPT ![t] = "active"]
    /\ UNCHANGED turn

\* _release.
Release(t) ==
    /\ Inside(t)
    /\ phase' = [phase EXCEPT ![t] = "released"]
    /\ UNCHANGED turn

\* _cancel, or an exception that ends the wait of _enter.
Withdraw(t) ==
    /\ Waiting(t)
    /\ phase' = [phase EXCEPT ![t] = "cancelled"]
    /\ UNCHANGED turn

Init ==
    /\ phase = [t \in Tickets |-> "new"]
    /\ turn = [t \in Tickets |-> NoTurn]

Next ==
    \E t \in Tickets :
        \/ \E w \in Turns : Register(t, w)
        \/ Enter(t)
        \/ Release(t)
        \/ Withdraw(t)

Spec == Init /\ [][Next]_turnstile

---------------------------------------------------------------------------
\* The types of the two variables.
TypeOK ==
    /\ phase \in [Tickets -> Phases]
    /\ turn \in [Tickets -> Turns \cup {NoTurn}]

\* At most one ticket of a project is inside, and no two tickets that wait
\* or are inside are for the same attempt.
OneInside ==
    \A t, u \in Tickets : Competes(t, u) =>
        /\ ~(Inside(t) /\ Inside(u))
        /\ (Waiting(t) \/ Inside(t)) /\ (Waiting(u) \/ Inside(u)) => turn[t] # turn[u]
=============================================================================
