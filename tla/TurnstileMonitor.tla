-------------------------- MODULE TurnstileMonitor --------------------------
(***************************************************************************)
(* locking.py: ProjectTurnstileRegistry as the monitor it is.  Every method *)
(* body runs under one threading.Condition, so a step is what a thread does *)
(* between taking the condition's lock and giving it up, and giving it up  *)
(* is either the end of the method or the sleep inside wait_for.  A thread  *)
(* that sleeps does nothing until a notify_all wakes it, and then looks at  *)
(* the predicate again.  Each ticket is entered by one thread, named by it. *)
(***************************************************************************)
EXTENDS Turnstile

VARIABLES
    pending, \* _pending: the registered tickets of each project, sorted
    active,  \* _active: the ticket inside each project, or NoTicket
    thread   \* where the thread that enters each ticket is

CONSTANT NoTicket
ASSUME NoTicketIsNone == NoTicket \notin Tickets

monitor == <<phase, turn, pending, active, thread>>

\* "outside" has not called __enter__, "asleep" and "awake" are in wait_for,
\* "inside" runs the body, "left" came back, "raised" got an exception.
Places == {"outside", "asleep", "awake", "inside", "left", "raised"}

---------------------------------------------------------------------------
MutNotify(th) == th

\* notify_all: every thread asleep on the condition wakes.
NotifyAll(th) == [t \in Tickets |-> IF th[t] = "asleep" THEN "awake" ELSE th[t]]

\* pending[0] is t: the lists are sorted by _ticket_order, and no two of
\* their tickets are for one attempt.
IsHead(t) ==
    LET queue == pending[turn[t].project] IN
    /\ t \in queue
    /\ \A u \in queue \ {t} : Before(turn[t], turn[u])

MutCanEnter(t) ==
    Waiting(t) => active[turn[t].project] = NoTicket /\ t \in pending[turn[t].project]

\* _can_enter.
CanEnter(t) == Waiting(t) => active[turn[t].project] = NoTicket /\ IsHead(t)

\* _remove_pending.
Removed(t) == [pending EXCEPT ![turn[t].project] = @ \ {t}]

\* register.
RegisterTicket(t, w) ==
    /\ phase[t] = "new"
    /\ \A u \in pending[w.project] : turn[u] # w
    /\ active[w.project] # NoTicket => turn[active[w.project]] # w
    /\ phase' = [phase EXCEPT ![t] = "registered"]
    /\ turn' = [turn EXCEPT ![t] = w]
    /\ pending' = [pending EXCEPT ![w.project] = @ \cup {t}]
    /\ thread' = NotifyAll(thread)
    /\ UNCHANGED active

\* The end of _enter: the ticket leaves the list and is the active one.
Acquire(t) ==
    /\ pending' = Removed(t)
    /\ active' = [active EXCEPT ![turn[t].project] = t]
    /\ phase' = [phase EXCEPT ![t] = "active"]
    /\ thread' = [thread EXCEPT ![t] = "inside"]
    /\ UNCHANGED turn

\* One look of wait_for at its predicate: acquire, fail on a ticket that was
\* cancelled meanwhile, or sleep.
Look(t) ==
    \/ CanEnter(t) /\ Waiting(t) /\ Acquire(t)
    \/ /\ CanEnter(t) /\ ~Waiting(t)
       /\ thread' = [thread EXCEPT ![t] = "raised"]
       /\ UNCHANGED <<phase, turn, pending, active>>
    \/ /\ ~CanEnter(t)
       /\ thread' = [thread EXCEPT ![t] = "asleep"]
       /\ UNCHANGED <<phase, turn, pending, active>>

\* _enter, up to the first look: a ticket no longer registered is refused
\* (project_turn_not_enterable), which Look does too.
Call(t) == phase[t] # "new" /\ thread[t] = "outside" /\ Look(t)

\* wait_for, after a wake-up.
Recheck(t) == thread[t] = "awake" /\ Look(t)

\* _enter, except BaseException: an interrupt ends the wait.  A ticket
\* cancelled before the interrupt stays as it is.
Interrupt(t) ==
    /\ thread[t] \in {"asleep", "awake"}
    /\ IF Waiting(t)
       THEN /\ pending' = Removed(t)
            /\ phase' = [phase EXCEPT ![t] = "cancelled"]
            /\ thread' = [NotifyAll(thread) EXCEPT ![t] = "raised"]
       ELSE /\ thread' = [thread EXCEPT ![t] = "raised"]
            /\ UNCHANGED <<pending, phase>>
    /\ UNCHANGED <<turn, active>>

\* _release.
Leave(t) ==
    /\ Inside(t) /\ thread[t] = "inside"
    /\ active[turn[t].project] = t
    /\ active' = [active EXCEPT ![turn[t].project] = NoTicket]
    /\ phase' = [phase EXCEPT ![t] = "released"]
    /\ thread' = [NotifyAll(thread) EXCEPT ![t] = "left"]
    /\ UNCHANGED <<turn, pending>>

\* _cancel, from any thread, while the ticket waits.
Cancel(t) ==
    /\ Waiting(t)
    /\ pending' = Removed(t)
    /\ phase' = [phase EXCEPT ![t] = "cancelled"]
    /\ thread' = NotifyAll(thread)
    /\ UNCHANGED <<turn, active>>

MonitorInit ==
    /\ Init
    /\ pending = [p \in TurnProjects |-> {}]
    /\ active = [p \in TurnProjects |-> NoTicket]
    /\ thread = [t \in Tickets |-> "outside"]

MonitorNext ==
    \E t \in Tickets :
        \/ \E w \in Turns : RegisterTicket(t, w)
        \/ Call(t)
        \/ Recheck(t)
        \/ Interrupt(t)
        \/ Leave(t)
        \/ Cancel(t)

\* A runnable thread gets the condition's lock in the end, a thread that
\* registered a ticket enters it (observe.py does nothing in between), and
\* the body of a with statement ends: every provider call has a timeout.
Fairness ==
    \A t \in Tickets : WF_monitor(Call(t)) /\ WF_monitor(Recheck(t)) /\ WF_monitor(Leave(t))

MonitorSpec == MonitorInit /\ [][MonitorNext]_monitor /\ Fairness

---------------------------------------------------------------------------
\* Properties

\* Types of the monitor's own variables.
MonitorTypeOK ==
    /\ TypeOK
    /\ pending \in [TurnProjects -> SUBSET Tickets]
    /\ active \in [TurnProjects -> Tickets \cup {NoTicket}]
    /\ thread \in [Tickets -> Places]

\* The lists, the active tickets and the tickets' own states agree, whatever
\* mix of cancels, interrupts and releases happened, and a thread runs the
\* body of its with statement exactly while its ticket is active.
BooksAgree ==
    /\ \A p \in TurnProjects :
        /\ pending[p] = {t \in Tickets : Waiting(t) /\ turn[t].project = p}
        /\ active[p] # NoTicket => turn[active[p]].project = p
    /\ \A t \in Tickets :
        /\ Inside(t) <=> thread[t] = "inside"
        /\ Inside(t) => active[turn[t].project] = t
    /\ \A p \in TurnProjects : active[p] # NoTicket => Inside(active[p])

\* No wake-up is lost: a thread that sleeps has nothing to do.  Its ticket
\* waits, and it may not enter yet.
NoLostWakeup == \A t \in Tickets : thread[t] = "asleep" => ~CanEnter(t)

\* The monitor implements the turnstile its callers are promised.
ImplementsTurnstile == Spec

\* Every thread that asks for its turn gets it, or an exception: no project
\* blocks itself, whatever tickets are cancelled or interrupted.
EveryTurnComes ==
    \A t \in Tickets : Waiting(t) ~> (thread[t] \in {"inside", "left", "raised"})
=============================================================================
