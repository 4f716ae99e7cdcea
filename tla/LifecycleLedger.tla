-------------------------- MODULE LifecycleLedger ---------------------------
(***************************************************************************)
(* What observing an event promises, with no leases, attempts, retries or  *)
(* cursors: a project is a list of events in the order they were admitted, *)
(* every event is settled once, a session settles its events one after the *)
(* other, and the memories of a lifecycle key are written in project order *)
(* and superseded only by newer ones.  EventStore implements this.         *)
(***************************************************************************)
EXTENDS Integers

CONSTANTS Projects, Sessions, EventIds, Slots, LessonSlots, Texts, MemoryIds,
          Nil, MaxProjectSeq

Keys == [project : Projects, session : Sessions, id : EventIds]

VARIABLES
    place,     \* the place of each event in its project, 0 before it is admitted
    outcome,   \* the result of each settled event
    memory, relations

ledger == <<place, outcome, memory, relations>>

Admitted(k) == place[k] # 0
Settled(k)  == outcome[k] # Nil

SameSession(k, l) == k.project = l.project /\ k.session = l.session

\* The stored memories of a lifecycle key of a project.
Line(p, slot) ==
    {m \in MemoryIds : memory[m] # Nil /\ memory[m].project = p /\ memory[m].slot = slot}

Current(m) == \A r \in relations : r.prior # m

Init ==
    /\ place = [k \in Keys |-> 0]
    /\ outcome = [k \in Keys |-> Nil]
    /\ memory = [m \in MemoryIds |-> Nil]
    /\ relations = {}

\* An event joins its project when its session has nothing left to settle.
Admit(k) ==
    /\ ~Admitted(k)
    /\ \A l \in Keys : Admitted(l) /\ SameSession(k, l) => Settled(l)
    /\ \E n \in 1..MaxProjectSeq :
        /\ \A l \in Keys : Admitted(l) /\ l.project = k.project => place[l] < n
        /\ place' = [place EXCEPT ![k] = n]
    /\ UNCHANGED <<outcome, memory, relations>>

\* An event is settled and nothing is remembered; a duplicate names a
\* memory of the project.
SettleForgotten(k, r) ==
    /\ Admitted(k) /\ ~Settled(k) /\ r # Nil
    /\ r.op = "no_op" \/ (r.op = "duplicate" /\ memory[r.memory] # Nil
                             /\ memory[r.memory].project = k.project)
    /\ outcome' = [outcome EXCEPT ![k] = r]
    /\ UNCHANGED <<place, memory, relations>>

\* An event is settled with a memory newer than every memory of its key, in
\* place of some of the current ones.
SettleRemembered(k, m, slot, text, sup) ==
    /\ Admitted(k) /\ ~Settled(k)
    /\ memory[m] = Nil
    /\ \A l \in Line(k.project, slot) : memory[l].pseq < place[k]
    /\ sup \subseteq {l \in Line(k.project, slot) : Current(l)}
    /\ slot \in LessonSlots => sup = {}
    /\ outcome' = [outcome EXCEPT ![k] =
            [op |-> "write", reason |-> "given", memory |-> m, superseded |-> sup]]
    /\ memory' = [memory EXCEPT ![m] =
            [project |-> k.project, slot |-> slot, text |-> text, source |-> k,
             pseq |-> place[k]]]
    /\ relations' = relations \cup
            {[prior |-> q, successor |-> m, source |-> k] : q \in sup}
    /\ UNCHANGED place

Next ==
    \E k \in Keys :
        \/ Admit(k)
        \/ SettleForgotten(k, outcome'[k])
        \/ \E m \in MemoryIds, slot \in Slots, text \in Texts, sup \in SUBSET MemoryIds :
                SettleRemembered(k, m, slot, text, sup)

Spec == Init /\ [][Next]_ledger
=============================================================================
