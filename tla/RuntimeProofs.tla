--------------------------- MODULE RuntimeProofs ----------------------------
(***************************************************************************)
(* The threads of observe.py over the event store and the turnstile, for   *)
(* any number of threads, requests and projects.                           *)
(*                                                                         *)
(* The threads are clients of the store: every step of theirs is a step of *)
(* EventStore or leaves it alone, so its theorems hold of them.  What they *)
(* know beyond it they know from the turnstile, which keeps others of      *)
(* their project out from the turn on, and from the coordinator, which     *)
(* keeps claims and registrations in one order.                            *)
(***************************************************************************)
EXTENDS ObserveRuntime, EventStoreProofs, FiniteSetTheorems

\* What a frame is made of.
PlanRecords ==
    [op : {"none", "fail", "forget", "remember"}, result : Results \cup {Nil},
     slot : Slots \cup {Nil}, text : Texts \cup {Nil}, sup : SUBSET MemoryIds]
Replies ==
    [code : {0, 200, 202, 409, 503},
     error : {"none", "not_claimable", "idempotency_conflict", "lease_lost", "provider",
              "sqlite_io_error"},
     result : Results \cup {Nil}]
Frames ==
    [pc : {"idle", "claimed", "waiting", "inside", "owner", "decided", "ready", "leaving",
           "done"},
     request : Requests \cup {Nil}, attempt : 0..MaxAttempts, seen : SUBSET MemoryIds,
     plan : PlanRecords, reply : Replies]

RuntimeTypes ==
    /\ clock \in 0..ClockLimit
    /\ since \in [Keys -> 0..ClockLimit]
    /\ coordinator \in [Processes -> Threads \cup {Nobody}]
    /\ phase \in [Threads -> Gate!Phases]
    /\ turn = [t \in Threads |-> turn[t]]
    /\ local \in [Threads -> Frames]

\* Where a thread has its turn, and where it has an attempt.
HasTurn == {"inside", "owner", "decided", "ready", "leaving"}
HasAttempt == {"claimed", "waiting"} \cup HasTurn

\* A thread with an attempt has it of an event that is there.
FrameHolds(t) ==
    /\ local[t].pc # "idle" => local[t].request \in Requests
    /\ local[t].pc \in HasAttempt => Attempt(t) \in Attempts /\ Present(Key(t))
    /\ local[t].pc = "leaving" => local[t].reply.code # 202
    /\ local[t].reply.error = "provider" => Attempt(t) \in Attempts

FramesHold == \A t \in Threads : FrameHolds(t)

\* The turnstile's tickets are the threads'.
TurnAgrees(t) ==
    /\ local[t].pc = "waiting" <=> phase[t] = "registered"
    /\ local[t].pc \in HasTurn <=> phase[t] = "active"
    /\ local[t].pc \in {"waiting"} \cup HasTurn => turn[t] = TurnOf(t)

TurnsAgree == \A t \in Threads : TurnAgrees(t)

\* Threads that have their turn at once are of different projects.
OneTurn ==
    \A t, u \in Threads :
        t # u /\ Gate!Inside(t) /\ Gate!Inside(u) => turn[t].project # turn[u].project

\* A thread between its claim and its registration has the coordinator, and
\* a new event of its has its place behind all that were claimed before.
ClaimsInOrder ==
    \A t \in Threads : At(t, "claimed") =>
        /\ coordinator[ProcessOf[t]] = t
        /\ Attempt(t) = 1 =>
            \A u \in Threads :
                /\ u # t /\ ProcessOf[u] = ProcessOf[t] /\ local[u].pc \in HasAttempt
                /\ Key(u).project = Key(t).project
                => event[Key(u)].pseq < event[Key(t)].pseq

\* What was decided about an event can be done to it: a duplicate is of a known
\* memory, and an event that was stale stays so.
PlanHolds(t) ==
    LET plan == local[t].plan IN
    /\ local[t].pc = "decided" => plan.op = "remember"
    /\ plan.op = "forget" =>
        \/ plan.result \in {NoOp("given"), NoOp("blank")}
        \/ \E m \in Known(Key(t)) : plan.result = Duplicate(m)
        \/ /\ plan.result = NoOp("stale_project_event")
           /\ \E slot \in Slots : StaleFor(Key(t), slot)
    /\ plan.op = "remember" =>
        /\ plan.slot \in Slots /\ plan.text \in Texts
        /\ \A m \in plan.sup : Stored(m)

PlansHold == \A t \in Threads : local[t].pc \in {"decided", "ready"} => PlanHolds(t)

\* ResponsesHold, of one thread.
ResponseHolds(t) ==
    local[t].pc \in {"leaving", "done"} =>
        LET reply == local[t].reply IN
        /\ reply.code = 200 => /\ event[Key(t)].state = "completed"
                               /\ event[Key(t)].result = reply.result
        /\ reply.error = "provider" => run[Key(t)][Attempt(t)] = "failed_retryable"

RuntimeInv ==
    /\ RuntimeTypes
    /\ FramesHold /\ TurnsAgree /\ OneTurn /\ ClaimsInOrder /\ PlansHold
    /\ ResponsesHold

\* The number the request passed that claimed the attempt of an event that is
\* pending: the time of the claim, or demo_server.py's.
ClaimedAt(k) == IF HttpClock THEN 100 + event[k].seq ELSE since[k]

\* A lease runs from the last claim.
LeasesRun ==
    \A k \in Keys : event[k].state = "pending" => event[k].lease = ClaimedAt(k) + LeaseSeconds

\* A memory about to be written repeats none of those the decision saw.
PlansAreNew ==
    \A t \in Threads :
        local[t].pc \in {"decided", "ready"} /\ local[t].plan.op = "remember" =>
            Equivalents(local[t].plan.slot, local[t].plan.text, local[t].seen) = {}

---------------------------------------------------------------------------
\* The threads as clients of the store

\* A thread with an attempt has it of an event the store knows.
LEMMA Attempting ==
    ASSUME RuntimeTypes, FramesHold, NEW t \in Threads, local[t].pc \in HasAttempt
    PROVE  /\ local[t].request \in Requests /\ Key(t) \in Keys
           /\ Attempt(t) \in Attempts /\ Present(Key(t))
BY RuntimeAssumption DEF FramesHold, FrameHolds, HasAttempt, HasTurn, Key

LEMMA RequestsAreClaims ==
    ASSUME Inductive, RuntimeTypes, NEW t \in Threads, NEW q \in Requests,
           Claimed(t, q) \/ Refused(t, q)
    PROVE  [Next]_vars
<1>1. q.key \in Keys /\ q.seq \in Sequences /\ q.body \in Bodies /\ Now(q) \in Times
  BY RuntimeAssumption DEF RuntimeTypes, Now
<1>2. CASE Claimed(t, q)
  <2>1. Claim(q.key)
    BY <1>1, <1>2 DEF Claimed, Claim
  <2> QED BY <1>1, <2>1 DEF Next
<1>3. CASE Refused(t, q)
  <2>1. Claim(q.key) \/ UNCHANGED vars
    BY <1>1, <1>3 DEF Refused, Claim
  <2> QED BY <1>1, <2>1 DEF Next
<1> QED BY <1>2, <1>3

LEMMA CommitsAreSteps ==
    ASSUME Inductive, RuntimeInv, NEW t \in Threads, Commit(t) \/ Fail(t)
    PROVE  Next
<1> DEFINE k == Key(t)  n == Attempt(t)  plan == local[t].plan
<1>1. At(t, "ready")
  BY DEF Commit, Fail, Ready
<1>2. k \in Keys /\ n \in Attempts /\ PlanHolds(t)
  BY <1>1, Attempting DEF RuntimeInv, HasAttempt, HasTurn, At, PlansHold
<1>3. CASE Fail(t)
  BY <1>2, <1>3 DEF Fail, Next
<1>4. CASE Ready(t, "forget") /\ CompleteEvent(k, n, plan.result)
  <2>1. plan.op = "forget" /\ ValidResult(plan.result)
    BY <1>4 DEF Ready, CompleteEvent, Complete
  <2>2. plan.result # NoOp("blank")
    BY <2>1 DEF ValidResult, NoOp
  <2>3. CASE plan.result = NoOp("given")
    <3>1. Forget(k, n)
      BY <1>4, <2>3 DEF Forget
    <3> QED BY <1>2, <3>1 DEF Next
  <2>4. CASE \E m \in Known(k) : plan.result = Duplicate(m)
    <3>1. Forget(k, n)
      BY <1>4, <2>4 DEF Forget
    <3> QED BY <1>2, <3>1 DEF Next
  <2>5. ASSUME NEW slot \in Slots, StaleFor(k, slot), plan.result = NoOp("stale_project_event")
        PROVE  Next
    <3>1. CompleteStale(k, n, slot)
      BY <1>4, <2>5 DEF CompleteEvent, CompleteStale
    <3>2. Remember(k, n)
      BY <2>5, <3>1 DEF Remember
    <3> QED BY <1>2, <3>2 DEF Next
  <2> QED BY <1>2, <2>1, <2>2, <2>3, <2>4, <2>5 DEF PlanHolds
<1>5. CASE Ready(t, "remember") /\ Observed(t)
  <2>1. plan.op = "remember"
    BY <1>5 DEF Ready
  <2>2. /\ plan.slot \in Slots /\ plan.text \in Texts
        /\ plan.sup \in SUBSET {m \in MemoryIds : Stored(m)}
    BY <1>2, <2>1 DEF PlanHolds, RuntimeInv, RuntimeTypes, Frames, PlanRecords
  <2>3. Remember(k, n)
    BY <1>5, <2>2 DEF Observed, Remember
  <2> QED BY <1>2, <2>3 DEF Next
<1> QED BY <1>3, <1>4, <1>5 DEF Commit

LEMMA StepsOfTheStore ==
    ASSUME Inductive, RuntimeInv, [RuntimeNext]_runtime
    PROVE  [Next]_vars
<1>1. ASSUME NEW t \in Threads, Request(t) PROVE [Next]_vars
  BY <1>1, RequestsAreClaims DEF Request, RuntimeInv
<1>2. ASSUME NEW t \in Threads, Serve(t) \/ Escape(t) PROVE [Next]_vars
  BY <1>2, CommitsAreSteps DEF Serve, Escape, RegisterTurn, TakeTurn, CheckOwner, Decide,
                               PreCheck, CommitNothing, LeaveTurn
<1>3. CASE (\E p \in Processes : Crash(p)) \/ Tick
  BY <1>3 DEF Crash, Tick
<1>4. CASE UNCHANGED runtime
  BY <1>4 DEF runtime, vars
<1> QED BY <1>1, <1>2, <1>3, <1>4 DEF RuntimeNext

\* What no step of the store takes back.
Kept ==
    /\ \A k \in Keys : Present(k) => Present(k)' /\ event'[k].pseq = event[k].pseq
    /\ \A k \in Keys : event[k].state = "completed" => event'[k] = event[k]
    /\ \A k \in Keys, n \in Attempts : run[k][n] \notin {"none", "running"} => run'[k][n] = run[k][n]
    /\ \A m \in MemoryIds : Stored(m) => memory'[m] = memory[m]
    /\ \A k \in Keys, slot \in Slots : Present(k) /\ StaleFor(k, slot) => StaleFor(k, slot)'

\* An event that is stale stays so: what supersedes a newer memory is newer.
LEMMA StoreKeeps ==
    ASSUME Inductive, [Next]_vars
    PROVE  Inductive' /\ Kept
<1>1. Inductive'
  BY InductiveStep
<1>2. TypeOK /\ TypeOK' /\ NewestIsActive'
  BY <1>1 DEF Inductive
<1>3. \A k \in Keys :
        /\ event[k].state = "completed" => event'[k] = event[k]
        /\ Present(k) => Present(k)' /\ event'[k].pseq = event[k].pseq
  BY <1>2, RowsKept
<1>4. \A k \in Keys, n \in Attempts : run[k][n] \notin {"none", "running"} => run'[k][n] = run[k][n]
  BY RunsStep DEF RunsFinal
<1>5. \A m \in MemoryIds : Stored(m) => memory'[m] = memory[m]
  BY <1>2, MemoriesKept
<1>6. ASSUME NEW k \in Keys, NEW slot \in Slots, Present(k), StaleFor(k, slot)
      PROVE  StaleFor(k, slot)'
  <2>1. PICK m \in MemoryIds : NewerActive(k, slot, m)
    BY <1>6 DEF StaleFor
  <2>2. /\ memory'[m] = memory[m] /\ memory'[m] # Nil
        /\ memory[m].project = k.project /\ memory[m].slot = slot
        /\ memory[m].pseq > event[k].pseq
    BY <1>5, <2>1 DEF NewerActive, Active, Stored
  <2>3. PICK l \in MemoryIds :
          /\ Active(l)'
          /\ memory'[l].project = memory'[m].project /\ memory'[l].slot = memory'[m].slot
          /\ memory'[l].pseq >= memory'[m].pseq
    BY <1>2, <2>2 DEF NewestIsActive, Stored
  <2>4. memory'[l].pseq \in Int /\ memory[m].pseq \in Int /\ event[k].pseq \in Int
    BY <1>2, <2>2, <2>3, BoundsAreNatural DEF TypeOK, Active, Stored, MemoryRows, EventRows
  <2>5. event'[k].pseq = event[k].pseq
    BY <1>3, <1>6
  <2>6. NewerActive(k, slot, l)'
    BY <2>2, <2>3, <2>4, <2>5 DEF NewerActive
  <2> QED BY <2>6 DEF StaleFor
<1> QED BY <1>1, <1>3, <1>4, <1>5, <1>6 DEF Kept

---------------------------------------------------------------------------
\* What a step does to the frames

OthersStand(t) ==
    /\ local' \in [Threads -> Frames]
    /\ \A u \in Threads : u # t => local'[u] = local[u]

\* t keeps its request and its attempt.
SameClaim(t) ==
    local'[t].request = local[t].request /\ local'[t].attempt = local[t].attempt

LEMMA OneMoves ==
    ASSUME RuntimeTypes, NEW t \in Threads, NEW frame \in Frames,
           local' = [local EXCEPT ![t] = frame]
    PROVE  OthersStand(t) /\ local'[t] = frame
BY DEF RuntimeTypes, OthersStand

LEMMA Goes ==
    ASSUME RuntimeTypes, NEW t \in Threads, NEW pc, Goto(t, pc),
           pc \in {"waiting", "inside", "owner", "done"}
    PROVE  /\ OthersStand(t) /\ SameClaim(t) /\ local'[t].pc = pc
           /\ local'[t].plan = local[t].plan /\ local'[t].reply = local[t].reply
<1> DEFINE frame == [local[t] EXCEPT !.pc = pc]
<1>1. local[t] \in Frames /\ local' = [local EXCEPT ![t] = frame]
  BY DEF RuntimeTypes, Goto
<1>2. /\ frame \in Frames /\ frame.pc = pc /\ frame.request = local[t].request
      /\ frame.attempt = local[t].attempt /\ frame.plan = local[t].plan
      /\ frame.reply = local[t].reply
  BY <1>1 DEF Frames
<1> HIDE DEF frame
<1> QED BY <1>1, <1>2, OneMoves DEF SameClaim

LEMMA Returns ==
    ASSUME RuntimeTypes, NEW t \in Threads, NEW reply \in Replies, Return(t, reply)
    PROVE  /\ OthersStand(t) /\ SameClaim(t) /\ local'[t].pc = "leaving"
           /\ local'[t].reply = reply
<1> DEFINE frame == [local[t] EXCEPT !.pc = "leaving", !.seen = {}, !.plan = NoPlan,
                                     !.reply = reply]
<1>1. local[t] \in Frames /\ local' = [local EXCEPT ![t] = frame]
  BY DEF RuntimeTypes, Return
<1>2. NoPlan \in PlanRecords
  BY DEF NoPlan, PlanRecords
<1>3. /\ frame \in Frames /\ frame.pc = "leaving" /\ frame.request = local[t].request
      /\ frame.attempt = local[t].attempt /\ frame.reply = reply
  BY <1>1, <1>2 DEF Frames
<1> HIDE DEF frame
<1> QED BY <1>1, <1>3, OneMoves DEF SameClaim

\* What the model may come to about what it is shown.
LEMMA PlanFacts ==
    ASSUME NEW k \in Keys, NEW shown \in SUBSET MemoryIds, NEW plan \in Plans(k, shown)
    PROVE  /\ plan \in PlanRecords /\ plan.op \in {"fail", "forget", "remember"}
           /\ plan.op = "forget" =>
                plan.result \in {NoOp("given"), NoOp("blank")}
                \/ \E m \in shown : plan.result = Duplicate(m)
           /\ plan.op = "remember" =>
                /\ plan.slot \in Slots /\ plan.text \in Texts /\ plan.sup \subseteq shown
                /\ Equivalents(plan.slot, plan.text, shown) = {}
<1> DEFINE Goal(x) ==
        /\ x \in PlanRecords /\ x.op \in {"fail", "forget", "remember"}
        /\ x.op = "forget" =>
             x.result \in {NoOp("given"), NoOp("blank")}
             \/ \E m \in shown : x.result = Duplicate(m)
        /\ x.op = "remember" =>
             /\ x.slot \in Slots /\ x.text \in Texts /\ x.sup \subseteq shown
             /\ Equivalents(x.slot, x.text, shown) = {}
<1>1. /\ NoOp("given") \in Results /\ NoOp("blank") \in Results
      /\ \A m \in shown : Duplicate(m) \in Results
  BY DEF NoOp, Duplicate, Results, Reasons
<1>2. ASSUME NEW r \in Results
      PROVE  /\ Forgetting(r) \in PlanRecords /\ Forgetting(r).op = "forget"
             /\ Forgetting(r).result = r
  BY DEF Forgetting, NoPlan, PlanRecords
<1>3. Goal([NoPlan EXCEPT !.op = "fail"])
  BY DEF NoPlan, PlanRecords
<1>4. Goal(Forgetting(NoOp("given"))) /\ Goal(Forgetting(NoOp("blank")))
  BY <1>1, <1>2
<1>5. \A m \in shown : Goal(Forgetting(Duplicate(m)))
  BY <1>1, <1>2
<1>6. ASSUME NEW slot \in Slots, NEW text \in Texts, NEW sup \in SUBSET shown,
             Equivalents(slot, text, shown) = {}
      PROVE  Goal([NoPlan EXCEPT !.op = "remember", !.slot = slot, !.text = text, !.sup = sup])
  <2> DEFINE x == [NoPlan EXCEPT !.op = "remember", !.slot = slot, !.text = text, !.sup = sup]
  <2>1. /\ x \in PlanRecords /\ x.op = "remember" /\ x.slot = slot /\ x.text = text /\ x.sup = sup
    BY DEF NoPlan, PlanRecords
  <2> HIDE DEF x
  <2>2. Goal(x)
    BY <1>6, <2>1
  <2> QED BY <2>2 DEF x
<1> HIDE DEF Goal
<1>7. \A x \in WritePlans(k, shown) : Goal(x)
  <2> DEFINE Part(slot, text) ==
          IF Equivalents(slot, text, shown) # {}
          THEN {Forgetting(Duplicate(m)) : m \in Equivalents(slot, text, shown)}
          ELSE {[NoPlan EXCEPT !.op = "remember", !.slot = slot, !.text = text, !.sup = sup] :
                  sup \in {s \in SUBSET shown :
                              s # {} => /\ slot \notin LessonSlots
                                        /\ \A m \in s : PriorErrors(k, slot, m) = {}}}
  <2>1. WritePlans(k, shown) = UNION {Part(slot, text) : slot \in Slots, text \in Texts}
    BY DEF WritePlans
  <2>2. ASSUME NEW slot \in Slots, NEW text \in Texts, NEW x \in Part(slot, text)
        PROVE  Goal(x)
    <3>1. CASE Equivalents(slot, text, shown) # {}
      BY <1>5, <2>2, <3>1 DEF Equivalents
    <3>2. CASE Equivalents(slot, text, shown) = {}
      BY <1>6, <2>2, <3>2
    <3> QED BY <3>1, <3>2
  <2> HIDE DEF Part
  <2> QED BY <2>1, <2>2
<1>8. Goal(plan)
  BY <1>3, <1>4, <1>5, <1>7 DEF Plans
<1> QED BY <1>8 DEF Goal

---------------------------------------------------------------------------
\* What a step leaves to the other threads

LEMMA Parts ==
    /\ ResponsesHold <=> \A t \in Threads : ResponseHolds(t)
    /\ ResponsesHold' <=> \A t \in Threads : ResponseHolds(t)'
BY DEF ResponsesHold, ResponseHolds

LEMMA PlanStaysGood ==
    ASSUME Kept, NEW u \in Threads, local[u] \in Frames, local'[u] = local[u], Key(u) \in Keys, Present(Key(u)),
           PlanHolds(u)
    PROVE  PlanHolds(u)'
<1>1. local[u].plan' = local[u].plan /\ Key(u)' = Key(u)
  BY DEF Key
<1>2. \A m \in MemoryIds : Stored(m) => Stored(m)' /\ memory'[m] = memory[m]
  BY DEF Kept, Stored
<1>3. Known(Key(u)) \subseteq Known(Key(u))'
  BY <1>1, <1>2 DEF Known
<1>4. \A slot \in Slots : StaleFor(Key(u), slot) => StaleFor(Key(u), slot)'
  BY DEF Kept, StaleFor, NewerActive, Key
<1>5. local[u].plan.sup \subseteq MemoryIds
  BY DEF Frames, PlanRecords
<1> QED BY <1>1, <1>2, <1>3, <1>4, <1>5 DEF PlanHolds

LEMMA OthersHold ==
    ASSUME RuntimeInv, Kept, NEW t \in Threads, OthersStand(t), NEW u \in Threads, u # t
    PROVE  /\ FrameHolds(u)'
           /\ local'[u].pc \in {"decided", "ready"} => PlanHolds(u)'
           /\ ResponseHolds(u)'
           /\ phase'[u] = phase[u] /\ turn'[u] = turn[u] => TurnAgrees(u)'
<1>1. /\ local'[u] = local[u] /\ Key(u)' = Key(u) /\ Attempt(u)' = Attempt(u)
      /\ FrameHolds(u) /\ TurnAgrees(u)
  BY DEF OthersStand, Key, Attempt, RuntimeInv, FramesHold, TurnsAgree
<1>2. local[u].pc # "idle" => Key(u) \in Keys
  BY <1>1, RuntimeAssumption DEF FrameHolds, Key
<1>3. local[u].pc \in HasAttempt => local[u].pc # "idle"
  BY DEF HasAttempt, HasTurn
<1>4. local[u].pc \in HasAttempt =>
        Present(Key(u)) /\ Present(Key(u))' /\ event'[Key(u)].pseq = event[Key(u)].pseq
  BY <1>1, <1>2, <1>3 DEF Kept, FrameHolds
<1>5. FrameHolds(u)'
  BY <1>1, <1>4 DEF FrameHolds
<1>6. ASSUME local[u].pc \in {"decided", "ready"} PROVE PlanHolds(u)'
  <2>1. PlanHolds(u) /\ Present(Key(u)) /\ Key(u) \in Keys
    BY <1>1, <1>2, <1>4, <1>6 DEF RuntimeInv, PlansHold, HasAttempt, HasTurn
  <2>2. local[u] \in Frames
    BY DEF RuntimeInv, RuntimeTypes
  <2> QED BY <1>1, <2>1, <2>2, PlanStaysGood
<1>7. ResponseHolds(u)'
  <2>1. ResponseHolds(u)
    BY Parts DEF RuntimeInv
  <2> QED BY <1>1, <1>2, <2>1 DEF ResponseHolds, Kept, FrameHolds
<1>8. phase'[u] = phase[u] /\ turn'[u] = turn[u] => TurnAgrees(u)'
  <2>1. local[u].pc \in {"waiting"} \cup HasTurn => TurnOf(u)' = TurnOf(u)
    BY <1>1, <1>4 DEF TurnOf, HasAttempt
  <2> QED BY <1>1, <2>1 DEF TurnAgrees
<1> QED BY <1>1, <1>5, <1>6, <1>7, <1>8

\* No thread comes to a claim, and none that has made one loses its place.
LEMMA ClaimsStand ==
    ASSUME RuntimeInv, Kept,
           \A w \in Threads : local'[w].pc = "claimed" =>
              /\ local[w].pc = "claimed" /\ SameClaim(w)
              /\ coordinator'[ProcessOf[w]] = coordinator[ProcessOf[w]],
           \A u \in Threads : local'[u].pc \in HasAttempt =>
              local[u].pc \in HasAttempt /\ SameClaim(u)
    PROVE  ClaimsInOrder'
<1>1. \A u \in Threads : local[u].pc \in HasAttempt =>
        Key(u) \in Keys /\ event'[Key(u)].pseq = event[Key(u)].pseq
  BY Attempting DEF RuntimeInv, Kept
<1>2. \A u \in Threads : SameClaim(u) => Key(u)' = Key(u) /\ Attempt(u)' = Attempt(u)
  BY DEF SameClaim, Key, Attempt
<1>3. ASSUME NEW w \in Threads, At(w, "claimed")'
      PROVE  coordinator'[ProcessOf[w]] = w
  BY <1>3 DEF At, RuntimeInv, ClaimsInOrder
<1>4. ASSUME NEW w \in Threads, At(w, "claimed")', Attempt(w)' = 1,
             NEW u \in Threads, u # w, ProcessOf[u] = ProcessOf[w],
             local'[u].pc \in HasAttempt, Key(u)'.project = Key(w)'.project
      PROVE  event'[Key(u)'].pseq < event'[Key(w)'].pseq
  <2>1. At(w, "claimed") /\ SameClaim(w) /\ local[u].pc \in HasAttempt /\ SameClaim(u)
    BY <1>4 DEF At
  <2>2. local[w].pc \in HasAttempt
    BY <2>1 DEF At, HasAttempt
  <2>3. event[Key(u)].pseq < event[Key(w)].pseq
    BY <1>2, <1>4, <2>1 DEF RuntimeInv, ClaimsInOrder
  <2> QED BY <1>1, <1>2, <2>1, <2>2, <2>3
<1> QED BY <1>3, <1>4 DEF ClaimsInOrder

\* A step of a thread that has its turn and keeps it.
LEMMA WorkingStep ==
    ASSUME RuntimeInv, Kept, NEW t \in Threads, OthersStand(t), SameClaim(t),
           local[t].pc \in HasTurn, local'[t].pc \in HasTurn,
           UNCHANGED <<clock, since, coordinator, phase, turn>>,
           local'[t].pc = "leaving" => local'[t].reply.code # 202,
           local'[t].pc \in {"decided", "ready"} => PlanHolds(t)',
           ResponseHolds(t)'
    PROVE  RuntimeInv'
<1>1. /\ local[t].request \in Requests /\ Key(t) \in Keys
      /\ Attempt(t) \in Attempts /\ Present(Key(t))
  BY Attempting DEF RuntimeInv, HasAttempt
<1>2. Key(t)' = Key(t) /\ Attempt(t)' = Attempt(t)
  BY DEF SameClaim, Key, Attempt
<1>3. RuntimeTypes'
  BY DEF RuntimeInv, RuntimeTypes, OthersStand
<1>4. FrameHolds(t)'
  BY <1>1, <1>2 DEF FrameHolds, SameClaim, Kept
<1>5. FramesHold'
  BY <1>4, OthersHold DEF FramesHold
<1>6. TurnAgrees(t)'
  <2>1. TurnAgrees(t) /\ TurnOf(t)' = TurnOf(t)
    BY <1>1, <1>2 DEF RuntimeInv, TurnsAgree, TurnOf, Kept
  <2> QED BY <2>1 DEF TurnAgrees, HasTurn
<1>7. TurnsAgree'
  BY <1>6, OthersHold DEF TurnsAgree
<1>8. OneTurn'
  BY DEF RuntimeInv, OneTurn, Gate!Inside
<1>9. ClaimsInOrder'
  <2>1. \A u \in Threads : u # t => SameClaim(u) /\ local'[u] = local[u]
    BY DEF OthersStand, SameClaim
  <2> QED BY <2>1, ClaimsStand DEF HasAttempt, HasTurn
<1>10. PlansHold'
  BY OthersHold DEF PlansHold
<1>11. ResponsesHold'
  BY OthersHold, Parts
<1> QED BY <1>3, <1>5, <1>7, <1>8, <1>9, <1>10, <1>11 DEF RuntimeInv

---------------------------------------------------------------------------
\* Claims

\* What claim_event gives: the first attempt of an event that is the last of
\* its project, or a later attempt of one that was there.
LEMMA ClaimGives ==
    ASSUME Inductive, Inductive', NEW k \in Keys, NEW s \in Sequences, NEW b \in Bodies,
           NEW now \in Times, ClaimNew(k, s, b, now) \/ TakeOver(k, s, b, now)
    PROVE  /\ event'[k].state = "pending" /\ event'[k].attempt \in Attempts
           /\ event'[k].lease = now + LeaseSeconds /\ event'[k].seq = s
           /\ event[k].state = "pending" => event[k].seq = s /\ event[k].lease <= now
           /\ event'[k].attempt = 1 =>
                \A l \in Keys : Present(l) /\ l.project = k.project =>
                    l # k /\ event[l].pseq < event'[k].pseq
           /\ \A l \in Keys : l # k => event'[l] = event[l]
<1> USE DEF Inductive, TypeOK
<1>1. CASE ClaimNew(k, s, b, now)
  <2>1. PICK n \in ProjectSeqs : NextProjectSeq(k, n) /\ event' = [event EXCEPT ![k] = FirstRow(s, b, n, now)]
    BY <1>1 DEF ClaimNew
  <2>2. event'[k] = FirstRow(s, b, n, now) /\ 1 \in Attempts /\ ~Present(k)
    BY <1>1, <2>1 DEF ClaimNew
  <2>3. \A l \in Keys : Present(l) /\ l.project = k.project => l # k /\ event[l].pseq < n
    BY <2>1, <2>2 DEF NextProjectSeq
  <2>4. \A l \in Keys : l # k => event'[l] = event[l]
    BY <2>1
  <2> QED BY <2>2, <2>3, <2>4 DEF FirstRow, Present
<1>2. CASE TakeOver(k, s, b, now)
  <2>1. event' = [event EXCEPT ![k] = RetriedRow(event[k], now)]
    BY <1>2 DEF TakeOver
  <2>2. event'[k] = RetriedRow(event[k], now)
    BY <2>1
  <2>3. Present(k)
    BY <1>2 DEF TakeOver, Takeable, Present
  <2>4. event[k].attempt \in Attempts /\ event[k].attempt + 1 \in Attempts
    BY <1>2, <2>3 DEF TakeOver, RowsWhole, WholeRow, ConsistentRuns, RunsMatch
  <2>5. event'[k].attempt = event[k].attempt + 1 /\ event'[k].attempt # 1
    BY <2>2, <2>4 DEF RetriedRow, Attempts
  <2>6. \A l \in Keys : l # k => event'[l] = event[l]
    BY <2>1
  <2>7. event[k].seq = s /\ (event[k].state = "pending" => event[k].lease <= now)
    BY <1>2 DEF TakeOver, SamePayload, Takeable, LeaseExpired
  <2> QED BY <2>2, <2>4, <2>5, <2>6, <2>7 DEF RetriedRow
<1> QED BY <1>1, <1>2

LEMMA FrameTypes ==
    ASSUME NEW q \in Requests
    PROVE  /\ Idle \in Frames /\ Frame(q) \in Frames
           /\ Frame(q).request = q /\ Frame(q).reply = NoReply /\ Frame(q).attempt = 0
<1>1. NoPlan \in PlanRecords /\ NoReply \in Replies
  BY DEF NoPlan, PlanRecords, NoReply, Replies
<1>2. Idle \in Frames
  BY <1>1, BoundsAreNatural DEF Idle, Frames
<1> QED BY <1>2 DEF Frame, Frames, Idle

LEMMA ClaimedHolds ==
    ASSUME Inductive, Inductive', RuntimeInv, Kept, NEW t \in Threads, NEW q \in Requests,
           local[t].pc \in {"idle", "done"}, Claimed(t, q)
    PROVE  RuntimeInv'
<1> DEFINE k == q.key  n == event'[k].attempt
           frame == [Frame(q) EXCEPT !.pc = "claimed", !.attempt = n]
<1>1. k \in Keys /\ q.seq \in Sequences /\ q.body \in Bodies /\ Now(q) \in Times
  BY RuntimeAssumption DEF RuntimeInv, RuntimeTypes, Now
<1>2. ClaimNew(k, q.seq, q.body, Now(q)) \/ TakeOver(k, q.seq, q.body, Now(q))
  BY DEF Claimed
<1>3. /\ event'[k].state = "pending" /\ event'[k].attempt \in Attempts
      /\ event'[k].attempt = 1 =>
            \A l \in Keys : Present(l) /\ l.project = k.project =>
                l # k /\ event[l].pseq < event'[k].pseq
  BY <1>1, <1>2, ClaimGives
<1>4. /\ frame \in Frames /\ frame.pc = "claimed" /\ frame.request = q
      /\ frame.attempt = n /\ frame.reply = NoReply
  <2>1. n \in 0..MaxAttempts
    BY <1>3 DEF Attempts
  <2> HIDE DEF n
  <2> QED BY <2>1, FrameTypes DEF Frames
<1>5. OthersStand(t) /\ local'[t] = frame
  BY <1>4, OneMoves DEF RuntimeInv, Claimed
<1> HIDE DEF frame
<1>6. /\ local'[t].pc = "claimed" /\ Key(t)' = k /\ Attempt(t)' = event'[k].attempt
      /\ Present(Key(t))' /\ local'[t].request \in Requests /\ local'[t].reply = NoReply
  BY <1>3, <1>4, <1>5 DEF Key, Attempt, Present
<1>7. /\ CoordinatorFree(t) /\ coordinator' = [coordinator EXCEPT ![ProcessOf[t]] = t]
      /\ since' = [since EXCEPT ![k] = clock] /\ UNCHANGED <<clock, phase, turn>>
  BY DEF Claimed
<1>8. RuntimeTypes'
  BY <1>5, <1>7, RuntimeAssumption DEF RuntimeInv, RuntimeTypes, OthersStand
<1>9. FrameHolds(t)' /\ ResponseHolds(t)'
  BY <1>3, <1>6 DEF FrameHolds, ResponseHolds, NoReply
<1>10. FramesHold' /\ ResponsesHold'
  BY <1>5, <1>9, OthersHold, Parts DEF FramesHold
<1>11. TurnAgrees(t)'
  BY <1>6, <1>7 DEF RuntimeInv, TurnsAgree, TurnAgrees, HasTurn
<1>12. TurnsAgree'
  BY <1>5, <1>7, <1>11, OthersHold DEF TurnsAgree
<1>13. OneTurn'
  BY <1>7 DEF RuntimeInv, OneTurn, Gate!Inside
<1>14. PlansHold'
  BY <1>5, <1>6, OthersHold DEF PlansHold
<1>15. ASSUME NEW w \in Threads, w # t, At(w, "claimed")'
       PROVE  At(w, "claimed") /\ ProcessOf[w] # ProcessOf[t] /\ coordinator'[ProcessOf[w]] = w
  <2>1. At(w, "claimed") /\ coordinator[ProcessOf[w]] = w
    BY <1>5, <1>15 DEF OthersStand, At, RuntimeInv, ClaimsInOrder
  <2>2. ProcessOf[w] # ProcessOf[t]
    BY <1>7, <2>1, RuntimeAssumption DEF CoordinatorFree
  <2> QED BY <1>7, <2>1, <2>2, RuntimeAssumption DEF RuntimeInv, RuntimeTypes
<1>16. \A u \in Threads : u # t /\ local'[u].pc \in HasAttempt =>
         /\ local[u].pc \in HasAttempt /\ Key(u)' = Key(u) /\ Key(u) \in Keys
         /\ Present(Key(u)) /\ event'[Key(u)].pseq = event[Key(u)].pseq
  BY <1>5, Attempting DEF OthersStand, RuntimeInv, Kept, Key
<1>17. ASSUME NEW w \in Threads, At(w, "claimed")'
       PROVE  coordinator'[ProcessOf[w]] = w
  BY <1>7, <1>15, <1>17, RuntimeAssumption DEF RuntimeInv, RuntimeTypes
<1>18. ASSUME NEW w \in Threads, At(w, "claimed")', Attempt(w)' = 1, NEW u \in Threads,
              u # w, ProcessOf[u] = ProcessOf[w], local'[u].pc \in HasAttempt,
              Key(u)'.project = Key(w)'.project
       PROVE  event'[Key(u)'].pseq < event'[Key(w)'].pseq
  <2>1. CASE w = t
    BY <1>3, <1>6, <1>16, <1>18, <2>1
  <2>2. CASE w # t
    <3>1. At(w, "claimed") /\ u # t
      BY <1>15, <1>18, <2>2
    <3>2. local'[w].pc \in HasAttempt /\ Attempt(w) = 1
      BY <1>5, <1>18, <2>2 DEF At, HasAttempt, OthersStand, Attempt
    <3>3. event[Key(u)].pseq < event[Key(w)].pseq
      BY <1>16, <1>18, <2>2, <3>1, <3>2 DEF RuntimeInv, ClaimsInOrder
    <3> QED BY <1>16, <1>18, <2>2, <3>1, <3>2, <3>3
  <2> QED BY <2>1, <2>2
<1>19. ClaimsInOrder'
  BY <1>17, <1>18 DEF ClaimsInOrder
<1> QED BY <1>8, <1>10, <1>12, <1>13, <1>14, <1>19 DEF RuntimeInv

LEMMA RefusedHolds ==
    ASSUME Inductive, RuntimeInv, Kept, NEW t \in Threads, NEW q \in Requests,
           local[t].pc \in {"idle", "done"}, Refused(t, q)
    PROVE  RuntimeInv' /\ OthersStand(t) /\ local'[t].request = q
           /\ local'[t].reply = AnsweredBy(q)
<1> DEFINE frame == [Frame(q) EXCEPT !.pc = "done", !.reply = AnsweredBy(q)]
<1>1. q.key \in Keys /\ event[q.key] \in EventRows
  BY RuntimeAssumption DEF Inductive, TypeOK
<1>2. /\ AnsweredBy(q) \in Replies /\ AnsweredBy(q).error # "provider"
      /\ AnsweredBy(q).code = 200 =>
            event[q.key].state = "completed" /\ event[q.key].result = AnsweredBy(q).result
  BY <1>1 DEF AnsweredBy, Answer, Replies, EventRows
<1>3. /\ frame \in Frames /\ frame.pc = "done" /\ frame.request = q
      /\ frame.reply = AnsweredBy(q)
  BY <1>2, FrameTypes DEF Frames
<1>4. OthersStand(t) /\ local'[t] = frame
  BY <1>3, OneMoves DEF RuntimeInv, Refused
<1> HIDE DEF frame
<1>5. /\ local'[t].pc = "done" /\ Key(t)' = q.key /\ local'[t].request = q
      /\ local'[t].reply = AnsweredBy(q)
  BY <1>3, <1>4 DEF Key
<1>6. UNCHANGED <<event, run, clock, since, coordinator, phase, turn>>
  BY DEF Refused, ClaimRefused, vars
<1>7. RuntimeTypes'
  BY <1>4, <1>6 DEF RuntimeInv, RuntimeTypes, OthersStand
<1>8. FrameHolds(t)' /\ ResponseHolds(t)'
  BY <1>2, <1>5, <1>6 DEF FrameHolds, ResponseHolds, HasAttempt, HasTurn
<1>9. FramesHold' /\ ResponsesHold'
  BY <1>4, <1>8, OthersHold, Parts DEF FramesHold
<1>10. TurnAgrees(t)'
  BY <1>5, <1>6 DEF RuntimeInv, TurnsAgree, TurnAgrees, HasTurn
<1>11. TurnsAgree'
  BY <1>4, <1>6, <1>10, OthersHold DEF TurnsAgree
<1>12. OneTurn'
  BY <1>6 DEF RuntimeInv, OneTurn, Gate!Inside
<1>13. PlansHold'
  BY <1>4, <1>5, OthersHold DEF PlansHold
<1>14. ClaimsInOrder'
  <2>1. \A u \in Threads : u # t => SameClaim(u) /\ local'[u] = local[u]
    BY <1>4 DEF OthersStand, SameClaim
  <2> QED BY <1>5, <1>6, <2>1, ClaimsStand DEF HasAttempt, HasTurn
<1> QED BY <1>4, <1>5, <1>7, <1>9, <1>11, <1>12, <1>13, <1>14 DEF RuntimeInv

---------------------------------------------------------------------------
\* Turns

LEMMA RegisterHolds ==
    ASSUME RuntimeInv, Kept, NEW t \in Threads, RegisterTurn(t)
    PROVE  RuntimeInv'
<1>1. /\ local[t].pc = "claimed"
      /\ phase' = [phase EXCEPT ![t] = "registered"] /\ turn' = [turn EXCEPT ![t] = TurnOf(t)]
      /\ coordinator' = [coordinator EXCEPT ![ProcessOf[t]] = Nobody]
      /\ UNCHANGED <<clock, since>>
  BY DEF RegisterTurn, Gate!Register, At
<1>2. /\ OthersStand(t) /\ SameClaim(t) /\ local'[t].pc = "waiting"
      /\ local'[t].reply = local[t].reply
  BY Goes DEF RegisterTurn, RuntimeInv
<1>3. Key(t) \in Keys /\ Attempt(t) \in Attempts /\ Present(Key(t)) /\ local[t].request \in Requests
  BY <1>1, Attempting DEF RuntimeInv, HasAttempt
<1>4. Key(t)' = Key(t) /\ Attempt(t)' = Attempt(t) /\ TurnOf(t)' = TurnOf(t)
  BY <1>2, <1>3 DEF SameClaim, Key, Attempt, TurnOf, Kept
<1>5. RuntimeTypes'
  <2>1. turn' = [u \in Threads |-> turn'[u]]
    BY <1>1 DEF RuntimeInv, RuntimeTypes
  <2> QED BY <1>1, <1>2, <2>1 DEF RuntimeInv, RuntimeTypes, OthersStand, Gate!Phases
<1>6. FrameHolds(t)' /\ ResponseHolds(t)' /\ FramesHold' /\ ResponsesHold'
  <2>1. FrameHolds(t)' /\ ResponseHolds(t)'
    BY <1>2, <1>3, <1>4 DEF FrameHolds, ResponseHolds, SameClaim, Kept
  <2> QED BY <1>2, <2>1, OthersHold, Parts DEF FramesHold
<1>7. phase'[t] = "registered" /\ turn'[t] = TurnOf(t)
      /\ \A u \in Threads : u # t => phase'[u] = phase[u] /\ turn'[u] = turn[u]
  <2>1. t \in DOMAIN turn
    BY DEF RuntimeInv, RuntimeTypes
  <2> QED BY <1>1, <2>1 DEF RuntimeInv, RuntimeTypes
<1>8. TurnsAgree'
  <2>1. TurnAgrees(t)'
    BY <1>2, <1>4, <1>7 DEF TurnAgrees, HasTurn
  <2> QED BY <1>2, <1>7, <2>1, OthersHold DEF TurnsAgree
<1>9. OneTurn'
  BY <1>7 DEF RuntimeInv, OneTurn, Gate!Inside
<1>10. PlansHold'
  BY <1>2, OthersHold DEF PlansHold
<1>11. ClaimsInOrder'
  <2>1. ASSUME NEW w \in Threads, local'[w].pc = "claimed"
        PROVE  /\ local[w].pc = "claimed" /\ SameClaim(w)
               /\ coordinator'[ProcessOf[w]] = coordinator[ProcessOf[w]]
    <3>1. w # t /\ local'[w] = local[w] /\ local[w].pc = "claimed"
      BY <1>2, <2>1 DEF OthersStand
    <3>2. coordinator[ProcessOf[w]] = w /\ coordinator[ProcessOf[t]] = t
      BY <1>1, <3>1 DEF RuntimeInv, ClaimsInOrder, At
    <3> QED BY <1>1, <3>1, <3>2, RuntimeAssumption DEF SameClaim, RuntimeInv, RuntimeTypes
  <2>2. \A u \in Threads : local'[u].pc \in HasAttempt => local[u].pc \in HasAttempt /\ SameClaim(u)
    BY <1>1, <1>2 DEF OthersStand, SameClaim, HasAttempt
  <2> QED BY <2>1, <2>2, ClaimsStand
<1> QED BY <1>5, <1>6, <1>8, <1>9, <1>10, <1>11 DEF RuntimeInv

\* A turn is taken by the only thread inside and given up by it.
LEMMA TurnHolds ==
    ASSUME RuntimeInv, Kept, NEW t \in Threads, TakeTurn(t) \/ LeaveTurn(t)
    PROVE  RuntimeInv'
<1> DEFINE pc == IF At(t, "waiting") THEN "inside" ELSE "done"
<1>1. /\ local[t].pc = "waiting" \/ local[t].pc = "leaving"
      /\ Goto(t, pc) /\ UNCHANGED <<clock, since, coordinator, turn>>
      /\ phase' = [phase EXCEPT ![t] = IF At(t, "waiting") THEN "active" ELSE "released"]
  BY DEF TakeTurn, LeaveTurn, Gate!Enter, Gate!Release, At
<1>2. /\ OthersStand(t) /\ SameClaim(t) /\ local'[t].pc = pc
      /\ local'[t].reply = local[t].reply
  BY <1>1, Goes DEF RuntimeInv
<1>3. Key(t) \in Keys /\ Attempt(t) \in Attempts /\ Present(Key(t)) /\ local[t].request \in Requests
  BY <1>1, Attempting DEF RuntimeInv, HasAttempt, HasTurn
<1>4. Key(t)' = Key(t) /\ Attempt(t)' = Attempt(t) /\ TurnOf(t)' = TurnOf(t)
  BY <1>2, <1>3 DEF SameClaim, Key, Attempt, TurnOf, Kept
<1>5. /\ phase'[t] = IF local[t].pc = "waiting" THEN "active" ELSE "released"
      /\ \A u \in Threads : u # t => phase'[u] = phase[u]
  BY <1>1 DEF RuntimeInv, RuntimeTypes, At
<1>6. local'[t].pc = IF local[t].pc = "waiting" THEN "inside" ELSE "done"
  BY <1>2 DEF At
<1>7. RuntimeTypes'
  BY <1>1, <1>2 DEF RuntimeInv, RuntimeTypes, OthersStand, Gate!Phases
<1>8. FramesHold' /\ ResponsesHold'
  <2>1. FrameHolds(t)'
    BY <1>2, <1>3, <1>4, <1>6 DEF FrameHolds, SameClaim, Kept
  <2>2. ResponseHolds(t)'
    <3>1. CASE local[t].pc = "waiting"
      BY <1>6, <3>1 DEF ResponseHolds
    <3>2. CASE local[t].pc = "leaving"
      <4>1. ResponseHolds(t)
        BY Parts DEF RuntimeInv
      <4> QED BY <1>2, <1>3, <1>4, <3>2, <4>1 DEF ResponseHolds, Kept
    <3> QED BY <1>1, <3>1, <3>2
  <2> QED BY <1>2, <2>1, <2>2, OthersHold, Parts DEF FramesHold
<1>9. TurnsAgree'
  <2>1. TurnAgrees(t)'
    <3>1. turn'[t] = TurnOf(t)'
      BY <1>1, <1>4 DEF RuntimeInv, TurnsAgree, TurnAgrees, HasTurn
    <3> QED BY <1>5, <1>6, <3>1 DEF TurnAgrees, HasTurn
  <2> QED BY <1>1, <1>2, <1>5, <2>1, OthersHold DEF TurnsAgree
<1>10. OneTurn'
  <2>1. CASE TakeTurn(t)
    <3>1. \A u \in Threads : u # t /\ phase[u] = "active" => turn[t].project # turn[u].project
      BY <2>1 DEF TakeTurn, Gate!Enter, Gate!MayEnter, Gate!Competes, Gate!Inside
    <3> QED BY <1>1, <1>5, <3>1 DEF RuntimeInv, OneTurn, Gate!Inside
  <2>2. CASE LeaveTurn(t)
    <3>1. \A u \in Threads : phase'[u] = "active" => phase[u] = "active"
      BY <1>5, <2>2 DEF LeaveTurn, At
    <3> QED BY <1>1, <3>1 DEF RuntimeInv, OneTurn, Gate!Inside
  <2> QED BY <2>1, <2>2
<1>11. PlansHold'
  BY <1>2, <1>6, OthersHold DEF PlansHold
<1>12. ClaimsInOrder'
  <2>1. \A u \in Threads : u # t => SameClaim(u) /\ local'[u] = local[u]
    BY <1>2 DEF OthersStand, SameClaim
  <2>2. \A u \in Threads : local'[u].pc \in HasAttempt => local[u].pc \in HasAttempt /\ SameClaim(u)
    BY <1>1, <1>2, <2>1 DEF HasAttempt, HasTurn
  <2> QED BY <1>1, <1>2, <1>6, <2>1, <2>2, ClaimsStand
<1> QED BY <1>7, <1>8, <1>9, <1>10, <1>11, <1>12 DEF RuntimeInv

---------------------------------------------------------------------------
\* The body of the with statement

\* A thread that has its response.
LEMMA ReturnHolds ==
    ASSUME RuntimeInv, Kept, NEW t \in Threads, local[t].pc \in HasTurn,
           NEW reply \in Replies, Return(t, reply), reply.code # 202,
           UNCHANGED <<clock, since, coordinator, phase, turn>>,
           reply.code = 200 => /\ event'[Key(t)].state = "completed"
                               /\ event'[Key(t)].result = reply.result,
           reply.error = "provider" => run'[Key(t)][Attempt(t)] = "failed_retryable"
    PROVE  RuntimeInv'
<1>1. /\ OthersStand(t) /\ SameClaim(t) /\ local'[t].pc = "leaving"
      /\ local'[t].reply = reply
  BY Returns DEF RuntimeInv
<1>2. Key(t)' = Key(t) /\ Attempt(t)' = Attempt(t)
  BY <1>1 DEF SameClaim, Key, Attempt
<1>3. ResponseHolds(t)'
  BY <1>1, <1>2 DEF ResponseHolds
<1> QED BY <1>1, <1>3, WorkingStep DEF HasTurn

LEMMA BodyHolds ==
    ASSUME Inductive, Inductive', RuntimeInv, Kept, NEW t \in Threads,
           CheckOwner(t) \/ Commit(t) \/ Fail(t) \/ CommitNothing(t) \/ Escape(t)
    PROVE  RuntimeInv'
<1>1. /\ local[t].pc \in {"inside", "owner", "decided", "ready"}
      /\ UNCHANGED <<clock, since, coordinator, phase, turn>>
  BY DEF CheckOwner, Commit, Fail, CommitNothing, Escape, At, Ready
<1>2. local[t].pc \in HasTurn
  BY <1>1 DEF HasTurn
<1>3. Key(t) \in Keys /\ Attempt(t) \in Attempts
  BY <1>2, Attempting DEF RuntimeInv, HasAttempt
<1>4. LeaseLost \in Replies /\ LeaseLost.code = 409 /\ LeaseLost.error = "lease_lost"
  BY DEF LeaseLost, Answer, Replies
<1>5. CASE CheckOwner(t)
  <2>1. CASE Goto(t, "owner")
    <3>1. OthersStand(t) /\ SameClaim(t) /\ local'[t].pc = "owner"
      BY <2>1, Goes DEF RuntimeInv
    <3>2. ResponseHolds(t)'
      BY <3>1 DEF ResponseHolds
    <3> QED BY <1>1, <1>2, <3>1, <3>2, WorkingStep DEF HasTurn
  <2>2. CASE Return(t, LeaseLost)
    BY <1>1, <1>2, <1>4, <2>2, ReturnHolds
  <2> QED BY <1>5, <2>1, <2>2 DEF CheckOwner
<1>6. CASE Commit(t)
  <2> DEFINE reply == Answer(200, "none", event'[Key(t)].result)
  <2>1. Return(t, reply) /\ \E r : Complete(Key(t), Attempt(t), r)
    BY <1>6 DEF Commit, CompleteEvent, Observed, CompleteStale, CompleteRejected, CompleteWrite
  <2>2. event'[Key(t)].result \in Results \cup {Nil}
    BY <1>3 DEF Inductive, TypeOK, EventRows
  <2>3. reply \in Replies /\ reply.code = 200 /\ reply.error = "none"
        /\ reply.result = event'[Key(t)].result
    BY <2>2 DEF Answer, Replies
  <2>4. event'[Key(t)].state = "completed"
    <3>1. PICK r : event' = [event EXCEPT ![Key(t)] = CompletedRow(event[Key(t)], r)]
      BY <2>1 DEF Complete
    <3>2. Key(t) \in DOMAIN event
      BY <1>3, <1>6 DEF Kept, RuntimeInv, Inductive, TypeOK
    <3> QED BY <3>1, <3>2 DEF CompletedRow
  <2> HIDE DEF reply
  <2> QED BY <1>1, <1>2, <2>1, <2>3, <2>4, ReturnHolds
<1>7. CASE Fail(t)
  <2> DEFINE reply == Answer(503, "provider", Nil)
  <2>1. reply \in Replies /\ reply.code = 503
    BY DEF Answer, Replies
  <2>2. run'[Key(t)][Attempt(t)] = "failed_retryable"
    BY <1>3, <1>7 DEF Fail, FailRetryable, Inductive, TypeOK
  <2> QED BY <1>1, <1>2, <1>7, <2>1, <2>2, ReturnHolds DEF Fail
<1>8. CASE CommitNothing(t)
  BY <1>1, <1>2, <1>4, <1>8, ReturnHolds DEF CommitNothing
<1>9. CASE Escape(t)
  <2>1. Answer(503, "sqlite_io_error", Nil) \in Replies
        /\ Answer(503, "sqlite_io_error", Nil).code = 503
        /\ Answer(503, "sqlite_io_error", Nil).error = "sqlite_io_error"
    BY DEF Answer, Replies
  <2> QED BY <1>1, <1>2, <1>9, <2>1, ReturnHolds DEF Escape
<1> QED BY <1>5, <1>6, <1>7, <1>8, <1>9

\* A thread comes to a plan.
LEMMA PlanMoves ==
    ASSUME RuntimeTypes, NEW t \in Threads, NEW pc \in {"decided", "ready"},
           NEW seen \in SUBSET MemoryIds, NEW plan \in PlanRecords,
           local' = [local EXCEPT ![t].pc = pc, ![t].seen = seen, ![t].plan = plan]
    PROVE  /\ OthersStand(t) /\ SameClaim(t) /\ local'[t].pc = pc
           /\ local'[t].seen = seen /\ local'[t].plan = plan
<1> DEFINE frame == [local[t] EXCEPT !.pc = pc, !.seen = seen, !.plan = plan]
<1>1. local[t] \in Frames /\ local' = [local EXCEPT ![t] = frame]
  BY DEF RuntimeTypes
<1>2. /\ frame \in Frames /\ frame.pc = pc /\ frame.request = local[t].request
      /\ frame.attempt = local[t].attempt /\ frame.seen = seen /\ frame.plan = plan
  BY <1>1 DEF Frames
<1> HIDE DEF frame
<1> QED BY <1>1, <1>2, OneMoves DEF SameClaim

\* The candidates are active memories of the project, and the plan names no
\* others.
LEMMA DecideFacts ==
    ASSUME RuntimeInv, NEW t \in Threads, Decide(t)
    PROVE  \E pc \in {"decided", "ready"}, shown \in SUBSET ActiveIn(Key(t).project),
              plan \in PlanRecords :
              /\ shown \in CandidateLists(ActiveIn(Key(t).project))
              /\ plan \in Plans(Key(t), shown)
              /\ pc = "decided" => plan.op = "remember"
              /\ OthersStand(t) /\ SameClaim(t) /\ local'[t].pc = pc
              /\ local'[t].plan = plan /\ local'[t].seen = ActiveIn(Key(t).project)
<1> DEFINE seen == ActiveIn(Key(t).project)
<1>1. PICK shown \in CandidateLists(seen) : \E plan \in Plans(Key(t), shown) :
        local' = [local EXCEPT ![t].pc = IF plan.op = "remember" THEN "decided" ELSE "ready",
                               ![t].seen = seen, ![t].plan = plan]
  BY DEF Decide
<1>2. PICK plan \in Plans(Key(t), shown) :
        local' = [local EXCEPT ![t].pc = IF plan.op = "remember" THEN "decided" ELSE "ready",
                               ![t].seen = seen, ![t].plan = plan]
  BY <1>1
<1>3. shown \in SUBSET seen /\ seen \in SUBSET MemoryIds
  BY DEF CandidateLists, ActiveIn
<1>4. Key(t) \in Keys
  BY Attempting DEF RuntimeInv, Decide, At, HasAttempt, HasTurn
<1>5. plan \in PlanRecords
  BY <1>3, <1>4, PlanFacts
<1>6. PICK pc \in {"decided", "ready"} : pc = IF plan.op = "remember" THEN "decided" ELSE "ready"
  OBVIOUS
<1>7. local' = [local EXCEPT ![t].pc = pc, ![t].seen = seen, ![t].plan = plan]
  BY <1>2, <1>6
<1> HIDE DEF seen
<1>8. /\ OthersStand(t) /\ SameClaim(t) /\ local'[t].pc = pc
      /\ local'[t].plan = plan /\ local'[t].seen = seen
  BY <1>3, <1>5, <1>7, PlanMoves DEF RuntimeInv
<1> QED BY <1>3, <1>5, <1>6, <1>8 DEF seen

LEMMA DecideHolds ==
    ASSUME RuntimeInv, Kept, NEW t \in Threads, Decide(t)
    PROVE  RuntimeInv'
<1> DEFINE seen == ActiveIn(Key(t).project)
<1>1. PICK pc \in {"decided", "ready"}, shown \in SUBSET seen, plan \in PlanRecords :
        /\ plan \in Plans(Key(t), shown) /\ (pc = "decided" => plan.op = "remember")
        /\ OthersStand(t) /\ SameClaim(t) /\ local'[t].pc = pc /\ local'[t].plan = plan
  BY DecideFacts
<1>2. local[t].pc = "owner" /\ UNCHANGED <<vars, clock, since, coordinator, phase, turn>>
  BY DEF Decide, At
<1>3. Key(t) \in Keys
  BY <1>2, Attempting DEF RuntimeInv, HasAttempt, HasTurn
<1>4. Key(t)' = Key(t) /\ UNCHANGED <<memory, relations>>
  BY <1>1, <1>2 DEF SameClaim, Key, vars
<1>5. \A m \in shown : m \in MemoryIds /\ Stored(m)' /\ m \in Known(Key(t))'
  BY <1>1, <1>4 DEF ActiveIn, Active, Stored, Known
<1>6. PlanHolds(t)'
  <2>1. /\ plan.op = "forget" =>
            plan.result \in {NoOp("given"), NoOp("blank")} \/ \E m \in shown : plan.result = Duplicate(m)
        /\ plan.op = "remember" =>
            plan.slot \in Slots /\ plan.text \in Texts /\ plan.sup \subseteq shown
    <3>1. shown \in SUBSET MemoryIds
      BY <1>5
    <3> QED BY <1>1, <1>3, <3>1, PlanFacts
  <2> QED BY <1>1, <1>5, <2>1 DEF PlanHolds
<1>7. ResponseHolds(t)'
  BY <1>1 DEF ResponseHolds
<1> QED BY <1>1, <1>2, <1>6, <1>7, WorkingStep DEF HasTurn

LEMMA PreCheckFacts ==
    ASSUME RuntimeInv, NEW t \in Threads, PreCheck(t)
    PROVE  /\ OthersStand(t) /\ SameClaim(t) /\ local'[t].pc = "ready"
           /\ local'[t].seen = local[t].seen
           /\ \/ local'[t].plan = local[t].plan
              \/ local'[t].plan.op = "fail"
              \/ /\ local'[t].plan.op = "forget"
                 /\ local'[t].plan.result = NoOp("stale_project_event")
                 /\ StaleFor(Key(t), local[t].plan.slot)
<1>1. PICK plan \in (IF StaleFor(Key(t), local[t].plan.slot)
                     THEN {Forgetting(NoOp("stale_project_event"))}
                     ELSE {local[t].plan, [NoPlan EXCEPT !.op = "fail"]}) :
        local' = [local EXCEPT ![t].pc = "ready", ![t].plan = plan]
  BY DEF PreCheck
<1>2. NoOp("stale_project_event") \in Results
  BY DEF NoOp, Results, Reasons
<1>3. local[t].plan \in PlanRecords /\ local[t].seen \in SUBSET MemoryIds /\ local[t] \in Frames
  BY DEF RuntimeInv, RuntimeTypes, Frames
<1>4. /\ [NoPlan EXCEPT !.op = "fail"] \in PlanRecords /\ [NoPlan EXCEPT !.op = "fail"].op = "fail"
      /\ Forgetting(NoOp("stale_project_event")) \in PlanRecords
      /\ Forgetting(NoOp("stale_project_event")).op = "forget"
      /\ Forgetting(NoOp("stale_project_event")).result = NoOp("stale_project_event")
  BY <1>2 DEF NoPlan, PlanRecords, Forgetting
<1>5. plan \in PlanRecords
  BY <1>1, <1>3, <1>4
<1>6. local' = [local EXCEPT ![t].pc = "ready", ![t].seen = local[t].seen, ![t].plan = plan]
  <2>1. [local[t] EXCEPT !.pc = "ready", !.plan = plan] =
            [local[t] EXCEPT !.pc = "ready", !.seen = local[t].seen, !.plan = plan]
    BY <1>3 DEF Frames
  <2> QED BY <1>1, <2>1
<1>7. /\ OthersStand(t) /\ SameClaim(t) /\ local'[t].pc = "ready"
      /\ local'[t].seen = local[t].seen /\ local'[t].plan = plan
  BY <1>3, <1>5, <1>6, PlanMoves DEF RuntimeInv
<1> QED BY <1>1, <1>4, <1>7

LEMMA PreCheckHolds ==
    ASSUME RuntimeInv, Kept, NEW t \in Threads, PreCheck(t)
    PROVE  RuntimeInv'
<1>1. local[t].pc = "decided" /\ UNCHANGED <<vars, clock, since, coordinator, phase, turn>>
  BY DEF PreCheck, At
<1>2. PlanHolds(t) /\ local[t].plan.op = "remember" /\ Key(t) \in Keys
  BY <1>1, Attempting DEF RuntimeInv, PlansHold, PlanHolds, HasAttempt, HasTurn
<1>3. /\ OthersStand(t) /\ SameClaim(t) /\ local'[t].pc = "ready"
      /\ \/ local'[t].plan = local[t].plan
         \/ local'[t].plan.op = "fail"
         \/ /\ local'[t].plan.op = "forget"
            /\ local'[t].plan.result = NoOp("stale_project_event")
            /\ StaleFor(Key(t), local[t].plan.slot)
  BY PreCheckFacts
<1>4. Key(t)' = Key(t) /\ UNCHANGED <<event, memory, relations>>
  BY <1>1, <1>3 DEF SameClaim, Key, vars
<1>5. PlanHolds(t)'
  <2>1. CASE local'[t].plan = local[t].plan
    BY <1>2, <1>3, <1>4, <2>1 DEF PlanHolds, Stored
  <2>2. CASE local'[t].plan.op = "fail"
    BY <1>3, <2>2 DEF PlanHolds
  <2>3. CASE /\ local'[t].plan.op = "forget"
             /\ local'[t].plan.result = NoOp("stale_project_event")
             /\ StaleFor(Key(t), local[t].plan.slot)
    <3>1. PICK slot \in Slots : slot = local[t].plan.slot
      BY <1>2 DEF PlanHolds
    <3>2. StaleFor(Key(t), slot)
      BY <2>3, <3>1
    <3>3. StaleFor(Key(t), slot)'
      BY <1>4, <3>2 DEF StaleFor, NewerActive, Active, Stored, Superseded
    <3> QED BY <1>3, <2>3, <3>3 DEF PlanHolds
  <2> QED BY <1>3, <2>1, <2>2, <2>3
<1>6. ResponseHolds(t)'
  BY <1>3 DEF ResponseHolds
<1> QED BY <1>1, <1>3, <1>5, <1>6, WorkingStep DEF HasTurn

---------------------------------------------------------------------------
\* Crashes, and all steps together

LEMMA CrashHolds ==
    ASSUME RuntimeInv, Kept, NEW p \in Processes, Crash(p)
    PROVE  RuntimeInv'
<1>1. /\ local' = [t \in Threads |-> IF ProcessOf[t] = p THEN Idle ELSE local[t]]
      /\ phase' = [t \in Threads |-> IF ProcessOf[t] = p THEN "new" ELSE phase[t]]
      /\ coordinator' = [coordinator EXCEPT ![p] = Nobody]
      /\ UNCHANGED <<event, run, memory, relations, clock, since, turn>>
  BY DEF Crash, vars
<1>2. /\ Idle \in Frames /\ Idle.pc = "idle" /\ Idle.reply = NoReply
      /\ NoReply.error = "none"
  <2>1. NoPlan \in PlanRecords /\ NoReply \in Replies
    BY DEF NoPlan, PlanRecords, NoReply, Replies
  <2>2. Idle \in Frames
    BY <2>1, BoundsAreNatural DEF Idle, Frames
  <2> QED BY <2>2 DEF Idle, NoReply
<1>3. RuntimeTypes'
  <2>1. local' \in [Threads -> Frames] /\ phase' \in [Threads -> Gate!Phases]
    BY <1>1, <1>2 DEF RuntimeInv, RuntimeTypes, Gate!Phases
  <2> QED BY <1>1, <2>1 DEF RuntimeInv, RuntimeTypes
<1>4. ASSUME NEW t \in Threads, ProcessOf[t] # p
      PROVE  /\ local'[t] = local[t] /\ phase'[t] = phase[t] /\ turn'[t] = turn[t]
             /\ FrameHolds(t)' = FrameHolds(t) /\ TurnAgrees(t)' = TurnAgrees(t)
             /\ PlanHolds(t)' = PlanHolds(t) /\ ResponseHolds(t)' = ResponseHolds(t)
  <2>1. local'[t] = local[t] /\ phase'[t] = phase[t] /\ turn'[t] = turn[t]
    BY <1>1, <1>4
  <2>2. Key(t)' = Key(t) /\ Attempt(t)' = Attempt(t) /\ TurnOf(t)' = TurnOf(t)
    BY <1>1, <2>1 DEF Key, Attempt, TurnOf
  <2>3. FrameHolds(t)' = FrameHolds(t) /\ TurnAgrees(t)' = TurnAgrees(t)
    BY <1>1, <2>1, <2>2 DEF FrameHolds, TurnAgrees, Present
  <2>4. Known(Key(t))' = Known(Key(t))
        /\ (\A slot \in Slots : StaleFor(Key(t), slot)' = StaleFor(Key(t), slot))
        /\ (\A m : Stored(m)' = Stored(m))
    BY <1>1, <2>2 DEF Known, StaleFor, NewerActive, Active, Stored, Superseded
  <2>5. PlanHolds(t)' = PlanHolds(t)
    BY <1>1, <2>1, <2>2, <2>4 DEF PlanHolds
  <2>6. ResponseHolds(t)' = ResponseHolds(t)
    BY <1>1, <2>1, <2>2 DEF ResponseHolds
  <2> QED BY <2>1, <2>3, <2>5, <2>6
<1>5. ASSUME NEW t \in Threads, ProcessOf[t] = p
      PROVE  /\ local'[t].pc = "idle" /\ phase'[t] = "new"
             /\ FrameHolds(t)' /\ TurnAgrees(t)' /\ ResponseHolds(t)'
  <2>1. local'[t] = Idle /\ phase'[t] = "new"
    BY <1>1, <1>5
  <2> QED BY <1>2, <2>1 DEF FrameHolds, TurnAgrees, ResponseHolds, HasAttempt, HasTurn
<1>6. FramesHold' /\ TurnsAgree'
  BY <1>4, <1>5 DEF RuntimeInv, FramesHold, TurnsAgree
<1>7. PlansHold' /\ ResponsesHold'
  <2>1. PlansHold'
    BY <1>4, <1>5 DEF RuntimeInv, PlansHold
  <2> QED BY <1>4, <1>5, <2>1, Parts DEF RuntimeInv
<1>8. OneTurn'
  <2>1. \A t \in Threads : phase'[t] = "active" => phase[t] = "active"
    BY <1>4, <1>5
  <2> QED BY <1>1, <2>1 DEF RuntimeInv, OneTurn, Gate!Inside
<1>9. ClaimsInOrder'
  <2>1. \A u \in Threads : local'[u].pc # "idle" => ProcessOf[u] # p /\ local'[u] = local[u]
    BY <1>4, <1>5
  <2>2. \A u \in Threads : ProcessOf[u] # p => coordinator'[ProcessOf[u]] = coordinator[ProcessOf[u]]
    BY <1>1, RuntimeAssumption DEF RuntimeInv, RuntimeTypes
  <2> QED BY <2>1, <2>2, ClaimsStand DEF SameClaim, HasAttempt, HasTurn
<1> QED BY <1>3, <1>6, <1>7, <1>8, <1>9 DEF RuntimeInv

LEMMA QuietHolds ==
    ASSUME RuntimeInv, UNCHANGED <<vars, since, coordinator, phase, turn, local>>,
           clock' \in 0..ClockLimit
    PROVE  RuntimeInv'
<1>1. UNCHANGED <<event, cursor, run, memory, relations>>
  BY DEF vars
<1>2. RuntimeTypes' /\ FramesHold' /\ OneTurn' /\ ResponsesHold'
  BY <1>1 DEF RuntimeInv, RuntimeTypes, FramesHold, FrameHolds, OneTurn, ResponsesHold, Key,
              Attempt, Present, Gate!Inside
<1>3. TurnsAgree' /\ ClaimsInOrder'
  BY <1>1 DEF RuntimeInv, TurnsAgree, TurnAgrees, TurnOf, ClaimsInOrder, At, Key, Attempt
<1>4. PlansHold'
  BY <1>1 DEF RuntimeInv, PlansHold, PlanHolds, Known, Key, StaleFor, NewerActive, Active,
              Stored, Superseded
<1> QED BY <1>2, <1>3, <1>4 DEF RuntimeInv

LEMMA RuntimeStep ==
    ASSUME Inductive, RuntimeInv, [RuntimeNext]_runtime
    PROVE  Inductive' /\ RuntimeInv' /\ Kept
<1>1. Inductive' /\ Kept
  BY StepsOfTheStore, StoreKeeps
<1>2. ASSUME NEW t \in Threads, Request(t) PROVE RuntimeInv'
  BY <1>1, <1>2, ClaimedHolds, RefusedHolds DEF Request
<1>3. ASSUME NEW t \in Threads, Serve(t) \/ Escape(t) PROVE RuntimeInv'
  BY <1>1, <1>3, RegisterHolds, TurnHolds, BodyHolds, DecideHolds, PreCheckHolds DEF Serve
<1>4. ASSUME NEW p \in Processes, Crash(p) PROVE RuntimeInv'
  BY <1>1, <1>4, CrashHolds
<1>5. ASSUME Tick PROVE RuntimeInv'
  <2>1. clock' \in 0..ClockLimit
    BY <1>5, RuntimeAssumption DEF Tick, RuntimeInv, RuntimeTypes
  <2> QED BY <1>5, <2>1, QuietHolds DEF Tick
<1>6. ASSUME UNCHANGED runtime PROVE RuntimeInv'
  <2>1. clock' \in 0..ClockLimit
    BY <1>6 DEF runtime, RuntimeInv, RuntimeTypes
  <2> QED BY <1>6, <2>1, QuietHolds DEF runtime, vars
<1> QED BY <1>1, <1>2, <1>3, <1>4, <1>5, <1>6 DEF RuntimeNext

LEMMA RuntimeStarts == RuntimeInit => Inductive /\ RuntimeInv
<1> SUFFICES ASSUME RuntimeInit PROVE Inductive /\ RuntimeInv
  OBVIOUS
<1>1. Inductive
  BY InductiveInit DEF RuntimeInit
<1>2. /\ local = [t \in Threads |-> Idle] /\ phase = [t \in Threads |-> "new"]
      /\ turn = [t \in Threads |-> Gate!NoTurn] /\ clock = 0
      /\ since = [k \in Keys |-> 0] /\ coordinator = [p \in Processes |-> Nobody]
  BY DEF RuntimeInit, Gate!Init
<1>3. /\ Idle \in Frames /\ Idle.pc = "idle" /\ Idle.reply.error = "none"
  <2>1. NoPlan \in PlanRecords /\ NoReply \in Replies /\ NoReply.error = "none"
    BY DEF NoPlan, PlanRecords, NoReply, Replies
  <2>2. Idle \in Frames
    BY <2>1, BoundsAreNatural DEF Idle, Frames
  <2> QED BY <2>1, <2>2 DEF Idle
<1>4. \A t \in Threads : local[t].pc = "idle" /\ local[t].reply.error = "none" /\ phase[t] = "new"
  BY <1>2, <1>3
<1>5. RuntimeTypes
  BY <1>2, <1>3, RuntimeAssumption DEF RuntimeTypes, Gate!Phases
<1>6. FramesHold /\ TurnsAgree /\ OneTurn /\ ClaimsInOrder /\ PlansHold /\ ResponsesHold
  BY <1>4 DEF FramesHold, FrameHolds, TurnsAgree, TurnAgrees, OneTurn, ClaimsInOrder, PlansHold,
              ResponsesHold, HasAttempt, HasTurn, At, Gate!Inside
<1> QED BY <1>1, <1>5, <1>6 DEF RuntimeInv

LEMMA RuntimeInvariant == RuntimeSpec => [](Inductive /\ RuntimeInv)
<1>1. Inductive /\ RuntimeInv /\ [RuntimeNext]_runtime => (Inductive /\ RuntimeInv)'
  BY RuntimeStep
<1> QED BY <1>1, RuntimeStarts, PTL DEF RuntimeSpec

\* Whatever the threads do and wherever their process is killed, the store
\* sees callers that keep to its interface (observe.py over storage.py): what
\* EventStoreProofs proves of EventStore holds of the runtime.
THEOREM ClientsTheorem == RuntimeSpec => Spec
<1>1. RuntimeInit => Init
  BY DEF RuntimeInit
<1>2. Inductive /\ RuntimeInv /\ [RuntimeNext]_runtime => [Next]_vars
  BY StepsOfTheStore
<1> QED BY <1>1, <1>2, RuntimeInvariant, PTL DEF RuntimeSpec, Spec

\* What observe answered stays true: a result it returned is the stored one,
\* and a provider failure it reported is on the record of the attempt.
THEOREM ResponsesTheorem == RuntimeSpec => []ResponsesHold
<1>1. Inductive /\ RuntimeInv => ResponsesHold
  BY DEF RuntimeInv
<1> QED BY <1>1, RuntimeInvariant, PTL

---------------------------------------------------------------------------
\* What a thread's frame says of the step that changed it

\* A thread moves by itself, or is killed.
LEMMA Moves ==
    ASSUME RuntimeTypes, [RuntimeNext]_runtime, NEW u \in Threads, local'[u] # local[u]
    PROVE  local'[u] = Idle \/ Request(u) \/ Serve(u) \/ Escape(u)
<1>1. ASSUME NEW t \in Threads, t # u, Request(t) \/ Serve(t) \/ Escape(t)
      PROVE  FALSE
  <2>1. \E frame : local' = [local EXCEPT ![t] = frame]
    BY <1>1 DEF Request, Claimed, Refused, Serve, Escape, RegisterTurn, TakeTurn, CheckOwner,
                Decide, PreCheck, Commit, Fail, CommitNothing, LeaveTurn, Goto, Return
  <2> QED BY <1>1, <2>1 DEF RuntimeTypes
<1>2. ASSUME NEW p \in Processes, Crash(p)
      PROVE  local'[u] = Idle
  BY <1>2 DEF Crash
<1>3. ~Tick /\ ~UNCHANGED runtime
  BY DEF Tick, runtime
<1> QED BY <1>1, <1>2, <1>3 DEF RuntimeNext

\* Where a step of its own takes a thread.
LEMMA Arrives ==
    ASSUME RuntimeTypes, NEW u \in Threads, Request(u) \/ Serve(u) \/ Escape(u)
    PROVE  /\ local'[u].pc = "inside" /\ local[u].pc = "waiting" => TakeTurn(u)
           /\ local'[u].pc \in {"decided", "ready"} => Decide(u) \/ PreCheck(u)
           /\ local'[u].pc = "done" => LeaveTurn(u) \/ \E q \in Requests : Refused(u, q)
<1>1. local[u] \in Frames /\ local = [t \in Threads |-> local[t]]
  BY DEF RuntimeTypes
<1>2. ASSUME NEW q \in Requests, Claimed(u, q)
      PROVE  local'[u].pc = "claimed"
  <2> DEFINE frame == [Frame(q) EXCEPT !.pc = "claimed", !.attempt = event'[q.key].attempt]
  <2>1. frame.pc = "claimed"
    BY FrameTypes DEF Frames
  <2>2. local' = [local EXCEPT ![u] = frame]
    BY <1>2 DEF Claimed
  <2> HIDE DEF frame
  <2> QED BY <1>1, <2>1, <2>2
<1>3. ASSUME NEW pc, Goto(u, pc) PROVE local'[u].pc = pc
  BY <1>1, <1>3 DEF Goto, Frames
<1>4. ASSUME NEW reply, Return(u, reply) PROVE local'[u].pc = "leaving"
  <2> DEFINE frame == [local[u] EXCEPT !.pc = "leaving", !.seen = {}, !.plan = NoPlan,
                                       !.reply = reply]
  <2>1. frame.pc = "leaving"
    BY <1>1 DEF Frames
  <2>2. local' = [local EXCEPT ![u] = frame]
    BY <1>4 DEF Return
  <2> HIDE DEF frame
  <2> QED BY <1>1, <2>1, <2>2
<1>5. Serve(u) \/ Escape(u) =>
        \/ TakeTurn(u) \/ LeaveTurn(u) \/ Decide(u) \/ PreCheck(u)
        \/ Goto(u, "waiting") \/ Goto(u, "owner") \/ \E reply : Return(u, reply)
  BY DEF Serve, Escape, RegisterTurn, CheckOwner, Commit, Fail, CommitNothing
<1>6. TakeTurn(u) => Goto(u, "inside")
  BY DEF TakeTurn
<1>7. LeaveTurn(u) => Goto(u, "done")
  BY DEF LeaveTurn
<1>8. Decide(u) \/ PreCheck(u) => local'[u].pc \in {"decided", "ready"}
  <2>1. ASSUME NEW pc \in {"decided", "ready"}, NEW seen, NEW plan,
               \/ local' = [local EXCEPT ![u].pc = pc, ![u].seen = seen, ![u].plan = plan]
               \/ local' = [local EXCEPT ![u].pc = pc, ![u].plan = plan]
        PROVE  local'[u].pc = pc
    BY <1>1, <2>1 DEF Frames
  <2>2. ASSUME Decide(u) PROVE \E pc \in {"decided", "ready"} : \E seen, plan :
          local' = [local EXCEPT ![u].pc = pc, ![u].seen = seen, ![u].plan = plan]
    BY <2>2 DEF Decide
  <2>3. ASSUME PreCheck(u) PROVE \E pc \in {"decided", "ready"} : \E plan :
          local' = [local EXCEPT ![u].pc = pc, ![u].plan = plan]
    BY <2>3 DEF PreCheck
  <2> QED BY <2>1, <2>2, <2>3
<1>9. Request(u) => local[u].pc \in {"idle", "done"} /\ \E q \in Requests : Claimed(u, q) \/ Refused(u, q)
  BY DEF Request
<1>10. ASSUME NEW q \in Requests, Refused(u, q)
       PROVE  local'[u].pc = "done"
  <2> DEFINE frame == [Frame(q) EXCEPT !.pc = "done", !.reply = AnsweredBy(q)]
  <2>1. frame.pc = "done"
    BY FrameTypes DEF Frames
  <2>2. local' = [local EXCEPT ![u] = frame]
    BY <1>10 DEF Refused
  <2> HIDE DEF frame
  <2> QED BY <1>1, <2>1, <2>2
<1> QED BY <1>2, <1>3, <1>4, <1>5, <1>6, <1>7, <1>8, <1>9, <1>10

---------------------------------------------------------------------------
\* Turns are taken in project order

\* The step of FirstAttemptsInOrder.
InOrder ==
    \A t, u \in Threads :
        /\ At(t, "waiting") /\ local'[t].pc = "inside" /\ Attempt(t) = 1
        /\ u # t /\ local[u].pc \in {"claimed", "waiting"} /\ Attempt(u) = 1
        /\ TurnOf(u).project = TurnOf(t).project
        => TurnOf(t).seq < TurnOf(u).seq

\* The turnstile lets the head of the registered in, and the one thread that
\* is not registered yet has its place behind them.
LEMMA OrderStep ==
    ASSUME RuntimeInv, [RuntimeNext]_runtime
    PROVE  InOrder
<1> SUFFICES ASSUME NEW t \in Threads, NEW u \in Threads,
                    At(t, "waiting"), local'[t].pc = "inside", Attempt(t) = 1,
                    u # t, local[u].pc \in {"claimed", "waiting"}, Attempt(u) = 1,
                    TurnOf(u).project = TurnOf(t).project
             PROVE  TurnOf(t).seq < TurnOf(u).seq
  BY DEF InOrder
<1>1. TakeTurn(t)
  <2>1. local'[t] # local[t] /\ local'[t] # Idle
    BY DEF At, Idle
  <2> QED BY <2>1, Moves, Arrives DEF RuntimeInv, At
<1>2. ProcessOf[t] = ProcessOf[u] /\ Key(t).project = Key(u).project
  BY DEF TurnOf
<1>3. turn[t] = TurnOf(t)
  BY DEF RuntimeInv, TurnsAgree, TurnAgrees, At
<1>4. CASE local[u].pc = "waiting"
  <2>1. turn[u] = TurnOf(u) /\ Gate!Waiting(u)
    BY <1>4 DEF RuntimeInv, TurnsAgree, TurnAgrees, Gate!Waiting
  <2>2. Gate!Before(turn[t], turn[u])
    BY <1>1, <1>3, <2>1 DEF TakeTurn, Gate!Enter, Gate!MayEnter, Gate!Competes
  <2> QED BY <1>3, <2>1, <2>2 DEF Gate!Before, TurnOf
<1>5. CASE local[u].pc = "claimed"
  <2>1. event[Key(t)].pseq < event[Key(u)].pseq
    BY <1>2, <1>5 DEF RuntimeInv, ClaimsInOrder, At, HasAttempt
  <2> QED BY <2>1 DEF TurnOf
<1> QED BY <1>4, <1>5

\* Two first attempts of a project that are under way in one process take
\* their turns in project order, for observe.py registers its ticket before
\* it gives up the claim coordinator.
THEOREM FirstTheorem == RuntimeSpec => FirstAttemptsInOrder
<1>1. Inductive /\ RuntimeInv /\ [RuntimeNext]_runtime => [InOrder]_runtime
  BY OrderStep
<1> QED BY <1>1, RuntimeInvariant, PTL DEF RuntimeSpec, FirstAttemptsInOrder, InOrder

---------------------------------------------------------------------------
\* An attempt keeps its event as long as its lease runs

\* Whoever answers 202 leaves the event with an attempt that is pending, and,
\* where it knows the time, whose lease is running.
Leased ==
    \A t \in Threads :
        local'[t] # local[t] /\ local'[t].pc = "done" /\ local'[t].reply.code = 202 =>
            LET k == local'[t].request.key IN
            /\ event[k].state = "pending"
            /\ HttpClock \/ clock < since[k] + LeaseSeconds

\* A pending attempt loses its event to another one only when its lease is
\* out: LeaseSeconds after the claim where the callers pass the time, and never
\* where they pass the number demo_server.py makes of the request.
Replaced ==
    \A k \in Keys :
        event[k].state = "pending" /\ event'[k].attempt # event[k].attempt =>
            IF HttpClock THEN LeaseSeconds <= 0 ELSE since[k] + LeaseSeconds <= clock

LeasesAreKept == [][Leased /\ Replaced]_runtime

\* Only a claim leaves a row pending that it has changed, or changes the
\* attempt of a row; and it takes a pending one over when its lease is out.
LEMMA ClaimedRows ==
    ASSUME Inductive, Inductive', RuntimeInv, [RuntimeNext]_runtime, NEW k \in Keys
    PROVE  \/ /\ event'[k] = event[k] \/ event'[k].state # "pending"
              /\ event'[k].attempt = event[k].attempt
              /\ since'[k] = since[k]
           \/ \E q \in Requests :
                /\ event'[k].lease = Now(q) + LeaseSeconds /\ event'[k].seq = q.seq
                /\ since'[k] = clock
                /\ event[k].state = "pending" => event[k].seq = q.seq /\ event[k].lease <= Now(q)
<1> DEFINE Stays == /\ event'[k] = event[k] \/ event'[k].state # "pending"
                    /\ event'[k].attempt = event[k].attempt
                    /\ since'[k] = since[k]
           ClaimedBy(q) ==
             /\ event'[k].lease = Now(q) + LeaseSeconds /\ event'[k].seq = q.seq
             /\ since'[k] = clock
             /\ event[k].state = "pending" => event[k].seq = q.seq /\ event[k].lease <= Now(q)
<1>1. since \in [Keys -> 0..ClockLimit] /\ event \in [Keys -> EventRows]
  BY DEF RuntimeInv, RuntimeTypes, Inductive, TypeOK
<1>2. ASSUME NEW t \in Threads, NEW q \in Requests, Claimed(t, q)
      PROVE  Stays \/ ClaimedBy(q)
  <2>1. q.key \in Keys /\ q.seq \in Sequences /\ q.body \in Bodies /\ Now(q) \in Times
    BY RuntimeAssumption DEF RuntimeInv, RuntimeTypes, Now
  <2>2. ClaimNew(q.key, q.seq, q.body, Now(q)) \/ TakeOver(q.key, q.seq, q.body, Now(q))
    BY <1>2 DEF Claimed
  <2>3. /\ event'[q.key].lease = Now(q) + LeaseSeconds /\ event'[q.key].seq = q.seq
        /\ event[q.key].state = "pending" =>
             event[q.key].seq = q.seq /\ event[q.key].lease <= Now(q)
        /\ \A l \in Keys : l # q.key => event'[l] = event[l]
    BY <2>1, <2>2, ClaimGives
  <2>4. since' = [since EXCEPT ![q.key] = clock]
    BY <1>2 DEF Claimed
  <2> QED BY <1>1, <2>1, <2>3, <2>4
<1>3. ASSUME NEW t \in Threads, NEW q \in Requests, Refused(t, q)
      PROVE  event' = event /\ since' = since
  BY <1>3 DEF Refused, ClaimRefused, vars
<1>4. ASSUME NEW t \in Threads, Commit(t) \/ Fail(t)
      PROVE  Stays
  <2>1. \/ FailRetryable(Key(t), Attempt(t))
        \/ \E r : Complete(Key(t), Attempt(t), r)
    BY <1>4 DEF Commit, Fail, CompleteEvent, Observed, CompleteStale, CompleteRejected, CompleteWrite
  <2>2. \/ event' = [event EXCEPT ![Key(t)] = FailedRow(event[Key(t)])]
        \/ \E r : event' = [event EXCEPT ![Key(t)] = CompletedRow(event[Key(t)], r)]
    BY <2>1 DEF FailRetryable, Complete
  <2>3. \/ event'[k] = event[k]
        \/ event'[k].state # "pending" /\ event'[k].attempt = event[k].attempt
    BY <1>1, <2>2 DEF FailedRow, CompletedRow
  <2> QED BY <1>4, <2>3 DEF Commit, Fail
<1>5. ASSUME NEW t \in Threads, Request(t) \/ Serve(t) \/ Escape(t)
      PROVE  Stays \/ \E q \in Requests : ClaimedBy(q)
  <2>1. CASE Request(t)
    BY <1>2, <1>3, <2>1 DEF Request
  <2>2. CASE Serve(t) \/ Escape(t)
    BY <1>4, <2>2 DEF Serve, Escape, RegisterTurn, TakeTurn, CheckOwner, Decide, PreCheck,
                      CommitNothing, LeaveTurn, vars
  <2> QED BY <1>5, <2>1, <2>2
<1>6. (\E p \in Processes : Crash(p)) \/ Tick \/ UNCHANGED runtime => event' = event /\ since' = since
  BY DEF Crash, Tick, runtime, vars
<1> QED BY <1>5, <1>6 DEF RuntimeNext

LEMMA LeasesStep ==
    ASSUME Inductive, RuntimeInv, LeasesRun, [RuntimeNext]_runtime
    PROVE  LeasesRun'
<1>1. Inductive'
  BY RuntimeStep
<1> SUFFICES ASSUME NEW k \in Keys, event'[k].state = "pending"
             PROVE  event'[k].lease = (IF HttpClock THEN 100 + event'[k].seq ELSE since'[k])
                                        + LeaseSeconds
  BY DEF LeasesRun, ClaimedAt
<1> QED BY <1>1, ClaimedRows DEF LeasesRun, ClaimedAt, Now

\* A claim finds that the lease of a pending attempt is out.
LEMMA ReplacedStep ==
    ASSUME Inductive, RuntimeInv, LeasesRun, [RuntimeNext]_runtime
    PROVE  Replaced
<1>1. Inductive'
  BY RuntimeStep
<1> SUFFICES ASSUME NEW k \in Keys, event[k].state = "pending",
                    event'[k].attempt # event[k].attempt
             PROVE  IF HttpClock THEN LeaseSeconds <= 0 ELSE since[k] + LeaseSeconds <= clock
  BY DEF Replaced
<1>2. PICK q \in Requests : event[k].seq = q.seq /\ event[k].lease <= Now(q)
  BY <1>1, ClaimedRows
<1>3. event[k].lease = ClaimedAt(k) + LeaseSeconds
  BY DEF LeasesRun
<1>4. /\ q.seq \in Int /\ LeaseSeconds \in Int
  BY RuntimeAssumption, TimesAreIntegers, BoundsAreNatural DEF Sequences
<1> QED BY <1>2, <1>3, <1>4 DEF ClaimedAt, Now

\* An incomplete event that cannot be taken over is pending, and its lease is
\* not out.
LEMMA LeasedStep ==
    ASSUME Inductive, RuntimeInv, LeasesRun, [RuntimeNext]_runtime
    PROVE  Leased
<1> SUFFICES ASSUME NEW t \in Threads, local'[t] # local[t], local'[t].pc = "done",
                    local'[t].reply.code = 202
             PROVE  LET k == local'[t].request.key IN
                    /\ event[k].state = "pending"
                    /\ HttpClock \/ clock < since[k] + LeaseSeconds
  BY DEF Leased
<1>1. Kept
  BY RuntimeStep
<1>2. local'[t] # Idle
  BY DEF Idle
<1>3. (Request(t) \/ Serve(t) \/ Escape(t)) /\ (LeaveTurn(t) \/ \E q \in Requests : Refused(t, q))
  BY <1>2, Moves, Arrives DEF RuntimeInv
<1>4. ~LeaveTurn(t)
  <2>1. SUFFICES ASSUME LeaveTurn(t) PROVE FALSE
    OBVIOUS
  <2>2. local[t].pc = "leaving" /\ local'[t].reply = local[t].reply
    BY <2>1, Goes DEF LeaveTurn, At, RuntimeInv
  <2> QED BY <2>2 DEF RuntimeInv, FramesHold, FrameHolds
<1>5. PICK q \in Requests : Refused(t, q)
  BY <1>3, <1>4
<1>6. local'[t].request = q /\ local'[t].reply = AnsweredBy(q)
  <2> DEFINE frame == [Frame(q) EXCEPT !.pc = "done", !.reply = AnsweredBy(q)]
  <2>1. frame.request = q /\ frame.reply = AnsweredBy(q)
    BY FrameTypes DEF Frames
  <2>2. local' = [local EXCEPT ![t] = frame]
    BY <1>5 DEF Refused
  <2> HIDE DEF frame
  <2> QED BY <2>1, <2>2 DEF RuntimeInv, RuntimeTypes
<1>7. q.key \in Keys /\ event[q.key] \in EventRows
  BY RuntimeAssumption DEF Inductive, TypeOK
<1>8. /\ Present(q.key) /\ SamePayload(q.key, q.seq, q.body)
      /\ event[q.key].state # "completed"
  BY <1>6 DEF AnsweredBy, Answer
<1>9. ~Takeable(q.key, Now(q))
  BY <1>5, <1>8 DEF Refused, ClaimRefused
<1>10. ValidEventRow(event[q.key])
  BY <1>7, <1>8 DEF Inductive, RowsWhole, WholeRow
<1>11. event[q.key].state = "pending" /\ ~(event[q.key].lease <= Now(q))
  BY <1>8, <1>9, <1>10 DEF ValidEventRow, Takeable, LeaseExpired, Present
<1>12. event[q.key].lease \in Int /\ clock \in Int
  BY <1>7, RuntimeAssumption DEF EventRows, RuntimeInv, RuntimeTypes
<1>13. ~HttpClock => clock < since[q.key] + LeaseSeconds
  BY <1>7, <1>11, <1>12 DEF LeasesRun, ClaimedAt, Now
<1> QED BY <1>6, <1>11, <1>13

\* An attempt that is under way keeps its event until its lease is out: 202 is
\* answered of a pending attempt only, and one is replaced LeaseSeconds after
\* its claim where observe.py is given the time, and never where demo_server.py
\* gives it 100 + sequence_no, which every repeat of a request passes again
\* (storage.py, claim_event and _claim_existing).
THEOREM LeasedTheorem == RuntimeSpec => LeasesAreKept
<1>1. /\ Inductive /\ RuntimeInv /\ LeasesRun /\ [RuntimeNext]_runtime
      => LeasesRun' /\ [Leased /\ Replaced]_runtime
  BY LeasesStep, LeasedStep, ReplacedStep
<1>2. RuntimeInit => LeasesRun
  BY DEF RuntimeInit, Init, AbsentEvent, LeasesRun
<1> QED BY <1>1, <1>2, RuntimeInvariant, PTL DEF RuntimeSpec, LeasesAreKept

---------------------------------------------------------------------------
\* What a decision saw is what its commit finds

\* One process serves the database: one turnstile orders a project.
OneProcess == \A t, u \in Threads : ProcessOf[t] = ProcessOf[u]

\* Thread t commits memory m.
Remembers(t, m) ==
    LET plan == local[t].plan IN
    /\ Ready(t, "remember") /\ local'[t].pc = "leaving"
    /\ plan.slot \in Slots /\ plan.text \in Texts
    /\ Writes(Key(t), m, plan.slot, plan.text, plan.sup)

\* Only a thread that commits its plan changes what is remembered.
LEMMA MemoriesMove ==
    ASSUME Inductive, RuntimeInv, [RuntimeNext]_runtime
    PROVE  \/ UNCHANGED <<memory, relations>>
           \/ \E t \in Threads, m \in MemoryIds : Remembers(t, m)
<1>1. ASSUME NEW t \in Threads, Request(t)
      PROVE  UNCHANGED <<memory, relations>>
  BY <1>1 DEF Request, Claimed, Refused, ClaimNew, TakeOver, ClaimRefused, vars
<1>2. ASSUME NEW t \in Threads, Commit(t)
      PROVE  UNCHANGED <<memory, relations>> \/ \E m \in MemoryIds : Remembers(t, m)
  <2> DEFINE plan == local[t].plan
  <2>1. CASE UNCHANGED <<memory, relations>>
    BY <2>1
  <2>2. CASE Ready(t, "remember") /\ CompleteWrite(Key(t), Attempt(t), plan.slot, plan.text, plan.sup)
    <3>1. local[t].pc = "ready" /\ plan.op = "remember"
      BY <2>2 DEF Ready, At
    <3>2. Key(t) \in Keys /\ Attempt(t) \in Attempts
      BY <3>1, Attempting DEF RuntimeInv, HasAttempt, HasTurn
    <3>3. plan.slot \in Slots /\ plan.text \in Texts /\ plan.sup \in SUBSET MemoryIds
      BY <3>1 DEF RuntimeInv, RuntimeTypes, Frames, PlanRecords, PlansHold, PlanHolds
    <3>4. local'[t].pc = "leaving"
      <4> DEFINE frame(reply) == [local[t] EXCEPT !.pc = "leaving", !.seen = {}, !.plan = NoPlan,
                                                  !.reply = reply]
      <4>1. PICK reply : local' = [local EXCEPT ![t] = frame(reply)]
        BY <1>2 DEF Commit, Return
      <4>2. frame(reply).pc = "leaving"
        BY DEF RuntimeInv, RuntimeTypes, Frames
      <4> HIDE DEF frame
      <4> QED BY <4>1, <4>2 DEF RuntimeInv, RuntimeTypes
    <3>5. PICK m \in MemoryIds : Writes(Key(t), m, plan.slot, plan.text, plan.sup)
      BY <2>2, <3>2, <3>3, WriteFacts DEF Inductive
    <3> QED BY <2>2, <3>3, <3>4, <3>5 DEF Remembers
  <2> QED BY <1>2, <2>1, <2>2 DEF Commit, CompleteEvent, Observed, CompleteStale, CompleteRejected
<1>3. ASSUME NEW t \in Threads, Serve(t) \/ Escape(t), ~Commit(t)
      PROVE  UNCHANGED <<memory, relations>>
  BY <1>3 DEF Serve, Escape, RegisterTurn, TakeTurn, CheckOwner, Decide, PreCheck, Fail,
              FailRetryable, CommitNothing, LeaveTurn, vars
<1>4. (\E p \in Processes : Crash(p)) \/ Tick \/ UNCHANGED runtime => UNCHANGED <<memory, relations>>
  BY DEF Crash, Tick, runtime, vars
<1> QED BY <1>1, <1>2, <1>3, <1>4 DEF RuntimeNext

\* What a write is to the memories of other projects, and to the rest.
LEMMA WritesOne ==
    ASSUME TypeOK, NEW k \in Keys, NEW m, NEW slot, NEW text, NEW sup \in SUBSET MemoryIds,
           Writes(k, m, slot, text, sup)
    PROVE  /\ m \in MemoryIds /\ ~Stored(m) /\ ~StaleFor(k, slot)
           /\ memory'[m].project = k.project /\ memory'[m].slot = slot
           /\ memory'[m].text = text /\ memory'[m].pseq = event[k].pseq
           /\ \A l \in MemoryIds : l # m =>
                /\ memory'[l] = memory[l]
                /\ Active(l)' => Active(l)
                /\ Active(l) /\ memory[l].project # k.project => Active(l)'
<1>1. memory'[m] = [project |-> k.project, slot |-> slot, text |-> text, source |-> k,
                    pseq |-> event[k].pseq]
  BY DEF Writes, TypeOK
<1>2. ASSUME NEW l \in MemoryIds, l # m
      PROVE  /\ memory'[l] = memory[l]
             /\ Active(l)' => Active(l)
             /\ Active(l) /\ memory[l].project # k.project => Active(l)'
  <2>1. memory'[l] = memory[l]
    BY <1>2 DEF Writes, TypeOK
  <2>2. Superseded(l) => Superseded(l)'
    BY DEF Superseded, Writes
  <2>3. Superseded(l)' => Superseded(l) \/ l \in sup
    BY DEF Superseded, Writes, Edges
  <2> QED BY <2>1, <2>2, <2>3 DEF Active, Stored, Writes
<1> QED BY <1>1, <1>2 DEF Writes

\* A thread of another project, or none, commits while one decides.
LEMMA FreshStep ==
    ASSUME OneProcess, Inductive, RuntimeInv, DecisionsAreFresh, [RuntimeNext]_runtime
    PROVE  DecisionsAreFresh'
<1> SUFFICES ASSUME NEW u \in Threads, local'[u].pc \in {"decided", "ready"}
             PROVE  local'[u].seen = ActiveIn(Key(u).project)'
  BY DEF DecisionsAreFresh
<1>1. CASE local'[u] = local[u]
  <2>1. Key(u)' = Key(u) /\ local[u].seen = ActiveIn(Key(u).project)
    BY <1>1 DEF Key, DecisionsAreFresh
  <2>2. CASE UNCHANGED <<memory, relations>>
    BY <1>1, <2>1, <2>2 DEF ActiveIn, Active, Stored, Superseded
  <2>3. ASSUME NEW t \in Threads, NEW m \in MemoryIds, Remembers(t, m)
        PROVE  ActiveIn(Key(u).project)' = ActiveIn(Key(u).project)
    <3>1. t # u /\ local[t].pc = "ready"
      BY <2>3 DEF Remembers, Ready, At
    <3>2. /\ phase[t] = "active" /\ turn[t].project = <<ProcessOf[t], Key(t).project>>
          /\ phase[u] = "active" /\ turn[u].project = <<ProcessOf[u], Key(u).project>>
      <4>1. local[t].pc \in HasTurn /\ local[u].pc \in HasTurn
        BY <1>1, <3>1 DEF HasTurn
      <4>2. /\ phase[t] = "active" /\ turn[t] = TurnOf(t)
            /\ phase[u] = "active" /\ turn[u] = TurnOf(u)
        BY <4>1 DEF RuntimeInv, TurnsAgree, TurnAgrees
      <4> QED BY <4>2 DEF TurnOf
    <3>3. Key(t).project # Key(u).project
      BY <3>1, <3>2 DEF RuntimeInv, OneTurn, Gate!Inside, OneProcess
    <3>4. Key(t) \in Keys /\ local[t].plan.sup \in SUBSET MemoryIds
      BY <3>1, Attempting DEF RuntimeInv, RuntimeTypes, Frames, PlanRecords, HasAttempt, HasTurn
    <3>5. /\ ~Stored(m) /\ memory'[m].project = Key(t).project
          /\ \A l \in MemoryIds : l # m =>
                /\ memory'[l] = memory[l]
                /\ Active(l)' => Active(l)
                /\ Active(l) /\ memory[l].project # Key(t).project => Active(l)'
      BY <2>3, <3>4, WritesOne DEF Remembers, Inductive
    <3> QED BY <2>1, <3>3, <3>5 DEF ActiveIn, Active
  <2> QED BY <1>1, <2>1, <2>2, <2>3, MemoriesMove
<1>2. CASE Decide(u)
  <2>1. Key(u)' = Key(u) /\ local'[u].seen = ActiveIn(Key(u).project)
    BY <1>2, DecideFacts DEF SameClaim, Key
  <2> QED BY <1>2, <2>1 DEF Decide, vars, ActiveIn, Active, Stored, Superseded
<1>3. CASE PreCheck(u)
  <2>1. Key(u)' = Key(u) /\ local'[u].seen = local[u].seen /\ local[u].pc = "decided"
    BY <1>3, PreCheckFacts DEF SameClaim, Key, PreCheck, At
  <2> QED BY <1>3, <2>1 DEF PreCheck, vars, ActiveIn, Active, Stored, Superseded, DecisionsAreFresh
<1>4. local'[u] # Idle
  BY DEF Idle
<1> QED BY <1>1, <1>2, <1>3, <1>4, Moves, Arrives DEF RuntimeInv

\* The active memories a decision of observe.py was made against are those
\* its commit finds, if one process serves the database: within it the
\* turnstile lets no other of the project in, and no other project's write
\* touches them.  What that leaves to two processes the theorem leaves out.
THEOREM FreshTheorem == ASSUME OneProcess PROVE RuntimeSpec => []DecisionsAreFresh
<1>1. Inductive /\ RuntimeInv /\ DecisionsAreFresh /\ [RuntimeNext]_runtime => DecisionsAreFresh'
  BY FreshStep
<1>2. RuntimeInit => DecisionsAreFresh
  BY DEF RuntimeInit, Idle, DecisionsAreFresh
<1> QED BY <1>1, <1>2, RuntimeInvariant, PTL DEF RuntimeSpec

---------------------------------------------------------------------------
\* A memory that is written repeats no active one

\* A project has no more active memories than the model is shown.
FewActive == \A p \in Projects : Cardinality(ActiveIn(p)) <= CandidateLimit

MemoriesAreFinite == IsFiniteSet({m \in MemoryIds : Stored(m)})

LEMMA FiniteStep ==
    ASSUME Inductive, RuntimeInv, MemoriesAreFinite, [RuntimeNext]_runtime
    PROVE  MemoriesAreFinite'
<1> DEFINE stored == {m \in MemoryIds : Stored(m)}
<1>1. CASE UNCHANGED <<memory, relations>>
  BY <1>1 DEF MemoriesAreFinite, Stored
<1>2. ASSUME NEW t \in Threads, NEW m \in MemoryIds, Remembers(t, m)
      PROVE  MemoriesAreFinite'
  <2>1. {l \in MemoryIds : Stored(l)}' \subseteq stored \cup {m}
    BY <1>2 DEF Remembers, Writes, Inductive, TypeOK, Stored
  <2>2. IsFiniteSet(stored \cup {m})
    BY FS_AddElement DEF MemoriesAreFinite
  <2> QED BY <2>1, <2>2, FS_Subset DEF MemoriesAreFinite
<1> QED BY <1>1, <1>2, MemoriesMove

\* If there are few, the model is shown all of them.
LEMMA AllAreShown ==
    ASSUME MemoriesAreFinite, FewActive, NEW p \in Projects, NEW shown \in CandidateLists(ActiveIn(p))
    PROVE  shown = ActiveIn(p)
<1>1. IsFiniteSet(ActiveIn(p))
  <2>1. ActiveIn(p) \in SUBSET {m \in MemoryIds : Stored(m)}
    BY DEF ActiveIn, Active
  <2> QED BY <2>1, FS_Subset DEF MemoriesAreFinite
<1>2. Cardinality(ActiveIn(p)) \in Nat /\ Cardinality(ActiveIn(p)) <= CandidateLimit
  BY <1>1, FS_CardinalityType DEF FewActive
<1>3. shown \in SUBSET ActiveIn(p) /\ Cardinality(shown) = Cardinality(ActiveIn(p))
  BY <1>2, RuntimeAssumption DEF CandidateLists
<1> QED BY <1>1, <1>3, FS_Subset

LEMMA PlansAreNewStep ==
    ASSUME Inductive, RuntimeInv, DecisionsAreFresh, MemoriesAreFinite, FewActive, PlansAreNew,
           [RuntimeNext]_runtime
    PROVE  PlansAreNew'
<1> SUFFICES ASSUME NEW u \in Threads, local'[u].pc \in {"decided", "ready"},
                    local'[u].plan.op = "remember"
             PROVE  Equivalents(local[u].plan.slot, local[u].plan.text, local[u].seen)' = {}
  BY DEF PlansAreNew
<1>1. CASE local'[u] = local[u]
  <2>1. Equivalents(local[u].plan.slot, local[u].plan.text, local[u].seen) = {}
    BY <1>1 DEF PlansAreNew
  <2>2. local[u].seen = ActiveIn(Key(u).project)
    BY <1>1 DEF DecisionsAreFresh
  <2>3. \A m \in local[u].seen : memory'[m] = memory[m]
    <3>1. Kept
      BY RuntimeStep
    <3> QED BY <2>2, <3>1 DEF Kept, ActiveIn, Active
  <2> QED BY <1>1, <2>1, <2>3 DEF Equivalents
<1>2. CASE Decide(u)
  <2>1. Key(u) \in Keys /\ UNCHANGED memory
    BY <1>2, Attempting DEF RuntimeInv, Decide, At, HasAttempt, HasTurn, vars
  <2>2. PICK shown \in SUBSET ActiveIn(Key(u).project), plan \in PlanRecords :
          /\ shown \in CandidateLists(ActiveIn(Key(u).project))
          /\ plan \in Plans(Key(u), shown)
          /\ local'[u].plan = plan /\ local'[u].seen = ActiveIn(Key(u).project)
    BY <1>2, DecideFacts
  <2>3. shown = ActiveIn(Key(u).project) /\ shown \in SUBSET MemoryIds
    BY <2>1, <2>2, AllAreShown DEF Keys, ActiveIn
  <2>4. Equivalents(plan.slot, plan.text, shown) = {}
    BY <2>1, <2>2, <2>3, PlanFacts
  <2> QED BY <2>1, <2>2, <2>3, <2>4 DEF Equivalents
<1>3. CASE PreCheck(u)
  <2>1. local'[u].plan = local[u].plan /\ local'[u].seen = local[u].seen /\ local[u].pc = "decided"
    BY <1>3, PreCheckFacts DEF PreCheck, At
  <2>2. Equivalents(local[u].plan.slot, local[u].plan.text, local[u].seen) = {}
    BY <2>1 DEF PlansAreNew
  <2> QED BY <1>3, <2>1, <2>2 DEF PreCheck, vars, Equivalents
<1>4. local'[u] # Idle
  BY DEF Idle
<1> QED BY <1>1, <1>2, <1>3, <1>4, Moves, Arrives DEF RuntimeInv

LEMMA TwinsStep ==
    ASSUME Inductive, RuntimeInv, DecisionsAreFresh, PlansAreNew, NoActiveTwins,
           [RuntimeNext]_runtime
    PROVE  NoActiveTwins'
<1>1. CASE UNCHANGED <<memory, relations>>
  BY <1>1 DEF NoActiveTwins, Active, Stored, Superseded
<1>2. ASSUME NEW t \in Threads, NEW new \in MemoryIds, Remembers(t, new)
      PROVE  NoActiveTwins'
  <2> DEFINE k == Key(t)  plan == local[t].plan
  <2>1. local[t].pc = "ready" /\ plan.op = "remember"
    BY <1>2 DEF Remembers, Ready, At
  <2>2. k \in Keys /\ plan.sup \in SUBSET MemoryIds
    BY <2>1, Attempting DEF RuntimeInv, RuntimeTypes, Frames, PlanRecords, HasAttempt, HasTurn
  <2>3. /\ ~StaleFor(k, plan.slot)
        /\ memory'[new].project = k.project /\ memory'[new].slot = plan.slot
        /\ memory'[new].text = plan.text /\ memory'[new].pseq = event[k].pseq
        /\ \A l \in MemoryIds : l # new => memory'[l] = memory[l] /\ (Active(l)' => Active(l))
    BY <1>2, <2>2, WritesOne DEF Remembers, Inductive
  <2>4. Equivalents(plan.slot, plan.text, ActiveIn(k.project)) = {}
    BY <2>1 DEF PlansAreNew, DecisionsAreFresh
  <2>5. event[k].pseq \in Int /\ \A l \in MemoryIds : Active(l) => memory[l].pseq \in Int
    BY <2>2, BoundsAreNatural DEF Inductive, TypeOK, EventRows, MemoryRows, Active, Stored
  <2> HIDE DEF k, plan
  <2> SUFFICES ASSUME NEW m \in MemoryIds, NEW l \in MemoryIds, Active(m)', Active(l)',
                      memory'[m].project = memory'[l].project,
                      memory'[m].slot = memory'[l].slot, memory'[m].pseq < memory'[l].pseq
               PROVE  <<memory'[l].text, memory'[m].text>> \notin SameMeaning
    BY DEF NoActiveTwins
  <2>6. CASE m # new /\ l # new
    BY <2>3, <2>6 DEF NoActiveTwins
  <2>7. CASE l = new /\ m # new
    <3>1. Active(m) /\ memory'[m] = memory[m]
      BY <2>3, <2>7
    <3>2. m \in ActiveIn(k.project) /\ memory[m].slot = plan.slot
      BY <2>3, <2>7, <3>1 DEF ActiveIn
    <3>3. <<plan.text, memory[m].text>> \notin SameMeaning
      BY <2>4, <3>2 DEF Equivalents
    <3> QED BY <2>3, <2>7, <3>1, <3>3
  <2>8. CASE m = new /\ l # new
    <3>1. Active(l) /\ memory'[l] = memory[l]
      BY <2>3, <2>8
    <3>2. memory[l].project = k.project /\ memory[l].slot = plan.slot /\ memory[l].pseq > event[k].pseq
      BY <2>3, <2>5, <2>8, <3>1
    <3>3. NewerActive(k, plan.slot, l)
      BY <3>1, <3>2 DEF NewerActive
    <3> QED BY <2>3, <3>3 DEF StaleFor
  <2>9. CASE m = new /\ l = new
    BY <2>3, <2>5, <2>9
  <2> QED BY <2>6, <2>7, <2>8, <2>9
<1> QED BY <1>1, <1>2, MemoriesMove

\* observe.py turns a memory that repeats a candidate into a duplicate: where
\* the candidates are all the project has active, and one process serves the
\* database, no active memory only repeats an older one of its key.
THEOREM TwinsTheorem == ASSUME OneProcess PROVE RuntimeSpec /\ []FewActive => []NoActiveTwins
<1>1. /\ Inductive /\ RuntimeInv /\ DecisionsAreFresh /\ FewActive
      /\ MemoriesAreFinite /\ PlansAreNew /\ NoActiveTwins /\ [RuntimeNext]_runtime
      => (MemoriesAreFinite /\ PlansAreNew /\ NoActiveTwins)'
  BY FiniteStep, PlansAreNewStep, TwinsStep
<1>2. RuntimeInit => MemoriesAreFinite /\ PlansAreNew /\ NoActiveTwins
  <2> SUFFICES ASSUME RuntimeInit PROVE MemoriesAreFinite /\ PlansAreNew /\ NoActiveTwins
    OBVIOUS
  <2>1. \A m \in MemoryIds : ~Stored(m) /\ ~Active(m)
    BY DEF RuntimeInit, Init, Stored, Active
  <2>2. {m \in MemoryIds : Stored(m)} = {}
    BY <2>1
  <2>3. PlansAreNew
    BY DEF RuntimeInit, Idle, PlansAreNew
  <2> QED BY <2>1, <2>2, <2>3, FS_EmptySet DEF MemoriesAreFinite, NoActiveTwins
<1> QED BY <1>1, <1>2, FreshTheorem, RuntimeInvariant, PTL DEF RuntimeSpec
=============================================================================
