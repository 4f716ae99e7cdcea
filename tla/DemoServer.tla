----------------------------- MODULE DemoServer -----------------------------
(***************************************************************************)
(* The HTTP server (demo_server.py): a thread per request, a store opened  *)
(* per request, and a demo project whose fixture a /compile seeds when an  *)
(* event of it is missing.  Seeding observes the fixture's events, all of  *)
(* one session, in their order and looks at no answer: an event another    *)
(* request has under way is answered 202, one behind it 409, one at which  *)
(* the database fails 503, and the seeder goes on to the next.  The        *)
(* /compile is then answered, on a project that may be half seeded.        *)
(*                                                                         *)
(* A configured database outlives the process and is not seeded; else the  *)
(* database is one of the process's own and goes with it.  A claimed       *)
(* event's lease never runs out here, for the time the server passes is    *)
(* the same for every attempt of it.  Requests of other projects, and what *)
(* they observe, touch nothing of the fixture.                             *)
(***************************************************************************)
EXTENDS StoreMigrations

CONSTANTS
  FixtureLength,   \* events of the fixture
  MaxErrors,       \* database errors of open stores, a bound of the model
  MaxStops         \* stops of the process, a bound of the model

ASSUME ServerAssumption ==
  FixtureLength \in Nat \ {0} /\ MaxErrors \in Nat /\ MaxStops \in Nat

VARIABLES
  source,      \* _runtime_db_path: env or tempdir
  request,     \* what each thread is serving
  fixture,     \* processing_state of the fixture's events
  seeded,      \* a /compile has been answered
  failed,      \* events an observation failed at, since a seeding began alone
  errors, stops

server == <<source, request, fixture, seeded, failed, errors, stops>>
everything == <<store, server>>

Events == 1..FixtureLength
NoRequest == [path |-> "none", phase |-> "none", at |-> 0]
Doing(o, phase) == request[o].phase = phase
Serving(o, path) == request[o].path = path
Free(o) == request[o] = NoRequest
Seeding(o) == request[o].phase \in {"observe", "claimed"}
Alone(o) == \A p \in Threads \ {o} : ~Seeding(p)

-----------------------------------------------------------------------------
(* /compile of the demo project, or /observe; both construct a store.      *)
Receive(o, path) ==
  /\ Free(o)
  /\ Open(o)
  /\ request' = [request EXCEPT ![o] = [path |-> path, phase |-> "opening", at |-> 0]]
  /\ UNCHANGED <<source, fixture, seeded, failed, errors, stops>>

Initialise(o) == OpeningStep(o) /\ UNCHANGED server

(* The answer is sent, or the handler's exception ends the thread: an      *)
(* /observe turns sqlite3.Error into 503, a /compile turns nothing.        *)
End(o) ==
  /\ request' = [request EXCEPT ![o] = NoRequest]
  /\ opening' = [opening EXCEPT ![o] = Closed]
  /\ UNCHANGED <<db, writer>>

FailToOpen(o) ==
  /\ opening[o].step \in Errors
  /\ End(o)
  /\ UNCHANGED <<source, fixture, seeded, failed, errors, stops>>

AnswerObserve(o) ==
  /\ Doing(o, "opening") /\ At(o, "open") /\ Serving(o, "/observe")
  /\ End(o)
  /\ UNCHANGED <<source, fixture, seeded, failed, errors, stops>>

(* The first event stands for all.                                         *)
MutMissing == fixture[1] = "absent"

(* any(not has_event(...)): events appear in order and stay, so what the   *)
(* SELECTs find is what one SELECT would.                                  *)
Missing == \E i \in Events : fixture[i] = "absent"

(* _ensure_demo_fixture_seeded, or nothing to seed.                        *)
CheckSeeded(o) ==
  /\ Doing(o, "opening") /\ At(o, "open") /\ Serving(o, "/compile")
  /\ LET seeds == source = "tempdir" /\ Missing IN
     /\ request' = [request EXCEPT ![o].phase = IF seeds THEN "observe" ELSE "compile",
                                   ![o].at = IF seeds THEN 1 ELSE 0]
     /\ failed' = IF source = "tempdir" /\ Alone(o) THEN {i \in failed : fixture[i] = "pending"}
                  ELSE failed
  /\ UNCHANGED <<store, source, fixture, seeded, errors, stops>>

(* A database error in has_event, before the seeding, leaves the thread.   *)
CheckFails(o) ==
  /\ Doing(o, "opening") /\ At(o, "open") /\ Serving(o, "/compile")
  /\ source = "tempdir" /\ errors < MaxErrors
  /\ errors' = errors + 1
  /\ End(o)
  /\ UNCHANGED <<source, fixture, seeded, failed, stops>>

Current(o) == request[o].at
Onward(o) ==
  request' = [request EXCEPT
    ![o].phase = IF Current(o) = FixtureLength THEN "compile" ELSE "observe",
    ![o].at = IF Current(o) = FixtureLength THEN 0 ELSE @ + 1]

(* claim_event: the next event of the session, when none is under way.     *)
Claimable(i) ==
  fixture[i] = "absent" /\ \A j \in 1..(i - 1) : fixture[j] = "completed"

Claim(o) ==
  /\ Doing(o, "observe") /\ Claimable(Current(o))
  /\ fixture' = [fixture EXCEPT ![Current(o)] = "pending"]
  /\ request' = [request EXCEPT ![o].phase = "claimed"]
  /\ UNCHANGED <<store, source, seeded, failed, errors, stops>>

(* A replay, 202 or 409: nobody looks.                                     *)
PassOver(o) ==
  /\ Doing(o, "observe") /\ ~Claimable(Current(o))
  /\ Onward(o)
  /\ UNCHANGED <<store, source, fixture, seeded, failed, errors, stops>>

CompleteClaimed(o) ==
  /\ Doing(o, "claimed")
  /\ fixture' = [fixture EXCEPT ![Current(o)] = "completed"]
  /\ Onward(o)
  /\ UNCHANGED <<store, source, seeded, failed, errors, stops>>

(* A database error in claim_event leaves nothing, one in the attempt      *)
(* leaves the event pending; both are a 503 that nobody looks at.          *)
ObserveFails(o) ==
  /\ Seeding(o) /\ errors < MaxErrors
  /\ errors' = errors + 1
  /\ failed' = failed \cup {Current(o)}
  /\ Onward(o)
  /\ UNCHANGED <<store, source, fixture, seeded, stops>>

AnswerCompile(o) ==
  /\ Doing(o, "compile")
  /\ seeded' = TRUE
  /\ End(o)
  /\ UNCHANGED <<source, fixture, failed, errors, stops>>

(* The process is stopped and started again with the configured database.  *)
Restart ==
  /\ source = "env" /\ stops < MaxStops
  /\ StopOpening
  /\ request' = [o \in Threads |-> NoRequest]
  /\ stops' = stops + 1
  /\ UNCHANGED <<source, fixture, seeded, failed, errors>>

-----------------------------------------------------------------------------
Init ==
  /\ source \in {"env", "tempdir"}
  /\ StoreInit(IF source = "tempdir" THEN {NewDatabase}
               ELSE {NewDatabase, LaterDatabase} \cup LegacyDatabases)
  /\ request = [o \in Threads |-> NoRequest]
  /\ fixture = [i \in Events |-> "absent"]
  /\ seeded = FALSE /\ failed = {} /\ errors = 0 /\ stops = 0

ThreadStep(o) ==
  \/ Initialise(o) \/ FailToOpen(o) \/ AnswerObserve(o) \/ CheckSeeded(o)
  \/ Claim(o) \/ PassOver(o) \/ CompleteClaimed(o) \/ AnswerCompile(o)

Requested(o) == \E path \in {"/observe", "/compile"} : Receive(o, path)

Next ==
  \/ \E o \in Threads : ThreadStep(o) \/ Requested(o) \/ CheckFails(o) \/ ObserveFails(o)
  \/ Restart

(* Threads run, and there is always another request.                       *)
Fairness == \A o \in Threads : WF_everything(ThreadStep(o)) /\ WF_everything(Requested(o))
Spec == Init /\ [][Next]_everything /\ Fairness

-----------------------------------------------------------------------------
(* schema_migrations and the schema say the same, whatever races or stops  *)
(* (_apply_migrations, _validate_applied_migrations): the history is a     *)
(* prefix of the migrations or of a later version's, a migration after the *)
(* first is in it exactly when its effect is there, and a request is only  *)
(* served on a database with all of them and no twins.                     *)
HistoryIsSchema ==
  /\ \E n \in 0..5 : db.history = 1..n
  /\ db.history \cap Versions \subseteq db.schema
  /\ db.schema \ db.history \subseteq {1}
  /\ \A o \in Threads : At(o, "open") =>
       db.history = Versions /\ db.schema = Versions /\ ~db.duplicates

(* Two requests may seed at once, each passing over what the other has     *)
(* under way, and none may be left out for it: when a /compile has been    *)
(* answered and nobody seeds, an event of the fixture is missing only from *)
(* one on whose own observation failed (_ensure_demo_fixture_seeded).  A   *)
(* /compile is answered on the half-seeded project then, and the next one  *)
(* seeds again; only a failed attempt leaves its event pending for good.   *)
SeedingIsWhole ==
  (seeded /\ source = "tempdir" /\ \A o \in Threads : ~Seeding(o))
    => \A i \in Events : fixture[i] # "completed" =>
         \E j \in failed : j <= i /\ fixture[j] # "completed"

(* A database of this version or an older one, without twins, gets all its *)
(* migrations, however many requests fail to open it meanwhile: a failed   *)
(* migration leaves the lock and the next request starts over              *)
(* (_apply_migrations).                                                    *)
GetsMigrated ==
  ~db.duplicates /\ 5 \notin db.history
    ~> Versions \subseteq db.history
=============================================================================
