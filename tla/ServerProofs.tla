---------------------------- MODULE ServerProofs ----------------------------
(***************************************************************************)
(* The store's migrations and the demo's seeding, for any number of        *)
(* threads, errors and stops and any fixture.                              *)
(*                                                                         *)
(* Migrations.  No thread holds a lock between the SELECT that misses a    *)
(* version and the transaction that applies it.  What each keeps to is     *)
(* that versions below its own are in the history, which only grows; the   *)
(* transaction refuses a version that is there already.                    *)
(*                                                                         *)
(* Seeding.  The fixture's events are completed from the first on, and one *)
(* at most is under way.  A seeder that passes over an event may leave     *)
(* events behind it missing; somebody else is then at or before the first  *)
(* of them, unless that one's own observation failed.                      *)
(***************************************************************************)
EXTENDS DemoServer, TLAPS

Steps == {"closed", "connect", "preflight", "ledger", "validate", "look", "begin",
          "migrate", "audit", "open"} \cup Errors
Databases ==
  [ledger : BOOLEAN, history : SUBSET (1..5), schema : SUBSET Versions,
   duplicates : BOOLEAN, wal : BOOLEAN]

StoreTypes ==
  /\ db \in Databases
  /\ writer \in Threads \cup {NoThread}
  /\ opening \in [Threads -> [step : Steps, version : 0..5]]

(* The history is a prefix, a version in it has had its effect, and one    *)
(* that is not has had none, but for the tables of a legacy database.      *)
HistoryInv ==
  /\ \E n \in 0..5 : db.history = 1..n
  /\ db.history \cap Versions \subseteq db.schema
  /\ db.schema \ db.history \subseteq {1}
  /\ UniqueIndex \in db.schema => ~db.duplicates

(* A thread that has validated a history knows that it is not a later      *)
(* version's, and that the versions below its own are in it.               *)
Validated == {"look", "begin", "migrate", "audit", "open"}
ThreadsKnow ==
  \A o \in Threads :
    /\ opening[o].step \in {"connect", "preflight", "ledger", "validate"} => Version(o) = 1
    /\ opening[o].step \in Validated =>
         /\ db.history \subseteq Versions
         /\ Version(o) \in 1..5
         /\ \A v \in 1..5 : v < Version(o) => v \in db.history
    /\ opening[o].step \in {"begin", "migrate"} => Version(o) \in Versions
    /\ opening[o].step \in {"audit", "open"} => Version(o) = 5

StoreInv == StoreTypes /\ HistoryInv /\ ThreadsKnow

LEMMA StoreStarts == Init => StoreInv
<1> SUFFICES ASSUME Init PROVE StoreInv
  OBVIOUS
<1>1. /\ db \in {NewDatabase, LaterDatabase} \cup LegacyDatabases
      /\ writer = NoThread /\ opening = [o \in Threads |-> Closed]
  BY DEF Init, StoreInit
<1>2. \A ledger \in BOOLEAN, history \in SUBSET (1..5), schema \in SUBSET Versions, twins \in BOOLEAN :
        Database(ledger, history, schema, twins) \in Databases
  BY DEF Database, Databases
<1>3. db \in Databases
  <2>1. /\ {} \in SUBSET (1..5) /\ 1..5 \in SUBSET (1..5)
        /\ {} \in SUBSET Versions /\ {1} \in SUBSET Versions /\ Versions \in SUBSET Versions
    BY DEF Versions
  <2> QED
    BY <1>1, <1>2, <2>1 DEF NewDatabase, LaterDatabase, LegacyDatabases
<1>4. StoreTypes
  BY <1>1, <1>3 DEF StoreTypes, Closed, Steps
<1>5. \/ db.history = {} /\ db.schema \subseteq {1}
      \/ db.history = 1..5 /\ db.schema = 1..4 /\ ~db.duplicates
  BY <1>1 DEF NewDatabase, LaterDatabase, LegacyDatabases, Database, Versions
<1>6. HistoryInv
  <2>1. 1..0 = {}
    OBVIOUS
  <2> QED
    BY <1>5, <2>1 DEF HistoryInv, Versions, UniqueIndex
<1>7. ThreadsKnow
  BY <1>1 DEF ThreadsKnow, Validated, Closed
<1> QED
  BY <1>4, <1>6, <1>7 DEF StoreInv

(* A step that leaves schema and history alone.                            *)
LEMMA SameDatabase ==
  ASSUME StoreInv, db'.history = db.history, db'.schema = db.schema,
         db'.duplicates = db.duplicates
  PROVE  HistoryInv'
BY DEF StoreInv, HistoryInv

(* Where a thread may go with the version it is at.                        *)
MayGo(o, step) ==
  /\ step \in Steps
  /\ step \in {"connect", "preflight", "ledger", "validate"} =>
       opening[o].step \in {"connect", "preflight", "ledger", "validate"}
  /\ step \in Validated =>
       opening[o].step \in Validated \/ (Version(o) = 1 /\ db.history \subseteq Versions)
  /\ step \in {"begin", "migrate"} => Version(o) \in Versions
  /\ step \in {"audit", "open"} => Version(o) = 5

LEMMA AlwaysMayFail ==
  ASSUME NEW o PROVE MayGo(o, MigrationError) /\ MayGo(o, SqliteError)
BY DEF MayGo, MigrationError, SqliteError, Errors, Steps, Validated

(* A thread goes to another step of its own.                               *)
LEMMA OneGoes ==
  ASSUME StoreInv, db'.history = db.history, NEW o \in Threads, NEW step, MayGo(o, step),
         opening' = [opening EXCEPT ![o].step = step]
  PROVE  opening' \in [Threads -> [step : Steps, version : 0..5]] /\ ThreadsKnow'
<1>1. opening[o] \in [step : Steps, version : 0..5]
  BY DEF StoreInv, StoreTypes
<1>2. /\ \A p \in Threads : p # o => opening'[p] = opening[p]
      /\ opening'[o] = [step |-> step, version |-> opening[o].version]
  BY <1>1 DEF StoreInv, StoreTypes
<1>3. opening' \in [Threads -> [step : Steps, version : 0..5]]
  BY <1>1 DEF StoreInv, StoreTypes, MayGo
<1>4. ASSUME NEW p \in Threads
      PROVE  /\ opening'[p].step \in {"connect", "preflight", "ledger", "validate"} =>
                  opening'[p].version = 1
             /\ opening'[p].step \in Validated =>
                  /\ db.history \subseteq Versions
                  /\ opening'[p].version \in 1..5
                  /\ \A v \in 1..5 : v < opening'[p].version => v \in db.history
             /\ opening'[p].step \in {"begin", "migrate"} => opening'[p].version \in Versions
             /\ opening'[p].step \in {"audit", "open"} => opening'[p].version = 5
  <2>1. CASE p # o
    BY <1>2, <2>1 DEF StoreInv, ThreadsKnow, Version
  <2>2. CASE p = o
    <3>1. opening'[p].step = step /\ opening'[p].version = Version(o)
      BY <1>2, <2>2 DEF Version
    <3>2. CASE step \in Validated /\ opening[o].step \notin Validated
      BY <3>1, <3>2 DEF Validated, MayGo
    <3>3. CASE step \notin Validated \/ opening[o].step \in Validated
      BY <3>1, <3>3 DEF StoreInv, ThreadsKnow, Validated, MayGo
    <3> QED
      BY <3>2, <3>3
  <2> QED
    BY <2>1, <2>2
<1> QED
  BY <1>3, <1>4 DEF ThreadsKnow, Version

(* The migration of a version whose predecessors are in the history.       *)
LEMMA Migrates ==
  ASSUME StoreInv, NEW o \in Threads, Migrate(o)
  PROVE  StoreInv'
<1> DEFINE v == Version(o)
<1>1. /\ opening[o].step = "migrate" /\ v \in Versions /\ db.history \subseteq Versions
      /\ \A u \in 1..5 : u < v => u \in db.history
  BY DEF Migrate, At, StoreInv, ThreadsKnow, Validated
<1>2. writer' \in Threads \cup {NoThread}
  BY DEF Migrate, Released
<1>3. CASE ~Applies(v)
  <2>1. db' = db /\ opening' = [opening EXCEPT ![o].step = SqliteError]
    BY <1>3 DEF Migrate, RolledBack, Goto
  <2>2. opening' \in [Threads -> [step : Steps, version : 0..5]] /\ ThreadsKnow'
    BY <2>1, OneGoes, AlwaysMayFail
  <2> QED
    BY <1>2, <2>1, <2>2, SameDatabase DEF StoreInv, StoreTypes
<1>4. CASE Applies(v)
  <2>1. /\ db' = [db EXCEPT !.schema = @ \cup {v}, !.history = @ \cup {v}]
        /\ opening' = [opening EXCEPT ![o] = [step |-> "look", version |-> v + 1]]
    BY <1>4 DEF Migrate, Applied
  <2>2. /\ db \in Databases /\ db'.history = db.history \cup {v}
        /\ db'.schema = db.schema \cup {v} /\ db'.duplicates = db.duplicates
    BY <2>1 DEF StoreInv, StoreTypes, Databases
  <2>3. v \in 1..4 /\ v \notin db.history /\ (v = UniqueIndex => ~db.duplicates)
    BY <1>1, <1>4 DEF Applies, Versions
  <2>4. db' \in Databases
    <3>1. db.history \cup {v} \in SUBSET (1..5) /\ db.schema \cup {v} \in SUBSET Versions
      BY <1>1, <2>2, <2>3 DEF Databases
    <3> QED
      BY <2>1, <2>2, <3>1 DEF Databases
  <2>5. PICK n \in 0..5 : db.history = 1..n
    BY DEF StoreInv, HistoryInv
  <2>6. db'.history = 1..v
    BY <1>1, <2>2, <2>3, <2>5
  <2>7. HistoryInv'
    BY <2>2, <2>3, <2>6 DEF StoreInv, HistoryInv, Versions
  <2>8. opening' \in [Threads -> [step : Steps, version : 0..5]]
    BY <2>1, <2>3 DEF StoreInv, StoreTypes, Steps
  <2>9. ThreadsKnow'
    <3> SUFFICES ASSUME NEW p \in Threads
                 PROVE  /\ opening'[p].step \in {"connect", "preflight", "ledger", "validate"} =>
                             opening'[p].version = 1
                        /\ opening'[p].step \in Validated =>
                             /\ db'.history \subseteq Versions
                             /\ opening'[p].version \in 1..5
                             /\ \A u \in 1..5 : u < opening'[p].version => u \in db'.history
                        /\ opening'[p].step \in {"begin", "migrate"} => opening'[p].version \in Versions
                        /\ opening'[p].step \in {"audit", "open"} => opening'[p].version = 5
      BY DEF ThreadsKnow, Version
    <3>1. CASE p # o
      <4>1. opening'[p] = opening[p]
        BY <2>1, <3>1 DEF StoreInv, StoreTypes
      <4> QED
        BY <1>1, <2>2, <4>1 DEF StoreInv, ThreadsKnow, Version
    <3>2. CASE p = o
      <4>1. opening'[p] = [step |-> "look", version |-> v + 1]
        BY <2>1, <3>2 DEF StoreInv, StoreTypes
      <4> QED
        BY <1>1, <2>2, <2>3, <4>1 DEF Validated, Versions
    <3> QED
      BY <3>1, <3>2
  <2> QED
    BY <1>2, <2>4, <2>7, <2>8, <2>9 DEF StoreInv, StoreTypes
<1> QED
  BY <1>3, <1>4

(* A step of a thread that only moves the thread.                          *)
LEMMA OnlyGoes ==
  ASSUME StoreInv, NEW o \in Threads, NEW step, MayGo(o, step),
         opening' = [opening EXCEPT ![o].step = step],
         UNCHANGED db, writer' \in {writer, o}
  PROVE  StoreInv'
<1>1. opening' \in [Threads -> [step : Steps, version : 0..5]] /\ ThreadsKnow'
  BY OneGoes
<1> QED
  BY <1>1, SameDatabase DEF StoreInv, StoreTypes

LEMMA OpeningSteps ==
  ASSUME StoreInv, NEW o \in Threads, OpeningStep(o)
  PROVE  StoreInv'
<1>1. CASE Connect(o)
  <2>1. PICK locked \in SUBSET (IF db.wal THEN {} ELSE Connecting \ {o}) :
          opening' = [p \in Threads |->
            IF p = o THEN [opening[p] EXCEPT !.step = "preflight"]
            ELSE IF p \in locked THEN [opening[p] EXCEPT !.step = SqliteError]
            ELSE opening[p]]
    BY <1>1 DEF Connect
  <2>2. /\ opening[o].step = "connect" /\ UNCHANGED writer
        /\ db' = [db EXCEPT !.wal = TRUE]
    BY <1>1 DEF Connect, At
  <2>3. db' \in Databases /\ db'.history = db.history /\ db'.schema = db.schema
        /\ db'.duplicates = db.duplicates
    BY <2>2 DEF StoreInv, StoreTypes, Databases
  <2>4. \A p \in Threads : opening[p] \in [step : Steps, version : 0..5]
    BY DEF StoreInv, StoreTypes
  <2>5. \A p \in Threads :
          /\ opening'[p] \in [step : Steps, version : 0..5]
          /\ opening'[p].version = opening[p].version
          /\ opening'[p].step \in {opening[p].step, SqliteError}
               \/ (p = o /\ opening'[p].step = "preflight")
    BY <2>1, <2>4 DEF Steps, Errors
  <2>6. opening' \in [Threads -> [step : Steps, version : 0..5]]
    BY <2>1, <2>5
  <2>7. ThreadsKnow'
    BY <2>2, <2>3, <2>5 DEF StoreInv, ThreadsKnow, Version, Validated, SqliteError
  <2> QED
    BY <2>2, <2>3, <2>6, <2>7, SameDatabase DEF StoreInv, StoreTypes
<1>2. CASE Preflight(o)
  <2>1. PICK step \in {MigrationError, "ledger"} : opening' = [opening EXCEPT ![o].step = step]
    BY <1>2 DEF Preflight, Goto
  <2>2. opening[o].step = "preflight" /\ UNCHANGED <<db, writer>>
    BY <1>2 DEF Preflight, At
  <2>3. MayGo(o, step)
    BY <2>1, <2>2, AlwaysMayFail DEF MayGo, Steps, Validated
  <2> QED
    BY <2>1, <2>2, <2>3, OnlyGoes
<1>3. CASE EnsureLedger(o)
  <2>1. /\ opening[o].step = "ledger" /\ opening' = [opening EXCEPT ![o].step = "validate"]
        /\ db' = [db EXCEPT !.ledger = TRUE] /\ UNCHANGED writer
    BY <1>3 DEF EnsureLedger, At, Goto
  <2>2. db' \in Databases /\ db'.history = db.history /\ db'.schema = db.schema
        /\ db'.duplicates = db.duplicates
    BY <2>1 DEF StoreInv, StoreTypes, Databases
  <2>3. MayGo(o, "validate")
    BY <2>1 DEF MayGo, Steps, Validated
  <2>4. opening' \in [Threads -> [step : Steps, version : 0..5]] /\ ThreadsKnow'
    BY <2>1, <2>2, <2>3, OneGoes
  <2> QED
    BY <2>1, <2>2, <2>4, SameDatabase DEF StoreInv, StoreTypes
<1>4. CASE Validate(o)
  <2>1. opening[o].step = "validate" /\ UNCHANGED <<db, writer>> /\ Version(o) = 1
    BY <1>4 DEF Validate, At, StoreInv, ThreadsKnow
  <2>2. CASE KnownHistory
    <3>1. db.history \subseteq Versions
      BY <2>2 DEF KnownHistory, Versions
    <3>2. MayGo(o, "look") /\ opening' = [opening EXCEPT ![o].step = "look"]
      BY <1>4, <2>1, <2>2, <3>1 DEF Validate, Goto, MayGo, Steps, Validated
    <3> QED
      BY <2>1, <3>2, OnlyGoes
  <2>3. CASE ~KnownHistory
    <3>1. opening' = [opening EXCEPT ![o].step = MigrationError]
      BY <1>4, <2>3 DEF Validate, Goto
    <3> QED
      BY <2>1, <3>1, OnlyGoes, AlwaysMayFail
  <2> QED
    BY <2>2, <2>3
<1>5. CASE Look(o)
  <2>1. opening[o].step = "look" /\ UNCHANGED <<db, writer>> /\ Version(o) \in 1..5
    BY <1>5 DEF Look, At, StoreInv, ThreadsKnow, Validated
  <2>2. CASE Version(o) \notin Versions
    <3>1. Version(o) = 5
      BY <2>1, <2>2 DEF Versions
    <3>2. MayGo(o, "audit") /\ opening' = [opening EXCEPT ![o].step = "audit"]
      BY <1>5, <2>1, <2>2, <3>1 DEF Look, Goto, MayGo, Steps, Validated
    <3> QED
      BY <2>1, <3>2, OnlyGoes
  <2>3. CASE Version(o) \in Versions /\ Version(o) \notin db.history
    <3>1. MayGo(o, "begin") /\ opening' = [opening EXCEPT ![o].step = "begin"]
      BY <1>5, <2>1, <2>3 DEF Look, Goto, MayGo, Steps, Validated
    <3> QED
      BY <2>1, <3>1, OnlyGoes
  <2>4. CASE Version(o) \in Versions /\ Version(o) \in db.history
    <3>1. opening' = [opening EXCEPT ![o].version = opening[o].version + 1]
      BY <1>5, <2>4 DEF Look, StoreInv, StoreTypes
    <3>2. opening[o] \in [step : Steps, version : 0..5] /\ Version(o) \in 1..4
      BY <2>4 DEF StoreInv, StoreTypes, Versions
    <3>3. /\ opening'[o] = [step |-> "look", version |-> Version(o) + 1]
          /\ \A p \in Threads : p # o => opening'[p] = opening[p]
      BY <2>1, <3>1, <3>2 DEF StoreInv, StoreTypes, Version
    <3>4. opening' \in [Threads -> [step : Steps, version : 0..5]]
      BY <2>1, <3>1, <3>2 DEF StoreInv, StoreTypes, Version
    <3>5. \A v \in 1..5 : v < Version(o) + 1 => v \in db.history
      BY <2>1, <2>4 DEF StoreInv, ThreadsKnow, Validated
    <3>6. db.history \subseteq Versions
      BY <2>1 DEF StoreInv, ThreadsKnow, Validated
    <3>7. ThreadsKnow'
      <4> SUFFICES ASSUME NEW p \in Threads
                   PROVE  /\ opening'[p].step \in {"connect", "preflight", "ledger", "validate"} =>
                               opening'[p].version = 1
                          /\ opening'[p].step \in Validated =>
                               /\ db.history \subseteq Versions
                               /\ opening'[p].version \in 1..5
                               /\ \A u \in 1..5 : u < opening'[p].version => u \in db.history
                          /\ opening'[p].step \in {"begin", "migrate"} => opening'[p].version \in Versions
                          /\ opening'[p].step \in {"audit", "open"} => opening'[p].version = 5
        BY <2>1 DEF ThreadsKnow, Version
      <4>1. CASE p # o
        BY <3>3, <4>1 DEF StoreInv, ThreadsKnow, Version
      <4>2. CASE p = o
        BY <3>2, <3>3, <3>5, <3>6, <4>2 DEF Validated
      <4> QED
        BY <4>1, <4>2
    <3> QED
      BY <2>1, <3>4, <3>7, SameDatabase DEF StoreInv, StoreTypes
  <2> QED
    BY <2>2, <2>3, <2>4
<1>6. CASE Begin(o)
  <2>1. opening[o].step = "begin" /\ opening' = [opening EXCEPT ![o].step = "migrate"]
        /\ UNCHANGED db /\ writer' = o
    BY <1>6 DEF Begin, At, Goto
  <2>2. Version(o) \in Versions
    BY <2>1 DEF StoreInv, ThreadsKnow
  <2>3. MayGo(o, "migrate")
    BY <2>1, <2>2 DEF MayGo, Steps, Validated
  <2> QED
    BY <2>1, <2>3, OnlyGoes
<1>7. CASE Migrate(o)
  BY <1>7, Migrates
<1>8. CASE Audit(o)
  <2>1. opening[o].step = "audit" /\ opening' = [opening EXCEPT ![o].step = "open"]
        /\ UNCHANGED <<db, writer>>
    BY <1>8 DEF Audit, At, Goto
  <2>2. Version(o) = 5
    BY <2>1 DEF StoreInv, ThreadsKnow
  <2>3. MayGo(o, "open")
    BY <2>1, <2>2 DEF MayGo, Steps, Validated
  <2> QED
    BY <2>1, <2>3, OnlyGoes
<1>9. CASE LockExpires(o)
  <2>1. opening' = [opening EXCEPT ![o].step = SqliteError] /\ UNCHANGED <<db, writer>>
    BY <1>9 DEF LockExpires, Goto
  <2> QED
    BY <2>1, OnlyGoes, AlwaysMayFail
<1> QED
  BY <1>1, <1>2, <1>3, <1>4, <1>5, <1>6, <1>7, <1>8, <1>9 DEF OpeningStep

(* A thread starts over, or is done.                                       *)
LEMMA OneStartsOver ==
  ASSUME StoreInv, NEW o \in Threads, NEW at \in {Closed, [step |-> "connect", version |-> 1]},
         opening' = [opening EXCEPT ![o] = at], UNCHANGED <<db, writer>>
  PROVE  StoreInv'
<1>1. at \in [step : Steps, version : 0..5] /\ at.step \in {"closed", "connect"}
      /\ (at.step = "connect" => at.version = 1)
  BY DEF Closed, Steps
<1>2. opening' \in [Threads -> [step : Steps, version : 0..5]]
  BY <1>1 DEF StoreInv, StoreTypes
<1>3. opening'[o] = at /\ \A p \in Threads : p # o => opening'[p] = opening[p]
  BY DEF StoreInv, StoreTypes
<1>4. ThreadsKnow'
  BY <1>1, <1>3 DEF StoreInv, ThreadsKnow, Version, Validated
<1> QED
  BY <1>2, <1>4, SameDatabase DEF StoreInv, StoreTypes

LEMMA StoreStep == StoreInv /\ [Next]_everything => StoreInv'
<1> SUFFICES ASSUME StoreInv, [Next]_everything PROVE StoreInv'
  OBVIOUS
<1>1. ASSUME UNCHANGED store PROVE StoreInv'
  BY <1>1 DEF store, StoreInv, StoreTypes, HistoryInv, ThreadsKnow, Version
<1>2. ASSUME NEW o \in Threads, End(o) PROVE StoreInv'
  BY <1>2, OneStartsOver DEF End
<1>3. ASSUME NEW o \in Threads, ThreadStep(o) PROVE StoreInv'
  BY <1>1, <1>2, <1>3, OpeningSteps
     DEF ThreadStep, Initialise, FailToOpen, AnswerObserve, CheckSeeded, Claim, PassOver,
         CompleteClaimed, AnswerCompile
<1>4. ASSUME NEW o \in Threads, NEW path, Receive(o, path) PROVE StoreInv'
  BY <1>4, OneStartsOver DEF Receive, Open
<1>5. ASSUME Restart PROVE StoreInv'
  <2>1. opening' = [o \in Threads |-> Closed] /\ writer' = NoThread /\ db' = db
    BY <1>5 DEF Restart, StopOpening, RolledBack
  <2>2. StoreTypes'
    BY <2>1 DEF StoreInv, StoreTypes, Closed, Steps
  <2>3. ThreadsKnow'
    BY <2>1 DEF ThreadsKnow, Validated, Closed
  <2> QED
    BY <2>1, <2>2, <2>3, SameDatabase DEF StoreInv
<1>6. ASSUME NEW o \in Threads, CheckFails(o) \/ ObserveFails(o) PROVE StoreInv'
  <2>1. CASE CheckFails(o)
    BY <1>2, <2>1 DEF CheckFails
  <2>2. CASE ObserveFails(o)
    BY <1>1, <2>2 DEF ObserveFails
  <2> QED
    BY <1>6, <2>1, <2>2
<1>7. CASE UNCHANGED everything
  BY <1>1, <1>7 DEF everything
<1> QED
  BY <1>3, <1>4, <1>5, <1>6, <1>7 DEF Next, Requested

(* Which of a process's threads came first to a version does not show in   *)
(* the database; nor does where the process was stopped.                   *)
LEMMA OpenMeansMigrated == StoreInv => HistoryIsSchema
<1> SUFFICES ASSUME StoreInv PROVE HistoryIsSchema
  OBVIOUS
<1>1. ASSUME NEW o \in Threads, At(o, "open")
      PROVE  db.history = Versions /\ db.schema = Versions /\ ~db.duplicates
  <2>1. Version(o) = 5 /\ db.history \subseteq Versions
        /\ \A v \in 1..5 : v < Version(o) => v \in db.history
    BY <1>1 DEF StoreInv, ThreadsKnow, At, Validated
  <2>2. db.history = Versions
    BY <2>1 DEF Versions
  <2>3. db.schema \subseteq Versions /\ Versions \subseteq db.schema
    BY <2>2 DEF StoreInv, StoreTypes, Databases, HistoryInv
  <2>4. db.schema = Versions
    BY <2>3
  <2>5. UniqueIndex \in db.schema
    BY <2>4 DEF UniqueIndex, Versions
  <2> QED
    BY <2>2, <2>4, <2>5 DEF StoreInv, HistoryInv
<1> QED
  BY <1>1 DEF StoreInv, HistoryInv, HistoryIsSchema

(* Whatever threads open the database beside each other, and wherever the  *)
(* process is stopped, schema_migrations and the schema say the same       *)
(* (_apply_migrations, _validate_applied_migrations).                      *)
THEOREM HistoryTheorem == Spec => []HistoryIsSchema
<1> USE OpenMeansMigrated
<1>1. Init => StoreInv
  BY StoreStarts
<1>2. StoreInv /\ [Next]_everything => StoreInv'
  BY StoreStep
<1> QED
  BY <1>1, <1>2, PTL DEF Spec

-----------------------------------------------------------------------------
Requests ==
  [path : {"none", "/observe", "/compile"},
   phase : {"none", "opening", "observe", "claimed", "compile"}, at : 0..FixtureLength]

ServerTypes ==
  /\ source \in {"env", "tempdir"}
  /\ request \in [Threads -> Requests]
  /\ fixture \in [Events -> {"absent", "pending", "completed"}]
  /\ seeded \in BOOLEAN /\ failed \subseteq Events /\ errors \in Nat /\ stops \in Nat

(* Who seeds has an open store and is at an event.                         *)
SeedersAreOpen ==
  \A o \in Threads :
    /\ Seeding(o) => Current(o) \in Events
    /\ Seeding(o) \/ Doing(o, "compile") => At(o, "open")

(* Events of the session are remembered in their order, one at a time.     *)
InSequence ==
  \A i \in Events : fixture[i] # "absent" =>
    \A j \in Events : j < i => fixture[j] = "completed"

(* Who has claimed an event is alone with it.                              *)
ClaimsHold ==
  /\ \A o \in Threads : Doing(o, "claimed") => fixture[Current(o)] = "pending"
  /\ \A o, p \in Threads : Doing(o, "claimed") /\ Doing(p, "claimed") => o = p

Whole == \A i \in Events : fixture[i] = "completed"
(* The first event that is missing is one whose own observation failed.    *)
Excused ==
  \E j \in failed : /\ fixture[j] # "completed"
                   /\ \A i \in Events : fixture[i] # "completed" => j <= i
(* Who left an event pending and is not at it has failed at it.            *)
PendingFailed ==
  \A i \in Events : fixture[i] = "pending" =>
    i \in failed \/ \E o \in Threads : Doing(o, "claimed") /\ Current(o) = i
(* A seeder that has left nothing behind.                                  *)
Thorough(o) == Seeding(o) /\ \A j \in Events : j < Current(o) => fixture[j] = "completed"

Started == seeded \/ \E o \in Threads : Seeding(o) \/ Doing(o, "compile")

SeedingInv ==
  /\ SeedersAreOpen /\ InSequence /\ ClaimsHold
  /\ source = "tempdir" => PendingFailed
  /\ source = "tempdir" /\ Started => Whole \/ Excused \/ \E o \in Threads : Thorough(o)

ServerInv == StoreInv /\ ServerTypes /\ SeedingInv

LEMMA SeedingStarts == Init => ServerTypes /\ SeedingInv
<1> SUFFICES ASSUME Init PROVE ServerTypes /\ SeedingInv
  OBVIOUS
<1>1. /\ request = [o \in Threads |-> NoRequest] /\ fixture = [i \in Events |-> "absent"]
      /\ source \in {"env", "tempdir"}
      /\ seeded = FALSE /\ failed = {} /\ errors = 0 /\ stops = 0
  BY DEF Init
<1>2. NoRequest \in Requests
  BY ServerAssumption DEF NoRequest, Requests
<1>3. ServerTypes
  BY <1>1, <1>2 DEF ServerTypes
<1>4. \A o \in Threads : request[o].phase = "none"
  BY <1>1 DEF NoRequest
<1>5. ~Started
  BY <1>1, <1>4 DEF Started, Seeding, Doing
<1>6. SeedersAreOpen /\ ClaimsHold
  BY <1>4 DEF SeedersAreOpen, ClaimsHold, Seeding, Doing
<1>7. InSequence /\ PendingFailed
  BY <1>1 DEF InSequence, PendingFailed
<1> QED
  BY <1>3, <1>5, <1>6, <1>7 DEF SeedingInv

(* The opening of one thread's store closes nobody else's.                 *)
LEMMA OpenStaysOpen ==
  ASSUME StoreInv, NEW o \in Threads, OpeningStep(o), NEW p \in Threads, At(p, "open")
  PROVE  At(p, "open")'
<1>1. opening \in [Threads -> [step : Steps, version : 0..5]]
  BY DEF StoreInv, StoreTypes
<1>2. CASE Connect(o)
  BY <1>2 DEF Connect, Connecting, At
<1>3. CASE ~Connect(o)
  <2>1. opening[o].step # "open" /\ \A q \in Threads : q # o => opening'[q] = opening[q]
    BY <1>1, <1>3 DEF OpeningStep, Preflight, EnsureLedger, Validate, Look, Begin, Migrate,
      Audit, LockExpires, At, Goto
  <2> QED
    BY <2>1 DEF At
<1> QED
  BY <1>2, <1>3

(* A seeder that is through with an event.                                 *)
LEMMA OnwardGoes ==
  ASSUME ServerTypes, NEW o \in Threads, Onward(o)
  PROVE  /\ request' \in [Threads -> Requests]
         /\ \A p \in Threads : p # o => request'[p] = request[p]
         /\ IF Current(o) = FixtureLength THEN request'[o].phase = "compile"
            ELSE request'[o].phase = "observe" /\ request'[o].at = Current(o) + 1
<1> DEFINE last == Current(o) = FixtureLength
           phase == IF last THEN "compile" ELSE "observe"
           at == IF last THEN 0 ELSE Current(o) + 1
           r == [request[o] EXCEPT !.phase = phase, !.at = at]
<1>1. request' = [request EXCEPT ![o] = r]
  BY DEF Onward, Current
<1>2. phase \in {"observe", "compile"} /\ at \in 0..FixtureLength
  BY ServerAssumption DEF ServerTypes, Requests, Current
<1>3. r.phase = phase /\ r.at = at /\ r \in Requests
  <2> HIDE DEF phase, at
  <2> QED
    BY <1>2 DEF ServerTypes, Requests
<1> HIDE DEF r
<1> QED
  BY <1>1, <1>3 DEF ServerTypes

LEMMA ServerTypesStep == ServerTypes /\ SeedingInv /\ [Next]_everything => ServerTypes'
<1> SUFFICES ASSUME ServerTypes, SeedersAreOpen, [Next]_everything PROVE ServerTypes'
  BY DEF SeedingInv
<1>1. NoRequest \in Requests
  BY ServerAssumption DEF NoRequest, Requests
<1>2. ASSUME NEW o \in Threads, End(o), UNCHANGED <<source, fixture, stops>>,
             seeded' \in BOOLEAN, failed' = failed, errors' \in Nat
      PROVE  ServerTypes'
  BY <1>1, <1>2 DEF End, ServerTypes
<1>3. ASSUME NEW o \in Threads, ThreadStep(o) PROVE ServerTypes'
  <2>1. CASE Initialise(o)
    BY <2>1 DEF Initialise, server, ServerTypes
  <2>2. CASE FailToOpen(o) \/ AnswerObserve(o) \/ AnswerCompile(o)
    BY <1>2, <2>2 DEF FailToOpen, AnswerObserve, AnswerCompile, ServerTypes
  <2>3. CASE CheckSeeded(o)
    <3> DEFINE seeds == source = "tempdir" /\ Missing
               phase == IF seeds THEN "observe" ELSE "compile"
               at == IF seeds THEN 1 ELSE 0
               r == [request[o] EXCEPT !.phase = phase, !.at = at]
    <3>1. /\ request' = [request EXCEPT ![o] = r] /\ UNCHANGED <<source, fixture, seeded, errors, stops>>
          /\ failed' \subseteq Events
      BY <2>3 DEF CheckSeeded, ServerTypes
    <3>2. phase \in {"observe", "compile"} /\ at \in 0..FixtureLength
      BY ServerAssumption
    <3>3. r \in Requests
      <4> HIDE DEF phase, at
      <4> QED
        BY <3>2 DEF ServerTypes, Requests
    <3> HIDE DEF r
    <3> QED
      BY <3>1, <3>3 DEF ServerTypes
  <2>4. CASE Claim(o)
    <3>1. [request[o] EXCEPT !.phase = "claimed"] \in Requests
      BY DEF ServerTypes, Requests
    <3> QED
      BY <2>4, <3>1 DEF Claim, ServerTypes
  <2>5. CASE PassOver(o)
    BY <2>5, OnwardGoes DEF PassOver, ServerTypes
  <2>6. CASE CompleteClaimed(o)
    BY <2>6, OnwardGoes DEF CompleteClaimed, ServerTypes
  <2> QED
    BY <1>3, <2>1, <2>2, <2>3, <2>4, <2>5, <2>6 DEF ThreadStep
<1>4. ASSUME NEW o \in Threads, NEW path \in {"/observe", "/compile"}, Receive(o, path)
      PROVE  ServerTypes'
  <2>1. [path |-> path, phase |-> "opening", at |-> 0] \in Requests
    BY ServerAssumption DEF Requests
  <2> QED
    BY <1>4, <2>1 DEF Receive, ServerTypes
<1>5. ASSUME NEW o \in Threads, CheckFails(o) PROVE ServerTypes'
  BY <1>2, <1>5 DEF CheckFails, ServerTypes
<1>8. ASSUME NEW o \in Threads, SeedersAreOpen, ObserveFails(o) PROVE ServerTypes'
  <2>1. Current(o) \in Events
    BY <1>8 DEF ObserveFails, SeedersAreOpen
  <2> QED
    BY <1>8, <2>1, OnwardGoes DEF ObserveFails, ServerTypes
<1>6. CASE Restart
  BY <1>1, <1>6 DEF Restart, ServerTypes
<1>7. CASE UNCHANGED everything
  BY <1>7 DEF everything, server, ServerTypes
<1> QED
  BY <1>3, <1>4, <1>5, <1>6, <1>7, <1>8 DEF Next, Requested

(* A step beside the seeding: who seeds or is about to compile stays where *)
(* it is with its store open, and nobody else begins to.                   *)
Busy(o) == Seeding(o) \/ Doing(o, "compile")
Beside ==
  /\ UNCHANGED <<source, fixture, seeded, failed>>
  /\ \A p \in Threads : Busy(p) \/ Busy(p)' => request'[p] = request[p] /\ At(p, "open")'

LEMMA BesideSeeding ==
  ASSUME ServerTypes, SeedingInv, Beside PROVE SeedingInv'
<1>1. \A p \in Threads : Busy(p)' => Busy(p) /\ request'[p] = request[p] /\ At(p, "open")'
  BY DEF Beside, Busy, Seeding, Doing
<1>2. \A p \in Threads : Busy(p) => request'[p] = request[p]
  BY DEF Beside
<1>3. SeedersAreOpen'
  BY <1>1 DEF Beside, SeedingInv, SeedersAreOpen, Busy, Seeding, Doing, Current, Events
<1>4. InSequence'
  BY DEF Beside, SeedingInv, InSequence
<1>5. ClaimsHold'
  BY <1>1 DEF Beside, SeedingInv, ClaimsHold, Busy, Seeding, Doing, Current
<1>6. Whole' = Whole /\ Excused' = Excused /\ (PendingFailed => PendingFailed')
  BY <1>1, <1>2 DEF Beside, Whole, Excused, PendingFailed, Busy, Seeding, Doing, Current
<1>7. Started' => Started
  BY <1>1 DEF Beside, Started, Busy
<1>8. \A p \in Threads : Thorough(p) => Thorough(p)'
  BY <1>2 DEF Beside, Thorough, Busy, Seeding, Current
<1> QED
  BY <1>3, <1>4, <1>5, <1>6, <1>7, <1>8 DEF Beside, SeedingInv

(* A /compile looks for what is missing and seeds from the first event on, *)
(* or finds all there or under way.                                        *)
LEMMA CheckSeededSeeds ==
  ASSUME ServerTypes, SeedingInv, NEW o \in Threads, CheckSeeded(o)
  PROVE  SeedingInv'
<1> DEFINE seeds == source = "tempdir" /\ Missing
           r == [request[o] EXCEPT !.phase = IF seeds THEN "observe" ELSE "compile",
                                   !.at = IF seeds THEN 1 ELSE 0]
<1>1. /\ request' = [request EXCEPT ![o] = r]
      /\ failed' = IF source = "tempdir" /\ Alone(o) THEN {i \in failed : fixture[i] = "pending"}
                   ELSE failed
      /\ UNCHANGED <<opening, source, fixture, seeded>>
      /\ Doing(o, "opening") /\ At(o, "open")
  BY DEF CheckSeeded, store
<1>2. IF seeds THEN r.phase = "observe" /\ r.at = 1 ELSE r.phase = "compile"
  BY DEF ServerTypes, Requests
<1>3. r = request'[o] /\ \A p \in Threads : p # o => request'[p] = request[p]
  BY <1>1 DEF ServerTypes
<1> HIDE DEF r
<1>4. IF seeds THEN request'[o].phase = "observe" /\ request'[o].at = 1
      ELSE request'[o].phase = "compile"
  BY <1>2, <1>3
<1>5. ~Seeding(o) /\ ~Doing(o, "compile")
  BY <1>1 DEF Seeding, Doing
<1>6. 1 \in Events
  BY ServerAssumption DEF Events
<1>7. SeedersAreOpen'
  BY <1>1, <1>3, <1>4, <1>6 DEF SeedingInv, SeedersAreOpen, Seeding, Doing, At, Current, Events
<1>8. InSequence'
  BY <1>1 DEF SeedingInv, InSequence
<1>9. ClaimsHold'
  BY <1>1, <1>3, <1>4 DEF SeedingInv, ClaimsHold, Doing, Current
<1>10. Whole' = Whole
  BY <1>1 DEF Whole
<1>11. \A p \in Threads : Thorough(p) => Thorough(p)'
  BY <1>1, <1>3, <1>5 DEF Thorough, Seeding, Current
<1>12. \A p \in Threads : Doing(p, "claimed") => Doing(p, "claimed")' /\ Current(p)' = Current(p)
  BY <1>1, <1>3 DEF Doing, Current
<1>13. source = "tempdir" => PendingFailed'
  BY <1>1, <1>12 DEF SeedingInv, PendingFailed, Events
<1>14. ASSUME source = "tempdir"
       PROVE  Whole' \/ Excused' \/ \E p \in Threads : Thorough(p)'
  <2>1. CASE Missing
    <3>1. request'[o].phase = "observe" /\ request'[o].at = 1
      BY <1>4, <1>14, <2>1
    <3>2. Thorough(o)'
      BY <3>1 DEF Thorough, Seeding, Current, Events
    <3> QED
      BY <3>2
  <2>2. CASE ~Missing /\ Alone(o)
    <3>1. \A p \in Threads : ~Doing(p, "claimed")
      BY <1>5, <2>2 DEF Alone, Seeding, Doing
    <3>2. \A k \in Events : fixture[k] \in {"pending", "completed"}
      BY <2>2 DEF Missing, ServerTypes
    <3>3. \A k \in Events : fixture[k] = "pending" => k \in failed'
      BY <1>1, <1>14, <2>2, <3>1 DEF SeedingInv, PendingFailed
    <3>4. CASE \E k \in Events : fixture[k] = "pending"
      <4>1. PICK k \in Events : fixture[k] = "pending"
        BY <3>4
      <4>2. \A i \in Events : fixture[i] # "completed" => k <= i
        <5> SUFFICES ASSUME NEW i \in Events, fixture[i] # "completed", ~(k <= i) PROVE FALSE
          OBVIOUS
        <5>1. i < k
          BY ServerAssumption DEF Events
        <5> QED
          BY <4>1, <5>1 DEF SeedingInv, InSequence
      <4> QED
        BY <1>1, <3>3, <4>1, <4>2 DEF Excused, Events
    <3>5. CASE \A k \in Events : fixture[k] # "pending"
      BY <1>10, <3>2, <3>5 DEF Whole
    <3> QED
      BY <3>4, <3>5
  <2>3. CASE ~Alone(o)
    <3>1. Started /\ failed' = failed
      BY <1>1, <2>3 DEF Alone, Started
    <3>2. Excused' = Excused
      BY <1>1, <3>1 DEF Excused
    <3> QED
      BY <1>10, <1>11, <1>14, <3>1, <3>2 DEF SeedingInv
  <2> QED
    BY <2>1, <2>2, <2>3
<1> QED
  BY <1>1, <1>7, <1>8, <1>9, <1>13, <1>14 DEF SeedingInv

(* Who claims an event finds all before it completed and nobody else at    *)
(* work; who completes it has all before it completed.                     *)
LEMMA ClaimSeeds ==
  ASSUME ServerTypes, SeedingInv, NEW o \in Threads, Claim(o)
  PROVE  SeedingInv'
<1> DEFINE i == Current(o)
<1>1. /\ request[o].phase = "observe" /\ Claimable(i)
      /\ fixture' = [fixture EXCEPT ![i] = "pending"]
      /\ request' = [request EXCEPT ![o].phase = "claimed"]
      /\ UNCHANGED <<opening, source, seeded, failed>>
  BY DEF Claim, Doing, store
<1>2. i \in Events /\ FixtureLength \in Nat
  BY <1>1, ServerAssumption DEF SeedingInv, SeedersAreOpen, Seeding
<1>3. /\ request'[o].phase = "claimed" /\ request'[o].at = i
      /\ \A p \in Threads : p # o => request'[p] = request[p]
  BY <1>1 DEF ServerTypes, Requests, Current
<1>4. /\ fixture[i] = "absent" /\ fixture'[i] = "pending"
      /\ \A j \in Events : j < i => fixture[j] = "completed"
      /\ \A j \in Events : j # i => fixture'[j] = fixture[j]
  BY <1>1, <1>2 DEF Claimable, Events, ServerTypes
<1>5. \A j \in Events : fixture[j] # "pending"
  <2> SUFFICES ASSUME NEW j \in Events, fixture[j] = "pending" PROVE FALSE
    OBVIOUS
  <2>1. j < i \/ j = i \/ i < j
    BY <1>2 DEF Events
  <2> QED
    BY <1>2, <1>4, <2>1 DEF SeedingInv, InSequence
<1>6. \A p \in Threads : ~Doing(p, "claimed")
  BY <1>5 DEF SeedingInv, ClaimsHold, SeedersAreOpen, Seeding, Doing
<1> HIDE DEF i
<1>7. SeedersAreOpen'
  BY <1>1, <1>2, <1>3 DEF SeedingInv, SeedersAreOpen, Seeding, Doing, At, Current, Events
<1>8. InSequence'
  <2> SUFFICES ASSUME NEW k \in Events, fixture'[k] # "absent", NEW j \in Events, j < k
               PROVE  fixture'[j] = "completed"
    BY DEF InSequence, Events
  <2>1. CASE k = i
    BY <1>4, <2>1 DEF Events
  <2>2. CASE k # i
    <3>1. fixture[k] # "absent"
      BY <1>4, <2>2
    <3>2. fixture[j] = "completed"
      BY <3>1 DEF SeedingInv, InSequence
    <3> QED
      BY <1>4, <3>2
  <2> QED
    BY <2>1, <2>2
<1>9. ClaimsHold'
  BY <1>3, <1>4, <1>6 DEF ClaimsHold, Doing, Current
<1>10. PendingFailed'
  BY <1>3, <1>4, <1>5 DEF PendingFailed, Doing, Current, Events
<1>11. Thorough(o)'
  BY <1>2, <1>3, <1>4 DEF Thorough, Seeding, Current, Events
<1> QED
  BY <1>7, <1>8, <1>9, <1>10, <1>11 DEF SeedingInv

LEMMA CompleteSeeds ==
  ASSUME ServerTypes, SeedingInv, NEW o \in Threads, CompleteClaimed(o)
  PROVE  SeedingInv'
<1> DEFINE i == Current(o)
<1>1. /\ request[o].phase = "claimed" /\ Onward(o)
      /\ fixture' = [fixture EXCEPT ![i] = "completed"]
      /\ UNCHANGED <<opening, source, seeded, failed>>
  BY DEF CompleteClaimed, Doing, store
<1>2. i \in Events /\ FixtureLength \in Nat /\ At(o, "open")
  BY <1>1, ServerAssumption DEF SeedingInv, SeedersAreOpen, Seeding
<1>3. /\ \A p \in Threads : p # o => request'[p] = request[p]
      /\ IF i = FixtureLength THEN request'[o].phase = "compile"
         ELSE request'[o].phase = "observe" /\ request'[o].at = i + 1
  BY <1>1, OnwardGoes
<1>4. fixture[i] = "pending" /\ \A p \in Threads : p # o => ~Doing(p, "claimed")
  BY <1>1 DEF SeedingInv, ClaimsHold, Doing
<1>5. /\ fixture'[i] = "completed"
      /\ \A j \in Events : j # i => fixture'[j] = fixture[j]
      /\ \A j \in Events : j < i => fixture[j] = "completed"
  BY <1>1, <1>2, <1>4 DEF SeedingInv, InSequence, ServerTypes
<1>6. \A p \in Threads : ~Doing(p, "claimed")'
  BY <1>3, <1>4 DEF Doing
<1> HIDE DEF i
<1>7. SeedersAreOpen'
  BY <1>1, <1>2, <1>3 DEF SeedingInv, SeedersAreOpen, Seeding, Doing, At, Current, Events
<1>8. InSequence'
  <2> SUFFICES ASSUME NEW k \in Events, fixture'[k] # "absent", NEW j \in Events, j < k
               PROVE  fixture'[j] = "completed"
    BY DEF InSequence, Events
  <2>1. fixture[k] # "absent"
    BY <1>4, <1>5
  <2>2. fixture[j] = "completed"
    BY <2>1 DEF SeedingInv, InSequence
  <2> QED
    BY <1>5, <2>2
<1>9. ClaimsHold'
  BY <1>6 DEF ClaimsHold
<1>10. source = "tempdir" => PendingFailed'
  <2> SUFFICES ASSUME source = "tempdir", NEW k \in Events, fixture'[k] = "pending"
               PROVE  k \in failed
    BY <1>1 DEF PendingFailed, Events
  <2>1. k # i /\ fixture[k] = "pending"
    BY <1>5
  <2>2. \A p \in Threads : ~(Doing(p, "claimed") /\ Current(p) = k)
    BY <1>4, <2>1 DEF i
  <2> QED
    BY <2>1, <2>2 DEF SeedingInv, PendingFailed
<1>11. CASE i = FixtureLength
  <2>1. Whole'
    BY <1>2, <1>5, <1>11 DEF Whole, Events
  <2> QED
    BY <1>1, <1>7, <1>8, <1>9, <1>10, <2>1 DEF SeedingInv
<1>12. CASE i # FixtureLength
  <2>1. Thorough(o)'
    BY <1>2, <1>3, <1>5, <1>12 DEF Thorough, Seeding, Current, Events
  <2> QED
    BY <1>1, <1>7, <1>8, <1>9, <1>10, <2>1 DEF SeedingInv
<1> QED
  BY <1>11, <1>12

(* Who passes over an event that is not completed and has left nothing     *)
(* behind leaves it to the seeder that has it under way, or to nobody when *)
(* an error left it pending.                                               *)
LEMMA PassOverSeeds ==
  ASSUME ServerTypes, SeedingInv, NEW o \in Threads, PassOver(o)
  PROVE  SeedingInv'
<1> DEFINE i == Current(o)
<1>1. /\ request[o].phase = "observe" /\ Onward(o) /\ ~Claimable(i)
      /\ UNCHANGED <<opening, fixture, source, seeded, failed>>
  BY DEF PassOver, Doing, store
<1>2. i \in Events /\ FixtureLength \in Nat /\ At(o, "open")
  BY <1>1, ServerAssumption DEF SeedingInv, SeedersAreOpen, Seeding
<1>3. /\ \A p \in Threads : p # o => request'[p] = request[p]
      /\ IF i = FixtureLength THEN request'[o].phase = "compile"
         ELSE request'[o].phase = "observe" /\ request'[o].at = i + 1
  BY <1>1, OnwardGoes
<1>4. ~Doing(o, "claimed") /\ ~Doing(o, "claimed")'
  BY <1>1, <1>3 DEF Doing
<1>5. SeedersAreOpen'
  BY <1>1, <1>2, <1>3 DEF SeedingInv, SeedersAreOpen, Seeding, Doing, At, Current, Events
<1>6. InSequence'
  BY <1>1 DEF SeedingInv, InSequence
<1>7. ClaimsHold'
  BY <1>1, <1>3, <1>4 DEF SeedingInv, ClaimsHold, Doing, Current
<1>8. Whole' = Whole /\ Excused' = Excused /\ (PendingFailed => PendingFailed')
  BY <1>1, <1>3, <1>4 DEF Whole, Excused, PendingFailed, Doing, Current
<1>9. ASSUME source = "tempdir", Thorough(o)
      PROVE  Whole \/ Excused \/ \E p \in Threads : Thorough(p)'
  <2>1. \A j \in Events : j < i => fixture[j] = "completed"
    BY <1>9 DEF Thorough
  <2>2. fixture[i] \in {"pending", "completed"}
    BY <1>1, <1>2, <2>1 DEF Claimable, ServerTypes, Events
  <2>3. CASE fixture[i] = "completed" /\ i = FixtureLength
    BY <1>2, <2>1, <2>3 DEF Whole, Events
  <2>4. CASE fixture[i] = "completed" /\ i # FixtureLength
    <3>1. request'[o].phase = "observe" /\ request'[o].at = i + 1
      BY <1>3, <2>4
    <3>2. Thorough(o)'
      BY <1>1, <1>2, <2>1, <2>4, <3>1 DEF Thorough, Seeding, Current, Events
    <3> QED
      BY <3>2
  <2>5. CASE fixture[i] = "pending"
    <3>1. ASSUME NEW q \in Threads, Doing(q, "claimed"), Current(q) = i
          PROVE  Thorough(q)'
      <4>1. q # o /\ request'[q] = request[q]
        BY <1>3, <1>4, <3>1
      <4> QED
        BY <1>1, <2>1, <3>1, <4>1 DEF Thorough, Seeding, Doing, Current
    <3>2. ASSUME i \in failed PROVE Excused
      <4>1. \A k \in Events : fixture[k] # "completed" => i <= k
        BY <1>2, <2>1 DEF Events
      <4> QED
        BY <2>5, <3>2, <4>1 DEF Excused
    <3> QED
      BY <1>2, <1>9, <2>5, <3>1, <3>2 DEF SeedingInv, PendingFailed
  <2> QED
    BY <2>2, <2>3, <2>4, <2>5
<1>10. \A p \in Threads : p # o /\ Thorough(p) => Thorough(p)'
  BY <1>1, <1>3 DEF Thorough, Seeding, Current
<1>11. Started
  BY <1>1 DEF Started, Seeding
<1> QED
  BY <1>1, <1>5, <1>6, <1>7, <1>8, <1>9, <1>10, <1>11 DEF SeedingInv

(* Whose observation fails passes over the event; when nothing is left     *)
(* behind it, that is the first one missing.                               *)
LEMMA ObserveFailsSeeds ==
  ASSUME ServerTypes, SeedingInv, NEW o \in Threads, ObserveFails(o)
  PROVE  SeedingInv'
<1> DEFINE i == Current(o)
<1>1. /\ Seeding(o) /\ Onward(o) /\ failed' = failed \cup {i}
      /\ UNCHANGED <<opening, fixture, source, seeded>>
  BY DEF ObserveFails, store
<1>2. i \in Events /\ FixtureLength \in Nat /\ At(o, "open")
  BY <1>1, ServerAssumption DEF SeedingInv, SeedersAreOpen
<1>3. /\ \A p \in Threads : p # o => request'[p] = request[p]
      /\ IF i = FixtureLength THEN request'[o].phase = "compile"
         ELSE request'[o].phase = "observe" /\ request'[o].at = i + 1
  BY <1>1, OnwardGoes
<1>4. ~Doing(o, "claimed")'
  BY <1>3 DEF Doing
<1>5. SeedersAreOpen'
  BY <1>1, <1>2, <1>3 DEF SeedingInv, SeedersAreOpen, Seeding, Doing, At, Current, Events
<1>6. InSequence'
  BY <1>1 DEF SeedingInv, InSequence
<1>7. ClaimsHold'
  BY <1>1, <1>3, <1>4 DEF SeedingInv, ClaimsHold, Doing, Current
<1>8. source = "tempdir" => PendingFailed'
  <2> SUFFICES ASSUME source = "tempdir", NEW k \in Events, fixture[k] = "pending", k # i
               PROVE  k \in failed \/ \E p \in Threads : Doing(p, "claimed")' /\ Current(p)' = k
    BY <1>1 DEF PendingFailed, Events
  <2>1. ASSUME NEW p \in Threads, Doing(p, "claimed"), Current(p) = k
        PROVE  Doing(p, "claimed")' /\ Current(p)' = k
    <3>1. p # o
      BY <2>1
    <3> QED
      BY <1>3, <2>1, <3>1 DEF Doing, Current
  <2> QED
    BY <2>1 DEF SeedingInv, PendingFailed
<1>9. Whole' = Whole
  BY <1>1 DEF Whole
<1>10. Excused => Excused'
  BY <1>1 DEF Excused, Events
<1>11. ASSUME Thorough(o)
       PROVE  Whole \/ Excused' \/ \E p \in Threads : Thorough(p)'
  <2>1. \A j \in Events : j < i => fixture[j] = "completed"
    BY <1>11 DEF Thorough
  <2>2. CASE fixture[i] # "completed"
    <3>1. \A k \in Events : fixture[k] # "completed" => i <= k
      BY <1>2, <2>1 DEF Events
    <3> QED
      BY <1>1, <2>2, <3>1 DEF Excused, Events
  <2>3. CASE fixture[i] = "completed" /\ i = FixtureLength
    BY <1>2, <2>1, <2>3 DEF Whole, Events
  <2>4. CASE fixture[i] = "completed" /\ i # FixtureLength
    <3>1. request'[o].phase = "observe" /\ request'[o].at = i + 1
      BY <1>3, <2>4
    <3>2. Thorough(o)'
      BY <1>1, <1>2, <2>1, <2>4, <3>1 DEF Thorough, Seeding, Current, Events
    <3> QED
      BY <3>2
  <2> QED
    BY <2>2, <2>3, <2>4
<1>12. \A p \in Threads : p # o /\ Thorough(p) => Thorough(p)'
  BY <1>1, <1>3 DEF Thorough, Seeding, Current
<1>13. Started
  BY <1>1 DEF Started
<1> QED
  BY <1>1, <1>5, <1>6, <1>7, <1>8, <1>9, <1>10, <1>11, <1>12, <1>13 DEF SeedingInv

(* The thread of a /compile that is answered is free again.                *)
LEMMA AnswerSeeds ==
  ASSUME ServerTypes, SeedingInv, NEW o \in Threads, AnswerCompile(o)
  PROVE  SeedingInv'
<1>1. /\ request' = [request EXCEPT ![o] = NoRequest] /\ request[o].phase = "compile"
      /\ opening' = [opening EXCEPT ![o] = Closed] /\ UNCHANGED <<source, fixture, failed>>
  BY DEF AnswerCompile, End, Doing
<1>2. /\ request'[o].phase = "none"
      /\ \A p \in Threads : p # o => request'[p] = request[p]
  BY <1>1 DEF ServerTypes, NoRequest
<1>3. SeedersAreOpen'
  BY <1>1, <1>2 DEF SeedingInv, SeedersAreOpen, Seeding, Doing, At, Current, Events
<1>4. InSequence'
  BY <1>1 DEF SeedingInv, InSequence
<1>5. ClaimsHold'
  BY <1>1, <1>2 DEF SeedingInv, ClaimsHold, Doing, Current
<1>6. Whole' = Whole /\ Excused' = Excused /\ (PendingFailed => PendingFailed')
  BY <1>1, <1>2 DEF Whole, Excused, PendingFailed, Doing, Current
<1>7. \A p \in Threads : Thorough(p) => Thorough(p)'
  BY <1>1, <1>2 DEF Thorough, Seeding, Current
<1>8. Started
  BY <1>1 DEF Started, Doing
<1> QED
  BY <1>1, <1>3, <1>4, <1>5, <1>6, <1>7, <1>8 DEF SeedingInv

(* A thread that does not seed turns to a request or from one.             *)
Turns(o) ==
  /\ ~Busy(o) /\ request'[o].phase \in {"none", "opening"}
  /\ \A p \in Threads : p # o => request'[p] = request[p] /\ opening'[p] = opening[p]
  /\ UNCHANGED <<source, fixture, seeded, failed>>

LEMMA SeedingStep == ServerInv /\ [Next]_everything => SeedingInv'
<1> SUFFICES ASSUME ServerInv, [Next]_everything PROVE SeedingInv'
  OBVIOUS
<1> USE DEF ServerInv
<1>1. \A p \in Threads : Busy(p) => At(p, "open")
  BY DEF SeedingInv, SeedersAreOpen, Busy
<1>2. ASSUME NEW o \in Threads, Turns(o) PROVE SeedingInv'
  <2>1. ~Busy(o)'
    BY <1>2 DEF Turns, Busy, Seeding, Doing
  <2>2. ASSUME NEW p \in Threads, p # o, Busy(p)' PROVE Busy(p)
    BY <1>2, <2>2 DEF Turns, Busy, Seeding, Doing
  <2>3. Beside
    BY <1>1, <1>2, <2>1, <2>2 DEF Turns, Beside, At
  <2> QED
    BY <2>3, BesideSeeding
<1>3. ASSUME NEW o \in Threads, ~Busy(o), End(o),
             UNCHANGED <<source, fixture, seeded, failed>>
      PROVE  Turns(o)
  <2>1. request'[o] = NoRequest
    BY <1>3 DEF End, ServerTypes
  <2> QED
    BY <1>3, <2>1 DEF Turns, End, ServerTypes, StoreInv, StoreTypes, NoRequest
<1>4. ASSUME NEW o \in Threads, opening[o].step \in Errors PROVE ~Busy(o)
  BY <1>1, <1>4 DEF At, Errors, MigrationError, SqliteError
<1>5. ASSUME NEW o \in Threads, Doing(o, "opening") \/ Free(o) PROVE ~Busy(o)
  BY <1>5 DEF Busy, Seeding, Doing, Free, NoRequest
<1>6. ASSUME NEW o \in Threads, ThreadStep(o) PROVE SeedingInv'
  <2>1. CASE Initialise(o)
    <3>1. OpeningStep(o) /\ UNCHANGED <<request, source, fixture, seeded, failed>>
      BY <2>1 DEF Initialise, server
    <3>2. \A p \in Threads : Busy(p)' => Busy(p)
      BY <3>1 DEF Busy, Seeding, Doing
    <3>3. Beside
      BY <1>1, <3>1, <3>2, OpenStaysOpen DEF Beside
    <3> QED
      BY <3>3, BesideSeeding
  <2>2. CASE FailToOpen(o)
    <3>1. Turns(o)
      BY <1>3, <1>4, <2>2 DEF FailToOpen
    <3> QED
      BY <1>2, <3>1
  <2>3. CASE AnswerObserve(o)
    <3>1. Turns(o)
      BY <1>3, <1>5, <2>3 DEF AnswerObserve
    <3> QED
      BY <1>2, <3>1
  <2>4. CASE CheckSeeded(o)
    BY <2>4, CheckSeededSeeds
  <2>5. CASE Claim(o)
    BY <2>5, ClaimSeeds
  <2>6. CASE PassOver(o)
    BY <2>6, PassOverSeeds
  <2>7. CASE CompleteClaimed(o)
    BY <2>7, CompleteSeeds
  <2>8. CASE AnswerCompile(o)
    BY <2>8, AnswerSeeds
  <2> QED
    BY <1>6, <2>1, <2>2, <2>3, <2>4, <2>5, <2>6, <2>7, <2>8 DEF ThreadStep
<1>7. ASSUME NEW o \in Threads, NEW path, Receive(o, path) PROVE SeedingInv'
  <2>1. /\ ~Busy(o) /\ UNCHANGED <<source, fixture, seeded, failed>>
        /\ request' = [request EXCEPT ![o] = [path |-> path, phase |-> "opening", at |-> 0]]
        /\ opening' = [opening EXCEPT ![o] = [step |-> "connect", version |-> 1]]
    BY <1>5, <1>7 DEF Receive, Open
  <2>2. Turns(o)
    BY <2>1 DEF Turns, ServerTypes, StoreInv, StoreTypes
  <2> QED
    BY <1>2, <2>2
<1>8. ASSUME NEW o \in Threads, CheckFails(o) \/ ObserveFails(o) PROVE SeedingInv'
  <2>1. CASE CheckFails(o)
    <3>1. Turns(o)
      BY <1>3, <1>5, <2>1 DEF CheckFails
    <3> QED
      BY <1>2, <3>1
  <2>2. CASE ObserveFails(o)
    BY <2>2, ObserveFailsSeeds
  <2> QED
    BY <1>8, <2>1, <2>2
<1>9. CASE Restart
  <2>1. request' = [o \in Threads |-> NoRequest] /\ UNCHANGED <<source, fixture>> /\ source # "tempdir"
    BY <1>9 DEF Restart
  <2>2. \A p \in Threads : request'[p].phase = "none"
    BY <2>1 DEF NoRequest
  <2> QED
    BY <2>1, <2>2 DEF SeedingInv, SeedersAreOpen, InSequence, ClaimsHold, Seeding, Doing
<1>10. CASE UNCHANGED everything
  <2>1. Beside
    BY <1>1, <1>10 DEF everything, server, store, Beside, Busy, Seeding, Doing, At
  <2> QED
    BY <2>1, BesideSeeding
<1> QED
  BY <1>6, <1>7, <1>8, <1>9, <1>10 DEF Next, Requested

LEMMA ServerInvariant == Spec => []ServerInv
<1>1. Init => ServerInv
  BY StoreStarts, SeedingStarts DEF ServerInv
<1>2. ServerInv /\ [Next]_everything => ServerInv'
  BY StoreStep, ServerTypesStep, SeedingStep DEF ServerInv
<1> QED
  BY <1>1, <1>2, PTL DEF Spec

(* However many /compile requests seed the demo project at once, each      *)
(* passing over what another has under way or could not observe, an event  *)
(* of the fixture is left out only from one on whose own observation       *)
(* failed (_ensure_demo_fixture_seeded).                                   *)
THEOREM SeedingTheorem == Spec => []SeedingIsWhole
<1>1. ASSUME ServerInv PROVE SeedingIsWhole
  <2> SUFFICES ASSUME seeded, source = "tempdir", \A o \in Threads : ~Seeding(o),
                      NEW i \in Events, fixture[i] # "completed"
               PROVE  \E j \in failed : j <= i /\ fixture[j] # "completed"
    BY DEF SeedingIsWhole
  <2>1. ~Whole /\ \A o \in Threads : ~Thorough(o)
    BY DEF Whole, Thorough
  <2>2. Excused
    BY <1>1, <2>1 DEF ServerInv, SeedingInv, Started
  <2> QED
    BY <2>2 DEF Excused
<1> QED
  BY <1>1, ServerInvariant, PTL
=============================================================================
