# recallpack in TLA+

recallpack remembers decisions. `POST /observe` takes an event of a session,
asks a model what to remember of it and writes at most one memory;
`POST /compile` packs the active memories of a project into a token budget and
publishes the result as a directory. A second part of the repository executes
frozen evaluation cells, compares variants of memory with one another, and
keeps evidence of what was compared.

These modules model both. Paths without a directory are in
`src/src/recallpack/`; those with one are relative to `src/`.

    cd tla
    tlc -workers 2 -config event_store.cfg MCEventStore
    tlapm EventStoreProofs.tla

## 1. The system

### Serving: memories and packs

| component | state it keeps | operations | what is hard |
|---|---|---|---|
| **event store** `storage.py` | SQLite tables `session_events`, `session_cursors`, `observe_runs`, `memories`, `memory_relations`, `schema_migrations` | one `BEGIN IMMEDIATE` transaction per method: `claim_event`, `complete_event`, `complete_observe_operation`, `fail_retryable_event`; reads `active_memories`, `owns_event_attempt`, `has_newer_active_lifecycle_memory`; migration and audit at every start | leases that run out while their attempt still works; take-overs; order of a session and of a project across retries; an audit that judges a run history written over many calls; two first openers of one database |
| **observe runtime** `observe.py`, `write_candidates.py`, `memory.py` | each request thread's frame; `_CLAIM_COORDINATOR`, one per process | claim, register, wait, decide (one to three provider calls), pre-check, commit | candidates read before provider calls and used after them; failures anywhere |
| **project turnstile** `locking.py` | tickets per project, one condition variable | `register`, `wait`, `cancel`, release | lost wake-ups, interrupted waits, cancels of a ticket that is just let in |
| **compile** `compile.py`, `budget.py`, `tokenization.py`, `providers.py` (ranking), `artifacts.py` (validation) | one request's frame | read once, embed, retrieve, rerank, pack greedily, validate the bundle | the store moves on meanwhile; tokens do not add up; four sorts that must agree |
| **artifact publication** `artifacts.py` | a directory per publication in `compiles/` | `publish_compile_bundle_v4`: mkdir, write, fsync, rename, fsync | errors at any call, kills, power loss, two publishers of one id |
| **HTTP server** `demo_server.py` | `tempdir` of the process, else the configured database | a thread per request, a store per request, seeding of the demo project | requests that open and seed beside each other; what it passes as `now` |
| **providers** `providers.py`, `downstream.py` | none | HTTP calls, classification of errors, validation of replies | which failure is retryable, and to whom |

    client -> demo_server -> ObserveRuntime.observe -> claim_event        \
                                   |  coordinator      register            > event store (SQLite)
                                   |  turnstile        active_memories    /      ^
                                   v                   complete/fail     /       |
                               providers                                         |
    client -> demo_server -> compile ------------- active_memories --------------+
                                   |--> providers (embedding, rerank)
                                   '--> publish_compile_bundle_v4 -> compiles/<compile_id>/

Shared state is the database (between processes), the coordinator and the
turnstile (between threads of a process) and the artifact directory. There are
no messages and no callbacks; provider calls are the long steps in between.

What makes these components correct:

* the store: every state it can be left in passes the next start; a session is
  a gapless queue; a result, once written, stays; memory, supersession and result
  are written together; the newest memory of a lifecycle key is the active one;
  its schema and its history of migrations say the same.
* the runtime: a decision is committed against the memories it was made from;
  what a response says is so; every claim is answered; an abandoned attempt
  does not block its session for good.
* the turnstile: one ticket of a project inside; no sleeper forgotten.
* the compile: a pack is of one moment; nothing is left out without a reason;
  a bundle passes its own validation.
* the publication: what is found under an id is whole; an answered one stays.
* the server: two requests that seed at once leave no event of the fixture out;
  one is missing only from an event on whose own observation failed.

### Evaluation and evidence

| component | state | operations | what is hard |
|---|---|---|---|
| **frozen cells** `v4_live_execution.py` | `FrozenPreIsolationJournal`: results in order; within a call, four lists of traces and a scratch store | derive the plan, execute one cell (select, generate a patch), fix its outcome, hand it to the runner journal | failures in any call, of which some count against the variant and some are repeated; attempts of a slot counted here and limited elsewhere |
| **reveal custody** `evidence_custody.py` | `RevealAuthority`: attempts, outputs, reveals, closed scenarios, extraction roots | `begin_attempt`, reveal, `fix_model_output`, `close_scenario_outputs`, bind and destroy roots, `authorize_provider_action` | nothing hidden before an output is fixed, no label before all are; no root alive when a provider is called |
| **evidence pipeline** `evidence_pipeline.py`, `evaluation_evidence_adapter.py` | `ProductionRunnerOutputJournal`: entries, finalized | `append`, `finalize`, `run_v4_floor_evidence_pipeline` | which attempt may replace which |
| **isolation** `isolation.py`, `evaluation_docker.py` | a container | run, time out, remove | the removal fails, or races the end of the run |
| **manifest registry** `evidence_review_protocol.py` | registrations, in SQLite | compare-and-set by review seed | races, crashes, legacy rows that burn a seed |
| **evaluation** `evaluation_variants.py`, `evaluation_v4.py` | none | run five variants deterministically; designate the runs that count; aggregate; preview | two implementations of one lifecycle; a verdict that could be bettered by running on |
| **downstream patches** `downstream.py`, `downstream_contract.py` | a copied repository | validate the request, the answer and the patch | what is judged before and what after the provider is asked |
| **evidence records** `evidence_run.py`, `evidence_aggregate.py`, `evidence_manifest*.py`, ... | none | write a document, judge a document | a writer and a validator of the same document that disagree |
| **secure files**, **live runs**, **review and submission tooling**, **demo**, **web** | none | reads, scripts, pure functions over documents, static pages | see section 5 |

    manifest 4.1 -> registry -> RevealAuthority -> frozen cells -> (sealed result) --.
                                                                                     v
    manifest 4.0 -> variants in containers -> results -> adapter ----------> runner journal
                                                                                     |
                                              runs, aggregate, evidence manifest <---'

One thread drives each authority and each journal, in an order its callers
choose over many calls; the registry is shared by processes; a container
outlives the client that started it.

What makes these components correct:

* one manifest per review seed, whoever registers and whoever crashes;
* a provider at work has seen nothing hidden, and no hidden test is on disk;
  the labels of a scenario are shown after every output of it is fixed, and
  none is fixed afterwards;
* the journals agree on what was attempted; the last attempt of a slot counts;
  final evidence has every run, and calls adverse what did not succeed;
* of a container that may still run nobody is handed a test result or a timeout,
  only that docker failed, and every round ends;
* an attempt's record accounts for every call of a provider; its outcome is its
  variant's own doing, and an outage is repeated instead; no retry hides in it;
* the variants that are compared differ in what they are named for; the runs of
  a cell, once designated, stay those that count, and what a report of them says
  is right, whatever is tried later.

## 2. The modules

    Turnstile <--(instance)-- ObserveRuntime --(extends)--> EventStore --(implements)--> LifecycleLedger
        ^                                                     ^   ^
        '--(implements)-- TurnstileMonitor                    |   '-- StartupAudit, LegacyUpgrade
                                                              '-- CompileService     ArtifactPublication
    StoreMigrations <--(extends)-- DemoServer

    ExecutionPlan <-- RevealCustody <-- FrozenExecution <--.   (RevealCustody implements OutputBarrier)
         ^                                                 FrozenHandOff <-- EvidenceChain --> ManifestRegistry
         '--------- RunnerJournal <------------------------'                     |(instance)
                          ^                                                      v
                          '------ FloorEvidence <------------------------- FloorEvaluation

    FrozenPlan, Providers, MemoryDecision, PatchPreparation <-- FrozenCell <-- Evaluation
                           MemoryDecision, PatchPreparation <-- DiagnosticVariants <--'(instance)
                                                                     ClaimPreview <---'(instance)

| module | models | corresponds to |
|---|---|---|
| `LifecycleLedger` | what the store promises: events get places in their project's order, memories are written in that order, the newest of a key stands | the abstract specification |
| `EventStore` | `SqliteEventStore`; every public method that writes is one action, because it is one transaction | `event` = `session_events`, `cursor`, `run`, `memory`, `relations` = the other tables; `ClaimNew`, `ClaimRefused`, `TakeOver` = the outcomes of `claim_event`; `CompleteEvent`; `CompleteStale`, `CompleteRejected`, `CompleteWrite` = those of `complete_observe_operation`; `FailRetryable` |
| `Turnstile` | the promise of `locking.py`: one ticket of a project inside at a time, of those registered the lowest (place, attempt) first | `phase`, `turn` of each ticket |
| `TurnstileMonitor` | the code of `locking.py` with its lists, condition variable, cancel, interrupt and release | each critical section is an action; a waiter sleeps, is notified and re-checks |
| `ObserveRuntime` | `observe()` by request threads of one process, on top of `EventStore` and `Turnstile` | a thread's `pc` stands at each access to shared state; `Crash` kills a process |
| `StartupAudit` | `_audit_integrity` while other requests write: one read of the events, then one read of each event's runs | `AuditSpec` |
| `LegacyUpgrade` | the store opened on a database of schema version 3 | `UpgradedInit` is what the migrations leave |
| `StoreMigrations` | `_init_db` of a new, old, later or corrupt database by several openers: each `SELECT`, each migration's transaction | `db` = history, schema, duplicates; `opening` = an opener's place in the code |
| `DemoServer` | request threads of `demo_server.py` that open, seed and answer, with errors of the database at any of it | `request`, `fixture` = the fixture's `processing_state`; `failed` = the events an observation failed at (`ObserveFails`) |
| `CompileService` | `/compile` beside writers: `Load`, `Retrieve`, `Rerank`, `Pack`, `Bundle`, and a failure of each | a `frame` per request |
| `ArtifactPublication` | `publish_compile_bundle_v4`, system call by system call, with a file system that loses unsynced names and data | `place`/`places`, `file`/`files` = what programs see / what may be found after power loss |
| `ExecutionPlan` | the grid a manifest fixes: slots in order, each of a scenario, variant and repetition | constants only |
| `OutputBarrier` | what custody promises a scorer: one output per attempt, and no output after a label | the abstract specification |
| `RevealCustody` | `RevealAuthority`, an action per method | `attempts`, `closed`, `owners`, `retired` = its dictionaries; `onDisk` = the roots that exist |
| `FrozenExecution` | the pre-isolation journal over custody: a cell is one call | `prepared` = the journal, `cells` = the authorized cells callers hold |
| `FrozenHandOff` | sealing and appending a fixed cell | `AppendAuthorized` |
| `RunnerJournal` | adapter and `ProductionRunnerOutputJournal` | `entries`, `finalized` |
| `FloorEvidence` | runs, aggregate and manifest built from a finalized journal and judged by their validators | one operator per document and per judgement |
| `FloorEvaluation` | a round of containers, with timeouts, failing removals and failures of docker itself, and what becomes of its results | `round`, `results`, `alive`; `SuiteCompletes`, `SandboxUnavailable`, `MalformedResult`, `TimeOut` = how `docker run` comes back |
| `ManifestRegistry` | registration by racing, crashing processes | `registered` = the table, `writer` = who holds the transaction, `registering`, `receipts`, `authorities` = what each process is at, was told and holds |
| `EvidenceChain` | the two routes composed | `route` |
| `FrozenPlan` | derivation of a plan from a manifest and bytes; what a record may contain | functions |
| `Providers` | what one call of a provider may come to | replies: an answer, an error with its code and flag, or an exception |
| `MemoryDecision` | the normalisation of a model's operation in `observe.py` | functions |
| `PatchPreparation` | the contract of a request for a patch and of its answer | functions |
| `FrozenCell` | `execute_frozen_live_cell`: every call of a provider is a step | `step`, `calls`, `kept` = the four lists of traces, `memories` = the scratch store |
| `DiagnosticVariants` | `execute_v4_diagnostic_variants`: a step per variant, and in the two that follow the life of a policy a step per event | `hearing` = the event of the loop, `resolved` = the events in the ephemeral resolver's list, `stored` = the scratch store |
| `ClaimPreview` | which retained attempts count, and what report of which of them is accepted; two functions that do not call each other | `retained`, `aggregate`; `Designated` = `designate_v4_claim_runs`, `Report` = `recompute_v4_aggregate_metrics` on any runs |
| `Evaluation` | the three ways of comparing variants, beside each other | `route` |

Modules `...Proofs` hold the theorems, modules `MC...` the instances.

Conventions. Rows are functions indexed by the row's unique key, and an absent
row has a value of its own, so an `INSERT` is an update. Payloads, texts, ids
and hashes are model values, and the digest of a document is the document;
equality is all the code asks of them. A lease token is the number of the
attempt it was minted for, which is what a fresh uuid amounts to. Bounds on
counters (`MaxSequence`, `MaxProjectSeq`, `MaxAttempts`, `ClockLimit`,
`MaxErrors`, `MaxStops`, `MaxBegun`, `MaxDry`, `MaxAttempt`, `MaxRounds`,
`MaxRetained`) are constants and guards, and
named as bounds where they are declared. Operators named `Mut...` are not part
of the models: each is one plausible slip in the definition that follows it,
there to show that a property notices it.

Choices a reader might question:

* *Provider answers* in `ObserveRuntime` are any answer the normalisation of
  `observe.py` lets through, or a failure. An empty reason is among them.
  `FrozenCell` takes the same code apart: any reply of `Providers`, any
  operation of `Operations`, normalised by `MemoryDecision`.
* *Time.* Expiry compares the `now` of a call with the `now` of an earlier
  one. `EventStore` lets every caller pass any of `Times`, so that clocks may
  disagree and go back; `ObserveRuntime` has a clock, or, with `HttpClock`,
  what `demo_server.py` passes instead of one.
* *Crash* of a process loses its threads, coordinator, turnstile and custody.
  The database is as its last commit left it: SQLite's own atomicity is trusted.
* *fsync* of a file makes its data survive if its name does; fsync of a
  directory makes the names in it survive. Nothing else is promised, as in POSIX.
* *A cell* is one step of `FrozenExecution`: its call does not return in
  between and custody is used by one thread. `FrozenCell` is what happens in
  that step; its outcomes are those `FrozenExecution` chooses from.
* *Containers* are removed by name; one that outlives its client may end by
  itself at any time, and then the removal may fail for want of it. One thing
  is assumed of docker: a `docker run` that exits with the code its container's
  test result names has seen the container end. One that exits with a code of
  its own, or is killed, may have left it running.
* *Reports* of claims are drawn up by a caller outside `src/src/`. A report may be
  of any attempts there are; the bound `ReportChoices` gives it as many of every
  cell as count, or none at all.
* `CandidateLimit` is 8 in the code; within the bounds no project has more
  active memories, so `NoActiveTwins` says so in its comment. `TopN` is 20 in
  the code and 2 in the instances, so that something is left out.
* `fail_terminal_event` has no caller in the repository and is not an action.

## 3. What is checked

| run | instance | shows |
|---|---|---|
| `event_store` | 1 project, 2 sessions of 2 events, 2 attempts, 3 memory ids, any clock in 0..1 | tables stay restartable; sessions are queues; memory and result are one; the newest is active; results stay; `ImplementsLedger` |
| `turnstile` | 3 tickets, 2 projects, 2 places, 2 attempts | no sleeper is forgotten, every turn comes, `ImplementsTurnstile` |
| `observe_runtime` | 2 threads, 1 process, 2 sessions of 1 event, 2 attempts, leases of 1 second | decisions are fresh, no two active memories say the same, responses hold, first attempts enter in order, a 202 means an unexpired lease |
| `observe_liveness` | 2 threads, one session of 2 events | every claim is answered, every abandoned attempt ends |
| `compile` | 3 sessions, 3 memories, 2 components, budgets 1 and 4, top 2 | a pack is of one moment, omissions are justified, a bundle is refused for unsafe text only |
| `publication` | 2 publishers, 2 ids, 2 files | what is found is whole, one publication per id, an answered one stays, with errors, kills and power loss at any step |
| `store_open` | 2 request threads, a new, old, later or corrupt database, a fixture of 3 events, 2 errors, 1 stop | history and schema agree, seeding leaves out nothing but what failed and what is behind it, the database gets migrated |
| `evidence_chain` | 3 headline cells of 2 scenarios (one blind), 2 attempts, 1 root; 2 Floor variants, 2 rounds, 2 attempts; 2 processes, 3 manifests, a burnt seed | one manifest per seed; providers work blind; roots serve one attempt; the journals agree; evidence is whole; `KeepsBarrier`; test results and timeouts are of containers that are over; rounds end |
| `evaluation` | a scenario of 3 events in 5 variants, fit and unfit in one way at a time, every reply of every call; every packet of 3 events by 2 actors in 5 texts, two of them equivalent and not alike to a patch; 2 variants with up to 5 attempts, reports of any 2 runs of each | calls are traced, attempts are judged, nothing follows a failure, the context is current, the two lifecycles agree, what is designated stands and a report of it is right |

**Why these bounds are enough to be interesting.** Two attempts per event
are what a late owner, a take-over and a completion need; two sessions give a
project order that differs from the order of claims; three memories make a
chain of supersessions; a third ticket is what a `notify()` in place of
`notify_all()` leaves asleep, and one of another project is what it may wake
instead. Top 2 of 3 candidates and a budget one pack fits and another does not
make both omissions happen. Two publishers with a common id race between check
and rename, and two files make a half-written directory. Two openers are enough
for a migration that is found missing by both. Custody needs a cell beside
another of its scenario (a label while the other has no output), a retry (a slot
with an invalidated and a counted attempt) and a root two attempts may
want; the pipeline needs two slots and a replaced attempt in one of them. A
cell of three events has a first, a superseded and a superseding memory, a
repair in the middle, and a budget the second event fills. Five attempts at
cells of which two runs count (three in the code) leave room for an abort
before and a better run after them. Second projects, lessons, more keys, more
cells and more roots are covered by the proofs, which hold for every value of
the constants.

Each property has a mutant: a slip in the modelled code that makes TLC
refute it under the same instance.

**Deadlock** is checked in `store_open`, whose threads take requests for ever.
Elsewhere it is not: counters are bounded, so those instances end, and a
service without requests rests. What must not stop is stated as liveness.

**Symmetry** permutes memory ids and names in runs of safety properties only.

**Fairness.** `TurnstileMonitor`: a thread that can run does (its call, its
re-check, its leaving); nobody is assumed to be cancelled, interrupted or to
register. `ObserveRuntime`: threads run and provider calls return, because
each has a timeout (`WF` of `Serve(t)`); the clock advances; and a client
repeats a request that can be claimed, as the 202 and 503 answers ask it to.
`DemoServer`: threads run, and requests keep coming (`WF` of `ThreadStep` and
`Requested`); SQLite gives the write lock or raises after its timeout.
`EvidenceChain`: a round goes on, because `docker run` and `docker rm` have
timeouts (`RoundStep`); that docker fails by itself (`DockerFails`) is promised by
nobody. Errors, crashes and the ways a provider may fail are never assumed
away. That a lock and a turn are obtained follows from their holders' fairness,
not from an assumption.

### Disagreements found

Each is a run that is expected to end in a violation; the trace is the
scenario.

| run | the code | what says otherwise |
|---|---|---|
| `observe_http_clock` | the HTTP handler passes `100 + sequence_no` as `now`, so a repeated event never sees its lease expire and is answered 202 forever | `specs/001-recallpack-v4/contracts/observe.openapi.yaml`: 202 means owned by an *unexpired* attempt |
| `startup_race` | the audit reads events and runs in separate transactions; a completion in between makes it raise | `IntegrityAuditError`: "persisted V4 state violates a startup invariant" |
| `upgrade_retry` | a legacy failed event, retried and completed after the migration, has no run for its old attempt; the next start refuses the database | the tests that legacy rows survive the migrations |

### What the models show of the code without a property

Nothing in the repository promises otherwise, or what promises it is not
precise enough to be refuted; the behaviour is in the models.

*Store and server*

* A legacy pending event can never be resumed: its attempt has no run to end,
  so every take-over is refused. A session id the artifact scan dislikes makes
  later compiles of that memory fail. Temporary directories of killed
  publications are never removed.
* A directory fsync that fails after the rename is answered 503 although the
  bundle stays published (cf. `compile.openapi.yaml:40`).
* A result the store finds malformed (an empty reason, which normalisation
  accepts) is answered `lease_lost`, and its attempt still owns the event.
* A first opener is refused with a database error when another applied the
  migration between its `SELECT` and its `BEGIN`; the next request succeeds.
* Seeding looks at no answer. A database error in `observe` is a returned 503
  (`observe.py:113-117`, `152-157`), so the loop goes on to the next event, which
  is refused, and `/compile` is answered from a half-seeded project. The next
  `/compile` seeds again; but an error after the claim leaves the event pending,
  and what is behind it out, for the life of the process: its lease never
  expires. `SeedingIsWhole` says that this is the only way to lose an event.
* `/compile` has no answer when the store cannot be opened; `/observe` answers
  503 to SQLite's errors only.

*Frozen cells and custody*

* An attempt that is begun and given up keeps its scenario open for ever, and
  custody is in memory only.
* The identity's `hidden_test_tree_sha256` is the hash of a JSON bundle and the
  evaluator's is of a directory tree: an accepted patch of a frozen cell is
  refused at the hand-off (`FrozenHandOff`). So is a failed selection.
* `attempt_no` of a cell starts at its repetition and custody begins 1 to 3:
  a technical failure of repetition 3 cannot be repeated.
* A container failure after the hand-off finds the pre-isolation journal already
  past the cell.
* A call raises, and its attempt is never fixed, for: a rejected patch with
  output paths; a connection cut off during selection; token usage that cannot
  be read in a patch reply; a vector the ranking cannot compare; a memory whose
  text a request for a patch may not have; no tokenizer; an identifier that is
  not public; a fixture of its task alone.
* One failure is judged differently by where it happens: in recallpack's
  compile every failure counts against the variant, in the other variants'
  ranking an outage is repeated; a 4xx in patch generation is repeated, in
  selection it counts; a cut-off connection counts in patch generation and
  raises in selection. A failed rerank of that compile leaves no trace.
* The events of a fixture are numbered across sessions, and the store wants
  numbers per session: a fixture of two sessions cannot be observed.

*Evidence*

* The adapter's `run_id` has no attempt number: an invalidated attempt and its
  accepted replacement collide, and the pipeline refuses the population.
* `run_ids` are in journal order and validated in slot order; files of a patch
  are in the order they were generated and validated in path order. In
  either case a legal journal is refused.
* `docker rm` of a container that ended by itself may fail, and the whole round
  is lost; so it is if an allowed path is missing from the snapshot.
* `docker run` with an exit code of 125 or more is reported as
  `sandbox_unavailable` without a removal (`isolation.py:339-353`): the container
  may be running when the round returns. After a timeout it may not.
* `recompute_v4_aggregate_metrics` accepts any three headline runs of every
  variant (`evaluation_v4.py:247-295`), and nothing ties them to those
  `designate_v4_claim_runs` picks: with more runs than count, two reports of one
  set of attempts may be accepted with different verdicts, and a win need not be
  over the first runs. `VerdictsStand` speaks of reports of the designated runs.
* `evaluation_v4.py` designates no cell with a technical failure outside its
  container, nor one with a technical failure after its third headline run.
* The ephemeral resolver believes what tools and assistants say and keeps equal
  preferences twice; `observe` does neither. `ResolversAgree` shows that who is
  believed makes the only difference for a policy.
* Of two texts `observe` holds to be equivalent, because it drops punctuation,
  the patch may find its phrase in one and not in the other
  (`_normalize_text_for_match`, `_infer_ci_retry_policy`): a repetition by the user
  is a no-op, and what the patch reads is the older wording.

## 4. What is proved

Every safety property the passing runs check is a theorem as well, but for
`PendingIsLeased`, which is true of callers with a clock only; the theorem about
leases, `LeasesAreKept`, is of both kinds. So are the three refinements. The
theorems hold for every value of the constants that satisfies the ASSUMEs of the
modules, for any numbers of sessions, threads, processes, cells and roots. The assumptions are of three kinds.

* *Sorts*: counters and limits are natural numbers, times are integers, the
  values that stand for nothing are no values, functions have their domains, a
  plan is a plan (`IsPlan`), `TopN` is at least 1.
* *What the code makes sure of before*: `GridAssumption` (there are
  comparators, and they and recallpack are among the variants of a claim's grid),
  `NamesAssumption` (variants and failure codes are public identifiers,
  `_safe_public_identifier` in `v4_live_execution.py`). Of `PacketAssumption`: the
  component of a packet is one the scratch runtime knows, because
  `_run_recallpack_runtime` adds it; no subject of `_ScenarioLifecycleDecider` is one
  of those `_subject_component_mismatch` binds to a component; a text is equivalent
  to itself.
* *What is true of the repository's own data*: `CodesAssumption` says that a
  manifest that can be executed names every technical failure, as
  `review_seed_draft.py` writes it; the executing code would take fewer.
  `RoomAssumption` says that a pack that has no room for an event has none after
  another event was added, which is true of counts of tokens of rendered packs
  and is not proved from `budget.py`. The rest of `PacketAssumption`: a packet has at
  most one event more than a decision is shown candidates (8 in `observe.py`;
  the `authored-events.jsonl` of every scenario has four events).

### Serving

**Event store.** `EventStoreProofs` has the types, the case split of `Next`
and `Inductive`:

    TypeOK /\ RowsWhole /\ AlwaysRestartable /\ SessionsInOrder /\ RememberedOnce /\ NewestIsActive

`AlwaysRestartable` is not inductive as it stands. A step of one attempt
touches its event, its run and its cursor, and to know that the audit accepts
the result one must know what the other columns held: `RowsWhole` says that a
row is either absent, with no run at all, or has a sequence, a place, a run
for each attempt so far and a state that agrees with them. From it, `FencedRow`
tells what a step guarded by a lease token may rely on. Supersession needs more:
that successors are newer, that a memory has one successor, and that the
newest of a key has none. That the code never supersedes an inactive or
newer memory (`SupersessionErrors`, checked in the same transaction) and
gives up when a newer one is active (`NewerActive`) preserves them.
The theorems on restarts, sessions, memories, results, runs and
write order follow from `Inductive` or from one step that starts in it.

*Refinement*: `Spec => ImplementsLedger`. Claims map to admissions, completions
to outcomes, retries and leases to stuttering; `PlaceAndOutcome` says what a row
is in the ledger.

**Runtime.** `RuntimeProofs`: the threads are clients of the store
(`RuntimeSpec => Spec`), so that all of the above holds of them. Beyond it,
`RuntimeInv` says what a thread at each `pc` may rely on: its event is there
(`FramesHold`), its ticket is where the thread is (`TurnsAgree`), no two threads
of a project have their turn (`OneTurn`), a claim that is not yet registered has
the coordinator and the last place of its process (`ClaimsInOrder`), what was
decided can still be done (`PlansHold`). `ResponsesHold` and
`FirstAttemptsInOrder` follow for any number of processes.
`DecisionsAreFresh` is for one process (`OneProcess`), because the turnstile is;
the argument is `OneTurn` with the observation that a commit is a step inside a
turn. `NoActiveTwins` wants `PlansAreNew` and, besides, that no more memories of
a project are active than a decision is shown (`FewActive`, 8 in the
code); with more, the code may repeat one it did not see. `LeasedTheorem` takes
no side on what callers pass as `now`: a 202 is answered of a pending attempt,
whose lease runs where the time is passed, and a pending attempt is replaced no
earlier than `LeaseSeconds` after its claim, and never where the HTTP handler's
number is passed. Its invariant is that a pending event's lease runs from its
last claim (`LeasesRun`). That a 202 then lasts forever is what the run
`observe_http_clock` shows.

**Turnstile.** `TurnstileProofs`: the promise itself, the agreement of the
monitor's books, no lost wake-up, and that the monitor implements the
turnstile. The wake-up theorem needs that after every change that could let a
sleeper in, nobody sleeps: the code notifies all, never one.

**Compile.** `CompileProofs`: `ServiceInductive` joins the store's invariant to
what is true of every request's frame. `Moment` is the part about time: the rows
a compile read are still the stored ones, and no edge that was added since lies
within what it read, because an edge leads to a newer memory and whatever was
read had no successor. `Retrieved`, `Reranked` and `Packed` say what each sort
and the greedy choice left; `Refused`, that a bundle the validation refused is
not clean. `GreedySelects` is the fact about `BudgetSelector.select` the
omissions rest on, for any numbers of candidates: a fold over a sequence, by
the least number at which it would go wrong (`Climb`), which spares an induction.

**Publication.** `PublicationProofs`: an invariant per call says where its
directory is and may be found (`PlaceKnown`), what is in it (`FileKnown`) and
what was answered (`AnswerKnown`). A step changes only its own call
(`OthersAlone`), except that fsync of `compiles/` settles all names. The point of it:
before the name `compiles/<id>` can be found at all, every file is
whole and settled. `KeptTheorem` keeps the code's one gap
visible: the name of a *new* `compiles/` is never synced in its parent.

**Server.** `ServerProofs`. *Migrations*: an opener holds no lock between the
`SELECT` that misses a version and the transaction that applies it. The
invariant (`HistoryInv`, `ThreadsKnow`) is that the history is a prefix of the
versions and that a thread that is at a version knows those below to be in it:
histories only grow, and a version that was applied meanwhile is refused by its
primary key. *Seeding*: `SeedingInv` follows the fixture's events, which are
remembered in their order, one at a time. The step that is easy to get wrong is
a seeder that passes over an event another has claimed: what it leaves
behind is taken care of by a seeder that has left nothing undone before it
(`Thorough`), or is behind an event whose own observation failed (`Excused`). A
seeder that begins alone takes up what was left out, so it forgives all failures
but those that left an event pending; that a pending event is always somebody's,
or failed (`PendingFailed`), is what lets it.

### Evaluation and evidence

**Custody.** `ChainProofs`, for any plan and any number of roots. No guard of
a reveal looks at the other attempts of a scenario, so neither "a label comes
after every output" nor `ProvidersWorkBlind` is inductive. `CustodyInv` adds
what carries them: hidden tests are seen after one's own output
(`TestsAfterOutput`), labels in a closed scenario only (`LabelsAfterClosing`),
and a closed scenario stays closable (`ClosedIsClosable`), because nobody
begins an attempt of it again and outputs are fixed for good; and
`RootsServeOneAttempt`, whose parts speak of owned, retired and present roots
and hold one another up. `BarrierTheorem` then is step by step: fixing an
output and showing a label are steps of `OutputBarrier`, everything else
changes nothing it sees. That no live root is there when a provider acts is a
guard of the code; that a live root is the only kind there is on disk is what
`BlindTheorem` takes from the invariant.

**Registry.** Also `ChainProofs`. `CommitRegistration` writes on the strength of
what was read before it; the invariant says that the writer's read is still
what the row says (`WriterKnows`), because only the holder of the transaction
writes. From it, rows are of their own seed (`RowsAreTheirs`) and are never
overwritten (`KeptTheorem`), and what processes were told or hold stays
registered (`HeldIsRegistered`), crashes or not.

**Journals.** The pre-isolation journal decides each position from its last
entry alone. That no attempt is prepared twice is not in any guard: it follows
from an order of the attempts every next position goes up in (`GoesUp`,
`StepByStep`). With `CellsAreFixed`, `EntriesHaveCells` and custody's invariant
these give `JournalMatchesCustody`; `HandOffInv` carries them through sealing
and appending to `HeadlineJournalsAgree`. `PartsTheorem` and
`ChainBarrierTheorem` say that registry and custody keep their promises when
composed.

**Rounds and evidence.** `RoundsTheorem` rests on `OneContainer`: of the present
round only the container it waits for can be alive, and those of variants it
has collected as `sandbox_unavailable`. `FinalEvidenceTheorem` needs no invariant
of the documents, which are functions of the journal: from `finalize`'s
conditions and the types of the entries it follows that every entry has
a run, that a slot is accepted once, and that adverse is what did not succeed.

**Frozen cells.** `EvaluationProofs`. A call of the executor is a sequence of
steps, each of which asks one provider or none, and every claim about its
record is about how the next step continues the record so far. `CallInv`: the
calls form a chain in which each is a successor of the one before (`Chained`),
the last fits the step that comes next (`Calling`), and an event has had the
decisions its place in the loop implies (`Deciding`); so nothing follows a
failure. `TraceInv`: the four lists traces are kept in have exactly the answered
calls, each those of its roles, in the order of the calls (`Ledger`), and no
more (`Counted`); `CallsAreTraced` follows for the lists as merged.
`ContextInv`: the order a context is chosen in has what was ranked and is
active (`Picking`), and the context is the greedy choice in it (`Chosen`).
`AttemptsAreJudged` follows action by action from what the last call was.

**Claims.** `ClaimsInv`: the runs that count of a cell are its first headline
runs in order (`FirstCount`), so an attempt that comes later adds nothing before
them; what is designated could be reported (`Countable`), although the two
functions check runs in code of their own; and what an accepted report was
judged by is still what its runs say (`Settled`), since attempts are only added.
`ReportsBacked` puts them together: where a report is of the designated runs, its
verdict is the comparison of first runs. Reports of other runs are in the
model, and nothing is claimed of them.

**Two lives of a policy.** The resolver goes through the events and removes from
its list what the present one supersedes; the store takes them one `observe`
at a time, through the normalisation of `MemoryDecision`. `DiagnosticInv` says
what either has after each event: of a policy that is superseded the list has
the last of what was said of it so far (`ResolvedTo`), and the store one active
memory, which was made of a user's words and is equivalent to the last of them
(`StoredTo`). `ResolveStep` and `ObserveStep` are one event of each. In the second
everything depends on the decider, which names the first candidate of its
subject: since all active memories are shown (`PacketAssumption`) and one of a policy
is active, it is the one to be superseded, and what `NormalizedOperation` makes
of it is a write that supersedes it or, for equivalent words, nothing. Who is not
believed, of another component or of a policy nobody supersedes changes nothing
of this policy. What the last conjunct of `ResolversAgree` says of the patch needs no
more than that a context is packed of active memories (`PacksActive`) and that
the patch is inferred from it (`PatchSpeaks`); it speaks of the words that are held, not of
the last that were said, for the reason in section 3.

### Only model-checked

* *`PendingIsLeased`*: it is true where callers pass a clock, as no caller in the
  repository does; see `LeasesAreKept`.
* *Liveness* (`EveryTurnComes`, `EveryClaimIsAnswered`, `EveryAttemptEnds`,
  `GetsMigrated`, `EveryRoundEnds`): fairness and ENABLED are beyond the prover.
* *`StartupAudit`, `LegacyUpgrade`*, whose runs show violations.

## 5. Not modelled, and why

* The evidence columns of runs, prompts, schemas, rendering, HTML and logging:
  data no property is about. Requests that are refused before anything is
  touched.
* The SQL of the migrations: `StoreMigrations` has their transactions, and
  `LegacyUpgrade` starts from their result.
* `secure_files.py`: reads that compare inode, size and times before and
  after. What they miss depends on the resolution of the file system's clock.
* Evidence records of headline populations, for which the repository has
  validators and no writer; contexts, metrics and relation opportunities of
  records are copied.
* `evaluation.py`: its hero and micro suites are tables of expectations over
  fixtures.
* Live runs, demo, tools and web front end: scripts, I/O and static pages.
  Review and submission tooling: pure functions over documents.

## 6. Plan

Done: the serving side (store, turnstile, runtime, startup, upgrade,
migrations, server, compile, publication) and the evaluation side (custody,
frozen cells, hand-off, registry, journal, pipeline, isolation, variants,
claims); the proofs of the safety properties of the passing runs, `PendingIsLeased` apart,
and of the refinements.

Worth doing next:

1. What the resolver of a frozen cell hands off, in the terms of `ResolversAgree`:
   there its candidates are a model's answers, and only `ContextIsCurrent` is
   stated.
2. Headline aggregates, once the repository writes them.
