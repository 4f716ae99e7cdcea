---------------------------- MODULE MCEvaluation ----------------------------
(***************************************************************************)
(* A scenario of three events before its handoff, in every variant: fit to *)
(* run, and unfit in one way at a time.  The reranker is given two events; *)
(* the second event takes as much of the budget as the others together.    *)
(*                                                                         *)
(* Every packet of three events that a user or a tool may tell, in five    *)
(* texts, and packets that are unfit in one way.  Two texts have the same  *)
(* words, and are equivalent, but of one the punctuation hides what it     *)
(* says of the policy.                                                     *)
(*                                                                         *)
(* Two variants whose cells have two runs that count, and up to five       *)
(* attempts together.                                                      *)
(***************************************************************************)
EXTENDS Evaluation

MCComponents == {"auth", "cache"}
MCSubjectComponent == [retry_policy |-> "auth"]
MCEquivalent(s, t) == s = t \/ {s, t} = {"new", "new again"}

MCFits(pack) == FoldSet(LAMBDA e, sum : sum + (IF e = 2 THEN 3 ELSE e), 0, ToSet(pack)) <= 4

Memory(type, subject, scope, component, text) ==
  [type |-> type, subject |-> subject, scope |-> scope, component |-> component,
   text |-> text, seq |-> 0, active |-> FALSE]
Decision(text) == Memory("decision", "retry_policy", "component", "auth", text)
Lesson(text)   == Memory("lesson", "flaky", "component", "cache", text)
Preference(text) == Memory("preference", "style", "project", "none", text)

Operation(operation, memory, duplicate, supersedes, reason) ==
  [operation |-> operation, memory |-> memory, duplicate |-> duplicate,
   supersedes |-> supersedes, reason |-> reason]

MCOperations ==
  {Operation("no_op", NoMemory, NoIndex, <<>>, "plain"),
   Operation("duplicate", NoMemory, 1, <<>>, "plain"),
   Operation("write", Decision("twice"), NoIndex, <<>>, "plain"),
   Operation("write", Decision("never"), NoIndex, <<1>>, "plain"),
   Operation("write", Lesson("plain"), NoIndex, <<>>, "plain"),
   Operation("write", Preference("marked"), NoIndex, <<1>>, "plain"),
   Operation("write", Preference("marked"), NoIndex, <<>>, "plain"),
   Operation("write", Lesson("plain"), NoIndex, <<>>, "empty")}

File(path, content) == [path |-> path, content |-> content]
MCPatches ==
  {<<>>, <<File("src/auth.py", "changed")>>, <<File("src/auth.py", "unsafe")>>,
   <<File("src/retry.py", "changed")>>, <<File("src/../auth.py", "changed")>>,
   <<File("src/auth.py", "changed"), File("src/auth.py", "same")>>}

MCCanonicalPaths == {"src/auth.py", "src/retry.py", "pyproject.toml"}
MCComponentOf ==
  [path \in {"src/auth.py", "src/retry.py"} |-> IF path = "src/auth.py" THEN "auth" ELSE "retry"]
MCHandOffTexts == {"handoff", "marked handoff"}
MCPrivateIdentifiers == {"secret-slot"}

Event(time, text, session, actor) ==
  [ref |-> <<session, time, actor>>, time |-> time, text |-> text, session |-> session,
   actor |-> actor, kind |-> "message", visible |-> TRUE]
Plain(time, actor) == Event(time, "plain", "s1", actor)
Task == Event(9, "handoff", "s1", "user")

(* The manifest of a cell; its first writable paths are another scenario's.*)
Fixture(events)  == [record |-> "fixture", slot |-> "scenario", events |-> events]
Source(path)     == [path |-> path, content |-> "same", digest |-> "same"]
Snapshot == [record |-> "deterministic_file_bundle", slot |-> "scenario",
             files |-> <<Source("src/auth.py"), Source("pyproject.toml")>>]
Bytes(events) ==
  [id \in {"f", "r", "h"} |->
     CASE id = "f" -> Fixture(events) [] id = "r" -> Snapshot
       [] id = "h" -> [record |-> "hash", of |-> "hidden tests"]]
Manifest(variant, bytes) ==
  [catalog |-> [id \in {"f", "r", "h"} |->
      [kind |-> CASE id = "f" -> "fixture" [] id = "r" -> "repository_snapshot"
                  [] id = "h" -> "hidden_test_hash", content |-> bytes[id]]],
   scenarios |-> <<[slot |-> "scenario", fixture |-> "f", snapshot |-> "r", hidden |-> "h"]>>,
   writable |-> <<"src/retry.py", "src/auth.py", "pyproject.toml">>,
   hashes |-> [slot \in {"scenario"} |-> bytes["h"]],
   codes |-> ObserveCodes \cup {"sqlite_busy", "sqlite_io_error", "sandbox_unavailable", "sandbox_timeout"},
   variants |-> {variant},
   order |-> <<[id |-> "slot", index |-> 0, scenario |-> "scenario", variant |-> variant, repetition |-> 1]>>]
Request(variant, events) ==
  [manifest |-> Manifest(variant, Bytes(events)), bytes |-> Bytes(events), slot |-> 1,
   tokenizer |-> TRUE, model |-> "qwen", factories |-> Roles]

MCEvents == <<Plain(1, "user"), Plain(2, "tool"), Plain(2, "user"), Task>>
Fit(variant) == Request(variant, MCEvents)

Unfit(variant) ==
  LET fit == Fit(variant) IN
  {[fit EXCEPT !.tokenizer = FALSE], [fit EXCEPT !.model = "secret-slot"],
   [fit EXCEPT !.manifest.order[1].id = "secret-slot"]}
  \cup {[fit EXCEPT !.factories = @ \ {role}] : role \in Roles}
  \cup {Request(variant, events) : events \in
          {[MCEvents EXCEPT ![4] = Event(9, "marked handoff", "s1", "user")],
           [MCEvents EXCEPT ![1] = Event(Unreadable, "plain", "s1", "user")],
           [MCEvents EXCEPT ![3] = Event(2, "blank", "s1", "user")],
           [MCEvents EXCEPT ![3] = Event(2, "plain", "s2", "user")],
           <<MCEvents[1], MCEvents[2], MCEvents[3], Plain(3, "tool"), Task>>, <<Task>>}}

(* No cell is executed of these.                                           *)
Unplannable(variant) ==
  LET fit == Fit(variant) IN
  {[fit EXCEPT !.bytes = [@ EXCEPT !["f"] = Fixture(<<Task>>)]],
   [fit EXCEPT !.manifest.writable = <<"src/retry.py", "pyproject.toml">>],
   [fit EXCEPT !.manifest.order[1].index = 1], [fit EXCEPT !.slot = 2],
   Request(variant, <<Plain(1, "user"), Plain(1, "user"), Task>>),
   Request(variant, <<Plain(1, "user")>>)}

MCRequests == {Fit("another")} \cup UNION {{Fit(v)} \cup Unfit(v) \cup Unplannable(v) : v \in Variants}

-----------------------------------------------------------------------------
MCPolicyOf ==
  [text \in {"old", "new", "new again", "legacy", "chat", "blank", "handoff"} |->
     CASE text \in {"old", "new", "new again"} -> "new_backend_policy"
       [] text = "legacy" -> "legacy_backend_compatibility"
       [] OTHER -> "none"]
MCSays ==
  [text \in DOMAIN MCPolicyOf |->
     CASE text = "new" -> "current" [] text \in {"old", "legacy", "chat"} -> "stale" [] OTHER -> "none"]
MCContracts ==
  [path \in {"src/auth.py"} |->
     [keys |-> {"new_example", "legacy_compatibility"}, others |-> {"legacy_backend_compatibility"}]]

Tell(i, text, actor, session) ==
  [ref |-> i, time |-> (i % 3) + 1, text |-> text, session |-> session, actor |-> actor,
   kind |-> IF actor = "user" THEN "message" ELSE "test_result", visible |-> TRUE]
LedgerOf(events) ==
  [slot |-> "scenario",
   entries |-> [i \in DOMAIN events |-> [ref |-> events[i].ref, digest |-> events[i]]]]
PolicyKeys == MCContracts["src/auth.py"].keys
Gives(name, keys) == [returns |-> FALSE, name |-> name, keys |-> keys]
Returns(name, keys) == [returns |-> TRUE, name |-> name, keys |-> keys]
MCFixture ==
  [complete |-> TRUE, component |-> "auth", holds |-> "other",
   allowed |-> <<"pyproject.toml", "src/auth.py">>,
   body |-> <<Gives("table", PolicyKeys \cup {"default"}), Gives("other", {"default"}), Returns("table", {})>>]

PacketOf(told) ==
  LET events == [i \in DOMAIN told |-> Tell(i, told[i][1], told[i][2], told[i][3])] IN
  [events |-> events, ledger |-> LedgerOf(events),
   relations |-> [slot |-> "scenario", source |-> LedgerOf(events),
                  entries |-> <<[id |-> "o", prior |-> 1, candidate |-> 2, kind |-> "true_supersession"]>>],
   provenance |-> [slot |-> "scenario", class |-> "source_backed_synthetic", urls |-> <<"url">>,
                   status |-> "pending_independent_evidence_review"],
   leakage |-> [slot |-> "scenario", visible |-> {}, status |-> "pending_independent_evidence_review",
                verdict |-> "diagnostic_only_until_external_review"],
   fixture |-> MCFixture]

By(text, actor) == <<text, actor, "s1">>
TheTask == By("handoff", "user")
Told == {"old", "new", "new again", "legacy", "chat"} \X {"user", "tool"} \X {"s1"}
FitPackets == {PacketOf(<<a, b, c, TheTask>>) : a, b, c \in Told}
Usual == PacketOf(<<By("old", "user"), By("new", "user"), TheTask>>)
UnfitPackets ==
  {PacketOf(<<By("old", "user"), <<"new", "user", "s2">>, TheTask>>),
   PacketOf(<<By("old", "user"), By("new", "user"), By("chat", "tool"), By("chat", "user"), TheTask>>),
   PacketOf(<<By("blank", "user"), By("new", "user"), TheTask>>),
   PacketOf(<<By("old", "user"), By("new", "user")>>),
   [Usual EXCEPT !.events[1].time = 0],
   [Usual EXCEPT !.events[1].time = 0, !.ledger.entries[1].digest.time = 0,
                 !.relations.source.entries[1].digest.time = 0],
   [Usual EXCEPT !.relations.entries[1].prior = 2], [Usual EXCEPT !.leakage.visible = {"hidden tests"}],
   [Usual EXCEPT !.provenance.urls = <<>>], [Usual EXCEPT !.provenance.slot = "another"],
   [Usual EXCEPT !.fixture.complete = FALSE]}
MCPackets ==
  FitPackets \cup UnfitPackets
    \cup {[Usual EXCEPT !.fixture.holds = "current"], [Usual EXCEPT !.fixture.allowed = <<"src/retry.py">>],
          [Usual EXCEPT !.fixture.allowed = <<"pyproject.toml">>]}
    \cup {[Usual EXCEPT !.fixture.body = body] :
            body \in {<<>>, <<Returns("none", PolicyKeys)>>, <<Returns("none", {"default"})>>,
                      <<Gives("t", PolicyKeys), Gives("t", PolicyKeys), Returns("t", {})>>,
                      <<Gives("t", PolicyKeys), Returns("t", {}), Returns("none", PolicyKeys)>>}}

-----------------------------------------------------------------------------
Attempt(designation, suite, code, failure) ==
  [designation |-> designation, suite |-> suite, outcome |-> code, failure |-> failure, bound |-> TRUE]
Pass == Attempt("headline", "passed", "success", "none")
MCKinds ==
  {Pass, Attempt("headline", "failed", "hidden_tests_failed", "none"),
   Attempt("headline", "failed", "success", "none"),
   Attempt("diagnostic", "passed", "success", "none"),
   Attempt("invalidated_technical", "none", "technical_failure", "sandbox_timeout"),
   Attempt("invalidated_abort", "none", "manual_abort", "manual_abort"),
   [Pass EXCEPT !.bound = FALSE]}

MCGrid == <<"semantic_rerank", "recallpack">>
MCContract ==
  [budget |-> 512, tokenizer |-> "o200k_base", hidden |-> "after_model_output_fixed",
   comparable |-> {"semantic_rerank", "recallpack"}, eligible |-> {"semantic_rerank"},
   inputs |-> <<"r", "m", "p", "g", "t">>]
MCPlans ==
  {[rung |-> rung, contract |-> MCContract] : rung \in {"Floor", "Full"}}
    \cup {[rung |-> "Floor", contract |-> c] :
            c \in {[MCContract EXCEPT !.budget = 511], [MCContract EXCEPT !.inputs[2] = "r"],
                   [MCContract EXCEPT !.inputs[2] = "tampered"]}}
=============================================================================
