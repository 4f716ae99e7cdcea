--------------------------- MODULE MemoryDecision ---------------------------
(***************************************************************************)
(* What observe makes of the arguments a model calls its one tool with     *)
(* (_normalize_operation_with_errors and what it calls, observe.py).  An   *)
(* operation names candidates by their place in the list the model was     *)
(* shown; the result names the memories themselves.                        *)
(*                                                                         *)
(* A memory's key is its type, subject, scope level and component.  Of a   *)
(* text only its equivalence to others and whether it is empty matter.     *)
(***************************************************************************)
EXTENDS Naturals, Sequences, FiniteSets

CONSTANTS
  Components,         \* the components a decision may name
  SubjectComponent,   \* [subjects -> components]: the policies of one component
  Equivalent(_, _)    \* _meaning_equivalent of two texts

NoMemory == [type |-> "none"]
NoIndex == 0
CandidateLimit == 8

KeyFields == {"type", "subject", "scope", "component"}
SameKey(m, n) == \A field \in KeyFields : m[field] = n[field]

(* _normalize_memory: the scope fits the type, the subject its component,  *)
(* and only a user's event decides or prefers.                             *)
ScopeFits(m) ==
  \/ m.type = "preference" /\ m.scope = "project" /\ m.component = "none"
  \/ m.type \in {"decision", "lesson"} /\ m.scope = "component"
       /\ m.component \in Components

ValidMemory(m, actor) ==
  /\ ScopeFits(m)
  /\ m.subject \in DOMAIN SubjectComponent => m.component = SubjectComponent[m.subject]
  /\ m.type \in {"preference", "decision"} => actor = "user"

(* _candidate_exists: an index into the candidates shown, from one here.   *)
Shown(candidates) == 1..(IF Len(candidates) < CandidateLimit THEN Len(candidates) ELSE CandidateLimit)

(* _valid_index_array and the range of its indexes.                        *)
ValidIndexes(indexes, candidates) ==
  /\ \A i, j \in DOMAIN indexes : indexes[i] = indexes[j] => i = j
  /\ \A i \in DOMAIN indexes : indexes[i] \in Shown(candidates)

(* _equivalent_active_candidate_index.                                     *)
Equivalents(m, candidates) ==
  {i \in Shown(candidates) :
     SameKey(m, candidates[i]) /\ Equivalent(m.text, candidates[i].text)}

(* _validate_supersession.                                                 *)
Supersedable(m, seq, priors) ==
  priors # {} => m.type # "lesson" /\ \A p \in priors : p.seq < seq /\ SameKey(p, m)

(* A normalized operation.  A refused one is a no-op, too, with the reason *)
(* it was refused for; and asks for a repair.                              *)
Normalized(operation, reason, memory, supersedes) ==
  [operation |-> operation, reason |-> reason, memory |-> memory, supersedes |-> supersedes]
Refused == Normalized("refused", "an error", NoMemory, {})

NormalizedDuplicate(op, candidates) ==
  IF /\ op.memory = NoMemory /\ op.supersedes = <<>>
     /\ op.duplicate \in Shown(candidates)
  THEN Normalized("duplicate", op.reason, NoMemory, {})
  ELSE Refused

NormalizedWrite(op, actor, seq, candidates) ==
  IF \/ op.memory = NoMemory \/ op.duplicate # NoIndex
     \/ ~ValidIndexes(op.supersedes, candidates)
     \/ ~ValidMemory(op.memory, actor)
  THEN Refused
  ELSE LET priors == {candidates[op.supersedes[i]] : i \in DOMAIN op.supersedes} IN
       IF Equivalents(op.memory, candidates) # {}
       THEN Normalized("duplicate", "equivalent_active_memory", NoMemory, {})
       ELSE IF Supersedable(op.memory, seq, priors)
       THEN Normalized("write", op.reason, op.memory, {p.seq : p \in priors})
       ELSE Refused

(* _normalize_operation.                                                   *)
NormalizedOperation(op, actor, seq, candidates) ==
  CASE op.operation = "no_op" ->
         IF op.memory = NoMemory /\ op.duplicate = NoIndex /\ op.supersedes = <<>>
         THEN Normalized("no_op", op.reason, NoMemory, {}) ELSE Refused
    [] op.operation = "duplicate" -> NormalizedDuplicate(op, candidates)
    [] op.operation = "write" -> NormalizedWrite(op, actor, seq, candidates)
    [] OTHER -> Refused

(* _valid_v4_final_result of the store: an empty reason, subject or text   *)
(* gets this far, and no further.                                          *)
Storable(result) ==
  /\ result.reason # "empty"
  /\ result.operation = "write" =>
       result.memory.subject # "empty" /\ result.memory.text # "empty"
=============================================================================
