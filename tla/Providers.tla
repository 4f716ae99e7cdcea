------------------------------ MODULE Providers ------------------------------
(***************************************************************************)
(* What one call of a Qwen provider may come to (providers.py, and the     *)
(* patch provider of downstream.py), and what the decider and the runtime  *)
(* make of an error.  A reply is an answer, a ProviderError with its code  *)
(* and its retryable flag, or an exception no handler of the client is     *)
(* for: the connection reset or cut off while the response is read.        *)
(***************************************************************************)
EXTENDS Naturals

CONSTANTS
  HttpStatuses  \* the status of an error response: 400 to 599

Roles == {"memory_decision", "embedding", "rerank", "patch_generation"}

Answer    == [got |-> "answer", code |-> "none", retryable |-> FALSE]
Exception == [got |-> "exception", code |-> "none", retryable |-> FALSE]

(* ProviderError.                                                          *)
Retryable(code) == [got |-> "error", code |-> code, retryable |-> TRUE]
Terminal        == [got |-> "error", code |-> "provider_terminal_failure",
                    retryable |-> FALSE]

(* _http_provider_error_code.                                              *)
HttpErrorCode(status) ==
  CASE status = 408 -> "provider_timeout"
    [] status = 429 -> "provider_rate_limit"
    [] status >= 500 -> "provider_server_error"
    [] OTHER -> "provider_operator_action_required"

(* post_json_timed without an HTTPError: a timeout, an unreachable host, a *)
(* body that is no JSON object.                                            *)
TransportErrors ==
  {"provider_timeout", "provider_network_error", "provider_http_response_unparseable"}

(* post_json_timed: every error is retryable, a refused request too.       *)
PostReplies ==
  {Answer, Exception}
    \cup {Retryable(code) : code \in TransportErrors}
    \cup {Retryable(HttpErrorCode(status)) : status \in HttpStatuses}

(* _validated_usage_from_body: token counts that are no counts.            *)
Malformed == Retryable("provider_http_response_unparseable")

(* A list of numbers is answered whatever its length and its numbers; who  *)
(* uses it validates it.                                                   *)
UnusableVector == [Answer EXCEPT !.code = "invalid_embedding_vector"]
EmbeddingReplies == PostReplies \cup {Malformed, UnusableVector}

(* Scores that are no complete permutation.                                *)
NoPermutation == Retryable("rerank_failure")
RerankReplies == PostReplies \cup {Malformed, NoPermutation}

(* A message without the tool's arguments.                                 *)
Unparseable == Retryable("model_output_unparseable")
DecisionReplies == PostReplies \cup {Malformed, Unparseable}

(* A message without a closed list of files; and an answer whose token     *)
(* counts this provider, alone among the four, does not validate.          *)
Miscounted == [Answer EXCEPT !.code = "invalid_provider_token_usage"]
PatchReplies == PostReplies \cup {Terminal, Miscounted}

(* ProviderMemoryDecider: what observe is told of a failed decision.       *)
DeciderError(reply) ==
  IF reply.retryable THEN reply.code ELSE "provider_operator_action_required"

(* _provider_observe_error: the codes observe passes on as they are.       *)
ObserveCodes ==
  TransportErrors \cup
  {"provider_rate_limit", "provider_server_error",
   "model_output_unparseable_after_repair", "provider_operator_action_required"}

ObserveError(reply) ==
  IF reply.code \in ObserveCodes THEN reply.code
  ELSE IF reply.retryable THEN "provider_network_error"
  ELSE "provider_operator_action_required"
=============================================================================
