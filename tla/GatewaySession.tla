--------------------------- MODULE GatewaySession ---------------------------
(***************************************************************************)
(* One gateway session (src/uni_agent/gateway/session/session.py).         *)
(*                                                                         *)
(* Client requests of one session overlap: each runs run_generation, which *)
(* prepares its input under request_lock, waits for the inference backend  *)
(* OUTSIDE the lock, and commits under the lock again.  A chain that a     *)
(* request continues is reserved in between.  The driver finalizes or      *)
(* aborts the session at any moment, rewards are posted at any moment, and *)
(* a request can fail or be cancelled at any await.                        *)
(*                                                                         *)
(* Every critical section of request_lock is one action: no other code of  *)
(* the session touches its state without that lock, so waiting for the     *)
(* lock, and a cancellation while waiting for it, changes nothing.         *)
(*                                                                         *)
(* Data.  A message is a value of Messages, equal to another exactly when  *)
(* their canonical forms (codec.py 399-418) are, and a prefix hash is the  *)
(* prefix itself.  A message renders as one token; GenPrompt is the turn   *)
(* separator and generation prompt that a rendering for inference ends     *)
(* with; a generated message is a token of its text followed by Pad tokens *)
(* up to its length.  A token remembers who produced it (src).  Images and *)
(* videos, which travel beside the tokens, are left out.                   *)
(*                                                                         *)
(* Definitions named Slip_... are plausible slips in the code, each beside *)
(* the definition it perturbs.  Specifications never use them: they show   *)
(* that a property notices when the code it is about goes wrong.           *)
(***************************************************************************)
EXTENDS Integers, Sequences, FiniteSets

CONSTANTS
  Requests,      \* the client requests that reach the session
  Messages,      \* canonical chat messages
  Assistant,     \* those whose role is "assistant"
  User,          \* those whose role is "user"
  Outputs,       \* those the backend generates
  OutLen,        \* the number of tokens of each output
  Tools,         \* tool schema lists
  Calls,         \* what a request may carry: [messages, tools]
  Rewards,       \* reward_info payloads
  NoReward,      \* the empty reward_info
  Capacity,      \* prompt_length + response_length (out of reach when unset)
  Rollback,      \* enable_last_assistant_rollback
  Logprobs,      \* whether the session asks for log probabilities
  GenPrompt, Pad, Nobody

\* Any request whose body names messages and a list of tools.
ChatRequest == [messages : Seq(Messages) \ {<< >>}, tools : Tools]

ASSUME SessionAssumption ==
  /\ Outputs \subseteq Assistant /\ Assistant \subseteq Messages
  /\ User \subseteq Messages \ Assistant
  /\ OutLen \in [Outputs -> Nat \ {0}]
  /\ Calls \subseteq ChatRequest
  /\ Tools # {} /\ NoReward \notin Rewards
  /\ Capacity \in Nat \ {0}
  /\ Rollback \in BOOLEAN /\ Logprobs \in BOOLEAN
  /\ GenPrompt \notin Messages /\ Pad \notin Messages /\ GenPrompt # Pad
  /\ Nobody \notin Requests

VARIABLES
  phase,               \* SessionPhase
  active_chains,       \* chain id -> ChainState
  materialized_chains, \* closed chains, as trajectories with their order_seq
  reserved_chain_ids,
  next_chain_id, order_seq,
  rollback_count, rollback_dropped,
  reward_info,
  returned,            \* what finalize() returned
  pc,                  \* where each request stands in run_generation
  encoded,             \* its EncodedData, while the backend works on it
  held,                \* its local reserved_chain_id; 0 stands for None
  completion           \* completion_tokens of its GenerationOutcome

chainVars   == <<active_chains, materialized_chains, next_chain_id, order_seq,
                 rollback_count, rollback_dropped>>
sessionVars == <<phase, chainVars, reward_info, returned>>
requestVars == <<pc, encoded, held, completion>>
vars        == <<sessionVars, reserved_chain_ids, requestVars>>

-----------------------------------------------------------------------------
(* Types.                                                                  *)

Token == [text : Messages \cup {GenPrompt, Pad}, src : Requests \cup {Nobody}]

TrajectoryBuffer ==
  [prompt_ids : Seq(Token), response_ids : Seq(Token),
   response_mask : Seq({0, 1}), response_logprobs : Seq({0, 1}),
   generation_versions : Seq(Requests)]

LastAssistantStart ==
  [response_ids_len : Nat, message_history_len : Nat, tip : Seq(Messages)]

ChainState ==
  [message_history : Seq(Messages), tools : Tools, buffer : TrajectoryBuffer,
   last_assistant_start : LastAssistantStart, updated_seq : Nat]

Trajectory ==
  [buffer : TrajectoryBuffer, num_turns : Nat, order_seq : Nat,
   reason : {"none", "max_trajectory_length"},
   reward_info : Rewards \cup {NoReward}]

EncodedData ==
  [chain_id : Nat, buffer : TrajectoryBuffer, messages : Seq(Messages),
   tools : Tools, last_assistant_start : LastAssistantStart,
   rollback_applied : BOOLEAN, dropped : Nat]

EmptyBuffer == [prompt_ids |-> << >>, response_ids |-> << >>,
                response_mask |-> << >>, response_logprobs |-> << >>,
                generation_versions |-> << >>]

\* A request holds no EncodedData before prepare and after its outcome.
NotEncoded ==
  [chain_id |-> 0, buffer |-> EmptyBuffer, messages |-> << >>,
   tools |-> CHOOSE t \in Tools : TRUE,
   last_assistant_start |->
     [response_ids_len |-> 0, message_history_len |-> 0, tip |-> << >>],
   rollback_applied |-> FALSE, dropped |-> 0]

Answered == {"ok", "length", "failed", "rejected"}

TypeOK ==
  /\ phase \in {"ACTIVE", "FINALIZED", "ABORTED"}
  /\ \A c \in DOMAIN active_chains :
       c \in Nat \ {0} /\ active_chains[c] \in ChainState
  /\ materialized_chains \subseteq Trajectory
  /\ reserved_chain_ids \subseteq Nat \ {0}
  /\ next_chain_id \in Nat \ {0}
  /\ order_seq \in Nat /\ rollback_count \in Nat /\ rollback_dropped \in Nat
  /\ reward_info \in Rewards \cup {NoReward}
  /\ returned \in Seq(Trajectory)
  /\ pc \in [Requests -> {"idle", "generating", "releasing"} \cup Answered]
  /\ encoded \in [Requests -> EncodedData]
  /\ held \in [Requests -> Nat]
  /\ completion \in [Requests -> Nat]

-----------------------------------------------------------------------------
(* Rendering (MessageCodec) and the token buffer.                          *)

Context(text) == [text |-> text, src |-> Nobody]

Render(messages) == [i \in 1..Len(messages) |-> Context(messages[i])]

encode_full(messages) == Append(Render(messages), Context(GenPrompt))

encode_incremental(messages) ==
  IF messages = << >> THEN << >> ELSE encode_full(messages)

\* encode_incremental raises ValueError when an assistant is not first.
CannotEncode(messages) == \E i \in 2..Len(messages) : messages[i] \in Assistant

Generated(r, o) ==
  [i \in 1..OutLen[o] |-> [text |-> IF i = 1 THEN o ELSE Pad, src |-> r]]

Repeat(x, n) == [i \in 1..n |-> x]

Size(b) == Len(b.prompt_ids) + Len(b.response_ids)

Slip_Ones(mask, from) ==
  Cardinality({i \in (from + 1)..Len(mask) : mask[i] = 1})

Ones(mask, from) == Cardinality({i \in from..Len(mask) : mask[i] = 1})

\* Append tokens with their mask, and log probabilities when asked for (0.0 for
\* context; here 1 stands for any log probability of a generated token).
Extended(b, ids, mark, versions) ==
  [prompt_ids          |-> b.prompt_ids,
   response_ids        |-> b.response_ids \o ids,
   response_mask       |-> b.response_mask \o Repeat(mark, Len(ids)),
   response_logprobs   |-> IF Logprobs
                           THEN b.response_logprobs \o Repeat(mark, Len(ids))
                           ELSE b.response_logprobs,
   generation_versions |-> versions]

\* Continuation context is not trained on ...
Slip_AddContext(b, ids) == Extended(b, ids, 1, b.generation_versions)

AddContext(b, ids) == Extended(b, ids, 0, b.generation_versions)

\* ... and a backend answer is; it also leaves one version mark.
AddGeneration(b, r, ids) == Extended(b, ids, 1, Append(b.generation_versions, r))

Take(s, n) == SubSeq(s, 1, n)

\* Does what is stored before the latest assistant end with the prefix that
\* was rendered for it?  If not, prepare raises ValueError.
EndsWithPrefix(b, n) ==
  LET stored == IF n = 0 THEN b.prompt_ids ELSE Take(b.response_ids, n)
  IN  stored # << >> /\ stored[Len(stored)].text = GenPrompt

Slip_CutLastAssistant(b, n) ==                 \* restarts the response
  [EmptyBuffer EXCEPT !.prompt_ids = Take(b.prompt_ids, Len(b.prompt_ids) - 1)]

\* Cut the latest assistant (response tokens after the first n), its version
\* mark, and the assistant prefix rendered before it.
CutLastAssistant(b, n) ==
  LET m == IF n = 0 THEN 0 ELSE n - 1
  IN  [prompt_ids          |-> IF n = 0 THEN Take(b.prompt_ids, Len(b.prompt_ids) - 1)
                                        ELSE b.prompt_ids,
       response_ids        |-> Take(b.response_ids, m),
       response_mask       |-> Take(b.response_mask, m),
       response_logprobs   |-> IF Logprobs THEN Take(b.response_logprobs, m) ELSE << >>,
       generation_versions |-> Take(b.generation_versions,
                                    Len(b.generation_versions) - 1)]

-----------------------------------------------------------------------------
(* _select_chain: which unreserved chain a request continues, if any.      *)

Start(c) == active_chains[c].last_assistant_start

Slip_Eligible(call) ==                         \* ignores reservations
  {c \in DOMAIN active_chains :
     /\ active_chains[c].tools = call.tools
     /\ Start(c).message_history_len < Len(call.messages)
     /\ Take(call.messages, Start(c).message_history_len) = Start(c).tip}

\* The request goes past the chain's latest assistant boundary and agrees
\* with the chain up to it.
Eligible(call) ==
  {c \in DOMAIN active_chains \ reserved_chain_ids :
     /\ active_chains[c].tools = call.tools
     /\ Start(c).message_history_len < Len(call.messages)
     /\ Take(call.messages, Start(c).message_history_len) = Start(c).tip}

Slip_IsChainPrefix(c, messages) ==             \* compares lengths only
  Len(active_chains[c].message_history) <= Len(messages)

\* _is_chain_prefix_hash_match: it repeats the whole history of the chain ...
IsChainPrefix(c, messages) ==
  LET history == active_chains[c].message_history
  IN  Len(history) <= Len(messages) /\ Take(messages, Len(history)) = history

Exact(call) == {c \in Eligible(call) : IsChainPrefix(c, call.messages)}

\* ... or it replaces what the latest assistant said.
Stale(call) == IF Rollback THEN Eligible(call) \ Exact(call) ELSE {}

Deepest(call) ==
  {c \in Stale(call) : \A d \in Stale(call) :
     Start(d).message_history_len <= Start(c).message_history_len}

Candidates(call) ==
  Exact(call) \cup (IF Cardinality(Deepest(call)) = 1 THEN Deepest(call) ELSE {})

\* Several rewritten chains, deeper than every exact one: start afresh.
Ambiguous(call) ==
  /\ Cardinality(Deepest(call)) > 1
  /\ \A c \in Deepest(call), d \in Exact(call) :
       Start(c).message_history_len > Len(active_chains[d].message_history)

\* The ranking of candidates: depth, exactness, recency, id.
Rank(c, call) ==
  IF c \in Exact(call)
  THEN <<Len(active_chains[c].message_history), 1, active_chains[c].updated_seq, c>>
  ELSE <<Start(c).message_history_len, 0, active_chains[c].updated_seq, c>>

AtLeast(s, t) ==
  \/ s = t
  \/ \E i \in DOMAIN s : s[i] > t[i] /\ \A j \in 1..(i - 1) : s[j] = t[j]

Chosen(call) ==
  IF Ambiguous(call) THEN {}
  ELSE {c \in Candidates(call) :
          \A d \in Candidates(call) : AtLeast(Rank(c, call), Rank(d, call))}

-----------------------------------------------------------------------------
(* run_generation, first critical section: prepare and reserve.            *)

Respond(r, outcome) ==
  /\ pc' = [pc EXCEPT ![r] = outcome]
  /\ UNCHANGED <<encoded, held, completion>>

Slip_Snapshot(b, messages) ==                  \* counts the prompt, too
  [response_ids_len |-> Size(b),
   message_history_len |-> Len(messages), tip |-> messages]

\* _snapshot_last_assistant_start: where the answer to come will begin.
Snapshot(b, messages) ==
  [response_ids_len |-> Len(b.response_ids),
   message_history_len |-> Len(messages), tip |-> messages]

\* Hand the encoded context to the backend; a continued chain is reserved.
Generate(r, call, c, b, rollback, dropped) ==
  /\ pc' = [pc EXCEPT ![r] = "generating"]
  /\ encoded' = [encoded EXCEPT ![r] =
       [chain_id |-> c, buffer |-> b, messages |-> call.messages,
        tools |-> call.tools,
        last_assistant_start |-> Snapshot(b, call.messages),
        rollback_applied |-> rollback, dropped |-> dropped]]
  /\ held' = [held EXCEPT ![r] = c]
  /\ reserved_chain_ids' = reserved_chain_ids \cup ({c} \ {0})
  /\ UNCHANGED <<sessionVars, completion>>

Slip_RecordRollback(rollback, dropped) ==      \* subtracts
  /\ rollback_count' = rollback_count + IF rollback THEN 1 ELSE 0
  /\ rollback_dropped' = rollback_dropped - IF rollback THEN dropped ELSE 0

RecordRollback(rollback, dropped) ==
  /\ rollback_count' = rollback_count + IF rollback THEN 1 ELSE 0
  /\ rollback_dropped' = rollback_dropped + IF rollback THEN dropped ELSE 0

\* _build_materialized_trajectory
Materialized(b, history, seq, reason) ==
  [buffer |-> b,
   num_turns |-> 1 + Cardinality({i \in DOMAIN history :
                                    history[i] \in User \cup Assistant}),
   order_seq |-> seq, reason |-> reason, reward_info |-> NoReward]

\* A rollback to the very start of the response leaves nothing to keep.
NothingSurvives(c, rollback) == rollback /\ Start(c).response_ids_len = 0

\* _close_length_exhausted_chain
CloseExhausted(c, call, b, rollback, dropped) ==
  /\ active_chains' =
       [d \in DOMAIN active_chains \ {c} |-> active_chains[d]]
  /\ RecordRollback(rollback, dropped)
  /\ \/ /\ NothingSurvives(c, rollback)
        /\ UNCHANGED <<materialized_chains, order_seq>>
     \/ /\ ~NothingSurvives(c, rollback)
        /\ order_seq' = order_seq + 1
        /\ materialized_chains' = materialized_chains \cup
             {IF rollback
              THEN Materialized(b, Take(call.messages, Start(c).message_history_len),
                                order_seq', "max_trajectory_length")
              ELSE Materialized(active_chains[c].buffer,
                                active_chains[c].message_history,
                                order_seq', "max_trajectory_length")}
  /\ UNCHANGED <<phase, next_chain_id, reward_info, returned, reserved_chain_ids>>

Slip_Overflows(b, suffix) == Size(b) + Len(encode_incremental(suffix)) > Capacity

\* No room is left for even one generated token.
Overflows(b, suffix) == Size(b) + Len(encode_incremental(suffix)) >= Capacity

\* A full buffer is noticed before the suffix is encoded.
Rejects(b, suffix) == Size(b) < Capacity /\ CannotEncode(suffix)

\* What prepare does once it knows the chain, its buffer and the new messages.
Extend(r, call, c, b, suffix, rollback, dropped) ==
  \/ /\ Rejects(b, suffix)
     /\ Respond(r, "rejected")
     /\ UNCHANGED <<sessionVars, reserved_chain_ids>>
  \/ /\ ~Rejects(b, suffix) /\ Overflows(b, suffix)
     /\ CloseExhausted(c, call, b, rollback, dropped)
     /\ Respond(r, "length")
  \/ /\ ~Rejects(b, suffix) /\ ~Overflows(b, suffix)
     /\ Generate(r, call, c, AddContext(b, encode_incremental(suffix)),
                 rollback, dropped)

Preparing(r) == pc[r] = "idle" /\ phase = "ACTIVE"

\* HTTP 409: the session is closed.
RefuseClosed(r) ==
  /\ pc[r] = "idle" /\ phase # "ACTIVE"
  /\ Respond(r, "failed")
  /\ UNCHANGED <<sessionVars, reserved_chain_ids>>

StartChain(r, call) ==
  LET b == [EmptyBuffer EXCEPT !.prompt_ids = encode_full(call.messages)]
  IN  /\ Preparing(r) /\ Chosen(call) = {}
      /\ \/ /\ Size(b) >= Capacity
            /\ Respond(r, "length")
            /\ UNCHANGED <<sessionVars, reserved_chain_ids>>
         \/ /\ Size(b) < Capacity
            /\ Generate(r, call, 0, b, FALSE, 0)

ContinueChain(r, call) ==
  /\ Preparing(r)
  /\ \E c \in Chosen(call) \cap Exact(call) :
       Extend(r, call, c, active_chains[c].buffer,
              SubSeq(call.messages, Len(active_chains[c].message_history) + 1,
                     Len(call.messages)),
              FALSE, 0)

RollbackChain(r, call) ==
  /\ Preparing(r)
  /\ \E c \in Chosen(call) \ Exact(call) :
       LET b == active_chains[c].buffer
           n == Start(c).response_ids_len
       IN  \/ /\ ~EndsWithPrefix(b, n)
              /\ Respond(r, "rejected")
              /\ UNCHANGED <<sessionVars, reserved_chain_ids>>
           \/ /\ EndsWithPrefix(b, n)
              /\ Extend(r, call, c, CutLastAssistant(b, n),
                        SubSeq(call.messages, Start(c).message_history_len + 1,
                               Len(call.messages)),
                        TRUE, Ones(b.response_mask, n + 1))

-----------------------------------------------------------------------------
(* run_generation, second critical section: commit, or fail and release.   *)

Slip_Committed(e, history, b) ==               \* keeps the old sequence number
  [message_history |-> history, tools |-> e.tools, buffer |-> b,
   last_assistant_start |-> e.last_assistant_start,
   updated_seq |-> IF e.chain_id = 0 THEN order_seq + 1
                   ELSE active_chains[e.chain_id].updated_seq]

Committed(e, history, b) ==
  [message_history |-> history, tools |-> e.tools, buffer |-> b,
   last_assistant_start |-> e.last_assistant_start, updated_seq |-> order_seq + 1]

\* _commit_generation_to_chain: a new chain, or the reserved one in place.
CommitChain(e, c, history, b) ==
  /\ active_chains' = [d \in DOMAIN active_chains \cup {c} |->
       IF d = c THEN Committed(e, history, b) ELSE active_chains[d]]
  /\ next_chain_id' = next_chain_id + IF e.chain_id = 0 THEN 1 ELSE 0
  /\ order_seq' = order_seq + 1
  /\ RecordRollback(e.rollback_applied, e.dropped)

\* max_tokens limits what the backend may generate.
Fits(r, o) == OutLen[o] <= Capacity - Size(encoded[r].buffer)

Slip_CanCommit(r, o) == pc[r] = "generating" /\ Fits(r, o)

CanCommit(r, o) == pc[r] = "generating" /\ phase = "ACTIVE" /\ Fits(r, o)

Commit(r, o) ==
  LET e == encoded[r]
  IN  /\ CanCommit(r, o)
      /\ CommitChain(e, IF e.chain_id = 0 THEN next_chain_id ELSE e.chain_id,
                     Append(e.messages, o),
                     AddGeneration(e.buffer, r, Generated(r, o)))
      /\ reserved_chain_ids' = reserved_chain_ids \ {held[r]}
      /\ held' = [held EXCEPT ![r] = 0]
      /\ encoded' = [encoded EXCEPT ![r] = NotEncoded]
      /\ completion' = [completion EXCEPT ![r] = OutLen[o]]
      /\ pc' = [pc EXCEPT ![r] = "ok"]
      /\ UNCHANGED <<phase, materialized_chains, reward_info, returned>>

Slip_Fail(r) ==                                \* forgets the reservation
  /\ pc[r] = "generating"
  /\ pc' = [pc EXCEPT ![r] = "failed"]
  /\ encoded' = [encoded EXCEPT ![r] = NotEncoded]
  /\ UNCHANGED <<sessionVars, reserved_chain_ids, held, completion>>

\* The backend raised, the answer did not decode, the client went away, or
\* the session was closed meanwhile (409).
Fail(r) ==
  /\ pc[r] = "generating"
  /\ pc' = [pc EXCEPT ![r] = IF held[r] = 0 THEN "failed" ELSE "releasing"]
  /\ encoded' = [encoded EXCEPT ![r] = NotEncoded]
  /\ UNCHANGED <<sessionVars, reserved_chain_ids, held, completion>>

Slip_Release(r) ==                             \* insists on the reservation
  /\ pc[r] = "releasing" /\ held[r] \in reserved_chain_ids
  /\ reserved_chain_ids' = reserved_chain_ids \ {held[r]}
  /\ held' = [held EXCEPT ![r] = 0]
  /\ pc' = [pc EXCEPT ![r] = "failed"]
  /\ UNCHANGED <<sessionVars, encoded, completion>>

\* The shielded finally block gets the lock.
Release(r) ==
  /\ pc[r] = "releasing"
  /\ reserved_chain_ids' = reserved_chain_ids \ {held[r]}
  /\ held' = [held EXCEPT ![r] = 0]
  /\ pc' = [pc EXCEPT ![r] = "failed"]
  /\ UNCHANGED <<sessionVars, encoded, completion>>

-----------------------------------------------------------------------------
(* Lifecycle.  A refused call (wrong phase) raises and changes nothing.    *)

SetReward(w) ==
  /\ phase = "ACTIVE"
  /\ reward_info' = w
  /\ UNCHANGED <<phase, chainVars, returned, reserved_chain_ids, requestVars>>

\* _materialize_active_chains
ActiveTrajectories ==
  {Materialized(active_chains[c].buffer, active_chains[c].message_history,
                active_chains[c].updated_seq, "none") : c \in DOMAIN active_chains}

\* finalize returns the closed chains sorted by order_seq.
InOrder(T) ==
  {s \in [1..Cardinality(T) -> T] :
     /\ \A t \in T : \E i \in DOMAIN s : s[i] = t
     /\ \A i, j \in DOMAIN s : i < j => s[i].order_seq <= s[j].order_seq}

Finalize ==
  /\ phase = "ACTIVE"
  /\ phase' = "FINALIZED"
  /\ materialized_chains' = materialized_chains \cup ActiveTrajectories
  /\ active_chains' = << >>
  /\ reserved_chain_ids' = {}
  /\ \E s \in InOrder(materialized_chains') :
       returned' = [i \in DOMAIN s |-> [s[i] EXCEPT !.reward_info = reward_info]]
  /\ UNCHANGED <<next_chain_id, order_seq, rollback_count, rollback_dropped,
                 reward_info, requestVars>>

Abort ==
  /\ phase = "ACTIVE"
  /\ phase' = "ABORTED"
  /\ active_chains' = << >>
  /\ materialized_chains' = {}
  /\ reserved_chain_ids' = {}
  /\ UNCHANGED <<next_chain_id, order_seq, rollback_count, rollback_dropped,
                 reward_info, returned, requestVars>>

\* The session is closed and every request has its answer.
Terminated ==
  /\ phase # "ACTIVE" /\ \A r \in Requests : pc[r] \in Answered
  /\ UNCHANGED vars

-----------------------------------------------------------------------------
Init ==
  /\ phase = "ACTIVE"
  /\ active_chains = << >> /\ materialized_chains = {}
  /\ reserved_chain_ids = {}
  /\ next_chain_id = 1 /\ order_seq = 0
  /\ rollback_count = 0 /\ rollback_dropped = 0
  /\ reward_info = NoReward /\ returned = << >>
  /\ pc = [r \in Requests |-> "idle"]
  /\ encoded = [r \in Requests |-> NotEncoded]
  /\ held = [r \in Requests |-> 0]
  /\ completion = [r \in Requests |-> 0]

Prepare(r) ==
  \E call \in Calls : \/ StartChain(r, call)
                      \/ ContinueChain(r, call)
                      \/ RollbackChain(r, call)

Resume(r) == Fail(r) \/ \E o \in Outputs : Commit(r, o)

Next ==
  \/ \E r \in Requests : RefuseClosed(r) \/ Prepare(r) \/ Resume(r) \/ Release(r)
  \/ \E w \in Rewards : SetReward(w)
  \/ Finalize
  \/ Abort
  \/ Terminated

Spec == Init /\ [][Next]_vars

\* The backend answers or raises, and whoever waits for the lock gets it.
Fairness == \A r \in Requests : WF_vars(Resume(r)) /\ WF_vars(Release(r))

FairSpec == Spec /\ Fairness
=============================================================================
