------------------------ MODULE GatewaySessionProps ------------------------
(***************************************************************************)
(* What one gateway session promises (the specification is GatewaySession, *)
(* the proofs are in GatewaySessionProofs).                                *)
(***************************************************************************)
EXTENDS GatewaySession, FiniteSetsExt, SequencesExt

-----------------------------------------------------------------------------
(* Reservations.                                                           *)

\* While the session is active, the reserved chains are exactly those that
\* the requests in flight hold, each held by one request only.
HoldersAreExclusive ==
  /\ phase = "ACTIVE" => reserved_chain_ids = {held[r] : r \in Requests} \ {0}
  /\ phase # "ACTIVE" => reserved_chain_ids = {} /\ active_chains = << >>
  /\ \A r, s \in Requests : r # s /\ held[r] # 0 => held[r] # held[s]

\* A held chain is alive, and only a request in flight holds one.
HeldChainsExist ==
  \A r \in Requests :
    /\ pc[r] = "generating" => encoded[r].chain_id = held[r]
    /\ pc[r] = "releasing" => held[r] # 0
    /\ held[r] # 0 =>
         /\ pc[r] \in {"generating", "releasing"}
         /\ phase = "ACTIVE" => held[r] \in DOMAIN active_chains

\* The reservation protocol (session.py 253-255, 313-326, 760-762): no chain
\* is worked on by two requests, no reservation outlives the request that
\* made it, and the chain a commit will replace (700-714) is still there.
ReservationsExact == HoldersAreExclusive /\ HeldChainsExist

\* No lost update: while a request works on a chain outside the lock, nobody
\* else commits to it, closes it or rolls it back (session.py 257-304), except
\* that the whole session is closed.
HeldChainMovesOnlyForItsHolder ==
  [][\A r \in Requests :
       held[r] # 0 /\ held'[r] = held[r] /\ phase' = "ACTIVE" =>
         /\ held[r] \in DOMAIN active_chains'
         /\ active_chains'[held[r]] = active_chains[held[r]]]_vars

-----------------------------------------------------------------------------
(* The token ledger: which answered turns are in the training data.        *)

TrainableFrom(b, r) ==
  Cardinality({i \in DOMAIN b.response_ids :
                 b.response_ids[i].src = r /\ b.response_mask[i] = 1})

\* The sum of the values of f, counted out.
Total(f) == Cardinality(UNION {{x} \X (1..f[x]) : x \in DOMAIN f})

\* The trainable tokens of request r in the session, and in what finalize
\* returned.
Surviving(r) ==
  Total([c \in DOMAIN active_chains |-> TrainableFrom(active_chains[c].buffer, r)])
  + Total([t \in materialized_chains |-> TrainableFrom(t.buffer, r)])

Delivered(r) ==
  Total([i \in DOMAIN returned |-> TrainableFrom(returned[i].buffer, r)])

\* Every token the backend was paid for is accounted for: it is trainable in
\* exactly one place, or a rollback dropped it and counted it (session.py
\* 668-672, 681, 720-724, 746).  A turn survives whole or not at all.
TrainableConservation ==
  phase # "ABORTED" =>
    /\ Total(completion)
         = Total([r \in Requests |-> Surviving(r)]) + rollback_dropped
    /\ \A r \in Requests : Surviving(r) \in {0, completion[r]}
    /\ Cardinality({r \in Requests : pc[r] = "ok"})
         = Cardinality({r \in Requests : Surviving(r) > 0}) + rollback_count

-----------------------------------------------------------------------------
(* Buffers.                                                                *)

Buffers ==
  {active_chains[c].buffer : c \in DOMAIN active_chains}
  \cup {t.buffer : t \in materialized_chains}
  \cup {encoded[r].buffer : r \in {s \in Requests : pc[s] = "generating"}}

Picked(s, K) == {i \in DOMAIN s : s[i] \in K}

\* m lists the elements of s that are in K, in their order.
Selects(m, s, K) ==
  /\ Len(m) = Cardinality(Picked(s, K))
  /\ \A i \in Picked(s, K) : m[Cardinality({j \in Picked(s, K) : j <= i})] = s[i]

\* Who generated the assistant turn that begins at each response token.
Authors(b) ==
  [i \in DOMAIN b.response_ids |->
     IF b.response_ids[i].text = Pad THEN Nobody ELSE b.response_ids[i].src]

\* Through continuations and rollbacks the parallel arrays of a buffer stay
\* aligned: mask 1 exactly on generated tokens, a log probability for every
\* token when asked for, one version mark per surviving generation, in order
\* (session.py 270-289, 416-443, 470-475; the class comment, lines 31-56).
BuffersAligned ==
  \A b \in Buffers :
    /\ Len(b.response_mask) = Len(b.response_ids)
    /\ \A i \in DOMAIN b.response_ids :
         b.response_mask[i] = IF b.response_ids[i].src = Nobody THEN 0 ELSE 1
    /\ b.response_logprobs = IF Logprobs THEN b.response_mask ELSE << >>
    /\ Selects(b.generation_versions, Authors(b), Requests)

Ids(b) == b.prompt_ids \o b.response_ids

Texts(b) == [i \in DOMAIN Ids(b) |-> Ids(b)[i].text]

\* The tokens of a buffer spell out these messages.
Spells(b, messages) == Selects(messages, Texts(b), Messages)

\* Each generation prompt is followed by what the model generated for it.
PromptsAnswered(b) ==
  \A i \in 1..(Len(Ids(b)) - 1) :
    Ids(b)[i].text = GenPrompt => Ids(b)[i + 1].src # Nobody

\* The backend sees the conversation the client sent, nothing stale and
\* nothing missing, and a chain's tokens spell out its message history, also
\* after a rewrite (session.py 405-407, 416-451; test
\* test_first_assistant_rewrite_reuses_chain_without_stale_response).
ContextMatchesHistory ==
  /\ \A r \in Requests : pc[r] = "generating" =>
       Spells(encoded[r].buffer, encoded[r].messages)
  /\ \A c \in DOMAIN active_chains :
       Spells(active_chains[c].buffer, active_chains[c].message_history)
  /\ \A t \in materialized_chains :
       t.num_turns = 1 + Cardinality(Picked(Texts(t.buffer), User \cup Assistant))
  /\ \A b \in Buffers : PromptsAnswered(b)

\* The stored boundary delimits exactly the latest assistant, in tokens and
\* in messages, so that a rollback can cut there (session.py 509-515, 651-666).
BoundaryDelimitsLastAssistant ==
  \A c \in DOMAIN active_chains :
    LET chain == active_chains[c]
        b     == chain.buffer
        n     == Start(c).response_ids_len
    IN  /\ Start(c).message_history_len = Len(chain.message_history) - 1
        /\ Start(c).tip = Front(chain.message_history)
        /\ n < Len(b.response_ids)
        /\ b.response_ids[n + 1].text = Last(chain.message_history)
        /\ \A i \in (n + 1)..Len(b.response_ids) :
             b.response_ids[i].src = Last(b.generation_versions)

\* prompt_length + response_length bounds every trajectory, over all of its
\* turns, and leaves room whenever the backend is asked (session.py 409,
\* 457-469, 501-508).
CapacityRespected ==
  /\ \A b \in Buffers : Size(b) <= Capacity
  /\ \A r \in Requests : pc[r] = "generating" => Size(encoded[r].buffer) < Capacity

-----------------------------------------------------------------------------
(* Order and closing.                                                      *)

\* The chain of the request answered last is the newest, in completion order
\* and whatever the order the requests arrived in (session.py 683, 702).
AnsweredChainIsNewest ==
  [][\A r \in Requests : pc'[r] = "ok" /\ pc[r] # "ok" =>
       \E c \in DOMAIN active_chains' :
         /\ r \in Range(active_chains'[c].buffer.generation_versions)
         /\ \A d \in DOMAIN active_chains' \ {c} :
              active_chains'[d].updated_seq < active_chains'[c].updated_seq
         /\ \A t \in materialized_chains' :
              t.order_seq < active_chains'[c].updated_seq]_vars

\* A closed session never changes again: no late commit, no late reward, no
\* second outcome (session.py 234-238, 300-304, 331, 340-343, 358-361).
ClosedIsFrozen == [][phase # "ACTIVE" => UNCHANGED sessionVars]_vars

-----------------------------------------------------------------------------
(* Liveness.                                                               *)

\* Whatever becomes of the session, a request that reached the backend gets
\* its outcome (session.py 257-326).
RequestAnswered ==
  \A r \in Requests : pc[r] = "generating" ~> pc[r] \in Answered

-----------------------------------------------------------------------------
(* Every step of the session is a step of the ledger of turns.             *)

Ledger ==
  INSTANCE TurnLedger WITH
    Turns     <- Requests,
    state     <- phase,
    answered  <- {r \in Requests : pc[r] = "ok"},
    ledger    <- [r \in Requests |-> Surviving(r)],
    delivered <- [r \in Requests |-> Delivered(r)]

\* The session implements TurnLedger: answering a turn makes it trainable in
\* one place and makes at most one other turn vanish; finalize delivers
\* exactly the ledger (session.py 218-366).
ImplementsTurnLedger == Ledger!Spec

-----------------------------------------------------------------------------
(* What the documentation says and the code does not do.                   *)

\* docs/source/concepts/gateway-and-trajectories.md:81-84: when a client
\* rewrites only the most recent Assistant message, the Gateway rolls the
\* matching chain back.  Here: the stored tokens always allow it (session.py
\* 436-440 raises ValueError when they do not).
LatestRewriteRollsBack ==
  \A call \in Calls : \A c \in Chosen(call) \ Exact(call) :
    EndsWithPrefix(active_chains[c].buffer, Start(c).response_ids_len)

\* session.py 720-724 deletes a chain when "no trainable response prefix
\* survives this rollback", so a trajectory closed for its length still has
\* tokens to train on.
ClosedTrajectoriesTrainable ==
  \A t \in materialized_chains : Ones(t.buffer.response_mask, 1) > 0

\* docs/source/concepts/gateway-and-trajectories.md:81-84 again: only a
\* rewrite rolls a chain back.  A request that merely continues a chain, busy
\* at the moment, rewrites nothing.
OnlyRewritesRollBack ==
  [][\A r \in Requests :
       pc[r] = "idle" /\ pc'[r] = "generating" /\ encoded'[r].rollback_applied =>
         \A c \in reserved_chain_ids : ~IsChainPrefix(c, encoded'[r].messages)]_vars
=============================================================================
