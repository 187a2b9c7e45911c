------------------------ MODULE GatewaySessionProofs ------------------------
(***************************************************************************)
(* Theorems about GatewaySession, for any requests, messages, calls,       *)
(* capacity and options that satisfy SessionAssumption.                    *)
(*                                                                         *)
(* TypeInv is inductive by itself: type correctness needs to know that the *)
(* parallel arrays of a buffer are equally long and that the boundary of   *)
(* the latest assistant lies inside the response, since a rollback slices  *)
(* there.  ReservationInv is inductive relative to it: the reservation     *)
(* protocol needs that chain ids are allocated upwards, so that a commit   *)
(* cannot overwrite a chain somebody else holds.  TokenInv is inductive    *)
(* relative to TypeInv: what the tokens of a chain say stays true through  *)
(* a rollback only if its boundary delimits the latest assistant, and the  *)
(* boundary stays right only if the tokens before it say the messages      *)
(* before it, so both are one invariant.                                   *)
(***************************************************************************)
EXTENDS GatewaySessionLemmas

\* What rollback relies on of a chain at rest and of one in flight.
ChainShape(c) ==
  /\ Aligned(active_chains[c].buffer)
  /\ Len(active_chains[c].buffer.generation_versions) \in Nat \ {0}
  /\ Start(c).response_ids_len \in 0..Len(active_chains[c].buffer.response_ids)
  /\ Start(c).message_history_len \in Nat \ {0}

RequestShape(r) ==
  pc[r] = "generating" =>
    /\ Aligned(encoded[r].buffer)
    /\ encoded[r].last_assistant_start.response_ids_len
         = Len(encoded[r].buffer.response_ids)
    /\ encoded[r].last_assistant_start.message_history_len \in Nat \ {0}

Shapes ==
  /\ \A c \in DOMAIN active_chains : ChainShape(c)
  /\ \A r \in Requests : RequestShape(r)
  /\ IsFiniteSet(DOMAIN active_chains) /\ IsFiniteSet(materialized_chains)

TypeInv == TypeOK /\ Shapes

USE SessionAssumption

\* The session's steps for whatever its clients send, not only Calls: another
\* module may drive the session by calls of its own.
Serve(r) ==
  \E call \in ChatRequest : \/ StartChain(r, call)
                           \/ ContinueChain(r, call)
                           \/ RollbackChain(r, call)

Step ==
  \/ \E r \in Requests : RefuseClosed(r) \/ Serve(r) \/ Resume(r) \/ Release(r)
  \/ \E w \in Rewards : SetReward(w)
  \/ Finalize
  \/ Abort

LEMMA NextIsStep == [Next]_vars => [Step]_vars
<1>1. \A r \in Requests : Prepare(r) => Serve(r)
  BY DEF Prepare, Serve, SessionAssumption
<1> QED
  BY <1>1 DEF Next, Step, Terminated

-----------------------------------------------------------------------------
(* A closed session.                                                       *)

\* Every action that touches the session requires it to be active.
LEMMA ClosedStep ==
  ASSUME [Step]_vars, phase # "ACTIVE" PROVE UNCHANGED sessionVars
BY DEF Step, vars, sessionVars, Serve, Resume, RefuseClosed, Release, Fail, Preparing,
   StartChain, ContinueChain, RollbackChain, Commit, CanCommit, SetReward, Finalize,
   Abort, Terminated

LEMMA ClosedPhase ==
  ASSUME [Step]_vars, phase' = "ACTIVE" PROVE phase = "ACTIVE"
BY ClosedStep DEF sessionVars

\* A closed session never changes again: no late commit, no late reward, no
\* second outcome (session.py 234-238, 300-304, 331, 340-343, 358-361).
THEOREM ClosedStaysClosed == Spec => ClosedIsFrozen
<1>1. [Step]_vars => (phase # "ACTIVE" => UNCHANGED sessionVars)
  BY ClosedStep
<1> QED
  BY <1>1, NextIsStep, PTL DEF Spec, ClosedIsFrozen

-----------------------------------------------------------------------------
(* Types.                                                                  *)

LEMMA CallType ==
  ASSUME NEW call \in ChatRequest
  PROVE  /\ call.messages \in Seq(Messages) /\ call.tools \in Tools
         /\ Len(call.messages) \in Nat \ {0}
<1>1. call.messages \in Seq(Messages) \ {<< >>} /\ call.tools \in Tools
  BY DEF ChatRequest
<1> QED
  BY <1>1, EmptySeq

\* The types of one chain, from those of the state.
LEMMA ChainType ==
  ASSUME TypeInv, NEW c \in DOMAIN active_chains
  PROVE  /\ c \in Nat \ {0}
         /\ active_chains[c] \in ChainState
         /\ active_chains[c].buffer \in TrajectoryBuffer
         /\ Start(c) \in LastAssistantStart
         /\ active_chains[c].message_history \in Seq(Messages)
         /\ active_chains[c].updated_seq \in Nat
         /\ ChainShape(c)
BY DEF TypeInv, TypeOK, Shapes, ChainState, Start

\* Whoever hands a well-formed buffer to the backend keeps the types.
LEMMA GenerateKeepsTypes ==
  ASSUME TypeInv, NEW r \in Requests, NEW call \in ChatRequest, NEW c \in Nat,
         NEW b \in TrajectoryBuffer, Aligned(b), NEW rollback \in BOOLEAN,
         NEW dropped \in Nat, Generate(r, call, c, b, rollback, dropped)
  PROVE  TypeInv'
<1> DEFINE las == Snapshot(b, call.messages)
           e   == [chain_id |-> c, buffer |-> b, messages |-> call.messages,
                   tools |-> call.tools, last_assistant_start |-> las,
                   rollback_applied |-> rollback, dropped |-> dropped]
<1>1. b.response_ids \in Seq(Token)
  BY DEF TrajectoryBuffer
<1>2. Len(b.response_ids) \in Nat
  BY <1>1, LenProperties
<1>3. las \in LastAssistantStart /\ las.response_ids_len = Len(b.response_ids)
      /\ las.message_history_len \in Nat \ {0}
  BY <1>2, CallType DEF Snapshot, LastAssistantStart
<1>4. e \in EncodedData
  <2> HIDE DEF las
  <2> QED
    BY <1>3, CallType DEF EncodedData
<1>5. /\ pc' = [pc EXCEPT ![r] = "generating"]
      /\ encoded' = [encoded EXCEPT ![r] = e]
      /\ held' = [held EXCEPT ![r] = c]
      /\ reserved_chain_ids' = reserved_chain_ids \cup ({c} \ {0})
      /\ UNCHANGED <<sessionVars, completion>>
  BY DEF Generate
<1>6. e.buffer = b /\ e.last_assistant_start = las
  OBVIOUS
<1> HIDE DEF e, las
<1>7. TypeOK'
  BY <1>4, <1>5 DEF TypeInv, TypeOK, sessionVars, chainVars, Answered
<1>8. \A q \in Requests : RequestShape(q)'
  <2> SUFFICES ASSUME NEW q \in Requests PROVE RequestShape(q)'
    OBVIOUS
  <2>1. CASE q = r
    BY <2>1, <1>3, <1>5, <1>6 DEF TypeInv, TypeOK, RequestShape
  <2>2. CASE q # r
    BY <2>2, <1>5 DEF TypeInv, TypeOK, Shapes, RequestShape
  <2> QED
    BY <2>1, <2>2
<1>9. Shapes'
  BY <1>5, <1>8 DEF TypeInv, Shapes, ChainShape, Start, sessionVars, chainVars
<1> QED
  BY <1>7, <1>9 DEF TypeInv

\* An outcome without an effect on the session.
LEMMA RespondKeepsTypes ==
  ASSUME TypeInv, NEW r \in Requests, NEW outcome \in Answered,
         Respond(r, outcome), UNCHANGED <<sessionVars, reserved_chain_ids>>
  PROVE  TypeInv'
<1> "generating" \notin Answered
  BY DEF Answered
<1>1. TypeOK'
  BY DEF Respond, TypeInv, TypeOK, sessionVars, chainVars, Answered
<1>2. Shapes'
  BY DEF Respond, TypeInv, TypeOK, Shapes, ChainShape, RequestShape, Start,
         sessionVars, chainVars
<1> QED
  BY <1>1, <1>2 DEF TypeInv

\* Closing a chain that has no room left (session.py 716-747).
LEMMA CloseKeepsTypes ==
  ASSUME TypeInv, NEW r \in Requests, NEW call \in ChatRequest,
         NEW c \in DOMAIN active_chains, NEW b \in TrajectoryBuffer,
         NEW rollback \in BOOLEAN, NEW dropped \in Nat,
         Start(c).message_history_len < Len(call.messages),
         CloseExhausted(c, call, b, rollback, dropped), Respond(r, "length")
  PROVE  TypeInv'
<1>1. Start(c) \in LastAssistantStart /\ ChainShape(c)
      /\ active_chains[c].message_history \in Seq(Messages)
      /\ active_chains[c].buffer \in TrajectoryBuffer
  BY ChainType
<1>2. /\ Start(c).message_history_len \in 0..Len(call.messages)
      /\ call.messages \in Seq(Messages)
  BY <1>1, CallType DEF ChainShape
<1>3. Take(call.messages, Start(c).message_history_len) \in Seq(Messages)
  BY <1>2, TakeType
<1>4. order_seq + 1 \in Nat
  BY DEF TypeInv, TypeOK
<1>5. /\ Materialized(b, Take(call.messages, Start(c).message_history_len),
                      order_seq + 1, "max_trajectory_length") \in Trajectory
      /\ Materialized(active_chains[c].buffer, active_chains[c].message_history,
                      order_seq + 1, "max_trajectory_length") \in Trajectory
  BY <1>1, <1>3, <1>4, LenProperties, MaterializedType
<1>6. /\ materialized_chains' \subseteq Trajectory
      /\ IsFiniteSet(materialized_chains')
      /\ order_seq' \in Nat
  <2>1. CASE UNCHANGED <<materialized_chains, order_seq>>
    BY <2>1 DEF TypeInv, TypeOK, Shapes
  <2>2. ASSUME NEW t \in Trajectory, order_seq' = order_seq + 1,
               materialized_chains' = materialized_chains \cup {t}
        PROVE  <1>6!:
    <3>1. IsFiniteSet(materialized_chains \cup {t})
      BY FS_AddElement DEF TypeInv, Shapes
    <3> QED
      BY <3>1, <2>2 DEF TypeInv, TypeOK
  <2> QED
    BY <2>1, <2>2, <1>5 DEF CloseExhausted
<1>7. /\ active_chains' = [d \in DOMAIN active_chains \ {c} |-> active_chains[d]]
      /\ UNCHANGED <<phase, next_chain_id, reward_info, returned, reserved_chain_ids>>
      /\ RecordRollback(rollback, dropped)
  BY DEF CloseExhausted
<1>8. rollback_count' \in Nat /\ rollback_dropped' \in Nat
  BY <1>7 DEF RecordRollback, TypeInv, TypeOK
<1>9. TypeOK'
  BY <1>6, <1>7, <1>8 DEF Respond, TypeInv, TypeOK, Answered
<1>10. Shapes'
  <2>1. IsFiniteSet(DOMAIN active_chains \ {c})
    BY FS_RemoveElement DEF TypeInv, Shapes
  <2>2. \A d \in DOMAIN active_chains' : ChainShape(d)'
    BY <1>7 DEF TypeInv, Shapes, ChainShape, Start
  <2>3. \A q \in Requests : RequestShape(q)'
    BY DEF Respond, TypeInv, TypeOK, Shapes, RequestShape, Answered
  <2> QED
    BY <2>1, <2>2, <2>3, <1>6, <1>7 DEF Shapes
<1> QED
  BY <1>9, <1>10 DEF TypeInv

\* The common tail of preparing a continuation (session.py 449-515).
LEMMA ExtendKeepsTypes ==
  ASSUME TypeInv, NEW r \in Requests, NEW call \in ChatRequest,
         NEW c \in DOMAIN active_chains, NEW b \in TrajectoryBuffer, Aligned(b),
         NEW suffix \in Seq(Messages), NEW rollback \in BOOLEAN,
         NEW dropped \in Nat, Start(c).message_history_len < Len(call.messages),
         Extend(r, call, c, b, suffix, rollback, dropped)
  PROVE  TypeInv'
<1>1. CASE Respond(r, "rejected") /\ UNCHANGED <<sessionVars, reserved_chain_ids>>
  BY <1>1, RespondKeepsTypes DEF Answered
<1>2. CASE CloseExhausted(c, call, b, rollback, dropped) /\ Respond(r, "length")
  BY <1>2, CloseKeepsTypes
<1>3. CASE Generate(r, call, c, AddContext(b, encode_incremental(suffix)),
                    rollback, dropped)
  <2>1. encode_incremental(suffix) \in Seq(Token)
    BY encode_incrementalType
  <2>2. /\ AddContext(b, encode_incremental(suffix)) \in TrajectoryBuffer
        /\ Aligned(AddContext(b, encode_incremental(suffix)))
    BY <2>1, AddContextType
  <2>3. c \in Nat
    BY ChainType
  <2> QED
    BY <1>3, <2>2, <2>3, GenerateKeepsTypes
<1> QED
  BY <1>1, <1>2, <1>3 DEF Extend

\* The messages of a call after position n.
LEMMA SuffixType ==
  ASSUME NEW call \in ChatRequest, NEW n \in Nat
  PROVE  SubSeq(call.messages, n + 1, Len(call.messages)) \in Seq(Messages)
<1>1. \A i \in (n + 1)..Len(call.messages) : call.messages[i] \in Messages
  BY CallType, ElementOfSeq
<1>2. n + 1 \in Int /\ Len(call.messages) \in Int
  BY CallType
<1> QED
  BY <1>1, <1>2, SubSeqProperties

\* A chosen chain is eligible.
LEMMA ChosenChain ==
  ASSUME NEW call, NEW c \in Chosen(call)
  PROVE  /\ c \in DOMAIN active_chains \ reserved_chain_ids
         /\ Start(c).message_history_len < Len(call.messages)
BY DEF Chosen, Candidates, Exact, Deepest, Stale, Eligible

\* The buffer a new chain starts with.
LEMMA PromptType ==
  ASSUME NEW call \in ChatRequest
  PROVE  LET b == [EmptyBuffer EXCEPT !.prompt_ids = encode_full(call.messages)]
         IN  b \in TrajectoryBuffer /\ Aligned(b)
<1>1. encode_full(call.messages) \in Seq(Token)
  BY CallType, encode_fullType
<1>2. [EmptyBuffer EXCEPT !.prompt_ids = encode_full(call.messages)] =
        [prompt_ids |-> encode_full(call.messages), response_ids |-> << >>,
         response_mask |-> << >>, response_logprobs |-> << >>,
         generation_versions |-> << >>]
  BY DEF EmptyBuffer
<1>3. \A S : << >> \in Seq(S)
  BY EmptySeq
<1> QED
  BY <1>1, <1>2, <1>3 DEF TrajectoryBuffer, Aligned

LEMMA StartChainKeepsTypes ==
  ASSUME TypeInv, NEW r \in Requests, NEW call \in ChatRequest, StartChain(r, call)
  PROVE  TypeInv'
<1> DEFINE b == [EmptyBuffer EXCEPT !.prompt_ids = encode_full(call.messages)]
<1>1. b \in TrajectoryBuffer /\ Aligned(b)
  BY PromptType
<1>2. CASE Respond(r, "length") /\ UNCHANGED <<sessionVars, reserved_chain_ids>>
  BY <1>2, RespondKeepsTypes DEF Answered
<1>3. CASE Generate(r, call, 0, b, FALSE, 0)
  <2> HIDE DEF b
  <2> QED
    BY <1>1, <1>3, GenerateKeepsTypes
<1> QED
  BY <1>2, <1>3 DEF StartChain

LEMMA ContinueChainKeepsTypes ==
  ASSUME TypeInv, NEW r \in Requests, NEW call \in ChatRequest, ContinueChain(r, call)
  PROVE  TypeInv'
<1>1. PICK c \in Chosen(call) \cap Exact(call) :
        Extend(r, call, c, active_chains[c].buffer,
               SubSeq(call.messages, Len(active_chains[c].message_history) + 1,
                      Len(call.messages)), FALSE, 0)
  BY DEF ContinueChain
<1>2. c \in DOMAIN active_chains /\ Start(c).message_history_len < Len(call.messages)
  BY ChosenChain
<1>3. /\ active_chains[c].buffer \in TrajectoryBuffer
      /\ Aligned(active_chains[c].buffer)
      /\ Len(active_chains[c].message_history) \in Nat
  BY <1>2, ChainType, LenProperties DEF ChainShape
<1>4. SubSeq(call.messages, Len(active_chains[c].message_history) + 1,
             Len(call.messages)) \in Seq(Messages)
  BY <1>3, SuffixType
<1> QED
  BY <1>1, <1>2, <1>3, <1>4, ExtendKeepsTypes

LEMMA RollbackChainKeepsTypes ==
  ASSUME TypeInv, NEW r \in Requests, NEW call \in ChatRequest, RollbackChain(r, call)
  PROVE  TypeInv'
<1>1. PICK c \in Chosen(call) \ Exact(call) :
        LET b == active_chains[c].buffer
            n == Start(c).response_ids_len
        IN  \/ /\ Respond(r, "rejected")
               /\ UNCHANGED <<sessionVars, reserved_chain_ids>>
            \/ /\ EndsWithPrefix(b, n)
               /\ Extend(r, call, c, CutLastAssistant(b, n),
                         SubSeq(call.messages, Start(c).message_history_len + 1,
                                Len(call.messages)),
                         TRUE, Ones(b.response_mask, n + 1))
  BY DEF RollbackChain
<1> DEFINE b == active_chains[c].buffer
           n == Start(c).response_ids_len
<1>2. c \in DOMAIN active_chains /\ Start(c).message_history_len < Len(call.messages)
  BY ChosenChain
<1>3. /\ b \in TrajectoryBuffer /\ Aligned(b)
      /\ n \in 0..Len(b.response_ids) /\ Len(b.generation_versions) \in Nat \ {0}
      /\ Start(c).message_history_len \in Nat
  BY <1>2, ChainType DEF ChainShape
<1>4. n + 1 \in Nat /\ Len(b.response_mask) \in Nat
  BY <1>3, LenProperties DEF TrajectoryBuffer, Aligned
<1>5. SubSeq(call.messages, Start(c).message_history_len + 1, Len(call.messages))
        \in Seq(Messages)
  BY <1>3, SuffixType
<1>6. Ones(b.response_mask, n + 1) \in Nat
  BY <1>4, OnesType
<1>7. CASE Respond(r, "rejected") /\ UNCHANGED <<sessionVars, reserved_chain_ids>>
  BY <1>7, RespondKeepsTypes DEF Answered
<1>8. CASE /\ EndsWithPrefix(b, n)
           /\ Extend(r, call, c, CutLastAssistant(b, n),
                     SubSeq(call.messages, Start(c).message_history_len + 1,
                            Len(call.messages)),
                     TRUE, Ones(b.response_mask, n + 1))
  <2> HIDE DEF b, n
  <2>1. CutLastAssistant(b, n) \in TrajectoryBuffer /\ Aligned(CutLastAssistant(b, n))
    BY <1>3, <1>8, CutLastAssistantType
  <2> QED
    BY <1>2, <1>5, <1>6, <1>8, <2>1, ExtendKeepsTypes
<1> QED
  BY <1>1, <1>7, <1>8

LEMMA FailKeepsTypes ==
  ASSUME TypeInv, NEW r \in Requests, Fail(r)
  PROVE  TypeInv'
<1>1. TypeOK'
  BY NotEncodedType DEF Fail, TypeInv, TypeOK, sessionVars, chainVars, Answered
<1>2. Shapes'
  BY DEF Fail, TypeInv, TypeOK, Shapes, ChainShape, RequestShape, Start,
         sessionVars, chainVars
<1> QED
  BY <1>1, <1>2 DEF TypeInv

LEMMA ReleaseKeepsTypes ==
  ASSUME TypeInv, NEW r \in Requests, Release(r)
  PROVE  TypeInv'
<1>1. TypeOK'
  BY DEF Release, TypeInv, TypeOK, sessionVars, chainVars, Answered
<1>2. Shapes'
  BY DEF Release, TypeInv, TypeOK, Shapes, ChainShape, RequestShape, Start,
         sessionVars, chainVars
<1> QED
  BY <1>1, <1>2 DEF TypeInv

\* A commit (session.py 674-714) stores the backend's answer under the boundary
\* that prepare noted before it.
LEMMA CommitKeepsTypes ==
  ASSUME TypeInv, NEW r \in Requests, NEW o \in Outputs, Commit(r, o)
  PROVE  TypeInv'
<1> DEFINE e       == encoded[r]
           c       == IF e.chain_id = 0 THEN next_chain_id ELSE e.chain_id
           history == Append(e.messages, o)
           b       == AddGeneration(e.buffer, r, Generated(r, o))
           new     == Committed(e, history, b)
<1>1. /\ e \in EncodedData /\ pc[r] = "generating" /\ Aligned(e.buffer)
      /\ e.last_assistant_start.response_ids_len = Len(e.buffer.response_ids)
      /\ e.last_assistant_start.message_history_len \in Nat \ {0}
  BY DEF Commit, CanCommit, TypeInv, TypeOK, Shapes, RequestShape
<1>2. /\ e.chain_id \in Nat /\ e.buffer \in TrajectoryBuffer
      /\ e.messages \in Seq(Messages) /\ e.tools \in Tools
      /\ e.last_assistant_start \in LastAssistantStart /\ e.dropped \in Nat
      /\ e.buffer.response_ids \in Seq(Token)
  BY <1>1 DEF EncodedData, TrajectoryBuffer
<1>3. c \in Nat \ {0}
  BY <1>2 DEF TypeInv, TypeOK
<1>4. history \in Seq(Messages)
  BY <1>2 DEF SessionAssumption
<1>5. /\ b \in TrajectoryBuffer /\ Aligned(b)
      /\ Len(b.response_ids) = Len(e.buffer.response_ids) + OutLen[o]
      /\ OutLen[o] \in Nat \ {0}
      /\ Len(b.generation_versions) \in Nat \ {0}
  <2> DEFINE ids == Generated(r, o)
  <2>1. ids \in Seq(Token) /\ Len(ids) = OutLen[o] /\ OutLen[o] \in Nat \ {0}
    BY GeneratedType
  <2>2. b = AddGeneration(e.buffer, r, ids)
    OBVIOUS
  <2> DEFINE old == e.buffer
  <2>3. old \in TrajectoryBuffer /\ Aligned(old)
    BY <1>1, <1>2
  <2> HIDE DEF ids, e, b, old
  <2>4. /\ AddGeneration(old, r, ids) \in TrajectoryBuffer
        /\ Aligned(AddGeneration(old, r, ids))
        /\ Len(AddGeneration(old, r, ids).response_ids)
             = Len(old.response_ids) + Len(ids)
        /\ Len(AddGeneration(old, r, ids).generation_versions) \in Nat \ {0}
    BY <2>1, <2>3, AddGenerationType
  <2> QED
    BY <2>1, <2>2, <2>4 DEF old
<1>6. Len(e.buffer.response_ids) \in Nat
  BY <1>2, LenProperties
<1>7. /\ active_chains' = [d \in DOMAIN active_chains \cup {c} |->
                             IF d = c THEN new ELSE active_chains[d]]
      /\ next_chain_id' = next_chain_id + IF e.chain_id = 0 THEN 1 ELSE 0
      /\ order_seq' = order_seq + 1
      /\ RecordRollback(e.rollback_applied, e.dropped)
      /\ reserved_chain_ids' = reserved_chain_ids \ {held[r]}
      /\ held' = [held EXCEPT ![r] = 0]
      /\ encoded' = [encoded EXCEPT ![r] = NotEncoded]
      /\ completion' = [completion EXCEPT ![r] = OutLen[o]]
      /\ pc' = [pc EXCEPT ![r] = "ok"]
      /\ UNCHANGED <<phase, materialized_chains, reward_info, returned>>
  BY DEF Commit, CommitChain
<1> HIDE DEF e, c, history, b
<1>8. /\ new \in ChainState
      /\ new.buffer = b /\ new.last_assistant_start = e.last_assistant_start
  BY <1>2, <1>4, <1>5 DEF Committed, ChainState, TypeInv, TypeOK
<1> HIDE DEF new
<1>9. rollback_count' \in Nat /\ rollback_dropped' \in Nat
  BY <1>2, <1>7 DEF RecordRollback, TypeInv, TypeOK
<1>10. TypeOK'
  <2>1. \A d \in DOMAIN active_chains' :
          d \in Nat \ {0} /\ active_chains'[d] \in ChainState
    BY <1>3, <1>7, <1>8 DEF TypeInv, TypeOK
  <2>2. next_chain_id' \in Nat \ {0} /\ order_seq' \in Nat
    BY <1>7 DEF TypeInv, TypeOK
  <2>3. /\ pc' \in [Requests -> {"idle", "generating", "releasing"} \cup Answered]
        /\ encoded' \in [Requests -> EncodedData] /\ held' \in [Requests -> Nat]
        /\ completion' \in [Requests -> Nat]
        /\ reserved_chain_ids' \subseteq Nat \ {0}
    BY <1>5, <1>7, NotEncodedType DEF TypeInv, TypeOK, Answered
  <2> QED
    BY <1>7, <1>9, <2>1, <2>2, <2>3 DEF TypeInv, TypeOK
<1>11. Shapes'
  <2>1. IsFiniteSet(DOMAIN active_chains \cup {c})
    BY FS_AddElement DEF TypeInv, Shapes
  <2>2. ASSUME NEW d \in DOMAIN active_chains' PROVE ChainShape(d)'
    <3>1. CASE d = c
      <4>1. active_chains'[d] = new
        BY <3>1, <1>7
      <4> QED
        BY <4>1, <1>1, <1>5, <1>6, <1>8 DEF ChainShape, Start
    <3>2. CASE d # c
      <4>1. d \in DOMAIN active_chains /\ active_chains'[d] = active_chains[d]
        BY <3>2, <1>7
      <4> QED
        BY <4>1 DEF TypeInv, Shapes, ChainShape, Start
    <3> QED
      BY <3>1, <3>2
  <2>3. \A q \in Requests : RequestShape(q)'
    BY <1>7 DEF TypeInv, TypeOK, Shapes, RequestShape
  <2> QED
    BY <2>1, <2>2, <2>3, <1>7 DEF TypeInv, Shapes
<1> QED
  BY <1>10, <1>11 DEF TypeInv

\* finalize (session.py 337-353) turns every chain into a trajectory.
LEMMA ActiveTrajectoriesType ==
  ASSUME TypeInv
  PROVE  ActiveTrajectories \subseteq Trajectory /\ IsFiniteSet(ActiveTrajectories)
<1> DEFINE M(c) == Materialized(active_chains[c].buffer,
                                active_chains[c].message_history,
                                active_chains[c].updated_seq, "none")
           f == [c \in DOMAIN active_chains |-> M(c)]
<1>1. ASSUME NEW c \in DOMAIN active_chains PROVE M(c) \in Trajectory
  BY <1>1, ChainType, LenProperties, MaterializedType
<1> HIDE DEF M
<1>2. f \in Surjection(DOMAIN active_chains, {M(c) : c \in DOMAIN active_chains})
  BY DEF Surjection
<1>3. IsFiniteSet({M(c) : c \in DOMAIN active_chains})
  BY <1>2, FS_Surjection DEF TypeInv, Shapes
<1> QED
  BY <1>1, <1>3 DEF ActiveTrajectories, M

LEMMA FinalizeKeepsTypes ==
  ASSUME TypeInv, Finalize
  PROVE  TypeInv'
<1>1. /\ materialized_chains' \subseteq Trajectory
      /\ IsFiniteSet(materialized_chains')
  <2>1. IsFiniteSet(materialized_chains \cup ActiveTrajectories)
    BY ActiveTrajectoriesType, FS_Union DEF TypeInv, Shapes
  <2> QED
    BY <2>1, ActiveTrajectoriesType DEF Finalize, TypeInv, TypeOK
<1>2. returned' \in Seq(Trajectory)
  <2>1. PICK s \in InOrder(materialized_chains') :
          returned' = [i \in DOMAIN s |-> [s[i] EXCEPT !.reward_info = reward_info]]
    BY DEF Finalize
  <2> DEFINE n == Cardinality(materialized_chains')
  <2>2. n \in Nat
    BY <1>1, FS_CardinalityType
  <2>3. s \in [1..n -> Trajectory]
    BY <1>1 DEF InOrder
  <2>4. \A i \in 1..n : [s[i] EXCEPT !.reward_info = reward_info] \in Trajectory
    <3> SUFFICES ASSUME NEW t \in Trajectory
                 PROVE  [t EXCEPT !.reward_info = reward_info] \in Trajectory
      BY <2>3
    <3>1. reward_info \in Rewards \cup {NoReward}
      BY DEF TypeInv, TypeOK
    <3> QED
      BY <3>1 DEF Trajectory
  <2> HIDE DEF n
  <2> QED
    BY <2>1, <2>2, <2>3, <2>4
<1>3. TypeOK'
  BY <1>1, <1>2 DEF Finalize, TypeInv, TypeOK, requestVars
<1>4. DOMAIN active_chains' = {}
  BY DEF Finalize
<1>5. Shapes'
  BY <1>1, <1>4, FS_EmptySet DEF Finalize, TypeInv, Shapes, RequestShape, requestVars
<1> QED
  BY <1>3, <1>5 DEF TypeInv

LEMMA AbortKeepsTypes ==
  ASSUME TypeInv, Abort
  PROVE  TypeInv'
<1>1. DOMAIN active_chains' = {}
  BY DEF Abort
<1>2. TypeOK'
  BY <1>1 DEF Abort, TypeInv, TypeOK, requestVars
<1>3. Shapes'
  BY <1>1, FS_EmptySet DEF Abort, TypeInv, Shapes, RequestShape, requestVars
<1> QED
  BY <1>2, <1>3 DEF TypeInv

LEMMA SetRewardKeepsTypes ==
  ASSUME TypeInv, NEW w \in Rewards, SetReward(w)
  PROVE  TypeInv'
<1>1. TypeOK'
  BY DEF SetReward, TypeInv, TypeOK, requestVars, chainVars
<1>2. Shapes'
  BY DEF SetReward, TypeInv, Shapes, ChainShape, RequestShape, Start, requestVars, chainVars
<1> QED
  BY <1>1, <1>2 DEF TypeInv

LEMMA TypeInit == Init => TypeInv
<1> SUFFICES ASSUME Init PROVE TypeInv
  OBVIOUS
<1>1. DOMAIN active_chains = {}
  BY DEF Init
<1>2. TypeOK
  BY <1>1, NotEncodedType, EmptySeq DEF Init, TypeOK, Answered
<1>3. Shapes
  BY <1>1, FS_EmptySet DEF Init, Shapes, RequestShape
<1> QED
  BY <1>2, <1>3 DEF TypeInv

LEMMA TypeStep == TypeInv /\ [Step]_vars => TypeInv'
<1> SUFFICES ASSUME TypeInv, [Step]_vars PROVE TypeInv'
  OBVIOUS
<1>1. ASSUME NEW r \in Requests, RefuseClosed(r) PROVE TypeInv'
  BY <1>1, RespondKeepsTypes DEF RefuseClosed, Answered
<1>2. ASSUME NEW r \in Requests, NEW call \in ChatRequest, StartChain(r, call) PROVE TypeInv'
  BY <1>2, StartChainKeepsTypes
<1>3. ASSUME NEW r \in Requests, NEW call \in ChatRequest, ContinueChain(r, call) PROVE TypeInv'
  BY <1>3, ContinueChainKeepsTypes
<1>4. ASSUME NEW r \in Requests, NEW call \in ChatRequest, RollbackChain(r, call) PROVE TypeInv'
  BY <1>4, RollbackChainKeepsTypes
<1>5. ASSUME NEW r \in Requests, Fail(r) PROVE TypeInv'
  BY <1>5, FailKeepsTypes
<1>6. ASSUME NEW r \in Requests, NEW o \in Outputs, Commit(r, o) PROVE TypeInv'
  BY <1>6, CommitKeepsTypes
<1>7. ASSUME NEW r \in Requests, Release(r) PROVE TypeInv'
  BY <1>7, ReleaseKeepsTypes
<1>8. ASSUME NEW w \in Rewards, SetReward(w) PROVE TypeInv'
  BY <1>8, SetRewardKeepsTypes
<1>9. CASE UNCHANGED vars
  <2>1. TypeOK'
    BY <1>9 DEF TypeInv, TypeOK, vars, sessionVars, chainVars, requestVars
  <2>2. Shapes'
    BY <1>9 DEF TypeInv, Shapes, ChainShape, RequestShape, Start, vars,
                sessionVars, chainVars, requestVars
  <2> QED
    BY <2>1, <2>2 DEF TypeInv
<1> QED
  BY <1>1, <1>2, <1>3, <1>4, <1>5, <1>6, <1>7, <1>8, <1>9,
     FinalizeKeepsTypes, AbortKeepsTypes
     DEF Step, Serve, Resume

\* Every variable of a session always has its type, and what a rollback slices
\* is there to be sliced (session.py 23-142, 416-447).
THEOREM TypeCorrect == Spec => []TypeOK
<1>1. TypeInv => TypeOK
  BY DEF TypeInv
<1> QED
  BY <1>1, TypeInit, TypeStep, NextIsStep, PTL DEF Spec

-----------------------------------------------------------------------------
(* Reservations.                                                           *)

\* Chain ids are allocated upwards (session.py 755-758).
IdsAllocated == \A c \in DOMAIN active_chains : c < next_chain_id

ReservationInv == ReservationsExact /\ IdsAllocated

\* What preparing a request means for the reservations: nothing, a chain that
\* nobody holds is closed, or the request reserves one such chain or none.
Reserves(r, c) ==
  /\ pc' = [pc EXCEPT ![r] = "generating"]
  /\ held' = [held EXCEPT ![r] = c]
  /\ reserved_chain_ids' = reserved_chain_ids \cup ({c} \ {0})
  /\ encoded'[r].chain_id = c
  /\ \A q \in Requests \ {r} : encoded'[q] = encoded[q]
  /\ UNCHANGED <<phase, active_chains, next_chain_id>>

Closes(r, c) ==
  /\ active_chains' = [d \in DOMAIN active_chains \ {c} |-> active_chains[d]]
  /\ Respond(r, "length")
  /\ UNCHANGED <<phase, next_chain_id, reserved_chain_ids>>

Free == DOMAIN active_chains \ reserved_chain_ids

Prepares(r) ==
  /\ pc[r] = "idle" /\ phase = "ACTIVE"
  /\ \/ \E outcome \in Answered :
          Respond(r, outcome) /\ UNCHANGED <<sessionVars, reserved_chain_ids>>
     \/ \E c \in {0} \cup Free : Reserves(r, c)
     \/ \E c \in Free : Closes(r, c)

LEMMA GenerateReserves ==
  ASSUME TypeOK, NEW r \in Requests, NEW call, NEW c, NEW b, NEW rollback, NEW dropped,
         Generate(r, call, c, b, rollback, dropped)
  PROVE  Reserves(r, c)
BY DEF Generate, Reserves, TypeOK, sessionVars, chainVars

LEMMA ExtendPrepares ==
  ASSUME TypeOK, NEW r \in Requests, NEW call, NEW c \in Free, NEW b, NEW suffix,
         NEW rollback, NEW dropped, pc[r] = "idle", phase = "ACTIVE",
         Extend(r, call, c, b, suffix, rollback, dropped)
  PROVE  Prepares(r)
<1>1. CASE Respond(r, "rejected") /\ UNCHANGED <<sessionVars, reserved_chain_ids>>
  BY <1>1 DEF Prepares, Answered
<1>2. CASE CloseExhausted(c, call, b, rollback, dropped) /\ Respond(r, "length")
  <2>1. Closes(r, c)
    BY <1>2 DEF CloseExhausted, Closes
  <2> QED
    BY <2>1 DEF Prepares
<1>3. CASE Generate(r, call, c, AddContext(b, encode_incremental(suffix)),
                    rollback, dropped)
  <2>1. Reserves(r, c)
    BY <1>3, GenerateReserves
  <2> QED
    BY <2>1 DEF Prepares
<1> QED
  BY <1>1, <1>2, <1>3 DEF Extend

LEMMA PrepareSummary ==
  ASSUME TypeOK, NEW r \in Requests, Serve(r)
  PROVE  Prepares(r)
<1>1. PICK call \in ChatRequest :
        StartChain(r, call) \/ ContinueChain(r, call) \/ RollbackChain(r, call)
  BY DEF Serve
<1>2. pc[r] = "idle" /\ phase = "ACTIVE"
  BY <1>1 DEF StartChain, ContinueChain, RollbackChain, Preparing
<1>3. \A c \in Chosen(call) : c \in Free
  BY ChosenChain DEF Free
<1>4. CASE StartChain(r, call)
  <2>1. CASE Respond(r, "length") /\ UNCHANGED <<sessionVars, reserved_chain_ids>>
    BY <1>2, <2>1 DEF Prepares, Answered
  <2>2. ASSUME NEW b, Generate(r, call, 0, b, FALSE, 0) PROVE Prepares(r)
    <3>1. Reserves(r, 0)
      BY <2>2, GenerateReserves
    <3> QED
      BY <1>2, <3>1 DEF Prepares
  <2> QED
    BY <1>4, <2>1, <2>2 DEF StartChain
<1>5. CASE ContinueChain(r, call)
  BY <1>2, <1>3, <1>5, ExtendPrepares DEF ContinueChain
<1>6. CASE RollbackChain(r, call)
  <2>1. CASE Respond(r, "rejected") /\ UNCHANGED <<sessionVars, reserved_chain_ids>>
    BY <1>2, <2>1 DEF Prepares, Answered
  <2>2. ASSUME NEW c \in Chosen(call), NEW b, NEW suffix, NEW dropped,
               Extend(r, call, c, b, suffix, TRUE, dropped)
        PROVE  Prepares(r)
    BY <1>2, <1>3, <2>2, ExtendPrepares
  <2> QED
    BY <1>6, <2>1, <2>2 DEF RollbackChain
<1> QED
  BY <1>1, <1>4, <1>5, <1>6

\* What a commit means for them: the holder lets go of the chain it replaces,
\* or a chain with a new id appears.
Commits(r, c) ==
  /\ pc[r] = "generating" /\ phase = "ACTIVE" /\ phase' = "ACTIVE"
  /\ c = held[r] \/ c = next_chain_id
  /\ held[r] = 0 <=> c = next_chain_id
  /\ DOMAIN active_chains' = DOMAIN active_chains \cup {c}
  /\ \A d \in DOMAIN active_chains \ {c} : active_chains'[d] = active_chains[d]
  /\ next_chain_id' = next_chain_id + IF held[r] = 0 THEN 1 ELSE 0
  /\ reserved_chain_ids' = reserved_chain_ids \ {held[r]}
  /\ held' = [held EXCEPT ![r] = 0]
  /\ pc' = [pc EXCEPT ![r] = "ok"]
  /\ encoded' = [encoded EXCEPT ![r] = NotEncoded]

LEMMA CommitSummary ==
  ASSUME TypeOK, ReservationInv, NEW r \in Requests, NEW o \in Outputs, Commit(r, o)
  PROVE  \E c \in Nat \ {0} : Commits(r, c)
<1> DEFINE c == IF encoded[r].chain_id = 0 THEN next_chain_id ELSE encoded[r].chain_id
<1>1. pc[r] = "generating" /\ phase = "ACTIVE" /\ phase' = "ACTIVE"
  BY DEF Commit, CanCommit
<1>2. encoded[r].chain_id = held[r] /\ held[r] \in Nat /\ next_chain_id \in Nat \ {0}
  BY <1>1 DEF ReservationInv, ReservationsExact, HeldChainsExist, TypeOK
<1>3. held[r] # 0 => held[r] < next_chain_id
  BY <1>1 DEF ReservationInv, ReservationsExact, HeldChainsExist, IdsAllocated
<1>4. c \in Nat \ {0} /\ (c = held[r] \/ c = next_chain_id)
      /\ (held[r] = 0 <=> c = next_chain_id)
  BY <1>2, <1>3
<1>5. \E new : active_chains' =
        [d \in DOMAIN active_chains \cup {c} |-> IF d = c THEN new ELSE active_chains[d]]
  BY DEF Commit, CommitChain
<1>6. /\ next_chain_id' = next_chain_id + IF held[r] = 0 THEN 1 ELSE 0
      /\ reserved_chain_ids' = reserved_chain_ids \ {held[r]}
      /\ held' = [held EXCEPT ![r] = 0]
      /\ pc' = [pc EXCEPT ![r] = "ok"]
      /\ encoded' = [encoded EXCEPT ![r] = NotEncoded]
  BY <1>2 DEF Commit, CommitChain
<1> HIDE DEF c
<1> QED
  BY <1>1, <1>4, <1>5, <1>6 DEF Commits

LEMMA ReservationInit == Init => ReservationInv
BY DEF Init, ReservationInv, ReservationsExact, HoldersAreExclusive, HeldChainsExist,
       IdsAllocated

LEMMA ReservationStep == TypeOK /\ ReservationInv /\ [Step]_vars => ReservationInv'
<1> SUFFICES ASSUME TypeOK, ReservationInv, [Step]_vars PROVE ReservationInv'
  OBVIOUS
<1> USE DEF ReservationInv, ReservationsExact, HoldersAreExclusive, HeldChainsExist,
            IdsAllocated, TypeOK
<1>1. ASSUME NEW r \in Requests, pc[r] = "idle", NEW outcome \in Answered,
             Respond(r, outcome), UNCHANGED <<sessionVars, reserved_chain_ids>>
      PROVE  ReservationInv'
  BY <1>1 DEF Respond, sessionVars, chainVars, Answered
<1>2. ASSUME NEW r \in Requests, Prepares(r) PROVE ReservationInv'
  <2>1. ASSUME NEW c \in {0} \cup Free, Reserves(r, c) PROVE ReservationInv'
    <3>1. HoldersAreExclusive'
      <4>1. held' = [held EXCEPT ![r] = c] /\ phase' = "ACTIVE" /\ held[r] = 0
            /\ reserved_chain_ids' = reserved_chain_ids \cup ({c} \ {0})
            /\ reserved_chain_ids = {held[q] : q \in Requests} \ {0}
        BY <1>2, <2>1 DEF Prepares, Reserves
      <4>2. \A q \in Requests : held'[q] = IF q = r THEN c ELSE held[q]
        BY <4>1
      <4>3. {held'[q] : q \in Requests} \ {0} = ({held[q] : q \in Requests} \cup {c}) \ {0}
        BY <4>1, <4>2
      <4>4. c # 0 => c \notin reserved_chain_ids
        BY <2>1 DEF Free
      <4>5. \A q, s \in Requests : q # s /\ held'[q] # 0 => held'[q] # held'[s]
        BY <4>1, <4>2, <4>4
      <4> QED
        BY <4>1, <4>3, <4>5
    <3>2. HeldChainsExist'
      BY <1>2, <2>1 DEF Prepares, Reserves, Free
    <3> QED
      BY <3>1, <3>2, <2>1 DEF Reserves
  <2>2. ASSUME NEW c \in Free, Closes(r, c) PROVE ReservationInv'
    BY <1>2, <2>2 DEF Prepares, Closes, Respond, Free
  <2> QED
    BY <1>1, <1>2, <2>1, <2>2 DEF Prepares
<1>3. ASSUME NEW r \in Requests, Fail(r) PROVE ReservationInv'
  BY <1>3 DEF Fail, sessionVars, chainVars
<1>4. ASSUME NEW r \in Requests, NEW o \in Outputs, Commit(r, o) PROVE ReservationInv'
  <2>1. PICK c \in Nat \ {0} : Commits(r, c)
    BY <1>4, CommitSummary
  <2> QED
    BY <2>1 DEF Commits
<1>5. ASSUME NEW r \in Requests, Release(r) PROVE ReservationInv'
  <2>1. /\ \A q \in Requests : held'[q] = IF q = r THEN 0 ELSE held[q]
        /\ reserved_chain_ids' = reserved_chain_ids \ {held[r]}
        /\ \A q \in Requests : pc'[q] = IF q = r THEN "failed" ELSE pc[q]
        /\ UNCHANGED <<sessionVars, encoded, completion>>
    BY <1>5 DEF Release
  <2>2. HoldersAreExclusive'
    <3>1. /\ phase' = phase /\ active_chains' = active_chains
          /\ \A q, s \in Requests : q # s /\ held[q] # 0 => held[q] # held[s]
      BY <2>1 DEF sessionVars, chainVars
    <3>2. {held'[q] : q \in Requests} \ {0} = ({held[q] : q \in Requests} \ {0}) \ {held[r]}
      <4>1. ASSUME NEW q \in Requests, held'[q] # 0
            PROVE  held'[q] \in ({held[s] : s \in Requests} \ {0}) \ {held[r]}
        BY <2>1, <3>1, <4>1
      <4>2. ASSUME NEW q \in Requests, held[q] # 0, held[q] # held[r]
            PROVE  held[q] \in {held'[s] : s \in Requests} \ {0}
        BY <2>1, <4>2
      <4> DEFINE new == {held'[q] : q \in Requests} \ {0}
                 old == ({held[q] : q \in Requests} \ {0}) \ {held[r]}
      <4>3. new \subseteq old
        BY <4>1
      <4>4. ASSUME NEW x \in old PROVE x \in new
        <5>1. PICK q \in Requests : x = held[q]
          OBVIOUS
        <5>2. held[q] # 0 /\ held[q] # held[r]
          BY <5>1
        <5> QED
          BY <4>2, <5>1, <5>2
      <4> QED
        BY <4>3, <4>4
    <3>3. \A q, s \in Requests : q # s /\ held'[q] # 0 => held'[q] # held'[s]
      BY <2>1, <3>1
    <3> QED
      BY <2>1, <3>1, <3>2, <3>3
  <2>3. HeldChainsExist'
    BY <2>1 DEF sessionVars, chainVars
  <2> QED
    BY <2>1, <2>2, <2>3 DEF sessionVars, chainVars
<1>6. ASSUME NEW w \in Rewards, SetReward(w) PROVE ReservationInv'
  BY <1>6 DEF SetReward, requestVars, chainVars
<1>7. CASE Finalize
  BY <1>7 DEF Finalize, requestVars
<1>8. CASE Abort
  BY <1>8 DEF Abort, requestVars
<1>9. CASE UNCHANGED vars
  BY <1>9 DEF vars, sessionVars, chainVars, requestVars
<1>10. ASSUME NEW r \in Requests, RefuseClosed(r) PROVE ReservationInv'
  BY <1>1, <1>10 DEF RefuseClosed, Answered
<1>11. ASSUME NEW r \in Requests, Serve(r) PROVE ReservationInv'
  BY <1>2, <1>11, PrepareSummary
<1> HIDE DEF ReservationInv, ReservationsExact, HoldersAreExclusive, HeldChainsExist,
             IdsAllocated, TypeOK
<1> QED
  BY <1>3, <1>4, <1>5, <1>6, <1>7, <1>8, <1>9, <1>10, <1>11
     DEF Step, Resume

\* No chain is worked on by two requests, no reservation outlives the request
\* that made it, and the chain a commit replaces is still there (session.py
\* 253-255, 313-326, 700-714, 760-762).
THEOREM ReservationsCorrect == Spec => []ReservationsExact
<1>1. TypeInv => TypeOK
  BY DEF TypeInv
<1>2. ReservationInv => ReservationsExact
  BY DEF ReservationInv
<1> QED
  BY <1>1, <1>2, TypeInit, TypeStep, ReservationInit, ReservationStep, NextIsStep, PTL DEF Spec

\* One step: who does not hold a chain leaves it alone.
LEMMA NoLostUpdateStep ==
  ASSUME TypeOK, ReservationInv, [Step]_vars, NEW r \in Requests,
         held[r] # 0, held'[r] = held[r], phase' = "ACTIVE"
  PROVE  /\ held[r] \in DOMAIN active_chains'
         /\ active_chains'[held[r]] = active_chains[held[r]]
<1> DEFINE Kept == /\ held[r] \in DOMAIN active_chains'
                   /\ active_chains'[held[r]] = active_chains[held[r]]
<1>1. phase = "ACTIVE"
  BY ClosedPhase
<1>2. /\ held[r] \in DOMAIN active_chains /\ held[r] \in reserved_chain_ids
      /\ held[r] < next_chain_id /\ held[r] \in Nat /\ next_chain_id \in Nat
  BY <1>1 DEF ReservationInv, ReservationsExact, HoldersAreExclusive, HeldChainsExist,
              IdsAllocated, TypeOK
<1>3. ASSUME NEW q \in Requests, Prepares(q) PROVE Kept
  BY <1>2, <1>3 DEF Prepares, Reserves, Closes, Free, sessionVars, chainVars
<1>4. ASSUME NEW q \in Requests, NEW c \in Nat \ {0}, Commits(q, c) PROVE Kept
  <2>1. q # r
    BY <1>4 DEF Commits, TypeOK
  <2>2. held[q] # held[r]
    BY <2>1 DEF ReservationInv, ReservationsExact, HoldersAreExclusive
  <2>3. c # held[r]
    BY <1>2, <1>4, <2>2 DEF Commits
  <2> QED
    BY <1>2, <1>4, <2>3 DEF Commits
<1>5. CASE UNCHANGED active_chains
  BY <1>2, <1>5
<1>6. ~Finalize /\ ~Abort
  BY DEF Finalize, Abort
<1>7. ASSUME NEW q \in Requests, RefuseClosed(q) \/ Fail(q) \/ Release(q)
      PROVE  UNCHANGED active_chains
  BY <1>7 DEF RefuseClosed, Fail, Release, sessionVars, chainVars
<1>8. ASSUME NEW w \in Rewards, SetReward(w) PROVE UNCHANGED active_chains
  BY <1>8 DEF SetReward, chainVars
<1>9. UNCHANGED vars => UNCHANGED active_chains
  BY DEF vars, sessionVars, chainVars
<1>10. ASSUME NEW q \in Requests, Serve(q) PROVE Kept
  BY <1>3, <1>10, PrepareSummary
<1>11. ASSUME NEW q \in Requests, NEW o \in Outputs, Commit(q, o) PROVE Kept
  BY <1>4, <1>11, CommitSummary
<1>12. ASSUME NEW q \in Requests,
              RefuseClosed(q) \/ Serve(q) \/ Resume(q) \/ Release(q)
       PROVE  Kept
  BY <1>5, <1>7, <1>10, <1>11, <1>12 DEF Resume
<1>13. Kept
  BY <1>5, <1>6, <1>8, <1>9, <1>12 DEF Step
<1> QED
  BY <1>13 DEF Kept

\* No lost update: while a request works on a chain outside the lock, no other
\* request commits to it, closes it or rolls it back (session.py 257-304).
THEOREM NoLostUpdate == Spec => HeldChainMovesOnlyForItsHolder
<1>1. TypeInv => TypeOK
  BY DEF TypeInv
<1>2. TypeOK /\ ReservationInv /\ [Step]_vars =>
        \A r \in Requests :
          held[r] # 0 /\ held'[r] = held[r] /\ phase' = "ACTIVE" =>
            /\ held[r] \in DOMAIN active_chains'
            /\ active_chains'[held[r]] = active_chains[held[r]]
  BY NoLostUpdateStep
<1> QED
  BY <1>1, <1>2, TypeInit, TypeStep, ReservationInit, ReservationStep, NextIsStep, PTL
     DEF Spec, HeldChainMovesOnlyForItsHolder

-----------------------------------------------------------------------------
(* Capacity.                                                               *)

CapacityInv ==
  /\ \A c \in DOMAIN active_chains : Size(active_chains[c].buffer) <= Capacity
  /\ \A t \in materialized_chains : Size(t.buffer) <= Capacity
  /\ \A r \in Requests :
       pc[r] = "generating" => Size(encoded[r].buffer) < Capacity

LEMMA SizeType ==
  ASSUME NEW b \in TrajectoryBuffer
  PROVE  /\ Size(b) \in Nat
         /\ Len(b.prompt_ids) \in Nat /\ Len(b.response_ids) \in Nat
BY LenProperties DEF Size, TrajectoryBuffer

LEMMA SizeGrows ==
  ASSUME NEW b \in TrajectoryBuffer, NEW new, NEW k \in Nat,
         new.prompt_ids = b.prompt_ids,
         Len(new.response_ids) = Len(b.response_ids) + k
  PROVE  Size(new) = Size(b) + k
<1> DEFINE p == Len(b.prompt_ids)
           q == Len(b.response_ids)
<1>1. p \in Nat /\ q \in Nat
  BY SizeType
<1>2. Size(new) = p + (q + k)
  BY Zenon DEF Size
<1>3. Size(b) = p + q
  BY DEF Size
<1> HIDE DEF p, q
<1>4. p + (q + k) = (p + q) + k
  BY <1>1
<1> QED
  BY <1>2, <1>3, <1>4

LEMMA MaterializedBuffer ==
  ASSUME NEW b, NEW history, NEW seq, NEW reason
  PROVE  Materialized(b, history, seq, reason).buffer = b
BY DEF Materialized

\* A request whose buffer leaves room goes to the backend.
LEMMA GenerateKeepsCapacity ==
  ASSUME TypeInv, CapacityInv, NEW r \in Requests, NEW call, NEW c, NEW b,
         NEW rollback, NEW dropped, Generate(r, call, c, b, rollback, dropped),
         Size(b) < Capacity
  PROVE  CapacityInv'
<1>1. UNCHANGED <<active_chains, materialized_chains>>
  BY DEF Generate, sessionVars, chainVars
<1>2. \A q \in Requests : q # r => pc'[q] = pc[q] /\ encoded'[q] = encoded[q]
  BY DEF Generate, TypeInv, TypeOK
<1>3. encoded'[r].buffer = b
  BY DEF Generate, TypeInv, TypeOK
<1> QED
  BY <1>1, <1>2, <1>3 DEF CapacityInv

LEMMA RespondKeepsCapacity ==
  ASSUME TypeInv, CapacityInv, NEW r \in Requests, NEW outcome \in Answered,
         Respond(r, outcome), UNCHANGED sessionVars
  PROVE  CapacityInv'
BY DEF Respond, TypeInv, TypeOK, CapacityInv, Answered, sessionVars, chainVars

\* The tail of preparing a continuation (session.py 453-484): either the new
\* context leaves room, or the chain is closed as it is or as rolled back.
LEMMA ExtendKeepsCapacity ==
  ASSUME TypeInv, CapacityInv, NEW r \in Requests, NEW call \in ChatRequest,
         NEW c \in DOMAIN active_chains, NEW b \in TrajectoryBuffer, Aligned(b),
         Size(b) <= Capacity, NEW suffix \in Seq(Messages),
         NEW rollback, NEW dropped,
         Extend(r, call, c, b, suffix, rollback, dropped)
  PROVE  CapacityInv'
<1> DEFINE ids == encode_incremental(suffix)
<1>1. ids \in Seq(Token) /\ Len(ids) \in Nat
  BY encode_incrementalType, LenProperties
<1>2. Size(b) \in Nat /\ Capacity \in Nat
  BY SizeType DEF SessionAssumption
<1>3. CASE Respond(r, "rejected") /\ UNCHANGED <<sessionVars, reserved_chain_ids>>
  BY <1>3, RespondKeepsCapacity DEF Answered
<1>4. CASE CloseExhausted(c, call, b, rollback, dropped) /\ Respond(r, "length")
  <2>1. \A t \in materialized_chains' :
          \/ t \in materialized_chains
          \/ t.buffer = b
          \/ t.buffer = active_chains[c].buffer
    BY <1>4, MaterializedBuffer DEF CloseExhausted
  <2>2. \A t \in materialized_chains' : Size(t.buffer) <= Capacity
    BY <2>1 DEF CapacityInv, Size
  <2>3. \A d \in DOMAIN active_chains' :
          d \in DOMAIN active_chains /\ active_chains'[d] = active_chains[d]
    BY <1>4 DEF CloseExhausted
  <2> QED
    BY <1>4, <2>2, <2>3 DEF CapacityInv, Respond, TypeInv, TypeOK
<1>5. CASE /\ ~Overflows(b, suffix)
           /\ Generate(r, call, c, AddContext(b, ids), rollback, dropped)
  <2> HIDE DEF ids
  <2>1. /\ AddContext(b, ids).prompt_ids = b.prompt_ids
        /\ Len(AddContext(b, ids).response_ids) = Len(b.response_ids) + Len(ids)
    BY <1>1, AddContextType
  <2>2. Size(AddContext(b, ids)) = Size(b) + Len(ids)
    BY <1>1, <2>1, SizeGrows
  <2>3. Size(AddContext(b, ids)) < Capacity
    BY <1>1, <1>2, <1>5, <2>2 DEF Overflows, ids
  <2> QED
    BY <1>5, <2>3, GenerateKeepsCapacity
<1> QED
  BY <1>3, <1>4, <1>5 DEF Extend

LEMMA StartChainKeepsCapacity ==
  ASSUME TypeInv, CapacityInv, NEW r \in Requests, NEW call \in ChatRequest,
         StartChain(r, call)
  PROVE  CapacityInv'
<1> DEFINE b == [EmptyBuffer EXCEPT !.prompt_ids = encode_full(call.messages)]
<1>1. CASE Respond(r, "length") /\ UNCHANGED <<sessionVars, reserved_chain_ids>>
  BY <1>1, RespondKeepsCapacity DEF Answered
<1>2. CASE Size(b) < Capacity /\ Generate(r, call, 0, b, FALSE, 0)
  <2> HIDE DEF b
  <2> QED
    BY <1>2, GenerateKeepsCapacity
<1> QED
  BY <1>1, <1>2 DEF StartChain

LEMMA ContinueChainKeepsCapacity ==
  ASSUME TypeInv, CapacityInv, NEW r \in Requests, NEW call \in ChatRequest,
         ContinueChain(r, call)
  PROVE  CapacityInv'
<1>1. PICK c \in Chosen(call) \cap Exact(call) :
        Extend(r, call, c, active_chains[c].buffer,
               SubSeq(call.messages, Len(active_chains[c].message_history) + 1,
                      Len(call.messages)), FALSE, 0)
  BY DEF ContinueChain
<1>2. c \in DOMAIN active_chains
  BY ChosenChain
<1>3. /\ active_chains[c].buffer \in TrajectoryBuffer
      /\ Aligned(active_chains[c].buffer)
      /\ Size(active_chains[c].buffer) <= Capacity
      /\ Len(active_chains[c].message_history) \in Nat
  BY <1>2, ChainType, LenProperties DEF ChainShape, CapacityInv
<1>4. SubSeq(call.messages, Len(active_chains[c].message_history) + 1,
             Len(call.messages)) \in Seq(Messages)
  BY <1>3, SuffixType
<1> QED
  BY <1>1, <1>2, <1>3, <1>4, ExtendKeepsCapacity

LEMMA RollbackChainKeepsCapacity ==
  ASSUME TypeInv, CapacityInv, NEW r \in Requests, NEW call \in ChatRequest,
         RollbackChain(r, call)
  PROVE  CapacityInv'
<1>1. PICK c \in Chosen(call) \ Exact(call) :
        LET b == active_chains[c].buffer
            n == Start(c).response_ids_len
        IN  \/ /\ Respond(r, "rejected")
               /\ UNCHANGED <<sessionVars, reserved_chain_ids>>
            \/ /\ EndsWithPrefix(b, n)
               /\ Extend(r, call, c, CutLastAssistant(b, n),
                         SubSeq(call.messages, Start(c).message_history_len + 1,
                                Len(call.messages)),
                         TRUE, Ones(b.response_mask, n + 1))
  BY DEF RollbackChain
<1> DEFINE b   == active_chains[c].buffer
           n   == Start(c).response_ids_len
           cut == CutLastAssistant(b, n)
<1>2. c \in DOMAIN active_chains
  BY ChosenChain
<1>3. /\ b \in TrajectoryBuffer /\ Aligned(b) /\ Size(b) <= Capacity
      /\ n \in 0..Len(b.response_ids) /\ Len(b.generation_versions) \in Nat \ {0}
      /\ Start(c).message_history_len \in Nat
  BY <1>2, ChainType DEF ChainShape, CapacityInv
<1>4. SubSeq(call.messages, Start(c).message_history_len + 1, Len(call.messages))
        \in Seq(Messages)
  BY <1>3, SuffixType
<1>5. CASE Respond(r, "rejected") /\ UNCHANGED <<sessionVars, reserved_chain_ids>>
  BY <1>5, RespondKeepsCapacity DEF Answered
<1>6. CASE /\ EndsWithPrefix(b, n)
           /\ Extend(r, call, c, cut,
                     SubSeq(call.messages, Start(c).message_history_len + 1,
                            Len(call.messages)),
                     TRUE, Ones(b.response_mask, n + 1))
  <2> HIDE DEF b, n
  <2>1. /\ cut \in TrajectoryBuffer /\ Aligned(cut)
        /\ Len(cut.prompt_ids) <= Len(b.prompt_ids)
        /\ Len(cut.response_ids) <= n
    BY <1>3, <1>6, CutLastAssistantType
  <2> HIDE DEF cut
  <2>2. Size(cut) <= Size(b)
    <3> DEFINE p == Len(b.prompt_ids)
               q == Len(b.response_ids)
               i == Len(cut.prompt_ids)
               j == Len(cut.response_ids)
    <3>1. p \in Nat /\ q \in Nat /\ i \in Nat /\ j \in Nat
      BY <1>3, <2>1, SizeType
    <3>2. i <= p /\ j <= n /\ n \in 0..q
      BY <1>3, <2>1
    <3>3. Size(cut) = i + j /\ Size(b) = p + q
      BY DEF Size
    <3> HIDE DEF p, q, i, j
    <3>4. i + j <= p + q
      BY <3>1, <3>2
    <3> QED
      BY <3>3, <3>4
  <2>3. Size(cut) <= Capacity
    BY <1>3, <2>1, <2>2, SizeType DEF SessionAssumption
  <2> QED
    BY <1>2, <1>4, <1>6, <2>1, <2>3, ExtendKeepsCapacity
<1> QED
  BY <1>1, <1>5, <1>6

\* max_tokens limits an answer to the room that is left (501-508).
LEMMA CommitKeepsCapacity ==
  ASSUME TypeInv, CapacityInv, NEW r \in Requests, NEW o \in Outputs, Commit(r, o)
  PROVE  CapacityInv'
<1> DEFINE old == encoded[r].buffer
           ids == Generated(r, o)
           b   == AddGeneration(old, r, ids)
<1>1. old \in TrajectoryBuffer /\ Aligned(old)
  BY DEF Commit, CanCommit, TypeInv, TypeOK, Shapes, RequestShape, EncodedData
<1>2. ids \in Seq(Token) /\ Len(ids) = OutLen[o] /\ OutLen[o] \in Nat
  BY GeneratedType
<1>3. OutLen[o] <= Capacity - Size(old) /\ Size(old) \in Nat /\ Capacity \in Nat
  BY <1>1, SizeType DEF Commit, CanCommit, Fits, SessionAssumption
<1> DEFINE c   == IF encoded[r].chain_id = 0 THEN next_chain_id
                                              ELSE encoded[r].chain_id
           new == Committed(encoded[r], Append(encoded[r].messages, o), b)
<1>4. /\ new.buffer = b
      /\ active_chains' = [d \in DOMAIN active_chains \cup {c} |->
                             IF d = c THEN new ELSE active_chains[d]]
  <2>1. new.buffer = b
    BY DEF Committed
  <2> QED
    BY <2>1 DEF Commit, CommitChain
<1> HIDE DEF old, ids, c, new
<1>5. /\ b.prompt_ids = old.prompt_ids
      /\ Len(b.response_ids) = Len(old.response_ids) + Len(ids)
  BY <1>1, <1>2, AddGenerationType
<1> HIDE DEF b
<1>6. Size(b) <= Capacity
  <2>1. Size(b) = Size(old) + Len(ids)
    BY <1>1, <1>2, <1>5, SizeGrows
  <2> QED
    BY <1>2, <1>3, <2>1
<1>7. \A d \in DOMAIN active_chains' : Size(active_chains'[d].buffer) <= Capacity
  BY <1>4, <1>6 DEF CapacityInv
<1>8. /\ UNCHANGED materialized_chains
      /\ \A q \in Requests : pc'[q] = "generating" =>
           pc[q] = "generating" /\ encoded'[q] = encoded[q]
  BY DEF Commit, TypeInv, TypeOK
<1> QED
  BY <1>7, <1>8 DEF CapacityInv

LEMMA FinalizeKeepsCapacity ==
  ASSUME CapacityInv, Finalize
  PROVE  CapacityInv'
<1>1. \A t \in ActiveTrajectories : Size(t.buffer) <= Capacity
  BY MaterializedBuffer DEF ActiveTrajectories, CapacityInv
<1>2. DOMAIN active_chains' = {}
  BY DEF Finalize
<1> QED
  BY <1>1, <1>2 DEF Finalize, CapacityInv, requestVars

LEMMA CapacityStep == TypeInv /\ CapacityInv /\ [Step]_vars => CapacityInv'
<1> SUFFICES ASSUME TypeInv, CapacityInv, [Step]_vars PROVE CapacityInv'
  OBVIOUS
<1>1. ASSUME NEW r \in Requests, RefuseClosed(r) PROVE CapacityInv'
  BY <1>1, RespondKeepsCapacity DEF RefuseClosed, Answered
<1>2. ASSUME NEW r \in Requests, Serve(r) PROVE CapacityInv'
  BY <1>2, StartChainKeepsCapacity, ContinueChainKeepsCapacity,
     RollbackChainKeepsCapacity DEF Serve
<1>3. ASSUME NEW r \in Requests, Fail(r) \/ Release(r) PROVE CapacityInv'
  BY <1>3 DEF Fail, Release, TypeInv, TypeOK, CapacityInv, sessionVars, chainVars
<1>4. ASSUME NEW r \in Requests, NEW o \in Outputs, Commit(r, o) PROVE CapacityInv'
  BY <1>4, CommitKeepsCapacity
<1>5. ASSUME NEW w \in Rewards, SetReward(w) PROVE CapacityInv'
  BY <1>5 DEF SetReward, CapacityInv, chainVars, requestVars
<1>6. CASE Abort
  <2>1. DOMAIN active_chains' = {}
    BY <1>6 DEF Abort
  <2> QED
    BY <1>6, <2>1 DEF Abort, CapacityInv, requestVars
<1>7. CASE UNCHANGED vars
  BY <1>7 DEF vars, CapacityInv, sessionVars, chainVars, requestVars
<1> QED
  BY <1>1, <1>2, <1>3, <1>4, <1>5, <1>6, <1>7, FinalizeKeepsCapacity
     DEF Step, Resume

\* prompt_length + response_length bounds every trajectory over all of its
\* turns, and the backend is only asked while there is room (session.py 409,
\* 457-469, 501-508).
THEOREM CapacityCorrect == Spec => []CapacityRespected
<1>1. Init => CapacityInv
  <2> SUFFICES ASSUME Init PROVE CapacityInv
    OBVIOUS
  <2> DOMAIN active_chains = {}
    BY DEF Init
  <2> QED
    BY DEF Init, CapacityInv
<1>2. TypeInv /\ CapacityInv => CapacityRespected
  <2> SUFFICES ASSUME TypeInv, CapacityInv PROVE CapacityRespected
    OBVIOUS
  <2>1. ASSUME NEW r \in Requests, pc[r] = "generating"
        PROVE  Size(encoded[r].buffer) <= Capacity
    <3>1. encoded[r].buffer \in TrajectoryBuffer
      BY DEF TypeInv, TypeOK, EncodedData
    <3> QED
      BY <2>1, <3>1, SizeType DEF CapacityInv, SessionAssumption
  <2> QED
    BY <2>1 DEF CapacityRespected, CapacityInv, Buffers
<1> QED
  BY <1>1, <1>2, TypeInit, TypeStep, CapacityStep, NextIsStep, PTL DEF Spec

-----------------------------------------------------------------------------
(* Order.                                                                  *)

\* No chain and no trajectory is newer than the session's counter.
OrderInv ==
  /\ \A c \in DOMAIN active_chains : active_chains[c].updated_seq <= order_seq
  /\ \A t \in materialized_chains : t.order_seq <= order_seq

LEMMA CloseKeepsOrder ==
  ASSUME TypeOK, OrderInv, NEW c \in DOMAIN active_chains, NEW call, NEW b,
         NEW rollback, NEW dropped, CloseExhausted(c, call, b, rollback, dropped)
  PROVE  OrderInv'
<1>1. order_seq \in Nat /\ \A d \in DOMAIN active_chains : active_chains[d].updated_seq \in Nat
  BY DEF TypeOK, ChainState
<1>2. \A t \in materialized_chains : t.order_seq \in Nat
  BY DEF TypeOK, Trajectory
<1>3. \A d \in DOMAIN active_chains' :
        d \in DOMAIN active_chains /\ active_chains'[d] = active_chains[d]
  BY DEF CloseExhausted
<1>4. \/ UNCHANGED <<materialized_chains, order_seq>>
      \/ /\ order_seq' = order_seq + 1
         /\ \E t : t.order_seq = order_seq' /\ materialized_chains' = materialized_chains \cup {t}
  BY DEF CloseExhausted, Materialized
<1> QED BY <1>1, <1>2, <1>3, <1>4 DEF OrderInv

LEMMA ExtendKeepsOrder ==
  ASSUME TypeOK, OrderInv, NEW r, NEW call, NEW c \in DOMAIN active_chains, NEW b,
         NEW suffix, NEW rollback, NEW dropped,
         Extend(r, call, c, b, suffix, rollback, dropped)
  PROVE  OrderInv' /\ \A q \in Requests : pc'[q] = "ok" => pc[q] = "ok"
<1>1. CASE UNCHANGED sessionVars
  <2>1. OrderInv'
    BY <1>1 DEF OrderInv, sessionVars, chainVars
  <2>2. \E s \in {"rejected", "length", "generating"} : pc' = [pc EXCEPT ![r] = s]
    BY DEF Extend, Respond, Generate
  <2> QED BY <2>1, <2>2 DEF TypeOK
<1>2. CASE CloseExhausted(c, call, b, rollback, dropped) /\ Respond(r, "length")
  BY <1>2, CloseKeepsOrder DEF Respond, TypeOK
<1> QED BY <1>1, <1>2 DEF Extend, Generate

LEMMA PrepareKeepsOrder ==
  ASSUME TypeOK, OrderInv, NEW r \in Requests, Serve(r)
  PROVE  OrderInv' /\ \A q \in Requests : pc'[q] = "ok" => pc[q] = "ok"
<1>1. PICK call \in ChatRequest :
        StartChain(r, call) \/ ContinueChain(r, call) \/ RollbackChain(r, call)
  BY DEF Serve
<1>2. \A c \in Chosen(call) : c \in DOMAIN active_chains
  BY ChosenChain
<1>3. ASSUME UNCHANGED sessionVars,
             NEW s \in {"length", "rejected", "generating"}, pc' = [pc EXCEPT ![r] = s]
      PROVE  OrderInv' /\ \A q \in Requests : pc'[q] = "ok" => pc[q] = "ok"
  BY <1>3 DEF OrderInv, sessionVars, chainVars, TypeOK
<1>4. CASE StartChain(r, call)
  BY <1>3, <1>4 DEF StartChain, Respond, Generate
<1>5. CASE ContinueChain(r, call)
  BY <1>2, <1>5, ExtendKeepsOrder DEF ContinueChain
<1>6. CASE RollbackChain(r, call)
  <2>1. ASSUME NEW c \in Chosen(call), NEW b, NEW suffix, NEW dropped,
               Extend(r, call, c, b, suffix, TRUE, dropped)
        PROVE  OrderInv' /\ \A q \in Requests : pc'[q] = "ok" => pc[q] = "ok"
    BY <1>2, <2>1, ExtendKeepsOrder
  <2> QED BY <1>3, <1>6, <2>1 DEF RollbackChain, Respond
<1> QED BY <1>1, <1>4, <1>5, <1>6

\* A commit numbers its chain anew, and the chain has the answer.
LEMMA CommitIsNewest ==
  ASSUME TypeInv, OrderInv, NEW r \in Requests, NEW o \in Outputs, Commit(r, o)
  PROVE  /\ OrderInv'
         /\ \A q \in Requests \ {r} : pc'[q] = pc[q]
         /\ \E c \in DOMAIN active_chains' :
              /\ r \in Range(active_chains'[c].buffer.generation_versions)
              /\ \A d \in DOMAIN active_chains' \ {c} :
                   active_chains'[d].updated_seq < active_chains'[c].updated_seq
              /\ \A t \in materialized_chains' :
                   t.order_seq < active_chains'[c].updated_seq
<1> DEFINE c   == IF encoded[r].chain_id = 0 THEN next_chain_id ELSE encoded[r].chain_id
           old == encoded[r].buffer
           b   == AddGeneration(old, r, Generated(r, o))
           new == Committed(encoded[r], Append(encoded[r].messages, o), b)
<1>1. /\ active_chains' = [d \in DOMAIN active_chains \cup {c} |->
                             IF d = c THEN new ELSE active_chains[d]]
      /\ order_seq' = order_seq + 1 /\ materialized_chains' = materialized_chains
      /\ pc' = [pc EXCEPT ![r] = "ok"]
  BY DEF Commit, CommitChain
<1>2. new.updated_seq = order_seq + 1 /\ new.buffer = b
  BY DEF Committed
<1>3. r \in Range(b.generation_versions)
  <2>1. old.generation_versions \in Seq(Requests)
    BY DEF TypeInv, TypeOK, EncodedData, TrajectoryBuffer, Commit, CanCommit
  <2>2. b.generation_versions = Append(old.generation_versions, r)
    BY DEF AddGeneration, Extended
  <2>3. PICK g \in Seq(Requests) : g = old.generation_versions
    BY <2>1
  <2>4. Len(g) + 1 \in DOMAIN Append(g, r) /\ Append(g, r)[Len(g) + 1] = r
    BY AppendProperties, LenProperties
  <2> QED BY <2>2, <2>3, <2>4 DEF Range
<1> HIDE DEF c, old, b, new
<1>4. /\ order_seq \in Nat
      /\ \A d \in DOMAIN active_chains : active_chains[d].updated_seq \in Nat
      /\ \A t \in materialized_chains : t.order_seq \in Nat
  BY DEF TypeInv, TypeOK, ChainState, Trajectory
<1>5. OrderInv'
  BY <1>1, <1>2, <1>4 DEF OrderInv
<1>6. \A q \in Requests \ {r} : pc'[q] = pc[q]
  BY <1>1 DEF TypeInv, TypeOK
<1>7. /\ c \in DOMAIN active_chains' /\ active_chains'[c] = new
      /\ \A d \in DOMAIN active_chains' \ {c} :
           d \in DOMAIN active_chains /\ active_chains'[d] = active_chains[d]
  BY <1>1
<1>8. /\ \A d \in DOMAIN active_chains' \ {c} :
           active_chains'[d].updated_seq < active_chains'[c].updated_seq
      /\ \A t \in materialized_chains' : t.order_seq < active_chains'[c].updated_seq
  BY <1>1, <1>2, <1>4, <1>7 DEF OrderInv
<1> QED BY <1>2, <1>3, <1>5, <1>6, <1>7, <1>8

LEMMA FinalizeKeepsOrder == TypeOK /\ OrderInv /\ Finalize => OrderInv'
<1> SUFFICES ASSUME TypeOK, OrderInv, Finalize PROVE OrderInv'
  OBVIOUS
<1>1. /\ active_chains' = << >> /\ order_seq' = order_seq
      /\ materialized_chains' = materialized_chains \cup ActiveTrajectories
  BY DEF Finalize
<1>2. ASSUME NEW t \in ActiveTrajectories PROVE t.order_seq <= order_seq
  <2>1. PICK c \in DOMAIN active_chains :
          t = Materialized(active_chains[c].buffer, active_chains[c].message_history,
                           active_chains[c].updated_seq, "none")
    BY DEF ActiveTrajectories
  <2>2. t.order_seq = active_chains[c].updated_seq
    BY <2>1 DEF Materialized
  <2> QED BY <2>2 DEF OrderInv
<1>3. DOMAIN active_chains' = {}
  BY <1>1
<1> QED BY <1>1, <1>2, <1>3 DEF OrderInv

\* The requests that this step answers, and their chains.
NewestAnswered ==
  \A r \in Requests : pc'[r] = "ok" /\ pc[r] # "ok" =>
    \E c \in DOMAIN active_chains' :
      /\ r \in Range(active_chains'[c].buffer.generation_versions)
      /\ \A d \in DOMAIN active_chains' \ {c} :
           active_chains'[d].updated_seq < active_chains'[c].updated_seq
      /\ \A t \in materialized_chains' : t.order_seq < active_chains'[c].updated_seq

LEMMA OrderStep ==
  ASSUME TypeInv, OrderInv, [Step]_vars PROVE OrderInv' /\ NewestAnswered
<1> DEFINE Quiet == \A q \in Requests : pc'[q] = "ok" => pc[q] = "ok"
<1>1. Quiet => NewestAnswered
  BY DEF NewestAnswered
<1>2. UNCHANGED chainVars => OrderInv'
  BY DEF OrderInv, chainVars
<1>3. TypeOK
  BY DEF TypeInv
<1>4. ASSUME NEW r \in Requests, Serve(r) PROVE OrderInv' /\ NewestAnswered
  BY <1>1, <1>3, <1>4, PrepareKeepsOrder
<1>5. ASSUME NEW r \in Requests, NEW o \in Outputs, Commit(r, o)
      PROVE  OrderInv' /\ NewestAnswered
  BY <1>5, CommitIsNewest DEF NewestAnswered
<1>6. ASSUME NEW r \in Requests, RefuseClosed(r) \/ Fail(r) \/ Release(r)
      PROVE  OrderInv' /\ NewestAnswered
  <2>1. UNCHANGED chainVars
    BY <1>6 DEF RefuseClosed, Fail, Release, sessionVars
  <2>2. \E s \in {"failed", "releasing"} : pc' = [pc EXCEPT ![r] = s]
    BY <1>6 DEF RefuseClosed, Respond, Fail, Release
  <2> QED BY <1>1, <1>2, <1>3, <2>1, <2>2 DEF TypeOK
<1>7. CASE Finalize
  BY <1>1, <1>3, <1>7, FinalizeKeepsOrder DEF Finalize, requestVars
<1>8. CASE Abort
  BY <1>1, <1>8 DEF Abort, OrderInv, requestVars
<1>9. ASSUME NEW w \in Rewards, SetReward(w) PROVE OrderInv' /\ NewestAnswered
  BY <1>1, <1>2, <1>9 DEF SetReward, requestVars
<1>10. CASE UNCHANGED vars
  BY <1>1, <1>2, <1>10 DEF vars, sessionVars, requestVars
<1> QED BY <1>4, <1>5, <1>6, <1>7, <1>8, <1>9, <1>10 DEF Step, Resume

\* The chain of the request answered last is the newest, in completion order
\* and whatever the order the requests arrived in (session.py 683, 702).
THEOREM NewestCorrect == Spec => AnsweredChainIsNewest
<1>1. Init => OrderInv
  BY DEF Init, OrderInv
<1>2. TypeInv /\ OrderInv /\ [Step]_vars => OrderInv' /\ NewestAnswered
  BY OrderStep
<1> QED BY <1>1, <1>2, TypeInit, TypeStep, NextIsStep, PTL
        DEF Spec, AnsweredChainIsNewest, NewestAnswered

-----------------------------------------------------------------------------
(* Tokens.                                                                 *)

\* A chain at rest: its tokens say its history, and its boundary delimits the
\* latest assistant.
ChainSound(chain) ==
  LET b     == chain.buffer
      start == chain.last_assistant_start
  IN  /\ BufferSound(b) /\ Says(b, chain.message_history)
      /\ \E o \in Outputs :
           /\ chain.message_history = Append(start.tip, o)
           /\ start.message_history_len = Len(start.tip)
           /\ Delimits(b, start.response_ids_len, o)
      /\ \A i \in (start.response_ids_len + 1)..Len(b.response_ids) :
           b.response_ids[i].src = Last(b.generation_versions)

\* A request in flight: its tokens say its messages, and its boundary is where
\* the answer will begin.
DataSound(e) ==
  /\ BufferSound(e.buffer) /\ Says(e.buffer, e.messages)
  /\ e.last_assistant_start = Snapshot(e.buffer, e.messages)

\* A closed chain: as many turns as its tokens say, and one.
TrajectorySound(t) ==
  /\ BufferSound(t.buffer)
  /\ t.num_turns
       = 1 + Cardinality(Picked(Mapped(TextOf, Ids(t.buffer)), User \cup Assistant))

TokenInv ==
  /\ \A c \in DOMAIN active_chains : ChainSound(active_chains[c])
  /\ \A r \in Requests : pc[r] = "generating" => DataSound(encoded[r])
  /\ \A t \in materialized_chains : TrajectorySound(t)

\* Closing a chain counts its turns (session.py 778-814).
LEMMA MaterializedSound ==
  ASSUME NEW b \in TrajectoryBuffer, NEW history \in Seq(Messages),
         BufferSound(b), Says(b, history), NEW seq, NEW reason
  PROVE  TrajectorySound(Materialized(b, history, seq, reason))
<1> DEFINE s == Mapped(TextOf, Ids(b))
           t == Materialized(b, history, seq, reason)
           U == User \cup Assistant
<1>1. s \in Seq(TextValue)
  BY BufferFields, TextsOf
<1>2. Selects(history, s, Messages)
  BY DEF Says
<1>3. U \subseteq Messages
  BY DEF SessionAssumption
<1>4. t.buffer = b /\ t.num_turns = 1 + Cardinality(Picked(history, U))
  BY DEF Materialized, Picked
<1> HIDE DEF s, t, U
<1>5. Cardinality(Picked(history, U)) = Cardinality(Picked(s, U))
  BY <1>1, <1>2, <1>3, SelectsCount
<1> QED
  BY <1>4, <1>5 DEF TrajectorySound, s, t, U

\* A chain at rest has a settled buffer: it ends in a generated token.
LEMMA ChainSettled ==
  ASSUME NEW b \in TrajectoryBuffer, BufferSound(b), NEW n, NEW o, Delimits(b, n, o)
  PROVE  Settled(b)
<1>1. /\ Len(Ids(b)) = Len(b.prompt_ids) + Len(b.response_ids)
      /\ Len(b.prompt_ids) \in Nat /\ Len(b.response_ids) \in Nat
      /\ \A i \in 1..Len(b.response_ids) : Ids(b)[Len(b.prompt_ids) + i] = b.response_ids[i]
  BY BufferFields
<1> DEFINE l == Len(b.response_ids)
           x == Len(Ids(b))
           p == Len(b.prompt_ids)
<1>0. x = p + l /\ p \in Nat /\ l \in Nat /\ \A i \in 1..l : Ids(b)[p + i] = b.response_ids[i]
  BY <1>1
<1> HIDE DEF p, x
<1>2. n \in 0..(l - 1) /\ \A i \in (n + 1)..l : b.response_ids[i].src # Nobody
  BY DEF Delimits
<1> HIDE DEF l
<1>3. l \in 1..l /\ l \in (n + 1)..l /\ x \in 1..x
  BY <1>0, <1>2
<1>4. Ids(b)[x].src # Nobody
  BY <1>0, <1>2, <1>3
<1>5. Ids(b)[x].text # GenPrompt
  BY <1>3, <1>4 DEF BufferSound, Answers, x
<1> QED
  BY <1>5 DEF Settled, x

\* Preserving TokenInv, one lemma per action: a request that reaches the backend
\* and one that is answered without it.
LEMMA GenerateKeepsTokens ==
  ASSUME TypeInv, TokenInv, NEW r \in Requests, NEW call \in ChatRequest, NEW c, NEW b,
         NEW rollback, NEW dropped, BufferSound(b), Says(b, call.messages),
         Generate(r, call, c, b, rollback, dropped)
  PROVE  TokenInv'
<1>1. UNCHANGED <<active_chains, materialized_chains>>
  BY DEF Generate, sessionVars, chainVars
<1>2. \A q \in Requests : q # r => pc'[q] = pc[q] /\ encoded'[q] = encoded[q]
  BY DEF Generate, TypeInv, TypeOK
<1>3. /\ encoded'[r].buffer = b /\ encoded'[r].messages = call.messages
      /\ encoded'[r].last_assistant_start = Snapshot(b, call.messages)
  BY DEF Generate, TypeInv, TypeOK
<1>4. DataSound(encoded'[r])
  BY <1>3 DEF DataSound
<1> QED
  BY <1>1, <1>2, <1>4 DEF TokenInv

LEMMA RespondKeepsTokens ==
  ASSUME TypeInv, TokenInv, NEW r \in Requests, NEW outcome \in Answered,
         Respond(r, outcome), UNCHANGED sessionVars
  PROVE  TokenInv'
BY DEF Respond, TypeInv, TypeOK, TokenInv, Answered, sessionVars, chainVars

LEMMA CloseKeepsTokens ==
  ASSUME TypeInv, TokenInv, NEW r \in Requests, NEW call \in ChatRequest,
         NEW c \in DOMAIN active_chains, NEW b \in TrajectoryBuffer,
         NEW rollback \in BOOLEAN, NEW dropped, BufferSound(b),
         rollback => Says(b, Take(call.messages, Start(c).message_history_len)),
         Start(c).message_history_len < Len(call.messages),
         CloseExhausted(c, call, b, rollback, dropped), Respond(r, "length")
  PROVE  TokenInv'
<1>1. \A d \in DOMAIN active_chains' : d \in DOMAIN active_chains /\ active_chains'[d] = active_chains[d]
  BY DEF CloseExhausted
<1>2. \A q \in Requests : pc'[q] = "generating" => pc[q] = "generating" /\ encoded'[q] = encoded[q]
  BY DEF Respond, TypeInv, TypeOK
<1>3. ASSUME NEW t \in materialized_chains' PROVE TrajectorySound(t)
  <2>1. CASE t \in materialized_chains
    BY <2>1 DEF TokenInv
  <2>2. CASE t \notin materialized_chains
    <3>1. /\ rollback => t = Materialized(b, Take(call.messages, Start(c).message_history_len),
                                          order_seq', "max_trajectory_length")
          /\ ~rollback => t = Materialized(active_chains[c].buffer,
                                           active_chains[c].message_history,
                                           order_seq', "max_trajectory_length")
      BY <2>2 DEF CloseExhausted
    <3>2. CASE rollback
      <4> DEFINE tip == Take(call.messages, Start(c).message_history_len)
      <4>1. tip \in Seq(Messages)
        <5>1. Start(c).message_history_len \in 0..Len(call.messages)
          BY CallType, ChainType DEF LastAssistantStart
        <5> QED
          BY <5>1, CallType, TakeType
      <4>2. Says(b, tip) /\ t = Materialized(b, tip, order_seq', "max_trajectory_length")
        BY <3>1, <3>2
      <4> HIDE DEF tip
      <4> QED
        BY <4>1, <4>2, MaterializedSound
    <3>3. CASE ~rollback
      <4>1. /\ active_chains[c].buffer \in TrajectoryBuffer
            /\ active_chains[c].message_history \in Seq(Messages)
        BY ChainType
      <4>2. /\ BufferSound(active_chains[c].buffer)
            /\ Says(active_chains[c].buffer, active_chains[c].message_history)
        BY DEF TokenInv, ChainSound
      <4> QED
        BY <3>1, <3>3, <4>1, <4>2, MaterializedSound
    <3> QED
      BY <3>2, <3>3
  <2> QED
    BY <2>1, <2>2
<1> QED
  BY <1>1, <1>2, <1>3 DEF TokenInv

\* The tail of preparing a continuation: said is what the buffer says already.
LEMMA ExtendKeepsTokens ==
  ASSUME TypeInv, TokenInv, NEW r \in Requests, NEW call \in ChatRequest,
         NEW c \in DOMAIN active_chains, NEW b \in TrajectoryBuffer,
         BufferSound(b), Settled(b), NEW said \in Seq(Messages), Says(b, said),
         NEW suffix \in Seq(Messages), call.messages = said \o suffix,
         NEW rollback \in BOOLEAN, NEW dropped,
         rollback => said = Take(call.messages, Start(c).message_history_len),
         Start(c).message_history_len < Len(call.messages),
         Extend(r, call, c, b, suffix, rollback, dropped)
  PROVE  TokenInv'
<1>1. CASE Respond(r, "rejected") /\ UNCHANGED <<sessionVars, reserved_chain_ids>>
  BY <1>1, RespondKeepsTokens DEF Answered
<1>2. CASE CloseExhausted(c, call, b, rollback, dropped) /\ Respond(r, "length")
  <2>1. rollback => Says(b, Take(call.messages, Start(c).message_history_len))
    OBVIOUS
  <2> QED
    BY <1>2, <2>1, CloseKeepsTokens
<1>3. CASE Generate(r, call, c, AddContext(b, encode_incremental(suffix)),
                    rollback, dropped)
  <2> DEFINE new == AddContext(b, encode_incremental(suffix))
  <2>1. BufferSound(new) /\ Says(new, said \o suffix)
    BY AddContextSound
  <2> HIDE DEF new
  <2>2. Generate(r, call, c, new, rollback, dropped) /\ Says(new, call.messages)
    BY <1>3, <2>1 DEF new
  <2> QED
    BY <2>1, <2>2, GenerateKeepsTokens
<1> QED
  BY <1>1, <1>2, <1>3 DEF Extend

LEMMA StartChainKeepsTokens ==
  ASSUME TypeInv, TokenInv, NEW r \in Requests, NEW call \in ChatRequest, StartChain(r, call)
  PROVE  TokenInv'
<1> DEFINE b == [EmptyBuffer EXCEPT !.prompt_ids = encode_full(call.messages)]
<1>1. BufferSound(b) /\ Says(b, call.messages)
  BY CallType, PromptSound
<1>2. CASE Respond(r, "length") /\ UNCHANGED <<sessionVars, reserved_chain_ids>>
  BY <1>2, RespondKeepsTokens DEF Answered
<1>3. CASE Generate(r, call, 0, b, FALSE, 0)
  <2> HIDE DEF b
  <2> QED
    BY <1>1, <1>3, GenerateKeepsTokens
<1> QED
  BY <1>2, <1>3 DEF StartChain

\* What a chosen chain and the call have in common.
LEMMA ChosenSays ==
  ASSUME NEW call, NEW c \in Chosen(call)
  PROVE  /\ c \in DOMAIN active_chains
         /\ Start(c).message_history_len < Len(call.messages)
         /\ Take(call.messages, Start(c).message_history_len) = Start(c).tip
         /\ c \in Exact(call) =>
              /\ Len(active_chains[c].message_history) <= Len(call.messages)
              /\ Take(call.messages, Len(active_chains[c].message_history))
                   = active_chains[c].message_history
<1>1. c \in Eligible(call)
  BY DEF Chosen, Candidates, Exact, Deepest, Stale
<1> QED
  BY <1>1 DEF Eligible, Exact, IsChainPrefix

LEMMA ContinueChainKeepsTokens ==
  ASSUME TypeInv, TokenInv, NEW r \in Requests, NEW call \in ChatRequest, ContinueChain(r, call)
  PROVE  TokenInv'
<1>1. PICK c \in Chosen(call) \cap Exact(call) :
        Extend(r, call, c, active_chains[c].buffer,
               SubSeq(call.messages, Len(active_chains[c].message_history) + 1,
                      Len(call.messages)), FALSE, 0)
  BY DEF ContinueChain
<1> DEFINE b == active_chains[c].buffer
           h == active_chains[c].message_history
           suffix == Drop(call.messages, Len(h))
<1>2. /\ c \in DOMAIN active_chains /\ Start(c).message_history_len < Len(call.messages)
      /\ Len(h) <= Len(call.messages) /\ Take(call.messages, Len(h)) = h
  BY ChosenSays
<1>3. b \in TrajectoryBuffer /\ h \in Seq(Messages) /\ call.messages \in Seq(Messages)
  BY <1>2, ChainType, CallType
<1>4. BufferSound(b) /\ Says(b, h) /\ \E o \in Outputs : Delimits(b, Start(c).response_ids_len, o)
  BY <1>2 DEF TokenInv, ChainSound, Start
<1>5. Settled(b)
  BY <1>3, <1>4, ChainSettled
<1>6. suffix \in Seq(Messages) /\ call.messages = h \o suffix
  <2> HIDE DEF h
  <2>1. Len(h) \in 0..Len(call.messages)
    BY <1>2, <1>3, LenProperties
  <2>2. /\ Drop(call.messages, Len(h)) \in Seq(Messages)
        /\ call.messages = Take(call.messages, Len(h)) \o Drop(call.messages, Len(h))
    BY <1>3, <2>1, TakeDrop
  <2> QED
    BY <1>2, <2>2
<1>7. Extend(r, call, c, b, suffix, FALSE, 0)
  BY <1>1 DEF Drop
<1> HIDE DEF b, h, suffix
<1> QED
  BY <1>2, <1>3, <1>4, <1>5, <1>6, <1>7, ExtendKeepsTokens

LEMMA RollbackChainKeepsTokens ==
  ASSUME TypeInv, TokenInv, NEW r \in Requests, NEW call \in ChatRequest, RollbackChain(r, call)
  PROVE  TokenInv'
<1>1. PICK c \in Chosen(call) \ Exact(call) :
        LET b == active_chains[c].buffer
            n == Start(c).response_ids_len
        IN  \/ /\ Respond(r, "rejected")
               /\ UNCHANGED <<sessionVars, reserved_chain_ids>>
            \/ /\ EndsWithPrefix(b, n)
               /\ Extend(r, call, c, CutLastAssistant(b, n),
                         SubSeq(call.messages, Start(c).message_history_len + 1,
                                Len(call.messages)),
                         TRUE, Ones(b.response_mask, n + 1))
  BY DEF RollbackChain
<1> DEFINE b == active_chains[c].buffer
           n == Start(c).response_ids_len
           tip == Start(c).tip
           hl == Start(c).message_history_len
           cut == CutLastAssistant(b, n)
           suffix == Drop(call.messages, hl)
<1>2. /\ c \in DOMAIN active_chains /\ hl < Len(call.messages)
      /\ Take(call.messages, hl) = tip
  BY ChosenSays
<1>3. /\ b \in TrajectoryBuffer /\ Aligned(b) /\ n \in 0..Len(b.response_ids)
      /\ Len(b.generation_versions) \in Nat \ {0}
      /\ tip \in Seq(Messages) /\ hl \in Nat
      /\ call.messages \in Seq(Messages) /\ Len(call.messages) \in Nat
  BY <1>2, ChainType, CallType DEF ChainShape, LastAssistantStart
<1>4. PICK o \in Outputs :
        /\ BufferSound(b) /\ Says(b, Append(tip, o)) /\ Delimits(b, n, o)
  BY <1>2 DEF TokenInv, ChainSound, Start
<1>5. CASE Respond(r, "rejected") /\ UNCHANGED <<sessionVars, reserved_chain_ids>>
  BY <1>5, RespondKeepsTokens DEF Answered
<1>6. CASE /\ EndsWithPrefix(b, n)
           /\ Extend(r, call, c, cut, suffix, TRUE, Ones(b.response_mask, n + 1))
  <2>0. o \in Messages
    BY DEF SessionAssumption
  <2>1. EndsWithPrefix(b, n) /\ Extend(r, call, c, cut, suffix, TRUE, Ones(b.response_mask, n + 1))
    BY <1>6
  <2> DEFINE dropped == Ones(b.response_mask, n + 1)
  <2>2. call.messages = tip \o suffix /\ suffix \in Seq(Messages)
    <3> HIDE DEF hl, tip
    <3>1. hl \in 0..Len(call.messages)
      BY <1>2, <1>3
    <3> QED
      BY <1>2, <1>3, <3>1, TakeDrop
  <2>3. tip = Take(call.messages, Start(c).message_history_len)
    BY <1>2
  <2>4. Extend(r, call, c, cut, suffix, TRUE, dropped)
    BY <2>1
  <2> HIDE DEF b, n, tip, suffix, dropped
  <2>5. cut \in TrajectoryBuffer
    BY <1>3, <2>1, CutLastAssistantType
  <2>6. BufferSound(cut) /\ Settled(cut)
    BY <1>3, <1>4, <2>0, <2>1, CutSound
  <2>7. Says(cut, tip)
    BY <1>3, <1>4, <2>0, <2>1, CutMessages
  <2> HIDE DEF cut
  <2> QED
    BY <1>2, <1>3, <2>2, <2>3, <2>4, <2>5, <2>6, <2>7, ExtendKeepsTokens
<1> QED
  BY <1>1, <1>5, <1>6 DEF Drop

\* The chain a commit stores (session.py 262-304, 674-714).
LEMMA CommittedSound ==
  ASSUME NEW e \in EncodedData, DataSound(e), NEW r \in Requests, NEW o \in Outputs
  PROVE  ChainSound(Committed(e, Append(e.messages, o),
                              AddGeneration(e.buffer, r, Generated(r, o))))
<1> DEFINE old == e.buffer
           ids == Generated(r, o)
           b   == AddGeneration(old, r, ids)
           n   == Len(old.response_ids)
           g   == old.generation_versions
           h   == Append(e.messages, o)
           chain == Committed(e, h, b)
<1>1. old \in TrajectoryBuffer /\ e.messages \in Seq(Messages)
  BY DEF EncodedData
<1>2. BufferSound(old) /\ Says(old, e.messages)
  BY DEF DataSound
<1>3. BufferSound(b) /\ Says(b, h)
  <2> HIDE DEF old
  <2> QED
    BY <1>1, <1>2, AddGenerationSound
<1>4. /\ ids \in Seq(Token) /\ Len(ids) \in Nat \ {0} /\ ids[1].text = o
      /\ \A i \in 1..Len(ids) : ids[i].src = r
      /\ \A i \in 2..Len(ids) : ids[i].text = Pad
  <2>1. /\ ids \in Seq(Token) /\ Len(ids) = OutLen[o] /\ OutLen[o] \in Nat \ {0}
        /\ \A i \in 1..Len(ids) : ids[i].src = r
        /\ ids[1].text = o
        /\ \A i \in 2..Len(ids) : ids[i].text = Pad
    BY GeneratedTokens
  <2> HIDE DEF ids
  <2> QED
    BY <2>1
<1>5. b.response_ids = old.response_ids \o ids /\ b.generation_versions = Append(g, r)
  BY DEF AddGeneration, Extended
<1>6. old.response_ids \in Seq(Token) /\ g \in Seq(Requests) /\ n \in Nat
  BY <1>1, BufferFields
<1>7. Last(b.generation_versions) = r
  <2> HIDE DEF g, b
  <2> QED
    BY <1>5, <1>6, AppendProperties DEF Last
<1>8. /\ Len(b.response_ids) = n + Len(ids)
      /\ \A i \in (n + 1)..Len(b.response_ids) :
           b.response_ids[i] = ids[i - n] /\ i - n \in 1..Len(ids)
  <2> DEFINE p == old.response_ids
             q == p \o ids
  <2>0. n = Len(p) /\ p \in Seq(Token)
    BY <1>6
  <2> HIDE DEF ids, p, n
  <2>1. /\ Len(q) = Len(p) + Len(ids)
        /\ \A i \in 1..(Len(p) + Len(ids)) : q[i] = IF i <= Len(p) THEN p[i] ELSE ids[i - Len(p)]
    BY <1>4, <2>0, ConcatProperties
  <2> HIDE DEF q
  <2>2. \A i \in (n + 1)..Len(q) :
          i \in 1..(Len(p) + Len(ids)) /\ ~(i <= Len(p)) /\ i - n \in 1..Len(ids) /\ i - n = i - Len(p)
    BY <1>4, <1>6, <2>0, <2>1
  <2> QED
    BY <1>5, <2>0, <2>1, <2>2 DEF q, p
<1>9. /\ chain.buffer = b /\ chain.message_history = h
      /\ chain.last_assistant_start = Snapshot(old, e.messages)
  BY DEF Committed, DataSound
<1>10. /\ chain.last_assistant_start.response_ids_len = n
       /\ chain.last_assistant_start.message_history_len = Len(e.messages)
       /\ chain.last_assistant_start.tip = e.messages
  BY <1>9 DEF Snapshot
<1> DEFINE x == b.response_ids
<1>11. x = b.response_ids
  OBVIOUS
<1>12. r # Nobody
  BY DEF SessionAssumption
<1>h. h = Append(e.messages, o)
  OBVIOUS
<1> HIDE DEF old, ids, b, n, g, h, chain, x
<1>13. Delimits(b, n, o)
  <2>1. n \in 0..(Len(x) - 1) /\ n + 1 \in (n + 1)..Len(x)
    BY <1>4, <1>6, <1>8, <1>11
  <2>2. (n + 1) - n = 1
    BY <1>6
  <2>3. x[n + 1].text = o
    BY <1>4, <1>8, <1>11, <2>1, <2>2
  <2>4. \A i \in (n + 1)..Len(x) : x[i].src = r
    BY <1>4, <1>8, <1>11
  <2>5. \A i \in (n + 2)..Len(x) : i \in (n + 1)..Len(x) /\ i - n \in 2..Len(ids)
    BY <1>4, <1>6, <1>8, <1>11
  <2>6. \A i \in (n + 2)..Len(x) : x[i].text = Pad
    BY <1>4, <1>8, <1>11, <2>5
  <2> QED
    BY <1>11, <1>12, <2>1, <2>3, <2>4, <2>6 DEF Delimits
<1>14. \A i \in (n + 1)..Len(b.response_ids) : b.response_ids[i].src = Last(b.generation_versions)
  BY <1>4, <1>7, <1>8
<1>15. ChainSound(chain)
  BY <1>3, <1>9, <1>10, <1>13, <1>14, <1>h DEF ChainSound
<1> QED
  BY <1>15 DEF chain, h, b, ids, old

LEMMA CommitKeepsTokens ==
  ASSUME TypeInv, TokenInv, NEW r \in Requests, NEW o \in Outputs, Commit(r, o)
  PROVE  TokenInv'
<1> DEFINE e   == encoded[r]
           new == Committed(e, Append(e.messages, o), AddGeneration(e.buffer, r, Generated(r, o)))
<1>1. e \in EncodedData /\ DataSound(e)
  BY DEF Commit, CanCommit, TypeInv, TypeOK, TokenInv
<1>2. PICK c : active_chains' = [d \in DOMAIN active_chains \cup {c} |->
                                   IF d = c THEN new ELSE active_chains[d]]
  BY DEF Commit, CommitChain
<1>3. /\ materialized_chains' = materialized_chains
      /\ \A q \in Requests : pc'[q] = "generating" => pc[q] = "generating" /\ encoded'[q] = encoded[q]
  BY DEF Commit, TypeInv, TypeOK
<1>4. ChainSound(new)
  <2> HIDE DEF e
  <2> QED
    BY <1>1, CommittedSound
<1> HIDE DEF new
<1> QED
  BY <1>2, <1>3, <1>4 DEF TokenInv

LEMMA FinalizeKeepsTokens ==
  ASSUME TypeInv, TokenInv, Finalize
  PROVE  TokenInv'
<1>1. DOMAIN active_chains' = {} /\ UNCHANGED requestVars
  BY DEF Finalize
<1>2. ASSUME NEW c \in DOMAIN active_chains
      PROVE  TrajectorySound(Materialized(active_chains[c].buffer,
                             active_chains[c].message_history,
                             active_chains[c].updated_seq, "none"))
  <2>1. /\ active_chains[c].buffer \in TrajectoryBuffer
        /\ active_chains[c].message_history \in Seq(Messages)
    BY ChainType
  <2>2. /\ BufferSound(active_chains[c].buffer)
        /\ Says(active_chains[c].buffer, active_chains[c].message_history)
    BY DEF TokenInv, ChainSound
  <2> QED
    BY <2>1, <2>2, MaterializedSound
<1>3. \A t \in ActiveTrajectories : TrajectorySound(t)
  BY <1>2 DEF ActiveTrajectories
<1> QED
  BY <1>1, <1>3 DEF Finalize, TokenInv, requestVars

\* A new session has no tokens.
LEMMA TokenInit == Init => TokenInv
<1> SUFFICES ASSUME Init PROVE TokenInv
  OBVIOUS
<1> DOMAIN active_chains = {}
  BY DEF Init
<1> QED
  BY DEF Init, TokenInv

\* TokenInv is inductive relative to TypeInv.
LEMMA TokenStep == TypeInv /\ TokenInv /\ [Step]_vars => TokenInv'
<1> SUFFICES ASSUME TypeInv, TokenInv, [Step]_vars PROVE TokenInv'
  OBVIOUS
<1>1. ASSUME NEW r \in Requests, RefuseClosed(r) PROVE TokenInv'
  BY <1>1, RespondKeepsTokens DEF RefuseClosed, Answered
<1>2. ASSUME NEW r \in Requests, Serve(r) PROVE TokenInv'
  BY <1>2, StartChainKeepsTokens, ContinueChainKeepsTokens, RollbackChainKeepsTokens DEF Serve
<1>3. ASSUME NEW r \in Requests, Fail(r) PROVE TokenInv'
  BY <1>3 DEF Fail, TypeInv, TypeOK, TokenInv, sessionVars, chainVars
<1>4. ASSUME NEW r \in Requests, Release(r) PROVE TokenInv'
  BY <1>4 DEF Release, TypeInv, TypeOK, TokenInv, sessionVars, chainVars
<1>5. ASSUME NEW r \in Requests, NEW o \in Outputs, Commit(r, o) PROVE TokenInv'
  BY <1>5, CommitKeepsTokens
<1>6. ASSUME NEW w \in Rewards, SetReward(w) PROVE TokenInv'
  BY <1>6 DEF SetReward, TokenInv, chainVars, requestVars
<1>7. CASE Finalize
  BY <1>7, FinalizeKeepsTokens
<1>8. CASE Abort
  <2> DOMAIN active_chains' = {} /\ materialized_chains' = {} /\ UNCHANGED requestVars
    BY <1>8 DEF Abort
  <2> QED
    BY DEF TokenInv, requestVars
<1>9. CASE UNCHANGED vars
  BY <1>9 DEF TokenInv, vars, sessionVars, chainVars, requestVars
<1> QED
  BY <1>1, <1>2, <1>3, <1>4, <1>5, <1>6, <1>7, <1>8, <1>9 DEF Step, Resume

\* Every buffer of the session is sound.
LEMMA EveryBuffer ==
  ASSUME TypeInv, TokenInv, NEW b \in Buffers
  PROVE  b \in TrajectoryBuffer /\ BufferSound(b)
<1>1. ASSUME NEW c \in DOMAIN active_chains, b = active_chains[c].buffer
      PROVE  b \in TrajectoryBuffer /\ BufferSound(b)
  BY <1>1, ChainType DEF TokenInv, ChainSound
<1>2. ASSUME NEW t \in materialized_chains, b = t.buffer
      PROVE  b \in TrajectoryBuffer /\ BufferSound(b)
  BY <1>2 DEF TokenInv, TrajectorySound, TypeInv, TypeOK, Trajectory
<1>3. ASSUME NEW r \in Requests, pc[r] = "generating", b = encoded[r].buffer
      PROVE  b \in TrajectoryBuffer /\ BufferSound(b)
  BY <1>3 DEF TokenInv, DataSound, TypeInv, TypeOK, EncodedData
<1> QED
  BY <1>1, <1>2, <1>3 DEF Buffers

\* The three properties of the tokens follow from the invariant.
LEMMA AlignedNow == TypeInv /\ TokenInv => BuffersAligned
<1> SUFFICES ASSUME TypeInv, TokenInv, NEW b \in Buffers
             PROVE  /\ Len(b.response_mask) = Len(b.response_ids)
                    /\ \A i \in DOMAIN b.response_ids :
                         b.response_mask[i] = IF b.response_ids[i].src = Nobody THEN 0 ELSE 1
                    /\ b.response_logprobs = IF Logprobs THEN b.response_mask ELSE << >>
                    /\ Selects(b.generation_versions, Authors(b), Requests)
  BY DEF BuffersAligned
<1>1. b \in TrajectoryBuffer /\ BufferSound(b)
  BY EveryBuffer
<1>2. Authors(b) = Mapped(AuthorOf, b.response_ids)
  BY <1>1, SoundMeans
<1>3. DOMAIN b.response_ids = 1..Len(b.response_ids)
  BY <1>1, BufferFields, LenProperties
<1> QED
  BY <1>1, <1>2, <1>3 DEF BufferSound, Marks

LEMMA ContextNow == TypeInv /\ TokenInv => ContextMatchesHistory
<1> SUFFICES ASSUME TypeInv, TokenInv PROVE ContextMatchesHistory
  OBVIOUS
<1>1. ASSUME NEW r \in Requests, pc[r] = "generating"
      PROVE  Spells(encoded[r].buffer, encoded[r].messages)
  <2>1. encoded[r].buffer \in TrajectoryBuffer
    BY DEF TypeInv, TypeOK, EncodedData
  <2>2. Says(encoded[r].buffer, encoded[r].messages)
    BY <1>1 DEF TokenInv, DataSound
  <2> QED
    BY <2>1, <2>2, SoundMeans
<1>2. ASSUME NEW c \in DOMAIN active_chains
      PROVE  Spells(active_chains[c].buffer, active_chains[c].message_history)
  <2>1. active_chains[c].buffer \in TrajectoryBuffer
    BY ChainType
  <2>2. Says(active_chains[c].buffer, active_chains[c].message_history)
    BY DEF TokenInv, ChainSound
  <2> QED
    BY <2>1, <2>2, SoundMeans
<1>3. ASSUME NEW t \in materialized_chains
      PROVE  t.num_turns = 1 + Cardinality(Picked(Texts(t.buffer), User \cup Assistant))
  <2>1. t.buffer \in TrajectoryBuffer
    BY DEF TypeInv, TypeOK, Trajectory
  <2>2. Texts(t.buffer) = Mapped(TextOf, Ids(t.buffer))
    BY <2>1, SoundMeans
  <2> QED
    BY <2>2 DEF TokenInv, TrajectorySound
<1>4. ASSUME NEW b \in Buffers PROVE PromptsAnswered(b)
  BY EveryBuffer DEF BufferSound, Answers, PromptsAnswered
<1> QED
  BY <1>1, <1>2, <1>3, <1>4 DEF ContextMatchesHistory

LEMMA BoundaryNow == TypeInv /\ TokenInv => BoundaryDelimitsLastAssistant
<1> SUFFICES ASSUME TypeInv, TokenInv, NEW c \in DOMAIN active_chains
             PROVE  LET chain == active_chains[c]
                        b     == chain.buffer
                        n     == Start(c).response_ids_len
                    IN  /\ Start(c).message_history_len = Len(chain.message_history) - 1
                        /\ Start(c).tip = Front(chain.message_history)
                        /\ n < Len(b.response_ids)
                        /\ b.response_ids[n + 1].text = Last(chain.message_history)
                        /\ \A i \in (n + 1)..Len(b.response_ids) :
                             b.response_ids[i].src = Last(b.generation_versions)
  BY DEF BoundaryDelimitsLastAssistant
<1> DEFINE h == active_chains[c].message_history
           b == active_chains[c].buffer
           n == Start(c).response_ids_len
           tip == Start(c).tip
<1>1. PICK o \in Outputs :
        /\ h = Append(tip, o) /\ Start(c).message_history_len = Len(tip) /\ Delimits(b, n, o)
  BY DEF TokenInv, ChainSound, Start
<1>2. \A i \in (n + 1)..Len(b.response_ids) : b.response_ids[i].src = Last(b.generation_versions)
  BY DEF TokenInv, ChainSound, Start
<1>3. tip \in Seq(Messages) /\ o \in Messages /\ Len(b.response_ids) \in Nat
  BY ChainType, BufferFields DEF LastAssistantStart, SessionAssumption
<1> HIDE DEF h, tip
<1>4. Len(h) = Len(tip) + 1 /\ h[Len(tip) + 1] = o /\ Len(tip) \in Nat
  BY <1>1, <1>3, AppendProperties, LenProperties
<1>5. Last(h) = o
  BY <1>4 DEF Last
<1>6. Front(h) = tip
  <2>1. Take(h, Len(tip)) = tip
    BY <1>1, <1>3, TakeAppend
  <2>2. Len(h) - 1 = Len(tip)
    BY <1>4
  <2> QED
    BY <2>1, <2>2 DEF Front, Take
<1>7. n < Len(b.response_ids) /\ b.response_ids[n + 1].text = o
  BY <1>1, <1>3 DEF Delimits
<1> QED
  BY <1>1, <1>2, <1>4, <1>5, <1>6, <1>7 DEF h, tip

\* In every buffer the mask and the logprobs are as long as the tokens, the mask
\* is 1 exactly on tokens the backend generated, and each version names a turn
\* of the buffer in order (session.py 262-289, 416-475, 645-649).
THEOREM BuffersCorrect == Spec => []BuffersAligned
BY AlignedNow, TypeInit, TypeStep, TokenInit, TokenStep, NextIsStep, PTL DEF Spec

\* The tokens of a chain, of a request in flight and of a closed trajectory say
\* exactly its messages, one generation prompt before each answer, however often
\* it was continued and rolled back (session.py 384-530, 674-714).
THEOREM ContextCorrect == Spec => []ContextMatchesHistory
BY ContextNow, TypeInit, TypeStep, TokenInit, TokenStep, NextIsStep, PTL DEF Spec

\* The boundary a chain keeps delimits its latest assistant: the next rollback
\* takes these tokens and no others (session.py 65-73, 416-445, 651-666).
THEOREM BoundaryCorrect == Spec => []BoundaryDelimitsLastAssistant
BY BoundaryNow, TypeInit, TypeStep, TokenInit, TokenStep, NextIsStep, PTL DEF Spec
=============================================================================
