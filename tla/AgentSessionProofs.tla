------------------------ MODULE AgentSessionProofs ------------------------
(***************************************************************************)
(* What a retrying agent can rely on, for any agent of AgentSession, any   *)
(* number of requests, attempts and steps, any capacity and any prompt:    *)
(* the answers it got stay in the training data (HeardCorrect).            *)
(*                                                                         *)
(* HeardAnswersSurvive is not inductive.  Its inductive form, HeardInv,    *)
(* relates the agent's transcript to the gateway's chains: what the agent  *)
(* sends next begins with the history of every chain that ends in an       *)
(* answer it got (HeardIsRepeated), so such a chain is continued and never *)
(* rolled back, and no request in flight has taken one to roll back        *)
(* (HeardIsSpared).  The order of the trajectories follows from            *)
(* LastIsNewest.  The steps of the gateway are those of GatewaySession,    *)
(* whose invariants SessionInv and OrderInv are used as they are; Serves,  *)
(* ClosesChain and Stores sum up what they do to the chains.               *)
(***************************************************************************)
EXTENDS AgentSession, GatewaySessionLedger

USE SessionAssumption

-----------------------------------------------------------------------------
(* What the gateway's steps do to the chains and trajectories.             *)

Latest(c) == LatestOf(active_chains[c].buffer)

\* Turn q is in a chain or trajectory that is newer than n.
HeldAfter(q, n) ==
  \/ \E c \in DOMAIN active_chains :
       TrainableFrom(active_chains[c].buffer, q) # 0 /\ active_chains[c].updated_seq > n
  \/ \E t \in materialized_chains :
       TrainableFrom(t.buffer, q) # 0 /\ t.order_seq > n

\* Chain c is closed for its length, and every turn but those in gone goes
\* into the newest trajectory (session.py 716-747).
ClosesChain(c, gone) ==
  /\ c \in DOMAIN active_chains
  /\ DOMAIN active_chains' = DOMAIN active_chains \ {c}
  /\ \A d \in DOMAIN active_chains \ {c} : active_chains'[d] = active_chains[d]
  /\ \A t \in materialized_chains : t \in materialized_chains'
  /\ \A t \in materialized_chains' :
       t \in materialized_chains \/ t.reason = "max_trajectory_length"
  /\ \A q \in Requests \ gone : TrainableFrom(active_chains[c].buffer, q) # 0 =>
       \E t \in materialized_chains' :
         TrainableFrom(t.buffer, q) # 0 /\ t.order_seq = order_seq + 1

LEMMA CloseMoves ==
  ASSUME SessionInv, NEW call, NEW c \in DOMAIN active_chains, NEW b,
         NEW rollback \in BOOLEAN, NEW dropped, NEW suffix,
         Keeps(b, active_chains[c].buffer, rollback, dropped),
         CloseExhausted(c, call, b, rollback, dropped)
  PROVE  ClosesChain(c, IF rollback THEN {Latest(c)} ELSE {})
<1> DEFINE old  == active_chains[c].buffer
           v    == LatestOf(old)
           gone == IF rollback THEN {v} ELSE {}
           kept == IF rollback THEN b ELSE old
<1>1. /\ old \in TrajectoryBuffer /\ BufferSound(old) /\ v \in Requests
      /\ Ends(old, Start(c).response_ids_len, v)
  BY ChainLedger
<1>2. \A q \in Requests \ gone : TrainableFrom(kept, q) = TrainableFrom(old, q)
  BY DEF Keeps
<1>3. /\ DOMAIN active_chains' = DOMAIN active_chains \ {c}
      /\ \A d \in DOMAIN active_chains \ {c} : active_chains'[d] = active_chains[d]
  BY DEF CloseExhausted
<1>4. ASSUME NEW x, NEW history, NEW seq
      PROVE  LET t == Materialized(x, history, seq, "max_trajectory_length")
             IN  t.buffer = x /\ t.reason = "max_trajectory_length" /\ t.order_seq = seq
  BY DEF Materialized
<1>5. \/ /\ materialized_chains' = materialized_chains
         /\ rollback /\ Start(c).response_ids_len = 0
      \/ \E t : /\ materialized_chains' = materialized_chains \cup {t}
                /\ t.buffer = kept /\ t.reason = "max_trajectory_length"
                /\ t.order_seq = order_seq + 1
  <2>1. CASE NothingSurvives(c, rollback)
    BY <2>1 DEF CloseExhausted, NothingSurvives
  <2>2. CASE ~NothingSurvives(c, rollback)
    <3>1. \E history : materialized_chains' = materialized_chains \cup
            {Materialized(kept, history, order_seq + 1, "max_trajectory_length")}
      BY <2>2 DEF CloseExhausted
    <3> QED
      BY <1>4, <3>1
  <2> QED
    BY <2>1, <2>2
<1>6. ASSUME rollback, Start(c).response_ids_len = 0, NEW q \in Requests \ gone
      PROVE  TrainableFrom(old, q) = 0
  <2>1. Ends(old, 0, v) /\ q \in Requests /\ q # v
    BY <1>1, <1>6
  <2> HIDE DEF old, v
  <2> QED
    BY <1>1, <2>1, OnlyLatest
<1> HIDE DEF old, kept
<1>7. \A q \in Requests \ gone : TrainableFrom(old, q) # 0 =>
        \E t \in materialized_chains' :
          TrainableFrom(t.buffer, q) # 0 /\ t.order_seq = order_seq + 1
  BY <1>2, <1>5, <1>6
<1> QED
  BY <1>3, <1>5, <1>7 DEF ClosesChain, Latest, old

\* What a request does while it is prepared.
Serves(r, call) ==
  /\ pc[r] = "idle" /\ phase = "ACTIVE" /\ UNCHANGED <<phase, returned>>
  /\ \A q \in Requests : q # r =>
       pc'[q] = pc[q] /\ encoded'[q] = encoded[q] /\ held'[q] = held[q]
  /\ pc'[r] \in {"rejected", "length", "generating"}
  /\ pc'[r] = "generating" =>
       /\ encoded'[r].messages = call.messages
       /\ encoded'[r].rollback_applied => held'[r] \in Chosen(call) \ Exact(call)
  /\ \/ UNCHANGED <<active_chains, materialized_chains, order_seq>>
     \/ \E c \in DOMAIN active_chains : \E gone :
          /\ ClosesChain(c, gone)
          /\ pc'[r] # "generating"
          /\ \A q \in gone : q = Latest(c) /\ c \in Chosen(call) \ Exact(call)

LEMMA RespondMoves ==
  ASSUME SessionInv, NEW r \in Requests, NEW call, NEW outcome \in {"rejected", "length"},
         Preparing(r), Respond(r, outcome), UNCHANGED sessionVars
  PROVE  Serves(r, call)
<1>1. pc' = [pc EXCEPT ![r] = outcome] /\ encoded' = encoded /\ held' = held
  BY DEF Respond
<1>2. pc = [q \in Requests |-> pc[q]]
  BY DEF SessionInv, TypeInv, TypeOK
<1> QED
  BY <1>1, <1>2 DEF Serves, Preparing, sessionVars, chainVars

LEMMA GenerateMoves ==
  ASSUME SessionInv, NEW r \in Requests, NEW call, NEW c, NEW b, NEW rollback, NEW dropped,
         Preparing(r), Generate(r, call, c, b, rollback, dropped),
         rollback => c \in Chosen(call) \ Exact(call)
  PROVE  Serves(r, call)
<1> DEFINE e == [chain_id |-> c, buffer |-> b, messages |-> call.messages,
                 tools |-> call.tools, last_assistant_start |-> Snapshot(b, call.messages),
                 rollback_applied |-> rollback, dropped |-> dropped]
<1>1. /\ pc' = [pc EXCEPT ![r] = "generating"] /\ held' = [held EXCEPT ![r] = c]
      /\ encoded' = [encoded EXCEPT ![r] = e] /\ UNCHANGED sessionVars
  BY DEF Generate
<1>2. e.messages = call.messages /\ e.rollback_applied = rollback
  OBVIOUS
<1> HIDE DEF e
<1>3. /\ DOMAIN pc = Requests /\ DOMAIN held = Requests /\ DOMAIN encoded = Requests
  BY DEF SessionInv, TypeInv, TypeOK
<1>4. pc'[r] = "generating" /\ held'[r] = c /\ encoded'[r] = e
  BY <1>1, <1>3
<1>5. \A q \in Requests : q # r =>
        pc'[q] = pc[q] /\ encoded'[q] = encoded[q] /\ held'[q] = held[q]
  BY <1>1, <1>3
<1> QED
  BY <1>1, <1>2, <1>4, <1>5 DEF Serves, Preparing, sessionVars, chainVars

LEMMA ExtendMoves ==
  ASSUME SessionInv, NEW r \in Requests, NEW call, NEW c \in DOMAIN active_chains, NEW b,
         NEW suffix, NEW rollback \in BOOLEAN, NEW dropped, Preparing(r),
         Keeps(b, active_chains[c].buffer, rollback, dropped),
         rollback => c \in Chosen(call) \ Exact(call),
         Extend(r, call, c, b, suffix, rollback, dropped)
  PROVE  Serves(r, call)
<1>1. CASE Respond(r, "rejected") /\ UNCHANGED <<sessionVars, reserved_chain_ids>>
  BY <1>1, RespondMoves
<1>2. CASE CloseExhausted(c, call, b, rollback, dropped) /\ Respond(r, "length")
  <2>1. ClosesChain(c, IF rollback THEN {Latest(c)} ELSE {})
    BY <1>2, CloseMoves
  <2>2. /\ pc' = [pc EXCEPT ![r] = "length"] /\ encoded' = encoded /\ held' = held
        /\ UNCHANGED <<phase, returned>>
    BY <1>2 DEF Respond, CloseExhausted
  <2>3. pc = [q \in Requests |-> pc[q]]
    BY DEF SessionInv, TypeInv, TypeOK
  <2>4. pc'[r] = "length" /\ \A q \in Requests : q # r => pc'[q] = pc[q]
    BY <2>2, <2>3
  <2>5. \E gone : /\ ClosesChain(c, gone)
                  /\ \A q \in gone : q = Latest(c) /\ c \in Chosen(call) \ Exact(call)
    BY <2>1
  <2> QED
    BY <2>2, <2>4, <2>5 DEF Serves, Preparing
<1>3. CASE Generate(r, call, c, AddContext(b, encode_incremental(suffix)), rollback, dropped)
  BY <1>3, GenerateMoves
<1> QED
  BY <1>1, <1>2, <1>3 DEF Extend

LEMMA ServeMoves ==
  ASSUME SessionInv, NEW r \in Requests, NEW call \in ChatRequest,
         StartChain(r, call) \/ ContinueChain(r, call) \/ RollbackChain(r, call)
  PROVE  Serves(r, call)
<1>1. CASE StartChain(r, call)
  <2>1. Preparing(r)
    BY <1>1 DEF StartChain
  <2>2. CASE Respond(r, "length") /\ UNCHANGED <<sessionVars, reserved_chain_ids>>
    BY <2>1, <2>2, RespondMoves
  <2>3. ASSUME NEW b, Generate(r, call, 0, b, FALSE, 0) PROVE Serves(r, call)
    BY <2>1, <2>3, GenerateMoves
  <2> QED
    BY <1>1, <2>2, <2>3 DEF StartChain
<1>2. CASE ContinueChain(r, call)
  <2>1. Preparing(r)
    BY <1>2 DEF ContinueChain
  <2>2. PICK c \in Chosen(call) \cap Exact(call) :
          \E suffix : Extend(r, call, c, active_chains[c].buffer, suffix, FALSE, 0)
    BY <1>2 DEF ContinueChain
  <2>3. c \in DOMAIN active_chains
    BY ChosenChain
  <2>4. Keeps(active_chains[c].buffer, active_chains[c].buffer, FALSE, 0)
    BY DEF Keeps
  <2> QED
    BY <2>1, <2>2, <2>3, <2>4, ExtendMoves
<1>3. CASE RollbackChain(r, call)
  <2>1. Preparing(r)
    BY <1>3 DEF RollbackChain
  <2>2. CASE Respond(r, "rejected") /\ UNCHANGED <<sessionVars, reserved_chain_ids>>
    BY <2>1, <2>2, RespondMoves
  <2>3. ASSUME NEW c \in Chosen(call) \ Exact(call), NEW suffix,
               EndsWithPrefix(active_chains[c].buffer, Start(c).response_ids_len),
               Extend(r, call, c,
                      CutLastAssistant(active_chains[c].buffer, Start(c).response_ids_len),
                      suffix, TRUE,
                      Ones(active_chains[c].buffer.response_mask, Start(c).response_ids_len + 1))
        PROVE  Serves(r, call)
    <3>1. c \in DOMAIN active_chains
      BY ChosenChain
    <3>2. Keeps(CutLastAssistant(active_chains[c].buffer, Start(c).response_ids_len),
                active_chains[c].buffer, TRUE,
                Ones(active_chains[c].buffer.response_mask, Start(c).response_ids_len + 1))
      BY <2>3, <3>1, CutKeeps
    <3> QED
      BY <2>1, <2>3, <3>1, <3>2, ExtendMoves
  <2> QED
    BY <1>3, <2>2, <2>3 DEF RollbackChain
<1> QED
  BY <1>1, <1>2, <1>3

\* A commit makes turn r the latest of chain c (session.py 668-714).
Stores(r, c, o) ==
  /\ phase = "ACTIVE" /\ pc[r] = "generating" /\ pc'[r] = "ok"
  /\ UNCHANGED <<phase, materialized_chains, returned>>
  /\ order_seq' = order_seq + 1
  /\ \A q \in Requests : q # r =>
       /\ pc'[q] = pc[q] /\ encoded'[q] = encoded[q] /\ held'[q] = held[q]
       /\ held[q] # 0 => held[q] # c
  /\ DOMAIN active_chains' = DOMAIN active_chains \cup {c}
  /\ \A d \in DOMAIN active_chains \ {c} : active_chains'[d] = active_chains[d]
  /\ active_chains'[c].updated_seq = order_seq + 1
  /\ active_chains'[c].message_history = Append(encoded[r].messages, o)
  /\ LatestOf(active_chains'[c].buffer) = r
  /\ TrainableFrom(active_chains'[c].buffer, r) # 0
  /\ c \in DOMAIN active_chains =>
       /\ held[r] = c /\ held[r] # 0
       /\ \A q \in Requests : TrainableFrom(active_chains[c].buffer, q) # 0 =>
            \/ TrainableFrom(active_chains'[c].buffer, q) # 0
            \/ encoded[r].rollback_applied /\ q = Latest(c)

LEMMA CommitMoves ==
  ASSUME SessionInv, NEW r \in Requests, NEW o \in Outputs, Commit(r, o)
  PROVE  \E c : Stores(r, c, o)
<1> DEFINE e   == encoded[r]
           h   == held[r]
           c   == IF e.chain_id = 0 THEN next_chain_id ELSE e.chain_id
           buf == AddGeneration(e.buffer, r, Generated(r, o))
           new == Committed(e, Append(e.messages, o), buf)
           k   == OutLen[o]
<1>1. /\ k \in Nat \ {0} /\ LatestOf(buf) = r
      /\ \A d \in DOMAIN active_chains : TrainableFrom(active_chains[d].buffer, r) = 0
      /\ \A q \in Requests :
           TrainableFrom(buf, q) = IF q = r THEN k ELSE TrainableFrom(e.buffer, q)
  BY CommittedCounts
<1>2. /\ pc[r] = "generating" /\ phase = "ACTIVE" /\ e.chain_id = h /\ h \in Nat
  BY DEF Commit, CanCommit, SessionInv, ReservationInv, ReservationsExact, HeldChainsExist,
         TypeInv, TypeOK
<1>3. /\ active_chains' = [d \in DOMAIN active_chains \cup {c} |->
                             IF d = c THEN new ELSE active_chains[d]]
      /\ order_seq' = order_seq + 1 /\ pc' = [pc EXCEPT ![r] = "ok"]
      /\ UNCHANGED <<phase, materialized_chains, returned>>
  BY DEF Commit, CommitChain
<1>4. \A q \in Requests : q # r =>
        pc'[q] = pc[q] /\ encoded'[q] = encoded[q] /\ held'[q] = held[q]
  BY DEF Commit, SessionInv, TypeInv, TypeOK
<1>5. pc'[r] = "ok"
  BY <1>3 DEF SessionInv, TypeInv, TypeOK
<1>6. /\ new.buffer = buf /\ new.updated_seq = order_seq + 1
      /\ new.message_history = Append(e.messages, o)
  BY DEF Committed
<1>7. h # 0 => h \in DOMAIN active_chains /\ c = h
  BY <1>2, FreeIsUnheld
<1>8. h = 0 => c = next_chain_id
  BY <1>2
<1>9. InFlight(r)
  BY <1>2 DEF SessionInv, LedgerInv
<1>10. \A d \in DOMAIN active_chains : d < next_chain_id /\ d \in Nat /\ next_chain_id \in Nat
  BY ChainType DEF SessionInv, ReservationInv, IdsAllocated, TypeInv, TypeOK
<1> HIDE DEF new, buf, c, k, e, h
<1>11. /\ DOMAIN active_chains' = DOMAIN active_chains \cup {c}
       /\ active_chains'[c] = new
       /\ \A d \in DOMAIN active_chains \ {c} : active_chains'[d] = active_chains[d]
  BY <1>3
<1>12. ASSUME NEW q \in Requests, q # r, held[q] # 0 PROVE held[q] # c
  <2>1. held[q] \in DOMAIN active_chains /\ held[q] # h
    BY <1>2, <1>12, FreeIsUnheld
       DEF h, SessionInv, ReservationInv, ReservationsExact, HoldersAreExclusive
  <2> QED
    BY <1>7, <1>8, <1>10, <2>1
<1>13. c \in DOMAIN active_chains => h = c /\ h # 0
  BY <1>7, <1>8, <1>10
<1>14. ASSUME c \in DOMAIN active_chains, NEW q \in Requests,
              TrainableFrom(active_chains[c].buffer, q) # 0
       PROVE  TrainableFrom(buf, q) # 0 \/ (e.rollback_applied /\ q = Latest(c))
  <2>1. h = c /\ h # 0
    BY <1>13, <1>14
  <2>2. TrainableFrom(e.buffer, q)
          = IF e.rollback_applied /\ q = Latest(c) THEN 0
            ELSE TrainableFrom(active_chains[c].buffer, q)
    BY <1>2, <1>9, <2>1 DEF InFlight, Carries, Latest, e, h
  <2>3. q # r
    BY <1>1, <1>14
  <2> QED
    BY <1>1, <1>14, <2>2, <2>3
<1>15. TrainableFrom(buf, r) # 0
  BY <1>1
<1>16. /\ active_chains'[c].buffer = buf /\ active_chains'[c].updated_seq = order_seq + 1
       /\ active_chains'[c].message_history = Append(encoded[r].messages, o)
  BY <1>6, <1>11 DEF e
<1>17. c \in DOMAIN active_chains =>
         /\ held[r] = c /\ held[r] # 0
         /\ \A q \in Requests : TrainableFrom(active_chains[c].buffer, q) # 0 =>
              \/ TrainableFrom(active_chains'[c].buffer, q) # 0
              \/ encoded[r].rollback_applied /\ q = Latest(c)
  BY <1>13, <1>14, <1>16 DEF e, h
<1>18. Stores(r, c, o)
  BY <1>1, <1>2, <1>3, <1>4, <1>5, <1>11, <1>12, <1>15, <1>16, <1>17 DEF Stores
<1> QED
  BY <1>18

-----------------------------------------------------------------------------
(* What those steps keep of the turns.                                     *)

\* A chain that is closed takes its turns with it, but for those in gone, and
\* they are newer then.
LEMMA ClosingKeeps ==
  ASSUME SessionInv, OrderInv, NEW c, NEW gone, ClosesChain(c, gone),
         NEW q \in Requests \ gone, NEW n \in Int, n <= order_seq, HeldAfter(q, n)
  PROVE  HeldAfter(q, n)'
<1>1. order_seq \in Nat
  BY DEF SessionInv, TypeInv, TypeOK
<1>2. CASE \E d \in DOMAIN active_chains :
             TrainableFrom(active_chains[d].buffer, q) # 0 /\ active_chains[d].updated_seq > n
  <2>1. PICK d \in DOMAIN active_chains :
          TrainableFrom(active_chains[d].buffer, q) # 0 /\ active_chains[d].updated_seq > n
    BY <1>2
  <2>2. CASE d = c
    <3>1. PICK t \in materialized_chains' :
            TrainableFrom(t.buffer, q) # 0 /\ t.order_seq = order_seq + 1
      BY <2>1, <2>2 DEF ClosesChain
    <3> QED
      BY <1>1, <3>1 DEF HeldAfter
  <2>3. CASE d # c
    <3>1. d \in DOMAIN active_chains' /\ active_chains'[d] = active_chains[d]
      BY <2>1, <2>3 DEF ClosesChain
    <3> QED
      BY <2>1, <3>1 DEF HeldAfter
  <2> QED
    BY <2>2, <2>3
<1>3. CASE \E t \in materialized_chains : TrainableFrom(t.buffer, q) # 0 /\ t.order_seq > n
  BY <1>3 DEF ClosesChain, HeldAfter
<1> QED
  BY <1>2, <1>3 DEF HeldAfter

\* A commit keeps them, but for the turn it replaces.
LEMMA StoringKeeps ==
  ASSUME SessionInv, NEW r \in Requests, NEW c, NEW o, Stores(r, c, o),
         NEW q \in Requests, encoded[r].rollback_applied /\ held[r] # 0 => q # Latest(held[r]),
         NEW n \in Int, n <= order_seq, HeldAfter(q, n)
  PROVE  HeldAfter(q, n)'
<1>1. order_seq \in Nat
  BY DEF SessionInv, TypeInv, TypeOK
<1>2. CASE \E d \in DOMAIN active_chains :
             TrainableFrom(active_chains[d].buffer, q) # 0 /\ active_chains[d].updated_seq > n
  <2>1. PICK d \in DOMAIN active_chains :
          TrainableFrom(active_chains[d].buffer, q) # 0 /\ active_chains[d].updated_seq > n
    BY <1>2
  <2>2. CASE d = c
    <3>1. /\ c \in DOMAIN active_chains' /\ TrainableFrom(active_chains'[c].buffer, q) # 0
          /\ active_chains'[c].updated_seq = order_seq + 1
      BY <2>1, <2>2 DEF Stores
    <3> QED
      BY <1>1, <3>1 DEF HeldAfter
  <2>3. CASE d # c
    <3>1. d \in DOMAIN active_chains' /\ active_chains'[d] = active_chains[d]
      BY <2>1, <2>3 DEF Stores
    <3> QED
      BY <2>1, <3>1 DEF HeldAfter
  <2> QED
    BY <2>2, <2>3
<1>3. CASE \E t \in materialized_chains : TrainableFrom(t.buffer, q) # 0 /\ t.order_seq > n
  BY <1>3 DEF Stores, HeldAfter
<1> QED
  BY <1>2, <1>3 DEF HeldAfter

\* Closing the session keeps every turn at its place in the order.
LEMMA FinalizeKeepsTurns ==
  ASSUME SessionInv, Finalize, NEW q \in Requests, NEW n \in Int, HeldAfter(q, n)
  PROVE  HeldAfter(q, n)'
<1>1. CASE \E c \in DOMAIN active_chains :
             TrainableFrom(active_chains[c].buffer, q) # 0 /\ active_chains[c].updated_seq > n
  <2>1. PICK c \in DOMAIN active_chains :
          TrainableFrom(active_chains[c].buffer, q) # 0 /\ active_chains[c].updated_seq > n
    BY <1>1
  <2> DEFINE t == Materialized(active_chains[c].buffer, active_chains[c].message_history,
                               active_chains[c].updated_seq, "none")
  <2>2. t.buffer = active_chains[c].buffer /\ t.order_seq = active_chains[c].updated_seq
    BY DEF Materialized
  <2>3. t \in materialized_chains'
    BY DEF Finalize, ActiveTrajectories
  <2> HIDE DEF t
  <2> QED
    BY <2>1, <2>2, <2>3 DEF HeldAfter
<1>2. CASE \E t \in materialized_chains : TrainableFrom(t.buffer, q) # 0 /\ t.order_seq > n
  <2>1. materialized_chains \subseteq materialized_chains'
    BY DEF Finalize
  <2> QED
    BY <1>2, <2>1 DEF HeldAfter
<1> QED
  BY <1>1, <1>2 DEF HeldAfter

LEMMA HomeIsHeld ==
  ASSUME SessionInv, NEW q PROVE Home(q) <=> HeldAfter(q, -1)
<1>1. \A c \in DOMAIN active_chains : active_chains[c].updated_seq > -1
  BY DEF SessionInv, TypeInv, TypeOK, ChainState
<1>2. \A t \in materialized_chains : t.order_seq > -1
  BY DEF SessionInv, TypeInv, TypeOK, Trajectory
<1> QED
  BY <1>1, <1>2 DEF Home, InChain, InClosed, HeldAfter

-----------------------------------------------------------------------------
(* What the agent sends.                                                   *)

USE AgentSessionAssumption

Begins(s, t) == Len(s) <= Len(t) /\ Take(t, Len(s)) = s

LEMMA BeginsItself ==
  ASSUME NEW S, NEW t \in Seq(S) PROVE Begins(t, t)
BY DEF Begins, Take

LEMMA BeginsLonger ==
  ASSUME NEW S, NEW s \in Seq(S), NEW t \in Seq(S), NEW x \in S, Begins(s, t)
  PROVE  Begins(s, Append(t, x))
<1> DEFINE u == Append(t, x)
           n == Len(s)
<1>1. /\ n \in Nat /\ Len(t) \in Nat /\ n <= Len(t)
      /\ u \in Seq(S) /\ Len(u) = Len(t) + 1 /\ \A i \in 1..Len(t) : u[i] = t[i]
  BY AppendProperties, LenProperties DEF Begins
<1> HIDE DEF u, n
<1>2. n \in 0..Len(t) /\ n \in 0..Len(u)
  BY <1>1
<1>3. /\ Take(u, n) \in Seq(S) /\ Len(Take(u, n)) = n /\ \A i \in 1..n : Take(u, n)[i] = u[i]
      /\ Take(t, n) \in Seq(S) /\ Len(Take(t, n)) = n /\ \A i \in 1..n : Take(t, n)[i] = t[i]
  BY <1>1, <1>2, TakeElements
<1>4. \A i \in 1..n : Take(u, n)[i] = Take(t, n)[i]
  <2>1. ASSUME NEW i \in 1..n PROVE u[i] = t[i]
    <3>1. i \in 1..Len(t)
      BY <1>1
    <3> QED
      BY <1>1, <3>1
  <2> QED
    BY <1>3, <2>1
<1>5. Take(u, n) = Take(t, n)
  <2> DEFINE x1 == Take(u, n)
             x2 == Take(t, n)
  <2>1. /\ x1 \in Seq(S) /\ x2 \in Seq(S) /\ Len(x1) = n /\ Len(x2) = n
        /\ \A i \in 1..n : x1[i] = x2[i]
    BY <1>3, <1>4
  <2> HIDE DEF x1, x2
  <2>2. x1 = x2
    BY <2>1, SeqEqual
  <2> QED
    BY <2>2 DEF x1, x2
<1>6. Take(t, n) = s
  BY DEF Begins, n
<1> QED
  BY <1>1, <1>2, <1>5, <1>6 DEF Begins, u, n

\* The agent has not ended: it may still send a request.
Working == at \in {"starting", "asking", "waiting", "acting"}

Sent == AgentCall.messages

\* The agent's conversation is one that the gateway accepts.
TranscriptSound ==
  /\ \E S : transcript \in Seq(S)
  /\ Sent \in Seq(Messages) /\ Sent # << >>

LEMMA CallIsRequest ==
  ASSUME TranscriptSound PROVE AgentCall \in ChatRequest
BY DEF TranscriptSound, Sent, AgentCall, ChatRequest

\* What is sent grows with the transcript.
LEMMA SentGrows ==
  ASSUME TranscriptSound, NEW m, Wire(m) \in Messages, transcript' = Append(transcript, m)
  PROVE  TranscriptSound' /\ Sent' = Append(Sent, Wire(m))
<1>1. PICK S : transcript \in Seq(S)
  BY DEF TranscriptSound
<1> DEFINE n == Len(transcript)
           U == S \cup {m}
<1>2. transcript \in Seq(U) /\ m \in U
  <2>1. transcript \in [1..n -> S] /\ n \in Nat
    BY <1>1, LenProperties
  <2>2. transcript \in [1..n -> U]
    BY <2>1
  <2> QED
    BY <2>1, <2>2, SeqDef
<1> HIDE DEF U
<1>3. /\ transcript' \in Seq(U) /\ DOMAIN transcript = 1..n /\ n \in Nat
      /\ DOMAIN transcript' = 1..(n + 1)
      /\ \A i \in 1..n : transcript'[i] = transcript[i]
      /\ transcript'[n + 1] = m
  BY <1>2, AppendProperties, LenProperties
<1>4. /\ Sent = [i \in 1..n |-> Wire(transcript[i])]
      /\ Sent' = [i \in 1..(n + 1) |-> Wire(transcript'[i])]
  BY <1>3 DEF Sent, AgentCall
<1>5. Sent \in Seq(Messages) /\ Len(Sent) = n
  BY <1>3, <1>4, LenProperties DEF TranscriptSound
<1> DEFINE a == Append(Sent, Wire(m))
<1>6. /\ a \in Seq(Messages) /\ DOMAIN a = 1..(n + 1)
      /\ \A i \in 1..n : a[i] = Sent[i]
      /\ a[n + 1] = Wire(m) /\ a # << >>
  BY <1>3, <1>5, AppendProperties, LenProperties
<1>7. a = [i \in 1..(n + 1) |-> a[i]]
  BY <1>6, LenProperties
<1> HIDE DEF a, n
<1>8. \A i \in 1..(n + 1) : a[i] = Wire(transcript'[i])
  BY <1>3, <1>4, <1>6
<1>9. Sent' = a
  BY <1>4, <1>7, <1>8
<1> QED
  BY <1>3, <1>6, <1>9 DEF TranscriptSound, a

-----------------------------------------------------------------------------
(* The invariant of the conversation.                                      *)

Heard == Range(heard)

\* Where the agent stands, and what it waits for.
AgentInv ==
  /\ agent # "react" => heard = << >> /\ awaited = Nobody
  /\ heard \in Seq(Requests) /\ \A q \in Heard : pc[q] = "ok"
  /\ Working => TranscriptSound
  /\ awaited # Nobody =>
       /\ awaited \in Requests /\ at = "waiting"
       /\ pc[awaited] \notin {"idle", "ok"}
       /\ pc[awaited] = "generating" => encoded[awaited].messages = Sent

\* What the agent will send goes on from each answer it got that is still the
\* latest turn of a chain.
HeardIsRepeated ==
  Working => \A c \in DOMAIN active_chains :
    Latest(c) \in Heard => Begins(active_chains[c].message_history, Sent)

\* No request in flight is about to replace an answer that the agent got.
HeardIsSpared ==
  \A r \in Requests :
    phase = "ACTIVE" /\ pc[r] = "generating" /\ held[r] # 0 /\ encoded[r].rollback_applied
      => Latest(held[r]) \notin Heard

HeardIsHeld == phase # "ABORTED" => \A q \in Heard : HeldAfter(q, -1)

\* A chain that ends in an earlier answer is older than the agent's last.
LastIsNewest ==
  \A c \in DOMAIN active_chains :
    Latest(c) \in Heard \ {Last(heard)} => HeldAfter(Last(heard), active_chains[c].updated_seq)

\* Until the session is closed, trajectories are closed for their length only.
ClosedForLength ==
  phase = "ACTIVE" =>
    /\ returned = << >>
    /\ \A t \in materialized_chains : t.reason = "max_trajectory_length"

\* The second half of HeardAnswersSurvive.
FinalIsLastHeard ==
  returned # << >> =>
    LET final == Last(returned)
        ends  == LatestOf(final.buffer)
    IN  ends \in Heard => ends = Last(heard) \/ final.reason = "max_trajectory_length"

HeardInv ==
  /\ HeardIsRepeated /\ HeardIsSpared /\ HeardIsHeld /\ LastIsNewest
  /\ ClosedForLength /\ FinalIsLastHeard

ConversationInv == SessionInv /\ OrderInv /\ AgentInv /\ HeardInv

\* What is sent next begins with what was sent before.
Continues ==
  Working' => Working /\ (Sent' = Sent \/ \E x \in Messages : Sent' = Append(Sent, x))

\* A step after which the agent has heard the same, and which keeps it.
LEMMA HeardKept ==
  ASSUME ConversationInv, heard' = heard, Continues,
         phase' # "ABORTED" => phase # "ABORTED",
         \A c \in DOMAIN active_chains' : LatestOf(active_chains'[c].buffer) \in Heard =>
           c \in DOMAIN active_chains /\ active_chains'[c] = active_chains[c],
         \A q \in Heard, n \in Int : n <= order_seq /\ HeldAfter(q, n) =>
           phase' = "ABORTED" \/ HeldAfter(q, n)',
         phase' = "ABORTED" => DOMAIN active_chains' = {}
  PROVE  HeardIsRepeated' /\ HeardIsHeld' /\ LastIsNewest'
<1>1. /\ order_seq \in Nat /\ Heard' = Heard
      /\ \A c \in DOMAIN active_chains :
           /\ active_chains[c].updated_seq \in Nat /\ active_chains[c].updated_seq <= order_seq
           /\ active_chains[c].message_history \in Seq(Messages)
  BY DEF ConversationInv, SessionInv, TypeInv, TypeOK, ChainState, OrderInv, Heard
<1>2. HeardIsRepeated'
  <2> SUFFICES ASSUME Working', NEW c \in DOMAIN active_chains',
                      LatestOf(active_chains'[c].buffer) \in Heard
               PROVE  Begins(active_chains'[c].message_history, Sent')
    BY <1>1 DEF HeardIsRepeated, Latest
  <2>1. c \in DOMAIN active_chains /\ active_chains'[c] = active_chains[c] /\ Working
    BY DEF Continues
  <2>2. /\ Begins(active_chains[c].message_history, Sent)
        /\ Sent \in Seq(Messages) /\ active_chains[c].message_history \in Seq(Messages)
    BY <1>1, <2>1 DEF ConversationInv, HeardInv, HeardIsRepeated, Latest, AgentInv, TranscriptSound
  <2>3. CASE Sent' = Sent
    BY <2>1, <2>2, <2>3
  <2>4. ASSUME NEW x \in Messages, Sent' = Append(Sent, x)
        PROVE  Begins(active_chains'[c].message_history, Sent')
    <3>1. Begins(active_chains[c].message_history, Append(Sent, x))
      BY <2>2, BeginsLonger
    <3> QED
      BY <2>1, <2>4, <3>1
  <2> QED
    BY <2>3, <2>4 DEF Continues
<1>3. HeardIsHeld'
  <2>1. -1 \in Int /\ -1 <= order_seq
    BY <1>1
  <2> QED
    BY <1>1, <2>1 DEF HeardIsHeld, ConversationInv, HeardInv
<1>4. LastIsNewest'
  <2> SUFFICES ASSUME NEW c \in DOMAIN active_chains', NEW q, q = Last(heard),
                      NEW n, n = active_chains'[c].updated_seq,
                      LatestOf(active_chains'[c].buffer) \in Heard \ {q}
               PROVE  HeldAfter(q, n)'
    BY <1>1 DEF LastIsNewest, Latest, HeldAfter
  <2>1. c \in DOMAIN active_chains /\ active_chains'[c] = active_chains[c] /\ phase' # "ABORTED"
    OBVIOUS
  <2>2. HeldAfter(q, n) /\ n \in Int /\ n <= order_seq
    BY <1>1, <2>1 DEF ConversationInv, HeardInv, LastIsNewest, Latest
  <2>3. q \in Heard
    <3>1. heard \in Seq(Requests) /\ heard # << >>
      BY DEF ConversationInv, AgentInv, Heard, Range
    <3> QED
      BY <3>1, LenProperties, EmptySeq DEF Heard, Range, Last
  <2> QED
    BY <2>1, <2>2, <2>3
<1> QED
  BY <1>2, <1>3, <1>4

\* A step that leaves the chains and the trajectories alone.
LEMMA HeardQuiet ==
  ASSUME ConversationInv, heard' = heard, Continues,
         UNCHANGED <<phase, active_chains, materialized_chains, returned>>
  PROVE  /\ HeardIsRepeated' /\ HeardIsHeld' /\ LastIsNewest'
         /\ ClosedForLength' /\ FinalIsLastHeard'
<1>1. \A q \in Heard, n \in Int : HeldAfter(q, n) => HeldAfter(q, n)'
  BY DEF HeldAfter
<1>2. \A c \in DOMAIN active_chains' : LatestOf(active_chains'[c].buffer) \in Heard =>
        c \in DOMAIN active_chains /\ active_chains'[c] = active_chains[c]
  OBVIOUS
<1>3. phase' = "ABORTED" => DOMAIN active_chains' = {}
  BY DEF ConversationInv, SessionInv, ReservationInv, ReservationsExact, HoldersAreExclusive
<1>4. HeardIsRepeated' /\ HeardIsHeld' /\ LastIsNewest'
  BY <1>1, <1>2, <1>3, HeardKept
<1>5. ClosedForLength' /\ FinalIsLastHeard'
  BY DEF ConversationInv, HeardInv, ClosedForLength, FinalIsLastHeard, Heard
<1> QED
  BY <1>4, <1>5

\* No request is prepared meanwhile, and none in flight changes its mind.
LEMMA SparedQuiet ==
  ASSUME ConversationInv, heard' = heard, UNCHANGED <<phase, active_chains>>,
         \A q \in Requests : pc'[q] = "generating" =>
           pc[q] = "generating" /\ encoded'[q] = encoded[q] /\ held'[q] = held[q]
  PROVE  HeardIsSpared'
BY DEF ConversationInv, HeardInv, HeardIsSpared, Latest, Heard

\* The agent's own state is the same, and it still waits.
LEMMA AgentKept ==
  ASSUME AgentInv, UNCHANGED <<agentVars, agent, awaited, heard>>,
         \A q \in Requests : pc[q] = "ok" => pc'[q] = "ok",
         awaited # Nobody =>
           /\ pc'[awaited] \notin {"idle", "ok"}
           /\ pc'[awaited] = "generating" =>
                pc[awaited] = "generating" /\ encoded'[awaited] = encoded[awaited]
  PROVE  AgentInv' /\ Continues
<1>1. /\ Heard' = Heard /\ Sent' = Sent
      /\ Working' <=> Working
      /\ TranscriptSound => TranscriptSound'
  BY DEF agentVars, Heard, Sent, AgentCall, Working, TranscriptSound
<1>2. \A q \in Heard : q \in Requests
  BY DEF AgentInv, Heard, Range
<1>3. agent' = agent /\ awaited' = awaited /\ heard' = heard /\ at' = at
  BY DEF agentVars
<1>4. heard' \in Seq(Requests) /\ \A q \in Heard' : pc'[q] = "ok"
  BY <1>1, <1>2, <1>3 DEF AgentInv
<1>5. Working' => TranscriptSound'
  BY <1>1 DEF AgentInv
<1>6. awaited' # Nobody =>
        /\ awaited' \in Requests /\ at' = "waiting"
        /\ pc'[awaited'] \notin {"idle", "ok"}
        /\ pc'[awaited'] = "generating" => encoded'[awaited'].messages = Sent'
  BY <1>1, <1>3 DEF AgentInv
<1>7. AgentInv'
  BY <1>3, <1>4, <1>5, <1>6 DEF AgentInv
<1> QED
  BY <1>1, <1>7 DEF Continues

-----------------------------------------------------------------------------
(* The agent by itself.                                                    *)

\* The agent's steps that the gateway has no part in.
LEMMA AgentMoves ==
  ASSUME ConversationInv, agent = "react", UNCHANGED <<gatewayVars, agent, heard>>,
         awaited' = Nobody,
         Working' => /\ Working
                     /\ \/ transcript' = transcript
                        \/ \E m : Wire(m) \in Messages /\ transcript' = Append(transcript, m)
  PROVE  AgentInv' /\ HeardInv'
<1>1. ASSUME Working'
      PROVE  /\ TranscriptSound'
             /\ Sent' = Sent \/ \E x \in Messages : Sent' = Append(Sent, x)
  <2>1. TranscriptSound
    BY <1>1 DEF ConversationInv, AgentInv
  <2>2. CASE transcript' = transcript
    BY <2>1, <2>2 DEF TranscriptSound, Sent, AgentCall
  <2>3. ASSUME NEW m, Wire(m) \in Messages, transcript' = Append(transcript, m)
        PROVE  TranscriptSound' /\ Sent' = Append(Sent, Wire(m))
    BY <2>1, <2>3, SentGrows
  <2> QED
    BY <1>1, <2>2, <2>3
<1>2. Continues
  BY <1>1 DEF Continues
<1>3. /\ UNCHANGED <<phase, active_chains, materialized_chains, returned>>
      /\ UNCHANGED <<pc, encoded, held>>
  BY DEF gatewayVars, vars, sessionVars, chainVars, requestVars
<1>4. AgentInv'
  BY <1>1, <1>3 DEF ConversationInv, AgentInv, Heard
<1>5. HeardIsSpared'
  BY <1>3, SparedQuiet
<1> QED
  BY <1>2, <1>3, <1>4, <1>5, HeardQuiet DEF HeardInv

LEMMA DisconnectedKeeps ==
  ASSUME ConversationInv, Disconnected PROVE AgentInv' /\ HeardInv'
<1>1. agent = "react" /\ UNCHANGED <<gatewayVars, agent, heard>> /\ awaited' = Nobody
  BY DEF Disconnected
<1>2. Working' => Working /\ transcript' = transcript
  BY DEF Disconnected, PostFailed, Working
<1> QED
  BY <1>1, <1>2, AgentMoves

\* An answer of the policy, or the empty one, as a message of the agent.
LEMMA AnswerIsSent ==
  ASSUME NEW content \in Messages, NEW cs, NEW cut, ModelAnswers(content, cs, cut)
  PROVE  /\ Working
         /\ \E m : Wire(m) = content /\ transcript' = Append(transcript, m)
<1>1. Wire(AssistantMessage(content, cs)) = content
  BY DEF Wire, AssistantMessage
<1> QED
  BY <1>1 DEF ModelAnswers, Working

\* The answer a session at its capacity gives; its role is assistant, and no
\* turn follows it (cut): the agent ends.
LEMMA OutcomeKeeps ==
  ASSUME ConversationInv, Outcome PROVE AgentInv' /\ HeardInv'
<1>1. UNCHANGED <<gatewayVars, agent, heard>> /\ awaited' = Nobody /\ awaited # Nobody
  BY DEF Outcome
<1>2. agent = "react"
  BY <1>1 DEF ConversationInv, AgentInv
<1>3. Working' => Working /\ transcript' = transcript
  BY DEF Outcome, ModelAnswers, StopWith, PostFailed, PostRefused, Working
<1> QED
  BY <1>1, <1>2, <1>3, AgentMoves

LEMMA WithinAgentKeeps ==
  ASSUME ConversationInv, WithinAgent PROVE AgentInv' /\ HeardInv'
<1>1. agent = "react" /\ UNCHANGED <<gatewayVars, agent, heard>>
  BY DEF WithinAgent
<1>2. awaited' = Nobody
  <2>1. at # "waiting" /\ awaited' = awaited
    BY DEF WithinAgent, ToolboxStarted, ToolboxFailed, CallRaises, AgentClosed, CallReturns
  <2> QED
    BY <2>1 DEF ConversationInv, AgentInv
<1>3. ASSUME NEW k, NEW outcome PROVE Wire(ToolMessage(k, outcome)) \in Messages
  BY DEF Wire, ToolMessage
<1>4. Working' => /\ Working
                  /\ \/ transcript' = transcript
                     \/ \E m : Wire(m) \in Messages /\ transcript' = Append(transcript, m)
  <2>1. CASE ToolboxStarted \/ ToolboxFailed \/ CallRaises \/ AgentClosed
    BY <2>1 DEF ToolboxStarted, ToolboxFailed, CallRaises, AgentClosed, StopWith, Working
  <2>2. ASSUME NEW status \in Statuses, CallReturns("said", status), Working'
        PROVE  /\ Working
               /\ transcript' = Append(transcript, ToolMessage(made + 1, <<"said">>))
    BY <2>2 DEF CallReturns, StopWith, Working
  <2> QED
    BY <1>3, <2>1, <2>2 DEF WithinAgent
<1> QED
  BY <1>1, <1>2, <1>4, AgentMoves

-----------------------------------------------------------------------------
(* Requests.                                                               *)

\* Preparing a request costs the agent nothing it heard, as long as it does
\* not rewrite a chain that ends in such an answer.
LEMMA ServesKeeps ==
  ASSUME ConversationInv, SessionInv', NEW r \in Requests, NEW call, Serves(r, call),
         heard' = heard, Continues,
         \A c \in Chosen(call) \ Exact(call) : Latest(c) \notin Heard
  PROVE  HeardInv'
<1>1. /\ phase = "ACTIVE" /\ phase' = "ACTIVE" /\ returned' = returned /\ pc[r] = "idle"
      /\ \A q \in Requests : q # r =>
           pc'[q] = pc[q] /\ encoded'[q] = encoded[q] /\ held'[q] = held[q]
  BY DEF Serves
<1>2. Heard' = Heard /\ \A q \in Heard : q \in Requests
  BY DEF Heard, Range, ConversationInv, AgentInv
<1>3. CASE UNCHANGED <<active_chains, materialized_chains, order_seq>>
  <2>1. HeardIsSpared'
    <3> SUFFICES ASSUME NEW q \in Requests, pc'[q] = "generating", held'[q] # 0,
                        encoded'[q].rollback_applied
                 PROVE  LatestOf(active_chains'[held'[q]].buffer) \notin Heard
      BY <1>2 DEF HeardIsSpared, Latest
    <3>1. CASE q = r
      <4>1. held'[r] \in Chosen(call) \ Exact(call)
        BY <3>1 DEF Serves
      <4> QED
        BY <1>3, <3>1, <4>1 DEF Latest
    <3>2. CASE q # r
      BY <1>1, <1>3, <3>2 DEF ConversationInv, HeardInv, HeardIsSpared, Latest
    <3> QED
      BY <3>1, <3>2
  <2> QED
    BY <1>1, <1>3, <2>1, HeardQuiet DEF HeardInv
<1>4. ASSUME NEW c \in DOMAIN active_chains, NEW gone, ClosesChain(c, gone),
             pc'[r] # "generating",
             \A q \in gone : q = Latest(c) /\ c \in Chosen(call) \ Exact(call)
      PROVE  HeardInv'
  <2>1. \A q \in Heard : q \notin gone
    BY <1>4
  <2>2. ASSUME NEW q \in Heard, NEW n \in Int, n <= order_seq, HeldAfter(q, n)
        PROVE  HeldAfter(q, n)'
    <3>1. q \in Requests \ gone
      BY <1>2, <2>1
    <3> QED
      BY <1>4, <2>2, <3>1, ClosingKeeps DEF ConversationInv
  <2>3. \A d \in DOMAIN active_chains' :
          d \in DOMAIN active_chains /\ d # c /\ active_chains'[d] = active_chains[d]
    BY <1>4 DEF ClosesChain
  <2>4. HeardIsRepeated' /\ HeardIsHeld' /\ LastIsNewest'
    BY <1>1, <2>2, <2>3, HeardKept
  <2>5. HeardIsSpared'
    <3> SUFFICES ASSUME NEW q \in Requests, pc'[q] = "generating", held'[q] # 0,
                        encoded'[q].rollback_applied
                 PROVE  LatestOf(active_chains'[held'[q]].buffer) \notin Heard
      BY <1>2 DEF HeardIsSpared, Latest
    <3>1. q # r /\ pc[q] = "generating" /\ held[q] # 0 /\ encoded[q].rollback_applied
          /\ held'[q] = held[q]
      BY <1>1, <1>4
    <3>2. held[q] # c
      <4>1. held'[q] \in DOMAIN active_chains'
        BY <1>1, <3>1, SMT
           DEF SessionInv, ReservationInv, ReservationsExact, HeldChainsExist
      <4> QED
        BY <1>4, <3>1, <4>1 DEF ClosesChain
    <3>3. held[q] \in DOMAIN active_chains
      BY <1>1, <3>1, FreeIsUnheld DEF ConversationInv
    <3>4. active_chains'[held[q]] = active_chains[held[q]]
      BY <1>4, <3>2, <3>3 DEF ClosesChain
    <3> QED
      BY <1>1, <3>1, <3>4 DEF ConversationInv, HeardInv, HeardIsSpared, Latest
  <2>6. ClosedForLength'
    BY <1>1, <1>4 DEF ConversationInv, HeardInv, ClosedForLength, ClosesChain
  <2>7. FinalIsLastHeard'
    BY <1>1, <2>6 DEF FinalIsLastHeard, ClosedForLength
  <2> QED
    BY <2>4, <2>5, <2>6, <2>7 DEF HeardInv
<1> QED
  BY <1>3, <1>4 DEF Serves

\* A chain that ends in an answer the agent got is continued, not rewritten.
LEMMA HeardIsContinued ==
  ASSUME ConversationInv, Working, NEW c \in Chosen(AgentCall) \ Exact(AgentCall)
  PROVE  Latest(c) \notin Heard
<1>1. c \in DOMAIN active_chains /\ c \in Eligible(AgentCall)
  BY ChosenSays DEF Chosen, Candidates, Deepest, Stale
<1>2. ~IsChainPrefix(c, AgentCall.messages)
  BY <1>1 DEF Exact
<1> QED
  BY <1>1, <1>2 DEF IsChainPrefix, Begins, Sent, ConversationInv, HeardInv, HeardIsRepeated

\* A request refused, failed or released leaves the chains alone.
LEMMA RefusedKeeps ==
  ASSUME ConversationInv, NEW r \in Requests, RefuseClosed(r) \/ Fail(r) \/ Release(r),
         heard' = heard, Continues
  PROVE  /\ HeardInv'
         /\ \A q \in Requests : q # r => pc'[q] = pc[q] /\ encoded'[q] = encoded[q]
         /\ pc[r] \in {"idle", "generating", "releasing"} /\ pc'[r] \in {"failed", "releasing"}
<1>1. /\ UNCHANGED <<phase, active_chains, materialized_chains, returned>>
      /\ \E s \in {"failed", "releasing"} : pc' = [pc EXCEPT ![r] = s]
      /\ encoded' = encoded \/ encoded' = [encoded EXCEPT ![r] = NotEncoded]
      /\ held' = held \/ held' = [held EXCEPT ![r] = 0]
      /\ pc[r] \in {"idle", "generating", "releasing"}
  BY DEF RefuseClosed, Respond, Fail, Release, sessionVars, chainVars
<1>2. DOMAIN pc = Requests /\ DOMAIN encoded = Requests /\ DOMAIN held = Requests
  BY DEF ConversationInv, SessionInv, TypeInv, TypeOK
<1>3. /\ \A q \in Requests : q # r =>
           pc'[q] = pc[q] /\ encoded'[q] = encoded[q] /\ held'[q] = held[q]
      /\ pc'[r] \in {"failed", "releasing"}
  BY <1>1, <1>2
<1>4. HeardIsSpared'
  <2>1. \A q \in Requests : pc'[q] = "generating" =>
          pc[q] = "generating" /\ encoded'[q] = encoded[q] /\ held'[q] = held[q]
    BY <1>3
  <2> QED
    BY <1>1, <2>1, SparedQuiet
<1> QED
  BY <1>1, <1>3, <1>4, HeardQuiet DEF HeardInv

LEMMA AgentPostsKeeps ==
  ASSUME ConversationInv, SessionInv', AgentPosts
  PROVE  AgentInv' /\ HeardInv'
<1>1. /\ agent = "react" /\ at = "asking" /\ at' = "waiting" /\ transcript' = transcript
      /\ UNCHANGED <<agent, heard>>
  BY DEF AgentPosts, Post
<1>2. PICK r \in Requests : awaited' = r /\ pc[r] = "idle" /\ Sends(r)
  <2>1. (CHOOSE x \in Unused : TRUE) \in Unused
    BY DEF AgentPosts
  <2> QED
    BY <2>1 DEF AgentPosts, Unused
<1>3. /\ Working /\ Working' /\ TranscriptSound /\ TranscriptSound' /\ Sent' = Sent
      /\ Heard' = Heard
  BY <1>1 DEF Working, ConversationInv, AgentInv, TranscriptSound, Sent, AgentCall, Heard
<1>4. Continues
  BY <1>3 DEF Continues
<1>5. ASSUME HeardInv', pc'[r] \notin {"idle", "ok"},
             pc'[r] = "generating" => encoded'[r].messages = Sent,
             \A q \in Requests : q # r => pc'[q] = pc[q]
      PROVE  AgentInv'
  <2>1. heard' \in Seq(Requests) /\ \A q \in Heard' : q \in Requests /\ pc'[q] = "ok"
    BY <1>1, <1>2, <1>3, <1>5 DEF ConversationInv, AgentInv, Heard, Range
  <2> QED
    BY <1>1, <1>2, <1>3, <1>5, <2>1 DEF AgentInv
<1>6. CASE RefuseClosed(r)
  <2>1. /\ HeardInv' /\ pc'[r] \in {"failed", "releasing"}
        /\ \A q \in Requests : q # r => pc'[q] = pc[q]
    BY <1>1, <1>4, <1>6, RefusedKeeps
  <2> QED
    BY <1>5, <2>1
<1>7. CASE StartChain(r, AgentCall) \/ ContinueChain(r, AgentCall) \/ RollbackChain(r, AgentCall)
  <2>1. AgentCall \in ChatRequest
    BY <1>3, CallIsRequest
  <2>2. Serves(r, AgentCall)
    BY <1>7, <2>1, ServeMoves DEF ConversationInv
  <2>3. HeardInv'
    BY <1>1, <1>3, <1>4, <2>2, HeardIsContinued, ServesKeeps
  <2>4. /\ pc'[r] \in {"rejected", "length", "generating"}
        /\ pc'[r] = "generating" => encoded'[r].messages = Sent
        /\ \A q \in Requests : q # r => pc'[q] = pc[q]
    BY <2>2 DEF Serves, Sent
  <2> QED
    BY <1>5, <2>3, <2>4
<1> QED
  BY <1>2, <1>6, <1>7 DEF Sends

\* The backend raises, or another agent's request comes or goes: the agent
\* does not notice yet.
LEMMA FailKeeps ==
  ASSUME ConversationInv, NEW r \in Requests, Fail(r) \/ Release(r),
         UNCHANGED <<agentVars, agent, awaited, heard>>
  PROVE  AgentInv' /\ HeardInv'
<1>1. /\ \A q \in Requests : q # r => pc'[q] = pc[q] /\ encoded'[q] = encoded[q]
      /\ pc[r] \in {"generating", "releasing"} /\ pc'[r] \in {"failed", "releasing"}
  BY DEF Fail, Release, ConversationInv, SessionInv, TypeInv, TypeOK
<1>2. awaited # Nobody => awaited \in Requests /\ pc[awaited] \notin {"idle", "ok"}
  BY DEF ConversationInv, AgentInv
<1>3. AgentInv' /\ Continues
  BY <1>1, <1>2, AgentKept DEF ConversationInv
<1> QED
  BY <1>3, RefusedKeeps

LEMMA OtherAgentKeeps ==
  ASSUME ConversationInv, SessionInv', NEW r \in Requests, OtherAgent(r),
         UNCHANGED <<agentVars, agent, awaited, heard>>
  PROVE  AgentInv' /\ HeardInv'
<1>1. agent = "other" /\ heard = << >> /\ awaited = Nobody /\ Heard = {}
  BY DEF OtherAgent, ConversationInv, AgentInv, Heard, Range
<1>2. AgentInv' /\ Continues
  <2>1. pc' = pc \/ \E s : pc' = [pc EXCEPT ![r] = s]
    BY DEF OtherAgent, RefuseClosed, Respond, Prepare, StartChain, ContinueChain,
           RollbackChain, Extend, Generate
  <2>2. pc[r] = "idle"
    BY DEF OtherAgent, RefuseClosed, Preparing, Prepare, StartChain, ContinueChain, RollbackChain
  <2>3. \A q \in Requests : pc[q] = "ok" => pc'[q] = "ok"
    BY <2>1, <2>2 DEF ConversationInv, SessionInv, TypeInv, TypeOK
  <2> QED
    BY <1>1, <2>3, AgentKept DEF ConversationInv
<1>3. CASE RefuseClosed(r)
  BY <1>2, <1>3, RefusedKeeps
<1>4. ASSUME NEW call \in Calls,
             StartChain(r, call) \/ ContinueChain(r, call) \/ RollbackChain(r, call)
      PROVE  HeardInv'
  <2>1. call \in ChatRequest
    OBVIOUS
  <2>2. Serves(r, call)
    BY <1>4, <2>1, ServeMoves DEF ConversationInv
  <2> QED
    BY <1>1, <1>2, <2>2, ServesKeeps
<1> QED
  BY <1>2, <1>3, <1>4 DEF OtherAgent, Prepare

-----------------------------------------------------------------------------
(* Answers.                                                                *)

\* A commit spares what the agent heard: the turn it may replace is not one
\* of those.
LEMMA StoringSpares ==
  ASSUME ConversationInv, NEW r \in Requests, NEW c, NEW o, Stores(r, c, o),
         NEW q \in Heard, NEW n \in Int, n <= order_seq, HeldAfter(q, n)
  PROVE  HeldAfter(q, n)'
<1>1. q \in Requests
  BY DEF ConversationInv, AgentInv, Heard, Range
<1>2. encoded[r].rollback_applied /\ held[r] # 0 => q # Latest(held[r])
  BY DEF Stores, ConversationInv, HeardInv, HeardIsSpared
<1> QED
  BY <1>1, <1>2, StoringKeeps DEF ConversationInv

\* No request in flight replaces the answer just committed, nor one before.
LEMMA StoringLeavesSpared ==
  ASSUME ConversationInv, NEW r \in Requests, NEW o \in Outputs, NEW c, Commit(r, o),
         Stores(r, c, o), \A q \in Heard' : q = r \/ q \in Heard
  PROVE  HeardIsSpared'
<1> SUFFICES ASSUME NEW q \in Requests, pc'[q] = "generating", held'[q] # 0,
                    encoded'[q].rollback_applied
             PROVE  LatestOf(active_chains'[held'[q]].buffer) \notin Heard'
  BY DEF HeardIsSpared, Latest
<1>1. /\ q # r /\ pc[q] = "generating" /\ held[q] # 0 /\ encoded[q].rollback_applied
      /\ held'[q] = held[q] /\ held[q] # c /\ phase = "ACTIVE"
  BY DEF Stores
<1>2. held[q] \in DOMAIN active_chains
  BY <1>1, FreeIsUnheld DEF ConversationInv
<1>3. active_chains'[held[q]] = active_chains[held[q]]
  BY <1>1, <1>2 DEF Stores
<1>4. Latest(held[q]) \notin Heard
  BY <1>1 DEF ConversationInv, HeardInv, HeardIsSpared
<1>5. Latest(held[q]) # r
  <2>1. TrainableFrom(active_chains[held[q]].buffer, r) = 0
    BY <1>2, CommittedCounts DEF ConversationInv
  <2>2. TrainableFrom(active_chains[held[q]].buffer, Latest(held[q])) # 0
    BY <1>2, ChainLedger DEF ConversationInv, Latest
  <2> QED
    BY <2>1, <2>2
<1> QED
  BY <1>1, <1>3, <1>4, <1>5 DEF Latest

\* An answer that does not reach the agent.
LEMMA UnheardKeeps ==
  ASSUME ConversationInv, NEW r \in Requests, NEW o \in Outputs, Commit(r, o),
         heard' = heard, Continues
  PROVE  HeardInv'
<1>1. PICK c : Stores(r, c, o)
  BY CommitMoves DEF ConversationInv
<1>2. r \notin Heard /\ Heard' = Heard
  BY <1>1 DEF Stores, ConversationInv, AgentInv, Heard
<1>3. \A d \in DOMAIN active_chains' : LatestOf(active_chains'[d].buffer) \in Heard =>
        d \in DOMAIN active_chains /\ active_chains'[d] = active_chains[d]
  BY <1>1, <1>2 DEF Stores
<1>4. phase = "ACTIVE" /\ phase' = "ACTIVE"
  BY <1>1 DEF Stores
<1>5. \A q \in Heard, n \in Int : n <= order_seq /\ HeldAfter(q, n) => HeldAfter(q, n)'
  BY <1>1, StoringSpares
<1>6. HeardIsRepeated' /\ HeardIsHeld' /\ LastIsNewest'
  BY <1>3, <1>4, <1>5, HeardKept
<1>7. HeardIsSpared'
  BY <1>1, <1>2, StoringLeavesSpared
<1>8. ClosedForLength'
  BY <1>1, <1>4 DEF ConversationInv, HeardInv, ClosedForLength, Stores
<1>9. FinalIsLastHeard'
  BY <1>4, <1>8 DEF FinalIsLastHeard, ClosedForLength
<1> QED
  BY <1>6, <1>7, <1>8, <1>9 DEF HeardInv

LEMMA HeardGrows ==
  ASSUME heard \in Seq(Requests), NEW r \in Requests, heard' = Append(heard, r)
  PROVE  /\ heard' \in Seq(Requests) /\ Last(heard)' = r
         /\ Heard' = Heard \cup {r}
<1> DEFINE n == Len(heard)
           a == Append(heard, r)
<1>1. /\ n \in Nat /\ DOMAIN heard = 1..n
      /\ a \in Seq(Requests) /\ Len(a) = n + 1 /\ DOMAIN a = 1..(n + 1)
      /\ \A i \in 1..n : a[i] = heard[i]
      /\ a[n + 1] = r
  BY AppendProperties, LenProperties
<1>2. heard' = a
  OBVIOUS
<1> HIDE DEF a, n
<1>3. Last(a) = r
  BY <1>1 DEF Last
<1>4. ASSUME NEW q \in Range(a) PROVE q \in Range(heard) \cup {r}
  <2>1. PICK i \in 1..(n + 1) : q = a[i]
    BY <1>1 DEF Range
  <2>2. i \in 1..n \/ i = n + 1
    BY <1>1
  <2> QED
    BY <1>1, <2>1, <2>2 DEF Range
<1>5. ASSUME NEW q \in Range(heard) PROVE q \in Range(a)
  <2>1. PICK i \in 1..n : q = heard[i]
    BY <1>1 DEF Range
  <2>2. i \in 1..(n + 1)
    BY <1>1
  <2> QED
    BY <1>1, <2>1, <2>2 DEF Range
<1>6. r \in Range(a)
  <2>1. n + 1 \in 1..(n + 1)
    BY <1>1
  <2> QED
    BY <1>1, <2>1 DEF Range
<1> QED
  BY <1>1, <1>2, <1>3, <1>4, <1>5, <1>6 DEF Heard

\* The answer that the agent waited for reaches it.
LEMMA HeardKeeps ==
  ASSUME ConversationInv, NEW r \in Requests, NEW o \in Outputs, NEW cs, NEW cut,
         Commit(r, o), r = awaited, awaited' = Nobody, heard' = Append(heard, r),
         ModelAnswers(o, cs, cut), UNCHANGED agent
  PROVE  AgentInv' /\ HeardInv'
<1>1. PICK c : Stores(r, c, o)
  BY CommitMoves DEF ConversationInv
<1>2. /\ r # Nobody /\ agent = "react" /\ at = "waiting" /\ Working /\ TranscriptSound
      /\ phase = "ACTIVE" /\ phase' = "ACTIVE" /\ pc[r] = "generating"
      /\ encoded[r].messages = Sent /\ heard \in Seq(Requests)
  BY <1>1, SMT DEF Stores, ConversationInv, AgentInv, Working
<1>3. heard' \in Seq(Requests) /\ Last(heard)' = r /\ Heard' = Heard \cup {r}
  BY <1>2, HeardGrows
<1>4. r \notin Heard /\ \A q \in Heard : q \in Requests
  BY <1>2 DEF ConversationInv, AgentInv, Heard, Range
<1>5. TranscriptSound' /\ Sent' = Append(Sent, o) /\ o \in Messages
  <2>1. o \in Messages
    OBVIOUS
  <2>2. PICK m : Wire(m) = o /\ transcript' = Append(transcript, m)
    BY <2>1, AnswerIsSent
  <2> QED
    BY <1>2, <2>1, <2>2, SentGrows
<1>6. AgentInv'
  <2>1. \A q \in Heard' : pc'[q] = "ok"
    BY <1>1, <1>3, <1>4 DEF Stores, ConversationInv, AgentInv
  <2> QED
    BY <1>2, <1>3, <1>5, <2>1 DEF AgentInv
<1>7. /\ order_seq \in Nat
      /\ \A d \in DOMAIN active_chains :
           /\ active_chains[d].message_history \in Seq(Messages)
           /\ active_chains[d].updated_seq \in Nat /\ active_chains[d].updated_seq <= order_seq
  BY DEF ConversationInv, SessionInv, TypeInv, TypeOK, ChainState, OrderInv
<1>8. /\ c \in DOMAIN active_chains' /\ TrainableFrom(active_chains'[c].buffer, r) # 0
      /\ active_chains'[c].updated_seq = order_seq + 1
      /\ active_chains'[c].message_history = Append(Sent, o)
      /\ LatestOf(active_chains'[c].buffer) = r
      /\ \A d \in DOMAIN active_chains' \ {c} :
           d \in DOMAIN active_chains /\ active_chains'[d] = active_chains[d]
  BY <1>1, <1>2 DEF Stores
<1>9. HeardIsRepeated'
  <2> SUFFICES ASSUME NEW d \in DOMAIN active_chains',
                      LatestOf(active_chains'[d].buffer) \in Heard'
               PROVE  Begins(active_chains'[d].message_history, Append(Sent, o))
    BY <1>5 DEF HeardIsRepeated, Latest
  <2>1. Sent \in Seq(Messages) /\ Append(Sent, o) \in Seq(Messages)
    BY <1>2, <1>5, AppendProperties DEF TranscriptSound
  <2>2. CASE d = c
    BY <1>8, <2>1, <2>2, BeginsItself
  <2>3. CASE d # c
    <3>1. d \in DOMAIN active_chains /\ active_chains'[d] = active_chains[d]
      BY <1>8, <2>3
    <3>2. Latest(d) # r
      <4>1. TrainableFrom(active_chains[d].buffer, r) = 0
        BY <3>1, CommittedCounts DEF ConversationInv
      <4>2. TrainableFrom(active_chains[d].buffer, Latest(d)) # 0
        BY <3>1, ChainLedger DEF ConversationInv, Latest
      <4> QED
        BY <4>1, <4>2
    <3>3. Latest(d) \in Heard
      BY <1>3, <3>1, <3>2 DEF Latest
    <3>4. Begins(active_chains[d].message_history, Sent)
      BY <1>2, <3>1, <3>3 DEF ConversationInv, HeardInv, HeardIsRepeated
    <3>5. active_chains[d].message_history \in Seq(Messages)
      BY <1>7, <3>1
    <3> QED
      BY <1>5, <2>1, <3>1, <3>4, <3>5, BeginsLonger
  <2> QED
    BY <2>2, <2>3
<1>10. HeardIsSpared'
  BY <1>1, <1>3, StoringLeavesSpared
<1>11. \A n \in Int : n <= order_seq => HeldAfter(r, n)'
  BY <1>7, <1>8 DEF HeldAfter
<1>12. HeardIsHeld'
  <2>1. -1 \in Int /\ -1 <= order_seq
    BY <1>7
  <2>2. \A q \in Heard : HeldAfter(q, -1)
    BY <1>2 DEF ConversationInv, HeardInv, HeardIsHeld
  <2>3. \A q \in Heard : HeldAfter(q, -1)'
    BY <1>1, <2>1, <2>2, StoringSpares
  <2> QED
    BY <1>3, <1>11, <2>1, <2>3 DEF HeardIsHeld
<1>13. LastIsNewest'
  <2> SUFFICES ASSUME NEW d \in DOMAIN active_chains', NEW n, n = active_chains'[d].updated_seq,
                      LatestOf(active_chains'[d].buffer) # r
               PROVE  HeldAfter(r, n)'
    BY <1>3 DEF LastIsNewest, Latest, HeldAfter
  <2>1. d \in DOMAIN active_chains /\ active_chains'[d] = active_chains[d]
    BY <1>8
  <2>2. n \in Int /\ n <= order_seq
    BY <1>7, <2>1
  <2> QED
    BY <1>11, <2>2
<1>14. ClosedForLength'
  BY <1>1, <1>2 DEF ConversationInv, HeardInv, ClosedForLength, Stores
<1>15. FinalIsLastHeard'
  BY <1>2, <1>14 DEF FinalIsLastHeard, ClosedForLength
<1> QED
  BY <1>6, <1>9, <1>10, <1>12, <1>13, <1>14, <1>15 DEF HeardInv

LEMMA AnswerKeeps ==
  ASSUME ConversationInv, NEW r \in Requests, NEW o \in Outputs, Answer(r, o)
  PROVE  AgentInv' /\ HeardInv'
<1>1. /\ Commit(r, o) /\ pc[r] = "generating" /\ pc'[r] = "ok"
      /\ \A q \in Requests : q # r => pc'[q] = pc[q] /\ encoded'[q] = encoded[q]
  BY DEF Answer, Commit, CanCommit, ConversationInv, SessionInv, TypeInv, TypeOK
<1>2. \A q \in Requests : pc[q] = "ok" => pc'[q] = "ok"
  BY <1>1
<1>3. CASE r # awaited /\ UNCHANGED <<agentVars, awaited, heard>>
  <2>1. awaited # Nobody => awaited \in Requests /\ pc[awaited] \notin {"idle", "ok"}
    BY DEF ConversationInv, AgentInv
  <2>2. UNCHANGED <<agentVars, agent, awaited, heard>>
    BY <1>3 DEF Answer
  <2>3. AgentInv' /\ Continues
    BY <1>1, <1>2, <1>3, <2>1, <2>2, AgentKept DEF ConversationInv
  <2> QED
    BY <1>1, <1>3, <2>3, UnheardKeeps
<1>4. ASSUME NEW cut \in BOOLEAN, r = awaited, awaited' = Nobody, heard' = Append(heard, r),
             ModelAnswers(o, ToolsOf[o], cut)
      PROVE  AgentInv' /\ HeardInv'
  BY <1>1, <1>4, HeardKeeps DEF Answer
<1>5. CASE r = awaited /\ awaited' = Nobody /\ PostFailed /\ UNCHANGED heard
  <2>1. agent = "react" /\ agent' = agent /\ transcript' = transcript /\ Heard' = Heard
        /\ heard' = heard
    BY <1>5 DEF PostFailed, Answer, ConversationInv, AgentInv, Heard
  <2>2. Working' => Working
    BY <1>5 DEF PostFailed, Working
  <2>3. Sent' = Sent /\ (TranscriptSound => TranscriptSound')
    BY <2>1 DEF Sent, AgentCall, TranscriptSound
  <2>4. Continues
    BY <2>2, <2>3 DEF Continues
  <2>5. \A q \in Heard : pc'[q] = "ok"
    BY <1>2 DEF ConversationInv, AgentInv, Heard, Range
  <2>6. AgentInv'
    BY <1>5, <2>1, <2>2, <2>3, <2>5 DEF ConversationInv, AgentInv
  <2> QED
    BY <1>1, <2>1, <2>4, <2>6, UnheardKeeps
<1> QED
  BY <1>3, <1>4, <1>5 DEF Answer

-----------------------------------------------------------------------------
(* The end of the session.                                                 *)

\* finalize puts a trajectory last that nothing the agent heard is newer than
\* (session.py 329-355, 749-753).
LEMMA FinalizeEndsWithLast ==
  ASSUME ConversationInv, SessionInv', Finalize, heard' = heard
  PROVE  FinalIsLastHeard'
<1> DEFINE T == materialized_chains'
           n == Cardinality(T)
<1>1. PICK s \in InOrder(T) :
        returned' = [i \in DOMAIN s |-> [s[i] EXCEPT !.reward_info = reward_info]]
  BY DEF Finalize
<1>2. /\ s \in [1..n -> T] /\ \A t \in T : \E i \in 1..n : s[i] = t
      /\ \A i, j \in 1..n : i < j => s[i].order_seq <= s[j].order_seq
  BY DEF InOrder
<1>3. IsFiniteSet(T) /\ n \in Nat /\ T \subseteq Trajectory
  BY FS_CardinalityType DEF SessionInv, TypeInv, TypeOK, Shapes
<1>4. /\ phase = "ACTIVE" /\ phase' = "FINALIZED" /\ DOMAIN active_chains' = {}
      /\ T = materialized_chains \cup ActiveTrajectories
  BY DEF Finalize
<1>5. DOMAIN returned' = 1..n /\ returned' \in Seq(Trajectory) /\ Len(returned') = n
  <2>1. DOMAIN returned' = 1..n
    BY <1>1, <1>2
  <2>2. returned' \in Seq(Trajectory)
    BY DEF SessionInv, TypeInv, TypeOK
  <2> HIDE DEF n
  <2>3. Len(returned') = n
    BY <1>3, <2>1, <2>2, LenProperties
  <2> QED
    BY <2>1, <2>2, <2>3
<1> HIDE DEF T, n
<1> SUFFICES ASSUME returned' # << >>,
                    LatestOf(returned'[n].buffer) \in Heard,
                    LatestOf(returned'[n].buffer) # Last(heard),
                    returned'[n].reason # "max_trajectory_length"
             PROVE  FALSE
  BY <1>5 DEF FinalIsLastHeard, Last, Heard
<1>6. n \in 1..n
  <2>1. Len(returned') # 0
    BY <1>5, EmptySeq
  <2> QED
    BY <1>3, <1>5, <2>1
<1>7. returned'[n].buffer = s[n].buffer /\ returned'[n].reason = s[n].reason /\ s[n] \in T
  BY <1>1, <1>2, <1>3, <1>6 DEF Trajectory
<1>8. s[n] \notin materialized_chains
  BY <1>4, <1>7 DEF ConversationInv, HeardInv, ClosedForLength
<1>9. PICK c \in DOMAIN active_chains :
        s[n] = Materialized(active_chains[c].buffer, active_chains[c].message_history,
                            active_chains[c].updated_seq, "none")
  BY <1>4, <1>7, <1>8 DEF ActiveTrajectories
<1>10. s[n].buffer = active_chains[c].buffer /\ s[n].order_seq = active_chains[c].updated_seq
  BY <1>9 DEF Materialized
<1>11. PICK q, m : q = Last(heard) /\ m = active_chains[c].updated_seq
  OBVIOUS
<1>12. HeldAfter(q, m)
  BY <1>7, <1>10, <1>11 DEF ConversationInv, HeardInv, LastIsNewest, Latest
<1>13. q \in Requests /\ m \in Int
  <2>1. heard \in Seq(Requests) /\ heard # << >>
    BY DEF ConversationInv, AgentInv, Heard, Range
  <2>2. q \in Requests
    BY <1>11, <2>1, LenProperties, EmptySeq DEF Last
  <2>3. m \in Int
    BY <1>11 DEF ConversationInv, SessionInv, TypeInv, TypeOK, ChainState
  <2> QED
    BY <2>2, <2>3
<1>14. HeldAfter(q, m)'
  BY <1>12, <1>13, FinalizeKeepsTurns DEF ConversationInv
<1>15. PICK t \in T : t.order_seq > m
  BY <1>4, <1>14 DEF HeldAfter, T
<1>16. PICK i \in 1..n : s[i] = t
  BY <1>2
<1>17. i = n \/ i < n
  BY <1>3, <1>16
<1>18. t.order_seq \in Int /\ s[n].order_seq = m
  BY <1>3, <1>10, <1>11 DEF Trajectory
<1>19. t.order_seq <= s[n].order_seq
  BY <1>2, <1>6, <1>16, <1>17, <1>18, <1>13
<1> QED
  BY <1>13, <1>15, <1>18, <1>19

LEMMA ClosingKeepsHeard ==
  ASSUME ConversationInv, SessionInv', Finalize \/ Abort \/ \E w \in Rewards : SetReward(w),
         UNCHANGED <<agentVars, agent, awaited, heard>>
  PROVE  AgentInv' /\ HeardInv'
<1>1. UNCHANGED <<pc, encoded, held>>
  BY DEF Finalize, Abort, SetReward, requestVars
<1>2. AgentInv' /\ Continues
  <2>1. awaited # Nobody => pc[awaited] \notin {"idle", "ok"}
    BY DEF ConversationInv, AgentInv
  <2> QED
    BY <1>1, <2>1, AgentKept DEF ConversationInv
<1>3. Heard' = Heard /\ \A q \in Heard : q \in Requests
  BY DEF Heard, Range, ConversationInv, AgentInv
<1>4. CASE Finalize
  <2>1. /\ phase = "ACTIVE" /\ phase' = "FINALIZED" /\ DOMAIN active_chains' = {}
    BY <1>4 DEF Finalize
  <2>2. \A q \in Heard, n \in Int : n <= order_seq /\ HeldAfter(q, n) => HeldAfter(q, n)'
    BY <1>3, <1>4, FinalizeKeepsTurns DEF ConversationInv
  <2>3. HeardIsRepeated' /\ HeardIsHeld' /\ LastIsNewest'
    BY <1>2, <2>1, <2>2, HeardKept
  <2>4. FinalIsLastHeard'
    BY <1>4, FinalizeEndsWithLast
  <2> QED
    BY <1>2, <2>1, <2>3, <2>4 DEF HeardInv, HeardIsSpared, ClosedForLength
<1>5. CASE Abort
  <2>1. /\ phase = "ACTIVE" /\ phase' = "ABORTED" /\ DOMAIN active_chains' = {}
        /\ returned' = returned
    BY <1>5 DEF Abort
  <2>2. HeardIsRepeated' /\ HeardIsHeld' /\ LastIsNewest'
    BY <1>2, <2>1, HeardKept
  <2>3. FinalIsLastHeard'
    BY <2>1 DEF ConversationInv, HeardInv, ClosedForLength, FinalIsLastHeard
  <2> QED
    BY <1>2, <2>1, <2>2, <2>3 DEF HeardInv, HeardIsSpared, ClosedForLength
<1>6. ASSUME NEW w \in Rewards, SetReward(w) PROVE AgentInv' /\ HeardInv'
  <2>1. UNCHANGED <<phase, active_chains, materialized_chains, returned>>
    BY <1>6 DEF SetReward, chainVars
  <2>2. HeardIsSpared'
    BY <1>1, <2>1, SparedQuiet
  <2> QED
    BY <1>2, <2>1, <2>2, HeardQuiet DEF HeardInv
<1> QED
  BY <1>4, <1>5, <1>6

-----------------------------------------------------------------------------
(* Every step of the conversation.                                         *)

\* The agent sends nothing that a session has no step for.
LEMMA ConversationIsStep ==
  ASSUME AgentInv, [ConversationNext]_conversationVars PROVE [Step]_vars
<1>1. CASE AgentPosts
  <2>1. PICK r \in Requests : Sends(r)
    <3>1. (CHOOSE x \in Unused : TRUE) \in Unused
      BY <1>1 DEF AgentPosts
    <3> QED
      BY <1>1, <3>1 DEF AgentPosts, Unused
  <2>2. AgentCall \in ChatRequest
    BY <1>1, CallIsRequest DEF AgentPosts, Post, AgentInv, Working
  <2> QED
    BY <2>1, <2>2 DEF Sends, Step, Serve
<1>2. CASE Disconnected \/ Outcome \/ WithinAgent
  BY <1>2 DEF Disconnected, Outcome, WithinAgent, gatewayVars
<1>3. CASE Driven
  <2>1. ASSUME NEW r \in Requests, OtherAgent(r) PROVE Step
    <3>1. Prepare(r) => Serve(r)
      BY DEF Prepare, Serve
    <3> QED
      BY <2>1, <3>1 DEF OtherAgent, Step
  <2> QED
    BY <1>3, <2>1 DEF Driven, Runner, Step
<1>4. ASSUME NEW r \in Requests, BackendReturns(r) PROVE Step
  BY <1>4 DEF BackendReturns, Answer, Step, Resume
<1>5. CASE UNCHANGED conversationVars
  BY <1>5 DEF conversationVars, gatewayVars
<1> QED
  BY <1>1, <1>2, <1>3, <1>4, <1>5 DEF ConversationNext

LEMMA ConversationStarts == ConversationInit => ConversationInv
<1> SUFFICES ASSUME ConversationInit PROVE ConversationInv
  OBVIOUS
<1>1. SessionInv /\ OrderInv
  BY SessionInit DEF ConversationInit, Init, OrderInv
<1>2. /\ agent \in Agents /\ awaited = Nobody /\ heard = << >> /\ transcript = Prompt
      /\ active_chains = << >> /\ materialized_chains = {} /\ returned = << >>
      /\ \A r \in Requests : pc[r] = "idle"
  BY DEF ConversationInit, AgentInit, Init
<1>3. heard \in Seq(Requests) /\ Heard = {}
  BY <1>2 DEF Heard, Range
<1>4. TranscriptSound
  <2> DEFINE P == Prompt
  <2>1. \E S : P \in Seq(S)
    BY AgentAssumption DEF AgentAssumption
  <2>2. PICK n \in Nat : n = Len(P) /\ DOMAIN P = 1..n
    BY <2>1, LenProperties
  <2>3. \A i \in DOMAIN P : P[i].role # "assistant"
    <3>1. P \in Seq([role : {"system", "user"}, content : STRING])
      BY AgentAssumption DEF AgentAssumption
    <3>2. ASSUME NEW R, NEW x \in Seq(R), NEW i \in DOMAIN x PROVE x[i] \in R
      BY <3>2, LenProperties, ElementOfSeq
    <3>3. \A i \in DOMAIN P : P[i] \in [role : {"system", "user"}, content : STRING]
      BY <3>1, <3>2
    <3> QED
      BY <3>3
  <2>4. \A i \in 1..n : Wire(P[i]) \in Messages
    BY <2>2, <2>3 DEF Wire
  <2>5. Sent = [i \in 1..n |-> Wire(P[i])]
    BY <1>2, <2>2 DEF Sent, AgentCall
  <2>6. Sent \in Seq(Messages) /\ Len(Sent) = n
    BY <2>4, <2>5, SeqDef, LenProperties
  <2>7. n # 0
    BY <2>1, <2>2, EmptySeq
  <2> QED
    BY <1>2, <2>1, <2>6, <2>7, EmptySeq DEF TranscriptSound
<1>5. AgentInv
  BY <1>2, <1>3, <1>4 DEF AgentInv
<1>6. HeardInv
  BY <1>2, <1>3 DEF HeardInv, HeardIsRepeated, HeardIsSpared, HeardIsHeld, LastIsNewest,
                    ClosedForLength, FinalIsLastHeard
<1> QED
  BY <1>1, <1>5, <1>6 DEF ConversationInv

LEMMA ConversationStep ==
  ConversationInv /\ [ConversationNext]_conversationVars => ConversationInv'
<1> SUFFICES ASSUME ConversationInv, [ConversationNext]_conversationVars
             PROVE  ConversationInv'
  OBVIOUS
<1>1. SessionInv' /\ OrderInv'
  BY ConversationIsStep, SessionStep, OrderStep DEF ConversationInv, SessionInv
<1> SUFFICES AgentInv' /\ HeardInv'
  BY <1>1 DEF ConversationInv
<1>2. CASE AgentPosts
  BY <1>1, <1>2, AgentPostsKeeps
<1>3. CASE Disconnected
  BY <1>3, DisconnectedKeeps
<1>4. CASE Outcome
  BY <1>4, OutcomeKeeps
<1>5. CASE WithinAgent
  BY <1>5, WithinAgentKeeps
<1>6. CASE Driven
  <2>1. UNCHANGED <<agentVars, agent, awaited, heard>>
    BY <1>6 DEF Driven
  <2>2. CASE Runner \/ Abort
    BY <1>1, <2>1, <2>2, ClosingKeepsHeard DEF Runner
  <2>3. ASSUME NEW r \in Requests, OtherAgent(r) PROVE AgentInv' /\ HeardInv'
    BY <1>1, <2>1, <2>3, OtherAgentKeeps
  <2>4. ASSUME NEW r \in Requests, Release(r) PROVE AgentInv' /\ HeardInv'
    BY <2>1, <2>4, FailKeeps
  <2> QED
    BY <1>6, <2>2, <2>3, <2>4 DEF Driven
<1>7. ASSUME NEW r \in Requests, BackendReturns(r) PROVE AgentInv' /\ HeardInv'
  BY <1>7, AnswerKeeps, FailKeeps DEF BackendReturns
<1>8. CASE UNCHANGED conversationVars
  <2>1. UNCHANGED <<agentVars, agent, awaited, heard, vars>>
    BY <1>8 DEF conversationVars, gatewayVars
  <2>2. UNCHANGED <<pc, encoded, held, phase, active_chains, materialized_chains, returned>>
    BY <2>1 DEF vars, sessionVars, chainVars, requestVars
  <2>3. awaited # Nobody => pc[awaited] \notin {"idle", "ok"}
    BY DEF ConversationInv, AgentInv
  <2>4. AgentInv' /\ Continues
    BY <2>1, <2>2, <2>3, AgentKept DEF ConversationInv
  <2>5. HeardIsSpared'
    BY <2>1, <2>2, SparedQuiet
  <2> QED
    BY <2>1, <2>2, <2>4, <2>5, HeardQuiet DEF HeardInv
<1> QED
  BY <1>2, <1>3, <1>4, <1>5, <1>6, <1>7, <1>8 DEF ConversationNext

LEMMA HeardNow == ConversationInv => HeardAnswersSurvive
<1> SUFFICES ASSUME ConversationInv PROVE HeardAnswersSurvive
  OBVIOUS
<1>1. ASSUME phase # "ABORTED", NEW i \in DOMAIN heard
      PROVE  Surviving(heard[i]) = completion[heard[i]]
  <2>1. heard[i] \in Heard /\ heard[i] \in Requests
    BY DEF Heard, Range, ConversationInv, AgentInv
  <2>2. HeldAfter(heard[i], -1)
    BY <1>1, <2>1 DEF ConversationInv, HeardInv, HeardIsHeld
  <2>3. Home(heard[i])
    BY <2>1, <2>2, HomeIsHeld DEF ConversationInv
  <2> QED
    BY <2>1, <2>3, SurvivingIsShare DEF Share, ConversationInv
<1> QED
  BY <1>1 DEF HeardAnswersSurvive, ConversationInv, HeardInv, FinalIsLastHeard, LatestOf, Heard

\* Every answer that reached the agent stays in the training data, and the
\* trajectory that finalize puts last ends in the agent's last turn, with the
\* exceptions that HeardAnswersSurvive names: whatever the number of requests,
\* attempts and steps, the capacity and the prompt (agents/react/model.py
\* retries; session.py 228-230, 532-584, 674-747).
THEOREM HeardCorrect == ConversationSpec => []HeardAnswersSurvive
BY HeardNow, ConversationStarts, ConversationStep, PTL DEF ConversationSpec

\* However the agent's attempts overlap, the session implements TurnLedger:
\* each answer enters one turn, at most one is struck out with it, and
\* finalize delivers each turn of the ledger once (session.py 218-366).
THEOREM ConversationImplementsLedger == ConversationSpec => ImplementsTurnLedger
<1>1. ConversationInit => Init
  BY DEF ConversationInit
<1>2. ConversationInit => Balanced
  BY <1>1, SessionInit, AccountsInit, LedgerIsShares DEF Balanced
<1>3. ConversationInv /\ [ConversationNext]_conversationVars => [Step]_vars
  BY ConversationIsStep DEF ConversationInv
<1>4. Balanced /\ [Step]_vars => SessionInv' /\ AccountsInv'
  BY SessionStep, AccountsStep DEF Balanced
<1>5. SessionInv /\ AccountsInv => Balanced
  BY LedgerIsShares DEF Balanced
<1>6. Balanced /\ Balanced' /\ [Step]_vars => [Ledger!Next]_(Ledger!vars)
  BY StepIsLedgerStep DEF Balanced
<1>7. ConversationInit => Ledger!Init
  BY <1>1, InitIsLedgerInit
<1>8. ConversationSpec => Ledger!Spec
  BY <1>2, <1>3, <1>4, <1>5, <1>6, <1>7, ConversationStarts, ConversationStep, PTL
     DEF ConversationSpec, Ledger!Spec
<1> QED
  BY <1>8 DEF ImplementsTurnLedger
=============================================================================
