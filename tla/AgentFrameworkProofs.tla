------------------------ MODULE AgentFrameworkProofs ------------------------
(***************************************************************************)
(* Theorems about AgentFramework, for any prompts, sessions per prompt,    *)
(* gateways, runners and limits that satisfy FrameworkAssumption.          *)
(***************************************************************************)
EXTENDS AgentFrameworkProps, TLAPS, FiniteSetTheorems

-----------------------------------------------------------------------------
(* Types.                                                                  *)

\* What any operation of the manager or of an actor does to their state.
GatewayOp(s) ==
  \/ CreateSession(s) \/ CreateReturned(s) \/ CreateRaised(s) \/ CreateCancelled(s)
  \/ FinalizeSession(s) \/ Finalized(s) \/ AbortSession(s) \/ Aborted(s) \/ AbortRaised(s)
  \/ ActorCreate(s) \/ ActorFinalize(s) \/ ActorAbort(s) \/ Unreachable(s)

\* Giving up a route keeps routes and loads typed (manager.py 90-107).
LEMMA UnrouteTypes ==
  ASSUME GatewayTypeOK, NEW s \in Sessions, Unroute(s)
  PROVE  /\ load' \in [Gateways -> Int]
         /\ DOMAIN route' \subseteq Sessions
         /\ \A t \in DOMAIN route' : route'[t] \in Gateways
<1>1. load' = [g \in Gateways |-> IF g = route[s] THEN load[g] - 1 ELSE load[g]]
  BY DEF Unroute, GatewayTypeOK
<1>2. \A g \in Gateways : load[g] - 1 \in Int /\ load[g] \in Int
  BY DEF GatewayTypeOK
<1>3. load' \in [Gateways -> Int]
  BY <1>1, <1>2
<1>4. DOMAIN route' = DOMAIN route \ {s} /\ \A t \in DOMAIN route' : route'[t] = route[t]
  BY DEF Unroute
<1> QED
  BY <1>3, <1>4 DEF GatewayTypeOK

\* Making, answering or dropping a call keeps the call table typed.
LEMMA CallTypes ==
  ASSUME GatewayTypeOK, NEW s \in Sessions, NEW op \in {"create", "finalize", "abort"},
         NEW g \in Gateways, NEW reply \in {"ok", "error"},
         Call(s, op, g) \/ Reply(s, reply) \/ HangUp(s)
  PROVE  rpc' \in [Sessions -> [op : {"none", "create", "finalize", "abort"},
                                gateway : {0} \cup Gateways,
                                reply : {"none", "ok", "error"}]]
BY DEF Call, Reply, HangUp, NoCall, GatewayTypeOK

LEMMA GatewayOpKeepsTypes ==
  ASSUME GatewayTypeOK, NEW s \in Sessions, GatewayOp(s)
  PROVE  GatewayTypeOK'
<1>1. CASE CreateSession(s)
  <2>1. PICK g \in Gateways :
          /\ route' = [t \in DOMAIN route \cup {s} |-> IF t = s THEN g ELSE route[t]]
          /\ load' = [load EXCEPT ![g] = @ + 1]
          /\ Call(s, "create", g)
          /\ UNCHANGED <<live, down>>
    BY <1>1 DEF CreateSession
  <2>2. load' \in [Gateways -> Int]
    BY <2>1 DEF GatewayTypeOK
  <2>3. DOMAIN route' \subseteq Sessions /\ \A t \in DOMAIN route' : route'[t] \in Gateways
    BY <2>1 DEF GatewayTypeOK
  <2> QED
    BY <2>1, <2>2, <2>3, CallTypes DEF GatewayTypeOK
<1>2. CASE FinalizeSession(s) \/ AbortSession(s)
  <2>1. route[s] \in Gateways
    BY <1>2 DEF FinalizeSession, AbortSession, GatewayTypeOK
  <2> QED
    BY <1>2, <2>1, CallTypes DEF FinalizeSession, AbortSession, GatewayTypeOK
<1>3. CASE CreateRaised(s) \/ Finalized(s) \/ Aborted(s)
  BY <1>3, UnrouteTypes DEF CreateRaised, Finalized, Aborted, GatewayTypeOK, HangUp, NoCall
<1>4. CASE CreateCancelled(s)
  BY <1>4, UnrouteTypes DEF CreateCancelled, GatewayTypeOK
<1>5. CASE CreateReturned(s) \/ AbortRaised(s)
  BY <1>5 DEF CreateReturned, AbortRaised, GatewayTypeOK, HangUp, NoCall
<1>6. CASE ActorCreate(s) \/ ActorFinalize(s) \/ ActorAbort(s)
  BY <1>6 DEF ActorCreate, ActorFinalize, ActorAbort, GatewayTypeOK, Reply
<1>7. CASE Unreachable(s)
  BY <1>7 DEF Unreachable, GatewayTypeOK, Reply
<1> QED
  BY <1>1, <1>2, <1>3, <1>4, <1>5, <1>6, <1>7 DEF GatewayOp

\* Which session coroutines and calls a step of one session may touch.
SessionSteps(s) == AdvanceSession(s) \/ LeakCancel(s) \/ ServeCall(s)

Places == {"queued", "creating", "running", "finalizing", "aborting", "scoring"} \cup Ended

LEMMA SessionFrame ==
  ASSUME TypeOK, NEW s \in Sessions, SessionSteps(s)
  PROVE  /\ GatewayOp(s) \/ UNCHANGED gatewayVars
         /\ pc' \in [Sessions -> Places]
         /\ outputs' \in [Sessions -> 0..MaxTrajectories]
         /\ UNCHANGED <<promptVars, batchVars>>
<1>1. GatewayOp(s) \/ UNCHANGED gatewayVars
  <2>1. CASE SessionStep(s)
    BY <2>1 DEF SessionStep, UnknownRunner, StartSession, SessionCreated, SessionNotCreated,
         RunnerReturned, RunnerRaised, SessionFinalized, FinalizeRaised, SessionAborted,
         Scored, ScoringRaised, GatewayOp
  <2>2. CASE SessionCancelled(s) \/ RunnerLeaksCancel(s) \/ ActorStep(s)
    BY <2>2 DEF SessionCancelled, RunnerLeaksCancel, ActorStep, GatewayOp
  <2> QED
    BY <2>1, <2>2 DEF SessionSteps, AdvanceSession, LeakCancel, ServeCall
<1>2. pc' \in [Sessions -> Places]
  <2>1. pc' = pc \/ \E where \in Places : Goto(s, where)
    <3>1. CASE SessionStep(s)
      BY <3>1 DEF SessionStep, UnknownRunner, StartSession, SessionCreated, SessionNotCreated,
           RunnerReturned, RunnerRaised, SessionFinalized, FinalizeRaised, SessionAborted,
           Scored, ScoringRaised, Places, Ended
    <3>2. CASE SessionCancelled(s) \/ RunnerLeaksCancel(s) \/ ActorStep(s)
      BY <3>2 DEF SessionCancelled, RunnerLeaksCancel, ActorStep, sessionVars, Places, Ended
    <3> QED
      BY <3>1, <3>2 DEF SessionSteps, AdvanceSession, LeakCancel, ServeCall
  <2> QED
    BY <2>1 DEF Goto, TypeOK, Places
<1>3. outputs' \in [Sessions -> 0..MaxTrajectories]
  <2>1. outputs' = outputs \/ \E n \in 0..MaxTrajectories : outputs' = [outputs EXCEPT ![s] = n]
    <3>1. \A n \in 0..MaxTrajectories : Selected(s, n) \in 0..MaxTrajectories
      BY FrameworkAssumption DEF Selected
    <3>2. 0 \in 0..MaxTrajectories
      BY FrameworkAssumption
    <3>3. CASE SessionFinalized(s)
      BY <3>1, <3>3 DEF SessionFinalized
    <3>4. CASE SessionStep(s) /\ ~SessionFinalized(s)
      BY <3>2, <3>4 DEF SessionStep, UnknownRunner, StartSession, SessionCreated,
           SessionNotCreated, RunnerReturned, RunnerRaised, FinalizeRaised, SessionAborted,
           Scored, ScoringRaised
    <3>5. CASE SessionCancelled(s) \/ RunnerLeaksCancel(s) \/ ActorStep(s)
      BY <3>2, <3>5 DEF SessionCancelled, RunnerLeaksCancel, ActorStep, sessionVars
    <3> QED
      BY <3>3, <3>4, <3>5 DEF SessionSteps, AdvanceSession, LeakCancel, ServeCall
  <2> QED
    BY <2>1 DEF TypeOK
<1> QED
  BY <1>1, <1>2, <1>3 DEF SessionSteps, AdvanceSession, LeakCancel, ServeCall

LEMMA RecordsOfType ==
  ASSUME TypeOK, NEW s \in Sessions
  PROVE  RecordsOf(s) \subseteq Sessions \X (1..MaxTrajectories)
<1>1. outputs[s] \in Nat /\ outputs[s] <= MaxTrajectories /\ MaxTrajectories \in Nat
  BY FrameworkAssumption DEF TypeOK
<1> QED
  BY <1>1 DEF RecordsOf

LEMMA PromptKeepsTypes ==
  ASSUME TypeOK, NEW p \in Prompts, AdvancePrompt(p)
  PROVE  TypeOK'
<1>1. cursor[p] \in 1..(RolloutN + 1) /\ RolloutN \in Nat
  BY FrameworkAssumption DEF TypeOK
<1>2. cursor[p] <= RolloutN => Current(p) \in Sessions /\ cursor[p] + 1 \in 1..(RolloutN + 1)
  BY <1>1, FrameworkAssumption DEF Current
<1>3. Verdict(p) \in {"pending", "finished", "failure"}
  BY DEF Verdict
<1>4. CASE CountFailed(p)
  BY <1>1, <1>2, <1>4 DEF CountFailed, Handling, NextOutcome, AdvancePrompt, TypeOK,
       GatewayTypeOK, gatewayVars, sessionVars, batchVars
<1>5. CASE Propagate(p)
  BY <1>5 DEF Propagate, AdvancePrompt, TypeOK, Ended, GatewayTypeOK, gatewayVars,
       sessionVars, batchVars
<1>6. CASE Write(p) \/ WriteRaised(p)
  <2>1. Handling(p, "returned") /\ NextOutcome(p)
    BY <1>6 DEF Write, WriteRaised, Writing
  <2>2. RecordsOf(Current(p)) \subseteq Sessions \X (1..MaxTrajectories)
    BY <1>2, <2>1, RecordsOfType DEF Handling
  <2>3. records' \subseteq Sessions \X (1..MaxTrajectories) /\ written' \subseteq Sessions
    BY <1>2, <1>6, <2>1, <2>2 DEF Write, WriteRaised, Handling, TypeOK
  <2> QED
    BY <1>1, <1>2, <2>1, <2>3 DEF Handling, NextOutcome, AdvancePrompt, TypeOK,
         GatewayTypeOK, gatewayVars, sessionVars, batchVars
<1>7. CASE TagPrompt(p) \/ TagRaised(p)
  BY <1>3, <1>7 DEF TagPrompt, TagRaised, AdvancePrompt, TypeOK, Ended, GatewayTypeOK,
       gatewayVars, sessionVars, batchVars
<1>8. CASE PromptCancelled(p)
  <2>1. records' \subseteq Sessions \X (1..MaxTrajectories)
    BY <1>2, <1>8, RecordsOfType DEF PromptCancelled, TypeOK
  <2>2. tag' \in [Prompts -> {"pending", "finished", "failure"}]
    BY <1>3, <1>8 DEF PromptCancelled, TypeOK
  <2> QED
    BY <1>8, <2>1, <2>2 DEF PromptCancelled, AdvancePrompt, TypeOK, Ended, GatewayTypeOK,
         gatewayVars, sessionVars, batchVars
<1> QED
  BY <1>4, <1>5, <1>6, <1>7, <1>8 DEF AdvancePrompt, PromptStep

LEMMA InitTypes ==
  ASSUME Init
  PROVE  TypeOK
<1>1. GatewayTypeOK
  BY DEF Init, GatewayInit, GatewayTypeOK, NoCall
<1>2. 0 \in 0..MaxTrajectories /\ 1 \in 1..(RolloutN + 1)
  BY FrameworkAssumption
<1> QED
  BY <1>1, <1>2 DEF Init, TypeOK, Ended

LEMMA StepTypes ==
  ASSUME TypeOK, [Next]_vars
  PROVE  TypeOK'
<1>1. CASE UNCHANGED vars
  BY <1>1 DEF TypeOK, GatewayTypeOK, vars, gatewayVars, sessionVars, promptVars, batchVars
<1>2. ASSUME NEW s \in Sessions, SessionSteps(s)
      PROVE  TypeOK'
  <2>1. GatewayTypeOK'
    <3>1. CASE GatewayOp(s)
      BY <3>1, GatewayOpKeepsTypes DEF TypeOK
    <3>2. CASE UNCHANGED gatewayVars
      BY <3>2 DEF TypeOK, GatewayTypeOK, gatewayVars
    <3> QED
      BY <1>2, <3>1, <3>2, SessionFrame
  <2> QED
    BY <1>2, <2>1, SessionFrame DEF TypeOK, Places, promptVars, batchVars
<1>3. CASE ConcludeBatch \/ Cancel
  BY <1>3 DEF ConcludeBatch, Conclude, Cancel, CancelBatch, TypeOK, Ended, GatewayTypeOK,
       gatewayVars, sessionVars, promptVars
<1>4. ASSUME NEW g \in Gateways, GatewayDies(g)
      PROVE  TypeOK'
  BY <1>4 DEF GatewayDies, Die, TypeOK, GatewayTypeOK, sessionVars, promptVars, batchVars
<1> QED
  BY <1>1, <1>2, <1>3, <1>4, PromptKeepsTypes DEF Next, SessionSteps, Done

\* Every variable keeps its type, in every batch (framework.py, manager.py).
THEOREM FrameworkTypeCorrect == Spec => []TypeOK
BY InitTypes, StepTypes, PTL DEF Spec

-----------------------------------------------------------------------------
(* The life of a session: where its coroutine stands determines its call,  *)
(* its route and what an actor has of it.                                  *)

AtGateway == {"creating", "running", "finalizing", "aborting"}

Nowhere(s) == \A g \in Gateways : s \notin live[g]

\* Between its creation and its end a session is routed, and the call it waits
\* for, if any, goes to the actor it is routed to.
RouteInv(s) ==
  /\ pc[s] \in {"queued", "scoring", "returned"} => s \notin DOMAIN route
  /\ pc[s] \in AtGateway => s \in DOMAIN route
  /\ pc[s] \in {"queued", "running", "scoring", "returned", "raised"} => rpc[s].op = "none"
  /\ pc[s] = "creating" => rpc[s].op = "create" /\ rpc[s].gateway = route[s]
  /\ pc[s] = "finalizing" => rpc[s].op = "finalize" /\ rpc[s].gateway = route[s]
  /\ pc[s] = "aborting" => rpc[s].op = "abort" /\ rpc[s].gateway = route[s]

\* Only that actor may have it in memory, once it answered the creation, and
\* not any more once it answered the finalize or the abort.  The reply to an
\* abort is an error only when the actor died.
MemoryInv(s) ==
  /\ pc[s] # "cancelled" =>
       \A g \in Gateways : s \in live[g] => pc[s] \in AtGateway /\ route[s] = g
  /\ pc[s] = "creating" /\ rpc[s].reply # "ok" => Nowhere(s)
  /\ pc[s] \in {"finalizing", "aborting"} /\ rpc[s].reply = "ok" => Nowhere(s)
  /\ pc[s] = "aborting" /\ rpc[s].reply = "error" => route[s] \in down
  /\ pc[s] = "raised" /\ s \in DOMAIN route => route[s] \in down

DeadAreEmpty == \A g \in down : live[g] = {}

LifeInv == DeadAreEmpty /\ \A s \in Sessions : RouteInv(s) /\ MemoryInv(s)

\* An operation for one session leaves what the others have.
Undisturbed(t) ==
  /\ rpc'[t] = rpc[t]
  /\ t \in DOMAIN route' <=> t \in DOMAIN route
  /\ t \in DOMAIN route => route'[t] = route[t]
  /\ \A g \in Gateways : t \in live'[g] => t \in live[g]
  /\ down \subseteq down'

LEMMA OthersUndisturbed ==
  ASSUME TypeOK, NEW s \in Sessions, NEW t \in Sessions \ {s},
         GatewayOp(s) \/ UNCHANGED gatewayVars
  PROVE  Undisturbed(t)
<1>1. CASE UNCHANGED gatewayVars
  BY <1>1 DEF gatewayVars, Undisturbed
<1>2. CASE CreateSession(s)
  BY <1>2 DEF CreateSession, Call, Undisturbed, TypeOK, GatewayTypeOK
<1>3. CASE FinalizeSession(s) \/ AbortSession(s)
  BY <1>3 DEF FinalizeSession, AbortSession, Call, Undisturbed, TypeOK, GatewayTypeOK
<1>4. CASE CreateRaised(s) \/ Finalized(s) \/ Aborted(s) \/ CreateCancelled(s)
  BY <1>4 DEF CreateRaised, Finalized, Aborted, CreateCancelled, Unroute, HangUp,
       Undisturbed, TypeOK, GatewayTypeOK
<1>5. CASE CreateReturned(s) \/ AbortRaised(s)
  BY <1>5 DEF CreateReturned, AbortRaised, HangUp, Undisturbed, TypeOK, GatewayTypeOK
<1>6. CASE ActorCreate(s) \/ ActorFinalize(s) \/ ActorAbort(s) \/ Unreachable(s)
  BY <1>6 DEF ActorCreate, ActorFinalize, ActorAbort, Unreachable, Reply, Undisturbed,
       TypeOK, GatewayTypeOK
<1> QED
  BY <1>1, <1>2, <1>3, <1>4, <1>5, <1>6 DEF GatewayOp

LEMMA UndisturbedKeepsLife ==
  ASSUME NEW t \in Sessions, RouteInv(t), MemoryInv(t), Undisturbed(t), pc'[t] = pc[t]
  PROVE  RouteInv(t)' /\ MemoryInv(t)'
BY DEF RouteInv, MemoryInv, Undisturbed, Nowhere, AtGateway

LEMMA OtherCoroutinesStay ==
  ASSUME TypeOK, NEW s \in Sessions, NEW t \in Sessions \ {s}, SessionSteps(s)
  PROVE  pc'[t] = pc[t] /\ outputs'[t] = outputs[t]
<1>1. CASE SessionStep(s)
  BY <1>1 DEF SessionStep, UnknownRunner, StartSession, SessionCreated, SessionNotCreated,
       RunnerReturned, RunnerRaised, SessionFinalized, FinalizeRaised, SessionAborted,
       Scored, ScoringRaised, Goto, TypeOK
<1>2. CASE SessionCancelled(s) \/ RunnerLeaksCancel(s) \/ ActorStep(s)
  BY <1>2 DEF SessionCancelled, RunnerLeaksCancel, ActorStep, sessionVars, Goto, TypeOK
<1> QED
  BY <1>1, <1>2 DEF SessionSteps, AdvanceSession, LeakCancel, ServeCall

\* No operation brings a session into the memory of an actor that died.
LEMMA DeadStayEmpty ==
  ASSUME TypeOK, NEW s \in Sessions, GatewayOp(s) \/ UNCHANGED gatewayVars, DeadAreEmpty
  PROVE  DeadAreEmpty'
<1>1. CASE ActorCreate(s)
  BY <1>1 DEF ActorCreate, Pending, DeadAreEmpty, TypeOK, GatewayTypeOK
<1>2. CASE ActorFinalize(s) \/ ActorAbort(s)
  <2>1. \A g \in Gateways : live'[g] \subseteq live[g]
    BY <1>2 DEF ActorFinalize, ActorAbort, TypeOK, GatewayTypeOK
  <2>2. down' = down /\ down \subseteq Gateways
    BY <1>2 DEF ActorFinalize, ActorAbort, TypeOK, GatewayTypeOK
  <2> QED
    BY <2>1, <2>2 DEF DeadAreEmpty
<1>3. CASE UNCHANGED <<live, down>>
  BY <1>3 DEF DeadAreEmpty
<1> QED
  BY <1>1, <1>2, <1>3 DEF GatewayOp, CreateSession, CreateReturned, CreateRaised,
       CreateCancelled, FinalizeSession, Finalized, AbortSession, Aborted, AbortRaised,
       Unreachable, gatewayVars

\* What the actor does with a call keeps the session's life in order.
LEMMA ActorKeepsLife ==
  ASSUME TypeOK, LifeInv, NEW s \in Sessions, ActorStep(s)
  PROVE  RouteInv(s)' /\ MemoryInv(s)'
<1>1. RouteInv(s) /\ MemoryInv(s) /\ DeadAreEmpty /\ pc' = pc
  BY DEF LifeInv, ActorStep, sessionVars
<1>2. CASE ActorCreate(s)
  <2>1. /\ rpc[s].op = "create" /\ rpc'[s] = [rpc[s] EXCEPT !.reply = "ok"]
        /\ UNCHANGED <<route, down>>
        /\ \A g \in Gateways : s \in live'[g] => s \in live[g] \/ g = rpc[s].gateway
    BY <1>2 DEF ActorCreate, Pending, Replied, Reply, TypeOK, GatewayTypeOK
  <2>2. pc[s] \in {"creating", "cancelled"}
    BY <1>1, <2>1 DEF RouteInv, TypeOK, Ended
  <2> QED
    BY <1>1, <2>1, <2>2 DEF RouteInv, MemoryInv, Nowhere, AtGateway, TypeOK, GatewayTypeOK
<1>3. CASE ActorFinalize(s)
  <2>1. /\ rpc[s].op = "finalize" /\ rpc'[s].op = rpc[s].op
        /\ rpc'[s].gateway = rpc[s].gateway
        /\ UNCHANGED <<route, down>>
        /\ \A g \in Gateways : s \in live'[g] => s \in live[g] /\ g # rpc[s].gateway
    BY <1>3 DEF ActorFinalize, Pending, Replied, Reply, TypeOK, GatewayTypeOK
  <2>2. pc[s] \in {"finalizing", "cancelled"}
    BY <1>1, <2>1 DEF RouteInv, TypeOK, Ended
  <2> QED
    BY <1>1, <2>1, <2>2 DEF RouteInv, MemoryInv, Nowhere, AtGateway, TypeOK, GatewayTypeOK
<1>4. CASE ActorAbort(s)
  <2>1. /\ rpc[s].op = "abort" /\ rpc'[s] = [rpc[s] EXCEPT !.reply = "ok"]
        /\ UNCHANGED <<route, down>>
        /\ \A g \in Gateways : s \in live'[g] => s \in live[g] /\ g # rpc[s].gateway
    BY <1>4 DEF ActorAbort, Pending, Replied, Reply, TypeOK, GatewayTypeOK
  <2>2. pc[s] \in {"aborting", "cancelled"}
    BY <1>1, <2>1 DEF RouteInv, TypeOK, Ended
  <2> QED
    BY <1>1, <2>1, <2>2 DEF RouteInv, MemoryInv, Nowhere, AtGateway, TypeOK, GatewayTypeOK
<1>5. CASE Unreachable(s)
  <2>1. /\ rpc[s].op # "none" /\ rpc[s].reply = "none" /\ rpc[s].gateway \in down
        /\ rpc'[s] = [rpc[s] EXCEPT !.reply = "error"]
        /\ UNCHANGED <<route, live, down>>
    BY <1>5 DEF Unreachable, Reply, TypeOK, GatewayTypeOK
  <2>2. pc[s] \in {"creating", "finalizing", "aborting", "cancelled"}
    BY <1>1, <2>1 DEF RouteInv, TypeOK, Ended
  <2> QED
    BY <1>1, <2>1, <2>2 DEF RouteInv, MemoryInv, Nowhere, AtGateway, TypeOK, GatewayTypeOK
<1> QED
  BY <1>2, <1>3, <1>4, <1>5 DEF ActorStep

\* What each operation of the manager does to the session it is called for.
LEMMA RoutedAfterwards ==
  ASSUME TypeOK, NEW s \in Sessions
  PROVE  /\ CreateSession(s) =>
              /\ s \in DOMAIN route' /\ UNCHANGED <<live, down>>
              /\ rpc'[s].op = "create" /\ rpc'[s].gateway = route'[s]
              /\ rpc'[s].reply = "none"
         /\ CreateReturned(s) => rpc'[s].op = "none" /\ UNCHANGED <<route, live, down>>
         /\ FinalizeSession(s) =>
              /\ s \in DOMAIN route /\ UNCHANGED <<route, live, down>>
              /\ rpc'[s].op = "finalize" /\ rpc'[s].gateway = route[s]
              /\ rpc'[s].reply = "none"
         /\ AbortSession(s) =>
              /\ s \in DOMAIN route /\ UNCHANGED <<route, live, down>>
              /\ rpc'[s].op = "abort" /\ rpc'[s].gateway = route[s]
              /\ rpc'[s].reply = "none"
         /\ CreateRaised(s) \/ Finalized(s) \/ Aborted(s) =>
              s \notin DOMAIN route' /\ rpc'[s].op = "none" /\ UNCHANGED <<live, down>>
         /\ AbortRaised(s) => rpc'[s].op = "none" /\ UNCHANGED <<route, live, down>>
         /\ CreateCancelled(s) => s \notin DOMAIN route' /\ UNCHANGED <<live, down>>
<1>1. CreateSession(s) =>
        /\ s \in DOMAIN route' /\ UNCHANGED <<live, down>>
        /\ rpc'[s].op = "create" /\ rpc'[s].gateway = route'[s]
        /\ rpc'[s].reply = "none"
  BY DEF CreateSession, Call, TypeOK, GatewayTypeOK
<1>2. /\ FinalizeSession(s) =>
           /\ s \in DOMAIN route /\ UNCHANGED <<route, live, down>>
           /\ rpc'[s].op = "finalize" /\ rpc'[s].gateway = route[s]
           /\ rpc'[s].reply = "none"
      /\ AbortSession(s) =>
           /\ s \in DOMAIN route /\ UNCHANGED <<route, live, down>>
           /\ rpc'[s].op = "abort" /\ rpc'[s].gateway = route[s]
           /\ rpc'[s].reply = "none"
  BY DEF FinalizeSession, AbortSession, Call, TypeOK, GatewayTypeOK
<1>3. /\ CreateReturned(s) => rpc'[s].op = "none" /\ UNCHANGED <<route, live, down>>
      /\ AbortRaised(s) => rpc'[s].op = "none" /\ UNCHANGED <<route, live, down>>
  BY DEF CreateReturned, AbortRaised, HangUp, NoCall, TypeOK, GatewayTypeOK
<1>4. /\ CreateRaised(s) \/ Finalized(s) \/ Aborted(s) =>
           s \notin DOMAIN route' /\ rpc'[s].op = "none" /\ UNCHANGED <<live, down>>
      /\ CreateCancelled(s) => s \notin DOMAIN route' /\ UNCHANGED <<live, down>>
  BY DEF CreateRaised, Finalized, Aborted, CreateCancelled, Unroute, HangUp, NoCall,
       TypeOK, GatewayTypeOK
<1> QED
  BY <1>1, <1>2, <1>3, <1>4

LEMMA GotoMoves ==
  ASSUME TypeOK, NEW s \in Sessions, NEW where, Goto(s, where)
  PROVE  pc'[s] = where
BY DEF Goto, TypeOK

\* Each step of the coroutine keeps the session's life in order.
LEMMA CoroutineKeepsLife ==
  ASSUME TypeOK, LifeInv, NEW s \in Sessions, SessionStep(s)
  PROVE  RouteInv(s)' /\ MemoryInv(s)'
<1>1. RouteInv(s) /\ MemoryInv(s)
  BY DEF LifeInv
<1> USE DEF RouteInv, MemoryInv, Nowhere, AtGateway
<1>2. CASE UnknownRunner(s)
  <2>1. pc'[s] = "raised" /\ pc[s] = "queued" /\ UNCHANGED gatewayVars
    BY <1>2, GotoMoves DEF UnknownRunner
  <2> QED
    BY <1>1, <2>1 DEF gatewayVars
<1>3. CASE StartSession(s)
  <2>1. pc'[s] = "creating" /\ pc[s] = "queued" /\ CreateSession(s)
    BY <1>3, GotoMoves DEF StartSession
  <2> QED
    BY <1>1, <2>1, RoutedAfterwards
<1>4. CASE SessionCreated(s)
  <2>1. pc'[s] = "running" /\ pc[s] = "creating" /\ CreateReturned(s)
    BY <1>4, GotoMoves DEF SessionCreated
  <2> QED
    BY <1>1, <2>1, RoutedAfterwards
<1>5. CASE SessionNotCreated(s)
  <2>1. /\ pc'[s] = "raised" /\ pc[s] = "creating" /\ CreateRaised(s)
        /\ rpc[s].reply = "error"
    BY <1>5, GotoMoves DEF SessionNotCreated, CreateRaised, Replied
  <2> QED
    BY <1>1, <2>1, RoutedAfterwards
<1>6. CASE RunnerReturned(s)
  <2>1. pc'[s] = "finalizing" /\ pc[s] = "running" /\ FinalizeSession(s)
    BY <1>6, GotoMoves DEF RunnerReturned
  <2> QED
    BY <1>1, <2>1, RoutedAfterwards
<1>7. CASE RunnerRaised(s) \/ FinalizeRaised(s)
  <2>1. pc'[s] = "aborting" /\ pc[s] \in {"running", "finalizing"} /\ AbortSession(s)
    BY <1>7, GotoMoves DEF RunnerRaised, FinalizeRaised
  <2> QED
    BY <1>1, <2>1, RoutedAfterwards
<1>8. CASE SessionFinalized(s)
  <2>1. /\ pc'[s] \in {"returned", "scoring"} /\ pc[s] = "finalizing" /\ Finalized(s)
        /\ rpc[s].reply = "ok"
    BY <1>8, GotoMoves DEF SessionFinalized, Finalized, Replied
  <2> QED
    BY <1>1, <2>1, RoutedAfterwards
<1>9. CASE SessionAborted(s)
  <2>1. pc'[s] = "raised" /\ pc[s] = "aborting"
    BY <1>9, GotoMoves DEF SessionAborted
  <2>2. CASE Aborted(s)
    <3>1. rpc[s].reply = "ok"
      BY <2>2 DEF Aborted, Replied
    <3> QED
      BY <1>1, <2>1, <2>2, <3>1, RoutedAfterwards
  <2>3. CASE AbortRaised(s)
    <3>1. rpc[s].reply = "error" /\ DeadAreEmpty
      BY <2>3 DEF AbortRaised, Replied, LifeInv
    <3>2. route[s] \in down /\ live[route[s]] = {}
      BY <1>1, <2>1, <3>1 DEF DeadAreEmpty
    <3> QED
      BY <1>1, <2>1, <2>3, <3>2, RoutedAfterwards
  <2> QED
    BY <1>9, <2>2, <2>3 DEF SessionAborted
<1>10. CASE Scored(s) \/ ScoringRaised(s)
  <2>1. pc'[s] \in {"returned", "raised"} /\ pc[s] = "scoring" /\ UNCHANGED gatewayVars
    BY <1>10, GotoMoves DEF Scored, ScoringRaised
  <2> QED
    BY <1>1, <2>1 DEF gatewayVars
<1> QED
  BY <1>2, <1>3, <1>4, <1>5, <1>6, <1>7, <1>8, <1>9, <1>10 DEF SessionStep

\* A session that is cancelled promises nothing any more.
LEMMA CancelKeepsLife ==
  ASSUME TypeOK, NEW s \in Sessions, SessionCancelled(s) \/ RunnerLeaksCancel(s)
  PROVE  RouteInv(s)' /\ MemoryInv(s)'
<1>1. pc'[s] = "cancelled"
  BY GotoMoves DEF SessionCancelled, RunnerLeaksCancel
<1> QED
  BY <1>1 DEF RouteInv, MemoryInv, AtGateway

LEMMA InitLife ==
  ASSUME Init
  PROVE  LifeInv
BY DEF Init, GatewayInit, NoCall, LifeInv, DeadAreEmpty, RouteInv, MemoryInv, Nowhere,
     AtGateway

LEMMA StepLife ==
  ASSUME TypeOK, LifeInv, [Next]_vars
  PROVE  LifeInv'
<1>1. CASE UNCHANGED <<gatewayVars, sessionVars>>
  BY <1>1 DEF LifeInv, DeadAreEmpty, RouteInv, MemoryInv, Nowhere, AtGateway, gatewayVars,
       sessionVars
<1>2. ASSUME NEW s \in Sessions, SessionSteps(s)
      PROVE  LifeInv'
  <2>1. GatewayOp(s) \/ UNCHANGED gatewayVars
    BY <1>2, SessionFrame
  <2>2. DeadAreEmpty'
    BY <2>1, DeadStayEmpty DEF LifeInv
  <2>3. RouteInv(s)' /\ MemoryInv(s)'
    BY <1>2, ActorKeepsLife, CoroutineKeepsLife, CancelKeepsLife
       DEF SessionSteps, AdvanceSession, LeakCancel, ServeCall
  <2>4. ASSUME NEW t \in Sessions \ {s}
        PROVE  RouteInv(t)' /\ MemoryInv(t)'
    BY <1>2, <2>1, OthersUndisturbed, OtherCoroutinesStay, UndisturbedKeepsLife DEF LifeInv
  <2> QED
    BY <2>2, <2>3, <2>4 DEF LifeInv
<1>3. ASSUME NEW g \in Gateways, GatewayDies(g)
      PROVE  LifeInv'
  <2>1. /\ UNCHANGED <<route, rpc, pc>> /\ down' = down \cup {g} /\ live'[g] = {}
        /\ \A h \in Gateways \ {g} : live'[h] = live[h]
    BY <1>3 DEF GatewayDies, Die, sessionVars, TypeOK, GatewayTypeOK
  <2>2. \A t \in Sessions : Undisturbed(t)
    BY <2>1 DEF Undisturbed
  <2>3. DeadAreEmpty'
    BY <2>1 DEF DeadAreEmpty, LifeInv, TypeOK, GatewayTypeOK
  <2> QED
    BY <2>1, <2>2, <2>3, UndisturbedKeepsLife DEF LifeInv
<1> QED
  BY <1>1, <1>2, <1>3 DEF Next, SessionSteps, AdvancePrompt, ConcludeBatch, Cancel, Done, vars

\* Nothing of a session is left in any actor once its coroutine returned or
\* raised, for any number of sessions and actors, whatever fails and dies
\* (framework.py 662-706, manager.py 94-107).
THEOREM LeaksCorrect == Spec => []NothingLeaks
<1>1. TypeOK /\ LifeInv => NothingLeaks
  <2> SUFFICES ASSUME TypeOK, LifeInv, NEW s \in Sessions, pc[s] # "cancelled"
               PROVE  /\ \A g \in Gateways : s \in live[g] =>
                           pc[s] \notin {"queued"} \cup Ended /\ s \in DOMAIN route /\ route[s] = g
                      /\ pc[s] \in Ended /\ s \in DOMAIN route => route[s] \in down
    BY DEF NothingLeaks
  <2> QED
    BY DEF LifeInv, RouteInv, MemoryInv, AtGateway, Ended
<1> QED
  BY <1>1, InitTypes, StepTypes, InitLife, StepLife, PTL DEF Spec

-----------------------------------------------------------------------------
(* Loads and routes.                                                       *)

LoadInv == LoadMatchesRoutes /\ IsFiniteSet(DOMAIN route)

LEMMA RoutedToFinite ==
  ASSUME IsFiniteSet(DOMAIN route), NEW g \in Gateways
  PROVE  IsFiniteSet(RoutedTo(g)) /\ Cardinality(RoutedTo(g)) \in Nat
<1>1. RoutedTo(g) \in SUBSET (DOMAIN route)
  BY DEF RoutedTo
<1> QED
  BY <1>1, FS_Subset, FS_CardinalityType

\* Booking a route and its load (manager.py 85-86).
LEMMA BookingKeepsLoads ==
  ASSUME TypeOK, LoadInv, NEW s \in Sessions, s \notin DOMAIN route, NEW g \in Gateways,
         route' = [t \in DOMAIN route \cup {s} |-> IF t = s THEN g ELSE route[t]],
         load' = [load EXCEPT ![g] = @ + 1]
  PROVE  LoadInv'
<1>1. RoutedTo(g)' = RoutedTo(g) \cup {s} /\ s \notin RoutedTo(g)
  BY DEF RoutedTo
<1>2. \A h \in Gateways \ {g} : RoutedTo(h)' = RoutedTo(h)
  BY DEF RoutedTo
<1>3. Cardinality(RoutedTo(g)') = Cardinality(RoutedTo(g)) + 1
  BY <1>1, RoutedToFinite, FS_AddElement DEF LoadInv
<1>4. load'[g] = load[g] + 1 /\ \A h \in Gateways \ {g} : load'[h] = load[h]
  BY DEF TypeOK, GatewayTypeOK
<1>5. \A h \in Gateways : load'[h] = Cardinality(RoutedTo(h)')
  BY <1>2, <1>3, <1>4 DEF LoadInv, LoadMatchesRoutes
<1>6. DOMAIN route' = DOMAIN route \cup {s}
  OBVIOUS
<1>7. IsFiniteSet(DOMAIN route')
  BY <1>6, FS_AddElement DEF LoadInv
<1> QED
  BY <1>5, <1>7 DEF LoadInv, LoadMatchesRoutes

\* Giving both up (manager.py 90-91, 98-99, 106-107).
LEMMA UnroutingKeepsLoads ==
  ASSUME TypeOK, LoadInv, NEW s \in Sessions, s \in DOMAIN route, Unroute(s)
  PROVE  LoadInv'
<1>1. PICK g \in Gateways : g = route[s]
  BY DEF TypeOK, GatewayTypeOK
<1>2. DOMAIN route' = DOMAIN route \ {s} /\ \A t \in DOMAIN route' : route'[t] = route[t]
  BY DEF Unroute
<1>3. RoutedTo(g)' = RoutedTo(g) \ {s} /\ s \in RoutedTo(g)
  BY <1>1, <1>2 DEF RoutedTo
<1>4. \A h \in Gateways \ {g} : RoutedTo(h)' = RoutedTo(h)
  BY <1>1, <1>2 DEF RoutedTo
<1>5. Cardinality(RoutedTo(g)') = Cardinality(RoutedTo(g)) - 1
  BY <1>1, <1>3, RoutedToFinite, FS_RemoveElement DEF LoadInv
<1>6. load'[g] = load[g] - 1 /\ \A h \in Gateways \ {g} : load'[h] = load[h]
  BY <1>1 DEF Unroute, TypeOK, GatewayTypeOK
<1>7. \A h \in Gateways : load'[h] = Cardinality(RoutedTo(h)')
  BY <1>4, <1>5, <1>6 DEF LoadInv, LoadMatchesRoutes
<1>8. IsFiniteSet(DOMAIN route')
  BY <1>2, FS_RemoveElement DEF LoadInv
<1> QED
  BY <1>7, <1>8 DEF LoadInv, LoadMatchesRoutes

\* The states a burst of creations is in.
Calm == {"queued", "creating", "running", "finalizing"}

\* A step books a session that has no route, gives up the route of one that
\* has one and thereby leaves the burst, or does neither.
LEMMA StepOfRoutes ==
  ASSUME TypeOK, LifeInv, NEW s \in Sessions, SessionSteps(s)
  PROVE  /\ \/ UNCHANGED <<load, route>>
            \/ CreateSession(s) /\ s \notin DOMAIN route
            \/ Unroute(s) /\ s \in DOMAIN route /\ pc'[s] \notin Calm
         /\ pc'[s] \in Calm => pc[s] \in Calm
<1>1. RouteInv(s)
  BY DEF LifeInv
<1>2. CASE StartSession(s)
  BY <1>1, <1>2 DEF StartSession, RouteInv, Calm
<1>3. CASE SessionFinalized(s) \/ SessionNotCreated(s) \/ SessionAborted(s)
  <2>1. pc'[s] \in {"returned", "scoring", "raised"} /\ pc[s] \in AtGateway
    BY <1>3, GotoMoves DEF SessionFinalized, SessionNotCreated, SessionAborted, AtGateway
  <2>2. UNCHANGED <<load, route>> \/ Unroute(s)
    BY <1>3 DEF SessionFinalized, SessionNotCreated, SessionAborted, Finalized,
         CreateRaised, Aborted, AbortRaised
  <2> QED
    BY <1>1, <2>1, <2>2 DEF RouteInv, Calm
<1>4. CASE SessionCancelled(s)
  <2>1. pc'[s] = "cancelled"
    BY <1>4, GotoMoves DEF SessionCancelled
  <2>2. UNCHANGED <<load, route>> \/ (Unroute(s) /\ pc[s] = "creating")
    BY <1>4 DEF SessionCancelled, CreateCancelled, gatewayVars
  <2> QED
    BY <1>1, <2>1, <2>2 DEF RouteInv, AtGateway, Calm
<1>5. CASE UnknownRunner(s) \/ SessionCreated(s) \/ RunnerReturned(s) \/ RunnerRaised(s)
           \/ FinalizeRaised(s) \/ Scored(s) \/ ScoringRaised(s) \/ RunnerLeaksCancel(s)
  <2>1. UNCHANGED <<load, route>>
    BY <1>5 DEF UnknownRunner, SessionCreated, RunnerReturned, RunnerRaised, FinalizeRaised,
         Scored, ScoringRaised, RunnerLeaksCancel, CreateReturned, FinalizeSession,
         AbortSession, gatewayVars
  <2>2. pc'[s] \in {"raised", "returned", "cancelled", "aborting"} \/ pc[s] \in Calm
    BY <1>5, GotoMoves DEF UnknownRunner, SessionCreated, RunnerReturned, RunnerRaised,
         FinalizeRaised, Scored, ScoringRaised, RunnerLeaksCancel, Calm
  <2> QED
    BY <2>1, <2>2 DEF Calm
<1>6. CASE ActorStep(s)
  BY <1>6 DEF ActorStep, ActorCreate, ActorFinalize, ActorAbort, Unreachable, sessionVars
<1> QED
  BY <1>2, <1>3, <1>4, <1>5, <1>6
     DEF SessionSteps, AdvanceSession, LeakCancel, ServeCall, SessionStep

LEMMA StepLoads ==
  ASSUME TypeOK, LifeInv, LoadInv, [Next]_vars
  PROVE  LoadInv'
<1>1. CASE UNCHANGED <<load, route>>
  BY <1>1 DEF LoadInv, LoadMatchesRoutes, RoutedTo
<1>2. ASSUME NEW s \in Sessions, SessionSteps(s)
      PROVE  LoadInv'
  <2>1. CASE CreateSession(s) /\ s \notin DOMAIN route
    BY <2>1, BookingKeepsLoads DEF CreateSession
  <2>2. CASE Unroute(s) /\ s \in DOMAIN route
    BY <2>2, UnroutingKeepsLoads
  <2> QED
    BY <1>1, <1>2, <2>1, <2>2, StepOfRoutes
<1>3. (\E s \in Sessions : SessionSteps(s)) \/ UNCHANGED <<load, route>>
  BY DEF Next, SessionSteps, AdvancePrompt, ConcludeBatch, Cancel, GatewayDies, Die, Done,
       vars, gatewayVars
<1> QED
  BY <1>1, <1>2, <1>3

LEMMA InitLoads ==
  ASSUME Init
  PROVE  LoadInv
<1>1. route = << >> /\ load = [g \in Gateways |-> 0]
  BY DEF Init, GatewayInit
<1>2. DOMAIN route = {} /\ \A g \in Gateways : RoutedTo(g) = {}
  BY <1>1 DEF RoutedTo
<1> QED
  BY <1>1, <1>2, FS_EmptySet DEF LoadInv, LoadMatchesRoutes

\* The load estimate of every gateway is the number of sessions routed to it,
\* through every failure and cancellation (manager.py 85-107).
THEOREM LoadCorrect == Spec => []LoadMatchesRoutes
<1>1. LoadInv => LoadMatchesRoutes
  BY DEF LoadInv
<1> QED
  BY <1>1, InitTypes, StepTypes, InitLife, StepLife, InitLoads, StepLoads, PTL DEF Spec

LEMMA StepBurst ==
  ASSUME TypeOK, LifeInv, LoadInv, LoadInv', BurstSpread, [Next]_vars
  PROVE  BurstSpread'
<1>1. CASE UNCHANGED <<pc, route>>
  BY <1>1 DEF BurstSpread, RoutedTo
<1>2. ASSUME NEW s \in Sessions, SessionSteps(s), \A t \in Sessions : pc'[t] \in Calm,
             NEW x \in Gateways, NEW y \in Gateways
      PROVE  Cardinality(RoutedTo(x)') <= Cardinality(RoutedTo(y)') + 1
  <2>1. \A t \in Sessions : pc[t] \in Calm
    BY <1>2, StepOfRoutes, OtherCoroutinesStay
  <2>2. \A g, h \in Gateways : load[g] <= load[h] + 1
    BY <2>1 DEF BurstSpread, Calm, LoadInv, LoadMatchesRoutes
  <2>3. load'[x] = Cardinality(RoutedTo(x)') /\ load'[y] = Cardinality(RoutedTo(y)')
    BY DEF LoadInv, LoadMatchesRoutes
  <2>4. CASE UNCHANGED <<load, route>>
    BY <2>2, <2>3, <2>4
  <2>5. CASE CreateSession(s)
    <3>1. PICK g \in Gateways : LeastLoaded(g) /\ load' = [load EXCEPT ![g] = @ + 1]
      BY <2>5 DEF CreateSession
    <3>2. \A h \in Gateways : load[h] \in Int /\ load[g] <= load[h]
      BY <3>1 DEF LeastLoaded, TypeOK, GatewayTypeOK
    <3>3. \A h \in Gateways : load'[h] = IF h = g THEN load[g] + 1 ELSE load[h]
      BY <3>1 DEF TypeOK, GatewayTypeOK
    <3> QED
      BY <2>2, <2>3, <3>2, <3>3
  <2> QED
    BY <1>2, <2>4, <2>5, StepOfRoutes
<1>3. (\E s \in Sessions : SessionSteps(s)) \/ UNCHANGED <<pc, route>>
  BY DEF Next, SessionSteps, AdvancePrompt, ConcludeBatch, Cancel, GatewayDies, Die, Done,
       vars, gatewayVars, sessionVars
<1> QED
  BY <1>1, <1>2, <1>3 DEF BurstSpread, Calm

\* A burst of sessions of any size spreads evenly over any number of gateways
\* (manager.py 79-86).
THEOREM BurstCorrect == Spec => []BurstSpread
<1>1. Init => BurstSpread
  <2> SUFFICES ASSUME Init, NEW g \in Gateways, NEW h \in Gateways
               PROVE  Cardinality(RoutedTo(g)) <= Cardinality(RoutedTo(h)) + 1
    BY DEF BurstSpread
  <2>1. load[g] = 0 /\ load[h] = 0
    BY DEF Init, GatewayInit
  <2> QED
    BY <2>1, InitLoads DEF LoadInv, LoadMatchesRoutes
<1> QED
  BY <1>1, InitTypes, StepTypes, InitLife, StepLife, InitLoads, StepLoads, StepBurst, PTL
     DEF Spec

-----------------------------------------------------------------------------
(* Records and tags.                                                       *)

\* What has been written stays whole, since an ended session stays as it is.
RecordInv ==
  /\ \A r \in records : pc[r[1]] = "returned" /\ RecordsOf(r[1]) \subseteq records
  /\ \A s \in written :
       pc[s] = "returned" /\ outputs[s] > 0 /\ RecordsOf(s) \subseteq records

\* A prompt is tagged at its end and not before, with the truth.
TagInv ==
  \A p \in Prompts :
    /\ tag[p] # "pending" => stage[p] \in Ended
    /\ stage[p] = "returned" => tag[p] # "pending"
    /\ tag[p] = "finished" => \E s \in written : s[1] = p
    /\ tag[p] = "failure" => \A s \in written : s[1] # p

\* A coroutine that ended neither moves nor changes what it returned.
LEMMA EndedStay ==
  ASSUME TypeOK, NEW s \in Sessions, SessionSteps(s), pc[s] = "returned"
  PROVE  pc' = pc /\ outputs' = outputs
<1>1. ~SessionStep(s)
  BY DEF SessionStep, UnknownRunner, StartSession, SessionCreated, SessionNotCreated,
       RunnerReturned, RunnerRaised, SessionFinalized, FinalizeRaised, SessionAborted,
       Scored, ScoringRaised
<1>2. ~SessionCancelled(s) /\ ~RunnerLeaksCancel(s)
  BY DEF SessionCancelled, RunnerLeaksCancel, Ended
<1> QED
  BY <1>1, <1>2 DEF SessionSteps, AdvanceSession, LeakCancel, ServeCall, ActorStep, sessionVars

LEMMA SessionKeepsRecords ==
  ASSUME TypeOK, RecordInv, NEW s \in Sessions, SessionSteps(s)
  PROVE  RecordInv' /\ UNCHANGED <<promptVars, batchVars>>
<1>1. UNCHANGED <<promptVars, batchVars>>
  BY SessionFrame
<1>2. \A t \in Sessions : pc[t] = "returned" => pc'[t] = pc[t] /\ outputs'[t] = outputs[t]
  BY EndedStay, OtherCoroutinesStay
<1>3. \A r \in records : r[1] \in Sessions
  BY DEF TypeOK
<1>4. written \subseteq Sessions
  BY DEF TypeOK
<1> QED
  BY <1>1, <1>2, <1>3, <1>4 DEF RecordInv, RecordsOf, promptVars

\* Everything a step of prompt p may do to the queue and to its own place.
LEMMA PromptEffect ==
  ASSUME TypeOK, NEW p \in Prompts, AdvancePrompt(p)
  PROVE  /\ stage[p] = "gathering" /\ UNCHANGED <<pc, outputs, batch, route, live>>
         /\ \A q \in Prompts \ {p} : stage'[q] = stage[q] /\ tag'[q] = tag[q]
         /\ \/ records' = records /\ written' = written
            \/ /\ records' = records \cup RecordsOf(Current(p))
               /\ pc[Current(p)] = "returned" /\ Current(p) \in Sessions
               /\ \/ written' = written
                  \/ written' = written \cup {Current(p)} /\ outputs[Current(p)] > 0
         /\ \/ stage'[p] = "gathering" /\ tag'[p] = tag[p]
            \/ /\ stage'[p] \in Ended /\ written' = written
               /\ tag'[p] \in {tag[p], Verdict(p)}
               /\ stage'[p] = "returned" => tag'[p] = Verdict(p)
<1>1. UNCHANGED <<pc, outputs, batch, route, live>>
  BY DEF AdvancePrompt, sessionVars, batchVars, gatewayVars
<1>2. cursor[p] <= RolloutN => Current(p) \in Sessions
  BY FrameworkAssumption DEF TypeOK, Current
<1>3. CASE CountFailed(p) \/ Propagate(p)
  BY <1>1, <1>3 DEF CountFailed, Propagate, Handling, Gathered, NextOutcome, TypeOK, Ended
<1>4. CASE Write(p) \/ WriteRaised(p)
  <2>1. /\ stage[p] = "gathering" /\ pc[Current(p)] = "returned" /\ Current(p) \in Sessions
        /\ outputs[Current(p)] > 0 /\ UNCHANGED <<stage, tag>>
    BY <1>2, <1>4 DEF Write, WriteRaised, Writing, Handling, Gathered, NextOutcome
  <2> QED
    BY <1>1, <1>4, <2>1 DEF Write, WriteRaised
<1>5. CASE TagPrompt(p) \/ TagRaised(p)
  BY <1>1, <1>5 DEF TagPrompt, TagRaised, AllHandled, TypeOK, Ended
<1>6. CASE PromptCancelled(p)
  <2>1. /\ stage[p] = "gathering" /\ stage'[p] = "cancelled" /\ written' = written
        /\ \A q \in Prompts \ {p} : stage'[q] = stage[q] /\ tag'[q] = tag[q]
        /\ tag'[p] \in {tag[p], Verdict(p)}
    BY <1>6 DEF PromptCancelled, Gathered, TypeOK
  <2>2. \/ records' = records
        \/ /\ records' = records \cup RecordsOf(Current(p))
           /\ pc[Current(p)] = "returned" /\ Current(p) \in Sessions
    BY <1>2, <1>6 DEF PromptCancelled
  <2> QED
    BY <1>1, <2>1, <2>2 DEF Ended
<1> QED
  BY <1>3, <1>4, <1>5, <1>6 DEF AdvancePrompt, PromptStep

LEMMA PromptKeepsRecords ==
  ASSUME TypeOK, RecordInv, NEW p \in Prompts, AdvancePrompt(p)
  PROVE  RecordInv'
<1>1. \A s \in Sessions : RecordsOf(s)' = RecordsOf(s)
  BY PromptEffect DEF RecordsOf
<1>2. pc' = pc /\ outputs' = outputs
  BY PromptEffect
<1>3. (\A r \in records : r[1] \in Sessions) /\ written \subseteq Sessions
  BY DEF TypeOK
<1>4. CASE records' = records /\ written' = written
  BY <1>1, <1>2, <1>3, <1>4 DEF RecordInv
<1>5. ASSUME records' = records \cup RecordsOf(Current(p)),
             pc[Current(p)] = "returned", Current(p) \in Sessions,
             written' = written \/ (written' = written \cup {Current(p)} /\ outputs[Current(p)] > 0)
      PROVE  RecordInv'
  <2>1. \A r \in RecordsOf(Current(p)) : r[1] = Current(p)
    BY DEF RecordsOf
  <2>2. \A r \in records' : pc[r[1]] = "returned" /\ RecordsOf(r[1]) \subseteq records'
                            /\ r[1] \in Sessions
    BY <1>3, <1>5, <2>1 DEF RecordInv
  <2>3. \A s \in written' : /\ pc[s] = "returned" /\ outputs[s] > 0 /\ s \in Sessions
                            /\ RecordsOf(s) \subseteq records'
    BY <1>3, <1>5 DEF RecordInv
  <2> QED
    BY <1>1, <1>2, <2>2, <2>3 DEF RecordInv
<1> QED
  BY <1>4, <1>5, PromptEffect

LEMMA StepRecords ==
  ASSUME TypeOK, RecordInv, [Next]_vars
  PROVE  RecordInv'
<1>1. CASE UNCHANGED <<sessionVars, promptVars>>
  BY <1>1 DEF RecordInv, RecordsOf, sessionVars, promptVars
<1> QED
  BY <1>1, SessionKeepsRecords, PromptKeepsRecords
     DEF Next, SessionSteps, ConcludeBatch, Cancel, GatewayDies, Done, vars

LEMMA InitRecords ==
  ASSUME Init
  PROVE  RecordInv
BY DEF Init, RecordInv

\* What the trainer can sample is whole and comes from sessions that are over
\* and that no gateway holds any more (framework.py 539-558, 697-709, 888-908).
THEOREM RecordsCorrect == Spec => []RecordsAreFinal
<1>1. TypeOK /\ LifeInv /\ RecordInv => RecordsAreFinal
  <2> SUFFICES ASSUME TypeOK, LifeInv, RecordInv, NEW r \in records
               PROVE  /\ RecordsOf(r[1]) \subseteq records
                      /\ pc[r[1]] = "returned" /\ r[1] \notin DOMAIN route
                      /\ \A g \in Gateways : r[1] \notin live[g]
    BY DEF RecordsAreFinal
  <2>1. r[1] \in Sessions /\ pc[r[1]] = "returned" /\ RecordsOf(r[1]) \subseteq records
    BY DEF TypeOK, RecordInv
  <2> QED
    BY <2>1 DEF LifeInv, RouteInv, MemoryInv, AtGateway
<1> QED
  BY <1>1, InitTypes, StepTypes, InitLife, StepLife, InitRecords, StepRecords, PTL DEF Spec

\* The verdict of a prompt agrees with what was written for it.
LEMMA VerdictIsTrue ==
  ASSUME TypeOK, NEW p \in Prompts
  PROVE  /\ Verdict(p) = "finished" => \E s \in written : s[1] = p
         /\ Verdict(p) = "failure" => \A s \in written : s[1] # p
         /\ Verdict(p) \in {"finished", "failure"}
<1>1. \A s \in written : s[1] = p => \E i \in 1..RolloutN : s = <<p, i>>
  BY FrameworkAssumption DEF TypeOK
<1> QED
  BY <1>1 DEF Verdict

LEMMA PromptKeepsTags ==
  ASSUME TypeOK, TagInv, NEW p \in Prompts, AdvancePrompt(p)
  PROVE  TagInv'
<1>1. ASSUME NEW q \in Prompts \ {p}
      PROVE  /\ tag'[q] = tag[q] /\ stage'[q] = stage[q]
             /\ (\E s \in written' : s[1] = q) <=> (\E s \in written : s[1] = q)
  <2>1. Current(p)[1] = p
    BY DEF Current
  <2> QED
    BY <2>1, PromptEffect
<1>2. stage[p] = "gathering" /\ tag[p] = "pending"
  BY PromptEffect DEF TagInv, TypeOK, Ended
<1>3. CASE stage'[p] = "gathering" /\ tag'[p] = tag[p]
  BY <1>1, <1>2, <1>3 DEF TagInv
<1>4. CASE /\ stage'[p] \in Ended /\ written' = written
           /\ tag'[p] \in {tag[p], Verdict(p)}
           /\ stage'[p] = "returned" => tag'[p] = Verdict(p)
  BY <1>1, <1>2, <1>4, VerdictIsTrue DEF TagInv
<1> QED
  BY <1>3, <1>4, PromptEffect

LEMMA StepTags ==
  ASSUME TypeOK, TagInv, [Next]_vars
  PROVE  TagInv'
<1>1. CASE UNCHANGED promptVars
  BY <1>1 DEF TagInv, promptVars
<1>2. (\E p \in Prompts : AdvancePrompt(p)) \/ UNCHANGED promptVars
  BY DEF Next, AdvanceSession, LeakCancel, ServeCall, ConcludeBatch, Cancel, GatewayDies,
       Done, vars
<1> QED
  BY <1>1, <1>2, PromptKeepsTags

LEMMA InitTags ==
  ASSUME Init
  PROVE  TagInv
BY DEF Init, TagInv, Ended

\* A tag tells the trainer the truth about the group (framework.py 560-565).
THEOREM TagsCorrect == Spec => []TagsAreTrue
<1>1. TypeOK /\ RecordInv /\ TagInv => TagsAreTrue
  BY DEF RecordInv, TagInv, TagsAreTrue
<1> QED
  BY <1>1, InitTypes, StepTypes, InitRecords, StepRecords, InitTags, StepTags, PTL DEF Spec

\* After its tag nothing of a prompt changes any more (framework.py 518-565).
THEOREM TagComesLast == Spec => TagIsLast
<1>1. ASSUME TypeOK, TagInv, [Next]_vars, NEW p \in Prompts, tag[p] # "pending"
      PROVE  /\ tag'[p] = tag[p]
             /\ {r \in records' : r[1][1] = p} = {r \in records : r[1][1] = p}
  <2>1. stage[p] # "gathering"
    BY <1>1 DEF TagInv, Ended
  <2>2. CASE UNCHANGED promptVars
    BY <2>2 DEF promptVars
  <2>3. ASSUME NEW q \in Prompts, AdvancePrompt(q)
        PROVE  /\ tag'[p] = tag[p]
               /\ {r \in records' : r[1][1] = p} = {r \in records : r[1][1] = p}
    <3>1. p # q
      BY <1>1, <2>1, <2>3, PromptEffect
    <3>2. tag'[p] = tag[p]
      BY <1>1, <2>3, <3>1, PromptEffect
    <3>3. records' = records \/ records' = records \cup RecordsOf(Current(q))
      BY <1>1, <2>3, PromptEffect
    <3>4. \A r \in RecordsOf(Current(q)) : r[1][1] = q
      BY DEF RecordsOf, Current
    <3> QED
      BY <3>1, <3>2, <3>3, <3>4
  <2> QED
    BY <1>1, <2>2, <2>3 DEF Next, AdvanceSession, LeakCancel, ServeCall, ConcludeBatch,
         Cancel, GatewayDies, Done, vars
<1>2. TypeOK /\ TagInv /\ [Next]_vars =>
        [\A p \in Prompts : tag[p] # "pending" =>
           /\ tag'[p] = tag[p]
           /\ {r \in records' : r[1][1] = p} = {r \in records : r[1][1] = p}]_vars
  BY <1>1
<1> QED
  BY <1>2, InitTypes, StepTypes, InitTags, StepTags, PTL DEF Spec, TagIsLast

-----------------------------------------------------------------------------
(* The verdict of the batch.                                               *)

BatchInv == VerdictIsSound /\ (batch \in Ended => \A p \in Prompts : stage[p] \in Ended)

LEMMA ConcludeIsSound ==
  ASSUME TypeOK, RecordInv, TagInv, ConcludeBatch
  PROVE  BatchInv'
<1>1. UNCHANGED <<stage, tag, records, written, outputs>>
  BY DEF ConcludeBatch, promptVars, sessionVars
<1>2. \A p \in Prompts : stage[p] \in Ended
  BY DEF ConcludeBatch, Conclude
<1>3. ASSUME batch' = "returned"
      PROVE  \E p \in Prompts : tag[p] = "finished" /\ \E r \in records : r[1][1] = p
  <2>1. PICK r \in records : r[1] \in written /\ stage[r[1][1]] = "returned"
    BY <1>3 DEF ConcludeBatch, Conclude, SuccessOutputs
  <2>2. r[1][1] \in Prompts
    BY FrameworkAssumption DEF TypeOK
  <2>3. tag[r[1][1]] = "finished"
    BY <2>1, <2>2 DEF TagInv, TypeOK
  <2> QED
    BY <2>2, <2>3
<1>4. ASSUME batch' = "raised", NEW p \in Prompts, stage[p] = "returned"
      PROVE  tag[p] = "failure"
  <2>1. SuccessOutputs = {}
    BY <1>4 DEF ConcludeBatch, Conclude
  <2>2. tag[p] \in {"finished", "failure"}
    BY <1>4 DEF TagInv, TypeOK
  <2>3. ASSUME tag[p] = "finished"
        PROVE  FALSE
    <3>1. PICK s \in written : s[1] = p
      BY <2>3 DEF TagInv
    <3>2. outputs[s] \in Nat /\ outputs[s] > 0 /\ RecordsOf(s) \subseteq records
      BY FrameworkAssumption DEF RecordInv, TypeOK
    <3>3. <<s, 1>> \in RecordsOf(s)
      BY <3>2 DEF RecordsOf
    <3>4. <<s, 1>> \in SuccessOutputs
      BY <1>4, <3>1, <3>2, <3>3 DEF SuccessOutputs
    <3> QED
      BY <2>1, <3>4
  <2> QED
    BY <2>2, <2>3
<1> QED
  BY <1>1, <1>2, <1>3, <1>4 DEF BatchInv, VerdictIsSound

LEMMA StepBatch ==
  ASSUME TypeOK, RecordInv, TagInv, BatchInv, [Next]_vars
  PROVE  BatchInv'
<1>1. CASE UNCHANGED <<promptVars, batch>>
  BY <1>1 DEF BatchInv, VerdictIsSound, promptVars
<1>2. ASSUME NEW p \in Prompts, AdvancePrompt(p)
      PROVE  BatchInv'
  <2>1. stage[p] \notin Ended /\ batch' = batch
    BY <1>2, PromptEffect DEF Ended
  <2>2. batch \notin Ended
    BY <2>1 DEF BatchInv
  <2> QED
    BY <2>1, <2>2 DEF BatchInv, VerdictIsSound, Ended
<1> QED
  BY <1>1, <1>2, ConcludeIsSound
     DEF Next, AdvanceSession, LeakCancel, ServeCall, Cancel, CancelBatch, GatewayDies,
         Done, vars, batchVars

\* generate_sequences returns only with something to train on and complains
\* only when no tagged prompt has anything (framework.py 423-427, 468-483).
THEOREM VerdictCorrect == Spec => []VerdictIsSound
<1>1. Init => BatchInv
  BY DEF Init, BatchInv, VerdictIsSound, Ended
<1>2. BatchInv => VerdictIsSound
  BY DEF BatchInv
<1> QED
  BY <1>1, <1>2, InitTypes, StepTypes, InitRecords, StepRecords, InitTags, StepTags,
     StepBatch, PTL DEF Spec
=============================================================================
