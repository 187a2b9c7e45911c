--------------------------- MODULE GatewayManager ---------------------------
(***************************************************************************)
(* Session routing (src/uni_agent/gateway/manager.py) and the session      *)
(* tables of the gateway actors (src/uni_agent/gateway/gateway.py).        *)
(*                                                                         *)
(* The manager lives in the driver's event loop: what it does between two  *)
(* awaits is one action.  Each of its operations awaits one remote call,   *)
(* which an actor executes later, and whose reply is handled later still.  *)
(* An await can be cancelled; the actor executes the call all the same.    *)
(* An actor can die, and every call to it then raises.  Nothing restarts   *)
(* it.  The life of a session inside its actor is GatewaySession; here it  *)
(* is in the actor's table or not.                                         *)
(*                                                                         *)
(* These are the operations; the program that calls them is AgentFramework.*)
(* Session ids hold a fresh uuid4, so that no id is created twice.         *)
(***************************************************************************)
EXTENDS Integers

CONSTANTS Sessions, GatewayCount

VARIABLES load,   \* active_sessions_per_gateway
          route,  \* _session_to_gateway_index, a partial function
          live,   \* the sessions in the memory of each actor
          down,   \* the actors that died
          rpc     \* the remote call made for each session, and its reply

managerVars == <<load, route>>
gatewayVars == <<load, route, live, down, rpc>>

Gateways == 1..GatewayCount

NoCall == [op |-> "none", gateway |-> 0, reply |-> "none"]

GatewayTypeOK ==
  /\ load \in [Gateways -> Int]
  /\ DOMAIN route \subseteq Sessions
  /\ \A s \in DOMAIN route : route[s] \in Gateways
  /\ live \in [Gateways -> SUBSET Sessions]
  /\ down \subseteq Gateways
  /\ rpc \in [Sessions -> [op : {"none", "create", "finalize", "abort"},
                           gateway : {0} \cup Gateways,
                           reply : {"none", "ok", "error"}]]

GatewayInit ==
  /\ load = [g \in Gateways |-> 0] /\ route = << >>
  /\ live = [g \in Gateways |-> {}] /\ down = {}
  /\ rpc = [s \in Sessions |-> NoCall]

-----------------------------------------------------------------------------
(* GatewayManager.                                                         *)

Slip_LeastLoaded(g) == g = 1                   \* a stale reading of the loads

\* _select_gateway_index: g is the first of the least loaded.
LeastLoaded(g) ==
  \A h \in Gateways : load[g] < load[h] \/ (load[g] = load[h] /\ g <= h)

Call(s, op, g) ==
  rpc' = [rpc EXCEPT ![s] = [op |-> op, gateway |-> g, reply |-> "none"]]

Replied(s, op, reply) == rpc[s].op = op /\ rpc[s].reply = reply

HangUp(s) == rpc' = [rpc EXCEPT ![s] = NoCall]

Slip_Unroute(s) ==                             \* forgets the counter
  /\ route' = [t \in DOMAIN route \ {s} |-> route[t]]
  /\ UNCHANGED load

Unroute(s) ==
  /\ route' = [t \in DOMAIN route \ {s} |-> route[t]]
  /\ load' = [load EXCEPT ![route[s]] = @ - 1]

\* Route and counter are set before the await, so that a burst spreads.
CreateSession(s) ==
  \E g \in Gateways :
    /\ LeastLoaded(g)
    /\ route' = [t \in DOMAIN route \cup {s} |-> IF t = s THEN g ELSE route[t]]
    /\ load' = [load EXCEPT ![g] = @ + 1]
    /\ Call(s, "create", g)
    /\ UNCHANGED <<live, down>>

CreateReturned(s) ==
  /\ Replied(s, "create", "ok")
  /\ HangUp(s) /\ UNCHANGED <<load, route, live, down>>

CreateRaised(s) ==
  /\ Replied(s, "create", "error")
  /\ Unroute(s) /\ HangUp(s) /\ UNCHANGED <<live, down>>

\* The await is cancelled: the route goes, the call stays.
CreateCancelled(s) ==
  /\ rpc[s].op = "create"
  /\ Unroute(s) /\ UNCHANGED <<live, down, rpc>>

FinalizeSession(s) ==
  /\ s \in DOMAIN route
  /\ Call(s, "finalize", route[s]) /\ UNCHANGED <<load, route, live, down>>

Finalized(s) ==
  /\ Replied(s, "finalize", "ok")
  /\ Unroute(s) /\ HangUp(s) /\ UNCHANGED <<live, down>>

AbortSession(s) ==
  /\ s \in DOMAIN route
  /\ Call(s, "abort", route[s]) /\ UNCHANGED <<load, route, live, down>>

Aborted(s) ==
  /\ Replied(s, "abort", "ok")
  /\ Unroute(s) /\ HangUp(s) /\ UNCHANGED <<live, down>>

\* The remote abort raised: the route and the counter stay.
AbortRaised(s) ==
  /\ Replied(s, "abort", "error")
  /\ HangUp(s) /\ UNCHANGED <<load, route, live, down>>

-----------------------------------------------------------------------------
(* GatewayActor: execute a call.  Only create adds a session to the table; *)
(* finalize needs it there (KeyError), abort does not.                     *)

Pending(s, op) ==
  Replied(s, op, "none") /\ op # "none" /\ rpc[s].gateway \notin down

Reply(s, reply) == rpc' = [rpc EXCEPT ![s].reply = reply]

ActorCreate(s) ==
  /\ Pending(s, "create")
  /\ live' = [live EXCEPT ![rpc[s].gateway] = @ \cup {s}]
  /\ Reply(s, "ok") /\ UNCHANGED <<load, route, down>>

ActorFinalize(s) ==
  /\ Pending(s, "finalize")
  /\ live' = [live EXCEPT ![rpc[s].gateway] = @ \ {s}]
  /\ Reply(s, IF s \in live[rpc[s].gateway] THEN "ok" ELSE "error")
  /\ UNCHANGED <<load, route, down>>

Slip_ActorAbort(s) ==                          \* keeps the session
  /\ Pending(s, "abort")
  /\ Reply(s, "ok") /\ UNCHANGED <<load, route, live, down>>

ActorAbort(s) ==
  /\ Pending(s, "abort")
  /\ live' = [live EXCEPT ![rpc[s].gateway] = @ \ {s}]
  /\ Reply(s, "ok") /\ UNCHANGED <<load, route, down>>

\* A call to an actor that died raises.
Unreachable(s) ==
  /\ rpc[s].op # "none" /\ rpc[s].reply = "none" /\ rpc[s].gateway \in down
  /\ Reply(s, "error") /\ UNCHANGED <<load, route, live, down>>

\* An actor dies with its sessions.
Die(g) ==
  /\ g \notin down
  /\ down' = down \cup {g}
  /\ live' = [live EXCEPT ![g] = {}]
  /\ UNCHANGED <<load, route, rpc>>
=============================================================================
