------------------------- MODULE AgentFrameworkProps -------------------------
(***************************************************************************)
(* What the agent framework and the gateway manager promise to each other  *)
(* and to the trainer (the specification is AgentFramework).               *)
(***************************************************************************)
EXTENDS AgentFramework

-----------------------------------------------------------------------------
(* Routing.                                                                *)

RoutedTo(g) == {s \in DOMAIN route : route[s] = g}

\* The load estimate of each gateway is the number of sessions routed to it,
\* through failed and cancelled creations, dead actors and failed aborts
\* (manager.py 86-107): otherwise new sessions go to the wrong gateway for
\* ever, nothing recomputes the counters.
LoadMatchesRoutes == \A g \in Gateways : load[g] = Cardinality(RoutedTo(g))

\* A burst of creations spreads evenly although each awaits its actor
\* (manager.py 79-85): until a session goes, loads differ by one at most.
BurstSpread ==
  (\A s \in Sessions : pc[s] \in {"queued", "creating", "running", "finalizing"}) =>
    \A g, h \in Gateways : Cardinality(RoutedTo(g)) <= Cardinality(RoutedTo(h)) + 1

\* A session stays in an actor's memory only while its coroutine is at work on
\* it, and at the actor the manager routes to; once the coroutine returned or
\* raised, nothing of it is left but the route to an actor that died
\* (framework.py 662-706, manager.py 94-107).  Only cancellation breaks this.
NothingLeaks ==
  \A s \in Sessions : pc[s] # "cancelled" =>
    /\ \A g \in Gateways : s \in live[g] =>
         pc[s] \notin {"queued"} \cup Ended /\ s \in DOMAIN route /\ route[s] = g
    /\ pc[s] \in Ended /\ s \in DOMAIN route => route[s] \in down

-----------------------------------------------------------------------------
(* What the trainer finds in the TransferQueue.                            *)

\* Records come whole, and from sessions that no gateway holds any more: no
\* later model call can change what is trained on (framework.py 697-709,
\* 539-558, 888-908).
RecordsAreFinal ==
  \A r \in records :
    /\ RecordsOf(r[1]) \subseteq records
    /\ pc[r[1]] = "returned" /\ r[1] \notin DOMAIN route
    /\ \A g \in Gateways : r[1] \notin live[g]

\* The tag tells the truth: "finished" only when a session's trajectories are
\* all there, "failure" only when no write of the prompt returned
\* (framework.py 560-565).
TagsAreTrue ==
  \A p \in Prompts :
    LET sound == {s \in written : s[1] = p}
    IN  /\ \A s \in sound : outputs[s] > 0 /\ RecordsOf(s) \subseteq records
        /\ tag[p] = "finished" => sound # {}
        /\ tag[p] = "failure" => sound = {}

\* A tag is the last word on its prompt: the trainer that sees it has all the
\* records there will be (framework.py 518-565).
TagIsLast ==
  [][\A p \in Prompts : tag[p] # "pending" =>
       /\ tag'[p] = tag[p]
       /\ {r \in records' : r[1][1] = p} = {r \in records : r[1][1] = p}]_vars

\* The batch returns only when some prompt is finished, and raises "All
\* rollouts failed" only when no prompt that got its tag is
\* (framework.py 418-427, 460-483).
VerdictIsSound ==
  /\ batch = "returned" =>
       \E p \in Prompts : tag[p] = "finished" /\ \E r \in records : r[1][1] = p
  /\ batch = "raised" =>
       \A p \in Prompts : stage[p] = "returned" => tag[p] = "failure"

-----------------------------------------------------------------------------
(* Liveness.                                                               *)

\* Every call of generate_sequences ends, every session that is waiting for
\* its runner's semaphore gets its turn, and every prompt of a batch that
\* returns is tagged or raised (framework.py 384-633).
BatchEnds == <>[](batch \in Ended /\ \A s \in Sessions : pc[s] \in Ended)

-----------------------------------------------------------------------------
(* What the documentation says and the code does not do.                   *)

\* docs/source/concepts/gateway-and-trajectories.md:138: one failed session
\* does not discard successful sibling sessions.  Here: unless the batch was
\* cancelled, the outcome of every session is handled before the verdict.
SiblingsSurvive ==
  batch \in Ended /\ ~cancelling =>
    \A s \in Sessions : pc[s] = "returned" /\ outputs[s] > 0 => cursor[s[1]] > s[2]
=============================================================================
