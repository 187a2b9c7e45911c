--------------------------- MODULE AgentFramework ---------------------------
(***************************************************************************)
(* One generate_sequences call of the agent framework                      *)
(* (src/uni_agent/framework/framework.py) on top of the gateway manager.   *)
(*                                                                         *)
(* Three layers of coroutines.  A session is created on a gateway, its     *)
(* agent runner runs, it is finalized (or aborted when the runner raised)  *)
(* and scored.  A prompt waits for its sessions, writes the trajectories   *)
(* of each into the TransferQueue, one session after the other, and tags   *)
(* itself.  The batch waits for its prompts and gives a verdict.           *)
(*                                                                         *)
(* Runner, scoring and queue are outside: they may raise at any call.  The *)
(* whole batch may be cancelled, and a runner may leak a CancelledError of *)
(* one of its dependencies (tools/base.py:334 says Modal does).            *)
(***************************************************************************)
EXTENDS GatewayManager, FiniteSets

CONSTANTS
  Prompts,          \* the uids of the batch
  RolloutN,         \* sessions per prompt
  Runners,          \* the names in runner_registry
  AgentName,        \* what each prompt asks for, perhaps an unknown name
  Cap,              \* max_concurrent_sessions of each runner; 0: no limit
  Selection,        \* trajectory_selection of each runner
  Inline,           \* the runners whose dispatch_mode is inline_async
  MaxTrajectories,  \* how many trajectories a session finalizes to, at most
  MaxDown           \* how many actors die, at most

VARIABLES
  pc,          \* where each session coroutine stands
  outputs,     \* how many trajectories it has in hand
  stage,       \* where each prompt coroutine stands
  cursor,      \* the session_index whose outcome it handles next
  written,     \* the sessions whose write returned
  records,     \* trajectory records in the TransferQueue: <<session, index>>
  tag,         \* the prompt records in the TransferQueue
  batch,       \* where generate_sequences stands
  cancelling   \* it was cancelled

sessionVars == <<pc, outputs>>
promptVars  == <<stage, cursor, written, records, tag>>
batchVars   == <<batch, cancelling>>
vars        == <<gatewayVars, sessionVars, promptVars, batchVars>>

ASSUME FrameworkAssumption ==
  /\ Sessions = Prompts \X (1..RolloutN)
  /\ RolloutN \in Nat \ {0} /\ GatewayCount \in Nat \ {0}
  /\ Cap \in [Runners -> Nat] /\ Selection \in [Runners -> {"all", "longest"}]
  /\ Inline \subseteq Runners
  /\ MaxTrajectories \in Nat /\ MaxDown \in Nat

Ended == {"returned", "raised", "cancelled"}

TypeOK ==
  /\ GatewayTypeOK
  /\ pc \in [Sessions -> {"queued", "creating", "running", "finalizing",
                          "aborting", "scoring"} \cup Ended]
  /\ outputs \in [Sessions -> 0..MaxTrajectories]
  /\ stage \in [Prompts -> {"gathering"} \cup Ended]
  /\ cursor \in [Prompts -> 1..(RolloutN + 1)]
  /\ written \subseteq Sessions
  /\ records \subseteq Sessions \X (1..MaxTrajectories)
  /\ tag \in [Prompts -> {"pending", "finished", "failure"}]
  /\ batch \in {"gathering"} \cup Ended
  /\ cancelling \in BOOLEAN

-----------------------------------------------------------------------------
(* A session: _run_session_with_concurrency_limit and _run_session.        *)

Goto(s, where) == pc' = [pc EXCEPT ![s] = where]

\* A single configured runner serves every prompt, whatever it asks for.
RunnerOf(s) ==
  IF Cardinality(Runners) = 1 THEN CHOOSE r \in Runners : TRUE ELSE AgentName[s[1]]

Known(s) == RunnerOf(s) \in Runners

Slip_Slots(r) ==                               \* an ended session keeps its slot
  {s \in Sessions : Known(s) /\ RunnerOf(s) = r /\ pc[s] # "queued"}

\* The sessions inside the runner's semaphore.
Slots(r) ==
  {s \in Sessions : Known(s) /\ RunnerOf(s) = r /\ pc[s] \notin {"queued"} \cup Ended}

Admitted(s) == Cap[RunnerOf(s)] = 0 \/ Cardinality(Slots(RunnerOf(s))) < Cap[RunnerOf(s)]

\* _select_session_trajectories
Selected(s, n) == IF Selection[RunnerOf(s)] = "longest" /\ n > 1 THEN 1 ELSE n

UnknownRunner(s) ==
  /\ pc[s] = "queued" /\ ~Known(s)
  /\ Goto(s, "raised") /\ UNCHANGED <<gatewayVars, outputs>>

StartSession(s) ==
  /\ pc[s] = "queued" /\ Known(s) /\ Admitted(s)
  /\ CreateSession(s)
  /\ Goto(s, "creating") /\ UNCHANGED outputs

SessionCreated(s) ==
  /\ pc[s] = "creating" /\ CreateReturned(s)
  /\ Goto(s, "running") /\ UNCHANGED outputs

\* create_session is called outside the try block: nothing to abort.
SessionNotCreated(s) ==
  /\ pc[s] = "creating" /\ CreateRaised(s)
  /\ Goto(s, "raised") /\ UNCHANGED outputs

RunnerReturned(s) ==
  /\ pc[s] = "running" /\ FinalizeSession(s)
  /\ Goto(s, "finalizing") /\ UNCHANGED outputs

Slip_RunnerRaised(s) ==                        \* does not abort
  /\ pc[s] = "running"
  /\ Goto(s, "raised") /\ UNCHANGED <<gatewayVars, outputs>>

RunnerRaised(s) ==
  /\ pc[s] = "running" /\ AbortSession(s)
  /\ Goto(s, "aborting") /\ UNCHANGED outputs

\* except Exception does not catch a CancelledError.  (One raised inside a Ray
\* task arrives as an ordinary exception.)
RunnerLeaksCancel(s) ==
  /\ pc[s] = "running" /\ RunnerOf(s) \in Inline
  /\ Goto(s, "cancelled") /\ UNCHANGED <<gatewayVars, outputs>>

\* A session without trajectories returns at once.
SessionFinalized(s) ==
  /\ pc[s] = "finalizing" /\ Finalized(s)
  /\ \E n \in 0..MaxTrajectories :
       /\ outputs' = [outputs EXCEPT ![s] = Selected(s, n)]
       /\ Goto(s, IF n = 0 THEN "returned" ELSE "scoring")

FinalizeRaised(s) ==
  /\ pc[s] = "finalizing" /\ Replied(s, "finalize", "error")
  /\ AbortSession(s)
  /\ Goto(s, "aborting") /\ UNCHANGED outputs

\* Whether the abort went through or not, the session ends with an exception.
SessionAborted(s) ==
  /\ pc[s] = "aborting" /\ (Aborted(s) \/ AbortRaised(s))
  /\ Goto(s, "raised") /\ UNCHANGED outputs

\* Scored by its reward_info or by a reward worker; the worker may raise.
Scored(s) ==
  /\ pc[s] = "scoring"
  /\ Goto(s, "returned") /\ UNCHANGED <<gatewayVars, outputs>>

ScoringRaised(s) ==
  /\ pc[s] = "scoring"
  /\ Goto(s, "raised")
  /\ outputs' = [outputs EXCEPT ![s] = 0] /\ UNCHANGED gatewayVars

\* The batch is cancelled while the session awaits something.
SessionCancelled(s) ==
  /\ cancelling /\ pc[s] \notin Ended
  /\ \/ pc[s] = "creating" /\ CreateCancelled(s)
     \/ pc[s] # "creating" /\ UNCHANGED gatewayVars
  /\ Goto(s, "cancelled")
  /\ outputs' = [outputs EXCEPT ![s] = 0]

SessionStep(s) ==
  \/ UnknownRunner(s) \/ StartSession(s) \/ SessionCreated(s) \/ SessionNotCreated(s)
  \/ RunnerReturned(s) \/ RunnerRaised(s)
  \/ SessionFinalized(s) \/ FinalizeRaised(s) \/ SessionAborted(s)
  \/ Scored(s) \/ ScoringRaised(s)

ActorStep(s) ==
  /\ ActorCreate(s) \/ ActorFinalize(s) \/ ActorAbort(s) \/ Unreachable(s)
  /\ UNCHANGED sessionVars

-----------------------------------------------------------------------------
(* A prompt: _run_prompt_sessions_to_tq, once its sessions have ended.     *)

RecordsOf(s) == {s} \X (1..outputs[s])

Gathered(p) ==
  stage[p] = "gathering" /\ \A i \in 1..RolloutN : pc[<<p, i>>] \in Ended

Current(p) == <<p, cursor[p]>>

Handling(p, outcome) ==
  /\ Gathered(p) /\ cursor[p] <= RolloutN /\ ~cancelling
  /\ pc[Current(p)] = outcome

Slip_NextOutcome(p) ==                         \* skips one
  cursor' = [cursor EXCEPT ![p] = @ + 2] /\ UNCHANGED <<stage, tag>>

NextOutcome(p) == cursor' = [cursor EXCEPT ![p] = @ + 1] /\ UNCHANGED <<stage, tag>>

\* It raised, or it has nothing to write.
CountFailed(p) ==
  /\ Handling(p, "raised") \/ (Handling(p, "returned") /\ outputs[Current(p)] = 0)
  /\ NextOutcome(p) /\ UNCHANGED <<written, records>>

\* A control-flow exception leaves the loop, whatever is still to be handled.
Propagate(p) ==
  /\ Handling(p, "cancelled")
  /\ stage' = [stage EXCEPT ![p] = "cancelled"]
  /\ UNCHANGED <<cursor, written, records, tag>>

Writing(p) == Handling(p, "returned") /\ outputs[Current(p)] > 0

Slip_Write(p) ==                               \* one record only
  /\ Writing(p)
  /\ records' = records \cup {<<Current(p), 1>>}
  /\ written' = written \cup {Current(p)}
  /\ NextOutcome(p)

Write(p) ==
  /\ Writing(p)
  /\ records' = records \cup RecordsOf(Current(p))
  /\ written' = written \cup {Current(p)}
  /\ NextOutcome(p)

\* The put raises, before or after it took effect.
WriteRaised(p) ==
  /\ Writing(p)
  /\ records' \in {records, records \cup RecordsOf(Current(p))}
  /\ NextOutcome(p) /\ UNCHANGED written

AllHandled(p) == stage[p] = "gathering" /\ cursor[p] = RolloutN + 1 /\ ~cancelling

Slip_Verdict(p) == "finished"                  \* whatever the writes did

Verdict(p) ==
  IF \E i \in 1..RolloutN : <<p, i>> \in written THEN "finished" ELSE "failure"

Slip_TagPrompt(p) ==                           \* eager, after the first write
  /\ stage[p] = "gathering" /\ \E i \in 1..RolloutN : <<p, i>> \in written
  /\ tag' = [tag EXCEPT ![p] = "finished"]
  /\ UNCHANGED <<stage, cursor, written, records>>

TagPrompt(p) ==
  /\ AllHandled(p)
  /\ tag' = [tag EXCEPT ![p] = Verdict(p)]
  /\ stage' = [stage EXCEPT ![p] = "returned"]
  /\ UNCHANGED <<cursor, written, records>>

\* The tag's put raises, before or after it took effect: so does the prompt.
TagRaised(p) ==
  /\ AllHandled(p)
  /\ tag' \in {tag, [tag EXCEPT ![p] = Verdict(p)]}
  /\ stage' = [stage EXCEPT ![p] = "raised"]
  /\ UNCHANGED <<cursor, written, records>>

\* Cancelled in gather, or at a put that may take effect all the same.
PromptCancelled(p) ==
  /\ cancelling /\ Gathered(p)
  /\ stage' = [stage EXCEPT ![p] = "cancelled"]
  /\ \/ UNCHANGED <<records, tag>>
     \/ /\ cursor[p] <= RolloutN /\ pc[Current(p)] = "returned"
        /\ records' = records \cup RecordsOf(Current(p)) /\ UNCHANGED tag
     \/ /\ cursor[p] = RolloutN + 1
        /\ tag' = [tag EXCEPT ![p] = Verdict(p)] /\ UNCHANGED records
  /\ UNCHANGED <<cursor, written>>

PromptStep(p) ==
  CountFailed(p) \/ Propagate(p) \/ Write(p) \/ WriteRaised(p)
  \/ TagPrompt(p) \/ TagRaised(p)

-----------------------------------------------------------------------------
(* The batch: _run_batch_to_tq and generate_sequences.                     *)

Slip_SuccessOutputs == records                 \* also those of failed writes

\* num_success_outputs counts the prompts that returned.
SuccessOutputs ==
  {r \in records : r[1] \in written /\ stage[r[1][1]] = "returned"}

Conclude ==
  /\ batch = "gathering" /\ \A p \in Prompts : stage[p] \in Ended
  /\ batch' = IF cancelling \/ \E p \in Prompts : stage[p] = "cancelled" THEN "cancelled"
              ELSE IF SuccessOutputs = {} THEN "raised" ELSE "returned"
  /\ UNCHANGED cancelling

CancelBatch ==
  /\ batch = "gathering" /\ ~cancelling
  /\ cancelling' = TRUE /\ UNCHANGED batch

-----------------------------------------------------------------------------
Init ==
  /\ GatewayInit
  /\ pc = [s \in Sessions |-> "queued"] /\ outputs = [s \in Sessions |-> 0]
  /\ stage = [p \in Prompts |-> "gathering"] /\ cursor = [p \in Prompts |-> 1]
  /\ written = {} /\ records = {} /\ tag = [p \in Prompts |-> "pending"]
  /\ batch = "gathering" /\ cancelling = FALSE

AdvanceSession(s) ==
  /\ (~cancelling /\ SessionStep(s)) \/ SessionCancelled(s)
  /\ UNCHANGED <<promptVars, batchVars>>

LeakCancel(s) ==
  /\ ~cancelling /\ RunnerLeaksCancel(s)
  /\ UNCHANGED <<promptVars, batchVars>>

ServeCall(s) == ActorStep(s) /\ UNCHANGED <<promptVars, batchVars>>

AdvancePrompt(p) ==
  /\ PromptStep(p) \/ PromptCancelled(p)
  /\ UNCHANGED <<gatewayVars, sessionVars, batchVars>>

ConcludeBatch == Conclude /\ UNCHANGED <<gatewayVars, sessionVars, promptVars>>

Cancel == CancelBatch /\ UNCHANGED <<gatewayVars, sessionVars, promptVars>>

GatewayDies(g) ==
  /\ Cardinality(down) < MaxDown /\ Die(g)
  /\ UNCHANGED <<sessionVars, promptVars, batchVars>>

Done ==
  /\ batch \in Ended /\ \A s \in Sessions : rpc[s].op = "none" \/ rpc[s].reply # "none"
  /\ UNCHANGED vars

Next ==
  \/ \E s \in Sessions : AdvanceSession(s) \/ LeakCancel(s) \/ ServeCall(s)
  \/ \E p \in Prompts : AdvancePrompt(p)
  \/ ConcludeBatch \/ Cancel
  \/ \E g \in Gateways : GatewayDies(g)
  \/ Done

Spec == Init /\ [][Next]_vars

\* The event loop runs its coroutines, actors serve their calls, a call to a
\* dead actor raises, and a runner comes to an end: tasks and agents bound
\* their steps and their time themselves, the framework does not.
Fairness ==
  /\ \A s \in Sessions : WF_vars(AdvanceSession(s)) /\ WF_vars(ServeCall(s))
  /\ \A p \in Prompts : WF_vars(AdvancePrompt(p))
  /\ WF_vars(ConcludeBatch)

FairSpec == Spec /\ Fairness
=============================================================================
