# Uni-Agent: a TLA+ development

This directory specifies the core of Uni-Agent (`src/uni_agent/`), the part that
turns agent conversations into training data, and the training loop above it
(`src/verl/verl/trainer/ppo/v1/`). It holds TLA+ modules translated
from the source, TLC configurations that check them on small instances, and
TLAPS proofs of the most important invariants for every instance. Line numbers
in comments refer to the file named beside them.

- [1. The system](#1-the-system): inventory of components
- [2. The modules](#2-the-modules) and how they correspond to the code
- [3. The runs](#3-the-runs), their bounds, fairness
- [4. The proofs](#4-the-proofs)
- [5. Where code and documentation disagree](#5-where-code-and-documentation-disagree)
- [6. What is not modelled](#6-what-is-not-modelled)
- [7. Plan](#7-plan)

## 1. The system

The **trainer** registers a batch of prompts in the **TransferQueue** and hands
them to the **agent framework** without waiting. For each prompt
it runs `rollout.n` **sessions**. A session lives in one of several **gateway
actors** (Ray actors with an HTTP server); the **gateway manager** in the driver
decides in which. An **agent runner** (a task with an agent and a sandbox) talks
to its session as if it were an OpenAI or Anthropic endpoint. The session passes
each request on to the inference backend and assembles what goes in and out into
token trajectories. When the runner is done the framework finalizes the session,
scores its trajectories and writes them into the TransferQueue; when all
sessions of a prompt have settled it tags the prompt. The trainer's **replay
buffer** polls the tags, evicts and refills groups, and samples the next batch.

| Component | State | Operations | Talks to |
|---|---|---|---|
| `GatewaySession` (`gateway/session/session.py`) | phase, active chains (message history, token buffer, boundary of the last assistant turn), closed chains, reservations, counters, reward info | `run_generation`, `set_reward_info`, `finalize`, `abort` | codec, inference backend; called by HTTP handlers and by the actor |
| `MessageCodec` (`gateway/session/codec.py`) | none of its own | `encode_full`, `encode_incremental`, `canonicalize`, decode | tokenizer |
| `_GatewayActor` (`gateway/gateway.py`) | table of live sessions, HTTP server | `create_session`, `finalize_session`, `abort_session`, request routes | sessions; called by the manager over Ray |
| `GatewayManager` (`gateway/manager.py`) | routes (session to actor), load of each actor | `create_session`, `finalize_session`, `abort_session`, `shutdown` | actors; called by the framework's coroutines on one event loop |
| `OpenAICompatibleAgentFramework` (`framework/framework.py`) | runner semaphores; a coroutine per batch, prompt and session | `generate_sequences` | manager, runners, reward workers, TransferQueue |
| Task runner (`framework/task_runner.py`) | none | build a task, run it, post the reward | task, session's reward URL |
| Sandboxes (`sandbox/`) | handle of the container or remote sandbox, startup semaphore | `start`, `stop`, `exec`, files, `__aenter__` with retry | providers |
| Shell, toolbox (`tools/shell.py`, `tools/base.py`) | command counter, tmux pane, files of each command | `start`, `run`, `poll`, `interrupt`, `close`; `call` | sandbox |
| ReAct agent (`agents/react/`) | transcript, budgets | `step`, `query` with retry | session (HTTP), toolbox |
| Replay buffer (`verl/.../v1/replay_buffer.py`) | refill credit, draining; the tags live in the TransferQueue | `sample` (synchronous; asynchronous with dropping or waiting) | TransferQueue; asks the trainer for refills |
| Trainer (`verl/.../v1/trainer_*.py`) | global step, dataloader, prompts in flight, checkpoints | `fit`, `step`, `_submit_batch`, `_save_checkpoint`, `_load_checkpoint`, `_reissue_inflight_prompts` | replay buffer, framework, TransferQueue, file system |
| Other agents, tasks, rewards (`agents/`, `tasks/`) | local | sequential programs around external ones | sandbox, session |
| Session logging (`logging/`) | registered ids, bounded queue, open files | `register`, `emit`, `unregister`, writer thread, shutdown, fork | file system |

**Hard behaviours.** Requests of one session overlap: the session's lock is
released while the backend generates, and chains are matched, rolled back,
reserved and closed around that gap, while the driver may finalize or abort and
clients may disconnect. The manager's bookkeeping surrounds remote calls that
fail, are cancelled, or go to dead actors. Three layers of coroutines run below
`asyncio.gather(return_exceptions=True)` with semaphores, best-effort aborts and
non-atomic queue writes. Sandboxes are created under timeouts that cancel a
creation which may succeed all the same; a shell command that timed out may
still own its pane; a request is retried that may have been answered. The
trainer decides on snapshots of tags that rollouts go on changing, must refill
exactly what it evicts, and may die and resume from a checkpoint at any point.
The log queue drops what it cannot hold. `PROJECT.json` lists each of these hazards at
its line, with the property that covers it or the reason why none does.

**What makes each component correct.**

- Session: a chain is worked on by one request; every generated token is
  trainable in exactly one trajectory or counted as dropped; a buffer's parallel
  arrays stay aligned and spell out the conversation the client sent; a rollback
  removes the last assistant turn and nothing else; lengths stay within
  capacity; a closed session is frozen; every request ends.
- Manager and actors: load counters equal routes; a burst spreads; no session
  stays in an actor's memory after its coroutine has returned or raised.
- Framework: what is in the queue is whole and final; tags are truthful and
  last; the verdict follows from the tags; the call ends.
- Sandbox: the body runs in an instance of its own that exists; an instance
  outlives its object only after a call that did not complete; no startup slot
  is lost; every entry ends.
- Shell: an exit code belongs to its command; after a timeout the pane is free
  and no stopped job remains.
- Agent: every tool call is answered, in order, by its own outcome; the tool has
  one tmux session; an episode ends; an answer the agent went on with stays in
  the training data, whatever became of the requests it gave up.
- Trainer and replay buffer: a prompt is trained once or evicted, through
  restarts; refills keep the sampler supplied; staleness is bounded;
  trajectories in the queue are accounted for; the training ends unless prompts
  are lost.
- Log (planned, section 7): what a session logs between register and unregister
  is written in order unless counted as dropped.

## 2. The modules

```
TurnLedger  <-- implemented by --  GatewaySession            GatewayManager
                                        |                          |
                                GatewaySessionProps         AgentFramework
                                |       |        |                 |
                 MCGatewaySession       |  GatewaySessionLemmas  AgentFrameworkProps
                                |       |        |                 |      |
                                |       |  GatewaySessionProofs    |  AgentFrameworkProofs
                                |       |        |                 |
                                |       |  GatewaySessionLedger  MCAgentFramework
                                |       |             |
             ReActAgent ----- AgentSession ---- AgentSessionProofs
                 |                  |
TmuxShell -- AgentShell     MCAgentSession         TransferQueue -- ReplayBuffer -- TrainLoop
                 |                                                                     |
          AgentShellProps                                                       TrainLoopProps
             |        |                                                            |      |
   MCAgentShell   AgentShellProofs                                       MCTrainLoop  TrainLoopProofs

SandboxLifecycle  <--  MCSandboxLifecycle, SandboxLifecycleProofs
```

A component's module holds its constants, state and actions; the `...Props`
module its properties (`SandboxLifecycle` and `TmuxShell` keep them at their
end); the `MC...` module the values of the runs; `...Lemmas`, `...Proofs` and
`GatewaySessionLedger` the proofs. Definitions named `Slip_...` stand beside the
definition they perturb: each is a plausible slip in the code (a forgotten
reset, a dropped guard), used by no specification; substituted for its original
it makes the property named in `PROJECT.json` fail, which shows that the
property notices.

### GatewaySession

One session and a set of client `Requests`. Each critical section of
`request_lock` is one action, because nothing else touches the state:

| Action | Code |
|---|---|
| `Prepare` = `RefuseClosed`, `StartChain`, `ContinueChain`, `RollbackChain`, ending in `Generate`, `CloseExhausted` or `Rejects` | first section of `run_generation`, `_prepare_generation_inputs`, `_select_chain`, `_close_length_exhausted_chain` |
| `Commit` | second section: the backend's answer is added to the buffer, the chain replaced or created, the reservation released |
| `Fail` | backend error, cancellation, session closed meanwhile |
| `Release` | the shielded release of the reservation in `finally` |
| `SetReward`, `Finalize`, `Abort` | the operations of that name |

`pc[r]` says where a request stands (`idle`, `generating`, `releasing`, or its
outcome), `encoded[r]` and `held[r]` are its locals across the gap. Chains are
chosen as in the code: not reserved, same tools, longest history that is a
prefix of the request (`Exact`) or, when rollback is enabled, that matches up to
the start of its last assistant turn (`Stale`); ties go by `updated_seq`.

Data is abstract: a message is a value and renders as one token, a generated
message as a text token and `Pad` up to its length, `GenPrompt` is the turn
separator with the generation prompt, and each token remembers which request
generated it. That ghost field is what lets `TrainableConservation` and
`BuffersAligned` speak about provenance. A hash of a message prefix is the
prefix. Media travel beside the tokens and are left out.

`TurnLedger` is the abstract specification: a ledger of answered turns with the
number of trainable tokens of each. Answering enters a turn and strikes out at
most one other, finalizing delivers exactly the ledger. `ImplementsTurnLedger`
in `GatewaySessionProps` gives the refinement mapping.

### GatewayManager and AgentFramework

`GatewayManager` has the operations of the manager and of the actors' session
tables, without a next-state relation of its own: who calls them, and in which
order, is the framework. A remote call is made (`CreateSession`,
`FinalizeSession`, `AbortSession` set `rpc[s]`), executed by the actor later
(`ActorCreate`, ...), and its reply handled later still (`CreateReturned`,
`Finalized`, ...). Cancelling the await of a creation undoes the booking but not
the call. An actor may die (`Die`); calls to it raise (`Unreachable`). A session
is in the actor's table or not: its life in between is `GatewaySession`.

`AgentFramework` composes it with the coroutines of one `generate_sequences`
call. `pc[s]` follows `_run_session` (queued at the semaphore, creating,
running, finalizing, aborting, scoring, and then returned, raised or cancelled);
`stage[p]` and `cursor[p]` follow `_run_prompt_sessions_to_tq`, which handles its
sessions' outcomes one after the other; `batch` follows `_run_batch_to_tq`.
`records` and `tag` are the TransferQueue; a put that raises may or may not have
taken effect. Runners, reward workers and the queue are outside and may raise at
any call. Cancelling the batch cancels every coroutine at its next step. An
inline runner may also leak the `CancelledError` of a dependency, as
`tools/base.py:334` says Modal does; a Ray task cannot (it arrives as an
ordinary exception).

Two levels of granularity keep this faithful to asyncio: what a coroutine does
between two awaits is one action, and what an actor does is an action of its
own.

### SandboxLifecycle

Several `Sandbox` objects of one event loop, each entered once, and the remote
side. `pc[s]` follows `__aenter__`, the body and `__aexit__`:

| Action | Code |
|---|---|
| `Enter`, `Acquire` | `__aenter__` waits for `_startup_slot`, first come, first served; `start()` makes its remote call |
| `Created`, `Ready`, `CreateRaised`, `NotReady`, `TimeOut` | the ways a `start()` ends: answered, alive (vefaas waits for that), raised with or without effect, not alive in time, `SANDBOX_STARTUP_TIMEOUT` |
| `CleanedUp`, `Retry` | the `stop()` of a failed attempt and the backoff, outside the slot |
| `Leave`, `Exited` | `__aexit__` and its `stop()`, which may fail |
| `CancelBody`, `Cancel` | `CancelledError`, once per object, wherever its task waits |
| `CreatedLate` | a creation that goes on although nobody awaits it |

The providers differ in when they learn of the instance (`Learn`: with the
answer; docker makes up a name but keeps it only then) and in when `stop()`
forgets it: before the kill (docker, cube), after it whatever came of it (modal,
openyuanrong), or only when it succeeded (vefaas). `handle[s]` is what the object
knows, `target[s]` what its running `stop()` took with it. The history variable
`lost` marks instances whose start or kill did not complete. They do leak, and
`LeaksAreLost` says that no others do. What is expected of a cancelled start is
not written down anywhere, so the model does not call it a flaw.

### TransferQueue, ReplayBuffer and TrainLoop

`TransferQueue` is the train partition between trainer and rollouts: a prompt's
`status` and `tagged` step, which prompts have trajectories (`stored`), and which
a rollout still works at (`rolling`). `AgentFramework` has what happens within
one rollout; here it stores, finishes, finishes with a uniform group, fails, or
is lost: `generate_sequences` raises, nobody awaits its result, and the prompt
stays pending for ever. Batches overlap freely.

`ReplayBuffer` is `sample`. A `Poll` reads all tags into `snap`; the decision
(`DecideAsync`, `DecideSync`, `DecideDapo`) is taken on that snapshot while
rollouts go on: evict and refill, sleep and poll again, or select the oldest
groups. `TrainLoop` is `fit` around it: start, warm-up, the steps with their
mini-batches, saving in two steps (`Save` writes the parts, `Commit` the tracker
file), clearing the trained batch, and `Restart` at any point, which restores
what the last complete checkpoint holds and issues again what was in flight.

`conf` is a record of configuration values, so that one run covers all ways of
sampling. A prompt is tagged "failure" when none of its sessions succeeded, as
`framework.py` 558 does, although the comment at `replay_buffer.py` 90, written
for verl's own rollouts, says at least one failed. Abstractions: a prompt is its row in the dataloader's stream (its uid
is new at each fetch); `gen_batch_size` and `max_inflight_gen_batches` are 1; one
epoch, no validation; all checkpoints are kept; status "running" is "pending";
selection looks at whole groups; a uniform group stands for what DAPO filters
out. Two facts that the model shows and the code does not mention: after a
restart the trajectories of the batch that had been trained when the checkpoint
was saved stay in the queue for good (`TrajectoriesAccounted` bounds them by
exactly those), and the warm-up batches are submitted once more by each resumed
job.

### ReActAgent with AgentShell and AgentSession

`ReActAgent` has the agent's state and steps without a next-state relation: the
start of its toolbox with retries, a request (`Post`) that is answered, failed or
refused, the tool calls of a turn one after the other (`CallReturns`,
`CallRaises`) with the budgets of turns and timeouts, and its end. What the
policy says and what a tool returns are parameters. It is composed twice.

`AgentShell` lets `TmuxShell` answer the calls of the tool "shell": a call types
a command (`ShellCommand`), goes on through the polls and the interrupt
(`ShellGoesOn`) and returns its result to the transcript (`ShellReturns`). A
retried start opens another tmux session; a start or kill that did not complete
is recorded in the history variable `lost`. Every exec of `run` may raise, and
the agent may be cancelled anywhere. A retry is `_start_tool` of
`tools/base.py`; a dependency's leaked `CancelledError` is among its failures.

`AgentSession` lets a `GatewaySession` answer the requests. The agent sends its
transcript; when the connection fails, or the gateway answers 429 or 5xx, it
sends the same again, while the gateway goes on with the first and may commit
it. A history that cannot be encoded and a raising backend are a 500, which is
repeated as well; a `ValueError` of the backend (400) and a closed session (409)
end the agent. When the agent has ended the task posts the reward and the framework
finalizes; an abort may come at any time. `agent = "other"` is any other agent:
arbitrary requests in any order. An answer reaches the agent at the moment it is
committed, or never: later losses are as if the connection had failed then.

The HTTP client has no total timeout (`ClientTimeout(total=None)`), so retries
come from connection errors and status codes. Three consequences of a lost answer
are visible in the model; the documentation does not speak about them, so no
property forbids them: an answer that arrives after the agent gave its request up makes its
trajectory the last one, whose score the framework broadcasts (`session.py` 228
says that the order is that of completion); while the agent's own chain is
reserved by the abandoned request, the repeated one may match an older chain and
end in a 500; and when that older chain has no room left, the repeated request
closes it for its length, which numbers it last, so that the score is that of a
conversation that ends in an earlier turn (`framework.py` 836 speaks of the
session's last interaction segment, which leaves open whether that is the last
one answered or the last one touched). `HeardAnswersSurvive` therefore excepts a
trajectory closed for its length.

### TmuxShell

One caller of `run`, the pane, and the files. `pc` follows `run` and
`interrupt`; `typed` holds what was typed into the terminal and not read yet; a
line is a command or `kill -KILL %+`. The caller's actions (`StartCommand`,
`Poll`, `GiveUp`, `CtrlC`, `PollInterrupted`, `CtrlZ`, `KillJob`, `PollKilled`,
`Close`) interleave with the pane's (`ReadCommand`, `ReadKillLine`, `Finish`,
`Swallow`). Who calls it is `AgentShell`. The pane is external: what bash does
with a line whose program is killed, suspended or ends by itself was observed with bash 5.2 on a
pseudo-terminal. What matters is how a program takes the two signals (`Kinds`).
Output is left out: it goes to files of the same name as the exit code's.

## 3. The runs

| Run | Question | Size |
|---|---|---|
| `session_safety` | Do the invariants of a session hold while four requests overlap? | 293,000 states, 30 s |
| `session_live` | Does what the agent heard survive its retries, does every request end, and does the session implement `TurnLedger`? The ReAct agent with five requests, or any other agent with three | 138,000 states, 85 s |
| `rollout_prompt` | Do routing, memory, records and tags of three sibling sessions stay consistent through failures, an actor's death and cancellation, and does the call end? | 157,000 states, 15 s |
| `rollout_batch` | Does a burst spread, does the verdict follow from the tags? Three prompts with different runners | 426,000 states, 40 s |
| `sandbox_entry` | Do slots, instances and handles stay consistent through timeouts, late answers, failing kills and cancellation, and does every entry end? | 336,000 states, 40 s |
| `shell_pane` | Is every tool call answered by its own outcome, is the pane free after a timeout, are sessions accounted for, does the episode end? | 452,000 states, 30 s |
| `train_loop` | Is every prompt trained once or evicted, is the sampler supplied, is staleness bounded, does the training end? Eight configurations, two faults or restarts | 600,000 states, 90 s |
| `doc_echo_rewrite`, `doc_empty_trajectory`, `doc_sibling_rollback`, `doc_leaked_cancel`, `doc_background_jobs` | Counterexamples to statements of the documentation (section 5) | seconds |

**Bounds.** A session's requests are one-shot, so four requests bound the
number of chains (four), of turns and of rollbacks. The interesting cases need
at most that many: two requests compete for a chain while a third continues it
or rolls a sibling back; a rewrite of a rewrite takes three. `Calls` offers a
conversation, its continuation, an echoed assistant message, rewrites of the
first and of the second answer, another tool list, and a history that does not
fit. `Capacity` 7 (8 in `session_live`) lets a chain of three turns fit and the
fourth overflow, so that closing, rejecting and dropping all occur. In
`session_live` the ReAct agent's requests are its attempts, so that `Requests`
also bounds them: with one retry (`MaxRetries`) five attempts make three turns
(`MaxSteps`) with two lost answers, and capacity 8 is the largest at which a
retry falls back on an older chain that has no room left (at 9 none does). Outputs have
length 1 and 2, so that a truncation inside a message shows. Requests are
interchangeable, so `session_safety` uses symmetry; `session_live` does not, as
symmetry is unsound for liveness.

In `rollout_prompt` three sessions on two gateways with a semaphore of two make
one wait, and put two on the same gateway; `MaxTrajectories` 2 is the least
with which a write can be partial; `MaxDown` 1 kills one of the two actors. In
`rollout_batch` every prompt has one session: several sessions per prompt and
several prompts at once were checked once (two by two, 8.8 million states, all
invariants hold) but do not fit a routine run. `MaxTrajectories` and `MaxDown`
are the only bounds inside a module; `down` could grow only to all gateways.
Counters of the session need no bound, as each request moves them once.

In `sandbox_entry` two objects compete for one slot, so that a slot that was not
given back starves the other; they are of the two providers that differ most
(docker knows last and forgets first, vefaas the other way round). `Attempts` 3
is the code's default: a late creation of the first attempt may come to its end
in the third. `shell_pane` types up to `MaxCommands` 3 commands (the shell's
only bound) in three turns: a server puts a job into the background, a second
command times out and is suspended and killed, a third meets whatever the second
left; four commands were checked once (2.8 million states). `TimeoutBudget` 2
lets two calls time out and the third end the episode in the middle of a turn.

In `train_loop`, `MaxFaults` 2 bounds restarts and failed, uniform and lost
prompts together, so that a fault can hit what an earlier one left behind: a
refill, a resumed job, a half-drained batch. `MaxRow` 12 bounds the rows fetched
and is not reached (10 gives the same states). One to three steps with batches of
one or two prompts are enough for each kind of step to meet each kind of leftover
of the step before; `saveFreq` 2 makes a crash lose more than a step.

**Deadlock** is checked in every run: a session that is closed with every
request answered, a batch that is over, an episode that is over and a training that is
over or failed stutter through a disjunct of their own. In `AgentSession` a
conversation may stop when the session is closed and the agent is done; whether
requests then remain unanswered is for `RequestAnswered` to find out.

**Fairness.** `GatewaySession`: weak fairness of each request's `Resume`
(the backend answers or raises: its client bounds the wait) and `Release` (the
shielded `finally` gets the lock, because the lock is free between the actions
and the event loop runs whatever is ready). Nothing forces a
request to arrive, the driver to finalize, or the backend to succeed.
`AgentFramework`: weak fairness of each coroutine's next step, of each actor's
handling of a call (or the failure of a call to a dead actor), and of the batch.
A runner is assumed to come to an end, returning or raising: agents bound their
steps and tasks their time themselves, the framework sets no timeout. Nothing
forces a cancellation, a death, or a leaked cancel.
`SandboxLifecycle`: weak fairness of taking a slot, of the end of a start (the
timeout sees to it), of the backoff, and of the end of each `stop()`. The last is
an assumption about the remote side: nothing in the code bounds a kill. No body
needs to end. As `Semaphore` wakes its waiters in order, weak fairness of
`Acquire` is enough.
`AgentSession`: as for the session; the agent itself need not go on.
`AgentShell`: weak fairness of the agent's steps (whatever it awaits, an exec, an
answer or a kill, comes to an end; polls, the clock and sleeps go on) and of bash
reading lines at its prompt; no program needs to end, and nothing forces the
policy to finish. The sleeps of `interrupt`
and the time up to a timeout are assumed to suffice for bash to read what was
typed (`Settled`); otherwise nothing is assumed about time.
`TrainLoop`: weak fairness of the trainer and of each rollout that has not been
lost; no fault and no restart has to happen. `TrainingEnds` exempts jobs that lost
prompts: one lost prompt stops a trainer that waits for those in flight, and more
than the warm-up batches stop one that drops. That is what the code does when
`generate_sequences` raises (`entry.py` 146), without a word in its
documentation about what should happen.

**Liveness** (`RequestAnswered`, `BatchEnds`, `EntryEnds`, `EpisodeEnds`,
`TrainingEnds`) is model-checked only.

## 4. The proofs

Every safety property of the passing runs, and every refinement they check, is
also a theorem.

`GatewaySessionProofs` (lemmas about sequences, buffers and chains in
`GatewaySessionLemmas`) proves, for any sets of requests and messages, any
lengths and any capacity satisfying `SessionAssumption`:

- `TypeCorrect`: `Spec => []TypeOK`. Inductive invariant `TypeInv`: `TypeOK`
  with `Shapes`: a rollback slices the parallel arrays at a stored boundary, so
  typing needs that the arrays are equally long and that the boundary lies
  inside the response, in chains at rest and in requests in flight.
- `ReservationsCorrect`: `Spec => []ReservationsExact`. `ReservationsExact`
  alone is not inductive: a fresh chain could receive the id of a chain that
  some request still holds. `ReservationInv` adds `IdsAllocated`: every chain
  id is below `next_chain_id`, so a fresh one overwrites nothing.
- `NoLostUpdate`: `Spec => HeldChainMovesOnlyForItsHolder`, an action property,
  from the same invariant: a step that changes chain `c` is by a request that
  holds `c`, or found `c` unreserved, or closes the session.
- `ClosedStaysClosed`: `Spec => ClosedIsFrozen`; every action that changes the
  session is guarded by `phase = "ACTIVE"`, the late commit included.
- `CapacityCorrect`: `Spec => []CapacityRespected`. `CapacityInv` follows the
  size of a buffer from preparation through generation, whose length is limited
  to the room left, to the commit; a rollback only shrinks.
- `NewestCorrect`: `Spec => AnsweredChainIsNewest`, an action property.
  `OrderInv`: no chain and no trajectory is numbered above the session's update
  counter, which a commit increments before it stamps its chain.
- `BuffersCorrect`, `ContextCorrect` and `BoundaryCorrect`: `[]BuffersAligned`,
  `[]ContextMatchesHistory` and `[]BoundaryDelimitsLastAssistant`. One inductive
  invariant, `TokenInv`, serves all three. `BufferSound` gives every output of a
  buffer as an interval of positions with its tokens, mask and owner; `Says` reads
  the message history off the tokens; `Delimits` puts the stored boundary at the
  beginning of the last interval. They hold of chains, of requests in flight
  (which write them back later) and of trajectories (which count their turns from
  them). A filtered sequence is defined by recursion, which cannot be reasoned
  about here; `Selects` describes it by the positions it picks and the rank of
  each, and turns are compared by counting.

`GatewaySessionLedger` proves, for any set of requests, finite or not:

- `ConservationCorrect`: `Spec => []TrainableConservation`. `LedgerInv`: a turn
  is whole or absent in every buffer (`Booked`), in one chain or trajectory at
  most (`OneHome`), and what a request in flight carries is what the chain it
  holds still has (`InFlight`, which needs `ReservationInv`), less the turn that a
  rollback cut off. That this is exactly one turn needs `TokenInv`. A step is then
  what it does to the set of turns that have a home: at most one leaves it, at
  most one enters it, or an abort empties it. `AccountsInv` draws the sums from that; `Total` is the cardinality of a set of
  units, so that no induction over the requests is needed.
- `LedgerImplemented`: `Spec => ImplementsTurnLedger`, the refinement: `Init`
  maps to the initial ledger, and each of those kinds of step to an action of
  `TurnLedger` or a stutter.

`AgentSessionProofs` proves, for any agent of `AgentSession`, any prompt and any
number of retries and turns:

- `HeardCorrect`: `ConversationSpec => []HeardAnswersSurvive`. The gateway's
  invariants are those above; `AgentInv` says where the agent stands and that the
  request it awaits carries its transcript. `HeardInv` relates the transcript
  to the chains: it begins with the history of every chain that ends in an answer
  the agent got (`HeardIsRepeated`), because it only grows and a commit stores
  what was sent; so such a chain is continued and never rolled back, and no
  request in flight is about to (`HeardIsSpared`). `HeardIsHeld`, `LastIsNewest`,
  `ClosedForLength` and `FinalIsLastHeard` carry this over to the trajectories
  and their order.
- `ConversationImplementsLedger`: `ConversationSpec => ImplementsTurnLedger`.

`AgentFrameworkProofs` proves every invariant and action property of the two
framework runs, for any prompts, sessions per prompt, gateways, runners and
limits satisfying `FrameworkAssumption`. The steps are grouped by what they touch
(a session's coroutine, an actor, a prompt, the batch); each group has a lemma on
its effect, and sessions it does not name are `Undisturbed`.

- `FrameworkTypeCorrect`: `Spec => []TypeOK`.
- `LeaksCorrect`: `Spec => []NothingLeaks`. `NothingLeaks` says where a session
  may be, not why; `LifeInv` adds what makes it inductive: the position of a
  coroutine determines its call in flight, its route and which actor may hold the
  session, an abort fails only at a dead actor, and a dead actor holds nothing.
- `LoadCorrect`: `Spec => []LoadMatchesRoutes`. `LoadInv` adds that the routes are
  finite; that a creation counts a new route needs `LifeInv` (a queued session
  has none).
- `BurstCorrect`: `Spec => []BurstSpread`, for bursts of any size, from `LoadInv`
  and the choice of a least loaded gateway.
- `RecordsCorrect`: `Spec => []RecordsAreFinal`. `RecordInv`: what was written
  came from coroutines that returned, which stay as they are.
- `TagsCorrect`: `Spec => []TagsAreTrue` and `TagComesLast`: `Spec => TagIsLast`,
  an action property. `TagInv`: a prompt is tagged at its end and never before.
- `VerdictCorrect`: `Spec => []VerdictIsSound`. `BatchInv` adds that all prompts
  ended when the batch did, so that no later tag contradicts its verdict.

`SandboxLifecycleProofs` proves the invariants of `sandbox_entry`, for any finite
set of objects, any providers, attempts and slots satisfying `SandboxAssumption`.
One inductive invariant `IInv` serves all four:

- `SandboxTypeCorrect`: `Spec => []TypeOK`, and `SlotsCorrect`:
  `Spec => []SlotsAccounted`: each action enters or leaves the set of starting
  objects by one and moves the semaphore by as much.
- `BodyCorrect`: `Spec => []BodyHasItsInstance` and `LeaksExplained`:
  `Spec => []LeaksAreLost`. `LeaksAreLost` does not see creations under way.
  `CreationInv` says whose they are: the current attempt's, or `lost`.
  `ObjectInv` says what an attempt has got at each place; `InstanceInv`, stronger
  than `LeaksAreLost`, says at which places an instance is held, so that the step
  after (a cleanup, a retry) cannot drop one that is not `lost`.

`TrainLoopProofs` proves the invariants of `train_loop`, for any number of rows
and faults and any configurations satisfying `ConfigurationAssumption`. Each step
is first brought down to what it does to the sets of prompts (`...Kind`, `Moves`),
so that an invariant is proved once for all steps that move prompts alike.

- `TrainLoopTypeCorrect`: `Spec => []TypeOK`.
- `EachPromptOnceCorrect`: `Spec => []EachPromptOnce`. After a restart it holds
  because it held for the checkpoint: `CheckpointInv` says of `latest`, and of the
  one being written, that it accounts for every prompt fetched up to then.
  `Coherent` says that between a poll and its decision a terminal prompt stays as
  it was in the snapshot, so that what is evicted or selected is what was seen.
- `TrajectoriesCorrect`: `Spec => []TrajectoriesAccounted`; `SavedInv` follows the
  orphans through saving, as the next checkpoint takes them over.
- `StalenessCorrect`: `Spec => []StalenessBounded`, from `DropInv`, `SyncInv` and
  `WaitInv`: once sampling was let go ahead, what is in flight is younger than the
  threshold, since it can grow older by one step before the next gate.
- `EnoughPromptsCorrect`: `Spec => []EnoughPrompts`, from `EnoughInv`, which counts
  the supply at every place of the loop and in every checkpoint, and for DAPO
  bounds what may still be evicted by the credit it will earn.

`AgentShellProofs` proves the invariants of `shell_pane`, for any number of
commands, any turns of the policy and any budgets.

- `EpisodeImplementsShell`: `EpisodeSpec => Spec`. An episode implements
  `TmuxShell`, so what holds of the shell under any caller holds in an episode.
- `ResultsCorrect`, `PaneCorrect`, `JobsCorrect`: `[]ResultIsOwn`, `[]PaneIsFree`
  and `[]NoStoppedJobs`. They speak about the pane when `run` has returned; the
  inductive `PaneInv` says what it is like at each place within: what may be
  typed and unread (`TypedInv`), which command can own the pane
  (`ForegroundInv`), which exit codes can exist (`CodesInv`: the current command
  is not suspended before `run` suspends it), and that a suspended job is the last
  one while the line that kills it is on its way (`JobsInv`).
- `EpisodeTypeCorrect`: `[]EpisodeTypeOK`, and `SessionsCorrect`:
  `[]SessionsAccounted`, from `AgentInv` (the budgets at each place) and
  `SessionInv` (each attempt to start opens one session at most).
- `TranscriptCorrect`: `[]TranscriptAnswered`. `TranscriptInv` adds where the
  current turn begins and that its answers so far are in place; every other turn
  is complete, so that appending an answer, or one for each skipped call,
  completes this one or leaves it open. `CommandsInv` adds that the shell is busy
  only in the call of the shell that the agent is making, and that the last
  command has no outcome until then; with `CodesInv` the outcome that a call
  returns is the one that was missing.

The assumptions are the named ones in `GatewaySession`, `AgentFramework`,
`SandboxLifecycle`, `TransferQueue`, `ReplayBuffer`, `TmuxShell`, `ReActAgent` and
`AgentShell` and the one in `AgentSession`; TLC evaluates them in the runs over
those modules. The one of `AgentSession` asks that the prompt is not empty and has
no assistant message in it: it is "the prompt in OpenAI chat form"
(`agents/base.py` 115), and every task of the repository builds it from system
and user messages. What is only model-checked:
liveness (`RequestAnswered`, `BatchEnds`, `EntryEnds`, `EpisodeEnds`,
`TrainingEnds`), which rests on fairness and `ENABLED`, and the violations of
section 5.

## 5. Where code and documentation disagree

Each is a run expected to end in a violation; the property states what the
documentation says.

1. `doc_echo_rewrite`: a rewrite of the newest answer after an echoed
   assistant message raises `ValueError` (`session.py:439`) instead of rolling
   back: the echo was rendered without the generation prompt that the rollback
   expects to cut.
2. `doc_empty_trajectory`: a chain rolled back twice and closed for its length
   becomes a trajectory without a single trainable token (`session.py:720` looks
   at the length of the prefix, not at its mask).
3. `doc_sibling_rollback`: while a chain is busy, a request that continues it
   matches its idle sibling up to the boundary and rolls the sibling's answer
   back, which nobody rewrote (`session.py:542`).
4. `doc_leaked_cancel`: a `CancelledError` leaked by one runner is re-raised in
   the middle of the outcomes and discards finished siblings
   (`framework.py:530`).
5. `doc_background_jobs`: Ctrl-C kills an ordinary program and the rest of its
   line with it, so no exit code is written; `interrupt` takes the command for
   alive and kills the current job, which is a background job of an earlier call
   (`shell.py:330`). The documentation says that background jobs survive between
   calls.

## 6. What is not modelled

- Token ids, tokenizer, tool-call parsing, images and videos, log-probability
  values, routed experts: data that no control decision but length depends on.
- The gateway's HTTP layer and the OpenAI and Anthropic adapters: stateless
  translation and error mapping.
- `GatewayManager.shutdown` and the servers' start and stop: nothing calls
  `shutdown`; gateways live as long as the driver.
- Overlapping batches within `AgentFramework`: a second batch shares manager and
  semaphores, and its sessions interact with the first's as those of two prompts
  do. That batches overlap at the TransferQueue is part of `TrainLoop`.
- Trainer: the arithmetic of training (advantages, losses, weights, balancing and
  padding of batches), validation, several epochs, the assembly of one step from
  several generation batches, and the removal of old checkpoints. With
  `max_actor_ckpt_to_keep` 1 the previous actor checkpoint is removed before the
  tracker file names the new one, so that a crash in between leaves nothing to
  resume from; the default keeps all.
- Score values, masking of unfinished episodes, tensor layout, trajectory
  dumps.
- Tasks, rewards, preprocessing, external agents: sequential programs around
  external ones.
- The rest of `src/verl/`, which is most of the repository: model engines, workers,
  kernels, algorithms and their recipes are numerical code without a protocol of
  their own, verl's own agent loops and older trainers are not what Uni-Agent's
  launchers run. The lines modelled here are therefore a small share of the
  repository's.
- Sandboxes: the data plane (exec, files, ports), the lifetime that modal,
  vefaas and openyuanrong give an instance (it ends leaks, late), a fixed docker
  `container_name` (a leaked container then blocks its successor), a startup
  limit that changes while the process runs.
- Shell: installing tmux, the native `SandboxShell`, capture and resize, programs
  that put the terminal into raw mode, a caller that is cancelled within `run`
  and then calls it again (the toolbox does not).
- Agent: token counts (an answer is cut short or not), argument parsing and
  validation (a call is made or fails with a format error), tools other than the
  shell, which keep no state between calls.
- Session logging: section 7.

## 7. Plan

Done: the session with its ledger, manager, actors, framework, sandbox
lifecycle, shell, the ReAct agent over shell and session, the training loop, and
their proofs.

1. `LogDispatch`: bounded queue, writer thread, drops, shutdown, fork. Logging is
   best-effort and nothing reads what it writes, so it comes last.
2. Abstract specifications: a pool of instances with an owner each, implemented
   by `SandboxLifecycle`; a queue of final groups, implemented by
   `AgentFramework` and used by `TransferQueue`, which would make the composition
   of the two formal.
3. Proofs: the refinements of item 2, and the formal composition of `AgentFramework` with
   `GatewaySession` (a session that `NothingLeaks` counts is one that ends).
