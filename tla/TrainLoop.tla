----------------------------- MODULE TrainLoop -----------------------------
(***************************************************************************)
(* The trainer: PPOTrainer.fit, step, _save_checkpoint, _load_checkpoint   *)
(* and _reissue_inflight_prompts of verl/trainer/ppo/v1/trainer_base.py,   *)
(* over the replay buffer and the rollouts.                                *)
(*                                                                         *)
(* A crash takes the whole job: the weights, the dataloader and the queue  *)
(* come back from the checkpoint that latest_checkpointed_iteration.txt    *)
(* names, or start afresh.  The synchronous trainer does not save its      *)
(* queue.  One epoch, and validation is left out.                          *)
(***************************************************************************)
EXTENDS ReplayBuffer

VARIABLES
  warm,      \* warm-up batches submitted
  mini,      \* local_trigger_step
  trained,   \* the prompts that the weights have learnt from
  saving,    \* the checkpoint being written
  latest     \* the checkpoint that the tracker file names

trainVars == <<warm, mini, trained, saving, latest>>

vars == <<step, tqVars, faults, conf, pc, snap, credit, draining, batch, evicted,
          trainVars>>

Checkpoint == [step : Nat, cursor : 1..(MaxRow + 1), trained : SUBSET Rows,
               status : [Rows -> Status], tagged : [Rows -> Nat],
               stored : SUBSET Rows, evicted : SUBSET Rows]

\* Training from scratch is like resuming from this one.
Scratch == [step |-> 0, cursor |-> 1, trained |-> {}, status |-> NoSnapshot,
            tagged |-> [r \in Rows |-> 0], stored |-> {}, evicted |-> {}]

Places == {"start", "warmup", "next", "poll", "decide", "train", "save", "commit",
           "end", "over", "failed"}

TypeOK ==
  /\ TransferQueueTypeOK /\ ReplayBufferTypeOK
  /\ pc \in Places /\ warm \in 0..conf.warmup /\ mini \in 0..conf.minis
  /\ trained \subseteq Rows /\ saving \in Checkpoint /\ latest \in Checkpoint

-----------------------------------------------------------------------------
\* _reissue_inflight_prompts: what the checkpoint left pending starts anew.
Reissue ==
  /\ rolling' = InFlight /\ stored' = stored \ InFlight
  /\ tagged' = [r \in Rows |-> IF r \in InFlight THEN step + 1 ELSE tagged[r]]

\* fit(), up to on_train_begin.
Start ==
  /\ pc = "start" /\ step' = step + 1 /\ Reissue /\ pc' = "warmup"
  /\ UNCHANGED <<cursor, status, faults, snap, credit, draining, batch, evicted, trainVars>>

\* on_train_begin of the asynchronous trainers.
WarmUp ==
  /\ pc = "warmup"
  /\ IF warm = conf.warmup
     THEN pc' = "next" /\ UNCHANGED <<tqVars, warm>>
     ELSE Submit(conf.batch) /\ warm' = warm + 1 /\ UNCHANGED pc
  /\ UNCHANGED <<step, faults, snap, credit, draining, batch, evicted, mini, trained,
                 saving, latest>>

NewSample == credit' = 0 /\ draining' = FALSE

BeginStep ==
  /\ pc = "next" /\ step <= conf.steps
  /\ Submit(conf.batch) /\ mini' = 0 /\ NewSample /\ pc' = "poll"
  /\ UNCHANGED <<step, faults, snap, batch, evicted, warm, trained, saving, latest>>

\* The loop is over.
EndTraining ==
  /\ pc = "next" /\ step > conf.steps /\ pc' = "over"
  /\ UNCHANGED <<step, tqVars, faults, snap, credit, draining, batch, evicted, trainVars>>

Due == step % conf.saveFreq = 0 \/ step >= conf.steps

\* The rest of _step_once.
Train ==
  /\ pc = "train" /\ trained' = trained \cup batch /\ mini' = mini + 1
  /\ pc' = IF mini + 1 < conf.minis THEN "poll" ELSE IF Due THEN "save" ELSE "end"
  /\ NewSample
  /\ UNCHANGED <<step, tqVars, faults, snap, batch, evicted, warm, saving, latest>>

Slip_Snapshot ==                                \* the dataloader is not saved
  [step |-> step, cursor |-> latest.cursor, trained |-> trained,
   status |-> IF Sync THEN NoSnapshot ELSE status,
   tagged |-> [r \in Rows |-> IF Sync \/ r \notin Tracked THEN 0 ELSE tagged[r]],
   stored |-> IF Sync THEN {} ELSE stored, evicted |-> evicted]

\* The trajectories of the step's batch are still in the queue.
Snapshot ==
  [step |-> step, cursor |-> cursor, trained |-> trained,
   status |-> IF Sync THEN NoSnapshot ELSE status,
   tagged |-> [r \in Rows |-> IF Sync \/ r \notin Tracked THEN 0 ELSE tagged[r]],
   stored |-> IF Sync THEN {} ELSE stored, evicted |-> evicted]

\* _save_checkpoint writes its parts one after the other.  Only the rollouts
\* go on meanwhile, and the queue is the last part.
Save ==
  /\ pc = "save" /\ saving' = Snapshot /\ pc' = "commit"
  /\ UNCHANGED <<step, tqVars, faults, snap, credit, draining, batch, evicted, warm,
                 mini, trained, latest>>

\* It writes the tracker file.
Commit ==
  /\ pc = "commit" /\ latest' = saving /\ saving' = Scratch /\ pc' = "end"
  /\ UNCHANGED <<step, tqVars, faults, snap, credit, draining, batch, evicted, warm,
                 mini, trained>>

Slip_Cleared == stored                          \* no kv_clear of the batch

Cleared == stored \ batch

EndStep ==
  /\ pc = "end" /\ stored' = Cleared /\ batch' = {}
  /\ tagged' = [r \in Rows |-> IF r \in batch THEN 0 ELSE tagged[r]]
  /\ step' = step + 1 /\ pc' = IF step >= conf.steps THEN "over" ELSE "next"
  /\ UNCHANGED <<cursor, status, rolling, faults, snap, credit, draining, evicted, trainVars>>

\* The job dies and is started again: _load_checkpoint.
Restart ==
  /\ pc # "over" /\ faults < MaxFaults /\ faults' = faults + 1
  /\ step' = latest.step /\ cursor' = latest.cursor /\ trained' = latest.trained
  /\ status' = latest.status /\ tagged' = latest.tagged /\ stored' = latest.stored
  /\ evicted' = latest.evicted
  /\ rolling' = {} /\ batch' = {} /\ snap' = NoSnapshot /\ NewSample
  /\ warm' = 0 /\ mini' = 0 /\ saving' = Scratch /\ pc' = "start"
  /\ UNCHANGED latest

-----------------------------------------------------------------------------
Init ==
  /\ conf \in Configurations
  /\ step = 0 /\ cursor = 1 /\ status = NoSnapshot /\ tagged = [r \in Rows |-> 0]
  /\ stored = {} /\ rolling = {} /\ faults = 0 /\ pc = "start" /\ snap = NoSnapshot
  /\ credit = 0 /\ draining = FALSE /\ batch = {} /\ evicted = {}
  /\ warm = 0 /\ mini = 0 /\ trained = {} /\ saving = Scratch /\ latest = Scratch

Loop == Start \/ WarmUp \/ BeginStep \/ EndTraining \/ Train \/ Save \/ Commit \/ EndStep

Trainer == (Sampler /\ UNCHANGED trainVars) \/ (Loop /\ UNCHANGED conf)

Around == UNCHANGED <<conf, pc, snap, credit, draining, batch, evicted, trainVars>>

Rollouts == (RolloutGoesOn \/ RolloutFails) /\ Around

Next ==
  \/ Trainer \/ Rollouts
  \/ Restart /\ UNCHANGED conf
  \/ pc \in {"over", "failed"} /\ UNCHANGED vars

Spec == Init /\ [][Next]_vars

\* The trainer's thread goes on, and so does every rollout that is not lost.
FairSpec ==
  /\ Spec /\ WF_vars(Trainer)
  /\ \A r \in Rows : WF_vars((Store(r) \/ Finish(r)) /\ Around)
=============================================================================
