---------------------------- MODULE ReplayBuffer ----------------------------
(***************************************************************************)
(* How the trainer samples its next groups of trajectories:                *)
(* ReplayBuffer.sample and ReplayBufferAsync.sample of                     *)
(* verl/trainer/ppo/v1/replay_buffer.py, for the train partition.          *)
(*                                                                         *)
(* Each poll reads the tags of all prompts and decides on that snapshot;   *)
(* meanwhile the rollouts go on.                                           *)
(***************************************************************************)
EXTENDS TransferQueue

\* The configurations to consider.
CONSTANT Configurations

\* mode: asynchronous, and dropping or waiting for stale groups, or synchronous;
\* dapo: filter_groups_metric is set; refillFailed: sync_refill_failed_groups;
\* batch: train_batch_size in prompts; minis: parameter_sync_step; threshold:
\* max_off_policy_threshold; warmup: num_warmup_batches; steps:
\* total_training_steps; saveFreq: save_freq.
Configuration ==
  [mode : {"sync", "drop", "wait"}, dapo : BOOLEAN, refillFailed : BOOLEAN,
   batch : Nat \ {0}, minis : Nat \ {0}, threshold : Nat \ {0}, warmup : Nat,
   steps : Nat \ {0}, saveFreq : Nat \ {0}]

ASSUME ConfigurationAssumption ==
  \A c \in Configurations :
    /\ c \in Configuration /\ c.batch % c.minis = 0
    /\ c.mode = "sync" => c.minis = 1 /\ c.warmup = 0

VARIABLES
  conf,       \* the configuration
  pc,         \* where the trainer stands
  snap,       \* the snapshot of the status tags, all "none" between polls
  credit,     \* refill_credit of the synchronous sampler
  draining,   \* its draining
  batch,      \* the prompts sampled in this step
  evicted     \* history: the prompts taken out of the queue untrained

Sync == conf.mode = "sync"

SampleSize == conf.batch \div conf.minis

NoSnapshot == [r \in Rows |-> "none"]

ReplayBufferTypeOK ==
  /\ conf \in Configurations
  /\ snap \in [Rows -> Status] /\ credit \in Nat /\ draining \in BOOLEAN
  /\ batch \subseteq Rows /\ evicted \subseteq Rows

-----------------------------------------------------------------------------
Span(r) == step - tagged[r] + 1

SnapInFlight == {r \in Rows : snap[r] = "pending"}

\* Only finished groups can be stale, and only the drop strategy minds.
Stale == {r \in Rows : /\ conf.mode = "drop" /\ snap[r] \in {"finished", "uniform"}
                       /\ Span(r) > conf.threshold}

Uniform == {r \in Rows : conf.dapo /\ snap[r] = "uniform"}

Failed == {r \in Rows : /\ snap[r] = "failure"
                        /\ Sync => conf.refillFailed /\ r \notin stored}

Evictable == Stale \cup Uniform \cup Failed

Sampleable == {r \in Rows : snap[r] \in Terminal} \ Evictable

Slip_Waits == \E r \in SnapInFlight : Span(r) > conf.threshold     \* off by one

\* The wait strategy: no sampling as long as a prompt in flight is about to
\* span more model versions than allowed.
Waits == \E r \in SnapInFlight : Span(r) >= conf.threshold

HasEnough ==
  /\ conf.mode = "wait" => ~Waits
  /\ Cardinality(Sampleable) >= SampleSize

\* The oldest of the sampleable groups.
Oldest(chosen) ==
  /\ Cardinality(chosen) = SampleSize
  /\ \A r \in chosen, q \in Sampleable \ chosen : tagged[r] <= tagged[q]

-----------------------------------------------------------------------------
Back == pc' = "poll" /\ snap' = NoSnapshot

Poll ==
  /\ pc = "poll" /\ snap' = status /\ pc' = "decide"
  /\ UNCHANGED <<step, tqVars, faults, credit, draining, batch, evicted>>

\* Nothing to do: sleep, and poll again.
Sleep(gone) ==
  /\ status' = [r \in Rows |-> IF r \in gone THEN "none" ELSE status[r]]
  /\ tagged' = [r \in Rows |-> IF r \in gone THEN 0 ELSE tagged[r]]
  /\ stored' = stored \ gone /\ evicted' = evicted \cup gone
  /\ Back /\ UNCHANGED <<step, cursor, rolling, faults, batch>>

Slip_Refill(gone) == 0                                  \* no refill

Refill(gone) == Cardinality(gone)

EvictAndRefill(gone, n) ==
  /\ ClearAndSubmit(gone, n) /\ evicted' = evicted \cup gone
  /\ Back /\ UNCHANGED <<step, faults, batch>>

\* The sampled prompts lose their keys, their trajectories stay.
Select(chosen, gone) ==
  /\ status' = [r \in Rows |-> IF r \in chosen \cup gone THEN "none" ELSE status[r]]
  /\ tagged' = [r \in Rows |-> IF r \in gone THEN 0 ELSE tagged[r]]
  /\ stored' = stored \ gone /\ evicted' = evicted \cup gone
  /\ batch' = batch \cup chosen
  /\ pc' = "train" /\ snap' = NoSnapshot
  /\ UNCHANGED <<step, cursor, rolling, faults>>

-----------------------------------------------------------------------------
(* ReplayBufferAsync.sample.                                               *)

DecideAsync ==
  /\ pc = "decide" /\ ~Sync /\ UNCHANGED <<credit, draining>>
  /\ \/ Evictable # {} /\ EvictAndRefill(Evictable, Refill(Evictable))
     \/ /\ Evictable = {} /\ HasEnough
        /\ \E chosen \in SUBSET Sampleable : Oldest(chosen) /\ Select(chosen, {})
     \/ Evictable = {} /\ ~HasEnough /\ Sleep({})

-----------------------------------------------------------------------------
(* ReplayBuffer.sample.  Without DAPO, failed groups are replaced one by   *)
(* one if that is asked for.  With DAPO, each evicted group earns credit   *)
(* for new prompts, sent while at most a batch is in flight                *)
(* (gen_batch_size and max_inflight_gen_batches are 1).  As soon as there  *)
(* are enough groups, the prompts in flight are waited for and the surplus *)
(* is discarded.                                                           *)

Slip_Earned == Cardinality(Failed)                     \* nothing for uniform groups

Earned == 2 * Cardinality(Uniform) + Cardinality(Failed)

Credit == IF HasEnough THEN 0 ELSE IF draining THEN credit ELSE credit + Earned

Slots == IF Cardinality(SnapInFlight) < conf.batch
         THEN conf.batch - Cardinality(SnapInFlight) ELSE 0

Dispatched == IF Credit < Slots THEN Credit ELSE Slots

Drained == SnapInFlight = {}

\* No trajectory at all to train on: RuntimeError, of which the job dies.
NothingToTrain(chosen) == chosen \cap stored = {}

SyncSelect(chosen, gone) ==
  IF NothingToTrain(chosen)
  THEN pc' = "failed" /\ snap' = NoSnapshot
       /\ UNCHANGED <<step, tqVars, faults, batch, evicted>>
  ELSE Select(chosen, gone)

DecideSync ==
  /\ pc = "decide" /\ Sync /\ ~conf.dapo /\ UNCHANGED <<credit, draining>>
  /\ \/ Failed # {} /\ ~HasEnough /\ EvictAndRefill(Failed, Refill(Failed))
     \/ HasEnough /\ \E chosen \in SUBSET Sampleable :
                       Oldest(chosen) /\ SyncSelect(chosen, Failed)
     \/ Failed = {} /\ ~HasEnough /\ Sleep({})

DecideDapo ==
  /\ pc = "decide" /\ Sync /\ conf.dapo
  /\ draining' = (draining \/ HasEnough)
  /\ \/ /\ ~draining' /\ Dispatched > 0 /\ EvictAndRefill(Evictable, Dispatched)
        /\ credit' = Credit - Dispatched
     \/ /\ draining' \/ Dispatched = 0
        /\ credit' = Credit
        /\ \/ /\ HasEnough /\ Drained
              /\ \E chosen \in SUBSET Sampleable :
                   /\ Oldest(chosen)
                   /\ SyncSelect(chosen, Evictable \cup (Sampleable \ chosen))
           \/ ~(HasEnough /\ Drained) /\ Sleep(Evictable)

Sampler == (Poll \/ DecideAsync \/ DecideSync \/ DecideDapo) /\ UNCHANGED conf
=============================================================================
