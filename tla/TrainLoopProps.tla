-------------------------- MODULE TrainLoopProps ---------------------------
(***************************************************************************)
(* What the trainer and its replay buffer promise.                         *)
(***************************************************************************)
EXTENDS TrainLoop

\* A prompt that was fetched is trained once, or waits to be trained, or was
\* evicted: none is lost and none enters the weights twice, whatever restarts
\* there are (trainer_base.py 961-964: in-flight prompts survive a restart).
EachPromptOnce ==
  /\ 1..(cursor - 1) = Tracked \cup batch \cup trained \cup evicted
  /\ Tracked \cap (batch \cup trained \cup evicted) = {}
  /\ (batch \cup trained) \cap evicted = {}

\* What the sampler waits for has been submitted, or is about to be: evictions,
\* restarts and mini-batches leave enough groups to fill the batch, without
\* which the trainer would poll for ever (replay_buffer.py 93-113).
EnoughPrompts ==
  pc \in {"poll", "decide"} =>
    IF Sync THEN Cardinality(Tracked) + credit >= conf.batch
    ELSE Cardinality(Tracked) >= (conf.warmup + 1) * conf.batch - mini * SampleSize

\* max_off_policy_threshold: no trajectory spans more model versions.  The drop
\* strategy trains on none that is older; the wait strategy lets none be
\* generated for longer (but may train on it later); the synchronous trainer
\* trains on what it generated in the same step.
StalenessBounded ==
  CASE conf.mode = "drop" -> pc = "train" => \A r \in batch : Span(r) <= conf.threshold
    [] conf.mode = "wait" -> pc \notin {"start", "over"} => \A r \in InFlight : Span(r) <= conf.threshold
    [] OTHER -> pc = "train" => \A r \in batch : Span(r) = 1

\* Trajectories are in the queue for a prompt that is there or for the batch of
\* this step.  What a restart leaves behind is the batch that had been trained
\* when the checkpoint was saved; nobody clears it (trainer_base.py 483, 510).
\* And a prompt that is terminal for the sampler has its trajectories there.
TrajectoriesAccounted ==
  /\ stored \ (Tracked \cup batch) \subseteq latest.stored \cap latest.trained
  /\ faults = 0 => stored \subseteq Tracked \cup batch
  /\ rolling \subseteq InFlight
  /\ \A r \in Tracked : status[r] \in {"finished", "uniform"} => r \in stored

Lost == IF pc = "start" THEN {} ELSE InFlight \ rolling

\* Prompts that the warm-up submitted beyond what a step samples.
Tolerated == IF conf.mode = "drop" THEN conf.warmup * conf.batch ELSE 0

\* The training ends, or fails with nothing to train on, unless prompts are
\* lost: any one blocks the trainer that waits for those in flight, and more
\* than the warm-up batches block the one that drops.
TrainingEnds ==
  <>(pc \in {"over", "failed"} \/ Cardinality(Lost) > Tolerated)
=============================================================================
