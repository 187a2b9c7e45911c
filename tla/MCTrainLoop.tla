---------------------------- MODULE MCTrainLoop ----------------------------
(***************************************************************************)
(* A job for each way of sampling.                                         *)
(***************************************************************************)
EXTENDS TrainLoopProps

\* Its checkpoints are those of steps 2 and 3: a crash loses up to two steps.
MCDrop == [mode |-> "drop", dapo |-> TRUE, refillFailed |-> FALSE, batch |-> 1,
           minis |-> 1, threshold |-> 1, warmup |-> 1, steps |-> 3, saveFreq |-> 2]

MCWait == [MCDrop EXCEPT !.mode = "wait", !.threshold = 2, !.saveFreq = 1]

\* Two prompts per step, trained one after the other.
MCMinis == [MCDrop EXCEPT !.batch = 2, !.minis = 2, !.steps = 1]

\* The same without warm-up, and for two steps.
MCLean == [MCMinis EXCEPT !.warmup = 0, !.threshold = 2, !.steps = 2, !.saveFreq = 1]

MCSync == [MCLean EXCEPT !.mode = "sync", !.minis = 1]

MCConfigurations ==
  {MCDrop, MCWait, MCMinis, MCLean} \cup
  {[MCSync EXCEPT !.dapo = a, !.refillFailed = b] : a, b \in BOOLEAN}
=============================================================================
