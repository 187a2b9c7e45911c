--------------------------- MODULE TransferQueue ---------------------------
(***************************************************************************)
(* The train partition of the TransferQueue between the trainer and the    *)
(* rollouts.  The trainer submits prompts: each is a key with a status tag *)
(* and the global step of its submission.  The rollouts store trajectories *)
(* under keys of their own, and tag the prompt terminal when all sessions  *)
(* of the prompt have settled (generate_sequences of entry.py and          *)
(* framework.py in src/uni_agent/framework, whose steps AgentFramework     *)
(* has in full).                                                           *)
(*                                                                         *)
(* A prompt is its row in the dataloader's stream.  The code draws a new   *)
(* uid for every row it fetches; a row is fetched again only after a       *)
(* restart, when the uid it had before is gone with the queue.             *)
(***************************************************************************)
EXTENDS Integers, FiniteSets

CONSTANTS
  MaxRow,      \* bound on the rows fetched
  MaxFaults    \* bound on failed, uniform and lost prompts and on restarts

ASSUME BoundsAssumption == MaxRow \in Nat /\ MaxFaults \in Nat

Rows == 1..MaxRow

\* "uniform" is a finished group whose metric is the same in all trajectories,
\* which DAPO filters out.  Status "running" is treated like "pending".
Terminal == {"finished", "uniform", "failure"}
Status == {"none", "pending"} \cup Terminal

VARIABLES
  step,      \* global_steps
  cursor,    \* the next row of the dataloader
  status,    \* the status tag of a prompt, "none" without a key
  tagged,    \* its global_steps tag, which its trajectories carry too
  stored,    \* the prompts with trajectories in the queue
  rolling,   \* the prompts that a rollout works at
  faults     \* faults so far

tqVars == <<cursor, status, tagged, stored, rolling>>

Tracked  == {r \in Rows : status[r] # "none"}
InFlight == {r \in Rows : status[r] = "pending"}

TransferQueueTypeOK ==
  /\ step \in Nat /\ cursor \in 1..(MaxRow + 1) /\ faults \in 0..MaxFaults
  /\ status \in [Rows -> Status] /\ tagged \in [Rows -> Nat]
  /\ stored \subseteq Rows /\ rolling \subseteq InFlight

-----------------------------------------------------------------------------
(* The trainer's side.                                                     *)

Slip_Fresh(n) == (cursor - 1)..(cursor + n - 2)     \* the iterator one row behind

Fresh(n) == cursor..(cursor + n - 1)

\* Take `gone` with their trajectories out of the queue, fetch the next n rows,
\* register them as pending and hand them to the rollouts.
ClearAndSubmit(gone, n) ==
  /\ cursor + n <= MaxRow + 1
  /\ cursor' = cursor + n
  /\ status' = [r \in Rows |-> IF r \in Fresh(n) THEN "pending"
                               ELSE IF r \in gone THEN "none" ELSE status[r]]
  /\ tagged' = [r \in Rows |-> IF r \in Fresh(n) THEN step
                               ELSE IF r \in gone THEN 0 ELSE tagged[r]]
  /\ stored' = stored \ gone
  /\ rolling' = rolling \cup Fresh(n)

Submit(n) == ClearAndSubmit({}, n)

-----------------------------------------------------------------------------
(* The rollouts' side.                                                     *)

Settle(r, s) ==
  /\ status' = [status EXCEPT ![r] = s] /\ rolling' = rolling \ {r}
  /\ UNCHANGED <<step, cursor, tagged, stored>>

\* The first session of a prompt that succeeds.
Store(r) ==
  /\ r \in rolling \ stored /\ stored' = stored \cup {r}
  /\ UNCHANGED <<step, cursor, status, tagged, rolling, faults>>

Finish(r) == r \in rolling \cap stored /\ Settle(r, "finished") /\ UNCHANGED faults

FinishUniform(r) ==
  /\ r \in rolling \cap stored /\ Settle(r, "uniform")
  /\ faults < MaxFaults /\ faults' = faults + 1

\* All its sessions failed, yet some may have been stored: by a write that
\* raised after it took effect.
FailRollout(r) ==
  /\ r \in rolling /\ Settle(r, "failure")
  /\ faults < MaxFaults /\ faults' = faults + 1

\* generate_sequences raises.  Nobody awaits its result: the prompt is pending
\* for ever.
LosePrompt(r) ==
  /\ r \in rolling /\ rolling' = rolling \ {r}
  /\ faults < MaxFaults /\ faults' = faults + 1
  /\ UNCHANGED <<step, cursor, status, tagged, stored>>

RolloutGoesOn == \E r \in Rows : Store(r) \/ Finish(r)

RolloutFails == \E r \in Rows : FinishUniform(r) \/ FailRollout(r) \/ LosePrompt(r)
=============================================================================
