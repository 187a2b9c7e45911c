-------------------------- MODULE TrainLoopProofs --------------------------
(***************************************************************************)
(* Theorems about TrainLoop, for any number of rows and faults and any     *)
(* configurations.                                                         *)
(***************************************************************************)
EXTENDS TrainLoopProps, TLAPS, FiniteSetTheorems

-----------------------------------------------------------------------------
(* The inductive invariant.                                                *)

\* While the sampler decides, its snapshot knows every prompt, and knows it as
\* it is unless it was in flight.
Coherent ==
  /\ pc # "decide" => snap = NoSnapshot
  /\ pc = "decide" => \A r \in Rows : /\ snap[r] = "none" <=> status[r] = "none"
                                      /\ snap[r] \in Terminal => status[r] = snap[r]

\* A batch is emptied between steps, and trained before it is saved.
BatchInv ==
  /\ pc \in {"poll", "decide", "train"} => mini < conf.minis
  /\ pc \in {"start", "warmup", "next"} => batch = {}
  /\ pc \in {"save", "commit", "end"} => batch \subseteq trained

TrackedIn(c) == {r \in Rows : c.status[r] # "none"}

\* A checkpoint tells where each prompt fetched so far went, as the running job
\* does, and holds the trajectories of a prompt that is tracked or trained.
CheckpointInv(c) ==
  /\ 1..(c.cursor - 1) = TrackedIn(c) \cup c.trained \cup c.evicted
  /\ TrackedIn(c) \cap (c.trained \cup c.evicted) = {}
  /\ c.trained \cap c.evicted = {}
  /\ c.stored \subseteq TrackedIn(c) \cup c.trained
  /\ \A r \in Rows : c.status[r] \in {"finished", "uniform"} => r \in c.stored
  /\ Sync => c.status = NoSnapshot /\ c.stored = {}

Orphans == stored \ (Tracked \cup batch)

\* What the next checkpoint will be accountable for.
SavedInv ==
  /\ latest.trained \subseteq trained
  /\ pc = "commit" => Orphans \subseteq saving.stored /\ Orphans \subseteq saving.trained
  /\ pc = "commit" => saving.trained \subseteq trained

\* The synchronous trainer starts every step with an empty queue.
SyncInv ==
  Sync =>
    /\ pc \in {"poll", "decide"} =>
         /\ batch = {} /\ \A r \in Tracked : tagged[r] = step
         /\ ~conf.dapo => Cardinality(Tracked) = conf.batch
    /\ pc \in {"start", "warmup", "next", "train", "save", "commit", "end"} => Tracked = {}
    /\ pc = "train" => \A r \in batch : tagged[r] = step

DropInv ==
  conf.mode = "drop" /\ pc \in {"poll", "decide", "train"} =>
    \A r \in batch : Span(r) <= conf.threshold

\* Once sampling was let go ahead, what is in flight can grow older by a step.
WaitInv ==
  conf.mode = "wait" =>
    /\ pc \notin {"start", "over"} => \A r \in InFlight : Span(r) <= conf.threshold
    /\ pc \in {"train", "save", "commit", "end"} =>
         \A r \in InFlight : Span(r) < conf.threshold

IInv ==
  /\ TypeOK /\ Coherent /\ BatchInv
  /\ EachPromptOnce /\ CheckpointInv(latest) /\ CheckpointInv(saving)
  /\ TrajectoriesAccounted /\ SavedInv
  /\ SyncInv /\ DropInv /\ WaitInv

-----------------------------------------------------------------------------
(* Configurations, and the sizes of sets of rows.                          *)

LEMMA ConfigurationFacts ==
  ASSUME conf \in Configurations
  PROVE  /\ conf.batch \in Nat \ {0} /\ conf.minis \in Nat \ {0}
         /\ conf.threshold \in Nat \ {0} /\ conf.steps \in Nat \ {0}
         /\ conf.saveFreq \in Nat \ {0} /\ conf.warmup \in Nat
         /\ conf.mode \in {"sync", "drop", "wait"} /\ conf.dapo \in BOOLEAN
         /\ conf.batch % conf.minis = 0
         /\ Sync => conf.minis = 1 /\ conf.warmup = 0
BY ConfigurationAssumption DEF Configuration, Sync

LEMMA RowsFinite ==
  /\ IsFiniteSet(Rows)
  /\ \A S \in SUBSET Rows : IsFiniteSet(S) /\ Cardinality(S) \in Nat
<1>1. IsFiniteSet(Rows)
  BY BoundsAssumption, FS_Interval DEF Rows
<1> QED
  BY <1>1, FS_Subset, FS_CardinalityType

LEMMA SampleSizeType ==
  ASSUME conf \in Configurations
  PROVE  SampleSize \in Nat /\ (Sync => SampleSize = conf.batch)
BY ConfigurationFacts DEF SampleSize

-----------------------------------------------------------------------------
(* What the trainer does to the queue, except at its ends: some of the     *)
(* groups that are done go, some are taken into the batch, and n new       *)
(* prompts come.                                                           *)

Moves(gone, chosen, n) ==
  /\ gone \subseteq Tracked \ InFlight /\ chosen \subseteq Tracked \ InFlight
  /\ gone \cap chosen = {}
  /\ n \in Nat /\ cursor + n <= MaxRow + 1 /\ cursor' = cursor + n
  /\ status' = [r \in Rows |-> IF r \in Fresh(n) THEN "pending"
                               ELSE IF r \in gone \cup chosen THEN "none" ELSE status[r]]
  /\ tagged' = [r \in Rows |-> IF r \in Fresh(n) THEN step
                               ELSE IF r \in gone THEN 0 ELSE tagged[r]]
  /\ stored' = stored \ gone /\ rolling' = rolling \cup Fresh(n)
  /\ evicted' = evicted \cup gone /\ batch' = batch \cup chosen
  /\ UNCHANGED <<step, faults, conf, trained, saving, latest>>

LEMMA MovesNothing ==
  ASSUME TypeOK, UNCHANGED <<step, tqVars, faults, conf, batch, evicted, trained, saving, latest>>
  PROVE  Moves({}, {}, 0)
<1>1. Fresh(0) = {}
  BY DEF TypeOK, TransferQueueTypeOK, Fresh
<1> QED
  BY <1>1, BoundsAssumption DEF Moves, TypeOK, TransferQueueTypeOK, tqVars

LEMMA MovesSubmit ==
  ASSUME TypeOK, NEW n \in Nat, Submit(n),
         UNCHANGED <<step, faults, conf, batch, evicted, trained, saving, latest>>
  PROVE  Moves({}, {}, n)
BY DEF Moves, Submit, ClearAndSubmit

\* What the sampler lets go or takes was terminal in its snapshot.
Settled == {r \in Rows : snap[r] \in Terminal}

LEMMA SettledIsDone ==
  ASSUME Coherent, pc = "decide"
  PROVE  Settled \subseteq Tracked \ InFlight
BY DEF Settled, Coherent, Tracked, InFlight, Terminal

LEMMA SettledParts ==
  /\ Evictable \subseteq Settled /\ Sampleable \subseteq Settled
  /\ Evictable \cap Sampleable = {}
BY DEF Evictable, Sampleable, Stale, Uniform, Failed, Settled, Terminal

LEMMA MovesRefill ==
  ASSUME TypeOK, Coherent, pc = "decide", NEW gone \in SUBSET Settled, NEW n \in Nat,
         EvictAndRefill(gone, n), UNCHANGED <<conf, trained, saving, latest>>
  PROVE  Moves(gone, {}, n)
BY SettledIsDone DEF Moves, EvictAndRefill, ClearAndSubmit

LEMMA MovesSleep ==
  ASSUME TypeOK, Coherent, pc = "decide", NEW gone \in SUBSET Settled,
         Sleep(gone), UNCHANGED <<conf, trained, saving, latest>>
  PROVE  Moves(gone, {}, 0)
<1>1. Fresh(0) = {}
  BY DEF TypeOK, TransferQueueTypeOK, Fresh
<1> QED
  BY <1>1, SettledIsDone, BoundsAssumption DEF Moves, Sleep, TypeOK, TransferQueueTypeOK

LEMMA MovesSelect ==
  ASSUME TypeOK, Coherent, pc = "decide", NEW gone \in SUBSET Settled,
         NEW chosen \in SUBSET Settled, gone \cap chosen = {},
         Select(chosen, gone), UNCHANGED <<conf, trained, saving, latest>>
  PROVE  Moves(gone, chosen, 0)
<1>1. Fresh(0) = {}
  BY DEF TypeOK, TransferQueueTypeOK, Fresh
<1>2. \A r \in Rows : (r \in chosen \cup gone) <=> (r \in gone \cup chosen)
  OBVIOUS
<1> QED
  BY <1>1, <1>2, SettledIsDone, BoundsAssumption DEF Moves, Select, TypeOK, TransferQueueTypeOK

-----------------------------------------------------------------------------
(* What Moves preserves, whatever step it is part of.                      *)

LEMMA MovesSets ==
  ASSUME TypeOK, EachPromptOnce, NEW gone \in SUBSET Rows, NEW chosen \in SUBSET Rows,
         NEW n \in Nat, Moves(gone, chosen, n)
  PROVE  /\ Fresh(n) \subseteq Rows /\ Fresh(n) \cap Tracked = {}
         /\ Fresh(n) \cap (batch \cup trained \cup evicted) = {}
         /\ Tracked' = (Tracked \ (gone \cup chosen)) \cup Fresh(n)
         /\ InFlight' = InFlight \cup Fresh(n)
         /\ \A r \in Rows \ Fresh(n) : r \notin gone => tagged'[r] = tagged[r]
         /\ \A r \in Fresh(n) : tagged'[r] = step
<1>1. cursor \in Nat \ {0} /\ step \in Nat
  BY BoundsAssumption DEF TypeOK, TransferQueueTypeOK
<1>2. Fresh(n) \subseteq Rows
  BY <1>1, BoundsAssumption DEF Fresh, Rows, Moves
<1>3. \A r \in Fresh(n) : r \notin 1..(cursor - 1)
  BY <1>1 DEF Fresh
<1>4. Fresh(n) \cap (Tracked \cup batch \cup trained \cup evicted) = {}
  BY <1>3 DEF EachPromptOnce
<1>5. Tracked' = (Tracked \ (gone \cup chosen)) \cup Fresh(n)
  BY <1>2, <1>4 DEF Moves, Tracked
<1>6. InFlight' = InFlight \cup Fresh(n)
  BY <1>2 DEF Moves, InFlight, Tracked
<1>7. /\ \A r \in Rows \ Fresh(n) : r \notin gone => tagged'[r] = tagged[r]
      /\ \A r \in Fresh(n) : tagged'[r] = step
  BY <1>2 DEF Moves
<1> QED
  BY <1>2, <1>4, <1>5, <1>6, <1>7

\* The case that the sampler is done.
LEMMA MovesTracked ==
  ASSUME TypeOK, EachPromptOnce, NEW gone \in SUBSET Rows, NEW chosen \in SUBSET Rows,
         NEW n \in Nat, n = 0, Moves(gone, chosen, n)
  PROVE  Tracked' = Tracked \ (gone \cup chosen)
<1>1. /\ Fresh(n) \cap (Tracked \cup batch \cup trained \cup evicted) = {}
      /\ Tracked' = (Tracked \ (gone \cup chosen)) \cup Fresh(n)
  BY MovesSets
<1>2. Fresh(n) = {}
  BY DEF TypeOK, TransferQueueTypeOK, Fresh
<1> QED
  BY <1>1, <1>2

LEMMA MovesParts ==
  ASSUME NEW gone \in SUBSET Rows, NEW chosen \in SUBSET Rows,
         NEW n \in Nat, Moves(gone, chosen, n)
  PROVE  /\ gone \subseteq Tracked /\ chosen \subseteq Tracked
         /\ batch' = batch \cup chosen /\ step' = step
BY DEF Moves

LEMMA MovesType ==
  ASSUME TypeOK, EachPromptOnce, NEW gone \in SUBSET Rows, NEW chosen \in SUBSET Rows,
         NEW n \in Nat, Moves(gone, chosen, n)
  PROVE  /\ TransferQueueTypeOK' /\ batch' \in SUBSET Rows /\ evicted' \in SUBSET Rows
         /\ conf' \in Configurations /\ trained' \in SUBSET Rows
         /\ saving' \in Checkpoint /\ latest' \in Checkpoint
<1>1. /\ step' \in Nat /\ cursor' \in 1..(MaxRow + 1) /\ faults' \in 0..MaxFaults
      /\ status' \in [Rows -> Status] /\ stored' \subseteq Rows
  BY BoundsAssumption DEF TypeOK, TransferQueueTypeOK, Moves, Status
<1>2. tagged' \in [Rows -> Nat]
  BY DEF TypeOK, TransferQueueTypeOK, Moves
<1>a. InFlight' = InFlight \cup Fresh(n)
  BY MovesSets
<1>3. rolling' \subseteq InFlight'
  BY <1>a DEF TypeOK, TransferQueueTypeOK, Moves
<1> QED
  BY <1>1, <1>2, <1>3 DEF TypeOK, TransferQueueTypeOK, ReplayBufferTypeOK, Moves

LEMMA MovesOnce ==
  ASSUME TypeOK, EachPromptOnce, NEW gone \in SUBSET Rows, NEW chosen \in SUBSET Rows,
         NEW n \in Nat, Moves(gone, chosen, n)
  PROVE  EachPromptOnce'
<1>1. cursor \in Nat \ {0} /\ cursor' = cursor + n
  BY BoundsAssumption DEF TypeOK, TransferQueueTypeOK, Moves
<1>2. 1..(cursor' - 1) = 1..(cursor - 1) \cup Fresh(n)
  <2>1. PICK k \in Nat \ {0} : k = cursor
    BY <1>1
  <2>2. 1..(k + n - 1) = 1..(k - 1) \cup k..(k + n - 1)
    OBVIOUS
  <2> QED
    BY <1>1, <2>1, <2>2 DEF Fresh
<1>3. /\ gone \subseteq Tracked /\ chosen \subseteq Tracked /\ gone \cap chosen = {}
      /\ batch' = batch \cup chosen /\ evicted' = evicted \cup gone /\ trained' = trained
  BY DEF Moves
<1>4. /\ Fresh(n) \cap (Tracked \cup batch \cup trained \cup evicted) = {}
      /\ Tracked' = (Tracked \ (gone \cup chosen)) \cup Fresh(n)
  BY MovesSets
<1>5. 1..(cursor' - 1) = Tracked' \cup batch' \cup trained' \cup evicted'
  BY <1>2, <1>3, <1>4 DEF EachPromptOnce
<1>6. Tracked' \cap (batch' \cup trained' \cup evicted') = {}
  BY <1>3, <1>4 DEF EachPromptOnce
<1>7. (batch' \cup trained') \cap evicted' = {}
  BY <1>3, <1>4 DEF EachPromptOnce
<1> QED
  BY <1>5, <1>6, <1>7 DEF EachPromptOnce

LEMMA MovesAccounted ==
  ASSUME TypeOK, EachPromptOnce, TrajectoriesAccounted,
         NEW gone \in SUBSET Rows, NEW chosen \in SUBSET Rows,
         NEW n \in Nat, Moves(gone, chosen, n)
  PROVE  TrajectoriesAccounted' /\ Orphans' \subseteq Orphans
<1>a. /\ Fresh(n) \subseteq Rows /\ Fresh(n) \cap Tracked = {}
      /\ Tracked' = (Tracked \ (gone \cup chosen)) \cup Fresh(n)
      /\ InFlight' = InFlight \cup Fresh(n)
  BY MovesSets
<1>b. /\ stored' = stored \ gone /\ batch' = batch \cup chosen
      /\ rolling' = rolling \cup Fresh(n) /\ faults' = faults
  BY DEF Moves
<1>1. Orphans' \subseteq Orphans
  BY <1>a, <1>b DEF Orphans
<1>2. faults' = 0 => stored' \subseteq Tracked' \cup batch'
  BY <1>a, <1>b DEF TrajectoriesAccounted
<1>3. rolling' \subseteq InFlight'
  BY <1>a, <1>b DEF TrajectoriesAccounted
<1>4. ASSUME NEW r \in Tracked', status'[r] \in {"finished", "uniform"} PROVE r \in stored'
  <2>1. r \in Rows /\ r \notin Fresh(n) /\ r \notin gone \cup chosen /\ status'[r] = status[r]
    BY <1>4, <1>a DEF Moves, Tracked
  <2> QED
    BY <1>4, <2>1 DEF Moves, TrajectoriesAccounted, Tracked
<1>5. latest' = latest /\ faults' = faults
  BY DEF Moves
<1> QED
  BY <1>1, <1>2, <1>3, <1>4, <1>5 DEF TrajectoriesAccounted, Orphans

-----------------------------------------------------------------------------
(* The kinds of steps.                                                     *)

PollKind ==
  /\ pc = "poll" /\ pc' = "decide" /\ snap' = status /\ Moves({}, {}, 0)
  /\ UNCHANGED <<credit, draining, warm, mini>>

\* Back to polling.
BackKind ==
  /\ pc = "decide" /\ pc' = "poll" /\ snap' = NoSnapshot /\ UNCHANGED <<warm, mini>>
  /\ \E gone \in SUBSET Evictable, n \in Nat :
       /\ Moves(gone, {}, n)
       /\ ~(Sync /\ conf.dapo) => n = Cardinality(gone) /\ UNCHANGED <<credit, draining>>
       /\ Sync /\ conf.dapo =>
            /\ gone = Evictable /\ credit' + n = Credit
            /\ draining' = (draining \/ HasEnough)

TakeKind ==
  /\ pc = "decide" /\ pc' = "train" /\ snap' = NoSnapshot /\ UNCHANGED <<warm, mini>>
  /\ HasEnough
  /\ \E chosen \in SUBSET Sampleable, gone \in SUBSET Settled :
       /\ gone \cap chosen = {} /\ Moves(gone, chosen, 0) /\ Oldest(chosen)
       /\ ~Sync => gone = {} /\ Evictable = {}
       /\ Sync /\ conf.dapo => SnapInFlight = {} /\ Settled \subseteq gone \cup chosen

FailKind ==
  /\ pc = "decide" /\ Sync /\ pc' = "failed" /\ snap' = NoSnapshot
  /\ UNCHANGED <<warm, mini>> /\ Moves({}, {}, 0)

WarmUpKind ==
  /\ pc = "warmup" /\ UNCHANGED <<snap, credit, draining, mini>>
  /\ \/ /\ warm = conf.warmup /\ pc' = "next" /\ UNCHANGED warm /\ Moves({}, {}, 0)
     \/ /\ warm # conf.warmup /\ pc' = pc /\ warm' = warm + 1
        /\ Moves({}, {}, conf.batch)

BeginKind ==
  /\ pc = "next" /\ pc' = "poll" /\ mini' = 0 /\ UNCHANGED <<snap, warm>>
  /\ credit' = 0 /\ draining' = FALSE /\ Moves({}, {}, conf.batch)

QuietKind ==
  /\ pc' \in {pc, "over"} /\ UNCHANGED <<snap, credit, draining, warm, mini>>
  /\ pc' = "over" => pc \in {"next", "over"}
  /\ Moves({}, {}, 0)

\* A rollout goes on, ends or fails.
RolloutKind ==
  /\ Around /\ UNCHANGED <<step, cursor, tagged>>
  /\ faults' \in 0..MaxFaults /\ (faults' = 0 => faults = 0)
  /\ \E r \in rolling, s \in Terminal \cup {"pending"} :
       /\ status' = [status EXCEPT ![r] = s]
       /\ stored' \in {stored, stored \cup {r}}
       /\ rolling' \in {rolling, rolling \ {r}} /\ (r \in rolling' => s = "pending")
       /\ s \in {"finished", "uniform"} => r \in stored

LEMMA DecideAsyncKind ==
  ASSUME TypeOK, Coherent, DecideAsync, UNCHANGED <<conf, trainVars>>
  PROVE  BackKind \/ TakeKind
<1> USE DEF trainVars
<1>1. Evictable \in SUBSET Settled /\ Cardinality(Evictable) \in Nat /\ {} \in SUBSET Settled
  BY SettledParts, RowsFinite DEF Settled
<1>2. pc = "decide" /\ ~Sync
  BY DEF DecideAsync
<1>3. CASE EvictAndRefill(Evictable, Refill(Evictable))
  <2>1. Moves(Evictable, {}, Cardinality(Evictable))
    BY <1>1, <1>2, <1>3, MovesRefill DEF Refill
  <2> QED
    BY <1>1, <1>2, <1>3, <2>1 DEF BackKind, EvictAndRefill, Back, DecideAsync
<1>4. ASSUME Evictable = {}, HasEnough, NEW chosen \in SUBSET Sampleable,
             Oldest(chosen), Select(chosen, {})
      PROVE  TakeKind
  <2>1. Moves({}, chosen, 0)
    BY <1>1, <1>2, <1>4, SettledParts, MovesSelect
  <2> QED
    BY <1>1, <1>2, <1>4, <2>1 DEF TakeKind, Select
<1>5. CASE Sleep({})
  <2>1. Moves({}, {}, 0)
    BY <1>1, <1>2, <1>5, MovesSleep
  <2> QED
    BY <1>1, <1>2, <1>5, <2>1, FS_EmptySet DEF BackKind, Sleep, Back, DecideAsync
<1> QED
  BY <1>3, <1>4, <1>5 DEF DecideAsync

LEMMA SyncSelectKind ==
  ASSUME TypeOK, Coherent, pc = "decide", Sync, HasEnough,
         NEW chosen \in SUBSET Sampleable, Oldest(chosen),
         NEW gone \in SUBSET Settled, gone \cap chosen = {}, SyncSelect(chosen, gone),
         conf.dapo => SnapInFlight = {} /\ Settled \subseteq gone \cup chosen,
         UNCHANGED <<conf, trainVars>>
  PROVE  FailKind \/ TakeKind
<1> USE DEF trainVars
<1>1. CASE NothingToTrain(chosen)
  BY <1>1, MovesNothing DEF SyncSelect, FailKind
<1>2. CASE ~NothingToTrain(chosen)
  <2>1. Select(chosen, gone) /\ chosen \in SUBSET Settled
    BY <1>2, SettledParts DEF SyncSelect
  <2>2. Moves(gone, chosen, 0)
    BY <2>1, MovesSelect
  <2> QED
    BY <2>1, <2>2 DEF TakeKind, Select
<1> QED
  BY <1>1, <1>2

LEMMA DecideSyncKind ==
  ASSUME TypeOK, Coherent, DecideSync, UNCHANGED <<conf, trainVars>>
  PROVE  BackKind \/ TakeKind \/ FailKind
<1>1. /\ Failed \in SUBSET Evictable /\ Failed \in SUBSET Settled
      /\ Cardinality(Failed) \in Nat /\ Failed \cap Sampleable = {}
      /\ {} \in SUBSET Settled
  BY SettledParts, RowsFinite DEF Settled, Evictable, Failed
<1>2. pc = "decide" /\ Sync /\ ~conf.dapo /\ UNCHANGED <<credit, draining>>
  BY DEF DecideSync
<1>3. CASE EvictAndRefill(Failed, Refill(Failed))
  <2>1. Moves(Failed, {}, Cardinality(Failed))
    BY <1>1, <1>2, <1>3, MovesRefill DEF Refill, trainVars
  <2> QED
    BY <1>1, <1>2, <1>3, <2>1 DEF BackKind, EvictAndRefill, Back, trainVars
<1>4. ASSUME HasEnough, NEW chosen \in SUBSET Sampleable, Oldest(chosen),
             SyncSelect(chosen, Failed)
      PROVE  TakeKind \/ FailKind
  <2>1. Failed \cap chosen = {}
    BY <1>1
  <2> QED
    BY <1>1, <1>2, <1>4, <2>1, SyncSelectKind
<1>5. CASE Sleep({})
  <2>1. Moves({}, {}, 0)
    BY <1>1, <1>2, <1>5, MovesSleep DEF trainVars
  <2> QED
    BY <1>1, <1>2, <1>5, <2>1, FS_EmptySet DEF BackKind, Sleep, Back, trainVars
<1> QED
  BY <1>3, <1>4, <1>5 DEF DecideSync

LEMMA CreditType ==
  ASSUME TypeOK
  PROVE  /\ Earned \in Nat /\ Credit \in Nat /\ Slots \in Nat
         /\ Dispatched \in Nat /\ Credit - Dispatched \in Nat
<1>1. Cardinality(Uniform) \in Nat /\ Cardinality(Failed) \in Nat
      /\ Cardinality(SnapInFlight) \in Nat
  BY RowsFinite DEF Uniform, Failed, SnapInFlight
<1>2. credit \in Nat /\ conf.batch \in Nat
  BY ConfigurationFacts DEF TypeOK, ReplayBufferTypeOK
<1>3. Earned \in Nat
  BY <1>1 DEF Earned
<1>4. Credit \in Nat
  BY <1>2, <1>3 DEF Credit
<1>5. Slots \in Nat
  BY <1>1, <1>2 DEF Slots
<1> QED
  BY <1>3, <1>4, <1>5 DEF Dispatched

LEMMA DecideDapoKind ==
  ASSUME TypeOK, Coherent, DecideDapo, UNCHANGED <<conf, trainVars>>
  PROVE  BackKind \/ TakeKind \/ FailKind
<1>1. Evictable \in SUBSET Settled /\ Sampleable \in SUBSET Settled
      /\ Evictable \cap Sampleable = {} /\ Settled = Evictable \cup Sampleable
  BY SettledParts DEF Settled, Sampleable
<1>2. pc = "decide" /\ Sync /\ conf.dapo /\ draining' = (draining \/ HasEnough)
  BY DEF DecideDapo
<1>3. CASE EvictAndRefill(Evictable, Dispatched) /\ credit' = Credit - Dispatched
  <2>1. Moves(Evictable, {}, Dispatched)
    BY <1>1, <1>2, <1>3, MovesRefill, CreditType DEF trainVars
  <2>2. credit' + Dispatched = Credit
    BY <1>3, CreditType
  <2> QED
    BY <1>1, <1>2, <1>3, <2>1, <2>2, CreditType DEF BackKind, EvictAndRefill, Back, trainVars
<1>4. ASSUME credit' = Credit, Sleep(Evictable) PROVE BackKind
  <2>1. Moves(Evictable, {}, 0)
    BY <1>1, <1>2, <1>4, MovesSleep DEF trainVars
  <2>2. credit' + 0 = Credit
    BY <1>4, CreditType
  <2> QED
    BY <1>1, <1>2, <1>4, <2>1, <2>2 DEF BackKind, Sleep, Back, trainVars
<1>5. ASSUME HasEnough, Drained, NEW chosen \in SUBSET Sampleable, Oldest(chosen),
             SyncSelect(chosen, Evictable \cup (Sampleable \ chosen))
      PROVE  TakeKind \/ FailKind
  <2>1. PICK gone \in SUBSET Settled : gone = Evictable \cup (Sampleable \ chosen)
    BY <1>1
  <2>2. gone \cap chosen = {} /\ Settled \subseteq gone \cup chosen
    BY <1>1, <2>1
  <2> QED
    BY <1>2, <1>5, <2>1, <2>2, SyncSelectKind DEF Drained
<1> QED
  BY <1>3, <1>4, <1>5 DEF DecideDapo

LEMMA RolloutsKind ==
  ASSUME TypeOK, Rollouts
  PROVE  RolloutKind
<1> USE DEF RolloutKind, TypeOK, TransferQueueTypeOK, Rollouts, InFlight, Terminal
<1>0. MaxFaults \in Nat /\ \A r \in rolling : r \in Rows /\ status[r] = "pending"
  BY BoundsAssumption
<1>a. \A r \in rolling : status = [status EXCEPT ![r] = "pending"]
  BY <1>0
<1>1. ASSUME NEW r \in Rows, Store(r) PROVE RolloutKind
  BY <1>0, <1>a, <1>1 DEF Store
<1>2. ASSUME NEW r \in Rows, Finish(r) PROVE RolloutKind
  BY <1>0, <1>2 DEF Finish, Settle
<1>3. ASSUME NEW r \in Rows, FinishUniform(r) PROVE RolloutKind
  <2>1. /\ r \in rolling /\ status' = [status EXCEPT ![r] = "uniform"]
        /\ stored' = stored /\ rolling' = rolling \ {r}
        /\ "uniform" \in Terminal \cup {"pending"}
        /\ UNCHANGED <<step, cursor, tagged>> /\ Around
    BY <1>3 DEF FinishUniform, Settle
  <2>2. faults' \in 0..MaxFaults /\ faults' # 0
    BY <1>0, <1>3 DEF FinishUniform
  <2>3. "uniform" = "uniform" => r \in stored
    BY <1>3 DEF FinishUniform
  <2> QED
    BY <2>1, <2>2, <2>3
<1>4. ASSUME NEW r \in Rows, FailRollout(r) PROVE RolloutKind
  <2>1. /\ r \in rolling /\ status' = [status EXCEPT ![r] = "failure"]
        /\ stored' = stored /\ rolling' = rolling \ {r}
        /\ "failure" \in Terminal \cup {"pending"}
        /\ UNCHANGED <<step, cursor, tagged>> /\ Around
    BY <1>4 DEF FailRollout, Settle
  <2>2. faults' \in 0..MaxFaults /\ faults' # 0
    BY <1>0, <1>4 DEF FailRollout
  <2>3. "failure" = "uniform" => r \in stored
    BY <1>4 DEF FailRollout
  <2> QED
    BY <2>1, <2>2, <2>3
<1>5. ASSUME NEW r \in Rows, LosePrompt(r) PROVE RolloutKind
  BY <1>0, <1>a, <1>5 DEF LosePrompt
<1> QED
  BY <1>1, <1>2, <1>3, <1>4, <1>5 DEF RolloutGoesOn, RolloutFails

LEMMA StepKinds ==
  ASSUME TypeOK, Coherent, [Next]_vars
  PROVE  \/ PollKind \/ BackKind \/ TakeKind \/ FailKind
         \/ WarmUpKind \/ BeginKind \/ QuietKind \/ RolloutKind
         \/ (Start \/ Train \/ Save \/ Commit \/ EndStep \/ Restart) /\ conf' = conf
<1> USE DEF trainVars
<1>1. CASE Sampler /\ UNCHANGED trainVars
  <2>1. CASE Poll
    <3>1. Moves({}, {}, 0)
      BY <1>1, <2>1, MovesNothing DEF Poll, Sampler
    <3> QED
      BY <1>1, <2>1, <3>1 DEF PollKind, Poll
  <2> QED
    BY <1>1, <2>1, DecideAsyncKind, DecideSyncKind, DecideDapoKind DEF Sampler
<1>2. CASE WarmUp /\ UNCHANGED conf
  <2>1. warm # conf.warmup => Moves({}, {}, conf.batch)
    BY <1>2, MovesSubmit, ConfigurationFacts DEF WarmUp, TypeOK, ReplayBufferTypeOK
  <2>2. warm = conf.warmup => Moves({}, {}, 0)
    BY <1>2, MovesNothing DEF WarmUp
  <2> QED
    BY <1>2, <2>1, <2>2 DEF WarmUp, WarmUpKind
<1>3. CASE BeginStep /\ UNCHANGED conf
  <2>1. Moves({}, {}, conf.batch)
    BY <1>3, MovesSubmit, ConfigurationFacts DEF BeginStep, TypeOK, ReplayBufferTypeOK
  <2> QED
    BY <1>3, <2>1 DEF BeginStep, BeginKind, NewSample
<1>4. CASE EndTraining /\ UNCHANGED conf
  <2>1. Moves({}, {}, 0)
    BY <1>4, MovesNothing DEF EndTraining
  <2> QED
    BY <1>4, <2>1 DEF EndTraining, QuietKind
<1>5. CASE UNCHANGED vars
  <2>1. Moves({}, {}, 0)
    BY <1>5, MovesNothing DEF vars
  <2> QED
    BY <1>5, <2>1 DEF vars, QuietKind
<1> QED
  BY <1>1, <1>2, <1>3, <1>4, <1>5, RolloutsKind DEF Next, Trainer, Loop

-----------------------------------------------------------------------------
(* Each part of the invariant is preserved.                                *)

MovingKind ==
  \/ PollKind \/ BackKind \/ TakeKind \/ FailKind \/ WarmUpKind \/ BeginKind \/ QuietKind

LEMMA MovingMoves ==
  ASSUME TypeOK, MovingKind
  PROVE  \E gone \in SUBSET Rows, chosen \in SUBSET Rows, n \in Nat : Moves(gone, chosen, n)
<1>1. {} \in SUBSET Rows /\ 0 \in Nat /\ conf.batch \in Nat
  BY ConfigurationFacts DEF TypeOK, ReplayBufferTypeOK
<1>2. Evictable \subseteq Rows /\ Settled \subseteq Rows /\ Sampleable \subseteq Rows
  BY SettledParts DEF Settled
<1>3. CASE PollKind \/ FailKind \/ WarmUpKind \/ BeginKind \/ QuietKind
  BY <1>1, <1>3 DEF PollKind, FailKind, WarmUpKind, BeginKind, QuietKind
<1>4. CASE BackKind
  BY <1>1, <1>2, <1>4 DEF BackKind
<1>5. CASE TakeKind
  BY <1>1, <1>2, <1>5 DEF TakeKind
<1> QED
  BY <1>3, <1>4, <1>5 DEF MovingKind

LEMMA SamplerTypes ==
  ASSUME TypeOK, [Next]_vars
  PROVE  credit' \in Nat /\ draining' \in BOOLEAN
<1>1. credit \in Nat /\ draining \in BOOLEAN /\ HasEnough \in BOOLEAN
  BY DEF TypeOK, ReplayBufferTypeOK, HasEnough
<1>2. CASE Sampler
  <2>1. CASE DecideDapo
    <3>1. credit' \in Nat
      BY <2>1, CreditType DEF DecideDapo
    <3> QED
      BY <1>1, <2>1, <3>1 DEF DecideDapo
  <2> QED
    BY <1>1, <1>2, <2>1 DEF Sampler, Poll, DecideAsync, DecideSync
<1>3. CASE Loop
  <2>1. CASE UNCHANGED <<credit, draining>>
    BY <1>1, <2>1
  <2>2. CASE NewSample
    BY <2>2 DEF NewSample
  <2> QED
    BY <1>3, <2>1, <2>2 DEF Loop, Start, WarmUp, BeginStep, EndTraining, Train, Save, Commit, EndStep
<1>4. CASE Rollouts \/ Restart \/ UNCHANGED vars
  <2>1. CASE UNCHANGED <<credit, draining>>
    BY <1>1, <2>1
  <2>2. CASE Restart
    BY <2>2 DEF NewSample, Restart
  <2> QED
    BY <1>4, <2>1, <2>2 DEF Rollouts, Around, vars
<1> QED
  BY <1>2, <1>3, <1>4 DEF Next, Trainer

LEMMA SnapshotType ==
  ASSUME TypeOK
  PROVE  Snapshot \in Checkpoint
BY DEF TypeOK, TransferQueueTypeOK, ReplayBufferTypeOK, Snapshot, Checkpoint, NoSnapshot, Status

LEMMA ScratchType == Scratch \in Checkpoint
BY BoundsAssumption DEF Scratch, Checkpoint, NoSnapshot, Status

LEMMA StepType ==
  ASSUME IInv, [Next]_vars
  PROVE  TypeOK'
<1> USE DEF IInv
<1>0. /\ conf.warmup \in Nat /\ conf.minis \in Nat \ {0} /\ conf.batch \in Nat
      /\ conf.threshold \in Nat \ {0}
  BY ConfigurationFacts DEF TypeOK, ReplayBufferTypeOK
<1>1. CASE MovingKind
  <2>1. /\ TransferQueueTypeOK' /\ batch' \in SUBSET Rows /\ evicted' \in SUBSET Rows
        /\ conf' \in Configurations /\ trained' \in SUBSET Rows
        /\ saving' \in Checkpoint /\ latest' \in Checkpoint
    BY <1>1, MovingMoves, MovesType
  <2>2. conf' = conf
    BY <1>1, MovingMoves DEF Moves
  <2>3. snap' \in [Rows -> Status] /\ pc' \in Places /\ warm' \in 0..conf.warmup
        /\ mini' \in 0..conf.minis
    <3> USE DEF TypeOK, TransferQueueTypeOK, ReplayBufferTypeOK, NoSnapshot, Status, Places
    <3>1. CASE PollKind
      BY <3>1 DEF PollKind
    <3>2. CASE BackKind \/ TakeKind \/ FailKind
      BY <3>2 DEF BackKind, TakeKind, FailKind
    <3>3. CASE WarmUpKind
      BY <1>0, <3>3 DEF WarmUpKind
    <3>4. CASE BeginKind \/ QuietKind
      BY <1>0, <3>4 DEF BeginKind, QuietKind
    <3> QED
      BY <1>1, <3>1, <3>2, <3>3, <3>4 DEF MovingKind
  <2> QED
    BY <2>1, <2>2, <2>3, SamplerTypes DEF TypeOK, ReplayBufferTypeOK
<1>2. CASE RolloutKind
  <2>1. TransferQueueTypeOK'
    <3> USE DEF TypeOK, TransferQueueTypeOK, RolloutKind, InFlight, Status, Terminal
    <3>1. PICK r \in rolling, s \in Terminal \cup {"pending"} :
            /\ status' = [status EXCEPT ![r] = s]
            /\ stored' \in {stored, stored \cup {r}}
            /\ rolling' \in {rolling, rolling \ {r}} /\ (r \in rolling' => s = "pending")
      BY <1>2
    <3>2. status' \in [Rows -> Status] /\ stored' \subseteq Rows /\ rolling' \subseteq Rows
      BY <3>1
    <3>3. \A q \in rolling' : status'[q] = "pending"
      BY <3>1
    <3> QED
      BY <1>2, <3>2, <3>3
  <2> QED
    BY <1>2, <2>1 DEF RolloutKind, Around, TypeOK, ReplayBufferTypeOK, trainVars
<1>3. CASE (Start \/ Train \/ Save \/ Commit \/ EndStep \/ Restart) /\ conf' = conf
  <2> USE DEF TypeOK, TransferQueueTypeOK, ReplayBufferTypeOK, Places
  <2>1. CASE Start
    <3>1. tagged' \in [Rows -> Nat] /\ stored' \subseteq Rows /\ rolling' \subseteq InFlight'
      BY <2>1 DEF Start, Reissue, InFlight
    <3> QED
      BY <1>3, <2>1, <3>1 DEF Start, trainVars
  <2>2. CASE Train
    <3>1. mini + 1 \in 0..conf.minis
      BY <1>0, <2>2 DEF Train, BatchInv
    <3>2. TransferQueueTypeOK'
      BY <2>2 DEF Train, tqVars, InFlight
    <3>3. trained' \subseteq Rows /\ batch' \subseteq Rows
      BY <2>2 DEF Train
    <3> HIDE DEF TransferQueueTypeOK
    <3> QED
      BY <1>3, <2>2, <3>1, <3>2, <3>3 DEF Train, NewSample
  <2>3. CASE Save
    <3>1. saving' \in Checkpoint
      BY <2>3, SnapshotType DEF Save
    <3> QED
      BY <1>3, <2>3, <3>1 DEF Save, tqVars, InFlight
  <2>4. CASE Commit
    BY <1>3, <2>4, ScratchType DEF Commit, tqVars, InFlight
  <2>5. CASE EndStep
    <3>1. tagged' \in [Rows -> Nat] /\ stored' \subseteq Rows
      BY <2>5 DEF EndStep, Cleared
    <3> QED
      BY <1>3, <2>5, <3>1 DEF EndStep, trainVars, InFlight
  <2>6. CASE Restart
    <3>1. /\ latest.step \in Nat /\ latest.cursor \in 1..(MaxRow + 1)
          /\ latest.trained \subseteq Rows /\ latest.status \in [Rows -> Status]
          /\ latest.tagged \in [Rows -> Nat] /\ latest.stored \subseteq Rows
          /\ latest.evicted \subseteq Rows
      BY DEF Checkpoint
    <3>2. /\ step' \in Nat /\ cursor' \in 1..(MaxRow + 1) /\ trained' \subseteq Rows
          /\ status' \in [Rows -> Status] /\ tagged' \in [Rows -> Nat]
          /\ stored' \subseteq Rows /\ evicted' \subseteq Rows
      BY <2>6, <3>1 DEF Restart
    <3>3. /\ rolling' = {} /\ batch' = {} /\ snap' = NoSnapshot /\ pc' = "start"
          /\ warm' = 0 /\ mini' = 0 /\ saving' = Scratch /\ latest' = latest
          /\ credit' = 0 /\ draining' = FALSE /\ conf' = conf
      BY <1>3, <2>6 DEF Restart, NewSample
    <3>4. faults' \in 0..MaxFaults
      BY <2>6, BoundsAssumption DEF Restart
    <3>5. NoSnapshot \in [Rows -> Status]
      BY DEF NoSnapshot, Status
    <3>6. TransferQueueTypeOK'
      BY <3>2, <3>3, <3>4
    <3>7. ReplayBufferTypeOK'
      BY <3>2, <3>3, <3>5
    <3> HIDE DEF TransferQueueTypeOK, ReplayBufferTypeOK
    <3> QED
      BY <1>0, <3>2, <3>3, <3>6, <3>7, ScratchType
  <2> QED
    BY <1>3, <2>1, <2>2, <2>3, <2>4, <2>5, <2>6
<1> QED
  BY <1>1, <1>2, <1>3, StepKinds DEF MovingKind

\* Steps that are neither a rollout's nor a movement of groups.
OtherKind == (Start \/ Train \/ Save \/ Commit \/ EndStep \/ Restart) /\ conf' = conf

LEMMA NoMove ==
  ASSUME TypeOK, Moves({}, {}, 0)
  PROVE  status' = status /\ tagged' = tagged /\ stored' = stored /\ batch' = batch
         /\ Tracked' = Tracked /\ InFlight' = InFlight
<1>1. Fresh(0) = {}
  BY DEF TypeOK, TransferQueueTypeOK, Fresh
<1>2. status' = status /\ tagged' = tagged /\ stored' = stored /\ batch' = batch
  BY <1>1 DEF Moves, TypeOK, TransferQueueTypeOK
<1> QED
  BY <1>2 DEF Tracked, InFlight

\* A rollout takes prompts out of flight, never in.
LEMMA RolloutSets ==
  ASSUME TypeOK, RolloutKind
  PROVE  /\ Tracked' = Tracked /\ InFlight' \subseteq InFlight /\ Orphans' \subseteq Orphans
         /\ stored \subseteq stored' /\ stored' \subseteq stored \cup InFlight
         /\ \A r \in Rows : r \notin InFlight => status'[r] = status[r]
         /\ \A r \in InFlight : status'[r] \in {"finished", "uniform"} => r \in stored
<1> USE DEF TypeOK, TransferQueueTypeOK, Terminal
<1>1. PICK r \in rolling, s \in Terminal \cup {"pending"} :
        /\ status' = [status EXCEPT ![r] = s]
        /\ stored' \in {stored, stored \cup {r}}
        /\ s \in {"finished", "uniform"} => r \in stored
  BY DEF RolloutKind
<1>2. r \in InFlight /\ r \in Rows /\ status[r] = "pending"
  BY DEF InFlight
<1>3. \A q \in Rows : status'[q] = IF q = r THEN s ELSE status[q]
  BY <1>1, <1>2
<1>4. Tracked' = Tracked
  BY <1>2, <1>3 DEF Tracked
<1>5. InFlight' \subseteq InFlight
  BY <1>2, <1>3 DEF InFlight
<1>6. Orphans' \subseteq Orphans
  <2>1. r \in Tracked /\ batch' = batch
    BY <1>2 DEF InFlight, Tracked, RolloutKind, Around
  <2> QED
    BY <1>1, <1>4, <2>1 DEF Orphans
<1>7. \A q \in Rows : q \notin InFlight => status'[q] = status[q]
  BY <1>2, <1>3
<1>8. \A q \in InFlight : status'[q] \in {"finished", "uniform"} => q \in stored
  BY <1>1, <1>2, <1>3 DEF InFlight
<1> QED
  BY <1>1, <1>2, <1>4, <1>5, <1>6, <1>7, <1>8

LEMMA StepCoherent ==
  ASSUME IInv, [Next]_vars
  PROVE  Coherent'
<1> USE DEF IInv
<1>1. CASE PollKind
  BY <1>1, NoMove DEF PollKind, Coherent
<1>2. CASE BackKind \/ TakeKind \/ FailKind
  BY <1>2 DEF BackKind, TakeKind, FailKind, Coherent, NoSnapshot
<1>3. CASE WarmUpKind \/ BeginKind
  BY <1>3 DEF WarmUpKind, BeginKind, Coherent, NoSnapshot
<1>4. CASE QuietKind
  BY <1>4, NoMove DEF QuietKind, Coherent, NoSnapshot
<1>5. CASE RolloutKind
  <2>1. pc' = pc /\ snap' = snap /\ Tracked' = Tracked
    BY <1>5, RolloutSets DEF RolloutKind, Around
  <2>2. ASSUME pc = "decide", NEW r \in Rows
        PROVE  /\ snap[r] = "none" <=> status'[r] = "none"
               /\ snap[r] \in Terminal => status'[r] = snap[r]
    <3>1. status'[r] = "none" <=> status[r] = "none"
      BY <2>1 DEF Tracked
    <3>2. snap[r] \in Terminal => r \notin InFlight
      BY <2>2 DEF Coherent, InFlight, Terminal
    <3> QED
      BY <1>5, <2>2, <3>1, <3>2, RolloutSets DEF Coherent
  <2> QED
    BY <2>1, <2>2 DEF Coherent, NoSnapshot
<1>6. CASE OtherKind
  BY <1>6 DEF OtherKind, Start, Train, Save, Commit, EndStep, Restart, Coherent, NoSnapshot
<1> QED
  BY <1>1, <1>2, <1>3, <1>4, <1>5, <1>6, StepKinds DEF OtherKind

LEMMA StepBatch ==
  ASSUME IInv, [Next]_vars
  PROVE  BatchInv'
<1> USE DEF IInv, BatchInv
<1>0. conf.minis \in Nat \ {0} /\ mini \in Nat
  BY ConfigurationFacts DEF TypeOK, ReplayBufferTypeOK
<1>1. CASE PollKind \/ FailKind
  BY <1>1 DEF PollKind, FailKind, Moves
<1>2. CASE BackKind \/ TakeKind
  BY <1>2 DEF BackKind, TakeKind, Moves
<1>3. CASE WarmUpKind
  BY <1>3 DEF WarmUpKind, Moves
<1>4. CASE BeginKind
  BY <1>0, <1>4 DEF BeginKind, Moves
<1>5. CASE QuietKind
  BY <1>5 DEF QuietKind, Moves
<1>6. CASE RolloutKind
  BY <1>6 DEF RolloutKind, Around, trainVars
<1>7. CASE OtherKind
  BY <1>0, <1>7 DEF OtherKind, Start, Train, Save, Commit, EndStep, Restart, trainVars
<1> QED
  BY <1>1, <1>2, <1>3, <1>4, <1>5, <1>6, <1>7, StepKinds DEF OtherKind

LEMMA StepOnce ==
  ASSUME IInv, [Next]_vars
  PROVE  EachPromptOnce'
<1> USE DEF IInv
<1>1. CASE MovingKind
  BY <1>1, MovingMoves, MovesOnce
<1>2. CASE RolloutKind
  BY <1>2, RolloutSets DEF RolloutKind, Around, trainVars, EachPromptOnce
<1>3. CASE OtherKind
  <2>1. CASE Start \/ Save \/ Commit
    BY <2>1 DEF Start, Save, Commit, EachPromptOnce, Tracked, tqVars, trainVars
  <2>2. CASE Train
    BY <2>2 DEF Train, EachPromptOnce, Tracked, tqVars
  <2>3. CASE EndStep
    BY <2>3 DEF EndStep, EachPromptOnce, Tracked, trainVars, BatchInv
  <2>4. CASE Restart
    BY <2>4 DEF Restart, EachPromptOnce, Tracked, CheckpointInv, TrackedIn
  <2> QED
    BY <1>3, <2>1, <2>2, <2>3, <2>4 DEF OtherKind
<1> QED
  BY <1>1, <1>2, <1>3, StepKinds DEF MovingKind, OtherKind

LEMMA SnapshotInv ==
  ASSUME IInv, pc = "save"
  PROVE  /\ CheckpointInv(Snapshot)
         /\ Orphans \subseteq Snapshot.stored /\ Orphans \subseteq Snapshot.trained
         /\ Snapshot.trained \subseteq trained
<1> USE DEF IInv
<1>1. /\ Snapshot.cursor = cursor /\ Snapshot.trained = trained /\ Snapshot.evicted = evicted
      /\ Snapshot.status = IF Sync THEN NoSnapshot ELSE status
      /\ Snapshot.stored = IF Sync THEN {} ELSE stored
  BY DEF Snapshot
<1>2. TrackedIn(Snapshot) = Tracked
  BY <1>1 DEF TrackedIn, Tracked, SyncInv, NoSnapshot
<1>3. batch \subseteq trained /\ Orphans \subseteq trained
  BY DEF BatchInv, SavedInv, TrajectoriesAccounted, Orphans
<1>4. Orphans \subseteq Snapshot.stored
  BY <1>1 DEF Orphans, TrajectoriesAccounted, CheckpointInv
<1>5. Snapshot.stored \subseteq Tracked \cup trained
  BY <1>1, <1>3 DEF Orphans
<1>6. /\ 1..(cursor - 1) = Tracked \cup trained \cup evicted
      /\ Tracked \cap (trained \cup evicted) = {} /\ trained \cap evicted = {}
  BY <1>3 DEF EachPromptOnce
<1>7. \A r \in Rows : Snapshot.status[r] \in {"finished", "uniform"} => r \in Snapshot.stored
  BY <1>1 DEF NoSnapshot, TrajectoriesAccounted, Tracked
<1>8. Sync => Snapshot.status = NoSnapshot /\ Snapshot.stored = {}
  BY <1>1
<1>9. CheckpointInv(Snapshot)
  BY <1>1, <1>2, <1>5, <1>6, <1>7, <1>8 DEF CheckpointInv
<1> QED
  BY <1>1, <1>3, <1>4, <1>9

LEMMA ScratchInv == CheckpointInv(Scratch)
<1>1. /\ Scratch.cursor = 1 /\ Scratch.trained = {} /\ Scratch.evicted = {}
      /\ Scratch.stored = {} /\ Scratch.status = NoSnapshot
  BY DEF Scratch
<1>2. TrackedIn(Scratch) = {}
  BY <1>1 DEF TrackedIn, NoSnapshot
<1> QED
  BY <1>1, <1>2 DEF CheckpointInv, NoSnapshot

LEMMA CheckpointFrame ==
  ASSUME NEW c, NEW d, CheckpointInv(c), conf' = conf, d = c
  PROVE  /\ 1..(d.cursor - 1) = TrackedIn(d) \cup d.trained \cup d.evicted
         /\ TrackedIn(d) \cap (d.trained \cup d.evicted) = {}
         /\ d.trained \cap d.evicted = {}
         /\ d.stored \subseteq TrackedIn(d) \cup d.trained
         /\ \A r \in Rows : d.status[r] \in {"finished", "uniform"} => r \in d.stored
         /\ Sync' => d.status = NoSnapshot /\ d.stored = {}
BY DEF CheckpointInv, Sync

LEMMA StepCheckpoints ==
  ASSUME IInv, [Next]_vars
  PROVE  CheckpointInv(latest)' /\ CheckpointInv(saving)'
<1> USE DEF IInv
<1>1. conf' = conf
  <2>1. CASE MovingKind
    BY <2>1, MovingMoves DEF Moves
  <2> QED
    BY <2>1, StepKinds DEF MovingKind, RolloutKind, Around
<1>2. \/ latest' = latest /\ saving' = saving
      \/ pc = "save" /\ latest' = latest /\ saving' = Snapshot
      \/ latest' = saving /\ saving' = Scratch
      \/ latest' = latest /\ saving' = Scratch
  <2>1. CASE MovingKind
    BY <2>1, MovingMoves DEF Moves
  <2>2. CASE RolloutKind
    BY <2>2 DEF RolloutKind, Around, trainVars
  <2>3. CASE OtherKind
    BY <2>3 DEF OtherKind, Start, Train, Save, Commit, EndStep, Restart, trainVars
  <2> QED
    BY <2>1, <2>2, <2>3, StepKinds DEF MovingKind, OtherKind
<1>3. PICK l, k : /\ l = latest' /\ k = saving'
                  /\ CheckpointInv(l) /\ CheckpointInv(k)
  BY <1>2, SnapshotInv, ScratchInv
<1> QED
  BY <1>1, <1>3, CheckpointFrame DEF CheckpointInv, TrackedIn

LEMMA StepAccounted ==
  ASSUME IInv, [Next]_vars
  PROVE  TrajectoriesAccounted' /\ SavedInv'
<1> USE DEF IInv
<1>1. CASE MovingKind
  <2>1. TrajectoriesAccounted' /\ Orphans' \subseteq Orphans
    BY <1>1, MovingMoves, MovesAccounted
  <2>2. UNCHANGED <<trained, saving, latest>>
    BY <1>1, MovingMoves DEF Moves
  <2>3. pc' = "commit" => pc = "commit"
    BY <1>1 DEF MovingKind, PollKind, BackKind, TakeKind, FailKind, WarmUpKind, BeginKind, QuietKind
  <2> QED
    BY <2>1, <2>2, <2>3 DEF SavedInv
<1>2. CASE RolloutKind
  <2>1. /\ Tracked' = Tracked /\ Orphans' \subseteq Orphans /\ InFlight \subseteq Tracked
        /\ stored \subseteq stored' /\ stored' \subseteq stored \cup InFlight
    BY <1>2, RolloutSets DEF InFlight, Tracked
  <2>2. UNCHANGED <<pc, batch, trained, saving, latest>> /\ (faults' = 0 => faults = 0)
    BY <1>2 DEF RolloutKind, Around, trainVars
  <2>3. rolling' \subseteq InFlight'
    BY <1>2, StepType DEF TypeOK, TransferQueueTypeOK
  <2>4. ASSUME NEW r \in Tracked', status'[r] \in {"finished", "uniform"} PROVE r \in stored'
    <3>1. r \in Rows /\ r \in Tracked
      BY <2>1, <2>4 DEF Tracked
    <3>2. CASE r \in InFlight
      BY <1>2, <2>1, <2>4, <3>2, RolloutSets
    <3>3. CASE r \notin InFlight
      BY <1>2, <2>1, <2>4, <3>1, <3>3, RolloutSets DEF TrajectoriesAccounted
    <3> QED
      BY <3>2, <3>3
  <2> QED
    BY <2>1, <2>2, <2>3, <2>4 DEF SavedInv, TrajectoriesAccounted, Orphans
<1>3. CASE OtherKind
  <2>1. rolling' \subseteq InFlight'
    BY StepType DEF TypeOK, TransferQueueTypeOK
  <2>2. CASE Start
    <3>1. /\ Tracked' = Tracked /\ stored' = stored \ InFlight
          /\ UNCHANGED <<status, batch, faults, trained, saving, latest>> /\ pc' = "warmup"
      BY <2>2 DEF Start, Reissue, Tracked, trainVars
    <3> QED
      BY <2>1, <3>1 DEF SavedInv, TrajectoriesAccounted, Orphans, Tracked, InFlight
  <2>3. CASE Train
    <3>1. /\ Tracked' = Tracked
          /\ UNCHANGED <<status, stored, batch, faults, saving, latest>> /\ trained \subseteq trained'
          /\ pc' # "commit"
      BY <2>3 DEF Train, Tracked, tqVars
    <3> QED
      BY <2>1, <3>1 DEF SavedInv, TrajectoriesAccounted, Orphans
  <2>4. CASE Save
    <3>1. /\ Tracked' = Tracked /\ saving' = Snapshot
          /\ UNCHANGED <<status, stored, batch, faults, trained, latest>>
      BY <2>4 DEF Save, Tracked, tqVars
    <3> QED
      BY <2>1, <2>4, <3>1, SnapshotInv DEF SavedInv, TrajectoriesAccounted, Orphans, Save
  <2>5. CASE Commit
    <3>1. /\ Tracked' = Tracked /\ latest' = saving /\ pc = "commit" /\ pc' = "end"
          /\ UNCHANGED <<status, stored, batch, faults, trained>>
      BY <2>5 DEF Commit, Tracked, tqVars
    <3> QED
      BY <2>1, <3>1 DEF SavedInv, TrajectoriesAccounted, Orphans
  <2>6. CASE EndStep
    <3>1. /\ Tracked' = Tracked /\ stored' = stored \ batch /\ batch' = {} /\ pc' # "commit"
          /\ UNCHANGED <<status, faults, trained, saving, latest>>
      BY <2>6 DEF EndStep, Cleared, Tracked, trainVars
    <3>2. batch \cap Tracked = {}
      BY DEF EachPromptOnce
    <3> QED
      BY <2>1, <3>1, <3>2 DEF SavedInv, TrajectoriesAccounted, Orphans
  <2>7. CASE Restart
    <3>1. /\ Tracked' = TrackedIn(latest) /\ stored' = latest.stored /\ batch' = {}
          /\ pc' # "commit" /\ trained' = latest.trained /\ latest' = latest
          /\ status' = latest.status
      BY <2>7 DEF Restart, Tracked, TrackedIn
    <3>2. faults' # 0
      BY <2>7 DEF Restart, TypeOK, TransferQueueTypeOK
    <3>3. \A r \in Rows : latest.status[r] \in {"finished", "uniform"} => r \in latest.stored
      BY DEF CheckpointInv
    <3>4. latest.stored \subseteq TrackedIn(latest) \cup latest.trained
      BY DEF CheckpointInv
    <3> QED
      BY <2>1, <3>1, <3>2, <3>3, <3>4 DEF SavedInv, TrajectoriesAccounted, Tracked
  <2> QED
    BY <1>3, <2>2, <2>3, <2>4, <2>5, <2>6, <2>7 DEF OtherKind
<1> QED
  BY <1>1, <1>2, <1>3, StepKinds DEF MovingKind, OtherKind

\* The age of a prompt that stays.
LEMMA MovesSpan ==
  ASSUME TypeOK, EachPromptOnce, NEW gone \in SUBSET Rows, NEW chosen \in SUBSET Rows,
         NEW n \in Nat, Moves(gone, chosen, n)
  PROVE  /\ \A r \in (Tracked \cup batch) \ gone : tagged'[r] = tagged[r] /\ Span(r)' = Span(r)
         /\ \A r \in Fresh(n) : tagged'[r] = step /\ Span(r)' = 1
<1>1. step' = step /\ step \in Nat /\ tagged \in [Rows -> Nat] /\ batch \subseteq Rows
  BY DEF Moves, TypeOK, TransferQueueTypeOK, ReplayBufferTypeOK
<1>2. \A r \in Rows \ Fresh(n) : r \notin gone => tagged'[r] = tagged[r]
  BY MovesSets
<1>3. \A r \in Fresh(n) : tagged'[r] = step
  BY MovesSets
<1>4. Tracked \cup batch \subseteq Rows \ Fresh(n)
  BY <1>1, MovesSets DEF Tracked
<1> QED
  BY <1>1, <1>2, <1>3, <1>4 DEF Span

LEMMA FreshCount ==
  ASSUME TypeOK, NEW n \in Nat
  PROVE  IsFiniteSet(Fresh(n)) /\ Cardinality(Fresh(n)) = n
<1>1. PICK k \in Nat : k = cursor
  BY DEF TypeOK, TransferQueueTypeOK
<1>2. IsFiniteSet(k..(k + n - 1)) /\ Cardinality(k..(k + n - 1)) = n
  BY FS_Interval
<1> QED
  BY <1>1, <1>2 DEF Fresh

\* Evictions with a refill of as many keep the number of prompts.
LEMMA RefillKeepsCount ==
  ASSUME TypeOK, EachPromptOnce, NEW gone \in SUBSET Rows, NEW n \in Nat, Moves(gone, {}, n)
  PROVE  Cardinality(Tracked') = Cardinality(Tracked) - Cardinality(gone) + n
<1>a. /\ Tracked' = (Tracked \ (gone \cup {})) \cup Fresh(n) /\ Fresh(n) \cap Tracked = {}
  BY MovesSets
<1>b. gone \subseteq Tracked
  BY MovesParts
<1>1. /\ Tracked' = (Tracked \ gone) \cup Fresh(n) /\ Fresh(n) \cap Tracked = {}
      /\ gone \subseteq Tracked
  BY <1>a, <1>b
<1>2. /\ IsFiniteSet(Tracked \ gone) /\ IsFiniteSet(gone)
      /\ Cardinality(Tracked \ gone) \in Nat /\ Cardinality(gone) \in Nat
  BY RowsFinite DEF Tracked
<1>3. Cardinality(Tracked) = Cardinality(Tracked \ gone) + Cardinality(gone)
  <2>1. Tracked = (Tracked \ gone) \cup gone /\ (Tracked \ gone) \cap gone = {}
    BY <1>1
  <2> QED
    BY <1>2, <2>1, FS_Union, FS_EmptySet
<1>4. Cardinality(Tracked') = Cardinality(Tracked \ gone) + n
  <2>1. PICK T \in SUBSET Rows : T = Tracked \ gone
    BY DEF Tracked
  <2>2. T \cap Fresh(n) = {} /\ Cardinality({}) = 0
    BY <1>1, <2>1, FS_EmptySet
  <2>3. PICK U : U = Fresh(n) /\ IsFiniteSet(U) /\ Cardinality(U) = n
    BY FreshCount
  <2>4. Cardinality(T \cup U) = Cardinality(T) + Cardinality(U) - Cardinality(T \cap U)
    BY <1>2, <2>1, <2>3, FS_Union
  <2>5. T \cap U = {} /\ Tracked' = T \cup U
    BY <1>1, <2>1, <2>3
  <2>6. Cardinality(T) \in Nat /\ Cardinality(T \cap U) = 0
    BY <1>2, <2>1, <2>2, <2>5
  <2>7. Cardinality(T \cup U) = Cardinality(T) + n
    BY <2>3, <2>4, <2>6
  <2> QED
    BY <2>1, <2>5, <2>7
<1> QED
  BY <1>2, <1>3, <1>4

\* What the synchronous sampler takes and discards is all there is.
LEMMA SyncTakesAll ==
  ASSUME IInv, Sync, TakeKind
  PROVE  Tracked' = {} /\ \A r \in batch' : tagged'[r] = step
<1> USE DEF IInv
<1>1. PICK chosen \in SUBSET Sampleable, gone \in SUBSET Settled :
        /\ gone \cap chosen = {} /\ Moves(gone, chosen, 0) /\ Oldest(chosen)
        /\ conf.dapo => SnapInFlight = {} /\ Settled \subseteq gone \cup chosen
  BY DEF TakeKind
<1>2. pc = "decide" /\ chosen \in SUBSET Rows /\ gone \in SUBSET Rows
  BY SettledParts DEF TakeKind, Settled
<1>3. /\ Tracked' = Tracked \ (gone \cup chosen)
      /\ chosen \subseteq Tracked /\ batch' = batch \cup chosen
  <2>1. Tracked' = Tracked \ (gone \cup chosen)
    BY <1>1, <1>2, MovesTracked
  <2>2. chosen \subseteq Tracked /\ batch' = batch \cup chosen
    BY <1>1, <1>2, MovesParts
  <2> QED
    BY <2>1, <2>2
<1>5. batch = {} /\ \A r \in Tracked : tagged[r] = step
  BY <1>2 DEF SyncInv
<1>6. \A r \in batch' : tagged'[r] = step
  <2>1. \A r \in (Tracked \cup batch) \ gone : tagged'[r] = tagged[r]
    BY <1>1, <1>2, MovesSpan
  <2> QED
    BY <1>1, <1>3, <1>5, <2>1
<1>7. CASE conf.dapo
  <2>1. Tracked \subseteq Settled
    BY <1>1, <1>2, <1>7
    DEF Coherent, Tracked, Settled, SnapInFlight, TypeOK, ReplayBufferTypeOK, Status, Terminal
  <2> QED
    BY <1>1, <1>3, <1>6, <1>7, <2>1
<1>8. CASE ~conf.dapo
  <2>1. Cardinality(Tracked) = conf.batch /\ Cardinality(chosen) = conf.batch
    BY <1>1, <1>2, <1>8, SampleSizeType DEF SyncInv, Oldest, TypeOK, ReplayBufferTypeOK
  <2>2. IsFiniteSet(Tracked)
    BY RowsFinite DEF Tracked
  <2>3. Tracked = chosen
    BY <1>3, <2>1, <2>2, FS_Subset
  <2> QED
    BY <1>3, <1>6, <2>3
<1> QED
  BY <1>7, <1>8

LEMMA ConfStays ==
  ASSUME TypeOK, Coherent, [Next]_vars
  PROVE  conf' = conf /\ (Sync' <=> Sync)
<1>1. CASE MovingKind
  BY <1>1, MovingMoves DEF Moves, Sync
<1> QED
  BY <1>1, StepKinds DEF MovingKind, RolloutKind, Around, Sync

LEMMA StepSync ==
  ASSUME IInv, [Next]_vars
  PROVE  SyncInv'
<1> SUFFICES ASSUME Sync, conf' = conf
    PROVE  /\ pc' \in {"poll", "decide"} =>
                /\ batch' = {} /\ \A r \in Tracked' : tagged'[r] = step'
                /\ ~conf.dapo => Cardinality(Tracked') = conf.batch
           /\ pc' \in {"start", "warmup", "next", "train", "save", "commit", "end"} => Tracked' = {}
           /\ pc' = "train" => \A r \in batch' : tagged'[r] = step'
  BY ConfStays DEF IInv, SyncInv
<1> USE DEF IInv
<1>0. /\ conf.minis = 1 /\ conf.warmup = 0 /\ conf.batch \in Nat /\ step \in Nat
      /\ Tracked \subseteq Rows
  BY ConfigurationFacts DEF TypeOK, TransferQueueTypeOK, ReplayBufferTypeOK, Tracked
<1>1. CASE PollKind \/ QuietKind \/ FailKind
  <2>1. Moves({}, {}, 0)
    BY <1>1 DEF PollKind, QuietKind, FailKind
  <2>2. Tracked' = Tracked /\ tagged' = tagged /\ batch' = batch /\ step' = step
    BY <2>1, NoMove DEF Moves
  <2> QED
    BY <1>1, <2>2 DEF PollKind, QuietKind, FailKind, SyncInv
<1>2. CASE BackKind
  <2>1. PICK gone \in SUBSET Rows, n \in Nat :
          Moves(gone, {}, n) /\ (~conf.dapo => n = Cardinality(gone))
    BY <1>2, SettledParts DEF BackKind, Settled
  <2>2. /\ batch = {} /\ \A r \in Tracked : tagged[r] = step
        /\ ~conf.dapo => Cardinality(Tracked) = conf.batch
    BY <1>2 DEF BackKind, SyncInv
  <2>3. /\ Tracked' = (Tracked \ gone) \cup Fresh(n) /\ batch' = {} /\ step' = step
    <3>0. Moves(gone, {}, n)
      BY <2>1
    <3>1. Tracked' = (Tracked \ (gone \cup {})) \cup Fresh(n)
      BY <3>0, MovesSets
    <3>2. batch' = batch \cup {} /\ step' = step
      BY <2>1, MovesParts
    <3> QED
      BY <2>2, <3>1, <3>2
  <2>4. \A r \in Tracked' : tagged'[r] = step'
    BY <2>1, <2>2, <2>3, MovesSpan
  <2>5. ~conf.dapo => Cardinality(Tracked') = conf.batch
    <3>1. Cardinality(gone) \in Nat
      BY RowsFinite
    <3> QED
      BY <1>0, <2>1, <2>2, <3>1, RefillKeepsCount
  <2> QED
    BY <1>2, <2>3, <2>4, <2>5 DEF BackKind
<1>3. CASE TakeKind
  <2>1. pc' = "train" /\ step' = step
    <3>1. MovingKind
      BY <1>3 DEF MovingKind
    <3> QED
      BY <1>3, <3>1, MovingMoves DEF TakeKind, Moves
  <2> QED
    BY <1>3, <2>1, SyncTakesAll
<1>4. CASE WarmUpKind
  <2>1. Moves({}, {}, 0) /\ pc = "warmup" /\ pc' = "next"
    BY <1>0, <1>4 DEF WarmUpKind, TypeOK
  <2> QED
    BY <2>1, NoMove DEF SyncInv
<1>5. CASE BeginKind
  <2>1. Moves({}, {}, conf.batch) /\ pc = "next" /\ pc' = "poll"
    BY <1>5 DEF BeginKind
  <2>2. Tracked = {} /\ batch = {}
    BY <2>1 DEF SyncInv, BatchInv
  <2>3. Tracked' = Fresh(conf.batch) /\ batch' = {} /\ step' = step
    <3>1. Tracked' = (Tracked \ ({} \cup {})) \cup Fresh(conf.batch)
      BY <1>0, <2>1, MovesSets
    <3>2. batch' = batch \cup {} /\ step' = step
      BY <1>0, <2>1, MovesParts
    <3> QED
      BY <2>2, <3>1, <3>2
  <2>4. \A r \in Tracked' : tagged'[r] = step'
    BY <1>0, <2>1, <2>3, MovesSpan
  <2> QED
    BY <1>0, <2>1, <2>3, <2>4, FreshCount
<1>6. CASE RolloutKind
  BY <1>6, RolloutSets DEF RolloutKind, Around, SyncInv
<1>7. CASE OtherKind
  <2>1. CASE Start \/ Save \/ Commit
    BY <2>1 DEF Start, Save, Commit, SyncInv, Tracked, tqVars
  <2>2. CASE Train
    <3>1. mini + 1 >= conf.minis
      BY <1>0, <2>2 DEF TypeOK
    <3> QED
      BY <1>0, <2>2, <3>1 DEF Train, SyncInv, Tracked, tqVars, TypeOK
  <2>3. CASE EndStep
    BY <2>3 DEF EndStep, SyncInv, Tracked
  <2>4. CASE Restart
    BY <2>4 DEF Restart, Tracked, CheckpointInv, NoSnapshot
  <2> QED
    BY <1>7, <2>1, <2>2, <2>3, <2>4 DEF OtherKind
<1> QED
  BY <1>1, <1>2, <1>3, <1>4, <1>5, <1>6, <1>7, StepKinds DEF OtherKind

\* What moves is not in the batch yet, and prompts in flight stay.
LEMMA MovesAges ==
  ASSUME TypeOK, EachPromptOnce, NEW gone \in SUBSET Rows, NEW chosen \in SUBSET Rows,
         NEW n \in Nat, Moves(gone, chosen, n)
  PROVE  /\ \A r \in batch : Span(r)' = Span(r)
         /\ \A r \in chosen : Span(r)' = Span(r)
         /\ \A r \in InFlight' : Span(r)' = 1 \/ (r \in InFlight /\ Span(r)' = Span(r))
<1>1. /\ gone \subseteq Tracked \ InFlight /\ chosen \subseteq Tracked /\ gone \cap chosen = {}
      /\ batch \cap Tracked = {} /\ InFlight \subseteq Tracked
  BY DEF Moves, EachPromptOnce, InFlight, Tracked
<1>2. /\ \A r \in (Tracked \cup batch) \ gone : Span(r)' = Span(r)
      /\ \A r \in Fresh(n) : Span(r)' = 1
  BY MovesSpan
<1>3. \A r \in InFlight' : r \in InFlight \/ r \in Fresh(n)
  BY MovesSets
<1> QED
  BY <1>1, <1>2, <1>3

LEMMA SpanType ==
  ASSUME TypeOK, NEW r \in Rows
  PROVE  Span(r) \in Int
BY DEF TypeOK, TransferQueueTypeOK, Span

LEMMA StepDrop ==
  ASSUME IInv, [Next]_vars
  PROVE  DropInv'
<1> USE DEF IInv
<1> SUFFICES ASSUME conf' = conf, conf.mode = "drop", ~Sync,
                    pc' \in {"poll", "decide", "train"}
    PROVE  \A r \in batch' : Span(r)' <= conf.threshold
  BY ConfStays DEF DropInv, Sync
<1>0. batch \subseteq Rows
  BY DEF TypeOK, ReplayBufferTypeOK
<1>1. CASE PollKind \/ QuietKind \/ BackKind
  <2>1. PICK gone \in SUBSET Rows, n \in Nat : Moves(gone, {}, n)
    BY <1>1, SettledParts DEF PollKind, QuietKind, BackKind, Settled
  <2>2. \A r \in batch : Span(r)' = Span(r)
    BY <2>1, MovesAges
  <2>3. batch' = batch /\ pc \in {"poll", "decide", "train"}
    BY <1>1, <2>1 DEF Moves, PollKind, QuietKind, BackKind
  <2> QED
    BY <2>2, <2>3 DEF DropInv
<1>2. CASE TakeKind
  <2>1. PICK chosen \in SUBSET Sampleable : Moves({}, chosen, 0) /\ Evictable = {}
    BY <1>2 DEF TakeKind
  <2>2. chosen \in SUBSET Rows /\ pc = "decide"
    BY <1>2 DEF TakeKind, Sampleable
  <2>3. /\ \A r \in batch : Span(r)' = Span(r)
        /\ \A r \in chosen : Span(r)' = Span(r)
    BY <2>1, <2>2, MovesAges
  <2>4. \A r \in chosen : Span(r) <= conf.threshold
    <3>1. TAKE r \in chosen
    <3>2. r \in Rows /\ snap[r] \in Terminal /\ r \notin Stale /\ r \notin Failed
      BY <2>1 DEF Sampleable, Evictable
    <3>3. snap[r] \in {"finished", "uniform"}
      BY <3>2 DEF Failed, Terminal
    <3>4. ~(Span(r) > conf.threshold)
      BY <3>2, <3>3 DEF Stale
    <3> QED
      BY <3>2, <3>4, SpanType, ConfigurationFacts DEF TypeOK, ReplayBufferTypeOK
  <2>5. batch' = batch \cup chosen
    BY <2>1 DEF Moves
  <2> QED
    BY <2>2, <2>3, <2>4, <2>5 DEF DropInv
<1>3. CASE FailKind \/ WarmUpKind
  BY <1>3 DEF FailKind, WarmUpKind
<1>4. CASE BeginKind
  BY <1>4 DEF BeginKind, Moves, BatchInv
<1>5. CASE RolloutKind
  BY <1>5 DEF RolloutKind, Around, DropInv, Span
<1>6. CASE OtherKind
  <2>1. Train
    BY <1>6 DEF OtherKind, Start, Save, Commit, EndStep, Restart
  <2> QED
    BY <2>1 DEF Train, tqVars, DropInv, Span
<1> QED
  BY <1>1, <1>2, <1>3, <1>4, <1>5, <1>6, StepKinds DEF OtherKind

LEMMA StepWait ==
  ASSUME IInv, [Next]_vars
  PROVE  WaitInv'
<1> USE DEF IInv
<1> SUFFICES ASSUME conf' = conf, conf.mode = "wait"
    PROVE  /\ pc' \notin {"start", "over"} => \A r \in InFlight' : Span(r)' <= conf.threshold
           /\ pc' \in {"train", "save", "commit", "end"} =>
                \A r \in InFlight' : Span(r)' < conf.threshold
  BY ConfStays DEF WaitInv
<1>0. conf.threshold \in Nat \ {0} /\ conf.batch \in Nat
  BY ConfigurationFacts DEF TypeOK, ReplayBufferTypeOK
<1>a. InFlight \subseteq Rows /\ \A r \in InFlight : Span(r) \in Int
  BY SpanType DEF InFlight
<1>1. CASE PollKind \/ FailKind \/ BackKind \/ WarmUpKind \/ BeginKind
  <2>1. PICK gone \in SUBSET Rows, n \in Nat : Moves(gone, {}, n)
    BY <1>0, <1>1, SettledParts
    DEF PollKind, FailKind, BackKind, WarmUpKind, BeginKind, Settled
  <2>2. \A r \in InFlight' : Span(r)' = 1 \/ (r \in InFlight /\ Span(r)' = Span(r))
    BY <2>1, MovesAges
  <2>3. /\ pc \notin {"start", "over"}
        /\ pc' \notin {"train", "save", "commit", "end"}
    BY <1>1 DEF PollKind, FailKind, BackKind, WarmUpKind, BeginKind
  <2> QED
    BY <1>0, <2>2, <2>3 DEF WaitInv
<1>2. CASE QuietKind
  <2>1. InFlight' = InFlight /\ tagged' = tagged /\ step' = step
    BY <1>2, NoMove DEF QuietKind, Moves
  <2> QED
    BY <1>2, <2>1 DEF QuietKind, WaitInv, Span
<1>3. CASE TakeKind
  <2>1. PICK chosen \in SUBSET Sampleable : Moves({}, chosen, 0)
    BY <1>3 DEF TakeKind, Sync
  <2>2. chosen \in SUBSET Rows /\ pc = "decide" /\ ~Waits
    BY <1>3 DEF TakeKind, Sampleable, HasEnough
  <2>3. \A r \in InFlight' : Span(r)' = 1 \/ (r \in InFlight /\ Span(r)' = Span(r))
    BY <2>1, <2>2, MovesAges
  <2>4. InFlight' = InFlight
    <3>1. PICK n \in Nat : n = 0
      OBVIOUS
    <3>2. Moves({}, chosen, n)
      BY <2>1, <3>1
    <3>3. InFlight' = InFlight \cup Fresh(n)
      BY <2>2, <3>2, MovesSets
    <3>4. Fresh(n) = {}
      BY <3>1 DEF TypeOK, TransferQueueTypeOK, Fresh
    <3> QED
      BY <3>3, <3>4
  <2>5. InFlight \subseteq SnapInFlight
    BY <2>2 DEF Coherent, InFlight, SnapInFlight, TypeOK, ReplayBufferTypeOK, Status, Terminal
  <2>6. \A r \in InFlight : Span(r) < conf.threshold
    BY <1>0, <1>a, <2>2, <2>5 DEF Waits
  <2>7. \A r \in InFlight' : Span(r)' = Span(r)
    <3>1. /\ \A r \in (Tracked \cup batch) \ {} : Span(r)' = Span(r)
      BY <2>1, <2>2, MovesSpan
    <3> QED
      BY <2>4, <3>1 DEF InFlight, Tracked
  <2> QED
    BY <1>0, <1>a, <2>4, <2>6, <2>7
<1>4. CASE RolloutKind
  <2>1. InFlight' \subseteq InFlight /\ pc' = pc /\ tagged' = tagged /\ step' = step
    BY <1>4, RolloutSets DEF RolloutKind, Around
  <2> QED
    BY <2>1 DEF WaitInv, Span
<1>5. CASE OtherKind
  <2>1. CASE Start
    <3>1. InFlight' = InFlight /\ \A r \in InFlight : tagged'[r] = step' /\ step' \in Nat
      BY <2>1 DEF Start, Reissue, InFlight, TypeOK, TransferQueueTypeOK
    <3>2. \A r \in InFlight' : Span(r)' = 1
      BY <3>1 DEF Span
    <3> QED
      BY <1>0, <2>1, <3>2 DEF Start
  <2>2. CASE Train \/ Save \/ Commit
    <3>1. /\ InFlight' = InFlight /\ tagged' = tagged /\ step' = step
          /\ pc \in {"train", "save", "commit"}
      BY <2>2 DEF Train, Save, Commit, tqVars, InFlight
    <3> QED
      BY <1>0, <1>a, <3>1 DEF WaitInv, Span
  <2>3. CASE EndStep
    <3>1. InFlight' = InFlight /\ InFlight \cap batch = {} /\ step' = step + 1
      BY <2>3 DEF EndStep, InFlight, EachPromptOnce, Tracked
    <3>2. \A r \in InFlight : tagged'[r] = tagged[r]
      BY <1>a, <2>3, <3>1 DEF EndStep
    <3>3. \A r \in InFlight : Span(r)' = Span(r) + 1
      BY <1>a, <3>1, <3>2 DEF Span, TypeOK, TransferQueueTypeOK
    <3>4. pc = "end" /\ pc' \in {"over", "next"}
      BY <2>3 DEF EndStep
    <3> QED
      BY <1>0, <1>a, <3>1, <3>3, <3>4 DEF WaitInv
  <2>4. CASE Restart
    BY <2>4 DEF Restart
  <2> QED
    BY <1>5, <2>1, <2>2, <2>3, <2>4 DEF OtherKind
<1> QED
  BY <1>1, <1>2, <1>3, <1>4, <1>5, StepKinds DEF OtherKind

-----------------------------------------------------------------------------
(* The theorems.                                                           *)

LEMMA InitInv == Init => IInv
<1> SUFFICES ASSUME Init PROVE IInv
  OBVIOUS
<1>0. /\ conf.warmup \in Nat /\ conf.minis \in Nat \ {0}
  BY ConfigurationFacts DEF Init
<1>1. /\ conf \in Configurations /\ step = 0 /\ cursor = 1 /\ status = NoSnapshot
      /\ tagged = [r \in Rows |-> 0] /\ stored = {} /\ rolling = {} /\ faults = 0
      /\ pc = "start" /\ snap = NoSnapshot /\ credit = 0 /\ draining = FALSE
      /\ batch = {} /\ evicted = {} /\ warm = 0 /\ mini = 0 /\ trained = {}
      /\ saving = Scratch /\ latest = Scratch
  BY DEF Init
<1>2. Tracked = {} /\ InFlight = {} /\ Orphans = {}
  BY <1>1 DEF Tracked, InFlight, Orphans, NoSnapshot
<1>3. NoSnapshot \in [Rows -> Status]
  BY DEF NoSnapshot, Status
<1>4. TransferQueueTypeOK
  BY <1>1, <1>2, <1>3, BoundsAssumption DEF TransferQueueTypeOK
<1>5. ReplayBufferTypeOK
  BY <1>1, <1>3 DEF ReplayBufferTypeOK
<1>6. TypeOK
  BY <1>0, <1>1, <1>4, <1>5, ScratchType DEF TypeOK, Places
<1>7. Coherent /\ BatchInv
  BY <1>1 DEF Coherent, BatchInv
<1>8. EachPromptOnce
  BY <1>1, <1>2 DEF EachPromptOnce
<1>9. CheckpointInv(latest) /\ CheckpointInv(saving)
  BY <1>1, ScratchInv
<1>10. TrajectoriesAccounted
  BY <1>1, <1>2 DEF TrajectoriesAccounted
<1>11. SavedInv
  BY <1>1, <1>2 DEF SavedInv, Scratch
<1>12. SyncInv /\ DropInv /\ WaitInv
  BY <1>1, <1>2 DEF SyncInv, DropInv, WaitInv
<1> QED
  BY <1>6, <1>7, <1>8, <1>9, <1>10, <1>11, <1>12 DEF IInv

LEMMA StepInv == IInv /\ [Next]_vars => IInv'
<1> SUFFICES ASSUME IInv, [Next]_vars PROVE IInv'
  OBVIOUS
<1>1. TypeOK' /\ Coherent' /\ BatchInv' /\ EachPromptOnce'
  BY StepType, StepCoherent, StepBatch, StepOnce
<1>2. CheckpointInv(latest)' /\ CheckpointInv(saving)' /\ TrajectoriesAccounted' /\ SavedInv'
  BY StepCheckpoints, StepAccounted
<1>3. SyncInv' /\ DropInv' /\ WaitInv'
  BY StepSync, StepDrop, StepWait
<1> QED
  BY <1>1, <1>2, <1>3 DEF IInv

LEMMA InductiveInvariant == Spec => []IInv
BY InitInv, StepInv, PTL DEF Spec

\* The trainer, its replay buffer and the queue keep to their types: whatever
\* is sampled, evicted, saved and restored (trainer_base.py and
\* replay_buffer.py of verl/trainer/ppo/v1).
THEOREM TrainLoopTypeCorrect == Spec => []TypeOK
<1>1. IInv => TypeOK
  BY DEF IInv
<1> QED
  BY <1>1, InductiveInvariant, PTL

\* No prompt is lost and none is trained twice, with any number of crashes
\* between any two steps of a training step or of a save: the checkpoint's
\* dataloader, weights and queue agree (_save_checkpoint, _load_checkpoint and
\* _reissue_inflight_prompts of trainer_base.py).
THEOREM EachPromptOnceCorrect == Spec => []EachPromptOnce
<1>1. IInv => EachPromptOnce
  BY DEF IInv
<1> QED
  BY <1>1, InductiveInvariant, PTL

\* No sampler trains on what spans more model versions than it allows
\* (max_off_policy_threshold in replay_buffer.py).
THEOREM StalenessCorrect == Spec => []StalenessBounded
<1>1. IInv => StalenessBounded
  <2> SUFFICES ASSUME IInv PROVE StalenessBounded
    OBVIOUS
  <2> USE DEF IInv
  <2>1. conf.mode \in {"sync", "drop", "wait"} /\ step \in Nat /\ batch \subseteq Rows
    BY ConfigurationFacts DEF TypeOK, TransferQueueTypeOK, ReplayBufferTypeOK
  <2>2. CASE conf.mode = "drop"
    BY <2>2 DEF StalenessBounded, DropInv
  <2>3. CASE conf.mode = "wait"
    BY <2>3 DEF StalenessBounded, WaitInv
  <2>4. CASE conf.mode = "sync"
    <3>1. pc = "train" => \A r \in batch : Span(r) = 1
      BY <2>1, <2>4 DEF SyncInv, Sync, Span
    <3> QED
      BY <2>4, <3>1 DEF StalenessBounded
  <2> QED
    BY <2>1, <2>2, <2>3, <2>4
<1> QED
  BY <1>1, InductiveInvariant, PTL

\* The trajectories in the queue belong to prompts that are there, to the batch
\* of the step, or to what the last checkpoint had trained (kv_clear of
\* trainer_base.py).
THEOREM TrajectoriesCorrect == Spec => []TrajectoriesAccounted
<1>1. IInv => TrajectoriesAccounted
  BY DEF IInv
<1> QED
  BY <1>1, InductiveInvariant, PTL

-----------------------------------------------------------------------------
(* Enough prompts.                                                         *)

\* The groups that the synchronous sampler has to keep.
Good == {r \in Rows : /\ status[r] \in Terminal /\ status[r] # "uniform"
                      /\ status[r] = "failure" => ~conf.refillFailed \/ r \in stored}

\* How many prompts an asynchronous trainer has, at least.
Supply ==
  CASE pc = "warmup" -> warm * conf.batch
    [] pc \in {"next", "save", "commit", "end"} -> conf.warmup * conf.batch
    [] pc \in {"poll", "decide"} -> (conf.warmup + 1) * conf.batch - mini * SampleSize
    [] pc = "train" -> (conf.warmup + 1) * conf.batch - (mini + 1) * SampleSize
    [] OTHER -> 0

\* Once draining, the synchronous sampler has the groups it needs.
EnoughInv ==
  /\ pc = "start" => warm = 0
  /\ ~Sync => Cardinality(Tracked) >= Supply
  /\ Sync /\ pc \in {"poll", "decide"} => Cardinality(Tracked) + credit >= conf.batch
  /\ Sync /\ conf.dapo /\ draining =>
       /\ pc = "poll" => Cardinality(Good) >= conf.batch
       /\ pc = "decide" => HasEnough

LEMMA BatchIsMinis ==
  ASSUME conf \in Configurations
  PROVE  conf.minis * SampleSize = conf.batch
<1>1. PICK B \in Nat, M \in Nat \ {0} : B = conf.batch /\ M = conf.minis /\ B % M = 0
  BY ConfigurationFacts
<1>2. M * (B \div M) = B
  BY <1>1
<1> QED
  BY <1>1, <1>2 DEF SampleSize

LEMMA TakeCount ==
  ASSUME TypeOK, EachPromptOnce, NEW chosen \in SUBSET Rows, NEW n \in Nat, n = 0,
         Moves({}, chosen, n)
  PROVE  Cardinality(Tracked') = Cardinality(Tracked) - Cardinality(chosen)
<1>1. Tracked' = Tracked \ chosen
  <2>1. Tracked' = Tracked \ ({} \cup chosen)
    BY MovesTracked
  <2> QED
    BY <2>1
<1>2. chosen \subseteq Tracked
  BY MovesParts
<1>3. PICK T \in SUBSET Rows : T = Tracked
  BY DEF Tracked
<1>4. /\ IsFiniteSet(T \ chosen) /\ IsFiniteSet(chosen)
      /\ Cardinality(T \ chosen) \in Nat /\ Cardinality(chosen) \in Nat
  BY <1>3, RowsFinite
<1>5. T = (T \ chosen) \cup chosen /\ (T \ chosen) \cap chosen = {}
  BY <1>2, <1>3
<1>6. Cardinality(T) = Cardinality(T \ chosen) + Cardinality(chosen)
  BY <1>4, <1>5, FS_Union, FS_EmptySet
<1> QED
  BY <1>1, <1>3, <1>4, <1>6

\* The prompts that the synchronous sampler takes out earn at least as many.
LEMMA EarnedCoversEvicted ==
  ASSUME TypeOK, Sync
  PROVE  Cardinality(Evictable) <= Earned
<1>1. Evictable = Uniform \cup Failed
  BY DEF Evictable, Stale, Sync
<1>2. PICK U \in SUBSET Rows, F \in SUBSET Rows : U = Uniform /\ F = Failed
  BY DEF Uniform, Failed
<1>3. /\ IsFiniteSet(U) /\ IsFiniteSet(F) /\ Cardinality(U) \in Nat
      /\ Cardinality(F) \in Nat /\ Cardinality(U \cap F) \in Nat
  BY RowsFinite
<1>4. Cardinality(U \cup F) = Cardinality(U) + Cardinality(F) - Cardinality(U \cap F)
  BY <1>3, FS_Union
<1> QED
  BY <1>1, <1>2, <1>3, <1>4 DEF Earned

LEMMA EnoughAsync ==
  ASSUME IInv, ~Sync, Cardinality(Tracked) >= Supply, pc = "start" => warm = 0, [Next]_vars
  PROVE  Cardinality(Tracked') >= Supply'
<1> USE DEF IInv
<1>1. PICK W \in Nat, B \in Nat, S \in Nat, M \in Nat \ {0}, m \in Nat, T \in Nat, w \in Nat :
        /\ W = conf.warmup /\ B = conf.batch /\ S = SampleSize /\ M = conf.minis
        /\ m = mini /\ T = Cardinality(Tracked) /\ w = warm
  <2>1. /\ conf.warmup \in Nat /\ conf.batch \in Nat /\ SampleSize \in Nat
        /\ conf.minis \in Nat \ {0} /\ conf.minis * SampleSize = conf.batch
    BY ConfigurationFacts, SampleSizeType, BatchIsMinis DEF TypeOK, ReplayBufferTypeOK
  <2>2. Cardinality(Tracked) \in Nat
    BY RowsFinite DEF Tracked
  <2>3. mini \in Nat /\ warm \in Nat
    BY <2>1 DEF TypeOK
  <2> QED
    BY <2>1, <2>2, <2>3
<1>2. /\ W * B \in Nat /\ (W + 1) * B = W * B + B
      /\ m * S \in Nat /\ (m + 1) * S = m * S + S /\ (w + 1) * B = w * B + B
      /\ w * B \in Nat
  OBVIOUS
<1>3. conf' = conf /\ SampleSize' = S
  BY <1>1, ConfStays DEF SampleSize
<1>4. Cardinality(Tracked') \in Nat
  BY RowsFinite, StepType DEF Tracked
<1>5. CASE PollKind \/ QuietKind
  <2>1. Tracked' = Tracked /\ UNCHANGED <<mini, warm>>
    BY <1>5, NoMove DEF PollKind, QuietKind
  <2>2. Supply' = Supply \/ Supply' = 0
    BY <1>3, <1>1, <1>5, <2>1 DEF Supply, PollKind, QuietKind
  <2> QED
    BY <1>1, <2>1, <2>2
<1>6. CASE BackKind
  <2>1. PICK gone \in SUBSET Rows, n \in Nat : Moves(gone, {}, n) /\ n = Cardinality(gone)
    BY <1>6, SettledParts DEF BackKind, Settled
  <2>2. Cardinality(Tracked') = T - Cardinality(gone) + n
    BY <1>1, <2>1, RefillKeepsCount
  <2>3. Supply' = Supply
    BY <1>1, <1>3, <1>6 DEF BackKind, Supply
  <2> QED
    BY <1>1, <2>1, <2>2, <2>3
<1>7. CASE TakeKind
  <2>1. PICK chosen \in SUBSET Sampleable : Moves({}, chosen, 0) /\ Oldest(chosen)
    BY <1>7 DEF TakeKind
  <2>2. chosen \in SUBSET Rows
    BY DEF Sampleable
  <2>3. Cardinality(Tracked') = T - S
    BY <1>1, <2>1, <2>2, TakeCount DEF Oldest
  <2>4. Supply = (W + 1) * B - m * S /\ Supply' = (W + 1) * B - (m + 1) * S
    BY <1>1, <1>3, <1>7 DEF TakeKind, Supply
  <2> QED
    BY <1>1, <1>2, <2>3, <2>4
<1>8. CASE FailKind
  BY <1>8 DEF FailKind
<1>9. CASE WarmUpKind
  <2>1. CASE warm = conf.warmup /\ pc' = "next" /\ Moves({}, {}, 0)
    <3>1. Tracked' = Tracked /\ Supply = w * B /\ w = W /\ Supply' = W * B
      BY <1>1, <1>3, <1>9, <2>1, NoMove DEF Supply, WarmUpKind
    <3> QED
      BY <3>1
  <2>2. CASE pc' = pc /\ warm' = warm + 1 /\ Moves({}, {}, conf.batch)
    <3>1. Cardinality(Tracked') = T - Cardinality({}) + B
      BY <1>1, <2>2, RefillKeepsCount
    <3>2. Supply = w * B /\ Supply' = (w + 1) * B
      BY <1>1, <1>3, <1>9, <2>2 DEF Supply, WarmUpKind
    <3> QED
      BY <1>1, <1>2, <3>1, <3>2, FS_EmptySet
  <2> QED
    BY <1>9, <2>1, <2>2 DEF WarmUpKind
<1>10. CASE BeginKind
  <2>1. Moves({}, {}, conf.batch)
    BY <1>10 DEF BeginKind
  <2>2. Cardinality(Tracked') = T - Cardinality({}) + B
    BY <1>1, <2>1, RefillKeepsCount
  <2>3. Supply = W * B /\ Supply' = (W + 1) * B - 0 * S
    BY <1>1, <1>3, <1>10 DEF Supply, BeginKind
  <2> QED
    BY <1>1, <1>2, <2>2, <2>3, FS_EmptySet
<1>11. CASE RolloutKind
  <2>1. Tracked' = Tracked /\ UNCHANGED <<pc, mini, warm>>
    BY <1>11, RolloutSets DEF RolloutKind, Around, trainVars
  <2>2. Supply' = Supply
    BY <1>1, <1>3, <2>1 DEF Supply
  <2> QED
    BY <2>1, <2>2
<1>12. CASE OtherKind
  <2>1. CASE Start
    <3>1. Tracked' = Tracked /\ Supply' = 0 * B
      BY <1>1, <1>3, <2>1 DEF Start, Supply, Tracked, trainVars
    <3> QED
      BY <1>1, <1>4, <3>1
  <2>2. CASE Train
    <3>1. Tracked' = Tracked /\ Supply = (W + 1) * B - (m + 1) * S /\ m < M
      BY <1>1, <2>2 DEF Train, Supply, Tracked, tqVars, BatchInv
    <3>2. CASE m + 1 < M
      <4>1. Supply' = (W + 1) * B - (m + 1) * S
        BY <1>1, <1>3, <2>2, <3>2 DEF Train, Supply
      <4> QED
        BY <1>1, <3>1, <4>1
    <3>3. CASE ~(m + 1 < M)
      <4>1. m + 1 = M
        BY <1>1, <3>1, <3>3
      <4>2. pc' \in {"save", "end"}
        BY <1>1, <2>2, <3>3 DEF Train
      <4>3. Supply' = W * B
        BY <1>1, <1>3, <4>2 DEF Supply
      <4>4. (m + 1) * S = B
        BY <1>1, <4>1, BatchIsMinis DEF TypeOK, ReplayBufferTypeOK
      <4> QED
        BY <1>1, <1>2, <3>1, <4>3, <4>4
    <3> QED
      BY <3>2, <3>3
  <2>3. CASE Save \/ Commit
    <3>1. Tracked' = Tracked /\ Supply = W * B /\ Supply' = W * B
      BY <1>1, <1>3, <2>3 DEF Save, Commit, Supply, Tracked, tqVars
    <3> QED
      BY <1>1, <3>1
  <2>4. CASE EndStep
    <3>1. Tracked' = Tracked /\ Supply = W * B /\ Supply' \in {W * B, 0}
      BY <1>1, <1>3, <2>4 DEF EndStep, Supply, Tracked
    <3> QED
      BY <1>1, <1>2, <3>1
  <2>5. CASE Restart
    BY <1>4, <2>5 DEF Restart, Supply
  <2> QED
    BY <1>12, <2>1, <2>2, <2>3, <2>4, <2>5 DEF OtherKind
<1> QED
  BY <1>5, <1>6, <1>7, <1>8, <1>9, <1>10, <1>11, <1>12, StepKinds DEF OtherKind

\* The synchronous sampler gives away no more than it sends again or owes.
LEMMA BackCredit ==
  ASSUME IInv, EnoughInv, Sync, conf.dapo, BackKind, [Next]_vars
  PROVE  Cardinality(Tracked') + credit' >= conf.batch
<1> USE DEF IInv
<1>1. PICK n \in Nat : Moves(Evictable, {}, n) /\ credit' + n = Credit
  BY DEF BackKind
<1>2. PICK gone \in SUBSET Rows, good \in SUBSET Rows : gone = Evictable /\ good = Sampleable
  BY SettledParts DEF Settled
<1>3. Cardinality(Tracked') = Cardinality(Tracked) - Cardinality(gone) + n
  BY <1>1, <1>2, RefillKeepsCount
<1>4. PICK T \in Nat, E \in Nat, G \in Nat, B \in Nat, c \in Nat :
        /\ T = Cardinality(Tracked) /\ E = Cardinality(gone) /\ G = Cardinality(good)
        /\ B = conf.batch /\ c = credit
  BY RowsFinite, ConfigurationFacts DEF Tracked, TypeOK, ReplayBufferTypeOK
<1>5. pc = "decide" /\ T + c >= B /\ (draining => HasEnough)
  BY <1>4 DEF BackKind, EnoughInv
<1>6. G + E <= T
  <2>1. PICK A \in SUBSET Rows : A = Tracked
    BY DEF Tracked
  <2>2. good \cup gone \subseteq A /\ good \cap gone = {}
    BY <1>2, <1>5, <2>1, SettledParts, SettledIsDone
  <2>3. IsFiniteSet(A) /\ IsFiniteSet(good) /\ IsFiniteSet(gone)
    BY RowsFinite
  <2>4. Cardinality(good \cup gone) = G + E
    <3>1. Cardinality(good \cup gone) =
            Cardinality(good) + Cardinality(gone) - Cardinality(good \cap gone)
      BY <2>3, FS_Union
    <3>2. Cardinality(good \cap gone) = 0
      BY <2>2, FS_EmptySet
    <3>3. Cardinality(good) = G /\ Cardinality(gone) = E
      BY <1>4
    <3> QED
      BY <3>1, <3>2, <3>3
  <2>5. Cardinality(good \cup gone) <= Cardinality(A)
    BY <2>2, <2>3, FS_Subset
  <2> QED
    BY <1>4, <2>1, <2>4, <2>5
<1>7. Cardinality(Tracked') + credit' = T - E + Credit
  <2>1. credit' \in Nat
    BY SamplerTypes
  <2> QED
    BY <1>1, <1>3, <1>4, <2>1
<1>8. CASE HasEnough
  <2>1. G >= B /\ Credit = 0
    BY <1>2, <1>4, <1>8, SampleSizeType DEF HasEnough, Credit, TypeOK, ReplayBufferTypeOK
  <2> QED
    BY <1>4, <1>6, <1>7, <2>1
<1>9. CASE ~HasEnough
  <2>1. Credit = c + Earned /\ E <= Earned /\ Earned \in Nat
    BY <1>2, <1>4, <1>5, <1>9, EarnedCoversEvicted, CreditType DEF Credit
  <2> QED
    BY <1>4, <1>5, <1>7, <2>1
<1> QED
  BY <1>8, <1>9

LEMMA EnoughSync ==
  ASSUME IInv, EnoughInv, Sync, [Next]_vars, pc' \in {"poll", "decide"}
  PROVE  Cardinality(Tracked') + credit' >= conf.batch
<1> USE DEF IInv
<1>1. conf.batch \in Nat /\ conf.minis = 1 /\ mini \in Nat
  BY ConfigurationFacts DEF TypeOK, ReplayBufferTypeOK
<1>2. Cardinality(Tracked) \in Nat /\ Cardinality(Tracked') \in Nat /\ credit' \in Nat
  BY RowsFinite, SamplerTypes, StepType DEF Tracked
<1>3. CASE ~conf.dapo
  <2>1. Cardinality(Tracked') = conf.batch
    BY <1>3, StepSync, ConfStays DEF SyncInv
  <2> QED
    BY <1>1, <1>2, <2>1
<1>4. CASE conf.dapo
  <2>1. CASE PollKind \/ QuietKind
    <3>1. Tracked' = Tracked /\ credit' = credit /\ pc \in {"poll", "decide"}
      BY <2>1, NoMove DEF PollKind, QuietKind
    <3> QED
      BY <3>1 DEF EnoughInv
  <2>2. CASE BackKind
    BY <1>4, <2>2, BackCredit
  <2>3. CASE TakeKind \/ FailKind \/ WarmUpKind
    BY <2>3 DEF TakeKind, FailKind, WarmUpKind
  <2>4. CASE BeginKind
    <3>1. Moves({}, {}, conf.batch)
      BY <2>4 DEF BeginKind
    <3>2. Cardinality(Tracked') = Cardinality(Tracked) - Cardinality({}) + conf.batch
      BY <1>1, <3>1, RefillKeepsCount
    <3> QED
      BY <1>1, <1>2, <3>2, FS_EmptySet
  <2>5. CASE RolloutKind
    BY <2>5, RolloutSets DEF RolloutKind, Around, EnoughInv
  <2>6. CASE OtherKind
    BY <1>1, <2>6 DEF OtherKind, Start, Train, Save, Commit, EndStep, Restart
  <2> QED
    BY <2>1, <2>2, <2>3, <2>4, <2>5, <2>6, StepKinds DEF OtherKind
<1> QED
  BY <1>3, <1>4

\* The groups the sampler has seen and needs stay until they are taken.
LEMMA EnoughDraining ==
  ASSUME IInv, EnoughInv, Sync, conf.dapo, draining', [Next]_vars
  PROVE  /\ pc' = "poll" => Cardinality(Good') >= conf.batch
         /\ pc' = "decide" => HasEnough'
<1> USE DEF IInv
<1>0. /\ conf' = conf /\ conf.mode = "sync" /\ conf.batch \in Nat /\ conf.minis = 1
      /\ mini \in Nat /\ SampleSize = conf.batch
  BY ConfStays, ConfigurationFacts, SampleSizeType DEF Sync, TypeOK, ReplayBufferTypeOK
<1>1. /\ IsFiniteSet(Good') /\ Cardinality(Good') \in Nat /\ Cardinality(Good) \in Nat
      /\ IsFiniteSet(Sampleable') /\ Cardinality(Sampleable') \in Nat
      /\ Cardinality(Sampleable) \in Nat
  BY RowsFinite DEF Good, Sampleable
<1>2. Cardinality(Sampleable') >= conf.batch => HasEnough'
  BY <1>0 DEF HasEnough, SampleSize
<1>3. HasEnough => Cardinality(Sampleable) >= conf.batch
  BY <1>0 DEF HasEnough
<1>4. Sampleable = {r \in Rows : /\ snap[r] \in Terminal /\ snap[r] # "uniform"
                                 /\ snap[r] = "failure" => ~conf.refillFailed \/ r \in stored}
  BY <1>0 DEF Sampleable, Evictable, Stale, Uniform, Failed, Sync
<1>5. Sampleable' = {r \in Rows : /\ snap'[r] \in Terminal /\ snap'[r] # "uniform"
                                  /\ snap'[r] = "failure" => ~conf.refillFailed \/ r \in stored'}
  BY <1>0 DEF Sampleable, Evictable, Stale, Uniform, Failed, Sync
<1>6. CASE PollKind
  <2>1. Sampleable' = Good /\ draining /\ pc = "poll" /\ pc' = "decide"
    BY <1>5, <1>6, NoMove DEF PollKind, Good
  <2> QED
    BY <1>2, <2>1 DEF EnoughInv
<1>7. CASE QuietKind
  <2>1. /\ UNCHANGED <<status, stored, snap, draining>> /\ pc' \in {pc, "over"}
    BY <1>7, NoMove DEF QuietKind
  <2>2. Good' = Good /\ Sampleable' = Sampleable
    BY <1>0, <1>4, <1>5, <2>1 DEF Good
  <2> QED
    BY <1>2, <1>3, <2>1, <2>2 DEF EnoughInv
<1>8. CASE BackKind
  <2>1. PICK n \in Nat : Moves(Evictable, {}, n) /\ draining' = (draining \/ HasEnough)
    BY <1>8 DEF BackKind
  <2>2. HasEnough /\ pc = "decide" /\ pc' = "poll"
    BY <1>8, <2>1 DEF EnoughInv, BackKind
  <2>3. Sampleable \subseteq Good'
    <3>1. SUFFICES ASSUME NEW r \in Sampleable PROVE r \in Good'
      OBVIOUS
    <3>2. r \in Rows /\ status[r] = snap[r] /\ r \in Tracked /\ r \notin Evictable
      BY <2>2, SettledParts, SettledIsDone DEF Coherent, Sampleable
    <3>3. r \notin Fresh(n) /\ Evictable \subseteq Rows
      BY <2>1, <3>2, SettledParts, MovesSets DEF Settled
    <3>4. status'[r] = status[r] /\ (r \in stored => r \in stored')
      BY <2>1, <3>2, <3>3 DEF Moves
    <3> QED
      BY <1>0, <1>4, <3>2, <3>4 DEF Good
  <2>4. Cardinality(Sampleable) <= Cardinality(Good')
    BY <1>1, <2>3, FS_Subset
  <2> QED
    BY <1>0, <1>1, <1>3, <2>2, <2>4
<1>9. CASE TakeKind \/ FailKind \/ WarmUpKind \/ BeginKind
  BY <1>9 DEF TakeKind, FailKind, WarmUpKind, BeginKind
<1>10. CASE RolloutKind
  <2>1. UNCHANGED <<pc, snap, draining>> /\ stored \subseteq stored'
    BY <1>10, RolloutSets DEF RolloutKind, Around
  <2>2. Good \subseteq Good'
    <3>1. \A r \in Good : status'[r] = status[r]
      BY <1>10, RolloutSets DEF Good, InFlight, Terminal
    <3> QED
      BY <1>0, <2>1, <3>1 DEF Good
  <2>3. Sampleable \subseteq Sampleable'
    BY <1>4, <1>5, <2>1
  <2>4. /\ Cardinality(Good) <= Cardinality(Good')
        /\ Cardinality(Sampleable) <= Cardinality(Sampleable')
    BY <1>1, <2>2, <2>3, FS_Subset
  <2>5. CASE pc = "poll"
    <3>1. Cardinality(Good) >= conf.batch
      BY <2>1, <2>5 DEF EnoughInv
    <3> QED
      BY <1>0, <1>1, <2>1, <2>4, <2>5, <3>1
  <2>6. CASE pc = "decide"
    <3>1. Cardinality(Sampleable) >= conf.batch
      BY <1>3, <2>1, <2>6 DEF EnoughInv
    <3> QED
      BY <1>0, <1>1, <1>2, <2>1, <2>4, <2>6, <3>1
  <2> QED
    BY <2>1, <2>5, <2>6
<1>11. CASE OtherKind
  BY <1>0, <1>11 DEF OtherKind, Start, Train, Save, Commit, EndStep, Restart, NewSample
<1> QED
  BY <1>6, <1>7, <1>8, <1>9, <1>10, <1>11, StepKinds DEF OtherKind

LEMMA StepEnough == IInv /\ EnoughInv /\ [Next]_vars => EnoughInv'
<1> SUFFICES ASSUME IInv, EnoughInv, [Next]_vars PROVE EnoughInv'
  OBVIOUS
<1>1. TypeOK /\ Coherent
  BY DEF IInv
<1>2. pc' = "start" => warm' = 0
  <2>1. CASE MovingKind
    BY <2>1 DEF EnoughInv, MovingKind, PollKind, BackKind, TakeKind, FailKind,
                WarmUpKind, BeginKind, QuietKind
  <2>2. CASE RolloutKind
    BY <2>2 DEF EnoughInv, RolloutKind, Around, trainVars
  <2>3. CASE OtherKind
    BY <2>3 DEF OtherKind, Start, Train, Save, Commit, EndStep, Restart
  <2> QED
    BY <1>1, <2>1, <2>2, <2>3, StepKinds DEF MovingKind, OtherKind
<1>3. conf' = conf /\ (Sync' <=> Sync)
  BY <1>1, ConfStays
<1>4. ~Sync => Cardinality(Tracked') >= Supply'
  BY EnoughAsync DEF EnoughInv
<1>5. Sync /\ pc' \in {"poll", "decide"} => Cardinality(Tracked') + credit' >= conf.batch
  BY EnoughSync
<1>6. Sync /\ conf.dapo /\ draining' =>
        /\ pc' = "poll" => Cardinality(Good') >= conf.batch
        /\ pc' = "decide" => HasEnough'
  BY EnoughDraining
<1> QED
  BY <1>2, <1>3, <1>4, <1>5, <1>6 DEF EnoughInv

LEMMA InitEnough == Init => EnoughInv
<1> SUFFICES ASSUME Init PROVE EnoughInv
  OBVIOUS
<1>1. pc = "start" /\ warm = 0 /\ draining = FALSE
  BY DEF Init
<1>2. Cardinality(Tracked) \in Nat /\ Supply = 0
  BY <1>1, RowsFinite DEF Tracked, Supply
<1> QED
  BY <1>1, <1>2 DEF EnoughInv

\* The sampler never waits for groups that nobody has been asked to generate
\* (what replay_buffer.py evicts it refills or owes; what on_train_begin and
\* step submit covers every mini-batch).
THEOREM EnoughPromptsCorrect == Spec => []EnoughPrompts
<1>1. EnoughInv => EnoughPrompts
  BY DEF EnoughInv, EnoughPrompts, Supply
<1>2. Spec => []EnoughInv
  BY InitEnough, StepEnough, InductiveInvariant, PTL DEF Spec
<1> QED
  BY <1>1, <1>2, PTL
=============================================================================
