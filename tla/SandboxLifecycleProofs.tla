----------------------- MODULE SandboxLifecycleProofs -----------------------
(***************************************************************************)
(* Theorems about SandboxLifecycle, for any finite set of objects, of any  *)
(* providers, and any number of attempts and slots.                        *)
(***************************************************************************)
EXTENDS SandboxLifecycle, TLAPS, FiniteSetTheorems, SequenceTheorems

Holders == {s \in Sandboxes : Holding(s)}

\* Where an object stands tells what its attempt has got.
ObjectInv(s) ==
  /\ pc[s] = "backoff" => attempt[s] < Attempts
  /\ pc[s] \in {"readying", "using"} => handle[s] = attempt[s] /\ Current(s) \in alive

\* A creation is awaited or its answer will be lost.
CreationInv(i) == i \in lost \/ (pc[i[1]] = "starting" /\ attempt[i[1]] = i[2])

\* An instance that is not lost is held by an object that uses it or is
\* going to, or is being killed.
InstanceInv(i) ==
  \/ i \in lost
  \/ pc[i[1]] \in {"readying", "using"} /\ i[2] = handle[i[1]]
  \/ pc[i[1]] \in {"stopping", "exiting"} /\ i[2] = target[i[1]]

IInv ==
  /\ TypeOK /\ SlotsAccounted
  /\ \A s \in Sandboxes : ObjectInv(s)
  /\ \A i \in creating : CreationInv(i)
  /\ \A i \in alive : InstanceInv(i)

LEMMA InitInv == Init => IInv
<1> SUFFICES ASSUME Init PROVE IInv
  OBVIOUS
<1>1. TypeOK
  BY SandboxAssumption DEF Init, TypeOK, Ended
<1>2. {s \in Sandboxes : Holding(s)} = {}
  BY DEF Init, Holding
<1>3. SlotsAccounted
  BY <1>2, SandboxAssumption, FS_EmptySet DEF Init, SlotsAccounted
<1> QED
  BY <1>1, <1>3 DEF Init, IInv, ObjectInv

-----------------------------------------------------------------------------
(* Slots.                                                                  *)

\* What each step does to the semaphore and to those who hold it.
Takes(s)    == Holders' = Holders \cup {s} /\ s \notin Holders /\ free > 0 /\ free' = free - 1
Returns(s)  == Holders' = Holders \ {s} /\ s \in Holders /\ free' = free + 1
KeepsSlots  == Holders' = Holders /\ free' = free

LEMMA SlotsAfter ==
  ASSUME TypeOK, SlotsAccounted, NEW s \in Sandboxes, Takes(s) \/ Returns(s) \/ KeepsSlots
  PROVE  SlotsAccounted'
<1>1. IsFiniteSet(Holders) /\ Cardinality(Holders) \in Nat
  BY SandboxAssumption, FS_Subset, FS_CardinalityType DEF Holders
<1>2. free + Cardinality(Holders) = Slots
  BY DEF SlotsAccounted, Holders
<1>3. /\ Cardinality(Holders \cup {s}) =
           IF s \in Holders THEN Cardinality(Holders) ELSE Cardinality(Holders) + 1
      /\ Cardinality(Holders \ {s}) =
           IF s \in Holders THEN Cardinality(Holders) - 1 ELSE Cardinality(Holders)
  BY <1>1, FS_AddElement, FS_RemoveElement
<1>4. free \in Int
  BY SandboxAssumption DEF TypeOK
<1>5. CASE Takes(s)
  BY <1>1, <1>2, <1>3, <1>4, <1>5 DEF Takes, SlotsAccounted, Holders
<1>6. CASE Returns(s)
  BY <1>1, <1>2, <1>3, <1>4, <1>6 DEF Returns, SlotsAccounted, Holders
<1>7. CASE KeepsSlots
  BY <1>2, <1>7 DEF KeepsSlots, SlotsAccounted, Holders
<1> QED
  BY <1>5, <1>6, <1>7

LEMMA StepOfSlots ==
  ASSUME TypeOK, [Next]_vars
  PROVE  KeepsSlots \/ \E s \in Sandboxes : Takes(s) \/ Returns(s)
<1> USE DEF Holders, Holding, KeepsSlots, Takes, Returns, Goto, TypeOK, Ended
<1>1. ASSUME NEW s \in Sandboxes,
             Enter(s) \/ CleanedUp(s) \/ Retry(s) \/ Leave(s) \/ Exited(s) \/ CancelBody(s)
      PROVE  KeepsSlots
  BY <1>1 DEF Enter, CleanedUp, Retry, Leave, Exited, CancelBody
<1>2. ASSUME NEW s \in Sandboxes, Acquire(s) PROVE Takes(s)
  BY <1>2 DEF Acquire
<1>3. ASSUME NEW s \in Sandboxes, Created(s) PROVE KeepsSlots \/ Returns(s)
  BY <1>3 DEF Created
<1>4. ASSUME NEW s \in Sandboxes, Ready(s) \/ CreateRaised(s) \/ NotReady(s) \/ TimeOut(s)
      PROVE  Returns(s)
  BY <1>4 DEF Ready, CreateRaised, NotReady, TimeOut, StartFailed, Release
<1>5. ASSUME NEW s \in Sandboxes, Cancel(s) PROVE KeepsSlots \/ Returns(s)
  BY <1>5 DEF Cancel, SlotAfterCancel
<1>6. ASSUME NEW i \in Instances, CreatedLate(i) PROVE KeepsSlots
  BY <1>6 DEF CreatedLate
<1>7. CASE UNCHANGED vars
  BY <1>7 DEF vars
<1> QED
  BY <1>1, <1>2, <1>3, <1>4, <1>5, <1>6, <1>7 DEF Next, StartStep, Done

LEMMA StepSlots ==
  ASSUME TypeOK, SlotsAccounted, [Next]_vars
  PROVE  SlotsAccounted' /\ free' \in 0..Slots
<1>1. SlotsAccounted'
  <2>1. CASE KeepsSlots
    BY <2>1 DEF KeepsSlots, SlotsAccounted, Holders
  <2> QED
    BY <2>1, StepOfSlots, SlotsAfter
<1>2. IsFiniteSet(Holders') /\ Cardinality(Holders') \in Nat
  BY SandboxAssumption, FS_Subset, FS_CardinalityType DEF Holders
<1>3. free' \in Int /\ free' >= 0
  <2>1. CASE KeepsSlots
    BY <2>1, SandboxAssumption DEF KeepsSlots, TypeOK
  <2>2. ASSUME NEW s \in Sandboxes, Returns(s) PROVE free' \in Int /\ free' >= 0
    BY <2>2, SandboxAssumption DEF Returns, TypeOK
  <2>3. ASSUME NEW s \in Sandboxes, Takes(s) PROVE free' \in Int /\ free' >= 0
    BY <2>3, SandboxAssumption DEF Takes, TypeOK
  <2> QED
    BY <2>1, <2>2, <2>3, StepOfSlots
<1>4. free' + Cardinality(Holders') = Slots
  BY <1>1 DEF SlotsAccounted, Holders
<1> QED
  BY <1>1, <1>2, <1>3, <1>4, SandboxAssumption

-----------------------------------------------------------------------------
(* Types.                                                                  *)

\* Where an object may stand.
Places ==
  {"outside", "queued", "starting", "readying", "stopping", "backoff", "using",
   "exiting", "left", "failed", "cancelled"}

LEMMA GotoTypes ==
  ASSUME TypeOK, NEW s \in Sandboxes, NEW there \in Places, Goto(s, there)
  PROVE  pc' \in [Sandboxes -> Places]
BY DEF TypeOK, Goto, Ended, Places

LEMMA QueueTypes ==
  ASSUME TypeOK, NEW s \in Sandboxes, LeaveQueue(s)
  PROVE  queue' \in Seq(Sandboxes)
<1>1. CASE UNCHANGED queue
  BY <1>1 DEF TypeOK
<1>2. ASSUME NEW k \in DOMAIN queue,
             queue' = SubSeq(queue, 1, k - 1) \o SubSeq(queue, k + 1, Len(queue))
      PROVE  queue' \in Seq(Sandboxes)
  <2>1. queue \in Seq(Sandboxes) /\ k \in 1..Len(queue) /\ Len(queue) \in Nat
    BY DEF TypeOK
  <2>2. \A j \in 1..Len(queue) : queue[j] \in Sandboxes
    BY <2>1
  <2>3. SubSeq(queue, 1, k - 1) \in Seq(Sandboxes)
    BY <2>1, <2>2, SubSeqProperties
  <2>4. SubSeq(queue, k + 1, Len(queue)) \in Seq(Sandboxes)
    BY <2>1, <2>2, SubSeqProperties
  <2> QED
    BY <1>2, <2>3, <2>4
<1> QED
  BY <1>1, <1>2 DEF LeaveQueue

LEMMA StepTypes ==
  ASSUME IInv, [Next]_vars
  PROVE  TypeOK'
<1>1. free' \in 0..Slots
  BY StepSlots DEF IInv
<1>2. TypeOK
  BY DEF IInv
<1>3. pc' \in [Sandboxes -> Places]
  <2>1. CASE UNCHANGED pc
    BY <1>2, <2>1 DEF TypeOK, Ended, Places
  <2> QED
    BY <1>2, <2>1, GotoTypes
       DEF Next, StartStep, Enter, Acquire, Created, Ready, CreateRaised, NotReady, TimeOut,
           StartFailed, CleanedUp, Retry, Leave, Exited, CancelBody, Cancel, CreatedLate,
           Done, vars, Places
<1>4. attempt' \in [Sandboxes -> 1..Attempts]
  <2>1. ASSUME NEW s \in Sandboxes, Retry(s) PROVE attempt[s] + 1 \in 1..Attempts
    BY <1>2, <2>1, SandboxAssumption DEF Retry, IInv, ObjectInv, TypeOK
  <2> QED
    BY <1>2, <2>1
       DEF TypeOK, Next, StartStep, Enter, Acquire, Created, Ready, CreateRaised, NotReady,
           TimeOut, StartFailed, CleanedUp, Retry, Leave, Exited, CancelBody, Cancel,
           CreatedLate, Done, vars
<1>5. queue' \in Seq(Sandboxes)
  <2>1. queue \in Seq(Sandboxes)
    BY <1>2 DEF TypeOK
  <2>2. ASSUME NEW s \in Sandboxes, Acquire(s) PROVE queue' \in Seq(Sandboxes)
    BY <2>1, <2>2 DEF Acquire
  <2>3. ASSUME NEW s \in Sandboxes, Enter(s) \/ Retry(s) PROVE queue' \in Seq(Sandboxes)
    BY <2>1, <2>3 DEF Enter, Retry
  <2>4. ASSUME NEW s \in Sandboxes, Cancel(s) PROVE queue' \in Seq(Sandboxes)
    BY <1>2, <2>4, QueueTypes DEF Cancel
  <2> QED
    BY <2>1, <2>2, <2>3, <2>4
     DEF Next, StartStep, Enter, Acquire, Created, Ready, CreateRaised, NotReady,
         TimeOut, StartFailed, CleanedUp, Retry, Leave, Exited, CancelBody, Cancel,
         CreatedLate, Done, vars
<1>6. handle' \in [Sandboxes -> 0..Attempts] /\ target' \in [Sandboxes -> 0..Attempts]
  <2> DEFINE HandlesOK ==
        handle \in [Sandboxes -> 0..Attempts] /\ target \in [Sandboxes -> 0..Attempts]
  <2>1. 1..Attempts \subseteq 0..Attempts /\ 0 \in 0..Attempts
    BY SandboxAssumption
  <2>2. ASSUME NEW s \in Sandboxes, BeginStop(s) PROVE HandlesOK'
    BY <1>2, <2>1, <2>2 DEF TypeOK, BeginStop
  <2>3. ASSUME NEW s \in Sandboxes, StopEnds(s) PROVE HandlesOK'
    BY <1>2, <2>1, <2>3 DEF TypeOK, StopEnds, Killed, KillFailed
  <2>4. ASSUME NEW s \in Sandboxes, Created(s) PROVE HandlesOK'
    BY <1>2, <2>1, <2>4 DEF TypeOK, Created, Learn
  <2>5. ASSUME NEW s \in Sandboxes, Cancel(s) PROVE HandlesOK'
    BY <1>2, <2>1, <2>5 DEF TypeOK, Cancel
  <2>6. CASE UNCHANGED <<handle, target>>
    BY <1>2, <2>6 DEF TypeOK
  <2> QED
    BY <2>2, <2>3, <2>4, <2>5, <2>6
       DEF Next, StartStep, Enter, Acquire, Ready, CreateRaised, NotReady, TimeOut,
           StartFailed, CleanedUp, Retry, Leave, Exited, CancelBody, CreatedLate, Done, vars
<1>7. /\ creating' \subseteq Instances /\ alive' \subseteq Instances
      /\ lost' \subseteq Instances /\ cancelled' \subseteq Sandboxes
  <2>1. ASSUME NEW s \in Sandboxes
        PROVE  Current(s) \in Instances /\ (target[s] # 0 => <<s, target[s]>> \in Instances)
    BY <1>2, SandboxAssumption DEF TypeOK, Current, Instances
  <2>2. ASSUME NEW s \in Sandboxes, StopEnds(s)
        PROVE  alive' \subseteq Instances /\ lost' \subseteq Instances
    BY <1>2, <2>1, <2>2 DEF TypeOK, StopEnds, Killed, KillFailed
  <2>3. ASSUME NEW s \in Sandboxes, Cancel(s) PROVE lost' \subseteq Instances
    BY <1>2, <2>1, <2>3 DEF TypeOK, Cancel
  <2>4. CASE \E s \in Sandboxes : StartStep(s)
    BY <1>2, <2>1, <2>4
       DEF TypeOK, StartStep, Created, Ready, CreateRaised, NotReady, TimeOut, StartFailed
  <2> QED
    BY <1>2, <2>1, <2>2, <2>3, <2>4
       DEF TypeOK, Next, Enter, Acquire, CleanedUp, Retry, Leave, Exited, CancelBody,
           Cancel, CreatedLate, Done, vars
<1> QED
  BY <1>1, <1>3, <1>4, <1>5, <1>6, <1>7 DEF TypeOK, Ended, Places

-----------------------------------------------------------------------------
(* Instances.                                                              *)

\* A step for one object leaves what the others know and are.
Undisturbed(t) ==
  /\ pc'[t] = pc[t] /\ attempt'[t] = attempt[t]
  /\ handle'[t] = handle[t] /\ target'[t] = target[t]

InstancesOf(s) == {i \in Instances : i[1] = s}

\* Nor does it make or unmake theirs.
Confined(s) ==
  /\ \A t \in Sandboxes \ {s} : Undisturbed(t)
  /\ creating' \ InstancesOf(s) \subseteq creating
  /\ alive' \ InstancesOf(s) \subseteq alive
  /\ alive \ InstancesOf(s) \subseteq alive'
  /\ lost \subseteq lost'

\* The invariants of one object and of its instances.
SandboxInv(s) ==
  /\ ObjectInv(s)
  /\ \A i \in creating \cap InstancesOf(s) : CreationInv(i)
  /\ \A i \in alive \cap InstancesOf(s) : InstanceInv(i)

LEMMA InvBySandbox ==
  ASSUME TypeOK
  PROVE  /\ (\A s \in Sandboxes : SandboxInv(s)) <=>
               /\ \A s \in Sandboxes : ObjectInv(s)
               /\ \A i \in creating : CreationInv(i)
               /\ \A i \in alive : InstanceInv(i)
BY DEF TypeOK, SandboxInv, InstancesOf, Instances

LEMMA OthersKeepInv ==
  ASSUME TypeOK, TypeOK', NEW s \in Sandboxes, Confined(s),
         NEW t \in Sandboxes \ {s}, SandboxInv(t)
  PROVE  SandboxInv(t)'
<1>1. Undisturbed(t)
  BY DEF Confined
<1>2. ObjectInv(t)'
  BY <1>1 DEF Confined, SandboxInv, ObjectInv, Undisturbed, Current, InstancesOf, TypeOK, Instances
<1>3. ASSUME NEW i \in creating' \cap InstancesOf(t) PROVE CreationInv(i)'
  BY <1>1 DEF Confined, SandboxInv, CreationInv, Undisturbed, InstancesOf
<1>4. ASSUME NEW i \in alive' \cap InstancesOf(t) PROVE InstanceInv(i)'
  BY <1>1 DEF Confined, SandboxInv, InstanceInv, Undisturbed, InstancesOf
<1> QED
  BY <1>2, <1>3, <1>4 DEF SandboxInv, InstancesOf

SandboxStep(s) ==
  Enter(s) \/ Acquire(s) \/ StartStep(s) \/ CleanedUp(s) \/ Retry(s)
  \/ Leave(s) \/ Exited(s) \/ CancelBody(s) \/ Cancel(s)

LEMMA StepIsConfined ==
  ASSUME TypeOK, NEW s \in Sandboxes, SandboxStep(s)
  PROVE  Confined(s)
<1> USE DEF Confined, Undisturbed, InstancesOf, Instances, TypeOK, Goto, Current
<1>1. CASE Enter(s) \/ Acquire(s) \/ Retry(s)
  BY <1>1, SandboxAssumption DEF Enter, Acquire, Retry
<1>2. CASE StartStep(s)
  <2>1. CASE Created(s) \/ Ready(s)
    BY <2>1, SandboxAssumption DEF Created, Ready, Learn
  <2>2. CASE CreateRaised(s)
    BY <2>2, SandboxAssumption DEF CreateRaised, StartFailed, BeginStop
  <2>3. CASE NotReady(s) \/ TimeOut(s)
    BY <2>3, SandboxAssumption DEF NotReady, TimeOut, StartFailed, BeginStop
  <2> QED
    BY <1>2, <2>1, <2>2, <2>3 DEF StartStep
<1>3. CASE CleanedUp(s) \/ Exited(s)
  BY <1>3, SandboxAssumption DEF CleanedUp, Exited, StopEnds, Killed, KillFailed
<1>4. CASE Leave(s) \/ CancelBody(s)
  BY <1>4, SandboxAssumption DEF Leave, CancelBody, BeginStop
<1>5. CASE Cancel(s)
  BY <1>5, SandboxAssumption DEF Cancel
<1> QED
  BY <1>1, <1>2, <1>3, <1>4, <1>5 DEF SandboxStep

LEMMA StepKeepsSandboxInv ==
  ASSUME TypeOK, NEW s \in Sandboxes, SandboxInv(s), SandboxStep(s)
  PROVE  SandboxInv(s)'
<1> DEFINE Creating == \A i \in creating : i[1] = s => CreationInv(i)
           Alive    == \A i \in alive : i[1] = s => InstanceInv(i)
<1> SUFFICES ObjectInv(s)' /\ Creating' /\ Alive'
  BY DEF SandboxInv, InstancesOf
<1>0. ObjectInv(s) /\ Creating /\ Alive
  BY DEF SandboxInv, InstancesOf, TypeOK, Instances
<1>a. \A i \in Instances : i[1] = s => i = <<s, i[2]>>
  BY DEF Instances
<1> USE <1>0, SandboxAssumption
        DEF ObjectInv, CreationInv, InstanceInv, Instances, TypeOK, Goto, Current
<1>1. CASE Enter(s) \/ Acquire(s) \/ Retry(s)
  <2>1. ObjectInv(s)'
    BY <1>1 DEF Enter, Acquire, Retry
  <2>2. Creating'
    BY <1>1 DEF Enter, Acquire, Retry
  <2>3. Alive'
    BY <1>1 DEF Enter, Acquire, Retry
  <2> QED
    BY <2>1, <2>2, <2>3
<1>2. CASE Created(s) \/ Ready(s)
  <2>1. ObjectInv(s)'
    BY <1>2 DEF Created, Ready, Learn
  <2>2. Creating'
    BY <1>2 DEF Created, Ready, Learn
  <2>3. ASSUME NEW i \in alive', i[1] = s PROVE InstanceInv(i)'
    <3>1. CASE Ready(s)
      BY <3>1, <2>3 DEF Ready
    <3>2. CASE Created(s)
      <4>1. handle'[s] = attempt[s] /\ pc'[s] \in {"readying", "using"} /\ lost' = lost
        BY <3>2 DEF Created, Learn
      <4>2. i = Current(s) \/ i \in lost
        BY <3>2, <2>3 DEF Created
      <4> QED
        BY <4>1, <4>2, <2>3
    <3> QED
      BY <1>2, <3>1, <3>2
  <2> QED
    BY <2>1, <2>2, <2>3
<1>3. CASE CreateRaised(s) \/ NotReady(s) \/ TimeOut(s)
  <2>1. ObjectInv(s)'
    BY <1>3 DEF CreateRaised, NotReady, TimeOut, StartFailed, BeginStop
  <2>2. Creating'
    BY <1>3 DEF CreateRaised, NotReady, TimeOut, StartFailed, BeginStop
  <2>3. Alive'
    BY <1>3 DEF CreateRaised, NotReady, TimeOut, StartFailed, BeginStop
  <2> QED
    BY <2>1, <2>2, <2>3
<1>4. CASE CleanedUp(s) \/ Exited(s)
  <2>1. ObjectInv(s)'
    BY <1>4 DEF CleanedUp, Exited, StopEnds, Killed, KillFailed
  <2>2. Creating'
    BY <1>4 DEF CleanedUp, Exited, StopEnds, Killed, KillFailed
  <2>3. ASSUME NEW i \in alive', i[1] = s PROVE i \in lost'
    <3>1. i \in alive /\ i = <<s, i[2]>>
      BY <1>4, <2>3, <1>a DEF CleanedUp, Exited, StopEnds, Killed, KillFailed
    <3>2. i \in lost \/ i[2] = target[s]
      BY <1>4, <2>3, <3>1 DEF CleanedUp, Exited
    <3>3. CASE Killed(s)
      BY <2>3, <3>1, <3>2, <3>3 DEF Killed
    <3>4. CASE KillFailed(s)
      BY <2>3, <3>1, <3>2, <3>4 DEF KillFailed
    <3> QED
      BY <1>4, <3>3, <3>4 DEF CleanedUp, Exited, StopEnds
  <2> QED
    BY <2>1, <2>2, <2>3
<1>5. CASE Leave(s) \/ CancelBody(s)
  <2>1. ObjectInv(s)' /\ Creating'
    BY <1>5 DEF Leave, CancelBody, BeginStop
  <2>2. Alive'
    BY <1>5 DEF Leave, CancelBody, BeginStop
  <2> QED
    BY <2>1, <2>2
<1>6. CASE Cancel(s)
  <2>1. ObjectInv(s)' /\ Creating'
    BY <1>6 DEF Cancel
  <2>2. ASSUME NEW i \in alive', i[1] = s PROVE i \in lost'
    <3>1. i \in alive /\ i = <<s, i[2]>> /\ i[2] # 0
      BY <1>6, <2>2, <1>a DEF Cancel
    <3>2. CASE i \in lost
      BY <1>6, <3>2 DEF Cancel
    <3>3. CASE pc[s] = "readying" /\ i[2] = attempt[s]
      BY <1>6, <3>1, <3>3 DEF Cancel
    <3>4. CASE i[2] = target[s]
      BY <1>6, <3>1, <3>4 DEF Cancel
    <3> QED
      BY <1>6, <2>2, <3>1, <3>2, <3>3, <3>4 DEF Cancel
  <2> QED
    BY <2>1, <2>2
<1> QED
  BY <1>1, <1>2, <1>3, <1>4, <1>5, <1>6 DEF SandboxStep, StartStep

\* A creation that nobody awaits was lost already.
LEMMA LateKeepsInv ==
  ASSUME TypeOK, NEW i \in Instances, CreatedLate(i), NEW s \in Sandboxes, SandboxInv(s)
  PROVE  SandboxInv(s)'
<1>1. UNCHANGED <<pc, attempt, handle, target, lost>>
  BY DEF CreatedLate
<1>2. i[1] = s => i \in lost
  BY DEF CreatedLate, SandboxInv, CreationInv, InstancesOf
<1> QED
  BY <1>1, <1>2
     DEF CreatedLate, SandboxInv, ObjectInv, CreationInv, InstanceInv, InstancesOf, Current

LEMMA StepInv == IInv /\ [Next]_vars => IInv'
<1> SUFFICES ASSUME IInv, [Next]_vars PROVE IInv'
  OBVIOUS
<1>1. TypeOK /\ TypeOK' /\ SlotsAccounted'
  BY StepTypes, StepSlots DEF IInv
<1>2. \A s \in Sandboxes : SandboxInv(s)
  BY <1>1, InvBySandbox DEF IInv
<1>3. ASSUME NEW s \in Sandboxes, SandboxStep(s), NEW t \in Sandboxes PROVE SandboxInv(t)'
  BY <1>1, <1>2, <1>3, StepIsConfined, StepKeepsSandboxInv, OthersKeepInv
<1>4. ASSUME NEW i \in Instances, CreatedLate(i), NEW t \in Sandboxes PROVE SandboxInv(t)'
  BY <1>1, <1>2, <1>4, LateKeepsInv
<1>5. ASSUME UNCHANGED vars, NEW t \in Sandboxes PROVE SandboxInv(t)'
  BY <1>2, <1>5 DEF vars, SandboxInv, ObjectInv, CreationInv, InstanceInv, Current
<1>6. \A t \in Sandboxes : SandboxInv(t)'
  BY <1>3, <1>4, <1>5 DEF Next, SandboxStep, Done
<1> QED
  BY <1>1, <1>6 DEF IInv, TypeOK, SandboxInv, InstancesOf, Instances

-----------------------------------------------------------------------------
(* The theorems.                                                           *)

\* The types of SandboxLifecycle, for any objects and limits.
THEOREM SandboxTypeCorrect == Spec => []TypeOK
<1>1. IInv => TypeOK
  BY DEF IInv
<1> QED
  BY <1>1, InitInv, StepInv, PTL DEF Spec

\* No slot of the startup semaphore is lost or held twice (base.py 130-146).
THEOREM SlotsCorrect == Spec => []SlotsAccounted
<1>1. IInv => SlotsAccounted
  BY DEF IInv
<1> QED
  BY <1>1, InitInv, StepInv, PTL DEF Spec

\* The body runs in an instance that exists and is known (base.py 221-225).
THEOREM BodyCorrect == Spec => []BodyHasItsInstance
<1>1. IInv => BodyHasItsInstance
  BY DEF IInv, ObjectInv, BodyHasItsInstance
<1> QED
  BY <1>1, InitInv, StepInv, PTL DEF Spec

\* Whatever is left behind was lost on the way (base.py 225-229, 238-239).
THEOREM LeaksExplained == Spec => []LeaksAreLost
<1>1. IInv => LeaksAreLost
  BY DEF IInv, InstanceInv, LeaksAreLost, Ended
<1> QED
  BY <1>1, InitInv, StepInv, PTL DEF Spec
=============================================================================
