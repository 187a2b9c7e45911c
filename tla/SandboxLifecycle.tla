-------------------------- MODULE SandboxLifecycle --------------------------
(***************************************************************************)
(* Entering and leaving a sandbox (src/uni_agent/sandbox/base.py) over the *)
(* start() and stop() of its providers.                                    *)
(*                                                                         *)
(* Each Sandbox object is entered once, by `async with`.  An attempt waits *)
(* for a slot of the startup semaphore, asks the remote side to create an  *)
(* instance, and is bounded by a timeout; a failed attempt gives the slot  *)
(* back, stops what it knows of, backs off and tries again.                *)
(*                                                                         *)
(* Creating and killing are calls to another party (docker daemon, SDK in  *)
(* a thread).  Cancelling an await cancels neither; an answer may get lost,*)
(* so that a call that raised had its effect all the same.  The n-th       *)
(* attempt of object s creates instance <<s, n>>, which lives until killed *)
(* (the lifetime that some providers give it is left out).                 *)
(***************************************************************************)
EXTENDS Integers, Sequences, FiniteSets

CONSTANTS
  Sandboxes,   \* the Sandbox objects of one event loop
  Provider,    \* the provider of each
  Attempts,    \* `retry` of __aenter__
  Slots        \* SANDBOX_STARTUP_CONCURRENCY, when positive

ASSUME SandboxAssumption ==
  /\ Provider \in [Sandboxes -> {"docker", "cube", "modal", "openyuanrong", "vefaas"}]
  /\ IsFiniteSet(Sandboxes) /\ Attempts \in Nat \ {0} /\ Slots \in Nat \ {0}

VARIABLES
  pc,          \* where __aenter__, the body or __aexit__ of each stands
  attempt,     \* attempt of __aenter__
  free,        \* the value of the startup semaphore
  queue,       \* those waiting for it, in order
  handle,      \* the instance whose name or id the object holds, or 0
  target,      \* the instance that its stop() is killing, or 0
  creating,    \* creations that the remote side has not dealt with
  alive,       \* the instances that exist
  lost,        \* history: instances whose start or kill did not complete
  cancelled    \* the objects whose task was cancelled

vars == <<pc, attempt, free, queue, handle, target, creating, alive, lost, cancelled>>

Instances == Sandboxes \X (1..Attempts)

Ended == {"left", "failed", "cancelled"}

TypeOK ==
  /\ pc \in [Sandboxes -> {"outside", "queued", "starting", "readying", "stopping",
                           "backoff", "using", "exiting"} \cup Ended]
  /\ attempt \in [Sandboxes -> 1..Attempts]
  /\ free \in 0..Slots
  /\ queue \in Seq(Sandboxes)
  /\ handle \in [Sandboxes -> 0..Attempts] /\ target \in [Sandboxes -> 0..Attempts]
  /\ creating \subseteq Instances /\ alive \subseteq Instances /\ lost \subseteq Instances
  /\ cancelled \subseteq Sandboxes

Goto(s, there) == pc' = [pc EXCEPT ![s] = there]

Current(s) == <<s, attempt[s]>>

-----------------------------------------------------------------------------
(* stop().  docker and cube forget the instance before they kill it, modal *)
(* and openyuanrong afterwards, whatever came of it; vefaas forgets only   *)
(* what it killed.  Nothing bounds the time of a kill.                     *)

Slip_BeginStop(s) ==                           \* starts anew without cleaning up
  /\ target' = [target EXCEPT ![s] = 0]
  /\ UNCHANGED handle

BeginStop(s) ==
  /\ target' = [target EXCEPT ![s] = handle[s]]
  /\ handle' = IF Provider[s] \in {"docker", "cube"} THEN [handle EXCEPT ![s] = 0]
               ELSE handle

Killed(s) ==
  /\ alive' = alive \ {<<s, target[s]>>}
  /\ handle' = [handle EXCEPT ![s] = 0]
  /\ UNCHANGED lost

\* The kill failed (raised, or said so), with or without effect.  Without an
\* instance there is none.
KillFailed(s) ==
  /\ target[s] # 0
  /\ alive' \in {alive, alive \ {<<s, target[s]>>}}
  /\ handle' = IF Provider[s] = "vefaas" THEN handle ELSE [handle EXCEPT ![s] = 0]
  /\ lost' = lost \cup {<<s, target[s]>>}

StopEnds(s) ==
  /\ Killed(s) \/ KillFailed(s)
  /\ target' = [target EXCEPT ![s] = 0]

-----------------------------------------------------------------------------
(* __aenter__.                                                             *)

Enter(s) ==
  /\ pc[s] = "outside"
  /\ Goto(s, "queued") /\ queue' = Append(queue, s)
  /\ UNCHANGED <<attempt, free, handle, target, creating, alive, lost, cancelled>>

\* A slot goes to those who wait in the order they came; start() then calls
\* the remote side.  (That start() finds itself started already cannot be.)
Acquire(s) ==
  /\ pc[s] = "queued" /\ free > 0 /\ queue # << >> /\ Head(queue) = s
  /\ free' = free - 1 /\ queue' = Tail(queue)
  /\ Goto(s, "starting") /\ creating' = creating \cup {Current(s)}
  /\ UNCHANGED <<attempt, handle, target, alive, lost, cancelled>>

Slip_Learn(s) ==                               \* keeps an id it has
  handle' = [handle EXCEPT ![s] = IF @ = 0 THEN attempt[s] ELSE @]

Learn(s) == handle' = [handle EXCEPT ![s] = attempt[s]]

\* The remote side answered: most providers are ready then, vefaas knows the
\* id now and waits until the instance is alive.
Created(s) ==
  /\ pc[s] = "starting" /\ Current(s) \in creating
  /\ creating' = creating \ {Current(s)} /\ alive' = alive \cup {Current(s)}
  /\ Learn(s)
  /\ IF Provider[s] = "vefaas"
     THEN Goto(s, "readying") /\ UNCHANGED free
     ELSE Goto(s, "using") /\ free' = free + 1
  /\ UNCHANGED <<attempt, queue, target, lost, cancelled>>

Ready(s) ==
  /\ pc[s] = "readying"
  /\ Goto(s, "using") /\ free' = free + 1
  /\ UNCHANGED <<attempt, queue, handle, target, creating, alive, lost, cancelled>>

Slip_Release == UNCHANGED free                 \* keeps the slot

Release == free' = free + 1

\* start() raised: the slot goes back and the cleanup begins.
StartFailed(s) ==
  /\ Goto(s, "stopping") /\ Release /\ BeginStop(s)
  /\ UNCHANGED <<attempt, queue, cancelled>>

\* The creation raised, although the instance may have been created.
CreateRaised(s) ==
  /\ pc[s] = "starting" /\ Current(s) \in creating
  /\ creating' = creating \ {Current(s)}
  /\ \/ UNCHANGED <<alive, lost>>
     \/ alive' = alive \cup {Current(s)} /\ lost' = lost \cup {Current(s)}
  /\ StartFailed(s)

NotReady(s) ==
  /\ pc[s] = "readying" /\ StartFailed(s)
  /\ UNCHANGED <<creating, alive, lost>>

\* SANDBOX_STARTUP_TIMEOUT: the await is cancelled, the creation goes on.
TimeOut(s) ==
  /\ pc[s] \in {"starting", "readying"} /\ StartFailed(s)
  /\ lost' = IF pc[s] = "starting" THEN lost \cup {Current(s)} ELSE lost
  /\ UNCHANGED <<creating, alive>>

\* A creation that nobody waits for comes to its end.
CreatedLate(i) ==
  /\ i \in creating /\ (pc[i[1]] # "starting" \/ attempt[i[1]] # i[2])
  /\ creating' = creating \ {i}
  /\ alive' \in {alive, alive \cup {i}}
  /\ UNCHANGED <<pc, attempt, free, queue, handle, target, lost, cancelled>>

CleanedUp(s) ==
  /\ pc[s] = "stopping" /\ StopEnds(s)
  /\ Goto(s, IF attempt[s] < Attempts THEN "backoff" ELSE "failed")
  /\ UNCHANGED <<attempt, free, queue, creating, cancelled>>

Retry(s) ==
  /\ pc[s] = "backoff"
  /\ attempt' = [attempt EXCEPT ![s] = @ + 1]
  /\ Goto(s, "queued") /\ queue' = Append(queue, s)
  /\ UNCHANGED <<free, handle, target, creating, alive, lost, cancelled>>

-----------------------------------------------------------------------------
(* The body and __aexit__, which stops the sandbox however the body ended. *)

Leave(s) ==
  /\ pc[s] = "using"
  /\ Goto(s, "exiting") /\ BeginStop(s)
  /\ UNCHANGED <<attempt, free, queue, creating, alive, lost, cancelled>>

Exited(s) ==
  /\ pc[s] = "exiting" /\ StopEnds(s)
  /\ Goto(s, IF s \in cancelled THEN "cancelled" ELSE "left")
  /\ UNCHANGED <<attempt, free, queue, creating, cancelled>>

-----------------------------------------------------------------------------
(* Cancellation of the task, once, wherever it waits.  The body is stopped *)
(* and left; everywhere else CancelledError passes through __aenter__,     *)
(* which cleans up after an Exception only.                                *)

CancelBody(s) ==
  /\ pc[s] = "using" /\ s \notin cancelled
  /\ cancelled' = cancelled \cup {s}
  /\ Goto(s, "exiting") /\ BeginStop(s)
  /\ UNCHANGED <<attempt, free, queue, creating, alive, lost>>

Slip_SlotAfterCancel(s) == free                \* not given back

Slip_AlwaysReleased(s) == free + 1             \* by those who wait as well

SlotAfterCancel(s) == IF pc[s] \in {"starting", "readying"} THEN free + 1 ELSE free

LeaveQueue(s) ==
  IF pc[s] # "queued" THEN UNCHANGED queue
  ELSE \E k \in DOMAIN queue :
         queue[k] = s /\ queue' = SubSeq(queue, 1, k - 1) \o SubSeq(queue, k + 1, Len(queue))

\* What a stop() cut short was killing may be killed or not.
Cancel(s) ==
  /\ pc[s] \notin {"outside", "using"} \cup Ended /\ s \notin cancelled
  /\ cancelled' = cancelled \cup {s} /\ Goto(s, "cancelled")
  /\ free' = SlotAfterCancel(s)
  /\ LeaveQueue(s)
  /\ lost' = lost \cup (IF pc[s] \in {"starting", "readying"} THEN {Current(s)} ELSE {})
                  \cup {<<s, n>> : n \in {target[s]} \ {0}}
  /\ alive' \in {alive, alive \ {<<s, target[s]>>}}
  /\ target' = [target EXCEPT ![s] = 0]
  /\ UNCHANGED <<attempt, handle, creating>>

-----------------------------------------------------------------------------
Init ==
  /\ pc = [s \in Sandboxes |-> "outside"] /\ attempt = [s \in Sandboxes |-> 1]
  /\ free = Slots /\ queue = << >>
  /\ handle = [s \in Sandboxes |-> 0] /\ target = [s \in Sandboxes |-> 0]
  /\ creating = {} /\ alive = {} /\ lost = {} /\ cancelled = {}

StartStep(s) == Created(s) \/ Ready(s) \/ CreateRaised(s) \/ NotReady(s) \/ TimeOut(s)

Done == (\A s \in Sandboxes : pc[s] \in Ended) /\ creating = {} /\ UNCHANGED vars

Next ==
  \/ \E s \in Sandboxes :
       Enter(s) \/ Acquire(s) \/ StartStep(s) \/ CleanedUp(s) \/ Retry(s)
       \/ Leave(s) \/ Exited(s) \/ CancelBody(s) \/ Cancel(s)
  \/ \E i \in Instances : CreatedLate(i)
  \/ Done

Spec == Init /\ [][Next]_vars

\* The event loop runs its coroutines, the timeout bounds a start, and every
\* kill is answered some day: nothing in the code bounds it.  No body needs
\* to end, and no task to enter.
Fairness ==
  \A s \in Sandboxes :
    /\ WF_vars(Acquire(s)) /\ WF_vars(StartStep(s)) /\ WF_vars(Retry(s))
    /\ WF_vars(CleanedUp(s)) /\ WF_vars(Exited(s))

FairSpec == Spec /\ Fairness

-----------------------------------------------------------------------------
(* Properties.                                                             *)

Holding(s) == pc[s] \in {"starting", "readying"}

\* Every slot is free or held by an attempt that is starting: none is lost to
\* a failure, a timeout or a cancellation, nor kept during cleanup and
\* backoff (base.py 221-233 and its docstring at 214-216).
SlotsAccounted == free + Cardinality({s \in Sandboxes : Holding(s)}) = Slots

\* The body runs in an instance that exists and that the object can stop: no
\* late answer and no cleanup of an earlier attempt takes it away
\* (base.py 221-233).
BodyHasItsInstance ==
  \A s \in Sandboxes :
    pc[s] = "using" => handle[s] = attempt[s] /\ Current(s) \in alive

\* An instance is left behind only when its start did not complete (timeout,
\* cancellation, an answer that got lost) or its kill did not: every other
\* one is still known to an object that will stop it, or is gone
\* (base.py 225-229, 238-239 and the providers).
LeaksAreLost ==
  \A i \in alive \ lost :
    pc[i[1]] \notin Ended /\ i[2] \in {handle[i[1]], target[i[1]]}

\* Who waits for a sandbox gets one or an exception, though others fail, time
\* out or are cancelled while they hold the slots (base.py 130-146, 211-236).
EntryEnds == \A s \in Sandboxes : pc[s] = "queued" ~> pc[s] \in {"using"} \cup Ended
=============================================================================
