-------------------------- MODULE AgentShellProofs --------------------------
(***************************************************************************)
(* Proofs about an episode over the shell, for any number of commands, any *)
(* budgets and any turns of the policy.                                    *)
(***************************************************************************)
EXTENDS AgentShellProps, SequenceTheorems, TLAPS

-----------------------------------------------------------------------------
(* The shell by itself.                                                    *)

\* Nothing but the current command is ever waiting to be read, behind lines
\* that kill; and nothing is after an interrupt began.
TypedInv ==
  /\ pc \in {"interrupted", "suspending", "suspended", "closed"} => typed = << >>
  /\ pc = "killing" => typed = << >> \/ typed = <<KillLine>>
  /\ \A k \in DOMAIN typed : typed[k] # KillLine =>
       /\ typed[k] = counter /\ k = Len(typed) /\ pc \in {"polling", "expired"}
       /\ rc[counter] = "none" /\ fg # counter

\* A command before the current one can only run if it ignores both signals.
ForegroundInv ==
  fg # 0 =>
    /\ fg <= counter /\ rc[fg] = "none"
    /\ kind[fg] # "deaf" =>
         fg = counter /\ pc \in {"polling", "expired", "interrupted", "suspending"}

\* The current command has not been suspended before run() suspends it.
CodesInv ==
  /\ \A id \in Ids : id > counter => rc[id] = "none"
  /\ pc \notin {"idle", "closed"} => counter # 0
  /\ pc \in {"polling", "expired", "interrupted", "suspending"} => rc[counter] # "stopped"
  /\ result.id # 0 /\ ~result.timedOut => result.code = "ended"
  /\ result.id <= counter

\* A suspended program is the last job, and the line that kills it is coming.
JobsInv ==
  \A k \in DOMAIN jobs : jobs[k].stopped =>
    /\ k = Len(jobs) /\ fg = 0
    /\ pc = "suspended" \/ (pc = "killing" /\ typed = <<KillLine>>)

PaneInv == TypeOK /\ TypedInv /\ ForegroundInv /\ CodesInv /\ JobsInv

Jobs == [id : Ids, stopped : BOOLEAN]

Lines == {KillLine} \cup Ids

\* Killing the current job removes one job, and leaves none suspended.
LEMMA CurrentJobKilled ==
  ASSUME jobs \in Seq(Jobs), JobsInv, KillCurrentJob
  PROVE  /\ jobs' \in Seq(Jobs)
         /\ \A k \in DOMAIN jobs' : ~jobs'[k].stopped
<1>1. CASE jobs = << >>
  BY <1>1 DEF KillCurrentJob
<1>2. CASE jobs # << >>
  <2>1. PICK k \in DOMAIN jobs :
          /\ CurrentJob(k)
          /\ jobs' = SubSeq(jobs, 1, k - 1) \o SubSeq(jobs, k + 1, Len(jobs))
    BY <1>2 DEF KillCurrentJob
  <2>2. /\ k \in 1..Len(jobs) /\ Len(jobs) \in Nat /\ DOMAIN jobs = 1..Len(jobs)
        /\ \A j \in 1..Len(jobs) : jobs[j] \in Jobs
    BY ElementOfSeq, LenProperties
  <2> DEFINE a == SubSeq(jobs, 1, k - 1)
             b == SubSeq(jobs, k + 1, Len(jobs))
  <2>3. /\ a \in Seq(Jobs) /\ Len(a) = k - 1
        /\ \A j \in 1..(k - 1) : a[j] = jobs[j]
    <3>1. 1 \in Int /\ k - 1 \in Int /\ \A j \in 1..(k - 1) : jobs[j] \in Jobs
      BY <2>2
    <3>2. /\ a \in Seq(Jobs) /\ Len(a) = IF 1 <= k - 1 THEN k - 1 - 1 + 1 ELSE 0
          /\ \A j \in 1..(k - 1 - 1 + 1) : a[j] = jobs[1 + j - 1]
      BY <3>1, SubSeqProperties
    <3> QED BY <3>2, <2>2
  <2>4. /\ b \in Seq(Jobs) /\ Len(b) = Len(jobs) - k
        /\ \A j \in 1..(Len(jobs) - k) : b[j] = jobs[k + j]
    <3>1. k + 1 \in Int /\ Len(jobs) \in Int /\ \A j \in (k + 1)..Len(jobs) : jobs[j] \in Jobs
      BY <2>2
    <3>2. /\ b \in Seq(Jobs)
          /\ Len(b) = IF k + 1 <= Len(jobs) THEN Len(jobs) - (k + 1) + 1 ELSE 0
          /\ \A j \in 1..(Len(jobs) - (k + 1) + 1) : b[j] = jobs[k + 1 + j - 1]
      BY <3>1, SubSeqProperties
    <3> QED BY <3>2, <2>2
  <2> HIDE DEF a, b
  <2>5. /\ jobs' \in Seq(Jobs) /\ Len(jobs') = Len(a) + Len(b)
        /\ \A j \in 1..(Len(a) + Len(b)) :
             jobs'[j] = IF j <= Len(a) THEN a[j] ELSE b[j - Len(a)]
    BY <2>1, <2>3, <2>4, ConcatProperties DEF a, b
  <2>6. \A j \in DOMAIN jobs' : \E i \in 1..Len(jobs) : i # k /\ jobs'[j] = jobs[i]
    <3> TAKE j \in DOMAIN jobs'
    <3>1. j \in 1..(Len(jobs) - 1)
      BY <2>2, <2>3, <2>4, <2>5, LenProperties
    <3>2. CASE j <= k - 1
      BY <3>1, <3>2, <2>2, <2>3, <2>4, <2>5
    <3>3. CASE j > k - 1
      <4>1. jobs'[j] = b[j - (k - 1)] /\ j - (k - 1) \in 1..(Len(jobs) - k)
        BY <3>1, <3>3, <2>2, <2>3, <2>4, <2>5
      <4> QED BY <4>1, <2>2, <2>4, <3>1, <3>3
    <3> QED BY <3>1, <3>2, <3>3, <2>2
  <2>7. \A i \in 1..Len(jobs) : i # k => ~jobs[i].stopped
    BY <2>1, <2>2 DEF CurrentJob, JobsInv
  <2> QED BY <2>5, <2>6, <2>7
<1> QED BY <1>1, <1>2

\* What is read from the terminal is its first line.
LEMMA TypedTail ==
  ASSUME typed \in Seq(Lines), typed # << >>
  PROVE  /\ Head(typed) \in Lines /\ Head(typed) = typed[1]
         /\ Tail(typed) \in Seq(Lines) /\ Len(Tail(typed)) = Len(typed) - 1
         /\ Len(typed) \in Nat \ {0} /\ DOMAIN typed = 1..Len(typed)
         /\ DOMAIN Tail(typed) = 1..(Len(typed) - 1)
         /\ \A k \in 1..(Len(typed) - 1) : Tail(typed)[k] = typed[k + 1]
         /\ Len(typed) = 1 => Tail(typed) = << >>
<1>1. /\ Head(typed) \in Lines
      /\ Tail(typed) \in Seq(Lines) /\ Len(Tail(typed)) = Len(typed) - 1
      /\ \A i \in 1..Len(Tail(typed)) : Tail(typed)[i] = typed[i + 1]
  BY HeadTailProperties
<1>2. Head(typed) = typed[1] OBVIOUS
<1>3. Len(typed) \in Nat \ {0} /\ DOMAIN typed = 1..Len(typed)
  BY LenProperties
<1>4. DOMAIN Tail(typed) = 1..(Len(typed) - 1)
  BY <1>1, LenProperties
<1>5. Len(typed) = 1 => Tail(typed) = << >>
  BY <1>1, <1>4
<1> QED BY <1>1, <1>2, <1>3, <1>4, <1>5

LEMMA PaneInitially == Init => PaneInv
<1> SUFFICES ASSUME Init PROVE PaneInv
  OBVIOUS
<1>1. TypeOK
  BY MaxCommandsAssumption DEF Init, TypeOK, Kinds, Codes, Ids, KillLine
<1>2. TypedInv /\ ForegroundInv /\ CodesInv /\ JobsInv
  BY DEF Init, TypedInv, ForegroundInv, CodesInv, JobsInv, Ids
<1> QED BY <1>1, <1>2 DEF PaneInv

\* bash reads a line.
LEMMA ReaderKeepsPane == PaneInv /\ Reader => PaneInv'
<1> SUFFICES ASSUME PaneInv, Reader PROVE PaneInv'
  OBVIOUS
<1>0. /\ typed \in Seq(Lines) /\ typed # << >> /\ fg = 0 /\ typed' = Tail(typed)
      /\ counter \in Nat /\ KillLine = 0
      /\ UNCHANGED <<pc, counter, kind, rc, result>>
  BY MaxCommandsAssumption
     DEF PaneInv, TypeOK, Lines, Reader, ReadKillLine, ReadCommand, KillLine
<1>1. /\ Head(typed) \in Lines /\ Head(typed) = typed[1]
      /\ Tail(typed) \in Seq(Lines) /\ Len(Tail(typed)) = Len(typed) - 1
      /\ Len(typed) \in Nat \ {0} /\ DOMAIN typed = 1..Len(typed)
      /\ DOMAIN Tail(typed) = 1..(Len(typed) - 1)
      /\ \A k \in 1..(Len(typed) - 1) : Tail(typed)[k] = typed[k + 1]
      /\ Len(typed) = 1 => Tail(typed) = << >>
  BY <1>0, TypedTail
<1>2. CASE ReadKillLine
  <2>1. jobs' \in Seq(Jobs) /\ \A k \in DOMAIN jobs' : ~jobs'[k].stopped
    BY <1>2, CurrentJobKilled DEF ReadKillLine, PaneInv, TypeOK, Jobs
  <2>2. TypeOK'
    BY <1>0, <1>1, <1>2, <2>1 DEF PaneInv, TypeOK, ReadKillLine, Jobs, Lines
  <2>3. JobsInv'
    BY <2>1 DEF JobsInv
  <2>4. ForegroundInv' /\ CodesInv'
    BY <1>0, <1>2 DEF PaneInv, ForegroundInv, CodesInv, ReadKillLine
  <2>5. TypedInv'
    <3>1. typed = <<KillLine>> => typed' = << >>
      BY <1>0, <1>1
    <3> QED BY <3>1, <1>0, <1>1, <1>2 DEF PaneInv, TypedInv, ReadKillLine
  <2> QED BY <2>2, <2>3, <2>4, <2>5 DEF PaneInv
<1>3. CASE ReadCommand
  <2>1. /\ fg' = counter /\ counter # 0 /\ Len(typed) = 1 /\ typed' = << >>
        /\ pc \in {"polling", "expired"} /\ rc[counter] = "none"
    BY <1>0, <1>1, <1>3 DEF PaneInv, TypedInv, ReadCommand
  <2>2. \A k \in DOMAIN jobs : ~jobs[k].stopped
    BY <2>1 DEF PaneInv, JobsInv
  <2>3. jobs' \in Seq(Jobs) /\ \A k \in DOMAIN jobs' : ~jobs'[k].stopped
    <3>1. CASE kind[fg'] = "server"
      <4>1. [id |-> fg', stopped |-> FALSE] \in Jobs /\ jobs \in Seq(Jobs)
        BY <1>0, <2>1 DEF PaneInv, TypeOK, Jobs, Ids
      <4>2. jobs' = Append(jobs, [id |-> fg', stopped |-> FALSE])
        BY <1>3, <3>1 DEF ReadCommand
      <4> QED BY <4>1, <4>2, <2>2, AppendProperties, LenProperties
    <3>2. CASE kind[fg'] # "server"
      BY <3>2, <1>3, <2>2 DEF ReadCommand, PaneInv, TypeOK, Jobs
    <3> QED BY <3>1, <3>2
  <2>4. TypeOK'
    BY <1>0, <1>1, <2>1, <2>3 DEF PaneInv, TypeOK, Jobs, Lines, Ids
  <2>5. JobsInv'
    BY <2>3 DEF JobsInv
  <2>6. ForegroundInv' /\ CodesInv' /\ TypedInv'
    BY <1>0, <2>1 DEF PaneInv, ForegroundInv, CodesInv, TypedInv
  <2> QED BY <2>4, <2>5, <2>6 DEF PaneInv
<1> QED BY <1>2, <1>3 DEF Reader

\* The program in the foreground ends, or reads a line.
LEMMA ProgramKeepsPane == PaneInv /\ (Finish \/ Swallow) => PaneInv'
<1> SUFFICES ASSUME PaneInv, Finish \/ Swallow PROVE PaneInv'
  OBVIOUS
<1>0. /\ typed \in Seq(Lines) /\ fg # 0 /\ fg \in Ids /\ counter \in Nat /\ KillLine = 0
      /\ UNCHANGED <<pc, counter, kind, jobs, result>>
      /\ \A k \in DOMAIN jobs : ~jobs[k].stopped
  BY MaxCommandsAssumption DEF PaneInv, TypeOK, JobsInv, Lines, Finish, Swallow, KillLine
<1>1. CASE Finish
  <2>1. TypeOK'
    BY <1>0, <1>1 DEF PaneInv, TypeOK, Finish, Write, Codes
  <2>2. ForegroundInv' /\ CodesInv' /\ TypedInv' /\ JobsInv'
    BY <1>0, <1>1
       DEF PaneInv, TypeOK, ForegroundInv, CodesInv, TypedInv, JobsInv, Finish, Write
  <2> QED BY <2>1, <2>2 DEF PaneInv
<1>2. CASE Swallow
  <2>1. /\ Tail(typed) \in Seq(Lines) /\ Len(Tail(typed)) = Len(typed) - 1
        /\ Len(typed) \in Nat \ {0} /\ DOMAIN typed = 1..Len(typed)
        /\ DOMAIN Tail(typed) = 1..(Len(typed) - 1)
        /\ \A k \in 1..(Len(typed) - 1) : Tail(typed)[k] = typed[k + 1]
        /\ Len(typed) = 1 => Tail(typed) = << >>
    BY <1>0, <1>2, TypedTail DEF Swallow
  <2>2. TypeOK'
    BY <1>0, <1>2, <2>1 DEF PaneInv, TypeOK, Swallow, Lines
  <2>3. ForegroundInv' /\ CodesInv' /\ JobsInv'
    BY <1>0, <1>2 DEF PaneInv, ForegroundInv, CodesInv, JobsInv, Swallow
  <2>4. TypedInv'
    <3>1. typed = <<KillLine>> => typed' = << >>
      BY <1>2, <2>1 DEF Swallow
    <3> QED BY <3>1, <1>0, <1>2, <2>1 DEF PaneInv, TypedInv, Swallow
  <2> QED BY <2>2, <2>3, <2>4 DEF PaneInv
<1> QED BY <1>1, <1>2

\* run() starts a command, polls, or gives up.
LEMMA RunKeepsPane ==
  PaneInv /\ ((\E k \in Kinds : StartCommand(k)) \/ Poll \/ GiveUp \/ Close) => PaneInv'
<1> SUFFICES ASSUME PaneInv, (\E k \in Kinds : StartCommand(k)) \/ Poll \/ GiveUp \/ Close
             PROVE  PaneInv'
  OBVIOUS
<1>0. /\ typed \in Seq(Lines) /\ counter \in 0..MaxCommands /\ MaxCommands \in Nat
      /\ KillLine = 0 /\ Ids = 1..MaxCommands
  BY MaxCommandsAssumption DEF PaneInv, TypeOK, Lines, KillLine, Ids
<1>1. ASSUME NEW k \in Kinds, StartCommand(k) PROVE PaneInv'
  <2>1. /\ counter' = counter + 1 /\ counter + 1 \in Ids
        /\ kind' = [kind EXCEPT ![counter + 1] = k]
        /\ pc = "idle" /\ pc' = "polling" /\ UNCHANGED <<fg, jobs, rc, result>>
        /\ typed' = Append(typed, counter + 1)
    BY <1>0, <1>1 DEF StartCommand, NextId
  <2>2. /\ typed' \in Seq(Lines) /\ Len(typed') = Len(typed) + 1 /\ Len(typed) \in Nat
        /\ \A i \in 1..Len(typed) : typed'[i] = typed[i]
        /\ typed'[Len(typed) + 1] = counter + 1
        /\ DOMAIN typed = 1..Len(typed) /\ DOMAIN typed' = 1..Len(typed')
    <3>1. counter + 1 \in Lines
      BY <2>1 DEF Lines
    <3> QED BY <3>1, <2>1, <1>0, AppendProperties, LenProperties
  <2>3. TypeOK'
    BY <1>0, <2>1, <2>2 DEF PaneInv, TypeOK, Lines
  <2>4. rc[counter + 1] = "none" /\ (fg # 0 => fg <= counter /\ kind[fg] = "deaf" /\ fg \in Ids)
    BY <1>0, <2>1 DEF PaneInv, TypeOK, CodesInv, ForegroundInv
  <2>5. \A i \in 1..Len(typed) : typed[i] = KillLine
    BY <2>1, <2>2 DEF PaneInv, TypedInv
  <2>6. TypedInv'
    BY <1>0, <2>1, <2>2, <2>4, <2>5 DEF TypedInv
  <2>7. ForegroundInv' /\ CodesInv' /\ JobsInv'
    BY <1>0, <2>1, <2>4 DEF PaneInv, TypeOK, ForegroundInv, CodesInv, JobsInv
  <2> QED BY <2>3, <2>6, <2>7 DEF PaneInv
<1>2. CASE Poll
  <2>1. /\ pc = "polling" /\ pc' = "idle" /\ rc[counter] \in {"ended"} /\ counter \in Ids
        /\ result' = [id |-> counter, code |-> rc[counter], timedOut |-> FALSE]
        /\ UNCHANGED <<counter, kind, typed, fg, jobs, rc>>
    BY <1>0, <1>2 DEF Poll, Return, PaneInv, TypeOK, CodesInv, Codes
  <2>2. TypeOK'
    BY <1>0, <2>1 DEF PaneInv, TypeOK, Codes
  <2>3. TypedInv' /\ ForegroundInv' /\ CodesInv' /\ JobsInv'
    BY <1>0, <2>1 DEF PaneInv, TypedInv, ForegroundInv, CodesInv, JobsInv
  <2> QED BY <2>2, <2>3 DEF PaneInv
<1>3. CASE GiveUp
  BY <1>3, <1>0 DEF GiveUp, PaneInv, TypeOK, TypedInv, ForegroundInv, CodesInv, JobsInv
<1>4. CASE Close
  <2>1. TypeOK'
    BY <1>4 DEF Close, PaneInv, TypeOK
  <2>2. TypedInv' /\ ForegroundInv' /\ CodesInv' /\ JobsInv'
    BY <1>4 DEF Close, PaneInv, TypedInv, ForegroundInv, CodesInv, JobsInv
  <2> QED BY <2>1, <2>2 DEF PaneInv
<1> QED BY <1>1, <1>2, <1>3, <1>4

\* interrupt(): Ctrl-C, Ctrl-Z, kill.
LEMMA InterruptKeepsPane ==
  PaneInv /\ (CtrlC \/ PollInterrupted \/ CtrlZ \/ KillJob \/ PollKilled) => PaneInv'
<1> SUFFICES ASSUME PaneInv, CtrlC \/ PollInterrupted \/ CtrlZ \/ KillJob \/ PollKilled
             PROVE  PaneInv'
  OBVIOUS
<1>0. /\ typed \in Seq(Lines) /\ counter \in Ids /\ MaxCommands \in Nat
      /\ KillLine = 0 /\ Ids = 1..MaxCommands
  <2>1. pc \notin {"idle", "closed"}
    BY DEF CtrlC, PollInterrupted, CtrlZ, KillJob, PollKilled
  <2>2. counter # 0 /\ counter \in 0..MaxCommands /\ typed \in Seq(Lines)
    BY <2>1 DEF PaneInv, TypeOK, CodesInv, Lines
  <2> QED BY <2>2, MaxCommandsAssumption DEF KillLine, Ids
<1>1. CASE CtrlC
  <2>1. /\ typed' = << >> /\ pc = "expired" /\ pc' = "interrupted"
        /\ UNCHANGED <<jobs, counter, kind, result>>
        /\ \/ (fg = 0 \/ kind[fg] \in {"stubborn", "deaf"}) /\ UNCHANGED <<fg, rc>>
           \/ fg # 0 /\ kind[fg] # "deaf" /\ fg' = 0 /\ rc' = [rc EXCEPT ![fg] = "ended"]
           \/ fg # 0 /\ kind[fg] # "deaf" /\ fg' = 0 /\ UNCHANGED rc
    BY <1>1 DEF CtrlC, PressCtrlC, Write
  <2>2. TypeOK'
    BY <1>0, <2>1 DEF PaneInv, TypeOK, Codes
  <2>3. TypedInv' /\ ForegroundInv' /\ CodesInv' /\ JobsInv'
    BY <1>0, <2>1 DEF PaneInv, TypeOK, TypedInv, ForegroundInv, CodesInv, JobsInv
  <2> QED BY <2>2, <2>3 DEF PaneInv
<1>2. CASE PollInterrupted
  <2>1. /\ pc = "interrupted" /\ UNCHANGED <<counter, kind, typed, fg, jobs, rc>>
        /\ \/ /\ rc[counter] # "none" /\ pc' = "idle"
              /\ result' = [id |-> counter, code |-> rc[counter], timedOut |-> TRUE]
           \/ pc' = "suspending" /\ UNCHANGED result
    BY <1>2 DEF PollInterrupted, Return
  <2>2. TypeOK'
    <3>1. result' \in [id : {0} \cup Ids, code : Codes, timedOut : BOOLEAN]
      <4>1. rc[counter] \in Codes
        BY <1>0 DEF PaneInv, TypeOK
      <4>2. result \in [id : {0} \cup Ids, code : Codes, timedOut : BOOLEAN]
        BY DEF PaneInv, TypeOK
      <4>3. \/ result' = result
            \/ result' = [id |-> counter, code |-> rc[counter], timedOut |-> TRUE]
        BY <2>1
      <4>4. [id |-> counter, code |-> rc[counter], timedOut |-> TRUE]
              \in [id : {0} \cup Ids, code : Codes, timedOut : BOOLEAN]
        BY <4>1, <1>0
      <4> QED BY <4>2, <4>3, <4>4
    <3>2. /\ pc' \in {"idle", "suspending"}
          /\ UNCHANGED <<counter, kind, typed, fg, jobs, rc>>
      BY <2>1
    <3> QED BY <3>1, <3>2 DEF PaneInv, TypeOK
  <2>3. TypedInv' /\ ForegroundInv' /\ CodesInv' /\ JobsInv'
    BY <1>0, <2>1 DEF PaneInv, TypedInv, ForegroundInv, CodesInv, JobsInv
  <2> QED BY <2>2, <2>3 DEF PaneInv
<1>3. CASE CtrlZ
  <2>1. /\ typed' = << >> /\ pc = "suspending" /\ pc' = "suspended"
        /\ UNCHANGED <<counter, kind, result>>
        /\ \/ (fg = 0 \/ kind[fg] = "deaf") /\ UNCHANGED <<fg, jobs, rc>>
           \/ /\ fg # 0 /\ kind[fg] # "deaf" /\ fg' = 0
              /\ rc' = [rc EXCEPT ![fg] = "stopped"]
              /\ jobs' = Append(jobs, [id |-> fg, stopped |-> TRUE])
    BY <1>3 DEF CtrlZ, PressCtrlZ, Write
  <2>2. jobs \in Seq(Jobs) /\ \A k \in DOMAIN jobs : ~jobs[k].stopped
    BY <2>1 DEF PaneInv, TypeOK, JobsInv, Jobs
  <2>3. jobs' \in Seq(Jobs) /\ \A k \in DOMAIN jobs' : jobs'[k].stopped => k = Len(jobs') /\ fg' = 0
    <3>1. CASE jobs' = jobs
      BY <3>1, <2>2
    <3>2. CASE fg # 0 /\ fg' = 0 /\ jobs' = Append(jobs, [id |-> fg, stopped |-> TRUE])
      <4>1. [id |-> fg, stopped |-> TRUE] \in Jobs
        BY <3>2 DEF PaneInv, TypeOK, Jobs
      <4> QED BY <4>1, <3>2, <2>2, AppendProperties, LenProperties
    <3> QED BY <3>1, <3>2, <2>1
  <2>4. TypeOK'
    <3>1. rc' \in [Ids -> Codes] /\ fg' \in {0} \cup Ids
      BY <1>0, <2>1 DEF PaneInv, TypeOK, Codes
    <3>2. typed' \in Seq({KillLine} \cup Ids)
      BY <2>1
    <3> QED BY <3>1, <3>2, <2>1, <2>3 DEF PaneInv, TypeOK, Jobs
  <2>5. TypedInv' /\ ForegroundInv' /\ CodesInv'
    BY <1>0, <2>1 DEF PaneInv, TypeOK, TypedInv, ForegroundInv, CodesInv
  <2>6. JobsInv'
    BY <2>1, <2>3 DEF JobsInv
  <2> QED BY <2>4, <2>5, <2>6 DEF PaneInv
<1>4. CASE KillJob
  <2>1. /\ pc = "suspended" /\ pc' = "killing" /\ typed = << >> /\ typed' = <<KillLine>>
        /\ UNCHANGED <<counter, kind, fg, jobs, rc, result>>
    BY <1>4 DEF KillJob, TypeKill, PaneInv, TypedInv
  <2>2. TypeOK'
    BY <1>0, <2>1 DEF PaneInv, TypeOK
  <2>3. TypedInv' /\ ForegroundInv' /\ CodesInv' /\ JobsInv'
    BY <1>0, <2>1 DEF PaneInv, TypedInv, ForegroundInv, CodesInv, JobsInv
  <2> QED BY <2>2, <2>3 DEF PaneInv
<1>5. CASE PollKilled
  <2>1. /\ pc = "killing" /\ pc' = "idle" /\ (fg # 0 \/ typed = << >>)
        /\ UNCHANGED <<counter, kind, typed, fg, jobs, rc>>
        /\ result' = [id |-> counter, code |-> rc[counter], timedOut |-> TRUE]
    BY <1>5 DEF PollKilled, Return, Settled
  <2>2. TypeOK'
    BY <1>0, <2>1 DEF PaneInv, TypeOK
  <2>3. TypedInv' /\ ForegroundInv' /\ CodesInv'
    BY <1>0, <2>1 DEF PaneInv, TypedInv, ForegroundInv, CodesInv
  <2>4. \A k \in DOMAIN jobs : ~jobs[k].stopped
    BY <2>1 DEF PaneInv, JobsInv
  <2>5. JobsInv'
    BY <2>1, <2>4 DEF JobsInv
  <2> QED BY <2>2, <2>3, <2>5 DEF PaneInv
<1> QED BY <1>1, <1>2, <1>3, <1>4, <1>5

LEMMA PaneInductive == PaneInv /\ [Next]_paneVars => PaneInv'
<1> SUFFICES ASSUME PaneInv, [Next]_paneVars PROVE PaneInv'
  OBVIOUS
<1>1. CASE UNCHANGED paneVars
  BY <1>1 DEF paneVars, vars, PaneInv, TypeOK, TypedInv, ForegroundInv, CodesInv, JobsInv
<1>2. CASE Next
  BY <1>1, <1>2, ReaderKeepsPane, ProgramKeepsPane, RunKeepsPane, InterruptKeepsPane
     DEF Next, Caller, paneVars
<1> QED BY <1>1, <1>2

LEMMA PaneInvSuffices == PaneInv => ResultIsOwn /\ PaneIsFree /\ NoStoppedJobs
<1> SUFFICES ASSUME PaneInv PROVE ResultIsOwn /\ PaneIsFree /\ NoStoppedJobs
  OBVIOUS
<1>1. ResultIsOwn
  BY DEF PaneInv, TypedInv, ForegroundInv, CodesInv, ResultIsOwn, Ids, KillLine
<1>2. PaneIsFree /\ NoStoppedJobs
  BY DEF PaneInv, ForegroundInv, JobsInv, PaneIsFree, NoStoppedJobs
<1> QED BY <1>1, <1>2

-----------------------------------------------------------------------------
(* An episode does with the shell what a caller of run() may do.           *)

LEMMA EpisodeStepsPane == [EpisodeNext]_episodeVars => [Next]_paneVars
<1> SUFFICES ASSUME [EpisodeNext]_episodeVars PROVE [Next]_paneVars
  OBVIOUS
<1>1. CASE UNCHANGED paneVars
  BY <1>1
<1>2. ASSUME NEW k \in Kinds, ShellCommand(k) PROVE Next
  BY <1>2 DEF ShellCommand, Next
<1>3. CASE ShellGoesOn \/ ShellReturns
  BY <1>3 DEF ShellGoesOn, ShellReturns, Next
<1>4. CASE ShellClosed \/ CloseFailed
  BY <1>4 DEF ShellClosed, CloseFailed, Next
<1>5. CASE PaneStep
  BY <1>5 DEF PaneStep, Next
<1>6. CASE ShellStarted \/ ShellNotStarted \/ Ask \/ Answer \/ OtherCall
  BY <1>1, <1>6 DEF ShellStarted, ShellNotStarted, Ask, Answer, OtherCall
<1>7. CASE ShellRaises \/ CancelAgent \/ UNCHANGED episodeVars
  BY <1>1, <1>7 DEF ShellRaises, CancelAgent, episodeVars
<1> QED BY <1>2, <1>3, <1>4, <1>5, <1>6, <1>7 DEF EpisodeNext, AgentStep

\* An episode implements TmuxShell: whatever the agent, its toolbox and the
\* policy do, the pane and its caller only make the steps that TmuxShell
\* describes (tools/shell.py 246-332, called from 448-469).
THEOREM EpisodeImplementsShell == EpisodeSpec => Spec
<1>1. EpisodeInit => Init
  BY DEF EpisodeInit
<1> QED BY <1>1, EpisodeStepsPane, PTL DEF EpisodeSpec, Spec, paneVars

\* In TmuxShell, and so in an episode, PaneInv holds.
LEMMA PaneInvariant == Spec => []PaneInv
<1>1. PaneInv /\ [Next]_vars => PaneInv'
  BY PaneInductive DEF paneVars
<1> QED BY <1>1, PaneInitially, PTL DEF Spec

\* An exit code is that of a command which has run and does not run any more,
\* and a result without timeout is that of a command which ended (shell.py
\* 246-307).
THEOREM ResultsCorrect == EpisodeSpec => []ResultIsOwn
  BY EpisodeImplementsShell, PaneInvariant, PaneInvSuffices, PTL

\* After run() the pane is at its prompt, unless a program ignores both
\* signals (shell.py 317-332).
THEOREM PaneCorrect == EpisodeSpec => []PaneIsFree
  BY EpisodeImplementsShell, PaneInvariant, PaneInvSuffices, PTL

\* Suspended programs do not pile up (shell.py 328-331).
THEOREM JobsCorrect == EpisodeSpec => []NoStoppedJobs
  BY EpisodeImplementsShell, PaneInvariant, PaneInvSuffices, PTL

-----------------------------------------------------------------------------
(* The agent's budgets, and its sessions.                                  *)

AgentInv ==
  /\ AgentTypeOK /\ calls \in Seq(STRING)
  /\ at = "starting" => attempt < StartAttempts /\ timeouts = 0
  /\ at \in {"asking", "waiting", "acting"} =>
       attempt <= MaxRetries /\ timeouts <= TimeoutBudget
  /\ at = "acting" => made < Len(calls)
  /\ at \in {"starting", "asking", "waiting"} => made = Len(calls)
  /\ at \notin {"closing", "over"} => reason = "unknown"

\* Each attempt to start opens one session at most, and holds none.
SessionInv ==
  /\ opened \in 0..StartAttempts
  /\ alive \subseteq 1..opened /\ lost \subseteq 1..opened /\ shell \in 0..opened
  /\ at = "starting" => opened <= attempt /\ shell = 0
  /\ SessionsAccounted

LEMMA AgentInitially == EpisodeInit => AgentInv /\ SessionInv
<1> SUFFICES ASSUME EpisodeInit PROVE AgentInv /\ SessionInv
  OBVIOUS
<1>1. AgentInv
  <2>1. /\ at = "starting" /\ attempt = 0 /\ steps = 0 /\ timeouts = 0
        /\ calls = << >> /\ made = 0 /\ finishing \in BOOLEAN /\ reason = "unknown"
    BY DEF EpisodeInit, AgentInit
  <2>2. calls \in Seq(STRING) /\ Len(calls) = 0
    BY <2>1
  <2> QED BY <2>1, <2>2, AgentAssumption DEF AgentInv, AgentTypeOK, Reasons
<1>2. SessionInv
  BY AgentAssumption DEF EpisodeInit, AgentInit, SessionInv, SessionsAccounted
<1> QED BY <1>1, <1>2

LEMMA StartKeepsAgent ==
  AgentInv /\ (ToolboxStarted \/ ToolboxFailed \/ Cancelled \/ AgentClosed \/ CallRaises)
    => AgentInv'
  BY AgentAssumption
     DEF AgentInv, AgentTypeOK, Reasons, StopWith,
         ToolboxStarted, ToolboxFailed, Cancelled, AgentClosed, CallRaises

LEMMA AskKeepsAgent == AgentInv /\ (Post \/ PostFailed \/ PostRefused) => AgentInv'
  BY AgentAssumption
     DEF AgentInv, AgentTypeOK, Reasons, StopWith, GivesUp, Post, PostFailed, PostRefused

LEMMA AnswerKeepsAgent ==
  ASSUME AgentInv, NEW cs \in Turns, NEW cut \in BOOLEAN, ModelAnswers("turn", cs, cut)
  PROVE  AgentInv'
<1>1. cs \in Seq(STRING) /\ Len(cs) \in Nat /\ (cs # << >> => Len(cs) # 0)
  BY TurnsAssumption
<1>2. /\ at = "waiting" /\ calls' = cs /\ made' = 0 /\ finishing' \in BOOLEAN /\ attempt' = 0
      /\ UNCHANGED <<steps, timeouts>>
      /\ \/ at' = "closing" /\ reason' \in {"token_limit", "finished"}
         \/ cs # << >> /\ at' = "acting" /\ UNCHANGED reason
  BY DEF ModelAnswers, StopWith
<1> QED BY <1>1, <1>2, AgentAssumption DEF AgentInv, AgentTypeOK, Reasons

LEMMA CallKeepsAgent ==
  ASSUME AgentInv, NEW outcome, NEW status \in Statuses, CallReturns(outcome, status)
  PROVE  AgentInv'
<1>1. Len(calls) \in Nat /\ timeouts' \in {timeouts, timeouts + 1} /\ calls' = calls
  BY AgentAssumption DEF AgentInv, AgentTypeOK, CallReturns
<1>2. CASE made' = Len(calls) /\ OverBudget /\ StopWith("timeout_limit")
           /\ UNCHANGED <<finishing, steps>>
  BY <1>1, <1>2, AgentAssumption
     DEF AgentInv, AgentTypeOK, Reasons, StopWith, CallReturns, OverBudget
<1>3. CASE ~OverBudget /\ made' = made + 1
  <2>1. finishing' \in BOOLEAN /\ timeouts' <= TimeoutBudget
    <3>1. finishing' = (finishing \/ (NextCall \in FinishTools /\ status = "ok"))
      BY <1>3 DEF CallReturns
    <3>2. timeouts' <= TimeoutBudget
      BY <1>1, <1>3, AgentAssumption DEF AgentInv, AgentTypeOK, OverBudget
    <3> QED BY <3>1, <3>2
  <2>2. \/ made' < Len(calls) /\ UNCHANGED <<at, steps, reason>>
        \/ made' = Len(calls) /\ NextTurn
        \/ made' = Len(calls) /\ StopWith("finished") /\ UNCHANGED steps
    BY <1>3 DEF CallReturns
  <2> QED BY <1>1, <1>3, <2>1, <2>2, AgentAssumption
          DEF AgentInv, AgentTypeOK, Reasons, StopWith, NextTurn, CallReturns
<1> QED BY <1>2, <1>3 DEF CallReturns

\* What a step of an episode is to the agent.
AgentMoves ==
  \/ ToolboxStarted \/ ToolboxFailed \/ Cancelled \/ AgentClosed \/ CallRaises
  \/ Post \/ PostFailed \/ PostRefused
  \/ \E cs \in Turns, cut \in BOOLEAN : ModelAnswers("turn", cs, cut)
  \/ \E status \in Statuses : CallReturns("done", status) \/ CallReturns(result', status)

LEMMA EpisodeStepsAgent == [EpisodeNext]_episodeVars => AgentMoves \/ UNCHANGED agentVars
<1> SUFFICES ASSUME [EpisodeNext]_episodeVars PROVE AgentMoves \/ UNCHANGED agentVars
  OBVIOUS
<1>1. CASE ShellStarted \/ ShellNotStarted \/ Ask \/ Answer
  BY <1>1 DEF ShellStarted, ShellNotStarted, Ask, Answer, AgentMoves
<1>2. CASE ShellReturns \/ OtherCall
  BY <1>2 DEF ShellReturns, OtherCall, AgentMoves, Statuses
<1>3. CASE ShellClosed \/ CloseFailed \/ ShellRaises \/ CancelAgent
  BY <1>3 DEF ShellClosed, CloseFailed, ShellRaises, CancelAgent, AgentMoves
<1>4. CASE (\E k \in Kinds : ShellCommand(k)) \/ ShellGoesOn \/ PaneStep \/ UNCHANGED episodeVars
  BY <1>4 DEF ShellCommand, ShellGoesOn, PaneStep, episodeVars
<1> QED BY <1>1, <1>2, <1>3, <1>4 DEF EpisodeNext, AgentStep

LEMMA AgentInductive == AgentInv /\ [EpisodeNext]_episodeVars => AgentInv'
<1> SUFFICES ASSUME AgentInv, AgentMoves \/ UNCHANGED agentVars PROVE AgentInv'
  BY EpisodeStepsAgent
<1>1. CASE UNCHANGED agentVars
  BY <1>1 DEF agentVars, AgentInv, AgentTypeOK
<1>2. CASE ToolboxStarted \/ ToolboxFailed \/ Cancelled \/ AgentClosed \/ CallRaises
  BY <1>2, StartKeepsAgent
<1>3. CASE Post \/ PostFailed \/ PostRefused
  BY <1>3, AskKeepsAgent
<1>4. ASSUME NEW cs \in Turns, NEW cut \in BOOLEAN, ModelAnswers("turn", cs, cut)
      PROVE AgentInv'
  BY <1>4, AnswerKeepsAgent
<1>5. ASSUME NEW status \in Statuses, CallReturns("done", status) PROVE AgentInv'
  BY <1>5, CallKeepsAgent
<1>6. ASSUME NEW status \in Statuses, CallReturns(result', status) PROVE AgentInv'
  BY <1>6, CallKeepsAgent
<1> QED BY <1>1, <1>2, <1>3, <1>4, <1>5, <1>6 DEF AgentMoves

LEMMA SessionInductive == AgentInv /\ SessionInv /\ [EpisodeNext]_episodeVars => SessionInv'
<1> SUFFICES ASSUME AgentInv, SessionInv, [EpisodeNext]_episodeVars PROVE SessionInv'
  OBVIOUS
<1>0. opened \in Nat /\ StartAttempts \in Nat /\ attempt \in Nat
  BY AgentAssumption DEF SessionInv, AgentInv, AgentTypeOK
<1>1. CASE ShellStarted
  BY <1>0, <1>1
     DEF SessionInv, SessionsAccounted, AgentInv, ShellStarted, ToolboxStarted, Opens
<1>2. ASSUME StartIncomplete, at = "starting", attempt' = attempt + 1 \/ at' = "closing",
             at' \in {"starting", "closing"}
      PROVE  SessionInv'
  <2>1. CASE UNCHANGED sessionVars
    BY <1>0, <1>2, <2>1 DEF SessionInv, SessionsAccounted, sessionVars
  <2>2. CASE Opens /\ lost' = lost \cup {opened + 1} /\ UNCHANGED shell
    BY <1>0, <1>2, <2>2 DEF SessionInv, SessionsAccounted, AgentInv, Opens
  <2> QED BY <1>2, <2>1, <2>2 DEF StartIncomplete
<1>3. CASE ShellNotStarted
  BY <1>2, <1>3 DEF ShellNotStarted, ToolboxFailed, StopWith
<1>4. CASE CancelAgent
  <2>1. CASE UNCHANGED sessionVars
    BY <1>0, <1>4, <2>1
       DEF SessionInv, SessionsAccounted, sessionVars, CancelAgent, Cancelled, StopWith
  <2>2. CASE at = "starting" /\ StartIncomplete
    BY <1>2, <1>4, <2>2 DEF CancelAgent, Cancelled, StopWith
  <2> QED BY <1>4, <2>1, <2>2 DEF CancelAgent
<1>5. CASE ShellClosed
  <2>1. CASE shell = 0 /\ UNCHANGED sessionVars
    BY <1>0, <1>5, <2>1
       DEF SessionInv, SessionsAccounted, sessionVars, ShellClosed, AgentClosed
  <2>2. CASE shell # 0 /\ Kills /\ UNCHANGED <<opened, lost>>
    BY <1>0, <1>5, <2>2 DEF SessionInv, SessionsAccounted, ShellClosed, AgentClosed, Kills
  <2> QED BY <1>5, <2>1, <2>2 DEF ShellClosed
<1>6. CASE CloseFailed
  <2>1. /\ at' = "over" /\ shell \in 1..opened /\ opened' = opened /\ shell' = shell
        /\ lost' = lost \cup {shell} /\ alive' \subseteq alive
    <3>1. shell # 0 /\ (UNCHANGED alive \/ alive' = alive \ {shell})
      BY <1>6 DEF CloseFailed
    <3> QED BY <1>0, <1>6, <3>1 DEF SessionInv, CloseFailed, AgentClosed
  <2> QED BY <1>0, <2>1 DEF SessionInv, SessionsAccounted
<1>7. CASE UNCHANGED sessionVars /\ (UNCHANGED agentVars \/ at \in {"asking", "waiting", "acting"})
           /\ (at \in {"asking", "waiting", "acting"} => at' \in {"asking", "waiting", "acting", "closing"})
  BY <1>0, <1>7 DEF SessionInv, SessionsAccounted, sessionVars, agentVars
<1>8. CASE Ask \/ Answer
  BY <1>7, <1>8 DEF Ask, Answer, Post, PostFailed, PostRefused, ModelAnswers, StopWith
<1>9. CASE ShellReturns \/ OtherCall \/ ShellRaises
  <2>1. at = "acting" /\ UNCHANGED sessionVars
    BY <1>9 DEF ShellReturns, OtherCall, ShellRaises, CallsShell
  <2>2. at' \in {"acting", "asking", "closing"}
    <3>1. ASSUME NEW o, NEW st, CallReturns(o, st) PROVE at' \in {"acting", "asking", "closing"}
      BY <3>1 DEF CallReturns, NextTurn, StopWith
    <3> QED BY <3>1, <1>9 DEF ShellReturns, OtherCall, ShellRaises, CallRaises, StopWith
  <2> QED BY <1>7, <2>1, <2>2
<1>10. CASE (\E k \in Kinds : ShellCommand(k)) \/ ShellGoesOn \/ PaneStep \/ UNCHANGED episodeVars
  BY <1>7, <1>10 DEF ShellCommand, ShellGoesOn, PaneStep, episodeVars, agentVars, CallsShell
<1> QED BY <1>1, <1>3, <1>4, <1>5, <1>6, <1>8, <1>9, <1>10 DEF EpisodeNext, AgentStep

LEMMA AgentInvariant == EpisodeSpec => [](AgentInv /\ SessionInv)
<1>1. AgentInv /\ SessionInv /\ [EpisodeNext]_episodeVars => (AgentInv /\ SessionInv)'
  BY AgentInductive, SessionInductive
<1> QED BY <1>1, AgentInitially, PTL DEF EpisodeSpec

\* Every state of an episode is well typed: attempts, steps and timeouts stay
\* within their budgets and one session at most is opened at each attempt
\* (react/agent.py 85-103, tools/base.py 318-346).
THEOREM EpisodeTypeCorrect == EpisodeSpec => []EpisodeTypeOK
<1>1. PaneInv /\ AgentInv /\ SessionInv => EpisodeTypeOK
  BY DEF PaneInv, AgentInv, SessionInv, EpisodeTypeOK
<1> QED BY <1>1, EpisodeImplementsShell, PaneInvariant, AgentInvariant, PTL

\* While it works the agent has one session, which exists; a session it does
\* not hold is left over from a start or a kill that did not complete
\* (tools/base.py 318-346, tools/shell.py 433-441 and 466-469).
THEOREM SessionsCorrect == EpisodeSpec => []SessionsAccounted
<1>1. SessionInv => SessionsAccounted
  BY DEF SessionInv
<1> QED BY <1>1, AgentInvariant, PTL

-----------------------------------------------------------------------------
(* The transcript.                                                         *)

IsSeq(s) == \E M : s \in Seq(M)

LEMMA SeqFacts ==
  ASSUME NEW s, IsSeq(s)
  PROVE  Len(s) \in Nat /\ DOMAIN s = 1..Len(s)
<1>1. PICK M : s \in Seq(M)
  BY DEF IsSeq
<1> QED BY <1>1, LenProperties

LEMMA Appended ==
  ASSUME NEW s, IsSeq(s), NEW e
  PROVE  /\ IsSeq(Append(s, e)) /\ Len(Append(s, e)) = Len(s) + 1
         /\ \A i \in 1..Len(s) : Append(s, e)[i] = s[i]
         /\ Append(s, e)[Len(s) + 1] = e
<1>1. PICK M : s \in Seq(M)
  BY DEF IsSeq
<1>2. s \in Seq(M \cup {e}) /\ e \in M \cup {e}
  BY <1>1, SeqMonotonic
<1>3. Append(s, e) \in Seq(M \cup {e})
  BY <1>2, AppendProperties
<1> QED BY <1>2, <1>3, AppendProperties DEF IsSeq

LEMMA Concatenated ==
  ASSUME NEW s, IsSeq(s), NEW u, IsSeq(u)
  PROVE  /\ IsSeq(s \o u) /\ Len(s \o u) = Len(s) + Len(u)
         /\ \A i \in 1..Len(s) : (s \o u)[i] = s[i]
         /\ \A i \in 1..Len(u) : (s \o u)[Len(s) + i] = u[i]
<1>1. PICK M : s \in Seq(M)
  BY DEF IsSeq
<1>2. PICK N : u \in Seq(N)
  BY DEF IsSeq
<1>3. s \in Seq(M \cup N) /\ u \in Seq(M \cup N)
  BY <1>1, <1>2, SeqMonotonic
<1>4. /\ s \o u \in Seq(M \cup N) /\ Len(s \o u) = Len(s) + Len(u)
      /\ \A i \in 1..(Len(s) + Len(u)) : (s \o u)[i] = IF i <= Len(s) THEN s[i] ELSE u[i - Len(s)]
  BY <1>3, ConcatProperties
<1>5. Len(s) \in Nat /\ Len(u) \in Nat
  BY <1>1, <1>2, LenProperties
<1>6. \A i \in 1..Len(s) : (s \o u)[i] = s[i]
  BY <1>4, <1>5
<1>7. \A i \in 1..Len(u) : (s \o u)[Len(s) + i] = u[i]
  <2> TAKE i \in 1..Len(u)
  <2>1. Len(s) + i \in 1..(Len(s) + Len(u)) /\ ~(Len(s) + i <= Len(s)) /\ Len(s) + i - Len(s) = i
    BY <1>5
  <2> QED BY <1>4, <2>1
<1> QED BY <1>4, <1>6, <1>7 DEF IsSeq

LEMMA SkippedFacts ==
  ASSUME NEW k \in Nat, k <= Len(calls), Len(calls) \in Nat
  PROVE  /\ IsSeq(Skipped(k)) /\ Len(Skipped(k)) = Len(calls) - k
         /\ \A i \in 1..(Len(calls) - k) : Skipped(k)[i] = ToolMessage(k + i, << >>)
<1> DEFINE M == {ToolMessage(k + i, << >>) : i \in 1..(Len(calls) - k)}
<1>1. Len(calls) - k \in Nat
  OBVIOUS
<1>2. Skipped(k) \in [1..(Len(calls) - k) -> M]
  BY DEF Skipped
<1>3. Skipped(k) \in Seq(M)
  BY <1>1, <1>2, SeqDef
<1>4. Len(Skipped(k)) = Len(calls) - k
  BY <1>1, <1>2, <1>3, LenProperties
<1>5. \A i \in 1..(Len(calls) - k) : Skipped(k)[i] = ToolMessage(k + i, << >>)
  BY DEF Skipped
<1> HIDE DEF M
<1> QED BY <1>3, <1>4, <1>5 DEF IsSeq

\* Where the turn begins whose calls are being made.
Turn == Len(transcript) - made

CurrentTurn ==
  /\ Turn \in DOMAIN transcript /\ transcript[Turn].role = "assistant"
  /\ transcript[Turn].calls = calls
  /\ \A k \in 1..made : AnswersCall(Turn, k, calls)

TranscriptInv ==
  /\ IsSeq(transcript)
  /\ \A i \in DOMAIN transcript :
       transcript[i].role = "assistant" => transcript[i].calls \in Seq(STRING)
  /\ CallsAnswered
  /\ at = "acting" => CurrentTurn

\* The turns before the current one are complete.
LEMMA EarlierTurns ==
  ASSUME AgentInv, TranscriptInv, at = "acting",
         NEW i \in DOMAIN transcript, transcript[i].role = "assistant", i # Turn
  PROVE  /\ Len(transcript[i].calls) \in Nat
         /\ i + Len(transcript[i].calls) < Turn
         /\ \A k \in DOMAIN transcript[i].calls : AnswersCall(i, k, transcript[i].calls)
         /\ transcript[i + Len(transcript[i].calls) + 1].role = "assistant"
<1> DEFINE cs == transcript[i].calls
<1>1. /\ Len(transcript) \in Nat /\ DOMAIN transcript = 1..Len(transcript)
      /\ made \in Nat /\ Turn \in 1..Len(transcript) /\ Turn = Len(transcript) - made
      /\ transcript[Turn].role = "assistant"
      /\ \A k \in 1..made : transcript[Turn + k].role = "tool"
  <2>1. Len(transcript) \in Nat /\ DOMAIN transcript = 1..Len(transcript)
    BY SeqFacts DEF TranscriptInv
  <2>2. made \in Nat
    BY DEF AgentInv, AgentTypeOK
  <2> QED BY <2>1, <2>2 DEF TranscriptInv, CurrentTurn, Turn, AnswersCall
<1>2. Len(cs) \in Nat /\ DOMAIN cs = 1..Len(cs)
  BY LenProperties DEF TranscriptInv
<1>3. i < Turn
  <2>1. CASE i > Turn
    <3>1. i - Turn \in 1..made /\ Turn + (i - Turn) = i
      BY <1>1, <2>1
    <3> QED BY <1>1, <3>1
  <2> QED BY <1>1, <2>1
<1>4. ~Open(i)
  <2>1. Turn \in (i + 1)..Len(transcript)
    BY <1>1, <1>3
  <2> QED BY <2>1, <1>1 DEF Open
<1>5. /\ \A k \in DOMAIN cs : AnswersCall(i, k, cs)
      /\ i + Len(cs) < Len(transcript) => transcript[i + Len(cs) + 1].role = "assistant"
  BY <1>4 DEF TranscriptInv, CallsAnswered
<1>6. i + Len(cs) < Turn
  <2>1. CASE i + Len(cs) >= Turn
    <3>1. Turn - i \in DOMAIN cs /\ i + (Turn - i) = Turn
      BY <1>1, <1>2, <1>3, <2>1
    <3>2. AnswersCall(i, Turn - i, cs)
      BY <1>5, <3>1
    <3>3. transcript[Turn].role = "tool"
      BY <3>1, <3>2 DEF AnswersCall
    <3> QED BY <1>1, <3>3
  <2> QED BY <1>1, <1>2, <2>1
<1> QED BY <1>1, <1>2, <1>5, <1>6

\* The answers of the current turn, up to the n-th call, are added.
LEMMA TurnGrows ==
  ASSUME AgentInv, TranscriptInv, at = "acting",
         NEW n \in (made + 1)..Len(calls),
         IsSeq(transcript'), Len(transcript') = Turn + n,
         \A i \in 1..Len(transcript) : transcript'[i] = transcript[i],
         \A k \in (made + 1)..n :
           /\ transcript'[Turn + k].role = "tool"
           /\ transcript'[Turn + k].call = k /\ transcript'[Turn + k].name = calls[k],
         n < Len(calls) => at' = "acting",
         at' = "acting" => made' = n /\ calls' = calls
  PROVE  TranscriptInv'
<1>1. /\ Len(transcript) \in Nat /\ DOMAIN transcript = 1..Len(transcript)
      /\ made \in Nat /\ Turn \in 1..Len(transcript) /\ Turn = Len(transcript) - made
      /\ transcript[Turn].role = "assistant" /\ transcript[Turn].calls = calls
      /\ Len(calls) \in Nat /\ DOMAIN calls = 1..Len(calls) /\ calls \in Seq(STRING)
  <2>1. Len(transcript) \in Nat /\ DOMAIN transcript = 1..Len(transcript)
    BY SeqFacts DEF TranscriptInv
  <2>2. made \in Nat /\ calls \in Seq(STRING)
    BY DEF AgentInv, AgentTypeOK
  <2>3. Len(calls) \in Nat /\ DOMAIN calls = 1..Len(calls)
    BY <2>2, LenProperties
  <2> QED BY <2>1, <2>2, <2>3 DEF TranscriptInv, CurrentTurn, Turn
<1>2. DOMAIN transcript' = 1..(Turn + n) /\ n \in Nat /\ n > made /\ n <= Len(calls)
  BY <1>1, SeqFacts
<1>3. \A k \in 1..n :
        /\ transcript'[Turn + k].role = "tool"
        /\ transcript'[Turn + k].call = k /\ transcript'[Turn + k].name = calls[k]
  <2> TAKE k \in 1..n
  <2>1. CASE k <= made
    <3>1. AnswersCall(Turn, k, calls) /\ Turn + k \in 1..Len(transcript)
      BY <1>1, <2>1 DEF TranscriptInv, CurrentTurn
    <3> QED BY <3>1 DEF AnswersCall
  <2>2. CASE k > made
    BY <1>1, <1>2, <2>2
  <2> QED BY <1>1, <1>2, <2>1, <2>2
<1>5. \A i \in DOMAIN transcript' : transcript'[i].role = "assistant" =>
        /\ i \in 1..Len(transcript) /\ transcript'[i] = transcript[i]
        /\ i <= Turn
  <2> SUFFICES ASSUME NEW i \in DOMAIN transcript', transcript'[i].role = "assistant"
               PROVE  i \in 1..Len(transcript) /\ transcript'[i] = transcript[i] /\ i <= Turn
    OBVIOUS
  <2>1. CASE i > Turn
    <3>1. i - Turn \in 1..n /\ Turn + (i - Turn) = i
      BY <1>1, <1>2, <2>1
    <3> QED BY <1>3, <3>1
  <2> QED BY <1>1, <1>2, <2>1
<1>6. ASSUME NEW i \in DOMAIN transcript', transcript'[i].role = "assistant", i # Turn
      PROVE  /\ \A k \in DOMAIN transcript'[i].calls :
                  /\ i + k <= Len(transcript') /\ transcript'[i + k].role = "tool"
                  /\ transcript'[i + k].call = k
                  /\ transcript'[i + k].name = transcript'[i].calls[k]
             /\ transcript'[i + Len(transcript'[i].calls) + 1].role = "assistant"
  <2> DEFINE cs == transcript[i].calls
  <2>1. i \in 1..Len(transcript) /\ transcript'[i] = transcript[i]
    BY <1>5, <1>6
  <2>2. /\ Len(cs) \in Nat /\ i + Len(cs) < Turn
        /\ \A k \in DOMAIN cs : AnswersCall(i, k, cs)
        /\ transcript[i + Len(cs) + 1].role = "assistant"
    BY <1>1, <1>6, <2>1, EarlierTurns
  <2>3. DOMAIN cs = 1..Len(cs)
    <3>1. cs \in Seq(STRING)
      BY <1>1, <1>6, <2>1 DEF TranscriptInv
    <3> QED BY <3>1, LenProperties
  <2>4. \A k \in 1..(Len(cs) + 1) : i + k \in 1..Len(transcript) /\ i + k <= Len(transcript')
    <3> HIDE DEF cs
    <3> TAKE k \in 1..(Len(cs) + 1)
    <3>1. i \in Nat /\ Turn \in Nat /\ Len(cs) \in Nat /\ k \in Nat
      BY <1>1, <2>1, <2>2
    <3>2. 1 <= i /\ i + k <= Turn
      BY <1>1, <2>1, <2>2, <3>1
    <3>3. Turn <= Len(transcript) /\ Turn <= Len(transcript')
      BY <1>1, <1>2
    <3> QED BY <1>1, <3>1, <3>2, <3>3
  <2>5. \A k \in 1..(Len(cs) + 1) : transcript'[i + k] = transcript[i + k]
    <3> HIDE DEF cs
    <3> TAKE k \in 1..(Len(cs) + 1)
    <3> QED BY <2>4
  <2>6. transcript'[i + Len(cs) + 1] = transcript[i + Len(cs) + 1]
    <3>1. i + (Len(cs) + 1) = i + Len(cs) + 1 /\ Len(cs) + 1 \in 1..(Len(cs) + 1)
      BY <1>1, <2>1, <2>2
    <3> HIDE DEF cs
    <3> QED BY <2>5, <3>1
  <2> HIDE DEF cs
  <2>7. \A k \in DOMAIN cs :
          /\ i + k <= Len(transcript') /\ transcript'[i + k].role = "tool"
          /\ transcript'[i + k].call = k /\ transcript'[i + k].name = cs[k]
    BY <2>2, <2>3, <2>4, <2>5 DEF AnswersCall
  <2> QED BY <2>1, <2>2, <2>6, <2>7 DEF cs
<1>7. CallsAnswered'
  <2> SUFFICES ASSUME NEW i \in DOMAIN transcript', transcript'[i].role = "assistant"
               PROVE  \/ /\ Open(i)'
                         /\ i + Len(transcript'[i].calls) > Len(transcript')
                      \/ /\ \A k \in DOMAIN transcript'[i].calls :
                              /\ i + k <= Len(transcript')
                              /\ transcript'[i + k].role = "tool"
                              /\ transcript'[i + k].call = k
                              /\ transcript'[i + k].name = transcript'[i].calls[k]
                         /\ i + Len(transcript'[i].calls) < Len(transcript') =>
                              transcript'[i + Len(transcript'[i].calls) + 1].role = "assistant"
    BY DEF CallsAnswered, AnswersCall
  <2>1. CASE i # Turn
    BY <1>6, <2>1
  <2>2. CASE i = Turn
    <3>1. transcript'[i].calls = calls
      BY <1>1, <2>2
    <3>2. CASE n = Len(calls)
      BY <1>1, <1>2, <1>3, <2>2, <3>1, <3>2
    <3>3. CASE n < Len(calls)
      <4>1. \A j \in (i + 1)..Len(transcript') : transcript'[j].role = "tool"
        <5> TAKE j \in (i + 1)..Len(transcript')
        <5>1. j - Turn \in 1..n /\ Turn + (j - Turn) = j
          BY <1>1, <1>2, <2>2
        <5> QED BY <1>3, <5>1
      <4>2. Open(i)'
        BY <3>3, <4>1 DEF Open
      <4>3. i + Len(transcript'[i].calls) > Len(transcript')
        BY <1>1, <1>2, <2>2, <3>1, <3>3
      <4> QED BY <4>2, <4>3
    <3>4. n = Len(calls) \/ n < Len(calls)
      <4>1. n \in Nat /\ n <= Len(calls) /\ Len(calls) \in Nat
        BY <1>1, <1>2
      <4> QED BY <4>1
    <3> QED BY <3>2, <3>3, <3>4
  <2> QED BY <2>1, <2>2
<1>8. at' = "acting" => CurrentTurn'
  <2> SUFFICES ASSUME at' = "acting" PROVE CurrentTurn'
    OBVIOUS
  <2>1. Turn' = Turn /\ made' = n /\ calls' = calls
    BY <1>1, <1>2 DEF Turn
  <2>2. Turn' \in DOMAIN transcript' /\ transcript'[Turn'] = transcript[Turn]
    BY <1>1, <1>2, <2>1
  <2>3. \A k \in 1..made' : AnswersCall(Turn, k, calls)'
    BY <1>1, <1>2, <1>3, <2>1 DEF AnswersCall
  <2> QED BY <1>1, <2>1, <2>2, <2>3 DEF CurrentTurn
<1>9. \A i \in DOMAIN transcript' :
        transcript'[i].role = "assistant" => transcript'[i].calls \in Seq(STRING)
  BY <1>1, <1>5 DEF TranscriptInv
<1> QED BY <1>7, <1>8, <1>9 DEF TranscriptInv

\* What the return of a call adds: its answer, and one for each call skipped.
Grows(n, outcome) ==
  /\ IsSeq(transcript') /\ Len(transcript') = Turn + n
  /\ \A i \in 1..Len(transcript) : transcript'[i] = transcript[i]
  /\ transcript'[Turn + made + 1] = ToolMessage(made + 1, <<outcome>>)
  /\ \A k \in (made + 2)..n : transcript'[Turn + k] = ToolMessage(k, << >>)
  /\ n < Len(calls) => at' = "acting"
  /\ at' = "acting" => made' = n /\ calls' = calls

LEMMA CallGrows ==
  ASSUME AgentInv, TranscriptInv, NEW outcome, NEW status, CallReturns(outcome, status)
  PROVE  \E n \in (made + 1)..Len(calls) : Grows(n, outcome)
<1>0. /\ at = "acting" /\ made \in Nat /\ Len(calls) \in Nat /\ made < Len(calls)
      /\ Len(transcript) \in Nat /\ IsSeq(transcript) /\ Turn = Len(transcript) - made
  BY SeqFacts DEF AgentInv, AgentTypeOK, TranscriptInv, CallReturns, Turn
<1> DEFINE one == Append(transcript, ToolMessage(made + 1, <<outcome>>))
<1>1. /\ IsSeq(one) /\ Len(one) = Len(transcript) + 1
      /\ \A i \in 1..Len(transcript) : one[i] = transcript[i]
      /\ one[Len(transcript) + 1] = ToolMessage(made + 1, <<outcome>>)
  BY <1>0, Appended
<1>2. CASE /\ OverBudget /\ made' = Len(calls)
           /\ transcript' = one \o Skipped(made + 1) /\ StopWith("timeout_limit")
  <2>1. /\ IsSeq(Skipped(made + 1)) /\ Len(Skipped(made + 1)) = Len(calls) - (made + 1)
        /\ \A i \in 1..(Len(calls) - (made + 1)) :
             Skipped(made + 1)[i] = ToolMessage(made + 1 + i, << >>)
    <3>1. made + 1 \in Nat /\ made + 1 <= Len(calls)
      BY <1>0
    <3> QED BY <1>0, <3>1, SkippedFacts
  <2>0. transcript' = one \o Skipped(made + 1)
    BY <1>2
  <2> HIDE DEF one
  <2>2. /\ IsSeq(transcript') /\ Len(transcript') = Len(one) + Len(Skipped(made + 1))
        /\ \A i \in 1..Len(one) : transcript'[i] = one[i]
        /\ \A i \in 1..Len(Skipped(made + 1)) :
             transcript'[Len(one) + i] = Skipped(made + 1)[i]
    <3>1. PICK s, u : s = one /\ u = Skipped(made + 1)
      OBVIOUS
    <3>2. IsSeq(s) /\ IsSeq(u)
      BY <1>1, <2>1, <3>1
    <3>3. /\ IsSeq(s \o u) /\ Len(s \o u) = Len(s) + Len(u)
          /\ \A i \in 1..Len(s) : (s \o u)[i] = s[i]
          /\ \A i \in 1..Len(u) : (s \o u)[Len(s) + i] = u[i]
      BY <3>2, Concatenated
    <3> QED BY <2>0, <3>1, <3>3
  <2>3. Len(transcript') = Turn + Len(calls)
    <3>1. Len(transcript') = (Len(transcript) + 1) + (Len(calls) - (made + 1))
      BY <1>1, <2>1, <2>2
    <3> QED BY <1>0, <3>1
  <2>4. /\ \A i \in 1..Len(transcript) : transcript'[i] = transcript[i]
        /\ transcript'[Turn + made + 1] = ToolMessage(made + 1, <<outcome>>)
    BY <1>0, <1>1, <2>2
  <2>5. \A k \in (made + 2)..Len(calls) : transcript'[Turn + k] = ToolMessage(k, << >>)
    <3> TAKE k \in (made + 2)..Len(calls)
    <3>1. /\ k - (made + 1) \in 1..(Len(calls) - (made + 1))
          /\ made + 1 + (k - (made + 1)) = k
          /\ Len(one) + (k - (made + 1)) = Turn + k
      BY <1>0, <1>1
    <3> QED BY <2>1, <2>2, <3>1
  <2>6. at' # "acting" /\ ~(Len(calls) < Len(calls)) /\ Len(calls) \in (made + 1)..Len(calls)
    BY <1>0, <1>2 DEF StopWith
  <2> QED BY <2>2, <2>3, <2>4, <2>5, <2>6 DEF Grows
<1>3. CASE /\ ~OverBudget /\ made' = made + 1 /\ transcript' = one
           /\ \/ made' < Len(calls) /\ at' = at
              \/ made' = Len(calls) /\ at' # "acting"
  <2>1. made + 1 \in (made + 1)..Len(calls) /\ calls' = calls
    BY <1>0 DEF CallReturns
  <2>2. IsSeq(transcript') /\ Len(transcript') = Turn + (made + 1)
    BY <1>0, <1>1, <1>3
  <2>3. /\ \A i \in 1..Len(transcript) : transcript'[i] = transcript[i]
        /\ transcript'[Turn + made + 1] = ToolMessage(made + 1, <<outcome>>)
    <3>1. Turn + made + 1 = Len(transcript) + 1
      BY <1>0
    <3> QED BY <1>1, <1>3, <3>1
  <2>4. \A k \in (made + 2)..(made + 1) : FALSE
    BY <1>0
  <2>5. made + 1 < Len(calls) => at' = "acting"
    BY <1>0, <1>3
  <2> HIDE DEF one
  <2> QED BY <1>3, <2>1, <2>2, <2>3, <2>4, <2>5 DEF Grows
<1>4. ~OverBudget /\ made' = made + 1 =>
        \/ made' < Len(calls) /\ at' = at
        \/ made' = Len(calls) /\ at' # "acting"
  BY <1>0 DEF CallReturns, NextTurn, StopWith
<1> QED BY <1>2, <1>3, <1>4 DEF CallReturns

LEMMA CallKeepsTranscript ==
  ASSUME AgentInv, TranscriptInv, NEW outcome, NEW status, CallReturns(outcome, status)
  PROVE  TranscriptInv'
<1>1. PICK n \in (made + 1)..Len(calls) : Grows(n, outcome)
  BY CallGrows
<1>2. at = "acting"
  BY DEF CallReturns
<1>3. \A k \in (made + 1)..n :
        /\ transcript'[Turn + k].role = "tool"
        /\ transcript'[Turn + k].call = k /\ transcript'[Turn + k].name = calls[k]
  <2> TAKE k \in (made + 1)..n
  <2>1. made \in Nat /\ Turn \in Int
    BY SeqFacts DEF AgentInv, AgentTypeOK, TranscriptInv, Turn
  <2>2. CASE k = made + 1
    <3>1. Turn + k = Turn + made + 1
      BY <2>1, <2>2
    <3> QED BY <1>1, <2>2, <3>1 DEF Grows, ToolMessage
  <2>3. CASE k \in (made + 2)..n
    <3>1. transcript'[Turn + k] = ToolMessage(k, << >>)
      BY <1>1, <2>3 DEF Grows
    <3> QED BY <3>1 DEF ToolMessage
  <2>4. k = made + 1 \/ k \in (made + 2)..n
    BY <2>1
  <2> QED BY <2>2, <2>3, <2>4
<1>4. /\ IsSeq(transcript') /\ Len(transcript') = Turn + n
      /\ \A i \in 1..Len(transcript) : transcript'[i] = transcript[i]
      /\ n < Len(calls) => at' = "acting"
      /\ at' = "acting" => made' = n /\ calls' = calls
  BY <1>1 DEF Grows
<1> QED BY <1>2, <1>3, <1>4, TurnGrows

\* Unless calls are being made, every turn is complete.
LEMMA QuietTurns ==
  ASSUME AgentInv, TranscriptInv, at \in {"starting", "asking", "waiting"},
         NEW i \in DOMAIN transcript, transcript[i].role = "assistant"
  PROVE  /\ Len(transcript[i].calls) \in Nat
         /\ DOMAIN transcript[i].calls = 1..Len(transcript[i].calls)
         /\ i + Len(transcript[i].calls) <= Len(transcript)
         /\ \A k \in DOMAIN transcript[i].calls : AnswersCall(i, k, transcript[i].calls)
         /\ i + Len(transcript[i].calls) < Len(transcript) =>
              transcript[i + Len(transcript[i].calls) + 1].role = "assistant"
<1> DEFINE cs == transcript[i].calls
<1>1. Len(transcript) \in Nat /\ i \in 1..Len(transcript)
  BY SeqFacts DEF TranscriptInv
<1>2. cs \in Seq(STRING)
  BY DEF TranscriptInv
<1>3. Len(cs) \in Nat /\ DOMAIN cs = 1..Len(cs)
  BY <1>2, LenProperties
<1>4. ~Open(i)
  BY DEF Open, AgentInv
<1>5. /\ \A k \in DOMAIN cs : AnswersCall(i, k, cs)
      /\ i + Len(cs) < Len(transcript) => transcript[i + Len(cs) + 1].role = "assistant"
  BY <1>4 DEF TranscriptInv, CallsAnswered
<1>6. i + Len(cs) <= Len(transcript)
  <2>1. CASE Len(cs) = 0
    BY <1>1, <2>1
  <2>2. CASE Len(cs) # 0
    <3>1. Len(cs) \in DOMAIN cs
      BY <1>3, <2>2
    <3> QED BY <1>5, <3>1 DEF AnswersCall
  <2> QED BY <2>1, <2>2
<1> QED BY <1>3, <1>5, <1>6

LEMMA AnswerKeepsTranscript ==
  ASSUME AgentInv, TranscriptInv, NEW cs \in Turns, NEW cut \in BOOLEAN,
         ModelAnswers("turn", cs, cut)
  PROVE  TranscriptInv'
<1> DEFINE L == Len(transcript)
           a == AssistantMessage("turn", cs)
<1>1. /\ at = "waiting" /\ transcript' = Append(transcript, a) /\ calls' = cs /\ made' = 0
      /\ cs # << >> => at' = "acting" \/ reason' = "token_limit"
      /\ at' = "acting" => cs # << >>
  BY DEF ModelAnswers, StopWith
<1>2. /\ a.role = "assistant" /\ a.calls = cs /\ cs \in Seq(STRING)
      /\ Len(cs) \in Nat /\ DOMAIN cs = 1..Len(cs) /\ (cs = << >> <=> Len(cs) = 0)
  BY TurnsAssumption, LenProperties DEF AssistantMessage
<1>3. L \in Nat /\ DOMAIN transcript = 1..L /\ IsSeq(transcript)
  BY SeqFacts DEF TranscriptInv
<1> HIDE DEF a
<1>4. /\ IsSeq(transcript') /\ Len(transcript') = L + 1
      /\ \A i \in 1..L : transcript'[i] = transcript[i]
      /\ transcript'[L + 1] = a
  BY <1>1, <1>3, Appended
<1>5. DOMAIN transcript' = 1..(L + 1)
  BY <1>4, SeqFacts
<1>6. \A i \in DOMAIN transcript' :
        transcript'[i].role = "assistant" => transcript'[i].calls \in Seq(STRING)
  BY <1>2, <1>3, <1>4, <1>5 DEF TranscriptInv
<1>7. CallsAnswered'
  <2> SUFFICES ASSUME NEW i \in DOMAIN transcript', transcript'[i].role = "assistant"
               PROVE  \/ /\ Open(i)'
                         /\ i + Len(transcript'[i].calls) > Len(transcript')
                      \/ /\ \A k \in DOMAIN transcript'[i].calls :
                              /\ i + k <= Len(transcript')
                              /\ transcript'[i + k].role = "tool"
                              /\ transcript'[i + k].call = k
                              /\ transcript'[i + k].name = transcript'[i].calls[k]
                         /\ i + Len(transcript'[i].calls) < Len(transcript') =>
                              transcript'[i + Len(transcript'[i].calls) + 1].role = "assistant"
    BY DEF CallsAnswered, AnswersCall
  <2>1. CASE i = L + 1
    <3>1. transcript'[i].calls = cs
      BY <1>2, <1>4, <2>1
    <3>2. CASE Len(cs) = 0
      <4>1. DOMAIN cs = {} /\ ~(i + Len(cs) < Len(transcript'))
        BY <1>2, <1>3, <1>4, <2>1, <3>2
      <4> QED BY <3>1, <4>1
    <3>3. CASE Len(cs) > 0
      <4>1. \A j \in (i + 1)..Len(transcript') : transcript'[j].role = "tool"
        BY <1>3, <1>4, <2>1
      <4>2. Open(i)'
        BY <1>1, <1>2, <3>3, <4>1 DEF Open
      <4>3. i + Len(cs) > Len(transcript')
        BY <1>2, <1>3, <1>4, <2>1, <3>3
      <4> QED BY <3>1, <4>2, <4>3
    <3>4. Len(cs) = 0 \/ Len(cs) > 0
      BY <1>2
    <3> QED BY <3>2, <3>3, <3>4
  <2>2. CASE i \in 1..L
    <3> DEFINE ds == transcript[i].calls
    <3>1. transcript'[i] = transcript[i] /\ i \in DOMAIN transcript
      BY <1>3, <1>4, <2>2
    <3>2. /\ Len(ds) \in Nat /\ DOMAIN ds = 1..Len(ds) /\ i + Len(ds) <= L
          /\ \A k \in DOMAIN ds : AnswersCall(i, k, ds)
          /\ i + Len(ds) < L => transcript[i + Len(ds) + 1].role = "assistant"
      BY <1>1, <3>1, QuietTurns
    <3> HIDE DEF ds
    <3>3. \A k \in DOMAIN ds :
            /\ i + k <= Len(transcript') /\ transcript'[i + k].role = "tool"
            /\ transcript'[i + k].call = k /\ transcript'[i + k].name = ds[k]
      <4> TAKE k \in DOMAIN ds
      <4>1. i + k \in 1..L
        BY <1>3, <2>2, <3>2
      <4>2. AnswersCall(i, k, ds) /\ transcript'[i + k] = transcript[i + k]
        BY <1>4, <3>2, <4>1
      <4> QED BY <1>3, <1>4, <4>1, <4>2 DEF AnswersCall
    <3>4. transcript'[i + Len(ds) + 1].role = "assistant"
      <4>1. CASE i + Len(ds) = L
        BY <1>2, <1>4, <4>1
      <4>2. CASE i + Len(ds) < L
        <5>1. i + Len(ds) + 1 \in 1..L
          BY <1>3, <2>2, <3>2, <4>2
        <5> QED BY <1>4, <3>2, <4>2, <5>1
      <4>3. i + Len(ds) = L \/ i + Len(ds) < L
        BY <1>3, <2>2, <3>2
      <4> QED BY <4>1, <4>2, <4>3
    <3> QED BY <3>1, <3>3, <3>4 DEF ds
  <2>3. i = L + 1 \/ i \in 1..L
    BY <1>3, <1>5
  <2> QED BY <2>1, <2>2, <2>3
<1>8. at' = "acting" => CurrentTurn'
  <2>1. Turn' = L + 1
    BY <1>1, <1>3, <1>4 DEF Turn
  <2>2. \A k \in 1..made' : FALSE
    BY <1>1
  <2> QED BY <1>1, <1>2, <1>3, <1>4, <1>5, <2>1, <2>2 DEF CurrentTurn
<1> QED BY <1>4, <1>6, <1>7, <1>8 DEF TranscriptInv

\* Nothing is added, and no more calls are made.
LEMMA QuietKeepsTranscript ==
  ASSUME AgentInv, TranscriptInv, transcript' = transcript, at' # "acting",
         at = "acting" => reason' \in {"unknown_error", "cancelled"},
         at \in {"closing", "over"} => reason' = reason
  PROVE  TranscriptInv'
<1>1. CallsAnswered'
  <2> SUFFICES ASSUME NEW i \in DOMAIN transcript, transcript[i].role = "assistant"
               PROVE  \/ Open(i)' /\ i + Len(transcript[i].calls) > Len(transcript)
                      \/ /\ \A k \in DOMAIN transcript[i].calls :
                              AnswersCall(i, k, transcript[i].calls)
                         /\ i + Len(transcript[i].calls) < Len(transcript) =>
                              transcript[i + Len(transcript[i].calls) + 1].role = "assistant"
    BY DEF CallsAnswered, AnswersCall
  <2>1. CASE at \in {"starting", "asking", "waiting"}
    BY <2>1, QuietTurns
  <2>2. CASE at \notin {"starting", "asking", "waiting"}
    <3>1. Open(i) => Open(i)'
      BY <2>2 DEF Open, AgentInv, AgentTypeOK
    <3>2. \/ Open(i) /\ i + Len(transcript[i].calls) > Len(transcript)
          \/ /\ \A k \in DOMAIN transcript[i].calls :
                  AnswersCall(i, k, transcript[i].calls)
             /\ i + Len(transcript[i].calls) < Len(transcript) =>
                  transcript[i + Len(transcript[i].calls) + 1].role = "assistant"
      BY DEF TranscriptInv, CallsAnswered
    <3> QED BY <3>1, <3>2
  <2> QED BY <2>1, <2>2
<1> QED BY <1>1 DEF TranscriptInv

LEMMA TranscriptInductive ==
  AgentInv /\ TranscriptInv /\ [EpisodeNext]_episodeVars => TranscriptInv'
<1> SUFFICES ASSUME AgentInv, TranscriptInv, AgentMoves \/ UNCHANGED agentVars
             PROVE  TranscriptInv'
  BY EpisodeStepsAgent
<1>1. CASE UNCHANGED agentVars
  BY <1>1 DEF agentVars, TranscriptInv, CallsAnswered, AnswersCall, Open, CurrentTurn, Turn
<1>2. CASE ToolboxStarted \/ ToolboxFailed \/ Cancelled \/ AgentClosed \/ CallRaises
  <2>1. /\ transcript' = transcript /\ at' # "acting"
        /\ at = "acting" => reason' \in {"unknown_error", "cancelled"}
        /\ at \in {"closing", "over"} => reason' = reason
    BY <1>2 DEF ToolboxStarted, ToolboxFailed, Cancelled, AgentClosed, CallRaises, StopWith
  <2> QED BY <2>1, QuietKeepsTranscript
<1>3. CASE Post \/ PostFailed \/ PostRefused
  <2>1. /\ transcript' = transcript /\ at' # "acting" /\ at \in {"asking", "waiting"}
    BY <1>3 DEF Post, PostFailed, PostRefused, StopWith
  <2> QED BY <2>1, QuietKeepsTranscript
<1>4. ASSUME NEW cs \in Turns, NEW cut \in BOOLEAN, ModelAnswers("turn", cs, cut)
      PROVE TranscriptInv'
  BY <1>4, AnswerKeepsTranscript
<1>5. ASSUME NEW status \in Statuses, CallReturns("done", status) PROVE TranscriptInv'
  BY <1>5, CallKeepsTranscript
<1>6. ASSUME NEW status \in Statuses, CallReturns(result', status) PROVE TranscriptInv'
  BY <1>6, CallKeepsTranscript
<1> QED BY <1>1, <1>2, <1>3, <1>4, <1>5, <1>6 DEF AgentMoves

LEMMA TranscriptInitially == EpisodeInit => TranscriptInv
<1> SUFFICES ASSUME EpisodeInit PROVE TranscriptInv
  OBVIOUS
<1>1. transcript = Prompt /\ at = "starting"
  BY DEF EpisodeInit, AgentInit
<1>2. IsSeq(Prompt)
  BY AgentAssumption DEF IsSeq
<1>3. \A i \in DOMAIN Prompt : Prompt[i].role # "assistant"
  <2> TAKE i \in DOMAIN Prompt
  <2>1. Prompt[i] \in [role : {"system", "user"}, content : STRING]
    BY AgentAssumption, ElementOfSeq, LenProperties
  <2> QED BY <2>1
<1> QED BY <1>1, <1>2, <1>3 DEF TranscriptInv, CallsAnswered

-----------------------------------------------------------------------------
(* The outcomes in the transcript are those of the commands.               *)

Pending == pc \notin {"idle", "closed"}

\* run() is only called, and only returns, in the call of the shell that the
\* agent is making; until then the last command has no answer.
CommandsInv ==
  /\ CommandsAnswered
  /\ pc = "closed" => at = "over"
  /\ Pending => \/ at \in {"closing", "over"}
                \/ CallsShell /\ \A i \in ShellAnswers : OutcomeAt(i).id < counter

\* The outcomes in the transcript stay the same.
SameOutcomes ==
  \A i : /\ i \in ShellAnswers' <=> i \in ShellAnswers
         /\ i \in ShellAnswers => OutcomeAt(i)' = OutcomeAt(i)

LEMMA CommandsStay ==
  ASSUME CommandsInv, SameOutcomes, counter' = counter, pc' = "idle" => pc = "idle",
         pc' = "closed" => at' = "over",
         Pending' => at' \in {"closing", "over"} \/ (CallsShell' /\ Pending /\ at = "acting")
  PROVE  CommandsInv'
<1>1. CommandsAnswered'
  <2>1. \A i \in ShellAnswers' :
          /\ OutcomeAt(i)'.id \in 1..counter
          /\ OutcomeAt(i)'.timedOut \/ OutcomeAt(i)'.code = "ended"
    BY DEF CommandsInv, CommandsAnswered, SameOutcomes
  <2>2. \A i, j \in ShellAnswers' : i < j => OutcomeAt(i)'.id < OutcomeAt(j)'.id
    BY DEF CommandsInv, CommandsAnswered, SameOutcomes
  <2>3. \A id \in 1..counter : (\E i \in ShellAnswers' : OutcomeAt(i)'.id = id)
                                 \/ (id = counter /\ pc' # "idle")
    BY DEF CommandsInv, CommandsAnswered, SameOutcomes
  <2> QED BY <2>1, <2>2, <2>3 DEF CommandsAnswered
<1>2. CallsShell' /\ Pending /\ at = "acting" =>
        \A i \in ShellAnswers' : OutcomeAt(i)'.id < counter'
  BY DEF CommandsInv, SameOutcomes
<1> QED BY <1>1, <1>2 DEF CommandsInv

LEMMA TranscriptStays == transcript' = transcript => SameOutcomes
  BY DEF SameOutcomes, ShellAnswers, OutcomeAt

\* What CallReturns adds to the outcomes: that of a call of the shell.
LEMMA OutcomesGrow ==
  ASSUME AgentInv, TranscriptInv, at = "acting", NEW outcome,
         NEW n \in (made + 1)..Len(calls), Grows(n, outcome)
  PROVE  /\ Len(transcript) \in Nat
         /\ \A i \in ShellAnswers : i \in 1..Len(transcript)
         /\ \A i : i \in ShellAnswers' <=>
              i \in ShellAnswers \/ (i = Len(transcript) + 1 /\ NextCall = "shell")
         /\ \A i \in ShellAnswers : OutcomeAt(i)' = OutcomeAt(i)
         /\ \A i : i = Len(transcript) + 1 => OutcomeAt(i)' = outcome
<1>1. PICK L, m, N : L = Len(transcript) /\ m = made /\ N = Len(calls)
  OBVIOUS
<1>2. /\ L \in Nat /\ DOMAIN transcript = 1..L /\ m \in Nat /\ N \in Nat /\ m < N
      /\ Turn = L - m /\ n \in (m + 1)..N
  BY <1>1, SeqFacts DEF AgentInv, AgentTypeOK, TranscriptInv, Turn
<1>3. DOMAIN transcript' = 1..(L - m + n)
  <2>1. IsSeq(transcript') /\ Len(transcript') = L - m + n
    BY <1>2 DEF Grows
  <2> QED BY <2>1, SeqFacts
<1>4. \A i \in 1..L : transcript'[i] = transcript[i]
  BY <1>1 DEF Grows
<1>5. transcript'[L + 1] = ToolMessage(m + 1, <<outcome>>)
  <2>1. Turn + made + 1 = L + 1
    BY <1>1, <1>2
  <2> QED BY <1>1, <2>1 DEF Grows
<1>6. \A i \in (L + 2)..(L - m + n) : transcript'[i].outcome = << >>
  <2> TAKE i \in (L + 2)..(L - m + n)
  <2>1. i - (L - m) \in (m + 2)..n /\ Turn + (i - (L - m)) = i
    BY <1>2
  <2>2. transcript'[Turn + (i - (L - m))] = ToolMessage(i - (L - m), << >>)
    BY <1>1, <2>1 DEF Grows
  <2> QED BY <2>1, <2>2 DEF ToolMessage
<1>7. /\ transcript'[L + 1].role = "tool" /\ transcript'[L + 1].name = NextCall
      /\ transcript'[L + 1].outcome = <<outcome>> /\ <<outcome>> # << >>
      /\ <<outcome>>[1] = outcome
  BY <1>1, <1>5 DEF ToolMessage, NextCall
<1>8. \A i : \/ i \in DOMAIN transcript'
             <=> i \in 1..L \/ i = L + 1 \/ i \in (L + 2)..(L - m + n)
  BY <1>2, <1>3
<1>9. ASSUME NEW i PROVE i \in ShellAnswers' <=>
              i \in ShellAnswers \/ (i = L + 1 /\ NextCall = "shell")
  <2>1. CASE i \in 1..L
    <3>1. i # L + 1
      BY <1>2, <2>1
    <3> QED BY <1>2, <1>4, <1>8, <2>1, <3>1 DEF ShellAnswers
  <2>2. CASE i = L + 1
    <3>1. i \notin DOMAIN transcript
      BY <1>2, <2>2
    <3> QED BY <1>7, <1>8, <2>2, <3>1 DEF ShellAnswers
  <2>3. CASE i \in (L + 2)..(L - m + n)
    <3>1. i \notin DOMAIN transcript /\ i # L + 1
      BY <1>2, <2>3
    <3> QED BY <1>6, <2>3, <3>1 DEF ShellAnswers
  <2>4. CASE i \notin DOMAIN transcript'
    BY <1>2, <1>8, <2>4 DEF ShellAnswers
  <2> QED BY <1>8, <2>1, <2>2, <2>3, <2>4
<1>10. \A i \in ShellAnswers : i \in 1..L /\ OutcomeAt(i)' = OutcomeAt(i)
  BY <1>2, <1>4 DEF ShellAnswers, OutcomeAt
<1>11. OutcomeAt(L + 1)' = outcome
  BY <1>7 DEF OutcomeAt
<1> QED BY <1>1, <1>2, <1>9, <1>10, <1>11

\* run() returns the outcome of the last command, which becomes the answer.
LEMMA ReturnKeepsCommands ==
  ASSUME AgentInv, TranscriptInv, CommandsInv, PaneInv, PaneInv', ShellReturns
  PROVE  CommandsInv'
<1>1. /\ CallsShell /\ Pending /\ pc' = "idle"
      /\ counter' = counter /\ counter \in Nat /\ counter # 0
      /\ result'.id = counter /\ (result'.timedOut \/ result'.code = "ended")
  <2>1. /\ CallsShell /\ Caller /\ pc' = "idle"
    BY DEF ShellReturns
  <2>2. /\ Pending /\ counter' = counter /\ result'.id = counter
    BY <2>1 DEF Caller, Poll, GiveUp, CtrlC, PollInterrupted, CtrlZ, KillJob, PollKilled,
                Return, Pending
  <2>3. counter \in Nat /\ counter # 0 /\ result'.timedOut \in BOOLEAN
    BY <2>2, MaxCommandsAssumption DEF PaneInv, TypeOK, CodesInv, Pending
  <2>4. result'.id # 0 /\ ~result'.timedOut => result'.code = "ended"
    BY DEF PaneInv, CodesInv
  <2> QED BY <2>1, <2>2, <2>3, <2>4
<1>2. at = "acting" /\ NextCall = "shell"
  BY <1>1 DEF CallsShell
<1>3. PICK c, L, r : c = counter /\ L = Len(transcript) /\ r = result'
  OBVIOUS
<1>4. PICK n \in (made + 1)..Len(calls) : Grows(n, r)
  BY <1>3, CallGrows DEF ShellReturns
<1>5. /\ L \in Nat
      /\ \A i \in ShellAnswers : i \in 1..L
      /\ \A i : i \in ShellAnswers' <=> i \in ShellAnswers \/ i = L + 1
      /\ \A i \in ShellAnswers : OutcomeAt(i)' = OutcomeAt(i)
      /\ OutcomeAt(L + 1)' = r
  BY <1>2, <1>3, <1>4, OutcomesGrow
<1>6. /\ \A i \in ShellAnswers :
           /\ OutcomeAt(i).id \in 1..c /\ OutcomeAt(i).id < c
           /\ OutcomeAt(i).timedOut \/ OutcomeAt(i).code = "ended"
      /\ \A i, j \in ShellAnswers : i < j => OutcomeAt(i).id < OutcomeAt(j).id
      /\ \A id \in 1..c : (\E i \in ShellAnswers : OutcomeAt(i).id = id) \/ id = c
  BY <1>1, <1>2, <1>3 DEF CommandsInv, CommandsAnswered
<1>7. c \in Nat /\ c # 0 /\ r.id = c /\ (r.timedOut \/ r.code = "ended") /\ counter' = c
  BY <1>1, <1>3
<1>8. \A i \in ShellAnswers' :
        /\ OutcomeAt(i)'.id \in 1..c
        /\ OutcomeAt(i)'.timedOut \/ OutcomeAt(i)'.code = "ended"
  <2>1. c \in 1..c
    BY <1>7
  <2> QED BY <1>5, <1>6, <1>7, <2>1
<1>9. ASSUME NEW i \in ShellAnswers', NEW j \in ShellAnswers', i < j
      PROVE  OutcomeAt(i)'.id < OutcomeAt(j)'.id
  <2>1. i # L + 1
    <3>1. j \in 1..L \/ j = L + 1
      BY <1>5
    <3> QED BY <1>5, <1>9, <3>1
  <2>2. i \in ShellAnswers /\ OutcomeAt(i)' = OutcomeAt(i)
    BY <1>5, <2>1
  <2>3. CASE j = L + 1
    BY <1>5, <1>6, <1>7, <2>2, <2>3
  <2>4. CASE j \in ShellAnswers
    BY <1>5, <1>6, <1>9, <2>2, <2>4
  <2> QED BY <1>5, <2>3, <2>4
<1>10. \A id \in 1..c : \E i \in ShellAnswers' : OutcomeAt(i)'.id = id
  <2> TAKE id \in 1..c
  <2>1. CASE id = c
    BY <1>5, <1>7, <2>1
  <2>2. CASE \E i \in ShellAnswers : OutcomeAt(i).id = id
    BY <1>5, <2>2
  <2> QED BY <1>6, <2>1, <2>2
<1>11. CommandsAnswered'
  BY <1>7, <1>8, <1>9, <1>10 DEF CommandsAnswered
<1> QED BY <1>1, <1>11 DEF CommandsInv, Pending

\* The answer to another call is no outcome.
LEMMA OtherCallKeepsCommands ==
  ASSUME AgentInv, TranscriptInv, CommandsInv, OtherCall
  PROVE  CommandsInv'
<1>1. /\ at = "acting" /\ NextCall # "shell" /\ pc = "idle" /\ pc' = pc /\ counter' = counter
  BY DEF OtherCall, CommandsInv, CallsShell, Pending, paneVars, vars
<1>2. PICK n \in (made + 1)..Len(calls) : Grows(n, "done")
  BY CallGrows DEF OtherCall
<1>3. /\ \A i : i \in ShellAnswers' <=> i \in ShellAnswers
      /\ \A i \in ShellAnswers : OutcomeAt(i)' = OutcomeAt(i)
  BY <1>1, <1>2, OutcomesGrow
<1>4. SameOutcomes
  BY <1>3 DEF SameOutcomes
<1> QED BY <1>1, <1>4, CommandsStay DEF Pending

\* Nor is a turn of the policy.
LEMMA AnswerKeepsOutcomes ==
  ASSUME TranscriptInv, NEW cs \in Turns, NEW cut \in BOOLEAN, ModelAnswers("turn", cs, cut)
  PROVE  SameOutcomes
<1>1. PICK L, a : L = Len(transcript) /\ a = AssistantMessage("turn", cs)
  OBVIOUS
<1>2. /\ L \in Nat /\ DOMAIN transcript = 1..L /\ IsSeq(transcript)
  BY <1>1, SeqFacts DEF TranscriptInv
<1>3. transcript' = Append(transcript, a) /\ a.role = "assistant"
  BY <1>1 DEF ModelAnswers, AssistantMessage
<1>4. /\ IsSeq(transcript') /\ Len(transcript') = L + 1
      /\ \A i \in 1..L : transcript'[i] = transcript[i]
      /\ transcript'[L + 1] = a
  BY <1>1, <1>2, <1>3, Appended
<1>5. DOMAIN transcript' = 1..(L + 1)
  BY <1>4, SeqFacts
<1>6. ASSUME NEW i PROVE i \in ShellAnswers' <=> i \in ShellAnswers
  <2>1. CASE i \in 1..L
    BY <1>2, <1>4, <1>5, <2>1 DEF ShellAnswers
  <2>2. CASE i = L + 1
    <3>1. i \notin DOMAIN transcript
      BY <1>2, <2>2
    <3> QED BY <1>3, <1>4, <2>2, <3>1 DEF ShellAnswers
  <2>3. CASE i \notin 1..(L + 1)
    BY <1>2, <1>5, <2>3 DEF ShellAnswers
  <2> QED BY <1>2, <2>1, <2>2, <2>3
<1>7. \A i \in ShellAnswers : OutcomeAt(i)' = OutcomeAt(i)
  BY <1>2, <1>4 DEF ShellAnswers, OutcomeAt
<1> QED BY <1>6, <1>7 DEF SameOutcomes

LEMMA CommandsInductive ==
  ASSUME AgentInv, TranscriptInv, CommandsInv, PaneInv, PaneInv', [EpisodeNext]_episodeVars
  PROVE  CommandsInv'
<1>1. ASSUME at # "acting" \/ at' = "closing", UNCHANGED paneVars, SameOutcomes,
             at \in {"closing", "over"} => at' \in {"closing", "over"},
             at = "over" => at' = "over"
      PROVE  CommandsInv'
  <2>1. pc' = pc /\ counter' = counter
    BY <1>1 DEF paneVars, vars
  <2>2. Pending' => at' \in {"closing", "over"}
    BY <1>1, <2>1 DEF CommandsInv, CallsShell, Pending
  <2>3. pc' = "closed" => at' = "over"
    BY <1>1, <2>1 DEF CommandsInv
  <2> QED BY <1>1, <2>1, <2>2, <2>3, CommandsStay
<1>2. CASE ShellStarted \/ ShellNotStarted \/ Ask
  BY <1>1, <1>2, TranscriptStays
     DEF ShellStarted, ToolboxStarted, ShellNotStarted, ToolboxFailed, Ask, Post, PostFailed,
         PostRefused, StopWith
<1>3. CASE Answer
  <2>1. PICK cs \in Turns, cut \in BOOLEAN : ModelAnswers("turn", cs, cut)
    BY <1>3 DEF Answer
  <2>2. SameOutcomes
    BY <2>1, AnswerKeepsOutcomes
  <2>3. at = "waiting"
    BY <2>1 DEF ModelAnswers
  <2> QED BY <1>1, <1>3, <2>2, <2>3 DEF Answer
<1>4. CASE ShellRaises
  BY <1>1, <1>4, TranscriptStays DEF ShellRaises, CallRaises, StopWith
<1>5. CASE CancelAgent
  <2>1. UNCHANGED paneVars
    BY <1>5 DEF CancelAgent
  <2> QED BY <1>1, <1>5, <2>1, TranscriptStays DEF CancelAgent, Cancelled, StopWith
<1>6. CASE ShellReturns
  BY <1>6, ReturnKeepsCommands
<1>7. CASE OtherCall
  BY <1>7, OtherCallKeepsCommands
<1>8. ASSUME NEW k \in Kinds, ShellCommand(k) PROVE CommandsInv'
  <2>1. /\ CallsShell /\ CallsShell' /\ pc = "idle" /\ pc' = "polling"
        /\ counter' = counter + 1 /\ SameOutcomes
    BY <1>8, TranscriptStays
       DEF ShellCommand, StartCommand, NextId, CallsShell, NextCall, agentVars
  <2>2. PICK c : c = counter /\ c \in Nat
    BY DEF PaneInv, TypeOK
  <2>3. /\ \A i \in ShellAnswers :
             /\ OutcomeAt(i).id \in 1..c
             /\ OutcomeAt(i).timedOut \/ OutcomeAt(i).code = "ended"
        /\ \A i, j \in ShellAnswers : i < j => OutcomeAt(i).id < OutcomeAt(j).id
        /\ \A id \in 1..c : \E i \in ShellAnswers : OutcomeAt(i).id = id
    BY <2>1, <2>2 DEF CommandsInv, CommandsAnswered
  <2>4. \A i \in ShellAnswers' :
          /\ OutcomeAt(i)'.id \in 1..(c + 1) /\ OutcomeAt(i)'.id < c + 1
          /\ OutcomeAt(i)'.timedOut \/ OutcomeAt(i)'.code = "ended"
    <3>1. \A x \in 1..c : x \in 1..(c + 1) /\ x < c + 1
      BY <2>2
    <3> QED BY <2>1, <2>3, <3>1 DEF SameOutcomes
  <2>5. \A i, j \in ShellAnswers' : i < j => OutcomeAt(i)'.id < OutcomeAt(j)'.id
    BY <2>1, <2>3 DEF SameOutcomes
  <2>6. \A id \in 1..(c + 1) : (\E i \in ShellAnswers' : OutcomeAt(i)'.id = id) \/ id = c + 1
    <3> TAKE id \in 1..(c + 1)
    <3>1. id \in 1..c \/ id = c + 1
      BY <2>2
    <3>2. CASE id \in 1..c
      BY <2>1, <2>3, <3>2 DEF SameOutcomes
    <3> QED BY <3>1, <3>2
  <2>7. CommandsAnswered'
    BY <2>1, <2>2, <2>4, <2>5, <2>6 DEF CommandsAnswered
  <2> QED BY <2>1, <2>2, <2>4, <2>7 DEF CommandsInv
<1>9. CASE ShellGoesOn
  <2>1. /\ CallsShell /\ Caller /\ pc' # "idle" /\ UNCHANGED agentVars
    BY <1>9 DEF ShellGoesOn
  <2>2. Pending /\ pc' # "closed" /\ counter' = counter
    BY <2>1 DEF Caller, Poll, GiveUp, CtrlC, PollInterrupted, CtrlZ, KillJob, PollKilled,
                Return, Pending
  <2>3. CallsShell' /\ at = "acting" /\ SameOutcomes
    BY <2>1, TranscriptStays DEF CallsShell, NextCall, agentVars
  <2> QED BY <2>1, <2>2, <2>3, CommandsStay
<1>10. CASE ShellClosed \/ CloseFailed
  <2>1. /\ at = "closing" /\ at' = "over" /\ SameOutcomes
    BY <1>10, TranscriptStays DEF ShellClosed, CloseFailed, AgentClosed
  <2>2. counter' = counter /\ (pc' = "idle" => pc = "idle")
    BY <1>10 DEF ShellClosed, CloseFailed, Close, paneVars, vars
  <2> QED BY <2>1, <2>2, CommandsStay
<1>11. CASE PaneStep \/ UNCHANGED episodeVars
  <2>1. /\ UNCHANGED agentVars /\ pc' = pc /\ counter' = counter
    BY <1>11 DEF PaneStep, Reader, ReadKillLine, ReadCommand, Finish, Swallow, Write,
                 episodeVars, paneVars, vars
  <2>2. CallsShell' = CallsShell /\ at' = at /\ SameOutcomes
    BY <2>1, TranscriptStays DEF CallsShell, NextCall, agentVars
  <2>3. Pending' => at' \in {"closing", "over"} \/ (CallsShell' /\ Pending /\ at = "acting")
    BY <2>1, <2>2 DEF CommandsInv, CallsShell, Pending
  <2>4. pc' = "closed" => at' = "over"
    BY <2>1, <2>2 DEF CommandsInv
  <2> QED BY <2>1, <2>2, <2>3, <2>4, CommandsStay
<1> QED BY <1>2, <1>3, <1>4, <1>5, <1>6, <1>7, <1>8, <1>9, <1>10, <1>11
        DEF EpisodeNext, AgentStep

LEMMA CommandsInitially == EpisodeInit => CommandsInv
<1> SUFFICES ASSUME EpisodeInit PROVE CommandsInv
  OBVIOUS
<1>1. transcript = Prompt /\ at = "starting" /\ pc = "idle" /\ counter = 0
  BY DEF EpisodeInit, AgentInit, Init
<1>2. ShellAnswers = {}
  <2> SUFFICES ASSUME NEW i \in DOMAIN Prompt PROVE Prompt[i].role # "tool"
    BY <1>1 DEF ShellAnswers
  <2>1. Prompt[i] \in [role : {"system", "user"}, content : STRING]
    BY AgentAssumption, ElementOfSeq, LenProperties
  <2> QED BY <2>1
<1> QED BY <1>1, <1>2 DEF CommandsInv, CommandsAnswered, Pending

\* Every tool call has its answer, in the order of the calls and before the
\* next turn, also when the timeout budget is spent in the middle of a turn
\* (react/agent.py 162-200); and a shell call is answered with the outcome of
\* its own command, which ended unless the answer says that it timed out
\* (tools/shell.py 271-307).
THEOREM TranscriptCorrect == EpisodeSpec => []TranscriptAnswered
<1> DEFINE I == AgentInv /\ TranscriptInv /\ CommandsInv
<1>1. EpisodeInit => I
  BY AgentInitially, TranscriptInitially, CommandsInitially
<1>2. I /\ PaneInv /\ PaneInv' /\ [EpisodeNext]_episodeVars => I'
  BY AgentInductive, TranscriptInductive, CommandsInductive
<1>3. I => TranscriptAnswered
  BY DEF AgentInv, TranscriptInv, CommandsInv, TranscriptAnswered
<1>4. EpisodeSpec => []PaneInv
  BY EpisodeImplementsShell, PaneInvariant, PTL
<1> HIDE DEF I
<1> QED BY <1>1, <1>2, <1>3, <1>4, PTL DEF EpisodeSpec

=============================================================================
