----------------------------- MODULE TmuxShell -----------------------------
(***************************************************************************)
(* The stateful shell over a tmux pane (TmuxShell of                       *)
(* src/uni_agent/tools/shell.py): one caller types commands into the pane, *)
(* learns their exit codes from files, and interrupts those that take too  *)
(* long.  The bash in the pane and its programs go on by themselves.       *)
(*                                                                         *)
(* A command is typed as one line: run it, write its exit code to its own  *)
(* file.  What a keystroke does is up to bash and the terminal (external): *)
(*  - Ctrl-C and Ctrl-Z discard what was typed ahead;                      *)
(*  - a program that Ctrl-C kills takes the rest of its line with it, so   *)
(*    that no exit code is written; one that catches it and exits does not;*)
(*  - a program that Ctrl-Z suspends becomes a job, and its line goes on   *)
(*    and writes an exit code (148);                                       *)
(*  - `%+` is the job stopped last, or else the one started last.          *)
(* Programs are assumed to leave the terminal in its normal mode.          *)
(***************************************************************************)
EXTENDS Integers, Sequences

CONSTANT MaxCommands   \* bound on _counter

ASSUME MaxCommandsAssumption == MaxCommands \in Nat

Ids == 1..MaxCommands

\* How a program takes Ctrl-C and Ctrl-Z: plain ones die of the former, a
\* "server" as well but has put a job into the background, "exits" catches
\* it and exits, "stubborn" ignores it, "deaf" ignores both.
Kinds == {"plain", "server", "exits", "stubborn", "deaf"}

\* The line `kill -KILL %+`; the other lines are the ids of commands.
KillLine == 0

VARIABLES
  pc,        \* where run() stands
  counter,   \* _counter, the id of the last command
  kind,      \* the program of each command
  typed,     \* lines typed into the pane that nobody has read
  fg,        \* the command in the foreground, 0 at the prompt
  jobs,      \* background jobs, oldest first: [id, stopped]
  rc,        \* the exit-code file of each command
  result     \* what the last run() returned

vars == <<pc, counter, kind, typed, fg, jobs, rc, result>>

Codes == {"none", "ended", "stopped"}

TypeOK ==
  /\ pc \in {"idle", "polling", "expired", "interrupted", "suspending", "suspended",
             "killing", "closed"}
  /\ counter \in 0..MaxCommands
  /\ kind \in [Ids -> Kinds]
  /\ typed \in Seq({KillLine} \cup Ids)
  /\ fg \in {0} \cup Ids
  /\ jobs \in Seq([id : Ids, stopped : BOOLEAN])
  /\ rc \in [Ids -> Codes]
  /\ result \in [id : {0} \cup Ids, code : Codes, timedOut : BOOLEAN]

-----------------------------------------------------------------------------
(* The pane.                                                               *)

Slip_Write(id, code) == rc' = [rc EXCEPT ![id] = ""]   \* file seen half-written

Write(id, code) == rc' = [rc EXCEPT ![id] = code]

\* `%+`: the last stopped job, or the last job if none is stopped.
CurrentJob(k) ==
  \/ jobs[k].stopped /\ \A j \in DOMAIN jobs : jobs[j].stopped => j <= k
  \/ (\A j \in DOMAIN jobs : ~jobs[j].stopped) /\ k = Len(jobs)

KillCurrentJob ==
  IF jobs = << >> THEN UNCHANGED jobs
  ELSE \E k \in DOMAIN jobs :
         CurrentJob(k) /\ jobs' = SubSeq(jobs, 1, k - 1) \o SubSeq(jobs, k + 1, Len(jobs))

\* bash reads the next line at its prompt.
ReadKillLine ==
  /\ fg = 0 /\ typed # << >> /\ Head(typed) = KillLine
  /\ typed' = Tail(typed) /\ KillCurrentJob
  /\ UNCHANGED <<pc, counter, kind, fg, rc, result>>

ReadCommand ==
  /\ fg = 0 /\ typed # << >> /\ Head(typed) # KillLine
  /\ fg' = Head(typed) /\ typed' = Tail(typed)
  /\ jobs' = IF kind[fg'] = "server"
             THEN Append(jobs, [id |-> fg', stopped |-> FALSE]) ELSE jobs
  /\ UNCHANGED <<pc, counter, kind, rc, result>>

\* The program ends by itself.
Finish ==
  /\ fg # 0 /\ fg' = 0 /\ Write(fg, "ended")
  /\ UNCHANGED <<pc, counter, kind, typed, jobs, result>>

\* Its standard input is the pane: it may read what was meant for bash.
Swallow ==
  /\ fg # 0 /\ typed # << >> /\ typed' = Tail(typed)
  /\ UNCHANGED <<pc, counter, kind, fg, jobs, rc, result>>

PressCtrlC ==
  /\ typed' = << >> /\ UNCHANGED jobs
  /\ \/ (fg # 0 => kind[fg] \in {"stubborn", "deaf"}) /\ UNCHANGED <<fg, rc>>
     \/ fg # 0 /\ kind[fg] = "exits" /\ fg' = 0 /\ Write(fg, "ended")
     \/ fg # 0 /\ kind[fg] \in {"plain", "server"} /\ fg' = 0 /\ UNCHANGED rc

PressCtrlZ ==
  /\ typed' = << >>
  /\ IF fg = 0 \/ kind[fg] = "deaf" THEN UNCHANGED <<fg, jobs, rc>>
     ELSE /\ fg' = 0 /\ Write(fg, "stopped")
          /\ jobs' = Append(jobs, [id |-> fg, stopped |-> TRUE])

-----------------------------------------------------------------------------
(* run() and interrupt().  Any of their execs may raise: the toolbox hands *)
(* that on, the agent ends, and close() kills the session.                 *)

\* Two seconds of sleep are enough for bash to read what was typed.
Settled == fg # 0 \/ typed = << >>

Slip_NextId == IF counter = 0 THEN 1 ELSE counter     \* the files of the last one

NextId == counter + 1

StartCommand(k) ==
  /\ pc = "idle" /\ counter < MaxCommands
  /\ counter' = NextId /\ kind' = [kind EXCEPT ![NextId] = k]
  /\ typed' = Append(typed, NextId) /\ pc' = "polling"
  /\ UNCHANGED <<fg, jobs, rc, result>>

Return(timedOut) ==
  /\ result' = [id |-> counter, code |-> rc[counter], timedOut |-> timedOut]
  /\ pc' = "idle"
  /\ UNCHANGED <<counter, kind, typed, fg, jobs, rc>>

\* The exit code is there.  Otherwise run() blocks on the wait channel, for
\* two seconds at most, and polls again.
Poll == pc = "polling" /\ rc[counter] # "none" /\ Return(FALSE)

Slip_Expires == fg = 0                         \* waits for the end all the same

Expires == TRUE

\* The time is up, and the last poll found nothing.
GiveUp ==
  /\ pc = "polling" /\ rc[counter] = "none" /\ Settled /\ Expires
  /\ pc' = "expired" /\ UNCHANGED <<counter, kind, typed, fg, jobs, rc, result>>

CtrlC ==
  /\ pc = "expired" /\ PressCtrlC
  /\ pc' = "interrupted" /\ UNCHANGED <<counter, kind, result>>

PollInterrupted ==
  /\ pc = "interrupted" /\ Settled
  /\ \/ rc[counter] # "none" /\ Return(TRUE)
     \/ /\ rc[counter] = "none" /\ pc' = "suspending"
        /\ UNCHANGED <<counter, kind, typed, fg, jobs, rc, result>>

Slip_CtrlZ ==                                  \* Ctrl-C once more
  /\ pc = "suspending" /\ PressCtrlC
  /\ pc' = "suspended" /\ UNCHANGED <<counter, kind, result>>

CtrlZ ==
  /\ pc = "suspending" /\ PressCtrlZ
  /\ pc' = "suspended" /\ UNCHANGED <<counter, kind, result>>

Slip_TypeKill == UNCHANGED typed               \* leaves the job suspended

TypeKill == typed' = Append(typed, KillLine)

KillJob ==
  /\ pc = "suspended" /\ Settled /\ TypeKill
  /\ pc' = "killing" /\ UNCHANGED <<counter, kind, fg, jobs, rc, result>>

PollKilled == pc = "killing" /\ Settled /\ Return(TRUE)

Close ==
  /\ pc # "closed" /\ pc' = "closed"
  /\ typed' = << >> /\ fg' = 0 /\ jobs' = << >>
  /\ UNCHANGED <<counter, kind, rc, result>>

-----------------------------------------------------------------------------
Init ==
  /\ pc = "idle" /\ counter = 0 /\ kind = [id \in Ids |-> "plain"]
  /\ typed = << >> /\ fg = 0 /\ jobs = << >> /\ rc = [id \in Ids |-> "none"]
  /\ result = [id |-> 0, code |-> "none", timedOut |-> FALSE]

Caller == Poll \/ GiveUp \/ CtrlC \/ PollInterrupted \/ CtrlZ \/ KillJob \/ PollKilled

Reader == ReadKillLine \/ ReadCommand

Next ==
  \/ \E k \in Kinds : StartCommand(k)
  \/ Caller \/ Reader \/ Finish \/ Swallow \/ Close
  \/ pc = "closed" /\ UNCHANGED vars

Spec == Init /\ [][Next]_vars

\* run() goes on and time passes; bash reads its lines.  No program ends.
FairSpec == Spec /\ WF_vars(Caller) /\ WF_vars(Reader)

-----------------------------------------------------------------------------
(* Properties.                                                             *)

\* An exit code is that of a command which has run and does not run any more,
\* and a result without timeout is that of a command which ended: no late
\* keystroke of an earlier interrupt suspends it (shell.py 246-307).
ResultIsOwn ==
  /\ \A id \in Ids : rc[id] # "none" => fg # id /\ \A k \in DOMAIN typed : typed[k] # id
  /\ pc = "idle" /\ result.id # 0 /\ ~result.timedOut => result.code = "ended"

\* After run() the pane is at its prompt, unless a program ignores both
\* signals: the next command is not typed into an earlier one that a signal
\* could have ended (shell.py 317-332).
PaneIsFree == pc = "idle" /\ fg # 0 => kind[fg] = "deaf"

\* Suspended programs do not pile up (shell.py 328-331).
NoStoppedJobs ==
  pc = "idle" => \A k \in DOMAIN jobs : ~jobs[k].stopped

\* docs/source/concepts/tool-and-toolbox.md:85: background jobs survive
\* between calls.  Here: what a command that ended left running goes on
\* running until the shell is closed.
BackgroundJobsSurvive ==
  [][\A j \in DOMAIN jobs : ~jobs[j].stopped /\ rc[jobs[j].id] = "ended" =>
       pc' = "closed" \/ \E k \in DOMAIN jobs' : jobs'[k] = jobs[j]]_vars
=============================================================================
