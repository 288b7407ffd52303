------------------------------ MODULE SafeExec ------------------------------
(***************************************************************************)
(* tash::util::safe_exec (safe_exec.cpp): a helper command is run with its *)
(* stdout captured and, if a timeout is given, killed at the deadline.     *)
(* prompt, completion, manual-page and starship probes go through it.      *)
(* Time passes at any point of the loop and of the child's life.           *)
(***************************************************************************)
EXTENDS Integers

CONSTANTS
  Timeouts,   \* the values of timeout_ms; 0: none
  Horizon,    \* bound on the clock
  MaxWrites,  \* bound on the child's writes
  Heirs,      \* BOOLEAN: may a descendant hold stdout open after the child?
  Closes      \* BOOLEAN: may the child close its stdout before it ends?

ASSUME TimesAssumption == Timeouts \subseteq Nat /\ Horizon \in Nat /\ MaxWrites \in Nat
ASSUME ChildAssumption == Heirs \in BOOLEAN /\ Closes \in BOOLEAN

VARIABLES
  timeout,    \* timeout_ms of this call
  pc,         \* "check", "poll", "read", "close", "wait", "done"
  now,        \* the monotonic clock
  remaining,  \* what poll was told to wait; -1: for ever
  expires,    \* when that poll returns 0
  timed_out,
  child,      \* "run", "zombie", "reaped"
  killed,     \* the child was sent SIGKILL
  holders,    \* who holds the write end, of "child" and "heir"
  pipe, written, captured,   \* writes in the pipe, made, and read
  exit_code   \* "none", "status", "minus1"

execVars == <<timeout, pc, now, remaining, expires, timed_out, child, killed, holders, pipe, written, captured, exit_code>>
childVars == <<child, killed, holders, written>>

ExecTypeOK ==
  /\ timeout \in Timeouts
  /\ pc \in {"check", "poll", "read", "close", "wait", "done"}
  /\ now \in 0 .. Horizon
  /\ remaining \in -1 .. timeout /\ expires \in 0 .. Horizon + timeout
  /\ timed_out \in BOOLEAN
  /\ child \in {"run", "zombie", "reaped"} /\ killed \in BOOLEAN
  /\ holders \subseteq {"child", "heir"}
  /\ pipe \in 0 .. MaxWrites /\ written \in 0 .. MaxWrites /\ captured \in 0 .. MaxWrites
  /\ exit_code \in {"none", "status", "minus1"}

\* After the fork; the deadline is counted from here.
ExecInit ==
  /\ timeout \in Timeouts
  /\ pc = "check" /\ now = 0 /\ remaining = -1 /\ expires = 0 /\ timed_out = FALSE
  /\ child = "run" /\ killed = FALSE /\ holders = {"child"}
  /\ pipe = 0 /\ written = 0 /\ captured = 0
  /\ exit_code = "none"

-----------------------------------------------------------------------------
(* The child and the clock.                                                 *)

\* poll does not oversleep: its timeout is a point the clock does not pass.
Tick ==
  /\ now < Horizon
  /\ ~(pc = "poll" /\ remaining >= 0 /\ now = expires)
  /\ now' = now + 1
  /\ UNCHANGED <<timeout, pc, remaining, expires, timed_out, childVars, pipe, captured, exit_code>>

ChildWrites ==
  /\ child = "run" /\ "child" \in holders /\ written < MaxWrites
  /\ written' = written + 1
  /\ pipe' = pipe + 1
  /\ UNCHANGED <<timeout, pc, now, remaining, expires, timed_out, child, killed, holders, captured, exit_code>>

ChildCloses ==
  /\ Closes /\ child = "run"
  /\ holders' = holders \ {"child"}
  /\ UNCHANGED <<timeout, pc, now, remaining, expires, timed_out, child, killed, pipe, written, captured, exit_code>>

LeavesHeir ==
  /\ Heirs /\ child = "run" /\ "child" \in holders
  /\ holders' = holders \cup {"heir"}
  /\ UNCHANGED <<timeout, pc, now, remaining, expires, timed_out, child, killed, pipe, written, captured, exit_code>>

ChildEnds ==
  /\ child = "run"
  /\ child' = "zombie" /\ holders' = holders \ {"child"}
  /\ UNCHANGED <<timeout, pc, now, remaining, expires, timed_out, killed, pipe, written, captured, exit_code>>

-----------------------------------------------------------------------------
(* The loop.                                                                *)

\* The remaining budget, or the end of it.
CheckDeadline ==
  /\ pc = "check"
  /\ IF timeout = 0
     THEN pc' = "poll" /\ remaining' = -1 /\ UNCHANGED <<expires, timed_out>>
     ELSE IF now >= timeout
          THEN pc' = "close" /\ timed_out' = TRUE /\ UNCHANGED <<remaining, expires>>
          ELSE /\ remaining' = timeout - now /\ expires' = timeout
               /\ pc' = "poll" /\ UNCHANGED timed_out
  /\ UNCHANGED <<timeout, now, childVars, pipe, captured, exit_code>>

\* poll: there is data or nobody left to write it; time is up; or a signal
\* interrupted it before, and the loop goes round.
PollReady ==
  /\ pc = "poll" /\ (pipe > 0 \/ holders = {})
  /\ pc' = "read"
  /\ UNCHANGED <<timeout, now, remaining, expires, timed_out, childVars, pipe, captured, exit_code>>

PollTimeout ==
  /\ pc = "poll" /\ remaining >= 0 /\ now >= expires /\ pipe = 0 /\ holders # {}
  /\ timed_out' = TRUE /\ pc' = "close"
  /\ UNCHANGED <<timeout, now, remaining, expires, childVars, pipe, captured, exit_code>>

PollInterrupted ==
  /\ pc = "poll" /\ pipe = 0 /\ holders # {}
  /\ pc' = "check"
  /\ UNCHANGED <<timeout, now, remaining, expires, timed_out, childVars, pipe, captured, exit_code>>

\* Variant: the loop ends with the first data.
ReadOnce ==
  /\ pc = "read"
  /\ captured' = captured + pipe /\ pipe' = 0
  /\ pc' = "close"
  /\ UNCHANGED <<timeout, now, remaining, expires, timed_out, childVars, exit_code>>

\* read: some of the data, and round again; or end of file.
Read ==
  /\ pc = "read"
  /\ \/ /\ pipe > 0
        /\ \E n \in 1 .. pipe : captured' = captured + n /\ pipe' = pipe - n
        /\ pc' = "check"
     \/ pipe = 0 /\ pc' = "close" /\ UNCHANGED <<captured, pipe>>
  /\ UNCHANGED <<timeout, now, remaining, expires, timed_out, childVars, exit_code>>

\* Variant: nothing is killed.
CloseOnly ==
  /\ pc = "close"
  /\ pc' = "wait"
  /\ UNCHANGED <<timeout, now, remaining, expires, timed_out, childVars, pipe, captured, exit_code>>

\* The pipe is closed; SIGKILL if time was up.
CloseAndKill ==
  /\ pc = "close"
  /\ IF timed_out /\ child = "run"
     THEN child' = "zombie" /\ killed' = TRUE /\ holders' = holders \ {"child"}
     ELSE UNCHANGED <<child, killed, holders>>
  /\ pc' = "wait"
  /\ UNCHANGED <<timeout, now, remaining, expires, timed_out, pipe, written, captured, exit_code>>

\* Variant: waitpid only where there is a status to report.
WaitUnlessKilled ==
  /\ pc = "wait" /\ child = "zombie"
  /\ child' = IF timed_out THEN "zombie" ELSE "reaped"
  /\ exit_code' = IF timed_out THEN "minus1" ELSE "status"
  /\ pc' = "done"
  /\ UNCHANGED <<timeout, now, remaining, expires, timed_out, killed, holders, pipe, written, captured>>

\* waitpid, called again when interrupted.
Wait ==
  /\ pc = "wait" /\ child = "zombie"
  /\ child' = "reaped"
  /\ exit_code' = IF timed_out THEN "minus1" ELSE "status"
  /\ pc' = "done"
  /\ UNCHANGED <<timeout, now, remaining, expires, timed_out, killed, holders, pipe, written, captured>>

-----------------------------------------------------------------------------
Parent == CheckDeadline \/ PollReady \/ PollTimeout \/ Read \/ CloseAndKill \/ Wait
ChildStep == ChildWrites \/ ChildCloses \/ LeavesHeir \/ ChildEnds

ExecNext == Parent \/ PollInterrupted \/ ChildStep \/ Tick

ExecSpec == ExecInit /\ [][ExecNext]_execVars

\* The caller runs and time passes; nothing is assumed of the child.
FairExecSpec == ExecSpec /\ WF_execVars(Parent) /\ WF_execVars(Tick)

-----------------------------------------------------------------------------
\* A status is only reported for a child that was neither killed nor cut short:
\* all it wrote while it held the pipe is in stdout_text.
StatusMeansComplete == exit_code = "status" => ~killed /\ captured = written

\* The child is reaped in every case: no zombie, and no exit status for
\* somebody else's waitpid, stays behind.
NoZombie == pc = "done" => child = "reaped"

\* However the reads and interruptions fall, the loop does not sleep past the
\* deadline.
NeverSleepsPastDeadline == (pc = "poll" /\ timeout > 0) => remaining >= 0 /\ expires <= timeout

\* With a timeout the caller gets its answer, whatever the child does, unless
\* the child has closed its stdout in time and goes on: the waitpid has none.
\* Without one it gets it when the child, and those it left its stdout to, have
\* ended.
CallerReturns ==
  /\ timeout > 0 => <>(pc = "done" \/ (pc = "wait" /\ child = "run" /\ ~timed_out))
  /\ (child = "zombie" /\ "heir" \notin holders) ~> (pc = "done")

=============================================================================
