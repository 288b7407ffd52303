---------------------------- MODULE ChildOutput ----------------------------
(***************************************************************************)
(* How tash reads the output of a command it waits for: foreground_process *)
(* (process.cpp), which captures stderr, and stdout too when it linkifies, *)
(* and run_command_with_hooks_capture (executor.cpp), which captures       *)
(* stdout.  The shell drains one pipe after the other and then waits; the  *)
(* child writes to them, closes them, stops, ends, in any order, and may   *)
(* leave a descendant behind that holds its output open.                   *)
(***************************************************************************)
EXTENDS Integers, Sequences

CONSTANTS
  Modes,       \* some of "foreground", "linkify" (TASH_AUTO_LINKIFY), "capture"
  Cap,         \* capacity of a pipe, in writes
  Limit,       \* how much stderr is read before the loop breaks (4096 bytes)
  MaxWrites,   \* bound on the writes to a stream
  Interrupts,  \* BOOLEAN: is SIGINT delivered to the shell?
  Heirs,       \* BOOLEAN: may a descendant of the child outlive it?
  Stops        \* BOOLEAN: may the child be stopped?

ASSUME ModesAssumption == Modes \subseteq {"foreground", "linkify", "capture"}
ASSUME BoundsAssumption == Cap \in Nat \ {0} /\ Limit \in Nat \ {0} /\ MaxWrites \in Nat
ASSUME EnvironmentAssumption == Interrupts \in BOOLEAN /\ Heirs \in BOOLEAN /\ Stops \in BOOLEAN

Streams == {"out", "err"}

VARIABLES
  mode,      \* the way this command is run
  child,     \* "run", "stopped", "exited", "killed"
  want,      \* the stream of the write the child is in, or "none"
  holders,   \* per stream: who holds the write end, of "child" and "heir"
  pipe,      \* per stream: writes in the pipe
  written,   \* per stream: writes that went into the pipe
  shown,     \* per stream: writes the shell has read and passed on
  reading,   \* per stream: is the read end open?
  d,         \* the drain the shell is in; past the last one it waits
  returned   \* waitpid has returned

vars == <<mode, child, want, holders, pipe, written, shown, reading, d, returned>>
childVars == <<child, want, holders, written>>

\* The captured streams, in the order the shell drains them.  The others are
\* the terminal, and not modelled: holders and want leave them out.
Drains == IF mode = "foreground" THEN <<"err">>
          ELSE IF mode = "linkify" THEN <<"out", "err">> ELSE <<"out">>
Captured == {Drains[k] : k \in DOMAIN Drains}

TypeOK ==
  /\ mode \in Modes
  /\ child \in {"run", "stopped", "exited", "killed"}
  /\ want \in Captured \cup {"none"}
  /\ holders \in [Streams -> SUBSET {"child", "heir"}]
  /\ pipe \in [Streams -> 0 .. Cap]
  /\ written \in [Streams -> 0 .. MaxWrites] /\ shown \in [Streams -> 0 .. MaxWrites]
  /\ reading \in [Streams -> BOOLEAN]
  /\ d \in 1 .. Len(Drains) + 1
  /\ returned \in BOOLEAN

\* Variant: the shell keeps its copies of the write ends.
InitKeepsWriteEnds ==
  /\ mode \in Modes /\ child = "run" /\ want = "none"
  /\ holders = [s \in Streams |-> IF s \in Captured THEN {"child", "shell"} ELSE {}]
  /\ pipe = [s \in Streams |-> 0]
  /\ written = [s \in Streams |-> 0] /\ shown = [s \in Streams |-> 0]
  /\ reading = [s \in Streams |-> TRUE]
  /\ d = 1 /\ returned = FALSE

\* The pipes are made, the child is forked and has them as its streams, and the
\* shell has closed its own write ends.
Init ==
  /\ mode \in Modes /\ child = "run" /\ want = "none"
  /\ holders = [s \in Streams |-> IF s \in Captured THEN {"child"} ELSE {}]
  /\ pipe = [s \in Streams |-> 0]
  /\ written = [s \in Streams |-> 0] /\ shown = [s \in Streams |-> 0]
  /\ reading = [s \in Streams |-> TRUE]
  /\ d = 1 /\ returned = FALSE

-----------------------------------------------------------------------------
(* The child.                                                               *)

Gone == child \in {"exited", "killed"}
Ends(how) ==
  /\ child' = how /\ want' = "none"
  /\ holders' = [s \in Streams |-> holders[s] \ {"child"}]

\* The child calls write().
Writes(s) ==
  /\ child = "run" /\ want = "none" /\ "child" \in holders[s] /\ written[s] < MaxWrites
  /\ want' = s
  /\ UNCHANGED <<mode, child, holders, pipe, written, shown, reading, d, returned>>

\* write() returns, once there is room; without a reader SIGPIPE ends the child.
WriteReturns ==
  /\ child = "run" /\ want # "none"
  /\ \/ /\ reading[want] /\ pipe[want] < Cap
        /\ pipe' = [pipe EXCEPT ![want] = @ + 1]
        /\ written' = [written EXCEPT ![want] = @ + 1]
        /\ want' = "none"
        /\ UNCHANGED <<child, holders>>
     \/ ~reading[want] /\ Ends("killed") /\ UNCHANGED <<pipe, written>>
  /\ UNCHANGED <<mode, shown, reading, d, returned>>

ClosesStream(s) ==
  /\ child = "run" /\ want = "none" /\ "child" \in holders[s]
  /\ holders' = [holders EXCEPT ![s] = @ \ {"child"}]
  /\ UNCHANGED <<mode, child, want, pipe, written, shown, reading, d, returned>>

\* The child starts a process that inherits its streams and outlives it.
LeavesHeir ==
  /\ Heirs /\ child = "run" /\ want = "none"
  /\ holders' = [s \in Streams |-> IF "child" \in holders[s] THEN {"child", "heir"} ELSE holders[s]]
  /\ UNCHANGED <<mode, child, want, pipe, written, shown, reading, d, returned>>

HeirEnds(s) ==
  /\ "heir" \in holders[s]
  /\ holders' = [holders EXCEPT ![s] = @ \ {"heir"}]
  /\ UNCHANGED <<mode, child, want, pipe, written, shown, reading, d, returned>>

Exits ==
  /\ child = "run" /\ want = "none"
  /\ Ends("exited")
  /\ UNCHANGED <<mode, pipe, written, shown, reading, d, returned>>

StopsOrContinues ==
  /\ Stops
  /\ \/ child = "run" /\ child' = "stopped"
     \/ child = "stopped" /\ child' = "run"
  /\ UNCHANGED <<mode, want, holders, pipe, written, shown, reading, d, returned>>

-----------------------------------------------------------------------------
(* The shell.                                                               *)

InDrain == ~returned /\ d <= Len(Drains)
Stream  == Drains[d]
Unlimited(s) == s = "out"

\* The read end is closed: the next drain, or the wait.
ClosesDrain ==
  /\ reading' = [reading EXCEPT ![Stream] = FALSE]
  /\ pipe' = [pipe EXCEPT ![Stream] = 0]
  /\ d' = d + 1

\* Variant: the pipe is read once the child has ended.
ReadDataLate ==
  /\ InDrain /\ pipe[Stream] > 0 /\ Gone
  /\ shown' = [shown EXCEPT ![Stream] = @ + 1]
  /\ pipe' = [pipe EXCEPT ![Stream] = @ - 1]
  /\ UNCHANGED <<mode, childVars, reading, d, returned>>

\* read() returns data, which is passed on; enough stderr ends its loop.
ReadData ==
  /\ InDrain /\ pipe[Stream] > 0
  /\ shown' = [shown EXCEPT ![Stream] = @ + 1]
  /\ IF ~Unlimited(Stream) /\ shown'[Stream] >= Limit
     THEN ClosesDrain
     ELSE pipe' = [pipe EXCEPT ![Stream] = @ - 1] /\ UNCHANGED <<reading, d>>
  /\ UNCHANGED <<mode, childVars, returned>>

\* Variant: the drain ends with the child's close, whatever the pipe holds.
ReadEofEarly ==
  /\ InDrain /\ holders[Stream] = {}
  /\ ClosesDrain
  /\ UNCHANGED <<mode, childVars, shown, returned>>

\* read() returns 0.
ReadEof ==
  /\ InDrain /\ pipe[Stream] = 0 /\ holders[Stream] = {}
  /\ ClosesDrain
  /\ UNCHANGED <<mode, childVars, shown, returned>>

\* read() fails with EINTR: sigint_handler is installed without SA_RESTART.
\* The loop takes that for the end.
ReadInterrupted ==
  /\ Interrupts /\ InDrain /\ pipe[Stream] = 0
  /\ ClosesDrain
  /\ UNCHANGED <<mode, childVars, shown, returned>>

\* waitpid returns: the child ended.  In the foreground it also returns when
\* the child stopped (WUNTRACED), and when SIGINT interrupts it; the capture
\* calls it again.
Waits ==
  /\ ~returned /\ d > Len(Drains)
  /\ Gone \/ (mode # "capture" /\ (child = "stopped" \/ Interrupts))
  /\ returned' = TRUE
  /\ UNCHANGED <<mode, childVars, pipe, shown, reading, d>>

-----------------------------------------------------------------------------
Shell == ReadData \/ ReadEof \/ Waits

Next ==
  \/ Shell \/ ReadInterrupted
  \/ \E s \in Streams : Writes(s) \/ ClosesStream(s) \/ HeirEnds(s)
  \/ WriteReturns \/ LeavesHeir \/ Exits \/ StopsOrContinues

Spec == Init /\ [][Next]_vars

\* The shell goes on when a system call returns, and a write returns when it
\* can.  The child need not do anything else, nor ever end.
FairSpec == Spec /\ WF_vars(Shell) /\ WF_vars(WriteReturns)

-----------------------------------------------------------------------------
\* The text captured, and shown to the user, is all that the command wrote; of
\* stderr, that up to the limit.
OutputIsComplete ==
  returned => \A s \in Captured : shown[s] = written[s] \/ (s = "err" /\ shown[s] >= Limit)

\* The shell reads before it waits, so a command that writes more than a pipe
\* holds is not blocked for ever.
WritesReturn == (want # "none" /\ child = "run") ~> (want = "none" \/ child # "run")

\* Once the command has ended, and the processes it left its output to, the
\* prompt comes back.
PromptComesBack == (Gone /\ \A s \in Captured : "heir" \notin holders[s]) ~> returned

=============================================================================
