------------------------------- MODULE Traps -------------------------------
(***************************************************************************)
(* Signals and `trap` in tash: the handlers and dispositions of            *)
(* signals.cpp, builtin_trap (trap.cpp), the trap check that               *)
(* execute_command_line makes after each command (executor.cpp),           *)
(* builtin_exit and the EXIT trap (meta.cpp), Ctrl-D (repl.cpp), and what  *)
(* a forked subshell inherits of all that.                                 *)
(*                                                                         *)
(* execute_command_line, check_and_fire_traps and builtin_exit call each   *)
(* other, so a process carries the stack of the calls it is in, innermost  *)
(* first.  A frame is a command line with n segments left, a trap check    *)
(* about to look at signal n, an exit at stage n, or the second half of    *)
(* builtin_trap for signal n.                                              *)
(***************************************************************************)
EXTENDS Integers, Sequences, FiniteSets

CONSTANTS
  Sigs,       \* the signal numbers modelled
  INT, CHLD, QUIT,  \* SIGINT, SIGCHLD and SIGQUIT
  Actions,    \* the commands traps are set to: some of "plain" and "exit"
  MaxSegs,    \* bound on the segments of a command line
  MaxSent,    \* bound on the signals sent
  MaxDepth,   \* bound on the depth of the call stack
  Subshells,  \* BOOLEAN: are there subshell commands?
  Eof         \* BOOLEAN: does the user type Ctrl-D?

ASSUME SigsAssumption == Sigs \subseteq 1 .. 63 /\ IsFiniteSet(Sigs) /\ INT # CHLD /\ QUIT \notin {INT, CHLD}
ASSUME ActionsAssumption == Actions \subseteq {"plain", "exit"}
ASSUME BoundsAssumption ==
  MaxSegs \in Nat /\ MaxSent \in Nat /\ MaxDepth \in Nat /\ Subshells \in BOOLEAN /\ Eof \in BOOLEAN

EXIT == 0
Processes == {"shell", "sub"}

VARIABLES
  alive,         \* per process: "off", "run", "exited", "killed", "overflow"
  stack,         \* per process: the calls it is in
  pending,       \* per process: pending_traps[]
  traps,         \* per process: ExecutionState::traps
  disp,          \* per process: the sigaction table
  waiting,       \* the shell is in the waitpid for its subshell
  ctrl_d_count,
  sent,          \* signals sent so far
  caught, fired, \* history: per signal, handler runs and trap commands started
  exitRuns, onExit  \* history: EXIT traps started, on_exit hooks fired, by the shell

vars == <<alive, stack, pending, traps, disp, waiting, ctrl_d_count, sent, caught, fired, exitRuns, onExit>>
history == <<sent, caught, fired, exitRuns, onExit>>

Frame(k, n, what) == [k |-> k, n |-> n, what |-> what]
Top(p) == Head(stack[p])

TypeOK ==
  /\ alive \in [Processes -> {"off", "run", "exited", "killed", "overflow"}]
  /\ stack \in [Processes -> Seq([k : {"line", "scan", "exit", "apply"}, n : Nat,
                                 what : {"user", "plain", "exit", "ignore", "none", ""}])]
  /\ pending \in [Processes -> [Sigs -> BOOLEAN]]
  /\ traps \in [Processes -> [Sigs \cup {EXIT} -> {"none", "ignore"} \cup Actions]]
  /\ disp \in [Processes -> [Sigs -> {"dfl", "ign", "trap", "sigint", "sigchld"}]]
  /\ waiting \in BOOLEAN
  /\ ctrl_d_count \in Nat
  /\ sent \in 0 .. MaxSent
  /\ caught \in [Sigs -> Nat] /\ fired \in [Sigs -> Nat]
  /\ exitRuns \in Nat /\ onExit \in Nat

\* install_signal_handlers, and a table without traps.
Init ==
  /\ alive = [p \in Processes |-> IF p = "shell" THEN "run" ELSE "off"]
  /\ stack = [p \in Processes |-> <<>>]
  /\ pending = [p \in Processes |-> [s \in Sigs |-> FALSE]]
  /\ traps = [p \in Processes |-> [s \in Sigs \cup {EXIT} |-> "none"]]
  /\ disp = [p \in Processes |-> [s \in Sigs |->
               IF s = INT THEN "sigint" ELSE IF s = CHLD THEN "sigchld" ELSE "dfl"]]
  /\ waiting = FALSE
  /\ ctrl_d_count = 0 /\ sent = 0
  /\ caught = [s \in Sigs |-> 0] /\ fired = [s \in Sigs |-> 0]
  /\ exitRuns = 0 /\ onExit = 0

-----------------------------------------------------------------------------
(* Delivery.                                                                *)

\* The default action of a signal ends the process, SIGCHLD's does nothing.
\* sigint_handler and trap_only_handler record the signal for the trap check;
\* sigchld_handler only tells the reaper.
Deliver(p, s) ==
  LET handled == disp[p][s] \in {"trap", "sigint"}
  IN  /\ alive' = IF disp[p][s] = "dfl" /\ s # CHLD THEN [alive EXCEPT ![p] = "killed"] ELSE alive
      /\ pending' = IF handled THEN [pending EXCEPT ![p][s] = TRUE] ELSE pending
      /\ caught' = IF handled THEN [caught EXCEPT ![s] = @ + 1] ELSE caught

\* Somebody sends s to p.  SIGINT's handler has no SA_RESTART: it ends the
\* shell's waitpid, and the shell goes on beside its subshell.
Signal(p, s) ==
  /\ alive[p] = "run" /\ sent < MaxSent
  /\ sent' = sent + 1
  /\ Deliver(p, s)
  /\ waiting' = (waiting /\ ~(p = "shell" /\ disp[p][s] = "sigint"))
  /\ UNCHANGED <<stack, traps, disp, ctrl_d_count, fired, exitRuns, onExit>>

\* The subshell ended: the shell's waitpid returns.
Reaped ==
  /\ waiting /\ alive["sub"] # "run"
  /\ waiting' = FALSE
  /\ UNCHANGED <<alive, stack, pending, traps, disp, ctrl_d_count, history>>

-----------------------------------------------------------------------------
(* The calls of a process.                                                  *)

Runs(p) ==
  /\ alive[p] = "run" /\ Len(stack[p]) <= MaxDepth
  /\ p = "shell" => ~waiting

In(p, k) == Runs(p) /\ stack[p] # <<>> /\ Top(p).k = k

\* The innermost call is replaced by the calls of fs.
Becomes(p, fs) == stack' = [stack EXCEPT ![p] = fs \o Tail(@)]

\* Variant: no trap check after the segment.
AfterSegmentUnchecked(p) == <<Frame("line", Top(p).n - 1, Top(p).what)>>

\* What is left of a command line once its next segment is being executed: the
\* trap check that follows the segment, then the other segments.
AfterSegment(p) == <<Frame("scan", 1, ""), Frame("line", Top(p).n - 1, Top(p).what)>>

InSegment(p, whats) == In(p, "line") /\ Top(p).n > 0 /\ Top(p).what \in whats

\* A line typed at the prompt; an empty one has no segments.
UserLine ==
  /\ Runs("shell") /\ stack["shell"] = <<>>
  /\ \E n \in 0 .. MaxSegs : stack' = [stack EXCEPT !["shell"] = <<Frame("line", n, "user")>>]
  /\ ctrl_d_count' = 0
  /\ UNCHANGED <<alive, pending, traps, disp, waiting, history>>

\* Ctrl-D at the prompt: the second in a row leaves the loop.
CtrlD ==
  /\ Eof /\ Runs("shell") /\ stack["shell"] = <<>>
  /\ ctrl_d_count' = ctrl_d_count + 1
  /\ alive' = IF ctrl_d_count' >= 2 THEN [alive EXCEPT !["shell"] = "exited"] ELSE alive
  /\ UNCHANGED <<stack, pending, traps, disp, waiting, history>>

\* A segment that is an ordinary command.
Plain(p) ==
  /\ InSegment(p, {"user", "plain"})
  /\ Becomes(p, AfterSegment(p))
  /\ UNCHANGED <<alive, pending, traps, disp, waiting, ctrl_d_count, history>>

LineDone(p) ==
  /\ In(p, "line") /\ Top(p).n = 0
  /\ Becomes(p, <<>>)
  /\ UNCHANGED <<alive, pending, traps, disp, waiting, ctrl_d_count, history>>

\* Variant: a child starts with every signal at its default.
ChildDispositionsDefault == [s \in Sigs |-> "dfl"]

\* reset_child_signal_state: a child that does not exec keeps every disposition
\* but these three.
ChildDispositions == [s \in Sigs |-> IF s \in {INT, CHLD, QUIT} THEN "dfl" ELSE disp["shell"][s]]

\* A subshell segment: the child gets a copy of the trap table and of the
\* pending flags.  One subshell at a time.
Fork ==
  /\ Subshells /\ InSegment("shell", {"user"}) /\ alive["sub"] # "run"
  /\ alive' = [alive EXCEPT !["sub"] = "run"]
  /\ waiting' = TRUE
  /\ pending' = [pending EXCEPT !["sub"] = pending["shell"]]
  /\ traps' = [traps EXCEPT !["sub"] = traps["shell"]]
  /\ disp' = [disp EXCEPT !["sub"] = ChildDispositions]
  /\ stack' = [stack EXCEPT !["sub"] = <<Frame("line", 1, "user")>>,
                            !["shell"] = AfterSegment("shell") \o Tail(@)]
  /\ UNCHANGED <<ctrl_d_count, history>>

\* The subshell's line is done: std::exit, without the EXIT trap.
SubDone ==
  /\ Runs("sub") /\ stack["sub"] = <<>>
  /\ alive' = [alive EXCEPT !["sub"] = "exited"]
  /\ UNCHANGED <<stack, pending, traps, disp, waiting, ctrl_d_count, history>>

-----------------------------------------------------------------------------
(* builtin_trap: first the table, then the disposition.                     *)

\* `trap action s`, where "none" stands for `trap - s` and "ignore" for
\* `trap '' s`.
TrapBuiltin(p) ==
  /\ InSegment(p, {"user"})
  /\ \E s \in Sigs \cup {EXIT}, a \in {"none", "ignore"} \cup Actions :
       /\ traps' = [traps EXCEPT ![p][s] = a]
       /\ Becomes(p, IF s = EXIT THEN AfterSegment(p)
                                 ELSE <<Frame("apply", s, a)>> \o AfterSegment(p))
  /\ UNCHANGED <<alive, pending, disp, waiting, ctrl_d_count, history>>

\* uninstall_trap_handler, ignore_signal and install_trap_handler: the first and
\* the last leave SIGINT alone.
NewDisposition(s, a, old) ==
  IF a = "ignore" THEN "ign"
  ELSE IF s = INT THEN old
  ELSE IF a = "none" THEN "dfl" ELSE "trap"

Apply(p) ==
  /\ In(p, "apply")
  /\ LET f == Top(p)
     IN  disp' = [disp EXCEPT ![p][f.n] = NewDisposition(f.n, f.what, @)]
  /\ Becomes(p, <<>>)
  /\ UNCHANGED <<alive, pending, traps, waiting, ctrl_d_count, history>>

-----------------------------------------------------------------------------
(* check_and_fire_traps: signum from 1 to 63.                               *)

NextSignum(n) == {s \in Sigs : s >= n /\ \A t \in Sigs : t >= n => s <= t}

\* Variant: the flag is cleared after the trap command, by the frame that
\* returns to the loop at the same signal.
ScanClearsNothing(p) ==
  /\ In(p, "scan")
  /\ \E s \in NextSignum(Top(p).n) :
       LET rest == Frame("scan", s + 1, "")
           fires == pending[p][s] /\ traps[p][s] \in Actions
       IN  /\ fired' = IF fires THEN [fired EXCEPT ![s] = @ + 1] ELSE fired
           /\ Becomes(p, IF fires THEN <<Frame("line", 1, traps[p][s]), rest>> ELSE <<rest>>)
  /\ UNCHANGED <<alive, pending, traps, disp, waiting, ctrl_d_count, sent, caught, exitRuns, onExit>>

\* The loop reaches the next signal modelled.  The flag is cleared before the
\* trap command runs, and cleared also when there is no command to run.
Scan(p) ==
  /\ In(p, "scan")
  /\ \E s \in NextSignum(Top(p).n) :
       LET rest == Frame("scan", s + 1, "")
           fires == pending[p][s] /\ traps[p][s] \in Actions
       IN  /\ pending' = [pending EXCEPT ![p][s] = FALSE]
           /\ fired' = IF fires THEN [fired EXCEPT ![s] = @ + 1] ELSE fired
           /\ Becomes(p, IF fires THEN <<Frame("line", 1, traps[p][s]), rest>> ELSE <<rest>>)
  /\ UNCHANGED <<alive, traps, disp, waiting, ctrl_d_count, sent, caught, exitRuns, onExit>>

ScanDone(p) ==
  /\ In(p, "scan") /\ NextSignum(Top(p).n) = {}
  /\ Becomes(p, <<>>)
  /\ UNCHANGED <<alive, pending, traps, disp, waiting, ctrl_d_count, history>>

-----------------------------------------------------------------------------
(* builtin_exit.                                                            *)

Exit(p) ==
  /\ InSegment(p, {"user", "exit"})
  /\ Becomes(p, <<Frame("exit", 0, "")>> \o AfterSegment(p))
  /\ UNCHANGED <<alive, pending, traps, disp, waiting, ctrl_d_count, history>>

\* Variant: the hooks are fired before the trap, and so again by an exit in it.
FireExitTrapHooksFirst(p) ==
  /\ In(p, "exit") /\ Top(p).n = 0
  /\ LET a == traps[p][EXIT]
         rest == Frame("exit", 1, "")
     IN  /\ Becomes(p, IF a \in Actions THEN <<Frame("line", 1, a), rest>> ELSE <<rest>>)
         /\ exitRuns' = IF p = "shell" /\ a \in Actions THEN exitRuns + 1 ELSE exitRuns
  /\ onExit' = IF p = "shell" THEN onExit + 1 ELSE onExit
  /\ UNCHANGED <<alive, pending, traps, disp, waiting, ctrl_d_count, sent, caught, fired>>

\* Variant: exit does not run the trap.
FireExitTrapSkipped(p) ==
  /\ In(p, "exit") /\ Top(p).n = 0
  /\ Becomes(p, <<Frame("exit", 1, "")>>)
  /\ UNCHANGED <<alive, pending, traps, disp, waiting, ctrl_d_count, history>>

\* fire_exit_trap.
FireExitTrap(p) ==
  /\ In(p, "exit") /\ Top(p).n = 0
  /\ LET a == traps[p][EXIT]
         rest == Frame("exit", 1, "")
     IN  /\ Becomes(p, IF a \in Actions THEN <<Frame("line", 1, a), rest>> ELSE <<rest>>)
         /\ exitRuns' = IF p = "shell" /\ a \in Actions THEN exitRuns + 1 ELSE exitRuns
  /\ UNCHANGED <<alive, pending, traps, disp, waiting, ctrl_d_count, sent, caught, fired, onExit>>

\* fire_exit of the plugin registry, then exit(0).
ExitProcess(p) ==
  /\ In(p, "exit") /\ Top(p).n = 1
  /\ alive' = [alive EXCEPT ![p] = "exited"]
  /\ onExit' = IF p = "shell" THEN onExit + 1 ELSE onExit
  /\ UNCHANGED <<stack, pending, traps, disp, waiting, ctrl_d_count, sent, caught, fired, exitRuns>>

\* A recursion that does not end uses up the stack.
Overflow(p) ==
  /\ alive[p] = "run" /\ Len(stack[p]) > MaxDepth
  /\ alive' = [alive EXCEPT ![p] = "overflow"]
  /\ UNCHANGED <<stack, pending, traps, disp, waiting, ctrl_d_count, history>>

-----------------------------------------------------------------------------
Executes(p) == Plain(p) \/ LineDone(p) \/ TrapBuiltin(p) \/ Apply(p) \/ Scan(p) \/ ScanDone(p)
Exiting(p)  == Exit(p) \/ FireExitTrap(p) \/ ExitProcess(p)
Steps == \E p \in Processes : Executes(p) \/ Exiting(p)

Next ==
  \/ Steps \/ UserLine \/ CtrlD \/ Fork \/ SubDone \/ Reaped
  \/ \E p \in Processes : Overflow(p)
  \/ \E p \in Processes, s \in Sigs : Signal(p, s)

Spec == Init /\ [][Next]_vars

\* Each process keeps executing what it has to execute, the user keeps typing.
FairSpec ==
  /\ Spec
  /\ \A p \in Processes : WF_vars(Executes(p) \/ Exiting(p))
  /\ WF_vars(UserLine) /\ WF_vars(SubDone) /\ WF_vars(Reaped)

-----------------------------------------------------------------------------
(* Safety.                                                                  *)

Applying(p, s) == stack[p] # <<>> /\ Top(p).k = "apply" /\ Top(p).n = s

\* What the table says of a signal is what the kernel will do with it, in the
\* shell and in a subshell, whatever sequence of `trap` commands led there.
\* Two signals are apart: for SIGINT, install_trap_handler and
\* uninstall_trap_handler leave the shell's own handler in place, and a trap on
\* SIGCHLD takes the reaper's handler away, so that neither follows the table.
\* A subshell has a copy of the table, but SIGQUIT is at its default there, until
\* the subshell traps it itself.
Agrees(s, a, d) ==
  /\ a = "none" => d = "dfl"
  /\ a = "ignore" => d = "ign"
  /\ a \in Actions => d = "trap"

Follows(p, s) == Agrees(s, traps[p][s], disp[p][s]) \/ (p = "sub" /\ s = QUIT /\ disp[p][s] = "dfl")

DispositionFollowsTable ==
  \A p \in Processes, s \in Sigs \ {INT, CHLD} :
    (alive[p] = "run" /\ ~Applying(p, s)) => Follows(p, s)

\* A trap command never runs more often than its signal was caught, however
\* deeply trap checks nest.
FiredOncePerSignal == \A s \in Sigs : fired[s] <= caught[s]

\* The exit builtin ran the EXIT trap once, if there is one, and then the
\* on_exit hooks once; and traps that are not themselves an exit keep the call
\* stack bounded, whatever they nest in.
ExitTrapThenHooks ==
  /\ alive["shell"] # "overflow"
  /\ alive["shell"] = "exited" =>
       onExit = 1 /\ (traps["shell"][EXIT] \in Actions => exitRuns = 1)

\* Whatever traps call exit, and whenever, the on_exit hooks run at most once.
HooksAtMostOnce == onExit <= 1

(* Liveness.                                                                *)

SegmentReady == stack["shell"] # <<>> /\ Top("shell").k = "line" /\ Top("shell").n > 0

\* As long as the shell gets commands to execute, a caught signal does not stay
\* pending: the check after a command reaches it.
PendingIsHandled ==
  []<>SegmentReady =>
    \A s \in Sigs : pending["shell"][s] ~> (~pending["shell"][s] \/ alive["shell"] # "run")

=============================================================================
