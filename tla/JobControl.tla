----------------------------- MODULE JobControl -----------------------------
(***************************************************************************)
(* The job control of tash: background_process, foreground_process,        *)
(* execute_pipeline's wait loop and the SIGCHLD reaper (process.cpp), the  *)
(* bg* and fg builtins (bg.cpp), the SIGINT and SIGCHLD handlers           *)
(* (signals.cpp) and the points of run_interactive that reap (repl.cpp).   *)
(*                                                                         *)
(* The shell is one thread, so it has a program counter; its children, the *)
(* kernel and the two signal handlers run between any two of its steps.    *)
(* A pid is free, the shell's child (running, stopped or zombie), or, once *)
(* reaped, recycled by the kernel for a process that is not ours.          *)
(***************************************************************************)
EXTENDS Integers, FiniteSets, Sequences

CONSTANTS
  Pids,            \* the pids the kernel hands out
  NoPid,           \* fg_child_pid = 0
  MaxBackground,   \* max_background_processes (5 in shell.h)
  MaxStages,       \* bound on the stages of a pipeline
  Interrupts,      \* BOOLEAN: may SIGINT be delivered to the shell?
  ExternalStops    \* BOOLEAN: may someone else than bgstop stop a child?

ASSUME PidsAssumption == NoPid \notin Pids /\ IsFiniteSet(Pids)
ASSUME BoundsAssumption == MaxBackground \in Nat /\ MaxStages \in Nat \ {0}
ASSUME EnvironmentAssumption == Interrupts \in BOOLEAN /\ ExternalStops \in BOOLEAN

VARIABLES
  proc,                  \* the process table, as the kernel sees it
  news,                  \* stop/continue report not yet collected by waitpid
  chldPending,           \* a SIGCHLD is pending for the shell
  sigchld_received,      \* the handler's flag
  fg_child_pid,          \* whom sigint_handler forwards to
  background_processes,  \* the keys of CoreState::background_processes
  pc, after,             \* where the shell is, and where reaping returns to
  kind, pids, i,         \* the wait in progress: its caller, its pids, its index
  status                 \* what the last waitpid left in `status`

kernelVars == <<proc, news, chldPending>>
waitVars   == <<kind, pids, i, status>>
vars == <<proc, news, chldPending, sigchld_received, fg_child_pid,
          background_processes, pc, after, kind, pids, i, status>>

Child(p) == proc[p] \in {"running", "stopped", "zombie"}
Live(p)  == proc[p] \in {"running", "stopped"}
Children == {p \in Pids : Child(p)}
Reportable(p) == proc[p] = "zombie" \/ news[p] # "none"

TypeOK ==
  /\ proc \in [Pids -> {"free", "running", "stopped", "zombie", "foreign"}]
  /\ news \in [Pids -> {"none", "stopped", "continued"}]
  /\ chldPending \in BOOLEAN
  /\ sigchld_received \in BOOLEAN
  /\ fg_child_pid \in Pids \cup {NoPid}
  /\ background_processes \in SUBSET Pids
  /\ pc \in {"reap_test", "reap_drain", "prompt", "dispatch", "forked",
             "drain", "wait", "waited", "exited"}
  /\ after \in {"prompt", "dispatch"}
  /\ kind \in {"fg", "cmd", "pipe"}
  /\ pids \in Seq(Pids)
  /\ i \in 0 .. Len(pids)
  /\ status \in {"own", "stopped", "uninit"}

Init ==
  /\ proc = [p \in Pids |-> "free"]
  /\ news = [p \in Pids |-> "none"]
  /\ chldPending = FALSE
  /\ sigchld_received = FALSE
  /\ fg_child_pid = NoPid
  /\ background_processes = {}
  /\ pc = "reap_test" /\ after = "prompt"
  /\ kind = "cmd" /\ pids = <<>> /\ i = 0 /\ status = "own"

-----------------------------------------------------------------------------
(* The kernel's side of a child.  A stop, a continue or an exit leaves one  *)
(* report for waitpid (the newest wins, an exit wins over all) and raises   *)
(* SIGCHLD, which is one bit however many children raise it.                *)

Becomes(p, s, n) ==
  /\ proc' = [proc EXCEPT ![p] = s]
  /\ news' = [news EXCEPT ![p] = n]
  /\ chldPending' = TRUE

Terminates(p) == Live(p) /\ Becomes(p, "zombie", "none")
Stops(p)      == proc[p] = "running" /\ Becomes(p, "stopped", "stopped")
Continues(p)  == proc[p] = "stopped" /\ Becomes(p, "running", "continued")

ChildExits(p) ==
  /\ Terminates(p)
  /\ UNCHANGED <<sigchld_received, fg_child_pid, background_processes, pc, after, waitVars>>

ChildStoppedOrContinued(p) ==
  /\ ExternalStops
  /\ Stops(p) \/ Continues(p)
  /\ UNCHANGED <<sigchld_received, fg_child_pid, background_processes, pc, after, waitVars>>

\* A reaped pid may be handed to a process of somebody else, which ends some day.
PidRecycled(p) ==
  /\ \/ proc[p] = "free"    /\ proc' = [proc EXCEPT ![p] = "foreign"]
     \/ proc[p] = "foreign" /\ proc' = [proc EXCEPT ![p] = "free"]
  /\ UNCHANGED <<news, chldPending, sigchld_received, fg_child_pid,
                 background_processes, pc, after, waitVars>>

\* Variant: a handler that reaps, racing the wait loops for their children.
SigchldHandlerReaps ==
  /\ chldPending /\ pc # "exited"
  /\ chldPending' = FALSE
  /\ proc' = [p \in Pids |-> IF proc[p] = "zombie" THEN "free" ELSE proc[p]]
  /\ background_processes' = {p \in background_processes : proc[p] # "zombie"}
  /\ UNCHANGED <<news, sigchld_received, fg_child_pid, pc, after, waitVars>>

\* sigchld_handler.  SA_RESTART: it interrupts no system call.
SigchldHandler ==
  /\ chldPending /\ pc # "exited"
  /\ chldPending' = FALSE
  /\ sigchld_received' = TRUE
  /\ UNCHANGED <<proc, news, fg_child_pid, background_processes, pc, after, waitVars>>

-----------------------------------------------------------------------------
(* Waiting for foreground children.                                        *)

\* A waitpid of the wait loop returned and left s in `status`; go on to the
\* next pid of the loop or out of it.  Only the last stage's status is kept.
WaitpidReturned(s) ==
  /\ status' = IF i = Len(pids) THEN s ELSE status
  /\ IF i < Len(pids) THEN i' = i + 1 /\ pc' = "wait"
                      ELSE i' = i /\ pc' = "waited"
  /\ UNCHANGED <<kind, pids>>

\* waitpid(pids[i], &status, 0) was interrupted: it returns -1, `status` keeps
\* whatever was on the stack, and nobody calls it again.
WaitpidInterrupted == pc = "wait" /\ WaitpidReturned("uninit")

\* read() on the stderr pipe was interrupted: the loop ends and closes the pipe.
DrainInterrupted == pc = "drain" /\ pc' = "wait" /\ UNCHANGED waitVars

\* sigint_handler, installed without SA_RESTART.  It forwards the signal to the
\* foreground child, which may die of it or catch it; the system call the shell
\* was blocked in, if any, fails with EINTR.
SigintHandler ==
  /\ Interrupts /\ pc # "exited"
  /\ \/ fg_child_pid # NoPid /\ proc[fg_child_pid] = "running" /\ Terminates(fg_child_pid)
     \/ UNCHANGED kernelVars
  /\ \/ DrainInterrupted
     \/ WaitpidInterrupted
     \/ UNCHANGED <<pc, waitVars>>
  /\ UNCHANGED <<sigchld_received, fg_child_pid, background_processes, after>>

\* foreground_process: parent side of the fork, fg_child_pid.store(pid).
StoreFgChild ==
  /\ pc = "forked"
  /\ fg_child_pid' = pids[1]
  /\ pc' = "drain"
  /\ UNCHANGED <<kernelVars, sigchld_received, background_processes, after, waitVars>>

\* The captured stderr reached end of file: the child ended.
DrainEof ==
  /\ pc = "drain" /\ ~Live(pids[i])
  /\ pc' = "wait"
  /\ UNCHANGED <<kernelVars, sigchld_received, fg_child_pid, background_processes, after, waitVars>>

\* ... or the child closed or redirected its stderr, or wrote 4096 bytes to it.
DrainEarly ==
  /\ pc = "drain" /\ Live(pids[i])
  /\ pc' = "wait"
  /\ UNCHANGED <<kernelVars, sigchld_received, fg_child_pid, background_processes, after, waitVars>>

\* waitpid(pids[i]) collects the child: fg and foreground_process pass
\* WUNTRACED, the pipeline and the subshell do not.
WaitpidCollects ==
  /\ pc = "wait"
  /\ LET p == pids[i] IN
     \/ /\ proc[p] = "zombie"
        /\ proc' = [proc EXCEPT ![p] = "free"]
        /\ UNCHANGED news
        /\ WaitpidReturned("own")
     \/ /\ proc[p] = "stopped" /\ news[p] = "stopped" /\ kind # "pipe"
        /\ news' = [news EXCEPT ![p] = "none"]
        /\ UNCHANGED proc
        /\ WaitpidReturned("stopped")
  /\ UNCHANGED <<chldPending, sigchld_received, fg_child_pid, background_processes, after>>

\* Variant: fg_child_pid keeps the pid of the child just collected.
WaitDoneKeepsFgChild ==
  /\ pc = "waited"
  /\ background_processes' =
       IF kind = "fg" THEN background_processes \ {pids[1]} ELSE background_processes
  /\ pids' = <<>> /\ i' = 0
  /\ pc' = "dispatch"
  /\ UNCHANGED <<kernelVars, sigchld_received, fg_child_pid, after, kind, status>>

\* Back from the wait: fg_child_pid.store(0); fg also drops the job, whatever
\* waitpid said.
WaitDone ==
  /\ pc = "waited"
  /\ fg_child_pid' = NoPid
  /\ background_processes' =
       IF kind = "fg" THEN background_processes \ {pids[1]} ELSE background_processes
  /\ pids' = <<>> /\ i' = 0
  /\ pc' = "dispatch"
  /\ UNCHANGED <<kernelVars, sigchld_received, after, kind, status>>

-----------------------------------------------------------------------------
(* The reaper: reap_background_processes and check_background_process_     *)
(* finished.  The flag is cleared before the drain, so a child that ends    *)
(* during the drain sets it again.                                          *)

ReapTest ==
  /\ pc = "reap_test"
  /\ sigchld_received' = FALSE
  /\ pc' = IF sigchld_received THEN "reap_drain" ELSE after
  /\ UNCHANGED <<kernelVars, fg_child_pid, background_processes, after, waitVars>>

\* Variant: the job stays in the map after its exit was collected.
CollectReportKeepsJob(p) ==
  /\ Reportable(p)
  /\ news' = [news EXCEPT ![p] = "none"]
  /\ proc' = IF proc[p] = "zombie" THEN [proc EXCEPT ![p] = "free"] ELSE proc
  /\ UNCHANGED <<background_processes, chldPending, sigchld_received, fg_child_pid, after, waitVars>>

\* Variant: any report removes the job, a stop's too.
CollectReportDropsStopped(p) ==
  /\ Reportable(p)
  /\ news' = [news EXCEPT ![p] = "none"]
  /\ proc' = IF proc[p] = "zombie" THEN [proc EXCEPT ![p] = "free"] ELSE proc
  /\ background_processes' = background_processes \ {p}
  /\ UNCHANGED <<chldPending, sigchld_received, fg_child_pid, after, waitVars>>

\* Collecting p's report: an exit removes the job, a stop or continue is only
\* printed.
CollectReport(p) ==
  /\ Reportable(p)
  /\ news' = [news EXCEPT ![p] = "none"]
  /\ IF proc[p] = "zombie"
     THEN /\ proc' = [proc EXCEPT ![p] = "free"]
          /\ background_processes' = background_processes \ {p}
     ELSE UNCHANGED <<proc, background_processes>>
  /\ UNCHANGED <<chldPending, sigchld_received, fg_child_pid, after, waitVars>>

\* Variant: one pid per SIGCHLD, as the code did before it learnt that SIGCHLD
\* coalesces.
ReapOnePerSignal ==
  /\ pc = "reap_drain"
  /\ \E p \in Pids : CollectReport(p)
  /\ pc' = "reap_test"

\* One waitpid(-1, WNOHANG | WCONTINUED | WUNTRACED) that finds a report ...
ReapOne ==
  /\ pc = "reap_drain"
  /\ \E p \in Pids : CollectReport(p)
  /\ UNCHANGED pc

\* ... and the one that finds none: back to the test of the flag.
ReapNone ==
  /\ pc = "reap_drain" /\ ~\E p \in Pids : Reportable(p)
  /\ pc' = "reap_test"
  /\ UNCHANGED <<kernelVars, sigchld_received, fg_child_pid, background_processes, after, waitVars>>

-----------------------------------------------------------------------------
(* The read-eval loop around the commands.                                  *)

\* A command line: reap, then execute it.
ReadLine ==
  /\ pc = "prompt"
  /\ pc' = "reap_test" /\ after' = "dispatch"
  /\ UNCHANGED <<kernelVars, sigchld_received, fg_child_pid, background_processes, waitVars>>

\* An empty line, an @ai line, a failed `!` event, a first Ctrl-D: back to the
\* top of the loop, which reaps and prompts again.
ReadNothing ==
  /\ pc = "prompt"
  /\ pc' = "reap_test" /\ after' = "prompt"
  /\ UNCHANGED <<kernelVars, sigchld_received, fg_child_pid, background_processes, waitVars>>

\* The line is done.  The reap after it runs straight into the one at the top
\* of the loop: the two are one.
LineDone ==
  /\ pc = "dispatch"
  /\ pc' = "reap_test" /\ after' = "prompt"
  /\ UNCHANGED <<kernelVars, sigchld_received, fg_child_pid, background_processes, waitVars>>

\* `exit`, the second Ctrl-D in a row, or a fork that failed
\* (exit_with_message).
ShellExits ==
  /\ pc \in {"prompt", "dispatch"}
  /\ pc' = "exited"
  /\ UNCHANGED <<kernelVars, sigchld_received, fg_child_pid, background_processes, after, waitVars>>

-----------------------------------------------------------------------------
(* The commands.                                                            *)

\* The parent's fork of the processes of ps.
Forks(ps) ==
  /\ proc' = [p \in Pids |-> IF \E k \in DOMAIN ps : ps[k] = p THEN "running" ELSE proc[p]]
  /\ UNCHANGED <<news, chldPending>>

\* background_process: refused at the cap, otherwise forked and recorded.
Background ==
  /\ pc = "dispatch"
  /\ Cardinality(background_processes) < MaxBackground
  /\ \E p \in Pids :
       /\ proc[p] = "free"
       /\ Forks(<<p>>)
       /\ background_processes' = background_processes \cup {p}
  /\ UNCHANGED <<sigchld_received, fg_child_pid, pc, after, waitVars>>

\* bgkill, bgstop and bgstart n: n counts an unordered_map, so it may name any
\* job.
BgKill ==
  /\ pc = "dispatch"
  /\ \E p \in background_processes : Terminates(p)
  /\ UNCHANGED <<sigchld_received, fg_child_pid, background_processes, pc, after, waitVars>>

BgStop ==
  /\ pc = "dispatch"
  /\ \E p \in background_processes : Stops(p)
  /\ UNCHANGED <<sigchld_received, fg_child_pid, background_processes, pc, after, waitVars>>

BgStart ==
  /\ pc = "dispatch"
  /\ \E p \in background_processes : Continues(p)
  /\ UNCHANGED <<sigchld_received, fg_child_pid, background_processes, pc, after, waitVars>>

\* builtin_fg: continue the job (the largest pid, or any with an argument),
\* publish it to the SIGINT handler and wait for it.
Fg ==
  /\ pc = "dispatch"
  /\ \E p \in background_processes :
       /\ IF proc[p] = "stopped" THEN Continues(p) ELSE UNCHANGED kernelVars
       /\ fg_child_pid' = p
       /\ pids' = <<p>>
  /\ kind' = "fg" /\ i' = 1 /\ pc' = "wait"
  /\ UNCHANGED <<sigchld_received, background_processes, after, status>>

\* foreground_process up to the fork.
Foreground ==
  /\ pc = "dispatch"
  /\ \E p \in Pids :
       /\ proc[p] = "free"
       /\ Forks(<<p>>)
       /\ pids' = <<p>>
  /\ kind' = "cmd" /\ i' = 1 /\ pc' = "forked"
  /\ UNCHANGED <<sigchld_received, fg_child_pid, background_processes, after, status>>

\* execute_pipeline up to its wait loop; a subshell is the one-stage case.
Stages == UNION {[1 .. n -> Pids] : n \in 1 .. MaxStages}

Pipeline ==
  /\ pc = "dispatch"
  /\ \E ps \in Stages :
       /\ \A k \in DOMAIN ps : proc[ps[k]] = "free"
       /\ \A k, m \in DOMAIN ps : ps[k] = ps[m] => k = m
       /\ Forks(ps)
       /\ pids' = ps
  /\ kind' = "pipe" /\ i' = 1 /\ pc' = "wait"
  /\ UNCHANGED <<sigchld_received, fg_child_pid, background_processes, after, status>>

-----------------------------------------------------------------------------
Reap    == ReapTest \/ ReapOne \/ ReapNone
Waiting == StoreFgChild \/ DrainEof \/ DrainEarly \/ WaitpidCollects \/ WaitDone
Loop    == ReadLine \/ ReadNothing \/ LineDone \/ ShellExits
Command == Background \/ BgKill \/ BgStop \/ BgStart \/ Fg \/ Foreground \/ Pipeline
Environment ==
  \/ \E p \in Pids : ChildExits(p) \/ ChildStoppedOrContinued(p) \/ PidRecycled(p)
  \/ SigchldHandler
  \/ SigintHandler

Next == Reap \/ Waiting \/ Loop \/ Command \/ Environment

Spec == Init /\ [][Next]_vars

\* A pending signal is delivered and the reaper, once entered, keeps running.
\* Nothing is assumed of the user or of the children.
FairSpec == Spec /\ WF_vars(Reap) /\ WF_vars(SigchldHandler)

-----------------------------------------------------------------------------
(* Safety.                                                                  *)

\* The pid fg has just waited for, still in the map until the erase that
\* follows: the only one there that may already be reaped.
BeingForgotten == IF pc = "waited" /\ kind = "fg" THEN {pids[1]} ELSE {}

\* Every pid in the job map is an unreaped child of the shell, so bgkill,
\* bgstop, bgstart and fg never signal a recycled pid.
JobsAreChildren == background_processes \ BeingForgotten \subseteq Children

\* The map never outgrows max_background_processes.
JobCap == Cardinality(background_processes) <= MaxBackground

\* The pids a wait loop has yet to collect are unreaped children that the
\* reaper and the map do not own: no waitpid of the loop can fail with ECHILD,
\* whichever child ends first.
WaitedAreOurs ==
  pc \in {"forked", "drain", "wait"} =>
    \A k \in i .. Len(pids) :
      /\ Child(pids[k])
      /\ kind # "fg" => pids[k] \notin background_processes

\* SIGINT is forwarded to a child, or to nobody, except between the waitpid
\* that collects the child and the store(0) that follows it.
SigintGoesToChild == (fg_child_pid # NoPid /\ pc # "waited") => Child(fg_child_pid)

\* What the wait reports is an exit or a stop of the child it waited for.
StatusIsTheChilds == pc = "waited" => status # "uninit"

(* Steps and liveness.                                                      *)

\* A job that has ended is forgotten as long as the shell keeps coming back to
\* its reap points, however its SIGCHLD was coalesced with others.
FinishedJobsForgotten ==
  []<>(pc = "reap_test") =>
    \A p \in Pids : (p \in background_processes /\ proc[p] = "zombie")
                      ~> (p \notin background_processes)

=============================================================================
