------------------------------ MODULE Executor ------------------------------
(***************************************************************************)
(* How tash executes a command line (executor.cpp): the segments of        *)
(* execute_command_line, execute_single_command with its before hooks,     *)
(* alias expansion, substitutions and dispatch, the commands captured with *)
(* hooks, the after hooks (safety_hook_provider.cpp,                       *)
(* ai_error_hook_provider.cpp), history recording, `source`, and the       *)
(* children that fork off to execute a body of their own (process.cpp).    *)
(*                                                                         *)
(* These functions call each other: a hook may execute a command, a trap   *)
(* or a script executes lines.  A process carries the stack of its calls,  *)
(* innermost first.  A command is known by its first word, and by a number *)
(* that tells one execution from another.                                  *)
(***************************************************************************)
EXTENDS Integers, Sequences, FiniteSets

CONSTANTS
  AliasNames,   \* the words that `alias` may define
  AliasValues,  \* the words they may stand for
  Fixes,        \* the commands an AI answer may propose as a fix
  Bodies,       \* the forking words used: some of "(sub)", "(sub)|", "source|"
  MaxCmds,      \* bound on the commands executed
  MaxSegs       \* bound on the segments of a line

\* What a command begins with: an external command, one of them risky; the same
\* with a substitution `$(...)` behind it; a builtin; a name nothing provides; a
\* subshell; a structured pipe.  Later: what stands for a word that is only known
\* once the command has been expanded and parsed, a variable, a substitution, a
\* name in quotes, and `make | word`, whose further stage is looked up by itself.
Plain    == {"make", "rm"}
Names    == Plain \cup {"cd", "source", "exit", "word"}
Substs   == {"make$", "rm$"}
Risky    == {"rm", "rm$"}
Forking  == {"(sub)", "(sub)|", "source|"}
Later    == {"$x", "$(x)", "'word'", "|word"}
Words    == Names \cup Substs \cup Bodies \cup Later \cup {"|>"}

\* The first word of what is executed.
HeadOf(w) == CASE w = "make$" -> "make" [] w = "rm$" -> "rm" [] OTHER -> w

\* An alias is a simple command, and does not hide an external one.
ASSUME AliasAssumption == AliasNames \subseteq Names \ Plain /\ AliasValues \subseteq Names \cup Substs
ASSUME WordsAssumption == Fixes \subseteq Words /\ Bodies \subseteq Forking
ASSUME BoundsAssumption == MaxCmds \in Nat /\ MaxSegs \in Nat

Processes == {"shell", "child"}
Statuses  == {0, 1, 2, 127}
NoWord    == ""

VARIABLES
  alive,    \* per process
  stack,    \* per process: the calls it is in
  status,   \* per process: core.last_exit_status
  err,      \* per process: whose text ai.last_stderr_output holds; 0: empty
  skip,     \* per process: exec.skip_execution
  inSub,    \* per process: exec.in_subshell
  aliases,  \* core.aliases; the child's copy does not change
  cmds,     \* commands executed so far
  db        \* history: who wrote to the history database

vars == <<alive, stack, status, err, skip, inSub, aliases, cmds, db>>

\* A call: k is the function and how far it has come, n the segments left, id
\* the command's number, s the local last_exit, w the word that is executed,
\* seen the word the hooks were shown, v the safety hook's veto.
Call(k, n, id, w) == [k |-> k, n |-> n, id |-> id, s |-> 0, w |-> w, seen |-> NoWord, v |-> FALSE]
Line(n) == Call("line", n, 0, NoWord)

Top(p)  == Head(stack[p])
Runs(p) == alive[p] /\ stack[p] # <<>> /\ (p = "shell" => ~alive["child"])
At(p, k) == Runs(p) /\ Top(p).k = k

\* The innermost call is replaced by the calls of fs.
Becomes(p, fs) == stack' = [stack EXCEPT ![p] = fs \o Tail(@)]

TypeOK ==
  /\ alive \in [Processes -> BOOLEAN]
  /\ stack \in [Processes ->
       Seq([k : {"line", "call", "ran", "hooked", "recorded", "start", "check", "run",
                 "capture", "captured", "wait", "zero", "fix"},
            n : Nat, id : Nat, s : Statuses,
            w : Words \cup {NoWord}, seen : Words \cup {NoWord}, v : BOOLEAN])]
  /\ status \in [Processes -> Statuses]
  /\ err \in [Processes -> Nat]
  /\ skip \in [Processes -> BOOLEAN]
  /\ inSub \in [Processes -> BOOLEAN]
  /\ aliases \in [AliasNames -> AliasValues \cup {NoWord}]
  /\ cmds \in Nat
  /\ db \subseteq Processes

Init ==
  /\ alive = [p \in Processes |-> p = "shell"]
  /\ stack = [p \in Processes |-> <<>>]
  /\ status = [p \in Processes |-> 0]
  /\ err = [p \in Processes |-> 0]
  /\ skip = [p \in Processes |-> FALSE]
  /\ inSub = [p \in Processes |-> FALSE]
  /\ aliases = [a \in AliasNames |-> NoWord]
  /\ cmds = 0 /\ db = {}

-----------------------------------------------------------------------------
(* execute_command_line.                                                    *)

\* The read loop executes a line.
ReadLine ==
  /\ alive["shell"] /\ ~alive["child"] /\ stack["shell"] = <<>>
  /\ \E n \in 1 .. MaxSegs : stack' = [stack EXCEPT !["shell"] = <<Line(n)>>]
  /\ UNCHANGED <<alive, status, err, skip, inSub, aliases, cmds, db>>

\* The operator before the segment against the line's own last_exit.
ShouldRun(op, last) == op \in {"first", ";"} \/ (op = "&&" /\ last = 0) \/ (op = "||" /\ last # 0)

\* The child does not fork in its turn: one level is enough.
ExecutesSegment(p) ==
  /\ At(p, "line") /\ Top(p).n > 0 /\ cmds < MaxCmds
  /\ \E op \in {"first", ";", "&&", "||"} : ShouldRun(op, Top(p).s)
  /\ cmds' = cmds + 1
  /\ \E w \in Words :
       /\ p = "child" => w \notin Forking
       /\ Becomes(p, <<Call("start", 0, cmds', w),
                       [Top(p) EXCEPT !.k = "call", !.n = @ - 1, !.id = cmds']>>)
  /\ UNCHANGED <<alive, status, err, skip, inSub, aliases, db>>

SkipsSegment(p) ==
  /\ At(p, "line") /\ Top(p).n > 0
  /\ \E op \in {"&&", "||"} : ~ShouldRun(op, Top(p).s)
  /\ Becomes(p, <<[Top(p) EXCEPT !.n = @ - 1]>>)
  /\ UNCHANGED <<alive, status, err, skip, inSub, aliases, cmds, db>>

LineDone(p) ==
  /\ At(p, "line") /\ Top(p).n = 0
  /\ Becomes(p, <<>>)
  /\ UNCHANGED <<alive, status, err, skip, inSub, aliases, cmds, db>>

\* The command returned s to its caller: a line, or the AI hook, which drops it.
Caller(p) == stack[p][2]
Returns(p, s) ==
  stack' = [stack EXCEPT ![p] =
    IF Caller(p).k = "call" THEN <<[Caller(p) EXCEPT !.k = "ran", !.s = s]>> \o Tail(Tail(@))
                            ELSE Tail(Tail(@))]

\* should_trigger of the AI hook; its rate limits, the request, the answer and
\* the user's key decide whether a fix is executed.
ShouldTrigger(s, text) == s \notin {0, 127} /\ text # 0

\* Variant: last_exit_status is left to whoever executed something last.
AfterHooksOnly(p) ==
  /\ At(p, "ran")
  /\ Becomes(p, <<[Top(p) EXCEPT !.k = "hooked"]>>)
  /\ UNCHANGED <<alive, status, err, skip, inSub, aliases, cmds, db>>

\* last_exit_status is set and the after hooks are fired.
AfterHooks(p) ==
  /\ At(p, "ran")
  /\ status' = [status EXCEPT ![p] = Top(p).s]
  /\ \/ Becomes(p, <<[Top(p) EXCEPT !.k = "hooked"]>>) /\ UNCHANGED cmds
     \/ /\ ShouldTrigger(Top(p).s, err[p]) /\ cmds < MaxCmds
        /\ cmds' = cmds + 1
        /\ \E w \in Fixes :
             Becomes(p, <<Call("start", 0, cmds', w), Call("fix", 0, 0, NoWord),
                          [Top(p) EXCEPT !.k = "hooked"]>>)
  /\ UNCHANGED <<alive, err, skip, inSub, aliases, db>>

\* The history providers record the segment, except in a subshell.
Records(p) ==
  /\ At(p, "hooked")
  /\ db' = IF inSub[p] THEN db ELSE db \cup {p}
  /\ Becomes(p, <<[Top(p) EXCEPT !.k = "recorded"]>>)
  /\ UNCHANGED <<alive, status, err, skip, inSub, aliases, cmds>>

\* check_and_fire_traps: a pending trap executes a line of its own.
ChecksTraps(p) ==
  /\ At(p, "recorded")
  /\ \E before \in {<<>>, <<Line(1)>>} :
       Becomes(p, before \o <<[Top(p) EXCEPT !.k = "line"]>>)
  /\ UNCHANGED <<alive, status, err, skip, inSub, aliases, cmds, db>>

-----------------------------------------------------------------------------
(* execute_single_command.                                                  *)

AliasOf(w) == IF w \in AliasNames /\ aliases[w] # NoWord THEN aliases[w] ELSE w

\* The before hooks.  The safety hook resets the flag and raises it for a risky
\* command unless the user confirms.
Vetoes(w) == IF w \in Risky THEN BOOLEAN ELSE {FALSE}

\* A leading backslash bypasses the hooks; otherwise they are shown the command
\* with its alias expanded.
Start(p) ==
  /\ At(p, "start")
  /\ \/ Becomes(p, <<[Top(p) EXCEPT !.k = "run"]>>) /\ UNCHANGED skip
     \/ \E w \in {AliasOf(Top(p).w)} : \E v \in Vetoes(w) :
          /\ skip' = [skip EXCEPT ![p] = v]
          /\ Becomes(p, <<[Top(p) EXCEPT !.k = "check", !.w = w, !.seen = w, !.v = v]>>)
  /\ UNCHANGED <<alive, status, err, inSub, aliases, cmds, db>>

\* Variant: the flag is tested only once substitutions have been expanded.
CheckAfterExpansion(p) ==
  /\ At(p, "check")
  /\ IF Top(p).w \in Substs /\ cmds < MaxCmds
     THEN /\ Becomes(p, <<Call("capture", 0, 0, "rm"),
                          [Top(p) EXCEPT !.w = HeadOf(@)]>>)
          /\ UNCHANGED <<skip, status>>
     ELSE IF skip[p]
          THEN /\ skip' = [skip EXCEPT ![p] = FALSE]
               /\ status' = [status EXCEPT ![p] = 1]
               /\ Returns(p, 1)
          ELSE Becomes(p, <<[Top(p) EXCEPT !.k = "run"]>>) /\ UNCHANGED <<skip, status>>
  /\ UNCHANGED <<alive, err, inSub, aliases, cmds, db>>

\* A veto: the flag is consumed and the command is not run.
Check(p) ==
  /\ At(p, "check")
  /\ IF skip[p]
     THEN /\ skip' = [skip EXCEPT ![p] = FALSE]
          /\ status' = [status EXCEPT ![p] = 1]
          /\ Returns(p, 1)
     ELSE Becomes(p, <<[Top(p) EXCEPT !.k = "run"]>>) /\ UNCHANGED <<skip, status>>
  /\ UNCHANGED <<alive, err, inSub, aliases, cmds, db>>

At2(p, ws) == At(p, "run") /\ Top(p).w \in ws

\* A command in which nothing is left to expand.
Expanded == Names \cup {"'word'", "|word"}

\* expand_variables puts the value of a variable into the text; what it holds is
\* parsed from here on, its substitutions, quotes and pipes too.  (What it may hold
\* but a body in parentheses, which the forking words stand for.)
Expands(p) ==
  /\ At2(p, {"$x"})
  /\ \E w \in Expanded \cup Substs \cup {"$(x)"} : Becomes(p, <<[Top(p) EXCEPT !.w = w]>>)
  /\ UNCHANGED <<alive, status, err, skip, inSub, aliases, cmds, db>>

\* expand_command_substitution: the inner command is captured, with hooks, and
\* the command goes on with what is left of it, or with what was printed.
Substitutes(p) ==
  /\ At2(p, Substs \cup {"$(x)"})
  /\ \E inner \in Plain, w \in IF Top(p).w \in Substs THEN {HeadOf(Top(p).w)} ELSE Expanded :
       Becomes(p, <<Call("capture", 0, 0, inner), [Top(p) EXCEPT !.w = w]>>)
  /\ UNCHANGED <<alive, status, err, skip, inSub, aliases, cmds, db>>

\* A structured pipe captures its first segment and returns 0.
StructuredPipe(p) ==
  /\ At2(p, {"|>"})
  /\ \E inner \in Plain : Becomes(p, <<Call("capture", 0, 0, inner), Call("zero", 0, 0, NoWord)>>)
  /\ UNCHANGED <<alive, status, err, skip, inSub, aliases, cmds, db>>

\* After the expansions argv[0] is looked up in the aliases (again): without its
\* quotes, and of a pipeline each stage's.  The first word of the alias is run.
LookedUp(w) == IF w \in {"'word'", "|word"} THEN "word" ELSE w
RunWord(p) == HeadOf(AliasOf(LookedUp(Top(p).w)))
Dispatches(p, ws) ==
  /\ At(p, "run") /\ Top(p).w \in Names \cup {"'word'"}
  /\ RunWord(p) \in ws

\* execute_pipeline: its stages run in children; ai.last_stderr_output is left
\* alone.  A stage that executes lines of its own is one of the Forking words.
Pipeline(p) ==
  /\ At2(p, {"|word"}) /\ RunWord(p) # "source"
  /\ \E s \in {0, 2, 127} : Returns(p, s)
  /\ UNCHANGED <<alive, status, err, skip, inSub, aliases, cmds, db>>

\* foreground_process: the captured stderr is cleared first.
External(p) ==
  /\ Dispatches(p, Plain)
  /\ \E s \in {0, 2}, text \in {0, Top(p).id} :
       err' = [err EXCEPT ![p] = text] /\ Returns(p, s)
  /\ UNCHANGED <<alive, status, skip, inSub, aliases, cmds, db>>

\* Nothing provides the word.
NotFound(p) ==
  /\ Dispatches(p, {"word"})
  /\ err' = [err EXCEPT ![p] = Top(p).id]
  /\ Returns(p, 127)
  /\ UNCHANGED <<alive, status, skip, inSub, aliases, cmds, db>>

\* What leaves ai.last_stderr_output alone: a builtin, `bg`, an automatic cd, an
\* empty or ill-formed command.  builtin_alias and builtin_unalias change the
\* table.
Builtin(p) ==
  /\ Dispatches(p, {"cd"})
  /\ \E s \in {0, 1} : Returns(p, s)
  /\ \/ UNCHANGED aliases
     \/ /\ p = "shell"
        /\ \E a \in AliasNames, w \in AliasValues \cup {NoWord} : aliases' = [aliases EXCEPT ![a] = w]
  /\ UNCHANGED <<alive, status, err, skip, inSub, cmds, db>>

\* builtin_source: each line of the file is executed, then 0.
Source(p) ==
  /\ Dispatches(p, {"source"})
  /\ Becomes(p, <<Line(1), Call("zero", 0, 0, NoWord)>>)
  /\ UNCHANGED <<alive, status, err, skip, inSub, aliases, cmds, db>>

Zero(p) ==
  /\ At(p, "zero")
  /\ Returns(p, 0)
  /\ UNCHANGED <<alive, status, err, skip, inSub, aliases, cmds, db>>

\* builtin_exit ends the process.
ExitBuiltin(p) ==
  /\ Dispatches(p, {"exit"})
  /\ alive' = [alive EXCEPT ![p] = FALSE]
  /\ stack' = [stack EXCEPT ![p] = <<>>]
  /\ UNCHANGED <<status, err, skip, inSub, aliases, cmds, db>>

-----------------------------------------------------------------------------
(* run_command_with_hooks_capture.                                          *)

Captures(p) ==
  /\ At(p, "capture")
  /\ \E v \in Vetoes(Top(p).w) :
       /\ skip' = [skip EXCEPT ![p] = v]
       /\ Becomes(p, <<[Top(p) EXCEPT !.k = "captured", !.v = v]>>)
  /\ UNCHANGED <<alive, status, err, inSub, aliases, cmds, db>>

\* Vetoed or run.  The after hooks are given no stderr, so the AI hook is not
\* triggered.
Captured(p) ==
  /\ At(p, "captured")
  /\ skip' = [skip EXCEPT ![p] = FALSE]
  /\ Becomes(p, <<>>)
  /\ UNCHANGED <<alive, status, err, inSub, aliases, cmds, db>>

-----------------------------------------------------------------------------
(* The children.                                                            *)

\* The child of a subshell, of a pipeline stage that is a subshell, or of one
\* that is the `source` builtin.  It has a copy of the state; the subshells
\* mark themselves.
Body(p) == IF Top(p).w = "|word" /\ RunWord(p) = "source" THEN "source|" ELSE Top(p).w

Forks(p) ==
  /\ At(p, "run") /\ Body(p) \in Forking
  /\ alive' = [alive EXCEPT !["child"] = TRUE]
  /\ stack' = [stack EXCEPT !["child"] = <<Line(1), Call("wait", 0, 0, NoWord)>>,
                            ![p][1].k = "wait"]
  /\ inSub' = [inSub EXCEPT !["child"] = inSub[p] \/ Body(p) # "source|"]
  /\ status' = [status EXCEPT !["child"] = status[p]]
  /\ err' = [err EXCEPT !["child"] = err[p]]
  /\ skip' = [skip EXCEPT !["child"] = skip[p]]
  /\ UNCHANGED <<aliases, cmds, db>>

\* The body is done.
ChildDone ==
  /\ At("child", "wait")
  /\ alive' = [alive EXCEPT !["child"] = FALSE]
  /\ stack' = [stack EXCEPT !["child"] = <<>>]
  /\ UNCHANGED <<status, err, skip, inSub, aliases, cmds, db>>

\* waitpid returns; JobControl says what else than the child's status it may be.
Reaped ==
  /\ At("shell", "wait")
  /\ \E s \in {0, 1, 2} : Returns("shell", s)
  /\ UNCHANGED <<alive, status, err, skip, inSub, aliases, cmds, db>>

-----------------------------------------------------------------------------
LineStep(p) ==
  ExecutesSegment(p) \/ SkipsSegment(p) \/ LineDone(p) \/ AfterHooks(p) \/ Records(p) \/ ChecksTraps(p)
CommandStep(p) ==
  \/ Start(p) \/ Check(p) \/ Expands(p) \/ Substitutes(p) \/ StructuredPipe(p) \/ Pipeline(p)
  \/ External(p) \/ NotFound(p) \/ Builtin(p) \/ Source(p) \/ Zero(p) \/ ExitBuiltin(p) \/ Captures(p) \/ Captured(p)

Next ==
  \/ ReadLine \/ Forks("shell") \/ ChildDone \/ Reaped
  \/ \E p \in Processes : LineStep(p) \/ CommandStep(p)

Spec == Init /\ [][Next]_vars

-----------------------------------------------------------------------------
\* A command the safety hook vetoed is not run, whatever its substitutions, the
\* fix that it is or the traps around it did to the one shared flag.
VetoedNeverRuns == \A p \in Processes : At(p, "run") => ~Top(p).v

\* The flag is consumed by the command it was raised for: it is down whenever
\* no before hook has just been fired, so it never skips another command.
SkipConsumed ==
  \A p \in Processes : (skip[p] /\ Runs(p)) => Top(p).k \in {"check", "captured"} /\ Top(p).v

\* When the hooks are through, `$?` is the status of the segment: a fix they
\* executed has not touched it, as long as it is one the safety hook lets pass and
\* executes no lines of its own (Fixes); a vetoed one does set it.
StatusIsTheSegments == \A p \in Processes : At(p, "hooked") => status[p] = Top(p).s

\* What is executed begins with the word the before hooks were shown, the one its
\* alias stands for and whatever its substitutions executed in between.  That does
\* not hold of the commands in Later: a variable, a substitution, a quoted name
\* and the further stages of a pipeline are resolved after the hooks, aliases
\* included (executor.cpp:376, 377, 392, 484); and an alias of an alias is.
HookSeesWhatRuns ==
  \A p \in Processes :
    (At(p, "run") /\ Top(p).seen \notin Later \cup {NoWord}) => RunWord(p) = HeadOf(Top(p).seen)

\* The hooks decide what runs: the one skip flag of the shell stops exactly the
\* command it was raised for, and a command whose first word is written out is run
\* as it was shown.
HooksDecide == VetoedNeverRuns /\ SkipConsumed /\ HookSeesWhatRuns

=============================================================================
