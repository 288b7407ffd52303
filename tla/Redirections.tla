---------------------------- MODULE Redirections ----------------------------
(***************************************************************************)
(* Redirections of a builtin.  A builtin runs in the shell itself, so      *)
(* BuiltinRedir (executor.cpp) replaces the shell's own descriptors 0 to 2 *)
(* and puts them back; source runs further builtins in between.  An        *)
(* external command gets the same redirections in its child, from          *)
(* setup_child_io (process.cpp), which has nothing to put back.            *)
(***************************************************************************)
EXTENDS Integers, Sequences, FiniteSetsExt, SequencesExt

CONSTANTS
  MaxFds,     \* the limit on open descriptors (RLIMIT_NOFILE)
  Redirs,     \* redirections in use: [fd, to], to a file or "stdout" for 2>&1
  MaxRedirs,  \* bound on the redirections of a command
  MaxDepth    \* bound on the nesting of source

ASSUME LimitAssumption == MaxFds \in Nat /\ MaxFds >= 3
ASSUME BoundsAssumption == MaxRedirs \in Nat /\ MaxDepth \in Nat \ {0}
ASSUME RedirsAssumption ==
  \A r \in Redirs : r.fd \in 0 .. 2 /\ r.to \in STRING \ {"closed"} /\ (r.to = "stdout" => r.fd = 2)

Fds == 0 .. MaxFds - 1
Std == 0 .. 2
Terminal == [d \in Fds |-> IF d \in Std THEN "terminal" ELSE "closed"]

VARIABLES
  fds,    \* the descriptor table: what each descriptor is open on, or "closed"
  stack   \* builtin calls in progress, innermost first
          \* [redirs, next, saved, phase, before, child]; saved is -1 where nothing
          \* is, before is the table at the call, and child the one that a child
          \* forked at the call has after the same redirections

vars == <<fds, stack>>

Objects == {"terminal", "closed"} \cup {r.to : r \in Redirs}
Calls == [redirs : BoundedSeq(Redirs, MaxRedirs), next : 1 .. MaxRedirs + 1,
          saved : [Std -> Fds \cup {-1}], phase : {"apply", "body", "restore"},
          before : [Fds -> Objects], child : [Fds -> Objects]]

TypeOK ==
  /\ fds \in [Fds -> Objects]
  /\ stack \in Seq(Calls) /\ Len(stack) <= MaxDepth

Init == fds = Terminal /\ stack = <<>>

-----------------------------------------------------------------------------
(* System calls on a table.                                                 *)

Free(t) == {d \in Fds : t[d] = "closed"}

\* dup2(d, e), which fails on a closed d; close(d).
Dup2(t, d, e) == IF t[d] = "closed" THEN t ELSE [t EXCEPT ![e] = t[d]]
Close(t, d)   == [t EXCEPT ![d] = "closed"]

-----------------------------------------------------------------------------
(* setup_child_io: the same redirection in a child.                         *)

ChildApply(t, r) ==
  IF r.to = "stdout" THEN Dup2(t, 1, 2)
  ELSE LET d == Min(Free(t))
           opened == [t EXCEPT ![d] = r.to]
       IN Close(Dup2(opened, d, r.fd), d)

-----------------------------------------------------------------------------
(* BuiltinRedir.                                                            *)

Top == stack[1]
SetTop(c) == stack' = <<c>> \o Tail(stack)

\* A builtin with redirections, at the prompt or in a sourced file.
Call ==
  /\ stack # <<>> => Len(stack) < MaxDepth /\ Top.phase = "body"
  /\ \E rs \in BoundedSeq(Redirs, MaxRedirs) :
       stack' = <<[redirs |-> rs, next |-> 1, saved |-> [d \in Std |-> -1],
                   phase |-> "apply", before |-> fds, child |-> fds]>> \o stack
  /\ UNCHANGED fds

Applies == stack # <<>> /\ Top.phase = "apply" /\ Top.next <= Len(Top.redirs)
Redir   == Top.redirs[Top.next]

\* Variant: whatever is there now is kept, each time.
SavesAgain(t, d, saved) ==
  IF t[d] = "closed" \/ Free(t) = {} THEN <<t, saved>>
  ELSE <<[t EXCEPT ![Min(Free(t))] = t[d]], [saved EXCEPT ![d] = Min(Free(t))]>>

\* dup(d) into the lowest free descriptor, kept in saved: the table after it and
\* what saved is then.  It is done once for a descriptor, and fails on a full table.
Saves(t, d, saved) ==
  IF saved[d] # -1 \/ t[d] = "closed" \/ Free(t) = {} THEN <<t, saved>>
  ELSE <<[t EXCEPT ![Min(Free(t))] = t[d]], [saved EXCEPT ![d] = Min(Free(t))]>>

\* A redirection more is made, and saved is what was kept for it.
Made(saved) ==
  SetTop([Top EXCEPT !.saved = saved, !.next = @ + 1, !.child = ChildApply(@, Redir)])

\* Variant: 2>&1 means the stdout of before the redirections.
ApplyDupOriginal ==
  /\ Applies /\ Redir.to = "stdout"
  /\ LET s == Saves(fds, 2, Top.saved) IN
       /\ fds' = Dup2(s[1], IF Top.saved[1] = -1 THEN 1 ELSE Top.saved[1], 2)
       /\ Made(s[2])

\* 2>&1.
ApplyDup ==
  /\ Applies /\ Redir.to = "stdout"
  /\ LET s == Saves(fds, 2, Top.saved) IN
       /\ fds' = Dup2(s[1], 1, 2)
       /\ Made(s[2])

\* The file is opened, the old descriptor saved, the new one put in its place
\* and its own number closed.
ApplyFile ==
  /\ Applies /\ Redir.to # "stdout" /\ Free(fds) # {}
  /\ LET d == Min(Free(fds))
         s == Saves([fds EXCEPT ![d] = Redir.to], Redir.fd, Top.saved)
     IN /\ fds' = Close(Dup2(s[1], d, Redir.fd), d)
        /\ Made(s[2])

\* The file cannot be opened: the builtin is not run.
ApplyFails ==
  /\ Applies /\ Redir.to # "stdout"
  /\ SetTop([Top EXCEPT !.phase = "restore"])
  /\ UNCHANGED fds

\* All are made: the builtin runs; and is done.
Run ==
  /\ stack # <<>> /\ Top.phase = "apply" /\ Top.next > Len(Top.redirs)
  /\ SetTop([Top EXCEPT !.phase = "body"])
  /\ UNCHANGED fds

BodyDone ==
  /\ stack # <<>> /\ Top.phase = "body"
  /\ SetTop([Top EXCEPT !.phase = "restore"])
  /\ UNCHANGED fds

PutBack(t, d, saved) == IF saved = -1 THEN t ELSE Close(Dup2(t, saved, d), saved)

Restored(t, saved) == PutBack(PutBack(PutBack(t, 0, saved[0]), 1, saved[1]), 2, saved[2])

\* restore().
Restore ==
  /\ stack # <<>> /\ Top.phase = "restore"
  /\ fds' = Restored(fds, Top.saved)
  /\ stack' = Tail(stack)

-----------------------------------------------------------------------------
Next == Call \/ ApplyDup \/ ApplyFile \/ ApplyFails \/ Run \/ BodyDone \/ Restore

Spec == Init /\ [][Next]_vars

-----------------------------------------------------------------------------
\* When a builtin returns, every descriptor is what it was when it was called:
\* 0 to 2 are back and none is left over, after a failure half way too.
RestoredOnReturn ==
  [][Len(stack') < Len(stack) => fds' = Top.before]_vars

\* A builtin sees what an external command with the same redirections would,
\* inside other redirections too.
SameAsChild ==
  (stack # <<>> /\ Top.phase = "body") =>
     \A d \in Std : fds[d] = Top.child[d]

=============================================================================
