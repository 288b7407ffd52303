-------------------------- MODULE JobControlProofs --------------------------
(***************************************************************************)
(* Theorems about JobControl for every set of pids, every cap and every    *)
(* environment.  The safety invariants are not inductive by themselves:    *)
(* that a reaped pid is in no map and in no wait loop rests on who may     *)
(* reap whom, which is where the shell is (pc) and what it waits for.      *)
(***************************************************************************)
EXTENDS JobControlImpl, FiniteSetTheorems, TLAPS

InWait == pc \in {"forked", "drain", "wait", "waited"}

\* A wait loop in progress has a current pid, and one only unless it is a
\* pipeline's; its pids are distinct.
WaitShape ==
  InWait =>
    /\ i \in 1 .. Len(pids)
    /\ kind # "pipe" => Len(pids) = 1
    /\ pc = "waited" => i = Len(pids)
    /\ pc \in {"forked", "drain"} => kind = "cmd"
    /\ \A k, m \in 1 .. Len(pids) : pids[k] = pids[m] => k = m

\* SIGINT is forwarded to the pid being waited for, and only during its wait.
FgChildIsWaitedFor ==
  fg_child_pid # NoPid =>
    /\ pc \in {"drain", "wait", "waited"}
    /\ kind # "pipe"
    /\ fg_child_pid = pids[1]

IInv == TypeOK /\ WaitShape /\ FgChildIsWaitedFor /\ WaitedAreOurs /\ JobsAreChildren

\* The initial state satisfies the inductive invariant.
LEMMA InitIInv == Init => IInv
<1> SUFFICES ASSUME Init PROVE IInv
  OBVIOUS
<1>1. TypeOK
  <2>1. pids \in Seq(Pids) /\ i \in 0 .. Len(pids)
    BY DEF Init
  <2> QED
    BY <2>1 DEF Init, TypeOK
<1>2. WaitShape /\ FgChildIsWaitedFor /\ WaitedAreOurs /\ JobsAreChildren
  BY DEF Init, WaitShape, InWait, FgChildIsWaitedFor, WaitedAreOurs, JobsAreChildren
<1> QED
  BY <1>1, <1>2 DEF IInv

\* Forking one process, or the stages of a pipeline, gives a waitable pid list.
LEMMA OnePid == ASSUME NEW p \in Pids
                PROVE  /\ <<p>> \in Seq(Pids) /\ Len(<<p>>) = 1 /\ <<p>>[1] = p
                       /\ 1 \in 0 .. Len(<<p>>)
  OBVIOUS

LEMMA StagesArePids == ASSUME NEW ps \in Stages
                       PROVE  /\ ps \in Seq(Pids) /\ Len(ps) \in Nat /\ Len(ps) >= 1
                              /\ DOMAIN ps = 1 .. Len(ps) /\ 1 \in 0 .. Len(ps)
<1>1. PICK n \in 1 .. MaxStages : ps \in [1 .. n -> Pids]
  BY DEF Stages
<1>2. n \in Nat /\ n >= 1
  BY <1>1, BoundsAssumption
<1>3. ps \in Seq(Pids) /\ Len(ps) = n
  BY <1>1, <1>2
<1> QED
  BY <1>1, <1>2, <1>3

\* Every step of the kernel, of a handler and of the shell keeps the types.
LEMMA NextTypeOK == IInv /\ [Next]_vars => TypeOK'
<1> SUFFICES ASSUME IInv, [Next]_vars PROVE TypeOK'
  OBVIOUS
<1> USE DEF IInv, TypeOK, kernelVars, waitVars
<1>1. CASE Reap
  BY <1>1 DEF Reap, ReapTest, ReapOne, ReapNone, CollectReport
<1>2. CASE Loop
  BY <1>2 DEF Loop, ReadLine, ReadNothing, LineDone, ShellExits
<1>3. CASE Waiting
  <2>1. CASE StoreFgChild
    BY <2>1 DEF StoreFgChild, WaitShape, InWait
  <2>2. CASE DrainEof \/ DrainEarly
    BY <2>2 DEF DrainEof, DrainEarly
  <2>3. CASE WaitpidCollects
    BY <2>3 DEF WaitpidCollects, WaitpidReturned, WaitShape, InWait
  <2>4. CASE WaitDone
    <3>1. pids' = <<>> /\ pids' \in Seq(Pids) /\ i' \in 0 .. Len(pids')
      BY <2>4 DEF WaitDone
    <3> QED
      BY <2>4, <3>1 DEF WaitDone
  <2> QED
    BY <1>3, <2>1, <2>2, <2>3, <2>4 DEF Waiting
<1>4. CASE Command
  <2>1. CASE Background
    BY <2>1 DEF Background, Forks
  <2>2. CASE BgKill \/ BgStop \/ BgStart
    BY <2>2 DEF BgKill, BgStop, BgStart, Terminates, Stops, Continues, Becomes
  <2>3. CASE Fg
    <3>1. PICK p \in background_processes :
            /\ IF proc[p] = "stopped" THEN Continues(p) ELSE UNCHANGED kernelVars
            /\ fg_child_pid' = p
            /\ pids' = <<p>>
      BY <2>3 DEF Fg
    <3>2. p \in Pids
      OBVIOUS
    <3>3. pids' \in Seq(Pids) /\ i' \in 0 .. Len(pids')
      BY <2>3, <3>1, <3>2, OnePid DEF Fg
    <3> QED
      BY <2>3, <3>1, <3>2, <3>3 DEF Fg, Continues, Becomes
  <2>4. CASE Foreground
    <3>1. PICK p \in Pids : Forks(<<p>>) /\ pids' = <<p>>
      BY <2>4 DEF Foreground
    <3>2. pids' \in Seq(Pids) /\ i' \in 0 .. Len(pids')
      BY <2>4, <3>1, OnePid DEF Foreground
    <3> QED
      BY <2>4, <3>1, <3>2 DEF Foreground, Forks
  <2>5. CASE Pipeline
    <3>1. PICK ps \in Stages : Forks(ps) /\ pids' = ps
      BY <2>5 DEF Pipeline
    <3>2. pids' \in Seq(Pids) /\ i' \in 0 .. Len(pids')
      BY <2>5, <3>1, StagesArePids DEF Pipeline
    <3> QED
      BY <2>5, <3>1, <3>2 DEF Pipeline, Forks
  <2> QED
    BY <1>4, <2>1, <2>2, <2>3, <2>4, <2>5 DEF Command
<1>5. CASE Environment
  <2>1. CASE \E p \in Pids : ChildExits(p) \/ ChildStoppedOrContinued(p) \/ PidRecycled(p)
    <3>1. ASSUME NEW p \in Pids, ChildExits(p) PROVE TypeOK'
      BY <3>1 DEF ChildExits, Terminates, Becomes
    <3>2. ASSUME NEW p \in Pids, ChildStoppedOrContinued(p) PROVE TypeOK'
      BY <3>2 DEF ChildStoppedOrContinued, Stops, Continues, Becomes
    <3>3. ASSUME NEW p \in Pids, PidRecycled(p) PROVE TypeOK'
      BY <3>3 DEF PidRecycled
    <3> QED
      BY <2>1, <3>1, <3>2, <3>3
  <2>2. CASE SigchldHandler
    BY <2>2 DEF SigchldHandler
  <2>3. CASE SigintHandler
    <3>1. proc' \in [Pids -> {"free", "running", "stopped", "zombie", "foreign"}]
          /\ news' \in [Pids -> {"none", "stopped", "continued"}] /\ chldPending' \in BOOLEAN
      BY <2>3 DEF SigintHandler, Terminates, Becomes
    <3>2. pids' = pids /\ kind' = kind /\ i' \in 0 .. Len(pids) /\ status' \in {"own", "stopped", "uninit"}
          /\ pc' \in {pc, "wait", "waited"}
      BY <2>3 DEF SigintHandler, DrainInterrupted, WaitpidInterrupted, WaitpidReturned, WaitShape, InWait
    <3> QED
      BY <2>3, <3>1, <3>2 DEF SigintHandler
  <2> QED
    BY <1>5, <2>1, <2>2, <2>3 DEF Environment
<1>6. CASE UNCHANGED vars
  BY <1>6 DEF vars
<1> QED
  BY <1>1, <1>2, <1>3, <1>4, <1>5, <1>6 DEF Next

\* The part of the invariant that says who is a child.
Owners == WaitShape /\ FgChildIsWaitedFor /\ WaitedAreOurs /\ JobsAreChildren

\* A step of the kernel that turns no child into a non-child keeps Owners.
LEMMA ChildFrame ==
  ASSUME IInv, \A p \in Pids : Child(p) => Child(p)',
         UNCHANGED <<fg_child_pid, background_processes, pc, waitVars>>
  PROVE  Owners'
<1>1. WaitShape' /\ FgChildIsWaitedFor'
  BY DEF IInv, WaitShape, InWait, FgChildIsWaitedFor, waitVars
<1>2. WaitedAreOurs'
  <2>1. \A k \in i .. Len(pids) : InWait => pids[k] \in Pids
    BY DEF IInv, TypeOK, WaitShape
  <2> QED
    BY <2>1 DEF IInv, WaitedAreOurs, waitVars, InWait
<1>3. JobsAreChildren'
  BY DEF IInv, TypeOK, JobsAreChildren, BeingForgotten, Children, waitVars
<1> QED
  BY <1>1, <1>2, <1>3 DEF Owners

\* The shell's own steps keep Owners, and so do the handlers.
LEMMA NextOwners == IInv /\ [Next]_vars => Owners'
<1> SUFFICES ASSUME IInv, [Next]_vars PROVE Owners'
  OBVIOUS
<1>t. TypeOK
  BY DEF IInv
<1>1. CASE Reap
  <2>1. fg_child_pid = NoPid /\ BeingForgotten = {} /\ pc \in {"reap_test", "reap_drain"}
    BY <1>1 DEF Reap, ReapTest, ReapOne, ReapNone, IInv, FgChildIsWaitedFor, BeingForgotten
  <2>2. pc' \notin {"forked", "drain", "wait", "waited"} /\ fg_child_pid' = NoPid
    BY <1>1, <1>t, <2>1 DEF Reap, ReapTest, ReapOne, ReapNone, CollectReport, TypeOK
  <2>3. background_processes' \subseteq Children'
    BY <1>1, <1>t, <2>1 DEF Reap, ReapTest, ReapOne, ReapNone, CollectReport, TypeOK, IInv,
       JobsAreChildren, Children, Child, kernelVars
  <2> QED
    BY <2>2, <2>3 DEF Owners, WaitShape, InWait, FgChildIsWaitedFor, WaitedAreOurs, JobsAreChildren
<1>2. CASE Loop
  <2>1. pc' \notin {"forked", "drain", "wait", "waited"} /\ fg_child_pid' = NoPid /\ BeingForgotten = {}
    BY <1>2, <1>t DEF Loop, ReadLine, ReadNothing, LineDone, ShellExits, IInv, FgChildIsWaitedFor,
       BeingForgotten
  <2>2. background_processes' \subseteq Children'
    BY <1>2, <2>1 DEF Loop, ReadLine, ReadNothing, LineDone, ShellExits, IInv, JobsAreChildren,
       Children, Child, kernelVars
  <2> QED
    BY <2>1, <2>2 DEF Owners, WaitShape, InWait, FgChildIsWaitedFor, WaitedAreOurs, JobsAreChildren
<1>3. CASE StoreFgChild
  BY <1>3, <1>t DEF StoreFgChild, Owners, IInv, TypeOK, WaitShape, InWait, FgChildIsWaitedFor, WaitedAreOurs,
     JobsAreChildren, BeingForgotten, Children, Child, kernelVars, waitVars
<1>4. CASE DrainEof \/ DrainEarly
  BY <1>4, <1>t DEF DrainEof, DrainEarly, Owners, IInv, TypeOK, WaitShape, InWait, FgChildIsWaitedFor,
     WaitedAreOurs, JobsAreChildren, BeingForgotten, Children, Child, kernelVars, waitVars
<1>5. CASE WaitDone
  BY <1>5, <1>t DEF WaitDone, Owners, IInv, TypeOK, WaitShape, InWait, FgChildIsWaitedFor,
     WaitedAreOurs, JobsAreChildren, BeingForgotten, Children, Child, kernelVars
<1>6. CASE WaitpidCollects
  BY <1>6, <1>t DEF WaitpidCollects, WaitpidReturned, Owners, IInv, TypeOK, WaitShape, InWait,
     FgChildIsWaitedFor, WaitedAreOurs, JobsAreChildren, BeingForgotten, Children, Child
<1>7. CASE Background
  BY <1>7, <1>t DEF Background, Forks, Owners, IInv, TypeOK, WaitShape, InWait, FgChildIsWaitedFor,
     WaitedAreOurs, JobsAreChildren, BeingForgotten, Children, Child, waitVars
<1>8. CASE BgKill \/ BgStop \/ BgStart
  BY <1>8, <1>t, ChildFrame DEF BgKill, BgStop, BgStart, Terminates, Stops, Continues, Becomes, TypeOK,
     Child, Live
<1>9. CASE Fg
  BY <1>9, <1>t, OnePid DEF Fg, Continues, Becomes, Owners, IInv, TypeOK, WaitShape, InWait,
     FgChildIsWaitedFor, WaitedAreOurs, JobsAreChildren, BeingForgotten, Children, Child, kernelVars
<1>10. CASE Foreground
  BY <1>10, <1>t, OnePid DEF Foreground, Forks, Owners, IInv, TypeOK, WaitShape, InWait,
     FgChildIsWaitedFor, WaitedAreOurs, JobsAreChildren, BeingForgotten, Children, Child
<1>11. CASE Pipeline
  BY <1>11, <1>t, StagesArePids DEF Pipeline, Forks, Owners, IInv, TypeOK, WaitShape, InWait,
     FgChildIsWaitedFor, WaitedAreOurs, JobsAreChildren, BeingForgotten, Children, Child
<1>12. CASE \E p \in Pids : ChildExits(p) \/ ChildStoppedOrContinued(p) \/ PidRecycled(p)
  BY <1>12, <1>t, ChildFrame DEF ChildExits, ChildStoppedOrContinued, PidRecycled, Terminates, Stops,
     Continues, Becomes, TypeOK, Child, Live
<1>13. CASE SigchldHandler
  BY <1>13, <1>t, ChildFrame DEF SigchldHandler, Child, TypeOK
<1>14. CASE SigintHandler
  <2>1. \A p \in Pids : Child(p) => Child(p)'
    BY <1>14, <1>t DEF SigintHandler, Terminates, Becomes, TypeOK, Child, kernelVars
  <2>2. UNCHANGED <<fg_child_pid, background_processes>>
    BY <1>14 DEF SigintHandler
  <2>3. CASE UNCHANGED <<pc, waitVars>>
    BY <2>1, <2>2, <2>3, ChildFrame
  <2>4. CASE DrainInterrupted
    <3>1. pc = "drain" /\ pc' = "wait" /\ UNCHANGED <<kind, pids, i>>
      BY <2>4 DEF DrainInterrupted, waitVars
    <3>2. WaitShape' /\ FgChildIsWaitedFor'
      BY <3>1, <2>2, <1>t DEF IInv, WaitShape, InWait, FgChildIsWaitedFor
    <3>3. WaitedAreOurs'
      <4>1. \A k \in i .. Len(pids) :
              pids[k] \in Pids /\ Child(pids[k]) /\ (kind # "fg" => pids[k] \notin background_processes)
        <5>1. i \in 1 .. Len(pids)
          BY <3>1 DEF IInv, WaitShape, InWait
        <5>2. \A k \in i .. Len(pids) : pids[k] \in Pids
          BY <5>1, <1>t DEF TypeOK
        <5> QED
          BY <5>2, <3>1 DEF IInv, WaitedAreOurs
      <4>2. \A k \in i' .. Len(pids') : Child(pids[k])' /\ (kind' # "fg" => pids'[k] \notin background_processes')
        BY <3>1, <4>1, <2>1, <2>2
      <4> QED
        BY <4>2 DEF WaitedAreOurs
    <3>4. JobsAreChildren'
      BY <3>1, <2>1, <2>2, <1>t DEF IInv, TypeOK, JobsAreChildren, BeingForgotten, Children
    <3> QED
      BY <3>2, <3>3, <3>4 DEF Owners
  <2>5. CASE WaitpidInterrupted
    <3>1. pc = "wait" /\ UNCHANGED <<kind, pids>>
          /\ (IF i < Len(pids) THEN i' = i + 1 /\ pc' = "wait" ELSE i' = i /\ pc' = "waited")
      BY <2>5 DEF WaitpidInterrupted, WaitpidReturned
    <3>2. WaitShape' /\ FgChildIsWaitedFor'
      BY <3>1, <2>2, <1>t DEF IInv, TypeOK, WaitShape, InWait, FgChildIsWaitedFor
    <3>3. WaitedAreOurs'
      BY <3>1, <2>1, <2>2, <1>t DEF IInv, TypeOK, WaitShape, InWait, WaitedAreOurs
    <3>4. JobsAreChildren'
      BY <3>1, <2>1, <2>2, <1>t DEF IInv, TypeOK, JobsAreChildren, BeingForgotten, Children
    <3> QED
      BY <3>2, <3>3, <3>4 DEF Owners
  <2> QED
    BY <1>14, <2>3, <2>4, <2>5 DEF SigintHandler
<1>15. CASE UNCHANGED vars
  BY <1>15, ChildFrame DEF vars, waitVars, Child
<1> QED
  BY <1>1, <1>2, <1>3, <1>4, <1>5, <1>6, <1>7, <1>8, <1>9, <1>10, <1>11, <1>12, <1>13, <1>14, <1>15
  DEF Next, Waiting, Command, Environment

\* Every reachable state satisfies the inductive invariant.
THEOREM Invariance == Spec => []IInv
<1>1. IInv /\ [Next]_vars => IInv'
  BY NextTypeOK, NextOwners DEF IInv, Owners
<1> QED
  BY <1>1, InitIInv, PTL DEF Spec

\* The state always has its types.
THEOREM TypeCorrect == Spec => []TypeOK
  BY Invariance, PTL DEF IInv

\* No job the map lists has been reaped: bgkill, bgstop, bgstart and fg act on
\* a process that is still the shell's child.
THEOREM JobsStayChildren == Spec => []JobsAreChildren
  BY Invariance, PTL DEF IInv

\* No wait loop ever loses one of its pids to the reaper or to another wait.
THEOREM WaitsStayOurs == Spec => []WaitedAreOurs
  BY Invariance, PTL DEF IInv

\* Ctrl-C reaches a child of the shell, except in the instants between a
\* waitpid and the store that follows it.
THEOREM SigintTarget == Spec => []SigintGoesToChild
<1>1. IInv => SigintGoesToChild
  BY DEF IInv, TypeOK, FgChildIsWaitedFor, WaitShape, InWait, WaitedAreOurs, SigintGoesToChild
<1> QED
  BY <1>1, Invariance, PTL

\* background_process is the only step that grows the map, and it checks first.
THEOREM CapHolds == Spec => []JobCap
<1>1. Init => JobCap
  BY FS_EmptySet, BoundsAssumption DEF Init, JobCap
<1>2. IInv /\ JobCap /\ [Next]_vars => JobCap'
  <2> SUFFICES ASSUME IInv, JobCap, [Next]_vars PROVE JobCap'
    OBVIOUS
  <2>1. IsFiniteSet(background_processes) /\ Cardinality(background_processes) \in Nat
    BY PidsAssumption, FS_Subset, FS_CardinalityType DEF IInv, TypeOK
  <2>2. CASE background_processes' \subseteq background_processes
    <3>1. Cardinality(background_processes') <= Cardinality(background_processes)
      BY <2>1, <2>2, FS_Subset
    <3>2. Cardinality(background_processes') \in Nat
      BY <2>1, <2>2, FS_Subset, FS_CardinalityType
    <3> QED
      BY <2>1, <3>1, <3>2, BoundsAssumption DEF JobCap
  <2>3. CASE Background
    <3>1. PICK p \in Pids : background_processes' = background_processes \cup {p}
      BY <2>3 DEF Background
    <3>2. Cardinality(background_processes') <= Cardinality(background_processes) + 1
      <4>1. Cardinality(background_processes \cup {p}) \in
              {Cardinality(background_processes), Cardinality(background_processes) + 1}
        BY <2>1, FS_AddElement
      <4> QED
        BY <2>1, <3>1, <4>1
    <3>3. Cardinality(background_processes') \in Nat
      BY <2>1, <3>1, FS_AddElement, FS_CardinalityType
    <3> QED
      BY <2>1, <2>3, <3>2, <3>3, BoundsAssumption DEF JobCap, Background
  <2>4. Background \/ background_processes' \subseteq background_processes
    BY DEF Next, Reap, ReapTest, ReapOne, ReapNone, CollectReport, Waiting, StoreFgChild, DrainEof,
       DrainEarly, WaitpidCollects, WaitDone, Loop, ReadLine, ReadNothing, LineDone, ShellExits, Command,
       BgKill, BgStop, BgStart, Fg, Foreground, Pipeline, Environment, ChildExits,
       ChildStoppedOrContinued, PidRecycled, SigchldHandler, SigintHandler, vars
  <2> QED
    BY <2>2, <2>3, <2>4
<1> QED
  BY <1>1, <1>2, Invariance, PTL DEF Spec

-----------------------------------------------------------------------------
(* The refinement.  Without SIGINT and without stops from outside, fg       *)
(* returns only when its job has ended: the job it waits for is running or  *)
(* a zombie, and once the wait is over it is gone.                          *)

Ended == {p \in background_processes : ~Live(p)}

FgWaitsForEnd ==
  /\ (pc = "wait" /\ kind = "fg") => proc[pids[1]] \in {"running", "zombie"}
  /\ (pc = "waited" /\ kind = "fg") => ~Live(pids[1])
  /\ (pc \in {"wait", "waited"} /\ kind = "fg") => pids[1] \in background_processes

Quiet == ~Interrupts /\ ~ExternalStops

\* In the quiet environment fg never comes back from a job that is still alive.
LEMMA QuietFg == ASSUME Quiet PROVE Spec => []FgWaitsForEnd
<1>1. Init => FgWaitsForEnd
  BY DEF Init, FgWaitsForEnd
<1>2. IInv /\ FgWaitsForEnd /\ [Next]_vars => FgWaitsForEnd'
  <2> SUFFICES ASSUME IInv, FgWaitsForEnd, [Next]_vars PROVE FgWaitsForEnd'
    OBVIOUS
  <2>t. TypeOK
    BY DEF IInv
  <2>1. CASE Reap
    BY <2>1, <2>t DEF Reap, ReapTest, ReapOne, ReapNone, CollectReport, FgWaitsForEnd, TypeOK
  <2>2. CASE Loop
    BY <2>2 DEF Loop, ReadLine, ReadNothing, LineDone, ShellExits, FgWaitsForEnd
  <2>3. CASE StoreFgChild \/ DrainEof \/ DrainEarly
    BY <2>3 DEF StoreFgChild, DrainEof, DrainEarly, FgWaitsForEnd, waitVars, kernelVars, IInv,
       WaitShape, InWait, WaitedAreOurs, JobsAreChildren, BeingForgotten
  <2>4. CASE WaitDone
    BY <2>4 DEF WaitDone, FgWaitsForEnd
  <2>5. CASE WaitpidCollects
    BY <2>5, <2>t DEF WaitpidCollects, WaitpidReturned, FgWaitsForEnd, IInv, WaitShape, InWait, TypeOK, Live
  <2>6. CASE Background \/ BgKill \/ BgStop \/ BgStart
    BY <2>6 DEF Background, BgKill, BgStop, BgStart, FgWaitsForEnd
  <2>7. CASE Fg
    <3>1. PICK p \in background_processes :
            /\ IF proc[p] = "stopped" THEN Continues(p) ELSE UNCHANGED kernelVars
            /\ fg_child_pid' = p
            /\ pids' = <<p>>
      BY <2>7 DEF Fg
    <3>2. Child(p) /\ p \in Pids
      BY <2>7, <2>t DEF Fg, IInv, JobsAreChildren, BeingForgotten, Children, TypeOK
    <3>3. proc'[p] \in {"running", "zombie"}
      BY <3>1, <3>2, <2>t DEF Continues, Becomes, Child, TypeOK, kernelVars
    <3>4. pids'[1] = p /\ background_processes' = background_processes /\ pc' = "wait"
      BY <3>1, <3>2, <2>7, OnePid DEF Fg
    <3> QED
      BY <3>2, <3>3, <3>4 DEF FgWaitsForEnd
  <2>8. CASE Foreground \/ Pipeline
    BY <2>8 DEF Foreground, Pipeline, FgWaitsForEnd
  <2>9. CASE \E p \in Pids : ChildExits(p)
    BY <2>9, <2>t DEF ChildExits, Terminates, Becomes, FgWaitsForEnd, waitVars, TypeOK, Live
  <2>10. CASE \E p \in Pids : ChildStoppedOrContinued(p)
    BY <2>10 DEF ChildStoppedOrContinued, Quiet
  <2>11. CASE \E p \in Pids : PidRecycled(p)
    BY <2>11, <2>t DEF PidRecycled, FgWaitsForEnd, waitVars, TypeOK, Live
  <2>12. CASE SigchldHandler \/ UNCHANGED vars
    BY <2>12 DEF SigchldHandler, vars, waitVars, FgWaitsForEnd, Live
  <2>13. CASE SigintHandler
    BY <2>13 DEF SigintHandler, Quiet
  <2> QED
    BY <2>1, <2>2, <2>3, <2>4, <2>5, <2>6, <2>7, <2>8, <2>9, <2>10, <2>11, <2>12, <2>13
    DEF Next, Waiting, Command, Environment
<1> QED
  BY <1>1, <1>2, Invariance, PTL DEF Spec

\* In the quiet environment the shell's job control implements JobTable: a job
\* is listed from its start until it has ended and been collected.
THEOREM Refinement == ASSUME Quiet PROVE Spec => ImplementsJobTable
<1>1. Init => Table!Init
  BY DEF Init, Table!Init
<1>2. IInv /\ FgWaitsForEnd /\ [Next]_vars => [Table!Next]_<<background_processes, Ended>>
  <2> SUFFICES ASSUME IInv, FgWaitsForEnd, [Next]_vars
               PROVE  Table!Next \/ UNCHANGED <<background_processes, Ended>>
    BY DEF Ended
  <2>t. TypeOK
    BY DEF IInv
  <2>s. ASSUME background_processes' = background_processes,
               \A p \in background_processes : Live(p)' <=> Live(p)
        PROVE  UNCHANGED <<background_processes, Ended>>
    BY <2>s DEF Ended
  <2>e. ASSUME NEW p \in Pids, Terminates(p), background_processes' = background_processes
        PROVE  Table!Next \/ UNCHANGED <<background_processes, Ended>>
    <3>1. Ended' = IF p \in background_processes THEN Ended \cup {p} ELSE Ended
      BY <2>e, <2>t DEF Terminates, Becomes, Ended, Live, TypeOK
    <3>2. p \notin Ended
      BY <2>e DEF Terminates, Ended
    <3> QED
      BY <3>1, <3>2, <2>e DEF Table!Next, Table!End, Ended
  <2>f. ASSUME NEW p \in Ended, background_processes' = background_processes \ {p},
               \A q \in background_processes \ {p} : Live(q)' <=> Live(q)
        PROVE  Table!Next
    <3>1. Ended' = Ended \ {p} /\ p \in Pids
      BY <2>f, <2>t DEF Ended, TypeOK
    <3> QED
      BY <3>1, <2>f DEF Table!Next, Table!Forget, Ended
  <2>1. CASE ReapTest \/ ReapNone \/ Loop
    BY <2>1, <2>s DEF ReapTest, ReapNone, Loop, ReadLine, ReadNothing, LineDone, ShellExits, kernelVars, Live
  <2>2. CASE ReapOne
    <3>1. PICK p \in Pids : CollectReport(p)
      BY <2>2 DEF ReapOne
    <3>2. CASE proc[p] = "zombie" /\ p \in background_processes
      BY <3>1, <3>2, <2>f, <2>t DEF CollectReport, Ended, Live, TypeOK
    <3>3. CASE proc[p] = "zombie" /\ p \notin background_processes
      <4>1. background_processes' = background_processes
        BY <3>1, <3>3 DEF CollectReport
      <4>2. \A q \in background_processes : proc'[q] = proc[q]
        BY <3>1, <3>3, <2>t DEF CollectReport, TypeOK
      <4> QED
        BY <4>1, <4>2, <2>s DEF Live
    <3>4. CASE proc[p] # "zombie"
      BY <3>1, <3>4, <2>s DEF CollectReport, Live
    <3> QED
      BY <3>2, <3>3, <3>4
  <2>3. CASE StoreFgChild \/ DrainEof \/ DrainEarly
    BY <2>3, <2>s DEF StoreFgChild, DrainEof, DrainEarly, kernelVars, Live
  <2>4. CASE WaitpidCollects
    BY <2>4, <2>s, <2>t DEF WaitpidCollects, Live, TypeOK, IInv, WaitShape, InWait
  <2>5. CASE WaitDone
    <3>1. UNCHANGED proc
      BY <2>5 DEF WaitDone, kernelVars
    <3>2. CASE kind = "fg"
      <4>1. pids[1] \in Ended
        BY <2>5, <3>2 DEF WaitDone, FgWaitsForEnd, Ended
      <4> QED
        BY <2>5, <3>1, <3>2, <4>1, <2>f DEF WaitDone, Live
    <3>3. CASE kind # "fg"
      BY <2>5, <3>1, <3>3, <2>s DEF WaitDone, Live
    <3> QED
      BY <3>2, <3>3
  <2>6. CASE Background
    <3>1. PICK p \in Pids : /\ proc[p] = "free" /\ Forks(<<p>>)
                            /\ background_processes' = background_processes \cup {p}
      BY <2>6 DEF Background
    <3>2. p \notin background_processes
      BY <3>1, <2>6 DEF Background, IInv, JobsAreChildren, BeingForgotten, Children, Child
    <3>3. Live(p)' /\ \A q \in background_processes : Live(q)' <=> Live(q)
      BY <3>1, <3>2, <2>t DEF Forks, Live, TypeOK
    <3>4. Ended' = Ended
      BY <3>1, <3>3 DEF Ended
    <3>5. Cardinality(background_processes) < MaxBackground
      BY <2>6 DEF Background
    <3>6. Table!Start(p)
      <4>1. Table!Cardinality(background_processes) = Cardinality(background_processes)
        BY DEF Table!Cardinality, Cardinality
      <4> QED
        BY ONLY <3>1, <3>2, <3>4, <3>5, <4>1 DEF Table!Start, Ended
    <3> QED
      BY <3>6 DEF Table!Next
  <2>7. CASE BgKill
    BY <2>7, <2>e, <2>t DEF BgKill, TypeOK
  <2>8. CASE BgStop \/ BgStart
    BY <2>8, <2>s, <2>t DEF BgStop, BgStart, Stops, Continues, Becomes, Live, TypeOK
  <2>9. CASE Fg
    BY <2>9, <2>s, <2>t DEF Fg, Continues, Becomes, kernelVars, Live, TypeOK
  <2>10. CASE Foreground \/ Pipeline
    <3>1. \A p \in background_processes : proc'[p] = proc[p] \/ proc[p] = "free"
      <4>1. CASE Foreground
        <5>1. PICK p \in Pids : proc[p] = "free" /\ Forks(<<p>>)
          BY <4>1 DEF Foreground
        <5>2. \A k \in DOMAIN <<p>> : <<p>>[k] = p
          OBVIOUS
        <5> QED
          BY <5>1, <5>2, <2>t DEF Forks, TypeOK
      <4>2. CASE Pipeline
        BY <4>2, <2>t DEF Pipeline, Forks, TypeOK
      <4> QED
        BY <2>10, <4>1, <4>2
    <3>2. \A p \in background_processes : proc[p] # "free"
      BY <2>10 DEF Foreground, Pipeline, IInv, JobsAreChildren, BeingForgotten, Children, Child
    <3> QED
      BY <3>1, <3>2, <2>10, <2>s DEF Foreground, Pipeline, Live
  <2>11. CASE \E p \in Pids : ChildExits(p)
    BY <2>11, <2>e DEF ChildExits
  <2>12. CASE \E p \in Pids : ChildStoppedOrContinued(p)
    BY <2>12 DEF ChildStoppedOrContinued, Quiet
  <2>13. CASE SigintHandler
    BY <2>13 DEF SigintHandler, Quiet
  <2>14. CASE \E p \in Pids : PidRecycled(p)
    BY <2>14, <2>s, <2>t DEF PidRecycled, Live, TypeOK
  <2>15. CASE SigchldHandler \/ UNCHANGED vars
    BY <2>15, <2>s DEF SigchldHandler, vars, Live
  <2> QED
    BY <2>1, <2>2, <2>3, <2>4, <2>5, <2>6, <2>7, <2>8, <2>9, <2>10, <2>11, <2>12, <2>13, <2>14, <2>15
    DEF Next, Reap, Waiting, Command, Environment
<1>3. Spec => [][Table!Next]_<<background_processes, Ended>>
  BY <1>2, Invariance, QuietFg, PTL DEF Spec
<1> QED
  BY <1>1, <1>3, PTL DEF Spec, ImplementsJobTable, Table!Spec, Ended
=============================================================================
