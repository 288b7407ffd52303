-------------------------- MODULE ChildOutputProofs --------------------------
(* That no output is lost, for pipes of any size, any limit and any number  *)
(* of writes.                                                               *)
EXTENDS ChildOutput, TLAPS

\* As long as the shell reads a stream, what was written was shown or is in the
\* pipe; when it has stopped, all was shown, or enough of stderr.
Balanced ==
  \A s \in Captured :
    IF reading[s] THEN shown[s] + pipe[s] = written[s]
    ELSE shown[s] = written[s] \/ (s = "err" /\ shown[s] >= Limit)

\* The drains come in their order, the wait after the last one.
InOrder ==
  /\ \A k \in 1 .. Len(Drains) : reading[Drains[k]] <=> k >= d
  /\ returned => d = Len(Drains) + 1

\* A write that has begun is one of those that are counted, and only captured
\* streams are.
Counted ==
  /\ want # "none" => written[want] < MaxWrites
  /\ \A s \in Streams \ Captured : holders[s] = {}

IInv == TypeOK /\ Balanced /\ InOrder /\ Counted

USE ModesAssumption, BoundsAssumption

\* The streams of a mode.
LEMMA DrainFacts ==
  /\ Len(Drains) \in {1, 2} /\ \A k \in 1 .. Len(Drains) : Drains[k] \in Streams
  /\ Captured = {Drains[k] : k \in 1 .. Len(Drains)} /\ Captured \subseteq Streams
  /\ \A j, k \in 1 .. Len(Drains) : Drains[j] = Drains[k] => j = k
<1>1. CASE mode = "foreground"
      BY <1>1 DEF Drains, Captured, Streams
<1>2. CASE mode = "linkify"
      BY <1>2 DEF Drains, Captured, Streams
<1>3. CASE mode \notin {"foreground", "linkify"}
      BY <1>3 DEF Drains, Captured, Streams
<1> QED
    BY <1>1, <1>2, <1>3

LEMMA InitIInv == Init => IInv
<1> SUFFICES ASSUME Init PROVE IInv
    OBVIOUS
<1>1. TypeOK
      <2>1. pipe \in [Streams -> 0 .. Cap] /\ written \in [Streams -> 0 .. MaxWrites] /\ shown \in [Streams -> 0 .. MaxWrites]
            BY DEF Init
      <2>2. holders \in [Streams -> SUBSET {"child", "heir"}] /\ reading \in [Streams -> BOOLEAN]
            BY DEF Init
      <2>3. d \in 1 .. Len(Drains) + 1
            BY DrainFacts DEF Init
      <2> QED
          BY <2>1, <2>2, <2>3 DEF Init, TypeOK
<1>2. Balanced
      BY DrainFacts DEF Init, Balanced
<1>3. InOrder
      BY DrainFacts DEF Init, InOrder
<1> QED
    BY <1>1, <1>2, <1>3 DEF IInv, Init, Counted

\* The streams of a command do not change.
LEMMA SameDrains == mode' = mode => Drains' = Drains /\ Captured' = Captured
  BY DEF Drains, Captured

LEMMA Typed ==
  ASSUME IInv
  PROVE  /\ pipe \in [Streams -> 0 .. Cap] /\ written \in [Streams -> 0 .. MaxWrites]
         /\ shown \in [Streams -> 0 .. MaxWrites] /\ reading \in [Streams -> BOOLEAN]
         /\ holders \in [Streams -> SUBSET {"child", "heir"}] /\ d \in Nat /\ d <= Len(Drains) + 1
         /\ want \in Captured \cup {"none"} /\ Balanced /\ InOrder /\ Counted
  BY DrainFacts DEF IInv, TypeOK

\* A step of the child that writes nothing.
LEMMA QuietKeeps ==
  ASSUME IInv, UNCHANGED <<mode, pipe, written, shown, reading, d, returned>>,
         child' \in {"run", "stopped", "exited", "killed"},
         want' \in Captured \cup {"none"}, want' # "none" => written[want'] < MaxWrites,
         holders' \in [Streams -> SUBSET {"child", "heir"}], \A s \in Streams \ Captured : holders'[s] = {}
  PROVE  IInv'
<1>1. Drains' = Drains /\ Captured' = Captured
      BY SameDrains
<1>2. TypeOK'
      BY <1>1 DEF IInv, TypeOK
<1>3. Balanced' /\ InOrder' /\ Counted'
      BY <1>1, Typed DEF Balanced, InOrder, Counted
<1> QED
    BY <1>2, <1>3 DEF IInv

LEMMA ChildKeepsIInv ==
  ASSUME IInv,
         \/ \E s \in Streams : Writes(s) \/ ClosesStream(s) \/ HeirEnds(s)
         \/ WriteReturns \/ LeavesHeir \/ Exits \/ StopsOrContinues
  PROVE  IInv'
<1>c. child \in {"run", "stopped", "exited", "killed"} /\ \A s \in Streams \ Captured : holders[s] = {}
      BY Typed DEF IInv, TypeOK, Counted
<1>1. ASSUME NEW s \in Streams, Writes(s) PROVE IInv'
      <2>1. s \in Captured
            BY <1>1, <1>c DEF Writes
      <2> QED
          BY <1>1, <1>c, <2>1, Typed, QuietKeeps DEF Writes
<1>2. ASSUME NEW s \in Streams, ClosesStream(s) \/ HeirEnds(s) PROVE IInv'
      <2>1. PICK who \in {"child", "heir"} : holders' = [holders EXCEPT ![s] = @ \ {who}]
            BY <1>2 DEF ClosesStream, HeirEnds
      <2>2. holders' \in [Streams -> SUBSET {"child", "heir"}] /\ \A t \in Streams \ Captured : holders'[t] = {}
            BY <1>c, <2>1, Typed
      <2> QED
          BY <1>2, <1>c, <2>2, Typed, QuietKeeps DEF ClosesStream, HeirEnds, Counted
<1>3. CASE WriteReturns
      <2>1. want \in Captured /\ want \in Streams /\ want # "none" /\ UNCHANGED <<mode, shown, reading, d, returned>>
            BY <1>3, Typed, DrainFacts DEF WriteReturns
      <2>2. CASE /\ reading[want] /\ pipe[want] < Cap
                 /\ pipe' = [pipe EXCEPT ![want] = @ + 1] /\ written' = [written EXCEPT ![want] = @ + 1]
                 /\ want' = "none" /\ UNCHANGED <<child, holders>>
            <3>1. Drains' = Drains /\ Captured' = Captured
                  BY <2>1, SameDrains
            <3>2. pipe' \in [Streams -> 0 .. Cap] /\ written' \in [Streams -> 0 .. MaxWrites]
                  BY <2>1, <2>2, Typed, SMTT(30) DEF Counted
            <3>3. TypeOK'
                  BY <2>1, <2>2, <3>1, <3>2 DEF IInv, TypeOK
            <3>4. Balanced'
                  <4>1. ASSUME NEW s \in Captured, s # want
                        PROVE  written'[s] = written[s] /\ pipe'[s] = pipe[s]
                        BY <2>2, <4>1, Typed, DrainFacts
                  <4>2. written'[want] = written[want] + 1 /\ pipe'[want] = pipe[want] + 1
                        BY <2>1, <2>2, Typed
                  <4>3. shown[want] + pipe[want] = written[want]
                        BY <2>1, <2>2, Typed DEF Balanced
                  <4>4. shown'[want] + pipe'[want] = written'[want]
                        BY <2>1, <4>2, <4>3, Typed
                  <4> QED
                      BY <2>1, <2>2, <3>1, <4>1, <4>4, Typed DEF Balanced
            <3>5. InOrder' /\ Counted'
                  BY <2>1, <2>2, <3>1, Typed DEF InOrder, Counted
            <3> QED
                BY <3>3, <3>4, <3>5 DEF IInv
      <2>3. CASE ~reading[want] /\ Ends("killed") /\ UNCHANGED <<pipe, written>>
            BY <1>c, <2>1, <2>3, Typed, QuietKeeps DEF Ends
      <2> QED
          BY <1>3, <2>2, <2>3 DEF WriteReturns
<1>4. CASE LeavesHeir
      <2>1. holders' \in [Streams -> SUBSET {"child", "heir"}] /\ \A t \in Streams \ Captured : holders'[t] = {}
            BY <1>4, <1>c, Typed DEF LeavesHeir
      <2> QED
          BY <1>4, <1>c, <2>1, Typed, QuietKeeps DEF LeavesHeir
<1>5. CASE Exits
      BY <1>5, <1>c, Typed, QuietKeeps DEF Exits, Ends
<1>6. CASE StopsOrContinues
      BY <1>6, <1>c, Typed, QuietKeeps DEF StopsOrContinues, Counted
<1> QED
    BY <1>1, <1>2, <1>3, <1>4, <1>5, <1>6

\* A step of the shell, or the end of a read.
LEMMA ShellKeepsIInv == ASSUME IInv, Shell \/ ReadInterrupted PROVE IInv'
<1>m. Drains' = Drains /\ Captured' = Captured
      BY SameDrains DEF Shell, ReadData, ReadEof, ReadInterrupted, Waits
<1>0. ASSUME InDrain
      PROVE  Stream \in Captured /\ Stream \in Streams /\ d \in 1 .. Len(Drains)
             /\ \A k \in 1 .. Len(Drains) : Drains[k] = Stream => k = d
      <2>1. d \in 1 .. Len(Drains)
            BY <1>0, DrainFacts DEF InDrain, IInv, TypeOK
      <2> QED
          BY <2>1, DrainFacts DEF Stream
\* The end of a drain.
<1>e. ASSUME InDrain, ClosesDrain, UNCHANGED <<mode, childVars, returned>>, shown' \in [Streams -> 0 .. MaxWrites],
             \A s \in Streams : s # Stream => shown'[s] = shown[s],
             shown'[Stream] = written[Stream] \/ (Stream = "err" /\ shown'[Stream] >= Limit)
      PROVE  IInv'
      <2>1. /\ reading' = [reading EXCEPT ![Stream] = FALSE] /\ pipe' = [pipe EXCEPT ![Stream] = 0] /\ d' = d + 1
            /\ ~returned
            BY <1>e DEF ClosesDrain, InDrain
      <2>2. /\ reading' \in [Streams -> BOOLEAN] /\ pipe' \in [Streams -> 0 .. Cap] /\ ~reading'[Stream]
            /\ \A s \in Streams : s # Stream => reading'[s] = reading[s] /\ pipe'[s] = pipe[s]
            BY <1>0, <1>e, <2>1, Typed
      <2>3. d' \in 1 .. Len(Drains) + 1
            BY <1>0, <1>e, <2>1, DrainFacts
      <2>4. TypeOK'
            BY <1>m, <1>e, <2>2, <2>3 DEF IInv, TypeOK, childVars
      <2>5. Balanced'
            BY <1>0, <1>m, <1>e, <2>2, Typed, DrainFacts, SMTT(30) DEF Balanced, childVars
      <2>6. InOrder'
            <3>1. ASSUME NEW k \in 1 .. Len(Drains) PROVE reading'[Drains[k]] <=> k >= d + 1
                  <4>1. CASE k = d
                        BY <1>0, <1>e, <2>2, <4>1 DEF Stream
                  <4>2. CASE k # d
                        <5>1. reading'[Drains[k]] = reading[Drains[k]]
                              BY <1>0, <1>e, <2>2, <4>2, DrainFacts
                        <5>2. reading[Drains[k]] <=> k >= d
                              BY Typed DEF InOrder
                        <5> QED
                            BY <1>0, <1>e, <4>2, <5>1, <5>2
                  <4> QED
                      BY <4>1, <4>2
            <3> QED
                BY <1>m, <1>e, <2>1, <3>1 DEF InOrder
      <2>7. Counted'
            BY <1>m, <1>e, Typed DEF Counted, childVars
      <2> QED
          BY <2>4, <2>5, <2>6, <2>7 DEF IInv
<1>1. CASE ReadData
      <2>1. /\ InDrain /\ pipe[Stream] > 0 /\ shown' = [shown EXCEPT ![Stream] = @ + 1]
            /\ UNCHANGED <<mode, childVars, returned>>
            BY <1>1 DEF ReadData
      <2>2. reading[Stream] /\ shown[Stream] + pipe[Stream] = written[Stream]
            <3>1. reading[Stream]
                  BY <1>0, <2>1, Typed DEF InOrder, Stream
            <3> QED
                BY <1>0, <2>1, <3>1, Typed DEF Balanced
      <2>3. /\ shown' \in [Streams -> 0 .. MaxWrites] /\ shown'[Stream] = shown[Stream] + 1
            /\ \A s \in Streams : s # Stream => shown'[s] = shown[s]
            BY <1>0, <2>1, <2>2, Typed
      <2>4. CASE ClosesDrain /\ ~Unlimited(Stream) /\ shown'[Stream] >= Limit
            BY <1>0, <1>e, <2>1, <2>3, <2>4 DEF Unlimited, Streams
      <2>5. CASE pipe' = [pipe EXCEPT ![Stream] = @ - 1] /\ UNCHANGED <<reading, d>>
            <3>1. /\ pipe' \in [Streams -> 0 .. Cap] /\ pipe'[Stream] = pipe[Stream] - 1
                  /\ \A s \in Streams : s # Stream => pipe'[s] = pipe[s]
                  BY <1>0, <2>1, <2>5, Typed
            <3>2. shown'[Stream] + pipe'[Stream] = written[Stream]
                  BY <1>0, <2>1, <2>2, <2>3, <3>1, Typed
            <3>3. Balanced'
                  <4>1. ASSUME NEW s \in Captured
                        PROVE  IF reading[s] THEN shown'[s] + pipe'[s] = written[s]
                               ELSE shown'[s] = written[s] \/ (s = "err" /\ shown'[s] >= Limit)
                        <5>1. CASE s = Stream
                              BY <2>2, <3>2, <5>1
                        <5>2. CASE s # Stream
                              BY <2>3, <3>1, <5>2, Typed, DrainFacts DEF Balanced
                        <5> QED
                            BY <5>1, <5>2
                  <4> QED
                      BY <1>m, <2>1, <2>5, <4>1 DEF Balanced, childVars
            <3>4. TypeOK' /\ InOrder' /\ Counted'
                  BY <1>m, <2>1, <2>3, <2>5, <3>1, Typed DEF IInv, TypeOK, InOrder, Counted, childVars
            <3> QED
                BY <3>3, <3>4 DEF IInv
      <2> QED
          BY <1>1, <2>4, <2>5 DEF ReadData
<1>2. CASE ReadEof \/ ReadInterrupted
      <2>1. InDrain /\ pipe[Stream] = 0 /\ ClosesDrain /\ UNCHANGED <<mode, childVars, shown, returned>>
            BY <1>2 DEF ReadEof, ReadInterrupted
      <2>2. shown[Stream] = written[Stream] \/ (Stream = "err" /\ shown[Stream] >= Limit)
            BY <1>0, <2>1, Typed DEF Balanced
      <2> QED
          BY <1>e, <2>1, <2>2, Typed
<1>3. CASE Waits
      <2>1. d = Len(Drains) + 1 /\ returned' = TRUE /\ UNCHANGED <<mode, childVars, pipe, shown, reading, d>>
            BY <1>3, Typed, DrainFacts DEF Waits
      <2> QED
          BY <1>m, <2>1, Typed DEF IInv, TypeOK, Balanced, InOrder, Counted, childVars
<1> QED
    BY <1>1, <1>2, <1>3 DEF Shell

LEMMA NextIInv == IInv /\ [Next]_vars => IInv'
<1> SUFFICES ASSUME IInv, [Next]_vars PROVE IInv'
    OBVIOUS
<1>1. CASE UNCHANGED vars
      BY <1>1, Typed, QuietKeeps DEF vars, IInv, TypeOK, Counted
<1> QED
    BY <1>1, ChildKeepsIInv, ShellKeepsIInv DEF Next

\* The account of every stream is kept, whatever the child does.
THEOREM Invariance == Spec => []IInv
<1>1. Init => IInv
      BY InitIInv
<1>2. IInv /\ [Next]_vars => IInv'
      BY NextIInv
<1> QED
    BY <1>1, <1>2, PTL DEF Spec

\* Every variable stays in its range: in particular no more is shown than may be
\* written, and there is no drain after the last one.
THEOREM TypeCorrect == Spec => []TypeOK
<1>1. IInv => TypeOK
      BY DEF IInv
<1> QED
    BY <1>1, Invariance, PTL

\* When waitpid has returned in foreground_process or in the capture, what the
\* command wrote to a captured stream has been shown: of stderr, up to the limit.
THEOREM NothingLost == Spec => []OutputIsComplete
<1>1. IInv => OutputIsComplete
      <2> SUFFICES ASSUME IInv, returned, NEW s \in Captured
                   PROVE  shown[s] = written[s] \/ (s = "err" /\ shown[s] >= Limit)
          BY DEF OutputIsComplete
      <2>1. PICK k \in 1 .. Len(Drains) : s = Drains[k]
            BY DrainFacts
      <2>2. ~reading[s]
            BY <2>1, Typed, DrainFacts DEF InOrder
      <2> QED
          BY <2>2, Typed DEF Balanced
<1> QED
    BY <1>1, Invariance, PTL
=============================================================================
