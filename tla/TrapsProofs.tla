----------------------------- MODULE TrapsProofs -----------------------------
(* The invariants of Traps, for every set of signals and every depth.       *)
EXTENDS Traps, FiniteSetTheorems, TLAPS

Frames == [k : {"line", "scan", "exit", "apply"}, n : Nat,
           what : {"user", "plain", "exit", "ignore", "none", ""}]

\* Only the innermost call can be a `trap` that is half done.
Calm(calls) == \A i \in 2 .. Len(calls) : calls[i].k # "apply"

\* It is about a signal, and the table has what it is about to install.
HalfDone(p) ==
  (stack[p] # <<>> /\ Top(p).k = "apply") => Top(p).n \in Sigs /\ Top(p).what = traps[p][Top(p).n]

\* A flag that is up stands for a delivery that has not been answered yet.
FlagIsOwed ==
  \A s \in Sigs : fired[s] + (IF pending["shell"][s] THEN 1 ELSE 0) <= caught[s]

Shape == \A p \in Processes : Calm(stack[p]) /\ HalfDone(p)
IInv == TypeOK /\ Shape /\ DispositionFollowsTable

USE SigsAssumption, ActionsAssumption, BoundsAssumption DEF EXIT

\* What Becomes makes of the calls a process is in.
LEMMA Replaced ==
  ASSUME NEW calls \in Seq(Frames), calls # <<>>, Calm(calls), NEW fs \in Seq(Frames), Calm(fs)
  PROVE  /\ fs \o Tail(calls) \in Seq(Frames)
         /\ Calm(fs \o Tail(calls))
         /\ fs # <<>> => fs \o Tail(calls) # <<>> /\ Head(fs \o Tail(calls)) = fs[1]
         /\ fs = <<>> /\ fs \o Tail(calls) # <<>> => Head(fs \o Tail(calls)).k # "apply"
<1> DEFINE rest == Tail(calls)
           new == fs \o rest
<1>1. /\ rest \in Seq(Frames) /\ Len(rest) = Len(calls) - 1
      /\ \A i \in 1 .. Len(rest) : rest[i] = calls[i + 1]
      OBVIOUS
<1>2. \A i \in 1 .. Len(rest) : rest[i].k # "apply"
      BY <1>1 DEF Calm
<1>3. /\ new \in Seq(Frames) /\ Len(new) = Len(fs) + Len(rest)
      /\ \A i \in 1 .. Len(fs) : new[i] = fs[i]
      /\ \A i \in Len(fs) + 1 .. Len(new) : new[i] = rest[i - Len(fs)]
      BY <1>1
<1> HIDE DEF new, rest
<1>4. ASSUME NEW i \in 2 .. Len(new) PROVE new[i].k # "apply"
      <2>1. CASE i <= Len(fs)
            BY <2>1, <1>3 DEF Calm
      <2>2. CASE i > Len(fs)
            <3>1. i \in Len(fs) + 1 .. Len(new) /\ i - Len(fs) \in 1 .. Len(rest)
                  BY <2>2, <1>1, <1>3
            <3> QED
                BY <3>1, <1>2, <1>3
      <2> QED
          BY <2>1, <2>2, <1>3
<1>5. Calm(new)
      BY <1>4 DEF Calm
<1>6. ASSUME fs # <<>> PROVE new # <<>> /\ Head(new) = fs[1]
      <2>1. Len(fs) > 0
            BY <1>6
      <2> QED
          BY <2>1, <1>1, <1>3
<1>7. ASSUME fs = <<>>, new # <<>> PROVE Head(new).k # "apply"
      <2>1. Len(fs) = 0 /\ Len(new) > 0 /\ Head(new) = new[1]
            BY <1>7, <1>3
      <2>2. 1 \in Len(fs) + 1 .. Len(new) /\ 1 - Len(fs) \in 1 .. Len(rest)
            BY <2>1, <1>1, <1>3
      <2> QED
          BY <2>1, <2>2, <1>2, <1>3
<1> QED
    BY <1>3, <1>5, <1>6, <1>7 DEF new, rest

LEMMA InitIInv == Init => IInv
<1> SUFFICES ASSUME Init PROVE IInv
    OBVIOUS
<1>1. TypeOK
      <2>1. disp \in [Processes -> [Sigs -> {"dfl", "ign", "trap", "sigint", "sigchld"}]]
            BY DEF Init
      <2>2. stack \in [Processes -> Seq(Frames)]
            BY DEF Init
      <2>3. /\ alive \in [Processes -> {"off", "run", "exited", "killed", "overflow"}]
            /\ pending \in [Processes -> [Sigs -> BOOLEAN]]
            BY DEF Init
      <2>4. traps \in [Processes -> [Sigs \cup {EXIT} -> {"none", "ignore"} \cup Actions]]
            BY DEF Init
      <2>5. ctrl_d_count \in Nat /\ sent \in 0 .. MaxSent /\ exitRuns \in Nat /\ onExit \in Nat
            BY DEF Init
      <2>6. caught \in [Sigs -> Nat] /\ fired \in [Sigs -> Nat]
            BY DEF Init
      <2>7. waiting \in BOOLEAN
            BY DEF Init
      <2> QED
          BY <2>1, <2>2, <2>3, <2>4, <2>5, <2>6, <2>7 DEF TypeOK, Frames
<1>2. Shape
      BY DEF Init, Shape, Calm, HalfDone, Processes
<1>3. DispositionFollowsTable
      BY DEF Init, DispositionFollowsTable, Follows, Agrees, Processes
<1> QED
    BY <1>1, <1>2, <1>3 DEF IInv

\* A step of p that replaces its innermost call by fs, in the shape of the calls.
LEMMA StepShape ==
  ASSUME IInv, NEW p \in Processes, stack[p] # <<>>, NEW fs \in Seq(Frames), Calm(fs), Becomes(p, fs),
         fs = <<>> \/ fs[1].k # "apply" \/ (fs[1].n \in Sigs /\ fs[1].what = traps'[p][fs[1].n]),
         \A q \in Processes : q = p \/ traps'[q] = traps[q]
  PROVE  /\ stack' \in [Processes -> Seq(Frames)]
         /\ Shape'
         /\ \A q \in Processes : q = p \/ stack'[q] = stack[q]
         /\ fs = <<>> /\ stack'[p] # <<>> => Head(stack'[p]).k # "apply"
         /\ fs # <<>> => stack'[p] # <<>> /\ Head(stack'[p]) = fs[1]
<1>1. stack \in [Processes -> Seq(Frames)] /\ \A q \in Processes : Calm(stack[q]) /\ HalfDone(q)
      BY DEF IInv, TypeOK, Shape, Frames
<1>2. stack'[p] = fs \o Tail(stack[p]) /\ \A q \in Processes : q = p \/ stack'[q] = stack[q]
      BY <1>1 DEF Becomes
<1>3. /\ stack'[p] \in Seq(Frames) /\ Calm(stack'[p])
      /\ fs # <<>> => stack'[p] # <<>> /\ Head(stack'[p]) = fs[1]
      /\ fs = <<>> /\ stack'[p] # <<>> => Head(stack'[p]).k # "apply"
      BY <1>1, <1>2, Replaced
<1>4. stack' \in [Processes -> Seq(Frames)]
      BY <1>1, <1>3 DEF Becomes
<1>5. HalfDone(p)'
      BY <1>3 DEF HalfDone, Top
<1>6. \A q \in Processes : q # p => HalfDone(q)'
      BY <1>1, <1>2 DEF HalfDone, Top
<1>7. Shape'
      BY <1>1, <1>2, <1>3, <1>5, <1>6 DEF Shape
<1> QED
    BY <1>2, <1>3, <1>4, <1>7

\* Calls that are put on the stack together.
LEMMA Short ==
  ASSUME NEW a \in Frames, NEW b \in Frames, NEW c \in Frames, b.k # "apply", c.k # "apply"
  PROVE  /\ <<a>> \in Seq(Frames) /\ Calm(<<a>>) /\ <<a>>[1] = a
         /\ <<a, b>> \in Seq(Frames) /\ Calm(<<a, b>>) /\ <<a, b>>[1] = a
         /\ <<a>> \o <<b, c>> \in Seq(Frames) /\ Calm(<<a>> \o <<b, c>>) /\ (<<a>> \o <<b, c>>)[1] = a
<1>1. Calm(<<a>>) /\ <<a>> \in Seq(Frames) /\ <<a>>[1] = a
      BY DEF Calm
<1>2. Calm(<<a, b>>) /\ <<a, b>> \in Seq(Frames) /\ <<a, b>>[1] = a
      BY DEF Calm
<1> DEFINE three == <<a>> \o <<b, c>>
<1>3. three \in Seq(Frames) /\ Len(three) = 3 /\ three[1] = a /\ three[2] = b /\ three[3] = c
      OBVIOUS
<1>4. Calm(three)
      BY <1>3 DEF Calm
<1> QED
    BY <1>1, <1>2, <1>3, <1>4

\* A step that leaves the table of signals and the dispositions alone, and is not the second
\* half of a `trap`.
LEMMA StepAgrees ==
  ASSUME IInv, NEW p \in Processes, stack[p] = <<>> \/ Top(p).k # "apply",
         disp' = disp, \A q \in Processes, t \in Sigs : traps'[q][t] = traps[q][t],
         \A q \in Processes : alive'[q] = "run" => alive[q] = "run",
         \A q \in Processes : q = p \/ stack'[q] = stack[q]
  PROVE  DispositionFollowsTable'
<1> SUFFICES ASSUME NEW q \in Processes, NEW s \in Sigs \ {INT, CHLD},
                    alive'[q] = "run", ~Applying(q, s)'
             PROVE  Follows(q, s)'
    BY DEF DispositionFollowsTable
<1>1. alive[q] = "run"
      OBVIOUS
<1>2. ~Applying(q, s)
      BY DEF Applying, Top
<1> QED
    BY <1>1, <1>2 DEF IInv, DispositionFollowsTable, Follows, Agrees

\* What an action that only replaces the innermost call keeps.
LEMMA CallKeeps ==
  ASSUME IInv, NEW p \in Processes, stack[p] # <<>>, Top(p).k # "apply",
         NEW fs \in Seq(Frames), Calm(fs), fs = <<>> \/ fs[1].k # "apply", Becomes(p, fs),
         UNCHANGED <<alive, traps, disp, waiting, ctrl_d_count, sent, caught>>,
         pending' \in [Processes -> [Sigs -> BOOLEAN]],
         fired' \in [Sigs -> Nat], exitRuns' \in Nat, onExit' \in Nat
  PROVE  IInv'
<1>1. stack' \in [Processes -> Seq(Frames)] /\ Shape' /\ \A q \in Processes : q = p \/ stack'[q] = stack[q]
      BY StepShape
<1>2. DispositionFollowsTable'
      BY <1>1, StepAgrees
<1>3. TypeOK'
      BY <1>1 DEF IInv, TypeOK, Frames
<1> QED
    BY <1>1, <1>2, <1>3 DEF IInv

\* The frames that the actions push.
LEMMA Pushed ==
  ASSUME IInv, NEW p \in Processes, stack[p] # <<>>
  PROVE  /\ Top(p) \in Frames
         /\ Top(p).k = "line" /\ Top(p).n > 0 =>
              /\ AfterSegment(p) \in Seq(Frames) /\ Calm(AfterSegment(p)) /\ AfterSegment(p)[1].k # "apply"
              /\ \A f \in Frames : <<f>> \o AfterSegment(p) \in Seq(Frames) /\ Calm(<<f>> \o AfterSegment(p))
                                   /\ (<<f>> \o AfterSegment(p))[1] = f
<1>1. Top(p) \in Frames
      <2>1. stack[p] \in Seq(Frames)
            BY DEF IInv, TypeOK, Frames
      <2> QED
          BY <2>1 DEF Top
<1> DEFINE scan == Frame("scan", 1, "")
           line == Frame("line", Top(p).n - 1, Top(p).what)
<1>2. scan \in Frames /\ scan.k # "apply"
      BY DEF Frame, Frames
<1>3. ASSUME Top(p).k = "line", Top(p).n > 0 PROVE line \in Frames /\ line.k # "apply"
      <2>1. Top(p).n - 1 \in Nat /\ Top(p).what \in {"user", "plain", "exit", "ignore", "none", ""}
            <3>1. Top(p).n \in Nat /\ Top(p).what \in {"user", "plain", "exit", "ignore", "none", ""}
                  BY <1>1 DEF Frames
            <3>2. ASSUME NEW n \in Nat, n > 0 PROVE n - 1 \in Nat
                  BY <3>2
            <3> QED
                BY <1>3, <3>1, <3>2
      <2>2. ASSUME NEW n \in Nat, NEW what \in {"user", "plain", "exit", "ignore", "none", ""}
            PROVE  Frame("line", n, what) \in Frames /\ Frame("line", n, what).k # "apply"
            BY DEF Frame, Frames
      <2> QED
          BY <2>1, <2>2
<1>4. AfterSegment(p) = <<scan, line>>
      BY DEF AfterSegment
<1>5. ASSUME Top(p).k = "line", Top(p).n > 0
      PROVE  AfterSegment(p) \in Seq(Frames) /\ Calm(AfterSegment(p)) /\ AfterSegment(p)[1].k # "apply"
      <2> HIDE DEF scan, line
      <2>1. scan \in Frames /\ line \in Frames /\ scan.k # "apply" /\ line.k # "apply"
            BY <1>2, <1>3, <1>5
      <2>2. <<scan, line>> \in Seq(Frames) /\ Calm(<<scan, line>>) /\ <<scan, line>>[1] = scan
            BY <2>1, Short, Zenon
      <2> QED
          BY <1>4, <2>1, <2>2, Zenon
<1>6. ASSUME Top(p).k = "line", Top(p).n > 0, NEW f \in Frames
      PROVE  /\ <<f>> \o AfterSegment(p) \in Seq(Frames) /\ Calm(<<f>> \o AfterSegment(p))
             /\ (<<f>> \o AfterSegment(p))[1] = f
      <2> HIDE DEF scan, line
      <2>1. scan \in Frames /\ line \in Frames /\ scan.k # "apply" /\ line.k # "apply"
            BY <1>2, <1>3, <1>6
      <2>2. /\ <<f>> \o <<scan, line>> \in Seq(Frames) /\ Calm(<<f>> \o <<scan, line>>)
            /\ (<<f>> \o <<scan, line>>)[1] = f
            BY <2>1, Short, ZenonT(60)
      <2> QED
          BY <1>4, <2>2, Zenon
<1> QED
    BY <1>1, <1>5, <1>6

\* A step of p through its calls.
LEMMA CallStep == ASSUME IInv, NEW p \in Processes, Executes(p) \/ Exiting(p) PROVE IInv'
<1>1. stack[p] # <<>> /\ Top(p) \in Frames
      BY Pushed DEF Executes, Exiting, Plain, LineDone, TrapBuiltin, Apply, Scan, ScanDone, Exit, FireExitTrap,
                    ExitProcess, InSegment, In
<1>2. /\ <<>> \in Seq(Frames) /\ Calm(<<>>)
      /\ \A a, b \in Frames : /\ <<a>> \in Seq(Frames) /\ Calm(<<a>>) /\ <<a>>[1] = a
                              /\ b.k # "apply" => <<a, b>> \in Seq(Frames) /\ Calm(<<a, b>>) /\ <<a, b>>[1] = a
      BY Short DEF Calm
<1> DEFINE seg == AfterSegment(p)
<1>t. caught \in [Sigs -> Nat] /\ fired \in [Sigs -> Nat] /\ exitRuns \in Nat /\ onExit \in Nat
      BY DEF IInv, TypeOK
<1>3. CASE Plain(p)
      <2>1. Top(p).k = "line" /\ Top(p).n > 0 /\ Becomes(p, seg)
            BY <1>3 DEF Plain, InSegment, In
      <2>2. seg \in Seq(Frames) /\ Calm(seg) /\ seg[1].k # "apply"
            BY <1>1, <2>1, Pushed
      <2> QED
          BY <1>1, <1>3, <2>1, <2>2, CallKeeps DEF Plain, history, IInv, TypeOK
<1>4. CASE LineDone(p)
      <2>1. Top(p).k = "line" /\ Becomes(p, <<>>)
            BY <1>4 DEF LineDone, In
      <2> QED
          BY <1>1, <1>2, <1>4, <2>1, CallKeeps DEF LineDone, history, IInv, TypeOK
<1>5. CASE TrapBuiltin(p)
      <2>1. Top(p).k = "line" /\ Top(p).n > 0 /\ UNCHANGED <<alive, pending, disp, waiting, ctrl_d_count, history>>
            BY <1>5 DEF TrapBuiltin, InSegment, In
      <2>2. PICK s \in Sigs \cup {EXIT}, a \in {"none", "ignore"} \cup Actions :
              /\ traps' = [traps EXCEPT ![p][s] = a]
              /\ Becomes(p, IF s = EXIT THEN seg ELSE <<Frame("apply", s, a)>> \o seg)
            BY <1>5 DEF TrapBuiltin
      <2>3. /\ traps' \in [Processes -> [Sigs \cup {EXIT} -> {"none", "ignore"} \cup Actions]]
            /\ \A q \in Processes, t \in Sigs \cup {EXIT} : traps'[q][t] = IF q = p /\ t = s THEN a ELSE traps[q][t]
            BY <2>2 DEF IInv, TypeOK
      <2> DEFINE f == Frame("apply", s, a)
      <2>4. f \in Frames /\ f.n = s /\ f.what = a /\ f.k = "apply"
            <3>1. s \in Nat /\ a \in {"plain", "exit", "ignore", "none"}
                  OBVIOUS
            <3> QED
                BY <3>1 DEF Frame, Frames
      <2> HIDE DEF f
      <2>5. seg \in Seq(Frames) /\ Calm(seg) /\ seg[1].k # "apply"
            BY <1>1, <2>1, Pushed
      <2>6. <<f>> \o seg \in Seq(Frames) /\ Calm(<<f>> \o seg) /\ (<<f>> \o seg)[1] = f
            BY <1>1, <2>1, <2>4, Pushed
      <2>7. CASE s = EXIT
            <3>1. Becomes(p, seg) /\ \A q \in Processes, t \in Sigs : traps'[q][t] = traps[q][t]
                  BY <2>2, <2>3, <2>7
            <3>2. \A q \in Processes : q = p \/ traps'[q] = traps[q]
                  BY <2>2 DEF IInv, TypeOK
            <3>3. /\ stack' \in [Processes -> Seq(Frames)] /\ Shape'
                  /\ \A q \in Processes : q = p \/ stack'[q] = stack[q]
                  BY <1>1, <2>5, <3>1, <3>2, StepShape
            <3>4. DispositionFollowsTable'
                  BY <2>1, <3>1, <3>3, StepAgrees
            <3> QED
                BY <2>1, <2>3, <3>3, <3>4 DEF IInv, TypeOK, Frames, history
      <2>8. CASE s # EXIT
            <3>1. Becomes(p, <<f>> \o seg)
                  BY <2>2, <2>8 DEF f
            <3>2. f.n \in Sigs /\ f.what = traps'[p][f.n] /\ \A q \in Processes : q = p \/ traps'[q] = traps[q]
                  <4>1. f.n = s /\ f.what = a /\ s \in Sigs
                        BY <2>4, <2>8
                  <4>2. traps'[p][s] = a
                        BY <2>3, <4>1
                  <4>3. \A q \in Processes : q = p \/ traps'[q] = traps[q]
                        BY <2>2 DEF IInv, TypeOK
                  <4> QED
                      BY <4>1, <4>2, <4>3
            <3>3. /\ stack' \in [Processes -> Seq(Frames)] /\ Shape'
                  /\ \A q \in Processes : q = p \/ stack'[q] = stack[q]
                  /\ <<f>> \o seg # <<>> => Head(stack'[p]) = f /\ stack'[p] # <<>>
                  BY <1>1, <2>6, <3>1, <3>2, StepShape
            <3>4. ASSUME NEW q \in Processes, NEW t \in Sigs \ {INT, CHLD}, alive[q] = "run", ~Applying(q, t)'
                  PROVE  Follows(q, t)'
                  <4>1. q # p \/ t # s
                        BY <2>4, <2>6, <3>3, <3>4 DEF Applying, Top
                  <4>2. traps'[q][t] = traps[q][t]
                        BY <2>3, <4>1
                  <4>3. ~Applying(q, t)
                        BY <2>1, <3>3, <3>4 DEF Applying, Top
                  <4> QED
                      BY <2>1, <3>4, <4>2, <4>3 DEF IInv, DispositionFollowsTable, Follows, Agrees
            <3>5. DispositionFollowsTable'
                  BY <2>1, <3>4 DEF DispositionFollowsTable
            <3> QED
                BY <2>1, <2>3, <3>3, <3>5 DEF IInv, TypeOK, Frames, history
      <2> QED
          BY <2>7, <2>8
<1>6. CASE Apply(p)
      <2> DEFINE f == Top(p)
      <2>1. /\ f.k = "apply" /\ disp' = [disp EXCEPT ![p][f.n] = NewDisposition(f.n, f.what, @)] /\ Becomes(p, <<>>)
            /\ UNCHANGED <<alive, pending, traps, waiting, ctrl_d_count, history>>
            BY <1>6 DEF Apply, In
      <2>2. f.n \in Sigs /\ f.what = traps[p][f.n] /\ f.what \in {"none", "ignore"} \cup Actions
            <3>1. f.n \in Sigs /\ f.what = traps[p][f.n]
                  BY <1>1, <2>1 DEF IInv, Shape, HalfDone
            <3> HIDE DEF f
            <3>2. traps \in [Processes -> [Sigs \cup {EXIT} -> {"none", "ignore"} \cup Actions]]
                  BY DEF IInv, TypeOK
            <3>3. traps[p] \in [Sigs \cup {EXIT} -> {"none", "ignore"} \cup Actions]
                  BY <3>2
            <3>4. ASSUME NEW t \in Sigs PROVE traps[p][t] \in {"none", "ignore"} \cup Actions
                  BY <3>3
            <3> QED
                BY <3>1, <3>4
      <2>3. /\ disp' \in [Processes -> [Sigs -> {"dfl", "ign", "trap", "sigint", "sigchld"}]]
            /\ \A q \in Processes, t \in Sigs :
                 disp'[q][t] = IF q = p /\ t = f.n THEN NewDisposition(t, f.what, disp[q][t]) ELSE disp[q][t]
            <3> HIDE DEF f
            <3>1. disp \in [Processes -> [Sigs -> {"dfl", "ign", "trap", "sigint", "sigchld"}]]
                  BY DEF IInv, TypeOK
            <3>2. NewDisposition(f.n, f.what, disp[p][f.n]) \in {"dfl", "ign", "trap", "sigint", "sigchld"}
                  BY <2>2, <3>1 DEF NewDisposition
            <3> QED
                BY <2>1, <2>2, <3>1, <3>2
      <2>4. /\ stack' \in [Processes -> Seq(Frames)] /\ Shape'
            /\ \A q \in Processes : q = p \/ stack'[q] = stack[q]
            BY <1>1, <1>2, <2>1, StepShape
      <2>5. ASSUME NEW q \in Processes, NEW t \in Sigs \ {INT, CHLD}, alive[q] = "run", ~Applying(q, t)'
            PROVE  Follows(q, t)'
            <3>1. CASE q = p /\ t = f.n
                  BY <2>1, <2>2, <2>3, <3>1 DEF Follows, Agrees, NewDisposition
            <3>2. CASE ~(q = p /\ t = f.n)
                  <4>1. ~Applying(q, t)
                        BY <2>4, <2>5, <3>2 DEF Applying, Top
                  <4> QED
                      BY <2>1, <2>3, <2>5, <3>2, <4>1 DEF IInv, DispositionFollowsTable, Follows, Agrees
            <3> QED
                BY <3>1, <3>2
      <2>6. DispositionFollowsTable'
            BY <2>1, <2>5 DEF DispositionFollowsTable
      <2> QED
          BY <2>1, <2>3, <2>4, <2>6 DEF IInv, TypeOK, Frames, history
<1>7. CASE Scan(p)
      <2>1. Top(p).k = "scan" /\ UNCHANGED <<alive, traps, disp, waiting, ctrl_d_count, sent, caught, exitRuns, onExit>>
            BY <1>7 DEF Scan, In
      <2>2. PICK s \in NextSignum(Top(p).n) :
              LET rest == Frame("scan", s + 1, "")
                  fires == pending[p][s] /\ traps[p][s] \in Actions
              IN  /\ pending' = [pending EXCEPT ![p][s] = FALSE]
                  /\ fired' = IF fires THEN [fired EXCEPT ![s] = @ + 1] ELSE fired
                  /\ Becomes(p, IF fires THEN <<Frame("line", 1, traps[p][s]), rest>> ELSE <<rest>>)
            BY <1>7 DEF Scan
      <2>3. s \in Sigs /\ s \in Nat
            <3>1. s \in Sigs
                  BY DEF NextSignum
            <3> QED
                BY <3>1
      <2>4. pending' \in [Processes -> [Sigs -> BOOLEAN]]
            BY <2>2, <2>3 DEF IInv, TypeOK
      <2>5. fired' \in [Sigs -> Nat]
            <3>1. fired' = fired \/ fired' = [fired EXCEPT ![s] = @ + 1]
                  BY <2>2
            <3> QED
                BY <1>t, <2>3, <3>1
      <2> DEFINE rest == Frame("scan", s + 1, "")
                 line == Frame("line", 1, traps[p][s])
      <2>6. rest \in Frames /\ rest.k # "apply"
            BY <2>3 DEF Frame, Frames
      <2>7. line \in Frames /\ line.k # "apply"
            BY <2>3 DEF Frame, Frames, IInv, TypeOK
      <2> HIDE DEF rest, line
      <2>8. PICK fs \in Seq(Frames) : Calm(fs) /\ fs[1].k # "apply" /\ Becomes(p, fs)
            <3>1. Becomes(p, <<line, rest>>) \/ Becomes(p, <<rest>>)
                  BY <2>2 DEF line, rest
            <3>2. /\ <<line, rest>> \in Seq(Frames) /\ Calm(<<line, rest>>) /\ <<line, rest>>[1].k # "apply"
                  /\ <<rest>> \in Seq(Frames) /\ Calm(<<rest>>) /\ <<rest>>[1].k # "apply"
                  BY <1>2, <2>6, <2>7, Zenon
            <3> QED
                BY <3>1, <3>2, Zenon
      <2> QED
          BY <1>1, <2>1, <2>4, <2>5, <2>8, CallKeeps DEF IInv, TypeOK
<1>8. CASE ScanDone(p)
      <2>1. Top(p).k = "scan" /\ Becomes(p, <<>>)
            BY <1>8 DEF ScanDone, In
      <2> QED
          BY <1>1, <1>2, <1>8, <2>1, CallKeeps DEF ScanDone, history, IInv, TypeOK
<1>9. CASE Exit(p)
      <2>1. Top(p).k = "line" /\ Top(p).n > 0 /\ Becomes(p, <<Frame("exit", 0, "")>> \o seg)
            BY <1>9 DEF Exit, InSegment, In
      <2>2. Frame("exit", 0, "") \in Frames /\ Frame("exit", 0, "").k # "apply"
            BY DEF Frame, Frames
      <2>3. PICK fs \in Seq(Frames) : Calm(fs) /\ fs[1].k # "apply" /\ Becomes(p, fs)
            BY <1>1, <2>1, <2>2, Pushed
      <2> QED
          BY <1>1, <1>9, <2>1, <2>3, CallKeeps DEF Exit, history, IInv, TypeOK
<1>10. CASE FireExitTrap(p)
      <2> DEFINE rest == Frame("exit", 1, "")
                 line == Frame("line", 1, traps[p][EXIT])
      <2>1. Top(p).k = "exit" /\ UNCHANGED <<alive, pending, traps, disp, waiting, ctrl_d_count, sent, caught, fired, onExit>>
            BY <1>10 DEF FireExitTrap, In
      <2>2. (traps[p][EXIT] \in Actions /\ Becomes(p, <<line, rest>>)) \/ Becomes(p, <<rest>>)
            BY <1>10 DEF FireExitTrap
      <2>3. exitRuns' \in Nat
            <3>1. exitRuns' = exitRuns \/ exitRuns' = exitRuns + 1
                  BY <1>10 DEF FireExitTrap
            <3> QED
                BY <1>t, <3>1
      <2>4. rest \in Frames /\ rest.k # "apply"
            BY DEF Frame, Frames
      <2>5. ASSUME traps[p][EXIT] \in Actions PROVE line \in Frames /\ line.k # "apply"
            BY <2>5 DEF Frame, Frames
      <2> HIDE DEF rest, line
      <2>6. PICK fs \in Seq(Frames) : Calm(fs) /\ fs[1].k # "apply" /\ Becomes(p, fs)
            <3>1. CASE Becomes(p, <<rest>>)
                  <4>1. <<rest>> \in Seq(Frames) /\ Calm(<<rest>>) /\ <<rest>>[1].k # "apply"
                        BY <1>2, <2>4, Zenon
                  <4> QED
                      BY <3>1, <4>1, Zenon
            <3>2. CASE traps[p][EXIT] \in Actions /\ Becomes(p, <<line, rest>>)
                  <4>1. <<line, rest>> \in Seq(Frames) /\ Calm(<<line, rest>>) /\ <<line, rest>>[1].k # "apply"
                        BY <1>2, <2>4, <2>5, <3>2, Zenon
                  <4> QED
                      BY <3>2, <4>1, Zenon
            <3> QED
                BY <2>2, <3>1, <3>2
      <2> QED
          BY <1>1, <2>1, <2>3, <2>6, CallKeeps DEF IInv, TypeOK
<1>11. CASE ExitProcess(p)
      <2>1. Top(p).k = "exit" /\ UNCHANGED <<stack, pending, traps, disp, waiting, ctrl_d_count, sent, caught, fired, exitRuns>>
            BY <1>11 DEF ExitProcess, In
      <2>2. /\ alive' \in [Processes -> {"off", "run", "exited", "killed", "overflow"}]
            /\ \A q \in Processes : alive'[q] = "run" => alive[q] = "run"
            BY <1>11 DEF ExitProcess, IInv, TypeOK
      <2>3. DispositionFollowsTable'
            BY <2>1, <2>2, StepAgrees
      <2>4. Shape'
            BY <2>1 DEF IInv, Shape, HalfDone, Top
      <2>5. onExit' \in Nat
            BY <1>t, <1>11 DEF ExitProcess
      <2> QED
          BY <2>1, <2>2, <2>3, <2>4, <2>5 DEF IInv, TypeOK
<1> QED
    BY <1>3, <1>4, <1>5, <1>6, <1>7, <1>8, <1>9, <1>10, <1>11 DEF Executes, Exiting

LEMMA NextIInv == IInv /\ [Next]_vars => IInv'
<1> SUFFICES ASSUME IInv, [Next]_vars PROVE IInv'
    OBVIOUS
<1> DEFINE Calls == [Processes -> Seq(Frames)]
<1>t. /\ stack \in Calls /\ ctrl_d_count \in Nat /\ sent \in 0 .. MaxSent /\ caught \in [Sigs -> Nat]
      /\ alive \in [Processes -> {"off", "run", "exited", "killed", "overflow"}]
      /\ pending \in [Processes -> [Sigs -> BOOLEAN]]
      BY DEF IInv, TypeOK, Frames
<1>1. ASSUME NEW p \in Processes, Executes(p) \/ Exiting(p) PROVE IInv'
      BY <1>1, CallStep
<1>2. CASE UserLine
      <2>1. PICK n \in 0 .. MaxSegs : stack' = [stack EXCEPT !["shell"] = <<Frame("line", n, "user")>>]
            BY <1>2 DEF UserLine
      <2>2. stack["shell"] = <<>> /\ UNCHANGED <<alive, pending, traps, disp, waiting, history>> /\ ctrl_d_count' = 0
            BY <1>2 DEF UserLine
      <2> DEFINE f == Frame("line", n, "user")
      <2>3. f \in Frames /\ f.k # "apply"
            BY DEF Frame, Frames
      <2> HIDE DEF f
      <2>4. stack' \in Calls /\ stack'["shell"] = <<f>> /\ \A q \in Processes : q = "shell" \/ stack'[q] = stack[q]
            BY <1>t, <2>1, <2>3 DEF f, Processes
      <2>5. Shape'
            BY <2>2, <2>3, <2>4 DEF IInv, Shape, Calm, HalfDone, Top
      <2>6. DispositionFollowsTable'
            BY <2>2, <2>4, StepAgrees DEF Processes
      <2> QED
          BY <2>2, <2>4, <2>5, <2>6 DEF IInv, TypeOK, Frames, history
<1>3. CASE CtrlD
      <2>1. /\ alive' \in [Processes -> {"off", "run", "exited", "killed", "overflow"}]
            /\ \A q \in Processes : alive'[q] = "run" => alive[q] = "run"
            BY <1>t, <1>3 DEF CtrlD
      <2>2. ctrl_d_count' \in Nat /\ UNCHANGED <<stack, pending, traps, disp, waiting, history>> /\ stack["shell"] = <<>>
            BY <1>t, <1>3 DEF CtrlD
      <2>3. Shape'
            BY <2>2 DEF IInv, Shape, HalfDone, Top
      <2>4. DispositionFollowsTable'
            BY <2>1, <2>2, StepAgrees DEF Processes
      <2> QED
          BY <2>1, <2>2, <2>3, <2>4 DEF IInv, TypeOK, history
<1>4. CASE Fork
      <2> DEFINE seg == AfterSegment("shell")
                 f == Frame("line", 1, "user")
      <2>1. /\ stack["shell"] # <<>> /\ Top("shell").k = "line" /\ Top("shell").n > 0
            /\ alive' = [alive EXCEPT !["sub"] = "run"] /\ alive["shell"] = "run" /\ waiting' = TRUE
            /\ pending' = [pending EXCEPT !["sub"] = pending["shell"]]
            /\ traps' = [traps EXCEPT !["sub"] = traps["shell"]]
            /\ disp' = [disp EXCEPT !["sub"] = ChildDispositions]
            /\ stack' = [stack EXCEPT !["sub"] = <<f>>, !["shell"] = seg \o Tail(@)]
            /\ UNCHANGED <<ctrl_d_count, history>>
            BY <1>4 DEF Fork, InSegment, In, Runs
      <2>2. f \in Frames /\ f.k # "apply"
            BY DEF Frame, Frames
      <2>3. seg \in Seq(Frames) /\ Calm(seg) /\ seg # <<>> /\ seg[1].k # "apply"
            <3>1. seg # <<>>
                  BY DEF AfterSegment
            <3> QED
                BY <2>1, <3>1, Pushed DEF Processes
      <2> HIDE DEF seg, f
      <2>4. /\ stack'["sub"] = <<f>> /\ stack'["shell"] = seg \o Tail(stack["shell"])
            /\ DOMAIN stack' = Processes /\ stack' = [p \in Processes |-> stack'[p]]
            BY <1>t, <2>1 DEF Processes
      <2>5. /\ stack["shell"] \in Seq(Frames) /\ Calm(stack["shell"])
            BY <1>t DEF IInv, Shape, Processes
      <2>6. /\ stack'["shell"] \in Seq(Frames) /\ Calm(stack'["shell"])
            /\ stack'["shell"] # <<>> /\ Head(stack'["shell"]).k # "apply"
            <3>1. stack["shell"] # <<>>
                  BY <2>1
            <3> DEFINE new == seg \o Tail(stack["shell"])
            <3>2. new \in Seq(Frames) /\ Calm(new) /\ new # <<>> /\ Head(new) = seg[1]
                  BY <2>3, <2>5, <3>1, Replaced, Zenon
            <3> HIDE DEF new
            <3>3. stack'["shell"] = new
                  BY <2>4 DEF new
            <3> QED
                BY <2>3, <3>2, <3>3, Zenon
      <2>7. /\ stack'["sub"] \in Seq(Frames) /\ Calm(stack'["sub"])
            /\ Head(stack'["sub"]).k # "apply"
            BY <2>2, <2>4 DEF Calm
      <2>8. stack' \in Calls
            BY <2>4, <2>6, <2>7 DEF Processes
      <2>9. Shape'
            BY <2>6, <2>7 DEF Shape, HalfDone, Top, Processes
      <2>10. /\ traps' \in [Processes -> [Sigs \cup {EXIT} -> {"none", "ignore"} \cup Actions]]
             /\ traps'["sub"] = traps["shell"] /\ traps'["shell"] = traps["shell"]
             BY <2>1 DEF IInv, TypeOK, Processes
      <2>11. /\ disp' \in [Processes -> [Sigs -> {"dfl", "ign", "trap", "sigint", "sigchld"}]]
             /\ disp'["shell"] = disp["shell"]
             /\ \A s \in Sigs \ {INT, CHLD, QUIT} : disp'["sub"][s] = disp["shell"][s]
             /\ QUIT \in Sigs => disp'["sub"][QUIT] = "dfl"
             <3>1. disp \in [Processes -> [Sigs -> {"dfl", "ign", "trap", "sigint", "sigchld"}]]
                   BY DEF IInv, TypeOK
             <3>2. /\ ChildDispositions \in [Sigs -> {"dfl", "ign", "trap", "sigint", "sigchld"}]
                   /\ \A s \in Sigs \ {INT, CHLD, QUIT} : ChildDispositions[s] = disp["shell"][s]
                   /\ QUIT \in Sigs => ChildDispositions[QUIT] = "dfl"
                   BY <3>1 DEF ChildDispositions, Processes
             <3> QED
                 BY <2>1, <3>1, <3>2 DEF Processes
      <2>12. \A s \in Sigs \ {INT, CHLD} : Agrees(s, traps["shell"][s], disp["shell"][s])
             BY <2>1 DEF IInv, DispositionFollowsTable, Follows, Applying, Processes
      <2>13. DispositionFollowsTable'
             <3>1. ASSUME NEW s \in Sigs \ {INT, CHLD} PROVE Follows("shell", s)' /\ Follows("sub", s)'
                   BY <2>10, <2>11, <2>12 DEF Follows, Agrees
             <3> QED
                 BY <3>1 DEF DispositionFollowsTable, Processes
      <2>14. /\ alive' \in [Processes -> {"off", "run", "exited", "killed", "overflow"}]
             /\ pending' \in [Processes -> [Sigs -> BOOLEAN]]
             BY <1>t, <2>1 DEF Processes
      <2> QED
          BY <2>1, <2>8, <2>9, <2>10, <2>11, <2>13, <2>14 DEF IInv, TypeOK, Frames, history
<1>5. CASE SubDone
      <2>1. /\ alive' \in [Processes -> {"off", "run", "exited", "killed", "overflow"}]
            /\ \A q \in Processes : alive'[q] = "run" => alive[q] = "run"
            /\ UNCHANGED <<stack, pending, traps, disp, waiting, ctrl_d_count, history>> /\ stack["sub"] = <<>>
            BY <1>t, <1>5 DEF SubDone, Processes
      <2>2. Shape'
            BY <2>1 DEF IInv, Shape, HalfDone, Top
      <2>3. DispositionFollowsTable'
            BY <2>1, StepAgrees DEF Processes
      <2> QED
          BY <2>1, <2>2, <2>3 DEF IInv, TypeOK, history
<1>6. CASE Reaped
      BY <1>6 DEF Reaped, IInv, TypeOK, Shape, HalfDone, Top, DispositionFollowsTable, Applying, Follows, Agrees, history
<1>7. ASSUME NEW p \in Processes, Overflow(p) PROVE IInv'
      <2>1. /\ alive' \in [Processes -> {"off", "run", "exited", "killed", "overflow"}]
            /\ \A q \in Processes : alive'[q] = "run" => alive[q] = "run"
            /\ UNCHANGED <<stack, pending, traps, disp, waiting, ctrl_d_count, history>>
            BY <1>t, <1>7 DEF Overflow
      <2>2. Shape' /\ DispositionFollowsTable'
            BY <2>1 DEF IInv, Shape, HalfDone, Top, DispositionFollowsTable, Applying, Follows, Agrees
      <2> QED
          BY <2>1, <2>2 DEF IInv, TypeOK, history
<1>8. ASSUME NEW p \in Processes, NEW s \in Sigs, Signal(p, s) PROVE IInv'
      <2>1. /\ alive' \in [Processes -> {"off", "run", "exited", "killed", "overflow"}]
            /\ \A q \in Processes : alive'[q] = "run" => alive[q] = "run"
            BY <1>t, <1>8 DEF Signal, Deliver
      <2>2. pending' \in [Processes -> [Sigs -> BOOLEAN]]
            <3>1. CASE pending' = pending
                  BY <1>t, <3>1
            <3>2. CASE pending' = [pending EXCEPT ![p][s] = TRUE]
                  BY <1>t, <3>2
            <3> QED
                BY <1>8, <3>1, <3>2 DEF Signal, Deliver
      <2>3. caught' \in [Sigs -> Nat]
            <3>1. caught' = caught \/ caught' = [caught EXCEPT ![s] = @ + 1]
                  BY <1>8 DEF Signal, Deliver
            <3> QED
                BY <1>t, <3>1
      <2>4. UNCHANGED <<stack, traps, disp, ctrl_d_count, fired, exitRuns, onExit>> /\ sent' \in 0 .. MaxSent
            BY <1>t, <1>8 DEF Signal
      <2>5. waiting' \in BOOLEAN
            BY <1>8 DEF Signal
      <2>6. Shape' /\ DispositionFollowsTable'
            BY <2>1, <2>4 DEF IInv, Shape, HalfDone, Top, DispositionFollowsTable, Applying, Follows, Agrees
      <2> QED
          BY <2>1, <2>2, <2>3, <2>4, <2>5, <2>6 DEF IInv, TypeOK
<1>9. CASE UNCHANGED vars
      BY <1>9 DEF vars, IInv, TypeOK, Shape, HalfDone, Top, DispositionFollowsTable, Applying, Follows, Agrees
<1> QED
    BY <1>1, <1>2, <1>3, <1>4, <1>5, <1>6, <1>7, <1>8, <1>9 DEF Next, Steps

\* The shape of the calls and the agreement of table and kernel are inductive.
THEOREM Invariance == Spec => []IInv
<1>1. Init => IInv
      BY InitIInv
<1>2. IInv /\ [Next]_vars => IInv'
      BY NextIInv
<1> QED
    BY <1>1, <1>2, PTL DEF Spec

\* Every variable stays in its range, whatever calls what.
THEOREM TypeCorrect == Spec => []TypeOK
<1>1. IInv => TypeOK
      BY DEF IInv
<1> QED
    BY <1>1, Invariance, PTL

\* builtin_trap, the subshell's copies and exits leave the kernel doing what the
\* table says, in either process and at any depth of calls; but SIGQUIT may be at its
\* default in a subshell, which starts with it so.
THEOREM TableIsObeyed == Spec => []DispositionFollowsTable
<1>1. IInv => DispositionFollowsTable
      BY DEF IInv
<1> QED
    BY <1>1, Invariance, PTL

\* Without subshells, which copy the flags that are up, check_and_fire_traps runs a
\* trap command at most once for every delivery of its signal.
THEOREM NeverFiresTwice == ASSUME ~Subshells PROVE Spec => []FiredOncePerSignal
<1> DEFINE Alone == IInv /\ alive["sub"] = "off" /\ FlagIsOwed
<1>1. Init => Alone
      BY InitIInv DEF Init, Processes, FlagIsOwed
<1>2. Alone /\ [Next]_vars => Alone'
      <2> SUFFICES ASSUME Alone, [Next]_vars PROVE Alone'
          OBVIOUS
      <2>1. IInv'
            BY NextIInv
      <2>2. /\ caught \in [Sigs -> Nat] /\ fired \in [Sigs -> Nat]
            /\ pending \in [Processes -> [Sigs -> BOOLEAN]]
            BY DEF IInv, TypeOK
      <2>3. alive["sub"] = "off" /\ FlagIsOwed
            OBVIOUS
      <2>4. ASSUME NEW s \in Sigs, Signal("shell", s) PROVE Alone'
            <3>1. UNCHANGED fired /\ alive'["sub"] = "off"
                  BY <2>3, <2>4 DEF Signal, Deliver, IInv, TypeOK, Processes
            <3>2. \/ UNCHANGED <<pending, caught>>
                  \/ pending' = [pending EXCEPT !["shell"][s] = TRUE] /\ caught' = [caught EXCEPT ![s] = @ + 1]
                  BY <2>4 DEF Signal, Deliver
            <3>3. FlagIsOwed'
                  BY <2>2, <2>3, <3>1, <3>2 DEF FlagIsOwed, Processes
            <3> QED
                BY <2>1, <3>1, <3>3
      <2>5. ASSUME Scan("shell") PROVE Alone'
            <3>1. PICK s \in Sigs :
                    /\ pending' = [pending EXCEPT !["shell"][s] = FALSE]
                    /\ fired' = IF pending["shell"][s] /\ traps["shell"][s] \in Actions
                               THEN [fired EXCEPT ![s] = @ + 1] ELSE fired
                  BY <2>5 DEF Scan, NextSignum
            <3>2. UNCHANGED <<alive, caught>>
                  BY <2>5 DEF Scan
            <3>3. FlagIsOwed'
                  <4> SUFFICES ASSUME NEW t \in Sigs
                               PROVE  fired'[t] + (IF pending'["shell"][t] THEN 1 ELSE 0) <= caught[t]
                      BY <3>2 DEF FlagIsOwed
                  <4>1. fired[t] \in Nat /\ caught[t] \in Nat
                        BY <2>2
                  <4>2. fired[t] + (IF pending["shell"][t] THEN 1 ELSE 0) <= caught[t]
                        BY <2>3 DEF FlagIsOwed
                  <4>3. CASE t = s
                        <5>1. ~pending'["shell"][t]
                              BY <2>2, <3>1, <4>3 DEF Processes
                        <5>2. fired'[t] = IF pending["shell"][t] /\ traps["shell"][t] \in Actions
                                          THEN fired[t] + 1 ELSE fired[t]
                              BY <2>2, <3>1, <4>3
                        <5> QED
                            BY <4>1, <4>2, <5>1, <5>2
                  <4>4. CASE t # s
                        <5>1. fired'[t] = fired[t] /\ pending'["shell"][t] = pending["shell"][t]
                              BY <2>2, <3>1, <4>4 DEF Processes
                        <5> QED
                            BY <4>2, <5>1
                  <4> QED
                      BY <4>3, <4>4
            <3> QED
                BY <2>1, <2>3, <3>2, <3>3
      <2>6. CASE UNCHANGED <<pending, fired, caught>> /\ alive'["sub"] = alive["sub"]
            BY <2>1, <2>3, <2>6 DEF FlagIsOwed
      <2>7. ASSUME Executes("shell") \/ Exiting("shell"), ~Scan("shell")
            PROVE  UNCHANGED <<pending, fired, caught>> /\ alive'["sub"] = alive["sub"]
            BY <2>7 DEF Executes, Exiting, Plain, LineDone, TrapBuiltin, Apply, ScanDone, Exit, FireExitTrap,
                        ExitProcess, history, IInv, TypeOK, Processes
      <2>8. ASSUME UserLine \/ CtrlD \/ Reaped \/ Overflow("shell") \/ UNCHANGED vars
            PROVE  UNCHANGED <<pending, fired, caught>> /\ alive'["sub"] = alive["sub"]
            BY <2>8 DEF UserLine, CtrlD, Reaped, Overflow, vars, history, IInv, TypeOK, Processes
      <2>9. ~Fork /\ ~SubDone /\ ~Executes("sub") /\ ~Exiting("sub") /\ ~Overflow("sub")
            /\ \A s \in Sigs : ~Signal("sub", s)
            BY <2>3 DEF Fork, SubDone, Executes, Exiting, Plain, LineDone, TrapBuiltin, Apply, Scan, ScanDone, Exit,
                        FireExitTrap, ExitProcess, InSegment, In, Runs, Overflow, Signal
      <2> QED
          BY <2>4, <2>5, <2>6, <2>7, <2>8, <2>9, Zenon DEF Next, Steps, Processes
<1>3. Alone => FiredOncePerSignal
      <2> SUFFICES ASSUME Alone, NEW s \in Sigs PROVE fired[s] <= caught[s]
          BY DEF FiredOncePerSignal
      <2>1. fired[s] \in Nat /\ caught[s] \in Nat
            BY DEF IInv, TypeOK
      <2>2. fired[s] + (IF pending["shell"][s] THEN 1 ELSE 0) <= caught[s]
            BY DEF FlagIsOwed
      <2> QED
          BY <2>1, <2>2
<1> QED
    BY <1>1, <1>2, <1>3, PTL DEF Spec

\* Whatever traps call exit, and wherever they nest, builtin_exit of the shell fires the on_exit
\* hooks once: firing them and the end of the process are one step.
THEOREM HooksOnce == Spec => []HooksAtMostOnce
<1> DEFINE Hooks == /\ TypeOK
                    /\ alive["shell"] = "run" => onExit = 0
                    /\ onExit <= 1
<1>1. Init => Hooks
      BY InitIInv DEF Init, IInv
<1>2. Hooks /\ TypeOK' /\ [Next]_vars => Hooks'
      <2> SUFFICES ASSUME Hooks, TypeOK', [Next]_vars PROVE Hooks'
          OBVIOUS
      <2>1. alive \in [Processes -> {"off", "run", "exited", "killed", "overflow"}] /\ onExit \in Nat
            BY DEF TypeOK
      <2>2. CASE ExitProcess("shell")
            <3>1. alive["shell"] = "run" /\ alive' = [alive EXCEPT !["shell"] = "exited"] /\ onExit' = onExit + 1
                  BY <2>2 DEF ExitProcess, In, Runs
            <3>2. alive'["shell"] = "exited"
                  BY <2>1, <3>1 DEF Processes
            <3> QED
                BY <2>1, <3>1, <3>2
      <2>3. CASE ~ExitProcess("shell")
            <3>1. UNCHANGED onExit
                  BY <2>3 DEF Next, Steps, Executes, Exiting, Plain, LineDone, TrapBuiltin, Apply, Scan, ScanDone, Exit,
                     FireExitTrap, ExitProcess, UserLine, CtrlD, Fork, SubDone, Reaped, Overflow, Signal, history,
                     vars, Processes
            <3>2. alive'["shell"] = "run" => alive["shell"] = "run"
                  BY <2>1 DEF Next, Steps, Executes, Exiting, Plain, LineDone, TrapBuiltin, Apply, Scan, ScanDone, Exit,
                     FireExitTrap, ExitProcess, UserLine, CtrlD, Fork, SubDone, Reaped, Overflow, Signal, Deliver,
                     history, vars, Processes
            <3> QED
                BY <3>1, <3>2
      <2> QED
          BY <2>2, <2>3
<1>3. Hooks => HooksAtMostOnce
      BY DEF HooksAtMostOnce
<1> QED
    BY <1>1, <1>2, <1>3, TypeCorrect, PTL DEF Spec
-----------------------------------------------------------------------------
(* How deep the calls of the shell nest when no trap command is an exit: at the *)
(* bottom the line typed, over it trap checks and the one-segment lines of the  *)
(* traps they fire, and at most one exit, which a typed line called.            *)

Typed(f) == f.k = "line" /\ f.what = "user"

\* A call above the line typed, and one that a call above it interrupts.
Within(f) == f.k = "line" => f.what = "plain" /\ f.n <= 1
Settled(f) == f.k \in {"line", "scan", "exit"} /\ (f.k = "line" => f.n = 0) /\ (f.k = "exit" => f.n = 1)

Nest(c) ==
  c # <<>> =>
    /\ Typed(c[Len(c)])
    /\ \A i \in 1 .. Len(c) - 1 :
         Within(c[i]) /\ (i > 1 => Settled(c[i])) /\ (c[i].k = "exit" => i = Len(c) - 2)

\* The exit builtin has looked at its trap.
Left(f) == f.k = "exit" /\ f.n = 1
Leaving(c) == \E i \in 1 .. Len(c) : Left(c[i])

\* The calls that the innermost call f may still put above itself.
Need(f) ==
  IF f.k = "line" THEN IF f.what = "user" THEN 4 ELSE f.n
  ELSE IF f.k = "exit" /\ f.n = 0 THEN 2 ELSE 0

Depth(c) == IF c = <<>> THEN 0 ELSE Len(c) + Need(c[1])

\* Each flag that is up can put two more calls on the stack: a trap command and the
\* check after it.
Up == {s \in Sigs : pending["shell"][s]}
Room == Cardinality(Up) <= sent /\ Depth(stack["shell"]) + 2 * Cardinality(Up) <= 5 + 2 * sent

TrapRan == traps["shell"][EXIT] \in Actions => exitRuns = 1
Leaves ==
  /\ alive["shell"] = "run" => onExit = 0 /\ (IF Leaving(stack["shell"]) THEN TrapRan ELSE exitRuns = 0)
  /\ alive["shell"] = "exited" => onExit = 1 /\ TrapRan

NestInv == Nest(stack["shell"]) /\ Room /\ Leaves /\ alive["shell"] # "overflow"

\* Calls fs that take the place of a call of the traps or the exit: all but the first are
\* interrupted, and an exit stays an exit.
Fits(fs, f) ==
  \A i \in 1 .. Len(fs) :
    Within(fs[i]) /\ (i > 1 => Settled(fs[i])) /\ (fs[i].k = "exit" => i = Len(fs) /\ f.k = "exit")

LEMMA DepthOf ==
  ASSUME NEW c \in Seq(Frames)
  PROVE  /\ Len(c) \in Nat /\ Depth(c) \in Nat /\ Depth(c) \in Int /\ Len(c) <= Depth(c)
         /\ c # <<>> => /\ Len(c) >= 1 /\ c[1] \in Frames /\ Need(c[1]) \in Nat
                        /\ Depth(c) = Len(c) + Need(c[1])
                        /\ Len(c) = 1 \/ Len(c) > 1
         /\ Len(c) > 1 => 1 \in 1 .. Len(c) - 1 /\ (Len(c) = 2 \/ Len(c) > 2)
         /\ Len(c) = 1 => Tail(c) = <<>> /\ 1 .. Len(c) = {1}
<1>1. Len(c) \in Nat /\ (c # <<>> => Len(c) >= 1 /\ c[1] \in Frames) /\ (c = <<>> => Len(c) = 0)
      OBVIOUS
<1>2. \A f \in Frames : Need(f) \in Nat
      BY DEF Need, Frames
<1>3. c # <<>> => Need(c[1]) \in Nat
      BY <1>1, <1>2
<1>4. Len(c) \in Nat /\ Depth(c) \in Nat /\ Depth(c) \in Int /\ Len(c) <= Depth(c)
      BY <1>1, <1>3 DEF Depth
<1>5. ASSUME NEW n \in Nat
      PROVE  /\ n >= 1 => n = 1 \/ n > 1
             /\ n > 1 => 1 \in 1 .. n - 1 /\ (n = 2 \/ n > 2)
             /\ n = 1 => 1 .. n = {1}
      OBVIOUS
<1>6. ASSUME Len(c) = 1 PROVE Tail(c) = <<>>
      <2> DEFINE t == Tail(c)
      <2>1. t \in Seq(Frames) /\ Len(t) = 0
            BY <1>6, SMTT(30)
      <2> HIDE DEF t
      <2>2. t = <<>>
            BY <2>1
      <2> QED
          BY <2>2 DEF t
<1>7. c # <<>> => Depth(c) = Len(c) + Need(c[1])
      BY DEF Depth
<1> QED
    BY <1>1, <1>3, <1>4, <1>5, <1>6, <1>7, Zenon

\* What Becomes makes of calls that nest.
LEMMA NestKeeps ==
  ASSUME NEW c \in Seq(Frames), Len(c) > 1, Nest(c), NEW fs \in Seq(Frames), Fits(fs, c[1])
  PROVE  /\ Nest(fs \o Tail(c))
         /\ fs # <<>> => Depth(fs \o Tail(c)) = Len(fs) + Len(c) - 1 + Need(fs[1])
         /\ fs = <<>> => Depth(fs \o Tail(c)) <= Depth(c) \/ Depth(fs \o Tail(c)) = 5
         /\ Leaving(fs \o Tail(c)) <=> Leaving(fs) \/ (Leaving(c) /\ c[1].k # "exit")
<1> DEFINE rest == Tail(c)
           new == fs \o rest
<1>1. /\ rest \in Seq(Frames) /\ Len(rest) = Len(c) - 1
      /\ \A i \in 1 .. Len(rest) : rest[i] = c[i + 1]
      OBVIOUS
<1>2. /\ new \in Seq(Frames) /\ Len(new) = Len(fs) + Len(c) - 1 /\ Len(fs) \in Nat /\ Len(c) \in Nat
      /\ \A i \in 1 .. Len(fs) : new[i] = fs[i]
      /\ \A i \in Len(fs) + 1 .. Len(new) : new[i] = rest[i - Len(fs)]
      BY <1>1
<1>3. \A i \in Len(fs) + 1 .. Len(new) : i - Len(fs) + 1 \in 2 .. Len(c) /\ new[i] = c[i - Len(fs) + 1]
      BY <1>1, <1>2
<1>4. new # <<>> /\ c # <<>> /\ 1 \in 1 .. Len(new)
      BY <1>2, SMTT(30)
<1> HIDE DEF new, rest
<1>5. Nest(new)
      <2>1. Typed(new[Len(new)])
            <3>1. Len(new) \in Len(fs) + 1 .. Len(new) /\ Len(new) - Len(fs) + 1 = Len(c)
                  BY <1>2
            <3> QED
                BY <1>3, <1>4, <3>1 DEF Nest
      <2>2. ASSUME NEW i \in 1 .. Len(new) - 1
            PROVE  Within(new[i]) /\ (i > 1 => Settled(new[i])) /\ (new[i].k = "exit" => i = Len(new) - 2)
            <3>1. CASE i <= Len(fs)
                  <4>1. i \in 1 .. Len(fs) /\ new[i] = fs[i]
                        BY <1>2, <3>1
                  <4>2. c[1].k = "exit" => 1 = Len(c) - 2
                        <5>1. 1 \in 1 .. Len(c) - 1
                              BY <1>2
                        <5> QED
                            BY <1>4, <5>1 DEF Nest
                  <4>3. /\ Within(fs[i]) /\ (i > 1 => Settled(fs[i]))
                        /\ fs[i].k = "exit" => i = Len(fs) /\ c[1].k = "exit"
                        BY <4>1 DEF Fits
                  <4>4. i = Len(fs) /\ Len(c) = 3 => i = Len(new) - 2
                        BY <1>2
                  <4>5. c[1].k = "exit" => Len(c) = 3
                        BY <1>2, <4>2
                  <4> QED
                      BY <4>1, <4>3, <4>4, <4>5
            <3>2. CASE i > Len(fs)
                  <4> DEFINE j == i - Len(fs) + 1
                  <4>1. j \in 1 .. Len(c) - 1 /\ j > 1 /\ new[i] = c[j]
                        <5>1. i \in Int /\ Len(fs) \in Nat /\ Len(c) \in Nat /\ Len(new) = Len(fs) + Len(c) - 1
                              BY <1>2
                        <5>2. i \in Len(fs) + 1 .. Len(new) /\ j > 1 /\ j \in 1 .. Len(c) - 1
                              BY ONLY <5>1, <3>2, i \in 1 .. Len(new) - 1
                        <5> QED
                            BY <1>3, <5>2
                  <4>2. Within(c[j]) /\ Settled(c[j]) /\ (c[j].k = "exit" => j = Len(c) - 2)
                        BY <1>4, <4>1 DEF Nest
                  <4> QED
                      BY <1>2, <4>1, <4>2
            <3> QED
                BY <1>2, <3>1, <3>2
      <2> QED
          BY <2>1, <2>2 DEF Nest
<1>6. ASSUME fs # <<>> PROVE Depth(new) = Len(fs) + Len(c) - 1 + Need(fs[1])
      <2>1. 1 \in 1 .. Len(fs) /\ new[1] = fs[1]
            BY <1>2, <1>6
      <2> QED
          BY <1>2, <1>4, <2>1 DEF Depth
<1>7. ASSUME fs = <<>> PROVE Depth(new) <= Depth(c) \/ Depth(new) = 5
      <2>1. Len(fs) = 0 /\ Len(new) = Len(c) - 1 /\ new[1] = c[2]
            BY <1>2, <1>3, <1>4, <1>7
      <2>2. c[1] \in Frames /\ c[2] \in Frames
            BY <1>2
      <2>3. Need(c[1]) \in Nat
            BY <2>2 DEF Need, Frames
      <2>4. CASE Len(c) = 2
            <3>1. Typed(c[2])
                  BY <1>4, <2>4 DEF Nest
            <3> QED
                BY <1>4, <2>1, <2>4, <3>1 DEF Depth, Need, Typed
      <2>5. CASE Len(c) > 2
            <3>1. Settled(c[2]) /\ Within(c[2])
                  <4>1. 2 \in 1 .. Len(c) - 1
                        BY <1>2, <2>5
                  <4> QED
                      BY <1>4, <4>1 DEF Nest
            <3>2. Need(c[2]) = 0
                  BY <3>1 DEF Need, Settled, Within
            <3>3. Depth(new) = Len(c) - 1 /\ Depth(c) = Len(c) + Need(c[1])
                  BY <1>2, <1>4, <2>1, <3>2 DEF Depth
            <3> QED
                BY <1>2, <2>3, <3>3
      <2>6. Len(c) = 2 \/ Len(c) > 2
            BY DepthOf, Zenon
      <2> QED
          BY <2>4, <2>5, <2>6
<1>8. Leaving(new) <=> Leaving(fs) \/ (Leaving(c) /\ c[1].k # "exit")
      <2>1. ASSUME NEW i \in 1 .. Len(new), Left(new[i]), ~Leaving(fs) PROVE Leaving(c) /\ c[1].k # "exit"
            <3>1. i \notin 1 .. Len(fs)
                  BY <1>2, <2>1 DEF Leaving
            <3> DEFINE j == i - Len(fs) + 1
            <3>2. j \in 2 .. Len(c) /\ new[i] = c[j] /\ Len(c) \in Nat
                  BY <1>2, <1>3, <3>1
            <3> HIDE DEF j
            <3>3. c[j].k = "exit" /\ j # Len(c)
                  BY <1>4, <2>1, <3>2 DEF Nest, Left, Typed
            <3>4. j = Len(c) - 2
                  BY <1>4, <3>2, <3>3 DEF Nest
            <3>5. c[1].k # "exit"
                  BY <1>4, <3>2, <3>4 DEF Nest
            <3> QED
                BY <2>1, <3>2, <3>5 DEF Leaving
      <2>2. ASSUME NEW i \in 1 .. Len(fs), Left(fs[i]) PROVE Leaving(new)
            <3>1. i \in 1 .. Len(new) /\ new[i] = fs[i]
                  BY <1>2
            <3> QED
                BY <2>2, <3>1 DEF Leaving
      <2>3. ASSUME NEW j \in 1 .. Len(c), Left(c[j]), c[1].k # "exit" PROVE Leaving(new)
            <3>1. j # 1
                  BY <2>3 DEF Left
            <3> DEFINE i == j + Len(fs) - 1
            <3>2. i \in Len(fs) + 1 .. Len(new) /\ i \in 1 .. Len(new) /\ i - Len(fs) + 1 = j
                  BY <1>2, <3>1
            <3>3. new[i] = c[j]
                  BY <1>3, <3>2
            <3> QED
                BY <2>3, <3>2, <3>3 DEF Leaving
      <2> QED
          BY <2>1, <2>2, <2>3 DEF Leaving
<1> QED
    BY <1>5, <1>6, <1>7, <1>8 DEF new, rest

\* A call of the line typed takes the place of the whole stack.
LEMMA NestStarts ==
  ASSUME NEW n \in Nat, NEW f \in Frames, f.k = "apply" \/ (f.k = "exit" /\ f.n = 0)
  PROVE  LET seg == <<Frame("scan", 1, ""), Frame("line", n, "user")>>
         IN  /\ Nest(seg) /\ ~Leaving(seg) /\ Depth(seg) = 2
             /\ Nest(<<f>> \o seg) /\ ~Leaving(<<f>> \o seg) /\ Depth(<<f>> \o seg) <= 5
<1> DEFINE a == Frame("scan", 1, "")
           b == Frame("line", n, "user")
           three == <<f>> \o <<a, b>>
<1>1. a.k = "scan" /\ b.k = "line" /\ b.what = "user" /\ a \in Frames /\ b \in Frames
      BY DEF Frame, Frames
<1> HIDE DEF a, b
<1>2. /\ Len(<<a, b>>) = 2 /\ <<a, b>>[1] = a /\ <<a, b>>[2] = b /\ <<a, b>> # <<>>
      /\ Len(three) = 3 /\ three[1] = f /\ three[2] = a /\ three[3] = b /\ three # <<>>
      BY <1>1
<1> HIDE DEF three
<1>3. Nest(<<a, b>>) /\ ~Leaving(<<a, b>>) /\ Depth(<<a, b>>) = 2
      BY <1>1, <1>2 DEF Nest, Leaving, Left, Depth, Need, Typed, Within, Settled
<1>4. Nest(three) /\ ~Leaving(three) /\ Depth(three) <= 5
      BY <1>1, <1>2 DEF Nest, Leaving, Left, Depth, Need, Typed, Within, Settled
<1> QED
    BY <1>3, <1>4 DEF a, b, three

\* The typed line is alone on the stack when it is the innermost call.
LEMMA TypedIsAlone ==
  ASSUME NEW c \in Seq(Frames), c # <<>>, Nest(c), c[1].k = "line", c[1].what # "plain"
  PROVE  Len(c) = 1 /\ c[1].what = "user" /\ Tail(c) = <<>> /\ ~Leaving(c)
<1>1. Len(c) \in Nat /\ Len(c) >= 1
      BY DepthOf
<1>2. Len(c) = 1
      <2>1. CASE Len(c) > 1
            <3>1. 1 \in 1 .. Len(c) - 1
                  BY <1>1, <2>1
            <3>2. Within(c[1])
                  BY <3>1 DEF Nest
            <3> QED
                BY <3>2 DEF Within
      <2>2. Len(c) = 1 \/ Len(c) > 1
            BY DepthOf, Zenon
      <2> QED
          BY <2>1, <2>2
<1>3. Tail(c) = <<>>
      BY <1>2, DepthOf, Zenon
<1>4. c[1].what = "user" /\ 1 .. Len(c) = {1}
      BY <1>2 DEF Nest, Typed
<1>5. ~Leaving(c)
      BY <1>4 DEF Leaving, Left
<1> QED
    BY <1>2, <1>3, <1>4, <1>5
\* The shell goes on with fs in place of its innermost call, which is not the line typed:
\* a flag that came down pays for what fs adds.
Turns(fs) ==
  /\ Becomes("shell", fs) /\ Len(stack["shell"]) > 1 /\ Fits(fs, Top("shell"))
  /\ UNCHANGED <<alive, traps, sent, onExit>>
  /\ IF Top("shell").k = "exit" THEN Leaving(fs) /\ TrapRan' ELSE ~Leaving(fs) /\ UNCHANGED exitRuns
  /\ Cardinality(Up') \in Nat /\ Cardinality(Up') <= Cardinality(Up)
  /\ fs # <<>> => Len(fs) - 1 + Need(fs[1]) + 2 * Cardinality(Up') <= Need(Top("shell")) + 2 * Cardinality(Up)

\* What is left to show of such a step is about fs.
LEMMA NestStep ==
  ASSUME IInv, NestInv, alive["shell"] = "run", stack["shell"] # <<>>, Cardinality(Up) \in Nat,
         NEW fs \in Seq(Frames), Turns(fs)
  PROVE  NestInv'
<1>0. /\ Becomes("shell", fs) /\ Len(stack["shell"]) > 1 /\ Fits(fs, Top("shell"))
      /\ UNCHANGED <<alive, traps, sent, onExit>>
      /\ IF Top("shell").k = "exit" THEN Leaving(fs) /\ TrapRan' ELSE ~Leaving(fs) /\ UNCHANGED exitRuns
      /\ Cardinality(Up') \in Nat /\ Cardinality(Up') <= Cardinality(Up)
      /\ fs # <<>> =>
           Len(fs) - 1 + Need(fs[1]) + 2 * Cardinality(Up') <= Need(Top("shell")) + 2 * Cardinality(Up)
      BY DEF Turns
<1> DEFINE c == stack["shell"]
           new == fs \o Tail(c)
<1>1. c \in Seq(Frames) /\ c # <<>> /\ Len(c) > 1 /\ Len(c) \in Nat /\ Nest(c) /\ c[1] = Top("shell") /\ stack'["shell"] = new
      <2>1. stack \in [Processes -> Seq(Frames)]
            BY DEF IInv, TypeOK, Frames
      <2> QED
          BY <1>0, <2>1, SMTT(30) DEF NestInv, Top, Becomes, Processes
<1>2. /\ Nest(new)
      /\ fs # <<>> => Depth(new) = Len(fs) + Len(c) - 1 + Need(fs[1])
      /\ fs = <<>> => Depth(new) <= Depth(c) \/ Depth(new) = 5
      /\ Leaving(new) <=> Leaving(fs) \/ (Leaving(c) /\ c[1].k # "exit")
      <2>1. Fits(fs, c[1])
            BY <1>0, <1>1
      <2> QED
          BY ONLY <1>1, <2>1, fs \in Seq(Frames), NestKeeps
<1> HIDE DEF c, new
<1>3. Depth(c) = Len(c) + Need(c[1]) /\ c[1] \in Frames /\ Need(c[1]) \in Nat
      <2>1. c[1] \in Frames
            BY <1>1
      <2>2. Need(c[1]) \in Nat
            BY <2>1 DEF Need, Frames
      <2> QED
          BY <1>1, <2>1, <2>2 DEF Depth
<1>4. sent \in Nat /\ Len(fs) \in Nat
      <2>1. sent \in 0 .. MaxSent
            BY DEF IInv, TypeOK
      <2> QED
          BY <2>1
<1>5. Cardinality(Up) <= sent /\ Depth(c) + 2 * Cardinality(Up) <= 5 + 2 * sent
      BY DEF NestInv, Room, c
<1>6. Depth(new) + 2 * Cardinality(Up') <= 5 + 2 * sent
      <2>1. CASE fs = <<>>
            <3>1. Depth(new) \in Nat
                  <4>1. new \in Seq(Frames)
                        BY <1>1 DEF new
                  <4> QED
                      BY <4>1, DepthOf
            <3> QED
                  <4>1. Depth(new) <= Depth(c) \/ Depth(new) = 5
                        BY <1>2, <2>1
                  <4>2. Cardinality(Up') \in Nat /\ Cardinality(Up') <= Cardinality(Up)
                        BY <1>0
                  <4>3. Depth(c) \in Int
                        BY <1>1, <1>3
                  <4> QED
                      BY ONLY <1>4, <1>5, <3>1, <4>1, <4>2, <4>3, Cardinality(Up) \in Nat
      <2>2. CASE fs # <<>>
            <3>1. Need(fs[1]) \in Nat
                  <4>1. fs[1] \in Frames
                        BY <2>2
                  <4> QED
                      BY <4>1 DEF Need, Frames
            <3>2. /\ Depth(new) = Len(fs) + Len(c) - 1 + Need(fs[1])
                  /\ Len(fs) - 1 + Need(fs[1]) + 2 * Cardinality(Up') <= Need(c[1]) + 2 * Cardinality(Up)
                  BY <1>0, <1>1, <1>2, <2>2
            <3> QED
                  <4>1. Cardinality(Up') \in Nat
                        BY <1>0
                  <4>2. Len(c) \in Nat /\ Need(c[1]) \in Nat /\ Depth(c) = Len(c) + Need(c[1])
                        BY <1>1, <1>3
                  <4> DEFINE up == Cardinality(Up)
                             left == Cardinality(Up')
                             n == Len(fs)
                             need == Need(fs[1])
                             was == Need(c[1])
                             long == Len(c)
                             deep == Depth(c)
                             deeper == Depth(new)
                  <4>3. up \in Nat /\ left \in Nat /\ n \in Nat /\ need \in Nat /\ was \in Nat /\ long \in Nat /\ sent \in Nat
                        BY <1>4, <3>1, <4>1, <4>2
                  <4>4. /\ deeper = n + long - 1 + need /\ n - 1 + need + 2 * left <= was + 2 * up
                        /\ deep = long + was /\ deep + 2 * up <= 5 + 2 * sent
                        BY <1>5, <3>2, <4>2
                  <4> HIDE DEF up, left, n, need, was, long, deep, deeper
                  <4>5. deeper + 2 * left <= 5 + 2 * sent
                        BY <4>3, <4>4
                  <4> QED
                      BY <4>5 DEF deeper, left
      <2> QED
          BY <2>1, <2>2
<1>7. Room'
      BY <1>0, <1>1, <1>4, <1>5, <1>6 DEF Room
<1>8. alive'["shell"] = "run" /\ onExit' = 0 /\ (IF Leaving(c) THEN TrapRan ELSE exitRuns = 0)
      BY <1>0 DEF NestInv, Leaves, c
<1>9. IF Leaving(new) THEN TrapRan' ELSE exitRuns' = 0
      <2>1. CASE Top("shell").k = "exit"
            BY <1>0, <1>2, <2>1
      <2>2. CASE Top("shell").k # "exit"
            BY <1>0, <1>1, <1>2, <1>8, <2>2 DEF TrapRan
      <2> QED
          BY <2>1, <2>2
<1> QED
    BY <1>1, <1>2, <1>7, <1>8, <1>9 DEF NestInv, Leaves

\* A call of the line typed: whatever was left to do is in its place.
LEMMA NestFresh ==
  ASSUME IInv, NestInv, alive["shell"] = "run", NEW c \in Seq(Frames), stack'["shell"] = c,
         Nest(c), ~Leaving(c), Depth(c) <= 5, Depth(c) \in Int, ~Leaving(stack["shell"]),
         alive'["shell"] = alive["shell"], UNCHANGED <<sent, onExit, exitRuns>>,
         pending'["shell"] = pending["shell"], Cardinality(Up) \in Nat
  PROVE  NestInv'
<1>1. sent \in Nat /\ Cardinality(Up) <= sent /\ Up' = Up
      <2>1. sent \in 0 .. MaxSent
            BY DEF IInv, TypeOK
      <2> QED
          BY <2>1 DEF NestInv, Room, Up
<1>2. Depth(c) + 2 * Cardinality(Up) <= 5 + 2 * sent
      BY <1>1
<1>3. Room'
      BY <1>1, <1>2 DEF Room
<1> QED
    BY <1>3 DEF NestInv, Leaves

\* The flags that are up.
LEMMA UpIsFinite ==
  /\ IsFiniteSet(Up) /\ Cardinality(Up) \in Nat
  /\ \A s \in Sigs : /\ Up' = Up \ {s} => Cardinality(Up') = Cardinality(Up) - (IF s \in Up THEN 1 ELSE 0)
                     /\ Up' \subseteq Up \cup {s} => IsFiniteSet(Up') /\ Cardinality(Up') <= Cardinality(Up) + 1
<1>1. Up \subseteq Sigs /\ IsFiniteSet(Sigs)
      BY DEF Up
<1>2. IsFiniteSet(Up) /\ Cardinality(Up) \in Nat
      BY <1>1, FS_Subset, FS_CardinalityType, Zenon
<1>3. ASSUME NEW s \in Sigs, Up' = Up \ {s}
      PROVE  Cardinality(Up') = Cardinality(Up) - (IF s \in Up THEN 1 ELSE 0)
      <2>1. Cardinality(Up \ {s}) = IF s \in Up THEN Cardinality(Up) - 1 ELSE Cardinality(Up)
            BY <1>2, FS_RemoveElement, Zenon
      <2> QED
          BY <1>2, <1>3, <2>1
<1>4. ASSUME NEW s \in Sigs, Up' \subseteq Up \cup {s}
      PROVE  IsFiniteSet(Up') /\ Cardinality(Up') <= Cardinality(Up) + 1
      <2> DEFINE more == Up \cup {s}
      <2>1. /\ IsFiniteSet(more)
            /\ Cardinality(more) = IF s \in Up THEN Cardinality(Up) ELSE Cardinality(Up) + 1
            BY <1>2, FS_AddElement, Zenon
      <2> HIDE DEF more
      <2>2. IsFiniteSet(Up') /\ Cardinality(Up') <= Cardinality(more)
            <3>1. Up' \subseteq more
                  BY <1>4 DEF more
            <3> QED
                BY ONLY <2>1, <3>1, FS_Subset, Zenon
      <2>3. Cardinality(Up') \in Nat
            BY <2>2, FS_CardinalityType, Zenon
      <2> QED
          BY <1>2, <2>1, <2>2, <2>3
<1> QED
    BY <1>2, <1>3, <1>4
\* A step of the shell through its calls.
LEMMA NestCall ==
  ASSUME "exit" \notin Actions, IInv, NestInv, Executes("shell") \/ Exiting("shell")
  PROVE  NestInv'
<1> DEFINE c == stack["shell"]
           f == Top("shell")
           seg == AfterSegment("shell")
<1>1. alive["shell"] = "run" /\ c # <<>>
      BY DEF Executes, Exiting, Plain, LineDone, TrapBuiltin, Apply, Scan, ScanDone, Exit, FireExitTrap, ExitProcess,
             InSegment, In, Runs
<1>2. /\ c \in Seq(Frames) /\ Nest(c) /\ f = c[1] /\ f \in Frames /\ f.n \in Nat /\ Len(c) \in Nat
      /\ f.k \in {"line", "scan", "exit", "apply"}
      <2>1. c \in Seq(Frames)
            BY DEF IInv, TypeOK, Frames, Processes
      <2>2. f \in Frames /\ f = c[1]
            BY <1>1, <2>1 DEF Top
      <2> HIDE DEF f
      <2>3. f.n \in Nat /\ f.k \in {"line", "scan", "exit", "apply"}
            BY <2>2 DEF Frames
      <2>4. Nest(c)
            BY DEF NestInv
      <2>5. Len(c) \in Nat
            BY <2>1, DepthOf
      <2> QED
          BY <2>1, <2>2, <2>3, <2>4, <2>5
<1> HIDE DEF c, f
<1>3. /\ f.k # "line" => Len(c) > 1
      /\ f.k = "line" /\ f.what = "plain" => Len(c) > 1 /\ f.n <= 1
      /\ f.k = "line" /\ f.what # "plain" => /\ Len(c) = 1 /\ f.what = "user" /\ Tail(c) = <<>> /\ ~Leaving(c)
      <2>1. Len(c) >= 1
            BY <1>1, <1>2, DepthOf
      <2>2. Len(c) = 1 => Typed(f)
            BY <1>1, <1>2 DEF Nest
      <2>3. Len(c) > 1 => Within(f)
            <3> SUFFICES ASSUME Len(c) > 1 PROVE Within(f)
                OBVIOUS
            <3>1. 1 \in 1 .. Len(c) - 1
                  BY <1>2
            <3>2. Within(c[1])
                  BY <1>1, <1>2, <3>1 DEF Nest
            <3> QED
                BY <1>2, <3>2
      <2>4. Len(c) = 1 \/ Len(c) > 1
            BY <1>1, <1>2, DepthOf, Zenon
      <2>5. ASSUME f.k = "line", f.what # "plain"
            PROVE  Len(c) = 1 /\ f.what = "user" /\ Tail(c) = <<>> /\ ~Leaving(c)
            BY <1>1, <1>2, <2>5, TypedIsAlone
      <2> QED
          BY <2>2, <2>3, <2>4, <2>5 DEF Typed, Within
<1>4. Cardinality(Up) \in Nat /\ (Up' = Up => Cardinality(Up') = Cardinality(Up))
      BY UpIsFinite
<1>5. pending' = pending => Up' = Up
      BY DEF Up
<1>6. \A g : Frame("scan", g, "").k = "scan"
      BY DEF Frame
<1>7. Need(f) \in Nat
      BY <1>2 DEF Need
<1>8. c = stack["shell"] /\ f = Top("shell") /\ stack \in [Processes -> Seq(Frames)]
      BY DEF c, f, IInv, TypeOK, Frames
<1>9. ASSUME f.k = "line", f.n > 0, f.what # "plain"
      PROVE  /\ seg \in Seq(Frames) /\ Nest(seg) /\ ~Leaving(seg) /\ Depth(seg) = 2
             /\ \A g \in Frames : g.k = "apply" \/ (g.k = "exit" /\ g.n = 0) =>
                  /\ <<g>> \o seg \in Seq(Frames) /\ Nest(<<g>> \o seg) /\ ~Leaving(<<g>> \o seg)
                  /\ Depth(<<g>> \o seg) <= 5 /\ Depth(<<g>> \o seg) \in Int
             /\ \A fs \in Seq(Frames) : Becomes("shell", fs) => stack'["shell"] = fs
      <2> DEFINE line == <<Frame("scan", 1, ""), Frame("line", f.n - 1, "user")>>
      <2>1. f.n - 1 \in Nat
            BY <1>2, <1>9
      <2>2. seg = line
            BY <1>3, <1>8, <1>9 DEF AfterSegment
      <2>3. seg \in Seq(Frames) /\ \A g \in Frames : <<g>> \o seg \in Seq(Frames)
            BY <1>1, <1>8, <1>9, Pushed DEF Processes
      <2>4. ASSUME NEW g \in Frames, g.k = "apply" \/ (g.k = "exit" /\ g.n = 0)
            PROVE  /\ Nest(line) /\ ~Leaving(line) /\ Depth(line) = 2
                   /\ Nest(<<g>> \o line) /\ ~Leaving(<<g>> \o line) /\ Depth(<<g>> \o line) <= 5
            BY <2>1, <2>4, NestStarts
      <2>5. Frame("exit", 0, "") \in Frames /\ Frame("exit", 0, "").k = "exit" /\ Frame("exit", 0, "").n = 0
            BY DEF Frame, Frames
      <2>6. ASSUME NEW g \in Frames, <<g>> \o seg \in Seq(Frames) PROVE Depth(<<g>> \o seg) \in Int
            BY <2>6, DepthOf, Zenon
      <2>7. ASSUME NEW fs \in Seq(Frames), Becomes("shell", fs) PROVE stack'["shell"] = fs
            <3>1. stack'["shell"] = fs \o Tail(c)
                  BY <1>8, <2>7 DEF Becomes, Processes
            <3>2. Tail(c) = <<>>
                  BY <1>3, <1>9
            <3>3. fs \o <<>> = fs
                  BY ONLY <2>7
            <3> QED
                BY <3>1, <3>2, <3>3, Zenon
      <2> HIDE DEF line
      <2>8. seg \in Seq(Frames) /\ Nest(seg) /\ ~Leaving(seg) /\ Depth(seg) = 2
            BY <2>2, <2>3, <2>4, <2>5
      <2>9. ASSUME NEW g \in Frames, g.k = "apply" \/ (g.k = "exit" /\ g.n = 0)
            PROVE  /\ <<g>> \o seg \in Seq(Frames) /\ Nest(<<g>> \o seg) /\ ~Leaving(<<g>> \o seg)
                   /\ Depth(<<g>> \o seg) <= 5 /\ Depth(<<g>> \o seg) \in Int
            <3>1. <<g>> \o seg \in Seq(Frames)
                  BY <2>3
            <3>2. Nest(<<g>> \o line) /\ ~Leaving(<<g>> \o line) /\ Depth(<<g>> \o line) <= 5
                  BY <2>4, <2>9
            <3> QED
                BY <2>2, <2>6, <3>1, <3>2, Zenon
      <2> QED
          BY <2>7, <2>8, <2>9, Zenon
<1>10. <<>> \in Seq(Frames) /\ Fits(<<>>, f) /\ ~Leaving(<<>>)
       BY DEF Fits, Leaving
<1>11. ASSUME Becomes("shell", <<>>), f.k # "exit", Len(c) > 1, UNCHANGED <<alive, pending, traps, sent, exitRuns, onExit>>
       PROVE  NestInv'
       <2>1. Turns(<<>>)
             BY <1>4, <1>5, <1>8, <1>10, <1>11 DEF Turns
       <2> QED
           BY <1>1, <1>4, <1>8, <1>10, <2>1, NestStep
<1>12. ASSUME f.k = "line", f.what # "plain", NEW d \in Seq(Frames), stack'["shell"] = d, Nest(d), ~Leaving(d),
              Depth(d) <= 5, Depth(d) \in Int, UNCHANGED <<alive, pending, sent, exitRuns, onExit>>
       PROVE  NestInv'
       BY <1>1, <1>3, <1>4, <1>8, <1>12, NestFresh
<1>13. CASE Plain("shell")
       <2>1. /\ f.k = "line" /\ f.n > 0 /\ Becomes("shell", seg)
             /\ UNCHANGED <<alive, pending, traps, sent, exitRuns, onExit>>
             BY <1>8, <1>13 DEF Plain, InSegment, In, history
       <2>2. CASE f.what # "plain"
             BY <1>9, <1>12, <2>1, <2>2
       <2>3. CASE f.what = "plain"
             <3> DEFINE a == Frame("scan", 1, "")
                        b == Frame("line", 0, "plain")
             <3>1. f.n = 1 /\ Len(c) > 1 /\ Need(f) = 1
                   BY <1>2, <1>3, <2>1, <2>3 DEF Need
             <3>2. seg = <<a, b>>
                   BY <1>8, <2>3, <3>1 DEF AfterSegment
             <3>3. /\ a \in Frames /\ a.k = "scan" /\ Need(a) = 0 /\ Within(a) /\ ~Left(a)
                   /\ b \in Frames /\ b.k = "line" /\ Within(b) /\ Settled(b) /\ ~Left(b)
                   BY DEF Frame, Frames, Need, Within, Settled, Left
             <3> HIDE DEF a, b
             <3>4. /\ <<a, b>> \in Seq(Frames) /\ Len(<<a, b>>) = 2 /\ <<a, b>>[1] = a /\ <<a, b>>[2] = b
                   BY <3>3
             <3>5. Fits(<<a, b>>, f) /\ ~Leaving(<<a, b>>)
                   BY <3>3, <3>4 DEF Fits, Leaving
             <3>6. Len(<<a, b>>) - 1 + Need(<<a, b>>[1]) + 2 * Cardinality(Up') <= Need(f) + 2 * Cardinality(Up)
                   BY <1>4, <1>5, <2>1, <3>1, <3>3, <3>4
             <3>7. Cardinality(Up') = Cardinality(Up)
                   BY <1>4, <1>5, <2>1
             <3>8. /\ Becomes("shell", <<a, b>>) /\ Len(stack["shell"]) > 1 /\ Fits(<<a, b>>, Top("shell"))
                   /\ UNCHANGED <<alive, traps, sent, onExit>>
                   /\ Top("shell").k # "exit" /\ ~Leaving(<<a, b>>) /\ UNCHANGED exitRuns
                   BY <1>8, <2>1, <3>1, <3>2, <3>5
             <3>9. Cardinality(Up') \in Nat /\ Cardinality(Up') <= Cardinality(Up)
                   BY <1>4, <3>7
             <3>10. Turns(<<a, b>>)
                    BY <1>8, <3>6, <3>8, <3>9, Zenon DEF Turns
             <3> QED
                 BY <1>1, <1>4, <1>8, <3>4, <3>10, NestStep
       <2> QED
           BY <2>2, <2>3
<1>14. CASE LineDone("shell")
       <2>1. f.k = "line" /\ Becomes("shell", <<>>) /\ UNCHANGED <<alive, pending, traps, sent, exitRuns, onExit>>
             BY <1>8, <1>14 DEF LineDone, In, history
       <2>2. CASE f.what # "plain"
             <3>1. stack'["shell"] = <<>> \o Tail(c)
                   BY <1>8, <2>1 DEF Becomes, Processes
             <3>2. stack'["shell"] = <<>>
                   BY <1>3, <2>1, <2>2, <3>1
             <3>3. Nest(<<>>) /\ Depth(<<>>) = 0
                   BY DEF Nest, Depth
             <3>4. Depth(<<>>) <= 5 /\ Depth(<<>>) \in Int
                   BY <3>3
             <3> QED
                 BY <1>10, <2>1, <2>2, <3>2, <3>3, <3>4, <1>12
       <2>3. CASE f.what = "plain"
             BY <1>3, <1>11, <2>1, <2>3
       <2> QED
           BY <2>2, <2>3
<1>15. CASE TrapBuiltin("shell")
       <2>1. f.k = "line" /\ f.n > 0 /\ f.what = "user" /\ UNCHANGED <<alive, pending, sent, exitRuns, onExit>>
             BY <1>8, <1>15 DEF TrapBuiltin, InSegment, In, history
       <2>2. PICK s \in Sigs \cup {EXIT}, a \in {"none", "ignore"} \cup Actions :
               Becomes("shell", IF s = EXIT THEN seg ELSE <<Frame("apply", s, a)>> \o seg)
             BY <1>15 DEF TrapBuiltin
       <2>3. Frame("apply", s, a) \in Frames /\ Frame("apply", s, a).k = "apply"
             <3>1. s \in Nat /\ a \in {"plain", "exit", "ignore", "none"}
                   OBVIOUS
             <3> QED
                 BY <3>1 DEF Frame, Frames
       <2>4. CASE s = EXIT
             BY <1>9, <1>12, <2>1, <2>2, <2>4
       <2>5. CASE s # EXIT
             <3> DEFINE d == <<Frame("apply", s, a)>> \o seg
             <3>1. d \in Seq(Frames) /\ Nest(d) /\ ~Leaving(d) /\ Depth(d) <= 5 /\ Depth(d) \in Int
                   BY <1>9, <2>1, <2>3
             <3>2. stack'["shell"] = d
                   BY <1>9, <2>1, <2>2, <2>5, <3>1
             <3> HIDE DEF d
             <3> QED
                 BY <1>12, <2>1, <3>1, <3>2
       <2> QED
           BY <2>4, <2>5
<1>16. CASE Apply("shell")
       <2>1. f.k = "apply" /\ Becomes("shell", <<>>) /\ UNCHANGED <<alive, pending, traps, sent, exitRuns, onExit>>
             BY <1>8, <1>16 DEF Apply, In, history
       <2> QED
           BY <1>3, <1>11, <2>1
<1>17. CASE Scan("shell")
       <2> DEFINE rest(s) == Frame("scan", s + 1, "")
                  fires(s) == pending["shell"][s] /\ traps["shell"][s] \in Actions
                  first(s) == Frame("line", 1, traps["shell"][s])
       <2>1. f.k = "scan" /\ Len(c) > 1 /\ UNCHANGED <<alive, traps, sent, exitRuns, onExit>>
             BY <1>3, <1>8, <1>17 DEF Scan, In
       <2>2. PICK s \in Sigs :
               /\ pending' = [pending EXCEPT !["shell"][s] = FALSE]
               /\ Becomes("shell", IF fires(s) THEN <<first(s), rest(s)>> ELSE <<rest(s)>>)
             BY <1>17 DEF Scan, NextSignum
       <2>3. Up' = Up \ {s} /\ (fires(s) => s \in Up)
             <3>1. pending \in [Processes -> [Sigs -> BOOLEAN]]
                   BY DEF IInv, TypeOK
             <3>2. ~pending'["shell"][s] /\ \A t \in Sigs : t # s => pending'["shell"][t] = pending["shell"][t]
                   BY <2>2, <3>1 DEF Processes
             <3> QED
                 BY <3>2 DEF Up
       <2>4. Cardinality(Up') = Cardinality(Up) - (IF s \in Up THEN 1 ELSE 0)
             BY <2>3, UpIsFinite
       <2>p. Cardinality(Up') \in Nat /\ Cardinality(Up') <= Cardinality(Up)
             <3>1. Up' \subseteq Up \cup {s}
                   BY <2>3
             <3>2. IsFiniteSet(Up')
                   BY <3>1, UpIsFinite
             <3>3. Cardinality(Up') \in Nat
                   BY <3>2, FS_CardinalityType, Zenon
             <3> QED
                 BY <1>4, <2>4, <3>3
       <2>5. /\ rest(s) \in Frames /\ rest(s).k = "scan" /\ Need(rest(s)) = 0 /\ Within(rest(s)) /\ Settled(rest(s))
             /\ ~Left(rest(s))
             <3>1. s + 1 \in Nat
                   OBVIOUS
             <3> QED
                 BY <3>1 DEF Frame, Frames, Need, Within, Settled, Left
       <2>6. CASE ~fires(s)
             <3> DEFINE r == rest(s)
             <3>0. Becomes("shell", <<r>>)
                   BY <2>2, <2>6
             <3> HIDE DEF rest, fires, first, r
             <3>r. r \in Frames /\ r.k = "scan" /\ Need(r) = 0 /\ Within(r) /\ Settled(r) /\ ~Left(r)
                   BY <2>5 DEF r
             <3>1. <<r>> \in Seq(Frames) /\ Len(<<r>>) = 1 /\ <<r>>[1] = r /\ Fits(<<r>>, f) /\ ~Leaving(<<r>>)
                   BY <3>r DEF Fits, Leaving
             <3>2. Len(<<r>>) - 1 + Need(<<r>>[1]) + 2 * Cardinality(Up') <= Need(f) + 2 * Cardinality(Up)
                   BY <1>4, <1>7, <2>p, <3>1, <3>r
             <3>3. Turns(<<r>>)
                   BY <1>8, <2>1, <2>p, <3>0, <3>1, <3>2 DEF Turns
             <3> QED
                 BY <1>1, <1>4, <1>8, <3>1, <3>3, NestStep
       <2>7. CASE fires(s)
             <3> DEFINE a == first(s)
                        r == rest(s)
             <3>0. Becomes("shell", <<a, r>>)
                   BY <2>2, <2>7
             <3>1. a \in Frames /\ a.k = "line" /\ Need(a) = 1 /\ Within(a) /\ ~Left(a)
                   <4>1. traps["shell"][s] = "plain"
                         BY <2>7
                   <4> QED
                       BY <4>1 DEF Frame, Frames, Need, Within, Left
             <3>2. Cardinality(Up') = Cardinality(Up) - 1
                   BY <2>3, <2>4, <2>7
             <3> HIDE DEF rest, fires, first, r, a
             <3>r. r \in Frames /\ r.k = "scan" /\ Need(r) = 0 /\ Within(r) /\ Settled(r) /\ ~Left(r)
                   BY <2>5 DEF r
             <3>3. /\ <<a, r>> \in Seq(Frames) /\ Len(<<a, r>>) = 2 /\ <<a, r>>[1] = a /\ <<a, r>>[2] = r
                   BY <3>1, <3>r
             <3>4. Fits(<<a, r>>, f) /\ ~Leaving(<<a, r>>)
                   BY <3>1, <3>3, <3>r DEF Fits, Leaving
             <3>5. Len(<<a, r>>) - 1 + Need(<<a, r>>[1]) + 2 * Cardinality(Up') <= Need(f) + 2 * Cardinality(Up)
                   BY <1>4, <1>7, <3>1, <3>2, <3>3
             <3>6. Turns(<<a, r>>)
                   BY <1>8, <2>1, <2>p, <3>0, <3>4, <3>5 DEF Turns
             <3> QED
                 BY <1>1, <1>4, <1>8, <3>3, <3>6, NestStep
       <2> QED
           BY <2>6, <2>7
<1>18. CASE ScanDone("shell")
       <2>1. f.k = "scan" /\ Becomes("shell", <<>>) /\ UNCHANGED <<alive, pending, traps, sent, exitRuns, onExit>>
             BY <1>8, <1>18 DEF ScanDone, In, history
       <2> QED
           BY <1>3, <1>11, <2>1
<1>19. CASE Exit("shell")
       <2> DEFINE g == Frame("exit", 0, "")
       <2>1. /\ f.k = "line" /\ f.n > 0 /\ f.what # "plain" /\ Becomes("shell", <<g>> \o seg)
             /\ UNCHANGED <<alive, pending, sent, exitRuns, onExit>>
             BY <1>8, <1>19 DEF Exit, InSegment, In, history
       <2>2. g \in Frames /\ g.k = "exit" /\ g.n = 0
             BY DEF Frame, Frames
       <2> HIDE DEF g
       <2>3. /\ <<g>> \o seg \in Seq(Frames) /\ Nest(<<g>> \o seg) /\ ~Leaving(<<g>> \o seg)
             /\ Depth(<<g>> \o seg) <= 5 /\ Depth(<<g>> \o seg) \in Int /\ stack'["shell"] = <<g>> \o seg
             BY <1>9, <2>1, <2>2
       <2> QED
           BY <1>12, <2>1, <2>3
<1>20. CASE FireExitTrap("shell")
       <2> DEFINE r == Frame("exit", 1, "")
                  a == Frame("line", 1, traps["shell"][EXIT])
                  runs == traps["shell"][EXIT] \in Actions
       <2>1. /\ f.k = "exit" /\ f.n = 0 /\ Len(c) > 1 /\ UNCHANGED <<alive, pending, traps, sent, onExit>>
             /\ Becomes("shell", IF runs THEN <<a, r>> ELSE <<r>>)
             /\ exitRuns' = IF runs THEN exitRuns + 1 ELSE exitRuns
             BY <1>3, <1>8, <1>20 DEF FireExitTrap, In
       <2>2. r \in Frames /\ r.k = "exit" /\ Need(r) = 0 /\ Within(r) /\ Settled(r) /\ Left(r)
             BY DEF Frame, Frames, Need, Within, Settled, Left
       <2>3. Need(f) = 2
             BY <2>1 DEF Need
       <2>4. ~Leaving(c)
             <3>1. 1 \in 1 .. Len(c) - 1
                   BY <1>2, <2>1, DepthOf, Zenon
             <3>2. 1 = Len(c) - 2
                   BY <1>1, <1>2, <2>1, <3>1 DEF Nest
             <3>3. ASSUME NEW i \in 1 .. Len(c), Left(c[i]) PROVE FALSE
                   <4>1. i # Len(c)
                         BY <1>1, <1>2, <3>3 DEF Nest, Typed, Left
                   <4>2. i \in 1 .. Len(c) - 1
                         BY <1>2, <4>1
                   <4>3. i = Len(c) - 2
                         BY <1>1, <1>2, <3>3, <4>2 DEF Nest, Left
                   <4>4. f.n = 1
                         BY <1>2, <3>2, <3>3, <4>3 DEF Left
                   <4>5. f.n = 0
                         BY <2>1
                   <4> QED
                       BY <4>4, <4>5
             <3> QED
                 BY <3>3 DEF Leaving
       <2>5. TrapRan'
             <3>1. exitRuns = 0
                   BY <1>1, <2>4 DEF NestInv, Leaves, c
             <3>2. runs => exitRuns' = exitRuns + 1
                   BY <2>1
             <3>3. traps'["shell"][EXIT] = traps["shell"][EXIT]
                   BY <2>1
             <3> QED
                 BY <3>1, <3>2, <3>3 DEF TrapRan
       <2>6. CASE runs
             <3>1. a \in Frames /\ a.k = "line" /\ Need(a) = 1 /\ Within(a)
                   <4>1. traps["shell"][EXIT] = "plain"
                         BY <2>6
                   <4> QED
                       BY <4>1 DEF Frame, Frames, Need, Within
             <3>2. Becomes("shell", <<a, r>>)
                   BY <2>1, <2>6
             <3> HIDE DEF a, r
             <3>3. /\ <<a, r>> \in Seq(Frames) /\ Len(<<a, r>>) = 2 /\ <<a, r>>[1] = a /\ <<a, r>>[2] = r
                   BY <2>2, <3>1
             <3>4. Fits(<<a, r>>, f) /\ Leaving(<<a, r>>)
                   BY <2>1, <2>2, <3>1, <3>3 DEF Fits, Leaving
             <3>5. Len(<<a, r>>) - 1 + Need(<<a, r>>[1]) + 2 * Cardinality(Up') <= Need(f) + 2 * Cardinality(Up)
                   BY <1>4, <1>5, <2>1, <2>3, <3>1, <3>3
             <3>6. Turns(<<a, r>>)
                   BY <1>4, <1>5, <1>8, <2>1, <2>5, <3>2, <3>4, <3>5 DEF Turns
             <3> QED
                 BY <1>1, <1>4, <1>8, <3>3, <3>6, NestStep
       <2>7. CASE ~runs
             <3>2. Becomes("shell", <<r>>)
                   BY <2>1, <2>7
             <3> HIDE DEF a, r
             <3>3. <<r>> \in Seq(Frames) /\ Len(<<r>>) = 1 /\ <<r>>[1] = r
                   BY <2>2
             <3>4. Fits(<<r>>, f) /\ Leaving(<<r>>)
                   BY <2>1, <2>2, <3>3 DEF Fits, Leaving
             <3>5. Len(<<r>>) - 1 + Need(<<r>>[1]) + 2 * Cardinality(Up') <= Need(f) + 2 * Cardinality(Up)
                   BY <1>4, <1>5, <2>1, <2>2, <2>3, <3>3
             <3>6. Turns(<<r>>)
                   BY <1>4, <1>5, <1>8, <2>1, <2>5, <3>2, <3>4, <3>5 DEF Turns
             <3> QED
                 BY <1>1, <1>4, <1>8, <3>3, <3>6, NestStep
       <2> QED
           BY <2>6, <2>7
<1>21. CASE ExitProcess("shell")
       <2>1. /\ f.k = "exit" /\ f.n = 1 /\ alive' = [alive EXCEPT !["shell"] = "exited"] /\ onExit' = onExit + 1
             /\ UNCHANGED <<stack, pending, traps, sent, exitRuns>>
             BY <1>8, <1>21 DEF ExitProcess, In
       <2>2. Leaving(c)
             <3>1. 1 \in 1 .. Len(c)
                   BY <1>1, <1>2
             <3> QED
                 BY <1>2, <2>1, <3>1 DEF Leaving, Left
       <2>3. onExit = 0 /\ TrapRan
             BY <1>1, <2>2 DEF NestInv, Leaves, c
       <2>4. alive'["shell"] = "exited"
             BY <2>1 DEF IInv, TypeOK, Processes
       <2>5. Up' = Up
             BY <1>5, <2>1
       <2> QED
           BY <2>1, <2>3, <2>4, <2>5 DEF NestInv, Room, Leaves, TrapRan
<1> QED
    BY <1>13, <1>14, <1>15, <1>16, <1>17, <1>18, <1>19, <1>20, <1>21 DEF Executes, Exiting
\* Every step of the shell, of its subshell and of the user.
LEMMA NestNext ==
  ASSUME "exit" \notin Actions, ~Eof, MaxDepth >= 5 + 2 * MaxSent, IInv, NestInv, [Next]_vars
  PROVE  NestInv'
<1>1. /\ stack \in [Processes -> Seq(Frames)] /\ pending \in [Processes -> [Sigs -> BOOLEAN]]
      /\ alive \in [Processes -> {"off", "run", "exited", "killed", "overflow"}]
      /\ sent \in 0 .. MaxSent
      BY DEF IInv, TypeOK, Frames
<1>2. Cardinality(Up) \in Nat
      BY UpIsFinite
<1>3. ASSUME UNCHANGED <<sent, exitRuns, onExit>>, alive'["shell"] = alive["shell"],
             stack'["shell"] = stack["shell"], pending'["shell"] = pending["shell"], traps'["shell"] = traps["shell"]
      PROVE  NestInv'
      <2>1. Up' = Up
            BY <1>3 DEF Up
      <2> QED
          BY <1>3, <2>1 DEF NestInv, Room, Leaves, TrapRan
<1>4. CASE Executes("shell") \/ Exiting("shell")
      BY <1>4, NestCall
<1>5. CASE Executes("sub") \/ Exiting("sub")
      <2>1. UNCHANGED <<sent, exitRuns, onExit>>
            BY <1>5 DEF Executes, Exiting, Plain, LineDone, TrapBuiltin, Apply, Scan, ScanDone, Exit, FireExitTrap,
               ExitProcess, history
      <2>2. alive'["shell"] = alive["shell"] /\ stack'["shell"] = stack["shell"]
            BY <1>1, <1>5 DEF Executes, Exiting, Plain, LineDone, TrapBuiltin, Apply, Scan, ScanDone, Exit,
               FireExitTrap, ExitProcess, Becomes, Processes
      <2>3. pending'["shell"] = pending["shell"] /\ traps'["shell"] = traps["shell"]
            <3>1. traps \in [Processes -> [Sigs \cup {EXIT} -> {"none", "ignore"} \cup Actions]]
                  BY DEF IInv, TypeOK
            <3> QED
                BY <1>1, <1>5, <3>1 DEF Executes, Exiting, Plain, LineDone, TrapBuiltin, Apply, Scan, ScanDone,
                   Exit, FireExitTrap, ExitProcess, Processes
      <2> QED
          BY <1>3, <2>1, <2>2, <2>3
<1>6. CASE UserLine
      <2>1. PICK n \in 0 .. MaxSegs : stack' = [stack EXCEPT !["shell"] = <<Frame("line", n, "user")>>]
            BY <1>6 DEF UserLine
      <2>2. /\ stack["shell"] = <<>> /\ alive["shell"] = "run"
            /\ UNCHANGED <<alive, pending, sent, exitRuns, onExit>>
            BY <1>6 DEF UserLine, Runs, history
      <2> DEFINE f == Frame("line", n, "user")
      <2>3. f \in Frames /\ f.k = "line" /\ Typed(f) /\ Need(f) = 4
            BY DEF Frame, Frames, Typed, Need
      <2>4. stack'["shell"] = <<f>>
            BY <1>1, <2>1 DEF Processes
      <2> HIDE DEF f
      <2>5. <<f>> \in Seq(Frames) /\ Nest(<<f>>) /\ ~Leaving(<<f>>) /\ Depth(<<f>>) = 5
            BY <2>3 DEF Nest, Leaving, Left, Depth
      <2>6. ~Leaving(stack["shell"])
            BY <2>2 DEF Leaving
      <2>7. Depth(<<f>>) <= 5 /\ Depth(<<f>>) \in Int
            BY <2>5
      <2> QED
          BY <1>2, <2>2, <2>4, <2>5, <2>6, <2>7, NestFresh
<1>7. CASE Fork
      <2> DEFINE c == stack["shell"]
                 seg == AfterSegment("shell")
                 line == <<Frame("scan", 1, ""), Frame("line", Top("shell").n - 1, "user")>>
      <2>1. /\ alive["shell"] = "run" /\ alive' = [alive EXCEPT !["sub"] = "run"]
            /\ c # <<>> /\ Top("shell").k = "line" /\ Top("shell").n > 0 /\ Top("shell").what = "user"
            /\ pending' = [pending EXCEPT !["sub"] = pending["shell"]]
            /\ stack' = [stack EXCEPT !["sub"] = <<Frame("line", 1, "user")>>, !["shell"] = seg \o Tail(@)]
            /\ UNCHANGED <<sent, exitRuns, onExit>>
            BY <1>7 DEF Fork, InSegment, In, Runs, history
      <2>2. c \in Seq(Frames) /\ c[1] = Top("shell") /\ Top("shell").n - 1 \in Nat
            <3>1. c \in Seq(Frames)
                  BY <1>1 DEF Processes
            <3>2. c[1] = Top("shell") /\ c[1] \in Frames
                  BY <2>1, <3>1 DEF Top
            <3>3. Top("shell").n \in Nat
                  BY <3>2 DEF Frames
            <3>4. ASSUME NEW n \in Nat, n > 0 PROVE n - 1 \in Nat
                  BY <3>4
            <3> QED
                BY <2>1, <3>1, <3>2, <3>3, <3>4, Zenon
      <2>3. Tail(c) = <<>> /\ ~Leaving(c)
            BY <2>1, <2>2, TypedIsAlone DEF NestInv
      <2>4. seg = line
            BY <2>1 DEF AfterSegment
      <2>5. seg \in Seq(Frames)
            BY <2>1, Pushed DEF Processes
      <2>6. stack'["shell"] = seg
            <3>1. stack'["shell"] = seg \o Tail(c)
                  BY <1>1, <2>1 DEF Processes
            <3>2. ASSUME NEW s \in Seq(Frames) PROVE s \o <<>> = s
                  OBVIOUS
            <3> QED
                BY <2>3, <2>5, <3>1, <3>2, Zenon
      <2>7. Nest(line) /\ ~Leaving(line) /\ Depth(line) = 2
            <3>1. Frame("exit", 0, "") \in Frames /\ Frame("exit", 0, "").k = "exit" /\ Frame("exit", 0, "").n = 0
                  BY DEF Frame, Frames
            <3> QED
                BY <2>2, <3>1, NestStarts
      <2>8. alive'["shell"] = alive["shell"] /\ pending'["shell"] = pending["shell"]
            BY <1>1, <2>1 DEF Processes
      <2> HIDE DEF c, seg, line
      <2>9. Depth(seg) <= 5 /\ Depth(seg) \in Int /\ Nest(seg) /\ ~Leaving(seg)
            BY <2>4, <2>7
      <2> QED
          BY <1>2, <2>1, <2>3, <2>5, <2>6, <2>8, <2>9, NestFresh DEF c
<1>8. CASE SubDone \/ Reaped \/ Overflow("sub") \/ UNCHANGED vars
      <2>1. /\ UNCHANGED <<stack, pending, traps, sent, exitRuns, onExit>>
            /\ alive'["shell"] = alive["shell"]
            BY <1>1, <1>8 DEF SubDone, Reaped, Overflow, vars, history, Processes
      <2> QED
          BY <1>3, <2>1
<1>9. ~CtrlD /\ ~Overflow("shell")
      <2>1. ASSUME Overflow("shell") PROVE FALSE
            <3> DEFINE c == stack["shell"]
            <3>1. c \in Seq(Frames) /\ Len(c) \in Nat /\ Len(c) > MaxDepth
                  BY <1>1, <2>1 DEF Overflow, Processes
            <3>2. Len(c) <= Depth(c) /\ Depth(c) \in Int
                  BY <3>1, DepthOf, Zenon
            <3>3. Depth(c) + 2 * Cardinality(Up) <= 5 + 2 * sent
                  BY DEF NestInv, Room
            <3>4. sent \in Nat /\ sent <= MaxSent /\ MaxSent \in Nat /\ MaxDepth \in Nat
                  BY <1>1
            <3> HIDE DEF c
            <3> QED
                BY <1>2, <3>1, <3>2, <3>3, <3>4
      <2> QED
          BY <2>1 DEF CtrlD
<1>10. ASSUME NEW p \in Processes, NEW s \in Sigs, Signal(p, s) PROVE NestInv'
       <2>1. sent' = sent + 1 /\ UNCHANGED <<stack, traps, exitRuns, onExit>>
             BY <1>10 DEF Signal
       <2>2. Up' \subseteq Up \cup {s}
             <3>1. pending' = pending \/ pending' = [pending EXCEPT ![p][s] = TRUE]
                   BY <1>10 DEF Signal, Deliver
             <3>2. \A t \in Sigs : t # s => pending'["shell"][t] = pending["shell"][t]
                   BY <1>1, <3>1 DEF Processes
             <3> QED
                 BY <3>2 DEF Up
       <2>3. Cardinality(Up') \in Nat /\ Cardinality(Up') <= Cardinality(Up) + 1
             <3>1. IsFiniteSet(Up') /\ Cardinality(Up') <= Cardinality(Up) + 1
                   BY <2>2, UpIsFinite
             <3>2. Cardinality(Up') \in Nat
                   BY <3>1, FS_CardinalityType, Zenon
             <3> QED
                 BY <3>1, <3>2
       <2>4. Depth(stack["shell"]) \in Int
             <3>1. stack["shell"] \in Seq(Frames)
                   BY <1>1 DEF Processes
             <3> QED
                 BY <3>1, DepthOf, Zenon
       <2>5. Room'
             <3>1. Cardinality(Up) <= sent /\ Depth(stack["shell"]) + 2 * Cardinality(Up) <= 5 + 2 * sent
                   BY DEF NestInv, Room
             <3>2. sent \in Nat
                   BY <1>1
             <3>3. /\ Cardinality(Up') <= sent + 1
                   /\ Depth(stack["shell"]) + 2 * Cardinality(Up') <= 5 + 2 * (sent + 1)
                   BY <1>2, <2>3, <2>4, <3>1, <3>2
             <3> QED
                 BY <2>1, <3>3 DEF Room
       <2>6. alive'["shell"] = alive["shell"] \/ alive'["shell"] = "killed"
             BY <1>1, <1>10 DEF Signal, Deliver, Processes
       <2> QED
           BY <2>1, <2>5, <2>6 DEF NestInv, Leaves, TrapRan
<1> QED
    BY <1>4, <1>5, <1>6, <1>7, <1>8, <1>9, <1>10, Zenon DEF Next, Steps, Processes

\* When no trap command is itself an exit, the exit builtin of the shell runs the EXIT trap once
\* and then the on_exit hooks once, and check_and_fire_traps never nests deeper than two
\* calls for each signal sent over the five of a typed line: the shell cannot run out of stack.
THEOREM ExitRunsTrapThenHooks ==
  ASSUME "exit" \notin Actions, ~Eof, MaxDepth >= 5 + 2 * MaxSent PROVE Spec => []ExitTrapThenHooks
<1>1. Init => NestInv
      <2> SUFFICES ASSUME Init PROVE NestInv
          OBVIOUS
      <2>1. stack["shell"] = <<>> /\ sent = 0 /\ onExit = 0 /\ exitRuns = 0 /\ alive["shell"] = "run"
            BY DEF Init, Processes
      <2>2. Up = {}
            BY DEF Init, Up, Processes
      <2>3. Cardinality(Up) = 0
            BY <2>2, FS_EmptySet, Zenon
      <2> QED
          BY <2>1, <2>3 DEF NestInv, Nest, Room, Depth, Leaves, Leaving
<1>2. IInv /\ NestInv /\ [Next]_vars => NestInv'
      BY NestNext
<1>3. NestInv => ExitTrapThenHooks
      BY DEF NestInv, Leaves, TrapRan, ExitTrapThenHooks
<1> QED
    BY <1>1, <1>2, <1>3, Invariance, PTL DEF Spec
=============================================================================
