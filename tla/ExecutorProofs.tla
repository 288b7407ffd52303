--------------------------- MODULE ExecutorProofs ---------------------------
(* The safety hook and its one flag, for any aliases that are not aliases   *)
(* of aliases, any fixes, and any number of commands and segments.          *)
EXTENDS Executor, SequenceTheorems, TLAPS

Frames == [k : {"line", "call", "ran", "hooked", "recorded", "start", "check", "run",
                "capture", "captured", "wait", "zero", "fix"},
           n : Nat, id : Nat, s : Statuses,
           w : Words \cup {NoWord}, seen : Words \cup {NoWord}, v : BOOLEAN]

\* The calls that return to another one.
Under(p) == {"start", "check", "run", "zero", "fix", "capture", "captured"} \cup (IF p = "shell" THEN {"wait"} ELSE {})

\* A call that waits for an inner one was not vetoed, and if it is a command whose
\* words were shown to the hooks it had a substitution.
Unread == Later \cup {NoWord}
Waits(f) ==
  /\ ~f.v
  /\ f.k \in {"check", "run"} => f.seen \in Unread \/ (f.seen \in Substs /\ f.w = HeadOf(f.seen))
  /\ f.k = "start" => f.seen = NoWord

\* The innermost call: a veto has not been passed by, and what was shown, or what
\* its substitutions have left of it, is what the word still stands for.
Shown(f, table) ==
  /\ f.v => f.k \in {"check", "captured"}
  /\ f.k \in {"check", "run"} /\ f.seen \notin Unread =>
       f.w \in {f.seen, HeadOf(f.seen)} /\ ~(f.w \in AliasNames /\ table[f.w] # NoWord /\ table[f.w] # f.w)
  /\ f.k = "start" => f.seen = NoWord

Settled(p, t) == \A i \in 1 .. Len(t) : Waits(t[i]) /\ (t[i].k \in Under(p) => i < Len(t))
Good(p, t, table) ==
  /\ \A i \in 1 .. Len(t) : (i > 1 => Waits(t[i])) /\ (t[i].k \in Under(p) => i < Len(t))
  /\ t # <<>> => Shown(t[1], table)

\* The flag is up exactly while the innermost call has just been vetoed.
FlagIsVeto == \A p \in Processes : alive[p] => (skip[p] <=> (stack[p] # <<>> /\ Top(p).v))

IInv ==
  /\ TypeOK
  /\ \A p \in Processes : Good(p, stack[p], aliases) /\ (~alive[p] => stack[p] = <<>>)
  /\ FlagIsVeto

LEMMA InitIInv == Init => IInv
<1> SUFFICES ASSUME Init PROVE IInv
    OBVIOUS
<1>1. TypeOK
      <2>1. stack \in [Processes -> Seq(Frames)]
            BY EmptySeq DEF Init
      <2> QED
          BY <2>1 DEF Init, TypeOK, Frames, Processes, Statuses
<1>2. \A p \in Processes : stack[p] = <<>> /\ ~skip[p]
      BY DEF Init
<1> QED
    BY <1>1, <1>2 DEF IInv, Good, FlagIsVeto

\* What begins with a command of its own is no alias.
LEMMA Heads ==
  /\ \A w \in Substs : HeadOf(w) \in Plain
  /\ \A w : w \notin Substs => HeadOf(w) = w
  /\ Plain \cap AliasNames = {} /\ Substs \cap AliasNames = {}
  /\ Plain \cap Substs = {} /\ Later \cap (Plain \cup Substs) = {}
  BY AliasAssumption DEF Substs, Plain, HeadOf, Names, Later

\* A call that has waited goes on with the first word it has shown.
LEMMA WaitsShown == ASSUME NEW f, Waits(f) PROVE \A table : Shown(f, table)
<1>1. f.k \in {"check", "run"} /\ f.seen \notin Unread => f.w = HeadOf(f.seen) /\ f.w \notin AliasNames
      BY Heads DEF Waits
<1> QED
    BY <1>1 DEF Waits, Shown

\* What is left of a stack when its innermost call is gone.
LEMMA TailSettles ==
  ASSUME NEW p \in Processes, NEW t \in Seq(Frames), NEW table, t # <<>>, Good(p, t, table) \/ Settled(p, t)
  PROVE  /\ Tail(t) \in Seq(Frames) /\ Settled(p, Tail(t))
         /\ t[1].k \in Under(p) => Tail(t) # <<>>
<1>1. /\ Tail(t) \in Seq(Frames) /\ Len(Tail(t)) = Len(t) - 1 /\ Len(t) \in Nat \ {0}
      /\ \A i \in 1 .. Len(Tail(t)) : Tail(t)[i] = t[i + 1] /\ i + 1 \in 2 .. Len(t)
      OBVIOUS
<1>2. \A i \in 2 .. Len(t) : Waits(t[i]) /\ (t[i].k \in Under(p) => i < Len(t))
      BY <1>1 DEF Good, Settled
<1>3. Settled(p, Tail(t))
      BY <1>1, <1>2 DEF Settled
<1>4. t[1].k \in Under(p) => 1 < Len(t)
      BY <1>1 DEF Good, Settled
<1>5. 1 < Len(t) => Tail(t) # <<>>
      <2>1. 1 < Len(t) => Len(Tail(t)) # 0
            BY <1>1, SMTT(30)
      <2>2. Len(<<>>) = 0
            OBVIOUS
      <2> QED
          BY <2>1, <2>2, Zenon
<1> QED
    BY <1>1, <1>3, <1>4, <1>5

\* New calls on a stack whose calls wait.
LEMMA Joined ==
  ASSUME NEW p \in Processes, NEW fs \in Seq(Frames), NEW rest \in Seq(Frames), Settled(p, rest), NEW table,
         \A i \in 2 .. Len(fs) : Waits(fs[i]),
         \A i \in 1 .. Len(fs) : fs[i].k \in Under(p) => i < Len(fs) \/ rest # <<>>,
         fs # <<>> => Shown(fs[1], table)
  PROVE  /\ fs \o rest \in Seq(Frames) /\ Good(p, fs \o rest, table)
         /\ fs # <<>> => fs \o rest # <<>> /\ (fs \o rest)[1] = fs[1]
         /\ fs = <<>> => fs \o rest = rest
<1> DEFINE t == fs \o rest
<1>1. /\ t \in Seq(Frames) /\ Len(t) = Len(fs) + Len(rest) /\ Len(fs) \in Nat /\ Len(rest) \in Nat
      /\ \A i \in 1 .. Len(t) : t[i] = IF i <= Len(fs) THEN fs[i] ELSE rest[i - Len(fs)]
      BY ConcatProperties
<1>2. rest # <<>> => Len(rest) > 0
      OBVIOUS
<1>3. fs # <<>> => Len(fs) > 0
      OBVIOUS
<1> HIDE DEF t
<1>4. ASSUME NEW i \in 1 .. Len(t) PROVE (i > 1 => Waits(t[i])) /\ (t[i].k \in Under(p) => i < Len(t))
      <2>1. CASE i <= Len(fs)
            <3>1. i \in 1 .. Len(fs) /\ (i > 1 => i \in 2 .. Len(fs)) /\ t[i] = fs[i]
                  BY <1>1, <2>1
            <3> QED
                BY <1>1, <1>2, <3>1
      <2>2. CASE ~(i <= Len(fs))
            <3>1. i - Len(fs) \in 1 .. Len(rest) /\ t[i] = rest[i - Len(fs)]
                  BY <1>1, <2>2
            <3>2. Waits(t[i]) /\ (t[i].k \in Under(p) => i - Len(fs) < Len(rest))
                  BY <3>1 DEF Settled
            <3> QED
                BY <1>1, <3>2
      <2> QED
          BY <2>1, <2>2
<1>5. t # <<>> => Shown(t[1], table)
      <2>1. CASE fs # <<>>
            <3>1. t[1] = fs[1]
                  BY <1>1, <1>3, <2>1
            <3> QED
                BY <2>1, <3>1
      <2>2. CASE fs = <<>> /\ t # <<>>
            <3>1. Len(fs) = 0 /\ 1 \in 1 .. Len(rest) /\ t[1] = rest[1]
                  BY <1>1, <2>2
            <3>2. Waits(rest[1])
                  BY <3>1 DEF Settled
            <3> QED
                BY <3>1, <3>2, WaitsShown
      <2> QED
          BY <2>1, <2>2
<1>6. Good(p, t, table)
      BY <1>4, <1>5 DEF Good
<1>7. fs # <<>> => t # <<>> /\ t[1] = fs[1]
      BY <1>1, <1>3
<1>8. fs = <<>> => t = rest
      BY DEF t
<1> QED
    BY <1>1, <1>6, <1>7, <1>8 DEF t

\* What every step of a process has to show.
LEMMA Goes ==
  ASSUME IInv, NEW p \in Processes, alive[p],
         NEW fs \in Seq(Frames), NEW rest \in Seq(Frames), Settled(p, rest),
         stack' = [stack EXCEPT ![p] = fs \o rest],
         \A i \in 2 .. Len(fs) : Waits(fs[i]),
         \A i \in 1 .. Len(fs) : fs[i].k \in Under(p) => i < Len(fs) \/ rest # <<>>,
         fs # <<>> => Shown(fs[1], aliases'),
         \/ aliases' = aliases
         \/ /\ aliases' \in [AliasNames -> AliasValues \cup {NoWord}]
            /\ \A q \in Processes : q # p => stack[q] = <<>>,
         skip' = [skip EXCEPT ![p] = (fs # <<>> /\ fs[1].v)],
         UNCHANGED <<alive, inSub>>,
         status' \in [Processes -> Statuses], err' \in [Processes -> Nat], cmds' \in Nat, db' \subseteq Processes
  PROVE  IInv'
<1> DEFINE t == fs \o rest
<1>1. /\ t \in Seq(Frames) /\ Good(p, t, aliases')
      /\ fs # <<>> => t # <<>> /\ t[1] = fs[1]
      /\ fs = <<>> => t = rest
      BY Joined, SMTT(60)
<1>2. stack \in [Processes -> Seq(Frames)] /\ skip \in [Processes -> BOOLEAN] /\ aliases \in [AliasNames -> AliasValues \cup {NoWord}]
      BY DEF IInv, TypeOK, Frames
<1>3. stack' = [stack EXCEPT ![p] = t]
      OBVIOUS
<1> HIDE DEF t
<1>4. stack'[p] = t /\ \A q \in Processes : q # p => stack'[q] = stack[q] /\ skip'[q] = skip[q]
      BY <1>2, <1>3
<1>5. skip' \in [Processes -> BOOLEAN] /\ skip'[p] = (fs # <<>> /\ fs[1].v)
      BY <1>2
<1>6. TypeOK'
      <2>1. stack' \in [Processes -> Seq(Frames)]
            BY <1>1, <1>2, <1>3
      <2>2. aliases' \in [AliasNames -> AliasValues \cup {NoWord}]
            BY <1>2
      <2>3. alive' \in [Processes -> BOOLEAN] /\ inSub' \in [Processes -> BOOLEAN]
            BY DEF IInv, TypeOK
      <2> QED
          BY <1>5, <2>1, <2>2, <2>3 DEF TypeOK, Frames
<1>7. ASSUME NEW q \in Processes PROVE Good(q, stack'[q], aliases') /\ (~alive'[q] => stack'[q] = <<>>)
      <2>1. CASE q = p
            BY <1>1, <1>4, <2>1
      <2>2. CASE q # p /\ aliases' = aliases
            BY <1>4, <2>2 DEF IInv
      <2>3. CASE q # p /\ aliases' # aliases
            <3>1. stack'[q] = <<>>
                  BY <1>4, <2>3
            <3>2. Good(q, <<>>, aliases')
                  BY DEF Good
            <3> QED
                BY <3>1, <3>2
      <2> QED
          BY <2>1, <2>2, <2>3
<1>8. FlagIsVeto'
      <2> SUFFICES ASSUME NEW q \in Processes, alive[q] PROVE skip'[q] <=> (stack'[q] # <<>> /\ Head(stack'[q]).v)
          BY DEF FlagIsVeto, Top
      <2>1. CASE q # p
            BY <1>4, <2>1 DEF IInv, FlagIsVeto, Top
      <2>2. CASE q = p /\ fs # <<>>
            <3>1. fs[1] \in Frames
                  BY <2>2
            <3>2. fs[1].v \in BOOLEAN
                  BY <3>1 DEF Frames
            <3>3. t # <<>> /\ Head(t) = fs[1]
                  BY <1>1, <2>2
            <3> QED
                BY <1>4, <1>5, <2>2, <3>2, <3>3
      <2>3. CASE q = p /\ fs = <<>>
            <3>1. rest # <<>> => ~Head(rest).v
                  BY DEF Settled, Waits
            <3> QED
                BY <1>1, <1>4, <1>5, <2>3, <3>1
      <2> QED
          BY <2>1, <2>2, <2>3
<1> QED
    BY <1>6, <1>7, <1>8 DEF IInv

\* The innermost call, and what is below it.
LEMMA Stacks ==
  ASSUME IInv, NEW p \in Processes, Runs(p)
  PROVE  /\ alive[p] /\ Top(p) \in Frames /\ Top(p) = stack[p][1] /\ Shown(Top(p), aliases) /\ skip[p] = Top(p).v
         /\ Tail(stack[p]) \in Seq(Frames) /\ Settled(p, Tail(stack[p]))
         /\ Top(p).k \in Under(p) => Tail(stack[p]) # <<>>
         /\ stack \in [Processes -> Seq(Frames)] /\ skip \in [Processes -> BOOLEAN]
         /\ status \in [Processes -> Statuses] /\ err \in [Processes -> Nat] /\ cmds \in Nat /\ db \subseteq Processes
<1>1. /\ stack \in [Processes -> Seq(Frames)] /\ skip \in [Processes -> BOOLEAN]
      /\ status \in [Processes -> Statuses] /\ err \in [Processes -> Nat] /\ cmds \in Nat /\ db \subseteq Processes
      BY DEF IInv, TypeOK, Frames
<1>2. alive[p] /\ stack[p] # <<>> /\ stack[p] \in Seq(Frames)
      BY <1>1 DEF Runs
<1>3. Top(p) \in Frames /\ Top(p) = stack[p][1]
      BY <1>2 DEF Top
<1>4. Good(p, stack[p], aliases)
      BY DEF IInv
<1>5. Shown(Top(p), aliases)
      BY <1>2, <1>3, <1>4 DEF Good
<1>6. skip[p] = Top(p).v
      <2>1. skip[p] \in BOOLEAN /\ Top(p).v \in BOOLEAN
            BY <1>1, <1>3 DEF Frames
      <2> QED
          BY <1>2, <2>1 DEF IInv, FlagIsVeto
<1>7. /\ Tail(stack[p]) \in Seq(Frames) /\ Settled(p, Tail(stack[p]))
      /\ stack[p][1].k \in Under(p) => Tail(stack[p]) # <<>>
      BY <1>2, <1>4, TailSettles
<1> QED
    BY <1>1, <1>2, <1>3, <1>5, <1>6, <1>7

\* The innermost call is replaced by one call, two or three.
LEMMA Calls ==
  ASSUME NEW a \in Frames, NEW b \in Frames, NEW c \in Frames
  PROVE  /\ <<a>> \in Seq(Frames) /\ Len(<<a>>) = 1 /\ <<a>>[1] = a /\ <<a>> # <<>>
         /\ <<a, b>> \in Seq(Frames) /\ Len(<<a, b>>) = 2 /\ <<a, b>>[1] = a /\ <<a, b>>[2] = b /\ <<a, b>> # <<>>
         /\ <<a, b, c>> \in Seq(Frames) /\ Len(<<a, b, c>>) = 3 /\ <<a, b, c>>[1] = a /\ <<a, b, c>>[2] = b
         /\ <<a, b, c>>[3] = c /\ <<a, b, c>> # <<>>
  OBVIOUS

\* What stays as it is, or changes without a rule.
Free ==
  /\ UNCHANGED <<alive, inSub, aliases>>
  /\ status' \in [Processes -> Statuses] /\ err' \in [Processes -> Nat] /\ cmds' \in Nat /\ db' \subseteq Processes

LEMMA Replaced ==
  ASSUME IInv, NEW p \in Processes, Runs(p), NEW fs \in Seq(Frames), Becomes(p, fs), Free,
         \A i \in 2 .. Len(fs) : Waits(fs[i]),
         \A i \in 1 .. Len(fs) : fs[i].k \in Under(p) => i < Len(fs) \/ Top(p).k \in Under(p),
         fs # <<>> => Shown(fs[1], aliases),
         skip' = [skip EXCEPT ![p] = (fs # <<>> /\ fs[1].v)]
  PROVE  IInv'
<1> DEFINE rest == Tail(stack[p])
<1>1. rest \in Seq(Frames) /\ Settled(p, rest) /\ (Top(p).k \in Under(p) => rest # <<>>) /\ alive[p]
      BY Stacks
<1>2. stack' = [stack EXCEPT ![p] = fs \o rest]
      BY DEF Becomes
<1>3. /\ UNCHANGED <<alive, inSub, aliases>>
      /\ status' \in [Processes -> Statuses] /\ err' \in [Processes -> Nat] /\ cmds' \in Nat /\ db' \subseteq Processes
      BY DEF Free
<1> HIDE DEF rest
<1>4. \A i \in 1 .. Len(fs) : fs[i].k \in Under(p) => i < Len(fs) \/ rest # <<>>
      BY <1>1
<1>5. fs # <<>> => Shown(fs[1], aliases')
      BY <1>3
<1> QED
    BY <1>1, <1>2, <1>3, <1>4, <1>5, Goes

LEMMA Becomes0 ==
  ASSUME IInv, NEW p \in Processes, Runs(p), Becomes(p, <<>>), Free, skip' = [skip EXCEPT ![p] = FALSE] PROVE IInv'
<1> DEFINE fs == <<>>
<1>1. fs \in Seq(Frames) /\ Len(fs) = 0 /\ fs = <<>>
      BY EmptySeq
<1>2. Becomes(p, fs)
      OBVIOUS
<1> HIDE DEF fs
<1>3. skip' = [skip EXCEPT ![p] = (fs # <<>> /\ fs[1].v)]
      BY <1>1
<1>4. \A i \in 2 .. Len(fs) : Waits(fs[i])
      BY <1>1
<1>5. \A i \in 1 .. Len(fs) : fs[i].k \in Under(p) => i < Len(fs) \/ Top(p).k \in Under(p)
      BY <1>1
<1>6. fs # <<>> => Shown(fs[1], aliases)
      BY <1>1
<1> QED
    BY <1>1, <1>2, <1>3, <1>4, <1>5, <1>6, Replaced

LEMMA Becomes1 ==
  ASSUME IInv, NEW p \in Processes, Runs(p), NEW a \in Frames, Becomes(p, <<a>>), Free,
         a.k \in Under(p) => Top(p).k \in Under(p), Shown(a, aliases),
         skip' = [skip EXCEPT ![p] = a.v]
  PROVE  IInv'
<1> DEFINE fs == <<a>>
<1>1. fs \in Seq(Frames) /\ Len(fs) = 1 /\ fs[1] = a /\ fs # <<>>
      BY Calls
<1>2. Becomes(p, fs)
      OBVIOUS
<1> HIDE DEF fs
<1>3. \A i \in 1 .. Len(fs) : fs[i].k \in Under(p) => i < Len(fs) \/ Top(p).k \in Under(p)
      BY <1>1
<1>4. skip' = [skip EXCEPT ![p] = (fs # <<>> /\ fs[1].v)]
      <2>1. a.v \in BOOLEAN
            BY DEF Frames
      <2> QED
          BY <1>1, <2>1
<1>5. \A i \in 2 .. Len(fs) : Waits(fs[i])
      BY <1>1
<1> QED
    BY <1>1, <1>2, <1>3, <1>4, <1>5, Replaced

LEMMA Becomes2 ==
  ASSUME IInv, NEW p \in Processes, Runs(p), NEW a \in Frames, NEW b \in Frames, Becomes(p, <<a, b>>), Free,
         ~a.v, Shown(a, aliases), Waits(b), b.k \in Under(p) => Top(p).k \in Under(p),
         skip' = [skip EXCEPT ![p] = FALSE]
  PROVE  IInv'
<1> DEFINE fs == <<a, b>>
<1>1. fs \in Seq(Frames) /\ Len(fs) = 2 /\ fs[1] = a /\ fs[2] = b /\ fs # <<>>
      BY Calls
<1>2. Becomes(p, fs)
      OBVIOUS
<1> HIDE DEF fs
<1>3. \A i \in 1 .. Len(fs) : fs[i].k \in Under(p) => i < Len(fs) \/ Top(p).k \in Under(p)
      BY <1>1
<1>4. skip' = [skip EXCEPT ![p] = (fs # <<>> /\ fs[1].v)]
      <2>1. a.v = FALSE
            BY DEF Frames
      <2> QED
          BY <1>1, <2>1
<1>5. \A i \in 2 .. Len(fs) : Waits(fs[i])
      BY <1>1
<1> QED
    BY <1>1, <1>2, <1>3, <1>4, <1>5, Replaced

LEMMA Becomes3 ==
  ASSUME IInv, NEW p \in Processes, Runs(p), NEW a \in Frames, NEW b \in Frames, NEW c \in Frames,
         Becomes(p, <<a, b, c>>), Free,
         ~a.v, Shown(a, aliases), Waits(b), Waits(c), c.k \notin Under(p),
         skip' = [skip EXCEPT ![p] = FALSE]
  PROVE  IInv'
<1> DEFINE fs == <<a, b, c>>
<1>1. fs \in Seq(Frames) /\ Len(fs) = 3 /\ fs[1] = a /\ fs[2] = b /\ fs[3] = c /\ fs # <<>>
      BY Calls
<1>2. Becomes(p, fs)
      OBVIOUS
<1> HIDE DEF fs
<1>3. \A i \in 1 .. Len(fs) : fs[i].k \in Under(p) => i < Len(fs) \/ Top(p).k \in Under(p)
      BY <1>1
<1>4. skip' = [skip EXCEPT ![p] = (fs # <<>> /\ fs[1].v)]
      <2>1. a.v = FALSE
            BY DEF Frames
      <2> QED
          BY <1>1, <2>1
<1>5. \A i \in 2 .. Len(fs) : Waits(fs[i])
      BY <1>1
<1> QED
    BY <1>1, <1>2, <1>3, <1>4, <1>5, Replaced

\* A command returns to the line it belongs to, or is dropped by the hook that ran it.
LEMMA Returned ==
  ASSUME IInv, NEW p \in Processes, Runs(p), Top(p).k \in Under(p), NEW s \in Statuses, Returns(p, s),
         UNCHANGED <<alive, inSub>>,
         \/ aliases' = aliases
         \/ /\ aliases' \in [AliasNames -> AliasValues \cup {NoWord}]
            /\ \A q \in Processes : q # p => stack[q] = <<>>,
         status' \in [Processes -> Statuses], err' \in [Processes -> Nat], cmds' \in Nat, db' \subseteq Processes,
         skip' = [skip EXCEPT ![p] = FALSE]
  PROVE  IInv'
<1> DEFINE under == Tail(stack[p])
<1>1. under \in Seq(Frames) /\ Settled(p, under) /\ under # <<>>
      BY Stacks
<1>2. Caller(p) = under[1] /\ Caller(p) \in Frames
      <2>1. stack[p] \in Seq(Frames) /\ stack[p] # <<>>
            BY Stacks DEF Runs
      <2> QED
          BY <1>1, <2>1 DEF Caller
<1>3. Tail(under) \in Seq(Frames) /\ Settled(p, Tail(under))
      BY <1>1, TailSettles
<1> DEFINE rest == Tail(under)
           a == [Caller(p) EXCEPT !.k = "ran", !.s = s]
<1>4. stack' = [stack EXCEPT ![p] = <<a>> \o rest] \/ stack' = [stack EXCEPT ![p] = rest]
      BY DEF Returns
<1>5. a \in Frames /\ a.k = "ran" /\ a.v = FALSE
      <2>1. Waits(Caller(p))
            BY <1>1, <1>2 DEF Settled
      <2> QED
          BY <1>2, <2>1 DEF Waits, Frames
<1>6. "ran" \notin Under(p)
      BY DEF Under
<1>7. rest \in Seq(Frames) /\ Settled(p, rest) /\ alive[p]
      BY <1>3, Stacks
<1> HIDE DEF under, rest, a
<1>8. CASE stack' = [stack EXCEPT ![p] = <<a>> \o rest]
      <2> DEFINE fs == <<a>>
      <2>1. fs \in Seq(Frames) /\ Len(fs) = 1 /\ fs[1] = a /\ fs # <<>>
            BY <1>5, Calls
      <2>2. stack' = [stack EXCEPT ![p] = fs \o rest]
            BY <1>8
      <2> HIDE DEF fs
      <2>3. Shown(fs[1], aliases')
            BY <1>5, <2>1 DEF Shown
      <2>4. skip' = [skip EXCEPT ![p] = (fs # <<>> /\ fs[1].v)]
            BY <1>5, <2>1
      <2>5. \A i \in 1 .. Len(fs) : fs[i].k \in Under(p) => i < Len(fs) \/ rest # <<>>
            BY <1>5, <1>6, <2>1
      <2>6. \A i \in 2 .. Len(fs) : Waits(fs[i])
            BY <2>1
      <2> QED
          BY <1>7, <2>1, <2>2, <2>3, <2>4, <2>5, <2>6, Goes
<1>9. CASE stack' = [stack EXCEPT ![p] = rest]
      <2> DEFINE fs == <<>>
      <2>1. fs \in Seq(Frames) /\ Len(fs) = 0 /\ fs = <<>> /\ rest = fs \o rest
            BY <1>7, EmptySeq
      <2> HIDE DEF fs
      <2>2. stack' = [stack EXCEPT ![p] = fs \o rest]
            BY <1>9, <2>1
      <2>3. skip' = [skip EXCEPT ![p] = (fs # <<>> /\ fs[1].v)]
            BY <2>1
      <2>4. \A i \in 2 .. Len(fs) : Waits(fs[i])
            BY <2>1
      <2>5. \A i \in 1 .. Len(fs) : fs[i].k \in Under(p) => i < Len(fs) \/ rest # <<>>
            BY <2>1
      <2>6. fs # <<>> => Shown(fs[1], aliases')
            BY <2>1
      <2> QED
          BY <1>7, <2>1, <2>2, <2>3, <2>4, <2>5, <2>6, Goes
<1> QED
    BY <1>4, <1>8, <1>9

\* The flag is that of the innermost call: it stays with it.
LEMMA SkipStays ==
  ASSUME IInv, NEW p \in Processes, Runs(p), UNCHANGED skip
  PROVE  skip' = [skip EXCEPT ![p] = Top(p).v]
<1>1. skip \in [Processes -> BOOLEAN] /\ skip[p] = Top(p).v
      BY Stacks
<1> QED
    BY <1>1

\* Where a call has come to may be noted in it; a new call is one, too.
Places == {"line", "call", "ran", "hooked", "recorded", "start", "check", "run",
           "capture", "captured", "wait", "zero", "fix"}

LEMMA Noted ==
  ASSUME NEW f \in Frames, NEW k \in Places
  PROVE  /\ [f EXCEPT !.k = k] \in Frames /\ [f EXCEPT !.k = k].k = k /\ [f EXCEPT !.k = k].v = f.v
         /\ [f EXCEPT !.k = k].w = f.w /\ [f EXCEPT !.k = k].seen = f.seen
  BY DEF Frames, Places

LEMMA NewCall ==
  ASSUME NEW k \in Places, NEW n \in Nat, NEW id \in Nat, NEW w \in Words \cup {NoWord},
         NEW g, g = Call(k, n, id, w)
  PROVE  g \in Frames /\ g.k = k /\ g.w = w /\ g.seen = NoWord /\ g.v = FALSE
  BY DEF Frames, Places, Call, Words, Statuses

\* The words are words.
LEMMA SomeWords ==
  /\ Plain \subseteq Words /\ Substs \subseteq Words /\ Fixes \subseteq Words /\ NoWord \notin Words
  /\ Expanded \cup {"$(x)"} \subseteq Words
  /\ AliasNames \subseteq Words /\ AliasValues \subseteq Words
<1>1. Plain \subseteq Words /\ Substs \subseteq Words /\ Names \subseteq Words /\ Expanded \cup {"$(x)"} \subseteq Words
      BY DEF Words, Names, Expanded, Later
<1>2. Fixes \subseteq Words /\ Bodies \subseteq Forking
      BY WordsAssumption
<1>3. AliasNames \subseteq Words /\ AliasValues \subseteq Words
      BY <1>1, AliasAssumption
<1>4. NoWord \notin Words
      BY <1>2 DEF Words, Names, Later, NoWord, Plain, Substs, Forking
<1> QED
    BY <1>1, <1>2, <1>3, <1>4

-----------------------------------------------------------------------------
(* The steps of a line.                                                     *)

\* What a call of a line has to show is nothing.
LEMMA LineCall ==
  ASSUME NEW f, f.v = FALSE, f.k \in {"line", "call", "ran", "hooked", "recorded", "zero", "capture", "wait", "fix"}
  PROVE  Waits(f) /\ \A table : Shown(f, table)
  BY DEF Waits, Shown

LEMMA ReadLineOK == ASSUME IInv, ReadLine PROVE IInv'
<1>1. PICK n \in 1 .. MaxSegs : stack' = [stack EXCEPT !["shell"] = <<Line(n)>>]
      BY DEF ReadLine
<1> DEFINE p == "shell"
           a == Line(n)
           fs == <<a>>
           rest == <<>>
<1>2. p \in Processes /\ alive[p] /\ stack[p] = <<>>
      BY DEF ReadLine, Processes
<1>3. a \in Frames /\ a.k = "line" /\ a.v = FALSE
      <2>1. n \in Nat /\ "line" \in Places /\ 0 \in Nat /\ NoWord \in Words \cup {NoWord}
            BY BoundsAssumption DEF Places
      <2>2. a = Call("line", n, 0, NoWord)
            BY DEF Line
      <2> HIDE DEF a
      <2> QED
          BY <2>1, <2>2, NewCall DEF Call
<1>4. stack' = [stack EXCEPT ![p] = fs \o rest]
      <2>1. fs \o rest = fs
            BY <1>3
      <2> QED
          BY <1>1, <2>1
<1>5. fs \in Seq(Frames) /\ Len(fs) = 1 /\ fs[1] = a /\ fs # <<>>
      BY <1>3, Calls
<1>6. rest \in Seq(Frames) /\ Settled(p, rest)
      BY EmptySeq DEF Settled
<1>7. skip' = [skip EXCEPT ![p] = FALSE]
      <2>1. skip \in [Processes -> BOOLEAN]
            BY DEF IInv, TypeOK
      <2>2. skip[p] = FALSE
            BY <1>2, <2>1 DEF IInv, FlagIsVeto
      <2> QED
          BY <2>1, <2>2 DEF ReadLine
<1>8. /\ status' \in [Processes -> Statuses] /\ err' \in [Processes -> Nat] /\ cmds' \in Nat /\ db' \subseteq Processes
      /\ UNCHANGED <<alive, inSub>> /\ aliases' = aliases
      BY DEF ReadLine, IInv, TypeOK
<1>9. Shown(a, aliases') /\ a.k \notin Under(p)
      BY <1>3, LineCall DEF Under
<1> HIDE DEF a, fs, rest, p
<1>10. skip' = [skip EXCEPT ![p] = (fs # <<>> /\ fs[1].v)]
      BY <1>3, <1>5, <1>7
<1>11. \A i \in 2 .. Len(fs) : Waits(fs[i])
      BY <1>5
<1>12. \A i \in 1 .. Len(fs) : fs[i].k \in Under(p) => i < Len(fs) \/ rest # <<>>
      BY <1>5, <1>9
<1>13. Shown(fs[1], aliases')
      BY <1>5, <1>9
<1> QED
    BY <1>2, <1>4, <1>5, <1>6, <1>8, <1>10, <1>11, <1>12, <1>13, Goes

LEMMA ExecutesSegmentOK == ASSUME IInv, NEW p \in Processes, ExecutesSegment(p) PROVE IInv'
<1>1. Runs(p) /\ Top(p).k = "line" /\ Top(p).n > 0 /\ cmds' = cmds + 1
      BY DEF ExecutesSegment, At
<1>2. /\ Top(p) \in Frames /\ Shown(Top(p), aliases) /\ cmds \in Nat
      /\ status \in [Processes -> Statuses] /\ err \in [Processes -> Nat] /\ db \subseteq Processes
      BY <1>1, Stacks
<1>3. PICK w \in Words : Becomes(p, <<Call("start", 0, cmds', w), [Top(p) EXCEPT !.k = "call", !.n = @ - 1, !.id = cmds']>>)
      BY DEF ExecutesSegment
<1> DEFINE a == Call("start", 0, cmds', w)
           b == [Top(p) EXCEPT !.k = "call", !.n = @ - 1, !.id = cmds']
<1>4. Becomes(p, <<a, b>>)
      BY <1>3
<1>5. a \in Frames /\ a.k = "start" /\ a.seen = NoWord /\ a.v = FALSE
      <2>1. cmds' \in Nat /\ 0 \in Nat /\ "start" \in Places /\ w \in Words \cup {NoWord}
            BY <1>1, <1>2 DEF Places
      <2>2. a = Call("start", 0, cmds', w)
            OBVIOUS
      <2> HIDE DEF a, b
      <2> QED
          BY <2>1, <2>2, NewCall DEF Call
<1>6. Top(p).v = FALSE
      BY <1>1, <1>2 DEF Shown, Frames
<1>7. b \in Frames /\ b.k = "call" /\ b.v = FALSE
      <2>1. Top(p).n - 1 \in Nat
            BY <1>1, <1>2 DEF Frames
      <2>2. cmds' \in Nat
            BY <1>1, <1>2
      <2> HIDE DEF b
      <2>3. b = [[[Top(p) EXCEPT !.k = "call"] EXCEPT !.n = Top(p).n - 1] EXCEPT !.id = cmds']
            BY <1>2 DEF b, Frames
      <2> QED
          BY <1>2, <1>6, <2>1, <2>2, <2>3 DEF Frames
<1>8. skip' = [skip EXCEPT ![p] = FALSE]
      BY <1>1, <1>6, SkipStays DEF ExecutesSegment
<1>9. Free
      <2>1. UNCHANGED <<alive, status, err, inSub, aliases, db>>
            BY DEF ExecutesSegment
      <2> QED
          BY <1>1, <1>2, <2>1 DEF Free
<1> HIDE DEF a, b
<1>10. Shown(a, aliases)
      BY <1>5 DEF Shown
<1>11. Waits(b)
      BY <1>7, LineCall
<1>12. b.k \notin Under(p)
      BY <1>7 DEF Under
<1> QED
    BY <1>1, <1>4, <1>5, <1>7, <1>8, <1>9, <1>10, <1>11, <1>12, Becomes2

LEMMA SkipsSegmentOK == ASSUME IInv, NEW p \in Processes, SkipsSegment(p) PROVE IInv'
<1>1. Runs(p) /\ Top(p).k = "line" /\ Top(p).n > 0
      BY DEF SkipsSegment, At
<1>2. Top(p) \in Frames /\ Shown(Top(p), aliases)
      BY <1>1, Stacks
<1> DEFINE a == [Top(p) EXCEPT !.n = @ - 1]
<1>3. Becomes(p, <<a>>)
      BY DEF SkipsSegment
<1>4. Top(p).v = FALSE
      BY <1>1, <1>2 DEF Shown, Frames
<1>5. a \in Frames /\ a.k = "line" /\ a.v = FALSE
      <2>1. Top(p).n - 1 \in Nat
            BY <1>1, <1>2 DEF Frames
      <2> QED
          BY <1>1, <1>2, <1>4, <2>1 DEF Frames
<1>6. skip' = [skip EXCEPT ![p] = a.v]
      BY <1>1, <1>4, <1>5, SkipStays DEF SkipsSegment
<1>7. Free
      BY <1>1, Stacks DEF Free, SkipsSegment
<1> HIDE DEF a
<1>8. Shown(a, aliases) /\ a.k \notin Under(p)
      BY <1>5, LineCall DEF Under
<1> QED
    BY <1>1, <1>3, <1>5, <1>6, <1>7, <1>8, Becomes1

LEMMA LineDoneOK == ASSUME IInv, NEW p \in Processes, LineDone(p) PROVE IInv'
<1>1. Runs(p) /\ Top(p).k = "line" /\ Becomes(p, <<>>)
      BY DEF LineDone, At
<1>2. Top(p) \in Frames /\ Shown(Top(p), aliases)
      BY <1>1, Stacks
<1>3. Top(p).v = FALSE
      BY <1>1, <1>2 DEF Shown, Frames
<1>4. skip' = [skip EXCEPT ![p] = FALSE]
      BY <1>1, <1>3, SkipStays DEF LineDone
<1>5. Free
      BY <1>1, Stacks DEF Free, LineDone
<1> QED
    BY <1>1, <1>4, <1>5, Becomes0

\* A call that goes on to another place of its line.
LEMMA LineGoesOn ==
  ASSUME IInv, NEW p \in Processes, Runs(p), Top(p).k \in {"ran", "hooked", "recorded"},
         NEW k \in {"hooked", "recorded", "line"}, NEW a, a = [Top(p) EXCEPT !.k = k]
  PROVE  /\ a \in Frames /\ a.k = k /\ a.v = FALSE /\ a.k \notin Under(p) /\ Waits(a) /\ Shown(a, aliases)
         /\ Top(p).v = FALSE
<1>1. Top(p) \in Frames /\ Shown(Top(p), aliases)
      BY Stacks
<1>2. Top(p).v = FALSE
      BY <1>1 DEF Shown, Frames
<1>3. a \in Frames /\ a.k = k /\ a.v = FALSE
      BY <1>1, <1>2 DEF Frames
<1>4. Waits(a) /\ Shown(a, aliases)
      BY <1>3, LineCall
<1> QED
    BY <1>2, <1>3, <1>4 DEF Under

LEMMA AfterHooksOK == ASSUME IInv, NEW p \in Processes, AfterHooks(p) PROVE IInv'
<1>1. Runs(p) /\ Top(p).k = "ran"
      BY DEF AfterHooks, At
<1>2. /\ Top(p) \in Frames /\ cmds \in Nat
      /\ status \in [Processes -> Statuses] /\ err \in [Processes -> Nat] /\ db \subseteq Processes
      BY <1>1, Stacks
<1> DEFINE a == [Top(p) EXCEPT !.k = "hooked"]
<1>3. /\ a \in Frames /\ a.k = "hooked" /\ a.v = FALSE /\ a.k \notin Under(p) /\ Waits(a) /\ Shown(a, aliases)
      /\ Top(p).v = FALSE
      <2> a = [Top(p) EXCEPT !.k = "hooked"]
          OBVIOUS
      <2> HIDE DEF a
      <2> QED
          BY <1>1, LineGoesOn
<1>4. status' \in [Processes -> Statuses]
      <2>1. Top(p).s \in Statuses
            BY <1>2 DEF Frames
      <2>2. status' = [status EXCEPT ![p] = Top(p).s]
            BY DEF AfterHooks
      <2> QED
          BY <1>2, <2>1, <2>2
<1>5. skip' = [skip EXCEPT ![p] = FALSE]
      BY <1>1, <1>3, SkipStays DEF AfterHooks
<1>6. UNCHANGED <<alive, err, skip, inSub, aliases, db>>
      BY DEF AfterHooks
<1>7. CASE Becomes(p, <<[Top(p) EXCEPT !.k = "hooked"]>>) /\ UNCHANGED cmds
      <2>1. Becomes(p, <<a>>)
            BY <1>7
      <2> HIDE DEF a
      <2>2. Free
            BY <1>2, <1>4, <1>6, <1>7 DEF Free
      <2>3. skip' = [skip EXCEPT ![p] = a.v]
            BY <1>3, <1>5
      <2> QED
          BY <1>1, <1>3, <2>1, <2>2, <2>3, Becomes1
<1>8. CASE /\ cmds' = cmds + 1
           /\ \E w \in Fixes : Becomes(p, <<Call("start", 0, cmds', w), Call("fix", 0, 0, NoWord),
                                             [Top(p) EXCEPT !.k = "hooked"]>>)
      <2>1. PICK w \in Fixes : Becomes(p, <<Call("start", 0, cmds', w), Call("fix", 0, 0, NoWord), a>>)
            BY <1>8
      <2> DEFINE b == Call("start", 0, cmds', w)
                 c == Call("fix", 0, 0, NoWord)
      <2>2. Becomes(p, <<b, c, a>>)
            BY <2>1
      <2>3. Free
            BY <1>2, <1>4, <1>6, <1>8 DEF Free
      <2>4. cmds' \in Nat /\ 0 \in Nat /\ "start" \in Places /\ "fix" \in Places
            /\ w \in Words \cup {NoWord} /\ NoWord \in Words \cup {NoWord}
            BY <1>2, <1>8, SomeWords DEF Places
      <2>5. b = Call("start", 0, cmds', w) /\ c = Call("fix", 0, 0, NoWord)
            OBVIOUS
      <2> HIDE DEF a, b, c
      <2>6. b \in Frames /\ b.k = "start" /\ b.seen = NoWord /\ b.v = FALSE
            BY <2>4, <2>5, NewCall DEF Call
      <2>7. c \in Frames /\ c.k = "fix" /\ c.v = FALSE
            BY <2>4, <2>5, NewCall DEF Call
      <2>8. Shown(b, aliases)
            BY <2>6 DEF Shown
      <2>9. Waits(c)
            BY <2>7, LineCall
      <2> QED
          BY <1>1, <1>3, <1>5, <2>2, <2>3, <2>6, <2>7, <2>8, <2>9, Becomes3
<1> QED
    BY <1>7, <1>8 DEF AfterHooks

LEMMA RecordsOK == ASSUME IInv, NEW p \in Processes, Records(p) PROVE IInv'
<1>1. Runs(p) /\ Top(p).k = "hooked"
      BY DEF Records, At
<1> DEFINE a == [Top(p) EXCEPT !.k = "recorded"]
<1>2. Becomes(p, <<a>>)
      BY DEF Records
<1>3. a = [Top(p) EXCEPT !.k = "recorded"]
      OBVIOUS
<1> HIDE DEF a
<1>4. a \in Frames /\ a.v = FALSE /\ a.k \notin Under(p) /\ Shown(a, aliases) /\ Top(p).v = FALSE
      BY <1>1, <1>3, LineGoesOn
<1>5. skip' = [skip EXCEPT ![p] = a.v]
      BY <1>1, <1>4, SkipStays DEF Records
<1>6. Free
      <2>1. db \subseteq Processes /\ status \in [Processes -> Statuses] /\ err \in [Processes -> Nat] /\ cmds \in Nat
            BY <1>1, Stacks
      <2>2. db' = db \/ db' = db \cup {p}
            BY DEF Records
      <2>3. db' \subseteq Processes
            BY <2>1, <2>2
      <2>4. UNCHANGED <<alive, status, err, inSub, aliases, cmds>>
            BY DEF Records
      <2> QED
          BY <2>1, <2>3, <2>4 DEF Free
<1> QED
    BY <1>1, <1>2, <1>4, <1>5, <1>6, Becomes1

\* A call with or without another one on top.
LEMMA WithOrWithout ==
  ASSUME NEW p \in Processes, NEW a \in Frames, NEW b \in Frames,
         \E before \in {<<>>, <<b>>} : Becomes(p, before \o <<a>>)
  PROVE  Becomes(p, <<a>>) \/ Becomes(p, <<b, a>>)
<1>1. PICK before \in {<<>>, <<b>>} : Becomes(p, before \o <<a>>)
      OBVIOUS
<1>2. <<>> \o <<a>> = <<a>> /\ <<b>> \o <<a>> = <<b, a>>
      <2> DEFINE x == <<a>>
                 y == <<b>>
                 z == <<b, a>>
      <2>1. /\ x \in Seq(Frames) /\ Len(x) = 1 /\ x[1] = a
            /\ y \in Seq(Frames) /\ Len(y) = 1 /\ y[1] = b
            /\ z \in Seq(Frames) /\ Len(z) = 2 /\ z[1] = b /\ z[2] = a
            BY Calls
      <2> HIDE DEF x, y, z
      <2>2. <<>> \o x = x
            BY <2>1, ConcatEmptySeq
      <2>3. /\ y \o x \in Seq(Frames) /\ Len(y \o x) = 2
            /\ \A i \in 1 .. 2 : (y \o x)[i] = IF i <= 1 THEN y[i] ELSE x[i - 1]
            BY <2>1, ConcatProperties
      <2>4. \A i \in 1 .. 2 : (y \o x)[i] = z[i]
            BY <2>1, <2>3
      <2>5. y \o x = z
            BY <2>1, <2>3, <2>4, SeqEqual
      <2> QED
          BY <2>2, <2>5 DEF x, y, z
<1>3. stack' = [stack EXCEPT ![p] = (before \o <<a>>) \o Tail(stack[p])]
      BY <1>1 DEF Becomes
<1>4. before \o <<a>> = <<a>> \/ before \o <<a>> = <<b, a>>
      <2>1. before = <<>> \/ before = <<b>>
            BY <1>1
      <2> QED
          BY <1>2, <2>1, Zenon
<1>5. CASE before \o <<a>> = <<a>>
      <2>1. stack' = [stack EXCEPT ![p] = <<a>> \o Tail(stack[p])]
            BY <1>3, <1>5, Zenon
      <2> QED
          BY <2>1 DEF Becomes
<1>6. CASE before \o <<a>> = <<b, a>>
      <2>1. stack' = [stack EXCEPT ![p] = <<b, a>> \o Tail(stack[p])]
            BY <1>3, <1>6, Zenon
      <2> QED
          BY <2>1 DEF Becomes
<1> QED
    BY <1>4, <1>5, <1>6

LEMMA ChecksTrapsOK == ASSUME IInv, NEW p \in Processes, ChecksTraps(p) PROVE IInv'
<1>1. Runs(p) /\ Top(p).k = "recorded"
      BY DEF ChecksTraps, At
<1> DEFINE a == [Top(p) EXCEPT !.k = "line"]
           b == Line(1)
<1>2. \E before \in {<<>>, <<b>>} : Becomes(p, before \o <<a>>)
      BY DEF ChecksTraps
<1>3. a = [Top(p) EXCEPT !.k = "line"] /\ b = Call("line", 1, 0, NoWord)
      BY DEF Line
<1> HIDE DEF a, b
<1>4. a \in Frames /\ a.v = FALSE /\ a.k \notin Under(p) /\ Waits(a) /\ Shown(a, aliases) /\ Top(p).v = FALSE
      BY <1>1, <1>3, LineGoesOn
<1>5. skip' = [skip EXCEPT ![p] = FALSE]
      BY <1>1, <1>4, SkipStays DEF ChecksTraps
<1>6. Free
      BY <1>1, Stacks DEF Free, ChecksTraps
<1>7. b \in Frames /\ b.k = "line" /\ b.v = FALSE
      <2>1. 1 \in Nat /\ 0 \in Nat /\ "line" \in Places /\ NoWord \in Words \cup {NoWord}
            BY DEF Places
      <2> QED
          BY <1>3, <2>1, NewCall DEF Call
<1>8. Shown(b, aliases)
      BY <1>7, LineCall
<1>9. Becomes(p, <<a>>) \/ Becomes(p, <<b, a>>)
      BY <1>2, <1>4, <1>7, WithOrWithout
<1>10. CASE Becomes(p, <<a>>)
      BY <1>1, <1>4, <1>5, <1>6, <1>10, Becomes1
<1>11. CASE Becomes(p, <<b, a>>)
      BY <1>1, <1>4, <1>5, <1>6, <1>7, <1>8, <1>11, Becomes2
<1> QED
    BY <1>9, <1>10, <1>11

-----------------------------------------------------------------------------
(* The steps of a command.                                                  *)

\* An alias that is no alias of an alias stands for what is executed.
LEMMA AliasOnce ==
  ASSUME IInv, AliasValues \cap AliasNames = {}, NEW u \in Words \cup {NoWord}, NEW w, w = AliasOf(u)
  PROVE  w \in Words \cup {NoWord} /\ ~(w \in AliasNames /\ aliases[w] # NoWord /\ aliases[w] # w)
<1>1. aliases \in [AliasNames -> AliasValues \cup {NoWord}]
      BY DEF IInv, TypeOK
<1>2. CASE u \in AliasNames /\ aliases[u] # NoWord
      <2>1. w = aliases[u] /\ aliases[u] \in AliasValues
            BY <1>1, <1>2 DEF AliasOf
      <2>2. AliasValues \subseteq Words
            BY SomeWords
      <2> QED
          BY <2>1, <2>2
<1>3. CASE ~(u \in AliasNames /\ aliases[u] # NoWord)
      BY <1>3 DEF AliasOf
<1> QED
    BY <1>2, <1>3

LEMMA StartOK ==
  ASSUME IInv, AliasValues \cap AliasNames = {}, NEW p \in Processes, Start(p) PROVE IInv'
<1>1. Runs(p) /\ Top(p).k = "start"
      BY DEF Start, At
<1>2. Top(p) \in Frames /\ Shown(Top(p), aliases)
      BY <1>1, Stacks
<1>3. Top(p).v = FALSE /\ Top(p).seen = NoWord
      BY <1>1, <1>2 DEF Shown, Frames
<1>4. Free
      BY <1>1, Stacks DEF Free, Start
<1>5. Top(p).k \in Under(p)
      BY <1>1 DEF Under
<1>6. CASE Becomes(p, <<[Top(p) EXCEPT !.k = "run"]>>) /\ UNCHANGED skip
      <2> DEFINE a == [Top(p) EXCEPT !.k = "run"]
      <2>1. Becomes(p, <<a>>)
            BY <1>6
      <2>2. a \in Frames /\ a.k = "run" /\ a.v = FALSE /\ a.seen = NoWord
            BY <1>2, <1>3 DEF Frames
      <2> HIDE DEF a
      <2>3. skip' = [skip EXCEPT ![p] = a.v]
            BY <1>1, <1>3, <1>6, <2>2, SkipStays
      <2>4. Shown(a, aliases)
            BY <2>2 DEF Shown, Unread
      <2> QED
          BY <1>1, <1>4, <1>5, <2>1, <2>2, <2>3, <2>4, Becomes1
<1>7. CASE \E w \in {AliasOf(Top(p).w)} : \E v \in Vetoes(w) :
             /\ skip' = [skip EXCEPT ![p] = v]
             /\ Becomes(p, <<[Top(p) EXCEPT !.k = "check", !.w = w, !.seen = w, !.v = v]>>)
      <2> DEFINE w == AliasOf(Top(p).w)
      <2>1. PICK v \in Vetoes(w) :
              /\ skip' = [skip EXCEPT ![p] = v]
              /\ Becomes(p, <<[Top(p) EXCEPT !.k = "check", !.w = w, !.seen = w, !.v = v]>>)
            BY <1>7
      <2> HIDE DEF w
      <2>2. v \in BOOLEAN
            BY <2>1 DEF Vetoes
      <2>3. Top(p).w \in Words \cup {NoWord} /\ w = AliasOf(Top(p).w)
            BY <1>2 DEF Frames, w
      <2>4. w \in Words \cup {NoWord} /\ ~(w \in AliasNames /\ aliases[w] # NoWord /\ aliases[w] # w)
            BY <2>3, AliasOnce
      <2> DEFINE a == [Top(p) EXCEPT !.k = "check", !.w = w, !.seen = w, !.v = v]
      <2>5. Becomes(p, <<a>>)
            BY <2>1
      <2>6. a \in Frames /\ a.k = "check" /\ a.v = v /\ a.w = w /\ a.seen = w
            <3>1. a = [[[[Top(p) EXCEPT !.k = "check"] EXCEPT !.w = w] EXCEPT !.seen = w] EXCEPT !.v = v]
                  BY <1>2 DEF Frames
            <3> HIDE DEF a
            <3> QED
                BY <1>2, <2>2, <2>4, <3>1 DEF Frames
      <2> HIDE DEF a
      <2>7. skip' = [skip EXCEPT ![p] = a.v]
            BY <2>1, <2>6
      <2>8. Shown(a, aliases)
            BY <2>4, <2>6 DEF Shown
      <2> QED
          BY <1>1, <1>4, <1>5, <2>5, <2>6, <2>7, <2>8, Becomes1
<1> QED
    BY <1>6, <1>7 DEF Start

\* The status of a veto.
LEMMA CheckOK == ASSUME IInv, NEW p \in Processes, Check(p) PROVE IInv'
<1>1. Runs(p) /\ Top(p).k = "check"
      BY DEF Check, At
<1>2. /\ Top(p) \in Frames /\ Shown(Top(p), aliases) /\ skip[p] = Top(p).v
      /\ skip \in [Processes -> BOOLEAN]
      /\ status \in [Processes -> Statuses] /\ err \in [Processes -> Nat] /\ cmds \in Nat /\ db \subseteq Processes
      BY <1>1, Stacks
<1>3. Top(p).k \in Under(p)
      BY <1>1 DEF Under
<1>4. UNCHANGED <<alive, err, inSub, aliases, cmds, db>>
      BY DEF Check
<1>5. 1 \in Statuses
      BY DEF Statuses
<1>6. CASE skip[p]
      <2>1. skip' = [skip EXCEPT ![p] = FALSE] /\ status' = [status EXCEPT ![p] = 1] /\ Returns(p, 1)
            BY <1>6 DEF Check
      <2>2. status' \in [Processes -> Statuses]
            BY <1>2, <1>5, <2>1
      <2> QED
          BY <1>1, <1>2, <1>3, <1>4, <1>5, <2>1, <2>2, Returned
<1>7. CASE ~skip[p]
      <2> DEFINE a == [Top(p) EXCEPT !.k = "run"]
      <2>1. Becomes(p, <<a>>) /\ UNCHANGED <<skip, status>>
            BY <1>7 DEF Check
      <2>2. Top(p).v = FALSE
            BY <1>2, <1>7 DEF Frames
      <2>3. a \in Frames /\ a.k = "run" /\ a.v = FALSE /\ a.seen = Top(p).seen /\ a.w = Top(p).w
            BY <1>2, <2>2 DEF Frames
      <2> HIDE DEF a
      <2>4. skip' = [skip EXCEPT ![p] = a.v]
            BY <1>1, <2>1, <2>2, <2>3, SkipStays
      <2>5. Shown(a, aliases)
            BY <1>1, <1>2, <2>3 DEF Shown
      <2>6. Free
            BY <1>2, <1>4, <2>1 DEF Free
      <2> QED
          BY <1>1, <1>3, <2>1, <2>3, <2>4, <2>5, <2>6, Becomes1
<1> QED
    BY <1>6, <1>7

\* The capture of an inner command.
LEMMA InnerCall ==
  ASSUME NEW inner \in Plain, NEW a, a = Call("capture", 0, 0, inner)
  PROVE  a \in Frames /\ a.v = FALSE /\ \A table : Shown(a, table)
<1>1. 0 \in Nat /\ "capture" \in Places /\ inner \in Words \cup {NoWord}
      BY SomeWords DEF Places
<1>2. a \in Frames /\ a.k = "capture" /\ a.v = FALSE
      BY <1>1, NewCall DEF Call
<1> QED
    BY <1>2, LineCall

\* A command that is still to be expanded has shown itself or nothing.
LEMMA NotYet ==
  ASSUME NEW f \in Frames, f.k = "run", Shown(f, aliases), f.w \in Substs \cup {"$x", "$(x)"}
  PROVE  f.seen \in Unread \/ (f.seen \in Substs /\ f.w = f.seen)
<1> SUFFICES ASSUME f.seen \notin Unread PROVE f.seen \in Substs /\ f.w = f.seen
    OBVIOUS
<1>1. f.w = f.seen \/ f.w = HeadOf(f.seen)
      BY DEF Shown
<1>2. f.w \notin Plain
      BY Heads DEF Later
<1>3. f.w = f.seen
      BY <1>1, <1>2, Heads
<1> QED
    BY <1>3 DEF Unread, Later

LEMMA ExpandsOK == ASSUME IInv, NEW p \in Processes, Expands(p) PROVE IInv'
<1>1. Runs(p) /\ Top(p).k = "run" /\ Top(p).w = "$x"
      BY DEF Expands, At2, At
<1>2. Top(p) \in Frames /\ Shown(Top(p), aliases)
      BY <1>1, Stacks
<1>3. Top(p).v = FALSE /\ Top(p).seen \in Unread
      <2>1. "$x" \notin Substs
            BY Heads DEF Later
      <2> QED
          BY <1>1, <1>2, <2>1, NotYet DEF Shown, Frames
<1>4. PICK w \in Expanded \cup Substs \cup {"$(x)"} : Becomes(p, <<[Top(p) EXCEPT !.w = w]>>)
      BY DEF Expands
<1> DEFINE a == [Top(p) EXCEPT !.w = w]
<1>5. Becomes(p, <<a>>)
      BY <1>4
<1>6. w \in Words
      BY SomeWords
<1>7. a \in Frames /\ a.k = "run" /\ a.v = FALSE /\ a.seen = Top(p).seen
      BY <1>1, <1>2, <1>3, <1>6 DEF Frames
<1> HIDE DEF a
<1>8. Shown(a, aliases)
      BY <1>3, <1>7 DEF Shown
<1>9. skip' = [skip EXCEPT ![p] = a.v]
      BY <1>1, <1>3, <1>7, SkipStays DEF Expands
<1>10. Free
      BY <1>1, Stacks DEF Free, Expands
<1>11. Top(p).k \in Under(p)
      BY <1>1 DEF Under
<1> QED
    BY <1>1, <1>5, <1>7, <1>8, <1>9, <1>10, <1>11, Becomes1

LEMMA SubstitutesOK == ASSUME IInv, NEW p \in Processes, Substitutes(p) PROVE IInv'
<1>1. Runs(p) /\ Top(p).k = "run" /\ Top(p).w \in Substs \cup {"$(x)"}
      BY DEF Substitutes, At2, At
<1>2. Top(p) \in Frames /\ Shown(Top(p), aliases)
      BY <1>1, Stacks
<1>3. Top(p).v = FALSE /\ (Top(p).seen \in Unread \/ (Top(p).seen \in Substs /\ Top(p).w = Top(p).seen))
      BY <1>1, <1>2, NotYet DEF Shown, Frames
<1>4. PICK inner \in Plain, w \in IF Top(p).w \in Substs THEN {HeadOf(Top(p).w)} ELSE Expanded :
        Becomes(p, <<Call("capture", 0, 0, inner), [Top(p) EXCEPT !.w = w]>>)
      BY DEF Substitutes
<1> DEFINE a == Call("capture", 0, 0, inner)
           b == [Top(p) EXCEPT !.w = w]
<1>5. Becomes(p, <<a, b>>)
      BY <1>4
<1>6. w \in Words /\ (Top(p).w \in Substs => w = HeadOf(Top(p).w))
      BY <1>4, SomeWords, Heads
<1>7. b \in Frames /\ b.k = "run" /\ b.v = FALSE /\ b.seen = Top(p).seen /\ b.w = w
      BY <1>1, <1>2, <1>3, <1>6 DEF Frames
<1>8. a = Call("capture", 0, 0, inner)
      OBVIOUS
<1> HIDE DEF a, b
<1>9. a \in Frames /\ a.v = FALSE /\ Shown(a, aliases)
      BY <1>8, InnerCall
<1>10. Waits(b)
      BY <1>3, <1>6, <1>7 DEF Waits
<1>11. skip' = [skip EXCEPT ![p] = FALSE]
      BY <1>1, <1>3, SkipStays DEF Substitutes
<1>12. Free
      BY <1>1, Stacks DEF Free, Substitutes
<1>13. Top(p).k \in Under(p)
      BY <1>1 DEF Under
<1> QED
    BY <1>1, <1>5, <1>7, <1>9, <1>10, <1>11, <1>12, <1>13, Becomes2

\* A call that has passed the hooks is not vetoed, and the flag is down.
LEMMA Passed ==
  ASSUME IInv, NEW p \in Processes, Runs(p), Top(p).k \notin {"check", "captured"}, UNCHANGED skip
  PROVE  skip' = [skip EXCEPT ![p] = FALSE] /\ Top(p).v = FALSE
<1>1. Top(p) \in Frames /\ Shown(Top(p), aliases)
      BY Stacks
<1>2. Top(p).v = FALSE
      BY <1>1 DEF Shown, Frames
<1> QED
    BY <1>2, SkipStays

\* What returns 0 when the calls it makes have returned.
LEMMA ZeroCall ==
  ASSUME NEW b, b = Call("zero", 0, 0, NoWord) PROVE b \in Frames /\ b.k = "zero" /\ b.v = FALSE /\ Waits(b)
<1>1. 0 \in Nat /\ "zero" \in Places /\ NoWord \in Words \cup {NoWord}
      BY DEF Places
<1>2. b \in Frames /\ b.k = "zero" /\ b.v = FALSE
      BY <1>1, NewCall DEF Call
<1> QED
    BY <1>2, LineCall

LEMMA LineOfOne ==
  ASSUME NEW a, a = Line(1) PROVE a \in Frames /\ a.k = "line" /\ a.v = FALSE /\ \A table : Shown(a, table)
<1>1. 1 \in Nat /\ 0 \in Nat /\ "line" \in Places /\ NoWord \in Words \cup {NoWord}
      BY DEF Places
<1>2. a \in Frames /\ a.k = "line" /\ a.v = FALSE
      BY <1>1, NewCall DEF Call, Line
<1> QED
    BY <1>2, LineCall

LEMMA StructuredPipeOK == ASSUME IInv, NEW p \in Processes, StructuredPipe(p) PROVE IInv'
<1>1. Runs(p) /\ Top(p).k = "run"
      BY DEF StructuredPipe, At2, At
<1>2. PICK inner \in Plain : Becomes(p, <<Call("capture", 0, 0, inner), Call("zero", 0, 0, NoWord)>>)
      BY DEF StructuredPipe
<1> DEFINE a == Call("capture", 0, 0, inner)
           b == Call("zero", 0, 0, NoWord)
<1>3. Becomes(p, <<a, b>>)
      BY <1>2
<1>4. a = Call("capture", 0, 0, inner) /\ b = Call("zero", 0, 0, NoWord)
      OBVIOUS
<1> HIDE DEF a, b
<1>5. a \in Frames /\ a.v = FALSE /\ Shown(a, aliases)
      BY <1>4, InnerCall
<1>6. b \in Frames /\ b.k = "zero" /\ Waits(b)
      BY <1>4, ZeroCall
<1>7. skip' = [skip EXCEPT ![p] = FALSE]
      BY <1>1, Passed DEF StructuredPipe
<1>8. Free
      BY <1>1, Stacks DEF Free, StructuredPipe
<1>9. Top(p).k \in Under(p)
      BY <1>1 DEF Under
<1> QED
    BY <1>1, <1>3, <1>5, <1>6, <1>7, <1>8, <1>9, Becomes2

LEMMA SourceOK == ASSUME IInv, NEW p \in Processes, Source(p) PROVE IInv'
<1>1. Runs(p) /\ Top(p).k = "run"
      BY DEF Source, Dispatches, At
<1> DEFINE a == Line(1)
           b == Call("zero", 0, 0, NoWord)
<1>2. Becomes(p, <<a, b>>)
      BY DEF Source
<1>3. a = Line(1) /\ b = Call("zero", 0, 0, NoWord)
      OBVIOUS
<1> HIDE DEF a, b
<1>4. a \in Frames /\ a.v = FALSE /\ Shown(a, aliases)
      BY <1>3, LineOfOne
<1>5. b \in Frames /\ b.k = "zero" /\ Waits(b)
      BY <1>3, ZeroCall
<1>6. skip' = [skip EXCEPT ![p] = FALSE]
      BY <1>1, Passed DEF Source
<1>7. Free
      BY <1>1, Stacks DEF Free, Source
<1>8. Top(p).k \in Under(p)
      BY <1>1 DEF Under
<1> QED
    BY <1>1, <1>2, <1>4, <1>5, <1>6, <1>7, <1>8, Becomes2

LEMMA CapturesOK == ASSUME IInv, NEW p \in Processes, Captures(p) PROVE IInv'
<1>1. Runs(p) /\ Top(p).k = "capture"
      BY DEF Captures, At
<1>2. Top(p) \in Frames
      BY <1>1, Stacks
<1>3. PICK v \in Vetoes(Top(p).w) :
        skip' = [skip EXCEPT ![p] = v] /\ Becomes(p, <<[Top(p) EXCEPT !.k = "captured", !.v = v]>>)
      BY DEF Captures
<1>4. v \in BOOLEAN
      BY <1>3 DEF Vetoes
<1> DEFINE a == [Top(p) EXCEPT !.k = "captured", !.v = v]
<1>5. Becomes(p, <<a>>)
      BY <1>3
<1>6. a \in Frames /\ a.k = "captured" /\ a.v = v
      <2>1. a = [[Top(p) EXCEPT !.k = "captured"] EXCEPT !.v = v]
            BY <1>2 DEF Frames
      <2> HIDE DEF a
      <2> QED
          BY <1>2, <1>4, <2>1 DEF Frames
<1> HIDE DEF a
<1>7. skip' = [skip EXCEPT ![p] = a.v]
      BY <1>3, <1>6
<1>8. Shown(a, aliases)
      BY <1>6 DEF Shown
<1>9. Free
      BY <1>1, Stacks DEF Free, Captures
<1>10. Top(p).k \in Under(p)
      BY <1>1 DEF Under
<1> QED
    BY <1>1, <1>5, <1>6, <1>7, <1>8, <1>9, <1>10, Becomes1

LEMMA CapturedOK == ASSUME IInv, NEW p \in Processes, Captured(p) PROVE IInv'
<1>1. Runs(p) /\ Becomes(p, <<>>) /\ skip' = [skip EXCEPT ![p] = FALSE]
      BY DEF Captured, At
<1>2. Free
      BY <1>1, Stacks DEF Free, Captured
<1> QED
    BY <1>1, <1>2, Becomes0

-----------------------------------------------------------------------------
(* The returns.                                                             *)

LEMMA ExternalOK == ASSUME IInv, NEW p \in Processes, External(p) PROVE IInv'
<1>1. Runs(p) /\ Top(p).k = "run"
      BY DEF External, Dispatches, At
<1>2. PICK s \in {0, 2}, text \in {0, Top(p).id} : err' = [err EXCEPT ![p] = text] /\ Returns(p, s)
      BY DEF External
<1>3. /\ Top(p) \in Frames
      /\ status \in [Processes -> Statuses] /\ err \in [Processes -> Nat] /\ cmds \in Nat /\ db \subseteq Processes
      BY <1>1, Stacks
<1>4. text \in Nat
      BY <1>2, <1>3 DEF Frames
<1>5. err' \in [Processes -> Nat]
      BY <1>2, <1>3, <1>4
<1>6. s \in Statuses
      BY <1>2 DEF Statuses
<1>7. UNCHANGED <<alive, status, skip, inSub, aliases, cmds, db>>
      BY DEF External
<1>8. skip' = [skip EXCEPT ![p] = FALSE]
      BY <1>1, <1>7, Passed
<1>9. Top(p).k \in Under(p)
      BY <1>1 DEF Under
<1> QED
    BY <1>1, <1>2, <1>3, <1>5, <1>6, <1>7, <1>8, <1>9, Returned

LEMMA NotFoundOK == ASSUME IInv, NEW p \in Processes, NotFound(p) PROVE IInv'
<1>1. Runs(p) /\ Top(p).k = "run"
      BY DEF NotFound, Dispatches, At
<1>2. err' = [err EXCEPT ![p] = Top(p).id] /\ Returns(p, 127)
      BY DEF NotFound
<1>3. /\ Top(p) \in Frames
      /\ status \in [Processes -> Statuses] /\ err \in [Processes -> Nat] /\ cmds \in Nat /\ db \subseteq Processes
      BY <1>1, Stacks
<1>4. Top(p).id \in Nat
      BY <1>3 DEF Frames
<1>5. err' \in [Processes -> Nat]
      BY <1>2, <1>3, <1>4
<1>6. 127 \in Statuses
      BY DEF Statuses
<1>7. UNCHANGED <<alive, status, skip, inSub, aliases, cmds, db>>
      BY DEF NotFound
<1>8. skip' = [skip EXCEPT ![p] = FALSE]
      BY <1>1, <1>7, Passed
<1>9. Top(p).k \in Under(p)
      BY <1>1 DEF Under
<1> QED
    BY <1>1, <1>2, <1>3, <1>5, <1>6, <1>7, <1>8, <1>9, Returned

LEMMA PipelineOK == ASSUME IInv, NEW p \in Processes, Pipeline(p) PROVE IInv'
<1>1. Runs(p) /\ Top(p).k = "run"
      BY DEF Pipeline, At2, At
<1>2. PICK s \in {0, 2, 127} : Returns(p, s)
      BY DEF Pipeline
<1>3. status \in [Processes -> Statuses] /\ err \in [Processes -> Nat] /\ cmds \in Nat /\ db \subseteq Processes
      BY <1>1, Stacks
<1>4. s \in Statuses
      BY <1>2 DEF Statuses
<1>5. UNCHANGED <<alive, status, err, skip, inSub, aliases, cmds, db>>
      BY DEF Pipeline
<1>6. skip' = [skip EXCEPT ![p] = FALSE]
      BY <1>1, <1>5, Passed
<1>7. Top(p).k \in Under(p)
      BY <1>1 DEF Under
<1> QED
    BY <1>1, <1>2, <1>3, <1>4, <1>5, <1>6, <1>7, Returned

\* The table of aliases only changes while the shell runs, and no child does.
LEMMA BuiltinOK == ASSUME IInv, NEW p \in Processes, Builtin(p) PROVE IInv'
<1>1. Runs(p) /\ Top(p).k = "run"
      BY DEF Builtin, Dispatches, At
<1>2. PICK s \in {0, 1} : Returns(p, s)
      BY DEF Builtin
<1>3. status \in [Processes -> Statuses] /\ err \in [Processes -> Nat] /\ cmds \in Nat /\ db \subseteq Processes
      BY <1>1, Stacks
<1>4. \/ aliases' = aliases
      \/ /\ aliases' \in [AliasNames -> AliasValues \cup {NoWord}]
         /\ \A q \in Processes : q # p => stack[q] = <<>>
      <2>1. CASE p = "shell" /\ \E x \in AliasNames, w \in AliasValues \cup {NoWord} : aliases' = [aliases EXCEPT ![x] = w]
            <3>1. aliases \in [AliasNames -> AliasValues \cup {NoWord}]
                  BY DEF IInv, TypeOK
            <3>2. aliases' \in [AliasNames -> AliasValues \cup {NoWord}]
                  BY <2>1, <3>1
            <3>3. \A q \in Processes : q # p => stack[q] = <<>>
                  BY <1>1, <2>1 DEF IInv, Runs, Processes
            <3> QED
                BY <3>2, <3>3
      <2> QED
          BY <2>1 DEF Builtin
<1>5. s \in Statuses
      BY <1>2 DEF Statuses
<1>6. UNCHANGED <<alive, status, err, skip, inSub, cmds, db>>
      BY DEF Builtin
<1>7. skip' = [skip EXCEPT ![p] = FALSE]
      BY <1>1, <1>6, Passed
<1>8. Top(p).k \in Under(p)
      BY <1>1 DEF Under
<1> QED
    BY <1>1, <1>2, <1>3, <1>4, <1>5, <1>6, <1>7, <1>8, Returned

LEMMA ZeroOK == ASSUME IInv, NEW p \in Processes, Zero(p) PROVE IInv'
<1>1. Runs(p) /\ Top(p).k = "zero" /\ Returns(p, 0)
      BY DEF Zero, At
<1>2. status \in [Processes -> Statuses] /\ err \in [Processes -> Nat] /\ cmds \in Nat /\ db \subseteq Processes
      BY <1>1, Stacks
<1>3. 0 \in Statuses
      BY DEF Statuses
<1>4. UNCHANGED <<alive, status, err, skip, inSub, aliases, cmds, db>>
      BY DEF Zero
<1>5. skip' = [skip EXCEPT ![p] = FALSE]
      BY <1>1, <1>4, Passed
<1>6. Top(p).k \in Under(p)
      BY <1>1 DEF Under
<1> QED
    BY <1>1, <1>2, <1>3, <1>4, <1>5, <1>6, Returned

LEMMA ReapedOK == ASSUME IInv, Reaped PROVE IInv'
<1> DEFINE p == "shell"
<1>1. p \in Processes /\ Runs(p) /\ Top(p).k = "wait"
      BY DEF Reaped, At, Processes
<1>2. PICK s \in {0, 1, 2} : Returns(p, s)
      BY DEF Reaped
<1>3. UNCHANGED <<alive, status, err, skip, inSub, aliases, cmds, db>>
      BY DEF Reaped
<1>4. Top(p).k \in Under(p)
      BY <1>1 DEF Under
<1> HIDE DEF p
<1>5. status \in [Processes -> Statuses] /\ err \in [Processes -> Nat] /\ cmds \in Nat /\ db \subseteq Processes
      BY <1>1, Stacks
<1>6. s \in Statuses
      BY <1>2 DEF Statuses
<1>7. skip' = [skip EXCEPT ![p] = FALSE]
      BY <1>1, <1>3, Passed
<1> QED
    BY <1>1, <1>2, <1>3, <1>4, <1>5, <1>6, <1>7, Returned

-----------------------------------------------------------------------------
(* Processes begin and end.                                                 *)

LEMMA Ended ==
  ASSUME IInv, NEW p \in Processes, alive' = [alive EXCEPT ![p] = FALSE], stack' = [stack EXCEPT ![p] = <<>>],
         UNCHANGED <<status, err, skip, inSub, aliases, cmds, db>>
  PROVE  IInv'
<1>1. alive \in [Processes -> BOOLEAN] /\ stack \in [Processes -> Seq(Frames)]
      BY DEF IInv, TypeOK, Frames
<1>2. alive' \in [Processes -> BOOLEAN] /\ ~alive'[p] /\ \A q \in Processes : q # p => alive'[q] = alive[q]
      BY <1>1
<1>3. /\ stack' \in [Processes -> Seq(Frames)] /\ stack'[p] = <<>>
      /\ \A q \in Processes : q # p => stack'[q] = stack[q]
      BY <1>1, EmptySeq
<1>4. TypeOK'
      BY <1>2, <1>3 DEF IInv, TypeOK, Frames
<1>5. ASSUME NEW q \in Processes PROVE Good(q, stack'[q], aliases') /\ (~alive'[q] => stack'[q] = <<>>)
      <2>1. CASE q = p
            BY <1>3, <2>1 DEF Good
      <2>2. CASE q # p
            BY <1>2, <1>3, <2>2 DEF IInv
      <2> QED
          BY <2>1, <2>2
<1>6. FlagIsVeto'
      BY <1>2, <1>3 DEF IInv, FlagIsVeto, Top
<1> QED
    BY <1>4, <1>5, <1>6 DEF IInv

LEMMA ExitBuiltinOK == ASSUME IInv, NEW p \in Processes, ExitBuiltin(p) PROVE IInv'
  BY Ended DEF ExitBuiltin

LEMMA ChildDoneOK == ASSUME IInv, ChildDone PROVE IInv'
  BY Ended DEF ChildDone, Processes

\* The child starts on a body of its own, with the flag as the shell has it: down.
LEMMA ForksOK == ASSUME IInv, Forks("shell") PROVE IInv'
<1> DEFINE p == "shell"
           c == "child"
           under == Tail(stack[p])
           f == Top(p)
           a == [f EXCEPT !.k = "wait"]
           x == Line(1)
           y == Call("wait", 0, 0, NoWord)
           body == <<x, y>>
<1>1. /\ p \in Processes /\ c \in Processes /\ p # c /\ \A q \in Processes : q = p \/ q = c
      /\ Runs(p) /\ f.k = "run"
      BY DEF Forks, At, Processes
<1>2. /\ f \in Frames /\ f = stack[p][1] /\ Shown(f, aliases) /\ skip[p] = f.v /\ alive[p]
      /\ stack \in [Processes -> Seq(Frames)] /\ skip \in [Processes -> BOOLEAN]
      /\ status \in [Processes -> Statuses] /\ err \in [Processes -> Nat] /\ cmds \in Nat /\ db \subseteq Processes
      BY <1>1, Stacks
<1>3. f.v = FALSE /\ skip[p] = FALSE
      BY <1>1, <1>2 DEF Shown, Frames
<1>4. stack[p] \in Seq(Frames) /\ stack[p] # <<>> /\ Good(p, stack[p], aliases)
      BY <1>1, <1>2 DEF Runs, IInv
<1>5. a \in Frames /\ a.k = "wait" /\ a.v = FALSE
      BY <1>2, <1>3 DEF Frames
<1>6. x \in Frames /\ x.k = "line" /\ x.v = FALSE
      <2> x = Line(1)
          OBVIOUS
      <2> HIDE DEF x
      <2> QED
          BY LineOfOne
<1>7. y \in Frames /\ y.k = "wait" /\ y.v = FALSE
      <2>1. y = Call("wait", 0, 0, NoWord) /\ NoWord \in Words \cup {NoWord} /\ 0 \in Nat /\ "wait" \in Places
            BY <1>2 DEF Frames, Places
      <2> HIDE DEF y, f
      <2> QED
          BY <2>1, NewCall DEF Call
<1>8. stack' = [stack EXCEPT ![c] = body, ![p][1].k = "wait"]
      BY DEF Forks
<1> DEFINE t == [stack[p] EXCEPT ![1].k = "wait"]
<1>9. stack'[p] = t /\ stack'[c] = body /\ DOMAIN stack' = Processes
      BY <1>1, <1>2, <1>8
<1>10. alive' = [alive EXCEPT ![c] = TRUE] /\ skip' = [skip EXCEPT ![c] = skip[p]]
      BY DEF Forks
<1>11. /\ inSub' = [inSub EXCEPT ![c] = inSub[p] \/ Body(p) # "source|"]
       /\ status' = [status EXCEPT ![c] = status[p]] /\ err' = [err EXCEPT ![c] = err[p]]
       /\ UNCHANGED <<aliases, cmds, db>>
      BY DEF Forks
<1> HIDE DEF a, x, y
<1>12. body \in Seq(Frames) /\ Len(body) = 2 /\ body[1] = x /\ body[2] = y /\ body # <<>> /\ Head(body) = x
      BY <1>6, <1>7, Calls
<1> HIDE DEF body, p, c
<1>13. t \in Seq(Frames) /\ Len(t) = Len(stack[p]) /\ t[1] = a /\ t # <<>> /\ Head(t) = a
       /\ \A i \in 2 .. Len(t) : t[i] = stack[p][i]
      <2>1. t = [stack[p] EXCEPT ![1] = a]
            BY <1>2, <1>4 DEF a
      <2> HIDE DEF t
      <2> QED
          BY <1>4, <1>5, <2>1
<1> HIDE DEF t
<1>14. Good(p, t, aliases)
      <2>1. "run" \in Under(p)
            BY DEF Under
      <2>2. 1 < Len(stack[p])
            BY <1>1, <1>2, <1>4, <2>1 DEF Good
      <2>3. Shown(a, aliases)
            BY <1>5, LineCall
      <2>4. ASSUME NEW i \in 1 .. Len(t) PROVE (i > 1 => Waits(t[i])) /\ (t[i].k \in Under(p) => i < Len(t))
            <3>1. CASE i = 1
                  BY <1>13, <2>2, <3>1
            <3>2. CASE i # 1
                  <4>1. i \in 2 .. Len(t) /\ i \in 1 .. Len(stack[p]) /\ i > 1 /\ t[i] = stack[p][i]
                        BY <1>13, <3>2
                  <4> QED
                      BY <1>4, <1>13, <4>1 DEF Good
            <3> QED
                BY <3>1, <3>2
      <2> QED
          BY <1>13, <2>3, <2>4 DEF Good
<1>15. Good(c, body, aliases)
      <2>1. Shown(x, aliases) /\ Waits(y)
            BY <1>6, <1>7, LineCall
      <2>2. "line" \notin Under(c) /\ "wait" \notin Under(c)
            BY DEF Under, c
      <2> QED
          BY <1>6, <1>7, <1>12, <2>1, <2>2 DEF Good
<1>16. /\ alive' \in [Processes -> BOOLEAN] /\ alive'[c] /\ alive'[p]
       /\ skip' \in [Processes -> BOOLEAN] /\ ~skip'[c] /\ ~skip'[p]
      <2>1. alive \in [Processes -> BOOLEAN]
            BY DEF IInv, TypeOK
      <2> QED
          BY <1>1, <1>2, <1>3, <1>10, <2>1
<1>17. TypeOK'
      <2>1. stack' \in [Processes -> Seq(Frames)]
            <3>1. \A q \in Processes : stack'[q] \in Seq(Frames)
                  BY <1>1, <1>9, <1>12, <1>13
            <3>2. stack' = [q \in Processes |-> stack'[q]]
                  BY <1>2, <1>8
            <3> QED
                BY <3>1, <3>2
      <2>2. inSub' \in [Processes -> BOOLEAN] /\ aliases' \in [AliasNames -> AliasValues \cup {NoWord}]
            <3>1. inSub \in [Processes -> BOOLEAN] /\ aliases \in [AliasNames -> AliasValues \cup {NoWord}]
                  BY DEF IInv, TypeOK
            <3> QED
                BY <1>1, <1>11, <3>1
      <2>3. status' \in [Processes -> Statuses] /\ err' \in [Processes -> Nat]
            BY <1>1, <1>2, <1>11
      <2>4. cmds' \in Nat /\ db' \subseteq Processes
            BY <1>2, <1>11
      <2> QED
          BY <1>16, <2>1, <2>2, <2>3, <2>4 DEF TypeOK, Frames
<1>18. \A q \in Processes : Good(q, stack'[q], aliases') /\ (~alive'[q] => stack'[q] = <<>>)
      <2>1. aliases' = aliases
            BY <1>11
      <2>2. Good(p, stack'[p], aliases') /\ Good(c, stack'[c], aliases')
            BY <1>9, <1>14, <1>15, <2>1
      <2> QED
          BY <1>1, <1>16, <2>2
<1>19. FlagIsVeto'
      <2>1. ~Head(stack'[p]).v /\ ~Head(stack'[c]).v
            BY <1>5, <1>6, <1>9, <1>12, <1>13
      <2> QED
          BY <1>1, <1>16, <2>1 DEF FlagIsVeto, Top
<1> QED
    BY <1>17, <1>18, <1>19 DEF IInv

-----------------------------------------------------------------------------
LEMMA NextIInv == ASSUME IInv, AliasValues \cap AliasNames = {}, [Next]_vars PROVE IInv'
<1>1. CASE ReadLine
      BY <1>1, ReadLineOK
<1>2. CASE Forks("shell")
      BY <1>2, ForksOK
<1>3. CASE ChildDone
      BY <1>3, ChildDoneOK
<1>4. CASE Reaped
      BY <1>4, ReapedOK
<1>5. ASSUME NEW p \in Processes, LineStep(p) PROVE IInv'
      BY <1>5, ExecutesSegmentOK, SkipsSegmentOK, LineDoneOK, AfterHooksOK, RecordsOK, ChecksTrapsOK DEF LineStep
<1>6. ASSUME NEW p \in Processes, CommandStep(p) PROVE IInv'
      <2>1. CASE Start(p) \/ Check(p) \/ Expands(p) \/ Substitutes(p) \/ StructuredPipe(p)
            BY <2>1, StartOK, CheckOK, ExpandsOK, SubstitutesOK, StructuredPipeOK
      <2>2. CASE Pipeline(p) \/ External(p) \/ NotFound(p) \/ Builtin(p) \/ Source(p)
            BY <2>2, PipelineOK, ExternalOK, NotFoundOK, BuiltinOK, SourceOK
      <2>3. CASE Zero(p) \/ ExitBuiltin(p) \/ Captures(p) \/ Captured(p)
            BY <2>3, ZeroOK, ExitBuiltinOK, CapturesOK, CapturedOK
      <2> QED
          BY <1>6, <2>1, <2>2, <2>3 DEF CommandStep
<1>7. CASE UNCHANGED vars
      BY <1>7 DEF vars, IInv, TypeOK, FlagIsVeto, Top
<1> QED
    BY <1>1, <1>2, <1>3, <1>4, <1>5, <1>6, <1>7 DEF Next

\* No call of a shell or of its child is out of place: every one that waits has
\* passed the hooks, and the flag is the innermost one's (execute_command_line,
\* execute_single_command, run_command_with_hooks_capture).
THEOREM Invariance == ASSUME AliasValues \cap AliasNames = {} PROVE Spec => []IInv
<1>1. IInv /\ [Next]_vars => IInv'
      BY NextIInv
<1> QED
    BY InitIInv, <1>1, PTL DEF Spec

\* Every variable of the executor stays in its range.
THEOREM TypeCorrect == ASSUME AliasValues \cap AliasNames = {} PROVE Spec => []TypeOK
<1>1. IInv => TypeOK
      BY DEF IInv
<1> QED
    BY Invariance, <1>1, PTL

\* A vetoed command never runs, a veto never hits another command, and a command
\* whose first word is written out begins with the one the hooks were shown,
\* whatever hooks, fixes, traps, substitutions, scripts and subshells execute in
\* between (executor.cpp:156-164, 247-285).  What a variable, a substitution or a
\* quoted name turns into, and the further stages of a pipeline, are resolved after
\* the hooks (376, 377, 392, 484), and nothing is said of them.
THEOREM VetoesHold == ASSUME AliasValues \cap AliasNames = {} PROVE Spec => []HooksDecide
<1>1. IInv => HooksDecide
      <2> SUFFICES ASSUME IInv, NEW p \in Processes, Runs(p)
                   PROVE  /\ Top(p).k = "run" => ~Top(p).v
                          /\ skip[p] => Top(p).k \in {"check", "captured"} /\ Top(p).v
                          /\ Top(p).k = "run" /\ Top(p).seen \notin Later \cup {NoWord}
                               => RunWord(p) = HeadOf(Top(p).seen)
          BY DEF HooksDecide, VetoedNeverRuns, SkipConsumed, HookSeesWhatRuns, At
      <2>1. Top(p) \in Frames /\ Shown(Top(p), aliases) /\ skip[p] = Top(p).v
            BY Stacks
      <2>2. Top(p).v \in BOOLEAN
            BY <2>1 DEF Frames
      <2>3. ASSUME Top(p).k = "run", Top(p).seen \notin Unread PROVE RunWord(p) = HeadOf(Top(p).seen)
            <3>1. Top(p).w \in {Top(p).seen, HeadOf(Top(p).seen)}
                  BY <2>1, <2>3 DEF Shown
            <3>2. HeadOf(Top(p).w) = HeadOf(Top(p).seen)
                  BY <3>1, Heads
            <3>3. Top(p).w \notin Later
                  BY <2>3, <3>1, Heads DEF Unread
            <3>4. LookedUp(Top(p).w) = Top(p).w
                  BY <3>3 DEF LookedUp, Later
            <3>5. AliasOf(Top(p).w) = Top(p).w
                  BY <2>1, <2>3 DEF Shown, AliasOf
            <3> QED
                BY <3>2, <3>4, <3>5 DEF RunWord
      <2> QED
          BY <2>1, <2>2, <2>3 DEF Shown, Unread
<1> QED
    BY Invariance, <1>1, PTL

-----------------------------------------------------------------------------
(* What the fixes leave alone.  A fix that is written out, may not be vetoed *)
(* and runs no lines, and does not become one that may by an alias, sets no  *)
(* status.                                                                   *)
Harmless == Words \ (Risky \cup Later \cup {"source"})
FixesPass ==
  /\ Fixes \subseteq Harmless
  /\ (Fixes \cup {"make"}) \cap AliasNames = {} \/ AliasValues \subseteq Harmless

\* What a fix may come to execute: itself, and what is left of `make $(...)`.
Calm == IF (Fixes \cup {"make"}) \cap AliasNames = {} THEN Fixes \cup {"make"} ELSE Harmless

\* The calls of a fix.
FixCalls == {"fix", "start", "check", "run", "wait", "zero", "capture", "captured"}
OfFix(f) ==
  /\ f.k \in FixCalls
  /\ f.k \in {"start", "check", "run"} => f.w \in Calm
  /\ f.k = "check" => ~f.v

\* A line whose hooks run has its status in `$?`, and only calls of a fix above it.
NoneHooked(t) == \A i \in 1 .. Len(t) : t[i].k # "hooked"
Steady(t, st) == \A i \in 1 .. Len(t) : t[i].k = "hooked" => t[i].s = st /\ \A j \in 1 .. i - 1 : OfFix(t[j])
SInv == \A p \in Processes : Steady(stack[p], status[p])

LEMMA CalmWords ==
  ASSUME FixesPass
  PROVE  /\ Fixes \subseteq Calm /\ "make" \in Calm /\ "source" \notin Calm /\ Calm \cap Later = {}
         /\ \A w \in Calm : w \notin Risky
<1>1. "make" \in Harmless
      BY DEF Harmless, Words, Names, Plain, Later, Risky
<1>2. Calm \subseteq Harmless /\ Fixes \subseteq Calm /\ "make" \in Calm
      BY <1>1 DEF FixesPass, Calm
<1> QED
    BY <1>2 DEF Harmless

LEMMA CalmAlias ==
  ASSUME FixesPass, IInv, NEW u \in Calm, NEW w, w = AliasOf(u) PROVE w \in Calm
<1>1. aliases \in [AliasNames -> AliasValues \cup {NoWord}]
      BY DEF IInv, TypeOK
<1>2. CASE u \in AliasNames /\ aliases[u] # NoWord
      <2>1. w = aliases[u] /\ aliases[u] \in AliasValues
            BY <1>1, <1>2 DEF AliasOf
      <2>2. (Fixes \cup {"make"}) \cap AliasNames # {}
            BY <1>2 DEF Calm
      <2>3. AliasValues \subseteq Harmless /\ Calm = Harmless
            BY <2>2 DEF FixesPass, Calm
      <2> QED
          BY <2>1, <2>3
<1>3. CASE ~(u \in AliasNames /\ aliases[u] # NoWord)
      BY <1>3 DEF AliasOf
<1> QED
    BY <1>2, <1>3

\* Calls put on others.
LEMMA PutOn ==
  ASSUME NEW rest \in Seq(Frames), NEW a \in Frames, NEW st, Steady(rest, st),
         a.k = "hooked" => a.s = st, OfFix(a) \/ NoneHooked(rest)
  PROVE  /\ <<a>> \o rest \in Seq(Frames) /\ Steady(<<a>> \o rest, st)
         /\ a.k # "hooked" /\ NoneHooked(rest) => NoneHooked(<<a>> \o rest)
<1> DEFINE x == <<a>>
           t == x \o rest
<1>1. x \in Seq(Frames) /\ Len(x) = 1 /\ x[1] = a /\ Len(rest) \in Nat
      OBVIOUS
<1> HIDE DEF x
<1>2. /\ t \in Seq(Frames) /\ Len(t) = 1 + Len(rest)
      /\ \A i \in 1 .. Len(t) : t[i] = IF i <= 1 THEN x[i] ELSE rest[i - 1]
      <2>1. /\ t \in Seq(Frames) /\ Len(t) = Len(x) + Len(rest)
            /\ \A i \in 1 .. Len(t) : t[i] = IF i <= Len(x) THEN x[i] ELSE rest[i - Len(x)]
            BY <1>1, ConcatProperties, ZenonT(60)
      <2> QED
          BY <1>1, <2>1
<1> HIDE DEF t
<1>3. t[1] = a /\ \A i \in 2 .. Len(t) : i - 1 \in 1 .. Len(rest) /\ t[i] = rest[i - 1]
      BY <1>1, <1>2
<1>4. Steady(t, st)
      <2> SUFFICES ASSUME NEW i \in 1 .. Len(t), t[i].k = "hooked"
                   PROVE  t[i].s = st /\ \A j \in 1 .. i - 1 : OfFix(t[j])
          BY DEF Steady
      <2>1. CASE i = 1
            BY <1>3, <2>1
      <2>2. CASE i # 1
            <3>1. i \in 2 .. Len(t) /\ i - 1 \in 1 .. Len(rest) /\ t[i] = rest[i - 1]
                  BY <1>1, <1>2, <1>3, <2>2
            <3>2. rest[i - 1].s = st /\ \A j \in 1 .. (i - 1) - 1 : OfFix(rest[j])
                  BY <3>1 DEF Steady
            <3>3. OfFix(a)
                  BY <3>1 DEF NoneHooked
            <3>4. ASSUME NEW j \in 1 .. i - 1 PROVE OfFix(t[j])
                  <4>1. CASE j = 1
                        BY <1>3, <3>3, <4>1
                  <4>2. CASE j # 1
                        <5>1. j \in 2 .. Len(t) /\ j - 1 \in 1 .. (i - 1) - 1
                              BY <1>1, <1>2, <3>1, <4>2
                        <5> QED
                            BY <1>3, <3>2, <5>1
                  <4> QED
                      BY <4>1, <4>2
            <3> QED
                BY <3>1, <3>2, <3>4
      <2> QED
          BY <2>1, <2>2
<1>5. ASSUME a.k # "hooked", NoneHooked(rest) PROVE NoneHooked(t)
      <2> SUFFICES ASSUME NEW i \in 1 .. Len(t) PROVE t[i].k # "hooked"
          BY DEF NoneHooked
      <2>1. CASE i = 1
            BY <1>3, <1>5, <2>1
      <2>2. CASE i # 1
            <3>1. i \in 2 .. Len(t)
                  BY <1>1, <1>2, <2>2
            <3> QED
                BY <1>3, <1>5, <3>1 DEF NoneHooked
      <2> QED
          BY <2>1, <2>2
<1> QED
    BY <1>2, <1>4, <1>5 DEF t, x

LEMMA TwoOn ==
  ASSUME NEW rest \in Seq(Frames), NEW a \in Frames, NEW b \in Frames
  PROVE  <<a, b>> \o rest = <<a>> \o (<<b>> \o rest)
<1> DEFINE x == <<a>>
           y == <<b>>
           z == <<a, b>>
<1>1. /\ x \in Seq(Frames) /\ Len(x) = 1 /\ x[1] = a
      /\ y \in Seq(Frames) /\ Len(y) = 1 /\ y[1] = b
      /\ z \in Seq(Frames) /\ Len(z) = 2 /\ z[1] = a /\ z[2] = b
      BY Calls
<1> HIDE DEF x, y, z
<1>2. z = x \o y
      <2>1. /\ x \o y \in Seq(Frames) /\ Len(x \o y) = Len(x) + Len(y)
            /\ \A i \in 1 .. Len(x \o y) : (x \o y)[i] = IF i <= Len(x) THEN x[i] ELSE y[i - Len(x)]
            BY <1>1, ConcatProperties, SMTT(30)
      <2>2. \A i \in 1 .. 2 : (x \o y)[i] = z[i]
            BY <1>1, <2>1
      <2> QED
          BY <1>1, <2>1, <2>2, SeqEqual
<1>3. (x \o y) \o rest = x \o (y \o rest)
      BY <1>1, ConcatAssociative, SMTT(30)
<1> QED
    BY <1>2, <1>3 DEF x, y, z

LEMMA ThreeOn ==
  ASSUME NEW rest \in Seq(Frames), NEW a \in Frames, NEW b \in Frames, NEW c \in Frames
  PROVE  <<b, c, a>> \o rest = <<b>> \o (<<c>> \o (<<a>> \o rest))
<1> DEFINE x == <<b>>
           y == <<c, a>>
           z == <<b, c, a>>
<1>1. /\ x \in Seq(Frames) /\ Len(x) = 1 /\ x[1] = b
      /\ y \in Seq(Frames) /\ Len(y) = 2 /\ y[1] = c /\ y[2] = a
      /\ z \in Seq(Frames) /\ Len(z) = 3 /\ z[1] = b /\ z[2] = c /\ z[3] = a
      BY Calls
<1>2. y \o rest = <<c>> \o (<<a>> \o rest)
      BY TwoOn
<1> HIDE DEF x, y, z
<1>3. x \in Seq(Frames) /\ y \in Seq(Frames)
      BY <1>1
<1>4. z = x \o y
      <2>1. /\ x \o y \in Seq(Frames) /\ Len(x \o y) = Len(x) + Len(y)
            /\ \A i \in 1 .. Len(x \o y) : (x \o y)[i] = IF i <= Len(x) THEN x[i] ELSE y[i - Len(x)]
            BY <1>3, ConcatProperties
      <2>2. \A i \in 1 .. 3 : (x \o y)[i] = z[i]
            BY <1>1, <2>1
      <2> QED
          BY <1>1, <2>1, <2>2, SeqEqual
<1>5. (x \o y) \o rest = x \o (y \o rest)
      BY <1>3, ConcatAssociative
<1> QED
    BY <1>2, <1>4, <1>5 DEF x, z

\* What is below the innermost call.
LEMMA Beneath ==
  ASSUME NEW t \in Seq(Frames), NEW st, t # <<>>, Steady(t, st)
  PROVE  /\ Tail(t) \in Seq(Frames) /\ Steady(Tail(t), st)
         /\ ~OfFix(t[1]) => NoneHooked(Tail(t))
<1>1. /\ Tail(t) \in Seq(Frames) /\ Len(Tail(t)) = Len(t) - 1 /\ Len(t) \in Nat \ {0}
      /\ \A i \in 1 .. Len(Tail(t)) : Tail(t)[i] = t[i + 1] /\ i + 1 \in 2 .. Len(t)
      OBVIOUS
<1> DEFINE u == Tail(t)
<1> HIDE DEF u
<1>2. u \in Seq(Frames) /\ Len(u) = Len(t) - 1 /\ \A i \in 1 .. Len(u) : u[i] = t[i + 1] /\ i + 1 \in 2 .. Len(t)
      BY <1>1 DEF u
<1>3. ASSUME NEW i \in 1 .. Len(u), u[i].k = "hooked"
      PROVE  u[i].s = st /\ (\A j \in 1 .. i - 1 : OfFix(u[j])) /\ OfFix(t[1])
      <2>1. i + 1 \in 1 .. Len(t) /\ u[i] = t[i + 1] /\ i \in Nat
            BY <1>1, <1>2
      <2>2. t[i + 1].s = st /\ \A j \in 1 .. (i + 1) - 1 : OfFix(t[j])
            BY <1>3, <2>1 DEF Steady
      <2>3. 1 \in 1 .. (i + 1) - 1
            BY <2>1
      <2>4. ASSUME NEW j \in 1 .. i - 1 PROVE OfFix(u[j])
            <3>1. j \in 1 .. Len(u) /\ j + 1 \in 1 .. (i + 1) - 1
                  BY <1>1, <1>2, <2>1
            <3> QED
                BY <1>2, <2>2, <3>1
      <2> QED
          BY <2>1, <2>2, <2>3, <2>4
<1>4. Steady(u, st)
      BY <1>3 DEF Steady
<1>5. ~OfFix(t[1]) => NoneHooked(u)
      BY <1>3 DEF NoneHooked
<1> QED
    BY <1>2, <1>4, <1>5 DEF u

LEMMA NoneIsSteady == ASSUME NEW t, NoneHooked(t) PROVE \A st : Steady(t, st)
  BY DEF NoneHooked, Steady

\* One process goes on, the other one rests.
LEMMA Moved ==
  ASSUME IInv, SInv, NEW p \in Processes, NEW t, stack' = [stack EXCEPT ![p] = t],
         \A q \in Processes : q # p => status'[q] = status[q], Steady(t, status'[p])
  PROVE  SInv'
<1>1. stack \in [Processes -> Seq(Frames)]
      BY DEF IInv, TypeOK, Frames
<1>2. stack'[p] = t /\ \A q \in Processes : q # p => stack'[q] = stack[q]
      BY <1>1
<1>3. ASSUME NEW q \in Processes PROVE Steady(stack'[q], status'[q])
      <2>1. CASE q = p
            BY <1>2, <2>1
      <2>2. CASE q # p
            BY <1>2, <2>2 DEF SInv
      <2> QED
          BY <2>1, <2>2
<1> QED
    BY <1>3 DEF SInv

LEMMA Below ==
  ASSUME IInv, SInv, NEW p \in Processes, Runs(p)
  PROVE  /\ Tail(stack[p]) \in Seq(Frames) /\ Steady(Tail(stack[p]), status[p])
         /\ ~OfFix(Top(p)) => NoneHooked(Tail(stack[p]))
<1>1. stack[p] \in Seq(Frames) /\ stack[p] # <<>> /\ Top(p) = stack[p][1]
      BY Stacks DEF Runs
<1>2. Steady(stack[p], status[p])
      BY DEF SInv
<1> QED
    BY <1>1, <1>2, Beneath

\* The innermost call is replaced by none, one or two, and nothing is said of `$?`.
LEMMA Steps0 ==
  ASSUME IInv, SInv, NEW p \in Processes, Runs(p), Becomes(p, <<>>), status' = status PROVE SInv'
<1> DEFINE rest == Tail(stack[p])
<1>1. rest \in Seq(Frames) /\ Steady(rest, status'[p])
      BY Below
<1>2. stack' = [stack EXCEPT ![p] = <<>> \o rest]
      BY DEF Becomes
<1> HIDE DEF rest
<1>3. <<>> \o rest = rest
      BY <1>1, ConcatEmptySeq
<1>4. stack' = [stack EXCEPT ![p] = rest]
      BY <1>2, <1>3
<1> QED
    BY <1>1, <1>4, Moved

LEMMA Steps1 ==
  ASSUME IInv, SInv, NEW p \in Processes, Runs(p), NEW a \in Frames, Becomes(p, <<a>>), a.k # "hooked",
         OfFix(Top(p)) => OfFix(a), status' = status
  PROVE  SInv'
<1> DEFINE rest == Tail(stack[p])
<1>1. rest \in Seq(Frames) /\ Steady(rest, status[p]) /\ (~OfFix(Top(p)) => NoneHooked(rest))
      BY Below
<1>2. stack' = [stack EXCEPT ![p] = <<a>> \o rest]
      BY DEF Becomes
<1> HIDE DEF rest
<1>3. OfFix(a) \/ NoneHooked(rest)
      BY <1>1
<1>4. Steady(<<a>> \o rest, status[p])
      BY <1>1, <1>3, PutOn
<1>5. Steady(<<a>> \o rest, status'[p])
      BY <1>4
<1> DEFINE t == <<a>> \o rest
<1> HIDE DEF t
<1>6. stack' = [stack EXCEPT ![p] = t] /\ Steady(t, status'[p])
      BY <1>2, <1>5 DEF t
<1> QED
    BY <1>6, Moved

LEMMA Steps2 ==
  ASSUME IInv, SInv, NEW p \in Processes, Runs(p), NEW a \in Frames, NEW b \in Frames, Becomes(p, <<a, b>>),
         a.k # "hooked", b.k # "hooked", OfFix(Top(p)) => OfFix(a) /\ OfFix(b), status' = status
  PROVE  SInv'
<1> DEFINE rest == Tail(stack[p])
           u == <<b>> \o rest
           t == <<a>> \o u
<1>1. rest \in Seq(Frames) /\ Steady(rest, status[p]) /\ (~OfFix(Top(p)) => NoneHooked(rest))
      BY Below
<1>2. stack' = [stack EXCEPT ![p] = <<a, b>> \o rest]
      BY DEF Becomes
<1> HIDE DEF rest
<1>3. <<a, b>> \o rest = t
      BY <1>1, TwoOn
<1>4. u \in Seq(Frames) /\ Steady(u, status[p]) /\ (NoneHooked(rest) => NoneHooked(u))
      <2>1. OfFix(b) \/ NoneHooked(rest)
            BY <1>1
      <2> QED
          BY <1>1, <2>1, PutOn
<1> HIDE DEF u
<1>5. Steady(t, status[p])
      <2>1. OfFix(a) \/ NoneHooked(u)
            BY <1>1, <1>4
      <2> QED
          BY <1>4, <2>1, PutOn
<1> HIDE DEF t
<1>6. stack' = [stack EXCEPT ![p] = t] /\ Steady(t, status'[p])
      BY <1>2, <1>3, <1>5
<1> QED
    BY <1>6, Moved

\* The command returned: the hooks of no line run, or the caller is a call of the
\* fix, and `$?` is as it was.
LEMMA ReturnsSteady ==
  ASSUME IInv, SInv, NEW p \in Processes, Runs(p), Top(p).k \in Under(p), NEW s \in Statuses, Returns(p, s),
         OfFix(Top(p)) => status' = status, \A q \in Processes : q # p => status'[q] = status[q]
  PROVE  SInv'
<1> DEFINE under == Tail(stack[p])
           rest == Tail(under)
           a == [Caller(p) EXCEPT !.k = "ran", !.s = s]
<1>1. under \in Seq(Frames) /\ under # <<>>
      BY Stacks
<1>2. Caller(p) = under[1] /\ Caller(p) \in Frames
      <2>1. stack[p] \in Seq(Frames) /\ stack[p] # <<>>
            BY Stacks DEF Runs
      <2> QED
          BY <1>1, <2>1 DEF Caller
<1>3. Steady(under, status[p]) /\ (~OfFix(Top(p)) => NoneHooked(under))
      BY Below
<1>4. Steady(under, status'[p])
      <2>1. CASE OfFix(Top(p))
            BY <1>3, <2>1
      <2>2. CASE ~OfFix(Top(p))
            BY <1>3, <2>2, NoneIsSteady
      <2> QED
          BY <2>1, <2>2
<1>5. a \in Frames /\ a.k = "ran"
      BY <1>2 DEF Frames
<1>6. stack' = [stack EXCEPT ![p] = IF Caller(p).k = "call" THEN <<a>> \o rest ELSE rest]
      BY DEF Returns
<1> HIDE DEF under, a
<1>7. rest \in Seq(Frames) /\ Steady(rest, status'[p]) /\ (~OfFix(Caller(p)) => NoneHooked(rest))
      BY <1>1, <1>2, <1>4, Beneath
<1> HIDE DEF rest
<1>8. CASE Caller(p).k = "call"
      <2> DEFINE t == <<a>> \o rest
      <2>1. stack' = [stack EXCEPT ![p] = t]
            BY <1>6, <1>8
      <2>2. NoneHooked(rest)
            BY <1>7, <1>8 DEF OfFix, FixCalls
      <2>3. Steady(t, status'[p])
            BY <1>5, <1>7, <2>2, PutOn
      <2> HIDE DEF t
      <2> QED
          BY <2>1, <2>3, Moved
<1>9. CASE Caller(p).k # "call"
      <2>1. stack' = [stack EXCEPT ![p] = rest]
            BY <1>6, <1>9
      <2> QED
          BY <1>7, <2>1, Moved
<1> QED
    BY <1>8, <1>9

\* The calls of a line are not those of a fix.
LEMMA LinesOwn == ASSUME NEW f, f.k \in {"line", "call", "ran", "hooked", "recorded"} PROVE ~OfFix(f)
  BY DEF OfFix, FixCalls

LEMMA LineSteady ==
  ASSUME IInv, SInv, NEW p \in Processes,
         ExecutesSegment(p) \/ SkipsSegment(p) \/ LineDone(p) \/ Records(p) \/ ChecksTraps(p)
  PROVE  SInv'
<1>1. Runs(p) /\ Top(p).k \in {"line", "hooked", "recorded"} /\ status' = status
      BY DEF ExecutesSegment, SkipsSegment, LineDone, Records, ChecksTraps, At
<1>2. Top(p) \in Frames /\ ~OfFix(Top(p)) /\ cmds \in Nat
      BY <1>1, Stacks, LinesOwn
<1>3. CASE ExecutesSegment(p)
      <2>1. PICK w \in Words :
              Becomes(p, <<Call("start", 0, cmds', w), [Top(p) EXCEPT !.k = "call", !.n = @ - 1, !.id = cmds']>>)
            BY <1>3 DEF ExecutesSegment
      <2> DEFINE a == Call("start", 0, cmds', w)
                 b == [Top(p) EXCEPT !.k = "call", !.n = @ - 1, !.id = cmds']
      <2>2. Becomes(p, <<a, b>>)
            BY <2>1
      <2>3. cmds' \in Nat /\ Top(p).n - 1 \in Nat
            <3>1. Top(p).n > 0 /\ cmds' = cmds + 1
                  BY <1>3 DEF ExecutesSegment
            <3> QED
                BY <1>2, <3>1 DEF Frames
      <2>4. b \in Frames /\ b.k = "call"
            <3>1. b = [[[Top(p) EXCEPT !.k = "call"] EXCEPT !.n = Top(p).n - 1] EXCEPT !.id = cmds']
                  BY <1>2 DEF Frames
            <3> HIDE DEF b
            <3> QED
                BY <1>2, <2>3, <3>1 DEF Frames
      <2>5. 0 \in Nat /\ "start" \in Places /\ w \in Words \cup {NoWord} /\ a = Call("start", 0, cmds', w)
            BY DEF Places
      <2> HIDE DEF a, b
      <2>6. a \in Frames /\ a.k = "start"
            BY <2>3, <2>5, NewCall DEF Call
      <2> QED
          BY <1>1, <1>2, <2>2, <2>4, <2>6, Steps2
<1>4. CASE SkipsSegment(p)
      <2> DEFINE a == [Top(p) EXCEPT !.n = @ - 1]
      <2>1. Becomes(p, <<a>>)
            BY <1>4 DEF SkipsSegment
      <2>2. a \in Frames /\ a.k = "line"
            <3>1. Top(p).n - 1 \in Nat /\ Top(p).k = "line"
                  BY <1>2, <1>4 DEF SkipsSegment, At, Frames
            <3> QED
                BY <1>2, <3>1 DEF Frames
      <2> HIDE DEF a
      <2> QED
          BY <1>1, <1>2, <2>1, <2>2, Steps1
<1>5. CASE LineDone(p)
      <2>1. Becomes(p, <<>>)
            BY <1>5 DEF LineDone
      <2> QED
          BY <1>1, <2>1, Steps0
<1>6. CASE Records(p)
      <2> DEFINE a == [Top(p) EXCEPT !.k = "recorded"]
      <2>1. Becomes(p, <<a>>)
            BY <1>6 DEF Records
      <2>2. a \in Frames /\ a.k = "recorded"
            BY <1>2 DEF Frames
      <2> HIDE DEF a
      <2> QED
          BY <1>1, <1>2, <2>1, <2>2, Steps1
<1>7. CASE ChecksTraps(p)
      <2> DEFINE a == [Top(p) EXCEPT !.k = "line"]
                 b == Line(1)
      <2>1. \E before \in {<<>>, <<b>>} : Becomes(p, before \o <<a>>)
            BY <1>7 DEF ChecksTraps
      <2>2. a \in Frames /\ a.k = "line"
            BY <1>2 DEF Frames
      <2>3. b = Line(1)
            OBVIOUS
      <2> HIDE DEF a, b
      <2>4. b \in Frames /\ b.k = "line"
            BY <2>3, LineOfOne
      <2>5. Becomes(p, <<a>>) \/ Becomes(p, <<b, a>>)
            BY <2>1, <2>2, <2>4, WithOrWithout
      <2>6. CASE Becomes(p, <<a>>)
            BY <1>1, <1>2, <2>2, <2>6, Steps1
      <2>7. CASE Becomes(p, <<b, a>>)
            BY <1>1, <1>2, <2>2, <2>4, <2>7, Steps2
      <2> QED
          BY <2>5, <2>6, <2>7
<1> QED
    BY <1>3, <1>4, <1>5, <1>6, <1>7

\* `$?` is set, and the hooks may put a fix on the line that waits for them.
LEMMA AfterHooksSteady ==
  ASSUME IInv, SInv, FixesPass, NEW p \in Processes, AfterHooks(p)
  PROVE  SInv'
<1>1. Runs(p) /\ Top(p).k = "ran" /\ status' = [status EXCEPT ![p] = Top(p).s]
      BY DEF AfterHooks, At
<1>2. /\ Top(p) \in Frames /\ ~OfFix(Top(p)) /\ cmds \in Nat /\ status \in [Processes -> Statuses]
      BY <1>1, Stacks, LinesOwn
<1>3. status'[p] = Top(p).s /\ \A q \in Processes : q # p => status'[q] = status[q]
      BY <1>1, <1>2
<1> DEFINE rest == Tail(stack[p])
           a == [Top(p) EXCEPT !.k = "hooked"]
           u == <<a>> \o rest
<1>4. rest \in Seq(Frames) /\ NoneHooked(rest)
      BY <1>1, <1>2, Below
<1>5. a \in Frames /\ a.k = "hooked" /\ a.s = status'[p]
      BY <1>2, <1>3 DEF Frames
<1>6. CASE Becomes(p, <<[Top(p) EXCEPT !.k = "hooked"]>>)
      <2>1. stack' = [stack EXCEPT ![p] = u]
            BY <1>6 DEF Becomes
      <2> HIDE DEF a, rest
      <2>2. Steady(u, status'[p])
            BY <1>4, <1>5, NoneIsSteady, PutOn
      <2> HIDE DEF u
      <2> QED
          BY <1>3, <2>1, <2>2, Moved
<1>7. CASE /\ cmds' = cmds + 1
           /\ \E w \in Fixes : Becomes(p, <<Call("start", 0, cmds', w), Call("fix", 0, 0, NoWord),
                                             [Top(p) EXCEPT !.k = "hooked"]>>)
      <2>1. PICK w \in Fixes : Becomes(p, <<Call("start", 0, cmds', w), Call("fix", 0, 0, NoWord), a>>)
            BY <1>7
      <2> DEFINE b == Call("start", 0, cmds', w)
                 c == Call("fix", 0, 0, NoWord)
                 x == <<c>> \o u
                 y == <<b>> \o x
      <2>2. stack' = [stack EXCEPT ![p] = <<b, c, a>> \o rest]
            BY <2>1 DEF Becomes
      <2>3. cmds' \in Nat /\ 0 \in Nat /\ "start" \in Places /\ "fix" \in Places
            /\ w \in Words \cup {NoWord} /\ NoWord \in Words \cup {NoWord}
            BY <1>2, <1>7, SomeWords DEF Places
      <2>4. b = Call("start", 0, cmds', w) /\ c = Call("fix", 0, 0, NoWord)
            OBVIOUS
      <2> HIDE DEF a, b, c, rest
      <2>5. b \in Frames /\ b.k = "start" /\ b.w = w /\ c \in Frames /\ c.k = "fix"
            BY <2>3, <2>4, NewCall DEF Call
      <2>6. OfFix(b) /\ OfFix(c)
            <3>1. w \in Calm
                  BY CalmWords
            <3> QED
                BY <2>5, <3>1 DEF OfFix, FixCalls
      <2>7. u \in Seq(Frames) /\ Steady(u, status'[p])
            BY <1>4, <1>5, NoneIsSteady, PutOn
      <2>8. <<b, c, a>> \o rest = y
            BY <1>4, <1>5, <2>5, ThreeOn, SMTT(60)
      <2> HIDE DEF u
      <2>9. x \in Seq(Frames) /\ Steady(x, status'[p])
            BY <2>5, <2>6, <2>7, PutOn
      <2> HIDE DEF x
      <2>10. Steady(y, status'[p])
            BY <2>5, <2>6, <2>9, PutOn
      <2> HIDE DEF y
      <2>11. stack' = [stack EXCEPT ![p] = y]
            BY <2>2, <2>8
      <2> QED
          BY <1>3, <2>10, <2>11, Moved
<1> QED
    BY <1>6, <1>7 DEF AfterHooks

\* A command of a fix is not vetoed, and what its aliases make of it is one, too.
LEMMA StartSteady ==
  ASSUME IInv, SInv, FixesPass, NEW p \in Processes, Start(p)
  PROVE  SInv'
<1>1. Runs(p) /\ Top(p).k = "start" /\ status' = status
      BY DEF Start, At
<1>2. Top(p) \in Frames
      BY <1>1, Stacks
<1>3. CASE Becomes(p, <<[Top(p) EXCEPT !.k = "run"]>>)
      <2> DEFINE a == [Top(p) EXCEPT !.k = "run"]
      <2>1. Becomes(p, <<a>>)
            BY <1>3
      <2>2. a \in Frames /\ a.k = "run" /\ a.w = Top(p).w
            BY <1>2 DEF Frames
      <2> HIDE DEF a
      <2>3. OfFix(Top(p)) => OfFix(a)
            BY <1>1, <2>2 DEF OfFix, FixCalls
      <2> QED
          BY <1>1, <2>1, <2>2, <2>3, Steps1
<1>4. CASE \E w \in {AliasOf(Top(p).w)} : \E v \in Vetoes(w) :
             Becomes(p, <<[Top(p) EXCEPT !.k = "check", !.w = w, !.seen = w, !.v = v]>>)
      <2> DEFINE w == AliasOf(Top(p).w)
      <2>1. PICK v \in Vetoes(w) : Becomes(p, <<[Top(p) EXCEPT !.k = "check", !.w = w, !.seen = w, !.v = v]>>)
            BY <1>4
      <2>2. w = AliasOf(Top(p).w) /\ Top(p).w \in Words \cup {NoWord}
            BY <1>2 DEF Frames
      <2> DEFINE a == [Top(p) EXCEPT !.k = "check", !.w = w, !.seen = w, !.v = v]
      <2>3. Becomes(p, <<a>>)
            BY <2>1
      <2> HIDE DEF w
      <2>4. w \in Words \cup {NoWord} /\ v \in BOOLEAN
            <3>1. aliases \in [AliasNames -> AliasValues \cup {NoWord}] /\ AliasValues \subseteq Words
                  BY SomeWords DEF IInv, TypeOK
            <3> QED
                BY <2>1, <2>2, <3>1 DEF AliasOf, Vetoes
      <2>5. a \in Frames /\ a.k = "check" /\ a.v = v /\ a.w = w
            <3>1. a = [[[[Top(p) EXCEPT !.k = "check"] EXCEPT !.w = w] EXCEPT !.seen = w] EXCEPT !.v = v]
                  BY <1>2 DEF Frames
            <3> HIDE DEF a
            <3> QED
                BY <1>2, <2>4, <3>1 DEF Frames
      <2> HIDE DEF a
      <2>6. OfFix(Top(p)) => OfFix(a)
            <3> SUFFICES ASSUME OfFix(Top(p)) PROVE OfFix(a)
                OBVIOUS
            <3>1. Top(p).w \in Calm
                  BY <1>1 DEF OfFix
            <3>2. w \in Calm
                  BY <2>2, <3>1, CalmAlias
            <3>3. w \notin Risky
                  BY <3>2, CalmWords
            <3>4. ~v
                  BY <2>1, <3>3 DEF Vetoes
            <3> QED
                BY <2>5, <3>2, <3>4 DEF OfFix, FixCalls
      <2> QED
          BY <1>1, <2>3, <2>5, <2>6, Steps1
<1> QED
    BY <1>3, <1>4 DEF Start

LEMMA CheckSteady ==
  ASSUME IInv, SInv, NEW p \in Processes, Check(p)
  PROVE  SInv'
<1>1. Runs(p) /\ Top(p).k = "check"
      BY DEF Check, At
<1>2. Top(p) \in Frames /\ skip[p] = Top(p).v /\ status \in [Processes -> Statuses]
      BY <1>1, Stacks
<1>3. CASE skip[p]
      <2>1. status' = [status EXCEPT ![p] = 1] /\ Returns(p, 1)
            BY <1>3 DEF Check
      <2>2. ~OfFix(Top(p))
            BY <1>1, <1>2, <1>3 DEF OfFix
      <2>3. \A q \in Processes : q # p => status'[q] = status[q]
            BY <1>2, <2>1
      <2>4. Top(p).k \in Under(p) /\ 1 \in Statuses
            BY <1>1 DEF Under, Statuses
      <2> QED
          BY <1>1, <2>1, <2>2, <2>3, <2>4, ReturnsSteady
<1>4. CASE ~skip[p]
      <2> DEFINE a == [Top(p) EXCEPT !.k = "run"]
      <2>1. Becomes(p, <<a>>) /\ status' = status
            BY <1>4 DEF Check
      <2>2. a \in Frames /\ a.k = "run" /\ a.w = Top(p).w
            BY <1>2 DEF Frames
      <2> HIDE DEF a
      <2>3. OfFix(Top(p)) => OfFix(a)
            BY <1>1, <2>2 DEF OfFix, FixCalls
      <2> QED
          BY <1>1, <2>1, <2>2, <2>3, Steps1
<1> QED
    BY <1>3, <1>4

\* The calls a command makes.
LEMMA MakesCalls ==
  ASSUME IInv, SInv, FixesPass, NEW p \in Processes, Expands(p) \/ Substitutes(p) \/ StructuredPipe(p) \/ Source(p)
  PROVE  SInv'
<1>1. Runs(p) /\ Top(p).k = "run" /\ status' = status
      BY DEF Expands, Substitutes, StructuredPipe, Source, At2, Dispatches, At
<1>2. Top(p) \in Frames
      BY <1>1, Stacks
<1>3. CASE Substitutes(p)
      <2>1. PICK inner \in Plain, w \in IF Top(p).w \in Substs THEN {HeadOf(Top(p).w)} ELSE Expanded :
              Becomes(p, <<Call("capture", 0, 0, inner), [Top(p) EXCEPT !.w = w]>>)
            BY <1>3 DEF Substitutes
      <2> DEFINE a == Call("capture", 0, 0, inner)
                 b == [Top(p) EXCEPT !.w = w]
      <2>2. Becomes(p, <<a, b>>) /\ a = Call("capture", 0, 0, inner)
            BY <2>1
      <2>3. w \in Words /\ (Top(p).w \in Substs => w = HeadOf(Top(p).w))
            BY <2>1, SomeWords, Heads
      <2>4. b \in Frames /\ b.k = "run" /\ b.w = w
            BY <1>1, <1>2, <2>3 DEF Frames
      <2> HIDE DEF a, b
      <2>5. a \in Frames /\ a.k = "capture"
            BY <2>2, InnerCall DEF Call
      <2>6. OfFix(Top(p)) => OfFix(a) /\ OfFix(b)
            <3> SUFFICES ASSUME OfFix(Top(p)) PROVE OfFix(a) /\ OfFix(b)
                OBVIOUS
            <3>1. Top(p).w \in Calm
                  BY <1>1 DEF OfFix
            <3>2. Top(p).w = "make$"
                  BY <1>3, <3>1, CalmWords DEF Substitutes, At2, Risky, Substs, Later
            <3>3. w = "make"
                  BY <2>3, <3>2 DEF HeadOf, Substs
            <3> QED
                BY <2>4, <2>5, <3>3, CalmWords DEF OfFix, FixCalls
      <2> QED
          BY <1>1, <2>2, <2>4, <2>5, <2>6, Steps2
<1>4. CASE StructuredPipe(p)
      <2>1. PICK inner \in Plain : Becomes(p, <<Call("capture", 0, 0, inner), Call("zero", 0, 0, NoWord)>>)
            BY <1>4 DEF StructuredPipe
      <2> DEFINE a == Call("capture", 0, 0, inner)
                 b == Call("zero", 0, 0, NoWord)
      <2>2. Becomes(p, <<a, b>>) /\ a = Call("capture", 0, 0, inner) /\ b = Call("zero", 0, 0, NoWord)
            BY <2>1
      <2> HIDE DEF a, b
      <2>3. a \in Frames /\ a.k = "capture" /\ b \in Frames /\ b.k = "zero"
            BY <2>2, InnerCall, ZeroCall DEF Call
      <2>4. OfFix(a) /\ OfFix(b)
            BY <2>3 DEF OfFix, FixCalls
      <2> QED
          BY <1>1, <2>2, <2>3, <2>4, Steps2
<1>5. CASE Source(p)
      <2> DEFINE a == Line(1)
                 b == Call("zero", 0, 0, NoWord)
      <2>1. Becomes(p, <<a, b>>) /\ a = Line(1) /\ b = Call("zero", 0, 0, NoWord)
            BY <1>5 DEF Source
      <2> HIDE DEF a, b
      <2>2. a \in Frames /\ a.k = "line" /\ b \in Frames /\ b.k = "zero"
            BY <2>1, LineOfOne, ZeroCall
      <2>3. ~OfFix(Top(p))
            <3> SUFFICES ASSUME OfFix(Top(p)) PROVE FALSE
                OBVIOUS
            <3>1. Top(p).w \in Calm
                  BY <1>1 DEF OfFix
            <3> DEFINE w == AliasOf(Top(p).w)
            <3>2. w = AliasOf(Top(p).w) /\ w = "source"
                  <4>1. LookedUp(Top(p).w) = Top(p).w
                        BY <3>1, CalmWords DEF LookedUp, Later
                  <4>2. HeadOf(AliasOf(Top(p).w)) = "source"
                        BY <1>5, <4>1 DEF Source, Dispatches, RunWord
                  <4> QED
                      BY <4>2, Heads DEF Plain
            <3> HIDE DEF w
            <3>3. w \in Calm
                  BY <3>1, <3>2, CalmAlias
            <3> QED
                BY <3>2, <3>3, CalmWords
      <2> QED
          BY <1>1, <2>1, <2>2, <2>3, Steps2
<1>6. CASE Expands(p)
      <2>1. PICK w \in Expanded \cup Substs \cup {"$(x)"} : Becomes(p, <<[Top(p) EXCEPT !.w = w]>>)
            BY <1>6 DEF Expands
      <2> DEFINE a == [Top(p) EXCEPT !.w = w]
      <2>2. Becomes(p, <<a>>)
            BY <2>1
      <2>3. w \in Words
            BY SomeWords
      <2>4. a \in Frames /\ a.k = "run"
            BY <1>1, <1>2, <2>3 DEF Frames
      <2> HIDE DEF a
      <2>5. ~OfFix(Top(p))
            BY <1>1, <1>6, CalmWords DEF Expands, At2, OfFix, Later
      <2> QED
          BY <1>1, <2>2, <2>4, <2>5, Steps1
<1> QED
    BY <1>3, <1>4, <1>5, <1>6

\* What a command returns leaves `$?` to the line.
LEMMA RunReturns ==
  ASSUME IInv, SInv, NEW p \in Processes,
         Pipeline(p) \/ External(p) \/ NotFound(p) \/ Builtin(p) \/ Zero(p) \/ (p = "shell" /\ Reaped)
  PROVE  SInv'
<1>1. Runs(p) /\ status' = status /\ Top(p).k \in {"run", "zero"} \cup (IF p = "shell" THEN {"wait"} ELSE {})
      BY DEF Pipeline, External, NotFound, Builtin, Zero, Reaped, Dispatches, At2, At
<1>2. Top(p).k \in Under(p)
      BY <1>1 DEF Under
<1>3. PICK s \in {0, 1, 2, 127} : Returns(p, s)
      BY DEF Pipeline, External, NotFound, Builtin, Zero, Reaped
<1>4. s \in Statuses
      BY <1>3 DEF Statuses
<1> QED
    BY <1>1, <1>2, <1>3, <1>4, ReturnsSteady

LEMMA CapturesSteady ==
  ASSUME IInv, SInv, NEW p \in Processes, Captures(p) \/ Captured(p)
  PROVE  SInv'
<1>1. Runs(p) /\ status' = status
      BY DEF Captures, Captured, At
<1>2. CASE Captures(p)
      <2>1. PICK v \in Vetoes(Top(p).w) : Becomes(p, <<[Top(p) EXCEPT !.k = "captured", !.v = v]>>)
            BY <1>2 DEF Captures
      <2>2. v \in BOOLEAN /\ Top(p) \in Frames
            BY <1>1, <2>1, Stacks DEF Vetoes
      <2> DEFINE a == [Top(p) EXCEPT !.k = "captured", !.v = v]
      <2>3. Becomes(p, <<a>>)
            BY <2>1
      <2>4. a \in Frames /\ a.k = "captured"
            <3>1. a = [[Top(p) EXCEPT !.k = "captured"] EXCEPT !.v = v]
                  BY <2>2 DEF Frames
            <3> HIDE DEF a
            <3> QED
                BY <2>2, <3>1 DEF Frames
      <2> HIDE DEF a
      <2>5. OfFix(a)
            BY <2>4 DEF OfFix, FixCalls
      <2> QED
          BY <1>1, <2>3, <2>4, <2>5, Steps1
<1>3. CASE Captured(p)
      <2>1. Becomes(p, <<>>)
            BY <1>3 DEF Captured
      <2> QED
          BY <1>1, <2>1, Steps0
<1> QED
    BY <1>2, <1>3

\* A process that begins or ends.
LEMMA Emptied ==
  ASSUME IInv, SInv, NEW p \in Processes, stack' = [stack EXCEPT ![p] = <<>>], status' = status
  PROVE  SInv'
<1>1. Steady(<<>>, status'[p])
      BY DEF Steady
<1> QED
    BY <1>1, Moved

LEMMA ReadLineSteady == ASSUME IInv, SInv, ReadLine PROVE SInv'
<1>1. PICK n \in 1 .. MaxSegs : stack' = [stack EXCEPT !["shell"] = <<Line(n)>>]
      BY DEF ReadLine
<1> DEFINE t == <<Line(n)>>
<1>2. Len(t) = 1 /\ t[1].k = "line"
      BY DEF Line, Call
<1> HIDE DEF t
<1>3. Steady(t, status'["shell"])
      BY <1>2 DEF Steady
<1>4. "shell" \in Processes /\ status' = status /\ stack' = [stack EXCEPT !["shell"] = t]
      BY <1>1 DEF ReadLine, Processes, t
<1> QED
    BY <1>3, <1>4, Moved

LEMMA ForksSteady == ASSUME IInv, SInv, Forks("shell") PROVE SInv'
<1> DEFINE p == "shell"
           c == "child"
           f == Top(p)
           body == <<Line(1), Call("wait", 0, 0, NoWord)>>
           t == [stack[p] EXCEPT ![1].k = "wait"]
<1>1. /\ p \in Processes /\ c \in Processes /\ p # c /\ \A q \in Processes : q = p \/ q = c
      /\ Runs(p) /\ f.k = "run"
      BY DEF Forks, At, Processes
<1>2. /\ f \in Frames /\ f = stack[p][1] /\ stack \in [Processes -> Seq(Frames)] /\ stack[p] # <<>>
      /\ status \in [Processes -> Statuses]
      BY <1>1, Stacks DEF Runs
<1>3. stack' = [stack EXCEPT ![c] = body, ![p][1].k = "wait"] /\ status' = [status EXCEPT ![c] = status[p]]
      BY DEF Forks
<1>4. stack'[p] = t /\ stack'[c] = body /\ status'[p] = status[p]
      BY <1>1, <1>2, <1>3
<1>5. Len(body) = 2 /\ body[1].k = "line" /\ body[2].k = "wait"
      BY DEF Line, Call
<1> HIDE DEF body
<1>6. Steady(body, status'[c])
      BY <1>5 DEF Steady
<1>7. Steady(t, status[p])
      <2> DEFINE a == [f EXCEPT !.k = "wait"]
      <2>1. a \in Frames /\ a.k = "wait" /\ (OfFix(f) => OfFix(a))
            <3>1. a \in Frames /\ a.k = "wait"
                  BY <1>2 DEF Frames
            <3> HIDE DEF a
            <3> QED
                BY <3>1 DEF OfFix, FixCalls
      <2>2. stack[p] \in Seq(Frames)
            BY <1>1, <1>2
      <2>3. t = [stack[p] EXCEPT ![1] = a]
            BY <1>2, <2>2
      <2> HIDE DEF a, t, f, p, c
      <2>4. Len(t) = Len(stack[p]) /\ t[1] = a /\ \A i \in 2 .. Len(t) : t[i] = stack[p][i]
            BY <1>2, <2>1, <2>2, <2>3
      <2>5. Steady(stack[p], status[p])
            BY <1>1 DEF SInv
      <2> SUFFICES ASSUME NEW i \in 1 .. Len(t), t[i].k = "hooked"
                   PROVE  t[i].s = status[p] /\ \A j \in 1 .. i - 1 : OfFix(t[j])
          BY DEF Steady
      <2>6. i \in 2 .. Len(t) /\ i \in 1 .. Len(stack[p]) /\ t[i] = stack[p][i]
            <3>1. i # 1
                  BY <2>1, <2>4
            <3> QED
                BY <2>4, <3>1
      <2>7. stack[p][i].s = status[p] /\ \A j \in 1 .. i - 1 : OfFix(stack[p][j])
            BY <2>5, <2>6 DEF Steady
      <2>8. ASSUME NEW j \in 1 .. i - 1 PROVE OfFix(t[j])
            <3>1. CASE j = 1
                  <4>1. OfFix(stack[p][1])
                        BY <2>7, <3>1
                  <4> QED
                      BY <1>2, <2>1, <2>4, <3>1, <4>1
            <3>2. CASE j # 1
                  <4>1. j \in 2 .. Len(t)
                        BY <2>2, <2>4, <2>6, <3>2
                  <4> QED
                      BY <2>4, <2>7, <4>1
            <3> QED
                BY <3>1, <3>2
      <2> QED
          BY <2>6, <2>7, <2>8
<1> QED
    BY <1>1, <1>4, <1>6, <1>7 DEF SInv

LEMMA NextSInv == ASSUME IInv, SInv, FixesPass, [Next]_vars PROVE SInv'
<1>1. CASE ReadLine
      BY <1>1, ReadLineSteady
<1>2. CASE Forks("shell")
      BY <1>2, ForksSteady
<1>3. CASE ChildDone
      <2>1. "child" \in Processes /\ stack' = [stack EXCEPT !["child"] = <<>>] /\ status' = status
            BY <1>3 DEF ChildDone, Processes
      <2> QED
          BY <2>1, Emptied
<1>4. CASE Reaped
      BY <1>4, RunReturns DEF Processes
<1>5. ASSUME NEW p \in Processes, LineStep(p) PROVE SInv'
      BY <1>5, LineSteady, AfterHooksSteady DEF LineStep
<1>6. ASSUME NEW p \in Processes, CommandStep(p) PROVE SInv'
      <2>1. CASE Start(p) \/ Check(p) \/ Expands(p) \/ Substitutes(p) \/ StructuredPipe(p) \/ Source(p)
            BY <2>1, StartSteady, CheckSteady, MakesCalls
      <2>2. CASE Pipeline(p) \/ External(p) \/ NotFound(p) \/ Builtin(p) \/ Zero(p)
            BY <2>2, RunReturns
      <2>3. CASE ExitBuiltin(p)
            <3>1. stack' = [stack EXCEPT ![p] = <<>>] /\ status' = status
                  BY <2>3 DEF ExitBuiltin
            <3> QED
                BY <3>1, Emptied
      <2>4. CASE Captures(p) \/ Captured(p)
            BY <2>4, CapturesSteady
      <2> QED
          BY <1>6, <2>1, <2>2, <2>3, <2>4 DEF CommandStep
<1>7. CASE UNCHANGED vars
      BY <1>7 DEF vars, SInv
<1> QED
    BY <1>1, <1>2, <1>3, <1>4, <1>5, <1>6, <1>7 DEF Next

\* When the hooks of a segment are through, `$?` is the status it returned, though
\* the hooks of an AI answer may have executed a fix in between, with its aliases,
\* substitutions, captures and subshells (execute_command_line, executor.cpp;
\* ai_error_hook_provider.cpp).  It takes that no fix may be vetoed or runs lines
\* of its own: a veto sets `$?`, and so does every line.
THEOREM StatusIsKept ==
  ASSUME AliasValues \cap AliasNames = {}, FixesPass
  PROVE  Spec => []StatusIsTheSegments
<1>1. Init => SInv
      BY DEF Init, SInv, Steady
<1>2. IInv /\ SInv /\ [Next]_vars => SInv'
      BY NextSInv
<1>3. IInv /\ SInv => StatusIsTheSegments
      <2> SUFFICES ASSUME IInv, SInv, NEW p \in Processes, Runs(p), Top(p).k = "hooked" PROVE status[p] = Top(p).s
          BY DEF StatusIsTheSegments, At
      <2>1. Top(p) = stack[p][1] /\ stack[p] \in Seq(Frames) /\ stack[p] # <<>>
            BY Stacks DEF Runs
      <2>2. 1 \in 1 .. Len(stack[p])
            BY <2>1
      <2> QED
          BY <2>1, <2>2 DEF SInv, Steady
<1> QED
    BY <1>1, <1>2, <1>3, Invariance, PTL DEF Spec

=============================================================================
