-------------------------- MODULE SequentialProofs --------------------------
(* What holds of the parts that one shell goes through by itself: the       *)
(* redirections of builtins, for any limit on descriptors and any nesting   *)
(* that it has room for; what is run of a reply, and what has been shown of *)
(* it before, for any reply and any chunks; helper commands, for any        *)
(* timeout and any bound; the lines that the loop takes for complete, for   *)
(* any text; sorting, for any rows; and the completion of commands, for any *)
(* tools, flags and misspellings.                                           *)
EXTENDS ReadLoop, Redirections, AiAnswer, SafeExec, StructuredPipe, Completion, DataLemmas, FiniteSetTheorems, SequenceTheorems, WellFoundedInduction, TLAPS

-----------------------------------------------------------------------------
(* BuiltinRedir gives back what it took.                                    *)

\* Two descriptors are free: one for the file, one for what it replaces.
Room == \A d \in Fds : Free(fds) \ {d} # {}

StdOpen(t) == \A d \in Std : t[d] # "closed"

\* What kept knows is enough to make before out of t: a descriptor that is not
\* kept is as it was; a kept one is on a descriptor of its own that was closed.
Keeps(kept, before, t) ==
  /\ \A d \in Std : kept[d] = -1 => t[d] = before[d]
  /\ \A d \in Std : kept[d] # -1 =>
       kept[d] \notin Std /\ before[kept[d]] = "closed" /\ t[kept[d]] = before[d]
  /\ \A d, e \in Std : kept[d] = kept[e] /\ kept[d] # -1 => d = e
  /\ \A x \in Fds \ Std : (\A d \in Std : kept[d] # x) => t[x] = before[x]

\* What a child makes of before is what the builtin has at 0 to 2, and it has nothing else.
ChildHas(forked, before, t) ==
  /\ \A d \in Std : forked[d] = t[d]
  /\ \A x \in Fds \ Std : forked[x] = before[x]

\* The table that the k-th call works on: the next call inside found it so.
Table(k) == IF k = 1 THEN fds ELSE stack[k - 1].before

IInv ==
  /\ TypeOK /\ StdOpen(fds)
  /\ \A k \in DOMAIN stack :
       /\ StdOpen(stack[k].before) /\ Keeps(stack[k].saved, stack[k].before, Table(k))
       /\ ChildHas(stack[k].child, stack[k].before, Table(k))

Tables == [Fds -> Objects]
Saved  == [Std -> Fds \cup {-1}]

-----------------------------------------------------------------------------
(* The system calls.                                                        *)

\* The lowest free descriptor is a free one.
LEMMA MinIsFree ==
  ASSUME NEW t \in Tables, Free(t) # {}
  PROVE  Min(Free(t)) \in Free(t)
<1>1. Free(t) \subseteq Nat
      BY LimitAssumption DEF Free, Fds
<1>2. PICK x \in Free(t) : \A y \in Free(t) : <<y, x>> \notin OpToRel(<, Nat)
      BY <1>1, NatLessThanWellFounded, WFMin, Zenon
<1>3. \A y \in Free(t) : <<y, x>> \in Nat \X Nat /\ <<y, x>>[1] = y /\ <<y, x>>[2] = x
      BY <1>1
<1>4. \A y \in Free(t) : ~(<<y, x>>[1] < <<y, x>>[2])
      BY <1>2, <1>3, Zenon DEF OpToRel
<1>5. \A y \in Free(t) : x <= y
      BY <1>1, <1>3, <1>4
<1> QED
    BY <1>5 DEF Min

\* kept2 and u are kept and t after v was put at d, with d kept the first time.
Puts(t, u, kept, kept2, d, v) ==
  \/ kept[d] # -1 /\ kept2 = kept /\ u = [t EXCEPT ![d] = v]
  \/ /\ kept[d] = -1
     /\ \E e \in Free(t) :
          /\ kept2 = [kept EXCEPT ![d] = e]
          /\ u = [x \in Fds |-> IF x = d THEN v ELSE IF x = e THEN t[d] ELSE t[x]]

\* s is what Saves may return.
Kept(t, d, kept, s) ==
  \/ kept[d] # -1 /\ s[1] = t /\ s[2] = kept
  \/ /\ kept[d] = -1
     /\ \E e \in Free(t) : s[1] = [t EXCEPT ![e] = t[d]] /\ s[2] = [kept EXCEPT ![d] = e]

LEMMA SavesOnce ==
  ASSUME NEW t \in Tables, NEW kept \in Saved, NEW d \in Std, t[d] # "closed", Free(t) # {}
  PROVE  Kept(t, d, kept, Saves(t, d, kept))
<1> DEFINE m == Min(Free(t))
<1>1. m \in Free(t)
      BY MinIsFree
<1> HIDE DEF m
<1>2. CASE kept[d] # -1
      BY <1>2 DEF Saves, Kept
<1>3. CASE kept[d] = -1
      <2>1. Saves(t, d, kept) = <<[t EXCEPT ![m] = t[d]], [kept EXCEPT ![d] = m]>>
            BY <1>3 DEF Saves, m
      <2>2. /\ Saves(t, d, kept)[1] = [t EXCEPT ![m] = t[d]]
            /\ Saves(t, d, kept)[2] = [kept EXCEPT ![d] = m]
            BY <2>1
      <2> QED
          BY <1>1, <1>3, <2>2 DEF Kept
<1> QED
    BY <1>2, <1>3

\* A redirection to v at d keeps what a call needs to put all back.
LEMMA PutsKeeps ==
  ASSUME NEW t \in Tables, NEW u, NEW kept \in Saved, NEW kept2, NEW before \in Tables,
         NEW d \in Std, NEW v \in Objects, v # "closed",
         StdOpen(t), StdOpen(before), Keeps(kept, before, t), Puts(t, u, kept, kept2, d, v)
  PROVE  u \in Tables /\ kept2 \in Saved /\ StdOpen(u) /\ Keeps(kept2, before, u)
<1>1. Std \subseteq Fds /\ Fds \subseteq Nat
      BY LimitAssumption DEF Std, Fds
<1>2. CASE kept[d] # -1
      <2>1. kept2 = kept /\ u = [t EXCEPT ![d] = v]
            BY <1>2 DEF Puts
      <2>2. u \in Tables /\ u[d] = v /\ \A x \in Fds \ {d} : u[x] = t[x]
            BY <1>1, <2>1 DEF Tables
      <2>3. StdOpen(u)
            BY <1>1, <2>2 DEF StdOpen
      <2>4. Keeps(kept, before, u)
            BY <1>1, <1>2, <2>2 DEF Keeps, Saved
      <2> QED
          BY <2>1, <2>2, <2>3, <2>4
<1>3. CASE kept[d] = -1
      <2>1. PICK e \in Free(t) :
              /\ kept2 = [kept EXCEPT ![d] = e]
              /\ u = [x \in Fds |-> IF x = d THEN v ELSE IF x = e THEN t[d] ELSE t[x]]
            BY <1>3 DEF Puts
      <2>2. e \in Fds /\ t[e] = "closed" /\ e \notin Std
            BY <1>1 DEF Free, StdOpen
      <2>3. e # d /\ u[d] = v /\ u[e] = t[d] /\ \A x \in Fds \ {d, e} : u[x] = t[x]
            BY <1>1, <2>1, <2>2
      <2>4. u \in Tables /\ kept2 \in Saved
            BY <1>1, <2>1, <2>2 DEF Tables, Saved
      <2>5. kept2[d] = e /\ \A c \in Std \ {d} : kept2[c] = kept[c]
            BY <2>1 DEF Saved
      <2>6. \A c \in Std : kept[c] # e
            BY <1>1, <2>2 DEF Keeps, StdOpen
      <2>7. before[e] = "closed"
            BY <2>2, <2>6 DEF Keeps
      <2>8. StdOpen(u)
            BY <1>1, <2>2, <2>3 DEF StdOpen
      <2>9. \A c \in Std : kept2[c] = -1 => u[c] = before[c]
            BY <1>1, <2>2, <2>3, <2>5 DEF Keeps
      <2>10. \A c \in Std : kept2[c] # -1 =>
               kept2[c] \notin Std /\ before[kept2[c]] = "closed" /\ u[kept2[c]] = before[c]
            <3> SUFFICES ASSUME NEW c \in Std, kept2[c] # -1
                         PROVE  /\ kept2[c] \notin Std /\ before[kept2[c]] = "closed"
                                /\ u[kept2[c]] = before[c]
                OBVIOUS
            <3>1. CASE c = d
                  BY <1>3, <2>2, <2>3, <2>5, <2>7, <3>1 DEF Keeps
            <3>2. CASE c # d
                  <4>1. kept2[c] = kept[c] /\ kept[c] \in Fds /\ kept[c] \notin Std /\ kept[c] # e
                        BY <2>5, <2>6, <3>2 DEF Keeps, Saved
                  <4>2. u[kept[c]] = t[kept[c]]
                        BY <2>3, <4>1
                  <4> QED
                      BY <4>1, <4>2 DEF Keeps
            <3> QED
                BY <3>1, <3>2
      <2>11. \A b, c \in Std : kept2[b] = kept2[c] /\ kept2[b] # -1 => b = c
            BY <2>5, <2>6 DEF Keeps
      <2>12. \A x \in Fds \ Std : (\A c \in Std : kept2[c] # x) => u[x] = before[x]
            <3> SUFFICES ASSUME NEW x \in Fds \ Std, \A c \in Std : kept2[c] # x
                         PROVE  u[x] = before[x]
                OBVIOUS
            <3>1. x # e /\ x # d /\ x # -1
                  BY <1>1, <2>5
            <3>2. \A c \in Std : kept[c] # x
                  BY <1>3, <2>5, <3>1
            <3> QED
                BY <2>3, <3>1, <3>2 DEF Keeps
      <2> QED
          BY <2>4, <2>8, <2>9, <2>10, <2>11, <2>12 DEF Keeps
<1> QED
    BY <1>2, <1>3

\* restore() makes the table of the call, whatever was kept.
LEMMA RestoredIsBefore ==
  ASSUME NEW t \in Tables, NEW kept \in Saved, NEW before \in Tables,
         StdOpen(t), StdOpen(before), Keeps(kept, before, t)
  PROVE  Restored(t, kept) = before
<1>1. Std \subseteq Fds /\ Fds \subseteq Nat /\ Std = {0, 1, 2} /\ -1 \notin Fds
      BY LimitAssumption DEF Std, Fds
\* Putting back one descriptor: what was kept of the others is left alone.
<1>2. ASSUME NEW w \in Tables, NEW d \in Std,
             kept[d] # -1 => w[kept[d]] = before[d]
      PROVE  /\ PutBack(w, d, kept[d]) \in Tables
             /\ \A x \in Fds :
                  PutBack(w, d, kept[d])[x] =
                    IF kept[d] = -1 THEN w[x]
                    ELSE IF x = d THEN before[d] ELSE IF x = kept[d] THEN "closed" ELSE w[x]
      <2>1. CASE kept[d] = -1
            BY <1>1, <2>1 DEF PutBack, Tables
      <2>2. CASE kept[d] # -1
            <3>1. kept[d] \in Fds /\ kept[d] # d /\ before[d] # "closed" /\ w[kept[d]] = before[d]
                  BY <1>1, <1>2, <2>2 DEF Keeps, StdOpen, Saved
            <3>2. PutBack(w, d, kept[d]) = [[w EXCEPT ![d] = before[d]] EXCEPT ![kept[d]] = "closed"]
                  BY <2>2, <3>1 DEF PutBack, Dup2, Close
            <3>3. before[d] \in Objects /\ "closed" \in Objects
                  BY <1>1 DEF Tables, Objects
            <3>4. [w EXCEPT ![d] = before[d]] \in Tables
                  BY <3>3 DEF Tables
            <3> QED
                BY <1>1, <2>2, <3>1, <3>2, <3>3, <3>4 DEF Tables
      <2> QED
          BY <2>1, <2>2
<1> DEFINE a == PutBack(t, 0, kept[0])
           b == PutBack(a, 1, kept[1])
           c == PutBack(b, 2, kept[2])
<1>3. /\ a \in Tables
      /\ \A x \in Fds : a[x] = IF kept[0] = -1 THEN t[x]
                               ELSE IF x = 0 THEN before[0] ELSE IF x = kept[0] THEN "closed" ELSE t[x]
      BY <1>1, <1>2 DEF Keeps
<1> HIDE DEF a
<1>4. \A d \in {1, 2} : kept[d] # -1 => a[kept[d]] = before[d]
      <2> SUFFICES ASSUME NEW d \in {1, 2}, kept[d] # -1 PROVE a[kept[d]] = before[d]
          OBVIOUS
      <2>1. kept[d] \in Fds /\ kept[d] # 0 /\ kept[d] # kept[0] /\ t[kept[d]] = before[d]
            BY <1>1 DEF Keeps, Saved
      <2> QED
          BY <1>3, <2>1
<1>5. /\ b \in Tables
      /\ \A x \in Fds : b[x] = IF kept[1] = -1 THEN a[x]
                               ELSE IF x = 1 THEN before[1] ELSE IF x = kept[1] THEN "closed" ELSE a[x]
      BY <1>1, <1>2, <1>3, <1>4
<1> HIDE DEF b
<1>6. kept[2] # -1 => b[kept[2]] = before[2]
      <2> SUFFICES ASSUME kept[2] # -1 PROVE b[kept[2]] = before[2]
          OBVIOUS
      <2>1. kept[2] \in Fds /\ kept[2] # 1 /\ kept[2] # kept[1] /\ a[kept[2]] = before[2]
            BY <1>1, <1>4 DEF Keeps, Saved
      <2> QED
          BY <1>5, <2>1
<1>7. /\ c \in Tables
      /\ \A x \in Fds : c[x] = IF kept[2] = -1 THEN b[x]
                               ELSE IF x = 2 THEN before[2] ELSE IF x = kept[2] THEN "closed" ELSE b[x]
      BY <1>1, <1>2, <1>5, <1>6
<1>8. Restored(t, kept) = c
      BY DEF Restored, a, b, c
<1> HIDE DEF c
<1>9. ASSUME NEW x \in Fds PROVE c[x] = before[x]
      <2>1. CASE x \in Std
            BY <1>1, <1>3, <1>5, <1>7, <2>1 DEF Keeps
      <2>2. CASE x \notin Std /\ \A d \in Std : kept[d] # x
            BY <1>1, <1>3, <1>5, <1>7, <2>2 DEF Keeps
      <2>3. CASE x \notin Std /\ \E d \in Std : kept[d] = x
            BY <1>1, <1>3, <1>5, <1>7, <2>3 DEF Keeps
      <2> QED
          BY <2>1, <2>2, <2>3
<1> QED
    BY <1>7, <1>8, <1>9 DEF Tables

-----------------------------------------------------------------------------
(* The actions.                                                             *)

\* A command has a bounded number of redirections.
LEMMA RedirsAreBounded ==
  ASSUME NEW rs \in BoundedSeq(Redirs, MaxRedirs)
  PROVE  rs \in Seq(Redirs) /\ Len(rs) <= MaxRedirs
BY BoundsAssumption DEF BoundedSeq, SeqOf

LEMMA TopIsACall ==
  ASSUME TypeOK, stack # <<>>
  PROVE  Top \in Calls /\ Tail(stack) \in Seq(Calls) /\ 1 \in DOMAIN stack
BY DEF TypeOK, Top

\* 2>&1 and a file are both a value put at a descriptor.
LEMMA DupPuts ==
  ASSUME TypeOK, StdOpen(fds), Room, stack # <<>>, ApplyDup
  PROVE  \E kept2 : /\ Made(kept2) /\ fds[1] \in Objects /\ fds[1] # "closed"
                     /\ Puts(fds, fds', Top.saved, kept2, 2, fds[1])
<1>1. fds \in Tables /\ Top.saved \in Saved /\ 1 \in Fds /\ 2 \in Fds /\ 1 \in Std /\ 2 \in Std
      BY LimitAssumption, TopIsACall DEF TypeOK, Tables, Calls, Saved, Fds, Std
<1>2. fds[1] # "closed" /\ fds[2] # "closed" /\ fds[1] \in Objects /\ Free(fds) # {}
      BY <1>1 DEF StdOpen, Room, Tables
<1> DEFINE s == Saves(fds, 2, Top.saved)
<1>3. fds' = Dup2(s[1], 1, 2) /\ Made(s[2])
      BY DEF ApplyDup
<1>4. Kept(fds, 2, Top.saved, s)
      BY <1>1, <1>2, SavesOnce, Zenon
<1> HIDE DEF s
<1>5. Puts(fds, fds', Top.saved, s[2], 2, fds[1])
      <2>1. CASE Top.saved[2] # -1
            BY <1>1, <1>2, <1>3, <1>4, <2>1 DEF Puts, Dup2, Kept
      <2>2. CASE Top.saved[2] = -1
            <3>1. PICK e \in Free(fds) :
                    s[1] = [fds EXCEPT ![e] = fds[2]] /\ s[2] = [Top.saved EXCEPT ![2] = e]
                  BY <1>4, <2>2 DEF Kept
            <3>2. e # 1 /\ e # 2 /\ e \in Fds
                  BY <1>2 DEF Free
            <3>3. s[1][1] = fds[1] /\ s[1] \in [Fds -> Objects]
                  BY <1>1, <3>1, <3>2 DEF Tables
            <3>4. fds' = [s[1] EXCEPT ![2] = fds[1]]
                  BY <1>2, <1>3, <3>3 DEF Dup2
            <3>5. fds' = [x \in Fds |-> IF x = 2 THEN fds[1] ELSE IF x = e THEN fds[2] ELSE fds[x]]
                  BY <1>1, <3>1, <3>2, <3>3, <3>4 DEF Tables
            <3> QED
                BY <2>2, <3>1, <3>5 DEF Puts
      <2> QED
          BY <2>1, <2>2
<1> QED
    BY <1>2, <1>3, <1>5

LEMMA FilePuts ==
  ASSUME TypeOK, StdOpen(fds), Room, stack # <<>>, ApplyFile, Redir \in Redirs
  PROVE  \E kept2 : /\ Made(kept2) /\ Redir.to \in Objects /\ Redir.to # "closed"
                     /\ Puts(fds, fds', Top.saved, kept2, Redir.fd, Redir.to)
<1>1. fds \in Tables /\ Top.saved \in Saved /\ Redir.fd \in Std /\ Redir.fd \in Fds
      BY LimitAssumption, RedirsAssumption, TopIsACall DEF TypeOK, Tables, Calls, Saved, Fds, Std
<1>2. Redir.to \in Objects /\ Redir.to # "closed" /\ "closed" \in Objects
      BY RedirsAssumption DEF Objects
<1> DEFINE f == Min(Free(fds))
           t == [fds EXCEPT ![f] = Redir.to]
           s == Saves(t, Redir.fd, Top.saved)
           d == Redir.fd
<1>3. f \in Free(fds)
      BY <1>1, MinIsFree DEF ApplyFile
<1>4. fds' = Close(Dup2(s[1], f, d), f) /\ Made(s[2])
      BY DEF ApplyFile
<1> HIDE DEF f
<1>5. f \in Fds /\ fds[f] = "closed" /\ f # d /\ fds[d] # "closed"
      BY <1>1, <1>3 DEF Free, StdOpen
<1>6. t \in Tables /\ t[f] = Redir.to /\ \A x \in Fds \ {f} : t[x] = fds[x]
      BY <1>1, <1>2, <1>5 DEF Tables
<1> HIDE DEF t
<1>7. Free(t) = Free(fds) \ {f} /\ Free(t) # {}
      BY <1>2, <1>5, <1>6 DEF Free, Room
<1>8. Kept(t, d, Top.saved, s)
      <2>1. t[d] # "closed"
            BY <1>1, <1>5, <1>6
      <2> QED
          BY <1>1, <1>6, <1>7, <2>1, SavesOnce, Zenon
<1> HIDE DEF s
<1> HIDE DEF d
<1>9. Puts(fds, fds', Top.saved, s[2], d, Redir.to)
      <2>1. CASE Top.saved[d] # -1
            <3>1. s[1] = t /\ s[2] = Top.saved
                  BY <1>8, <2>1 DEF Kept
            <3>2. fds' = [[t EXCEPT ![d] = Redir.to] EXCEPT ![f] = "closed"]
                  BY <1>2, <1>4, <1>6, <3>1 DEF Dup2, Close
            <3>3. fds' = [fds EXCEPT ![d] = Redir.to]
                  BY <1>1, <1>5, <1>6, <3>2 DEF Tables, d
            <3> QED
                BY <2>1, <3>1, <3>3 DEF Puts
      <2>2. CASE Top.saved[d] = -1
            <3>1. PICK e \in Free(t) :
                    s[1] = [t EXCEPT ![e] = t[d]] /\ s[2] = [Top.saved EXCEPT ![d] = e]
                  BY <1>8, <2>2 DEF Kept
            <3>2. e # f /\ e # d /\ e \in Fds /\ e \in Free(fds) /\ t[d] = fds[d] /\ d \in Fds
                  BY <1>1, <1>5, <1>6, <1>7 DEF Free, d
            <3>3. s[1][f] = Redir.to /\ s[1] \in [Fds -> Objects]
                  BY <1>1, <1>5, <1>6, <3>1, <3>2 DEF Tables
            <3>4. fds' = [[s[1] EXCEPT ![d] = Redir.to] EXCEPT ![f] = "closed"]
                  BY <1>2, <1>4, <3>3 DEF Dup2, Close
            <3>5. fds' = [x \in Fds |-> IF x = d THEN Redir.to ELSE IF x = e THEN fds[d] ELSE fds[x]]
                  BY <1>1, <1>5, <1>6, <3>1, <3>2, <3>3, <3>4 DEF Tables
            <3> QED
                BY <2>2, <3>1, <3>2, <3>5 DEF Puts
      <2> QED
          BY <2>1, <2>2
<1> QED
    BY <1>2, <1>4, <1>9 DEF d

\* A child that makes the redirection of v at d goes on following.
LEMMA ChildFollows ==
  ASSUME NEW t \in Tables, NEW u, NEW kept \in Saved, NEW kept2, NEW before \in Tables, NEW forked \in Tables,
         NEW r \in Redirs, NEW d \in Std, NEW v \in Objects, v # "closed",
         StdOpen(t), StdOpen(before), Keeps(kept, before, t), ChildHas(forked, before, t), Free(t) # {},
         Puts(t, u, kept, kept2, d, v),
         IF r.to = "stdout" THEN d = 2 /\ v = t[1] ELSE d = r.fd /\ v = r.to
  PROVE  ChildApply(forked, r) \in Tables /\ ChildHas(ChildApply(forked, r), before, u)
<1>1. Std \subseteq Fds /\ Fds \subseteq Nat /\ 1 \in Std /\ 2 \in Std
      BY LimitAssumption DEF Std, Fds
<1>2. \A x \in Std : u[x] = IF x = d THEN v ELSE t[x]
      <2>1. CASE kept[d] # -1
            BY <1>1, <2>1 DEF Puts, Tables
      <2>2. CASE kept[d] = -1
            <3>1. PICK e \in Free(t) :
                    u = [x \in Fds |-> IF x = d THEN v ELSE IF x = e THEN t[d] ELSE t[x]]
                  BY <2>2 DEF Puts
            <3>2. e \notin Std
                  BY DEF Free, StdOpen
            <3> QED
                BY <1>1, <3>1, <3>2
      <2> QED
          BY <2>1, <2>2
<1>3. ChildApply(forked, r) = [forked EXCEPT ![d] = v]
      <2>1. CASE r.to = "stdout"
            <3>1. forked[1] = t[1] /\ forked[1] # "closed"
                  BY <1>1 DEF ChildHas, StdOpen
            <3> QED
                BY <2>1, <3>1 DEF ChildApply, Dup2
      <2>2. CASE r.to # "stdout"
            <3> DEFINE f == Min(Free(forked))
            <3>1. Free(forked) # {}
                  <4>1. PICK x \in Fds : t[x] = "closed"
                        BY DEF Free
                  <4>2. x \notin Std /\ \A c \in Std : kept[c] # x
                        BY <1>1, <4>1 DEF StdOpen, Keeps
                  <4>3. forked[x] = "closed"
                        BY <4>1, <4>2 DEF Keeps, ChildHas
                  <4> QED
                      BY <4>1, <4>3 DEF Free
            <3>2. f \in Free(forked)
                  BY <3>1, MinIsFree
            <3>3. ChildApply(forked, r) = Close(Dup2([forked EXCEPT ![f] = v], f, d), f)
                  BY <2>2 DEF ChildApply
            <3> HIDE DEF f
            <3>4. f \in Fds /\ forked[f] = "closed" /\ f \notin Std
                  BY <3>2 DEF Free, StdOpen, ChildHas
            <3> DEFINE w == [forked EXCEPT ![f] = v]
            <3>5. w \in Tables /\ w[f] = v /\ \A x \in Fds \ {f} : w[x] = forked[x]
                  BY <3>4 DEF Tables
            <3> HIDE DEF w
            <3>6. Close(Dup2(w, f, d), f) = [[w EXCEPT ![d] = v] EXCEPT ![f] = "closed"]
                  BY <3>5 DEF Close, Dup2
            <3>7. [[w EXCEPT ![d] = v] EXCEPT ![f] = "closed"] = [forked EXCEPT ![d] = v]
                  BY <1>1, <3>4, <3>5 DEF Tables
            <3> QED
                BY <3>3, <3>6, <3>7 DEF w
      <2> QED
          BY <2>1, <2>2
<1> QED
    BY <1>1, <1>2, <1>3 DEF Tables, ChildHas

\* The calls are the same, whatever they have got to.
SameCalls ==
  Len(stack') = Len(stack) /\ \A k \in DOMAIN stack : stack'[k].before = stack[k].before

\* The innermost call goes on, in a table that it can still put back.
LEMMA TopGoesOn ==
  ASSUME IInv, stack # <<>>, NEW c \in Calls, c.before = Top.before,
         stack' = <<c>> \o Tail(stack), fds' \in Tables, StdOpen(fds'), Keeps(c.saved, Top.before, fds'),
         ChildHas(c.child, Top.before, fds')
  PROVE  IInv' /\ SameCalls
<1>1. stack \in Seq(Calls) /\ Len(stack) <= MaxDepth /\ Tail(stack) \in Seq(Calls)
      BY TopIsACall DEF IInv, TypeOK
<1>2. stack' \in Seq(Calls) /\ Len(stack') = Len(stack)
      BY <1>1
<1>3. stack'[1] = c /\ \A k \in 2 .. Len(stack) : stack'[k] = stack[k]
      BY <1>1
<1>4. TypeOK'
      BY <1>1, <1>2 DEF TypeOK, Tables
<1>5. ASSUME NEW k \in DOMAIN stack'
      PROVE  /\ StdOpen(stack'[k].before) /\ Keeps(stack'[k].saved, stack'[k].before, Table(k)')
             /\ ChildHas(stack'[k].child, stack'[k].before, Table(k)')
      <2>1. CASE k = 1
            <3>1. stack'[k] = c /\ Table(k)' = fds' /\ c.before = stack[1].before /\ 1 \in DOMAIN stack
                  BY <1>3, <2>1, TopIsACall DEF Table, Top, IInv
            <3> QED
                BY <3>1 DEF IInv, Top
      <2>2. CASE k # 1
            <3>1. k \in 2 .. Len(stack) /\ k \in DOMAIN stack /\ k - 1 \in 1 .. Len(stack)
                  BY <1>1, <1>2, <2>2
            <3>2. stack'[k] = stack[k]
                  BY <1>3, <3>1
            <3>3. stack'[k - 1].before = stack[k - 1].before
                  <4>1. CASE k = 2
                        BY <1>3, <4>1 DEF Top
                  <4>2. CASE k # 2
                        <5>1. k - 1 \in 2 .. Len(stack)
                              BY <3>1, <4>2
                        <5> QED
                            BY <1>3, <5>1
                  <4> QED
                      BY <4>1, <4>2
            <3>4. Table(k)' = Table(k)
                  BY <2>2, <3>3 DEF Table
            <3> QED
                BY <3>1, <3>2, <3>4 DEF IInv
      <2> QED
          BY <2>1, <2>2
<1>6. ASSUME NEW k \in DOMAIN stack PROVE stack'[k].before = stack[k].before
      <2>1. CASE k = 1
            BY <1>3, <2>1 DEF Top
      <2>2. CASE k # 1
            BY <1>1, <1>3, <2>2
      <2> QED
          BY <2>1, <2>2
<1> QED
    BY <1>2, <1>4, <1>5, <1>6 DEF IInv, SameCalls

\* A phase more, with the same table.
LEMMA PhaseGoesOn ==
  ASSUME IInv, stack # <<>>, UNCHANGED fds, NEW ph \in {"apply", "body", "restore"},
         stack' = <<[Top EXCEPT !.phase = ph]>> \o Tail(stack)
  PROVE  IInv' /\ SameCalls
<1> DEFINE c == [Top EXCEPT !.phase = ph]
<1>1. Top \in Calls /\ 1 \in DOMAIN stack
      BY TopIsACall DEF IInv
<1>2. c \in Calls /\ c.before = Top.before /\ c.saved = Top.saved /\ c.child = Top.child
      BY <1>1 DEF Calls
<1>3. StdOpen(fds) /\ fds \in Tables /\ Keeps(Top.saved, Top.before, fds) /\ ChildHas(Top.child, Top.before, fds)
      BY <1>1 DEF IInv, TypeOK, Tables, Table, Top
<1>4. /\ StdOpen(fds)' /\ fds' \in Tables /\ Keeps(Top.saved, Top.before, fds')
      /\ ChildHas(Top.child, Top.before, fds')
      BY <1>3 DEF StdOpen
<1> HIDE DEF c
<1>5. stack' = <<c>> \o Tail(stack)
      BY DEF c
<1> QED
    BY <1>2, <1>4, <1>5, TopGoesOn DEF StdOpen

-----------------------------------------------------------------------------
(* The invariant.                                                           *)

LEMMA InitIInv == Init => IInv
<1> SUFFICES ASSUME Init PROVE IInv
    OBVIOUS
<1>1. fds \in [Fds -> Objects] /\ StdOpen(fds)
      BY LimitAssumption DEF Init, Terminal, Objects, StdOpen, Std, Fds
<1> QED
    BY <1>1, BoundsAssumption DEF Init, IInv, TypeOK

LEMMA CallKeepsIInv ==
  ASSUME IInv, Call
  PROVE  /\ IInv' /\ Len(stack') = Len(stack) + 1 /\ stack'[1].before = fds
         /\ \A k \in DOMAIN stack : stack'[k + 1] = stack[k]
<1>1. PICK rs \in BoundedSeq(Redirs, MaxRedirs) :
        stack' = <<[redirs |-> rs, next |-> 1, saved |-> [d \in Std |-> -1],
                    phase |-> "apply", before |-> fds, child |-> fds]>> \o stack
      BY DEF Call
<1> DEFINE c == [redirs |-> rs, next |-> 1, saved |-> [d \in Std |-> -1],
                 phase |-> "apply", before |-> fds, child |-> fds]
<1>2. fds' = fds /\ (stack # <<>> => Len(stack) < MaxDepth) /\ stack' = <<c>> \o stack
      BY <1>1 DEF Call
<1>3. fds \in [Fds -> Objects] /\ StdOpen(fds) /\ stack \in Seq(Calls)
      BY DEF IInv, TypeOK
<1>4. c \in Calls /\ c.before = fds /\ c.child = fds /\ c.saved = [d \in Std |-> -1]
      BY <1>3, BoundsAssumption DEF Calls
<1> HIDE DEF c
<1>5. /\ stack' \in Seq(Calls) /\ Len(stack') = Len(stack) + 1 /\ stack'[1] = c
      /\ \A k \in 1 .. Len(stack) : stack'[k + 1] = stack[k]
      BY <1>2, <1>3, <1>4
<1>6. Len(stack') <= MaxDepth
      BY <1>2, <1>3, <1>5, BoundsAssumption
<1>7. Keeps(c.saved, c.before, fds) /\ ChildHas(c.child, c.before, fds)
      BY <1>4, LimitAssumption DEF Keeps, ChildHas, Fds
<1>8. ASSUME NEW k \in DOMAIN stack'
      PROVE  /\ StdOpen(stack'[k].before) /\ Keeps(stack'[k].saved, stack'[k].before, Table(k)')
             /\ ChildHas(stack'[k].child, stack'[k].before, Table(k)')
      <2>1. CASE k = 1
            BY <1>2, <1>3, <1>4, <1>5, <1>7, <2>1 DEF Table
      <2>2. CASE k # 1
            <3>1. k - 1 \in 1 .. Len(stack) /\ k - 1 \in DOMAIN stack /\ k = (k - 1) + 1
                  BY <1>3, <1>5, <2>2
            <3>2. stack'[k] = stack[k - 1]
                  BY <1>5, <3>1
            <3>3. Table(k)' = Table(k - 1)
                  <4>1. CASE k = 2
                        BY <1>4, <1>5, <4>1 DEF Table
                  <4>2. CASE k # 2
                        <5>1. k - 2 \in 1 .. Len(stack) /\ k - 1 = (k - 2) + 1 /\ (k - 1) - 1 = k - 2 /\ k - 1 # 1
                              BY <1>3, <3>1, <4>2
                        <5>2. stack'[k - 1] = stack[k - 2]
                              BY <1>5, <5>1
                        <5> QED
                            BY <2>2, <5>1, <5>2 DEF Table
                  <4> QED
                      BY <4>1, <4>2
            <3> QED
                BY <3>1, <3>2, <3>3 DEF IInv
      <2> QED
          BY <2>1, <2>2
<1> QED
    BY <1>2, <1>3, <1>4, <1>5, <1>6, <1>8 DEF IInv, TypeOK

\* A redirection is made.
LEMMA ApplyKeepsIInv ==
  ASSUME IInv, Room, ApplyDup \/ ApplyFile
  PROVE  IInv' /\ SameCalls
<1>1. stack # <<>> /\ Top.next <= Len(Top.redirs) /\ TypeOK /\ StdOpen(fds)
      BY DEF ApplyDup, ApplyFile, Applies, IInv
<1>2. Top \in Calls /\ 1 \in DOMAIN stack
      BY <1>1, TopIsACall
<1>3. Top.redirs \in Seq(Redirs) /\ Len(Top.redirs) <= MaxRedirs /\ Top.next \in 1 .. MaxRedirs + 1
      BY <1>2, RedirsAreBounded DEF Calls
<1>4. Redir \in Redirs /\ Redir.fd \in Std
      BY <1>1, <1>3, RedirsAssumption DEF Redir, Std
<1> DEFINE Redirects(kept2, d, v) ==
             /\ Made(kept2) /\ v # "closed"
             /\ Puts(fds, fds', Top.saved, kept2, d, v)
             /\ IF Redir.to = "stdout" THEN d = 2 /\ v = fds[1] ELSE d = Redir.fd /\ v = Redir.to
<1>5. \E kept2 : \E d \in Std, v \in Objects : Redirects(kept2, d, v)
       <2>1. CASE ApplyDup
             <3>1. 2 \in Std /\ Redir.to = "stdout"
                   BY <2>1 DEF Std, ApplyDup
             <3>2. PICK kept2 : Redirects(kept2, 2, fds[1]) /\ fds[1] \in Objects
                   BY <1>1, <2>1, <3>1, DupPuts
             <3> HIDE DEF Redirects
             <3> QED
                 BY <3>1, <3>2
       <2>2. CASE ApplyFile
             <3>1. Redir.to # "stdout"
                   BY <2>2 DEF ApplyFile
             <3>2. PICK kept2 : Redirects(kept2, Redir.fd, Redir.to) /\ Redir.to \in Objects
                   BY <1>1, <1>4, <2>2, <3>1, FilePuts
             <3> HIDE DEF Redirects
             <3> QED
                 BY <1>4, <3>2
       <2> HIDE DEF Redirects
       <2> QED
           BY <2>1, <2>2
<1>6. PICK kept2 : \E d \in Std, v \in Objects : Redirects(kept2, d, v)
       BY <1>5
<1>7. PICK d \in Std, v \in Objects : Redirects(kept2, d, v)
       BY <1>6
<1>8. /\ Made(kept2) /\ v # "closed"
      /\ Puts(fds, fds', Top.saved, kept2, d, v)
      /\ IF Redir.to = "stdout" THEN d = 2 /\ v = fds[1] ELSE d = Redir.fd /\ v = Redir.to
      BY <1>7
<1> HIDE DEF Redirects
<1> DEFINE u == ChildApply(Top.child, Redir)
           c == [Top EXCEPT !.saved = kept2, !.next = @ + 1, !.child = u]
<1>9. /\ fds \in Tables /\ Top.saved \in Saved /\ Top.before \in Tables /\ Top.child \in Tables
      /\ StdOpen(Top.before) /\ Keeps(Top.saved, Top.before, fds) /\ ChildHas(Top.child, Top.before, fds)
      BY <1>1, <1>2 DEF IInv, TypeOK, Tables, Saved, Calls, Table, Top
<1>10. u \in Tables /\ ChildHas(u, Top.before, fds')
       <2>1. Free(fds) # {}
             BY LimitAssumption DEF Room, Fds
       <2> QED
           BY <1>1, <1>4, <1>8, <1>9, <2>1, ChildFollows
<1> HIDE DEF u
<1>11. fds' \in Tables /\ kept2 \in Saved /\ StdOpen(fds') /\ Keeps(kept2, Top.before, fds')
      BY <1>1, <1>8, <1>9, PutsKeeps
<1>12. c \in Calls /\ c.before = Top.before /\ c.saved = kept2 /\ c.child = u
      <2>1. Len(Top.redirs) \in Nat /\ Top.next \in Nat /\ Top.next >= 1
            BY <1>3
      <2>2. Top.next + 1 \in 1 .. MaxRedirs + 1
            BY <1>1, <1>3, <2>1, BoundsAssumption
      <2> QED
          BY <1>2, <1>11, <1>10, <2>2 DEF Calls, Saved, Tables
<1>13. stack' = <<c>> \o Tail(stack)
      BY <1>8 DEF Made, SetTop, u
<1> HIDE DEF c
<1> QED
    BY <1>1, <1>11, <1>12, <1>13, <1>10, TopGoesOn

\* A builtin returns: the table is that of its call, which the one around it works on.
LEMMA RestoreGivesBack ==
  ASSUME IInv, Restore
  PROVE  /\ IInv' /\ fds' = Top.before /\ stack # <<>> /\ Len(stack') = Len(stack) - 1
         /\ \A k \in 1 .. Len(stack) - 1 : stack'[k] = stack[k + 1]
<1>1. stack # <<>> /\ fds' = Restored(fds, Top.saved) /\ stack' = Tail(stack)
      BY DEF Restore
<1>2. Top \in Calls /\ 1 \in DOMAIN stack /\ stack \in Seq(Calls) /\ Tail(stack) \in Seq(Calls)
      BY <1>1, TopIsACall DEF IInv, TypeOK
<1>3. /\ fds \in Tables /\ Top.saved \in Saved /\ Top.before \in Tables
      /\ StdOpen(fds) /\ StdOpen(Top.before) /\ Keeps(Top.saved, Top.before, fds)
      BY <1>2 DEF IInv, TypeOK, Tables, Saved, Calls, Table, Top
<1>4. fds' = Top.before
      BY <1>1, <1>3, RestoredIsBefore
<1>5. Len(stack') = Len(stack) - 1 /\ \A k \in 1 .. Len(stack) - 1 : stack'[k] = stack[k + 1]
      BY <1>1, <1>2
<1>6. TypeOK' /\ StdOpen(fds)'
      <2>1. Len(stack') <= MaxDepth
            BY <1>2, <1>5, BoundsAssumption DEF IInv, TypeOK
      <2> QED
          BY <1>1, <1>2, <1>3, <1>4, <2>1 DEF TypeOK, Tables, StdOpen
<1>7. ASSUME NEW k \in DOMAIN stack'
      PROVE  /\ StdOpen(stack'[k].before) /\ Keeps(stack'[k].saved, stack'[k].before, Table(k)')
             /\ ChildHas(stack'[k].child, stack'[k].before, Table(k)')
      <2>1. k \in 1 .. Len(stack) - 1 /\ k + 1 \in DOMAIN stack /\ k + 1 # 1 /\ (k + 1) - 1 = k
            BY <1>1, <1>2, <1>5
      <2>2. stack'[k] = stack[k + 1]
            BY <1>5, <2>1
      <2>3. Table(k)' = Table(k + 1)
            <3>1. CASE k = 1
                  BY <1>4, <2>1, <3>1 DEF Table, Top
            <3>2. CASE k # 1
                  <4>1. k - 1 \in 1 .. Len(stack) - 1 /\ (k - 1) + 1 = k
                        BY <1>2, <2>1, <3>2
                  <4>2. stack'[k - 1] = stack[k]
                        BY <1>5, <4>1
                  <4> QED
                      BY <2>1, <3>2, <4>2 DEF Table
            <3> QED
                BY <3>1, <3>2
      <2> QED
          BY <2>1, <2>2, <2>3 DEF IInv
<1> QED
    BY <1>1, <1>4, <1>5, <1>6, <1>7 DEF IInv

-----------------------------------------------------------------------------
(* There is room: each call holds at most three descriptors.                *)

Used(t) == {d \in Fds : t[d] # "closed"}

\* What the calls around one have left it.
Counted ==
  /\ stack = <<>> => Cardinality(Used(fds)) <= 3
  /\ \A k \in DOMAIN stack : Cardinality(Used(stack[k].before)) <= 3 + 3 * (Len(stack) - k)

LEMMA FdsAreFinite ==
  /\ IsFiniteSet(Fds) /\ Cardinality(Fds) = MaxFds
  /\ \A t : IsFiniteSet(Used(t)) /\ Cardinality(Used(t)) \in Nat
<1>1. IsFiniteSet(Fds) /\ Cardinality(Fds) = MaxFds
      <2>1. /\ IsFiniteSet(0 .. MaxFds - 1)
            /\ Cardinality(0 .. MaxFds - 1) = IF 0 > MaxFds - 1 THEN 0 ELSE (MaxFds - 1) - 0 + 1
            BY LimitAssumption, FS_Interval
      <2> QED
          BY <2>1, LimitAssumption DEF Fds
<1>2. ASSUME NEW t PROVE IsFiniteSet(Used(t)) /\ Cardinality(Used(t)) \in Nat
      <2>1. Used(t) \subseteq Fds
            BY DEF Used
      <2> QED
          BY <1>1, <2>1, FS_Subset, FS_CardinalityType
<1> QED
    BY <1>1, <1>2

LEMMA OneMore ==
  ASSUME NEW S, IsFiniteSet(S), NEW x
  PROVE  IsFiniteSet(S \cup {x}) /\ Cardinality(S \cup {x}) <= Cardinality(S) + 1
<1>1. /\ IsFiniteSet(S \cup {x})
      /\ Cardinality(S \cup {x}) = IF x \in S THEN Cardinality(S) ELSE Cardinality(S) + 1
      BY FS_AddElement, Zenon
<1>2. Cardinality(S) \in Nat
      BY FS_CardinalityType
<1> QED
    BY <1>1, <1>2

LEMMA CallTakesThree ==
  ASSUME NEW t, NEW kept, NEW before, StdOpen(before), Keeps(kept, before, t)
  PROVE  Cardinality(Used(t)) <= Cardinality(Used(before)) + 3
<1> DEFINE A == Used(before) \cup {kept[0]}
           B == A \cup {kept[1]}
           C == B \cup {kept[2]}
<1>1. Std = {0, 1, 2}
      BY DEF Std
<1>2. ASSUME NEW x \in Used(t) PROVE x \in C
      <2>1. CASE x \in Std
            BY <2>1 DEF Used, StdOpen
      <2>2. CASE x \notin Std /\ \A d \in Std : kept[d] # x
            BY <2>2 DEF Used, Keeps
      <2>3. CASE x \notin Std /\ \E d \in Std : kept[d] = x
            BY <1>1, <2>3
      <2> QED
          BY <2>1, <2>2, <2>3
<1>3. IsFiniteSet(A) /\ Cardinality(A) <= Cardinality(Used(before)) + 1
      BY FdsAreFinite, OneMore
<1> HIDE DEF A
<1>4. IsFiniteSet(B) /\ Cardinality(B) <= Cardinality(A) + 1
      BY <1>3, OneMore
<1> HIDE DEF B
<1>5. IsFiniteSet(C) /\ Cardinality(C) <= Cardinality(B) + 1
      BY <1>4, OneMore
<1> HIDE DEF C
<1>6. Cardinality(Used(t)) <= Cardinality(C)
      BY <1>2, <1>5, FS_Subset
<1>7. /\ Cardinality(Used(t)) \in Nat /\ Cardinality(Used(before)) \in Nat
      /\ Cardinality(A) \in Nat /\ Cardinality(B) \in Nat /\ Cardinality(C) \in Nat
      BY <1>3, <1>4, <1>5, FdsAreFinite, FS_CardinalityType
<1> QED
    BY <1>3, <1>4, <1>5, <1>6, <1>7

LEMMA FewAreUsed ==
  ASSUME IInv, Counted
  PROVE  Cardinality(Used(fds)) <= 3 + 3 * Len(stack)
<1>1. stack \in Seq(Calls) /\ Len(stack) \in Nat
      BY DEF IInv, TypeOK
<1>2. CASE stack = <<>>
      BY <1>2, FdsAreFinite DEF Counted
<1>3. CASE stack # <<>>
      <2>1. 1 \in DOMAIN stack /\ StdOpen(Top.before) /\ Keeps(Top.saved, Top.before, fds)
            BY <1>3, TopIsACall DEF IInv, Top, Table
      <2>2. Cardinality(Used(fds)) <= Cardinality(Used(Top.before)) + 3
            BY <2>1, CallTakesThree
      <2>3. Cardinality(Used(Top.before)) <= 3 + 3 * (Len(stack) - 1)
            BY <2>1 DEF Counted, Top
      <2> QED
          BY <1>1, <2>2, <2>3, FdsAreFinite
<1> QED
    BY <1>2, <1>3

LEMMA ThereIsRoom ==
  ASSUME IInv, Counted, MaxFds >= 3 * MaxDepth + 5
  PROVE  Room
<1> SUFFICES ASSUME NEW d \in Fds, Free(fds) \subseteq {d} PROVE FALSE
    BY DEF Room
<1>1. Cardinality(Used(fds)) <= 3 + 3 * MaxDepth
      <2>1. Len(stack) \in Nat /\ Len(stack) <= MaxDepth
            BY DEF IInv, TypeOK
      <2> QED
          BY <2>1, FewAreUsed, FdsAreFinite, BoundsAssumption
<1>2. Fds \subseteq Used(fds) \cup {d}
      BY DEF Used, Free
<1>3. IsFiniteSet(Used(fds) \cup {d}) /\ Cardinality(Used(fds) \cup {d}) <= Cardinality(Used(fds)) + 1
      BY FdsAreFinite, OneMore
<1>4. MaxFds <= Cardinality(Used(fds) \cup {d})
      BY <1>2, <1>3, FdsAreFinite, FS_Subset
<1>5. Cardinality(Used(fds) \cup {d}) \in Nat /\ Cardinality(Used(fds)) \in Nat
      BY <1>3, FdsAreFinite, FS_CardinalityType
<1> QED
    BY <1>1, <1>3, <1>4, <1>5, LimitAssumption, BoundsAssumption

LEMMA SameCallsCount ==
  ASSUME IInv, Counted, stack # <<>>, IInv', SameCalls
  PROVE  Counted'
<1>1. stack \in Seq(Calls) /\ stack' \in Seq(Calls) /\ Len(stack') = Len(stack)
      BY DEF IInv, TypeOK, SameCalls
<1>2. stack' # <<>> /\ DOMAIN stack' = DOMAIN stack
      BY <1>1
<1>3. ASSUME NEW k \in DOMAIN stack'
      PROVE  Cardinality(Used(stack'[k].before)) <= 3 + 3 * (Len(stack') - k)
      BY <1>1, <1>2 DEF SameCalls, Counted
<1> QED
    BY <1>2, <1>3 DEF Counted, Used

-----------------------------------------------------------------------------
(* The specification.                                                       *)

\* The calls only become fewer by a return.
LEMMA RedirectStep ==
  ASSUME IInv, Counted, [Next]_vars, MaxFds >= 3 * MaxDepth + 5
  PROVE  IInv' /\ Counted' /\ (Len(stack') < Len(stack) => fds' = Top.before)
<1>1. stack \in Seq(Calls) /\ Len(stack) \in Nat
      BY DEF IInv, TypeOK
<1>2. Room
      BY ThereIsRoom
<1>3. CASE Call
      <2>1. /\ IInv' /\ Len(stack') = Len(stack) + 1 /\ stack'[1].before = fds
            /\ \A k \in DOMAIN stack : stack'[k + 1] = stack[k]
            BY <1>3, CallKeepsIInv
      <2>2. stack' \in Seq(Calls) /\ stack' # <<>>
            BY <1>1, <2>1 DEF IInv, TypeOK
      <2>3. ASSUME NEW k \in DOMAIN stack'
            PROVE  Cardinality(Used(stack'[k].before)) <= 3 + 3 * (Len(stack') - k)
            <3>1. CASE k = 1
                  BY <1>1, <2>1, <3>1, FewAreUsed
            <3>2. CASE k # 1
                  <4>1. k - 1 \in DOMAIN stack /\ k = (k - 1) + 1 /\ Len(stack') - k = Len(stack) - (k - 1)
                        BY <1>1, <2>1, <2>2, <3>2
                  <4>2. stack'[k] = stack[k - 1]
                        BY <2>1, <4>1
                  <4> QED
                      BY <4>1, <4>2 DEF Counted
            <3> QED
                BY <3>1, <3>2
      <2> QED
          BY <1>1, <2>1, <2>2, <2>3 DEF Counted, Used
<1>4. CASE ApplyDup \/ ApplyFile \/ ApplyFails \/ Run \/ BodyDone
      <2>1. stack # <<>>
            BY <1>4 DEF ApplyDup, ApplyFile, ApplyFails, Applies, Run, BodyDone
      <2>2. IInv' /\ SameCalls
            <3>1. CASE ApplyDup \/ ApplyFile
                  BY <1>2, <3>1, ApplyKeepsIInv
            <3>2. CASE ApplyFails \/ BodyDone
                  <4>1. UNCHANGED fds /\ stack' = <<[Top EXCEPT !.phase = "restore"]>> \o Tail(stack)
                        BY <3>2 DEF ApplyFails, BodyDone, SetTop
                  <4> QED
                      BY <2>1, <4>1, PhaseGoesOn
            <3>3. CASE Run
                  <4>1. UNCHANGED fds /\ stack' = <<[Top EXCEPT !.phase = "body"]>> \o Tail(stack)
                        BY <3>3 DEF Run, SetTop
                  <4> QED
                      BY <2>1, <4>1, PhaseGoesOn
            <3> QED
                BY <1>4, <3>1, <3>2, <3>3
      <2> QED
          BY <1>1, <2>1, <2>2, SameCallsCount DEF SameCalls
<1>5. CASE Restore
      <2>1. /\ IInv' /\ fds' = Top.before /\ stack # <<>> /\ Len(stack') = Len(stack) - 1
            /\ \A k \in 1 .. Len(stack) - 1 : stack'[k] = stack[k + 1]
            BY <1>5, RestoreGivesBack
      <2>2. stack' \in Seq(Calls) /\ 1 \in DOMAIN stack
            BY <1>1, <2>1 DEF IInv, TypeOK
      <2>3. ASSUME stack' = <<>> PROVE Cardinality(Used(fds')) <= 3
            <3>1. Len(stack) = 1
                  BY <1>1, <2>1, <2>3
            <3>2. Cardinality(Used(stack[1].before)) <= 3 + 3 * (Len(stack) - 1)
                  BY <2>2 DEF Counted
            <3> QED
                BY <2>1, <3>1, <3>2 DEF Top
      <2>4. ASSUME NEW k \in DOMAIN stack'
            PROVE  Cardinality(Used(stack'[k].before)) <= 3 + 3 * (Len(stack') - k)
            <3>1. k \in 1 .. Len(stack) - 1 /\ k + 1 \in DOMAIN stack /\ Len(stack') - k = Len(stack) - (k + 1)
                  BY <1>1, <2>1, <2>2
            <3>2. stack'[k] = stack[k + 1]
                  BY <2>1, <3>1
            <3> QED
                BY <3>1, <3>2 DEF Counted
      <2> QED
          BY <2>1, <2>3, <2>4 DEF Counted, Used
<1>6. CASE UNCHANGED vars
      BY <1>1, <1>6 DEF vars, IInv, TypeOK, StdOpen, Table, Counted, Used
<1> QED
    BY <1>3, <1>4, <1>5, <1>6 DEF Next

\* With descriptors for every call that may be under way, each call can be
\* undone from what it has kept.
THEOREM Invariance ==
  ASSUME MaxFds >= 3 * MaxDepth + 5
  PROVE  Spec => [](IInv /\ Counted)
<1>1. Init => IInv /\ Counted
      <2> SUFFICES ASSUME Init PROVE IInv /\ Counted
          OBVIOUS
      <2>1. Used(fds) = 0 .. 2
            BY LimitAssumption DEF Init, Used, Terminal, Fds, Std
      <2>2. Cardinality(0 .. 2) <= 3
            <3>1. 0 \in Int /\ 2 \in Int
                  OBVIOUS
            <3>2. Cardinality(0 .. 2) = IF 0 > 2 THEN 0 ELSE 2 - 0 + 1
                  BY ONLY <3>1, FS_Interval, Zenon
            <3> QED
                BY ONLY <3>2
      <2> QED
          BY <2>1, <2>2, InitIInv DEF Init, Counted
<1>2. IInv /\ Counted /\ [Next]_vars => (IInv /\ Counted)'
      BY RedirectStep
<1> QED
    BY <1>1, <1>2, PTL DEF Spec

\* The table and the calls have their types.
THEOREM TypeCorrect ==
  ASSUME MaxFds >= 3 * MaxDepth + 5
  PROVE  Spec => []TypeOK
<1>1. IInv => TypeOK
      BY DEF IInv
<1> QED
    BY <1>1, Invariance, PTL

\* When a builtin returns, the shell's descriptors are what they were at its
\* call, however many redirections it had, wherever they failed, and whatever
\* ran inside it.
THEOREM DescriptorsComeBack ==
  ASSUME MaxFds >= 3 * MaxDepth + 5
  PROVE  Spec => RestoredOnReturn
<1>1. IInv /\ Counted /\ [Next]_vars => [Len(stack') < Len(stack) => fds' = Top.before]_vars
      BY RedirectStep
<1>2. Spec => [][Next]_vars
      BY PTL DEF Spec
<1> QED
    BY <1>1, <1>2, Invariance, PTL DEF RestoredOnReturn

\* Inside whatever other redirections, with whatever order of files and 2>&1, a builtin
\* has at 0 to 2 what setup_child_io gives an external command.
THEOREM BuiltinIsAChild ==
  ASSUME MaxFds >= 3 * MaxDepth + 5
  PROVE  Spec => []SameAsChild
<1>1. IInv => SameAsChild
      <2> SUFFICES ASSUME IInv, stack # <<>> PROVE \A d \in Std : fds[d] = Top.child[d]
          BY DEF SameAsChild
      <2>1. 1 \in DOMAIN stack
            BY TopIsACall DEF IInv
      <2> QED
          BY <2>1 DEF IInv, ChildHas, Table, Top
<1> QED
    BY <1>1, Invariance, PTL

-----------------------------------------------------------------------------
(* What handle_ask runs: only what a key has allowed, for any reply.          *)
Entries == [what : {"key", "ran", "stop"}, step : Nat, key : {"", "y", "n", "e", "a", "s", "other"}]
RanBefore(l, n) == \A i \in DOMAIN l : ~Ends(l[i]) /\ ~(l[i].what = "ran" /\ l[i].step >= n)
AllowedBy(l, n) == \E i \in DOMAIN l : Allows(l[i], n)
SaysAll(e, n) == e.what = "key" /\ e.key = "a" /\ e.step < n
AllSaid(l, n) == \E i \in DOMAIN l : SaysAll(l[i], n)
Permitted(l) ==
  \A j \in DOMAIN l : l[j].what = "ran" =>
    /\ \E i \in 1..j - 1 : Allows(l[i], l[j].step)
    /\ \A i \in 1..j - 1 : ~Ends(l[i]) /\ ~(l[i].what = "ran" /\ l[i].step >= l[j].step)

\* At a step nothing has ended the loop, and what was run came before it; once "all"
\* was chosen that was at an earlier step.
AtStep ==
  /\ phase = "step" => RanBefore(log, next)
  /\ phase = "step" /\ runAll => AllSaid(log, next)
  /\ phase = "stop" => RanBefore(log, next + 1) /\ ~runAll
Earlier == {"idle", "stream", "parse", "run", "save"}
AllowInv ==
  /\ log \in Seq(Entries) /\ next \in Nat /\ Permitted(log)
  /\ phase \in Earlier => log = <<>> /\ ~runAll
  /\ AtStep

LEMMA OneMoreEntry ==
  ASSUME NEW l \in Seq(Entries), NEW e \in Entries
  PROVE  /\ Append(l, e) \in Seq(Entries) /\ DOMAIN l = 1 .. Len(l) /\ Len(l) \in Nat
         /\ DOMAIN Append(l, e) = 1 .. Len(l) + 1
         /\ \A i \in 1 .. Len(l) : Append(l, e)[i] = l[i]
         /\ Append(l, e)[Len(l) + 1] = e
  OBVIOUS

LEMMA AppendPermitted ==
  ASSUME NEW l \in Seq(Entries), NEW e \in Entries, Permitted(l),
         e.what = "ran" => AllowedBy(l, e.step) /\ RanBefore(l, e.step)
  PROVE  Permitted(Append(l, e))
<1> DEFINE m == Append(l, e)
<1>1. /\ DOMAIN l = 1 .. Len(l) /\ Len(l) \in Nat /\ DOMAIN m = 1 .. Len(l) + 1
      /\ \A i \in 1 .. Len(l) : m[i] = l[i]
      /\ m[Len(l) + 1] = e
      BY OneMoreEntry
<1> HIDE DEF m
<1> SUFFICES ASSUME NEW j \in DOMAIN m, m[j].what = "ran"
             PROVE  /\ \E i \in 1..j - 1 : Allows(m[i], m[j].step)
                    /\ \A i \in 1..j - 1 : ~Ends(m[i]) /\ ~(m[i].what = "ran" /\ m[i].step >= m[j].step)
    BY DEF Permitted, m
<1>2. CASE j \in 1 .. Len(l)
      <2>1. m[j] = l[j] /\ \A i \in 1..j - 1 : i \in 1 .. Len(l) /\ m[i] = l[i]
            BY <1>1, <1>2
      <2>2. /\ \E i \in 1..j - 1 : Allows(l[i], l[j].step)
            /\ \A i \in 1..j - 1 : ~Ends(l[i]) /\ ~(l[i].what = "ran" /\ l[i].step >= l[j].step)
            BY <1>1, <1>2, <2>1 DEF Permitted
      <2> QED
          BY <2>1, <2>2, Zenon
<1>3. CASE j = Len(l) + 1
      <2>1. 1..j - 1 = DOMAIN l /\ m[j] = e /\ \A i \in 1..j - 1 : m[i] = l[i]
            BY <1>1, <1>3
      <2>2. AllowedBy(l, e.step) /\ RanBefore(l, e.step)
            BY <2>1
      <2> QED
          BY <2>1, <2>2, Zenon DEF AllowedBy, RanBefore
<1> QED
    BY <1>1, <1>2, <1>3

LEMMA AppendRan ==
  ASSUME NEW l \in Seq(Entries), NEW e \in Entries, NEW n \in Nat, NEW k \in Nat, RanBefore(l, n), n <= k,
         ~Ends(e), e.what = "ran" => e.step < k
  PROVE  RanBefore(Append(l, e), k)
<1>1. /\ DOMAIN l = 1 .. Len(l) /\ Len(l) \in Nat /\ DOMAIN Append(l, e) = 1 .. Len(l) + 1
      /\ \A i \in 1 .. Len(l) : Append(l, e)[i] = l[i]
      /\ Append(l, e)[Len(l) + 1] = e
      BY OneMoreEntry
<1>2. \A i \in DOMAIN l : l[i].step \in Nat
      <2>1. \A i \in DOMAIN l : l[i] \in Entries
            OBVIOUS
      <2> QED
          BY <2>1 DEF Entries
<1>3. e.step \in Nat
      BY DEF Entries
<1>4. \A i \in DOMAIN l : ~Ends(l[i]) /\ ~(l[i].what = "ran" /\ l[i].step >= k)
      BY <1>2 DEF RanBefore
<1>5. ~(e.what = "ran" /\ e.step >= k)
      BY <1>3
<1>6. \A i \in 1 .. Len(l) + 1 : i \in 1 .. Len(l) \/ i = Len(l) + 1
      BY <1>1
<1> QED
    BY <1>1, <1>4, <1>5, <1>6, Zenon DEF RanBefore

LEMMA AppendAllowed ==
  ASSUME NEW l \in Seq(Entries), NEW e \in Entries, NEW n
  PROVE  /\ AllowedBy(l, n) \/ Allows(e, n) => AllowedBy(Append(l, e), n)
         /\ AllSaid(l, n) \/ SaysAll(e, n) => AllSaid(Append(l, e), n)
<1>1. /\ DOMAIN l = 1 .. Len(l) /\ Len(l) \in Nat /\ DOMAIN Append(l, e) = 1 .. Len(l) + 1
      /\ \A i \in 1 .. Len(l) : Append(l, e)[i] = l[i]
      /\ Append(l, e)[Len(l) + 1] = e
      BY OneMoreEntry
<1>2. Len(l) + 1 \in DOMAIN Append(l, e) /\ \A i \in DOMAIN l : i \in DOMAIN Append(l, e)
      BY <1>1
<1>3. AllowedBy(l, n) \/ Allows(e, n) => AllowedBy(Append(l, e), n)
      BY <1>1, <1>2, Zenon DEF AllowedBy
<1>4. AllSaid(l, n) \/ SaysAll(e, n) => AllSaid(Append(l, e), n)
      BY <1>1, <1>2, Zenon DEF AllSaid
<1> QED
    BY <1>3, <1>4

\* "all" goes for the steps that follow, and for the one after them.
LEMMA AllGoesOn ==
  ASSUME NEW l \in Seq(Entries), NEW n \in Nat, AllSaid(l, n)
  PROVE  AllowedBy(l, n) /\ AllSaid(l, n + 1)
<1>1. PICK i \in DOMAIN l : SaysAll(l[i], n)
      BY DEF AllSaid
<1>2. l[i] \in Entries
      OBVIOUS
<1>3. l[i].step \in Nat
      BY <1>2 DEF Entries
<1>4. l[i].step < n => l[i].step < n + 1
      BY <1>3
<1>5. Allows(l[i], n) /\ SaysAll(l[i], n + 1)
      BY <1>1, <1>4, Zenon DEF Allows, SaysAll
<1> QED
    BY <1>5 DEF AllowedBy, AllSaid

\* A key, and the step that it runs.
LEMMA KeyAndRun ==
  ASSUME NEW l \in Seq(Entries), NEW n \in Nat, NEW k \in {"y", "a", "other"}, Permitted(l), RanBefore(l, n)
  PROVE  LET m == l \o <<Pressed(n, k), Ran(n)>> IN
           /\ m \in Seq(Entries) /\ Permitted(m) /\ RanBefore(m, n + 1)
           /\ k = "a" => AllSaid(m, n + 1)
<1> DEFINE p == Pressed(n, k)
           r == Ran(n)
<1>1. p \in Entries /\ r \in Entries
      BY DEF Pressed, Ran, Entries
<1>2. /\ p.what = "key" /\ p.step = n /\ p.key = k /\ r.what = "ran" /\ r.step = n /\ r.key = ""
      BY DEF Pressed, Ran
<1>3. ~Ends(p) /\ ~Ends(r) /\ Allows(p, n)
      BY <1>2 DEF Ends, Allows
<1>4. k = "a" => SaysAll(p, n + 1)
      <2>1. n < n + 1
            OBVIOUS
      <2> QED
          BY <1>2, <2>1, Zenon DEF SaysAll
<1>14. n + 1 \in Nat /\ n <= n + 1 /\ r.step < n + 1 /\ n <= n
      BY DEF Ran
<1>15. p.what # "ran"
      BY <1>2
<1> HIDE DEF p, r
<1>5. Append(l, p) \in Seq(Entries) /\ Permitted(Append(l, p)) /\ RanBefore(Append(l, p), n) /\ AllowedBy(Append(l, p), n)
      <2>1. Append(l, p) \in Seq(Entries)
            BY <1>1, OneMoreEntry
      <2>2. Permitted(Append(l, p))
            BY <1>1, <1>15, AppendPermitted
      <2>3. RanBefore(Append(l, p), n)
            BY <1>1, <1>3, <1>14, <1>15, AppendRan
      <2>4. AllowedBy(Append(l, p), n)
            BY <1>1, <1>3, AppendAllowed
      <2> QED
          BY <2>1, <2>2, <2>3, <2>4
<1>6. k = "a" => AllSaid(Append(l, p), n + 1)
      BY <1>1, <1>4, AppendAllowed
<1>7. l \o <<p, r>> = Append(Append(l, p), r)
      BY <1>1
<1> DEFINE q == Append(l, p)
<1> HIDE DEF q
<1>8. q \in Seq(Entries) /\ Permitted(q) /\ RanBefore(q, n) /\ AllowedBy(q, n) /\ (k = "a" => AllSaid(q, n + 1))
      BY <1>5, <1>6 DEF q
<1>9. Append(q, r) \in Seq(Entries)
      BY <1>1, <1>8, OneMoreEntry
<1>10. Permitted(Append(q, r))
      BY <1>1, <1>2, <1>8, AppendPermitted
<1>11. n + 1 \in Nat /\ n <= n + 1 /\ r.step < n + 1
      BY <1>14
<1>12. RanBefore(Append(q, r), n + 1)
      BY <1>1, <1>3, <1>8, <1>11, AppendRan
<1>13. k = "a" => AllSaid(Append(q, r), n + 1)
      BY <1>1, <1>8, AppendAllowed
<1> QED
    BY <1>7, <1>9, <1>10, <1>12, <1>13 DEF p, q, r

LEMMA InitAllowInv == ASSUME AnswerInit PROVE AllowInv
  BY DEF AnswerInit, AllowInv, Permitted, AtStep, Earlier

LEMMA NextAllowInv == ASSUME AllowInv, [AnswerNext]_answerVars PROVE AllowInv'
<1>1. CASE UNCHANGED answerVars
      BY <1>1 DEF answerVars, AllowInv, AtStep
<1>2. ASSUME UNCHANGED <<log, next, runAll>>, phase \in Earlier, phase' \in Earlier \cup {"done"}
      PROVE  AllowInv'
      BY <1>2 DEF AllowInv, AtStep, Earlier
<1>3. ASSUME NEW p, NEW h, NEW r, NEW cut, NEW blanks, NEW unended, Ask(p, h, r, cut, blanks, unended)
      PROVE  AllowInv'
      BY <1>2, <1>3 DEF Ask, Earlier
<1>4. ASSUME NEW n, Receive(n) \/ Overflows(n)
      PROVE  AllowInv'
      BY <1>2, <1>4 DEF Receive, Overflows, Finish, Earlier
<1>5. CASE Complete
      BY <1>2, <1>5 DEF Complete, Finish, Earlier
<1>6. ASSUME NEW tty, Parse(tty)
      PROVE  AllowInv'
      <2>1. phase = "parse" /\ UNCHANGED <<log, next, runAll>> /\ phase' = Follows(parsed', tty)
            BY <1>6 DEF Parse
      <2>2. phase' \in {"run", "save", "step", "done"}
            BY <2>1 DEF Follows
      <2>3. log = <<>> /\ ~runAll
            BY <2>1 DEF AllowInv, Earlier
      <2> QED
          BY <2>1, <2>2, <2>3 DEF AllowInv, AtStep, Earlier, RanBefore
<1>7. ASSUME NEW k \in {"y", "n", "e"}, NEW status \in Status, RunOne(k, status)
      PROVE  AllowInv'
      <2>1. phase = "run" /\ phase' = "done" /\ UNCHANGED <<next, runAll>>
            BY <1>7 DEF RunOne, Finish
      <2>2. log = <<>> /\ Permitted(log) /\ next \in Nat
            BY <2>1 DEF AllowInv, Earlier
      <2>3. CASE k = "y"
            <3>1. log' = log \o <<Pressed(1, k), Ran(1)>>
                  BY <1>7, <2>3 DEF RunOne
            <3>2. RanBefore(log, 1) /\ log \in Seq(Entries)
                  BY <2>2 DEF RanBefore
            <3>3. log' \in Seq(Entries) /\ Permitted(log')
                  BY <2>2, <2>3, <3>1, <3>2, KeyAndRun
            <3> QED
                BY <2>1, <2>2, <3>3 DEF AllowInv, AtStep, Earlier
      <2>4. CASE k # "y"
            <3>1. log' = Append(log, Pressed(1, k))
                  BY <1>7, <2>4 DEF RunOne
            <3>2. Pressed(1, k) \in Entries /\ Pressed(1, k).what # "ran"
                  BY DEF Pressed, Entries
            <3>3. log \in Seq(Entries)
                  BY <2>2
            <3>4. Append(log, Pressed(1, k)) \in Seq(Entries) /\ Permitted(Append(log, Pressed(1, k)))
                  BY <2>2, <3>2, <3>3, AppendPermitted, OneMoreEntry
            <3> QED
                BY <2>1, <2>2, <3>1, <3>4 DEF AllowInv, AtStep, Earlier
      <2> QED
          BY <2>3, <2>4
<1>8. ASSUME NEW name, NEW ok, Save(name, ok)
      PROVE  AllowInv'
      BY <1>2, <1>8 DEF Save, Finish, Earlier
<1>9. ASSUME NEW k \in {"y", "n", "a", "s", "other"}, NEW status \in Status, Step(k, status)
      PROVE  AllowInv'
      <2>1. /\ phase = "step" /\ ~runAll /\ log \in Seq(Entries) /\ next \in Nat /\ Permitted(log) /\ RanBefore(log, next)
            BY <1>9 DEF Step, AllowInv, AtStep
      <2>2. CASE k \in {"y", "a", "other"}
            <3>1. /\ log' = log \o <<Pressed(next, k), Ran(next)>> /\ (runAll' <=> k = "a")
                  /\ \/ phase' = "stop" /\ k # "a" /\ next' = next
                     \/ phase' \in {"done", "step"} /\ next' = next + 1
                  BY <1>9, <2>2 DEF Step, Skips, RunStep, Advance
            <3>2. /\ log' \in Seq(Entries) /\ Permitted(log') /\ RanBefore(log', next + 1)
                  /\ k = "a" => AllSaid(log', next + 1)
                  BY <2>1, <2>2, <3>1, KeyAndRun
            <3> QED
                BY <2>1, <3>1, <3>2 DEF AllowInv, AtStep, Earlier
      <2>3. CASE k \in {"n", "s"}
            <3> DEFINE e == Pressed(next, k)
            <3>1. /\ log' = Append(log, e) /\ ~runAll'
                  /\ \/ k = "n" /\ phase' = "done" /\ next' = next
                     \/ k = "s" /\ phase' \in {"done", "step"} /\ next' = next + 1
                  BY <1>9, <2>1, <2>3 DEF Step, Skips, Advance, Finish
            <3>2. e \in Entries /\ e.what = "key" /\ e.key = k /\ e.what # "ran"
                  BY <2>1 DEF Pressed, Entries
            <3> HIDE DEF e
            <3>3. log' \in Seq(Entries) /\ Permitted(log')
                  BY <2>1, <3>1, <3>2, AppendPermitted, OneMoreEntry
            <3>4. CASE k = "n"
                  BY <2>1, <3>1, <3>3, <3>4 DEF AllowInv, AtStep, Earlier
            <3>5. CASE k = "s"
                  <4>1. ~Ends(e)
                        BY <3>2, <3>5 DEF Ends
                  <4>2. next + 1 \in Nat /\ next <= next + 1
                        BY <2>1
                  <4>3. RanBefore(Append(log, e), next + 1)
                        BY <2>1, <3>2, <4>1, <4>2, AppendRan
                  <4> QED
                      BY <2>1, <3>1, <3>3, <3>5, <4>2, <4>3 DEF AllowInv, AtStep, Earlier
            <3> QED
                BY <2>3, <3>4, <3>5
      <2> QED
          BY <2>2, <2>3
<1>10. ASSUME NEW status \in Status, StepOfAll(status)
      PROVE  AllowInv'
      <2> DEFINE e == Ran(next)
      <2>1. /\ log \in Seq(Entries) /\ next \in Nat /\ Permitted(log) /\ RanBefore(log, next) /\ AllSaid(log, next)
            BY <1>10 DEF StepOfAll, AllowInv, AtStep
      <2>2. log' = Append(log, e) /\ phase' \in {"done", "step"} /\ next' = next + 1
            BY <1>10 DEF StepOfAll, Advance
      <2>3. e \in Entries /\ e.what = "ran" /\ e.step = next /\ ~Ends(e)
            BY <2>1 DEF Ran, Entries, Ends
      <2> HIDE DEF e
      <2>7. AllowedBy(log, next) /\ AllSaid(log, next + 1)
            BY <2>1, AllGoesOn
      <2>4. log' \in Seq(Entries) /\ Permitted(log')
            BY <2>1, <2>2, <2>3, <2>7, AppendPermitted, OneMoreEntry
      <2>5. next + 1 \in Nat /\ next <= next + 1 /\ e.step < next + 1
            BY <2>1, <2>3
      <2>6. RanBefore(Append(log, e), next + 1)
            BY <2>1, <2>3, <2>5, AppendRan
      <2>8. AllSaid(Append(log, e), next + 1)
            BY <2>1, <2>3, <2>7, AppendAllowed
      <2> QED
          BY <2>2, <2>4, <2>5, <2>6, <2>8 DEF AllowInv, AtStep, Earlier
<1>11. ASSUME NEW k \in {"y", "n"}, Stop(k)
      PROVE  AllowInv'
      <2> DEFINE e == [Pressed(next, k) EXCEPT !.what = "stop"]
      <2>1. log \in Seq(Entries) /\ next \in Nat /\ Permitted(log) /\ RanBefore(log, next + 1) /\ ~runAll
            BY <1>11 DEF Stop, AllowInv, AtStep
      <2>2. /\ log' = Append(log, e) /\ runAll' = runAll
            /\ \/ k = "y" /\ phase' = "done" /\ next' = next
               \/ k = "n" /\ phase' \in {"done", "step"} /\ next' = next + 1
            BY <1>11 DEF Stop, Advance
      <2>3. e \in Entries /\ e.what = "stop" /\ e.key = k /\ e.what # "ran"
            BY <2>1 DEF Pressed, Entries
      <2> HIDE DEF e
      <2>4. log' \in Seq(Entries) /\ Permitted(log')
            BY <2>1, <2>2, <2>3, AppendPermitted, OneMoreEntry
      <2>5. CASE k = "y"
            BY <2>1, <2>2, <2>4, <2>5 DEF AllowInv, AtStep, Earlier
      <2>6. CASE k = "n"
            <3>1. ~Ends(e) /\ next + 1 \in Nat /\ next + 1 <= next + 1
                  BY <2>1, <2>3, <2>6 DEF Ends
            <3>2. RanBefore(Append(log, e), next + 1)
                  BY <2>1, <2>3, <3>1, AppendRan
            <3> QED
                BY <2>1, <2>2, <2>4, <2>6, <3>1, <3>2 DEF AllowInv, AtStep, Earlier
      <2> QED
          BY <2>5, <2>6
<1> QED
    BY <1>1, <1>3, <1>4, <1>5, <1>6, <1>7, <1>8, <1>9, <1>10, <1>11 DEF AnswerNext

\* Nothing that a model proposed runs without a key that allowed it, nothing after a
\* no or a stop, no step that was skipped and none twice, for any reply and any
\* keys (the prompts of handle_ask in ai_handler.cpp).
THEOREM OnlyTheAllowed == AnswerSpec => []OnlyWhatWasAllowed
<1>1. AnswerInit => AllowInv
      BY InitAllowInv
<1>2. AllowInv /\ [AnswerNext]_answerVars => AllowInv'
      BY NextAllowInv
<1>3. AllowInv => OnlyWhatWasAllowed
      BY DEF AllowInv, Permitted, OnlyWhatWasAllowed
<1> QED
    BY <1>1, <1>2, <1>3, PTL DEF AnswerSpec


-----------------------------------------------------------------------------
(* sort-by: the insertions of std::stable_sort.                             *)

\* The rows of a column that can be sorted compare as integers do.
LEMMA ComparesAsIntegers ==
  ASSUME NEW data, NEW f, Comparable(data, f)
  PROVE  \E key : \A i, j \in DOMAIN data :
           Has(data[i], f) /\ Has(data[j], f) =>
             key[i] \in Int /\ key[j] \in Int /\ Compare(data[i].at[f], data[j].at[f]) = Sign(key[i], key[j])
<1> USE PipeAssumption
<1> DEFINE column == {data[i].at[f] : i \in {j \in DOMAIN data : Has(data[j], f)}}
           k(v) == IF v.kind = "number" THEN NumberOf[v.text] ELSE Rank(v.text)
           key == [i \in DOMAIN data |-> k(data[i].at[f])]
<1>1. \A a, b \in column : a.kind = b.kind
      BY Zenon DEF Comparable
<1>2. \A a \in column : a.text \in IF a.kind = "number" THEN DOMAIN NumberOf ELSE ToSet(Order)
      BY Zenon DEF Comparable
<1>3. ASSUME NEW text \in ToSet(Order) PROVE Rank(text) \in Int
      <2>1. DOMAIN Order \subseteq Int /\ \E i \in DOMAIN Order : Order[i] = text
            BY DEF ToSet
      <2> QED
          BY <2>1 DEF Rank
<1>4. ASSUME NEW a \in column PROVE k(a) \in Int
      BY <1>2, <1>3
<1>5. ASSUME NEW a \in column, NEW b \in column PROVE Compare(a, b) = Sign(k(a), k(b))
      BY <1>1, <1>5 DEF Compare
<1>6. \A i \in DOMAIN data : Has(data[i], f) => data[i].at[f] \in column /\ key[i] = k(data[i].at[f])
      OBVIOUS
<1> HIDE DEF column, k, key
<1>7. \A i, j \in DOMAIN data : Has(data[i], f) /\ Has(data[j], f) =>
        key[i] \in Int /\ key[j] \in Int /\ Compare(data[i].at[f], data[j].at[f]) = Sign(key[i], key[j])
      BY <1>4, <1>5, <1>6
<1> QED
    BY <1>7

\* Which of two rows comes first.
InOrderOf(data, f, desc) == {p \in (1..Len(data)) \X (1..Len(data)) : Precedes(data, f, desc, p[1], p[2])}

LEMMA SortingLinesUp ==
  ASSUME NEW data, NEW n \in Nat, Len(data) = n, DOMAIN data = 1..n, NEW f, NEW desc \in BOOLEAN, Comparable(data, f)
  PROVE  /\ LinesUp(1..n, InOrderOf(data, f, desc))
         /\ \A i, j \in 1..n : i < j => (<<i, j>> \in InOrderOf(data, f, desc) <=> ~Before(f, desc, data[j], data[i]))
<1> DEFINE has(i) == Has(data[i], f)
           P(i, j) == Precedes(data, f, desc, i, j)
           O == InOrderOf(data, f, desc)
<1>0. PICK key : \A i, j \in DOMAIN data : Has(data[i], f) /\ Has(data[j], f) =>
             key[i] \in Int /\ key[j] \in Int /\ Compare(data[i].at[f], data[j].at[f]) = Sign(key[i], key[j])
      BY ComparesAsIntegers, ZenonT(40)
<1>1. \A i, j \in 1..n : has(i) /\ has(j) =>
             key[i] \in Int /\ key[j] \in Int /\ Compare(data[i].at[f], data[j].at[f]) = Sign(key[i], key[j])
      <2> TAKE i, j \in 1..n
      <2>1. i \in DOMAIN data /\ j \in DOMAIN data
            OBVIOUS
      <2> QED
          BY <1>0, <2>1
<1> HIDE DEF has
<1>2. ASSUME NEW i \in 1..n, NEW j \in 1..n
      PROVE  P(i, j) <=> IF has(i) /\ has(j)
                         THEN \/ IF desc THEN key[j] < key[i] ELSE key[i] < key[j]
                              \/ key[i] = key[j] /\ i < j
                         ELSE has(i) \/ (~has(j) /\ i < j)
      <2>1. CASE has(i) /\ has(j)
            <3>1. key[i] \in Int /\ key[j] \in Int
                  BY <1>1, <2>1
            <3>2. Ordered(data[i], data[j], f, desc) = IF desc THEN Sign(key[j], key[i]) ELSE Sign(key[i], key[j])
                  BY <1>1, <2>1 DEF Ordered
            <3>3. P(i, j) <=> LET c == IF desc THEN Sign(key[j], key[i]) ELSE Sign(key[i], key[j]) IN c < 0 \/ (c = 0 /\ i < j)
                  BY <2>1, <3>2, Zenon DEF Precedes, has
            <3> QED
                BY <2>1, <3>1, <3>3 DEF Sign
      <2>2. CASE ~(has(i) /\ has(j))
            BY <2>2, Zenon DEF Precedes, has
      <2> QED
          BY <2>1, <2>2
<1>3. \A i, j \in 1..n : <<i, j>> \in O <=> P(i, j)
      <2> TAKE i, j \in 1..n
      <2>1. <<i, j>>[1] = i /\ <<i, j>>[2] = j
            OBVIOUS
      <2>2. <<i, j>> \in O <=> Precedes(data, f, desc, <<i, j>>[1], <<i, j>>[2])
            <3>1. <<i, j>> \in (1..n) \X (1..n)
                  OBVIOUS
            <3> QED
                BY <3>1, Zenon DEF InOrderOf
      <2> QED
          BY <2>1, <2>2
<1>4. ASSUME NEW i \in 1..n, NEW j \in 1..n, i < j PROVE P(i, j) <=> ~Before(f, desc, data[j], data[i])
      <2>1. CASE has(i) /\ has(j)
            <3>1. key[i] \in Int /\ key[j] \in Int
                  BY <1>1, <2>1
            <3>2. Before(f, desc, data[j], data[i]) <=> IF desc THEN Sign(key[j], key[i]) > 0 ELSE Sign(key[j], key[i]) < 0
                  BY <1>1, <2>1 DEF Before, has
            <3> QED
                BY <1>2, <1>4, <2>1, <3>1, <3>2 DEF Sign
      <2>2. CASE ~(has(i) /\ has(j))
            <3>1. Before(f, desc, data[j], data[i]) <=> has(j)
                  BY <2>2 DEF Before, has
            <3> QED
                BY <1>2, <1>4, <2>2, <3>1
      <2> QED
          BY <2>1, <2>2
<1> HIDE DEF P
<1>5. \A i \in 1..n : has(i) => key[i] \in Int
      BY <1>1
<1>6. \A i \in 1..n : ~P(i, i)
      BY <1>2, <1>5
<1>7. \A i, j \in 1..n : i = j \/ P(i, j) \/ P(j, i)
      <2> TAKE i, j \in 1..n
      <2>1. P(i, j) <=> IF has(i) /\ has(j)
                        THEN (IF desc THEN key[j] < key[i] ELSE key[i] < key[j]) \/ (key[i] = key[j] /\ i < j)
                        ELSE has(i) \/ (~has(j) /\ i < j)
            BY <1>2
      <2>2. P(j, i) <=> IF has(j) /\ has(i)
                        THEN (IF desc THEN key[i] < key[j] ELSE key[j] < key[i]) \/ (key[j] = key[i] /\ j < i)
                        ELSE has(j) \/ (~has(i) /\ j < i)
            BY <1>2
      <2> QED
          BY <1>5, <2>1, <2>2
<1>8. \A x, y, z \in 1..n : P(x, y) /\ P(y, z) => P(x, z)
      <2> TAKE x, y, z \in 1..n
      <2>1. P(x, y) <=> IF has(x) /\ has(y)
                        THEN (IF desc THEN key[y] < key[x] ELSE key[x] < key[y]) \/ (key[x] = key[y] /\ x < y)
                        ELSE has(x) \/ (~has(y) /\ x < y)
            BY <1>2
      <2>2. P(y, z) <=> IF has(y) /\ has(z)
                        THEN (IF desc THEN key[z] < key[y] ELSE key[y] < key[z]) \/ (key[y] = key[z] /\ y < z)
                        ELSE has(y) \/ (~has(z) /\ y < z)
            BY <1>2
      <2>3. P(x, z) <=> IF has(x) /\ has(z)
                        THEN (IF desc THEN key[z] < key[x] ELSE key[x] < key[z]) \/ (key[x] = key[z] /\ x < z)
                        ELSE has(x) \/ (~has(z) /\ x < z)
            BY <1>2
      <2> QED
          BY <1>5, <2>1, <2>2, <2>3
<1> HIDE DEF O
<1>9. LinesUp(1..n, O)
      <2>1. \A x \in 1..n : <<x, x>> \notin O
            BY <1>3, <1>6
      <2>2. \A x, y, z \in 1..n : <<x, y>> \in O /\ <<y, z>> \in O => <<x, z>> \in O
            BY <1>3, <1>8, Zenon
      <2>3. \A x, y \in 1..n : x = y \/ <<x, y>> \in O \/ <<y, x>> \in O
            BY <1>3, <1>7, Zenon
      <2> QED
          BY <2>1, <2>2, <2>3, Zenon DEF LinesUp
<1> QED
    BY <1>3, <1>4, <1>9 DEF O

\* The first k rows, sorted: each stands behind those that come before it.
SortedUpTo(s, data, order, k) ==
  /\ IsList(s) /\ Len(s) = k
  /\ \A j \in 1..k : s[Cardinality(InFront(1..k, order, j)) + 1] = data[j]

LEMMA SortsOneMore ==
  ASSUME NEW data, NEW n \in Nat, Len(data) = n, DOMAIN data = 1..n, NEW f, NEW desc \in BOOLEAN, Comparable(data, f),
         NEW m \in 1..n, NEW s, SortedUpTo(s, data, InOrderOf(data, f, desc), m - 1)
  PROVE  SortedUpTo(InsertAt(s, Place(s, f, desc, data[m]), data[m]), data, InOrderOf(data, f, desc), m)
<1> DEFINE O == InOrderOf(data, f, desc)
           k == m - 1
           A(j) == Cardinality(InFront(1..k, O, j))
           B(j) == Cardinality(InFront(1..m, O, j))
           r == data[m]
           p == A(m) + 1
           t == InsertAt(s, p, r)
<1>1. k \in Nat /\ k + 1 = m /\ 1..k \subseteq 1..n
      OBVIOUS
<1>2. /\ LinesUp(1..n, O)
      /\ \A i, j \in 1..n : i < j => (<<i, j>> \in O <=> ~Before(f, desc, data[j], data[i]))
      BY SortingLinesUp
<1>3. IsList(s) /\ Len(s) = k /\ \A j \in 1..k : s[A(j) + 1] = data[j]
      BY DEF SortedUpTo
<1> HIDE DEF O
<1>4. /\ A(m) \in 0..k /\ B(m) = A(m)
      /\ \A j \in 1..k : /\ A(j) \in Nat /\ A(j) + 1 \in 1..k
                         /\ <<j, m>> \in O <=> A(j) + 1 <= A(m)
                         /\ B(j) = A(j) + IF <<j, m>> \in O THEN 0 ELSE 1
      BY <1>2, NextInFront
<1>5. \A i \in 1..k : \E j \in 1..k : A(j) + 1 = i
      <2> TAKE i \in 1..k
      <2>1. IsFiniteSet(1..k) /\ Cardinality(1..k) = k
            BY <1>1, FS_Interval
      <2>2. LinesUp(1..k, O)
            BY <1>1, <1>2 DEF LinesUp
      <2>3. PICK j \in 1..k : A(j) = i - 1
            <3>1. i \in 1..Cardinality(1..k)
                  BY <2>1
            <3> HIDE DEF k
            <3> QED
                BY <2>1, <2>2, <3>1, SomeoneIsAt
      <2> HIDE DEF A
      <2> QED
          BY <1>1, <2>3
<1> HIDE DEF A, B, k
<1>6. \A i \in 1..k : ~Before(f, desc, r, s[i]) <=> i <= A(m)
      <2> TAKE i \in 1..k
      <2>1. PICK j \in 1..k : A(j) + 1 = i
            BY <1>5
      <2>2. s[i] = data[j]
            BY <1>3, <2>1
      <2>3. j \in 1..n /\ j < m
            BY <1>1
      <2>4. <<j, m>> \in O <=> ~Before(f, desc, r, s[i])
            BY <1>2, <2>2, <2>3
      <2> QED
          BY <1>4, <2>1, <2>4
<1>7. DOMAIN s = 1..k
      <2>1. \A T : s \in Seq(T) => DOMAIN s = 1..Len(s)
            OBVIOUS
      <2> QED
          BY <1>3, <2>1 DEF IsList
<1>8. Place(s, f, desc, r) = p
      <2> DEFINE D == {i \in DOMAIN s : ~Before(f, desc, r, s[i])}
      <2>1. D = 1..A(m)
            BY <1>1, <1>4, <1>6, <1>7
      <2>2. CASE A(m) = 0
            <3>1. s = <<>> \/ Before(f, desc, r, s[1])
                  <4>1. CASE k = 0
                        BY <1>3, <4>1 DEF IsList
                  <4>2. CASE k # 0
                        <5>1. 1 \in 1..k
                              BY <1>1, <4>2
                        <5> QED
                            BY <1>6, <2>2, <5>1
                  <4> QED
                      BY <4>1, <4>2
            <3> QED
                BY <2>2, <3>1 DEF Place
      <2>3. CASE A(m) # 0
            <3>1. 1 \in 1..k
                  BY <1>1, <1>4, <2>3
            <3>2. ~Before(f, desc, r, s[1]) /\ s # <<>>
                  BY <1>1, <1>4, <1>6, <1>7, <2>3, <3>1
            <3>3. Max(1..A(m)) = A(m)
                  <4>1. A(m) \in 1..A(m) /\ \A x \in 1..A(m) : A(m) >= x
                        BY <1>1, <1>4, <2>3
                  <4> QED
                      BY <1>1, <1>4, <4>1 DEF Max
            <3> QED
                BY <2>1, <3>2, <3>3, Zenon DEF Place
      <2> QED
          BY <2>2, <2>3
<1>9. HasInserted(t, s, p, r)
      <2>1. p \in 1..Len(s) + 1
            BY <1>1, <1>3, <1>4
      <2>2. PICK T : s \in Seq(T)
            BY <1>3 DEF IsList
      <2>3. s \in Seq(T \cup {r}) /\ r \in T \cup {r}
            BY <2>2, SeqMonotonic
      <2> HIDE DEF p, r
      <2> QED
          BY <2>1, <2>3, InsertAtIs
<1> HIDE DEF t
<1>10. ASSUME NEW j \in 1..m PROVE t[B(j) + 1] = data[j]
      <2>1. CASE j = m
            BY <1>4, <1>9, <2>1 DEF HasInserted
      <2>2. CASE j # m
            <3>1. j \in 1..k
                  BY <1>1, <2>2
            <3>2. A(j) \in Nat /\ A(j) + 1 \in 1..k /\ s[A(j) + 1] = data[j]
                  BY <1>3, <1>4, <3>1
            <3>3. CASE <<j, m>> \in O
                  <4>1. B(j) + 1 = A(j) + 1 /\ A(j) + 1 \in 1..p - 1
                        BY <1>1, <1>4, <3>1, <3>2, <3>3
                  <4> QED
                      BY <1>9, <3>2, <4>1 DEF HasInserted
            <3>4. CASE <<j, m>> \notin O
                  <4>1. PICK i \in p..k : i = A(j) + 1 /\ B(j) + 1 = i + 1
                        BY <1>1, <1>4, <3>1, <3>2, <3>4
                  <4>2. t[i + 1] = s[i]
                        BY <1>3, <1>9, <4>1 DEF HasInserted
                  <4> QED
                      BY <3>2, <4>1, <4>2
            <3> QED
                BY <3>3, <3>4
      <2> QED
          BY <2>1, <2>2
<1>11. IsList(t) /\ Len(t) = m
      BY <1>1, <1>3, <1>9 DEF HasInserted
<1> QED
    BY <1>8, <1>10, <1>11 DEF SortedUpTo, t, O, B

\* Whatever the rows, there is a place for the next one.
LEMMA PlaceExists ==
  ASSUME NEW T, NEW s \in Seq(T), NEW f, NEW desc, NEW r
  PROVE  Place(s, f, desc, r) \in 1..Len(s) + 1
<1> DEFINE n == Len(s)
           D == {i \in DOMAIN s : ~Before(f, desc, r, s[i])}
           FromEnd == {n - i : i \in D}
<1>1. n \in Nat /\ DOMAIN s = 1..n
      OBVIOUS
<1> HIDE DEF n
<1>2. CASE s = <<>> \/ Before(f, desc, r, s[1])
      <2>1. Place(s, f, desc, r) = 1
            BY <1>2 DEF Place
      <2> QED
          BY <1>1, <2>1 DEF n
<1>3. CASE ~(s = <<>> \/ Before(f, desc, r, s[1]))
      <2>1. D # {} /\ D \subseteq 1..n
            <3>1. 1 \in DOMAIN s
                  BY <1>1, <1>3 DEF n
            <3> QED
                BY <1>1, <1>3, <3>1
      <2> HIDE DEF D
      <2>2. FromEnd # {} /\ FromEnd \subseteq Nat
            BY <1>1, <2>1
      <2>3. PICK l \in FromEnd : \A j \in FromEnd : l <= j
            <3> HIDE DEF FromEnd
            <3> QED
                BY <2>2, FirstExists
      <2>4. PICK i \in D : l = n - i
            OBVIOUS
      <2>5. \A j \in D : i >= j
            <3> TAKE j \in D
            <3>1. n - i <= n - j
                  BY <2>3, <2>4
            <3> QED
                BY <1>1, <2>1, <3>1
      <2>6. Max(D) \in D
            BY <2>5 DEF Max
      <2>7. Place(s, f, desc, r) = Max(D) + 1
            BY <1>3, Zenon DEF Place, D
      <2>8. Max(D) \in 1..n
            BY <2>1, <2>6
      <2> QED
          BY <1>1, <2>7, <2>8 DEF n
<1> QED
    BY <1>2, <1>3

LEMMA SortByIs ==
  ASSUME NEW T, NEW data \in Seq(T), NEW args, args # <<>>
  PROVE  /\ SortBy(args, data) \in Seq(T)
         /\ Comparable(data, args[1]) =>
              SortedUpTo(SortBy(args, data), data, InOrderOf(data, args[1], Descending(args)), Len(data))
<1> DEFINE n == Len(data)
           f == args[1]
           desc == Descending(args)
           V == Seq(T)
           E(k, v) == InsertAt(v, Place(v, f, desc, data[k]), data[k])
           F == [k \in 1..n |-> [v \in V |-> E(k, v)]]
           Defines(r) == r = [k \in 0..n |-> IF k = 0 THEN <<>> ELSE E(k, r[k - 1])]
           sorted == CHOOSE r : Defines(r)
           O == InOrderOf(data, f, desc)
           S == {k \in Nat : k <= n => SortedUpTo(sorted[k], data, O, k)}
<1>1. n \in Nat /\ DOMAIN data = 1..n /\ <<>> \in V /\ desc \in BOOLEAN /\ \A k \in 1..n : data[k] \in T
      BY DEF Descending
<1>2. SortBy(args, data) = sorted[n]
      BY DEF SortBy
<1> HIDE DEF f, desc, n
<1>3. \A k \in 1..n, v \in V : E(k, v) \in V
      <2> TAKE k \in 1..n, v \in V
      <2>1. Place(v, f, desc, data[k]) \in 1..Len(v) + 1
            BY PlaceExists
      <2> QED
          BY <1>1, <2>1, InsertAtIs
<1> HIDE DEF E, V
<1>4. F \in [1..n -> [V -> V]]
      BY <1>3
<1>5. PICK g : Recurs(g, n, V, <<>>, F)
      <2> HIDE DEF F
      <2> QED
          BY <1>1, <1>4, RecursionExists
<1>6. Defines(g)
      <2>1. g \in [0..n -> V] /\ g[0] = <<>> /\ \A k \in 1..n : g[k] = F[k][g[k - 1]] /\ g[k - 1] \in V
            <3>1. \A k \in 1..n : k - 1 \in 0..n
                  BY <1>1
            <3> QED
                BY <1>5, <3>1 DEF Recurs
      <2>2. \A k \in 1..n : g[k] = E(k, g[k - 1])
            BY <2>1
      <2>3. \A k \in 0..n : k = 0 \/ k \in 1..n
            BY <1>1
      <2> QED
          BY <2>1, <2>2, <2>3
<1>7. Defines(sorted)
      <2> HIDE DEF Defines
      <2> QED
          BY <1>6
<1> HIDE DEF sorted
<1>8. sorted[0] = <<>> /\ \A k \in 1..n : sorted[k] = E(k, sorted[k - 1])
      BY <1>1, <1>7
<1>9. Recurs(sorted, n, V, <<>>, F)
      <2>1. sorted = [k \in 0..n |-> sorted[k]]
            BY <1>7
      <2>2. \A k \in 1..n : sorted[k - 1] \in V => sorted[k] = F[k][sorted[k - 1]]
            BY <1>8
      <2> HIDE DEF F
      <2> QED
          BY <1>1, <1>4, <1>8, <2>1, <2>2, RecursionIs
<1>10. sorted[n] \in V
       BY <1>1, <1>9 DEF Recurs
<1>11. ASSUME Comparable(data, f) PROVE SortedUpTo(sorted[n], data, O, n)
       <2>1. 0 \in S
             <3>1. IsList(<<>>) /\ Len(<<>>) = 0
                   <4>1. <<>> \in Seq({})
                         OBVIOUS
                   <4> QED
                       BY <4>1 DEF IsList
             <3>2. SortedUpTo(<<>>, data, O, 0)
                   BY <3>1 DEF SortedUpTo
             <3> QED
                 BY <1>8, <3>2
       <2>2. ASSUME NEW k \in Nat, k \in S PROVE k + 1 \in S
             <3> SUFFICES ASSUME k + 1 <= n PROVE SortedUpTo(sorted[k + 1], data, O, k + 1)
                 OBVIOUS
             <3>1. PICK m \in 1..n : m = k + 1 /\ m - 1 = k
                   BY <1>1
             <3>2. SortedUpTo(sorted[m - 1], data, O, m - 1)
                   BY <1>1, <2>2, <3>1
             <3>3. SortedUpTo(E(m, sorted[m - 1]), data, O, m)
                   BY <1>1, <1>11, <3>2, SortsOneMore DEF E, n
             <3> QED
                 BY <1>8, <3>1, <3>3
       <2> HIDE DEF S
       <2>3. n \in S
             BY <1>1, <2>1, <2>2, NatBySet
       <2> QED
           BY <1>1, <2>3 DEF S
<1> QED
    BY <1>2, <1>10, <1>11 DEF V, n, f, desc

\* Every operator makes rows of rows.
LEMMA FewerRows ==
  ASSUME NEW data, IsList(data), NEW args
  PROVE  IsList(FirstRows(args, data)) /\ IsList(LastRows(args, data))
<1> DEFINE h == HowMany(args)
           n == Len(data)
           m == Min({h, n})
<1>1. n \in Nat
      BY Lengths
<1>2. h \in Nat
      BY PipeAssumption DEF HowMany
<1>3. FirstRows(args, data) = SubSeq(data, 1, m) /\ LastRows(args, data) = SubSeq(data, n - m + 1, n)
      BY DEF FirstRows, LastRows
<1> HIDE DEF h, n
<1>4. m \in Int /\ m <= n
      BY <1>1, <1>2 DEF Min
<1> HIDE DEF m
<1>5. n - m + 1 \in Int /\ 1 <= n - m + 1 /\ n <= Len(data) /\ 1 \in Int /\ n \in Int
      BY <1>1, <1>4 DEF n
<1>6. IsList(SubSeq(data, 1, m)) /\ IsList(SubSeq(data, n - m + 1, n))
      BY <1>1, <1>4, <1>5, PartIsAList DEF n
<1> QED
    BY <1>3, <1>6

LEMMA WhereIsAList ==
  ASSUME NEW data, IsList(data), NEW args
  PROVE  IsList(Where(args, data))
<1> DEFINE holds(r) == Has(r, args[1]) /\ Holds(args[2][1], Compare(r.at[args[1]], Operand(args)))
           at == {i \in DOMAIN data : holds(data[i])}
<1> HIDE DEF holds
<1>1. IsList(Picked(data, at))
      BY Filtered
<1>2. Where(args, data) = IF Len(args) < 3 THEN data ELSE Picked(data, at)
      BY Zenon DEF Where, holds
<1> QED
    BY <1>1, <1>2

LEMMA OperatorsGiveRows ==
  ASSUME NEW name, NEW args, NEW data, IsList(data)
  PROVE  IsList(ApplyOperator(name, args, data))
<1>1. IsList(Where(args, data))
      BY WhereIsAList
<1>2. IsList(SortBy(args, data))
      <2>1. CASE args = <<>>
            BY <2>1 DEF SortBy
      <2>2. CASE args # <<>>
            <3>1. PICK T : data \in Seq(T)
                  BY DEF IsList
            <3>2. SortBy(args, data) \in Seq(T)
                  BY <2>2, <3>1, SortByIs
            <3> QED
                BY <3>2 DEF IsList
      <2> QED
          BY <2>1, <2>2
<1>3. IsList(Select(args, data))
      <2> DEFINE objects == ObjectRows(data)
                 t == [i \in DOMAIN objects |-> Keep(objects[i], ToSet(args))]
      <2>1. IsList(objects)
            BY Filtered DEF ObjectRows
      <2> HIDE DEF objects
      <2>2. t = [i \in DOMAIN objects |-> t[i]]
            OBVIOUS
      <2>3. IsList(t)
            <3> HIDE DEF t
            <3> QED
                BY <2>1, <2>2, MappedIsAList
      <2> QED
          BY <2>3 DEF Select, objects
<1>4. IsList(Reject(args, data))
      <2> DEFINE t == Reject(args, data)
      <2>1. t = [i \in DOMAIN data |-> t[i]]
            BY DEF Reject
      <2> HIDE DEF t
      <2> QED
          BY <2>1, MappedIsAList DEF t
<1>5. IsList(FirstRows(args, data)) /\ IsList(LastRows(args, data))
      BY FewerRows
<1>6. IsList(Count(data)) /\ IsList(Unknown(name))
      BY OneRowIsAList DEF Count, Unknown
<1>7. IsList(Uniq(data))
      BY Filtered DEF Uniq
<1> QED
    BY <1>1, <1>2, <1>3, <1>4, <1>5, <1>6, <1>7, Zenon DEF ApplyOperator

LEMMA SortByIsApplied == ASSUME NEW args, NEW data PROVE ApplyOperator("sort-by", args, data) = SortBy(args, data)
<1>1. "sort-by" \notin Formats
      BY DEF Formats
<1> QED
    BY <1>1 DEF ApplyOperator

LEMMA InputIsRows == ASSUME NEW output \in Outputs PROVE IsList(ParseInput(output))
<1> USE PipeAssumption
<1>1. IsList(output.rows) /\ IsList(output.lines)
      BY DEF IsList
<1> DEFINE t == [i \in DOMAIN output.lines |-> LineRow(output.lines[i], i - 1)]
<1>2. t = [i \in DOMAIN output.lines |-> t[i]]
      OBVIOUS
<1>3. IsList(t)
      <2> HIDE DEF t
      <2> QED
          BY <1>1, <1>2, MappedIsAList
<1> QED
    BY <1>1, <1>3, OneRowIsAList DEF ParseInput

\* What sort-by leaves.
LEMMA SortByIsStable ==
  ASSUME NEW data, IsList(data), NEW args, args # <<>>, Comparable(data, args[1])
  PROVE  /\ Len(SortBy(args, data)) = Len(data)
         /\ \A j \in DOMAIN data : SortBy(args, data)[PlaceOf(data, args[1], Descending(args), j)] = data[j]
<1> DEFINE n == Len(data)
           f == args[1]
           desc == Descending(args)
           O == InOrderOf(data, f, desc)
<1>1. n \in Nat /\ DOMAIN data = 1..n
      BY Lengths
<1>2. SortedUpTo(SortBy(args, data), data, O, n)
      <2>1. PICK T : data \in Seq(T)
            BY DEF IsList
      <2> QED
          BY <2>1, SortByIs
<1> HIDE DEF n, f, desc
<1>3. ASSUME NEW j \in 1..n PROVE InFront(1..n, O, j) = {i \in DOMAIN data : Precedes(data, f, desc, i, j)}
      <2>1. ASSUME NEW i \in 1..n PROVE <<i, j>> \in O <=> Precedes(data, f, desc, i, j)
            <3>1. <<i, j>> \in (1..n) \X (1..n) /\ <<i, j>>[1] = i /\ <<i, j>>[2] = j
                  OBVIOUS
            <3>2. O = {p \in (1..n) \X (1..n) : Precedes(data, f, desc, p[1], p[2])}
                  BY DEF InOrderOf, n
            <3>3. <<i, j>> \in O <=> Precedes(data, f, desc, <<i, j>>[1], <<i, j>>[2])
                  BY <3>1, <3>2, Zenon
            <3> QED
                BY <3>1, <3>3
      <2> QED
          BY <1>1, <2>1 DEF InFront
<1> HIDE DEF O
<1>4. Len(SortBy(args, data)) = n /\ \A j \in 1..n : SortBy(args, data)[Cardinality(InFront(1..n, O, j)) + 1] = data[j]
      BY <1>2 DEF SortedUpTo
<1>5. ASSUME NEW j \in DOMAIN data PROVE SortBy(args, data)[PlaceOf(data, f, desc, j)] = data[j]
      <2>1. PlaceOf(data, f, desc, j) = Cardinality(InFront(1..n, O, j)) + 1
            BY <1>1, <1>3 DEF PlaceOf
      <2> QED
          BY <1>1, <1>4, <2>1
<1> QED
    BY <1>4, <1>5 DEF n, f, desc

\* What the steps of a pipeline keep.
SortInv ==
  /\ IsList(rows)
  /\ pipePhase \in {"idle", "parse"} => step = NoStep
  /\ SortIsStable

LEMMA NextSortInv == ASSUME SortInv, [PipeNext]_pipeVars PROVE SortInv'
<1> USE DEF SortInv
<1>1. ASSUME UNCHANGED <<rows, step>>, pipePhase' \in {"idle", "parse"} => step = NoStep PROVE SortInv'
      <2>1. SortIsStable'
            BY <1>1 DEF SortIsStable
      <2> QED
          BY <1>1, <2>1
<1>2. CASE UNCHANGED pipeVars
      BY <1>1, <1>2 DEF pipeVars
<1>3. ASSUME NEW line, Enter(line) PROVE SortInv'
      BY <1>1, <1>3 DEF Enter
<1>4. CASE Vetoed
      BY <1>1, <1>4 DEF Vetoed
<1>5. CASE Capture
      <2>1. PICK output \in Outputs : rows' = ParseInput(output)
            BY <1>5 DEF Capture
      <2>2. step' = NoStep /\ pipePhase' = "operators"
            BY <1>5 DEF Capture
      <2>3. SortIsStable'
            BY <2>2 DEF SortIsStable, NoStep
      <2> QED
          BY <2>1, <2>2, <2>3, InputIsRows
<1>6. CASE Operate
      <2> DEFINE tokens == TokenizeArgs(segments[1])
                 args == Tail(tokens)
      <2>1. /\ pipePhase' = pipePhase /\ pipePhase = "operators"
            /\ rows' = ApplyOperator(tokens[1][1], args, rows) /\ step' = [op |-> tokens, before |-> rows]
            BY <1>6 DEF Operate
      <2> HIDE DEF tokens, args
      <2>2. step'.op = tokens /\ step'.before = rows
            BY <2>1
      <2>3. ASSUME tokens[1] = <<"sort-by">> PROVE rows' = SortBy(args, rows)
            <3>1. tokens[1][1] = "sort-by"
                  BY <2>3
            <3> QED
                BY <2>1, <3>1, SortByIsApplied
      <2>4. SortIsStable'
            <3> SUFFICES ASSUME tokens[1] = <<"sort-by">>, args # <<>>, Comparable(rows, args[1])
                PROVE  /\ Len(rows') = Len(rows)
                       /\ \A j \in DOMAIN rows : rows'[PlaceOf(rows, args[1], Descending(args), j)] = rows[j]
                BY <2>2, Zenon DEF SortIsStable, args
            <3> QED
                BY <2>3, SortByIsStable
      <2>5. IsList(rows')
            BY <2>1, OperatorsGiveRows
      <2> QED
          BY <2>1, <2>4, <2>5
<1>7. CASE Show
      BY <1>1, <1>7 DEF Show
<1> QED
    BY <1>2, <1>3, <1>4, <1>5, <1>6, <1>7 DEF PipeNext

\* sort-by keeps every row, orders those that have the field, in whichever direction,
\* and leaves the others as they were: the insertions of std::stable_sort put every row
\* right behind those that precede it (structured_pipe.cpp:293-329).
THEOREM SortsAreStable == PipeSpec => []SortIsStable
<1>1. PipeInit => SortInv
      <2>1. PipeInit => SortIsStable
            BY DEF PipeInit, SortIsStable, NoStep
      <2> QED
          BY <2>1, OneRowIsAList DEF PipeInit, SortInv
<1>2. SortInv => SortIsStable
      BY DEF SortInv
<1> QED
    BY <1>1, <1>2, NextSortInv, PTL DEF PipeSpec


-----------------------------------------------------------------------------
(* Flags: what a cache has been filled with stays.                          *)

\* What a cache has for a tool, and what the registered providers have.
FlagsIn(cache, tool) == IF tool \in DOMAIN cache THEN ToSet(cache[tool]) ELSE {}
CachesOf(p, s, e, o) == IF p = "fig" THEN s ELSE IF p = "fish" THEN e ELSE o
Known(tool) == UNION {FlagsIn(CachesOf(p, specs, entries, options), tool) : p \in plugins}
IsCache(cache) == \A t \in DOMAIN cache : IsList(cache[t])

CompletionTypes ==
  /\ figs \in [Tools -> FigSpecs] /\ fishes \in [Tools -> FishFiles] /\ helps \in [Tools -> HelpTexts]
  /\ plugins \subseteq Providers /\ indexed["fig"] \subseteq Tools /\ indexed["fish"] \subseteq Tools
  /\ IsCache(specs) /\ IsCache(entries) /\ IsCache(options)
  /\ IsList(tabs) /\ \A k \in DOMAIN tabs : IsList(tabs[k].flags)

OfferedAreKnown == \A k \in DOMAIN tabs : ToSet(tabs[k].flags) \subseteq Known(tabs[k].tool)

TabInv == CompletionTypes /\ OfferedAreKnown /\ TypingNarrows

\* A cache keeps what it has.
Grows(cache, new) == DOMAIN cache \subseteq DOMAIN new /\ \A t \in DOMAIN cache : new[t] = cache[t]

LEMMA RememberGrows ==
  ASSUME NEW cache, NEW tool, NEW value, IsCache(cache), tool \notin DOMAIN cache, IsList(value)
  PROVE  Grows(cache, Remember(cache, tool, value)) /\ IsCache(Remember(cache, tool, value))
  BY DEF Grows, IsCache, Remember

LEMMA StartsWithIs ==
  ASSUME NEW prefix, NEW words, IsList(words)
  PROVE  /\ IsList(StartsWith(prefix, words))
         /\ ToSet(StartsWith(prefix, words)) = {w \in ToSet(words) : IsPrefix(prefix, w)}
<1> DEFINE at == {i \in DOMAIN words : IsPrefix(prefix, words[i])}
<1>1. IsList(Picked(words, at)) /\ ToSet(Picked(words, at)) = {words[i] : i \in at}
      BY Filtered
<1>2. {words[i] : i \in at} = {w \in ToSet(words) : IsPrefix(prefix, w)}
      BY DEF ToSet
<1> QED
    BY <1>1, <1>2 DEF StartsWith

LEMMA ListedIs ==
  ASSUME NEW words, IsList(words)
  PROVE  IsList(Listed(words)) /\ ToSet(Listed(words)) = ToSet(words) /\ IsInjective(Listed(words))
<1> DEFINE at == {i \in DOMAIN words : \A j \in 1..i - 1 : words[j] # words[i]}
           from == Ascending(at)
           p == Picked(words, at)
<1>1. IsList(p) /\ ToSet(p) = {words[i] : i \in at} /\ IsPicked(p, words, at, from)
      BY Filtered, Lengths, PickedIs
<1>2. Len(words) \in Nat /\ DOMAIN words = 1..Len(words)
      BY Lengths
<1>3. \A w \in ToSet(words) : \E i \in at : words[i] = w
      <2> TAKE w \in ToSet(words)
      <2> DEFINE P == {i \in DOMAIN words : words[i] = w}
      <2>1. P # {} /\ P \subseteq Nat
            BY <1>2 DEF ToSet
      <2>2. PICK i \in P : \A j \in P : i <= j
            <3>1. PICK x \in P : \A y \in P : <<y, x>> \notin OpToRel(<, Nat)
                  BY <2>1, NatLessThanWellFounded, WFMin, Zenon
            <3>2. \A y \in P : <<y, x>> \in Nat \X Nat /\ <<y, x>>[1] = y /\ <<y, x>>[2] = x
                  BY <2>1
            <3>3. \A y \in P : ~(<<y, x>>[1] < <<y, x>>[2])
                  BY <3>1, <3>2, Zenon DEF OpToRel
            <3> QED
                BY <2>1, <3>2, <3>3
      <2>3. \A j \in 1..i - 1 : j \in DOMAIN words /\ ~(i <= j)
            BY <1>2, <2>1
      <2>4. i \in at
            BY <2>2, <2>3
      <2> QED
          BY <2>4
<1>4. {words[i] : i \in at} = ToSet(words)
      BY <1>3 DEF ToSet
<1>5. ASSUME NEW a \in DOMAIN p, NEW b \in DOMAIN p, p[a] = p[b], a < b
      PROVE  FALSE
      <2> HIDE DEF p, from
      <2>1. from[a] \in at /\ from[b] \in at /\ from[a] < from[b] /\ words[from[a]] = words[from[b]]
            <3> HIDE DEF at
            <3> QED
                BY <1>1, <1>5 DEF IsPicked, IsAscending
      <2>2. from[a] \in 1..from[b] - 1
            BY <1>2, <2>1
      <2> QED
          BY <2>1, <2>2
<1>6. DOMAIN p \subseteq Int
      BY <1>1, Lengths
<1>7. IsInjective(p)
      <2> HIDE DEF p
      <2> QED
          BY <1>5, <1>6 DEF IsInjective
<1> QED
    BY <1>1, <1>4, <1>7 DEF Listed

LEMMA FishOffersAList == ASSUME NEW tokens PROVE IsList(FishOffers(tokens))
<1> DEFINE short == Given(tokens, "short")
           long == Given(tokens, "long")
           argument == Given(tokens, "argument")
           a == IF short # None THEN <<<<Dash>> \o short>> ELSE None
           b == IF long # None THEN <<<<Dash, Dash>> \o long>> ELSE None
           c == IF argument # None /\ short = None /\ long = None THEN <<argument>> ELSE None
<1>1. \A x : IsList(<<x>>) /\ IsList(None)
      <2> TAKE x
      <2>1. <<x>> \in Seq({x}) /\ None \in Seq({})
            BY DEF None
      <2> QED
          BY <2>1 DEF IsList
<1>2. IsList(a) /\ IsList(b) /\ IsList(c)
      BY <1>1
<1> HIDE DEF a, b, c
<1>3. IsList(a \o b \o c)
      BY <1>2, Concatenated
<1>4. FishOffers(tokens) = IF Given(tokens, "command") = None THEN None ELSE a \o b \o c
      BY DEF FishOffers, a, b, c
<1> QED
    BY <1>1, <1>3, <1>4

LEMMA HelpLineIsAList == ASSUME NEW line PROVE IsList(ParseHelpLine(line))
<1> DEFINE flags(s) == <<Short(s), Long(AfterShort(s))>>
           kept(s) == Picked(flags(s), {i \in 1..2 : flags(s)[i] # None})
<1>1. IsList(None)
      <2>1. None \in Seq({})
            BY DEF None
      <2> QED
          BY <2>1 DEF IsList
<1>2. \A x, y : IsList(<<x, y>>) /\ DOMAIN <<x, y>> = 1..2
      <2> TAKE x, y
      <2>1. <<x, y>> \in Seq({x, y}) /\ DOMAIN <<x, y>> = 1..2
            OBVIOUS
      <2> QED
          BY <2>1 DEF IsList
<1>3. ASSUME NEW s PROVE IsList(kept(s))
      <2>1. IsList(flags(s)) /\ DOMAIN flags(s) = 1..2
            BY <1>2
      <2> HIDE DEF flags
      <2> QED
          BY <2>1, Filtered
<1>4. ParseHelpLine(line) = None \/ \E s : ParseHelpLine(line) = kept(s)
      BY DEF ParseHelpLine
<1> HIDE DEF kept
<1> QED
    BY <1>1, <1>3, <1>4

LEMMA EmptyIsAList == IsList(None) /\ ToSet(None) = {}
<1>1. None \in Seq({}) /\ ToSet(None) = {}
      BY DEF None, ToSet
<1> QED
    BY <1>1 DEF IsList

LEMMA ParsedIsAList ==
  ASSUME NEW lines, IsList(lines)
  PROVE  IsList(ParseFile(lines)) /\ IsList(ParseHelpOutput(lines))
<1>1. Len(lines) \in Nat /\ DOMAIN lines = 1..Len(lines)
      BY Lengths
<1>2. IsList(FlattenSeq([i \in 1..Len(lines) |-> FishOffers(lines[i])]))
      BY <1>1, FishOffersAList, LinesAreAList
<1>3. IsList(FlattenSeq([i \in 1..Len(lines) |-> ParseHelpLine(lines[i])]))
      BY <1>1, HelpLineIsAList, LinesAreAList
<1> QED
    BY <1>1, <1>2, <1>3 DEF ParseFile, ParseHelpOutput

LEMMA CutIsAList ==
  ASSUME NEW lines, IsList(lines), NEW cut, cut.lines \in Nat
  PROVE  IsList(ReadUpTo(lines, cut))
<1> DEFINE s == SubSeq(lines, 1, cut.lines)
<1>1. PICK T : lines \in Seq(T)
      BY DEF IsList
<1>2. ~(cut.lines >= Len(lines)) => s \in Seq(T)
      BY <1>1
<1>3. ~(cut.lines >= Len(lines)) => IsList(s)
      BY <1>2 DEF IsList
<1> HIDE DEF s
<1>4. ~(cut.lines >= Len(lines)) => \A x : IsList(Append(s, x))
      BY <1>3, Longer
<1> QED
    BY <1>4 DEF ReadUpTo, s

\* What a provider does to its cache, and what it finds there.
LEMMA CachesGrow ==
  ASSUME CompletionTypes, NEW tool \in Tools, NEW cut \in HelpCuts
  PROVE  /\ \A c \in {LoadSpec(tool)} : Grows(specs, c) /\ IsCache(c)
         /\ \A c \in {LoadCommand(tool)} : Grows(entries, c) /\ IsCache(c)
         /\ \A c \in {GetHelpOptions(tool, cut)} : Grows(options, c) /\ IsCache(c)
<1> USE CompletionAssumption
<1>1. Grows(specs, specs) /\ Grows(entries, entries) /\ Grows(options, options)
      BY DEF Grows
<1>2. IsCache(specs) /\ IsCache(entries) /\ IsCache(options)
      BY DEF CompletionTypes
<1>3. ASSUME tool \notin DOMAIN specs
      PROVE  Grows(specs, Remember(specs, tool, figs[tool].options)) /\ IsCache(Remember(specs, tool, figs[tool].options))
      <2>1. figs[tool] \in FigSpecs
            BY DEF CompletionTypes
      <2>2. figs[tool].options \in Seq(ToSet(figs[tool].options))
            BY <2>1
      <2>3. IsList(figs[tool].options)
            BY <2>2 DEF IsList
      <2> QED
          BY <1>2, <1>3, <2>3, RememberGrows
<1>4. ASSUME NEW lines \in FishFiles \cup HelpTexts PROVE IsList(lines)
      BY DEF IsList
<1>5. ASSUME tool \notin DOMAIN entries
      PROVE  Grows(entries, Remember(entries, tool, ParseFile(fishes[tool]))) /\ IsCache(Remember(entries, tool, ParseFile(fishes[tool])))
      <2>1. fishes[tool] \in FishFiles
            BY DEF CompletionTypes
      <2>2. IsList(ParseFile(fishes[tool]))
            BY <1>4, <2>1, ParsedIsAList
      <2> QED
          BY <1>2, <1>5, <2>2, RememberGrows
<1>6. ASSUME tool \notin DOMAIN options
      PROVE  /\ Grows(options, Remember(options, tool, ParseHelpOutput(ReadUpTo(helps[tool], cut))))
             /\ IsCache(Remember(options, tool, ParseHelpOutput(ReadUpTo(helps[tool], cut))))
      <2>1. helps[tool] \in HelpTexts /\ cut.lines \in Nat
            BY DEF CompletionTypes
      <2>2. IsList(ParseHelpOutput(ReadUpTo(helps[tool], cut)))
            BY <1>4, <2>1, CutIsAList, ParsedIsAList
      <2> QED
          BY <1>2, <1>6, <2>2, RememberGrows
<1>7. Grows(specs, LoadSpec(tool)) /\ IsCache(LoadSpec(tool))
      BY <1>1, <1>2, <1>3 DEF LoadSpec
<1>8. Grows(entries, LoadCommand(tool)) /\ IsCache(LoadCommand(tool))
      BY <1>1, <1>2, <1>5 DEF LoadCommand
<1>9. Grows(options, GetHelpOptions(tool, cut)) /\ IsCache(GetHelpOptions(tool, cut))
      BY <1>1, <1>2, <1>6 DEF GetHelpOptions
<1> QED
    BY <1>7, <1>8, <1>9

\* What Tab offers are the flags that the registered providers have and that fit.
LEMMA MergedIs ==
  ASSUME CompletionTypes, NEW tool \in Tools, NEW cut \in HelpCuts, NEW word
  PROVE  /\ IsList(Merged(tool, word, cut)) /\ IsInjective(Merged(tool, word, cut))
         /\ ToSet(Merged(tool, word, cut)) =
              {f \in UNION {FlagsIn(CachesOf(p, LoadSpec(tool), LoadCommand(tool), GetHelpOptions(tool, cut)), tool) : p \in plugins} :
                 IsPrefix(word, f)}
<1> DEFINE C(p) == CachesOf(p, LoadSpec(tool), LoadCommand(tool), GetHelpOptions(tool, cut))
           H(p) == FlagsIn(C(p), tool)
           fb(p) == FoundBy(p, tool, word, cut)
<1>1. \A p \in Providers : IsCache(C(p))
      BY CachesGrow DEF CachesOf, Providers
<1>2. \A p \in Providers : CacheOf(p, tool, cut) = IF tool \in DOMAIN C(p) THEN C(p)[tool] ELSE None
      BY DEF CacheOf, CachesOf, Providers
<1> HIDE DEF C
<1>3. \A p \in Providers : IsList(CacheOf(p, tool, cut)) /\ ToSet(CacheOf(p, tool, cut)) = H(p)
      BY <1>1, <1>2, EmptyIsAList DEF FlagsIn, IsCache
<1>4. ASSUME NEW p \in Providers
      PROVE  IsList(fb(p)) /\ ToSet(fb(p)) = IF p \in plugins THEN {f \in H(p) : IsPrefix(word, f)} ELSE {}
      BY <1>3, StartsWithIs, EmptyIsAList DEF FoundBy
<1> DEFINE all == fb("fig") \o fb("fish") \o fb("manpage")
<1>5. Merged(tool, word, cut) = Listed(all)
      BY DEF Merged
<1> HIDE DEF fb, H
<1>6. IsList(all) /\ ToSet(all) = ToSet(fb("fig")) \cup ToSet(fb("fish")) \cup ToSet(fb("manpage"))
      <2>1. IsList(fb("fig")) /\ IsList(fb("fish")) /\ IsList(fb("manpage"))
            BY <1>4 DEF Providers
      <2>2. IsList(fb("fig") \o fb("fish")) /\ ToSet(fb("fig") \o fb("fish")) = ToSet(fb("fig")) \cup ToSet(fb("fish"))
            BY <2>1, Concatenated
      <2> QED
          BY <2>1, <2>2, Concatenated
<1> HIDE DEF all
<1>7. IsList(Listed(all)) /\ ToSet(Listed(all)) = ToSet(all) /\ IsInjective(Listed(all))
      BY <1>6, ListedIs
<1>8. ToSet(all) = {f \in UNION {H(p) : p \in plugins} : IsPrefix(word, f)}
      <2>1. plugins \subseteq Providers
            BY DEF CompletionTypes
      <2>2. ToSet(all) = UNION {ToSet(fb(p)) : p \in Providers}
            BY <1>6 DEF Providers
      <2>3. ASSUME NEW f PROVE f \in ToSet(all) <=> f \in {g \in UNION {H(p) : p \in plugins} : IsPrefix(word, g)}
            BY <1>4, <2>1, <2>2
      <2> QED
          BY <2>3
<1> QED
    BY <1>5, <1>7, <1>8 DEF H, C

LEMMA InitTabInv == ASSUME CompletionInit PROVE TabInv
<1>1. plugins \subseteq Providers
      BY DEF CompletionInit, Enabled
<1>2. indexed["fig"] \subseteq Tools /\ indexed["fish"] \subseteq Tools
      BY DEF CompletionInit, IndexOf
<1>3. IsCache(specs) /\ IsCache(entries) /\ IsCache(options)
      BY DEF CompletionInit, IsCache, None
<1>4. IsList(tabs) /\ DOMAIN tabs = {}
      BY EmptyIsAList DEF CompletionInit, None
<1> QED
    BY <1>1, <1>2, <1>3, <1>4 DEF CompletionInit, TabInv, CompletionTypes, OfferedAreKnown, TypingNarrows

LEMMA TabFlagKeepsTabInv ==
  ASSUME TabInv, NEW tool \in Tools, NEW word, NEW cut \in HelpCuts, TabFlag(tool, word, cut)
  PROVE  TabInv'
<1> DEFINE flags == Merged(tool, word, cut)
           tab == [tool |-> tool, word |-> word, flags |-> flags]
           n == Len(tabs) + 1
<1>1. /\ figs' = figs /\ fishes' = fishes /\ helps' = helps /\ plugins' = plugins /\ indexed' = indexed
      /\ specs' = IF "fig" \in plugins THEN LoadSpec(tool) ELSE specs
      /\ entries' = IF "fish" \in plugins THEN LoadCommand(tool) ELSE entries
      /\ options' = IF "manpage" \in plugins THEN GetHelpOptions(tool, cut) ELSE options
      /\ tabs' = Append(tabs, tab)
      BY DEF TabFlag, outside
<1>2. CompletionTypes /\ OfferedAreKnown /\ TypingNarrows
      BY DEF TabInv
<1>3. /\ Grows(specs, specs') /\ IsCache(specs') /\ Grows(entries, entries') /\ IsCache(entries')
      /\ Grows(options, options') /\ IsCache(options')
      <2>1. Grows(specs, specs) /\ Grows(entries, entries) /\ Grows(options, options)
            BY DEF Grows
      <2>2. IsCache(specs) /\ IsCache(entries) /\ IsCache(options)
            BY <1>2 DEF CompletionTypes
      <2> QED
          BY <1>1, <1>2, <2>1, <2>2, CachesGrow
<1>4. IsList(flags) /\ IsInjective(flags) /\ ToSet(flags) = {f \in Known(tool)' : IsPrefix(word, f)}
      <2>1. \A p \in plugins : CachesOf(p, LoadSpec(tool), LoadCommand(tool), GetHelpOptions(tool, cut)) = CachesOf(p, specs, entries, options)'
            BY <1>1, <1>2 DEF CachesOf, CompletionTypes, Providers
      <2>2. \A p \in plugins : FlagsIn(CachesOf(p, LoadSpec(tool), LoadCommand(tool), GetHelpOptions(tool, cut)), tool)
                                 = FlagsIn(CachesOf(p, specs', entries', options'), tool)
            BY <2>1
      <2>3. Known(tool)' = UNION {FlagsIn(CachesOf(p, LoadSpec(tool), LoadCommand(tool), GetHelpOptions(tool, cut)), tool) : p \in plugins}
            <3>1. Known(tool)' = UNION {FlagsIn(CachesOf(p, specs', entries', options'), tool) : p \in plugins}
                  BY <1>1 DEF Known
            <3> QED
                BY <2>2, <3>1
      <2> QED
          BY <1>2, <2>3, MergedIs
<1>5. \A t : Known(t) \subseteq Known(t)'
      <2> TAKE t
      <2>1. ASSUME NEW p \in plugins
            PROVE  FlagsIn(CachesOf(p, specs, entries, options), t) \subseteq FlagsIn(CachesOf(p, specs', entries', options'), t)
            BY <1>3 DEF FlagsIn, CachesOf, Grows
      <2>2. Known(t)' = UNION {FlagsIn(CachesOf(p, specs', entries', options'), t) : p \in plugins}
            BY <1>1 DEF Known
      <2> HIDE DEF FlagsIn, CachesOf
      <2> QED
          BY <2>1, <2>2 DEF Known
<1> HIDE DEF flags
<1>6. /\ IsList(tabs) /\ IsList(tabs') /\ Len(tabs) \in Nat /\ DOMAIN tabs = 1..Len(tabs) /\ DOMAIN tabs' = 1..n
      /\ \A i \in DOMAIN tabs : tabs'[i] = tabs[i]
      /\ tabs'[n] = tab
      <2>1. IsList(tabs)
            BY <1>2 DEF CompletionTypes
      <2> QED
          BY <1>1, <2>1, Longer, Lengths
<1>7. tab.tool = tool /\ tab.word = word /\ tab.flags = flags
      OBVIOUS
<1> HIDE DEF tab
<1>8. \A k \in DOMAIN tabs' : k \in DOMAIN tabs \/ k = n
      BY <1>6
<1>9. CompletionTypes'
      <2>1. \A k \in DOMAIN tabs' : IsList(tabs'[k].flags)
            BY <1>2, <1>4, <1>6, <1>7, <1>8 DEF CompletionTypes
      <2> QED
          BY <1>1, <1>2, <1>3, <1>6, <2>1 DEF CompletionTypes
<1>10. OfferedAreKnown'
      <2> SUFFICES ASSUME NEW k \in DOMAIN tabs' PROVE ToSet(tabs'[k].flags) \subseteq Known(tabs[k].tool)'
          BY DEF OfferedAreKnown
      <2>1. CASE k \in DOMAIN tabs
            <3>1. ToSet(tabs[k].flags) \subseteq Known(tabs[k].tool)
                  BY <1>2, <2>1 DEF OfferedAreKnown
            <3> QED
                BY <1>5, <1>6, <2>1, <3>1
      <2>2. CASE k = n
            BY <1>4, <1>6, <1>7, <2>2
      <2> QED
          BY <1>8, <2>1, <2>2
<1>11. TypingNarrows'
      <2>1. ASSUME NEW k \in DOMAIN tabs' PROVE IsInjective(tabs'[k].flags)
            BY <1>2, <1>4, <1>6, <1>7, <1>8 DEF TypingNarrows
      <2>2. ASSUME NEW i \in DOMAIN tabs', NEW j \in DOMAIN tabs', i < j, tabs'[i].tool = tabs'[j].tool,
                   IsPrefix(tabs'[i].word, tabs'[j].word)
            PROVE  ToSet(StartsWith(tabs'[j].word, tabs'[i].flags)) \subseteq ToSet(tabs'[j].flags)
            <3>1. i \in DOMAIN tabs
                  BY <1>6, <2>2
            <3>2. CASE j \in DOMAIN tabs
                  BY <1>2, <1>6, <2>2, <3>1, <3>2 DEF TypingNarrows
            <3>3. CASE j = n
                  <4>1. tabs'[j].word = word /\ tabs'[j].flags = flags /\ tabs'[i] = tabs[i] /\ tabs[i].tool = tool
                        BY <1>6, <1>7, <2>2, <3>1, <3>3
                  <4>2. IsList(tabs[i].flags) /\ ToSet(tabs[i].flags) \subseteq Known(tool)
                        BY <1>2, <3>1, <4>1 DEF CompletionTypes, OfferedAreKnown
                  <4>3. ToSet(StartsWith(word, tabs[i].flags)) = {w \in ToSet(tabs[i].flags) : IsPrefix(word, w)}
                        BY <4>2, StartsWithIs
                  <4> QED
                      BY <1>4, <1>5, <4>1, <4>2, <4>3
            <3> QED
                BY <1>8, <3>2, <3>3
      <2> QED
          BY <2>1, <2>2 DEF TypingNarrows
<1> QED
    BY <1>9, <1>10, <1>11 DEF TabInv

LEMMA NextTabInv == ASSUME TabInv, [CompletionNext]_completionVars PROVE TabInv'
<1> USE CompletionAssumption
<1>1. ASSUME CompletionTypes', UNCHANGED <<plugins, specs, entries, options, tabs>> PROVE TabInv'
      <2>1. \A t : Known(t)' = Known(t)
            BY <1>1 DEF Known
      <2>2. OfferedAreKnown'
            BY <1>1, <2>1 DEF TabInv, OfferedAreKnown
      <2>3. TypingNarrows'
            BY <1>1 DEF TabInv, TypingNarrows
      <2> QED
          BY <1>1, <2>2, <2>3 DEF TabInv
<1>2. ASSUME UNCHANGED <<figs, fishes, helps, plugins, indexed, specs, entries, options, tabs>> PROVE TabInv'
      <2>1. CompletionTypes'
            BY <1>2 DEF TabInv, CompletionTypes
      <2> QED
          BY <1>1, <1>2, <2>1
<1>3. CASE UNCHANGED completionVars
      BY <1>2, <1>3 DEF completionVars, outside, caches
<1>4. ASSUME NEW word, TabCommand(word) PROVE TabInv'
      BY <1>2, <1>4 DEF TabCommand, outside, caches
<1>5. ASSUME NEW tool, NEW word, TabArgument(tool, word) PROVE TabInv'
      BY <1>2, <1>5 DEF TabArgument, outside, caches
<1>6. ASSUME NEW input \in Inputs, NEW cut \in HelpCuts, TabFlag(input.tool, input.word, cut) PROVE TabInv'
      <2>1. input.tool \in Tools
            BY <1>6 DEF TabFlag, IsFlag, None, Dash
      <2> QED
          BY <1>6, <2>1, TabFlagKeepsTabInv
<1>7. ASSUME NEW word, NotFound127(word) PROVE TabInv'
      BY <1>2, <1>7 DEF NotFound127, outside, caches
<1>8. ASSUME NEW tool \in Tools, Change(tool) PROVE TabInv'
      <2>1. UNCHANGED <<plugins, indexed, specs, entries, options, tabs>>
            BY <1>8 DEF Change, caches
      <2>2. figs' \in [Tools -> FigSpecs] /\ fishes' \in [Tools -> FishFiles] /\ helps' \in [Tools -> HelpTexts]
            BY <1>8 DEF Change, TabInv, CompletionTypes
      <2>3. CompletionTypes'
            BY <2>1, <2>2 DEF TabInv, CompletionTypes
      <2> QED
          BY <1>1, <2>1, <2>3
<1> QED
    BY <1>3, <1>4, <1>5, <1>6, <1>7, <1>8 DEF CompletionNext

\* However the caches are filled, typing on and pressing Tab again never hides a flag
\* that still fits (plugin_registry.cpp:30-73).
THEOREM FlagsStay == CompletionSpec => []TypingNarrows
<1>1. TabInv => TypingNarrows
      BY DEF TabInv
<1> QED
    BY <1>1, InitTabInv, NextTabInv, PTL DEF CompletionSpec


-----------------------------------------------------------------------------
(* damerau_levenshtein: where its table has 0 and 1.                        *)

\* What a row of the table is when u and uu are the two before it.
EditsOf(u, uu, row, a, b, i, j) ==
  LET plain == Least(Least(u[j], row[j - 1]) + 1, u[j - 1] + IF a[i] = b[j] THEN 0 ELSE 1)
      swapped == i > 1 /\ j > 1 /\ a[i] = b[j - 1] /\ a[i - 1] = b[j]
  IN IF swapped THEN Least(plain, SwapCost(a, b, i, j, uu[j - 2])) ELSE plain
Solves(row, u, uu, a, b, i) ==
  row = [j \in 0..Len(b) |-> IF i = 0 \/ j = 0 THEN i + j ELSE EditsOf(u, uu, row, a, b, i, j)]
Widths(b) == [0..Len(b) -> Nat]

LEMMA RowIsChosen ==
  ASSUME NEW dp, NEW a, NEW b, NEW i
  PROVE  Row(dp, a, b, i) = CHOOSE row : Solves(row, dp[i - 1], dp[i - 2], a, b, i)
  BY DEF Row, Solves, Edits, EditsOf

LEMMA OneRow ==
  ASSUME NEW a, NEW b, Len(b) \in Nat, NEW i \in Nat, NEW r, NEW u, NEW uu, Solves(r, u, uu, a, b, i),
         NEW s, NEW t, NEW tt, Solves(s, t, tt, a, b, i), i > 0 => u = t, i > 1 => uu = tt
  PROVE  r = s
<1> DEFINE n == Len(b)
           S == {j \in Nat : j <= n => r[j] = s[j]}
<1>1. r = [j \in 0..n |-> r[j]] /\ s = [j \in 0..n |-> s[j]]
      BY DEF Solves
<1>2. \A j \in 0..n : i = 0 \/ j = 0 => r[j] = s[j]
      BY DEF Solves
<1>3. ASSUME NEW j \in 1..n, i > 0, r[j - 1] = s[j - 1] PROVE r[j] = s[j]
      <2>1. j \in 0..n /\ j # 0 /\ i # 0
            BY <1>3
      <2>2. r[j] = EditsOf(u, uu, r, a, b, i, j) /\ s[j] = EditsOf(t, tt, s, a, b, i, j)
            BY <2>1 DEF Solves
      <2>3. EditsOf(u, uu, r, a, b, i, j) = EditsOf(t, tt, s, a, b, i, j)
            <3>1. u = t
                  BY <1>3
            <3>2. CASE i > 1
                  BY <1>3, <3>1, <3>2, Zenon DEF EditsOf
            <3>3. CASE ~(i > 1)
                  BY <1>3, <3>1, <3>3, Zenon DEF EditsOf
            <3> QED
                BY <3>2, <3>3
      <2> QED
          BY <2>2, <2>3
<1>4. 0 \in S
      BY <1>2
<1>5. ASSUME NEW j \in Nat, j \in S PROVE j + 1 \in S
      <2> SUFFICES ASSUME j + 1 <= n PROVE r[j + 1] = s[j + 1]
          OBVIOUS
      <2>1. PICK k \in 1..n : k = j + 1 /\ k - 1 = j
            OBVIOUS
      <2>2. r[k - 1] = s[k - 1]
            BY <1>5, <2>1
      <2>3. r[k] = s[k]
            BY <1>2, <1>3, <2>2
      <2> QED
          BY <2>1, <2>3
<1> HIDE DEF S
<1>6. \A j \in Nat : j \in S
      BY <1>4, <1>5, NatBySet
<1>7. \A j \in 0..n : r[j] = s[j]
      BY <1>6 DEF S
<1> QED
    BY <1>1, <1>7

LEMMA RowExists ==
  ASSUME NEW a, NEW b, Len(b) \in Nat, NEW i \in Nat, NEW u, NEW uu,
         i > 0 => u \in Widths(b), i > 1 => uu \in Widths(b)
  PROVE  \E r \in Widths(b) : Solves(r, u, uu, a, b, i)
<1> DEFINE n == Len(b)
           E(v, j) == LET plain == Least(Least(u[j], v) + 1, u[j - 1] + IF a[i] = b[j] THEN 0 ELSE 1)
                          swapped == i > 1 /\ j > 1 /\ a[i] = b[j - 1] /\ a[i - 1] = b[j]
                      IN IF swapped THEN Least(plain, SwapCost(a, b, i, j, uu[j - 2])) ELSE plain
<1>1. CASE i = 0
      <2> DEFINE r == [j \in 0..n |-> i + j]
      <2>1. r \in Widths(b)
            BY DEF Widths
      <2>2. Solves(r, u, uu, a, b, i)
            BY <1>1 DEF Solves
      <2> QED
          BY <2>1, <2>2
<1>2. CASE i # 0
      <2>1. \A j \in 1..n, v \in Nat : E(v, j) \in Nat
            <3> TAKE j \in 1..n, v \in Nat
            <3>1. u[j] \in Nat /\ u[j - 1] \in Nat
                  BY <1>2 DEF Widths
            <3>2. Least(Least(u[j], v) + 1, u[j - 1] + IF a[i] = b[j] THEN 0 ELSE 1) \in Nat
                  BY <3>1 DEF Least
            <3>3. ASSUME i > 1, j > 1 PROVE SwapCost(a, b, i, j, uu[j - 2]) \in Nat
                  <4>1. j - 2 \in 0..n /\ uu \in [0..n -> Nat]
                        BY <3>3 DEF Widths
                  <4>2. uu[j - 2] \in Nat
                        BY <4>1
                  <4> QED
                      BY <4>2 DEF SwapCost
            <3> QED
                BY <3>2, <3>3 DEF Least
      <2> DEFINE F == [j \in 1..n |-> [v \in Nat |-> E(v, j)]]
      <2>2. F \in [1..n -> [Nat -> Nat]]
            <3> HIDE DEF E
            <3> QED
                BY <2>1
      <2>3. PICK r : Recurs(r, n, Nat, i, F)
            <3> HIDE DEF F
            <3> QED
                BY <2>2, RecursionExists
      <2>4. r \in [0..n -> Nat] /\ r[0] = i /\ \A j \in 1..n : r[j] = E(r[j - 1], j)
            <3> HIDE DEF E
            <3>1. r \in [0..n -> Nat] /\ r[0] = i /\ \A j \in 1..n : r[j] = F[j][r[j - 1]]
                  BY <2>3 DEF Recurs
            <3>2. \A j \in 1..n : r[j - 1] \in Nat
                  BY <3>1
            <3> QED
                BY <3>1, <3>2
      <2>5. \A j \in 1..n : E(r[j - 1], j) = EditsOf(u, uu, r, a, b, i, j)
            BY DEF EditsOf
      <2> HIDE DEF E
      <2>6. ASSUME NEW j \in 0..n PROVE r[j] = IF i = 0 \/ j = 0 THEN i + j ELSE EditsOf(u, uu, r, a, b, i, j)
            <3>1. CASE j = 0
                  BY <2>4, <3>1
            <3>2. CASE j # 0
                  <4>1. j \in 1..n
                        BY <3>2
                  <4> QED
                      BY <1>2, <2>4, <2>5, <3>2, <4>1
            <3> QED
                BY <3>1, <3>2
      <2>7. Solves(r, u, uu, a, b, i)
            BY <2>4, <2>6 DEF Solves
      <2> QED
          BY <2>4, <2>7 DEF Widths
<1> QED
    BY <1>1, <1>2

LEMMA RowIs ==
  ASSUME NEW dp, NEW a, NEW b, Len(b) \in Nat, NEW i \in Nat,
         i > 0 => dp[i - 1] \in Widths(b), i > 1 => dp[i - 2] \in Widths(b)
  PROVE  Row(dp, a, b, i) \in Widths(b) /\ Solves(Row(dp, a, b, i), dp[i - 1], dp[i - 2], a, b, i)
<1> DEFINE u == dp[i - 1]
           uu == dp[i - 2]
           c == CHOOSE row : Solves(row, u, uu, a, b, i)
<1>1. PICK r \in Widths(b) : Solves(r, u, uu, a, b, i)
      BY RowExists
<1>2. Row(dp, a, b, i) = c
      BY RowIsChosen
<1>3. Solves(c, u, uu, a, b, i)
      BY <1>1
<1> HIDE DEF c, u, uu
<1>4. c = r
      BY <1>1, <1>3, OneRow
<1> QED
    BY <1>1, <1>2, <1>3, <1>4 DEF u, uu

\* The table of two words.
IsTable(dp, a, b) ==
  /\ dp \in [0..Len(a) -> Widths(b)]
  /\ \A i \in 0..Len(a) : Solves(dp[i], dp[i - 1], dp[i - 2], a, b, i)

LEMMA TableIs ==
  ASSUME NEW a, NEW b, Len(a) \in Nat, Len(b) \in Nat
  PROVE  \E dp : IsTable(dp, a, b) /\ DamerauLevenshtein(a, b) = dp[Len(a)][Len(b)]
<1> DEFINE m == Len(a)
           V == Widths(b)
           H == [0..m -> V]
           F == [i \in 0..m |-> [h \in H |-> Row(h, a, b, i)]]
           zero == [j \in 0..Len(b) |-> 0]
           Defines(f) == f = [i \in 0..m |-> Row(f, a, b, i)]
           dp == CHOOSE f : Defines(f)
<1>1. zero \in V
      BY DEF Widths
<1> HIDE DEF zero
<1>2. ASSUME NEW h \in H, NEW i \in 0..m
      PROVE  Row(h, a, b, i) \in V /\ Solves(Row(h, a, b, i), h[i - 1], h[i - 2], a, b, i)
      <2>1. i > 0 => h[i - 1] \in V
            OBVIOUS
      <2>2. i > 1 => h[i - 2] \in V
            OBVIOUS
      <2> QED
          BY <2>1, <2>2, RowIs
<1>3. F \in [0..m -> [H -> V]]
      BY <1>2
<1>4. ASSUME NEW i \in 0..m, NEW g \in H, NEW h \in H, \A k \in 0..i - 1 : g[k] = h[k]
      PROVE  F[i][g] = F[i][h]
      <2>1. i > 0 => g[i - 1] = h[i - 1]
            <3>1. i > 0 => i - 1 \in 0..i - 1
                  OBVIOUS
            <3> QED
                BY <1>4, <3>1
      <2>2. i > 1 => g[i - 2] = h[i - 2]
            <3>1. i > 1 => i - 2 \in 0..i - 1
                  OBVIOUS
            <3> QED
                BY <1>4, <3>1
      <2>3. Row(g, a, b, i) = Row(h, a, b, i)
            BY <1>2, <2>1, <2>2, OneRow
      <2> QED
          BY <2>3
<1>5. PICK g \in H : \A i \in 0..m : g[i] = F[i][g]
      <2> HIDE DEF F, V, m
      <2>1. m \in Nat
            BY DEF m
      <2>2. F \in [0..m -> [[0..m -> V] -> V]]
            BY <1>3
      <2>3. OfEarlier(F, m, V)
            BY <1>4 DEF OfEarlier
      <2>4. PICK g : IsCourse(g, m, V, F)
            <3> HIDE DEF H
            <3> QED
                BY <1>1, <2>1, <2>2, <2>3, CourseExists
      <2> QED
          BY <2>4 DEF IsCourse
<1>6. Defines(g)
      <2>1. \A i \in 0..m : g[i] = Row(g, a, b, i)
            BY <1>5
      <2>2. g = [i \in 0..m |-> g[i]]
            OBVIOUS
      <2> QED
          BY <2>1, <2>2
<1>7. Defines(dp)
      <2> HIDE DEF Defines
      <2> QED
          BY <1>6
<1>8. DamerauLevenshtein(a, b) = dp[m][Len(b)]
      BY DEF DamerauLevenshtein
<1> HIDE DEF dp
<1>9. \A i \in 0..m : dp[i] = Row(dp, a, b, i)
      BY <1>7
<1> DEFINE S == {i \in Nat : i <= m => \A k \in 0..i : dp[k] \in V}
<1>10. ASSUME NEW i \in 0..m, \A k \in 0..i - 1 : dp[k] \in V
       PROVE  dp[i] \in V /\ Solves(dp[i], dp[i - 1], dp[i - 2], a, b, i)
       <2>1. i > 0 => dp[i - 1] \in V
             <3>1. i > 0 => i - 1 \in 0..i - 1
                   OBVIOUS
             <3> QED
                 BY <1>10, <3>1
       <2>2. i > 1 => dp[i - 2] \in V
             <3>1. i > 1 => i - 2 \in 0..i - 1
                   OBVIOUS
             <3> QED
                 BY <1>10, <3>1
       <2> QED
           BY <1>9, <2>1, <2>2, RowIs
<1>11. 0 \in S
       <2>1. 0 \in 0..m /\ \A k \in 0..0 - 1 : FALSE
             OBVIOUS
       <2>2. dp[0] \in V
             BY <1>10, <2>1
       <2> QED
           BY <2>2
<1>12. ASSUME NEW i \in Nat, i \in S PROVE i + 1 \in S
       <2> SUFFICES ASSUME i + 1 <= m, NEW k \in 0..i + 1 PROVE dp[k] \in V
           OBVIOUS
       <2>1. \A l \in 0..k - 1 : l \in 0..i
             OBVIOUS
       <2>2. \A l \in 0..k - 1 : dp[l] \in V
             BY <1>12, <2>1
       <2>3. k \in 0..m
             OBVIOUS
       <2> QED
           BY <1>10, <2>2, <2>3
<1> HIDE DEF S, V
<1>13. m \in S
       BY <1>11, <1>12, NatBySet
<1>14. \A k \in 0..m : dp[k] \in V
       BY <1>13 DEF S
<1>15. dp \in H
       BY <1>7, <1>14
<1>16. ASSUME NEW i \in 0..m PROVE Solves(dp[i], dp[i - 1], dp[i - 2], a, b, i)
       <2>1. \A k \in 0..i - 1 : k \in 0..m
             OBVIOUS
       <2> QED
           BY <1>10, <1>14, <2>1
<1>17. IsTable(dp, a, b)
       BY <1>15, <1>16 DEF IsTable, V
<1> QED
    BY <1>8, <1>17

\* What makes a cell 0, and what makes it at most 1.
Swapped(a, b, i, j) == i > 1 /\ j > 1 /\ a[i] = b[j - 1] /\ a[i - 1] = b[j]

LEMMA CellIs ==
  ASSUME NEW a, NEW b, Len(a) \in Nat, Len(b) \in Nat, NEW dp, IsTable(dp, a, b), NEW i \in 0..Len(a), NEW j \in 0..Len(b)
  PROVE  /\ dp[i][j] \in Nat
         /\ i = 0 \/ j = 0 => dp[i][j] = i + j
         /\ i > 0 /\ j > 0 =>
              /\ dp[i][j] = 0 <=> a[i] = b[j] /\ dp[i - 1][j - 1] = 0
              /\ dp[i][j] <= 1 <=>
                   \/ dp[i - 1][j] = 0 \/ dp[i][j - 1] = 0 \/ dp[i - 1][j - 1] = 0
                   \/ a[i] = b[j] /\ dp[i - 1][j - 1] <= 1
                   \/ Swapped(a, b, i, j) /\ dp[i - 2][j - 2] = 0
<1>1. \A k \in 0..Len(a), l \in 0..Len(b) : dp[k][l] \in Nat
      BY DEF IsTable, Widths
<1>2. dp[i][j] = IF i = 0 \/ j = 0 THEN i + j ELSE EditsOf(dp[i - 1], dp[i - 2], dp[i], a, b, i, j)
      BY DEF IsTable, Solves
<1>3. CASE i > 0 /\ j > 0
      <2> DEFINE x == dp[i - 1][j]
                 y == dp[i][j - 1]
                 z == dp[i - 1][j - 1]
                 w == dp[i - 2][j - 2]
      <2>1. x \in Nat /\ y \in Nat /\ z \in Nat
            <3>1. i - 1 \in 0..Len(a) /\ j - 1 \in 0..Len(b)
                  BY <1>3
            <3> QED
                BY <1>1, <3>1
      <2>2. Swapped(a, b, i, j) => w \in Nat
            <3>1. Swapped(a, b, i, j) => i - 2 \in 0..Len(a) /\ j - 2 \in 0..Len(b)
                  BY DEF Swapped
            <3> QED
                BY <1>1, <3>1
      <2>3. dp[i][j] = LET plain == Least(Least(x, y) + 1, z + IF a[i] = b[j] THEN 0 ELSE 1)
                       IN IF Swapped(a, b, i, j) THEN Least(plain, w + 1) ELSE plain
            BY <1>2, <1>3 DEF EditsOf, Swapped, SwapCost
      <2> HIDE DEF x, y, z, w
      <2>4. dp[i][j] \in Nat
            BY <1>1
      <2>5. /\ dp[i][j] = 0 <=> a[i] = b[j] /\ z = 0
            /\ dp[i][j] <= 1 <=> x = 0 \/ y = 0 \/ z = 0 \/ (a[i] = b[j] /\ z <= 1) \/ (Swapped(a, b, i, j) /\ w = 0)
            <3>1. CASE a[i] = b[j]
                  BY <2>1, <2>2, <2>3, <3>1 DEF Least
            <3>2. CASE a[i] # b[j]
                  BY <2>1, <2>2, <2>3, <3>2 DEF Least
            <3> QED
                BY <3>1, <3>2
      <2> QED
          BY <1>3, <2>4, <2>5 DEF x, y, z, w
<1>4. CASE ~(i > 0 /\ j > 0)
      BY <1>1, <1>2, <1>4
<1> QED
    BY <1>3, <1>4

\* The first i symbols of a and the first j of b are the same, or one slip apart.
Same(a, b, i, j) == i = j /\ \A k \in 1..i : a[k] = b[k]
Left(a, b, i, j) ==
  i = j + 1 /\ \E p \in 1..i : (\A k \in 1..p - 1 : a[k] = b[k]) /\ (\A k \in p + 1..i : a[k] = b[k - 1])
Changed(a, b, i, j) == i = j /\ \E p \in 1..i : \A k \in (1..i) \ {p} : a[k] = b[k]
Twisted(a, b, i, j) ==
  i = j /\ \E p \in 1..i - 1 :
    a[p] = b[p + 1] /\ a[p + 1] = b[p] /\ \A k \in (1..i) \ {p, p + 1} : a[k] = b[k]
OneSlip(a, b, i, j) == Left(a, b, i, j) \/ Left(b, a, j, i) \/ Changed(a, b, i, j) \/ Twisted(a, b, i, j)

LEMMA ZeroIsSame ==
  ASSUME NEW a, NEW b, Len(a) \in Nat, Len(b) \in Nat, NEW dp, IsTable(dp, a, b)
  PROVE  \A i \in 0..Len(a), j \in 0..Len(b) : dp[i][j] = 0 <=> Same(a, b, i, j)
<1> DEFINE m == Len(a)
           n == Len(b)
           S == {i \in Nat : i <= m => \A j \in 0..n : dp[i][j] = 0 <=> Same(a, b, i, j)}
<1>1. 0 \in S
      <2> SUFFICES ASSUME NEW j \in 0..n PROVE dp[0][j] = 0 <=> Same(a, b, 0, j)
          OBVIOUS
      <2>1. dp[0][j] = 0 + j
            BY CellIs
      <2> QED
          BY <2>1 DEF Same
<1>2. ASSUME NEW i \in Nat, i \in S PROVE i + 1 \in S
      <2> SUFFICES ASSUME i + 1 <= m, NEW j \in 0..n PROVE dp[i + 1][j] = 0 <=> Same(a, b, i + 1, j)
          OBVIOUS
      <2>1. PICK h \in 0..m : h = i + 1 /\ h - 1 = i /\ h > 0
            OBVIOUS
      <2>2. CASE j = 0
            <3>1. dp[h][j] = h + j
                  BY <2>2, CellIs
            <3> QED
                BY <2>1, <2>2, <3>1 DEF Same
      <2>3. CASE j # 0
            <3>1. dp[h][j] = 0 <=> a[h] = b[j] /\ dp[h - 1][j - 1] = 0
                  BY <2>1, <2>3, CellIs
            <3>2. dp[h - 1][j - 1] = 0 <=> Same(a, b, h - 1, j - 1)
                  <4>1. j - 1 \in 0..n
                        BY <2>3
                  <4> QED
                      BY <1>2, <2>1, <4>1
            <3>3. Same(a, b, h, j) <=> a[h] = b[j] /\ Same(a, b, h - 1, j - 1)
                  BY <2>1, <2>3 DEF Same
            <3> QED
                BY <2>1, <3>1, <3>2, <3>3
      <2> QED
          BY <2>2, <2>3
<1> HIDE DEF S
<1>3. \A i \in Nat : i \in S
      BY <1>1, <1>2, NatBySet
<1> QED
    BY <1>3 DEF S

LEMMA LeftEnds ==
  ASSUME NEW a, NEW b, NEW i \in Nat \ {0}, NEW j \in Nat \ {0}
  PROVE  Left(a, b, i, j) <=> Same(a, b, i - 1, j) \/ (a[i] = b[j] /\ Left(a, b, i - 1, j - 1))
<1>1. ASSUME Left(a, b, i, j) PROVE Same(a, b, i - 1, j) \/ (a[i] = b[j] /\ Left(a, b, i - 1, j - 1))
      <2>1. PICK p \in 1..i : (\A k \in 1..p - 1 : a[k] = b[k]) /\ (\A k \in p + 1..i : a[k] = b[k - 1])
            BY <1>1 DEF Left
      <2>2. i = j + 1
            BY <1>1 DEF Left
      <2>3. CASE p = i
            BY <2>1, <2>2, <2>3 DEF Same
      <2>4. CASE p # i
            <3>1. a[i] = b[i - 1] /\ i - 1 = j
                  BY <2>1, <2>2, <2>4
            <3>2. p \in 1..i - 1 /\ \A k \in p + 1..i - 1 : a[k] = b[k - 1]
                  BY <2>1, <2>4
            <3>3. i - 1 = j - 1 + 1 /\ \A k \in 1..p - 1 : a[k] = b[k]
                  BY <2>1, <2>2
            <3>4. Left(a, b, i - 1, j - 1)
                  BY <3>2, <3>3, Zenon DEF Left
            <3> QED
                BY <3>1, <3>4
      <2> QED
          BY <2>3, <2>4
<1>2. ASSUME Same(a, b, i - 1, j) PROVE Left(a, b, i, j)
      <2>1. i \in 1..i /\ i = j + 1 /\ (\A k \in 1..i - 1 : a[k] = b[k]) /\ (\A k \in i + 1..i : a[k] = b[k - 1])
            BY <1>2 DEF Same
      <2> QED
          BY <2>1 DEF Left
<1>3. ASSUME a[i] = b[j], Left(a, b, i - 1, j - 1) PROVE Left(a, b, i, j)
      <2>1. PICK p \in 1..i - 1 : (\A k \in 1..p - 1 : a[k] = b[k]) /\ (\A k \in p + 1..i - 1 : a[k] = b[k - 1])
            BY <1>3 DEF Left
      <2>2. i = j + 1 /\ i - 1 = j
            BY <1>3 DEF Left
      <2>3. \A k \in p + 1..i : a[k] = b[k - 1]
            <3> TAKE k \in p + 1..i
            <3>1. k = i \/ k \in p + 1..i - 1
                  OBVIOUS
            <3> QED
                BY <1>3, <2>1, <2>2, <3>1
      <2> QED
          BY <2>1, <2>2, <2>3 DEF Left
<1> QED
    BY <1>1, <1>2, <1>3

LEMMA ChangedEnds ==
  ASSUME NEW a, NEW b, NEW i \in Nat \ {0}, NEW j \in Nat \ {0}
  PROVE  Changed(a, b, i, j) <=> Same(a, b, i - 1, j - 1) \/ (a[i] = b[j] /\ Changed(a, b, i - 1, j - 1))
<1>1. ASSUME Changed(a, b, i, j) PROVE Same(a, b, i - 1, j - 1) \/ (a[i] = b[j] /\ Changed(a, b, i - 1, j - 1))
      <2>1. PICK p \in 1..i : \A k \in (1..i) \ {p} : a[k] = b[k]
            BY <1>1 DEF Changed
      <2>2. i = j
            BY <1>1 DEF Changed
      <2>3. CASE p = i
            BY <2>1, <2>2, <2>3 DEF Same
      <2>4. CASE p # i
            <3>1. p \in 1..i - 1 /\ a[i] = b[i]
                  BY <2>1, <2>4
            <3>2. \A k \in (1..i - 1) \ {p} : a[k] = b[k]
                  BY <2>1
            <3> QED
                BY <2>2, <3>1, <3>2 DEF Changed
      <2> QED
          BY <2>3, <2>4
<1>2. ASSUME Same(a, b, i - 1, j - 1) PROVE Changed(a, b, i, j)
      <2>1. i \in 1..i /\ i = j /\ (\A k \in (1..i) \ {i} : a[k] = b[k])
            BY <1>2 DEF Same
      <2> QED
          BY <2>1 DEF Changed
<1>3. ASSUME a[i] = b[j], Changed(a, b, i - 1, j - 1) PROVE Changed(a, b, i, j)
      <2>1. PICK p \in 1..i - 1 : \A k \in (1..i - 1) \ {p} : a[k] = b[k]
            BY <1>3 DEF Changed
      <2>2. i = j
            BY <1>3 DEF Changed
      <2>3. \A k \in (1..i) \ {p} : a[k] = b[k]
            <3> TAKE k \in (1..i) \ {p}
            <3>1. k = i \/ k \in (1..i - 1) \ {p}
                  OBVIOUS
            <3> QED
                BY <1>3, <2>1, <2>2, <3>1
      <2> QED
          BY <2>1, <2>2, <2>3 DEF Changed
<1> QED
    BY <1>1, <1>2, <1>3

LEMMA TwistedEnds ==
  ASSUME NEW a, NEW b, NEW i \in Nat \ {0}, NEW j \in Nat \ {0}
  PROVE  Twisted(a, b, i, j) <=> \/ Swapped(a, b, i, j) /\ Same(a, b, i - 2, j - 2)
                                 \/ a[i] = b[j] /\ Twisted(a, b, i - 1, j - 1)
<1>1. ASSUME Twisted(a, b, i, j)
      PROVE  (Swapped(a, b, i, j) /\ Same(a, b, i - 2, j - 2)) \/ (a[i] = b[j] /\ Twisted(a, b, i - 1, j - 1))
      <2>1. PICK p \in 1..i - 1 : a[p] = b[p + 1] /\ a[p + 1] = b[p] /\ \A k \in (1..i) \ {p, p + 1} : a[k] = b[k]
            BY <1>1 DEF Twisted
      <2>2. i = j
            BY <1>1 DEF Twisted
      <2>3. CASE p = i - 1
            <3>1. p + 1 = i /\ i > 1
                  BY <2>3
            <3>2. Swapped(a, b, i, j)
                  BY <2>1, <2>2, <2>3, <3>1 DEF Swapped
            <3>3. \A k \in 1..i - 2 : k \in (1..i) \ {p, p + 1}
                  BY <2>3
            <3>4. Same(a, b, i - 2, j - 2)
                  BY <2>1, <2>2, <3>3 DEF Same
            <3> QED
                BY <3>2, <3>4
      <2>4. CASE p # i - 1
            <3>1. p \in 1..i - 1 - 1 /\ a[i] = b[i]
                  BY <2>1, <2>4
            <3>2. \A k \in (1..i - 1) \ {p, p + 1} : a[k] = b[k]
                  BY <2>1
            <3> QED
                BY <2>1, <2>2, <3>1, <3>2 DEF Twisted
      <2> QED
          BY <2>3, <2>4
<1>2. ASSUME Swapped(a, b, i, j), Same(a, b, i - 2, j - 2) PROVE Twisted(a, b, i, j)
      <2>1. PICK p \in 1..i - 1 : p = i - 1 /\ p + 1 = i
            BY <1>2 DEF Swapped
      <2>2. i = j /\ j - 1 = p
            BY <1>2, <2>1 DEF Same
      <2>3. a[p] = b[p + 1] /\ a[p + 1] = b[p]
            BY <1>2, <2>1, <2>2 DEF Swapped
      <2>4. \A k \in (1..i) \ {p, p + 1} : k \in 1..i - 2
            BY <2>1
      <2>5. \A k \in (1..i) \ {p, p + 1} : a[k] = b[k]
            BY <1>2, <2>4 DEF Same
      <2> QED
          BY <2>2, <2>3, <2>5 DEF Twisted
<1>3. ASSUME a[i] = b[j], Twisted(a, b, i - 1, j - 1) PROVE Twisted(a, b, i, j)
      <2>1. PICK p \in 1..i - 1 - 1 : a[p] = b[p + 1] /\ a[p + 1] = b[p] /\ \A k \in (1..i - 1) \ {p, p + 1} : a[k] = b[k]
            BY <1>3 DEF Twisted
      <2>2. i = j /\ p \in 1..i - 1
            BY <1>3 DEF Twisted
      <2>3. \A k \in (1..i) \ {p, p + 1} : a[k] = b[k]
            <3> TAKE k \in (1..i) \ {p, p + 1}
            <3>1. k = i \/ k \in (1..i - 1) \ {p, p + 1}
                  OBVIOUS
            <3> QED
                BY <1>3, <2>1, <2>2, <3>1
      <2> QED
          BY <2>1, <2>2, <2>3 DEF Twisted
<1> QED
    BY <1>1, <1>2, <1>3

LEMMA SameEnds ==
  ASSUME NEW a, NEW b, NEW i \in Nat \ {0}, NEW j \in Nat \ {0}
  PROVE  /\ Same(a, b, i, j) <=> a[i] = b[j] /\ Same(a, b, i - 1, j - 1)
         /\ Same(b, a, j, i) <=> Same(a, b, i, j)
         /\ Same(b, a, j - 1, i) <=> Same(a, b, i, j - 1)
  BY DEF Same

LEMMA OneIsSlip ==
  ASSUME NEW a, NEW b, Len(a) \in Nat, Len(b) \in Nat, NEW dp, IsTable(dp, a, b)
  PROVE  \A i \in 0..Len(a), j \in 0..Len(b) : dp[i][j] <= 1 <=> Same(a, b, i, j) \/ OneSlip(a, b, i, j)
<1> DEFINE m == Len(a)
           n == Len(b)
           Good(i, j) == dp[i][j] <= 1 <=> Same(a, b, i, j) \/ OneSlip(a, b, i, j)
           S == {i \in Nat : i <= m => \A j \in 0..n : Good(i, j)}
<1>1. ASSUME NEW i \in 0..m, NEW j \in 0..n, i = 0 \/ j = 0 PROVE Good(i, j)
      <2>1. dp[i][j] = i + j
            BY <1>1, CellIs
      <2>2. Same(a, b, i, j) <=> i + j = 0
            BY <1>1 DEF Same
      <2>3. Left(a, b, i, j) <=> i = 1 /\ j = 0
            <3>1. i = 1 /\ j = 0 => 1 \in 1..i /\ (\A k \in 1..1 - 1 : a[k] = b[k]) /\ (\A k \in 1 + 1..i : a[k] = b[k - 1])
                  OBVIOUS
            <3> QED
                BY <1>1, <3>1 DEF Left
      <2>4. Left(b, a, j, i) <=> i = 0 /\ j = 1
            <3>1. j = 1 /\ i = 0 => 1 \in 1..j /\ (\A k \in 1..1 - 1 : b[k] = a[k]) /\ (\A k \in 1 + 1..j : b[k] = a[k - 1])
                  OBVIOUS
            <3> QED
                BY <1>1, <3>1 DEF Left
      <2>5. ~Changed(a, b, i, j) /\ ~Twisted(a, b, i, j)
            BY <1>1 DEF Changed, Twisted
      <2> QED
          BY <1>1, <2>1, <2>2, <2>3, <2>4, <2>5 DEF OneSlip
<1>2. ASSUME NEW i \in 1..m, NEW j \in 1..n, Good(i - 1, j - 1) PROVE Good(i, j)
      <2>1. i \in 0..m /\ j \in 0..n /\ i - 1 \in 0..m /\ j - 1 \in 0..n /\ i > 0 /\ j > 0
            /\ i \in Nat \ {0} /\ j \in Nat \ {0}
            OBVIOUS
      <2>2. dp[i][j] <= 1 <=>
              \/ dp[i - 1][j] = 0 \/ dp[i][j - 1] = 0 \/ dp[i - 1][j - 1] = 0
              \/ a[i] = b[j] /\ dp[i - 1][j - 1] <= 1
              \/ Swapped(a, b, i, j) /\ dp[i - 2][j - 2] = 0
            BY <2>1, CellIs
      <2>3. /\ dp[i - 1][j] = 0 <=> Same(a, b, i - 1, j)
            /\ dp[i][j - 1] = 0 <=> Same(a, b, i, j - 1)
            /\ dp[i - 1][j - 1] = 0 <=> Same(a, b, i - 1, j - 1)
            BY <2>1, ZeroIsSame
      <2>4. Swapped(a, b, i, j) => (dp[i - 2][j - 2] = 0 <=> Same(a, b, i - 2, j - 2))
            <3>1. Swapped(a, b, i, j) => i - 2 \in 0..m /\ j - 2 \in 0..n
                  BY DEF Swapped
            <3> QED
                BY <3>1, ZeroIsSame
      <2>5. Left(a, b, i, j) <=> Same(a, b, i - 1, j) \/ (a[i] = b[j] /\ Left(a, b, i - 1, j - 1))
            BY <2>1, LeftEnds
      <2>6. Left(b, a, j, i) <=> Same(a, b, i, j - 1) \/ (a[i] = b[j] /\ Left(b, a, j - 1, i - 1))
            <3>1. Left(b, a, j, i) <=> Same(b, a, j - 1, i) \/ (b[j] = a[i] /\ Left(b, a, j - 1, i - 1))
                  BY <2>1, LeftEnds
            <3>2. Same(b, a, j - 1, i) <=> Same(a, b, i, j - 1)
                  BY <2>1, SameEnds
            <3> QED
                BY <3>1, <3>2
      <2>7. Changed(a, b, i, j) <=> Same(a, b, i - 1, j - 1) \/ (a[i] = b[j] /\ Changed(a, b, i - 1, j - 1))
            BY <2>1, ChangedEnds
      <2>8. Twisted(a, b, i, j) <=> \/ Swapped(a, b, i, j) /\ Same(a, b, i - 2, j - 2)
                                    \/ a[i] = b[j] /\ Twisted(a, b, i - 1, j - 1)
            BY <2>1, TwistedEnds
      <2>9. Same(a, b, i, j) <=> a[i] = b[j] /\ Same(a, b, i - 1, j - 1)
            BY <2>1, SameEnds
      <2> QED
          BY <1>2, <2>2, <2>3, <2>4, <2>5, <2>6, <2>7, <2>8, <2>9, Zenon DEF OneSlip
<1> HIDE DEF Good
<1>3. 0 \in S
      <2>1. 0 \in 0..m
            OBVIOUS
      <2> QED
          BY <1>1, <2>1
<1>4. ASSUME NEW i \in Nat, i \in S PROVE i + 1 \in S
      <2> SUFFICES ASSUME i + 1 <= m, NEW j \in 0..n PROVE Good(i + 1, j)
          OBVIOUS
      <2>1. PICK h \in 1..m : h = i + 1 /\ h - 1 = i
            OBVIOUS
      <2>2. CASE j = 0
            <3>1. h \in 0..m
                  OBVIOUS
            <3> QED
                BY <1>1, <2>1, <2>2, <3>1
      <2>3. CASE j # 0
            <3>1. j \in 1..n /\ j - 1 \in 0..n
                  BY <2>3
            <3>2. Good(h - 1, j - 1)
                  BY <1>4, <2>1, <3>1
            <3> QED
                BY <1>2, <2>1, <3>1, <3>2
      <2> QED
          BY <2>2, <2>3
<1> HIDE DEF S
<1>5. \A i \in Nat : i \in S
      BY <1>3, <1>4, NatBySet
<1> QED
    BY <1>5 DEF S, Good


LEMMA WithoutIs ==
  ASSUME NEW T, NEW w \in Seq(T), NEW i \in DOMAIN w
  PROVE  /\ Without(w, i) \in Seq(T) /\ Len(Without(w, i)) = Len(w) - 1
         /\ \A k \in 1..Len(w) - 1 : Without(w, i)[k] = IF k < i THEN w[k] ELSE w[k + 1]
<1> DEFINE s == SubSeq(w, 1, i - 1)
           t == SubSeq(w, i + 1, Len(w))
<1>1. Len(w) \in Nat /\ i \in 1..Len(w)
      OBVIOUS
<1>2. s \in Seq(T) /\ Len(s) = i - 1 /\ \A k \in 1..i - 1 : s[k] = w[k]
      BY <1>1
<1>3. t \in Seq(T) /\ Len(t) = Len(w) - i /\ \A k \in 1..Len(w) - i : t[k] = w[i + k]
      BY <1>1
<1> HIDE DEF s, t
<1>4. s \o t \in Seq(T) /\ Len(s \o t) = Len(w) - 1
      BY <1>1, <1>2, <1>3
<1>5. ASSUME NEW k \in 1..Len(w) - 1 PROVE (s \o t)[k] = IF k < i THEN w[k] ELSE w[k + 1]
      <2>1. (s \o t)[k] = IF k <= Len(s) THEN s[k] ELSE t[k - Len(s)]
            <3>1. Len(s) + Len(t) = Len(w) - 1
                  BY <1>1, <1>2, <1>3
            <3>2. \A m \in 1..Len(s) + Len(t) : (s \o t)[m] = IF m <= Len(s) THEN s[m] ELSE t[m - Len(s)]
                  BY <1>2, <1>3, ConcatProperties
            <3> QED
                BY <3>1, <3>2
      <2>2. CASE k < i
            BY <1>1, <1>2, <2>1, <2>2
      <2>3. CASE ~(k < i)
            <3>1. k - (i - 1) \in 1..Len(w) - i /\ i + (k - (i - 1)) = k + 1
                  BY <1>1, <2>3
            <3>2. t[k - (i - 1)] = w[k + 1]
                  BY <1>3, <3>1
            <3> QED
                BY <1>1, <1>2, <2>1, <2>3, <3>2
      <2> QED
          BY <2>2, <2>3
<1> QED
    BY <1>4, <1>5 DEF Without, s, t

LEMMA LeftOut ==
  ASSUME NEW T, NEW w \in Seq(T), NEW c \in Seq(T)
  PROVE  (\E i \in DOMAIN w : Without(w, i) = c) <=> Left(w, c, Len(w), Len(c))
<1> DEFINE m == Len(w)
           n == Len(c)
<1>1. m \in Nat /\ n \in Nat /\ DOMAIN w = 1..m /\ DOMAIN c = 1..n
      OBVIOUS
<1>2. ASSUME NEW i \in DOMAIN w, Without(w, i) = c PROVE Left(w, c, m, n)
      <2>1. n = m - 1 /\ \A k \in 1..m - 1 : c[k] = IF k < i THEN w[k] ELSE w[k + 1]
            BY <1>2, WithoutIs
      <2>2. \A k \in 1..i - 1 : w[k] = c[k]
            BY <1>1, <2>1
      <2>3. \A k \in i + 1..m : w[k] = c[k - 1]
            <3> TAKE k \in i + 1..m
            <3>1. PICK l \in 1..m - 1 : l = k - 1 /\ l + 1 = k /\ ~(l < i)
                  BY <1>1
            <3> QED
                BY <2>1, <3>1
      <2> HIDE DEF m, n
      <2>4. m = n + 1 /\ i \in 1..m
            BY <1>1, <2>1
      <2> QED
          BY <2>2, <2>3, <2>4, Zenon DEF Left
<1>3. ASSUME Left(w, c, m, n) PROVE \E i \in DOMAIN w : Without(w, i) = c
      <2>1. m = n + 1
            BY <1>3 DEF Left
      <2>2. PICK p \in 1..m : (\A k \in 1..p - 1 : w[k] = c[k]) /\ (\A k \in p + 1..m : w[k] = c[k - 1])
            BY <1>3, Zenon DEF Left
      <2>3. /\ Without(w, p) \in Seq(T) /\ Len(Without(w, p)) = m - 1
            /\ \A k \in 1..m - 1 : Without(w, p)[k] = IF k < p THEN w[k] ELSE w[k + 1]
            BY <1>1, WithoutIs
      <2> HIDE DEF m, n
      <2>4. ASSUME NEW k \in 1..m - 1 PROVE Without(w, p)[k] = c[k]
            <3>1. CASE k < p
                  BY <1>1, <2>2, <2>3, <3>1
            <3>2. CASE ~(k < p)
                  <4>1. PICK l \in p + 1..m : l = k + 1 /\ l - 1 = k
                        BY <1>1, <3>2
                  <4>2. w[l] = c[l - 1]
                        BY <2>2
                  <4> QED
                      BY <2>3, <3>2, <4>1, <4>2
            <3> QED
                BY <3>1, <3>2
      <2>5. m - 1 = n
            BY <1>1, <2>1
      <2>6. Without(w, p) = c
            BY <2>3, <2>4, <2>5, SameSeq DEF n
      <2> QED
          BY <1>1, <2>6
<1> QED
    BY <1>2, <1>3

LEMMA OneChanged ==
  ASSUME NEW T, NEW w \in Seq(T), NEW c \in Seq(T), Len(w) = Len(c)
  PROVE  (\E i \in DOMAIN w : Without(w, i) = Without(c, i)) <=> Changed(w, c, Len(w), Len(c))
<1> DEFINE m == Len(w)
<1>1. m \in Nat /\ m = Len(c) /\ DOMAIN w = 1..m /\ DOMAIN c = 1..m
      OBVIOUS
<1>2. \A i \in 1..m :
        /\ Without(w, i) \in Seq(T) /\ Len(Without(w, i)) = m - 1
        /\ \A k \in 1..m - 1 : Without(w, i)[k] = IF k < i THEN w[k] ELSE w[k + 1]
        /\ Without(c, i) \in Seq(T) /\ Len(Without(c, i)) = m - 1
        /\ \A k \in 1..m - 1 : Without(c, i)[k] = IF k < i THEN c[k] ELSE c[k + 1]
      BY <1>1, WithoutIs
<1> HIDE DEF m
<1>3. ASSUME NEW i \in 1..m, Without(w, i) = Without(c, i) PROVE Changed(w, c, m, m)
      <2>1. ASSUME NEW k \in (1..m) \ {i} PROVE w[k] = c[k]
            <3>1. CASE k < i
                  <4>1. k \in 1..m - 1
                        BY <1>1, <3>1
                  <4> QED
                      BY <1>2, <1>3, <3>1, <4>1
            <3>2. CASE k > i
                  <4>1. PICK l \in 1..m - 1 : l + 1 = k /\ ~(l < i)
                        BY <1>1, <3>2
                  <4>2. Without(w, i)[l] = w[k] /\ Without(c, i)[l] = c[k]
                        BY <1>2, <4>1
                  <4> QED
                      BY <1>3, <4>2
            <3> QED
                BY <1>1, <3>1, <3>2
      <2> QED
          BY <2>1, Zenon DEF Changed
<1>4. ASSUME Changed(w, c, m, m) PROVE \E i \in 1..m : Without(w, i) = Without(c, i)
      <2>1. PICK p \in 1..m : \A k \in (1..m) \ {p} : w[k] = c[k]
            BY <1>4, Zenon DEF Changed
      <2>2. ASSUME NEW k \in 1..m - 1 PROVE Without(w, p)[k] = Without(c, p)[k]
            <3>1. CASE k < p
                  <4>1. k \in (1..m) \ {p}
                        BY <1>1, <3>1
                  <4> QED
                      BY <1>2, <2>1, <3>1, <4>1
            <3>2. CASE ~(k < p)
                  <4>1. PICK l \in (1..m) \ {p} : l = k + 1
                        BY <1>1, <3>2
                  <4>2. Without(w, p)[k] = w[l] /\ Without(c, p)[k] = c[l]
                        BY <1>2, <3>2, <4>1
                  <4> QED
                      BY <2>1, <4>2
            <3> QED
                BY <3>1, <3>2
      <2>3. Without(w, p) = Without(c, p)
            BY <1>2, <2>2, SameSeq
      <2> QED
          BY <2>3
<1> QED
    BY <1>1, <1>3, <1>4

LEMMA TwoSwapped ==
  ASSUME NEW T, NEW w \in Seq(T), NEW c \in Seq(T), Len(w) = Len(c)
  PROVE  (\E i \in 1..Len(w) - 1 : [w EXCEPT ![i] = w[i + 1], ![i + 1] = w[i]] = c) <=> Twisted(w, c, Len(w), Len(c))
<1> DEFINE m == Len(w)
           x(i) == [w EXCEPT ![i] = w[i + 1], ![i + 1] = w[i]]
<1>1. m \in Nat /\ m = Len(c) /\ DOMAIN w = 1..m /\ DOMAIN c = 1..m /\ w \in [1..m -> T] /\ c \in [1..m -> T]
      OBVIOUS
<1> HIDE DEF m
<1>2. ASSUME NEW i \in 1..m - 1
      PROVE  /\ x(i) \in [1..m -> T] /\ x(i)[i] = w[i + 1] /\ x(i)[i + 1] = w[i]
             /\ \A k \in (1..m) \ {i, i + 1} : x(i)[k] = w[k]
      BY <1>1
<1> HIDE DEF x
<1>3. ASSUME NEW i \in 1..m - 1, x(i) = c PROVE Twisted(w, c, m, m)
      <2>1. w[i] = c[i + 1] /\ w[i + 1] = c[i] /\ \A k \in (1..m) \ {i, i + 1} : w[k] = c[k]
            BY <1>2, <1>3
      <2> QED
          BY <2>1, Zenon DEF Twisted
<1>4. ASSUME Twisted(w, c, m, m) PROVE \E i \in 1..m - 1 : x(i) = c
      <2>1. PICK p \in 1..m - 1 : w[p] = c[p + 1] /\ w[p + 1] = c[p] /\ \A k \in (1..m) \ {p, p + 1} : w[k] = c[k]
            BY <1>4, Zenon DEF Twisted
      <2>2. \A k \in 1..m : x(p)[k] = c[k]
            BY <1>2, <2>1
      <2>3. x(p) = c
            BY <1>1, <1>2, <2>2
      <2> QED
          BY <2>3
<1> QED
    BY <1>1, <1>3, <1>4 DEF m, x

LEMMA SlipIs ==
  ASSUME NEW T, NEW w \in Seq(T), NEW c \in Seq(T)
  PROVE  Slip(w, c) <=> OneSlip(w, c, Len(w), Len(c))
<1>1. (\E i \in DOMAIN w : Without(w, i) = c) <=> Left(w, c, Len(w), Len(c))
      BY LeftOut
<1>2. (\E i \in DOMAIN c : Without(c, i) = w) <=> Left(c, w, Len(c), Len(w))
      BY LeftOut
<1>3. Len(w) = Len(c) => ((\E i \in DOMAIN w : Without(w, i) = Without(c, i)) <=> Changed(w, c, Len(w), Len(c)))
      BY OneChanged
<1>4. Len(w) = Len(c) => ((\E i \in 1..Len(w) - 1 : [w EXCEPT ![i] = w[i + 1], ![i + 1] = w[i]] = c)
                             <=> Twisted(w, c, Len(w), Len(c)))
      BY TwoSwapped
<1>5. (Changed(w, c, Len(w), Len(c)) \/ Twisted(w, c, Len(w), Len(c))) => Len(w) = Len(c)
      BY DEF Changed, Twisted
<1> QED
    BY <1>1, <1>2, <1>3, <1>4, <1>5, Zenon DEF Slip, OneSlip


\* The distance of two words.
LEMMA DistanceIs ==
  ASSUME NEW w, IsList(w), NEW c, IsList(c)
  PROVE  /\ DamerauLevenshtein(w, c) \in Nat
         /\ DamerauLevenshtein(w, c) = 0 <=> w = c
         /\ DamerauLevenshtein(w, c) <= 1 <=> w = c \/ Slip(w, c)
<1> DEFINE T == ToSet(w) \cup ToSet(c)
           m == Len(w)
           n == Len(c)
<1>1. w \in Seq(T) /\ c \in Seq(T)
      BY Lengths, SeqMonotonic
<1>2. m \in Nat /\ n \in Nat /\ m \in 0..m /\ n \in 0..n
      BY Lengths
<1>3. PICK dp : IsTable(dp, w, c) /\ DamerauLevenshtein(w, c) = dp[m][n]
      BY <1>2, TableIs
<1> HIDE DEF T
<1>4. Slip(w, c) <=> OneSlip(w, c, m, n)
      BY <1>1, SlipIs
<1>5. Same(w, c, m, n) <=> w = c
      BY <1>1, <1>2, SameSeq DEF Same
<1>6. dp[m][n] \in Nat
      BY <1>2, <1>3, CellIs
<1>7. dp[m][n] = 0 <=> Same(w, c, m, n)
      BY <1>2, <1>3, ZeroIsSame
<1>8. dp[m][n] <= 1 <=> Same(w, c, m, n) \/ OneSlip(w, c, m, n)
      BY <1>2, <1>3, OneIsSlip
<1> QED
    BY <1>3, <1>4, <1>5, <1>6, <1>7, <1>8

\* A slip changes the length by one at most.
LEMMA SlipLength ==
  ASSUME NEW w, IsList(w), NEW c, IsList(c), Slip(w, c)
  PROVE  Len(c) - Len(w) \in -1..1
<1>1. Len(w) \in Nat /\ Len(c) \in Nat
      BY Lengths
<1>2. w \in Seq(ToSet(w) \cup ToSet(c)) /\ c \in Seq(ToSet(w) \cup ToSet(c))
      BY Lengths, SeqMonotonic
<1>3. OneSlip(w, c, Len(w), Len(c))
      BY <1>2, SlipIs
<1>4. Len(w) = Len(c) + 1 \/ Len(c) = Len(w) + 1 \/ Len(w) = Len(c)
      BY <1>3, Zenon DEF OneSlip, Left, Changed, Twisted
<1> QED
    BY <1>1, <1>4

LEMMA SlipIsAnswered ==
  ASSUME NEW word, IsList(word), IsList(pathCommands), \A c \in ToSet(pathCommands) : IsList(c),
         word \notin ToSet(pathCommands), NEW slipped \in ToSet(pathCommands), Slip(word, slipped)
  PROVE  Slip(word, SuggestCommand(word))
<1> DEFINE far == MaxDistance(word)
           like == {i \in DOMAIN pathCommands : Len(pathCommands[i]) - Len(word) \in -far..far}
           near == {n \in {[distance |-> DamerauLevenshtein(word, pathCommands[i]), at |-> i] : i \in like} : n.distance \in 1..far}
           best == {n \in near : \A m \in near : n.distance < m.distance \/ (n.distance = m.distance /\ n.at <= m.at)}
           chosen == CHOOSE n \in best : TRUE
<1>1. Len(word) \in Nat /\ DOMAIN pathCommands = 1..Len(pathCommands) /\ Len(pathCommands) \in Nat
      BY Lengths
<1>2. far \in Nat /\ far >= 1
      BY <1>1 DEF MaxDistance
<1> HIDE DEF far
<1>3. \A i \in DOMAIN pathCommands : pathCommands[i] \in ToSet(pathCommands) /\ IsList(pathCommands[i]) /\ pathCommands[i] # word
      BY DEF ToSet
<1>4. ASSUME NEW i \in DOMAIN pathCommands
      PROVE  /\ DamerauLevenshtein(word, pathCommands[i]) \in Nat
             /\ DamerauLevenshtein(word, pathCommands[i]) = 1 <=> Slip(word, pathCommands[i])
      <2>1. IsList(pathCommands[i]) /\ pathCommands[i] # word
            BY <1>3
      <2>2. /\ DamerauLevenshtein(word, pathCommands[i]) \in Nat
            /\ DamerauLevenshtein(word, pathCommands[i]) = 0 <=> word = pathCommands[i]
            /\ DamerauLevenshtein(word, pathCommands[i]) <= 1 <=> word = pathCommands[i] \/ Slip(word, pathCommands[i])
            BY <2>1, DistanceIs
      <2> QED
          BY <2>1, <2>2
<1>5. ASSUME NEW i \in DOMAIN pathCommands, Slip(word, pathCommands[i]) PROVE i \in like
      <2>1. Len(pathCommands[i]) - Len(word) \in -1..1
            BY <1>3, <1>5, SlipLength
      <2> QED
          BY <1>2, <2>1
<1>6. \A n \in near : n.at \in DOMAIN pathCommands /\ n.at \in Nat /\ n.distance \in Nat /\ n.distance >= 1
                      /\ n.distance = DamerauLevenshtein(word, pathCommands[n.at])
      BY <1>1, <1>2
<1>7. \A i \in DOMAIN pathCommands : Slip(word, pathCommands[i]) => [distance |-> 1, at |-> i] \in near
      <2> TAKE i \in DOMAIN pathCommands
      <2> HAVE Slip(word, pathCommands[i])
      <2>1. i \in like /\ DamerauLevenshtein(word, pathCommands[i]) = 1
            BY <1>4, <1>5
      <2> HIDE DEF like
      <2>2. [distance |-> 1, at |-> i].distance \in 1..far
            BY <1>2
      <2> QED
          BY <2>1, <2>2
<1>8. PICK i \in DOMAIN pathCommands : pathCommands[i] = slipped
      BY DEF ToSet
<1> DEFINE P == {n.at : n \in {m \in near : m.distance = 1}}
<1> HIDE DEF near
<1>9. P # {} /\ P \subseteq Nat
      <2>1. [distance |-> 1, at |-> i] \in {m \in near : m.distance = 1}
            BY <1>7, <1>8
      <2> QED
          BY <1>6, <2>1
<1>10. PICK first \in {m \in near : m.distance = 1} : \A j \in P : first.at <= j
       <2>1. PICK x \in P : \A j \in P : x <= j
             <3> HIDE DEF P
             <3> QED
                 BY <1>9, FirstExists
       <2> QED
           BY <2>1
<1>11. first \in best
       <2> SUFFICES ASSUME NEW m \in near PROVE first.distance < m.distance \/ (first.distance = m.distance /\ first.at <= m.at)
           OBVIOUS
       <2>1. CASE m.distance = 1
             <3>1. m.at \in P
                   BY <2>1
             <3> QED
                 BY <1>10, <2>1, <3>1
       <2>2. CASE m.distance # 1
             BY <1>6, <1>10, <2>2
       <2> QED
           BY <2>1, <2>2
<1>12. chosen \in best
       BY <1>11
<1>13. chosen \in near /\ chosen.distance = 1
       <2>1. chosen \in near /\ (chosen.distance < first.distance \/ chosen.distance = first.distance)
             BY <1>10, <1>12
       <2> HIDE DEF chosen
       <2> QED
           BY <1>6, <1>10, <2>1
<1>14. SuggestCommand(word) = pathCommands[chosen.at]
       <2>1. near # {}
             BY <1>13
       <2> QED
           BY <2>1, Zenon DEF SuggestCommand, near, like, far, best, chosen
<1> HIDE DEF chosen
<1> QED
    BY <1>4, <1>6, <1>13, <1>14

\* The words that may stand on $PATH, and what a suggestion is taken from.
Names == ToSet(Builtins) \cup UNION {ToSet(names) : names \in UNION {ToSet(dirs) : dirs \in Paths}}

CommandTypes ==
  path \in Paths /\ IsList(pathCommands) /\ \A c \in ToSet(pathCommands) : IsList(c)

LEMMA CommandsAreWords ==
  ASSUME path \in Paths
  PROVE  IsList(BuildCommandCache) /\ \A c \in ToSet(BuildCommandCache) : IsList(c)
<1> USE CompletionAssumption
<1>1. path \in Seq(ToSet(path)) /\ \A names \in ToSet(path) : names \in Seq(Names)
      <2>1. path \in Seq(ToSet(path)) /\ \A names \in ToSet(path) : names \in Seq(ToSet(names))
            OBVIOUS
      <2>2. \A names \in ToSet(path) : ToSet(names) \subseteq Names
            BY DEF Names
      <2> QED
          BY <2>1, <2>2, SeqMonotonic
<1>2. path \in Seq(Seq(Names))
      <2>1. ToSet(path) \subseteq Seq(Names)
            BY <1>1
      <2> QED
          BY <1>1, <2>1, SeqMonotonic
<1>3. FlattenSeq(path) \in Seq(Names)
      BY <1>2, Flattened
<1>4. Builtins \in Seq(Names)
      <2>1. ToSet(Builtins) \subseteq Names
            BY DEF Names
      <2> QED
          BY <2>1, SeqMonotonic
<1>5. FlattenSeq(path) \o Builtins \in Seq(Names)
      BY <1>3, <1>4, ConcatProperties
<1>6. ToSet(FlattenSeq(path) \o Builtins) \subseteq Names
      BY <1>5 DEF ToSet
<1>7. IsList(FlattenSeq(path) \o Builtins)
      BY <1>5 DEF IsList
<1>8. IsList(BuildCommandCache) /\ ToSet(BuildCommandCache) \subseteq Names
      BY <1>6, <1>7, ListedIs DEF BuildCommandCache
<1>9. \A c \in Names : IsList(c)
      BY DEF Names, IsList
<1> QED
    BY <1>8, <1>9

TypoInv == CommandTypes /\ TyposAreCaught

LEMMA NextTypoInv == ASSUME TypoInv, [CompletionNext]_completionVars PROVE TypoInv'
<1> USE CompletionAssumption
<1>1. ASSUME UNCHANGED <<path, pathCommands, hint>> PROVE TypoInv'
      BY <1>1 DEF TypoInv, CommandTypes, TyposAreCaught
<1>2. ASSUME UNCHANGED <<path, pathCommands>>, hint' = NoHint PROVE TypoInv'
      BY <1>2 DEF TypoInv, CommandTypes, TyposAreCaught
<1>3. CASE UNCHANGED completionVars
      BY <1>1, <1>3 DEF completionVars, outside
<1>4. ASSUME NEW word, TabCommand(word) PROVE TypoInv'
      <2>1. path' = path /\ pathCommands' = BuildCommandCache /\ hint' = NoHint
            BY <1>4 DEF TabCommand, outside
      <2>2. IsList(pathCommands') /\ \A c \in ToSet(pathCommands') : IsList(c)
            BY <2>1, CommandsAreWords DEF TypoInv, CommandTypes
      <2> QED
          BY <2>1, <2>2 DEF TypoInv, CommandTypes, TyposAreCaught
<1>5. ASSUME NEW tool, NEW word, TabArgument(tool, word) PROVE TypoInv'
      BY <1>2, <1>5 DEF TabArgument, outside
<1>6. ASSUME NEW tool, NEW word, NEW cut, TabFlag(tool, word, cut) PROVE TypoInv'
      BY <1>2, <1>6 DEF TabFlag, outside
<1>7. ASSUME NEW word \in Typed, NotFound127(word) PROVE TypoInv'
      <2>1. path' = path /\ pathCommands' = pathCommands /\ hint' = [typed |-> word, command |-> SuggestCommand(word)]
            BY <1>7 DEF NotFound127, outside
      <2>2. IsList(word)
            BY DEF IsList
      <2>3. (word \notin ToSet(pathCommands) /\ \E c \in ToSet(pathCommands) : Slip(word, c)) => Slip(word, SuggestCommand(word))
            BY <2>2, SlipIsAnswered DEF TypoInv, CommandTypes
      <2>4. hint'.typed = word /\ hint'.command = SuggestCommand(word)
            BY <2>1
      <2>5. TyposAreCaught'
            BY <2>1, <2>3, <2>4 DEF TyposAreCaught
      <2> QED
          BY <2>1, <2>5 DEF TypoInv, CommandTypes
<1>8. ASSUME NEW tool, Change(tool) PROVE TypoInv'
      <2>1. path' \in Paths /\ UNCHANGED <<pathCommands, hint>>
            BY <1>8 DEF Change, TypoInv, CommandTypes
      <2> QED
          BY <2>1 DEF TypoInv, CommandTypes, TyposAreCaught
<1> QED
    BY <1>3, <1>4, <1>5, <1>6, <1>7, <1>8 DEF CompletionNext

\* Whoever leaves out, adds, mistakes or swaps one letter of a command is told of a
\* command that one such slip explains: the table of damerau_levenshtein has 1 where
\* one slip explains the difference, whatever the words (suggest.cpp:10-82).
THEOREM SlipsAreCaught == CompletionSpec => []TyposAreCaught
<1>1. CompletionInit => TypoInv
      BY CommandsAreWords DEF CompletionInit, TypoInv, CommandTypes, TyposAreCaught
<1>2. TypoInv => TyposAreCaught
      BY DEF TypoInv
<1> QED
    BY <1>1, <1>2, NextTypoInv, PTL DEF CompletionSpec

-----------------------------------------------------------------------------
(* safe_exec.                                                               *)

\* What is true of the pipe and of the child between the steps: no data is
\* lost, a reader that was told to read finds data or an end of file, and after
\* an end of file there is no one left to write.
Pipe ==
  /\ captured + pipe = written
  /\ child # "run" => "child" \notin holders
  /\ pc = "read" => pipe > 0 \/ holders = {}
  /\ (pc \in {"close", "wait", "done"} /\ ~timed_out) => pipe = 0 /\ holders = {}

\* How the parent got where it is.
Progress ==
  /\ killed => timed_out
  /\ exit_code # "none" => pc = "done"
  /\ exit_code = "status" => ~timed_out
  /\ pc = "poll" /\ timeout > 0 => remaining >= 0 /\ expires = timeout

ExecInv == ExecTypeOK /\ Pipe /\ Progress /\ NoZombie

USE TimesAssumption, ChildAssumption

LEMMA InitExecInv == ExecInit => ExecInv
<1> SUFFICES ASSUME ExecInit PROVE ExecInv
    OBVIOUS
<1>1. ExecTypeOK
      <2>1. now \in 0 .. Horizon /\ remaining \in -1 .. timeout /\ expires \in 0 .. Horizon + timeout
            BY DEF ExecInit
      <2>2. pipe \in 0 .. MaxWrites /\ written \in 0 .. MaxWrites /\ captured \in 0 .. MaxWrites
            BY DEF ExecInit
      <2> QED
          BY <2>1, <2>2 DEF ExecInit, ExecTypeOK
<1>2. Pipe /\ Progress /\ NoZombie
      BY DEF ExecInit, Pipe, Progress, NoZombie
<1> QED
    BY <1>1, <1>2 DEF ExecInv

\* Each step of the child, and time.
LEMMA ChildKeepsExecInv == ExecInv /\ (ChildStep \/ Tick) => ExecInv'
<1> SUFFICES ASSUME ExecInv, ChildStep \/ Tick PROVE ExecInv'
    OBVIOUS
<1> USE DEF ExecInv, ExecTypeOK, Pipe, Progress, NoZombie, childVars
<1>1. CASE Tick
      BY <1>1 DEF Tick
<1>2. CASE ChildWrites
      BY <1>2 DEF ChildWrites
<1>3. CASE ChildCloses
      BY <1>3 DEF ChildCloses
<1>4. CASE LeavesHeir
      BY <1>4 DEF LeavesHeir
<1>5. CASE ChildEnds
      BY <1>5 DEF ChildEnds
<1> QED
    BY <1>1, <1>2, <1>3, <1>4, <1>5 DEF ChildStep

\* Each step of the loop.
LEMMA ParentKeepsExecInv == ExecInv /\ (Parent \/ PollInterrupted) => ExecInv'
<1> SUFFICES ASSUME ExecInv, Parent \/ PollInterrupted PROVE ExecInv'
    OBVIOUS
<1> USE DEF ExecInv, ExecTypeOK, Pipe, Progress, NoZombie, childVars
<1>1. CASE CheckDeadline
      <2> USE <1>1 DEF CheckDeadline
      <2>1. CASE timeout = 0
            BY <2>1
      <2>2. CASE timeout # 0 /\ now >= timeout
            BY <2>2
      <2>3. CASE timeout # 0 /\ ~(now >= timeout)
            <3>1. remaining' \in 1 .. timeout /\ expires' \in 0 .. Horizon + timeout
                  BY <2>3
            <3> QED
                BY <2>3, <3>1
      <2> QED
          BY <2>1, <2>2, <2>3
<1>2. CASE PollReady
      BY <1>2 DEF PollReady
<1>3. CASE PollTimeout
      BY <1>3 DEF PollTimeout
<1>4. CASE PollInterrupted
      BY <1>4 DEF PollInterrupted
<1>5. CASE Read
      BY <1>5 DEF Read
<1>6. CASE CloseAndKill
      BY <1>6 DEF CloseAndKill
<1>7. CASE Wait
      BY <1>7 DEF Wait
<1> QED
    BY <1>1, <1>2, <1>3, <1>4, <1>5, <1>6, <1>7 DEF Parent

THEOREM ExecInvariance == ExecSpec => []ExecInv
<1>1. ExecInv /\ UNCHANGED execVars => ExecInv'
      BY DEF ExecInv, ExecTypeOK, Pipe, Progress, NoZombie, execVars
<1>2. ExecInv /\ [ExecNext]_execVars => ExecInv'
      BY <1>1, ChildKeepsExecInv, ParentKeepsExecInv DEF ExecNext
<1> QED
    BY <1>2, InitExecInv, PTL DEF ExecSpec

\* A reported status belongs to a child that ran to its end, and all of its
\* output has been read (safe_exec.cpp:119-155).
THEOREM StatusIsComplete == ExecSpec => []StatusMeansComplete
<1>1. ExecInv => StatusMeansComplete
      BY DEF ExecInv, ExecTypeOK, Pipe, Progress, StatusMeansComplete
<1> QED
    BY <1>1, ExecInvariance, PTL

\* safe_exec leaves no zombie behind (safe_exec.cpp:136-145).
THEOREM Reaps == ExecSpec => []NoZombie
<1>1. ExecInv => NoZombie
      BY DEF ExecInv
<1> QED
    BY <1>1, ExecInvariance, PTL

\* However often poll is interrupted or returns early, it never sleeps past the
\* deadline (safe_exec.cpp:99-106).
THEOREM DeadlineHolds == ExecSpec => []NeverSleepsPastDeadline
<1>1. ExecInv => NeverSleepsPastDeadline
      BY DEF ExecInv, ExecTypeOK, Progress, NeverSleepsPastDeadline
<1> QED
    BY <1>1, ExecInvariance, PTL

\* Every variable stays in its range.
THEOREM ExecTypeCorrect == ExecSpec => []ExecTypeOK
<1>1. ExecInv => ExecTypeOK
      BY DEF ExecInv
<1> QED
    BY <1>1, ExecInvariance, PTL

-----------------------------------------------------------------------------
(* What is_input_complete accepts, parse_command_line can parse.            *)

LEMMA QuoteAtIs ==
  ASSUME NEW s, Len(s) \in Nat
  PROVE  /\ QuoteAt(s)[1] = "none"
         /\ \A i \in 1..Len(s) : QuoteAt(s)[i] \in QuoteStates /\ QuoteAt(s)[i + 1] = Toggle(QuoteAt(s)[i], s[i])
<1> DEFINE n == Len(s)
           Defines(f) == f = [i \in 1..n + 1 |-> IF i = 1 THEN "none" ELSE Toggle(f[i - 1], s[i - 1])]
           r == CHOOSE f : Defines(f)
           F == [i \in 1..n |-> [q \in QuoteStates |-> Toggle(q, s[i])]]
<1>1. QuoteAt(s) = r
      BY DEF QuoteAt
<1>2. n \in Nat /\ "none" \in QuoteStates /\ \A q \in QuoteStates : \A c : Toggle(q, c) \in QuoteStates
      BY DEF QuoteStates, Quotes, Toggle
<1> HIDE DEF n
<1>3. F \in [1..n -> [QuoteStates -> QuoteStates]]
      BY <1>2
<1>4. PICK g : Recurs(g, n, QuoteStates, "none", F)
      BY <1>2, <1>3, RecursionExists
<1>5. g \in [0..n -> QuoteStates] /\ g[0] = "none" /\ \A i \in 1..n : g[i] = Toggle(g[i - 1], s[i])
      <2>1. g \in [0..n -> QuoteStates] /\ g[0] = "none" /\ \A i \in 1..n : g[i] = F[i][g[i - 1]]
            BY <1>4 DEF Recurs
      <2>2. ASSUME NEW i \in 1..n PROVE g[i - 1] \in QuoteStates
            BY <1>2, <2>1
      <2> QED
          BY <2>1, <2>2
<1> DEFINE f == [i \in 1..n + 1 |-> g[i - 1]]
<1>6. Defines(f)
      <2>1. ASSUME NEW i \in 1..n + 1 PROVE f[i] = IF i = 1 THEN "none" ELSE Toggle(f[i - 1], s[i - 1])
            <3>1. CASE i = 1
                  BY <1>2, <1>5, <3>1
            <3>2. CASE i # 1
                  <4>1. PICK j \in 1..n : j = i - 1
                        BY <1>2, <3>2
                  <4>2. j \in 1..n + 1 /\ f[i] = g[j] /\ f[j] = g[j - 1]
                        BY <1>2, <4>1
                  <4> QED
                      BY <1>5, <3>2, <4>1, <4>2
            <3> QED
                BY <3>1, <3>2
      <2> HIDE DEF f
      <2>2. f = [i \in 1..n + 1 |-> f[i]]
            BY DEF f
      <2> QED
          BY <2>1, <2>2
<1>7. Defines(r)
      <2> HIDE DEF Defines
      <2> QED
          BY <1>6
<1> HIDE DEF r
<1>8. \A i \in 1..n + 1 : r[i] = IF i = 1 THEN "none" ELSE Toggle(r[i - 1], s[i - 1])
      BY <1>7
<1> HIDE DEF Defines
<1>9. r[1] = "none" /\ \A i \in 1..n : r[i + 1] = Toggle(r[i], s[i])
      <2>1. r[1] = "none"
            BY <1>2, <1>8
      <2>2. ASSUME NEW i \in 1..n PROVE r[i + 1] = Toggle(r[i], s[i])
            <3>1. PICK j \in 1..n + 1 : j = i + 1 /\ j # 1 /\ j - 1 = i
                  BY <1>2
            <3> QED
                BY <1>8, <3>1
      <2> QED
          BY <2>1, <2>2
<1> DEFINE S == {i \in Nat : i + 1 <= n + 1 => r[i + 1] \in QuoteStates}
<1>10. 0 \in S
      BY <1>2, <1>9
<1>11. ASSUME NEW i \in Nat, i \in S PROVE i + 1 \in S
      <2> SUFFICES ASSUME i + 2 <= n + 1 PROVE r[i + 2] \in QuoteStates
          BY <1>2
      <2>1. PICK j \in 1..n : j = i + 1
            BY <1>2
      <2>2. r[j] \in QuoteStates /\ j + 1 = i + 2
            BY <1>2, <1>11, <2>1
      <2> QED
          BY <1>2, <1>9, <2>2
<1> HIDE DEF S
<1>12. \A i \in Nat : i \in S
      BY <1>10, <1>11, NatBySet
<1>13. \A i \in 1..n : r[i] \in QuoteStates
      <2> TAKE i \in 1..n
      <2>1. PICK j \in Nat : i = j + 1
            BY <1>2
      <2> QED
          BY <1>2, <1>12, <2>1 DEF S
<1> QED
    BY <1>1, <1>9, <1>13 DEF n

\* Without a backslash the two scans agree.
LEMMA NothingHidden ==
  ASSUME NEW s, IsList(s), "\\" \notin ToSet(s)
  PROVE  HiddenQuotes(s, LAMBDA q : TRUE) = QuoteAt(s)[Len(s) + 1]
<1> DEFINE n == Len(s)
           Q == QuoteAt(s)
           Pass(was, c) == IF was.hidden THEN [was EXCEPT !.hidden = FALSE]
                           ELSE IF c = "\\" /\ TRUE THEN [was EXCEPT !.hidden = TRUE]
                           ELSE [was EXCEPT !.q = Toggle(@, c)]
           Scan(f, i) == IF i = 0 THEN [q |-> "none", hidden |-> FALSE] ELSE Pass(f[i - 1], s[i])
           Defines(f) == f = [i \in 0..n |-> Scan(f, i)]
           r == CHOOSE f : Defines(f)
<1>1. HiddenQuotes(s, LAMBDA q : TRUE) = r[n].q
      BY DEF HiddenQuotes
<1>11. \A q, c : c # "\\" => Pass([q |-> q, hidden |-> FALSE], c) = [q |-> Toggle(q, c), hidden |-> FALSE]
      OBVIOUS
<1> HIDE DEF Pass
<1>2. n \in Nat /\ \A i \in 1..n : s[i] # "\\"
      <2>1. n \in Nat /\ DOMAIN s = 1..n
            BY Lengths
      <2> QED
          BY <2>1 DEF ToSet
<1>3. Q[1] = "none" /\ \A i \in 1..n : Q[i + 1] = Toggle(Q[i], s[i])
      BY <1>2, QuoteAtIs
<1> HIDE DEF n, Q
<1> DEFINE f == [i \in 0..n |-> [q |-> Q[i + 1], hidden |-> FALSE]]
<1>4. Defines(f)
      <2>1. ASSUME NEW i \in 0..n PROVE f[i] = Scan(f, i)
            <3>1. CASE i = 0
                  <4>1. f[i] = [q |-> Q[i + 1], hidden |-> FALSE] /\ i + 1 = 1
                        BY <3>1
                  <4>2. Scan(f, i) = [q |-> "none", hidden |-> FALSE]
                        BY <3>1
                  <4> HIDE DEF f, Scan
                  <4> QED
                      BY <1>3, <4>1, <4>2
            <3>2. CASE i # 0
                  <4>1. PICK j \in 0..n : j = i - 1 /\ i = j + 1 /\ i \in 1..n
                        BY <1>2, <3>2
                  <4>2. f[j] = [q |-> Q[i], hidden |-> FALSE] /\ f[i] = [q |-> Toggle(Q[i], s[i]), hidden |-> FALSE]
                        BY <1>3, <4>1
                  <4> HIDE DEF f
                  <4>3. f[i - 1] = [q |-> Q[i], hidden |-> FALSE] /\ s[i] # "\\"
                        BY <1>2, <4>1, <4>2
                  <4>4. Pass(f[i - 1], s[i]) = f[i]
                        BY <1>11, <4>2, <4>3
                  <4> QED
                      BY <3>2, <4>4
            <3> QED
                BY <3>1, <3>2
      <2> HIDE DEF f, Scan
      <2>2. f = [i \in 0..n |-> f[i]]
            BY DEF f
      <2> QED
          BY <2>1, <2>2
<1>5. Defines(r)
      <2> HIDE DEF Defines
      <2> QED
          BY <1>4
<1> HIDE DEF r
<1>6. \A i \in 0..n : r[i] = Scan(r, i)
      <2> HIDE DEF Scan
      <2> QED
          BY <1>5
<1> HIDE DEF Defines
<1> DEFINE S == {i \in Nat : i <= n => r[i] = [q |-> Q[i + 1], hidden |-> FALSE]}
<1>7. 0 \in S
      <2>1. Scan(r, 0) = [q |-> "none", hidden |-> FALSE]
            OBVIOUS
      <2> HIDE DEF Scan
      <2>2. r[0] = Scan(r, 0)
            BY <1>2, <1>6
      <2>3. 0 + 1 = 1
            OBVIOUS
      <2> QED
          BY <1>3, <2>1, <2>2, <2>3
<1>8. ASSUME NEW j \in Nat, j \in S PROVE j + 1 \in S
      <2> SUFFICES ASSUME j + 1 <= n PROVE r[j + 1] = [q |-> Q[j + 2], hidden |-> FALSE]
          BY <1>2
      <2>1. PICK i \in 1..n : i = j + 1 /\ i - 1 = j /\ i # 0 /\ i + 1 = j + 2
            BY <1>2
      <2>2. r[j] = [q |-> Q[i], hidden |-> FALSE]
            BY <1>2, <1>8, <2>1
      <2>3. r[i] = [q |-> Toggle(Q[i], s[i]), hidden |-> FALSE]
            <3>1. r[i] = Scan(r, i)
                  BY <1>2, <1>6, <2>1
            <3>2. s[i] # "\\" /\ r[i - 1] = [q |-> Q[i], hidden |-> FALSE]
                  BY <1>2, <2>1, <2>2
            <3>3. Pass(r[i - 1], s[i]) = [q |-> Toggle(Q[i], s[i]), hidden |-> FALSE]
                  BY <1>11, <3>2
            <3> QED
                BY <2>1, <3>1, <3>3
      <2> QED
          BY <1>3, <2>1, <2>3
<1> HIDE DEF S
<1>9. n \in S
      BY <1>2, <1>7, <1>8, NatBySet
<1>10. r[n] = [q |-> Q[n + 1], hidden |-> FALSE]
      BY <1>2, <1>9 DEF S
<1> QED
    BY <1>1, <1>10 DEF n, Q

\* The joined lines: a newline is outside or inside quotes as the ; is.
LEMMA JoinedIs ==
  ASSUME NEW s, IsList(s)
  PROVE  /\ IsList(JoinedLines(s)) /\ Len(JoinedLines(s)) = Len(s)
         /\ \A i \in 1..Len(s) : JoinedLines(s)[i] = IF s[i] = NL THEN ";" ELSE s[i]
         /\ QuoteAt(JoinedLines(s))[Len(s) + 1] = QuoteAt(s)[Len(s) + 1]
<1> DEFINE t == JoinedLines(s)
           n == Len(s)
           Q == QuoteAt(s)
           R == QuoteAt(t)
<1>1. n \in Nat /\ DOMAIN s = 1..n
      BY Lengths
<1>2. t = [i \in DOMAIN s |-> IF s[i] = NL THEN ";" ELSE s[i]]
      BY DEF JoinedLines
<1>3. IsList(t) /\ Len(t) = n /\ \A i \in 1..n : t[i] = IF s[i] = NL THEN ";" ELSE s[i]
      <2>1. t = [i \in DOMAIN s |-> t[i]]
            BY <1>2
      <2> HIDE DEF t
      <2>2. IsList(t) /\ DOMAIN t = 1..n
            BY <1>1, <2>1, MappedIsAList
      <2>3. Len(t) = n
            BY <1>1, <2>2, Lengths
      <2> QED
          BY <1>1, <1>2, <2>2, <2>3
<1>4. Q[1] = "none" /\ \A i \in 1..n : Q[i] \in QuoteStates /\ Q[i + 1] = Toggle(Q[i], s[i])
      BY <1>1, QuoteAtIs
<1>5. R[1] = "none" /\ \A i \in 1..n : R[i + 1] = Toggle(R[i], t[i])
      <2>1. /\ QuoteAt(t)[1] = "none"
            /\ \A i \in 1..Len(t) : QuoteAt(t)[i] \in QuoteStates /\ QuoteAt(t)[i + 1] = Toggle(QuoteAt(t)[i], t[i])
            BY <1>1, <1>3, QuoteAtIs
      <2> QED
          BY <1>3, <2>1
<1>6. \A q \in QuoteStates : Toggle(q, NL) = q /\ Toggle(q, ";") = q
      BY DEF QuoteStates, Quotes, Toggle, NL
<1> HIDE DEF t, n, Q, R
<1> DEFINE S == {i \in Nat : i <= n => R[i + 1] = Q[i + 1]}
<1>7. 0 \in S
      BY <1>4, <1>5
<1>8. ASSUME NEW j \in Nat, j \in S PROVE j + 1 \in S
      <2> SUFFICES ASSUME j + 1 <= n PROVE R[j + 2] = Q[j + 2]
          BY <1>1
      <2>1. PICK i \in 1..n : i = j + 1 /\ i + 1 = j + 2
            BY <1>1
      <2>2. R[i] = Q[i]
            BY <1>1, <1>8, <2>1
      <2>3. Toggle(Q[i], t[i]) = Toggle(Q[i], s[i])
            BY <1>3, <1>4, <1>6
      <2> QED
          BY <1>4, <1>5, <2>1, <2>2, <2>3
<1> HIDE DEF S
<1>9. n \in S
      BY <1>1, <1>7, <1>8, NatBySet
<1>10. R[n + 1] = Q[n + 1]
      BY <1>1, <1>9 DEF S
<1> QED
    BY <1>3, <1>10 DEF t, n, Q, R

Solid(s) == {i \in DOMAIN s : s[i] \notin {Blank, NL, TAB}}

LEMMA TrimIs ==
  ASSUME NEW s, IsList(s)
  PROVE  /\ Trim(s) = <<>> <=> Solid(s) = {}
         /\ Solid(s) # {} => Last(Trim(s)) = s[Max(Solid(s))] /\ Max(Solid(s)) \in Solid(s)
                             /\ \A i \in Solid(s) : i <= Max(Solid(s))
<1> DEFINE P == Solid(s)
           a == Min(P)
           b == Max(P)
           n == Len(s)
<1>1. Trim(s) = IF P = {} THEN <<>> ELSE SubSeq(s, a, b)
      BY DEF Trim, Between, Solid
<1>2. n \in Nat /\ DOMAIN s = 1..n /\ s \in Seq(ToSet(s))
      BY Lengths
<1>3. P \in SUBSET (1..n) /\ P \subseteq Nat
      BY <1>2 DEF Solid
<1>4. CASE P = {}
      BY <1>1, <1>4
<1>5. CASE P # {}
      <2>1. a \in P /\ \A i \in P : a <= i
            BY <1>3, <1>5, FirstIs
      <2>2. b \in P /\ \A i \in P : i <= b
            BY <1>2, <1>3, <1>5, LastIs
      <2>3. a \in 1..n /\ b \in 1..n /\ a <= b
            BY <1>3, <2>1, <2>2
      <2> DEFINE t == SubSeq(s, a, b)
                 C == ToSet(s)
      <2> HIDE DEF a, b, P, C, n
      <2>4. \A i \in a..b : s[i] \in C
            <3>1. a..b \subseteq 1..n /\ \A i \in 1..n : s[i] \in C
                  BY <1>2, <2>3 DEF C, n
            <3> QED
                BY <3>1
      <2>5. t \in Seq(C) /\ Len(t) = b - a + 1 /\ \A i \in 1..b - a + 1 : t[i] = s[a + i - 1]
            BY <2>3, <2>4, SubSeqProperties
      <2> HIDE DEF t
      <2>6. t # <<>> /\ Last(t) = s[b]
            <3>1. PICK k \in 1..b - a + 1 : k = b - a + 1 /\ a + k - 1 = b
                  BY <2>3
            <3>2. t[k] = s[b]
                  BY <2>5, <3>1
            <3>3. Len(t) = k /\ k # 0
                  BY <2>5, <3>1
            <3>4. t # <<>>
                  BY <3>3
            <3> QED
                BY <3>2, <3>3, <3>4 DEF Last
      <2> QED
          BY <1>1, <1>5, <2>2, <2>6 DEF t, P, a, b
<1> QED
    BY <1>4, <1>5

\* The last piece begins behind the last separator that splits.
LEMMA LastPiece ==
  ASSUME NEW s, IsList(s), NEW at \in SUBSET DOMAIN s
  PROVE  \/ Last(PiecesOf(s, Cuts(s, at))).op = "none"
         \/ \E c \in at : /\ Last(PiecesOf(s, Cuts(s, at))).op = s[c]
                          /\ Last(PiecesOf(s, Cuts(s, at))).command = Trim(SubSeq(s, c + 1, Len(s)))
<1> DEFINE n == Len(s)
           m == Cardinality(at)
           a == Ascending(at)
           cut == Cuts(s, at)
           ps == PiecesOf(s, cut)
<1>1. n \in Nat /\ DOMAIN s = 1..n
      BY Lengths
<1>2. IsFiniteSet(at) /\ at \in SUBSET Int
      <2>1. IsFiniteSet(1..n)
            BY <1>1, FS_Interval
      <2>2. at \subseteq 1..n
            BY <1>1
      <2> QED
          BY <1>1, <2>1, <2>2, FS_Subset
<1>3. IsAscending(a, at)
      BY <1>2, AscendingIs
<1>4. m \in Nat /\ a \in Seq(at) /\ Len(a) = m /\ \A k \in 1..m : a[k] \in at
      BY <1>3 DEF IsAscending
<1>5. cut = <<0>> \o a \o <<n + 1>>
      BY DEF Cuts
<1> HIDE DEF n, m, a
<1>6. cut \in Seq(Int) /\ Len(cut) = m + 2 /\ cut[m + 2] = n + 1 /\ \A k \in 1..m : cut[k + 1] = a[k]
      <2> DEFINE oa == <<0>> \o a
      <2>1. a \in Seq(Int) /\ <<0>> \in Seq(Int) /\ <<n + 1>> \in Seq(Int)
            <3>1. at \subseteq Int
                  BY <1>2
            <3> QED
                BY <1>1, <1>4, <3>1, SeqMonotonic
      <2>2. Len(<<0>>) = 1 /\ Len(<<n + 1>>) = 1 /\ <<n + 1>>[1] = n + 1
            OBVIOUS
      <2>3. oa \in Seq(Int) /\ Len(oa) = m + 1 /\ \A k \in 1..m + 1 : oa[k] = IF k <= 1 THEN 0 ELSE a[k - 1]
            <3>1. oa \in Seq(Int) /\ Len(oa) = 1 + m /\ \A k \in 1..1 + m : oa[k] = IF k <= 1 THEN <<0>>[k] ELSE a[k - 1]
                  BY <1>4, <2>1, <2>2, ConcatProperties
            <3> HIDE DEF oa
            <3> QED
                BY <1>4, <3>1
      <2> HIDE DEF oa
      <2> DEFINE final == <<n + 1>>
                 all == oa \o final
      <2>4. final \in Seq(Int) /\ Len(final) = 1 /\ final[1] = n + 1
            BY <2>1, <2>2
      <2> HIDE DEF final
      <2>5. all \in Seq(Int) /\ Len(all) = m + 1 + 1
            /\ \A k \in 1..m + 1 + 1 : all[k] = IF k <= m + 1 THEN oa[k] ELSE final[k - (m + 1)]
            <3>1. all \in Seq(Int) /\ Len(all) = Len(oa) + Len(final)
                  /\ \A k \in 1..Len(oa) + Len(final) : all[k] = IF k <= Len(oa) THEN oa[k] ELSE final[k - Len(oa)]
                  BY <2>3, <2>4, ConcatProperties
            <3> HIDE DEF all
            <3> QED
                BY <2>3, <2>4, <3>1
      <2> HIDE DEF all
      <2>6. all[m + 2] = n + 1
            <3>1. PICK k \in 1..m + 1 + 1 : k = m + 2 /\ ~(k <= m + 1) /\ k - (m + 1) = 1
                  BY <1>4
            <3> QED
                BY <2>4, <2>5, <3>1
      <2>7. ASSUME NEW k \in 1..m PROVE all[k + 1] = a[k]
            <3>1. PICK j \in 1..m + 1 + 1 : j = k + 1 /\ j <= m + 1 /\ ~(j <= 1) /\ j - 1 = k
                  BY <1>4
            <3>2. j \in 1..m + 1 /\ all[j] = oa[j]
                  BY <1>4, <2>5, <3>1
            <3>3. oa[j] = a[k]
                  BY <2>3, <3>1, <3>2
            <3> QED
                BY <3>1, <3>2, <3>3
      <2>8. m + 1 + 1 = m + 2
            BY <1>4
      <2>9. cut = all
            BY <1>5 DEF all, oa, final
      <2> QED
          BY <2>5, <2>6, <2>7, <2>8, <2>9
<1> HIDE DEF cut
<1> DEFINE Piece(op, x, y) == [op |-> op, command |-> Trim(SubSeq(s, x + 1, y))]
<1>7. Len(ps) = m + 1 /\ ps # <<>> /\ \A k \in 1..m + 1 : ps[k] = Piece(IF k = 1 THEN "none" ELSE s[cut[k]], cut[k], cut[k + 1] - 1)
      <2>1. PICK l \in Nat : l = m + 1 /\ l # 0 /\ Len(cut) - 1 = l
            BY <1>4, <1>6
      <2>2. ps = [k \in 1..l |-> Piece(IF k = 1 THEN "none" ELSE s[cut[k]], cut[k], cut[k + 1] - 1)]
            BY <2>1 DEF PiecesOf
      <2> HIDE DEF Piece
      <2>3. Len(ps) = l
            BY <2>2
      <2>4. ps # <<>>
            BY <2>1, <2>3
      <2> QED
          BY <2>1, <2>2, <2>3, <2>4
<1>8. Last(ps) = ps[m + 1]
      BY <1>7 DEF Last
<1>9. CASE m = 0
      <2>1. ps[1] = Piece("none", cut[1], cut[1 + 1] - 1) /\ m + 1 = 1
            BY <1>7, <1>9
      <2> QED
          BY <1>8, <2>1 DEF ps, cut
<1>10. CASE m # 0
      <2>1. PICK k \in 1..m + 1 : k = m + 1 /\ k # 1 /\ k + 1 = m + 2
            BY <1>4, <1>10
      <2>2. m \in 1..m
            BY <1>4, <1>10
      <2>3. cut[m + 1] = a[m] /\ a[m] \in at
            BY <1>4, <1>6, <2>2
      <2>4. ps[k] = Piece(s[a[m]], a[m], n)
            <3>1. ps[k] = Piece(IF k = 1 THEN "none" ELSE s[cut[k]], cut[k], cut[k + 1] - 1)
                  BY <1>7
            <3>2. cut[k] = a[m] /\ cut[k + 1] - 1 = n
                  <4>1. cut[m + 2] = n + 1 /\ cut[k + 1] = cut[m + 2]
                        BY <1>6, <2>1
                  <4>2. cut[k] = a[m]
                        BY <2>1, <2>3
                  <4>3. cut[k + 1] = n + 1
                        BY <4>1
                  <4>4. cut[k + 1] - 1 = n
                        BY <1>1, <4>3
                  <4> QED
                      BY <4>2, <4>4
            <3>3. (IF k = 1 THEN "none" ELSE s[cut[k]]) = s[a[m]]
                  BY <2>1, <3>2
            <3> HIDE DEF Piece
            <3> QED
                BY <3>1, <3>2, <3>3
      <2>5. Piece(s[a[m]], a[m], n) = [op |-> s[a[m]], command |-> Trim(SubSeq(s, a[m] + 1, n))]
            OBVIOUS
      <2> HIDE DEF Piece
      <2>7. Last(ps) = [op |-> s[a[m]], command |-> Trim(SubSeq(s, a[m] + 1, n))]
            BY <1>8, <2>1, <2>4, <2>5
      <2> QED
          BY <2>3, <2>7 DEF ps, cut, n
<1> QED
    BY <1>9, <1>10

LEMMA NoComment ==
  ASSUME NEW s, IsList(s), "#" \notin ToSet(s)
  PROVE  StripComment(s) = s
<1> DEFINE n == Len(s)
           t == [i \in DOMAIN s |-> <<s[i], QuoteAt(s)[i]>>]
           P == {j \in 1..Len(t) : t[j] = <<"#", "none">>} \cup {Len(t) + 1}
           C == ToSet(s)
<1>1. n \in Nat /\ DOMAIN s = 1..n /\ s \in Seq(C) /\ \A i \in 1..n : s[i] # "#"
      <2>1. n \in Nat /\ DOMAIN s = 1..n /\ s \in Seq(C)
            BY Lengths
      <2> QED
          BY <2>1 DEF ToSet
<1>2. StripComment(s) = SubSeq(s, 1, Min(P) - 1)
      BY DEF StripComment, FirstFrom
<1> HIDE DEF n, C
<1>3. Len(t) = n /\ \A j \in 1..n : t[j] # <<"#", "none">>
      BY <1>1
<1> HIDE DEF t
<1>4. P = {n + 1}
      BY <1>3
<1>5. Min(P) - 1 = n
      <2>1. Min({n + 1}) \in {n + 1}
            BY <1>1, FirstIs
      <2>2. Min(P) = n + 1
            BY <1>4, <2>1
      <2> QED
          BY <1>1, <2>2
<1> HIDE DEF P
<1>6. StripComment(s) = SubSeq(s, 1, n)
      BY <1>2, <1>5
<1>7. SubSeq(s, 1, n) = s
      <2> DEFINE u == SubSeq(s, 1, n)
      <2>1. u \in Seq(C) /\ Len(u) = n /\ \A i \in 1..n : u[i] = s[i]
            BY <1>1 DEF n
      <2> HIDE DEF u
      <2>2. u = s
            BY <1>1, <2>1, SameSeq DEF n
      <2> QED
          BY <2>2 DEF u
<1> QED
    BY <1>6, <1>7

\* Where the joined lines are cut: at separators.
CutsOf(t) == OpenIn(t, QuoteAt(t), Separators, LAMBDA e : e.paren > 0)

LEMMA CutsAreSeparators ==
  ASSUME NEW t
  PROVE  /\ CutsOf(t) \in SUBSET DOMAIN t /\ \A c \in CutsOf(t) : t[c] \in Separators
         /\ Pieces(t) = PiecesOf(t, Cuts(t, CutsOf(t)))
BY DEF CutsOf, OpenIn, Open, Pieces

LEMMA CompleteParses ==
  ASSUME NEW s, IsList(s), IsInputComplete(s), "\\" \notin ToSet(s), "#" \notin ToSet(s)
  PROVE  ParseCommandLine(JoinedLines(s)).errors = {}
<1> DEFINE t == JoinedLines(s)
           n == Len(s)
           p == Last(Pieces(t))
<1>1. n \in Nat /\ DOMAIN s = 1..n /\ ToSet(s) = {s[i] : i \in DOMAIN s}
      BY Lengths
<1>2. /\ IsList(t) /\ Len(t) = n /\ DOMAIN t = 1..n
      /\ \A i \in 1..n : t[i] = IF s[i] = NL THEN ";" ELSE s[i]
      /\ QuoteAt(t)[n + 1] = QuoteAt(s)[n + 1]
      BY JoinedIs, Lengths
<1>3. HiddenQuotes(s, LAMBDA q : TRUE) = "none"
      BY DEF IsInputComplete
<1>4. Trim(s) = <<>> \/ Last(Trim(s)) \notin {"|", "||", "&&", "\\"}
      BY DEF IsInputComplete
<1>5. QuoteAt(s)[n + 1] = "none"
      BY <1>3, NothingHidden
<1>6. QuoteErrors(t) = {}
      BY <1>2, <1>5 DEF QuoteErrors
<1>7. StripComment(t) = t
      <2>1. "#" \notin ToSet(t)
            BY <1>1, <1>2 DEF ToSet
      <2> QED
          BY <1>2, <2>1, NoComment
<1>8. ParseCommandLine(t).errors = PieceErrors(p) \cup QuoteErrors(t)
      BY <1>7 DEF ParseCommandLine, ParseStripped, Parsed
<1> HIDE DEF t, p, n
<1>9. PieceErrors(p) = {}
      <2> SUFFICES ASSUME p.command = <<>>, p.op \in {"&&", "||"} PROVE FALSE
          BY DEF PieceErrors
      <2>1. PICK c \in CutsOf(t) : p.op = t[c] /\ p.command = Trim(SubSeq(t, c + 1, n))
            <3>1. \/ Last(PiecesOf(t, Cuts(t, CutsOf(t)))).op = "none"
                  \/ \E c \in CutsOf(t) : /\ Last(PiecesOf(t, Cuts(t, CutsOf(t)))).op = t[c]
                                          /\ Last(PiecesOf(t, Cuts(t, CutsOf(t)))).command = Trim(SubSeq(t, c + 1, Len(t)))
                  BY <1>2, CutsAreSeparators, LastPiece
            <3>2. p = Last(PiecesOf(t, Cuts(t, CutsOf(t))))
                  BY CutsAreSeparators DEF p
            <3> QED
                BY <1>2, <3>1, <3>2
      <2>2. c \in 1..n /\ s[c] = t[c] /\ s[c] \in {"&&", "||"}
            <3>1. c \in 1..n
                  BY <1>2, CutsAreSeparators
            <3> QED
                BY <1>2, <2>1, <3>1
      <2> DEFINE u == SubSeq(t, c + 1, n)
      <2>3. IsList(u) /\ Len(u) = n - c /\ DOMAIN u = 1..n - c /\ \A k \in 1..n - c : u[k] = t[c + k]
            <3> DEFINE C == ToSet(t)
            <3>1. \A i \in 1..n : t[i] \in C
                  BY <1>2, Lengths
            <3> HIDE DEF C
            <3>2. \A i \in c + 1..n : t[i] \in C
                  <4>1. \A i \in c + 1..n : i \in 1..n
                        BY <1>1, <2>2
                  <4> QED
                      BY <3>1, <4>1
            <3>3. c + 1 \in Int /\ n \in Int /\ c \in Nat
                  BY <1>1, <2>2
            <3>4. /\ u \in Seq(C) /\ Len(u) = IF c + 1 <= n THEN n - (c + 1) + 1 ELSE 0
                  /\ \A k \in 1..n - (c + 1) + 1 : u[k] = t[c + 1 + k - 1]
                  BY <3>2, <3>3, SubSeqProperties
            <3> HIDE DEF u
            <3>5. n - (c + 1) + 1 = n - c /\ n - c \in Nat /\ (IF c + 1 <= n THEN n - (c + 1) + 1 ELSE 0) = n - c
                  BY <1>1, <2>2
            <3>6. \A k \in 1..n - c : c + 1 + k - 1 = c + k
                  BY <1>1, <2>2, <3>3
            <3>7. Len(u) = n - c /\ \A k \in 1..n - c : u[k] = t[c + k]
                  BY <3>4, <3>5, <3>6
            <3>8. IsList(u) /\ DOMAIN u = 1..n - c
                  BY <3>4, <3>7 DEF IsList
            <3> QED
                BY <3>7, <3>8
      <2>8. Trim(u) = <<>>
            BY <2>1 DEF u
      <2> HIDE DEF u
      <2>4. Solid(u) = {}
            BY <2>3, <2>8, TrimIs
      <2>5. \A i \in 1..n : i > c => s[i] \in {Blank, NL, TAB}
            <3> SUFFICES ASSUME NEW i \in 1..n, i > c PROVE s[i] \in {Blank, NL, TAB}
                OBVIOUS
            <3>1. PICK k \in 1..n - c : i = c + k
                  <4>1. n \in Int /\ c \in Int /\ i \in Int /\ c < i /\ i <= n
                        BY <1>1, <2>2
                  <4>2. i - c \in 1..n - c /\ i = c + (i - c)
                        BY <4>1
                  <4> QED
                      BY <4>2
            <3>2. u[k] \in {Blank, NL, TAB} /\ u[k] = t[i]
                  <4>1. k \in DOMAIN u /\ u[k] = t[i]
                        BY <2>3, <3>1
                  <4> QED
                      BY <2>4, <4>1 DEF Solid
            <3>3. ";" \notin {Blank, NL, TAB}
                  BY DEF Blank, NL, TAB
            <3> QED
                BY <1>2, <3>2, <3>3
      <2>6. c \in Solid(s) /\ \A i \in Solid(s) : i <= c
            <3>1. s[c] \notin {Blank, NL, TAB}
                  BY <2>2 DEF Blank, NL, TAB
            <3>2. \A i \in Solid(s) : i \in 1..n /\ ~(i > c)
                  BY <1>1, <2>5 DEF Solid
            <3>3. \A i \in Solid(s) : i <= c
                  BY <1>1, <2>2, <3>2
            <3> QED
                BY <1>1, <2>2, <3>1, <3>3 DEF Solid
      <2>7. Trim(s) # <<>> /\ Last(Trim(s)) = s[c]
            <3>1. Trim(s) # <<>> /\ Last(Trim(s)) = s[Max(Solid(s))] /\ Max(Solid(s)) \in Solid(s) /\ c <= Max(Solid(s))
                  BY <2>6, TrimIs
            <3>2. Max(Solid(s)) <= c /\ Max(Solid(s)) \in Nat /\ c \in Nat
                  BY <1>1, <2>2, <2>6, <3>1 DEF Solid
            <3>3. Max(Solid(s)) = c
                  BY <3>1, <3>2
            <3> QED
                BY <3>1, <3>3
      <2> QED
          BY <1>4, <2>2, <2>7
<1> QED
    BY <1>6, <1>8, <1>9 DEF t

\* What ran was parsed from its own text, and the lines are a text.
LoopInv ==
  /\ IsList(raw)
  /\ ran.kind = "commands" => ran.errors = ParseCommandLine(ran.text).errors

LEMMA CommandsAreParsed ==
  ASSUME NEW text, NEW bodies
  PROVE  Commands(text, bodies).kind = "commands" /\ Commands(text, bodies).text = text
         /\ Commands(text, bodies).errors = ParseCommandLine(text).errors
BY DEF Commands, Distribute, WithBodies

LEMMA RunsParsed ==
  ASSUME NEW line, NEW bodies, RunCommand(line, bodies)
  PROVE  ran'.kind = "commands" => ran'.errors = ParseCommandLine(ran'.text).errors
<1>1. CASE reader = "repl"
      <2> DEFINE bang == ExpandBang(JoinedLines(line), ring)
                 cs == Commands(bang.text, bodies)
      <2>1. RunExpanded(bang, bodies)
            BY <1>1 DEF RunCommand, RunInteractive
      <2>2. /\ cs.kind = "commands" /\ cs.text = bang.text
            /\ cs.errors = ParseCommandLine(bang.text).errors
            BY CommandsAreParsed
      <2> HIDE DEF bang, cs
      <2>3. \/ ran' = [Nothing EXCEPT !.errors = {"event not found"}]
            \/ ran' = cs
            \/ ran' = [Nothing EXCEPT !.kind = KindOf(bang.text), !.text = bang.text] /\ KindOf(bang.text) # "commands"
            BY <2>1 DEF RunExpanded, cs
      <2> QED
          BY <2>2, <2>3 DEF Nothing
<1>2. CASE reader # "repl"
      <2>1. ran' = Commands(line, bodies)
            BY <1>2 DEF RunCommand, RunLine
      <2> QED
          BY <2>1, CommandsAreParsed
<1> QED
    BY <1>1, <1>2

LEMMA AcceptKeeps ==
  ASSUME LoopInv, NEW line, IsList(line), Accept(line)
  PROVE  LoopInv'
<1> DEFINE pending == IF reader = "rc" THEN <<>> ELSE ScanHeredocs(line)
<1>1. AcceptWith(line, pending)
      BY DEF Accept
<1> HIDE DEF pending
<1>2. raw' = line /\ (RunCommand(line, <<>>) \/ UNCHANGED ran)
      BY <1>1 DEF AcceptWith
<1>3. CASE RunCommand(line, <<>>)
      BY <1>2, <1>3, RunsParsed DEF LoopInv
<1>4. CASE UNCHANGED ran
      BY <1>2, <1>4 DEF LoopInv
<1> QED
    BY <1>2, <1>3, <1>4

LEMMA NextLineKeeps ==
  ASSUME LoopInv, NEW line, IsList(line), NextLine(line)
  PROVE  LoopInv'
<1>1. CASE raw' = line /\ UNCHANGED ran
      BY <1>1 DEF LoopInv
<1>2. CASE Accept(line)
      BY <1>2, AcceptKeeps
<1> QED
    BY <1>1, <1>2 DEF NextLine

LEMMA TypedIsAList ==
  ASSUME NEW n \in Nat, NEW us \in [1..n -> Units]
  PROVE  IsList(FlattenSeq(us))
<1>1. \A i \in 1..n : IsList(us[i])
      <2>1. \A u \in Units : IsList(u)
            BY ReadLoopAssumption DEF ReadLoopAssumption, IsList
      <2> QED
          BY <2>1
<1> QED
    BY <1>1, LinesAreAList

\* Without its last symbol.
LEMMA ShortIsAList ==
  ASSUME NEW s, IsList(s)
  PROVE  IsList(SubSeq(s, 1, Len(s) - 1))
<1>1. Len(s) \in Nat /\ s \in Seq(ToSet(s))
      BY Lengths
<1>2. \A i \in 1..Len(s) - 1 : s[i] \in ToSet(s)
      BY <1>1
<1>3. SubSeq(s, 1, Len(s) - 1) \in Seq(ToSet(s))
      BY <1>1, <1>2, SubSeqProperties
<1> QED
    BY <1>3 DEF IsList

LEMMA NextLoopInv ==
  ASSUME LoopInv, [LoopNext]_loopVars
  PROVE  LoopInv'
<1>1. IsList(raw) /\ IsList(SubSeq(raw, 1, Len(raw) - 1))
      BY ShortIsAList DEF LoopInv
<1>2. ASSUME NEW n \in 0..MaxUnits - typed, NEW us \in [1..n -> Units], EnterCommand(n, FlattenSeq(us)) PROVE LoopInv'
      <2> DEFINE line == FlattenSeq(us)
      <2>1. IsList(line)
            BY TypedIsAList
      <2> HIDE DEF line
      <2>2. UNCHANGED <<raw, ran>> \/ NextLine(line)
            BY <1>2 DEF EnterCommand, line
      <2> QED
          BY <2>1, <2>2, NextLineKeeps DEF LoopInv
<1>3. ASSUME NEW n \in 0..MaxUnits - typed, NEW us \in [1..n -> Units], EnterContinuation(n, FlattenSeq(us)) PROVE LoopInv'
      <2> DEFINE line == FlattenSeq(us)
                 all == IF reader = "repl" THEN raw \o <<NL>> \o line ELSE SubSeq(raw, 1, Len(raw) - 1) \o line
      <2>1. IsList(line) /\ IsList(<<NL>>)
            BY TypedIsAList, OneRowIsAList
      <2>2. NextLine(all)
            BY <1>3 DEF EnterContinuation
      <2> HIDE DEF line
      <2>3. IsList(all)
            <3>1. IsList(raw \o <<NL>>)
                  BY <1>1, <2>1, Concatenated
            <3>2. IsList(raw \o <<NL>> \o line) /\ IsList(SubSeq(raw, 1, Len(raw) - 1) \o line)
                  BY <1>1, <2>1, <3>1, Concatenated
            <3> QED
                BY <3>2
      <2> HIDE DEF all
      <2> QED
          BY <2>2, <2>3, NextLineKeeps
<1>4. ASSUME NEW n \in 0..MaxUnits - typed, NEW us \in [1..n -> Units], EnterBody(n, FlattenSeq(us)) PROVE LoopInv'
      <2>1. UNCHANGED raw /\ (UNCHANGED ran \/ RunCommand(raw, heredocs))
            BY <1>4 DEF EnterBody
      <2>2. CASE UNCHANGED ran
            BY <2>1, <2>2 DEF LoopInv
      <2>3. CASE RunCommand(raw, heredocs)
            BY <2>1, <2>3, RunsParsed DEF LoopInv
      <2> QED
          BY <2>1, <2>2, <2>3
<1>5. CASE EndAtPrompt
      BY <1>5 DEF EndAtPrompt, LoopInv
<1>6. CASE EndInContinuation
      <2> DEFINE all == IF reader = "repl" THEN raw ELSE SubSeq(raw, 1, Len(raw) - 1)
      <2>1. Accept(all) /\ IsList(all)
            BY <1>1, <1>6 DEF EndInContinuation
      <2> HIDE DEF all
      <2> QED
          BY <2>1, AcceptKeeps
<1>7. CASE EndInBody
      BY <1>7 DEF EndInBody, LoopInv, Nothing
<1>8. CASE UNCHANGED loopVars
      BY <1>8 DEF loopVars, LoopInv
<1> QED
    BY <1>2, <1>3, <1>4, <1>5, <1>6, <1>7, <1>8 DEF LoopNext

\* Whatever is typed, continued, recalled or ended: a line of the loop that
\* is_input_complete let pass, without a backslash or a comment, is one in which
\* parse_command_line finds no fault (src/repl.cpp, src/core/parser.cpp).
THEOREM CompleteLinesParse == LoopSpec => []AcceptedLinesParse
<1>1. LoopInit => LoopInv
      <2>1. IsList(<<>>)
            BY OneRowIsAList
      <2> QED
          BY <2>1 DEF LoopInit, LoopInv, Nothing
<1>2. LoopInv /\ [LoopNext]_loopVars => LoopInv'
      BY NextLoopInv
<1>3. LoopInv => AcceptedLinesParse
      <2> SUFFICES ASSUME LoopInv, ran.kind = "commands", ran.text = JoinedLines(raw), IsInputComplete(raw),
                          ToSet(raw) \cap {"\\", "#"} = {}
                   PROVE  ran.errors = {}
          BY DEF AcceptedLinesParse
      <2>1. IsList(raw) /\ ran.errors = ParseCommandLine(JoinedLines(raw)).errors
            BY DEF LoopInv
      <2>2. "\\" \notin ToSet(raw) /\ "#" \notin ToSet(raw)
            OBVIOUS
      <2> QED
          BY <2>1, <2>2, CompleteParses
<1> QED
    BY <1>1, <1>2, <1>3, PTL DEF LoopSpec

-----------------------------------------------------------------------------
(* What the decoder and the stream make of a reply.                         *)

\* Symbols: those of a text and what its escapes can mean.
IsAlphabet(C) == {"newline", "\"", "\\", ":", ",", "{", "}", "[", "]", "7"} \subseteq C
Decoders(C) ==
  [mode : {"idle", "content"}, quoted : BOOLEAN, inKey : BOOLEAN, key : Seq(C), escape : BOOLEAN,
   unicode : BOOLEAN, objects : Nat, arrays : Nat, out : Seq(C)]

LEMMA HandleCharDecodes ==
  ASSUME NEW C, IsAlphabet(C), NEW d \in Decoders(C), NEW c \in C
  PROVE  HandleChar(d, c) \in Decoders(C)
<1> DEFINE W == Seq(C)
           D == Decoders(C)
<1>1. /\ d.mode \in {"idle", "content"} /\ d.quoted \in BOOLEAN /\ d.inKey \in BOOLEAN /\ d.escape \in BOOLEAN
      /\ d.unicode \in BOOLEAN /\ d.objects \in Nat /\ d.arrays \in Nat
      BY DEF Decoders
<1>2. d.key \in W /\ d.out \in W /\ Append(d.key, c) \in W /\ <<>> \in W
      BY DEF Decoders
<1>3. D = [mode : {"idle", "content"}, quoted : BOOLEAN, inKey : BOOLEAN, key : W, escape : BOOLEAN,
           unicode : BOOLEAN, objects : Nat, arrays : Nat, out : W]
      BY DEF Decoders
<1>4. \A x \in D, e \in C : Emit(x, e) \in D
      <2> TAKE x \in D, e \in C
      <2>1. x.out \in W /\ Append(x.out, e) \in W
            BY <1>3
      <2> HIDE DEF W, D
      <2> QED
          BY <1>3, <2>1 DEF Emit
<1>5. (IF c \in DOMAIN Meaning THEN Meaning[c] ELSE c) \in C
      BY DEF Meaning, IsAlphabet
<1> HIDE DEF W, D
<1>6. d \in D
      BY DEF D
<1>7. [d EXCEPT !.unicode = FALSE] \in D /\ [d EXCEPT !.escape = FALSE] \in D
      BY <1>3, <1>6
<1>8. AfterEscape(d, c) \in D
      <2>1. [d EXCEPT !.escape = FALSE, !.unicode = TRUE] \in D
            BY <1>3, <1>6
      <2> QED
          BY <1>4, <1>5, <1>7, <2>1 DEF AfterEscape
<1>9. InString(d, c) \in D
      <2>1. [d EXCEPT !.escape = TRUE] \in D /\ [d EXCEPT !.mode = "idle", !.quoted = FALSE, !.inKey = FALSE] \in D
            BY <1>3, <1>6
      <2>2. [d EXCEPT !.key = Append(@, c)] \in D
            BY <1>2, <1>3, <1>6
      <2> QED
          BY <1>4, <1>6, <2>1, <2>2 DEF InString
<1>10. Outside(d, c) \in D
      <2>1. OpensString(d) \in D
            BY <1>2, <1>3, <1>6 DEF OpensString
      <2>2. /\ [d EXCEPT !.objects = @ + 1] \in D /\ [d EXCEPT !.objects = IF @ > 0 THEN @ - 1 ELSE 0] \in D
            /\ [d EXCEPT !.arrays = @ + 1] \in D /\ [d EXCEPT !.arrays = IF @ > 0 THEN @ - 1 ELSE 0] \in D
            BY <1>1, <1>3, <1>6
      <2>3. /\ [d EXCEPT !.key = <<>>, !.mode = IF AtRoot(d) /\ d.key = <<"content">> THEN "content" ELSE @] \in D
            /\ [d EXCEPT !.key = <<>>] \in D
            BY <1>1, <1>2, <1>3, <1>6
      <2> QED
          BY <1>6, <2>1, <2>2, <2>3 DEF Outside
<1> QED
    BY <1>4, <1>7, <1>8, <1>9, <1>10 DEF HandleChar, D

\* A text fed symbol by symbol, or in pieces.
FedBy(V, C) ==
  /\ \A d \in V : Feed(d, <<>>) = d
  /\ \A d \in V, s \in Seq(C) : Feed(d, s) \in V
  /\ \A d \in V, s \in Seq(C), c \in C : Feed(d, Append(s, c)) = HandleChar(Feed(d, s), c)
  /\ \A d \in V, s \in Seq(C), t \in Seq(C) : Feed(d, s \o t) = Feed(Feed(d, s), t)

LEMMA Fed ==
  ASSUME NEW C, IsAlphabet(C)
  PROVE  FedBy(Decoders(C), C)
<1> DEFINE V == Decoders(C)
           T == [c \in C |-> [d \in V |-> HandleChar(d, c)]]
           R == [d \in V |-> [s \in Seq(C) |-> Feed(d, s)]]
<1>1. \A c \in C, d \in V : HandleChar(d, c) \in V
      BY HandleCharDecodes
<1> HIDE DEF V
<1>2. T \in [C -> [V -> V]] /\ \A c \in C, d \in V : T[c][d] = HandleChar(d, c)
      BY <1>1
<1> HIDE DEF T
<1>3. ASSUME NEW d \in V, NEW s \in Seq(C) PROVE FoldIs(Feed(d, s), s, V, d, T)
      <2> DEFINE n == Len(s)
                 F == [i \in 1..n |-> T[s[i]]]
                 Defines(f) == f = [i \in 0..n |-> IF i = 0 THEN d ELSE HandleChar(f[i - 1], s[i])]
                 r == CHOOSE f : Defines(f)
      <2>1. n \in Nat /\ \A i \in 1..n : s[i] \in C
            OBVIOUS
      <2>2. Feed(d, s) = r[n]
            BY DEF Feed
      <2> HIDE DEF n
      <2>3. PICK x : FoldIs(x, s, V, d, T)
            BY <1>2, FoldExists
      <2>4. PICK g : Recurs(g, n, V, d, F)
            BY <2>3 DEF FoldIs, n
      <2>5. g = [i \in 0..n |-> g[i]] /\ (\A i \in 0..n : g[i] \in V) /\ g[0] = d /\ \A i \in 1..n : g[i] = T[s[i]][g[i - 1]]
            BY <2>4 DEF Recurs
      <2> HIDE DEF F
      <2>6. Defines(g)
            <3>1. ASSUME NEW i \in 0..n PROVE g[i] = IF i = 0 THEN d ELSE HandleChar(g[i - 1], s[i])
                  <4>1. CASE i = 0
                        BY <2>5, <4>1
                  <4>2. CASE i # 0
                        <5>1. i \in 1..n /\ i - 1 \in 0..n
                              BY <2>1, <4>2
                        <5>2. g[i] = T[s[i]][g[i - 1]] /\ g[i - 1] \in V /\ s[i] \in C
                              BY <2>1, <2>5, <5>1
                        <5> QED
                            BY <1>2, <4>2, <5>2
                  <4> QED
                      BY <4>1, <4>2
            <3> QED
                BY <2>5, <3>1
      <2>7. Defines(r)
            <3> HIDE DEF Defines
            <3> QED
                BY <2>6
      <2> HIDE DEF r
      <2>8. r = [i \in 0..n |-> r[i]] /\ r[0] = d /\ \A i \in 1..n : r[i] = HandleChar(r[i - 1], s[i])
            <3>1. r = [i \in 0..n |-> IF i = 0 THEN d ELSE HandleChar(r[i - 1], s[i])]
                  BY <2>7
            <3>2. 0 \in 0..n /\ \A i \in 1..n : i \in 0..n /\ i # 0
                  BY <2>1
            <3> QED
                BY <3>1, <3>2
      <2>9. \A i \in 1..n : r[i - 1] \in V => r[i] = T[s[i]][r[i - 1]]
            BY <1>2, <2>1, <2>8
      <2>10. FoldIs(r[n], s, V, d, T)
            BY <1>2, <2>8, <2>9, ScanIsFold DEF n
      <2> QED
          BY <2>2, <2>10
<1>4. \A d \in V, s \in Seq(C) : R[d][s] = Feed(d, s)
      OBVIOUS
<1> HIDE DEF R
<1>5. GivesFolds(R, C, V, T)
      BY <1>3, <1>4 DEF GivesFolds
<1>6. \A d \in V :
        /\ R[d][<<>>] = d
        /\ \A s \in Seq(C) : R[d][s] \in V
        /\ \A s \in Seq(C), c \in C : R[d][Append(s, c)] = T[c][R[d][s]]
        /\ \A s, t \in Seq(C) : R[d][s \o t] = R[R[d][s]][t]
      <2>1. FoldsOn(R, C, V, T)
            BY <1>2, <1>5, FoldFacts
      <2> QED
          BY <2>1 DEF FoldsOn
<1>7. ASSUME NEW d \in V PROVE Feed(d, <<>>) = d
      <2>1. <<>> \in Seq(C)
            OBVIOUS
      <2> QED
          BY <1>4, <1>6, <2>1
<1>8. ASSUME NEW d \in V, NEW s \in Seq(C) PROVE Feed(d, s) \in V
      BY <1>4, <1>6
<1>9. ASSUME NEW d \in V, NEW s \in Seq(C), NEW c \in C PROVE Feed(d, Append(s, c)) = HandleChar(Feed(d, s), c)
      <2>1. Append(s, c) \in Seq(C)
            OBVIOUS
      <2>2. R[d][Append(s, c)] = T[c][R[d][s]]
            BY <1>6
      <2> QED
          BY <1>2, <1>4, <1>8, <2>1, <2>2
<1>10. ASSUME NEW d \in V, NEW s \in Seq(C), NEW t \in Seq(C) PROVE Feed(d, s \o t) = Feed(Feed(d, s), t)
      <2>1. s \o t \in Seq(C)
            OBVIOUS
      <2>2. R[d][s \o t] = R[R[d][s]][t]
            BY <1>6
      <2> QED
          BY <1>4, <1>8, <2>1, <2>2
<1> QED
    BY <1>7, <1>8, <1>9, <1>10 DEF FedBy, V

\* Cells of a reply, and what has been got of them: the decoder has been fed the text.
WireCell(C) == [part : Nat, prefix : {"", "data: "}, piece : Seq(C)]
Fits(got, C) == got.decoder = Feed(Idle, got.text)
Gotten(C) == {got \in [line : Seq(WireCell(C)), text : Seq(C), decoder : Decoders(C)] : Fits(got, C)}
Unread == [line |-> <<>>, text |-> <<>>, decoder |-> Idle]

LEMMA PieceOfLine ==
  ASSUME NEW C, NEW p, NEW l \in Seq(WireCell(C))
  PROVE  ParseLine(p, l) \in Seq(C)
<1> DEFINE D == WireCell(C)
<1>1. \A x \in D : x.piece \in Seq(C)
      BY DEF WireCell
<1> HIDE DEF D
<1>2. Len(l) = 2 => l[1] \in D
      <2>1. l \in Seq(D)
            BY DEF D
      <2> QED
          BY <2>1, ShortOnes
<1> QED
    BY <1>1, <1>2 DEF ParseLine

LEMMA IdleDecodes ==
  ASSUME NEW C
  PROVE  Idle \in Decoders(C)
BY DEF Idle, Decoders

\* A line read is its piece more; any other cell is one cell more.
LEMMA CellTaken ==
  ASSUME NEW C, IsAlphabet(C), NEW p, NEW c \in WireCell(C), NEW got \in Gotten(C)
  PROVE  /\ TakeCell(p, got, c) \in Gotten(C)
         /\ TakeCell(p, got, c).line = IF c = LineEnd THEN <<>> ELSE Append(got.line, c)
         /\ TakeCell(p, got, c).text = IF c = LineEnd THEN got.text \o ParseLine(p, got.line) ELSE got.text
<1> DEFINE L == Seq(WireCell(C))
           W == Seq(C)
           V == Decoders(C)
           piece == ParseLine(p, got.line)
           after == Feed(got.decoder, piece)
<1>1. /\ got.line \in L /\ got.text \in W /\ got.decoder \in V /\ got.decoder = Feed(Idle, got.text)
      /\ got = [line |-> got.line, text |-> got.text, decoder |-> got.decoder]
      BY DEF Gotten, Fits
<1>2. piece \in W /\ got.text \o piece \in W /\ Append(got.line, c) \in L /\ <<>> \in L
      BY <1>1, PieceOfLine
<1>3. after \in V /\ after = Feed(Idle, got.text \o piece)
      <2>1. Idle \in V /\ FedBy(V, C)
            BY IdleDecodes, Fed
      <2> HIDE DEF V
      <2> QED
          BY <1>1, <1>2, <2>1 DEF FedBy
<1>4. Gotten(C) = {x \in [line : L, text : W, decoder : V] : x.decoder = Feed(Idle, x.text)}
      BY DEF Gotten, Fits
<1>5. TakeCell(p, got, c) = IF c = LineEnd THEN [line |-> <<>>, text |-> got.text \o piece, decoder |-> after]
                            ELSE [line |-> Append(got.line, c), text |-> got.text, decoder |-> got.decoder]
      <2> HIDE DEF L, W, V
      <2> DEFINE more == Append(got.line, c)
      <2> HIDE DEF more
      <2>2. ASSUME NEW x, x = [got EXCEPT !.line = more] PROVE x = [line |-> more, text |-> got.text, decoder |-> got.decoder]
            BY <1>1, <2>2
      <2>1. [got EXCEPT !.line = Append(@, c)] = [line |-> Append(got.line, c), text |-> got.text, decoder |-> got.decoder]
            BY <2>2 DEF more
      <2> QED
          BY <2>1, Zenon DEF TakeCell
<1> HIDE DEF L, W, V, piece, after
<1>6. CASE c = LineEnd
      <2> DEFINE r == [line |-> <<>>, text |-> got.text \o piece, decoder |-> after]
      <2>1. TakeCell(p, got, c) = r /\ r.line = <<>> /\ r.text = got.text \o piece /\ r.decoder = after
            BY <1>5, <1>6
      <2>2. r \in [line : L, text : W, decoder : V]
            BY <1>2, <1>3
      <2> HIDE DEF r
      <2> QED
          BY <1>3, <1>4, <1>6, <2>1, <2>2 DEF piece
<1>7. CASE c # LineEnd
      <2> DEFINE r == [line |-> Append(got.line, c), text |-> got.text, decoder |-> got.decoder]
      <2>1. TakeCell(p, got, c) = r /\ r.line = Append(got.line, c) /\ r.text = got.text /\ r.decoder = got.decoder
            BY <1>5, <1>7
      <2>2. r \in [line : L, text : W, decoder : V]
            BY <1>1, <1>2
      <2> HIDE DEF r
      <2> QED
          BY <1>1, <1>4, <1>7, <2>1, <2>2
<1> QED
    BY <1>6, <1>7

\* Cells read one by one, or in chunks.
TakenBy(p, V, D) ==
  /\ \A g \in V : TakeCells(p, g, <<>>) = g
  /\ \A g \in V, s \in Seq(D) : TakeCells(p, g, s) \in V
  /\ \A g \in V, s \in Seq(D), c \in D : TakeCells(p, g, Append(s, c)) = TakeCell(p, TakeCells(p, g, s), c)
  /\ \A g \in V, s \in Seq(D), t \in Seq(D) : TakeCells(p, g, s \o t) = TakeCells(p, TakeCells(p, g, s), t)

LEMMA Taken ==
  ASSUME NEW C, IsAlphabet(C), NEW p
  PROVE  TakenBy(p, Gotten(C), WireCell(C))
<1> DEFINE V == Gotten(C)
           D == WireCell(C)
           T == [c \in D |-> [d \in V |-> TakeCell(p, d, c)]]
           R == [d \in V |-> [s \in Seq(D) |-> TakeCells(p, d, s)]]
<1>1. \A c \in D, d \in V : TakeCell(p, d, c) \in V
      BY CellTaken
<1> HIDE DEF V, D
<1>2. T \in [D -> [V -> V]] /\ \A c \in D, d \in V : T[c][d] = TakeCell(p, d, c)
      BY <1>1
<1> HIDE DEF T
<1>3. ASSUME NEW d \in V, NEW s \in Seq(D) PROVE FoldIs(TakeCells(p, d, s), s, V, d, T)
      <2> DEFINE n == Len(s)
                 F == [i \in 1..n |-> T[s[i]]]
                 Defines(f) == f = [i \in 0..n |-> IF i = 0 THEN d ELSE TakeCell(p, f[i - 1], s[i])]
                 r == CHOOSE f : Defines(f)
      <2>1. n \in Nat /\ \A i \in 1..n : s[i] \in D
            OBVIOUS
      <2>2. TakeCells(p, d, s) = r[n]
            BY DEF TakeCells
      <2> HIDE DEF n
      <2>3. PICK x : FoldIs(x, s, V, d, T)
            BY <1>2, FoldExists
      <2>4. PICK g : Recurs(g, n, V, d, F)
            BY <2>3 DEF FoldIs, n
      <2>5. g = [i \in 0..n |-> g[i]] /\ (\A i \in 0..n : g[i] \in V) /\ g[0] = d /\ \A i \in 1..n : g[i] = T[s[i]][g[i - 1]]
            BY <2>4 DEF Recurs
      <2> HIDE DEF F
      <2>6. Defines(g)
            <3>1. ASSUME NEW i \in 0..n PROVE g[i] = IF i = 0 THEN d ELSE TakeCell(p, g[i - 1], s[i])
                  <4>1. CASE i = 0
                        BY <2>5, <4>1
                  <4>2. CASE i # 0
                        <5>1. i \in 1..n /\ i - 1 \in 0..n
                              BY <2>1, <4>2
                        <5>2. g[i] = T[s[i]][g[i - 1]] /\ g[i - 1] \in V /\ s[i] \in D
                              BY <2>1, <2>5, <5>1
                        <5> QED
                            BY <1>2, <4>2, <5>2
                  <4> QED
                      BY <4>1, <4>2
            <3> QED
                BY <2>5, <3>1
      <2>7. Defines(r)
            <3> HIDE DEF Defines
            <3> QED
                BY <2>6
      <2> HIDE DEF r
      <2>8. r = [i \in 0..n |-> r[i]] /\ r[0] = d /\ \A i \in 1..n : r[i] = TakeCell(p, r[i - 1], s[i])
            <3>1. r = [i \in 0..n |-> IF i = 0 THEN d ELSE TakeCell(p, r[i - 1], s[i])]
                  BY <2>7
            <3>2. 0 \in 0..n /\ \A i \in 1..n : i \in 0..n /\ i # 0
                  BY <2>1
            <3> QED
                BY <3>1, <3>2
      <2>9. \A i \in 1..n : r[i - 1] \in V => r[i] = T[s[i]][r[i - 1]]
            BY <1>2, <2>1, <2>8
      <2>10. FoldIs(r[n], s, V, d, T)
            BY <1>2, <2>8, <2>9, ScanIsFold DEF n
      <2> QED
          BY <2>2, <2>10
<1>4. \A d \in V, s \in Seq(D) : R[d][s] = TakeCells(p, d, s)
      OBVIOUS
<1> HIDE DEF R
<1>5. GivesFolds(R, D, V, T)
      BY <1>3, <1>4 DEF GivesFolds
<1>6. \A d \in V :
        /\ R[d][<<>>] = d
        /\ \A s \in Seq(D) : R[d][s] \in V
        /\ \A s \in Seq(D), c \in D : R[d][Append(s, c)] = T[c][R[d][s]]
        /\ \A s, t \in Seq(D) : R[d][s \o t] = R[R[d][s]][t]
      <2>1. FoldsOn(R, D, V, T)
            BY <1>2, <1>5, FoldFacts
      <2> QED
          BY <2>1 DEF FoldsOn
<1>7. ASSUME NEW d \in V PROVE TakeCells(p, d, <<>>) = d
      <2>1. <<>> \in Seq(D)
            OBVIOUS
      <2> QED
          BY <1>4, <1>6, <2>1
<1>8. ASSUME NEW d \in V, NEW s \in Seq(D) PROVE TakeCells(p, d, s) \in V
      BY <1>4, <1>6
<1>9. ASSUME NEW d \in V, NEW s \in Seq(D), NEW c \in D PROVE TakeCells(p, d, Append(s, c)) = TakeCell(p, TakeCells(p, d, s), c)
      <2>1. Append(s, c) \in Seq(D)
            OBVIOUS
      <2>2. R[d][Append(s, c)] = T[c][R[d][s]]
            BY <1>6
      <2> QED
          BY <1>2, <1>4, <1>8, <2>1, <2>2
<1>10. ASSUME NEW d \in V, NEW s \in Seq(D), NEW t \in Seq(D) PROVE TakeCells(p, d, s \o t) = TakeCells(p, TakeCells(p, d, s), t)
      <2>1. s \o t \in Seq(D)
            OBVIOUS
      <2>2. R[d][s \o t] = R[R[d][s]][t]
            BY <1>6
      <2> QED
          BY <1>4, <1>8, <2>1, <2>2
<1> QED
    BY <1>7, <1>8, <1>9, <1>10 DEF TakenBy, V, D

Half(k, prefix, piece) == [part |-> k, prefix |-> prefix, piece |-> piece]

AreHalves(p, piece, a, b, D) ==
  /\ a \in D /\ b \in D /\ LineEnd \in D /\ a # LineEnd /\ b # LineEnd
  /\ LineCells(Prefix(p), piece) = Append(<<a, b>>, LineEnd)
  /\ ParseLine(p, <<a, b>>) = piece /\ ParseLine(p, <<>>) = <<>>

LEMMA HalvesAreCells ==
  ASSUME NEW C, NEW p, NEW piece \in Seq(C)
  PROVE  AreHalves(p, piece, Half(1, Prefix(p), piece), Half(2, Prefix(p), piece), WireCell(C))
<1> DEFINE a == Half(1, Prefix(p), piece)
           b == Half(2, Prefix(p), piece)
<1>1. Prefix(p) \in {"", "data: "}
      BY DEF Prefix
<1>2. a \in WireCell(C) /\ b \in WireCell(C) /\ LineEnd \in WireCell(C)
      <2> DEFINE W == Seq(C)
      <2>1. piece \in W /\ <<>> \in W
            OBVIOUS
      <2> HIDE DEF W
      <2>2. a \in [part : Nat, prefix : {"", "data: "}, piece : W] /\ b \in [part : Nat, prefix : {"", "data: "}, piece : W]
            BY <1>1, <2>1 DEF Half
      <2>3. LineEnd \in [part : Nat, prefix : {"", "data: "}, piece : W]
            BY <2>1 DEF LineEnd
      <2> QED
          BY <2>2, <2>3 DEF WireCell, W
<1>3. a.part = 1 /\ b.part = 2 /\ a.prefix = Prefix(p) /\ a.piece = piece /\ LineEnd.part = 0
      BY DEF Half, LineEnd
<1>4. LineCells(Prefix(p), piece) = <<a, b, LineEnd>>
      BY DEF LineCells, Half
<1> HIDE DEF a, b
<1>5. <<a, b, LineEnd>> = Append(<<a, b>>, LineEnd)
      OBVIOUS
<1>6. ParseLine(p, <<a, b>>) = piece
      <2> DEFINE l == <<a, b>>
      <2>1. Len(l) = 2 /\ l[1] = a /\ l[2] = b
            OBVIOUS
      <2> HIDE DEF l
      <2>2. ParseLine(p, l) = piece
            BY <1>3, <2>1 DEF ParseLine
      <2> QED
          BY <2>2 DEF l
<1>7. ParseLine(p, <<>>) = <<>>
      BY DEF ParseLine
<1>8. a # LineEnd /\ b # LineEnd
      BY <1>3
<1> QED
    BY <1>2, <1>4, <1>5, <1>6, <1>7, <1>8 DEF AreHalves, a, b

\* What reading a cell does, for any cell and anything got before.
CellsAct(p, D, V) ==
  /\ \A g \in V : g.line \in Seq(D)
  /\ \A g \in V, c \in D :
       /\ TakeCell(p, g, c) \in V
       /\ c # LineEnd => TakeCell(p, g, c).line = Append(g.line, c) /\ TakeCell(p, g, c).text = g.text
       /\ c = LineEnd => TakeCell(p, g, c).line = <<>> /\ TakeCell(p, g, c).text = g.text \o ParseLine(p, g.line)
  /\ TakenBy(p, V, D)

LEMMA CellsDoAct ==
  ASSUME NEW C, IsAlphabet(C), NEW p
  PROVE  CellsAct(p, WireCell(C), Gotten(C))
<1>1. \A g \in Gotten(C) : g.line \in Seq(WireCell(C))
      BY DEF Gotten
<1>2. ASSUME NEW g \in Gotten(C), NEW c \in WireCell(C)
      PROVE  /\ TakeCell(p, g, c) \in Gotten(C)
             /\ c # LineEnd => TakeCell(p, g, c).line = Append(g.line, c) /\ TakeCell(p, g, c).text = g.text
             /\ c = LineEnd => TakeCell(p, g, c).line = <<>> /\ TakeCell(p, g, c).text = g.text \o ParseLine(p, g.line)
      <2>1. /\ TakeCell(p, g, c) \in Gotten(C)
            /\ TakeCell(p, g, c).line = IF c = LineEnd THEN <<>> ELSE Append(g.line, c)
            /\ TakeCell(p, g, c).text = IF c = LineEnd THEN g.text \o ParseLine(p, g.line) ELSE g.text
            BY CellTaken
      <2> QED
          BY <2>1
<1> QED
    BY <1>1, <1>2, Taken DEF CellsAct

\* A line of a piece, without its end and with it.
Halves(p, piece) == <<Half(1, Prefix(p), piece), Half(2, Prefix(p), piece)>>
LineReads(p, got, piece, D) ==
  /\ Halves(p, piece) \in Seq(D) /\ LineCells(Prefix(p), piece) = Append(Halves(p, piece), LineEnd) /\ LineEnd \in D
  /\ TakeCells(p, got, Halves(p, piece)).line # <<>> /\ TakeCells(p, got, Halves(p, piece)).text = got.text
  /\ LineCells(Prefix(p), piece) \in Seq(D)
  /\ TakeCells(p, got, LineCells(Prefix(p), piece)).line = <<>>
  /\ TakeCells(p, got, LineCells(Prefix(p), piece)).text = got.text \o piece

LEMMA LineTaken ==
  ASSUME NEW C, IsAlphabet(C), NEW p, NEW got \in Gotten(C), got.line = <<>>, NEW piece \in Seq(C)
  PROVE  LineReads(p, got, piece, WireCell(C))
<1> DEFINE D == WireCell(C)
           a == Half(1, Prefix(p), piece)
           b == Half(2, Prefix(p), piece)
           V == Gotten(C)
           x == TakeCells(p, got, <<a>>)
           y == TakeCells(p, got, <<a, b>>)
           z == TakeCells(p, got, LineCells(Prefix(p), piece))
<1>1. AreHalves(p, piece, a, b, D) /\ CellsAct(p, D, V) /\ got \in V
      BY HalvesAreCells, CellsDoAct
<1> HIDE DEF D, V, a, b
<1>3. CellsAct(p, D, V) /\ TakenBy(p, V, D) /\ TakeCells(p, got, <<>>) = got
      BY <1>1 DEF CellsAct, TakenBy
<1>0. /\ a \in D /\ b \in D /\ LineEnd \in D /\ a # LineEnd /\ b # LineEnd
      /\ LineCells(Prefix(p), piece) = Append(<<a, b>>, LineEnd) /\ ParseLine(p, <<a, b>>) = piece
      BY <1>1, Zenon DEF AreHalves
<1>2. /\ <<>> \in Seq(D) /\ <<a>> \in Seq(D) /\ <<a, b>> \in Seq(D) /\ Append(<<a, b>>, LineEnd) \in Seq(D)
      /\ Append(<<>>, a) = <<a>> /\ Append(<<a>>, b) = <<a, b>>
      <2>1. a \in D /\ b \in D /\ LineEnd \in D
            BY <1>0
      <2>2. <<>> \in Seq(D) /\ <<a>> \in Seq(D) /\ <<a, b>> \in Seq(D)
            BY <2>1
      <2>3. Append(<<>>, a) = <<a>>
            BY <2>1, <2>2
      <2>5. Append(<<a>>, b) = <<a, b>>
            BY <2>1, TwoAppended
      <2>4. Append(<<a, b>>, LineEnd) \in Seq(D)
            BY <2>1, <2>2, AppendProperties
      <2> QED
          BY <2>2, <2>3, <2>4, <2>5
<1>4. x = TakeCell(p, got, a)
      <2>1. TakeCells(p, got, Append(<<>>, a)) = TakeCell(p, TakeCells(p, got, <<>>), a)
            BY <1>0, <1>1, <1>2, <1>3 DEF TakenBy
      <2> QED
          BY <1>2, <1>3, <2>1
<1>5. y = TakeCell(p, x, b)
      <2>1. TakeCells(p, got, Append(<<a>>, b)) = TakeCell(p, TakeCells(p, got, <<a>>), b)
            BY <1>0, <1>1, <1>2, <1>3 DEF TakenBy
      <2> QED
          BY <1>2, <2>1
<1>6. z = TakeCell(p, y, LineEnd)
      <2>1. TakeCells(p, got, Append(<<a, b>>, LineEnd)) = TakeCell(p, TakeCells(p, got, <<a, b>>), LineEnd)
            BY <1>0, <1>1, <1>2, <1>3 DEF TakenBy
      <2> QED
          BY <1>0, <2>1
<1>7. x \in V /\ y \in V
      BY <1>0, <1>1, <1>2, <1>3 DEF TakenBy
<1> HIDE DEF x, y, z
<1>8. x.line = Append(got.line, a) /\ x.text = got.text
      BY <1>0, <1>1, <1>3, <1>4 DEF CellsAct
<1>9. y.line = Append(x.line, b) /\ y.text = x.text
      BY <1>0, <1>1, <1>3, <1>5, <1>7 DEF CellsAct
<1>10. z.line = <<>> /\ z.text = y.text \o ParseLine(p, y.line)
      BY <1>0, <1>1, <1>3, <1>6, <1>7 DEF CellsAct
<1>11. y.line = <<a, b>>
      BY <1>2, <1>8, <1>9
<1>12. <<a, b>> # <<>>
      OBVIOUS
<1>13. Halves(p, piece) = <<a, b>>
      BY DEF Halves, a, b
<1> QED
    BY <1>0, <1>2, <1>8, <1>9, <1>10, <1>11, <1>12, <1>13 DEF LineReads, D, y, z

\* Empty lines carry nothing.
Blanks(n) == [i \in 1..n |-> LineEnd]
BlanksRead(p, got, n, D) ==
  Blanks(n) \in Seq(D) /\ TakeCells(p, got, Blanks(n)).line = <<>> /\ TakeCells(p, got, Blanks(n)).text = got.text

LEMMA BlanksTaken ==
  ASSUME NEW C, IsAlphabet(C), NEW p, NEW got \in Gotten(C), got.line = <<>>, NEW n \in Nat
  PROVE  BlanksRead(p, got, n, WireCell(C))
<1> DEFINE D == WireCell(C)
           V == Gotten(C)
           B(k) == [i \in 1..k |-> LineEnd]
           X(k) == TakeCells(p, got, B(k))
           S == {k \in Nat : B(k) \in Seq(D) /\ X(k).line = <<>> /\ X(k).text = got.text}
<1>0. CellsAct(p, D, V) /\ got \in V /\ LineEnd \in D /\ ParseLine(p, <<>>) = <<>>
      <2>1. <<>> \in Seq(C)
            OBVIOUS
      <2>2. AreHalves(p, <<>>, Half(1, Prefix(p), <<>>), Half(2, Prefix(p), <<>>), D)
            BY <2>1, HalvesAreCells
      <2> HIDE DEF D
      <2>3. LineEnd \in D /\ ParseLine(p, <<>>) = <<>>
            BY <2>2, Zenon DEF AreHalves
      <2> QED
          BY <2>3, CellsDoAct DEF D
<1>5. \A g \in V : g.text \in Seq(C) /\ g.text \o <<>> = g.text
      <2>1. \A g \in V : g.text \in Seq(C)
            BY DEF Gotten
      <2> QED
          BY <2>1
<1> HIDE DEF D, V
<1>1. LineEnd \in D /\ ParseLine(p, <<>>) = <<>> /\ CellsAct(p, D, V) /\ TakenBy(p, V, D) /\ got \in V /\ TakeCells(p, got, <<>>) = got
      BY <1>0 DEF CellsAct, TakenBy
<1>2. 0 \in S
      <2>1. B(0) = <<>> /\ <<>> \in Seq(D)
            OBVIOUS
      <2> QED
          BY <1>1, <2>1
<1>3. \A k \in Nat : k \in S => k + 1 \in S
      <2> SUFFICES ASSUME NEW k \in Nat, k \in S PROVE k + 1 \in S
          OBVIOUS
      <2>1. B(k) \in Seq(D) /\ X(k).line = <<>> /\ X(k).text = got.text
            OBVIOUS
      <2>2. B(k + 1) = Append(B(k), LineEnd) /\ B(k + 1) \in Seq(D)
            <3>1. Len(B(k)) = k
                  OBVIOUS
            <3>2. B(k + 1) \in Seq(D)
                  BY <1>1
            <3> QED
                BY <2>1, <3>1, <3>2
      <2> DEFINE u == B(k)
                 v == B(k + 1)
                 x == TakeCells(p, got, u)
                 y == TakeCells(p, got, v)
      <2>3. u \in Seq(D) /\ v = Append(u, LineEnd) /\ x.line = <<>> /\ x.text = got.text
            BY <2>1, <2>2
      <2> HIDE DEF u, v
      <2>4. x \in V /\ y = TakeCell(p, x, LineEnd)
            BY <1>1, <2>3 DEF TakenBy
      <2> HIDE DEF x, y
      <2>5. y.line = <<>> /\ y.text = x.text \o ParseLine(p, x.line)
            BY <1>1, <2>4 DEF CellsAct
      <2>6. y.line = <<>> /\ y.text = got.text
            BY <1>1, <1>5, <2>3, <2>4, <2>5
      <2> QED
          BY <2>2, <2>6 DEF y, v
<1> HIDE DEF S
<1>4. n \in S
      <2>1. \A k \in Nat : k \in S
            BY <1>2, <1>3, NatBySet
      <2> QED
          BY <2>1
<1> QED
    BY <1>4 DEF S, X, B, D, BlanksRead, Blanks

LEMMA FrontAppended ==
  ASSUME NEW D, NEW s \in Seq(D), NEW e \in D
  PROVE  Front(Append(s, e)) = s
<1> DEFINE t == Append(s, e)
           n == Len(s)
<1>1. t \in Seq(D) /\ Len(t) = n + 1 /\ n \in Nat /\ \A i \in 1..n : t[i] = s[i]
      OBVIOUS
<1> HIDE DEF t
<1>2. Front(t) = SubSeq(t, 1, n)
      BY <1>1 DEF Front
<1>3. SubSeq(t, 1, n) \in Seq(D) /\ Len(SubSeq(t, 1, n)) = n /\ \A i \in 1..n : SubSeq(t, 1, n)[i] = t[i]
      BY <1>1
<1> DEFINE u == SubSeq(t, 1, n)
<1>4. u \in Seq(D) /\ Len(u) = Len(s) /\ \A i \in 1..Len(s) : u[i] = s[i]
      BY <1>1, <1>3
<1> HIDE DEF u
<1>5. u = s
      BY <1>4, SameSeq
<1> QED
    BY <1>2, <1>5 DEF u, t

\* A text and what has been got of it: a part up to some cut while a line is open,
\* all of it when none is.
Comes(got, text) ==
  /\ \E cut \in 0..Len(text) : got.text = SubSeq(text, 1, cut)
  /\ got.line = <<>> => got.text = text

LEMMA CellsCome ==
  ASSUME NEW C, IsAlphabet(C), NEW p, NEW text \in Seq(C), NEW cut \in Nat, cut <= Len(text), NEW blanks \in Nat
  PROVE  LET cells == Cells(p, text, cut, blanks)
         IN /\ cells \in Seq(WireCell(C)) /\ Front(cells) \in Seq(WireCell(C))
            /\ Comes(TakeCells(p, Unread, cells), text) /\ Comes(TakeCells(p, Unread, Front(cells)), text)
<1> DEFINE D == WireCell(C)
           V == Gotten(C)
           first == SubSeq(text, 1, cut)
           second == SubSeq(text, cut + 1, Len(text))
           X == LineCells(Prefix(p), first)
           B == Blanks(blanks)
           Y == LineCells(Prefix(p), second)
           H == Halves(p, second)
           cells == Cells(p, text, cut, blanks)
           g1 == TakeCells(p, Unread, X)
           g2 == TakeCells(p, g1, B)
           g3 == TakeCells(p, g2, Y)
           g4 == TakeCells(p, g2, H)
<1>1. first \in Seq(C) /\ second \in Seq(C) /\ first \o second = text /\ text = SubSeq(text, 1, Len(text)) /\ cut \in 0..Len(text)
      <2>1. first \in Seq(C) /\ Len(first) = cut /\ \A i \in 1..cut : first[i] = text[i]
            OBVIOUS
      <2>2. second \in Seq(C) /\ Len(second) = Len(text) - cut /\ \A i \in 1..Len(text) - cut : second[i] = text[cut + i]
            OBVIOUS
      <2>3. text = SubSeq(text, 1, Len(text)) /\ cut \in 0..Len(text) /\ Len(text) \in Nat
            OBVIOUS
      <2> HIDE DEF first, second
      <2> DEFINE all == first \o second
      <2>4. all \in Seq(C) /\ Len(all) = Len(text) /\ \A i \in 1..Len(text) : all[i] = IF i <= cut THEN first[i] ELSE second[i - cut]
            <3>1. /\ all \in Seq(C) /\ Len(all) = Len(first) + Len(second)
                  /\ \A i \in 1..Len(first) + Len(second) : all[i] = IF i <= Len(first) THEN first[i] ELSE second[i - Len(first)]
                  BY <2>1, <2>2, ConcatProperties
            <3>2. Len(first) + Len(second) = Len(text)
                  BY <2>1, <2>2, <2>3
            <3> HIDE DEF all
            <3> QED
                BY <2>1, <3>1, <3>2
      <2> HIDE DEF all
      <2>5. ASSUME NEW i \in 1..Len(text) PROVE all[i] = text[i]
            <3>1. CASE i <= cut
                  BY <2>1, <2>4, <3>1
            <3>2. CASE ~(i <= cut)
                  <4>1. i - cut \in 1..Len(text) - cut /\ cut + (i - cut) = i
                        BY <2>3, <3>2
                  <4> QED
                      BY <2>2, <2>4, <3>2, <4>1
            <3> QED
                BY <3>1, <3>2
      <2>6. all = text
            BY <2>4, <2>5, SameSeq
      <2> QED
          BY <2>1, <2>2, <2>3, <2>6 DEF all
<1>2. cells = (X \o B) \o Y
      BY DEF Cells, Blanks
<1> HIDE DEF first, second
<1>3. Unread \in V /\ Unread.line = <<>> /\ Unread.text = <<>>
      <2> DEFINE L == Seq(WireCell(C))
                 W == Seq(C)
                 Z == Decoders(C)
      <2>1. <<>> \in L /\ <<>> \in W /\ Idle \in Z /\ FedBy(Z, C)
            BY IdleDecodes, Fed
      <2>2. V = {got \in [line : L, text : W, decoder : Z] : Fits(got, C)}
            BY DEF Gotten
      <2> HIDE DEF L, W, Z, V
      <2>3. Unread.line = <<>> /\ Unread.text = <<>> /\ Unread.decoder = Idle /\ Unread \in [line : L, text : W, decoder : Z]
            BY <2>1 DEF Unread
      <2>4. Feed(Idle, <<>>) = Idle
            BY <2>1 DEF FedBy
      <2> QED
          BY <2>2, <2>3, <2>4 DEF Fits
<1>4. TakenBy(p, V, D) /\ CellsAct(p, D, V)
      BY Taken, CellsDoAct
<1>5. X \in Seq(D) /\ g1.line = <<>> /\ g1.text = <<>> \o first
      <2>1. LineReads(p, Unread, first, D)
            BY <1>1, <1>3, LineTaken
      <2> HIDE DEF D
      <2> QED
          BY <1>3, <2>1 DEF LineReads
<1>6. g1 \in V /\ g1.text = first
      <2> HIDE DEF D, V, X
      <2>1. g1 \in V
            BY <1>3, <1>4, <1>5 DEF TakenBy
      <2>2. <<>> \o first = first
            BY <1>1
      <2> QED
          BY <1>5, <2>1, <2>2
<1> HIDE DEF X, g1
<1>7. B \in Seq(D) /\ g2.line = <<>> /\ g2.text = first
      <2>1. BlanksRead(p, g1, blanks, D)
            BY <1>5, <1>6, BlanksTaken
      <2> HIDE DEF D, B
      <2> QED
          BY <1>6, <2>1 DEF BlanksRead, B
<1> HIDE DEF B
<1>8. g2 \in V
      <2> HIDE DEF D, V
      <2> QED
          BY <1>4, <1>6, <1>7 DEF TakenBy
<1> HIDE DEF g2
<1>9. /\ H \in Seq(D) /\ Y \in Seq(D) /\ g4.line # <<>> /\ g4.text = first /\ g3.line = <<>> /\ g3.text = text
      /\ Y = Append(H, LineEnd) /\ LineEnd \in D
      <2>1. LineReads(p, g2, second, D)
            BY <1>1, <1>7, <1>8, LineTaken
      <2> HIDE DEF D, V
      <2> QED
          BY <1>1, <1>7, <2>1 DEF LineReads
<1> HIDE DEF H, Y, D, V
<1> DEFINE Z == X \o B
<1>11. Z \in Seq(D) /\ Z \o Y = Append(Z \o H, LineEnd) /\ Z \o H \in Seq(D) /\ Z \o Y \in Seq(D)
      <2>1. Z \in Seq(D)
            BY <1>5, <1>7
      <2> HIDE DEF Z
      <2> QED
          BY <1>9, <2>1
<1>12. Front(Z \o Y) = Z \o H
      <2> DEFINE u == Z \o H
      <2>1. u \in Seq(D) /\ Z \o Y = Append(u, LineEnd) /\ LineEnd \in D
            BY <1>9, <1>11
      <2> HIDE DEF u
      <2>2. Front(Append(u, LineEnd)) = u
            BY <2>1, FrontAppended
      <2> QED
          BY <2>1, <2>2 DEF u
<1>13. TakeCells(p, Unread, Z) = g2
      BY <1>3, <1>4, <1>5, <1>7 DEF TakenBy, g2, g1
<1> HIDE DEF Z
<1>14. TakeCells(p, Unread, Z \o Y) = g3 /\ TakeCells(p, Unread, Z \o H) = g4
      BY <1>3, <1>4, <1>9, <1>11, <1>13 DEF TakenBy
<1> HIDE DEF g3, g4, cells
<1>15. cells = Z \o Y /\ Front(cells) = Z \o H
      BY <1>2, <1>12 DEF Z
<1>16. Comes(g3, text)
      <2>1. Len(text) \in 0..Len(text)
            OBVIOUS
      <2> QED
          BY <1>1, <1>9, <2>1 DEF Comes
<1>17. Comes(g4, text)
      BY <1>1, <1>9 DEF Comes, first
<1> QED
    BY <1>11, <1>14, <1>15, <1>16, <1>17 DEF cells, D

-----------------------------------------------------------------------------
(* What the decoder makes of a text.                                        *)

\* A text takes a decoder from some state of X to one of Y.
Carries(X, Y, t) == \A d \in X : Feed(d, t) \in Y

LEMMA CarriesOne ==
  ASSUME NEW C, IsAlphabet(C), NEW X \in SUBSET Decoders(C), NEW Y, NEW c \in C, \A d \in X : HandleChar(d, c) \in Y
  PROVE  Carries(X, Y, <<c>>)
<1> DEFINE V == Decoders(C)
<1>1. FedBy(V, C) /\ X \subseteq V
      BY Fed
<1> HIDE DEF V
<1>2. <<>> \in Seq(C) /\ Append(<<>>, c) = <<c>>
      OBVIOUS
<1>3. ASSUME NEW d \in X PROVE Feed(d, <<c>>) = HandleChar(d, c)
      <2>1. d \in V /\ Feed(d, <<>>) = d
            BY <1>1 DEF FedBy
      <2>2. Feed(d, Append(<<>>, c)) = HandleChar(Feed(d, <<>>), c)
            BY <1>1, <1>2, <2>1 DEF FedBy
      <2> QED
          BY <1>2, <2>1, <2>2
<1> QED
    BY <1>3 DEF Carries

LEMMA CarriesThen ==
  ASSUME NEW C, IsAlphabet(C), NEW X \in SUBSET Decoders(C), NEW Y, NEW Z, NEW s \in Seq(C), NEW t \in Seq(C),
         Carries(X, Y, s), Carries(Y, Z, t)
  PROVE  Carries(X, Z, s \o t)
<1> DEFINE V == Decoders(C)
<1>1. FedBy(V, C) /\ X \subseteq V
      BY Fed
<1> HIDE DEF V
<1>2. ASSUME NEW d \in X PROVE Feed(d, s \o t) \in Z
      <2>1. Feed(d, s) \in Y
            BY DEF Carries
      <2>2. Feed(Feed(d, s), t) \in Z
            BY <2>1 DEF Carries
      <2>3. d \in V
            BY <1>1
      <2>4. Feed(d, s \o t) = Feed(Feed(d, s), t)
            BY <1>1, <2>3 DEF FedBy
      <2> QED
          BY <2>2, <2>4
<1> QED
    BY <1>2 DEF Carries

\* Texts one after the other take it from state to state.
LEMMA CarriesAll ==
  ASSUME NEW C, IsAlphabet(C), NEW ss \in Seq(Seq(C)), NEW X, \A i \in 0..Len(ss) : X[i] \in SUBSET Decoders(C),
         \A i \in 1..Len(ss) : Carries(X[i - 1], X[i], ss[i])
  PROVE  FlattenSeq(ss) \in Seq(C) /\ Carries(X[0], X[Len(ss)], FlattenSeq(ss))
<1> DEFINE V == Decoders(C)
           W == Seq(C)
           S == {u \in Seq(W) : Len(u) <= Len(ss) /\ (\A i \in 1..Len(u) : u[i] = ss[i]) =>
                   FlattenSeq(u) \in W /\ Carries(X[0], X[Len(u)], FlattenSeq(u))}
<1>1. FedBy(V, C)
      BY Fed
<1>2. <<>> \in S
      <2>4. FlattenSeq(<<>>) = <<>>
            BY DEF FlattenSeq
      <2>1. FlattenSeq(<<>>) = <<>> /\ <<>> \in W /\ <<>> \in Seq(W) /\ Len(<<>>) = 0 /\ 0 \in 0..Len(ss)
            BY <2>4
      <2>2. X[0] \subseteq V
            BY <2>1
      <2> HIDE DEF V
      <2>3. Carries(X[0], X[0], <<>>)
            BY <1>1, <2>2 DEF FedBy, Carries
      <2> QED
          BY <2>1, <2>3
<1>3. ASSUME NEW u \in Seq(W), NEW t \in W, u \in S PROVE Append(u, t) \in S
      <2> DEFINE v == Append(u, t)
                 n == Len(u)
      <2>1. v \in Seq(W) /\ Len(v) = n + 1 /\ v[n + 1] = t /\ n \in Nat /\ \A i \in 1..n : v[i] = u[i]
            OBVIOUS
      <2>2. FlattenSeq(v) = FlattenSeq(u) \o t
            BY FlattenMore
      <2> HIDE DEF v
      <2> SUFFICES ASSUME Len(v) <= Len(ss), \A i \in 1..Len(v) : v[i] = ss[i]
                   PROVE  FlattenSeq(v) \in W /\ Carries(X[0], X[Len(v)], FlattenSeq(v))
          BY <2>1 DEF v
      <2>3. n <= Len(ss) /\ (\A i \in 1..n : u[i] = ss[i]) /\ n + 1 \in 1..Len(ss) /\ t = ss[n + 1] /\ 0 \in 0..Len(ss)
            <3> DEFINE m == Len(ss)
            <3>1. m \in Nat /\ n + 1 <= m
                  BY <2>1
            <3>2. n <= m /\ n + 1 \in 1..m /\ 0 \in 0..m /\ n + 1 \in 1..n + 1 /\ \A i \in 1..n : i \in 1..n + 1
                  BY <2>1, <3>1
            <3>3. v[n + 1] = ss[n + 1] /\ \A i \in 1..n : v[i] = ss[i]
                  BY <2>1, <3>2
            <3> QED
                BY <2>1, <3>2, <3>3
      <2>4. FlattenSeq(u) \in W /\ Carries(X[0], X[n], FlattenSeq(u))
            BY <1>3, <2>3
      <2>5. Carries(X[n], X[n + 1], t)
            <3> DEFINE j == n + 1
            <3>1. j \in 1..Len(ss) /\ n = j - 1 /\ t = ss[j]
                  BY <2>1, <2>3
            <3> HIDE DEF j
            <3>2. Carries(X[j - 1], X[j], ss[j])
                  BY <3>1
            <3> QED
                BY <3>1, <3>2 DEF j
      <2>6. X[0] \in SUBSET Decoders(C)
            BY <2>3
      <2> HIDE DEF n
      <2>7. Carries(X[0], X[n + 1], FlattenSeq(u) \o t)
            BY <2>4, <2>5, <2>6, CarriesThen
      <2>8. FlattenSeq(u) \o t \in W
            BY <2>4
      <2> QED
          BY <2>1, <2>2, <2>7, <2>8
<1> HIDE DEF S
<1>4. ss \in S
      BY <1>2, <1>3, SeqBySet
<1> QED
    BY <1>4 DEF S

\* The decoder between two values, in a string that is or follows a key, and in the
\* content of the root.
At(k, o, a, out) ==
  [mode |-> "idle", quoted |-> FALSE, inKey |-> FALSE, key |-> k, escape |-> FALSE, unicode |-> FALSE,
   objects |-> o, arrays |-> a, out |-> out]
InKey(k, o, a, out) ==
  [mode |-> "idle", quoted |-> TRUE, inKey |-> TRUE, key |-> k, escape |-> FALSE, unicode |-> FALSE,
   objects |-> o, arrays |-> a, out |-> out]
InEscape(k, o, a, out) ==
  [mode |-> "idle", quoted |-> TRUE, inKey |-> TRUE, key |-> k, escape |-> TRUE, unicode |-> FALSE,
   objects |-> o, arrays |-> a, out |-> out]
BeforeContent(out) ==
  [mode |-> "content", quoted |-> FALSE, inKey |-> FALSE, key |-> <<>>, escape |-> FALSE, unicode |-> FALSE,
   objects |-> 1, arrays |-> 0, out |-> out]
InContent(out) ==
  [mode |-> "content", quoted |-> TRUE, inKey |-> FALSE, key |-> <<>>, escape |-> FALSE, unicode |-> FALSE,
   objects |-> 1, arrays |-> 0, out |-> out]
ContentEscape(out) ==
  [mode |-> "content", quoted |-> TRUE, inKey |-> FALSE, key |-> <<>>, escape |-> TRUE, unicode |-> FALSE,
   objects |-> 1, arrays |-> 0, out |-> out]
ContentUnicode(out) ==
  [mode |-> "content", quoted |-> TRUE, inKey |-> FALSE, key |-> <<>>, escape |-> FALSE, unicode |-> TRUE,
   objects |-> 1, arrays |-> 0, out |-> out]

OutsideDoes(k, o, a, out) ==
  /\ o >= 1 => HandleChar(At(k, o, a, out), "\"") = InKey(<<>>, o, a, out)
  /\ HandleChar(At(k, o, a, out), "{") = At(k, o + 1, a, out)
  /\ o >= 1 => HandleChar(At(k, o, a, out), "}") = At(k, o - 1, a, out)
  /\ HandleChar(At(k, o, a, out), "[") = At(k, o, a + 1, out)
  /\ a >= 1 => HandleChar(At(k, o, a, out), "]") = At(k, o, a - 1, out)
  /\ ~(o = 1 /\ a = 0 /\ k = <<"content">>) => HandleChar(At(k, o, a, out), ":") = At(<<>>, o, a, out)
  /\ HandleChar(At(<<"content">>, 1, 0, out), ":") = BeforeContent(out)
  /\ HandleChar(At(k, o, a, out), ",") = At(<<>>, o, a, out)
  /\ HandleChar(At(k, o, a, out), "7") = At(k, o, a, out)

LEMMA OutsideSteps ==
  ASSUME NEW k, NEW o \in Nat, NEW a \in Nat, NEW out
  PROVE  OutsideDoes(k, o, a, out)
<1>1. \A c : HandleChar(At(k, o, a, out), c) = Outside(At(k, o, a, out), c)
      BY DEF HandleChar, At
<1>2. o >= 1 => Outside(At(k, o, a, out), "\"") = InKey(<<>>, o, a, out)
      BY DEF Outside, OpensString, At, InKey, InEscape
<1>3. Outside(At(k, o, a, out), "{") = At(k, o + 1, a, out)
      <2>1. ASSUME NEW x, x = [At(k, o, a, out) EXCEPT !.objects = o + 1] PROVE x = At(k, o + 1, a, out)
            BY <2>1 DEF At
      <2>2. At(k, o, a, out).objects = o
            BY DEF At
      <2>3. Outside(At(k, o, a, out), "{") = [At(k, o, a, out) EXCEPT !.objects = o + 1]
            BY <2>2 DEF Outside
      <2> QED
          BY <2>1, <2>3
<1>4. o >= 1 => Outside(At(k, o, a, out), "}") = At(k, o - 1, a, out)
      <2>1. ASSUME NEW x, x = [At(k, o, a, out) EXCEPT !.objects = o - 1] PROVE x = At(k, o - 1, a, out)
            BY <2>1 DEF At
      <2>2. At(k, o, a, out).objects = o
            BY DEF At
      <2>3. o >= 1 => Outside(At(k, o, a, out), "}") = [At(k, o, a, out) EXCEPT !.objects = o - 1]
            BY <2>2 DEF Outside
      <2> QED
          BY <2>1, <2>3
<1>5. Outside(At(k, o, a, out), "[") = At(k, o, a + 1, out)
      <2>1. ASSUME NEW x, x = [At(k, o, a, out) EXCEPT !.arrays = a + 1] PROVE x = At(k, o, a + 1, out)
            BY <2>1 DEF At
      <2>2. At(k, o, a, out).arrays = a
            BY DEF At
      <2>3. Outside(At(k, o, a, out), "[") = [At(k, o, a, out) EXCEPT !.arrays = a + 1]
            BY <2>2 DEF Outside
      <2> QED
          BY <2>1, <2>3
<1>6. a >= 1 => Outside(At(k, o, a, out), "]") = At(k, o, a - 1, out)
      <2>1. ASSUME NEW x, x = [At(k, o, a, out) EXCEPT !.arrays = a - 1] PROVE x = At(k, o, a - 1, out)
            BY <2>1 DEF At
      <2>2. At(k, o, a, out).arrays = a
            BY DEF At
      <2>3. a >= 1 => Outside(At(k, o, a, out), "]") = [At(k, o, a, out) EXCEPT !.arrays = a - 1]
            BY <2>2 DEF Outside
      <2> QED
          BY <2>1, <2>3
<1>7. ~(o = 1 /\ a = 0 /\ k = <<"content">>) => Outside(At(k, o, a, out), ":") = At(<<>>, o, a, out)
      BY DEF Outside, At, AtRoot
<1>8. HandleChar(At(<<"content">>, 1, 0, out), ":") = BeforeContent(out)
      BY DEF HandleChar, Outside, At, AtRoot, BeforeContent, InContent, ContentEscape, ContentUnicode
<1>9. Outside(At(k, o, a, out), ",") = At(<<>>, o, a, out)
      BY DEF Outside, At
<1>10. Outside(At(k, o, a, out), "7") = At(k, o, a, out)
      BY DEF Outside, At
<1> QED
    BY <1>1, <1>2, <1>3, <1>4, <1>5, <1>6, <1>7, <1>8, <1>9, <1>10 DEF OutsideDoes

KeyDoes(k, o, a, out) ==
  /\ HandleChar(InKey(k, o, a, out), "\"") = At(k, o, a, out)
  /\ HandleChar(InKey(k, o, a, out), "\\") = InEscape(k, o, a, out)
  /\ \A c : c \notin {"\\", "\""} => HandleChar(InKey(k, o, a, out), c) = InKey(Append(k, c), o, a, out)
  /\ \A c : HandleChar(InEscape(k, o, a, out), c) = InKey(k, o, a, out)

LEMMA KeySteps ==
  ASSUME NEW k, NEW o \in Nat, NEW a \in Nat, NEW out
  PROVE  KeyDoes(k, o, a, out)
<1>1. \A c : HandleChar(InKey(k, o, a, out), c) = InString(InKey(k, o, a, out), c)
      BY DEF HandleChar, InKey, InEscape
<1>2. InString(InKey(k, o, a, out), "\"") = At(k, o, a, out)
      BY DEF InString, InKey, InEscape, At
<1>3. InString(InKey(k, o, a, out), "\\") = InEscape(k, o, a, out)
      BY DEF InString, InKey, InEscape
<1>4. ASSUME NEW c, c \notin {"\\", "\""} PROVE InString(InKey(k, o, a, out), c) = InKey(Append(k, c), o, a, out)
      BY <1>4 DEF InString, InKey, InEscape
<1>5. ASSUME NEW c PROVE HandleChar(InEscape(k, o, a, out), c) = InKey(k, o, a, out)
      <2>1. ASSUME NEW x, x = [InEscape(k, o, a, out) EXCEPT !.escape = FALSE] PROVE x = InKey(k, o, a, out)
            BY <2>1 DEF InKey, InEscape
      <2>2. [InEscape(k, o, a, out) EXCEPT !.escape = FALSE] = InKey(k, o, a, out)
            BY <2>1
      <2>3. HandleChar(InEscape(k, o, a, out), c) = AfterEscape(InEscape(k, o, a, out), c)
            BY DEF HandleChar, InKey, InEscape
      <2>4. InEscape(k, o, a, out).mode = "idle" /\ InKey(k, o, a, out).mode = "idle"
            BY DEF InKey, InEscape
      <2>5. \A m : Emit(InKey(k, o, a, out), m) = InKey(k, o, a, out)
            BY <2>4 DEF Emit
      <2>6. AfterEscape(InEscape(k, o, a, out), c) = Emit(InKey(k, o, a, out), IF c \in DOMAIN Meaning THEN Meaning[c] ELSE c)
            BY <2>2, <2>4, Zenon DEF AfterEscape
      <2> QED
          BY <2>3, <2>5, <2>6
<1> QED
    BY <1>1, <1>2, <1>3, <1>4, <1>5 DEF KeyDoes

ContentDoes(out) ==
  /\ HandleChar(BeforeContent(out), "\"") = InContent(out)
  /\ HandleChar(InContent(out), "\"") = At(<<>>, 1, 0, out)
  /\ HandleChar(InContent(out), "\\") = ContentEscape(out)
  /\ \A c : c \notin {"\\", "\""} =>
       HandleChar(InContent(out), c) = InContent(Append(out, c))
  /\ \A c \in DOMAIN Meaning : HandleChar(ContentEscape(out), c) = InContent(Append(out, Meaning[c]))
  /\ HandleChar(ContentEscape(out), "u") = ContentUnicode(out)
  /\ \A c : HandleChar(ContentUnicode(out), c) = InContent(Append(out, c))

LEMMA ContentSteps ==
  ASSUME NEW out
  PROVE  ContentDoes(out)
<1>1. HandleChar(BeforeContent(out), "\"") = InContent(out)
      BY DEF HandleChar, Outside, OpensString, BeforeContent, InContent, ContentEscape, ContentUnicode
<1>2. HandleChar(InContent(out), "\"") = At(<<>>, 1, 0, out)
      BY DEF HandleChar, InString, BeforeContent, InContent, ContentEscape, ContentUnicode, At
<1>3. HandleChar(InContent(out), "\\") = ContentEscape(out)
      BY DEF HandleChar, InString, BeforeContent, InContent, ContentEscape, ContentUnicode
<1>4. \A m : Emit(InContent(out), m) = InContent(Append(out, m))
      BY DEF Emit, BeforeContent, InContent, ContentEscape, ContentUnicode
<1>5. ASSUME NEW c, c \notin {"\\", "\""}
      PROVE  HandleChar(InContent(out), c) = InContent(Append(out, c))
      <2>1. HandleChar(InContent(out), c) = InString(InContent(out), c)
            BY DEF HandleChar, BeforeContent, InContent, ContentEscape, ContentUnicode
      <2>2. InContent(out).mode = "content"
            BY DEF BeforeContent, InContent, ContentEscape, ContentUnicode
      <2> QED
          BY <1>4, <1>5, <2>1, <2>2 DEF InString
<1>6. ASSUME NEW c \in DOMAIN Meaning
      PROVE  HandleChar(ContentEscape(out), c) = InContent(Append(out, Meaning[c]))
      <2>1. ASSUME NEW x, x = [ContentEscape(out) EXCEPT !.escape = FALSE] PROVE x = InContent(out)
            BY <2>1 DEF BeforeContent, InContent, ContentEscape, ContentUnicode
      <2>2. [ContentEscape(out) EXCEPT !.escape = FALSE] = InContent(out)
            BY <2>1
      <2>3. HandleChar(ContentEscape(out), c) = AfterEscape(ContentEscape(out), c)
            BY DEF HandleChar, BeforeContent, InContent, ContentEscape, ContentUnicode
      <2>4. c # "u" /\ c \in DOMAIN Meaning
            BY DEF Meaning
      <2>5. AfterEscape(ContentEscape(out), c) = Emit(InContent(out), Meaning[c])
            BY <2>2, <2>4, Zenon DEF AfterEscape
      <2> QED
          BY <1>4, <2>3, <2>5
<1>7. HandleChar(ContentEscape(out), "u") = ContentUnicode(out)
      BY DEF HandleChar, AfterEscape, BeforeContent, InContent, ContentEscape, ContentUnicode
<1>8. ASSUME NEW c PROVE HandleChar(ContentUnicode(out), c) = InContent(Append(out, c))
      <2>1. ASSUME NEW x, x = [ContentUnicode(out) EXCEPT !.unicode = FALSE] PROVE x = InContent(out)
            BY <2>1 DEF BeforeContent, InContent, ContentEscape, ContentUnicode
      <2>2. [ContentUnicode(out) EXCEPT !.unicode = FALSE] = InContent(out)
            BY <2>1
      <2>3. ContentUnicode(out).unicode
            BY DEF BeforeContent, InContent, ContentEscape, ContentUnicode
      <2>4. HandleChar(ContentUnicode(out), c) = Emit(InContent(out), c)
            BY <2>2, <2>3, Zenon DEF HandleChar
      <2> QED
          BY <1>4, <2>4
<1> QED
    BY <1>1, <1>2, <1>3, <1>5, <1>6, <1>7, <1>8 DEF ContentDoes

Ats(C, o, a, out) == {At(k, o, a, out) : k \in Seq(C)}
Keys(C, o, a, out) == {InKey(k, o, a, out) : k \in Seq(C)}
Escapes(C, o, a, out) == {InEscape(k, o, a, out) : k \in Seq(C)}

LEMMA StatesDecode ==
  ASSUME NEW C, NEW o \in Nat, NEW a \in Nat, NEW out \in Seq(C)
  PROVE  /\ \A k \in Seq(C) : At(k, o, a, out) \in Decoders(C)
         /\ \A k \in Seq(C) : InKey(k, o, a, out) \in Decoders(C) /\ InEscape(k, o, a, out) \in Decoders(C)
         /\ BeforeContent(out) \in Decoders(C) /\ InContent(out) \in Decoders(C)
         /\ ContentEscape(out) \in Decoders(C) /\ ContentUnicode(out) \in Decoders(C)
         /\ Ats(C, o, a, out) \in SUBSET Decoders(C) /\ Keys(C, o, a, out) \in SUBSET Decoders(C)
         /\ Escapes(C, o, a, out) \in SUBSET Decoders(C)
<1> DEFINE W == Seq(C)
           V == [mode : {"idle", "content"}, quoted : BOOLEAN, inKey : BOOLEAN, key : W, escape : BOOLEAN,
                 unicode : BOOLEAN, objects : Nat, arrays : Nat, out : W]
<1>1. out \in W /\ <<>> \in W /\ 1 \in Nat /\ 0 \in Nat /\ TRUE \in BOOLEAN /\ FALSE \in BOOLEAN
      OBVIOUS
<1>2. Decoders(C) = V
      BY DEF Decoders
<1> HIDE DEF W
<1>3. \A k \in W : At(k, o, a, out) \in V
      BY <1>1 DEF At
<1>4. \A k \in W : InKey(k, o, a, out) \in V /\ InEscape(k, o, a, out) \in V
      BY <1>1 DEF InKey, InEscape
<1>5. BeforeContent(out) \in V /\ InContent(out) \in V /\ ContentEscape(out) \in V /\ ContentUnicode(out) \in V
      BY <1>1 DEF BeforeContent, InContent, ContentEscape, ContentUnicode
<1> HIDE DEF V
<1>6. Ats(C, o, a, out) = {At(k, o, a, out) : k \in W} /\ Keys(C, o, a, out) = {InKey(k, o, a, out) : k \in W}
      /\ Escapes(C, o, a, out) = {InEscape(k, o, a, out) : k \in W}
      BY DEF Ats, Keys, Escapes, W
<1>7. Ats(C, o, a, out) \subseteq V /\ Keys(C, o, a, out) \subseteq V /\ Escapes(C, o, a, out) \subseteq V
      BY <1>1, <1>3, <1>4, <1>6
<1> QED
    BY <1>2, <1>3, <1>4, <1>5, <1>7 DEF W

\* One symbol in a string.
LEMMA StringSteps ==
  ASSUME NEW C, IsAlphabet(C), NEW o \in Nat, NEW a \in Nat, NEW out \in Seq(C)
  PROVE  /\ o >= 1 => Carries(Ats(C, o, a, out), Keys(C, o, a, out), <<"\"">>)
         /\ Carries(Keys(C, o, a, out), Ats(C, o, a, out), <<"\"">>)
         /\ Carries(Keys(C, o, a, out), Escapes(C, o, a, out), <<"\\">>)
         /\ \A c \in C : c \notin {"\\", "\""} => Carries(Keys(C, o, a, out), Keys(C, o, a, out), <<c>>)
         /\ \A c \in C : Carries(Escapes(C, o, a, out), Keys(C, o, a, out), <<c>>)
<1> DEFINE A == Ats(C, o, a, out)
           K == Keys(C, o, a, out)
           E == Escapes(C, o, a, out)
           W == Seq(C)
<1>1. A \in SUBSET Decoders(C) /\ K \in SUBSET Decoders(C) /\ E \in SUBSET Decoders(C)
      BY StatesDecode
<1>2. A = {At(k, o, a, out) : k \in W} /\ K = {InKey(k, o, a, out) : k \in W} /\ E = {InEscape(k, o, a, out) : k \in W}
      BY DEF Ats, Keys, Escapes
<1>3. <<>> \in W /\ \A k \in W, c \in C : Append(k, c) \in W
      OBVIOUS
<1>4. "\"" \in C /\ "\\" \in C
      BY DEF IsAlphabet
<1> HIDE DEF A, K, E, W
<1>5. ASSUME o >= 1, NEW d \in A PROVE HandleChar(d, "\"") \in K
      <2>1. PICK k \in W : d = At(k, o, a, out)
            BY <1>2
      <2>3. OutsideDoes(k, o, a, out)
            BY OutsideSteps
      <2>2. HandleChar(d, "\"") = InKey(<<>>, o, a, out)
            BY <1>5, <2>1, <2>3 DEF OutsideDoes
      <2> QED
          BY <1>2, <1>3, <2>2
<1>6. ASSUME NEW d \in K PROVE HandleChar(d, "\"") \in A
      <2>1. PICK k \in W : d = InKey(k, o, a, out)
            BY <1>2
      <2>3. KeyDoes(k, o, a, out)
            BY KeySteps
      <2>2. HandleChar(d, "\"") = At(k, o, a, out)
            BY <2>1, <2>3 DEF KeyDoes
      <2> QED
          BY <1>2, <1>3, <2>2
<1>7. ASSUME NEW d \in K PROVE HandleChar(d, "\\") \in E
      <2>1. PICK k \in W : d = InKey(k, o, a, out)
            BY <1>2
      <2>3. KeyDoes(k, o, a, out)
            BY KeySteps
      <2>2. HandleChar(d, "\\") = InEscape(k, o, a, out)
            BY <2>1, <2>3 DEF KeyDoes
      <2> QED
          BY <1>2, <1>3, <2>2
<1>8. ASSUME NEW c \in C, c \notin {"\\", "\""}, NEW d \in K PROVE HandleChar(d, c) \in K
      <2>1. PICK k \in W : d = InKey(k, o, a, out)
            BY <1>2
      <2>3. KeyDoes(k, o, a, out)
            BY KeySteps
      <2>2. HandleChar(d, c) = InKey(Append(k, c), o, a, out)
            BY <1>8, <2>1, <2>3 DEF KeyDoes
      <2> QED
          BY <1>2, <1>3, <2>2
<1>9. ASSUME NEW c \in C, NEW d \in E PROVE HandleChar(d, c) \in K
      <2>1. PICK k \in W : d = InEscape(k, o, a, out)
            BY <1>2
      <2>3. KeyDoes(k, o, a, out)
            BY KeySteps
      <2>2. HandleChar(d, c) = InKey(k, o, a, out)
            BY <2>1, <2>3 DEF KeyDoes
      <2> QED
          BY <1>2, <1>3, <2>2
<1>10. o >= 1 => Carries(A, K, <<"\"">>)
      BY <1>1, <1>4, <1>5, CarriesOne
<1>11. Carries(K, A, <<"\"">>)
      BY <1>1, <1>4, <1>6, CarriesOne
<1>12. Carries(K, E, <<"\\">>)
      BY <1>1, <1>4, <1>7, CarriesOne
<1>13. \A c \in C : c \notin {"\\", "\""} => Carries(K, K, <<c>>)
      BY <1>1, <1>8, CarriesOne
<1>14. \A c \in C : Carries(E, K, <<c>>)
      BY <1>1, <1>9, CarriesOne
<1> QED
    BY <1>10, <1>11, <1>12, <1>13, <1>14 DEF A, K, E

LEMMA UnitsAre ==
  ASSUME NEW C, NEW u \in Seq(C), IsUnit(u)
  PROVE  \/ \E c \in C : u = <<c>> /\ c \notin {"\\", "\""}
         \/ \E c \in C : u = <<"\\", c>> /\ "\\" \in C /\ c \in DOMAIN Meaning
         \/ \E c \in C : u = <<"\\", "u", c>> /\ "\\" \in C /\ "u" \in C /\ c \notin {"\\", "\""}
<1>1. CASE Len(u) = 1 /\ u[1] \notin {"\\", "\""}
      <2>1. u = <<u[1]>> /\ u[1] \in C
            BY <1>1, ShortOnes
      <2> QED
          BY <1>1, <2>1
<1>2. CASE Len(u) = 2 /\ u[1] = "\\" /\ u[2] \in DOMAIN Meaning
      <2>1. u = <<u[1], u[2]>> /\ u[1] \in C /\ u[2] \in C
            BY <1>2, ShortOnes
      <2> QED
          BY <1>2, <2>1
<1>3. CASE Len(u) = 3 /\ u[1] = "\\" /\ u[2] = "u" /\ u[3] \notin {"\\", "\""}
      <2>1. u = <<u[1], u[2], u[3]>> /\ u[1] \in C /\ u[2] \in C /\ u[3] \in C
            BY <1>3, ShortOnes
      <2> QED
          BY <1>3, <2>1
<1> QED
    BY <1>1, <1>2, <1>3 DEF IsUnit

\* A unit of a text, in a string that is not the content.
LEMMA UnitPasses ==
  ASSUME NEW C, IsAlphabet(C), NEW o \in Nat, NEW a \in Nat, NEW out \in Seq(C), NEW u \in Seq(C), IsUnit(u)
  PROVE  Carries(Keys(C, o, a, out), Keys(C, o, a, out), u)
<1> DEFINE K == Keys(C, o, a, out)
           E == Escapes(C, o, a, out)
<1>1. K \in SUBSET Decoders(C) /\ E \in SUBSET Decoders(C)
      BY StatesDecode
<1>0. "\\" \in C
      BY DEF IsAlphabet
<1>2. "\\" \in C /\ <<"\\">> \in Seq(C)
      BY <1>0, Ones
<1>3. /\ Carries(K, E, <<"\\">>)
      /\ \A c \in C : c \notin {"\\", "\""} => Carries(K, K, <<c>>)
      /\ \A c \in C : Carries(E, K, <<c>>)
      BY StringSteps
<1> HIDE DEF K, E
<1>4. \A c \in C : <<c>> \in Seq(C) /\ <<"\\">> \o <<c>> = <<"\\", c>> /\ <<"\\", c>> \in Seq(C)
      BY <1>0, Ones, Twos
<1>5. ASSUME NEW c \in C PROVE Carries(K, K, <<"\\", c>>)
      <2>1. <<c>> \in Seq(C) /\ Carries(E, K, <<c>>)
            BY <1>3, <1>4
      <2>2. Carries(K, K, <<"\\">> \o <<c>>)
            BY <1>1, <1>2, <1>3, <2>1, CarriesThen
      <2> QED
          BY <1>4, <2>2
<1>6. CASE \E c \in C : u = <<c>> /\ c \notin {"\\", "\""}
      BY <1>3, <1>6 DEF K
<1>7. CASE \E c \in C : u = <<"\\", c>> /\ "\\" \in C /\ c \in DOMAIN Meaning
      BY <1>5, <1>7 DEF K
<1>8. CASE \E c \in C : u = <<"\\", "u", c>> /\ "\\" \in C /\ "u" \in C /\ c \notin {"\\", "\""}
      <2>1. PICK c \in C : u = <<"\\", "u", c>> /\ "u" \in C /\ c \notin {"\\", "\""}
            BY <1>8
      <2>2. Carries(K, K, <<"\\", "u">>) /\ Carries(K, K, <<c>>) /\ <<"\\", "u">> \in Seq(C) /\ <<c>> \in Seq(C)
            BY <1>3, <1>4, <1>5, <2>1
      <2>3. Carries(K, K, <<"\\", "u">> \o <<c>>)
            BY <1>1, <2>2, CarriesThen
      <2>4. u = <<"\\", "u">> \o <<c>>
            <3>1. "\\" \in C /\ "u" \in C /\ c \in C
                  BY <1>0, <2>1
            <3>2. <<"\\", "u">> \o <<c>> = <<"\\", "u", c>>
                  BY <3>1, Threes
            <3> QED
                BY <2>1, <3>2
      <2> QED
          BY <2>3, <2>4 DEF K
<1> QED
    BY <1>6, <1>7, <1>8, UnitsAre

LEMMA TextPasses ==
  ASSUME NEW C, IsAlphabet(C), NEW o \in Nat, NEW a \in Nat, NEW out \in Seq(C), NEW text \in Seq(Seq(C)),
         \A i \in 1..Len(text) : IsUnit(text[i])
  PROVE  FlattenSeq(text) \in Seq(C) /\ Carries(Keys(C, o, a, out), Keys(C, o, a, out), FlattenSeq(text))
<1> DEFINE K == Keys(C, o, a, out)
           X == [i \in 0..Len(text) |-> K]
           m == Len(text)
<1>1. K \in SUBSET Decoders(C)
      BY StatesDecode
<1>2. m \in Nat /\ 0 \in 0..m /\ m \in 0..m /\ \A i \in 1..m : i \in 0..m /\ i - 1 \in 0..m /\ text[i] \in Seq(C)
      OBVIOUS
<1>3. \A i \in 0..m : X[i] = K
      OBVIOUS
<1>4. \A i \in 1..m : Carries(K, K, text[i])
      BY <1>2, UnitPasses
<1> HIDE DEF K, X
<1>5. \A i \in 1..m : Carries(X[i - 1], X[i], text[i])
      BY <1>2, <1>3, <1>4
<1>6. FlattenSeq(text) \in Seq(C) /\ Carries(X[0], X[m], FlattenSeq(text))
      BY <1>1, <1>3, <1>5, CarriesAll
<1> QED
    BY <1>2, <1>3, <1>6 DEF K

\* A string that is not the content: the decoder is where it was, with some key.
LEMMA QuotedPasses ==
  ASSUME NEW C, IsAlphabet(C), NEW o \in Nat, o >= 1, NEW a \in Nat, NEW out \in Seq(C), NEW text \in Seq(Seq(C)),
         \A i \in 1..Len(text) : IsUnit(text[i])
  PROVE  Quoted(text) \in Seq(C) /\ Carries(Ats(C, o, a, out), Ats(C, o, a, out), Quoted(text))
<1> DEFINE K == Keys(C, o, a, out)
           A == Ats(C, o, a, out)
           q == <<"\"">>
           t == FlattenSeq(text)
<1>1. K \in SUBSET Decoders(C) /\ A \in SUBSET Decoders(C)
      BY StatesDecode
<1>0. "\"" \in C
      BY DEF IsAlphabet
<1>2. q \in Seq(C)
      BY <1>0, Ones
<1>3. Carries(A, K, q) /\ Carries(K, A, q)
      BY StringSteps
<1>4. t \in Seq(C) /\ Carries(K, K, t)
      BY TextPasses
<1>5. Quoted(text) = q \o t \o q
      BY DEF Quoted
<1> HIDE DEF K, A, q, t
<1>6. q \o t \in Seq(C) /\ q \o t \o q \in Seq(C)
      BY <1>2, <1>4
<1>7. Carries(A, K, q \o t)
      BY <1>1, <1>2, <1>3, <1>4, CarriesThen
<1>8. Carries(A, A, q \o t \o q)
      BY <1>1, <1>2, <1>3, <1>6, <1>7, CarriesThen
<1> QED
    BY <1>5, <1>6, <1>8 DEF A

\* What is between the strings.
Punctuated(C, o, a, out) ==
  /\ Carries(Ats(C, o, a, out), Ats(C, o + 1, a, out), <<"{">>)
  /\ o >= 1 => Carries(Ats(C, o, a, out), Ats(C, o - 1, a, out), <<"}">>)
  /\ Carries(Ats(C, o, a, out), Ats(C, o, a + 1, out), <<"[">>)
  /\ a >= 1 => Carries(Ats(C, o, a, out), Ats(C, o, a - 1, out), <<"]">>)
  /\ Carries(Ats(C, o, a, out), Ats(C, o, a, out), <<",">>)
  /\ Carries(Ats(C, o, a, out), Ats(C, o, a, out), <<"7">>)

LEMMA PunctuationPasses ==
  ASSUME NEW C, IsAlphabet(C), NEW o \in Nat, NEW a \in Nat, NEW out \in Seq(C)
  PROVE  Punctuated(C, o, a, out)
<1> DEFINE A == Ats(C, o, a, out)
           W == Seq(C)
<1>1. A \in SUBSET Decoders(C)
      BY StatesDecode
<1>2. A = {At(k, o, a, out) : k \in W}
      BY DEF Ats
<1>3. <<>> \in W
      OBVIOUS
<1>4. {"{", "}", "[", "]", ",", "7"} \subseteq C
      BY DEF IsAlphabet
<1>5. \A x \in Nat, y \in Nat, k \in W : At(k, x, y, out) \in Ats(C, x, y, out)
      BY DEF Ats
<1>6. ASSUME NEW d \in A
      PROVE  /\ HandleChar(d, "{") \in Ats(C, o + 1, a, out)
             /\ o >= 1 => HandleChar(d, "}") \in Ats(C, o - 1, a, out)
             /\ HandleChar(d, "[") \in Ats(C, o, a + 1, out)
             /\ a >= 1 => HandleChar(d, "]") \in Ats(C, o, a - 1, out)
             /\ HandleChar(d, ",") \in Ats(C, o, a, out)
             /\ HandleChar(d, "7") \in Ats(C, o, a, out)
      <2> HIDE DEF A, W
      <2>1. PICK k \in W : d = At(k, o, a, out)
            BY <1>2
      <2>2. OutsideDoes(k, o, a, out)
            BY OutsideSteps
      <2>3. /\ HandleChar(d, "{") = At(k, o + 1, a, out)
            /\ o >= 1 => HandleChar(d, "}") = At(k, o - 1, a, out)
            /\ HandleChar(d, "[") = At(k, o, a + 1, out)
            /\ a >= 1 => HandleChar(d, "]") = At(k, o, a - 1, out)
            /\ HandleChar(d, ",") = At(<<>>, o, a, out)
            /\ HandleChar(d, "7") = At(k, o, a, out)
            BY <2>1, <2>2 DEF OutsideDoes
      <2>4. o + 1 \in Nat /\ a + 1 \in Nat /\ (o >= 1 => o - 1 \in Nat) /\ (a >= 1 => a - 1 \in Nat)
            OBVIOUS
      <2> QED
          BY <1>3, <1>5, <2>3, <2>4
<1> HIDE DEF A
<1>7. Carries(A, Ats(C, o + 1, a, out), <<"{">>)
      BY <1>1, <1>4, <1>6, CarriesOne
<1>8. o >= 1 => Carries(A, Ats(C, o - 1, a, out), <<"}">>)
      BY <1>1, <1>4, <1>6, CarriesOne
<1>9. Carries(A, Ats(C, o, a + 1, out), <<"[">>)
      BY <1>1, <1>4, <1>6, CarriesOne
<1>10. a >= 1 => Carries(A, Ats(C, o, a - 1, out), <<"]">>)
      BY <1>1, <1>4, <1>6, CarriesOne
<1>11. Carries(A, Ats(C, o, a, out), <<",">>) /\ Carries(A, Ats(C, o, a, out), <<"7">>)
      BY <1>1, <1>4, <1>6, CarriesOne
<1> QED
    BY <1>7, <1>8, <1>9, <1>10, <1>11 DEF Punctuated, A

\* Parts with commas between them.
LEMMA JoinedCarries ==
  ASSUME NEW C, IsAlphabet(C), NEW parts \in Seq(Seq(C)), NEW X,
         \A i \in 0..Len(parts) : X[i] \in SUBSET Decoders(C) /\ Carries(X[i], X[i], <<",">>),
         \A i \in 1..Len(parts) : Carries(X[i - 1], X[i], parts[i])
  PROVE  Joined(parts) \in Seq(C) /\ Carries(X[0], X[Len(parts)], Joined(parts))
<1> DEFINE n == Len(parts)
           comma == <<",">>
           ss == [i \in 1..n |-> IF i = 1 THEN parts[1] ELSE comma \o parts[i]]
<1>0. "," \in C
      BY DEF IsAlphabet
<1>1. comma \in Seq(C)
      BY <1>0, Ones
<1>2. /\ n \in Nat /\ DOMAIN parts = 1..n
      /\ \A i \in 1..n : parts[i] \in Seq(C) /\ i - 1 \in 0..n /\ i \in 0..n
      BY PartsAre
<1>3. Joined(parts) = FlattenSeq(ss)
      <2> HIDE DEF n
      <2> QED
          BY <1>2, Zenon DEF Joined
<1> HIDE DEF comma
<1>8. ASSUME NEW t \in Seq(C) PROVE comma \o t \in Seq(C)
      BY <1>1, Glued
<1>4. \A i \in 1..n : comma \o parts[i] \in Seq(C)
      BY <1>2, <1>8
<1>5. ASSUME NEW i \in 1..n PROVE ss[i] \in Seq(C) /\ Carries(X[i - 1], X[i], ss[i])
      <2>1. CASE i = 1
            <3>1. ss[i] = parts[i]
                  BY <2>1
            <3> QED
                BY <1>2, <3>1
      <2>2. CASE i # 1
            <3>1. ss[i] = comma \o parts[i]
                  BY <2>2
            <3>2. X[i - 1] \in SUBSET Decoders(C) /\ Carries(X[i - 1], X[i - 1], comma) /\ Carries(X[i - 1], X[i], parts[i])
                  BY <1>2 DEF comma
            <3>3. Carries(X[i - 1], X[i], comma \o parts[i])
                  BY <1>1, <1>2, <3>2, CarriesThen
            <3> QED
                BY <1>4, <3>1, <3>3
      <2> QED
          BY <2>1, <2>2
<1>6. ss \in Seq(Seq(C)) /\ Len(ss) = n
      <2> DEFINE W == Seq(C)
      <2>1. ss \in [1..n -> W]
            BY <1>5
      <2> HIDE DEF W, ss, n
      <2>2. ss \in Seq(W) /\ Len(ss) = n
            BY <1>2, <2>1, ListIs
      <2> QED
          BY <2>2 DEF W
<1> HIDE DEF ss, n
<1>7. FlattenSeq(ss) \in Seq(C) /\ Carries(X[0], X[n], FlattenSeq(ss))
      BY <1>5, <1>6, CarriesAll DEF n
<1> QED
    BY <1>3, <1>7 DEF n

\* One state after the other.
LEMMA CarriesTo ==
  ASSUME NEW C, IsAlphabet(C), NEW d \in Decoders(C), NEW c \in C, NEW e, HandleChar(d, c) = e
  PROVE  Carries({d}, {e}, <<c>>)
<1>1. {d} \in SUBSET Decoders(C)
      OBVIOUS
<1>2. \A x \in {d} : HandleChar(x, c) \in {e}
      OBVIOUS
<1> QED
    BY <1>1, <1>2, CarriesOne

\* A unit in the content gives what it stands for.
LEMMA UnitReads ==
  ASSUME NEW C, IsAlphabet(C), NEW out \in Seq(C), NEW u \in Seq(C), IsUnit(u)
  PROVE  Unit(u) \in Seq(C) /\ Carries({InContent(out)}, {InContent(out \o Unit(u))}, u)
<1> DEFINE D == Decoders(C)
           W == Seq(C)
           I == InContent(out)
           E == ContentEscape(out)
           U == ContentUnicode(out)
<1>1. I \in D /\ E \in D /\ U \in D
      BY StatesDecode
<1>2. ContentDoes(out)
      BY ContentSteps
<1>3. "\\" \in C /\ \A c \in DOMAIN Meaning : Meaning[c] \in C
      BY DEF IsAlphabet, Meaning
<1>4. \A c \in C : Append(out, c) = out \o <<c>> /\ <<c>> \in W
      OBVIOUS
<1>5. CASE \E c \in C : u = <<c>> /\ c \notin {"\\", "\""}
      <2>1. PICK c \in C : u = <<c>> /\ c \notin {"\\", "\""}
            BY <1>5
      <2>2. Unit(u) = <<c>>
            BY <2>1 DEF Unit
      <2>3. HandleChar(I, c) = InContent(out \o <<c>>)
            BY <1>2, <1>4, <2>1 DEF ContentDoes
      <2> HIDE DEF I, D, W
      <2>4. Carries({I}, {InContent(out \o <<c>>)}, <<c>>)
            BY <1>1, <2>3, CarriesTo DEF D
      <2> QED
          BY <1>4, <2>1, <2>2, <2>4 DEF I, W
<1>6. CASE \E c \in C : u = <<"\\", c>> /\ "\\" \in C /\ c \in DOMAIN Meaning
      <2>1. PICK c \in C : u = <<"\\", c>> /\ c \in DOMAIN Meaning
            BY <1>6
      <2> DEFINE m == Meaning[c]
      <2>2. Unit(u) = <<m>> /\ m \in C
            <3>1. u[1] = "\\" /\ u[2] = c /\ c # "u" /\ m \in C
                  BY <2>1 DEF Meaning, IsAlphabet
            <3> HIDE DEF m
            <3> QED
                BY <3>1 DEF Unit, m
      <2>3. HandleChar(E, c) = InContent(Append(out, m)) /\ HandleChar(I, "\\") = E
            BY <1>2, <2>1 DEF ContentDoes
      <2> HIDE DEF I, D, W, E, m
      <2>4. Carries({I}, {E}, <<"\\">>)
            BY <1>1, <1>3, <2>3, CarriesTo DEF D
      <2>5. Carries({E}, {InContent(out \o <<m>>)}, <<c>>)
            BY <1>1, <1>4, <2>2, <2>3, CarriesTo DEF D
      <2>6. {I} \in SUBSET D /\ <<"\\">> \in W /\ <<c>> \in W
            BY <1>1, <1>3, <1>4
      <2>7. Carries({I}, {InContent(out \o <<m>>)}, <<"\\">> \o <<c>>)
            BY <2>4, <2>5, <2>6, CarriesThen DEF D, W
      <2>8. u = <<"\\">> \o <<c>>
            BY <1>3, <2>1, Twos
      <2> QED
          BY <1>4, <2>2, <2>7, <2>8 DEF I, W
<1>7. CASE \E c \in C : u = <<"\\", "u", c>> /\ "\\" \in C /\ "u" \in C /\ c \notin {"\\", "\""}
      <2>1. PICK c \in C : u = <<"\\", "u", c>> /\ "u" \in C
            BY <1>7
      <2>2. Unit(u) = <<c>>
            BY <2>1 DEF Unit
      <2>3. HandleChar(U, c) = InContent(Append(out, c)) /\ HandleChar(I, "\\") = E /\ HandleChar(E, "u") = U
            BY <1>2 DEF ContentDoes
      <2> HIDE DEF I, D, W, E, U
      <2>4. Carries({I}, {E}, <<"\\">>) /\ Carries({E}, {U}, <<"u">>)
            BY <1>1, <1>3, <2>1, <2>3, CarriesTo DEF D
      <2>5. Carries({U}, {InContent(out \o <<c>>)}, <<c>>)
            BY <1>1, <1>4, <2>3, CarriesTo DEF D
      <2>6. {I} \in SUBSET D /\ <<"\\">> \in W /\ <<"u">> \in W /\ <<c>> \in W
            BY <1>1, <1>3, <1>4, <2>1
      <2>7. Carries({I}, {U}, <<"\\">> \o <<"u">>)
            BY <2>4, <2>6, CarriesThen DEF D, W
      <2>8. <<"\\">> \o <<"u">> = <<"\\", "u">> /\ <<"\\", "u">> \in W
            BY <1>3, <2>1, Twos DEF W
      <2>9. Carries({I}, {InContent(out \o <<c>>)}, <<"\\", "u">> \o <<c>>)
            BY <2>5, <2>6, <2>7, <2>8, CarriesThen DEF D, W
      <2>10. u = <<"\\", "u">> \o <<c>>
            BY <1>3, <2>1, Threes
      <2> QED
          BY <1>4, <2>2, <2>9, <2>10 DEF I, W
<1> QED
    BY <1>5, <1>6, <1>7, UnitsAre

\* What a text means when it goes on.
LEMMA DecodedMore ==
  ASSUME NEW C, NEW t \in Seq(Seq(C)), \A i \in 1..Len(t) : Unit(t[i]) \in Seq(C), NEW u \in Seq(C), Unit(u) \in Seq(C)
  PROVE  Decoded(Append(t, u)) = Decoded(t) \o Unit(u)
<1> DEFINE n == Len(t)
           v == Append(t, u)
           f == [i \in 1..n |-> Unit(t[i])]
           g == [i \in 1..n + 1 |-> Unit(v[i])]
           W == Seq(C)
<1>1. n \in Nat /\ DOMAIN t = 1..n /\ DOMAIN v = 1..n + 1 /\ v[n + 1] = u /\ \A i \in 1..n : v[i] = t[i]
      <2> HIDE DEF W
      <2>1. t \in Seq(W) /\ u \in W
            BY DEF W
      <2> QED
          BY <2>1
<1>2. Decoded(t) = FlattenSeq(f)
      <2> HIDE DEF n
      <2> QED
          BY <1>1, Zenon DEF Decoded
<1>3. Decoded(v) = FlattenSeq(g)
      <2> HIDE DEF n, v
      <2> QED
          BY <1>1, Zenon DEF Decoded
<1> HIDE DEF W, n, v
<1>4. f \in [1..n -> W]
      BY DEF W, n
<1>5. f \in Seq(W) /\ Len(f) = n
      <2> HIDE DEF f
      <2> QED
          BY <1>1, <1>4, ListIs
<1>6. g \in [1..n + 1 -> W]
      <2> SUFFICES ASSUME NEW i \in 1..n + 1 PROVE Unit(v[i]) \in W
          OBVIOUS
      <2>1. CASE i \in 1..n
            BY <1>1, <2>1 DEF W, n
      <2>2. CASE i = n + 1
            BY <1>1, <2>2 DEF W
      <2> QED
          BY <1>1, <2>1, <2>2
<1>7. g \in Seq(W) /\ Len(g) = n + 1
      <2> DEFINE m == n + 1
      <2>1. m \in Nat /\ g \in [1..m -> W]
            BY <1>1, <1>6
      <2> HIDE DEF g, m
      <2> QED
          BY <2>1, ListIs DEF m
<1>8. g = Append(f, Unit(u))
      <2> DEFINE h == Append(f, Unit(u))
      <2>1. g[n + 1] = Unit(u) /\ \A i \in 1..n : g[i] = Unit(t[i]) /\ f[i] = Unit(t[i])
            BY <1>1
      <2>2. Unit(u) \in W
            BY DEF W
      <2> HIDE DEF f, g
      <2>3. h \in Seq(W) /\ Len(h) = n + 1 /\ h[n + 1] = Unit(u) /\ \A i \in 1..n : h[i] = f[i]
            BY <1>5, <2>2
      <2>4. \A i \in 1..Len(g) : g[i] = h[i]
            BY <1>1, <1>7, <2>1, <2>3
      <2> HIDE DEF h
      <2>5. g = h
            BY <1>7, <2>3, <2>4, SameSeq
      <2> QED
          BY <2>5 DEF h
<1>9. FlattenSeq(Append(f, Unit(u))) = FlattenSeq(f) \o Unit(u)
      BY <1>5, FlattenMore DEF W
<1> QED
    BY <1>2, <1>3, <1>8, <1>9 DEF v

LEMMA TextReads ==
  ASSUME NEW C, IsAlphabet(C), NEW out \in Seq(C), NEW text \in Seq(Seq(C)), \A i \in 1..Len(text) : IsUnit(text[i])
  PROVE  /\ Decoded(text) \in Seq(C) /\ FlattenSeq(text) \in Seq(C)
         /\ Carries({InContent(out)}, {InContent(out \o Decoded(text))}, FlattenSeq(text))
<1> DEFINE W == Seq(C)
           D == Decoders(C)
           R(t) == /\ \A i \in 1..Len(t) : Unit(t[i]) \in W
                   /\ Decoded(t) \in W /\ FlattenSeq(t) \in W
                   /\ Carries({InContent(out)}, {InContent(out \o Decoded(t))}, FlattenSeq(t))
           S == {t \in Seq(W) : (\A i \in 1..Len(t) : IsUnit(t[i])) => R(t)}
<1>1. \A x \in W : InContent(x) \in D
      BY StatesDecode
<1>2. <<>> \in S
      <2>1. FlattenSeq(<<>>) = <<>> /\ <<>> \in W /\ <<>> \in Seq(W) /\ Len(<<>>) = 0
            BY DEF FlattenSeq
      <2>2. Decoded(<<>>) = FlattenSeq(<<>>)
            BY DEF Decoded
      <2>3. out \o <<>> = out
            OBVIOUS
      <2>4. FedBy(D, C)
            BY Fed
      <2>5. InContent(out) \in D
            BY <1>1
      <2> HIDE DEF D
      <2>6. Feed(InContent(out), <<>>) = InContent(out)
            BY <2>4, <2>5 DEF FedBy
      <2>7. Carries({InContent(out)}, {InContent(out)}, <<>>)
            BY <2>6 DEF Carries
      <2> HIDE DEF W
      <2>8. \A i \in 1..Len(<<>>) : Unit(<<>>[i]) \in W
            BY <2>1
      <2>9. R(<<>>)
            BY <2>1, <2>2, <2>3, <2>7, <2>8
      <2> HIDE DEF R
      <2> QED
          BY <2>1, <2>9
<1>3. ASSUME NEW t \in Seq(W), NEW u \in W, t \in S PROVE Append(t, u) \in S
      <2> DEFINE v == Append(t, u)
                 n == Len(t)
                 x == out \o Decoded(t)
      <2> HIDE DEF W
      <2>1. v \in Seq(W) /\ Len(v) = n + 1 /\ v[n + 1] = u /\ n \in Nat /\ \A i \in 1..n : v[i] = t[i]
            OBVIOUS
      <2> SUFFICES ASSUME \A i \in 1..Len(v) : IsUnit(v[i]) PROVE R(v)
          BY <2>1
      <2>2. IsUnit(u) /\ \A i \in 1..n : IsUnit(t[i])
            <3>1. n + 1 \in 1..n + 1 /\ \A i \in 1..n : i \in 1..n + 1
                  BY <2>1
            <3> HIDE DEF v, n
            <3>2. IsUnit(v[n + 1]) /\ \A i \in 1..n : IsUnit(v[i])
                  BY <2>1, <3>1
            <3> QED
                BY <2>1, <3>2
      <2>3. R(t)
            BY <1>3, <2>2
      <2>4. x \in W
            BY <2>3 DEF W
      <2>5. Unit(u) \in W /\ Carries({InContent(x)}, {InContent(x \o Unit(u))}, u)
            <3> HIDE DEF x
            <3> QED
                BY <2>2, <2>4, UnitReads DEF W
      <2>6. Decoded(v) = Decoded(t) \o Unit(u)
            BY <2>3, <2>5, DecodedMore DEF W
      <2>7. FlattenSeq(v) = FlattenSeq(t) \o u
            BY FlattenMore DEF W
      <2>8. Decoded(v) \in W /\ FlattenSeq(v) \in W
            BY <2>3, <2>5, <2>6, <2>7, Glued DEF W
      <2>9. x \o Unit(u) = out \o Decoded(v)
            <3>1. Decoded(t) \in Seq(C) /\ Unit(u) \in Seq(C) /\ out \in Seq(C)
                  BY <2>3, <2>5 DEF W
            <3> QED
                BY <2>6, <3>1, ConcatAssociative
      <2>10. \A i \in 1..Len(v) : Unit(v[i]) \in W
            <3>1. \A i \in 1..n : Unit(v[i]) \in W
                  BY <2>1, <2>3
            <3>2. Unit(v[n + 1]) \in W
                  BY <2>1, <2>5
            <3> HIDE DEF v, n
            <3>3. \A i \in 1..Len(v) : i \in 1..n \/ i = n + 1
                  BY <2>1
            <3> QED
                BY <3>1, <3>2, <3>3
      <2>11. InContent(out) \in D /\ {InContent(out)} \in SUBSET D
            BY <1>1 DEF W
      <2> HIDE DEF D, v, x
      <2>12. Carries({InContent(out)}, {InContent(x)}, FlattenSeq(t))
            BY <2>3 DEF x
      <2>13. Carries({InContent(out)}, {InContent(x \o Unit(u))}, FlattenSeq(t) \o u)
            BY <2>3, <2>5, <2>11, <2>12, CarriesThen DEF W, D
      <2> QED
          BY <2>7, <2>8, <2>9, <2>10, <2>13
<1> HIDE DEF R, S, W
<1>4. text \in S
      BY <1>2, <1>3, SeqBySet DEF W
<1> QED
    BY <1>4 DEF S, R, W

\* A key, wherever the decoder is in an object.
LEMMA KeyReads ==
  ASSUME NEW C, IsAlphabet(C), NEW o \in Nat, o >= 1, NEW a \in Nat, NEW out \in Seq(C), NEW key \in C,
         key \notin {"\\", "\""}
  PROVE  /\ Quoted(<<<<key>>>>) \in Seq(C)
         /\ Carries(Ats(C, o, a, out), {At(<<key>>, o, a, out)}, Quoted(<<<<key>>>>))
<1> DEFINE A == Ats(C, o, a, out)
           D == Decoders(C)
           W == Seq(C)
           q == <<"\"">>
           K0 == InKey(<<>>, o, a, out)
           K1 == InKey(<<key>>, o, a, out)
           K2 == At(<<key>>, o, a, out)
<1>1. "\"" \in C
      BY DEF IsAlphabet
<1>2. q \in W /\ <<key>> \in W /\ <<>> \in W /\ Append(<<>>, key) = <<key>>
      BY <1>1, Ones, NoneIs
<1>3. A \in SUBSET D /\ K0 \in D /\ K1 \in D
      BY <1>2, StatesDecode
<1>4. A = {At(k, o, a, out) : k \in W}
      BY DEF Ats
<1> HIDE DEF A, D, W, K0, K1, K2
<1>5. ASSUME NEW d \in A PROVE HandleChar(d, "\"") \in {K0}
      <2>1. PICK k \in W : d = At(k, o, a, out)
            BY <1>4
      <2>2. OutsideDoes(k, o, a, out)
            BY OutsideSteps
      <2> QED
          BY <2>1, <2>2 DEF OutsideDoes, K0
<1>6. HandleChar(K0, key) = K1
      <2>1. KeyDoes(<<>>, o, a, out)
            BY KeySteps
      <2> QED
          BY <1>2, <2>1 DEF KeyDoes, K0, K1
<1>7. HandleChar(K1, "\"") = K2
      <2>1. KeyDoes(<<key>>, o, a, out)
            BY KeySteps
      <2> QED
          BY <2>1 DEF KeyDoes, K1, K2
<1>8. Carries(A, {K0}, q)
      BY <1>1, <1>3, <1>5, CarriesOne DEF D
<1>9. Carries({K0}, {K1}, <<key>>) /\ Carries({K1}, {K2}, q)
      BY <1>1, <1>3, <1>6, <1>7, CarriesTo DEF D
<1> HIDE DEF q
<1>10. q \o <<key>> \in W /\ q \o <<key>> \o q \in W
      BY <1>2, Glued DEF W
<1>11. Carries(A, {K1}, q \o <<key>>)
      BY <1>2, <1>3, <1>8, <1>9, CarriesThen DEF D, W
<1>12. Carries(A, {K2}, q \o <<key>> \o q)
      BY <1>2, <1>3, <1>9, <1>10, <1>11, CarriesThen DEF D, W
<1>13. FlattenSeq(<<<<key>>>>) = <<key>>
      BY <1>2, FlattenOne DEF W
<1>14. Quoted(<<<<key>>>>) = q \o <<key>> \o q
      BY <1>13 DEF Quoted, q
<1> QED
    BY <1>10, <1>12, <1>14 DEF A, K2, W

\* A field whose value leaves the decoder where it is.
LEMMA FieldPasses ==
  ASSUME NEW C, IsAlphabet(C), NEW o \in Nat, o >= 1, NEW a \in Nat, NEW out \in Seq(C),
         NEW f, f.key \in C, f.key \notin {"\\", "\""}, ~(o = 1 /\ a = 0 /\ f.key = "content"),
         NEW t \in Seq(C), Carries(Ats(C, o, a, out), Ats(C, o, a, out), t)
  PROVE  FieldText(f, t) \in Seq(C) /\ Carries(Ats(C, o, a, out), Ats(C, o, a, out), FieldText(f, t))
<1> DEFINE key == f.key
           q == Quoted(<<<<key>>>>)
           A == Ats(C, o, a, out)
           D == Decoders(C)
           colon == <<":">>
           K == At(<<key>>, o, a, out)
           Z == At(<<>>, o, a, out)
<1>1. key \in C /\ key \notin {"\\", "\""} /\ ~(o = 1 /\ a = 0 /\ key = "content")
      OBVIOUS
<1>2. FieldText(f, t) = q \o colon \o t
      BY DEF FieldText
<1> HIDE DEF key
<1>3. ":" \in C
      BY DEF IsAlphabet
<1>13. <<>> \in Seq(C)
      BY <1>1, NoneIs
<1>4. colon \in Seq(C) /\ <<key>> \in Seq(C) /\ <<>> \in Seq(C)
      BY <1>1, <1>3, <1>13, Ones
<1>14. A \in SUBSET D /\ K \in D /\ Z \in D
      BY <1>4, StatesDecode
<1>15. Z \in A
      BY <1>13 DEF Ats
<1>5. A \in SUBSET D /\ K \in D /\ Z \in D /\ Z \in A
      BY <1>14, <1>15
<1>6. q \in Seq(C) /\ Carries(A, {K}, q)
      BY <1>1, KeyReads
<1>7. HandleChar(K, ":") = Z
      <2>1. OutsideDoes(<<key>>, o, a, out)
            BY OutsideSteps
      <2>2. <<key>> = <<"content">> => key = "content"
            OBVIOUS
      <2>3. ~(o = 1 /\ a = 0 /\ <<key>> = <<"content">>)
            BY <1>1, <2>2
      <2> QED
          BY <2>1, <2>3 DEF OutsideDoes
<1> HIDE DEF A, D, K, Z, q
<1>8. Carries({K}, {Z}, colon)
      BY <1>3, <1>5, <1>7, CarriesTo DEF D
<1> HIDE DEF colon
<1>9. Carries(A, {Z}, q \o colon)
      BY <1>4, <1>5, <1>6, <1>8, CarriesThen DEF D
<1>10. Carries({Z}, A, t)
      BY <1>5 DEF Carries, A
<1>11. q \o colon \in Seq(C) /\ q \o colon \o t \in Seq(C)
      BY <1>4, <1>6, Glued
<1>12. Carries(A, A, q \o colon \o t)
      BY <1>5, <1>9, <1>10, <1>11, CarriesThen DEF D
<1> QED
    BY <1>2, <1>11, <1>12 DEF A

\* The content of the root is read.
LEMMA ContentReads ==
  ASSUME NEW C, IsAlphabet(C), "content" \in C, NEW out \in Seq(C), NEW f, f.key = "content",
         NEW text \in Seq(Seq(C)), \A i \in 1..Len(text) : IsUnit(text[i])
  PROVE  /\ Decoded(text) \in Seq(C) /\ FieldText(f, Quoted(text)) \in Seq(C)
         /\ Carries(Ats(C, 1, 0, out), Ats(C, 1, 0, out \o Decoded(text)), FieldText(f, Quoted(text)))
<1> DEFINE q == Quoted(<<<<"content">>>>)
           A == Ats(C, 1, 0, out)
           D == Decoders(C)
           colon == <<":">>
           quote == <<"\"">>
           t == FlattenSeq(text)
           new == out \o Decoded(text)
           K == At(<<"content">>, 1, 0, out)
           B == BeforeContent(out)
           I == InContent(out)
           J == InContent(new)
           Z == At(<<>>, 1, 0, new)
<1>1. FieldText(f, Quoted(text)) = q \o colon \o (quote \o t \o quote)
      BY DEF FieldText, Quoted
<1>2. ":" \in C /\ "\"" \in C
      BY DEF IsAlphabet
<1>20. <<>> \in Seq(C)
      OBVIOUS
<1>3. colon \in Seq(C) /\ quote \in Seq(C) /\ <<"content">> \in Seq(C) /\ <<>> \in Seq(C)
      BY <1>2, <1>20, Ones
<1>4. Decoded(text) \in Seq(C) /\ t \in Seq(C) /\ Carries({I}, {J}, t)
      BY TextReads
<1>5. new \in Seq(C)
      BY <1>4, Glued
<1>6. q \in Seq(C) /\ Carries(A, {K}, q)
      <2> DEFINE key == "content"
      <2>1. key \in C /\ key \notin {"\\", "\""} /\ 1 \in Nat /\ 1 >= 1 /\ 0 \in Nat
            OBVIOUS
      <2> HIDE DEF key
      <2>2. Quoted(<<<<key>>>>) \in Seq(C) /\ Carries(Ats(C, 1, 0, out), {At(<<key>>, 1, 0, out)}, Quoted(<<<<key>>>>))
            BY <2>1, KeyReads
      <2> QED
          BY <2>2 DEF key
<1>7. A \in SUBSET D /\ K \in D /\ B \in D /\ I \in D
      BY <1>3, StatesDecode
<1> HIDE DEF new
<1>8. J \in D
      BY <1>5, StatesDecode
<1>9. HandleChar(K, ":") = B
      <2>1. OutsideDoes(<<"content">>, 1, 0, out)
            BY OutsideSteps
      <2> QED
          BY <2>1 DEF OutsideDoes
<1>10. HandleChar(B, "\"") = I
      <2>1. ContentDoes(out)
            BY ContentSteps
      <2> QED
          BY <2>1 DEF ContentDoes
<1>11. HandleChar(J, "\"") = Z
      <2>1. ContentDoes(new)
            BY ContentSteps
      <2> QED
          BY <2>1 DEF ContentDoes
<1>12. Z \in Ats(C, 1, 0, new)
      BY <1>3 DEF Ats
<1> HIDE DEF A, D, K, B, I, J, Z, q, t
<1>13. Carries({K}, {B}, colon) /\ Carries({B}, {I}, quote) /\ Carries({J}, {Z}, quote)
      BY <1>2, <1>7, <1>8, <1>9, <1>10, <1>11, CarriesTo DEF D
<1> HIDE DEF colon, quote
<1>14. {B} \in SUBSET D /\ q \o colon \in Seq(C) /\ quote \o t \in Seq(C) /\ quote \o t \o quote \in Seq(C)
      BY <1>3, <1>4, <1>6, <1>7, Glued
<1>15. Carries(A, {B}, q \o colon)
      BY <1>3, <1>6, <1>7, <1>13, CarriesThen DEF D
<1>16. Carries({B}, {J}, quote \o t)
      BY <1>3, <1>4, <1>13, <1>14, CarriesThen DEF D
<1>17. Carries({B}, {Z}, quote \o t \o quote)
      BY <1>3, <1>13, <1>14, <1>16, CarriesThen DEF D
<1>18. Carries(A, {Z}, q \o colon \o (quote \o t \o quote))
      BY <1>7, <1>14, <1>15, <1>17, CarriesThen DEF D
<1>19. q \o colon \o (quote \o t \o quote) \in Seq(C)
      BY <1>14, Glued
<1> QED
    BY <1>1, <1>4, <1>12, <1>18, <1>19 DEF Carries, A, new

\* What JSON makes of a reply, without an end: any string is a symbol.
Punctuation == {"newline", "\"", "\\", ":", ",", "{", "}", "[", "]", "7", "content"}
Symbols == STRING \cup Punctuation
IsField(f) ==
  /\ f.key \in Symbols /\ f.key \notin {"\\", "\""}
  /\ f.value.kind = "string" => IsText(f.value.text)
AreListed(fields) == fields \in Seq(ToSet(fields)) /\ \A i \in 1..Len(fields) : IsField(fields[i])

LEMMA SymbolsAre == IsAlphabet(Symbols) /\ "content" \in Symbols /\ "7" \in Symbols
<1>1. Punctuation \subseteq Symbols
      BY DEF Symbols
<1> HIDE DEF Symbols
<1> QED
    BY <1>1 DEF IsAlphabet, Punctuation

LEMMA FieldsAre ==
  ASSUME NEW fields, AreFields(fields)
  PROVE  AreListed(fields)
<1>1. fields \in Seq(ToSet(fields))
      BY DEF AreFields
<1>2. \A i \in 1..Len(fields) : fields[i] \in ToSet(fields)
      BY <1>1, ListedOnes
<1>3. \A f \in ToSet(fields) : IsField(f)
      <2>1. STRING \subseteq Symbols
            BY DEF Symbols
      <2> QED
          BY <2>1 DEF AreFields, IsField
<1> QED
    BY <1>1, <1>2, <1>3 DEF AreListed

LEMMA TextIs ==
  ASSUME NEW text, IsText(text)
  PROVE  text \in Seq(Seq(Symbols)) /\ \A i \in 1..Len(text) : IsUnit(text[i])
<1> DEFINE W == Seq(Symbols)
<1>1. text \in Seq(W)
      <2>1. Seq(Seq(STRING)) \subseteq Seq(Seq(Symbols))
            BY WiderSeq DEF Symbols
      <2> QED
          BY <2>1 DEF IsText
<1> HIDE DEF W
<1>2. DOMAIN text = 1..Len(text)
      BY <1>1
<1> QED
    BY <1>1, <1>2 DEF IsText, W

LEMMA SimplePasses ==
  ASSUME NEW o \in Nat, o >= 1, NEW a \in Nat, NEW out \in Seq(Symbols), NEW v, v.kind = "string" => IsText(v.text)
  PROVE  Simple(v) \in Seq(Symbols) /\ Carries(Ats(Symbols, o, a, out), Ats(Symbols, o, a, out), Simple(v))
<1> DEFINE A == Ats(Symbols, o, a, out)
<1>1. CASE v.kind = "string"
      <2> DEFINE text == v.text
      <2>1. text \in Seq(Seq(Symbols)) /\ \A i \in 1..Len(text) : IsUnit(text[i])
            BY <1>1, TextIs
      <2>2. Simple(v) = Quoted(text)
            BY <1>1 DEF Simple
      <2> HIDE DEF text
      <2>3. Quoted(text) \in Seq(Symbols) /\ Carries(A, A, Quoted(text))
            BY <2>1, SymbolsAre, QuotedPasses
      <2> QED
          BY <2>2, <2>3
<1>2. CASE v.kind # "string"
      <2>1. Simple(v) = <<"7">>
            BY <1>2 DEF Simple
      <2>2. "7" \in Symbols
            BY SymbolsAre
      <2>3. Punctuated(Symbols, o, a, out)
            BY SymbolsAre, PunctuationPasses
      <2> QED
          BY <2>1, <2>2, <2>3, Ones DEF Punctuated
<1> QED
    BY <1>1, <1>2

\* Parts that leave the decoder where it is, with commas between them.
LEMMA JoinedPasses ==
  ASSUME NEW n \in Nat, NEW parts \in [1..n -> Seq(Symbols)], NEW A \in SUBSET Decoders(Symbols),
         Carries(A, A, <<",">>), \A i \in 1..n : Carries(A, A, parts[i])
  PROVE  Joined(parts) \in Seq(Symbols) /\ Carries(A, A, Joined(parts))
<1> DEFINE W == Seq(Symbols)
           X == [i \in 0..n |-> A]
<1>1. parts \in Seq(W) /\ Len(parts) = n
      <2> HIDE DEF W
      <2>1. parts \in [1..n -> W]
            BY DEF W
      <2> QED
          BY <2>1, ListIs
<1>2. 0 \in 0..n /\ n \in 0..n /\ \A i \in 1..n : i - 1 \in 0..n /\ i \in 0..n
      BY UpTo
<1>3. \A i \in 0..n : X[i] = A
      OBVIOUS
<1> HIDE DEF W, X
<1>4. /\ \A i \in 0..n : X[i] \in SUBSET Decoders(Symbols) /\ Carries(X[i], X[i], <<",">>)
      /\ \A i \in 1..n : Carries(X[i - 1], X[i], parts[i])
      BY <1>2, <1>3
<1>5. Joined(parts) \in W /\ Carries(X[0], X[n], Joined(parts))
      BY <1>1, <1>4, SymbolsAre, JoinedCarries DEF W
<1> QED
    BY <1>2, <1>3, <1>5 DEF W

\* Fields that leave the decoder where it is, one after the other.
LEMMA FieldsPass ==
  ASSUME NEW o \in Nat, o >= 2, NEW a \in Nat, NEW out \in Seq(Symbols), NEW fields, AreFields(fields)
  PROVE  LET parts == [i \in DOMAIN fields |-> FieldText(fields[i], Simple(fields[i].value))]
         IN Joined(parts) \in Seq(Symbols) /\ Carries(Ats(Symbols, o, a, out), Ats(Symbols, o, a, out), Joined(parts))
<1> DEFINE A == Ats(Symbols, o, a, out)
           W == Seq(Symbols)
           n == Len(fields)
           T(i) == FieldText(fields[i], Simple(fields[i].value))
           parts == [i \in DOMAIN fields |-> T(i)]
<1>0. o >= 1 /\ ~(o = 1)
      OBVIOUS
<1>1. AreListed(fields)
      BY FieldsAre
<1>2. n \in Nat /\ DOMAIN fields = 1..n
      BY <1>1, ListedOnes DEF AreListed
<1>3. A \in SUBSET Decoders(Symbols)
      BY SymbolsAre, StatesDecode
<1>4. Carries(A, A, <<",">>)
      <2>1. Punctuated(Symbols, o, a, out)
            BY SymbolsAre, PunctuationPasses
      <2> QED
          BY <2>1 DEF Punctuated
<1>5. ASSUME NEW i \in 1..n PROVE T(i) \in W /\ Carries(A, A, T(i))
      <2> DEFINE f == fields[i]
                 t == Simple(f.value)
      <2>1. IsField(f)
            BY <1>1 DEF AreListed
      <2> HIDE DEF f
      <2>2. t \in W /\ Carries(A, A, t)
            <3> DEFINE v == f.value
            <3>1. v.kind = "string" => IsText(v.text)
                  BY <2>1 DEF IsField
            <3> HIDE DEF v
            <3>2. Simple(v) \in Seq(Symbols) /\ Carries(Ats(Symbols, o, a, out), Ats(Symbols, o, a, out), Simple(v))
                  BY <1>0, <3>1, SimplePasses
            <3> QED
                BY <3>2 DEF v
      <2>3. f.key \in Symbols /\ f.key \notin {"\\", "\""}
            BY <2>1 DEF IsField
      <2> HIDE DEF t
      <2>4. FieldText(f, t) \in W /\ Carries(A, A, FieldText(f, t))
            BY <1>0, <2>2, <2>3, SymbolsAre, FieldPasses
      <2> QED
          BY <2>4 DEF f, t
<1> HIDE DEF T, A, W, n
<1>6. parts \in [1..n -> W] /\ \A i \in 1..n : parts[i] = T(i)
      BY <1>2, <1>5
<1> HIDE DEF parts
<1>7. \A i \in 1..n : Carries(A, A, parts[i])
      BY <1>5, <1>6
<1>11. Joined(parts) \in W /\ Carries(A, A, Joined(parts))
      BY <1>2, <1>3, <1>4, <1>6, <1>7, JoinedPasses DEF W
<1> QED
    BY <1>11 DEF parts, A, W, T

\* An object in an object, and a value that is not the content.
LEMMA ObjectPasses ==
  ASSUME NEW o \in Nat, o >= 1, NEW a \in Nat, NEW out \in Seq(Symbols), NEW fields, AreFields(fields)
  PROVE  /\ ObjectText(fields) \in Seq(Symbols)
         /\ Carries(Ats(Symbols, o, a, out), Ats(Symbols, o, a, out), ObjectText(fields))
<1> DEFINE W == Seq(Symbols)
           D == Decoders(Symbols)
           A == Ats(Symbols, o, a, out)
           m == o + 1
           B == Ats(Symbols, m, a, out)
           open == <<"{">>
           close == <<"}">>
           J == Joined([i \in DOMAIN fields |-> FieldText(fields[i], Simple(fields[i].value))])
<1>1. ObjectText(fields) = open \o J \o close
      BY DEF ObjectText
<1>2. m \in Nat /\ m >= 2 /\ m >= 1 /\ m - 1 = o
      OBVIOUS
<1>3. open \in W /\ close \in W
      <2>1. "{" \in Symbols /\ "}" \in Symbols
            BY SymbolsAre DEF IsAlphabet
      <2> QED
          BY <2>1, Ones
<1>4. Carries(A, B, open)
      <2>1. Punctuated(Symbols, o, a, out)
            BY SymbolsAre, PunctuationPasses
      <2> QED
          BY <2>1 DEF Punctuated
<1> HIDE DEF m
<1>5. A \in SUBSET D /\ B \in SUBSET D
      BY <1>2, SymbolsAre, StatesDecode
<1>6. Carries(B, A, close)
      <2>1. Punctuated(Symbols, m, a, out)
            BY <1>2, SymbolsAre, PunctuationPasses
      <2>2. Carries(B, Ats(Symbols, m - 1, a, out), close)
            BY <1>2, <2>1 DEF Punctuated
      <2> QED
          BY <1>2, <2>2
<1>7. J \in W /\ Carries(B, B, J)
      BY <1>2, FieldsPass
<1> HIDE DEF A, B, D, W, J, open, close
<1>8. open \o J \in W /\ open \o J \o close \in W
      BY <1>3, <1>7, Glued DEF W
<1>9. Carries(A, B, open \o J)
      BY <1>3, <1>4, <1>5, <1>7, SymbolsAre, CarriesThen DEF W, D
<1>10. Carries(A, A, open \o J \o close)
      BY <1>3, <1>5, <1>6, <1>8, <1>9, SymbolsAre, CarriesThen DEF W, D
<1> QED
    BY <1>1, <1>8, <1>10 DEF W, A

LEMMA ValuePasses ==
  ASSUME NEW out \in Seq(Symbols), NEW v, v.kind = "string" => IsText(v.text), v.kind = "steps" => AreSteps(v.steps)
  PROVE  ValueText(v) \in Seq(Symbols) /\ Carries(Ats(Symbols, 1, 0, out), Ats(Symbols, 1, 0, out), ValueText(v))
<1> DEFINE W == Seq(Symbols)
           D == Decoders(Symbols)
           A == Ats(Symbols, 1, 0, out)
           B == Ats(Symbols, 1, 1, out)
<1>0. 1 \in Nat /\ 0 \in Nat /\ 1 >= 1 /\ 0 + 1 = 1 /\ 1 - 1 = 0
      OBVIOUS
<1>1. CASE v.kind # "steps"
      <2>1. Simple(v) \in W /\ Carries(A, A, Simple(v))
            BY <1>0, SimplePasses
      <2>2. ValueText(v) = Simple(v)
            BY <1>1 DEF ValueText
      <2> QED
          BY <2>1, <2>2
<1>2. CASE v.kind = "steps"
      <2> DEFINE steps == v.steps
                 n == Len(steps)
                 parts == [i \in DOMAIN steps |-> ObjectText(steps[i])]
                 J == Joined(parts)
                 open == <<"[">>
                 close == <<"]">>
      <2>1. ValueText(v) = open \o J \o close
            BY <1>2 DEF ValueText
      <2>2. AreSteps(steps)
            BY <1>2
      <2> HIDE DEF steps
      <2>3. n \in Nat /\ DOMAIN steps = 1..n /\ \A i \in 1..n : AreFields(steps[i])
            BY <2>2, ListedOnes DEF AreSteps
      <2>4. \A i \in 1..n : ObjectText(steps[i]) \in W /\ Carries(B, B, ObjectText(steps[i]))
            BY <1>0, <2>3, ObjectPasses
      <2>5. A \in SUBSET D /\ B \in SUBSET D
            BY <1>0, SymbolsAre, StatesDecode
      <2>6. open \in W /\ close \in W
            <3>1. "[" \in Symbols /\ "]" \in Symbols
                  BY SymbolsAre DEF IsAlphabet
            <3> QED
                BY <3>1, Ones
      <2>7. Carries(A, B, open)
            <3>1. Punctuated(Symbols, 1, 0, out)
                  BY <1>0, SymbolsAre, PunctuationPasses
            <3>2. Carries(A, Ats(Symbols, 1, 0 + 1, out), open)
                  BY <3>1 DEF Punctuated
            <3> QED
                BY <1>0, <3>2
      <2>8. Carries(B, A, close) /\ Carries(B, B, <<",">>)
            <3>1. Punctuated(Symbols, 1, 1, out)
                  BY <1>0, SymbolsAre, PunctuationPasses
            <3>2. Carries(B, Ats(Symbols, 1, 1 - 1, out), close) /\ Carries(B, B, <<",">>)
                  BY <1>0, <3>1 DEF Punctuated
            <3> QED
                BY <1>0, <3>2
      <2> HIDE DEF A, B, D, W, n, open, close
      <2>9. parts \in [1..n -> W] /\ \A i \in 1..n : parts[i] = ObjectText(steps[i])
            BY <2>3, <2>4
      <2> HIDE DEF parts
      <2>10. \A i \in 1..n : Carries(B, B, parts[i])
            BY <2>4, <2>9
      <2>11. J \in W /\ Carries(B, B, J)
            BY <2>3, <2>5, <2>8, <2>9, <2>10, JoinedPasses DEF W, D
      <2> HIDE DEF J
      <2>12. open \o J \in W /\ open \o J \o close \in W
            BY <2>6, <2>11, Glued DEF W
      <2>13. Carries(A, B, open \o J)
            BY <2>5, <2>6, <2>7, <2>11, SymbolsAre, CarriesThen DEF W, D
      <2>14. Carries(A, A, open \o J \o close)
            BY <2>5, <2>6, <2>8, <2>12, <2>13, SymbolsAre, CarriesThen DEF W, D
      <2> QED
          BY <2>1, <2>12, <2>14 DEF W, A
<1> QED
    BY <1>1, <1>2

RootParts(fields) == [i \in DOMAIN fields |-> FieldText(fields[i], ValueText(fields[i].value))]
RootText(fields) == <<"{">> \o Joined(RootParts(fields)) \o <<"}">>

\* The decoder shows the content of an object, whatever else is in it.
LEMMA ObjectReads ==
  ASSUME NEW fields, IsObject(fields), NEW c \in DOMAIN fields,
         fields[c].key = "content", fields[c].value.kind = "string"
  PROVE  /\ RootText(fields) \in Seq(Symbols) /\ Decoded(fields[c].value.text) \in Seq(Symbols)
         /\ Feed(Idle, RootText(fields)) \in Ats(Symbols, 0, 0, Decoded(fields[c].value.text))
<1> DEFINE W == Seq(Symbols)
           D == Decoders(Symbols)
           n == Len(fields)
           content == fields[c].value.text
           new == Decoded(content)
           T(i) == FieldText(fields[i], ValueText(fields[i].value))
           A == Ats(Symbols, 1, 0, <<>>)
           B == Ats(Symbols, 1, 0, new)
           X == [i \in 0..n |-> IF i < c THEN A ELSE B]
           parts == RootParts(fields)
           J == Joined(parts)
           open == <<"{">>
           close == <<"}">>
<1>0. 1 \in Nat /\ 0 \in Nat /\ 1 >= 1 /\ 0 + 1 = 1 /\ 1 - 1 = 0
      OBVIOUS
<1>1. AreListed(fields)
      BY FieldsAre DEF IsObject
<1>2. n \in Nat /\ DOMAIN fields = 1..n /\ c \in 1..n /\ \A i \in 1..n : fields[i] \in ToSet(fields)
      BY <1>1, ListedOnes DEF AreListed
<1>3. \A i \in 1..n : i # c => fields[i].key # "content"
      BY <1>2 DEF IsObject
<1>4. \A i \in 1..n : fields[i].value.kind = "steps" => AreSteps(fields[i].value.steps)
      BY <1>2 DEF IsObject
<1>5. \A i \in 1..n : IsField(fields[i])
      BY <1>1 DEF AreListed
<1>6. <<>> \in W
      BY SymbolsAre, NoneIs
<1>7. content \in Seq(W) /\ \A i \in 1..Len(content) : IsUnit(content[i])
      <2>1. IsText(content)
            BY <1>2, <1>5 DEF IsField
      <2> HIDE DEF content
      <2> QED
          BY <2>1, TextIs
<1>8. new \in W /\ T(c) \in W /\ Carries(A, B, T(c))
      <2> DEFINE f == fields[c]
      <2>1. f.key = "content" /\ T(c) = FieldText(f, Quoted(content))
            BY DEF ValueText, Simple
      <2> HIDE DEF f, content, T
      <2>2. /\ Decoded(content) \in W /\ FieldText(f, Quoted(content)) \in W
            /\ Carries(A, Ats(Symbols, 1, 0, <<>> \o Decoded(content)), FieldText(f, Quoted(content)))
            BY <1>6, <1>7, <2>1, SymbolsAre, ContentReads
      <2>3. <<>> \o Decoded(content) = Decoded(content)
            BY <2>2
      <2> QED
          BY <2>1, <2>2, <2>3
<1> HIDE DEF content, new
<1>9. ASSUME NEW out \in W, NEW i \in 1..n, i # c
      PROVE  T(i) \in W /\ Carries(Ats(Symbols, 1, 0, out), Ats(Symbols, 1, 0, out), T(i))
      <2> DEFINE f == fields[i]
                 v == f.value
                 t == ValueText(v)
                 Z == Ats(Symbols, 1, 0, out)
      <2>1. (v.kind = "string" => IsText(v.text)) /\ (v.kind = "steps" => AreSteps(v.steps))
            BY <1>4, <1>5 DEF IsField
      <2>2. f.key \in Symbols /\ f.key \notin {"\\", "\""} /\ f.key # "content"
            BY <1>3, <1>5, <1>9 DEF IsField
      <2> HIDE DEF v
      <2>3. t \in W /\ Carries(Z, Z, t)
            BY <2>1, ValuePasses
      <2> HIDE DEF f, t
      <2>4. FieldText(f, t) \in W /\ Carries(Z, Z, FieldText(f, t))
            BY <1>0, <2>2, <2>3, SymbolsAre, FieldPasses
      <2> QED
          BY <2>4 DEF f, t, v
<1>10. A \in SUBSET D /\ B \in SUBSET D
      BY <1>0, <1>6, <1>8, SymbolsAre, StatesDecode
<1>11. Carries(A, A, <<",">>) /\ Carries(B, B, <<",">>)
      <2>1. Punctuated(Symbols, 1, 0, <<>>) /\ Punctuated(Symbols, 1, 0, new)
            BY <1>0, <1>6, <1>8, SymbolsAre, PunctuationPasses
      <2> QED
          BY <2>1 DEF Punctuated
<1>12. \A i \in 1..n : T(i) \in W /\ (i # c => Carries(A, A, T(i)) /\ Carries(B, B, T(i)))
      BY <1>6, <1>8, <1>9
<1> HIDE DEF T, A, B, D, W, n
<1>13. parts \in [1..n -> W] /\ \A i \in 1..n : parts[i] = T(i)
      BY <1>2, <1>12 DEF RootParts, T
<1> HIDE DEF parts
<1>14. parts \in Seq(W) /\ Len(parts) = n
      BY <1>2, <1>13, ListIs
<1>15. \A i \in 0..n : X[i] \in SUBSET D /\ Carries(X[i], X[i], <<",">>)
      BY <1>10, <1>11
<1>16. \A i \in 1..n : Carries(X[i - 1], X[i], parts[i])
      <2> TAKE i \in 1..n
      <2>1. CASE i < c
            <3>1. X[i - 1] = A /\ X[i] = A /\ i # c
                  BY <1>2, <2>1
            <3> QED
                BY <1>12, <1>13, <3>1
      <2>2. CASE i = c
            <3>1. X[i - 1] = A /\ X[i] = B
                  BY <1>2, <2>2
            <3> QED
                BY <1>8, <1>13, <2>2, <3>1
      <2>3. CASE i > c
            <3>1. X[i - 1] = B /\ X[i] = B /\ i # c
                  BY <1>2, <2>3
            <3> QED
                BY <1>12, <1>13, <3>1
      <2> QED
          BY <1>2, <2>1, <2>2, <2>3
<1>17. X[0] = A /\ X[n] = B
      BY <1>2
<1> HIDE DEF X
<1>18. J \in W /\ Carries(X[0], X[n], J)
      BY <1>14, <1>15, <1>16, SymbolsAre, JoinedCarries DEF W, D
<1>19. J \in W /\ Carries(A, B, J)
      BY <1>17, <1>18
<1>20. open \in W /\ close \in W
      <2>1. "{" \in Symbols /\ "}" \in Symbols
            BY SymbolsAre DEF IsAlphabet
      <2> QED
          BY <2>1, Ones DEF W
<1>21. Idle \in {Idle} /\ {Idle} \in SUBSET D /\ Carries({Idle}, A, open)
      <2>1. Idle = At(<<>>, 0, 0, <<>>)
            BY DEF Idle, At
      <2>2. Idle \in Ats(Symbols, 0, 0, <<>>) /\ Ats(Symbols, 0, 0, <<>>) \in SUBSET D
            <3>1. Ats(Symbols, 0, 0, <<>>) = {At(k, 0, 0, <<>>) : k \in W}
                  BY DEF Ats, W
            <3>2. Ats(Symbols, 0, 0, <<>>) \in SUBSET D
                  BY <1>0, <1>6, SymbolsAre, StatesDecode DEF W, D
            <3> QED
                BY <1>6, <2>1, <3>1, <3>2
      <2>3. Punctuated(Symbols, 0, 0, <<>>)
            BY <1>0, <1>6, SymbolsAre, PunctuationPasses DEF W
      <2>4. Carries(Ats(Symbols, 0, 0, <<>>), Ats(Symbols, 0 + 1, 0, <<>>), open)
            BY <2>3 DEF Punctuated
      <2> QED
          BY <1>0, <2>2, <2>4 DEF Carries, A
<1>22. Carries(B, Ats(Symbols, 0, 0, new), close)
      <2>1. Punctuated(Symbols, 1, 0, new)
            BY <1>0, <1>8, SymbolsAre, PunctuationPasses DEF W
      <2>2. Carries(B, Ats(Symbols, 1 - 1, 0, new), close)
            BY <1>0, <2>1 DEF Punctuated, B
      <2> QED
          BY <1>0, <2>2
<1>23. RootText(fields) = open \o J \o close
      BY DEF RootText, parts
<1> HIDE DEF open, close, J
<1>24. open \o J \in W /\ open \o J \o close \in W
      BY <1>19, <1>20, Glued DEF W
<1>25. Carries({Idle}, B, open \o J)
      BY <1>10, <1>19, <1>20, <1>21, SymbolsAre, CarriesThen DEF W, D
<1>26. Carries({Idle}, Ats(Symbols, 0, 0, new), open \o J \o close)
      BY <1>20, <1>10, <1>21, <1>22, <1>24, <1>25, SymbolsAre, CarriesThen DEF W, D
<1>27. Feed(Idle, RootText(fields)) \in Ats(Symbols, 0, 0, new)
      BY <1>21, <1>23, <1>26 DEF Carries
<1> QED
    BY <1>8, <1>23, <1>24, <1>27 DEF W, new, content

\* The text of an object is one, and begins with a brace.
LEMMA ObjectIsText ==
  ASSUME NEW fields, IsObject(fields)
  PROVE  RootText(fields) \in Seq(Symbols) /\ RootText(fields)[1] = "{"
<1> DEFINE W == Seq(Symbols)
           D == Decoders(Symbols)
           n == Len(fields)
           T(i) == FieldText(fields[i], ValueText(fields[i].value))
           parts == RootParts(fields)
           J == Joined(parts)
           open == <<"{">>
           close == <<"}">>
<1>1. AreListed(fields)
      BY FieldsAre DEF IsObject
<1>2. n \in Nat /\ DOMAIN fields = 1..n /\ \A i \in 1..n : fields[i] \in ToSet(fields)
      BY <1>1, ListedOnes DEF AreListed
<1>3. FedBy(D, Symbols)
      BY SymbolsAre, Fed
<1>4. \A s \in W : Carries(D, D, s)
      <2> HIDE DEF D
      <2> QED
          BY <1>3 DEF FedBy, Carries
<1>5. /\ ":" \in Symbols /\ "," \in Symbols /\ "{" \in Symbols /\ "}" \in Symbols
      BY SymbolsAre DEF IsAlphabet
<1>0. 1 \in Nat /\ 1 >= 1 /\ 0 \in Nat
      OBVIOUS
<1>6. <<>> \in W
      BY SymbolsAre, NoneIs
<1>7. ASSUME NEW i \in 1..n PROVE T(i) \in W
      <2> DEFINE f == fields[i]
                 v == f.value
                 key == f.key
                 q == Quoted(<<<<key>>>>)
                 colon == <<":">>
                 t == ValueText(v)
      <2>1. IsField(f)
            BY <1>1 DEF AreListed
      <2>2. v.kind = "steps" => AreSteps(v.steps)
            BY <1>2 DEF IsObject
      <2>3. (v.kind = "string" => IsText(v.text)) /\ key \in Symbols /\ key \notin {"\\", "\""}
            BY <2>1 DEF IsField
      <2>4. T(i) = q \o colon \o t
            BY DEF FieldText
      <2> HIDE DEF v, key
      <2>5. t \in W
            BY <1>6, <2>2, <2>3, ValuePasses
      <2>6. q \in W
            BY <1>0, <1>6, <2>3, SymbolsAre, KeyReads
      <2>7. colon \in W
            BY <1>5, Ones
      <2> HIDE DEF q, colon, t, W
      <2>8. q \o colon \o t \in W
            BY <2>5, <2>6, <2>7, Glued DEF W
      <2> QED
          BY <2>4, <2>8
<1> HIDE DEF T, n
<1>8. parts \in [1..n -> W]
      BY <1>2, <1>7 DEF RootParts, T
<1> HIDE DEF parts
<1>9. D \in SUBSET Decoders(Symbols) /\ Carries(D, D, <<",">>) /\ \A i \in 1..n : Carries(D, D, parts[i])
      BY <1>4, <1>5, <1>8, Ones
<1> HIDE DEF D
<1>10. J \in W
      BY <1>2, <1>8, <1>9, JoinedPasses
<1>11. open \in W /\ close \in W /\ open # <<>> /\ open[1] = "{"
      BY <1>5, Ones
<1>12. RootText(fields) = open \o J \o close
      BY DEF RootText, parts
<1> HIDE DEF open, close, J
<1>13. open \o J \in W /\ open \o J \o close \in W
      BY <1>10, <1>11, Glued
<1>14. (open \o J \o close)[1] = "{"
      <2>2. open \o J # <<>> /\ (open \o J)[1] = "{"
            BY <1>10, <1>11, FirstItem
      <2> QED
          BY <1>11, <1>13, <2>2, FirstItem
<1> QED
    BY <1>12, <1>13, <1>14

\* A text without a content shows nothing.
LEMMA PlainStays ==
  ASSUME NEW text \in Seq(Symbols \ {"content"})
  PROVE  Feed(Idle, text).out = <<>>
<1> DEFINE C == Symbols \ {"content"}
           D == Decoders(C)
           X == {d \in D : d.mode = "idle" /\ d.out = <<>>}
           S == {s \in Seq(C) : Feed(Idle, s) \in X}
<1>1. IsAlphabet(C)
      BY SymbolsAre DEF IsAlphabet
<1>2. Idle \in X
      BY IdleDecodes DEF Idle
<1>3. "content" \notin C
      OBVIOUS
<1> HIDE DEF C
<1>4. ASSUME NEW d \in X, NEW c \in C PROVE HandleChar(d, c) \in X
      <2>1. d \in D /\ d.mode = "idle" /\ d.out = <<>>
            OBVIOUS
      <2>2. HandleChar(d, c) \in D
            BY <1>1, HandleCharDecodes
      <2>3. d.key # <<"content">>
            <3>1. d.key \in Seq(C)
                  BY <2>1 DEF Decoders
            <3>2. ASSUME d.key = <<"content">> PROVE FALSE
                  <4> DEFINE k == d.key
                  <4>1. k \in Seq(C) /\ Len(k) = 1 /\ k[1] = "content"
                        BY <3>1, <3>2
                  <4> HIDE DEF k
                  <4>2. k[1] \in C
                        BY <4>1, ShortOnes
                  <4> QED
                      BY <1>3, <4>1, <4>2
            <3> QED
                BY <3>2
      <2> DEFINE r == HandleChar(d, c)
                 Quiet(x) == x.mode = "idle" /\ x.out = <<>>
      <2>4. /\ d = [mode |-> d.mode, quoted |-> d.quoted, inKey |-> d.inKey, key |-> d.key, escape |-> d.escape,
                    unicode |-> d.unicode, objects |-> d.objects, arrays |-> d.arrays, out |-> d.out]
            BY <2>1 DEF Decoders
      <2> HIDE DEF D, X
      <2>5. \A x, e : Quiet(x) => Quiet(Emit(x, e))
            BY DEF Emit
      <2>6. Quiet([d EXCEPT !.unicode = FALSE]) /\ Quiet([d EXCEPT !.escape = FALSE]) /\ Quiet(d)
            BY <2>1, <2>4
      <2> HIDE DEF Quiet
      <2>7. Quiet(AfterEscape(d, c))
            BY <2>1, <2>5, <2>6, Zenon DEF AfterEscape
      <2>8. Quiet(InString(d, c))
            BY <2>1, <2>4, <2>5, <2>6 DEF InString, Quiet
      <2>9. Quiet(Outside(d, c))
            BY <2>1, <2>3, <2>4 DEF Outside, OpensString, Quiet
      <2>10. Quiet(r)
            BY <2>5, <2>6, <2>7, <2>8, <2>9 DEF HandleChar
      <2> QED
          BY <2>2, <2>10 DEF X, Quiet
<1>5. FedBy(D, C)
      BY <1>1, Fed
<1> HIDE DEF X
<1>6. <<>> \in S
      <2>1. Idle \in D /\ <<>> \in Seq(C)
            BY <1>2 DEF X
      <2> HIDE DEF D
      <2> QED
          BY <1>2, <1>5, <2>1 DEF FedBy
<1>7. ASSUME NEW s \in Seq(C), NEW c \in C, s \in S PROVE Append(s, c) \in S
      <2>1. Idle \in D /\ Append(s, c) \in Seq(C)
            BY <1>2 DEF X
      <2> HIDE DEF D
      <2>2. Feed(Idle, Append(s, c)) = HandleChar(Feed(Idle, s), c)
            BY <1>5, <2>1 DEF FedBy
      <2> QED
          BY <1>4, <1>7, <2>1, <2>2
<1> HIDE DEF S
<1>8. text \in S
      BY <1>6, <1>7, SeqBySet DEF C
<1> QED
    BY <1>8 DEF S, X

-----------------------------------------------------------------------------
(* What the user is asked about has been shown.                             *)

Tags == {"[COMMAND]", "[SCRIPT:"}

\* What the stream brings: the text of a reply.
LEMMA TextOfReply ==
  ASSUME NEW r \in Replies
  PROVE  /\ TextOf[r] \in Seq(Symbols)
         /\ r.kind = "plain" => IsPlain(TextOf[r])
         /\ r.kind # "plain" => IsObject(r.fields) /\ TextOf[r] = RootText(r.fields) /\ TextOf[r][1] = "{"
<1>1. TextOf[r] = ReplyText(r)
      BY DEF TextOf
<1>2. CASE r.kind = "plain"
      <2>1. TextOf[r] = r.text /\ IsPlain(r.text)
            BY <1>1, <1>2, RepliesAssumption DEF ReplyText
      <2>2. Seq(STRING) \subseteq Seq(Symbols)
            BY WiderSeq DEF Symbols
      <2> QED
          BY <1>2, <2>1, <2>2 DEF IsPlain
<1>3. CASE r.kind # "plain"
      <2>1. IsObject(r.fields)
            BY <1>3, RepliesAssumption
      <2>2. TextOf[r] = RootText(r.fields)
            BY <1>1, <1>3 DEF ReplyText, RootText, RootParts
      <2>3. RootText(r.fields) \in Seq(Symbols) /\ RootText(r.fields)[1] = "{"
            BY <2>1, ObjectIsText
      <2> QED
          BY <1>3, <2>1, <2>2, <2>3
<1> QED
    BY <1>2, <1>3

\* A plain text under a tag shows nothing, wherever it ends.
LEMMA TaggedStays ==
  ASSUME NEW text, IsPlain(text), text # <<>>, text[1] \in Tags, NEW cut \in 0..Len(text)
  PROVE  Feed(Idle, SubSeq(text, 1, cut)).out = <<>>
<1> DEFINE C == Symbols \ {"content"}
           s == SubSeq(text, 1, cut)
<1>1. text \in Seq(STRING) /\ "content" \notin ToSet(text)
      BY DEF IsPlain, Tags
<1>2. DOMAIN text = 1..Len(text) /\ Len(text) \in Nat /\ \A i \in 1..Len(text) : text[i] \in STRING
      BY <1>1, PartsAre
<1>3. \A i \in 1..Len(text) : text[i] # "content"
      BY <1>1, <1>2 DEF ToSet
<1>4. \A i \in 1..Len(text) : text[i] \in C
      BY <1>2, <1>3 DEF Symbols
<1> HIDE DEF C
<1>5. text \in Seq(C)
      <2>1. text = [i \in 1..Len(text) |-> text[i]]
            BY <1>1
      <2>2. text \in [1..Len(text) -> C]
            BY <1>4, <2>1
      <2> QED
          BY <1>2, <2>2, ListIs
<1>6. s \in Seq(C)
      BY <1>5
<1> HIDE DEF s
<1>7. Feed(Idle, s).out = <<>>
      BY <1>6, PlainStays DEF C
<1> QED
    BY <1>7 DEF s

\* The content of an object as the parser finds it.
LEMMA FieldIs ==
  ASSUME NEW fields, IsObject(fields), NEW r, r.fields = fields, HasString(r, "content")
  PROVE  \E c \in DOMAIN fields : /\ fields[c].key = "content" /\ fields[c].value.kind = "string"
                                  /\ Field(r, "content") = fields[c].value
<1> DEFINE F == Fields(r, "content")
<1>1. F = {i \in DOMAIN fields : fields[i].key = "content"} /\ F # {}
      BY DEF Fields, HasString
<1>2. PICK c \in DOMAIN fields : fields[c].key = "content"
      BY <1>1
<1>3. F = {c}
      BY <1>1, <1>2 DEF IsObject
<1>4. c \in Nat
      <2>1. AreListed(fields)
            BY FieldsAre DEF IsObject
      <2>2. DOMAIN fields = 1..Len(fields) /\ Len(fields) \in Nat
            BY <2>1, ListedOnes DEF AreListed
      <2> QED
          BY <2>2
<1> HIDE DEF F
<1>5. Max(F) = c
      <2>1. c \in {c} /\ \A y \in {c} : c >= y
            BY <1>4
      <2>2. \A x \in {c} : x = c
            OBVIOUS
      <2> QED
          BY <1>3, <2>1, <2>2 DEF Max
<1>6. Field(r, "content") = fields[c].value
      BY <1>5 DEF Field, F
<1>7. fields[c].value.kind = "string"
      BY <1>6 DEF HasString
<1> QED
    BY <1>2, <1>6, <1>7

Got == [line |-> buffer, text |-> accumulated, decoder |-> decoder]
IsOnItsWay ==
  /\ reply \in Replies /\ Got \in Gotten(Symbols) /\ wire \in Seq(WireCell(Symbols))
  /\ Comes(TakeCells(provider, Got, wire), TextOf[reply])
  /\ shown = decoder.out
IsShown ==
  /\ shown = parsed.content
  /\ reply.kind = "object" => parsed.content = Decoded(Field(reply, "content").text)
ShownInv ==
  /\ phase = "idle" => buffer = <<>> /\ accumulated = <<>> /\ decoder = Idle /\ shown = <<>>
  /\ phase \in {"stream", "parse"} => IsOnItsWay
  /\ phase = "parse" => wire = <<>> /\ accumulated # <<>>
  /\ phase \in {"run", "save"} => IsShown

LEMMA AskSends ==
  ASSUME ShownInv, NEW p, NEW h, NEW r \in Replies, NEW cut \in CutsAt, NEW blanks \in 0..MaxBlanks,
         NEW unended \in BOOLEAN, Ask(p, h, r, cut, blanks, unended)
  PROVE  ShownInv'
<1> DEFINE text == TextOf[r]
           cells == Cells(p, text, cut, blanks)
           D == WireCell(Symbols)
<1>1. /\ phase = "idle" /\ phase' = "stream" /\ provider' = p /\ reply' = r /\ cut <= Len(text)
      /\ wire' = IF unended THEN Front(cells) ELSE cells
      /\ buffer' = buffer /\ accumulated' = accumulated /\ decoder' = decoder /\ shown' = shown
      BY DEF Ask
<1>2. buffer = <<>> /\ accumulated = <<>> /\ decoder = Idle /\ shown = <<>>
      BY <1>1 DEF ShownInv
<1>3. text \in Seq(Symbols)
      BY TextOfReply
<1>4. cut \in Nat /\ blanks \in Nat
      BY AnswerAssumption
<1> HIDE DEF text
<1>5. /\ cells \in Seq(D) /\ Front(cells) \in Seq(D)
      /\ Comes(TakeCells(p, Unread, cells), text) /\ Comes(TakeCells(p, Unread, Front(cells)), text)
      BY <1>1, <1>3, <1>4, SymbolsAre, CellsCome
<1>6. Unread \in Gotten(Symbols)
      <2>1. FedBy(Decoders(Symbols), Symbols)
            BY SymbolsAre, Fed
      <2>2. Idle \in Decoders(Symbols) /\ <<>> \in Seq(Symbols) /\ <<>> \in Seq(D)
            BY IdleDecodes
      <2>3. Feed(Idle, <<>>) = Idle
            BY <2>1, <2>2 DEF FedBy
      <2> QED
          BY <2>2, <2>3 DEF Unread, Gotten, Fits
<1> HIDE DEF cells, D
<1>7. Got' = Unread /\ decoder'.out = <<>>
      BY <1>1, <1>2 DEF Got, Unread, Idle
<1>8. wire' \in Seq(D) /\ Comes(TakeCells(p, Unread, wire'), text)
      BY <1>1, <1>5
<1>9. IsOnItsWay'
      BY <1>1, <1>2, <1>6, <1>7, <1>8 DEF IsOnItsWay, D, text
<1> QED
    BY <1>1, <1>9 DEF ShownInv

LEMMA ReceiveTakes ==
  ASSUME ShownInv, NEW n \in 1..MaxChunk, Receive(n)
  PROVE  ShownInv'
<1> DEFINE V == Gotten(Symbols)
           D == WireCell(Symbols)
           s == SubSeq(wire, 1, n)
           t == SubSeq(wire, n + 1, Len(wire))
           g == TakeCells(provider, Got, s)
<1>1. /\ phase = "stream" /\ phase' = "stream" /\ provider' = provider /\ reply' = reply /\ n <= Len(wire)
      /\ buffer' = g.line /\ accumulated' = g.text /\ decoder' = g.decoder /\ shown' = decoder'.out /\ wire' = t
      BY DEF Receive, Got, request
<1>2. IsOnItsWay
      BY <1>1 DEF ShownInv
<1>3. Got \in V /\ wire \in Seq(D) /\ Comes(TakeCells(provider, Got, wire), TextOf[reply]) /\ reply \in Replies
      BY <1>2 DEF IsOnItsWay
<1> HIDE DEF D
<1>4. s \in Seq(D) /\ t \in Seq(D) /\ wire = s \o t
      <2>1. n \in Nat /\ n <= Len(wire) /\ n >= 1
            BY <1>1, AnswerAssumption
      <2> QED
          BY <1>3, <2>1
<1>5. TakenBy(provider, V, D)
      BY SymbolsAre, Taken DEF D
<1> HIDE DEF V, s, t
<1>6. g \in V /\ TakeCells(provider, Got, wire) = TakeCells(provider, g, t)
      BY <1>3, <1>4, <1>5 DEF TakenBy
<1> HIDE DEF g
<1>7. Got' = g
      <2>1. g = [line |-> g.line, text |-> g.text, decoder |-> g.decoder]
            BY <1>6 DEF V, Gotten
      <2> QED
          BY <1>1, <2>1 DEF Got
<1>8. IsOnItsWay'
      BY <1>1, <1>3, <1>4, <1>6, <1>7 DEF IsOnItsWay, V, D
<1> QED
    BY <1>1, <1>8 DEF ShownInv

\* The end of the stream.
LEMMA AllHasCome ==
  ASSUME IsOnItsWay, wire = <<>>
  PROVE  Comes(Got, TextOf[reply]) /\ decoder = Feed(Idle, accumulated)
<1>1. TakenBy(provider, Gotten(Symbols), WireCell(Symbols))
      BY SymbolsAre, Taken
<1>2. Got \in Gotten(Symbols) /\ Comes(TakeCells(provider, Got, <<>>), TextOf[reply])
      BY DEF IsOnItsWay
<1>3. Got.decoder = Feed(Idle, Got.text)
      BY <1>2 DEF Gotten, Fits
<1>4. Got.decoder = decoder /\ Got.text = accumulated
      BY DEF Got
<1> QED
    BY <1>1, <1>2, <1>3, <1>4 DEF TakenBy

Asks == {"command", "script"}

\* Text that is not JSON is asked about under a tag only, and has no steps of its own.
LEMMA UntaggedAsks ==
  ASSUME NEW type, NEW content, NEW filename, NEW steps, NEW text, NEW resp,
         resp = Untagged([type |-> type, content |-> content, filename |-> filename, steps |-> steps], text)
  PROVE  resp.steps = steps /\ (resp.type \in Asks => text[1] \in Tags \/ type \in Asks)
<1> DEFINE base == [type |-> type, content |-> content, filename |-> filename, steps |-> steps]
<1>1. CASE Len(text) > 1 /\ text[1] = "[COMMAND]"
      <2>1. resp = [base EXCEPT !.type = "command", !.content = Tail(text)]
            BY <1>1, Zenon DEF Untagged
      <2>2. text[1] \in Tags
            BY <1>1 DEF Tags
      <2>3. resp.steps = steps
            BY <2>1
      <2> QED
          BY <2>2, <2>3
<1>2. CASE ~(Len(text) > 1 /\ text[1] = "[COMMAND]") /\ Len(text) > 1 /\ text[1] = "[SCRIPT:"
      <2> DEFINE ends == {i \in DOMAIN text : text[i] = "]"}
      <2>1. \/ resp = [base EXCEPT !.type = "script", !.content = text]
            \/ resp = [base EXCEPT !.type = "script", !.filename = SubSeq(text, 2, Min(ends) - 1),
                      !.content = SubSeq(text, Min(ends) + 1, Len(text))]
            BY <1>2, Zenon DEF Untagged
      <2>2. text[1] \in Tags
            BY <1>2 DEF Tags
      <2> HIDE DEF ends
      <2>3. resp.steps = steps
            BY <2>1
      <2> QED
          BY <2>2, <2>3
<1>3. CASE ~(Len(text) > 1 /\ text[1] = "[COMMAND]") /\ ~(Len(text) > 1 /\ text[1] = "[SCRIPT:")
      <2>1. resp = [base EXCEPT !.content = Tail(text)] \/ resp = [base EXCEPT !.content = text]
            BY <1>3, Zenon DEF Untagged
      <2> QED
          BY <2>1
<1> QED
    BY <1>1, <1>2, <1>3

\* A reply that is asked about: its text has a tag, or it is an object whose content
\* is a string, without steps.
LEMMA AskedHas ==
  ASSUME NEW resp, resp = ParseAiResponse, resp.type \in Asks
  PROVE  \/ accumulated[1] \in Tags /\ (resp.steps = <<>> \/ IsJson)
         \/ /\ IsJson /\ HasString(reply, "content") /\ resp.steps = <<>>
            /\ resp.content = Decoded(Field(reply, "content").text)
<1>1. ASSUME NEW steps, resp = Fallback("answer", steps) PROVE resp.steps = steps /\ accumulated[1] \in Tags
      BY <1>1, UntaggedAsks DEF Fallback, Asks
<1>2. ASSUME NEW steps, resp = Fallback("steps", steps) PROVE accumulated[1] \in Tags
      BY <1>2, UntaggedAsks DEF Fallback, Asks
<1>3. CASE ~(IsJson /\ HasString(reply, "response_type") /\ HasString(reply, "content"))
      <2>1. resp = Fallback("answer", <<>>)
            BY <1>3 DEF ParseAiResponse
      <2> QED
          BY <1>1, <2>1
<1>4. CASE IsJson /\ HasString(reply, "response_type") /\ HasString(reply, "content")
      <2> DEFINE type == TypeOf(reply)
                 steps == IF type = "steps" THEN StepsOf(reply) ELSE <<>>
                 bad == {i \in DOMAIN steps : Throws(steps[i])}
                 read == [i \in 1..(IF bad = {} THEN Len(steps) ELSE Min(bad) - 1) |-> Command(steps[i])]
                 new == [type |-> type, content |-> Decoded(Field(reply, "content").text),
                         filename |-> IF type = "script" THEN Filename(reply) ELSE <<"script.sh">>, steps |-> read]
      <2>1. resp = IF bad # {} THEN Fallback("steps", read) ELSE new
            BY <1>4 DEF ParseAiResponse, Structured
      <2>2. CASE type = "steps"
            <3> HIDE DEF steps, bad, read
            <3>1. ~(bad = {})
                  BY <2>1, <2>2 DEF Asks
            <3>2. resp = Fallback("steps", read)
                  BY <2>1, <3>1
            <3>3. accumulated[1] \in Tags
                  BY <1>2, <3>2
            <3> QED
                BY <1>4, <3>3
      <2>3. CASE type # "steps"
            <3>1. steps = <<>>
                  BY <2>3
            <3> HIDE DEF steps
            <3>2. bad = {}
                  BY <3>1
            <3> HIDE DEF bad
            <3>3. read = <<>>
                  BY <3>1, <3>2
            <3> HIDE DEF read, type
            <3>4. resp = new
                  BY <2>1, <3>2
            <3> QED
                BY <1>4, <3>3, <3>4
      <2> QED
          BY <2>2, <2>3
<1> QED
    BY <1>3, <1>4

LEMMA ParseShows ==
  ASSUME ShownInv, NEW tty \in BOOLEAN, Parse(tty)
  PROVE  ShownInv'
<1> DEFINE resp == ParseAiResponse
           text == TextOf[reply]
<1>1. /\ phase = "parse" /\ parsed' = resp /\ phase' = Follows(parsed', tty) /\ reply' = reply
      /\ shown' = IF shown = <<>> /\ parsed'.steps = <<>> THEN parsed'.content ELSE shown
      BY DEF Parse, request
<1> HIDE DEF resp
<1>2. phase' \in {"run", "save", "step", "done"} /\ (phase' \in {"run", "save"} => resp.type \in Asks)
      BY <1>1 DEF Follows, Asks
<1> SUFFICES ASSUME phase' \in {"run", "save"} PROVE IsShown'
    BY <1>2 DEF ShownInv
<1>3. IsOnItsWay /\ wire = <<>> /\ accumulated # <<>>
      BY <1>1 DEF ShownInv
<1>4. Comes(Got, text) /\ decoder = Feed(Idle, accumulated)
      BY <1>3, AllHasCome
<1>5. reply \in Replies /\ shown = decoder.out
      BY <1>3 DEF IsOnItsWay
<1>6. /\ text \in Seq(Symbols) /\ (reply.kind = "plain" => IsPlain(text))
      /\ reply.kind # "plain" => IsObject(reply.fields) /\ text = RootText(reply.fields) /\ text[1] = "{"
      BY <1>5, TextOfReply
<1> HIDE DEF text
<1>7. PICK cut \in 0..Len(text) : accumulated = SubSeq(text, 1, cut)
      BY <1>4 DEF Comes, Got
<1>8. accumulated[1] = text[1] /\ text # <<>>
      BY <1>3, <1>6, <1>7, Beginning
<1>9. CASE accumulated[1] \in Tags /\ (resp.steps = <<>> \/ IsJson)
      <2>1. text[1] # "{"
            BY <1>8, <1>9 DEF Tags
      <2>2. reply.kind = "plain" /\ ~IsJson
            BY <1>6, <2>1 DEF IsJson
      <2>3. decoder.out = <<>>
            BY <1>4, <1>6, <1>7, <1>8, <1>9, <2>2, TaggedStays
      <2>4. shown' = parsed'.content /\ reply'.kind # "object"
            BY <1>1, <1>5, <1>9, <2>2, <2>3
      <2> QED
          BY <2>4 DEF IsShown
<1>10. CASE /\ IsJson /\ HasString(reply, "content") /\ resp.steps = <<>>
            /\ resp.content = Decoded(Field(reply, "content").text)
      <2> DEFINE fields == reply.fields
                 content == Field(reply, "content").text
      <2>1. IsObject(fields) /\ accumulated = RootText(fields)
            BY <1>6, <1>10 DEF IsJson, text
      <2>2. PICK c \in DOMAIN fields : /\ fields[c].key = "content" /\ fields[c].value.kind = "string"
                                       /\ Field(reply, "content") = fields[c].value
            <3>1. fields = reply.fields
                  OBVIOUS
            <3> HIDE DEF fields
            <3> QED
                BY <1>10, <2>1, <3>1, FieldIs
      <2> HIDE DEF fields
      <2>3. Feed(Idle, accumulated) \in Ats(Symbols, 0, 0, Decoded(fields[c].value.text))
            BY <2>1, <2>2, ObjectReads
      <2>4. decoder.out = Decoded(fields[c].value.text)
            BY <1>4, <2>3 DEF Ats, At
      <2>5. shown = Decoded(content)
            BY <1>5, <2>2, <2>4
      <2>6. parsed'.content = Decoded(content) /\ parsed'.steps = <<>>
            BY <1>1, <1>10
      <2> HIDE DEF content
      <2>7. shown' = Decoded(content)
            BY <1>1, <2>5, <2>6
      <2>8. (Field(reply, "content").text)' = content
            BY <1>1 DEF content, Field, Fields
      <2> QED
          BY <2>6, <2>7, <2>8 DEF IsShown
<1> QED
    BY <1>1, <1>2, <1>9, <1>10, AskedHas DEF resp

\* The other steps: the end of the stream, what is answered at the prompts, and none.
LEMMA StreamEnds ==
  ASSUME ShownInv, Complete
  PROVE  ShownInv'
<1>1. /\ phase = "stream" /\ wire = <<>> /\ phase' \in {"done", "parse"} /\ (phase' = "parse" => accumulated # <<>>)
      /\ UNCHANGED <<request, stream, shown>>
      BY DEF Complete, Finish
<1>2. IsOnItsWay
      BY <1>1 DEF ShownInv
<1>3. IsOnItsWay'
      BY <1>1, <1>2 DEF IsOnItsWay, Got, request, stream
<1> QED
    BY <1>1, <1>3 DEF ShownInv, request, stream

LEMMA PromptsKeep ==
  ASSUME ShownInv, phase' \in {"done", "step", "stop"}
  PROVE  ShownInv'
BY DEF ShownInv

LEMMA StutteringKeeps ==
  ASSUME ShownInv, UNCHANGED answerVars
  PROVE  ShownInv'
<1>1. /\ UNCHANGED <<phase, provider, body, reply, wire, received, buffer, accumulated, decoder, shown, parsed>>
      BY DEF answerVars
<1>2. IsOnItsWay => IsOnItsWay'
      BY <1>1 DEF IsOnItsWay, Got
<1>3. IsShown => IsShown'
      BY <1>1 DEF IsShown, Field, Fields
<1> QED
    BY <1>1, <1>2, <1>3 DEF ShownInv

\* AskedIsShown, for every set of replies that are JSON objects with one content or
\* plain texts, however they are cut: what is asked about has been shown, and a
\* reply that came whole is what the model said.
THEOREM AskedWasShown == AnswerSpec => []AskedIsShown
<1>1. AnswerInit => ShownInv
      BY DEF AnswerInit, ShownInv
<1>2. ShownInv /\ [AnswerNext]_answerVars => ShownInv'
      <2> SUFFICES ASSUME ShownInv, [AnswerNext]_answerVars PROVE ShownInv'
          OBVIOUS
      <2>1. CASE \E p \in {"gemini", "openai", "ollama"}, h \in Histories, r \in Replies :
                   \E cut \in CutsAt, blanks \in 0..MaxBlanks, unended \in BOOLEAN : Ask(p, h, r, cut, blanks, unended)
            BY <2>1, AskSends
      <2>2. CASE \E n \in 1..MaxChunk : Receive(n)
            BY <2>2, ReceiveTakes
      <2>3. CASE \E n \in 1..MaxChunk : Overflows(n)
            <3>1. phase' = "done"
                  BY <2>3 DEF Overflows, Finish
            <3> QED
                BY <3>1, PromptsKeep
      <2>4. CASE Complete
            BY <2>4, StreamEnds
      <2>5. CASE \E tty \in BOOLEAN : Parse(tty)
            BY <2>5, ParseShows
      <2>6. CASE \E k \in {"y", "n", "e"}, status \in Status : RunOne(k, status)
            <3>1. phase' = "done"
                  BY <2>6 DEF RunOne, Finish
            <3> QED
                BY <3>1, PromptsKeep
      <2>7. CASE \E name \in Filenames, ok \in BOOLEAN : Save(name, ok)
            <3>1. phase' = "done"
                  BY <2>7 DEF Save, Finish
            <3> QED
                BY <3>1, PromptsKeep
      <2>8. CASE \E k \in {"y", "n", "a", "s", "other"}, status \in Status : Step(k, status)
            <3>1. phase' \in {"done", "step", "stop"}
                  BY <2>8 DEF Step, RunStep, Advance, Finish
            <3> QED
                BY <3>1, PromptsKeep
      <2>9. CASE \E status \in Status : StepOfAll(status)
            <3>1. phase' \in {"done", "step", "stop"}
                  BY <2>9 DEF StepOfAll, Advance
            <3> QED
                BY <3>1, PromptsKeep
      <2>10. CASE \E k \in {"y", "n"} : Stop(k)
            <3>1. phase' \in {"done", "step", "stop"}
                  BY <2>10 DEF Stop, Advance
            <3> QED
                BY <3>1, PromptsKeep
      <2>11. CASE UNCHANGED answerVars
            BY <2>11, StutteringKeeps
      <2> QED
          BY <2>1, <2>2, <2>3, <2>4, <2>5, <2>6, <2>7, <2>8, <2>9, <2>10, <2>11 DEF AnswerNext
<1>3. ShownInv => AskedIsShown
      <2> SUFFICES ASSUME ShownInv PROVE AskedIsShown
          OBVIOUS
      <2>1. phase \in {"run", "save"} => IsShown
            BY DEF ShownInv
      <2>2. ASSUME phase = "parse", Whole PROVE accumulated = TextOf[reply]
            <3>1. IsOnItsWay /\ wire = <<>> /\ buffer = <<>>
                  BY <2>2 DEF ShownInv, Whole
            <3>2. Comes(Got, TextOf[reply])
                  BY <3>1, AllHasCome
            <3> QED
                BY <3>1, <3>2 DEF Comes, Got
      <2> QED
          BY <2>1, <2>2 DEF AskedIsShown, IsShown
<1> QED
    BY <1>1, <1>2, <1>3, PTL DEF AnswerSpec
=============================================================================
