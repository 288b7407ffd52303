------------------------- MODULE SharedFilesProofs -------------------------
(* What holds of the files that the shells of a user share, for any number  *)
(* of shells, commands, kills and midnights: those behind @ai, the frecency *)
(* file and the sessions, the directory that config sync pushes, and the    *)
(* history database.                                                        *)
EXTENDS AiFiles, Workspace, ConfigSync, History, DataLemmas, SequenceTheorems

-----------------------------------------------------------------------------
(* The files behind @ai.                                                    *)

Texts == Providers \cup Models \cup {"", "key", "0", "1"}
Turns == [role : {"user", "assistant", "corrupt"}, ask : Nat]
WritesOf == [name : {"conv"}, value : Seq(Turns)] \cup [name : Names \ {"conv"}, value : Texts]
Locals == [provider : Texts, model : Texts, purpose : {"", "ask", "status"}, day : Nat, count : Nat, ask : Nat]
Clients == [provider : Texts, model : Texts]
Places == {"idle", "client", "wizard", "rekey", "model", "build", "request", "status", "answer", "usage", "counted",
           "truncated", "user", "assistant"}

FilesOK ==
  /\ file \in [Names -> Texts \cup Seq(Turns)]
  /\ file["conv"] \in Seq(Turns) /\ \A f \in Names \ {"conv"} : file[f] \in Texts
  /\ todo \in [Shells -> Seq(WritesOf)]
  /\ mem \in [Shells -> Seq(Turns)]
ShellsOK ==
  /\ at \in [Shells -> Places]
  /\ local \in [Shells -> Locals]
  /\ client \in [Shells -> Clients]
  /\ asks \in Nat
CountsOK ==
  /\ usage \in [day : Nat, count : Nat]
  /\ locked \in Shells \cup {"nobody"}
  /\ day \in 1 .. MaxBreaks + 1 /\ crashes \in Nat
  /\ made \in [0 .. MaxBreaks + 1 -> Nat]

\* Whoever fills a file has a write to make.
OpenedHasWrite == \A s \in opened : todo[s] # <<>>

\* What is read of the two files suits each other when the client is built.
Fitting ==
  /\ \A s \in Shells : at[s] = "build" => Suits(local[s].provider, local[s].model)
  /\ ModelFitsProvider

\* The lock, and what its holder has read.
Holds(s) == at[s] \in {"counted", "truncated"}
Alone == \A s \in Shells : Holds(s) => locked = s /\ local[s].day \in 1 .. day

\* No increments are known of after day d.
NoneAfter(d) == \A x \in 0 .. MaxBreaks + 1 : made[x] # 0 => x <= d

\* What the file has is what was made of its day; and while it is empty its
\* writer knows.
Whole ==
  /\ (\A s \in Shells : at[s] # "truncated") =>
       /\ usage.count = (IF usage.day = 0 THEN 0 ELSE made[usage.day])
       /\ usage.day <= day /\ NoneAfter(usage.day)
  /\ \A s \in Shells : at[s] = "counted" =>
       usage.day <= local[s].day /\ local[s].count = Today(usage, local[s].day)
  /\ \A s \in Shells : at[s] = "truncated" =>
       /\ usage = [day |-> 0, count |-> 0]
       /\ local[s].count = made[local[s].day] /\ NoneAfter(local[s].day)

IInv == FilesOK /\ ShellsOK /\ CountsOK /\ OpenedHasWrite /\ Fitting /\ Alone /\ Whole

USE AiFilesBounds

LEMMA Outsiders == "gemini" \in Providers /\ "nobody" \notin Shells
  BY AiFilesAssumption, Zenon

LEMMA InitIInv == Init => IInv
<1> SUFFICES ASSUME Init PROVE IInv
    OBVIOUS
<1>1. FilesOK
      <2>1. PICK key \in {"", "key"} : file = [f \in Names |-> IF f = "gemini_key" THEN key ELSE Blank(f)]
            BY DEF Init
      <2>2. file["conv"] = <<>> /\ file["conv"] \in Seq(Turns)
            BY <2>1, EmptySeq DEF Names, Blank
      <2>3. \A f \in Names \ {"conv"} : file[f] \in Texts
            BY <2>1 DEF Names, Blank, Texts
      <2>4. DOMAIN file = Names /\ file = [f \in Names |-> file[f]]
            BY <2>1
      <2>5. file \in [Names -> Texts \cup Seq(Turns)]
            BY <2>2, <2>3, <2>4
      <2>6. todo \in [Shells -> Seq(WritesOf)] /\ mem \in [Shells -> Seq(Turns)]
            BY EmptySeq DEF Init
      <2> QED
          BY <2>2, <2>3, <2>5, <2>6 DEF FilesOK
<1>2. ShellsOK
      <2>1. NoLocal \in Locals /\ NoClient \in Clients
            BY DEF NoLocal, NoClient, Locals, Clients, Texts
      <2> QED
          BY <2>1 DEF Init, ShellsOK, Places
<1>3. CountsOK
      <2>1. usage = [day |-> 0, count |-> 0] /\ day = 1 /\ made = [d \in 0 .. MaxBreaks + 1 |-> 0]
            BY DEF Init
      <2>2. usage \in [day : Nat, count : Nat] /\ day \in 1 .. MaxBreaks + 1 /\ made \in [0 .. MaxBreaks + 1 -> Nat]
            BY <2>1
      <2> QED
          BY <2>1, <2>2 DEF Init, CountsOK
<1>4. OpenedHasWrite /\ Fitting /\ Alone
      BY DEF Init, OpenedHasWrite, Fitting, ModelFitsProvider, Alone, Holds, NoClient
<1>5. Whole
      <2>1. usage.count = 0 /\ usage.day = 0 /\ day = 1 /\ \A s \in Shells : at[s] = "idle"
            BY DEF Init
      <2>2. \A x \in 0 .. MaxBreaks + 1 : made[x] = 0
            BY DEF Init
      <2>3. NoneAfter(usage.day)
            BY <2>2 DEF NoneAfter
      <2> QED
          BY <2>1, <2>3 DEF Whole
<1> QED
    BY <1>1, <1>2, <1>3, <1>4, <1>5 DEF IInv

LEMMA Latest ==
  ASSUME NEW S, NEW turns \in Seq(S) PROVE LastTurns(turns) \in Seq(S)
<1>1. Len(turns) \in Nat /\ MaxTurns \in Nat
      BY LenProperties
<1>2. CASE Len(turns) > MaxTurns
      <2>1. SubSeq(turns, Len(turns) - MaxTurns + 1, Len(turns)) \in Seq(S)
            BY <1>1, <1>2, SubSeqProperties
      <2> QED
          BY <1>2, <2>1 DEF LastTurns
<1> QED
    BY <1>1, <1>2 DEF LastTurns

\* What is read of the files.
LEMMA Reads ==
  ASSUME IInv
  PROVE  /\ Provider \in Texts /\ file["model"] \in Texts
         /\ \A s \in Shells : Load(s) \in Seq(Turns)
         /\ SavedKey \in Seq(WritesOf)
<1>1. Provider \in Texts /\ file["model"] \in Texts
      BY Outsiders DEF IInv, FilesOK, Provider, Texts, Names
<1>2. Conversation \in Seq(Turns)
      <2>1. file["conv"] \in Seq(Turns)
            BY DEF IInv, FilesOK
      <2> QED
          BY <2>1, Latest, EmptySeq DEF Conversation
<1>3. \A s \in Shells : Load(s) \in Seq(Turns)
      BY <1>2 DEF IInv, FilesOK, Load
<1>4. SavedKey \in Seq(WritesOf)
      <2>1. KeyFile(Provider) \in Names \ {"conv"}
            BY DEF KeyFile, Names
      <2>2. Write(KeyFile(Provider), "key") \in WritesOf
            BY <2>1 DEF Write, WritesOf, Texts
      <2> QED
          BY <2>2, EmptySeq DEF SavedKey
<1> QED
    BY <1>1, <1>3, <1>4

-----------------------------------------------------------------------------
\* Nothing happens but to the files that are rewritten in place.
LEMMA ShellsKept ==
  ASSUME IInv, UNCHANGED <<at, local, client, asks, usage, locked, day, crashes, made>>
  PROVE  ShellsOK' /\ CountsOK' /\ Fitting' /\ Alone' /\ Whole'
<1>1. ShellsOK' /\ CountsOK'
      BY DEF IInv, ShellsOK, CountsOK
<1>2. Fitting'
      BY DEF IInv, Fitting, ModelFitsProvider
<1>3. Alone' /\ Whole'
      BY DEF IInv, Alone, Whole, Holds, NoneAfter
<1> QED
    BY <1>1, <1>2, <1>3

\* What a shell with nothing left to write decides to write, and to remember.
LEMMA WritesKeep ==
  ASSUME IInv, NEW s \in Shells, todo[s] = <<>>, UNCHANGED <<file, opened>>,
         NEW ws \in Seq(WritesOf), todo' = [todo EXCEPT ![s] = ws],
         NEW turns \in Seq(Turns), mem' = [mem EXCEPT ![s] = turns]
  PROVE  FilesOK' /\ OpenedHasWrite'
<1>1. FilesOK'
      BY DEF IInv, FilesOK
<1>2. OpenedHasWrite'
      BY DEF IInv, OpenedHasWrite, FilesOK
<1> QED
    BY <1>1, <1>2

\* A shell goes from one place to another, neither of which is under the lock, and
\* where it builds a client, the model it has read suits the provider.
LEMMA StepKeeps ==
  ASSUME IInv, NEW s \in Shells, ~Holds(s),
         NEW to \in Places \ {"counted", "truncated"}, at' = [at EXCEPT ![s] = to],
         NEW l \in Locals, local' = [local EXCEPT ![s] = l],
         to = "build" => Suits(l.provider, l.model),
         NEW c \in Clients, client' = [client EXCEPT ![s] = c],
         c.model # "" => c = client[s] \/ <<c.provider, c.model>> \in Fits,
         UNCHANGED <<usage, locked, day, crashes, made>>, asks' \in Nat
  PROVE  ShellsOK' /\ CountsOK' /\ Fitting' /\ Alone' /\ Whole'
<1>1. ShellsOK' /\ CountsOK'
      BY DEF IInv, ShellsOK, CountsOK
<1>2. /\ at'[s] = to /\ local'[s] = l /\ client'[s] = c
      /\ \A t \in Shells : t # s => at'[t] = at[t] /\ local'[t] = local[t] /\ client'[t] = client[t]
      BY DEF IInv, ShellsOK
<1>3. Fitting'
      <2>1. \A t \in Shells : at'[t] = "build" => Suits(local'[t].provider, local'[t].model)
            BY <1>2 DEF IInv, Fitting
      <2>2. ModelFitsProvider'
            BY <1>2, ZenonT(30) DEF IInv, Fitting, ModelFitsProvider
      <2> QED
          BY <2>1, <2>2 DEF Fitting, Suits
<1>4. Alone'
      BY <1>2 DEF IInv, Alone, Holds
<1>5. Whole'
      <2>1. \A t \in Shells : Holds(t)' => t # s /\ at'[t] = at[t] /\ local'[t] = local[t]
            BY <1>2 DEF Holds
      <2>2. (\A t \in Shells : at'[t] # "truncated") => (\A t \in Shells : at[t] # "truncated")
            BY <1>2 DEF Holds
      <2>3. Whole
            BY DEF IInv
      <2>4. UNCHANGED <<usage, day, made>>
            OBVIOUS
      <2>5. ASSUME \A t \in Shells : at'[t] # "truncated"
            PROVE  /\ usage'.count = (IF usage'.day = 0 THEN 0 ELSE made'[usage'.day])
                   /\ usage'.day <= day' /\ NoneAfter(usage.day)'
            BY <2>2, <2>3, <2>4, <2>5 DEF Whole, NoneAfter
      <2>6. ASSUME NEW t \in Shells, at'[t] = "counted"
            PROVE  usage'.day <= local'[t].day /\ local'[t].count = Today(usage', local'[t].day)
            BY <2>1, <2>3, <2>4, <2>6 DEF Whole, Holds
      <2>7. ASSUME NEW t \in Shells, at'[t] = "truncated"
            PROVE  /\ usage' = [day |-> 0, count |-> 0]
                   /\ local'[t].count = made'[local'[t].day] /\ NoneAfter(local[t].day)'
            BY <2>1, <2>3, <2>4, <2>7 DEF Whole, Holds, NoneAfter
      <2> QED
          BY <2>5, <2>6, <2>7 DEF Whole
<1> QED
    BY <1>1, <1>3, <1>4, <1>5

\* The same without a change to what the shell has read.
LEMMA Same ==
  ASSUME IInv, NEW s \in Shells
  PROVE  /\ local[s] \in Locals /\ client[s] \in Clients /\ mem[s] \in Seq(Turns) /\ todo[s] \in Seq(WritesOf)
         /\ local = [local EXCEPT ![s] = local[s]] /\ client = [client EXCEPT ![s] = client[s]]
         /\ mem = [mem EXCEPT ![s] = mem[s]] /\ todo = [todo EXCEPT ![s] = todo[s]]
         /\ NoLocal \in Locals /\ NoClient \in Clients /\ NoClient.model = "" /\ asks \in Nat
<1>1. NoLocal \in Locals /\ NoClient \in Clients /\ NoClient.model = ""
      BY DEF NoLocal, NoClient, Locals, Clients, Texts
<1> QED
    BY <1>1 DEF IInv, ShellsOK, FilesOK

-----------------------------------------------------------------------------
LEMMA FilesStep ==
  ASSUME IInv, NEW s \in Shells, Truncate(s) \/ Fill(s) \/ CannotWrite(s) PROVE IInv'
<1>1. ShellsOK' /\ CountsOK' /\ Fitting' /\ Alone' /\ Whole'
      BY ShellsKept DEF Truncate, Fill, CannotWrite, counts, files
<1>2. /\ FilesOK /\ OpenedHasWrite
      BY DEF IInv
<1>3. CASE Truncate(s)
      <2> DEFINE f == todo[s][1].name
      <2>1. /\ todo[s] # <<>> /\ opened' = opened \cup {s} /\ file' = [file EXCEPT ![f] = Blank(f)]
            /\ UNCHANGED <<todo, mem>>
            BY <1>3 DEF Truncate
      <2>2. Blank("conv") \in Seq(Turns) /\ \A g \in Names \ {"conv"} : Blank(g) \in Texts
            BY EmptySeq DEF Blank, Texts
      <2>3. f \in Names
            <3>1. todo[s] \in Seq(WritesOf) /\ todo[s] # <<>>
                  BY <1>2, <2>1 DEF FilesOK
            <3>2. todo[s][1] \in WritesOf
                  BY <3>1
            <3> QED
                BY <3>2 DEF WritesOf, Names
      <2> HIDE DEF f
      <2>4. ASSUME f = "conv" PROVE FilesOK'
            BY <1>2, <2>1, <2>2, <2>4 DEF FilesOK, Names
      <2>5. ASSUME f # "conv" PROVE FilesOK'
            BY <1>2, <2>1, <2>2, <2>3, <2>5 DEF FilesOK, Names
      <2>6. OpenedHasWrite'
            BY <1>2, <2>1 DEF OpenedHasWrite
      <2> QED
          BY <1>1, <2>4, <2>5, <2>6 DEF IInv
<1>4. CASE Fill(s)
      <2> DEFINE w == todo[s][1]
      <2>1. s \in opened /\ todo[s] # <<>> /\ opened' = opened \ {s} /\ todo' = [todo EXCEPT ![s] = Tail(@)] /\ UNCHANGED mem
            BY <1>2, <1>4 DEF Fill, OpenedHasWrite
      <2>2. w \in WritesOf
            <3>1. todo[s] \in Seq(WritesOf)
                  BY <1>2 DEF FilesOK
            <3> QED
                BY <2>1, <3>1
      <2>3. todo' \in [Shells -> Seq(WritesOf)] /\ \A t \in Shells : t # s => todo'[t] = todo[t]
            BY <1>2, <2>1 DEF FilesOK
      <2>4. file' = file \/ \E v \in Overlaid(w.name, file[w.name], w.value) : file' = [file EXCEPT ![w.name] = v]
            BY <1>4 DEF Fill
      <2> HIDE DEF w
      <2>5. ASSUME NEW v \in Overlaid(w.name, file[w.name], w.value), file' = [file EXCEPT ![w.name] = v] PROVE FilesOK'
            <3>1. Corrupt \in Seq(Turns)
                  BY DEF Corrupt, Turns
            <3>2. CASE w.name = "conv"
                  <4>1. v \in Seq(Turns)
                        BY <2>2, <2>5, <3>1, <3>2 DEF Overlaid, WritesOf
                  <4> QED
                      BY <1>2, <2>1, <2>3, <2>5, <3>2, <4>1 DEF FilesOK, Names
            <3>3. CASE w.name # "conv"
                  <4>1. v \in Texts /\ w.name \in Names \ {"conv"}
                        BY <2>2, <2>5, <3>3 DEF Overlaid, WritesOf
                  <4> QED
                      BY <1>2, <2>1, <2>3, <2>5, <4>1 DEF FilesOK
            <3> QED
                BY <3>2, <3>3
      <2>6. FilesOK'
            BY <1>2, <2>1, <2>3, <2>4, <2>5 DEF FilesOK
      <2>7. OpenedHasWrite'
            BY <1>2, <2>1, <2>3 DEF OpenedHasWrite
      <2> QED
          BY <1>1, <2>6, <2>7 DEF IInv
<1>5. CASE CannotWrite(s)
      <2>1. todo[s] # <<>> /\ s \notin opened /\ todo' = [todo EXCEPT ![s] = Tail(@)] /\ UNCHANGED <<file, mem, opened>>
            BY <1>5 DEF CannotWrite, files
      <2>2. FilesOK'
            BY <1>2, <2>1 DEF FilesOK
      <2>3. OpenedHasWrite'
            BY <1>2, <2>1 DEF OpenedHasWrite, FilesOK
      <2> QED
          BY <1>1, <2>2, <2>3 DEF IInv
<1> QED
    BY <1>3, <1>4, <1>5

\* A command that only writes, or that changes what is remembered.
LEMMA PromptStep ==
  ASSUME IInv, NEW s \in Shells,
         \/ SetKey(s) \/ Clear(s) \/ \E b \in BOOLEAN : OnOff(s, b)
         \/ \E p \in Providers : SetProvider(s, p)
         \/ \E m \in Models : SetModel(s, m)
         \/ \E v \in {"0", "1"} : Privacy(s, v)
  PROVE  IInv'
<1>1. ShellsOK' /\ CountsOK' /\ Fitting' /\ Alone' /\ Whole'
      BY ShellsKept DEF SetKey, Clear, OnOff, SetProvider, SetModel, Privacy, Writes, files
<1>2. ASSUME NEW ws \in Seq(WritesOf), Writes(s, ws) PROVE FilesOK' /\ OpenedHasWrite'
      <2>1. todo[s] = <<>> /\ todo' = [todo EXCEPT ![s] = ws] /\ UNCHANGED <<file, opened, mem>>
            BY <1>2 DEF Writes, Prompt, files
      <2> QED
          BY <2>1, Same, WritesKeep
<1>3. \A f \in Names \ {"conv"}, v \in Texts : Write(f, v) \in WritesOf
      BY DEF Write, WritesOf
<1>4. ASSUME SetKey(s) PROVE FilesOK' /\ OpenedHasWrite'
      BY <1>2, <1>4, Reads DEF SetKey
<1>5. ASSUME NEW p \in Providers, SetProvider(s, p) PROVE FilesOK' /\ OpenedHasWrite'
      <2>1. Write("provider", p) \in WritesOf /\ Write("model", "") \in WritesOf
            BY <1>3 DEF Names, Texts
      <2>2. <<Write("provider", p), Write("model", "")>> \in Seq(WritesOf)
            <3> HIDE DEF WritesOf
            <3>1. ASSUME NEW a \in WritesOf, NEW b \in WritesOf PROVE <<a, b>> \in Seq(WritesOf)
                  BY <3>1
            <3> QED
                BY <2>1, <3>1
      <2> QED
          BY <1>2, <1>5, <2>2 DEF SetProvider
<1>6. ASSUME NEW m \in Models, SetModel(s, m) PROVE FilesOK' /\ OpenedHasWrite'
      <2>1. Write("model", m) \in WritesOf
            BY <1>3 DEF Names, Texts
      <2>2. <<Write("model", m)>> \in Seq(WritesOf)
            BY <2>1
      <2> QED
          BY <1>2, <1>6, <2>2 DEF SetModel
<1>7. ASSUME NEW v \in {"0", "1"}, Privacy(s, v) PROVE FilesOK' /\ OpenedHasWrite'
      <2>1. Write("pref", v) \in WritesOf
            BY <1>3 DEF Names, Texts
      <2>2. <<Write("pref", v)>> \in Seq(WritesOf)
            BY <2>1
      <2> QED
          BY <1>2, <1>7, <2>2 DEF Privacy
<1>8. ASSUME NEW b \in BOOLEAN, OnOff(s, b) PROVE FilesOK' /\ OpenedHasWrite'
      BY <1>8 DEF OnOff, files, IInv, FilesOK, OpenedHasWrite
<1>9. ASSUME Clear(s) PROVE FilesOK' /\ OpenedHasWrite'
      <2>1. mem' = [mem EXCEPT ![s] = <<>>] /\ file' = [file EXCEPT !["conv"] = <<>>] /\ UNCHANGED <<todo, opened>>
            BY <1>9 DEF Clear
      <2>2. <<>> \in Seq(Turns)
            BY EmptySeq
      <2> QED
          BY <2>1, <2>2 DEF IInv, FilesOK, OpenedHasWrite, Names
<1> QED
    BY <1>1, <1>4, <1>5, <1>6, <1>7, <1>8, <1>9 DEF IInv

-----------------------------------------------------------------------------
\* The steps of the handlers outside the lock.
LEMMA Asking ==
  ASSUME IInv, NEW s \in Shells, Ask(s) \/ Status(s) \/ ReadProvider(s) \/ ReadModel(s) PROVE IInv'
<1>1. local[s] \in Locals /\ NoLocal \in Locals /\ client[s] \in Clients /\ Provider \in Texts /\ file["model"] \in Texts
      BY Same, Reads
<1>2. at[s] \in Places /\ asks \in Nat /\ FilesOK /\ OpenedHasWrite
      BY DEF IInv, ShellsOK
<1>3. ASSUME NEW to \in Places \ {"counted", "truncated"}, at' = [at EXCEPT ![s] = to], ~Holds(s),
             NEW l \in Locals, local' = [local EXCEPT ![s] = l],
             to = "build" => Suits(l.provider, l.model),
             UNCHANGED <<client, usage, locked, day, asks, crashes, made>>
      PROVE  ShellsOK' /\ CountsOK' /\ Fitting' /\ Alone' /\ Whole'
      <2>1. client' = [client EXCEPT ![s] = client[s]] /\ asks' \in Nat
            BY <1>2, <1>3, Same
      <2> QED
          BY <1>1, <1>3, <2>1, StepKeeps
<1>4. ASSUME UNCHANGED <<file, todo, mem, opened>> PROVE FilesOK' /\ OpenedHasWrite'
      BY <1>2, <1>4 DEF FilesOK, OpenedHasWrite
<1>5. CASE Ask(s)
      <2> DEFINE to == IF HasKey(Provider) THEN "client" ELSE "wizard"
                 l == [NoLocal EXCEPT !.provider = Provider, !.purpose = "ask"]
      <2>1. at' = [at EXCEPT ![s] = to] /\ local' = [local EXCEPT ![s] = l] /\ at[s] = "idle"
            BY <1>5 DEF Ask, Prompt
      <2>2. to \in Places \ {"counted", "truncated"} /\ to # "build" /\ ~Holds(s)
            BY <2>1 DEF Places, Holds
      <2>3. l \in Locals
            BY <1>1 DEF Locals
      <2>4. UNCHANGED <<client, usage, locked, day, asks, crashes, made>> /\ UNCHANGED <<file, todo, mem, opened>>
            BY <1>5 DEF Ask, files
      <2> HIDE DEF to, l
      <2> QED
          BY <1>3, <1>4, <2>1, <2>2, <2>3, <2>4 DEF IInv
<1>6. CASE Status(s)
      <2> DEFINE l == [NoLocal EXCEPT !.purpose = "status"]
      <2>1. at' = [at EXCEPT ![s] = "client"] /\ local' = [local EXCEPT ![s] = l] /\ at[s] = "idle"
            BY <1>6 DEF Status, Prompt
      <2>2. "client" \in Places \ {"counted", "truncated"} /\ ~Holds(s)
            BY <2>1 DEF Places, Holds
      <2>3. l \in Locals
            BY <1>1 DEF Locals
      <2>4. UNCHANGED <<client, usage, locked, day, asks, crashes, made>> /\ UNCHANGED <<file, todo, mem, opened>>
            BY <1>6 DEF Status, files
      <2> HIDE DEF l
      <2> QED
          BY <1>3, <1>4, <2>1, <2>2, <2>3, <2>4 DEF IInv
<1>7. CASE ReadProvider(s)
      <2> DEFINE l == [local[s] EXCEPT !.provider = Provider]
      <2>1. at' = [at EXCEPT ![s] = "model"] /\ local' = [local EXCEPT ![s] = l] /\ at[s] = "client"
            BY <1>7 DEF ReadProvider, Step
      <2>2. "model" \in Places \ {"counted", "truncated"} /\ ~Holds(s)
            BY <2>1 DEF Places, Holds
      <2>3. l \in Locals
            BY <1>1 DEF Locals
      <2>4. UNCHANGED <<client, usage, locked, day, asks, crashes, made>> /\ UNCHANGED <<file, todo, mem, opened>>
            BY <1>7 DEF ReadProvider, Quiet, files
      <2> HIDE DEF l
      <2> QED
          BY <1>3, <1>4, <2>1, <2>2, <2>3, <2>4 DEF IInv
<1>8. CASE ReadModel(s)
      <2> DEFINE fit == Suits(local[s].provider, file["model"])
                 l == [local[s] EXCEPT !.model = IF fit THEN file["model"] ELSE ""]
      <2>1. /\ at' = [at EXCEPT ![s] = "build"] /\ local' = [local EXCEPT ![s] = l] /\ at[s] = "model" /\ todo[s] = <<>>
            /\ todo' = todo \/ todo' = [todo EXCEPT ![s] = <<Write("model", "")>>]
            BY <1>8 DEF ReadModel, Step
      <2>2. "build" \in Places \ {"counted", "truncated"} /\ ~Holds(s)
            BY <2>1 DEF Places, Holds
      <2>3. l \in Locals
            BY <1>1 DEF Locals, Texts
      <2>4. Suits(l.provider, l.model)
            BY <1>1 DEF Suits, Locals
      <2>5. UNCHANGED <<client, usage, locked, day, asks, crashes, made>> /\ UNCHANGED <<file, mem, opened>>
            BY <1>8 DEF ReadModel, Quiet, files
      <2>6. <<Write("model", "")>> \in Seq(WritesOf)
            BY DEF Write, WritesOf, Names, Texts
      <2>7. FilesOK' /\ OpenedHasWrite'
            BY <1>4, <2>1, <2>5, <2>6, Same, WritesKeep
      <2> HIDE DEF l, fit
      <2> QED
          BY <1>3, <2>1, <2>2, <2>3, <2>4, <2>5, <2>7 DEF IInv
<1> QED
    BY <1>5, <1>6, <1>7, <1>8

LEMMA Answering ==
  ASSUME IInv, NEW s \in Shells,
         \/ Wizard(s) \/ Rekey(s) \/ Build(s) \/ Told(s) \/ Succeeds(s)
         \/ \E b \in BOOLEAN : Request(s, b)
         \/ \E status \in {0, 401, 403} : Fails(s, status)
         \/ \E role \in {"user", "assistant"} : AddTurn(s, role)
  PROVE  IInv'
<1> DEFINE Others == ShellsOK' /\ CountsOK' /\ Fitting' /\ Alone' /\ Whole'
           Rest == UNCHANGED <<usage, locked, day, crashes, made>>
           Kept == UNCHANGED <<local, client>>
           Free == Places \ {"build", "counted", "truncated"}
<1>1. asks \in Nat /\ SavedKey \in Seq(WritesOf)
      BY Same, Reads
<1>2. ASSUME NEW to \in Free, at' = [at EXCEPT ![s] = to], ~Holds(s), Rest, asks' \in Nat, Kept \/ Forgets(s)
      PROVE  Others
      <2>1. CASE Kept
            <3>1. local' = [local EXCEPT ![s] = local[s]] /\ client' = [client EXCEPT ![s] = client[s]]
                  BY <2>1, Same
            <3> QED
                BY <1>2, <3>1, Same, StepKeeps
      <2>2. CASE Forgets(s)
            <3>1. local' = [local EXCEPT ![s] = NoLocal] /\ client' = [client EXCEPT ![s] = NoClient]
                  BY <2>2 DEF Forgets
            <3> QED
                BY <1>2, <3>1, Same, StepKeeps
      <2> QED
          BY <1>2, <2>1, <2>2
<1>3. ASSUME UNCHANGED <<file, todo, mem, opened>> PROVE FilesOK' /\ OpenedHasWrite'
      BY <1>3 DEF IInv, FilesOK, OpenedHasWrite
<1>4. ASSUME todo[s] = <<>>, UNCHANGED <<file, opened, mem>>,
             todo' = todo \/ todo' = [todo EXCEPT ![s] = SavedKey]
      PROVE  FilesOK' /\ OpenedHasWrite'
      BY <1>1, <1>3, <1>4, Same, WritesKeep
<1>5. CASE Wizard(s)
      <2>1. at[s] = "wizard" /\ todo[s] = <<>>
            BY <1>5 DEF Wizard, Step
      <2>2. UNCHANGED <<file, opened, mem>> /\ Rest /\ asks' = asks /\ (todo' = todo \/ todo' = [todo EXCEPT ![s] = SavedKey])
            BY <1>5 DEF Wizard, Quiet, files
      <2>3. ~Holds(s)
            BY <2>1 DEF Holds
      <2>4. \E to \in Free : at' = [at EXCEPT ![s] = to] /\ (Kept \/ Forgets(s))
            BY <1>5 DEF Wizard, Step, Places
      <2> QED
          BY <1>1, <1>2, <1>4, <2>1, <2>2, <2>3, <2>4 DEF IInv
<1>6. CASE Rekey(s)
      <2>1. at[s] = "rekey"
            BY <1>6 DEF Rekey, Step
      <2>2. UNCHANGED <<file, todo, opened, mem>> /\ Rest /\ asks' = asks
            BY <1>6 DEF Rekey, Quiet, files
      <2>3. ~Holds(s)
            BY <2>1 DEF Holds
      <2>4. \E to \in Free : at' = [at EXCEPT ![s] = to] /\ (Kept \/ Forgets(s))
            BY <1>6 DEF Rekey, Step, Places
      <2> QED
          BY <1>1, <1>2, <1>3, <2>2, <2>3, <2>4 DEF IInv
<1>7. CASE Build(s)
      <2> DEFINE c == [provider |-> local[s].provider, model |-> local[s].model]
      <2>1. at[s] = "build" /\ client' = [client EXCEPT ![s] = c] /\ UNCHANGED local
            BY <1>7 DEF Build, Step
      <2>2. UNCHANGED <<file, todo, opened, mem>> /\ Rest /\ asks' = asks
            BY <1>7 DEF Build, Quiet, files
      <2>3. c \in Clients
            BY Same DEF Clients, Locals
      <2>4. c.model # "" => <<c.provider, c.model>> \in Fits
            BY <2>1 DEF IInv, Fitting, Suits
      <2>5. ~Holds(s)
            BY <2>1 DEF Holds
      <2>6. \E to \in Free : at' = [at EXCEPT ![s] = to]
            <3>1. at' = [at EXCEPT ![s] = "request"] \/ at' = [at EXCEPT ![s] = "status"]
                  BY <1>7 DEF Build, Step
            <3>2. "request" \in Free /\ "status" \in Free
                  BY DEF Places
            <3> QED
                BY <3>1, <3>2
      <2>7. local' = [local EXCEPT ![s] = local[s]] /\ local[s] \in Locals
            BY <2>1, Same
      <2> HIDE DEF c
      <2>8. Others
            BY <1>1, <2>1, <2>2, <2>3, <2>4, <2>5, <2>6, <2>7, StepKeeps
      <2> QED
          BY <1>3, <2>2, <2>8 DEF IInv
<1>8. CASE Told(s)
      <2>1. at[s] = "status" /\ at' = [at EXCEPT ![s] = "idle"] /\ Forgets(s)
            BY <1>8 DEF Told, Step
      <2>2. UNCHANGED <<file, todo, opened, mem>> /\ Rest /\ asks' = asks
            BY <1>8 DEF Told, Quiet, files
      <2>3. ~Holds(s) /\ "idle" \in Free
            BY <2>1 DEF Holds, Places
      <2> QED
          BY <1>1, <1>2, <1>3, <2>1, <2>2, <2>3 DEF IInv
<1>9. CASE Succeeds(s)
      <2>1. at[s] = "answer" /\ at' = [at EXCEPT ![s] = "usage"] /\ Kept
            BY <1>9 DEF Succeeds, Step
      <2>2. UNCHANGED <<file, todo, opened, mem>> /\ Rest /\ asks' = asks
            BY <1>9 DEF Succeeds, Quiet, files
      <2>3. ~Holds(s) /\ "usage" \in Free
            BY <2>1 DEF Holds, Places
      <2> QED
          BY <1>1, <1>2, <1>3, <2>1, <2>2, <2>3 DEF IInv
<1>10. ASSUME NEW b \in BOOLEAN, Request(s, b) PROVE IInv'
      <2> DEFINE l == [local[s] EXCEPT !.ask = asks + 1]
      <2>1. /\ at[s] = "request" /\ todo[s] = <<>> /\ at' = [at EXCEPT ![s] = "answer"]
            /\ local' = [local EXCEPT ![s] = l] /\ asks' = asks + 1 /\ mem' = [mem EXCEPT ![s] = Load(s)]
            BY <1>10 DEF Request, Step
      <2>2. UNCHANGED <<file, todo, opened, client>> /\ Rest
            BY <1>10 DEF Request, Quiet, files
      <2>3. l \in Locals
            <3>1. ASSUME NEW x \in Locals, NEW n \in Nat PROVE [x EXCEPT !.ask = n] \in Locals
                  BY <3>1 DEF Locals
            <3>2. local[s] \in Locals
                  BY Same
            <3>3. asks + 1 \in Nat
                  BY <1>1
            <3> QED
                BY <3>1, <3>2, <3>3
      <2>4. ~Holds(s) /\ "answer" \in Places \ {"counted", "truncated"} /\ "answer" # "build" /\ asks' \in Nat
            BY <1>1, <2>1 DEF Holds, Places
      <2>5. client' = [client EXCEPT ![s] = client[s]] /\ client[s] \in Clients /\ todo' = [todo EXCEPT ![s] = todo[s]]
            BY <2>2, Same
      <2>6. FilesOK' /\ OpenedHasWrite'
            BY <2>1, <2>2, <2>5, Reads, Same, WritesKeep
      <2> HIDE DEF l
      <2>7. Others
            BY <1>1, <2>1, <2>2, <2>3, <2>4, <2>5, StepKeeps
      <2> QED
          BY <2>6, <2>7 DEF IInv
<1>11. ASSUME NEW status \in {0, 401, 403}, Fails(s, status) PROVE IInv'
      <2>1. at[s] = "answer" /\ todo[s] = <<>> /\ at' = [at EXCEPT ![s] = "idle"] /\ Forgets(s)
            BY <1>11 DEF Fails, Step
      <2>2. UNCHANGED <<file, opened, mem>> /\ Rest /\ asks' = asks /\ (todo' = todo \/ todo' = [todo EXCEPT ![s] = SavedKey])
            BY <1>11 DEF Fails, files
      <2>3. ~Holds(s) /\ "idle" \in Free
            BY <2>1 DEF Holds, Places
      <2> QED
          BY <1>1, <1>2, <1>4, <2>1, <2>2, <2>3 DEF IInv
<1>12. ASSUME NEW role \in {"user", "assistant"}, AddTurn(s, role) PROVE IInv'
      <2> DEFINE turns == Append1(s, role)
      <2>1. /\ at[s] = role /\ todo[s] = <<>> /\ mem' = [mem EXCEPT ![s] = turns]
            /\ todo' = [todo EXCEPT ![s] = <<Write("conv", turns)>>]
            BY <1>12 DEF AddTurn, Step
      <2>2. UNCHANGED <<file, opened>> /\ Rest /\ asks' = asks
            BY <1>12 DEF AddTurn, Quiet, files
      <2>3. turns \in Seq(Turns)
            <3>1. [role |-> role, ask |-> local[s].ask] \in Turns
                  BY Same DEF Turns, Locals
            <3>2. Append(Load(s), [role |-> role, ask |-> local[s].ask]) \in Seq(Turns)
                  BY <3>1, Reads
            <3> QED
                BY <3>2, Latest DEF Append1
      <2>4. ~Holds(s)
            BY <2>1 DEF Holds
      <2>5. \E to \in Free : at' = [at EXCEPT ![s] = to]
            BY <1>12 DEF AddTurn, Step, Places
      <2>6. Kept \/ Forgets(s)
            BY <1>12 DEF AddTurn
      <2> HIDE DEF turns
      <2>7. <<Write("conv", turns)>> \in Seq(WritesOf)
            <3>1. Write("conv", turns) \in WritesOf
                  BY <2>3 DEF Write, WritesOf
            <3> QED
                BY <3>1
      <2>8. FilesOK' /\ OpenedHasWrite'
            BY <2>1, <2>2, <2>3, <2>7, WritesKeep
      <2>9. Others
            BY <1>1, <1>2, <2>2, <2>4, <2>5, <2>6
      <2> QED
          BY <2>8, <2>9 DEF IInv
<1> QED
    BY <1>5, <1>6, <1>7, <1>8, <1>9, <1>10, <1>11, <1>12

-----------------------------------------------------------------------------
\* What a step under the lock, a kill or midnight leaves as it is.
LEMMA FilesKept ==
  ASSUME IInv, UNCHANGED <<file, todo, mem, opened>> PROVE FilesOK' /\ OpenedHasWrite'
  BY DEF IInv, FilesOK, OpenedHasWrite

\* While one shell holds the lock no other does.
LEMMA OneHolder ==
  ASSUME IInv, NEW s \in Shells, locked = s \/ locked = "nobody"
  PROVE  \A t \in Shells : t # s => ~Holds(t)
  BY Outsiders DEF IInv, Alone

\* The counts as numbers.
LEMMA Numbers ==
  ASSUME IInv
  PROVE  /\ usage.day \in Nat /\ usage.count \in Nat /\ day \in Nat /\ crashes \in Nat /\ MaxBreaks \in Nat
         /\ day \in 1 .. MaxBreaks + 1 /\ made \in [0 .. MaxBreaks + 1 -> Nat]
         /\ \A x \in 0 .. MaxBreaks + 1 : made[x] \in Nat
         /\ \A s \in Shells : local[s].day \in Nat /\ local[s].count \in Nat
<1>1. usage \in [day : Nat, count : Nat] /\ day \in 1 .. MaxBreaks + 1 /\ made \in [0 .. MaxBreaks + 1 -> Nat] /\ crashes \in Nat
      BY DEF IInv, CountsOK
<1>2. \A s \in Shells : local[s].day \in Nat /\ local[s].count \in Nat
      BY DEF IInv, ShellsOK, Locals
<1> QED
    BY <1>1, <1>2

LEMMA TakesLock ==
  ASSUME IInv, NEW s \in Shells, UsageLock(s) PROVE IInv'
<1> DEFINE l == [local[s] EXCEPT !.day = day, !.count = Today(usage, day)]
<1>1. /\ locked = "nobody" /\ locked' = s /\ at[s] = "usage" /\ at' = [at EXCEPT ![s] = "counted"]
      /\ local' = [local EXCEPT ![s] = l]
      /\ UNCHANGED <<file, todo, mem, opened, usage, client, asks, day, crashes, made>>
      BY DEF UsageLock, Step, Quiet
<1>2. \A t \in Shells : ~Holds(t)
      <2>1. \A t \in Shells : t # s => ~Holds(t)
            BY <1>1, OneHolder
      <2> QED
          BY <1>1, <2>1 DEF Holds
<1>3. l \in Locals /\ l.day = day /\ l.count = Today(usage, day)
      <2> DEFINE c == Today(usage, day)
      <2>1. local[s] \in Locals
            BY Same
      <2>2. day \in Nat /\ c \in Nat
            BY Numbers DEF Today
      <2>3. l = [local[s] EXCEPT !.day = day, !.count = c]
            OBVIOUS
      <2> HIDE DEF l, c
      <2>4. l \in Locals /\ l.day = day /\ l.count = c
            BY <2>1, <2>2, <2>3 DEF Locals
      <2> QED
          BY <2>4 DEF c
<1> HIDE DEF l
<1>4. /\ at'[s] = "counted" /\ local'[s] = l
      /\ \A t \in Shells : t # s => at'[t] = at[t] /\ local'[t] = local[t]
      BY <1>1 DEF IInv, ShellsOK
<1>5. ShellsOK' /\ CountsOK'
      BY <1>1, <1>3 DEF IInv, ShellsOK, CountsOK, Places
<1>6. Fitting'
      <2>1. \A t \in Shells : at'[t] = "build" => Suits(local'[t].provider, local'[t].model)
            BY <1>4 DEF IInv, Fitting
      <2>2. ModelFitsProvider'
            BY <1>1 DEF IInv, Fitting, ModelFitsProvider
      <2> QED
          BY <2>1, <2>2 DEF Fitting, Suits
<1>7. Alone'
      <2>1. l.day \in 1 .. day
            BY <1>3, Numbers
      <2> QED
          BY <1>1, <1>2, <1>4, <2>1 DEF Alone, Holds
<1>8. Whole'
      <2>1. /\ usage.count = (IF usage.day = 0 THEN 0 ELSE made[usage.day])
            /\ usage.day <= day /\ NoneAfter(usage.day)
            BY <1>2 DEF IInv, Whole, Holds
      <2>2. \A t \in Shells : at'[t] # "truncated"
            BY <1>2, <1>4 DEF Holds
      <2>3. \A t \in Shells : at'[t] = "counted" => t = s
            BY <1>2, <1>4 DEF Holds
      <2>4. UNCHANGED <<usage, day, made>>
            BY <1>1
      <2> QED
          BY <1>3, <1>4, <2>1, <2>2, <2>3, <2>4 DEF Whole, NoneAfter
<1> QED
    BY <1>1, <1>5, <1>6, <1>7, <1>8, FilesKept DEF IInv

LEMMA Empties ==
  ASSUME IInv, NEW s \in Shells, UsageTruncate(s) PROVE IInv'
<1>1. /\ at[s] = "counted" /\ at' = [at EXCEPT ![s] = "truncated"] /\ usage' = [day |-> 0, count |-> 0]
      /\ UNCHANGED <<file, todo, mem, opened, locked, local, client, asks, day, crashes, made>>
      BY DEF UsageTruncate, Step, Quiet
<1>2. locked = s /\ local[s].day \in 1 .. day
      BY <1>1 DEF IInv, Alone, Holds
<1>3. \A t \in Shells : t # s => ~Holds(t)
      BY <1>2, OneHolder
<1>4. at'[s] = "truncated" /\ \A t \in Shells : t # s => at'[t] = at[t]
      BY <1>1 DEF IInv, ShellsOK
<1>5. ShellsOK' /\ CountsOK'
      BY <1>1 DEF IInv, ShellsOK, CountsOK, Places
<1>6. Fitting' /\ Alone'
      BY <1>1, <1>2, <1>4 DEF IInv, Fitting, ModelFitsProvider, Alone, Holds, Suits
<1>7. Whole'
      <2> DEFINE d == local[s].day
      <2>1. /\ usage.count = (IF usage.day = 0 THEN 0 ELSE made[usage.day]) /\ NoneAfter(usage.day)
            /\ usage.day <= d /\ local[s].count = Today(usage, d)
            BY <1>1, <1>3 DEF IInv, Whole, Holds
      <2>2. d \in 1 .. MaxBreaks + 1
            BY <1>2, Numbers
      <2> HIDE DEF d
      <2>3. local[s].count = made[d]
            <3>1. CASE usage.day = d
                  BY <2>1, <2>2, <3>1 DEF Today
            <3>2. CASE usage.day # d
                  <4>1. ~(d <= usage.day)
                        BY <2>1, <2>2, <3>2, Numbers
                  <4>2. made[d] = 0
                        BY <2>1, <2>2, <4>1 DEF NoneAfter
                  <4> QED
                      BY <2>1, <3>2, <4>2 DEF Today
            <3> QED
                BY <3>1, <3>2
      <2>4. NoneAfter(d)
            BY <2>1, <2>2, Numbers DEF NoneAfter
      <2>5. \A t \in Shells : Holds(t)' => t = s
            BY <1>3, <1>4 DEF Holds
      <2>6. NoneAfter(d)' <=> NoneAfter(d)
            BY <1>1 DEF NoneAfter, d
      <2> QED
          BY <1>1, <1>4, <2>3, <2>4, <2>5, <2>6 DEF Whole, Holds, d, NoneAfter
<1> QED
    BY <1>1, <1>5, <1>6, <1>7, FilesKept DEF IInv

LEMMA WritesCount ==
  ASSUME IInv, NEW s \in Shells, UsageWrite(s) PROVE IInv'
<1> DEFINE d == local[s].day
           n == local[s].count + 1
<1>1. /\ at[s] = "truncated" /\ at' = [at EXCEPT ![s] = "user"] /\ locked' = "nobody"
      /\ usage' = [day |-> d, count |-> n] /\ made' = [made EXCEPT ![d] = @ + 1]
      /\ UNCHANGED <<file, todo, mem, opened, local, client, asks, day, crashes>>
      BY DEF UsageWrite, Step, Quiet
<1>2. locked = s /\ d \in 1 .. day /\ local[s].count = made[d] /\ NoneAfter(d)
      BY <1>1 DEF IInv, Alone, Holds, Whole
<1>3. d \in 1 .. MaxBreaks + 1 /\ n \in Nat
      <2>1. d \in 1 .. MaxBreaks + 1 /\ made[d] \in Nat
            BY <1>2, Numbers
      <2>2. local[s].count \in Nat
            BY <1>2, <2>1
      <2> QED
          BY <2>1, <2>2
<1>4. \A t \in Shells : t # s => ~Holds(t)
      BY <1>2, OneHolder
<1>5. at'[s] = "user" /\ \A t \in Shells : t # s => at'[t] = at[t]
      BY <1>1 DEF IInv, ShellsOK
<1>6. \A t \in Shells : ~Holds(t)'
      BY <1>4, <1>5 DEF Holds
<1> HIDE DEF d, n
<1>7. made'[d] = made[d] + 1 /\ \A x \in 0 .. MaxBreaks + 1 : x # d => made'[x] = made[x]
      BY <1>1, <1>3, Numbers
<1>8. ShellsOK' /\ CountsOK'
      <2>1. made' \in [0 .. MaxBreaks + 1 -> Nat]
            BY <1>1, <1>3, Numbers, SMTT(30)
      <2> QED
          BY <1>1, <1>3, <2>1 DEF IInv, ShellsOK, CountsOK, Places
<1>9. Fitting' /\ Alone'
      BY <1>1, <1>5, <1>6 DEF IInv, Fitting, ModelFitsProvider, Alone, Suits
<1>10. Whole'
      <2>1. usage'.day = d /\ usage'.count = made'[d] /\ d # 0 /\ d <= day
            BY <1>1, <1>2, <1>3, <1>7, Numbers DEF n
      <2>2. \A x \in 0 .. MaxBreaks + 1 : made'[x] # 0 => x <= d
            BY <1>2, <1>3, <1>7 DEF NoneAfter
      <2>3. NoneAfter(usage.day)'
            BY <2>1, <2>2 DEF NoneAfter
      <2> QED
          BY <1>1, <1>6, <2>1, <2>3 DEF Whole, Holds
<1> QED
    BY <1>1, <1>8, <1>9, <1>10, FilesKept DEF IInv

LEMMA Ends ==
  ASSUME IInv, NEW s \in Shells, Crash(s) PROVE IInv'
<1>1. /\ crashes' = crashes + 1 /\ at' = [at EXCEPT ![s] = "idle"] /\ todo' = [todo EXCEPT ![s] = <<>>]
      /\ opened' = opened \ {s} /\ mem' = [mem EXCEPT ![s] = <<>>]
      /\ local' = [local EXCEPT ![s] = NoLocal] /\ client' = [client EXCEPT ![s] = NoClient]
      /\ locked' = IF locked = s THEN "nobody" ELSE locked
      /\ made' = IF at[s] = "truncated" THEN [d \in DOMAIN made |-> 0] ELSE made
      /\ UNCHANGED <<file, usage, day, asks>>
      BY DEF Crash, Forgets
<1>2. /\ at'[s] = "idle" /\ client'[s] = NoClient
      /\ \A t \in Shells : t # s => at'[t] = at[t] /\ local'[t] = local[t] /\ client'[t] = client[t] /\ todo'[t] = todo[t]
      BY <1>1 DEF IInv, ShellsOK, FilesOK
<1>3. FilesOK' /\ OpenedHasWrite'
      <2>1. <<>> \in Seq(WritesOf) /\ <<>> \in Seq(Turns)
            BY EmptySeq
      <2>2. FilesOK'
            BY <1>1, <2>1 DEF IInv, FilesOK
      <2>3. OpenedHasWrite'
            BY <1>1 DEF IInv, OpenedHasWrite, FilesOK
      <2> QED
          BY <2>2, <2>3
<1>4. NoLocal \in Locals /\ NoClient \in Clients /\ NoClient.model = ""
      BY Same
<1>5. ShellsOK'
      BY <1>1, <1>4 DEF IInv, ShellsOK, Places
<1>6. CountsOK'
      <2>1. made' \in [0 .. MaxBreaks + 1 -> Nat] /\ crashes' \in Nat
            BY <1>1, Numbers
      <2>2. locked' \in Shells \cup {"nobody"}
            BY <1>1 DEF IInv, CountsOK
      <2> QED
          BY <1>1, <2>1, <2>2 DEF IInv, CountsOK
<1>7. Fitting'
      BY <1>1, <1>2, <1>4 DEF IInv, Fitting, ModelFitsProvider, Suits
<1>8. Alone'
      BY <1>1, <1>2 DEF IInv, Alone, Holds
<1>9. Whole'
      <2>1. CASE at[s] = "truncated"
            <3>1. locked = s /\ usage = [day |-> 0, count |-> 0]
                  BY <2>1 DEF IInv, Alone, Whole, Holds
            <3>2. \A t \in Shells : ~Holds(t)'
                  BY <1>2, <3>1, OneHolder DEF Holds
            <3>3. \A x \in 0 .. MaxBreaks + 1 : made'[x] = 0
                  BY <1>1, <2>1, Numbers
            <3>4. NoneAfter(usage.day)'
                  BY <3>3 DEF NoneAfter
            <3>5. usage'.day = 0 /\ usage'.count = 0 /\ 0 <= day'
                  BY <1>1, <3>1, Numbers
            <3> QED
                BY <3>2, <3>4, <3>5 DEF Whole, Holds
      <2>2. CASE at[s] # "truncated"
            <3>1. UNCHANGED <<usage, day, made>>
                  BY <1>1, <2>2
            <3>2. (\A t \in Shells : at'[t] # "truncated") => (\A t \in Shells : at[t] # "truncated")
                  BY <1>2, <2>2
            <3>3. \A t \in Shells : Holds(t)' => t # s /\ at'[t] = at[t] /\ local'[t] = local[t]
                  BY <1>2 DEF Holds
            <3>4. Whole
                  BY DEF IInv
            <3>5. ASSUME \A t \in Shells : at'[t] # "truncated"
                  PROVE  /\ usage'.count = (IF usage'.day = 0 THEN 0 ELSE made'[usage'.day])
                         /\ usage'.day <= day' /\ NoneAfter(usage.day)'
                  BY <3>1, <3>2, <3>4, <3>5 DEF Whole, NoneAfter
            <3>6. ASSUME NEW t \in Shells, at'[t] = "counted"
                  PROVE  usage'.day <= local'[t].day /\ local'[t].count = Today(usage', local'[t].day)
                  BY <3>1, <3>3, <3>4, <3>6 DEF Whole, Holds
            <3>7. ASSUME NEW t \in Shells, at'[t] = "truncated"
                  PROVE  /\ usage' = [day |-> 0, count |-> 0]
                         /\ local'[t].count = made'[local'[t].day] /\ NoneAfter(local[t].day)'
                  BY <3>1, <3>3, <3>4, <3>7 DEF Whole, Holds, NoneAfter
            <3> QED
                BY <3>5, <3>6, <3>7 DEF Whole
      <2> QED
          BY <2>1, <2>2
<1> QED
    BY <1>3, <1>5, <1>6, <1>7, <1>8, <1>9 DEF IInv

LEMMA DayPasses ==
  ASSUME IInv, Midnight PROVE IInv'
<1>1. /\ crashes + day <= MaxBreaks /\ day' = day + 1
      /\ UNCHANGED <<file, todo, mem, opened, usage, locked, at, local, client, asks, crashes, made>>
      BY DEF Midnight, Breaks, files, shell
<1>2. day' \in 1 .. MaxBreaks + 1 /\ day < day'
      BY <1>1, Numbers, SMTT(30)
<1>3. ShellsOK' /\ CountsOK'
      BY <1>1, <1>2 DEF IInv, ShellsOK, CountsOK
<1>4. Fitting'
      BY <1>1 DEF IInv, Fitting, ModelFitsProvider
<1>5. Alone'
      <2>1. \A x \in 1 .. day : x \in 1 .. day'
            BY <1>1, Numbers
      <2> QED
          BY <1>1, <2>1 DEF IInv, Alone, Holds
<1>6. Whole'
      <2>1. usage.day <= day => usage.day <= day'
            BY <1>1, Numbers, SMTT(30)
      <2> QED
          BY <1>1, <2>1 DEF IInv, Whole, NoneAfter
<1> QED
    BY <1>1, <1>3, <1>4, <1>5, <1>6, FilesKept DEF IInv

-----------------------------------------------------------------------------
LEMMA NextIInv ==
  ASSUME IInv, [Next]_vars PROVE IInv'
<1>1. ASSUME UNCHANGED vars PROVE IInv'
      <2>1. UNCHANGED <<file, todo, mem, opened, at, local, client, asks, usage, locked, day, crashes, made>>
            BY <1>1 DEF vars, files, shell, counts
      <2> QED
          BY <2>1, ShellsKept, FilesKept DEF IInv
<1>2. ASSUME NEW s \in Shells,
             \/ SetKey(s) \/ Clear(s) \/ \E b \in BOOLEAN : OnOff(s, b)
             \/ \E p \in Providers : SetProvider(s, p)
             \/ \E m \in Models : SetModel(s, m)
             \/ \E v \in {"0", "1"} : Privacy(s, v)
      PROVE  IInv'
      BY <1>2, PromptStep
<1>3. ASSUME NEW s \in Shells,
             \/ Wizard(s) \/ Rekey(s) \/ Build(s) \/ Told(s) \/ Succeeds(s)
             \/ \E b \in BOOLEAN : Request(s, b)
             \/ \E status \in {0, 401, 403} : Fails(s, status)
             \/ \E role \in {"user", "assistant"} : AddTurn(s, role)
      PROVE  IInv'
      BY <1>3, Answering
<1> QED
    BY <1>1, <1>2, <1>3, FilesStep, Asking, TakesLock, Empties, WritesCount, Ends, DayPasses DEF Next

\* The invariant holds for any shells, providers, models and bounds.
THEOREM Invariance == Spec => []IInv
<1>1. Init => IInv
      BY InitIInv
<1>2. IInv /\ [Next]_vars => IInv'
      BY NextIInv
<1> QED
    BY <1>1, <1>2, PTL DEF Spec

\* create_current_client (ai_handler.cpp) never makes a client of a provider and a
\* model that do not belong together, however many shells change the two files.
THEOREM ModelSuits == Spec => []ModelFitsProvider
<1>1. IInv => ModelFitsProvider
      BY DEF IInv, Fitting
<1> QED
    BY <1>1, Invariance, PTL

\* ai_increment_usage (ai_config.cpp) loses no increment of any number of shells:
\* while nobody has the lock the file has the number of its day.
THEOREM UsageCounts == Spec => []UsageIsComplete
<1>1. IInv => UsageIsComplete
      <2> SUFFICES ASSUME IInv, locked = "nobody"
                   PROVE  usage.count = (IF usage.day = 0 THEN 0 ELSE made[usage.day])
          BY DEF UsageIsComplete
      <2>1. \A t \in Shells : ~Holds(t)
            BY Outsiders DEF IInv, Alone
      <2> QED
          BY <2>1 DEF IInv, Whole, Holds
<1> QED
    BY <1>1, Invariance, PTL

-----------------------------------------------------------------------------
(* What a shell has cleared: every turn it remembers is of a question asked *)
(* after that, and a file that can be read has turns of questions only.     *)
After(n) == {turn \in Turns : turn.ask > n}
Waiting == {"answer", "usage", "counted", "truncated", "user"}
InAsk == Waiting \cup {"assistant"}
OnlySettings(ws) == \A i \in DOMAIN ws : ws[i].name # "conv"
NoOldWrites(ws) == \A i \in DOMAIN ws : ws[i].name = "conv" => ws[i].value \in Seq(After(0))

Remembered ==
  /\ since \in [Shells -> Nat] /\ loaded \in [Shells -> BOOLEAN]
  /\ \A s \in Shells : since[s] <= asks /\ (~loaded[s] => since[s] = 0)
  /\ \A s \in Shells : mem[s] \in Seq(After(since[s]))
Stored ==
  /\ file["conv"] \in Seq(After(0)) \cup {Corrupt}
  /\ \A s \in Shells : NoOldWrites(todo[s])
Answering1 == \A s \in Shells : at[s] \in InAsk => local[s].ask > since[s]
CInv == Remembered /\ Stored /\ Answering1

\* What a shell sends and saves is of questions after its last @ai clear.
LEMMA LoadsRecent ==
  ASSUME IInv, CInv, NEW s \in Shells PROVE Load(s) \in Seq(After(since[s]))
<1>1. Conversation \in Seq(After(0))
      <2>1. <<>> \in Seq(After(0))
            BY EmptySeq
      <2> QED
          BY <2>1, Latest DEF CInv, Stored, Conversation
<1> QED
    BY <1>1 DEF CInv, Remembered, Load

LEMMA Widens ==
  ASSUME NEW n \in Nat, NEW turns \in Seq(After(n)) PROVE turns \in Seq(After(0))
<1>1. After(n) \subseteq After(0)
      BY DEF After, Turns
<1> QED
    BY <1>1

LEMMA InitCInv == Init => CInv
<1> SUFFICES ASSUME Init PROVE CInv
    OBVIOUS
<1>1. \A n : <<>> \in Seq(After(n))
      BY EmptySeq
<1>2. Remembered
      <2>1. since = [s \in Shells |-> 0] /\ mem = [s \in Shells |-> <<>>] /\ loaded = [s \in Shells |-> FALSE] /\ asks = 0
            BY DEF Init
      <2>2. \A s \in Shells : since[s] = 0 /\ mem[s] = <<>>
            BY <2>1
      <2>3. since \in [Shells -> Nat] /\ loaded \in [Shells -> BOOLEAN]
            BY <2>1
      <2>4. \A s \in Shells : mem[s] \in Seq(After(since[s]))
            BY <1>1, <2>2
      <2> QED
          BY <2>1, <2>2, <2>3, <2>4 DEF Remembered
<1>3. Stored
      <2>1. file["conv"] = <<>>
            BY DEF Init, Names, Blank
      <2>2. file["conv"] \in Seq(After(0))
            BY <1>1, <2>1
      <2>3. \A s \in Shells : todo[s] = <<>>
            BY DEF Init
      <2>4. NoOldWrites(<<>>)
            BY DEF NoOldWrites
      <2>5. \A s \in Shells : NoOldWrites(todo[s])
            BY <2>3, <2>4
      <2> QED
          BY <2>2, <2>5 DEF Stored
<1>4. Answering1
      BY DEF Init, Answering1, InAsk, Waiting
<1> QED
    BY <1>2, <1>3, <1>4 DEF CInv

\* Nothing happens to what is remembered or stored; a shell may decide to write
\* settings, and a shell that has asked may go on with its question.
LEMMA SettingsOnly ==
  ASSUME IInv, CInv, NEW s \in Shells, UNCHANGED <<mem, loaded, since, asks, file>>,
         todo' = todo \/ \E ws \in Seq(WritesOf) : OnlySettings(ws) /\ todo' = [todo EXCEPT ![s] = ws],
         \A t \in Shells : at'[t] \in InAsk => at[t] \in InAsk /\ local'[t].ask = local[t].ask
  PROVE  CInv'
<1>1. Remembered'
      BY DEF CInv, Remembered
<1>2. Stored'
      <2>1. \A t \in Shells : NoOldWrites(todo[t])'
            BY DEF CInv, Stored, NoOldWrites, OnlySettings, IInv, FilesOK
      <2> QED
          BY <2>1 DEF CInv, Stored
<1>3. Answering1'
      BY DEF CInv, Answering1
<1> QED
    BY <1>1, <1>2, <1>3 DEF CInv

\* A file is truncated or filled.
LEMMA FilesRecent ==
  ASSUME IInv, CInv, NEW s \in Shells, Truncate(s) \/ Fill(s) \/ CannotWrite(s) PROVE CInv'
<1>1. UNCHANGED <<mem, loaded, since, asks, at, local>>
      BY DEF Truncate, Fill, CannotWrite, counts
<1>2. Remembered' /\ Answering1'
      BY <1>1 DEF CInv, Remembered, Answering1
<1>3. <<>> \in Seq(After(0)) /\ todo[s] \in Seq(WritesOf) /\ file \in [Names -> Texts \cup Seq(Turns)]
      BY EmptySeq DEF IInv, FilesOK
<1>4. todo' = todo \/ (todo[s] # <<>> /\ todo' = [todo EXCEPT ![s] = Tail(@)])
      BY DEF Truncate, Fill, CannotWrite, IInv, OpenedHasWrite
<1>5. \A t \in Shells : NoOldWrites(todo[t])'
      <2>1. ASSUME todo[s] # <<>> PROVE NoOldWrites(Tail(todo[s]))
            BY <1>3, <2>1 DEF CInv, Stored, NoOldWrites
      <2> QED
          BY <1>4, <2>1 DEF CInv, Stored, NoOldWrites, IInv, FilesOK
<1>6. file'["conv"] \in Seq(After(0)) \cup {Corrupt}
      <2>1. ASSUME Truncate(s) PROVE file'["conv"] \in {file["conv"], <<>>}
            <3> DEFINE f == todo[s][1].name
            <3>1. file' = [file EXCEPT ![f] = Blank(f)]
                  BY <2>1 DEF Truncate
            <3>2. Blank("conv") = <<>> /\ "conv" \in Names
                  BY DEF Blank, Names
            <3> HIDE DEF f
            <3> QED
                BY <1>3, <3>1, <3>2
      <2>2. ASSUME Fill(s) PROVE file'["conv"] \in Seq(After(0)) \cup {Corrupt}
            <3> DEFINE w == todo[s][1]
            <3>1. file' = file \/ \E v \in Overlaid(w.name, file[w.name], w.value) : file' = [file EXCEPT ![w.name] = v]
                  BY <2>2 DEF Fill
            <3>2. w.name = "conv" => w.value \in Seq(After(0))
                  <4>1. todo[s] # <<>>
                        BY <2>2 DEF Fill, IInv, OpenedHasWrite
                  <4> QED
                      BY <1>3, <4>1 DEF CInv, Stored, NoOldWrites
            <3> HIDE DEF w
            <3>3. ASSUME NEW v \in Overlaid(w.name, file[w.name], w.value), file' = [file EXCEPT ![w.name] = v]
                  PROVE  file'["conv"] \in Seq(After(0)) \cup {Corrupt}
                  <4>1. w.name = "conv" => v \in Seq(After(0)) \cup {Corrupt}
                        BY <3>2, <3>3 DEF Overlaid
                  <4> QED
                      BY <1>3, <3>3, <4>1 DEF CInv, Stored
            <3> QED
                BY <3>1, <3>3 DEF CInv, Stored
      <2>3. ASSUME CannotWrite(s) PROVE file' = file
            BY <2>3 DEF CannotWrite, files
      <2> QED
          BY <1>3, <2>1, <2>2, <2>3 DEF CInv, Stored
<1> QED
    BY <1>2, <1>5, <1>6 DEF CInv, Stored

LEMMA OneWrite ==
  ASSUME NEW a \in WritesOf, a.name # "conv" PROVE <<a>> \in Seq(WritesOf) /\ OnlySettings(<<a>>)
  BY DEF OnlySettings

\* A setting to be written.
LEMMA Setting ==
  ASSUME NEW f \in {"provider", "model", "pref"}, NEW v \in Models \cup {"", "0", "1"}
  PROVE  <<Write(f, v)>> \in Seq(WritesOf) /\ OnlySettings(<<Write(f, v)>>)
<1> DEFINE w == Write(f, v)
<1>1. f \in Names \ {"conv"} /\ v \in Texts
      BY DEF Names, Texts
<1>2. w \in WritesOf /\ w.name # "conv"
      BY <1>1 DEF Write, WritesOf
<1> HIDE DEF w
<1>3. <<w>> \in Seq(WritesOf) /\ OnlySettings(<<w>>)
      BY <1>2, OneWrite, Zenon
<1> QED
    BY <1>3 DEF w

LEMMA TwoSettings ==
  ASSUME NEW p \in Providers
  PROVE  LET ws == <<Write("provider", p), Write("model", "")>> IN ws \in Seq(WritesOf) /\ OnlySettings(ws)
<1> DEFINE a == Write("provider", p)
           b == Write("model", "")
<1>1. a \in WritesOf /\ a.name # "conv"
      BY DEF Write, WritesOf, Names, Texts
<1>2. b \in WritesOf /\ b.name # "conv"
      BY DEF Write, WritesOf, Names, Texts
<1> HIDE DEF a, b
<1>3. <<a, b>> \in Seq(WritesOf) /\ OnlySettings(<<a, b>>)
      BY <1>1, <1>2 DEF OnlySettings
<1> QED
    BY <1>3 DEF a, b

\* Commands at the prompt that only write settings.
LEMMA CommandSteps ==
  ASSUME IInv, NEW s \in Shells,
         \/ SetKey(s) \/ \E b \in BOOLEAN : OnOff(s, b)
         \/ \E p \in Providers : SetProvider(s, p)
         \/ \E m \in Models : SetModel(s, m)
         \/ \E v \in {"0", "1"} : Privacy(s, v)
  PROVE  /\ UNCHANGED <<mem, loaded, since, asks, file, at, local, sent>>
         /\ todo' = todo \/ \E ws \in Seq(WritesOf) : OnlySettings(ws) /\ todo' = [todo EXCEPT ![s] = ws]
<1>1. UNCHANGED <<mem, loaded, since, asks, file, at, local, sent>>
      BY DEF SetKey, OnOff, SetProvider, SetModel, Privacy, Writes, files
<1> DEFINE Sets == todo' = todo \/ \E ws \in Seq(WritesOf) : OnlySettings(ws) /\ todo' = [todo EXCEPT ![s] = ws]
<1>2. ASSUME SetKey(s) PROVE Sets
      <2>1. SavedKey \in Seq(WritesOf) /\ OnlySettings(SavedKey)
            BY Reads DEF SavedKey, OnlySettings, Write, KeyFile
      <2> QED
          BY <1>2, <2>1 DEF SetKey, Writes
<1>3. ASSUME NEW b \in BOOLEAN, OnOff(s, b) PROVE Sets
      BY <1>3 DEF OnOff
<1>4. ASSUME NEW p \in Providers, SetProvider(s, p) PROVE Sets
      BY <1>4, TwoSettings DEF SetProvider, Writes
<1>5. ASSUME NEW m \in Models, SetModel(s, m) PROVE Sets
      BY <1>5, Setting DEF SetModel, Writes
<1>6. ASSUME NEW v \in {"0", "1"}, Privacy(s, v) PROVE Sets
      BY <1>6, Setting DEF Privacy, Writes
<1> QED
    BY <1>1, <1>2, <1>3, <1>4, <1>5, <1>6

LEMMA CommandsRecent ==
  ASSUME IInv, CInv, NEW s \in Shells,
         \/ SetKey(s) \/ \E b \in BOOLEAN : OnOff(s, b)
         \/ \E p \in Providers : SetProvider(s, p)
         \/ \E m \in Models : SetModel(s, m)
         \/ \E v \in {"0", "1"} : Privacy(s, v)
  PROVE  CInv'
<1>1. /\ UNCHANGED <<mem, loaded, since, asks, file, at, local>>
      /\ todo' = todo \/ \E ws \in Seq(WritesOf) : OnlySettings(ws) /\ todo' = [todo EXCEPT ![s] = ws]
      BY CommandSteps
<1> QED
    BY <1>1, SettingsOnly

\* Steps of handlers that neither ask nor remember: whoever is still in a question
\* afterwards was in the same one before.
LEMMA CountKeepsAsk ==
  ASSUME NEW l \in Locals, NEW x, NEW y
  PROVE  [[l EXCEPT !.day = x] EXCEPT !.count = y].ask = l.ask
  BY DEF Locals

LEMMA HandlerSteps ==
  ASSUME IInv, NEW s \in Shells,
         \/ Ask(s) \/ Status(s) \/ Wizard(s) \/ Rekey(s) \/ ReadProvider(s) \/ ReadModel(s) \/ Build(s) \/ Told(s)
         \/ Succeeds(s) \/ UsageLock(s) \/ UsageTruncate(s) \/ UsageWrite(s)
         \/ \E status \in {0, 401, 403} : Fails(s, status)
  PROVE  /\ UNCHANGED <<mem, loaded, since, asks, file>>
         /\ todo' = todo \/ \E ws \in Seq(WritesOf) : OnlySettings(ws) /\ todo' = [todo EXCEPT ![s] = ws]
         /\ sent' = sent \/ sent' = [sent EXCEPT ![s] = NoRequest]
         /\ \A t \in Shells : at'[t] \in InAsk =>
              /\ local'[t].ask = local[t].ask
              /\ at'[t] = at[t] \/ (at[t] \in Waiting /\ at'[t] \in Waiting)
<1>1. UNCHANGED <<mem, loaded, since, asks, file>>
      BY DEF Ask, Status, Wizard, Rekey, ReadProvider, ReadModel, Build, Told, Succeeds, UsageLock, UsageTruncate,
             UsageWrite, Fails, Quiet, files
<1>2. SavedKey \in Seq(WritesOf) /\ OnlySettings(SavedKey)
      BY Reads DEF SavedKey, OnlySettings, Write, KeyFile
<1>3. todo' = todo \/ todo' = [todo EXCEPT ![s] = SavedKey] \/ todo' = [todo EXCEPT ![s] = <<Write("model", "")>>]
      BY DEF Ask, Status, Wizard, Rekey, ReadProvider, ReadModel, Build, Told, Succeeds, UsageLock, UsageTruncate,
             UsageWrite, Fails
<1>4. todo' = todo \/ \E ws \in Seq(WritesOf) : OnlySettings(ws) /\ todo' = [todo EXCEPT ![s] = ws]
      BY <1>2, <1>3, Setting
<1>5. \A t \in Shells : t # s => local'[t] = local[t]
      <2>1. CASE Ask(s) \/ Status(s)
            BY <2>1 DEF Ask, Status, IInv, ShellsOK
      <2>2. CASE ReadProvider(s) \/ UsageLock(s)
            BY <2>2 DEF ReadProvider, UsageLock, IInv, ShellsOK
      <2>3. CASE ReadModel(s)
            <3> DEFINE m == file["model"]
            <3>1. local' = [local EXCEPT ![s].model = m] \/ local' = [local EXCEPT ![s].model = ""]
                  BY <2>3 DEF ReadModel
            <3>2. DOMAIN local = Shells
                  BY DEF IInv, ShellsOK
            <3> HIDE DEF m
            <3>3. CASE local' = [local EXCEPT ![s].model = m]
                  BY <3>2, <3>3
            <3>4. CASE local' = [local EXCEPT ![s].model = ""]
                  BY <3>2, <3>4
            <3> QED
                BY <3>1, <3>3, <3>4
      <2>4. CASE UNCHANGED local \/ Forgets(s)
            BY <2>4 DEF Forgets, IInv, ShellsOK
      <2>5. \/ Wizard(s) \/ Rekey(s) \/ Build(s) \/ Told(s) \/ Succeeds(s) \/ UsageTruncate(s) \/ UsageWrite(s)
            \/ \E status \in {0, 401, 403} : Fails(s, status)
            => UNCHANGED local \/ Forgets(s)
            BY DEF Wizard, Rekey, Build, Told, Succeeds, UsageTruncate, UsageWrite, Fails
      <2> QED
          BY <2>1, <2>2, <2>3, <2>4, <2>5
<1>6. \E to : /\ at' = [at EXCEPT ![s] = to]
              /\ \/ to \notin InAsk
                 \/ at[s] \in Waiting /\ to \in Waiting /\ local'[s].ask = local[s].ask
      <2>1. CASE Ask(s) \/ Status(s) \/ Wizard(s) \/ Rekey(s)
            <3>1. at' = [at EXCEPT ![s] = "client"] \/ at' = [at EXCEPT ![s] = "wizard"] \/ at' = [at EXCEPT ![s] = "idle"]
                  \/ at' = [at EXCEPT ![s] = "rekey"]
                  BY <2>1 DEF Ask, Status, Wizard, Rekey, Step
            <3>2. "client" \notin InAsk /\ "wizard" \notin InAsk /\ "idle" \notin InAsk /\ "rekey" \notin InAsk
                  BY DEF InAsk, Waiting
            <3> QED
                BY <3>1, <3>2
      <2>2. CASE ReadProvider(s) \/ ReadModel(s) \/ Build(s) \/ Told(s) \/ \E status \in {0, 401, 403} : Fails(s, status)
            <3>1. at' = [at EXCEPT ![s] = "model"] \/ at' = [at EXCEPT ![s] = "build"] \/ at' = [at EXCEPT ![s] = "idle"]
                  \/ at' = [at EXCEPT ![s] = "request"] \/ at' = [at EXCEPT ![s] = "status"]
                  BY <2>2 DEF ReadProvider, ReadModel, Build, Told, Fails, Step
            <3>2. "model" \notin InAsk /\ "build" \notin InAsk /\ "idle" \notin InAsk /\ "request" \notin InAsk
                  /\ "status" \notin InAsk
                  BY DEF InAsk, Waiting
            <3> QED
                BY <3>1, <3>2
      <2>3. CASE Succeeds(s) \/ UsageTruncate(s) \/ UsageWrite(s)
            <3>1. /\ at' = [at EXCEPT ![s] = "usage"] \/ at' = [at EXCEPT ![s] = "truncated"]
                     \/ at' = [at EXCEPT ![s] = "user"]
                  /\ at[s] \in {"answer", "counted", "truncated"} /\ local' = local
                  BY <2>3 DEF Succeeds, UsageTruncate, UsageWrite, Step
            <3>2. at[s] \in Waiting /\ "usage" \in Waiting /\ "truncated" \in Waiting /\ "user" \in Waiting
                  BY <3>1 DEF Waiting
            <3> QED
                BY <3>1, <3>2
      <2>4. CASE UsageLock(s)
            <3>1. at[s] = "usage" /\ at' = [at EXCEPT ![s] = "counted"]
                  BY <2>4 DEF UsageLock, Step
            <3> DEFINE c == Today(usage, day)
            <3>2. local' = [local EXCEPT ![s].day = day, ![s].count = c]
                  BY <2>4 DEF UsageLock
            <3>3. local \in [Shells -> Locals] /\ local[s] \in Locals
                  BY DEF IInv, ShellsOK
            <3> HIDE DEF c
            <3>4. local'[s] = [[local[s] EXCEPT !.day = day] EXCEPT !.count = c]
                  BY <3>2, <3>3
            <3>5. local'[s].ask = local[s].ask
                  <4>1. [[local[s] EXCEPT !.day = day] EXCEPT !.count = c].ask = local[s].ask
                        BY <3>3, CountKeepsAsk
                  <4> QED
                      BY <3>4, <4>1
            <3>6. at[s] \in Waiting /\ "counted" \in Waiting
                  BY <3>1 DEF Waiting
            <3> QED
                BY <3>1, <3>5, <3>6
      <2> QED
          BY <2>1, <2>2, <2>3, <2>4
<1>7. \A t \in Shells : at'[t] \in InAsk =>
        /\ local'[t].ask = local[t].ask
        /\ at'[t] = at[t] \/ (at[t] \in Waiting /\ at'[t] \in Waiting)
      <2>1. PICK to : /\ at' = [at EXCEPT ![s] = to]
                      /\ \/ to \notin InAsk
                         \/ at[s] \in Waiting /\ to \in Waiting /\ local'[s].ask = local[s].ask
            BY <1>6
      <2>2. \A t \in Shells : at'[t] = IF t = s THEN to ELSE at[t]
            BY <2>1 DEF IInv, ShellsOK
      <2> QED
          BY <1>5, <2>1, <2>2
<1>8. sent' = sent \/ sent' = [sent EXCEPT ![s] = NoRequest]
      BY DEF Ask, Status, Wizard, Rekey, ReadProvider, ReadModel, Build, Told, Succeeds, UsageLock, UsageTruncate,
             UsageWrite, Fails, Forgets
<1> QED
    BY <1>1, <1>4, <1>7, <1>8

LEMMA StepsRecent ==
  ASSUME IInv, CInv, NEW s \in Shells,
         \/ Ask(s) \/ Status(s) \/ Wizard(s) \/ Rekey(s) \/ ReadProvider(s) \/ ReadModel(s) \/ Build(s) \/ Told(s)
         \/ Succeeds(s) \/ UsageLock(s) \/ UsageTruncate(s) \/ UsageWrite(s)
         \/ \E status \in {0, 401, 403} : Fails(s, status)
  PROVE  CInv'
<1>1. UNCHANGED <<mem, loaded, since, asks, file>>
      BY HandlerSteps
<1>2. todo' = todo \/ \E ws \in Seq(WritesOf) : OnlySettings(ws) /\ todo' = [todo EXCEPT ![s] = ws]
      BY HandlerSteps
<1>3. \A t \in Shells : at'[t] \in InAsk => at[t] \in InAsk /\ local'[t].ask = local[t].ask
      <2>1. \A t \in Shells : at'[t] \in InAsk =>
              /\ local'[t].ask = local[t].ask
              /\ at'[t] = at[t] \/ (at[t] \in Waiting /\ at'[t] \in Waiting)
            BY HandlerSteps
      <2> QED
          BY <2>1 DEF InAsk
<1> QED
    BY <1>1, <1>2, <1>3, SettingsOnly

\* A question is sent with what the shell remembers, under a number of its own.
LEMMA RequestRecent ==
  ASSUME IInv, CInv, NEW s \in Shells, NEW b \in BOOLEAN, Request(s, b) PROVE CInv'
<1> DEFINE l == [local[s] EXCEPT !.ask = asks + 1]
<1>1. /\ at' = [at EXCEPT ![s] = "answer"] /\ local' = [local EXCEPT ![s] = l] /\ asks' = asks + 1
      /\ mem' = [mem EXCEPT ![s] = Load(s)] /\ loaded' = [loaded EXCEPT ![s] = TRUE]
      /\ UNCHANGED <<file, todo, since>>
      BY DEF Request, Step, Quiet, files
<1>2. asks \in Nat /\ local[s] \in Locals /\ since \in [Shells -> Nat] /\ \A t \in Shells : since[t] <= asks
      BY Same DEF CInv, Remembered
<1>3. l.ask = asks + 1
      BY <1>2 DEF Locals
<1> HIDE DEF l
<1>4. \A t \in Shells : mem'[t] = IF t = s THEN Load(s) ELSE mem[t]
      BY <1>1 DEF IInv, FilesOK
<1>5. Remembered'
      <2>1. \A t \in Shells : mem'[t] \in Seq(After(since'[t]))
            BY <1>1, <1>4, LoadsRecent DEF CInv, Remembered
      <2>2. \A t \in Shells : since'[t] <= asks' /\ (~loaded'[t] => since'[t] = 0)
            BY <1>1, <1>2 DEF CInv, Remembered
      <2>3. since' \in [Shells -> Nat] /\ loaded' \in [Shells -> BOOLEAN]
            BY <1>1 DEF CInv, Remembered
      <2> QED
          BY <2>1, <2>2, <2>3 DEF Remembered
<1>6. Stored'
      BY <1>1 DEF CInv, Stored, NoOldWrites
<1>7. Answering1'
      <2>1. local'[s] = l /\ \A t \in Shells : t # s => at'[t] = at[t] /\ local'[t] = local[t]
            BY <1>1 DEF IInv, ShellsOK
      <2>2. since'[s] < l.ask
            BY <1>1, <1>2, <1>3
      <2> QED
          BY <1>1, <2>1, <2>2 DEF CInv, Answering1
<1> QED
    BY <1>5, <1>6, <1>7 DEF CInv

\* A turn is remembered, and saved with what was remembered before.
LEMMA TurnRecent ==
  ASSUME IInv, CInv, NEW s \in Shells, NEW role \in {"user", "assistant"}, AddTurn(s, role) PROVE CInv'
<1> DEFINE turns == Append1(s, role)
           ws == <<Write("conv", turns)>>
<1>1. /\ at[s] = role /\ at' = [at EXCEPT ![s] = IF role = "user" THEN "assistant" ELSE "idle"]
      /\ mem' = [mem EXCEPT ![s] = turns] /\ loaded' = [loaded EXCEPT ![s] = TRUE]
      /\ todo' = [todo EXCEPT ![s] = ws]
      /\ UNCHANGED <<file, since, asks>>
      /\ role = "user" => UNCHANGED local
      /\ \A t \in Shells : t # s => local'[t] = local[t]
      <2>1. \A t \in Shells : t # s => local'[t] = local[t]
            BY DEF AddTurn, Forgets, IInv, ShellsOK
      <2> QED
          BY <2>1 DEF AddTurn, Step, Quiet, files
<1>2. turns \in Seq(After(since[s])) /\ turns \in Seq(After(0))
      <2> DEFINE turn == [role |-> role, ask |-> local[s].ask]
      <2>1. local[s] \in Locals /\ local[s].ask > since[s] /\ since[s] \in Nat
            BY <1>1, Same DEF CInv, Answering1, InAsk, Waiting, Remembered
      <2>2. turn \in After(since[s])
            BY <2>1 DEF After, Turns, Locals
      <2> HIDE DEF turn
      <2>3. Append(Load(s), turn) \in Seq(After(since[s]))
            BY <2>2, LoadsRecent
      <2>4. LastTurns(Append(Load(s), turn)) \in Seq(After(since[s]))
            BY <2>3, Latest
      <2>5. turns \in Seq(After(since[s]))
            BY <2>4 DEF turn, Append1
      <2> QED
          BY <2>1, <2>5, Widens
<1>3. NoOldWrites(ws)
      <2>1. Write("conv", turns).value = turns
            BY DEF Write
      <2> HIDE DEF turns
      <2> QED
          BY <1>2, <2>1 DEF NoOldWrites
<1> HIDE DEF turns, ws
<1>4. \A t \in Shells : mem'[t] = IF t = s THEN turns ELSE mem[t]
      BY <1>1 DEF IInv, FilesOK
<1>5. \A t \in Shells : todo'[t] = IF t = s THEN ws ELSE todo[t]
      BY <1>1 DEF IInv, FilesOK
<1>6. Remembered'
      <2>1. \A t \in Shells : mem'[t] \in Seq(After(since'[t]))
            BY <1>1, <1>2, <1>4 DEF CInv, Remembered
      <2> QED
          BY <1>1, <2>1 DEF CInv, Remembered
<1>7. Stored'
      <2>1. \A t \in Shells : NoOldWrites(todo[t])'
            BY <1>3, <1>5 DEF CInv, Stored, NoOldWrites
      <2> QED
          BY <1>1, <2>1 DEF CInv, Stored
<1>8. Answering1'
      <2>1. \A t \in Shells : at'[t] = IF t = s THEN (IF role = "user" THEN "assistant" ELSE "idle") ELSE at[t]
            BY <1>1 DEF IInv, ShellsOK
      <2>2. at'[s] \in InAsk => at[s] \in InAsk /\ UNCHANGED local
            BY <1>1, <2>1 DEF InAsk, Waiting
      <2> QED
          BY <1>1, <2>1, <2>2 DEF CInv, Answering1
<1> QED
    BY <1>6, <1>7, <1>8 DEF CInv

LEMMA ClearRecent ==
  ASSUME IInv, CInv, NEW s \in Shells, Clear(s) PROVE CInv'
<1>1. /\ at[s] = "idle" /\ mem' = [mem EXCEPT ![s] = <<>>] /\ loaded' = [loaded EXCEPT ![s] = TRUE]
      /\ file' = [file EXCEPT !["conv"] = <<>>] /\ since' = [since EXCEPT ![s] = asks]
      /\ UNCHANGED <<at, local, todo, asks>>
      BY DEF Clear, Prompt
<1>2. \A n : <<>> \in Seq(After(n))
      BY EmptySeq
<1>3. Remembered'
      <2>1. \A t \in Shells : mem'[t] = IF t = s THEN <<>> ELSE mem[t]
            BY <1>1 DEF IInv, FilesOK
      <2>2. \A t \in Shells : since'[t] = IF t = s THEN asks ELSE since[t]
            BY <1>1 DEF CInv, Remembered
      <2>3. \A t \in Shells : mem'[t] \in Seq(After(since'[t]))
            BY <1>2, <2>1, <2>2 DEF CInv, Remembered
      <2>4. asks \in Nat
            BY Same
      <2>5. \A t \in Shells : since'[t] <= asks' /\ (~loaded'[t] => since'[t] = 0)
            BY <1>1, <2>2, <2>4 DEF CInv, Remembered
      <2>6. since' \in [Shells -> Nat] /\ loaded' \in [Shells -> BOOLEAN]
            BY <1>1, <2>4 DEF CInv, Remembered
      <2> QED
          BY <2>3, <2>5, <2>6 DEF Remembered
<1>4. Stored'
      <2>1. file'["conv"] = <<>>
            BY <1>1 DEF IInv, FilesOK, Names
      <2> QED
          BY <1>1, <1>2, <2>1 DEF CInv, Stored, NoOldWrites
<1>5. Answering1'
      BY <1>1 DEF CInv, Remembered, Answering1, InAsk, Waiting
<1> QED
    BY <1>3, <1>4, <1>5 DEF CInv

LEMMA CrashRecent ==
  ASSUME IInv, CInv, NEW s \in Shells, Crash(s) PROVE CInv'
<1>1. /\ at' = [at EXCEPT ![s] = "idle"] /\ todo' = [todo EXCEPT ![s] = <<>>]
      /\ local' = [local EXCEPT ![s] = NoLocal]
      /\ mem' = [mem EXCEPT ![s] = <<>>] /\ loaded' = [loaded EXCEPT ![s] = FALSE]
      /\ since' = [since EXCEPT ![s] = 0] /\ UNCHANGED <<file, asks>>
      BY DEF Crash, Forgets
<1>2. \A n : <<>> \in Seq(After(n))
      BY EmptySeq
<1>3. Remembered'
      <2>1. \A t \in Shells : mem'[t] = IF t = s THEN <<>> ELSE mem[t]
            BY <1>1 DEF IInv, FilesOK
      <2>2. \A t \in Shells : since'[t] = IF t = s THEN 0 ELSE since[t]
            BY <1>1 DEF CInv, Remembered
      <2>3. \A t \in Shells : mem'[t] \in Seq(After(since'[t]))
            BY <1>2, <2>1, <2>2 DEF CInv, Remembered
      <2>4. asks \in Nat
            BY Same
      <2>5. \A t \in Shells : since'[t] <= asks' /\ (~loaded'[t] => since'[t] = 0)
            BY <1>1, <2>2, <2>4 DEF CInv, Remembered
      <2>6. since' \in [Shells -> Nat] /\ loaded' \in [Shells -> BOOLEAN]
            BY <1>1 DEF CInv, Remembered
      <2> QED
          BY <2>3, <2>5, <2>6 DEF Remembered
<1>4. Stored'
      <2>1. \A t \in Shells : todo'[t] = IF t = s THEN <<>> ELSE todo[t]
            BY <1>1 DEF IInv, FilesOK
      <2>2. \A t \in Shells : NoOldWrites(todo[t])'
            BY <2>1 DEF CInv, Stored, NoOldWrites
      <2> QED
          BY <1>1, <2>2 DEF CInv, Stored
<1>5. Answering1'
      <2>1. \A t \in Shells : at'[t] = IF t = s THEN "idle" ELSE at[t]
            BY <1>1 DEF IInv, ShellsOK
      <2>2. \A t \in Shells : t # s => local'[t] = local[t] /\ since'[t] = since[t]
            BY <1>1 DEF IInv, ShellsOK, CInv, Remembered
      <2> QED
          BY <2>1, <2>2 DEF CInv, Answering1, InAsk, Waiting
<1> QED
    BY <1>3, <1>4, <1>5 DEF CInv

LEMMA NextCInv ==
  ASSUME IInv, CInv, [Next]_vars PROVE CInv'
<1>1. ASSUME UNCHANGED <<mem, loaded, since, asks, file, todo, at, local>> PROVE CInv'
      BY <1>1 DEF CInv, Remembered, Stored, Answering1, NoOldWrites
<1>2. ASSUME UNCHANGED vars \/ Midnight PROVE CInv'
      BY <1>1, <1>2 DEF vars, files, shell, counts, Midnight
<1>3. ASSUME NEW s \in Shells,
             \/ SetKey(s) \/ \E b \in BOOLEAN : OnOff(s, b)
             \/ \E p \in Providers : SetProvider(s, p)
             \/ \E m \in Models : SetModel(s, m)
             \/ \E v \in {"0", "1"} : Privacy(s, v)
      PROVE  CInv'
      BY <1>3, CommandsRecent
<1>4. ASSUME NEW s \in Shells,
             \/ Ask(s) \/ Status(s) \/ Wizard(s) \/ Rekey(s) \/ ReadProvider(s) \/ ReadModel(s) \/ Build(s) \/ Told(s)
             \/ Succeeds(s) \/ UsageLock(s) \/ UsageTruncate(s) \/ UsageWrite(s)
             \/ \E status \in {0, 401, 403} : Fails(s, status)
      PROVE  CInv'
      BY <1>4, StepsRecent
<1> QED
    BY <1>2, <1>3, <1>4, FilesRecent, ClearRecent, RequestRecent, TurnRecent, CrashRecent DEF Next

\* handle_ai_command (ai_handler.cpp, "clear"): whatever the other shells write to
\* the conversation file, a shell that was told @ai clear never again remembers,
\* and so never sends, a question from before.
THEOREM ClearIsKept == Spec => []ClearedStaysCleared
<1>1. Init => CInv
      BY InitCInv
<1>2. IInv /\ CInv /\ [Next]_vars => CInv'
      BY NextCInv
<1>3. CInv => ClearedStaysCleared
      <2> SUFFICES ASSUME CInv, NEW s \in Shells, NEW i \in DOMAIN mem[s] PROVE mem[s][i].ask > since[s]
          BY DEF ClearedStaysCleared
      <2>1. mem[s] \in Seq(After(since[s]))
            BY DEF CInv, Remembered
      <2>2. mem[s][i] \in After(since[s])
            BY <2>1
      <2> QED
          BY <2>2 DEF After
<1> QED
    BY <1>1, <1>2, <1>3, Invariance, PTL DEF Spec

-----------------------------------------------------------------------------
(* Conversations: an answer follows its own question, and what was asked    *)
(* first comes first.                                                       *)
Dialogs(n) == {turns \in Seq(Turns) : Answered(turns) /\ \A i \in DOMAIN turns : turns[i].ask <= n}
SavesDialogs(ws, n) == \A i \in DOMAIN ws : ws[i].name = "conv" => ws[i].value \in Dialogs(n)

\* Whatever is remembered, sent, stored or about to be stored is of questions asked.
Kept ==
  /\ file["conv"] \in Dialogs(asks) /\ \A s \in Shells : SavesDialogs(todo[s], asks)
  /\ DOMAIN sent = Shells /\ DOMAIN loaded = Shells
  /\ \A s \in Shells : mem[s] \in Dialogs(asks) /\ sent[s].history \in Dialogs(asks)

\* A shell remembers nothing newer than the question it is about; when it comes to
\* the answer, the question is the last thing it remembers.
Talking ==
  \A s \in Shells : at[s] \in InAsk =>
    /\ loaded[s] /\ local[s].ask <= asks
    /\ mem[s] \in Dialogs(local[s].ask)
    /\ at[s] = "assistant" => mem[s] # <<>> /\ mem[s][Len(mem[s])] = [role |-> "user", ask |-> local[s].ask]
AInv == Kept /\ Talking

LEMMA NothingSaid == ASSUME NEW n PROVE <<>> \in Dialogs(n)
<1>1. <<>> \in Seq(Turns) /\ Len(<<>>) = 0
      BY EmptySeq
<1> QED
    BY <1>1 DEF Dialogs, Answered

LEMMA LaterDialogs ==
  ASSUME NEW m \in Nat, NEW n \in Nat, m <= n, NEW turns \in Dialogs(m) PROVE turns \in Dialogs(n)
<1>1. turns \in Seq(Turns) /\ Answered(turns) /\ \A i \in DOMAIN turns : turns[i].ask <= m
      BY DEF Dialogs
<1>2. ASSUME NEW i \in DOMAIN turns PROVE turns[i].ask \in Nat
      <2>1. turns[i] \in Turns
            BY <1>1
      <2> QED
          BY <2>1 DEF Turns
<1>3. \A i \in DOMAIN turns : turns[i].ask <= n
      BY <1>1, <1>2
<1> QED
    BY <1>1, <1>3 DEF Dialogs

\* Forgetting the oldest turns leaves a dialog.
LEMMA LatestDialog ==
  ASSUME NEW n \in Nat, NEW turns \in Dialogs(n)
  PROVE  /\ LastTurns(turns) \in Dialogs(n)
         /\ turns # <<>> => LastTurns(turns) # <<>> /\ LastTurns(turns)[Len(LastTurns(turns))] = turns[Len(turns)]
<1>1. turns \in Seq(Turns) /\ Len(turns) \in Nat /\ MaxTurns \in Nat /\ MaxTurns > 0
      BY LenProperties DEF Dialogs
<1>2. CASE Len(turns) <= MaxTurns
      <2>1. ~(Len(turns) > MaxTurns)
            BY <1>1, <1>2
      <2>2. LastTurns(turns) = turns
            BY <2>1 DEF LastTurns
      <2> QED
          BY <2>2
<1>3. CASE Len(turns) > MaxTurns
      <2> DEFINE k == Len(turns) - MaxTurns
                 l == SubSeq(turns, k + 1, Len(turns))
      <2>1. k \in Nat /\ k + 1 \in 1 .. Len(turns) + 1 /\ Len(turns) \in 0 .. Len(turns) /\ Len(turns) - (k + 1) + 1 = MaxTurns
            BY <1>1, <1>3
      <2>2. l \in Seq(Turns) /\ Len(l) = MaxTurns /\ \A i \in 1 .. MaxTurns : l[i] = turns[k + i]
            <3>1. \A i \in 1 .. MaxTurns : (k + 1) + i - 1 = k + i
                  BY <2>1
            <3> QED
                BY <1>1, <1>3, <2>1, <3>1, SubSeqProperties
      <2>3. LastTurns(turns) = l
            BY <1>3 DEF LastTurns
      <2> HIDE DEF l
      <2>4. DOMAIN l = 1 .. MaxTurns /\ DOMAIN turns = 1 .. Len(turns)
            BY <1>1, <2>2
      <2>5. k + MaxTurns = Len(turns)
            BY <1>1
      <2> HIDE DEF k
      <2>6. ASSUME NEW i \in DOMAIN l PROVE l[i].ask <= n
            <3>1. l[i] = turns[k + i]
                  BY <2>2, <2>4
            <3>2. i \in Nat /\ 1 <= i /\ i <= MaxTurns
                  BY <1>1, <2>4
            <3>3. k + i \in 1 .. Len(turns)
                  BY <1>1, <2>1, <2>5, <3>2
            <3>4. turns[k + i].ask <= n
                  <4>1. \A x \in 1 .. Len(turns) : turns[x].ask <= n
                        BY <2>4 DEF Dialogs
                  <4> QED
                      BY <3>3, <4>1
            <3> QED
                BY <3>1, <3>4
      <2>7. ASSUME NEW i \in 2 .. Len(l)
            PROVE  /\ l[i - 1].ask <= l[i].ask
                   /\ l[i].role = "assistant" => l[i - 1] = [role |-> "user", ask |-> l[i].ask]
            <3> i \in Int /\ i >= 2 /\ i <= MaxTurns
                BY <1>1, <2>2, <2>5
            <3>1. i \in 1 .. MaxTurns /\ i - 1 \in 1 .. MaxTurns /\ k + i \in 2 .. Len(turns) /\ k + (i - 1) = (k + i) - 1
                  BY <1>1, <2>1, <2>5
            <3>2. l[i] = turns[k + i] /\ l[i - 1] = turns[(k + i) - 1]
                  BY <2>2, <3>1
            <3>3. PICK j \in 2 .. Len(turns) : j = k + i
                  BY <3>1
            <3>4. /\ turns[j - 1].ask <= turns[j].ask
                  /\ turns[j].role = "assistant" => turns[j - 1] = [role |-> "user", ask |-> turns[j].ask]
                  BY <3>3 DEF Dialogs, Answered
            <3>5. l[i] = turns[j] /\ l[i - 1] = turns[j - 1]
                  BY <3>2, <3>3
            <3> QED
                BY <3>4, <3>5
      <2>8. Answered(l)
            BY <2>7 DEF Answered
      <2>9. l # <<>> /\ l[Len(l)] = turns[Len(turns)]
            BY <1>1, <2>2, <2>5
      <2> QED
          BY <2>2, <2>3, <2>6, <2>8, <2>9 DEF Dialogs
<1> QED
    BY <1>1, <1>2, <1>3

\* A turn that goes on with a dialog.
LEMMA Continues ==
  ASSUME NEW n \in Nat, NEW turns \in Dialogs(n), NEW turn \in Turns, turn.ask = n,
         turn.role = "assistant" =>
           turns # <<>> /\ turns[Len(turns)] = [role |-> "user", ask |-> n]
  PROVE  Append(turns, turn) \in Dialogs(n)
<1> DEFINE t == Append(turns, turn)
<1>1. turns \in Seq(Turns) /\ Len(turns) \in Nat /\ Answered(turns) /\ \A i \in DOMAIN turns : turns[i].ask <= n
      BY LenProperties DEF Dialogs
<1>2. /\ t \in Seq(Turns) /\ Len(t) = Len(turns) + 1 /\ t[Len(turns) + 1] = turn
      /\ \A i \in 1 .. Len(turns) : t[i] = turns[i]
      BY <1>1, AppendProperties
<1> HIDE DEF t
<1>3. DOMAIN t = 1 .. Len(turns) + 1 /\ DOMAIN turns = 1 .. Len(turns)
      BY <1>1, <1>2
<1>4. ASSUME NEW i \in DOMAIN t PROVE t[i].ask <= n
      <2>1. CASE i = Len(turns) + 1
            BY <1>2, <2>1
      <2>2. CASE i \in 1 .. Len(turns)
            BY <1>1, <1>2, <1>3, <2>2
      <2> QED
          BY <1>1, <1>3, <2>1, <2>2
<1>5. ASSUME NEW i \in 2 .. Len(t)
      PROVE  /\ t[i - 1].ask <= t[i].ask
             /\ t[i].role = "assistant" => t[i - 1] = [role |-> "user", ask |-> t[i].ask]
      <2>1. CASE i \in 2 .. Len(turns)
            <3>1. t[i] = turns[i] /\ t[i - 1] = turns[i - 1]
                  BY <1>1, <1>2, <2>1
            <3> QED
                BY <1>1, <2>1, <3>1 DEF Answered
      <2>2. CASE i = Len(turns) + 1
            <3>1. Len(turns) \in 1 .. Len(turns) /\ i - 1 = Len(turns)
                  BY <1>1, <1>2, <2>2
            <3>2. t[i] = turn /\ t[i - 1] = turns[Len(turns)]
                  BY <1>2, <2>2, <3>1
            <3>3. turns[Len(turns)].ask <= n
                  BY <1>1, <1>3, <3>1
            <3> QED
                BY <3>2, <3>3
      <2> QED
          BY <1>1, <1>2, <2>1, <2>2
<1>6. Answered(t)
      BY <1>5 DEF Answered
<1>7. t \in Dialogs(n)
      BY <1>2, <1>4, <1>6 DEF Dialogs
<1> QED
    BY <1>7 DEF t

\* What a shell would load is a dialog.
LEMMA LoadsDialog ==
  ASSUME IInv, AInv, NEW s \in Shells PROVE Load(s) \in Dialogs(asks)
<1>1. asks \in Nat /\ file["conv"] \in Dialogs(asks) /\ mem[s] \in Dialogs(asks)
      BY DEF AInv, Kept, IInv, ShellsOK
<1>2. Conversation \in Dialogs(asks)
      BY <1>1, LatestDialog, NothingSaid DEF Conversation
<1> QED
    BY <1>1, <1>2 DEF Load

LEMMA InitAInv == Init => AInv
<1> SUFFICES ASSUME Init PROVE AInv
    OBVIOUS
<1>1. /\ file["conv"] = <<>> /\ DOMAIN sent = Shells /\ DOMAIN loaded = Shells
      /\ \A s \in Shells : todo[s] = <<>> /\ mem[s] = <<>> /\ sent[s].history = <<>> /\ at[s] = "idle"
      BY DEF Init, Names, Blank, NoRequest
<1>2. Kept
      <2>1. \A s \in Shells : SavesDialogs(todo[s], asks)
            <3>1. SavesDialogs(<<>>, asks)
                  BY DEF SavesDialogs
            <3> QED
                BY <1>1, <3>1
      <2> QED
          BY <1>1, <2>1, NothingSaid DEF Kept
<1>3. Talking
      BY <1>1 DEF Talking, InAsk, Waiting
<1> QED
    BY <1>2, <1>3 DEF AInv

\* Commands and handlers that neither ask nor remember.
LEMMA NothingAdded ==
  ASSUME IInv, AInv, NEW s \in Shells, UNCHANGED <<mem, loaded, asks, file>>,
         todo' = todo \/ \E ws \in Seq(WritesOf) : OnlySettings(ws) /\ todo' = [todo EXCEPT ![s] = ws],
         sent' = sent \/ sent' = [sent EXCEPT ![s] = NoRequest],
         \A t \in Shells : at'[t] \in InAsk =>
           /\ local'[t].ask = local[t].ask
           /\ at'[t] = at[t] \/ (at[t] \in Waiting /\ at'[t] \in Waiting)
  PROVE  AInv'
<1>1. \A t \in Shells : SavesDialogs(todo'[t], asks')
      BY DEF AInv, Kept, SavesDialogs, OnlySettings, IInv, FilesOK
<1>2. DOMAIN sent' = Shells /\ \A t \in Shells : sent'[t].history \in Dialogs(asks)
      BY NothingSaid DEF AInv, Kept, NoRequest
<1>3. Kept'
      BY <1>1, <1>2 DEF AInv, Kept
<1>4. Talking'
      <2> SUFFICES ASSUME NEW t \in Shells, at'[t] \in InAsk
                   PROVE  /\ loaded'[t] /\ local'[t].ask <= asks'
                          /\ mem'[t] \in Dialogs(local'[t].ask)
                          /\ at'[t] = "assistant" =>
                               mem'[t] # <<>> /\ mem'[t][Len(mem'[t])] = [role |-> "user", ask |-> local'[t].ask]
          BY DEF Talking
      <2>1. /\ local'[t].ask = local[t].ask
            /\ at'[t] = at[t] \/ (at[t] \in Waiting /\ at'[t] \in Waiting)
            OBVIOUS
      <2>2. CASE at'[t] = at[t]
            BY <2>1, <2>2 DEF AInv, Talking
      <2>3. CASE at[t] \in Waiting /\ at'[t] \in Waiting
            <3>1. at'[t] # "assistant" /\ at[t] \in InAsk
                  BY <2>3 DEF Waiting, InAsk
            <3> QED
                BY <2>1, <2>3, <3>1 DEF AInv, Talking
      <2> QED
          BY <2>1, <2>2, <2>3
<1> QED
    BY <1>3, <1>4 DEF AInv

\* A file is truncated or filled: two shells that fill it at once leave one of the
\* dialogs, or what cannot be read.
LEMMA FilesDialogs ==
  ASSUME IInv, AInv, NEW s \in Shells, Truncate(s) \/ Fill(s) \/ CannotWrite(s) PROVE AInv'
<1>1. UNCHANGED <<mem, loaded, sent, asks, at, local>>
      BY DEF Truncate, Fill, CannotWrite, counts
<1>2. Talking'
      BY <1>1 DEF AInv, Talking
<1>3. todo[s] \in Seq(WritesOf) /\ file \in [Names -> Texts \cup Seq(Turns)] /\ asks \in Nat
      BY DEF IInv, FilesOK, ShellsOK
<1>4. todo' = todo \/ (todo[s] # <<>> /\ todo' = [todo EXCEPT ![s] = Tail(@)])
      BY DEF Truncate, Fill, CannotWrite, IInv, OpenedHasWrite
<1>5. \A t \in Shells : SavesDialogs(todo'[t], asks)
      <2>1. ASSUME todo[s] # <<>> PROVE SavesDialogs(Tail(todo[s]), asks)
            BY <1>3, <2>1 DEF AInv, Kept, SavesDialogs
      <2> QED
          BY <1>4, <2>1 DEF AInv, Kept, IInv, FilesOK
<1>6. Corrupt \in Dialogs(asks)
      <2>1. [role |-> "corrupt", ask |-> 0] \in Turns
            BY DEF Turns
      <2>2. Corrupt \in Seq(Turns) /\ Len(Corrupt) = 1 /\ \A i \in DOMAIN Corrupt : Corrupt[i].ask = 0
            BY <2>1 DEF Corrupt
      <2>3. Answered(Corrupt)
            BY <2>2 DEF Answered
      <2> QED
          BY <1>3, <2>2, <2>3 DEF Dialogs
<1>7. file'["conv"] \in Dialogs(asks)
      <2>1. ASSUME Truncate(s) PROVE file'["conv"] \in {file["conv"], <<>>}
            <3> DEFINE f == todo[s][1].name
            <3>1. file' = [file EXCEPT ![f] = Blank(f)]
                  BY <2>1 DEF Truncate
            <3>2. Blank("conv") = <<>> /\ "conv" \in Names
                  BY DEF Blank, Names
            <3> HIDE DEF f
            <3> QED
                BY <1>3, <3>1, <3>2
      <2>2. ASSUME Fill(s) PROVE file'["conv"] \in Dialogs(asks)
            <3> DEFINE w == todo[s][1]
            <3>1. file' = file \/ \E v \in Overlaid(w.name, file[w.name], w.value) : file' = [file EXCEPT ![w.name] = v]
                  BY <2>2 DEF Fill
            <3>2. w.name = "conv" => w.value \in Dialogs(asks)
                  <4>1. todo[s] # <<>>
                        BY <2>2 DEF Fill, IInv, OpenedHasWrite
                  <4> QED
                      BY <1>3, <4>1 DEF AInv, Kept, SavesDialogs
            <3> HIDE DEF w
            <3>3. ASSUME NEW v \in Overlaid(w.name, file[w.name], w.value), file' = [file EXCEPT ![w.name] = v]
                  PROVE  file'["conv"] \in Dialogs(asks)
                  <4>1. w.name = "conv" => v \in Dialogs(asks)
                        BY <1>6, <3>2, <3>3 DEF Overlaid
                  <4> QED
                      BY <1>3, <3>3, <4>1 DEF AInv, Kept
            <3> QED
                BY <3>1, <3>3 DEF AInv, Kept
      <2>3. ASSUME CannotWrite(s) PROVE file' = file
            BY <2>3 DEF CannotWrite, files
      <2> QED
          BY <2>1, <2>2, <2>3, NothingSaid DEF AInv, Kept
<1>8. Kept'
      BY <1>1, <1>5, <1>7 DEF AInv, Kept
<1> QED
    BY <1>2, <1>8 DEF AInv

\* A question is sent with the dialog before it, and is newer than all of it.
LEMMA RequestDialog ==
  ASSUME IInv, AInv, NEW s \in Shells, NEW b \in BOOLEAN, Request(s, b) PROVE AInv'
<1> DEFINE l == [local[s] EXCEPT !.ask = asks + 1]
           r == [stderr |-> b /\ SendsStderr, history |-> Load(s)]
<1>1. /\ at' = [at EXCEPT ![s] = "answer"] /\ local' = [local EXCEPT ![s] = l] /\ asks' = asks + 1
      /\ mem' = [mem EXCEPT ![s] = Load(s)] /\ loaded' = [loaded EXCEPT ![s] = TRUE]
      /\ sent' = [sent EXCEPT ![s] = r] /\ UNCHANGED <<file, todo>>
      BY DEF Request, Step, Quiet, files
<1>2. asks \in Nat /\ local[s] \in Locals
      BY Same
<1>3. l.ask = asks + 1 /\ r.history = Load(s)
      BY <1>2 DEF Locals
<1> HIDE DEF l, r
<1>4. \A d \in Dialogs(asks) : d \in Dialogs(asks')
      BY <1>1, <1>2, LaterDialogs
<1>5. Load(s) \in Dialogs(asks')
      BY <1>4, LoadsDialog
<1>6. Kept'
      <2>1. file'["conv"] \in Dialogs(asks') /\ \A t \in Shells : SavesDialogs(todo'[t], asks')
            BY <1>1, <1>4 DEF AInv, Kept, SavesDialogs
      <2>2. DOMAIN sent' = Shells /\ DOMAIN loaded' = Shells
            BY <1>1 DEF AInv, Kept
      <2>3. \A t \in Shells : mem'[t] = (IF t = s THEN Load(s) ELSE mem[t])
            BY <1>1 DEF IInv, FilesOK
      <2>4. \A t \in Shells : sent'[t] = (IF t = s THEN r ELSE sent[t])
            BY <1>1 DEF AInv, Kept
      <2>5. \A t \in Shells : mem'[t] \in Dialogs(asks') /\ sent'[t].history \in Dialogs(asks')
            BY <1>3, <1>4, <1>5, <2>3, <2>4 DEF AInv, Kept
      <2> QED
          BY <2>1, <2>2, <2>5 DEF Kept
<1>7. Talking'
      <2> SUFFICES ASSUME NEW t \in Shells, at'[t] \in InAsk
                   PROVE  /\ loaded'[t] /\ local'[t].ask <= asks'
                          /\ mem'[t] \in Dialogs(local'[t].ask)
                          /\ at'[t] = "assistant" =>
                               mem'[t] # <<>> /\ mem'[t][Len(mem'[t])] = [role |-> "user", ask |-> local'[t].ask]
          BY DEF Talking
      <2>1. CASE t = s
            <3>1. /\ at'[s] = "answer" /\ local'[s] = l /\ mem'[s] = Load(s) /\ loaded'[s]
                  /\ l.ask = asks' /\ asks' <= asks'
                  BY <1>1, <1>2, <1>3 DEF IInv, ShellsOK, FilesOK, AInv, Kept
            <3> QED
                BY <1>5, <2>1, <3>1
      <2>2. CASE t # s
            <3>1. at'[t] = at[t] /\ local'[t] = local[t] /\ mem'[t] = mem[t] /\ loaded'[t] = loaded[t]
                  BY <1>1, <2>2 DEF IInv, ShellsOK, FilesOK, AInv, Kept
            <3>2. local[t].ask \in Nat
                  BY DEF IInv, ShellsOK, Locals
            <3>3. local[t].ask <= asks
                  BY <3>1 DEF AInv, Talking
            <3>4. local[t].ask <= asks'
                  BY <1>1, <1>2, <3>2, <3>3
            <3> QED
                BY <3>1, <3>4 DEF AInv, Talking
      <2> QED
          BY <2>1, <2>2
<1> QED
    BY <1>6, <1>7 DEF AInv

\* The question, and then its answer, go after what the shell remembers.
LEMMA TurnDialog ==
  ASSUME IInv, AInv, NEW s \in Shells, NEW role \in {"user", "assistant"}, AddTurn(s, role) PROVE AInv'
<1> DEFINE turns == Append1(s, role)
           ws == <<Write("conv", turns)>>
           turn == [role |-> role, ask |-> local[s].ask]
<1>1. /\ at[s] = role /\ at' = [at EXCEPT ![s] = IF role = "user" THEN "assistant" ELSE "idle"]
      /\ mem' = [mem EXCEPT ![s] = turns] /\ loaded' = [loaded EXCEPT ![s] = TRUE]
      /\ todo' = [todo EXCEPT ![s] = ws]
      /\ UNCHANGED <<file, asks>>
      /\ role = "user" => UNCHANGED local
      /\ \A t \in Shells : t # s => local'[t] = local[t]
      /\ sent' = sent \/ sent' = [sent EXCEPT ![s] = NoRequest]
      <2>1. \A t \in Shells : t # s => local'[t] = local[t]
            BY DEF AddTurn, Forgets, IInv, ShellsOK
      <2>2. sent' = sent \/ sent' = [sent EXCEPT ![s] = NoRequest]
            BY DEF AddTurn, Forgets
      <2> QED
          BY <2>1, <2>2 DEF AddTurn, Step, Quiet, files
<1>2. /\ asks \in Nat /\ local[s].ask \in Nat /\ local[s].ask <= asks
      /\ loaded[s] /\ mem[s] \in Dialogs(local[s].ask)
      /\ role = "assistant" =>
           mem[s] # <<>> /\ mem[s][Len(mem[s])] = [role |-> "user", ask |-> local[s].ask]
      <2>1. asks \in Nat /\ local[s].ask \in Nat
            BY Same DEF Locals
      <2>2. at[s] \in InAsk
            BY <1>1 DEF InAsk, Waiting
      <2> QED
          BY <1>1, <2>1, <2>2 DEF AInv, Talking
<1>3. Append(mem[s], turn) \in Dialogs(local[s].ask) /\ turns = LastTurns(Append(mem[s], turn))
      <2>1. turn \in Turns /\ turn.ask = local[s].ask /\ turn.role = role
            BY <1>2 DEF Turns
      <2>2. turns = LastTurns(Append(mem[s], turn))
            BY <1>2 DEF Append1, Load
      <2> HIDE DEF turn, turns
      <2>3. Append(mem[s], turn) \in Dialogs(local[s].ask)
            BY <1>2, <2>1, Continues
      <2> QED
          BY <2>2, <2>3
<1>4. /\ Append(mem[s], turn) # <<>>
      /\ Append(mem[s], turn)[Len(Append(mem[s], turn))] = turn
      <2>1. mem[s] \in Seq(Turns) /\ turn \in Turns
            BY <1>2 DEF Dialogs, Turns
      <2> HIDE DEF turn
      <2> QED
          BY <2>1, AppendProperties, LenProperties
<1> HIDE DEF turns, ws
<1>5. turns \in Dialogs(local[s].ask) /\ turns # <<>> /\ turns[Len(turns)] = turn
      <2> HIDE DEF turn
      <2> QED
          BY <1>2, <1>3, <1>4, LatestDialog
<1>6. turns \in Dialogs(asks)
      BY <1>2, <1>5, LaterDialogs
<1>7. SavesDialogs(ws, asks)
      <2>1. Write("conv", turns).value = turns
            BY DEF Write
      <2> QED
          BY <1>6, <2>1 DEF SavesDialogs, ws
<1>8. \A t \in Shells : /\ mem'[t] = (IF t = s THEN turns ELSE mem[t])
                        /\ todo'[t] = (IF t = s THEN ws ELSE todo[t])
      BY <1>1 DEF IInv, FilesOK
<1>9. Kept'
      <2>1. DOMAIN sent' = Shells /\ \A t \in Shells : sent'[t].history \in Dialogs(asks)
            BY <1>1, NothingSaid DEF AInv, Kept, NoRequest
      <2>2. \A t \in Shells : SavesDialogs(todo'[t], asks')
            BY <1>1, <1>7, <1>8 DEF AInv, Kept
      <2>3. \A t \in Shells : mem'[t] \in Dialogs(asks')
            BY <1>1, <1>6, <1>8 DEF AInv, Kept
      <2>4. file'["conv"] \in Dialogs(asks') /\ DOMAIN loaded' = Shells /\ asks' = asks
            BY <1>1 DEF AInv, Kept
      <2> QED
          BY <2>1, <2>2, <2>3, <2>4 DEF Kept
<1>10. Talking'
      <2> SUFFICES ASSUME NEW t \in Shells, at'[t] \in InAsk
                   PROVE  /\ loaded'[t] /\ local'[t].ask <= asks'
                          /\ mem'[t] \in Dialogs(local'[t].ask)
                          /\ at'[t] = "assistant" =>
                               mem'[t] # <<>> /\ mem'[t][Len(mem'[t])] = [role |-> "user", ask |-> local'[t].ask]
          BY DEF Talking
      <2>1. CASE t = s
            <3>1. at'[s] = (IF role = "user" THEN "assistant" ELSE "idle") /\ loaded'[s]
                  BY <1>1 DEF IInv, ShellsOK, AInv, Kept
            <3>2. role = "user" /\ at'[s] = "assistant" /\ local' = local
                  BY <1>1, <2>1, <3>1 DEF InAsk, Waiting
            <3>3. mem'[s] = turns /\ turn = [role |-> "user", ask |-> local[s].ask] /\ asks' = asks
                  BY <1>1, <1>8, <3>2
            <3> HIDE DEF turn
            <3> QED
                BY <1>2, <1>5, <2>1, <3>1, <3>2, <3>3
      <2>2. CASE t # s
            <3>1. at'[t] = at[t] /\ local'[t] = local[t] /\ mem'[t] = mem[t] /\ loaded'[t] = loaded[t] /\ asks' = asks
                  BY <1>1, <2>2 DEF IInv, ShellsOK, FilesOK, AInv, Kept
            <3> QED
                BY <3>1 DEF AInv, Talking
      <2> QED
          BY <2>1, <2>2
<1> QED
    BY <1>9, <1>10 DEF AInv

LEMMA ClearDialog ==
  ASSUME IInv, AInv, NEW s \in Shells, Clear(s) PROVE AInv'
<1>1. /\ at[s] = "idle" /\ mem' = [mem EXCEPT ![s] = <<>>] /\ loaded' = [loaded EXCEPT ![s] = TRUE]
      /\ file' = [file EXCEPT !["conv"] = <<>>] /\ UNCHANGED <<at, local, todo, asks, sent>>
      BY DEF Clear, Prompt
<1>2. Kept'
      <2>1. file'["conv"] = <<>>
            BY <1>1 DEF IInv, FilesOK, Names
      <2>2. \A t \in Shells : mem'[t] \in Dialogs(asks)
            BY <1>1, NothingSaid DEF AInv, Kept, IInv, FilesOK
      <2> QED
          BY <1>1, <2>1, <2>2, NothingSaid DEF AInv, Kept
<1>3. Talking'
      <2>1. \A t \in Shells : at[t] \in InAsk => t # s
            BY <1>1 DEF InAsk, Waiting
      <2>2. \A t \in Shells : t # s => mem'[t] = mem[t] /\ loaded'[t] = loaded[t]
            BY <1>1 DEF IInv, FilesOK, AInv, Kept
      <2> QED
          BY <1>1, <2>1, <2>2 DEF AInv, Talking
<1> QED
    BY <1>2, <1>3 DEF AInv

LEMMA CrashDialog ==
  ASSUME IInv, AInv, NEW s \in Shells, Crash(s) PROVE AInv'
<1>1. /\ at' = [at EXCEPT ![s] = "idle"] /\ todo' = [todo EXCEPT ![s] = <<>>]
      /\ local' = [local EXCEPT ![s] = NoLocal] /\ sent' = [sent EXCEPT ![s] = NoRequest]
      /\ mem' = [mem EXCEPT ![s] = <<>>] /\ loaded' = [loaded EXCEPT ![s] = FALSE]
      /\ UNCHANGED <<file, asks>>
      BY DEF Crash, Forgets
<1>2. Kept'
      <2>1. SavesDialogs(<<>>, asks)
            BY DEF SavesDialogs
      <2>2. \A t \in Shells : SavesDialogs(todo'[t], asks) /\ mem'[t] \in Dialogs(asks)
            BY <1>1, <2>1, NothingSaid DEF AInv, Kept, IInv, FilesOK
      <2>3. DOMAIN sent' = Shells /\ DOMAIN loaded' = Shells
            /\ \A t \in Shells : sent'[t].history \in Dialogs(asks)
            BY <1>1, NothingSaid DEF AInv, Kept, NoRequest
      <2> QED
          BY <1>1, <2>2, <2>3 DEF AInv, Kept
<1>3. Talking'
      <2>1. \A t \in Shells : at'[t] \in InAsk => t # s
            BY <1>1 DEF InAsk, Waiting, IInv, ShellsOK
      <2>2. \A t \in Shells : t # s => /\ at'[t] = at[t] /\ local'[t] = local[t]
                                       /\ mem'[t] = mem[t] /\ loaded'[t] = loaded[t]
            BY <1>1 DEF IInv, ShellsOK, FilesOK, AInv, Kept
      <2> QED
          BY <1>1, <2>1, <2>2, SMTT(30) DEF AInv, Talking
<1> QED
    BY <1>2, <1>3 DEF AInv

LEMMA NextAInv ==
  ASSUME IInv, AInv, [Next]_vars PROVE AInv'
<1>1. ASSUME UNCHANGED vars \/ Midnight PROVE AInv'
      <2>1. UNCHANGED <<mem, loaded, sent, asks, file, todo, at, local>>
            BY <1>1 DEF vars, files, shell, counts, Midnight
      <2> QED
          BY <2>1 DEF AInv, Kept, Talking, SavesDialogs
<1>2. ASSUME NEW s \in Shells,
             \/ SetKey(s) \/ \E b \in BOOLEAN : OnOff(s, b)
             \/ \E p \in Providers : SetProvider(s, p)
             \/ \E m \in Models : SetModel(s, m)
             \/ \E v \in {"0", "1"} : Privacy(s, v)
      PROVE  AInv'
      <2>1. /\ UNCHANGED <<mem, loaded, since, asks, file, at, local, sent>>
            /\ todo' = todo \/ \E ws \in Seq(WritesOf) : OnlySettings(ws) /\ todo' = [todo EXCEPT ![s] = ws]
            BY <1>2, CommandSteps
      <2>2. \A t \in Shells : at'[t] \in InAsk =>
              /\ local'[t].ask = local[t].ask
              /\ at'[t] = at[t] \/ (at[t] \in Waiting /\ at'[t] \in Waiting)
            BY <2>1
      <2> QED
          BY <2>1, <2>2, NothingAdded
<1>3. ASSUME NEW s \in Shells,
             \/ Ask(s) \/ Status(s) \/ Wizard(s) \/ Rekey(s) \/ ReadProvider(s) \/ ReadModel(s) \/ Build(s) \/ Told(s)
             \/ Succeeds(s) \/ UsageLock(s) \/ UsageTruncate(s) \/ UsageWrite(s)
             \/ \E status \in {0, 401, 403} : Fails(s, status)
      PROVE  AInv'
      BY <1>3, HandlerSteps, NothingAdded
<1> QED
    BY <1>1, <1>2, <1>3, FilesDialogs, ClearDialog, RequestDialog, TurnDialog, CrashDialog DEF Next

\* add_to_conversation and write_secure_file (ai_config.cpp), called by handle_ask:
\* however the shells truncate and fill the file under each other, what one
\* remembers, sends or leaves on disk never has an answer without its question, or
\* an older question after a newer one.
THEOREM ConversationsAreWhole == Spec => []AnswersFollowQuestions
<1>1. Init => AInv
      BY InitAInv
<1>2. IInv /\ AInv /\ [Next]_vars => AInv'
      BY NextAInv
<1>3. AInv => AnswersFollowQuestions
      BY DEF AInv, Kept, Dialogs, AnswersFollowQuestions
<1> QED
    BY <1>1, <1>2, <1>3, Invariance, PTL DEF Spec

-----------------------------------------------------------------------------
(* Writing a session and reading it back: a text of symbols is escaped,     *)
(* cut into lines, and each line split at its first = and unescaped.        *)
(* The text of a session can be read back.                                  *)
Signs == {"\\", "n", "r", NL, CR, "="}

\* A value without special symbols, and what an escaped one is made of.
InOneLine(C) == (C \ {NL}) \cup {"\\", "n", "r"}

LEMMA EscapedIs ==
  ASSUME NEW C, NEW c \in C
  PROVE  /\ Escaped(c) \in Seq(InOneLine(C))
         /\ Escaped(c) = IF c = "\\" THEN <<"\\", "\\">> ELSE IF c = NL THEN <<"\\", "n">>
                         ELSE IF c = CR THEN <<"\\", "r">> ELSE <<c>>
<1>1. NL # CR /\ NL # "\\" /\ CR # "\\"
      BY DEF NL, CR
<1>2. Escaped(c) = IF c = "\\" THEN <<"\\", "\\">> ELSE IF c = NL THEN <<"\\", "n">>
                   ELSE IF c = CR THEN <<"\\", "r">> ELSE <<c>>
      BY <1>1 DEF Escaped, EscapeOf
<1> DEFINE W == InOneLine(C)
<1>3. "\\" \in W /\ "n" \in W /\ "r" \in W /\ (c # NL => c \in W)
      BY DEF InOneLine
<1> HIDE DEF W
<1>4. Escaped(c) \in Seq(W)
      <2>1. CASE c \in {"\\", NL, CR}
            BY <1>2, <1>3, <2>1
      <2>2. CASE c \notin {"\\", NL, CR}
            <3>1. Escaped(c) = <<c>> /\ c \in W
                  BY <1>2, <1>3, <2>2
            <3> QED
                BY <3>1
      <2> QED
          BY <2>1, <2>2
<1> QED
    BY <1>2, <1>4 DEF W

LEMMA EscapedParts ==
  ASSUME NEW C, NEW v \in Seq(C)
  PROVE  /\ [n \in DOMAIN v |-> Escaped(v[n])] \in Seq(Seq(InOneLine(C)))
         /\ EscapeValue(v) \in Seq(InOneLine(C))
<1> DEFINE V == Seq(InOneLine(C))
           ss == [n \in DOMAIN v |-> Escaped(v[n])]
<1>1. Len(v) \in Nat /\ DOMAIN v = 1..Len(v) /\ \A n \in 1..Len(v) : v[n] \in C
      OBVIOUS
<1>2. \A n \in 1..Len(v) : Escaped(v[n]) \in V
      BY <1>1, EscapedIs
<1> HIDE DEF V
<1>3. ss \in Seq(V)
      BY <1>1, <1>2
<1> HIDE DEF ss
<1>4. FlattenSeq(ss) \in Seq(InOneLine(C))
      BY <1>3, Flattened DEF V
<1> QED
    BY <1>3, <1>4 DEF EscapeValue, ss, V

LEMMA EscapeMore ==
  ASSUME NEW C, NEW v \in Seq(C), NEW c \in C
  PROVE  EscapeValue(<<>>) = <<>> /\ EscapeValue(Append(v, c)) = EscapeValue(v) \o Escaped(c)
<1> DEFINE ss == [n \in DOMAIN v |-> Escaped(v[n])]
           w == Append(v, c)
           tt == [n \in DOMAIN w |-> Escaped(w[n])]
<1>1. ss \in Seq(Seq(InOneLine(C))) /\ Escaped(c) \in Seq(InOneLine(C))
      BY EscapedParts, EscapedIs
<1>2. Len(v) \in Nat /\ DOMAIN v = 1..Len(v) /\ DOMAIN w = 1..Len(v) + 1
      /\ (\A n \in 1..Len(v) : w[n] = v[n]) /\ w[Len(v) + 1] = c
      OBVIOUS
<1> HIDE DEF w
<1>3. Len(ss) = Len(v) /\ DOMAIN ss = 1..Len(v) /\ \A n \in 1..Len(v) : ss[n] = Escaped(v[n])
      BY <1>2
<1>4. DOMAIN tt = 1..Len(v) + 1 /\ \A n \in 1..Len(v) + 1 : tt[n] = Escaped(w[n])
      BY <1>2
<1>5. tt = [n \in 1..Len(v) + 1 |-> tt[n]]
      BY <1>2
<1> HIDE DEF ss, tt
<1> DEFINE u == Append(ss, Escaped(c))
           V == Seq(InOneLine(C))
           x == Escaped(c)
<1>6. u = [n \in 1..Len(v) + 1 |-> u[n]] /\ (\A n \in 1..Len(v) : u[n] = ss[n]) /\ u[Len(v) + 1] = Escaped(c)
      <2>1. ss \in Seq(V) /\ x \in V /\ u = Append(ss, x)
            BY <1>1
      <2> HIDE DEF V, x, u
      <2>2. u \in Seq(V) /\ Len(u) = Len(v) + 1 /\ (\A n \in 1..Len(v) : u[n] = ss[n]) /\ u[Len(v) + 1] = x
            BY <1>2, <1>3, <2>1
      <2>3. u = [n \in 1..Len(v) + 1 |-> u[n]]
            BY <2>2
      <2> QED
          BY <2>2, <2>3 DEF x
<1> HIDE DEF u
<1>7. ASSUME NEW n \in 1..Len(v) + 1 PROVE tt[n] = u[n]
      <2>1. CASE n = Len(v) + 1
            BY <1>2, <1>4, <1>6, <2>1
      <2>2. CASE n # Len(v) + 1
            <3>1. n \in 1..Len(v)
                  BY <1>2, <2>2
            <3> QED
                BY <1>2, <1>3, <1>4, <1>6, <3>1
      <2> QED
          BY <2>1, <2>2
<1>8. tt = u
      BY <1>5, <1>6, <1>7
<1>9. FlattenSeq(u) = FlattenSeq(ss) \o Escaped(c)
      BY <1>1, FlattenMore DEF u
<1>10. EscapeValue(<<>>) = <<>>
      <2>1. [n \in DOMAIN <<>> |-> Escaped(<<>>[n])] = <<>>
            OBVIOUS
      <2> QED
          BY <2>1 DEF EscapeValue, FlattenSeq
<1> QED
    BY <1>8, <1>9, <1>10 DEF EscapeValue, ss, tt, w

-----------------------------------------------------------------------------
\* What is read of an escaped value.
Readings(C) == [escaped : BOOLEAN, out : Seq(C)]
Reading(C) == [c \in C |-> [t \in Readings(C) |-> ReadSymbol(t, c)]]

LEMMA ReadingReads ==
  ASSUME NEW C, Signs \subseteq C
  PROVE  /\ Reading(C) \in [C -> [Readings(C) -> Readings(C)]] /\ Unread \in Readings(C)
         /\ \A c \in C, t \in Readings(C) : Reading(C)[c][t] = ReadSymbol(t, c)
<1>1. ASSUME NEW c \in C, NEW t \in Readings(C) PROVE ReadSymbol(t, c) \in Readings(C)
      <2>1. t.out \in Seq(C) /\ t.escaped \in BOOLEAN
            BY DEF Readings
      <2>2. Unescaped(c) \in Seq(C)
            BY DEF Unescaped, Signs
      <2>3. t.out \o Unescaped(c) \in Seq(C) /\ Append(t.out, c) \in Seq(C)
            BY <2>1, <2>2
      <2> QED
          BY <2>1, <2>3 DEF ReadSymbol, Readings
<1>2. Unread \in Readings(C)
      BY DEF Unread, Readings
<1> DEFINE V == Readings(C)
<1>3. \A c \in C, t \in V : ReadSymbol(t, c) \in V
      BY <1>1
<1>4. Reading(C) = [c \in C |-> [t \in V |-> ReadSymbol(t, c)]]
      BY DEF Reading
<1> HIDE DEF V
<1>5. Reading(C) \in [C -> [V -> V]] /\ \A c \in C, t \in V : Reading(C)[c][t] = ReadSymbol(t, c)
      BY <1>3, <1>4
<1> QED
    BY <1>2, <1>5 DEF V

LEMMA UnescapeIsFold ==
  ASSUME NEW C, Signs \subseteq C, NEW v \in Seq(C), NEW t, FoldIs(t, v, Readings(C), Unread, Reading(C))
  PROVE  UnescapeValue(v) = IF t.escaped THEN Append(t.out, "\\") ELSE t.out
<1> DEFINE n == Len(v)
           V == Readings(C)
           FF == [i \in 1..n |-> Reading(C)[v[i]]]
           Defines(f) == f = [i \in 0..n |-> IF i = 0 THEN Unread ELSE ReadSymbol(f[i - 1], v[i])]
           r == CHOOSE f : Defines(f)
<1>1. n \in Nat /\ v \in [1..n -> C]
      OBVIOUS
<1>2. Reading(C) \in [C -> [V -> V]] /\ Unread \in V /\ \A c \in C, q \in V : Reading(C)[c][q] = ReadSymbol(q, c)
      BY ReadingReads
<1> HIDE DEF n, V
<1>3. FF \in [1..n -> [V -> V]] /\ \A i \in 1..n, q \in V : FF[i][q] = ReadSymbol(q, v[i])
      BY <1>1, <1>2
<1>4. PICK g : Recurs(g, n, V, Unread, FF) /\ t = g[n]
      BY DEF FoldIs, n, V
<1> HIDE DEF FF
<1>5. g \in [0..n -> V] /\ g[0] = Unread /\ \A i \in 1..n : g[i] = FF[i][g[i - 1]]
      BY <1>4 DEF Recurs
<1>6. \A i \in 1..n : g[i] = ReadSymbol(g[i - 1], v[i])
      <2> TAKE i \in 1..n
      <2>1. i - 1 \in 0..n
            BY <1>1
      <2>2. g[i] = FF[i][g[i - 1]] /\ g[i - 1] \in V
            BY <1>5, <2>1
      <2> QED
          BY <1>3, <2>2
<1>7. Defines(g)
      <2>1. \A i \in 0..n : g[i] = IF i = 0 THEN Unread ELSE ReadSymbol(g[i - 1], v[i])
            BY <1>1, <1>5, <1>6
      <2> QED
          BY <1>5, <2>1
<1>8. Defines(r)
      <2> HIDE DEF Defines
      <2> QED
          BY <1>7
<1>9. UnescapeValue(v) = IF r[n].escaped THEN Append(r[n].out, "\\") ELSE r[n].out
      BY DEF UnescapeValue, n
<1> HIDE DEF r
<1>10. r = [i \in 0..n |-> r[i]] /\ r[0] = Unread /\ \A i \in 1..n : r[i] = ReadSymbol(r[i - 1], v[i])
      BY <1>1, <1>8
<1>11. \A i \in 1..n : r[i - 1] \in V => r[i] = FF[i][r[i - 1]]
      BY <1>3, <1>10
<1>12. Recurs(r, n, V, Unread, FF)
      BY <1>1, <1>2, <1>3, <1>10, <1>11, RecursionIs
<1>13. FoldIs(r[n], v, V, Unread, Reading(C))
      BY <1>12 DEF FoldIs, FF, n
<1>14. r[n] = t
      BY <1>2, <1>13, FoldUnique DEF V
<1> QED
    BY <1>9, <1>14

LEMMA EscapesAreRead ==
  ASSUME NEW C, Signs \subseteq C, NEW v \in Seq(C)
  PROVE  FoldIs([escaped |-> FALSE, out |-> v], EscapeValue(v), Readings(C), Unread, Reading(C))
<1> DEFINE V == Readings(C)
           T == Reading(C)
           Read(w) == [escaped |-> FALSE, out |-> w]
           S == {w \in Seq(C) : FoldIs(Read(w), EscapeValue(w), V, Unread, T)}
<1>1. \A c \in C, t \in V : T[c][t] = ReadSymbol(t, c)
      BY ReadingReads
<1>7. T \in [C -> [V -> V]] /\ Unread \in V
      BY ReadingReads
<1>2. \A w \in Seq(C) : EscapeValue(w) \in Seq(C)
      <2> TAKE w \in Seq(C)
      <2>1. EscapeValue(w) \in Seq(InOneLine(C)) /\ InOneLine(C) \subseteq C
            BY EscapedParts DEF InOneLine, Signs
      <2> QED
          BY <2>1, SeqMonotonic
<1>3. \A w \in Seq(C) : Read(w) \in V /\ [escaped |-> TRUE, out |-> w] \in V
      BY DEF Readings
<1> HIDE DEF V, T
<1>4. <<>> \in S
      <2>1. EscapeValue(<<>>) = <<>>
            <3>1. "n" \in C /\ <<>> \in Seq(C)
                  BY DEF Signs
            <3> QED
                BY <3>1, EscapeMore
      <2>2. Unread = Read(<<>>) /\ FoldIs(Unread, <<>>, V, Unread, T)
            BY <1>7, FoldEmpty DEF Unread
      <2>3. <<>> \in Seq(C)
            OBVIOUS
      <2> QED
          BY <2>1, <2>2, <2>3
<1>5. ASSUME NEW w \in Seq(C), NEW c \in C, w \in S PROVE Append(w, c) \in S
      <2> DEFINE e == EscapeValue(w)
                 more == Append(w, c)
      <2>1. e \in Seq(C) /\ more \in Seq(C) /\ EscapeValue(more) = e \o Escaped(c)
            BY <1>2, EscapeMore
      <2>2. FoldIs(Read(w), e, V, Unread, T)
            BY <1>5
      <2>3. more = w \o <<c>>
            OBVIOUS
      <2>6. Escaped(c) = IF c = "\\" THEN <<"\\", "\\">> ELSE IF c = NL THEN <<"\\", "n">>
                         ELSE IF c = CR THEN <<"\\", "r">> ELSE <<c>>
            BY EscapedIs
      <2> DEFINE r == Read(w)
                 q == Read(more)
      <2> SUFFICES FoldIs(q, e \o Escaped(c), V, Unread, T)
          BY <2>1
      <2>7. r \in V /\ q \in V /\ FoldIs(r, e, V, Unread, T)
            BY <1>3, <2>1, <2>2
      <2> HIDE DEF e, more, S
      <2>4. CASE c \in {"\\", NL, CR}
            <3> DEFINE x == IF c = "\\" THEN "\\" ELSE IF c = NL THEN "n" ELSE "r"
                       half == [escaped |-> TRUE, out |-> w]
            <3>1. Escaped(c) = <<"\\", x>> /\ x \in C /\ "\\" \in C
                  BY <2>4, <2>6 DEF Signs
            <3>2. Unescaped(x) = <<c>>
                  BY <2>4 DEF Unescaped, NL, CR
            <3>3. half \in V
                  BY <1>3
            <3> HIDE DEF x
            <3>4. T["\\"][r] = half
                  <4>1. T["\\"][r] = ReadSymbol(r, "\\")
                        BY <1>1, <2>7, <3>1
                  <4> QED
                      BY <4>1 DEF ReadSymbol
            <3>5. T[x][half] = q
                  <4>1. T[x][half] = ReadSymbol(half, x)
                        BY <1>1, <3>1, <3>3
                  <4> QED
                      BY <2>3, <3>2, <4>1 DEF ReadSymbol
            <3>6. Append(e, "\\") \in Seq(C) /\ Append(Append(e, "\\"), x) = e \o <<"\\", x>>
                  BY <2>1, <3>1
            <3> HIDE DEF half, r, q
            <3>7. FoldIs(half, Append(e, "\\"), V, Unread, T)
                  BY <1>7, <2>1, <2>7, <3>1, <3>4, FoldAppend
            <3>8. FoldIs(q, Append(Append(e, "\\"), x), V, Unread, T)
                  BY <1>7, <3>1, <3>5, <3>6, <3>7, FoldAppend
            <3> QED
                BY <3>1, <3>6, <3>8
      <2>5. CASE c \notin {"\\", NL, CR}
            <3>1. Escaped(c) = <<c>> /\ e \o <<c>> = Append(e, c)
                  BY <2>1, <2>5, <2>6
            <3>2. T[c][r] = q
                  <4>1. T[c][r] = ReadSymbol(r, c)
                        BY <1>1, <2>7
                  <4>2. q = [escaped |-> FALSE, out |-> Append(w, c)]
                        BY DEF more
                  <4> QED
                      BY <2>5, <4>1, <4>2 DEF ReadSymbol
            <3>3. FoldIs(T[c][r], Append(e, c), V, Unread, T)
                  <4> HIDE DEF r
                  <4> QED
                      BY <1>7, <2>1, <2>7, FoldAppend
            <3> HIDE DEF r, q
            <3> QED
                BY <3>1, <3>2, <3>3
      <2> QED
          BY <2>4, <2>5
<1> HIDE DEF S
<1>6. v \in S
      BY <1>4, <1>5, SeqBySet
<1> QED
    BY <1>6 DEF S, V, T

LEMMA EscapesUndone ==
  ASSUME NEW C, Signs \subseteq C, NEW v \in Seq(C)
  PROVE  UnescapeValue(EscapeValue(v)) = v
<1> DEFINE t == [escaped |-> FALSE, out |-> v]
           e == EscapeValue(v)
<1>1. e \in Seq(C)
      <2>1. EscapeValue(v) \in Seq(InOneLine(C)) /\ InOneLine(C) \subseteq C
            BY EscapedParts DEF InOneLine, Signs
      <2> QED
          BY <2>1, SeqMonotonic
<1>2. FoldIs(t, e, Readings(C), Unread, Reading(C))
      BY EscapesAreRead
<1>3. UnescapeValue(e) = IF t.escaped THEN Append(t.out, "\\") ELSE t.out
      BY <1>1, <1>2, UnescapeIsFold
<1> QED
    BY <1>3

\* Escaping makes a value no shorter, and leaves an ordinary first symbol where it is.
LEMMA EscapedStart ==
  ASSUME NEW C, NEW v \in Seq(C), v # <<>>, v[1] \notin {"\\", NL, CR}
  PROVE  Len(EscapeValue(v)) >= Len(v) /\ EscapeValue(v)[1] = v[1]
<1> DEFINE Good(w) == Len(EscapeValue(w)) >= Len(w) /\ EscapeValue(w)[1] = w[1]
           S == {w \in Seq(C) : w # <<>> /\ w[1] = v[1] => Good(w)}
<1>1. <<>> \in S
      OBVIOUS
<1>2. ASSUME NEW w \in Seq(C), NEW c \in C, w \in S PROVE Append(w, c) \in S
      <2> DEFINE e == EscapeValue(w)
                 more == Append(w, c)
                 x == Escaped(c)
      <2>0. more \in Seq(C) /\ (more # <<>> /\ more[1] = v[1] => Good(more)) => more \in S
            OBVIOUS
      <2> SUFFICES ASSUME more[1] = v[1] PROVE Good(more)
          BY <2>0
      <2>1. e \in Seq(InOneLine(C)) /\ x \in Seq(InOneLine(C)) /\ EscapeValue(more) = e \o x
            BY EscapedParts, EscapeMore, EscapedIs
      <2>2. Len(x) >= 1 /\ (c \notin {"\\", NL, CR} => x = <<c>>)
            <3>1. x = IF c = "\\" THEN <<"\\", "\\">> ELSE IF c = NL THEN <<"\\", "n">>
                      ELSE IF c = CR THEN <<"\\", "r">> ELSE <<c>>
                  BY EscapedIs
            <3> QED
                BY <3>1
      <2> HIDE DEF e, x, S
      <2>3. CASE w = <<>>
            <3>1. more = <<c>> /\ c = v[1]
                  BY <2>3
            <3>2. e = <<>>
                  BY <2>3, EscapeMore DEF e
            <3>3. EscapeValue(more) = <<c>>
                  BY <2>1, <2>2, <3>1, <3>2
            <3> QED
                BY <3>1, <3>3
      <2>4. CASE w # <<>>
            <3>1. w[1] = v[1] /\ Len(w) \in Nat /\ Len(w) >= 1 /\ Len(more) = Len(w) + 1
                  BY <2>4
            <3>2. Len(e) >= Len(w) /\ e[1] = w[1]
                  BY <1>2, <2>4, <3>1 DEF e, S
            <3>3. Len(e) \in Nat /\ Len(x) \in Nat
                  BY <2>1
            <3>4. Len(e \o x) = Len(e) + Len(x) /\ (e \o x)[1] = e[1]
                  BY <2>1, <3>1, <3>2, <3>3
            <3>5. more[1] = w[1]
                  BY <2>4
            <3> HIDE DEF more
            <3> QED
                BY <2>1, <2>2, <3>1, <3>2, <3>3, <3>4, <3>5
      <2> QED
          BY <2>3, <2>4
<1> HIDE DEF S
<1>3. v \in S
      BY <1>1, <1>2, SeqBySet
<1> QED
    BY <1>3 DEF S

\* The lines of a text: the last is the one that goes on.
Gathered(C) == Seq(Seq(C)) \ {<<>>}
Gathering(C) == [c \in C |-> [ls \in Gathered(C) |-> AddSymbol(ls, c)]]

LEMMA LastLine ==
  ASSUME NEW C, NEW ls \in Seq(Seq(C)), NEW u \in Seq(C), NEW c \in C
  PROVE  /\ Append(ls, u) \in Gathered(C)
         /\ AddSymbol(Append(ls, u), c) = IF c = NL THEN Append(Append(ls, u), <<>>) ELSE Append(ls, Append(u, c))
         /\ AddSymbol(Append(ls, u), c) \in Gathered(C)
<1> DEFINE V == Seq(C)
           all == Append(ls, u)
           n == Len(ls)
<1>1. u \in V /\ <<>> \in V /\ Append(u, c) \in V /\ ls \in Seq(V)
      OBVIOUS
<1> DEFINE w == Append(u, c)
<1>2. w \in V
      BY <1>1
<1> HIDE DEF V, w
<1>3. all \in Seq(V) /\ all # <<>> /\ Len(all) = n + 1 /\ n \in Nat /\ (\A i \in 1..n : all[i] = ls[i]) /\ all[n + 1] = u
      BY <1>1
<1>4. Append(all, <<>>) \in Seq(V) /\ Append(all, <<>>) # <<>>
      <2> DEFINE new == <<>>
      <2>1. new \in V
            BY <1>1
      <2> HIDE DEF all, new
      <2>2. Append(all, new) \in Seq(V) /\ Len(Append(all, new)) = n + 2
            BY <1>3, <2>1
      <2>3. Append(all, new) # <<>>
            BY <1>3, <2>2
      <2> QED
          BY <2>2, <2>3 DEF new
<1>5. Append(ls, w) \in Seq(V) /\ Append(ls, w) # <<>>
      BY <1>1, <1>2
<1> HIDE DEF all, n
<1>6. [all EXCEPT ![n + 1] = w] = Append(ls, w)
      <2> DEFINE e == [all EXCEPT ![n + 1] = w]
                 a == Append(ls, w)
      <2>1. a \in Seq(V) /\ Len(a) = n + 1 /\ (\A i \in 1..n : a[i] = ls[i]) /\ a[n + 1] = w
            BY <1>1, <1>2 DEF n
      <2>2. e \in Seq(V) /\ Len(e) = n + 1 /\ (\A i \in 1..n : e[i] = all[i]) /\ e[n + 1] = w
            <3>1. n + 1 \in 1..Len(all)
                  BY <1>3
            <3>2. e \in Seq(V) /\ Len(e) = Len(all) /\ \A j \in 1..Len(all) : e[j] = IF j = n + 1 THEN w ELSE all[j]
                  BY <1>2, <1>3, <3>1, ExceptSeq
            <3> HIDE DEF e
            <3> QED
                BY <1>3, <3>1, <3>2
      <2> HIDE DEF e, a
      <2>3. ASSUME NEW i \in 1..Len(e) PROVE e[i] = a[i]
            <3>1. i \in 1..n \/ i = n + 1
                  BY <1>3, <2>2
            <3> QED
                BY <1>3, <2>1, <2>2, <3>1
      <2>4. e = a
            BY <2>1, <2>2, <2>3, SeqEqual
      <2> QED
          BY <2>4 DEF e, a
<1>7. [all EXCEPT ![Len(all)] = Append(@, c)] = [all EXCEPT ![n + 1] = w]
      BY <1>3 DEF w
<1> QED
    BY <1>3, <1>4, <1>5, <1>6, <1>7 DEF AddSymbol, Gathered, all, w, V

LEMMA GatheringGathers ==
  ASSUME NEW C
  PROVE  /\ Gathering(C) \in [C -> [Gathered(C) -> Gathered(C)]] /\ <<<<>>>> \in Gathered(C)
         /\ \A c \in C, ls \in Gathered(C) : Gathering(C)[c][ls] = AddSymbol(ls, c)
<1>1. ASSUME NEW c \in C, NEW ls \in Gathered(C) PROVE AddSymbol(ls, c) \in Gathered(C)
      <2> DEFINE n == Len(ls)
                 front == SubSeq(ls, 1, n - 1)
      <2>1. front \in Seq(Seq(C)) /\ ls[n] \in Seq(C) /\ ls = Append(front, ls[n])
            <3> DEFINE V == Seq(C)
            <3>1. ls \in Seq(V) /\ ls # <<>>
                  BY DEF Gathered
            <3> HIDE DEF V
            <3>2. front \in Seq(V) /\ ls[n] \in V /\ ls = Append(front, ls[n])
                  BY <3>1
            <3> QED
                BY <3>2 DEF V
      <2> HIDE DEF n, front
      <2> QED
          BY <2>1, LastLine
<1>2. <<<<>>>> \in Gathered(C)
      <2> DEFINE V == Seq(C)
      <2>1. <<>> \in V
            OBVIOUS
      <2> HIDE DEF V
      <2>2. <<<<>>>> \in Seq(V) /\ <<<<>>>> # <<>>
            BY <2>1
      <2> QED
          BY <2>2 DEF Gathered, V
<1> DEFINE W == Gathered(C)
<1>3. \A c \in C, ls \in W : AddSymbol(ls, c) \in W
      BY <1>1
<1>4. Gathering(C) = [c \in C |-> [ls \in W |-> AddSymbol(ls, c)]]
      BY DEF Gathering
<1> HIDE DEF W
<1>5. Gathering(C) \in [C -> [W -> W]] /\ \A c \in C, ls \in W : Gathering(C)[c][ls] = AddSymbol(ls, c)
      BY <1>3, <1>4
<1> QED
    BY <1>2, <1>5 DEF W

LEMMA LinesIs ==
  ASSUME NEW C, NEW text \in Seq(C), NEW ls, FoldIs(ls, text, Gathered(C), <<<<>>>>, Gathering(C))
  PROVE  Lines(text) = ls
<1> DEFINE n == Len(text)
           V == Gathered(C)
           base == <<<<>>>>
           FF == [i \in 1..n |-> Gathering(C)[text[i]]]
           Defines(f) == f = [i \in 0..n |-> IF i = 0 THEN base ELSE AddSymbol(f[i - 1], text[i])]
           r == CHOOSE f : Defines(f)
<1>1. n \in Nat /\ text \in [1..n -> C]
      OBVIOUS
<1>2. Gathering(C) \in [C -> [V -> V]] /\ base \in V /\ \A c \in C, q \in V : Gathering(C)[c][q] = AddSymbol(q, c)
      BY GatheringGathers
<1>3. Lines(text) = r[n]
      BY DEF Lines, n
<1> HIDE DEF n, V, base
<1>4. FF \in [1..n -> [V -> V]] /\ \A i \in 1..n, q \in V : FF[i][q] = AddSymbol(q, text[i])
      BY <1>1, <1>2
<1>5. PICK g : Recurs(g, n, V, base, FF) /\ ls = g[n]
      BY DEF FoldIs, n, V, base
<1> HIDE DEF FF
<1>6. g \in [0..n -> V] /\ g[0] = base /\ \A i \in 1..n : g[i] = FF[i][g[i - 1]]
      BY <1>5 DEF Recurs
<1>7. \A i \in 1..n : g[i] = AddSymbol(g[i - 1], text[i])
      <2> TAKE i \in 1..n
      <2>1. i - 1 \in 0..n
            BY <1>1
      <2>2. g[i] = FF[i][g[i - 1]] /\ g[i - 1] \in V
            BY <1>6, <2>1
      <2> QED
          BY <1>4, <2>2
<1>8. Defines(g)
      <2>1. \A i \in 0..n : g[i] = IF i = 0 THEN base ELSE AddSymbol(g[i - 1], text[i])
            BY <1>1, <1>6, <1>7
      <2> QED
          BY <1>6, <2>1
<1>9. Defines(r)
      <2> HIDE DEF Defines
      <2> QED
          BY <1>8
<1> HIDE DEF r
<1>10. r = [i \in 0..n |-> r[i]] /\ r[0] = base /\ \A i \in 1..n : r[i] = AddSymbol(r[i - 1], text[i])
      <2>1. r = [i \in 0..n |-> IF i = 0 THEN base ELSE AddSymbol(r[i - 1], text[i])]
            BY <1>9
      <2> HIDE DEF Defines
      <2>2. r = [i \in 0..n |-> r[i]] /\ \A i \in 0..n : r[i] = IF i = 0 THEN base ELSE AddSymbol(r[i - 1], text[i])
            BY <2>1
      <2>3. 0 \in 0..n /\ \A i \in 1..n : i \in 0..n /\ i # 0
            BY <1>1
      <2> QED
          BY <2>2, <2>3
<1>11. \A i \in 1..n : r[i - 1] \in V => r[i] = FF[i][r[i - 1]]
      BY <1>4, <1>10
<1>12. Recurs(r, n, V, base, FF)
      BY <1>1, <1>2, <1>4, <1>10, <1>11, RecursionIs
<1>13. FoldIs(r[n], text, V, base, Gathering(C)) /\ FoldIs(ls, text, V, base, Gathering(C))
      BY <1>12 DEF FoldIs, FF, n, V, base
<1>14. r[n] = ls
      BY <1>2, <1>13, FoldUnique
<1> QED
    BY <1>3, <1>14

\* More of the last line, and its end.
LEMMA LineGrows ==
  ASSUME NEW C, NEW t \in Seq(C), NEW ls \in Seq(Seq(C)), NEW u \in Seq(C \ {NL}),
         FoldIs(Append(ls, <<>>), t, Gathered(C), <<<<>>>>, Gathering(C))
  PROVE  FoldIs(Append(ls, u), t \o u, Gathered(C), <<<<>>>>, Gathering(C))
<1> DEFINE V == Gathered(C)
           T == Gathering(C)
           base == <<<<>>>>
           S == {w \in Seq(C \ {NL}) : FoldIs(Append(ls, w), t \o w, V, base, T)}
<1>1. T \in [C -> [V -> V]] /\ base \in V
      BY GatheringGathers
<1>2. \A c \in C, q \in V : T[c][q] = AddSymbol(q, c)
      BY GatheringGathers
<1>3. <<>> \in S
      <2>1. t \o <<>> = t /\ <<>> \in Seq(C \ {NL})
            OBVIOUS
      <2> QED
          BY <2>1
<1>4. ASSUME NEW w \in Seq(C \ {NL}), NEW c \in C \ {NL}, w \in S PROVE Append(w, c) \in S
      <2> DEFINE more == Append(w, c)
                 a == Append(ls, w)
                 tw == t \o w
      <2>1. more \in Seq(C \ {NL}) /\ w \in Seq(C)
            BY SeqMonotonic
      <2>2. t \o more = Append(tw, c) /\ tw \in Seq(C)
            BY <2>1
      <2>3. FoldIs(a, tw, V, base, T)
            BY <1>4
      <2>4. a \in V /\ AddSymbol(a, c) = Append(ls, more)
            BY <2>1, LastLine
      <2>5. more \in Seq(C \ {NL}) /\ FoldIs(Append(ls, more), t \o more, V, base, T) => more \in S
            OBVIOUS
      <2> HIDE DEF V, T, base, S, a, tw
      <2>6. T[c][a] = Append(ls, more)
            BY <1>2, <2>4
      <2>7. FoldIs(T[c][a], Append(tw, c), V, base, T)
            BY <1>1, <2>2, <2>3, FoldAppend
      <2>8. FoldIs(Append(ls, more), t \o more, V, base, T)
            BY <2>2, <2>6, <2>7
      <2> QED
          BY <2>1, <2>5, <2>8
<1> HIDE DEF S
<1>5. u \in S
      BY <1>3, <1>4, SeqBySet
<1> QED
    BY <1>5 DEF S, V, T, base

LEMMA LineEnds ==
  ASSUME NEW C, NL \in C, NEW t \in Seq(C), NEW ls \in Seq(Seq(C)), NEW u \in Seq(C \ {NL}),
         FoldIs(Append(ls, <<>>), t, Gathered(C), <<<<>>>>, Gathering(C))
  PROVE  /\ t \o (u \o <<NL>>) \in Seq(C) /\ Append(ls, u) \in Seq(Seq(C))
         /\ FoldIs(Append(Append(ls, u), <<>>), t \o (u \o <<NL>>), Gathered(C), <<<<>>>>, Gathering(C))
<1> DEFINE V == Gathered(C)
           T == Gathering(C)
           base == <<<<>>>>
           tu == t \o u
           a == Append(ls, u)
<1>1. T \in [C -> [V -> V]] /\ base \in V
      BY GatheringGathers
<1>2. u \in Seq(C)
      BY SeqMonotonic
<1>3. FoldIs(a, tu, V, base, T)
      BY LineGrows
<1>4. a \in V /\ AddSymbol(a, NL) = Append(a, <<>>) /\ T[NL][a] = AddSymbol(a, NL)
      BY <1>2, LastLine, GatheringGathers
<1>5. t \o (u \o <<NL>>) = Append(tu, NL) /\ tu \in Seq(C) /\ Append(tu, NL) \in Seq(C)
      BY <1>2
<1>6. a \in Seq(Seq(C))
      BY <1>4 DEF Gathered
<1> HIDE DEF V, T, base, tu, a
<1>7. FoldIs(T[NL][a], Append(tu, NL), V, base, T)
      BY <1>1, <1>3, <1>5, FoldAppend
<1>8. FoldIs(Append(a, <<>>), t \o (u \o <<NL>>), V, base, T)
      BY <1>4, <1>5, <1>7
<1> QED
    BY <1>5, <1>6, <1>8 DEF V, T, base, a

\* What is loaded from the lines.
Bound(C) == UNION {[D -> Seq(C)] : D \in SUBSET Seq(C)}
Loads(C) == [name : Seq(C), cwd : Seq(C), bindings : Bound(C)]
Loading(C) == [line \in Seq(C) |-> [i \in Loads(C) |-> ReadLine(i, line)]]

LEMMA UnescapedIs ==
  ASSUME NEW C, Signs \subseteq C, NEW v \in Seq(C)
  PROVE  UnescapeValue(v) \in Seq(C)
<1> DEFINE V == Readings(C)
           T == Reading(C)
<1>1. T \in [C -> [V -> V]] /\ Unread \in V
      BY ReadingReads
<1> HIDE DEF V, T
<1>2. PICK t \in V : FoldIs(t, v, V, Unread, T)
      BY <1>1, FoldExists
<1>3. UnescapeValue(v) = IF t.escaped THEN Append(t.out, "\\") ELSE t.out
      BY <1>2, UnescapeIsFold DEF V, T
<1>4. t.out \in Seq(C) /\ "\\" \in C
      BY DEF V, Readings, Signs
<1> QED
    BY <1>3, <1>4

LEMMA EntryIsALoad ==
  ASSUME NEW C, Signs \subseteq C, NEW i \in Loads(C), NEW key \in Seq(C), NEW value \in Seq(C)
  PROVE  ReadEntry(i, key, value) \in Loads(C)
<1>1. i.name \in Seq(C) /\ i.cwd \in Seq(C) /\ i.bindings \in Bound(C)
      BY DEF Loads
<1>2. i = [name |-> i.name, cwd |-> i.cwd, bindings |-> i.bindings]
      BY DEF Loads
<1>3. [i EXCEPT !.name = value] \in Loads(C) /\ [i EXCEPT !.cwd = value] \in Loads(C)
      BY DEF Loads
<1>4. [i EXCEPT !.bindings = Bind(@, UnescapeValue(key), value)] \in Loads(C)
      <2> DEFINE k == UnescapeValue(key)
                 V == Seq(C)
                 b == i.bindings
                 new == Bind(b, k, value)
      <2>1. k \in V /\ value \in V
            BY UnescapedIs
      <2>2. PICK D \in SUBSET V : b \in [D -> V]
            BY <1>1 DEF Bound
      <2> HIDE DEF k, V, b
      <2>3. new \in [D \cup {k} -> V]
            BY <2>1, <2>2 DEF Bind
      <2>4. new \in Bound(C)
            BY <2>1, <2>2, <2>3 DEF Bound, V
      <2> HIDE DEF new
      <2>5. [i EXCEPT !.bindings = new] \in Loads(C)
            BY <2>4 DEF Loads
      <2> QED
          BY <2>5 DEF new, b, k
<1> QED
    BY <1>3, <1>4 DEF ReadEntry

LEMMA LoadingLoads ==
  ASSUME NEW C, Signs \subseteq C
  PROVE  /\ Loading(C) \in [Seq(C) -> [Loads(C) -> Loads(C)]] /\ NoInfo \in Loads(C)
         /\ \A line \in Seq(C), i \in Loads(C) : Loading(C)[line][i] = ReadLine(i, line)
<1>1. ASSUME NEW line \in Seq(C), NEW i \in Loads(C) PROVE ReadLine(i, line) \in Loads(C)
      <2> DEFINE P == {n \in DOMAIN line : line[n] = "="}
                 m == Min(P)
      <2>0. P = Marks("=", line)
            BY DEF Marks
      <2>1. CASE P = {}
            BY <2>0, <2>1 DEF ReadLine
      <2>2. CASE P # {}
            <3>1. P \subseteq Nat
                  OBVIOUS
            <3>2. m \in DOMAIN line /\ Before("=", line) = SubSeq(line, 1, m - 1) /\ Behind("=", line) = SubSeq(line, m + 1, Len(line))
                  BY <2>0, <2>2, <3>1, FirstIs DEF Before, Behind
            <3> HIDE DEF m
            <3>3. Before("=", line) \in Seq(C) /\ Behind("=", line) \in Seq(C)
                  <4>1. Len(line) \in Nat /\ m \in 1 .. Len(line) /\ \A j \in 1 .. Len(line) : line[j] \in C
                        BY <3>2
                  <4>2. (\A j \in 1 .. m - 1 : line[j] \in C) /\ \A j \in m + 1 .. Len(line) : line[j] \in C
                        BY <4>1
                  <4>3. m - 1 \in Int /\ m + 1 \in Int /\ 1 \in Int /\ Len(line) \in Int
                        BY <4>1
                  <4>4. SubSeq(line, 1, m - 1) \in Seq(C) /\ SubSeq(line, m + 1, Len(line)) \in Seq(C)
                        BY <4>2, <4>3, SubSeqProperties, Zenon
                  <4> QED
                      BY <3>2, <4>4
            <3>4. UnescapeValue(Behind("=", line)) \in Seq(C)
                  BY <3>3, UnescapedIs
            <3>5. ReadEntry(i, Before("=", line), UnescapeValue(Behind("=", line))) \in Loads(C)
                  BY <3>3, <3>4, EntryIsALoad
            <3> QED
                BY <2>0, <2>2, <3>5 DEF ReadLine
      <2> QED
          BY <2>1, <2>2
<1>2. NoInfo \in Loads(C)
      <2>1. <<>> \in [{} -> Seq(C)] /\ <<>> \in Seq(C)
            OBVIOUS
      <2>2. <<>> \in Bound(C)
            BY <2>1 DEF Bound
      <2> QED
          BY <2>1, <2>2 DEF NoInfo, Loads
<1> DEFINE V == Seq(C)
           W == Loads(C)
<1>3. \A line \in V, i \in W : ReadLine(i, line) \in W
      BY <1>1
<1>4. Loading(C) = [line \in V |-> [i \in W |-> ReadLine(i, line)]]
      BY DEF Loading
<1> HIDE DEF V, W
<1>5. Loading(C) \in [V -> [W -> W]] /\ \A line \in V, i \in W : Loading(C)[line][i] = ReadLine(i, line)
      BY <1>3, <1>4
<1> QED
    BY <1>2, <1>5 DEF V, W

LEMMA ReadLinesIs ==
  ASSUME NEW C, Signs \subseteq C, NEW lines \in Seq(Seq(C)), NEW info0, FoldIs(info0, lines, Loads(C), NoInfo, Loading(C))
  PROVE  ReadLines(lines) = info0
<1> DEFINE n == Len(lines)
           D == Seq(C)
           V == Loads(C)
           FF == [i \in 1..n |-> Loading(C)[lines[i]]]
           Defines(f) == f = [i \in 0..n |-> IF i = 0 THEN NoInfo ELSE ReadLine(f[i - 1], lines[i])]
           r == CHOOSE f : Defines(f)
<1>1. n \in Nat /\ lines \in [1..n -> D] /\ lines \in Seq(D)
      OBVIOUS
<1>2. Loading(C) \in [D -> [V -> V]] /\ NoInfo \in V /\ \A c \in D, q \in V : Loading(C)[c][q] = ReadLine(q, c)
      BY LoadingLoads
<1>3. ReadLines(lines) = r[n]
      BY DEF ReadLines, n
<1> HIDE DEF n, V, D
<1>4. FF \in [1..n -> [V -> V]] /\ \A i \in 1..n, q \in V : FF[i][q] = ReadLine(q, lines[i])
      BY <1>1, <1>2
<1>5. PICK g : Recurs(g, n, V, NoInfo, FF) /\ info0 = g[n]
      BY DEF FoldIs, n, V
<1> HIDE DEF FF
<1>6. g \in [0..n -> V] /\ g[0] = NoInfo /\ \A i \in 1..n : g[i] = FF[i][g[i - 1]]
      BY <1>5 DEF Recurs
<1>7. \A i \in 1..n : g[i] = ReadLine(g[i - 1], lines[i])
      <2> TAKE i \in 1..n
      <2>1. i - 1 \in 0..n
            BY <1>1
      <2>2. g[i] = FF[i][g[i - 1]] /\ g[i - 1] \in V
            BY <1>6, <2>1
      <2> QED
          BY <1>4, <2>2
<1>8. Defines(g)
      <2>1. \A i \in 0..n : g[i] = IF i = 0 THEN NoInfo ELSE ReadLine(g[i - 1], lines[i])
            BY <1>1, <1>6, <1>7
      <2> QED
          BY <1>6, <2>1
<1>9. Defines(r)
      <2> HIDE DEF Defines
      <2> QED
          BY <1>8
<1> HIDE DEF r
<1>10. r = [i \in 0..n |-> r[i]] /\ r[0] = NoInfo /\ \A i \in 1..n : r[i] = ReadLine(r[i - 1], lines[i])
      <2>1. r = [i \in 0..n |-> IF i = 0 THEN NoInfo ELSE ReadLine(r[i - 1], lines[i])]
            BY <1>9
      <2> HIDE DEF Defines
      <2>2. r = [i \in 0..n |-> r[i]] /\ \A i \in 0..n : r[i] = IF i = 0 THEN NoInfo ELSE ReadLine(r[i - 1], lines[i])
            BY <2>1
      <2>3. 0 \in 0..n /\ \A i \in 1..n : i \in 0..n /\ i # 0
            BY <1>1
      <2> QED
          BY <2>2, <2>3
<1>11. \A i \in 1..n : r[i - 1] \in V => r[i] = FF[i][r[i - 1]]
      BY <1>4, <1>10
<1>12. Recurs(r, n, V, NoInfo, FF)
      BY <1>1, <1>2, <1>4, <1>10, <1>11, RecursionIs
<1>13. FoldIs(r[n], lines, V, NoInfo, Loading(C)) /\ FoldIs(info0, lines, V, NoInfo, Loading(C))
      BY <1>12 DEF FoldIs, FF, n, V
<1>14. r[n] = info0
      BY <1>1, <1>2, <1>13, FoldUnique
<1> QED
    BY <1>3, <1>14

\* A line that has a key without c, and a value.
LEMMA CutAt ==
  ASSUME NEW C, NEW c \in C, NEW key \in Seq(C \ {c}), NEW value \in Seq(C)
  PROVE  /\ Marks(c, key \o <<c>> \o value) # {}
         /\ Before(c, key \o <<c>> \o value) = key /\ Behind(c, key \o <<c>> \o value) = value
<1> DEFINE ke == key \o <<c>>
           line == ke \o value
           n == Len(key)
           P == {j \in DOMAIN line : line[j] = c}
<1>1. key \in Seq(C) /\ <<c>> \in Seq(C) /\ n \in Nat /\ \A j \in 1..n : key[j] # c
      <2>1. key \in Seq(C)
            BY SeqMonotonic
      <2>2. \A j \in 1..n : key[j] \in C \ {c}
            OBVIOUS
      <2> QED
          BY <2>1, <2>2
<1>2. ke \in Seq(C) /\ Len(ke) = n + 1 /\ (\A j \in 1..n : ke[j] = key[j]) /\ ke[n + 1] = c
      <2>1. ke = Append(key, c)
            BY <1>1
      <2> QED
          BY <1>1, <2>1
<1>3. /\ line \in Seq(C) /\ Len(line) = n + 1 + Len(value) /\ Len(value) \in Nat
      /\ \A j \in 1..n + 1 + Len(value) : line[j] = IF j <= n + 1 THEN ke[j] ELSE value[j - (n + 1)]
      <2>1. line \in Seq(C) /\ Len(line) = Len(ke) + Len(value)
            /\ \A j \in 1..Len(ke) + Len(value) : line[j] = IF j <= Len(ke) THEN ke[j] ELSE value[j - Len(ke)]
            BY <1>2, ConcatProperties
      <2> HIDE DEF line, ke
      <2> QED
          BY <1>2, <2>1
<1> HIDE DEF line, ke, n
<1>4. n + 1 \in P /\ P \subseteq Nat /\ \A j \in P : n + 1 <= j
      <2>1. DOMAIN line = 1..n + 1 + Len(value)
            BY <1>3
      <2>2. n + 1 \in P
            BY <1>1, <1>2, <1>3, <2>1
      <2>3. ASSUME NEW j \in 1..n + 1 + Len(value), line[j] = c PROVE n + 1 <= j
            <3>1. j \in 1..n => line[j] # c
                  BY <1>1, <1>2, <1>3
            <3> QED
                BY <1>1, <2>3, <3>1
      <2> QED
          BY <2>1, <2>2, <2>3
<1> HIDE DEF P
<1>5. Min(P) = n + 1
      <2> DEFINE m == Min(P)
      <2>1. m \in P /\ \A j \in P : m <= j
            BY <1>4, FirstIs
      <2> HIDE DEF m
      <2>2. m <= n + 1 /\ n + 1 <= m /\ m \in Nat
            BY <1>4, <2>1
      <2>3. m = n + 1
            BY <1>1, <2>2
      <2> QED
          BY <2>3 DEF m
<1>6. SubSeq(line, 1, n) = key
      <2> DEFINE s == SubSeq(line, 1, n)
      <2>1. s \in Seq(C) /\ Len(s) = n /\ \A j \in 1..n : s[j] = line[j]
            BY <1>1, <1>3
      <2> HIDE DEF s
      <2>2. \A j \in 1..n : line[j] = key[j]
            BY <1>1, <1>2, <1>3
      <2>3. s = key
            BY <1>1, <2>1, <2>2, SeqEqual DEF n
      <2> QED
          BY <2>3 DEF s
<1>7. SubSeq(line, n + 2, Len(line)) = value
      <2> DEFINE s == SubSeq(line, n + 2, Len(line))
                 m == Len(value)
      <2>1. m \in Nat /\ Len(line) = n + 1 + m
            BY <1>3
      <2>2. s \in Seq(C) /\ Len(s) = m /\ \A j \in 1..m : s[j] = line[n + 1 + j]
            <3>1. n + 2 \in 1..Len(line) + 1 /\ Len(line) \in n + 2 - 1..Len(line)
                  BY <1>1, <2>1
            <3>4. (\A j \in n + 2..Len(line) : line[j] \in C) /\ n + 2 \in Int /\ Len(line) \in Int
                  <4>1. \A j \in 1..Len(line) : line[j] \in C
                        BY <1>3
                  <4>2. \A j \in n + 2..Len(line) : j \in 1..Len(line)
                        BY <1>1, <2>1
                  <4> QED
                      BY <1>1, <2>1, <4>1, <4>2
            <3>5. s \in Seq(C) /\ Len(s) = (IF n + 2 <= Len(line) THEN Len(line) - (n + 2) + 1 ELSE 0)
                  /\ \A j \in 1..Len(line) - (n + 2) + 1 : s[j] = line[n + 2 + j - 1]
                  BY <3>4, SubSeqProperties
            <3> HIDE DEF s
            <3>2. s \in Seq(C) /\ Len(s) = Len(line) - (n + 2) + 1 /\ \A j \in 1..Len(line) - (n + 2) + 1 : s[j] = line[n + 2 + j - 1]
                  BY <1>1, <2>1, <3>5
            <3>3. Len(line) - (n + 2) + 1 = m /\ \A j \in 1..m : n + 2 + j - 1 = n + 1 + j
                  BY <1>1, <2>1
            <3> QED
                BY <3>2, <3>3
      <2> HIDE DEF s
      <2>3. \A j \in 1..m : line[n + 1 + j] = value[j]
            <3> TAKE j \in 1..m
            <3>1. PICK k \in 1..n + 1 + m : k = n + 1 + j
                  BY <1>1, <2>1
            <3>2. ~(k <= n + 1) /\ k - (n + 1) = j
                  BY <1>1, <2>1, <3>1
            <3>3. line[k] = value[k - (n + 1)]
                  BY <1>3, <3>2
            <3> QED
                BY <3>1, <3>2, <3>3
      <2>4. s = value
            BY <2>1, <2>2, <2>3, SeqEqual
      <2> QED
          BY <2>4 DEF s
<1>8. P # {} /\ n + 1 - 1 = n /\ n + 1 + 1 = n + 2
      BY <1>1, <1>4
<1>9. P = Marks(c, line)
      BY DEF P, Marks
<1>10. Before(c, line) = SubSeq(line, 1, n) /\ Behind(c, line) = SubSeq(line, n + 2, Len(line))
      <2> DEFINE m == Min(P)
      <2>1. Before(c, line) = SubSeq(line, 1, m - 1) /\ Behind(c, line) = SubSeq(line, m + 1, Len(line))
            BY <1>9 DEF Before, Behind
      <2>2. m - 1 = n /\ m + 1 = n + 2
            BY <1>1, <1>5
      <2> HIDE DEF m
      <2> QED
          BY <2>1, <2>2
<1> QED
    BY <1>6, <1>7, <1>8, <1>9, <1>10 DEF line, ke

LEMMA EntryIsRead ==
  ASSUME NEW C, Signs \subseteq C, NEW i, NEW key \in Seq(C \ {"="}), NEW value \in Seq(C)
  PROVE  ReadLine(i, key \o <<"=">> \o value) = ReadEntry(i, key, UnescapeValue(value))
<1>1. "=" \in C
      BY DEF Signs
<1> QED
    BY <1>1, CutAt DEF ReadLine

\* A text of whole lines gives i, once the last, empty line is passed over.
ReadsAs(C, t, i) ==
  /\ t \in Seq(C)
  /\ \E ls \in Seq(Seq(C)) :
       /\ FoldIs(Append(ls, <<>>), t, Gathered(C), <<<<>>>>, Gathering(C))
       /\ FoldIs(i, ls, Loads(C), NoInfo, Loading(C))

LEMMA NothingRead ==
  ASSUME NEW C, Signs \subseteq C
  PROVE  ReadsAs(C, <<>>, NoInfo)
<1> DEFINE none == <<>>
           V == Gathered(C)
           T == Gathering(C)
           base == <<<<>>>>
           L == Loads(C)
           R == Loading(C)
<1>1. base \in V /\ NoInfo \in L
      BY GatheringGathers, LoadingLoads
<1>2. none \in Seq(C) /\ none \in Seq(Seq(C)) /\ Append(none, <<>>) = base
      OBVIOUS
<1> HIDE DEF V, T, base, L, R
<1>3. FoldIs(base, <<>>, V, base, T) /\ FoldIs(NoInfo, <<>>, L, NoInfo, R)
      BY <1>1, FoldEmpty
<1>4. FoldIs(Append(none, <<>>), none, V, base, T) /\ FoldIs(NoInfo, none, L, NoInfo, R)
      BY <1>2, <1>3
<1> HIDE DEF none
<1>5. ReadsAs(C, none, NoInfo)
      BY <1>2, <1>4 DEF ReadsAs, V, T, base, L, R
<1> QED
    BY <1>5 DEF none

\* A key without = is written without = and line break.
LEMMA KeyWritten ==
  ASSUME NEW C, Signs \subseteq C, NEW key \in Seq(C \ {"="})
  PROVE  EscapeValue(key) \in Seq(C \ {"="}) /\ EscapeValue(key) \in Seq(C \ {NL})
<1> DEFINE e == EscapeValue(key)
           W == InOneLine(C \ {"="})
<1>1. e \in Seq(W)
      BY EscapedParts
<1>2. W \subseteq C \ {"="} /\ W \subseteq C \ {NL}
      BY DEF InOneLine, Signs, NL
<1> HIDE DEF e, W
<1>3. e \in Seq(C \ {"="}) /\ e \in Seq(C \ {NL})
      BY <1>1, <1>2, SeqMonotonic
<1> QED
    BY <1>3 DEF e

LEMMA EntryAdded ==
  ASSUME NEW C, Signs \subseteq C, NEW t, NEW i, ReadsAs(C, t, i),
         NEW key \in Seq(C \ {"="}), NEW value \in Seq(C)
  PROVE  /\ ReadsAs(C, t \o LineOf(key, value), ReadEntry(i, EscapeValue(key), value))
         /\ Len(t \o LineOf(key, value)) >= Len(t) + 2
<1> DEFINE k == EscapeValue(key)
           v == EscapeValue(value)
           u == k \o <<"=">> \o v
           L == Loads(C)
           R == Loading(C)
           V == Gathered(C)
           T == Gathering(C)
           base == <<<<>>>>
           new == ReadEntry(i, k, value)
<1>1. k \in Seq(C \ {"="}) /\ k \in Seq(C \ {NL})
      BY KeyWritten
<1>2. v \in Seq(C \ {NL}) /\ v \in Seq(C)
      <2>1. v \in Seq(InOneLine(C)) /\ InOneLine(C) \subseteq C \ {NL} /\ C \ {NL} \subseteq C
            BY EscapedParts DEF InOneLine, Signs, NL
      <2> HIDE DEF v
      <2> QED
          BY <2>1, SeqMonotonic
<1>3. UnescapeValue(v) = value
      BY EscapesUndone
<1>4. PICK ls \in Seq(Seq(C)) : FoldIs(Append(ls, <<>>), t, V, base, T) /\ FoldIs(i, ls, L, NoInfo, R)
      BY DEF ReadsAs
<1>5. t \in Seq(C) /\ NL \in C
      BY DEF ReadsAs, Signs
<1>6. LineOf(key, value) = u \o <<NL>>
      BY DEF LineOf
<1> HIDE DEF k, v
<1>7. u \in Seq(C \ {NL})
      <2>1. "=" \in C \ {NL}
            BY DEF Signs, NL
      <2> QED
          BY <1>1, <1>2, <2>1
<1>8. ReadLine(i, u) = new
      <2>1. ReadLine(i, k \o <<"=">> \o v) = ReadEntry(i, k, UnescapeValue(v))
            BY <1>1, <1>2, EntryIsRead
      <2> QED
          BY <1>3, <2>1
<1>9. /\ t \o (u \o <<NL>>) \in Seq(C) /\ Append(ls, u) \in Seq(Seq(C))
      /\ FoldIs(Append(Append(ls, u), <<>>), t \o (u \o <<NL>>), V, base, T)
      <2> HIDE DEF u
      <2>1. FoldIs(Append(ls, <<>>), t, Gathered(C), <<<<>>>>, Gathering(C))
            BY <1>4
      <2>2. /\ t \o (u \o <<NL>>) \in Seq(C) /\ Append(ls, u) \in Seq(Seq(C))
            /\ FoldIs(Append(Append(ls, u), <<>>), t \o (u \o <<NL>>), Gathered(C), <<<<>>>>, Gathering(C))
            BY <1>4, <1>5, <1>7, <2>1, LineEnds
      <2> QED
          BY <2>2
<1>10. u \in Seq(C) /\ Len(t \o (u \o <<NL>>)) >= Len(t) + 2
      <2>1. C \ {NL} \subseteq C
            OBVIOUS
      <2>2. u \in Seq(C)
            BY <1>7, <2>1, SeqMonotonic
      <2>3. Len(u) >= 1
            <3>1. Len(k) \in Nat /\ Len(v) \in Nat /\ Len(u) = Len(k) + 1 + Len(v)
                  BY <1>1, <1>2
            <3> QED
                BY <3>1
      <2> HIDE DEF u
      <2>4. Len(u \o <<NL>>) = Len(u) + 1 /\ u \o <<NL>> \in Seq(C)
            BY <1>5, <2>2
      <2>5. Len(t \o (u \o <<NL>>)) = Len(t) + Len(u \o <<NL>>)
            BY <1>5, <2>4
      <2>6. Len(t) \in Nat /\ Len(u) \in Nat
            BY <1>5, <2>2
      <2> QED
          BY <2>2, <2>3, <2>4, <2>5, <2>6
<1> HIDE DEF u, L, R, V, T, base
<1>11. FoldIs(new, Append(ls, u), L, NoInfo, R)
      <2>1. R \in [Seq(C) -> [L -> L]] /\ NoInfo \in L /\ \A line \in Seq(C), j \in L : R[line][j] = ReadLine(j, line)
            BY LoadingLoads DEF L, R
      <2> DEFINE D == Seq(C)
      <2> HIDE DEF D
      <2>2. ls \in Seq(D) /\ u \in D /\ R \in [D -> [L -> L]]
            BY <1>10, <2>1 DEF D
      <2>3. i \in L /\ FoldIs(R[u][i], Append(ls, u), L, NoInfo, R)
            BY <1>4, <2>1, <2>2, FoldAppend
      <2> QED
          BY <1>8, <1>10, <2>1, <2>3
<1>12. ReadsAs(C, t \o (u \o <<NL>>), new)
      BY <1>9, <1>11 DEF ReadsAs, L, R, V, T, base
<1> QED
    BY <1>6, <1>10, <1>12 DEF k

LEMMA WhatIsRead ==
  ASSUME NEW C, Signs \subseteq C, NEW t, NEW i, ReadsAs(C, t, i)
  PROVE  ReadLines(Lines(t)) = i
<1> DEFINE V == Seq(C)
           L == Loads(C)
           R == Loading(C)
           none == <<>>
<1>1. PICK ls \in Seq(V) : /\ FoldIs(Append(ls, none), t, Gathered(C), <<<<>>>>, Gathering(C))
                           /\ FoldIs(i, ls, L, NoInfo, R)
      BY DEF ReadsAs
<1>2. t \in Seq(C) /\ none \in V
      BY DEF ReadsAs
<1>3. Lines(t) = Append(ls, none)
      BY <1>1, <1>2, LinesIs
<1>4. R \in [V -> [L -> L]] /\ NoInfo \in L /\ \A line \in V, j \in L : R[line][j] = ReadLine(j, line)
      BY LoadingLoads
<1>5. ReadLine(i, none) = i
      BY DEF ReadLine, Marks
<1>6. Append(ls, none) \in Seq(V)
      BY <1>2
<1> HIDE DEF V, L, R, none
<1>7. i \in L /\ FoldIs(R[none][i], Append(ls, none), L, NoInfo, R)
      BY <1>1, <1>2, <1>4, FoldAppend
<1>8. FoldIs(i, Append(ls, none), L, NoInfo, R)
      BY <1>2, <1>4, <1>5, <1>7
<1>9. FoldIs(i, Append(ls, none), Loads(C), NoInfo, Loading(C)) /\ Append(ls, none) \in Seq(Seq(C))
      BY <1>6, <1>8 DEF V, L, R
<1>10. ReadLines(Append(ls, none)) = i
      BY <1>9, ReadLinesIs
<1> QED
    BY <1>3, <1>10

-----------------------------------------------------------------------------
(* The sessions: while no two saves under a name meet, its file is truncated *)
(* by the one shell that writes it, or holds what one save has captured.     *)
Tables == UNION {[D -> Values] : D \in SUBSET ToSet(Keys)}
Infos == [name : {<<n>> : n \in SessionNames}, cwd : {<<>>} \cup {<<d>> : d \in Dirs}, bindings : Tables]

\* The text of a session can be read back; a file without one gives nothing.
Legible ==
  /\ LoadSession(Missing) = NoInfo /\ LoadSession(<<>>) = NoInfo
  /\ \A i \in Infos : LoadSession(Text(i)) = i /\ Text(i) \in Seq(Range(Text(i)))

\* All that a session file may hold.
Symbols == Signs \cup {"name", "cwd", "alias:", "env:"} \cup Dirs \cup SessionNames
             \cup UNION {ToSet(v) : v \in ToSet(Keys) \cup Values}

LEMMA SymbolsDo ==
  /\ Signs \subseteq Symbols
  /\ \A v \in Values : v \in Seq(Symbols)
  /\ \A k \in ToSet(Keys) : k \in Seq(Symbols \ {"="}) /\ Len(k) > 1 /\ k # <<>> /\ k[1] \in {"alias:", "env:"}
  /\ Keys \in Seq(ToSet(Keys))
<1>1. \A v \in ToSet(Keys) \cup Values : v \in Seq(ToSet(v)) /\ ToSet(v) \subseteq Symbols
      BY WorkspaceAssumption DEF WorkspaceAssumption, Symbols
<1>2. \A v \in Values : v \in Seq(Symbols)
      BY <1>1, SeqMonotonic
<1>3. ASSUME NEW k \in ToSet(Keys) PROVE k \in Seq(Symbols \ {"="}) /\ Len(k) > 1 /\ k # <<>> /\ k[1] \in {"alias:", "env:"}
      <2>1. Len(k) > 1 /\ k[1] \in {"alias:", "env:"} /\ "=" \notin ToSet(k)
            BY WorkspaceAssumption DEF WorkspaceAssumption
      <2>2. ToSet(k) \subseteq Symbols \ {"="} /\ k \in Seq(ToSet(k))
            BY <1>1, <2>1
      <2>3. k \in Seq(Symbols \ {"="})
            BY <2>2, SeqMonotonic
      <2> QED
          BY <2>1, <2>3
<1> QED
    BY <1>2, <1>3, WorkspaceAssumption DEF WorkspaceAssumption, Symbols

\* One more key of the table.
LEMMA BindingAdded ==
  ASSUME NEW t, NEW i, ReadsAs(Symbols, t, i), NEW k \in ToSet(Keys), NEW v \in Values
  PROVE  /\ ReadsAs(Symbols, t \o LineOf(k, v), [i EXCEPT !.bindings = Bind(@, k, v)])
         /\ Len(t \o LineOf(k, v)) >= Len(t) + 2
<1> DEFINE e == EscapeValue(k)
<1>1. /\ Signs \subseteq Symbols /\ k \in Seq(Symbols \ {"="}) /\ k \in Seq(Symbols) /\ v \in Seq(Symbols)
      /\ Len(k) > 1 /\ k # <<>> /\ k[1] \in {"alias:", "env:"}
      <2>1. Symbols \ {"="} \subseteq Symbols
            OBVIOUS
      <2> QED
          BY <2>1, SymbolsDo, SeqMonotonic
<1>2. /\ ReadsAs(Symbols, t \o LineOf(k, v), ReadEntry(i, EscapeValue(k), v))
      /\ Len(t \o LineOf(k, v)) >= Len(t) + 2
      BY <1>1, EntryAdded
<1>3. Len(e) >= Len(k) /\ e[1] = k[1]
      <2>1. k[1] \notin {"\\", NL, CR}
            BY <1>1 DEF NL, CR
      <2> QED
          BY <1>1, <2>1, EscapedStart
<1>4. UnescapeValue(e) = k
      BY <1>1, EscapesUndone
<1>5. Len(e) > 1 /\ e[1] \in {"alias:", "env:"} /\ e # <<"name">> /\ e # <<"cwd">>
      <2>1. e \in Seq(Symbols \ {"="}) /\ Len(k) \in Nat
            <3>1. Len(k) \in Nat
                  BY <1>1
            <3> QED
                BY <1>1, <3>1, KeyWritten
      <2> HIDE DEF e
      <2>2. Len(e) \in Nat
            BY <2>1
      <2>3. Len(e) > 1
            BY <1>1, <1>3, <2>1, <2>2
      <2> QED
          BY <1>1, <1>3, <2>3
<1> HIDE DEF e
<1>6. ReadEntry(i, e, v) = [i EXCEPT !.bindings = Bind(@, k, v)]
      BY <1>4, <1>5 DEF ReadEntry
<1> QED
    BY <1>2, <1>6 DEF e

\* The two lines in front.
LEMMA HeadRead ==
  ASSUME NEW name \in SessionNames, NEW d \in {<<>>} \cup {<<x>> : x \in Dirs}
  PROVE  /\ ReadsAs(Symbols, LineOf(<<"name">>, <<name>>) \o LineOf(<<"cwd">>, d),
                    [name |-> <<name>>, cwd |-> d, bindings |-> <<>>])
         /\ Len(LineOf(<<"name">>, <<name>>) \o LineOf(<<"cwd">>, d)) >= 2
<1> DEFINE one == LineOf(<<"name">>, <<name>>)
           first == [name |-> <<name>>, cwd |-> <<>>, bindings |-> <<>>]
           C == Symbols
           kn == <<"name">>
           kc == <<"cwd">>
<1>1. /\ Signs \subseteq C /\ <<name>> \in Seq(C) /\ d \in Seq(C)
      /\ kn \in Seq(C \ {"="}) /\ kc \in Seq(C \ {"="})
      <2>1. name \in C /\ "name" \in C \ {"="} /\ "cwd" \in C \ {"="} /\ \A x \in Dirs : x \in C
            BY DEF Symbols
      <2>2. Signs \subseteq C
            BY SymbolsDo
      <2> HIDE DEF C
      <2>3. <<name>> \in Seq(C) /\ kn \in Seq(C \ {"="}) /\ kc \in Seq(C \ {"="})
            BY <2>1
      <2>4. d \in Seq(C)
            <3>1. CASE d = <<>>
                  BY <3>1
            <3>2. CASE \E x \in Dirs : d = <<x>>
                  BY <2>1, <3>2
            <3> QED
                BY <3>1, <3>2
      <2> QED
          BY <2>2, <2>3, <2>4
<1>2. EscapeValue(kn) = kn /\ EscapeValue(kc) = kc
      <2>1. ASSUME NEW c \in {"name", "cwd"} PROVE EscapeValue(<<c>>) = <<c>>
            <3> DEFINE none == <<>>
            <3>1. c \in C /\ none \in Seq(C) /\ Append(none, c) = <<c>>
                  BY DEF Symbols
            <3>2. Escaped(c) = <<c>>
                  <4>1. c # "\\" /\ c # NL /\ c # CR
                        BY DEF NL, CR
                  <4>2. Escaped(c) = IF c = "\\" THEN <<"\\", "\\">> ELSE IF c = NL THEN <<"\\", "n">>
                                       ELSE IF c = CR THEN <<"\\", "r">> ELSE <<c>>
                        BY <3>1, EscapedIs
                  <4> QED
                      BY <4>1, <4>2
            <3>3. none \o <<c>> = <<c>>
                  OBVIOUS
            <3>4. EscapeValue(<<>>) = <<>>
                  BY <3>1, EscapeMore
            <3>5. EscapeValue(none) = none
                  BY <3>4
            <3> HIDE DEF none, C
            <3>6. EscapeValue(Append(none, c)) = EscapeValue(none) \o Escaped(c)
                  BY <3>1, EscapeMore
            <3> QED
                BY <3>1, <3>2, <3>3, <3>5, <3>6
      <2> QED
          BY <2>1
<1>3. ReadEntry(NoInfo, kn, <<name>>) = first /\ ReadEntry(first, kc, d) = [name |-> <<name>>, cwd |-> d, bindings |-> <<>>]
      BY DEF ReadEntry, NoInfo
<1>4. ReadsAs(C, <<>>, NoInfo)
      BY <1>1, NothingRead
<1> HIDE DEF first, kn, kc
<1>5. ReadsAs(C, <<>> \o LineOf(kn, <<name>>), ReadEntry(NoInfo, EscapeValue(kn), <<name>>))
      BY <1>1, <1>4, EntryAdded
<1>6. LineOf(kn, <<name>>) \in Seq(C) /\ <<>> \o LineOf(kn, <<name>>) = LineOf(kn, <<name>>)
      <2>1. EscapeValue(kn) \in Seq(C) /\ EscapeValue(<<name>>) \in Seq(C) /\ NL \in C /\ "=" \in C
            <3>1. EscapeValue(<<name>>) \in Seq(InOneLine(C)) /\ InOneLine(C) \subseteq C /\ C \ {"="} \subseteq C
                  BY <1>1, EscapedParts DEF InOneLine, Signs
            <3> QED
                BY <1>1, <1>2, <3>1, SeqMonotonic DEF Signs
      <2>2. LineOf(kn, <<name>>) \in Seq(C)
            BY <2>1 DEF LineOf
      <2> HIDE DEF C
      <2> QED
          BY <2>2
<1>7. ReadsAs(C, LineOf(kn, <<name>>), first)
      BY <1>2, <1>3, <1>5, <1>6
<1>8. /\ ReadsAs(C, LineOf(kn, <<name>>) \o LineOf(kc, d), ReadEntry(first, EscapeValue(kc), d))
      /\ Len(LineOf(kn, <<name>>) \o LineOf(kc, d)) >= Len(LineOf(kn, <<name>>)) + 2
      BY <1>1, <1>7, EntryAdded
<1>9. Len(LineOf(kn, <<name>>)) \in Nat
      BY <1>6
<1> QED
    BY <1>2, <1>3, <1>8, <1>9 DEF kn, kc

LEMMA LineIs ==
  ASSUME NEW k \in Seq(Symbols), NEW v \in Seq(Symbols)
  PROVE  LineOf(k, v) \in Seq(Symbols)
<1> DEFINE C == Symbols
           e == EscapeValue(k)
           w == EscapeValue(v)
<1>1. InOneLine(C) \subseteq C /\ "=" \in C /\ NL \in C
      BY SymbolsDo DEF InOneLine, Signs
<1>2. e \in Seq(C) /\ w \in Seq(C)
      <2>1. e \in Seq(InOneLine(C)) /\ w \in Seq(InOneLine(C))
            BY EscapedParts
      <2> HIDE DEF C, e, w
      <2> QED
          BY <1>1, <2>1, SeqMonotonic
<1>3. LineOf(k, v) = e \o <<"=">> \o w \o <<NL>>
      BY DEF LineOf
<1> HIDE DEF C, e, w
<1>4. e \o <<"=">> \o w \o <<NL>> \in Seq(C)
      BY <1>1, <1>2
<1> QED
    BY <1>3, <1>4 DEF C

\* Key by key, the text gives what the keys so far are bound to.
LEMMA TextIsRead ==
  ASSUME NEW i \in Infos
  PROVE  ReadsAs(Symbols, Text(i), i) /\ Len(Text(i)) >= 2
<1> DEFINE b == i.bindings
           last == Len(Keys)
           front == LineOf(<<"name">>, i.name) \o LineOf(<<"cwd">>, i.cwd)
           parts(n) == [m \in 1..n |-> BindingLine(b, Keys[m])]
           kept(n) == {k \in DOMAIN b : \E m \in 1..n : Keys[m] = k}
           table(n) == [k \in kept(n) |-> b[k]]
           text(n) == front \o FlattenSeq(parts(n))
           got(n) == [name |-> i.name, cwd |-> i.cwd, bindings |-> table(n)]
           Good(n) == ReadsAs(Symbols, text(n), got(n)) /\ Len(text(n)) >= 2
           N == {n \in Nat : n <= last => Good(n)}
<1>1. PICK D \in SUBSET ToSet(Keys) : b \in [D -> Values]
      BY DEF Infos, Tables
<1>2. /\ last \in Nat /\ DOMAIN Keys = 1..last /\ \A m \in 1..last : Keys[m] \in ToSet(Keys)
      /\ \A k \in ToSet(Keys) : \E m \in 1..last : Keys[m] = k
      <2>1. Keys \in Seq(ToSet(Keys))
            BY SymbolsDo
      <2> QED
          BY <2>1 DEF ToSet
<1>3. \A k \in D : k \in ToSet(Keys) /\ b[k] \in Values /\ k \in Seq(Symbols) /\ b[k] \in Seq(Symbols)
      <2>1. Symbols \ {"="} \subseteq Symbols
            OBVIOUS
      <2>2. \A k \in ToSet(Keys) : k \in Seq(Symbols)
            BY <2>1, SymbolsDo, SeqMonotonic
      <2> QED
          BY <1>1, <2>2, SymbolsDo
<1>4. \A m \in 1..last : BindingLine(b, Keys[m]) \in Seq(Symbols)
      BY <1>1, <1>3, LineIs DEF BindingLine
<1>5. i = [name |-> i.name, cwd |-> i.cwd, bindings |-> b]
      BY DEF Infos
<1>12. ReadsAs(Symbols, front, [name |-> i.name, cwd |-> i.cwd, bindings |-> <<>>]) /\ Len(front) >= 2
      <2>1. (\E name \in SessionNames : i.name = <<name>>) /\ i.cwd \in {<<>>} \cup {<<x>> : x \in Dirs}
            BY DEF Infos
      <2> QED
          BY <2>1, HeadRead
<1>11. front \in Seq(Symbols)
      BY <1>12 DEF ReadsAs
<1>6. 0 \in N
      <2>2. parts(0) = <<>> /\ table(0) = <<>>
            OBVIOUS
      <2>3. FlattenSeq(<<>>) = <<>>
            BY DEF FlattenSeq
      <2> HIDE DEF front
      <2>5. front \o <<>> = front
            BY <1>11
      <2> QED
          BY <1>12, <2>2, <2>3, <2>5
<1>7. ASSUME NEW n \in Nat, n \in N PROVE n + 1 \in N
      <2> SUFFICES ASSUME n + 1 <= last PROVE Good(n + 1)
          OBVIOUS
      <2> DEFINE k == Keys[n + 1]
                 line == BindingLine(b, k)
                 ss == parts(n)
                 old == text(n)
      <2>1. Good(n) /\ n + 1 \in 1..last
            BY <1>2, <1>7
      <2>2. k \in ToSet(Keys) /\ line \in Seq(Symbols)
            BY <1>2, <1>4, <2>1
      <2>3. ss \in Seq(Seq(Symbols))
            <3>1. \A m \in 1..n : BindingLine(b, Keys[m]) \in Seq(Symbols)
                  BY <1>2, <1>4, <2>1
            <3> QED
                BY <3>1
      <2>4. parts(n + 1) = Append(ss, line)
            <3> DEFINE V == Seq(Symbols)
                       pp == parts(n + 1)
                       qq == Append(ss, line)
            <3>1. line \in V /\ ss \in Seq(V) /\ Len(ss) = n
                  BY <2>2, <2>3
            <3>2. Len(pp) = n + 1 /\ (\A m \in 1..n : pp[m] = ss[m]) /\ pp[n + 1] = line
                  OBVIOUS
            <3>3. pp \in Seq(V)
                  <4>1. \A m \in 1..n + 1 : BindingLine(b, Keys[m]) \in V
                        BY <1>2, <1>4, <2>1
                  <4> HIDE DEF V
                  <4> QED
                      BY <4>1
            <3> HIDE DEF V, ss, line, pp
            <3>4. qq \in Seq(V) /\ Len(qq) = n + 1 /\ (\A m \in 1..n : qq[m] = ss[m]) /\ qq[n + 1] = line
                  BY <3>1
            <3> HIDE DEF qq
            <3>5. \A m \in 1..n + 1 : pp[m] = qq[m]
                  <4> TAKE m \in 1..n + 1
                  <4>1. m \in 1..n \/ m = n + 1
                        OBVIOUS
                  <4> QED
                      BY <3>2, <3>4, <4>1
            <3>6. pp = qq
                  BY <3>2, <3>3, <3>4, <3>5, SameSeq
            <3> QED
                BY <3>6 DEF pp, qq
      <2>5. FlattenSeq(parts(n + 1)) = FlattenSeq(ss) \o line
            <3> HIDE DEF ss, line, parts
            <3> QED
                BY <2>2, <2>3, <2>4, FlattenMore
      <2>6. front \in Seq(Symbols) /\ FlattenSeq(ss) \in Seq(Symbols)
            <3>1. FlattenSeq(ss) \in Seq(Symbols)
                  <4> HIDE DEF ss
                  <4> QED
                      BY <2>3, Flattened
            <3> QED
                BY <1>11, <3>1
      <2>7. text(n + 1) = old \o line
            <3> DEFINE fl == FlattenSeq(ss)
            <3>1. text(n + 1) = front \o (fl \o line) /\ old = front \o fl
                  BY <2>5
            <3>2. front \in Seq(Symbols) /\ fl \in Seq(Symbols) /\ line \in Seq(Symbols)
                  BY <2>2, <2>6
            <3> HIDE DEF text, old, front, fl, line
            <3>3. (front \o fl) \o line = front \o (fl \o line)
                  BY <3>2, ConcatAssociative, SMTT(30)
            <3> QED
                BY <3>1, <3>3
      <2>8. CASE k \in D
            <3>1. line = LineOf(k, b[k]) /\ b[k] \in Values
                  BY <1>1, <1>3, <2>8 DEF BindingLine
            <3>2. [got(n) EXCEPT !.bindings = Bind(@, k, b[k])] = got(n + 1)
                  <4>1. kept(n + 1) = kept(n) \cup {k}
                        BY <1>1, <2>8
                  <4>2. Bind(table(n), k, b[k]) = table(n + 1)
                        BY <4>1 DEF Bind
                  <4> HIDE DEF table
                  <4> QED
                      BY <4>2
            <3> HIDE DEF got, text, old, line
            <3>3. ReadsAs(Symbols, old, got(n)) /\ Len(old) >= 2
                  BY <2>1 DEF old
            <3>4. /\ ReadsAs(Symbols, old \o LineOf(k, b[k]), [got(n) EXCEPT !.bindings = Bind(@, k, b[k])])
                  /\ Len(old \o LineOf(k, b[k])) >= Len(old) + 2
                  <4> HIDE DEF k
                  <4> QED
                      BY <2>2, <3>1, <3>3, BindingAdded
            <3>5. ReadsAs(Symbols, text(n + 1), got(n + 1)) /\ Len(text(n + 1)) >= Len(old) + 2
                  BY <2>7, <3>1, <3>2, <3>4
            <3>6. Len(old) \in Nat /\ Len(text(n + 1)) \in Nat
                  <4>1. old \in Seq(Symbols) /\ text(n + 1) \in Seq(Symbols)
                        BY <3>3, <3>5 DEF ReadsAs
                  <4> QED
                      BY <4>1
            <3>7. Len(text(n + 1)) >= 2
                  BY <3>3, <3>5, <3>6
            <3> QED
                BY <3>5, <3>7
      <2>9. CASE k \notin D
            <3>1. line = <<>>
                  BY <1>1, <2>9 DEF BindingLine
            <3>2. kept(n + 1) = kept(n)
                  BY <1>1, <2>9
            <3>3. got(n + 1) = got(n)
                  BY <3>2
            <3>4. old \in Seq(Symbols)
                  BY <2>1 DEF ReadsAs
            <3> HIDE DEF got, text, old, line
            <3>5. text(n + 1) = old
                  BY <2>7, <3>1, <3>4
            <3> QED
                BY <2>1, <3>3, <3>5 DEF old
      <2> QED
          BY <2>8, <2>9
<1>8. last \in N
      <2> HIDE DEF N
      <2> QED
          BY <1>2, <1>6, <1>7, NatBySet
<1>9. text(last) = Text(i)
      <2>1. [m \in DOMAIN Keys |-> BindingLine(b, Keys[m])] = parts(last)
            BY <1>2
      <2> QED
          BY <2>1 DEF Text
<1>10. got(last) = i
      <2>1. kept(last) = DOMAIN b
            BY <1>1, <1>2
      <2>2. table(last) = b
            BY <1>1, <2>1
      <2> HIDE DEF table
      <2> QED
          BY <1>5, <2>2
<1> QED
    <2> HIDE DEF text, got
    <2> QED
        BY <1>2, <1>8, <1>9, <1>10

LEMMA TextsAreLegible == Legible
<1>1. LoadSession(Missing) = NoInfo /\ LoadSession(<<>>) = NoInfo
      <2>1. ReadLines(Lines(<<>>)) = NoInfo
            BY SymbolsDo, NothingRead, WhatIsRead
      <2> QED
          BY <2>1 DEF LoadSession
<1>2. ASSUME NEW i \in Infos PROVE LoadSession(Text(i)) = i /\ Text(i) \in Seq(Range(Text(i)))
      <2> DEFINE t == Text(i)
      <2>1. ReadsAs(Symbols, t, i) /\ Len(t) >= 2
            BY TextIsRead
      <2>2. t \in Seq(Symbols)
            BY <2>1 DEF ReadsAs
      <2>3. ReadLines(Lines(t)) = i
            BY <2>1, SymbolsDo, WhatIsRead
      <2> HIDE DEF t
      <2>4. t # Missing
            <3>1. Len(Missing) = 1
                  BY DEF Missing
            <3>2. Len(t) # 1
                  <4>1. PICK l \in Nat : l = Len(t)
                        BY <2>2
                  <4>2. l >= 2
                        BY <2>1, <4>1
                  <4> QED
                      BY <4>1, <4>2
            <3> QED
                BY <3>1, <3>2
      <2>5. t \in Seq(Range(t))
            BY <2>2 DEF Range
      <2> QED
          BY <2>3, <2>4, <2>5 DEF LoadSession, t
<1> QED
    BY <1>1, <1>2 DEF Legible

Spots == Dirs \cup {""}
SaveTypes ==
  /\ dirs \subseteq Dirs /\ cwd \in [Terminals -> Spots]
  /\ stage = [s \in Terminals |-> stage[s]] /\ pending = [s \in Terminals |-> pending[s]]
  /\ info = [s \in Terminals |-> info[s]] /\ bindings = [s \in Terminals |-> bindings[s]]
  /\ sessions = [n \in SessionNames |-> sessions[n]] /\ captured = [n \in SessionNames |-> captured[n]]
  /\ \A s \in Terminals : stage[s] = "load" => pending[s].file \in SessionNames

WritesTo(s, n) == stage[s] = "write" /\ pending[s].file = n
TextsOf(n) == {Text(i) : i \in captured[n]}
Saving == {"open", "write", "detached"}

BindingsOK == bindings \in [Terminals -> Tables]
CapturesOK == \A n \in SessionNames : \A i \in captured[n] : i \in Infos /\ i.name = <<n>>
SessionsOK    == \A n \in SessionNames : sessions[n] \in {Missing, <<>>} \cup TextsOf(n)
WritersOK  == \A n \in SessionNames, s \in Terminals :
                WritesTo(s, n) => sessions[n] = <<>> /\ \A t \in Terminals : WritesTo(t, n) => s = t
PendingOK  == \A n \in SessionNames, s \in Terminals :
                stage[s] \in Saving /\ pending[s].file = n => pending[s].text \in TextsOf(n)
InfoOK     == \A s \in Terminals : info[s] = NoInfo \/ \E n \in SessionNames : info[s] \in captured[n]
Apart == BindingsOK /\ CapturesOK /\ SessionsOK /\ WritersOK /\ PendingOK /\ InfoOK
SaveInv == SaveTypes /\ (clashed \subseteq {"z"} => Apart)

LEMMA InitSaveInv == ASSUME WorkspaceInit PROVE SaveInv
<1>1. SaveTypes
      BY WorkspaceAssumption DEF WorkspaceInit, SaveTypes, Spots
<1>2. BindingsOK
      <2>1. <<>> \in [{} -> Values]
            OBVIOUS
      <2>2. <<>> \in Tables
            BY <2>1 DEF Tables
      <2> QED
          BY <2>2 DEF WorkspaceInit, BindingsOK
<1>3. CapturesOK /\ SessionsOK /\ WritersOK /\ PendingOK /\ InfoOK
      BY DEF WorkspaceInit, CapturesOK, SessionsOK, WritersOK, PendingOK, InfoOK, WritesTo, Saving
<1> QED
    BY <1>1, <1>2, <1>3 DEF SaveInv, Apart

LEMMA MoreKeys ==
  ASSUME NEW b \in Tables, NEW c \in Tables
  PROVE  [x \in DOMAIN b \cup DOMAIN c |-> IF x \in DOMAIN c THEN c[x] ELSE b[x]] \in Tables
<1>1. PICK D \in SUBSET ToSet(Keys) : b \in [D -> Values]
      BY DEF Tables
<1>2. PICK E \in SUBSET ToSet(Keys) : c \in [E -> Values]
      BY DEF Tables
<1>3. [x \in D \cup E |-> IF x \in E THEN c[x] ELSE b[x]] \in [D \cup E -> Values] /\ D \cup E \in SUBSET ToSet(Keys)
      BY <1>1, <1>2
<1> QED
    BY <1>1, <1>2, <1>3 DEF Tables

LEMMA SetKeeps ==
  ASSUME SaveTypes, BindingsOK, NEW s \in Terminals, NEW k \in ToSet(Keys), NEW v \in Values, Set(s, k, v)
  PROVE  BindingsOK'
<1> DEFINE b == bindings[s]
           c == [x \in DOMAIN b \cup {k} |-> IF x = k THEN v ELSE b[x]]
<1>1. bindings' = [bindings EXCEPT ![s] = c]
      BY DEF Set, Bind
<1>2. PICK D \in SUBSET ToSet(Keys) : b \in [D -> Values]
      BY DEF Tables, BindingsOK
<1>3. c \in [D \cup {k} -> Values] /\ D \cup {k} \in SUBSET ToSet(Keys)
      BY <1>2
<1>4. c \in Tables
      BY <1>3 DEF Tables
<1> HIDE DEF c
<1> QED
    BY <1>1, <1>4 DEF BindingsOK

LEMMA UnsetKeeps ==
  ASSUME SaveTypes, BindingsOK, NEW s \in Terminals, NEW k \in ToSet(Keys), Unset(s, k)
  PROVE  BindingsOK'
<1> DEFINE b == bindings[s]
           c == [x \in DOMAIN b \ {k} |-> b[x]]
<1>1. bindings' = [bindings EXCEPT ![s] = c]
      BY DEF Unset, Restrict
<1>2. PICK D \in SUBSET ToSet(Keys) : b \in [D -> Values]
      BY DEF Tables, BindingsOK
<1>3. c \in [D \ {k} -> Values] /\ D \ {k} \in SUBSET ToSet(Keys)
      BY <1>2
<1>4. c \in Tables
      BY <1>3 DEF Tables
<1> HIDE DEF c
<1> QED
    BY <1>1, <1>4 DEF BindingsOK

\* A step that leaves the session files alone and starts no save.
LEMMA FilesAside ==
  ASSUME Apart, BindingsOK', UNCHANGED <<sessions, captured>>,
         \A t \in Terminals : stage'[t] \in Saving =>
           (stage'[t] = stage[t] /\ pending'[t] = pending[t]) \/ pending'[t].file \notin SessionNames,
         \A t \in Terminals : info'[t] \in {info[t], NoInfo}
  PROVE  Apart'
<1>1. CapturesOK' /\ SessionsOK'
      BY DEF Apart, CapturesOK, SessionsOK, TextsOf
<1>2. \A n \in SessionNames, t \in Terminals : WritesTo(t, n)' => WritesTo(t, n)
      BY DEF WritesTo, Saving
<1>3. WritersOK'
      BY <1>2 DEF Apart, WritersOK
<1>4. PendingOK'
      BY DEF Apart, PendingOK, TextsOf
<1>5. InfoOK'
      BY DEF Apart, InfoOK
<1> QED
    BY <1>1, <1>3, <1>4, <1>5 DEF Apart

LEMMA GoAside ==
  ASSUME SaveInv, NEW s \in Terminals, NEW d, NEW path, GoTo(s, d, path)
  PROVE  SaveInv'
<1>1. /\ d \in dirs /\ cwd' = [cwd EXCEPT ![s] = d] /\ stage' = [stage EXCEPT ![s] = "open"]
      /\ UNCHANGED <<dirs, sessions, bindings, info, captured, clashed>>
      BY DEF GoTo, Moved, Record, shared
<1>2. PICK q : pending' = [pending EXCEPT ![s] = [file |-> "z", text |-> q]]
      BY DEF GoTo, Record
<1>3. pending'[s].file = "z" /\ \A t \in Terminals : t # s => pending'[t] = pending[t] /\ stage'[t] = stage[t]
      BY <1>1, <1>2 DEF SaveInv, SaveTypes
<1>4. stage'[s] = "open"
      BY <1>1 DEF SaveInv, SaveTypes
<1>5. SaveTypes'
      <2>1. /\ stage' = [t \in Terminals |-> stage'[t]] /\ pending' = [t \in Terminals |-> pending'[t]]
            /\ dirs' \subseteq Dirs /\ cwd' \in [Terminals -> Spots]
            BY <1>1, <1>2 DEF SaveInv, SaveTypes, Spots
      <2>2. \A t \in Terminals : stage'[t] = "load" => pending'[t].file \in SessionNames
            BY <1>3, <1>4 DEF SaveInv, SaveTypes
      <2> QED
          BY <1>1, <2>1, <2>2 DEF SaveInv, SaveTypes
<1>6. ASSUME clashed \subseteq {"z"} PROVE Apart'
      BY <1>1, <1>3, <1>6, WorkspaceAssumption, FilesAside DEF SaveInv, Apart, BindingsOK
<1> QED
    BY <1>1, <1>5, <1>6 DEF SaveInv

LEMMA MoveAside ==
  ASSUME SaveInv, NEW s \in Terminals,
         \/ (\E d \in Dirs : Pushd(s, d)) \/ Popd(s)
         \/ \E k \in ToSet(Keys) : Unset(s, k) \/ \E v \in Values : Set(s, k, v)
  PROVE  SaveInv'
<1>1. UNCHANGED <<dirs, sessions, stage, pending, info, captured, clashed>>
      BY DEF Pushd, Popd, Unset, Set, shared, ghosts
<1>2. cwd' = cwd \/ \E d \in dirs : cwd' = [cwd EXCEPT ![s] = d]
      BY DEF Pushd, Popd, Unset, Set, Moved, place
<1>3. bindings' = [t \in Terminals |-> bindings'[t]]
      BY DEF Pushd, Popd, Unset, Set, SaveInv, SaveTypes
<1>4. cwd' \in [Terminals -> Spots]
      BY <1>2 DEF SaveInv, SaveTypes, Spots
<1>5. SaveTypes'
      BY <1>1, <1>3, <1>4 DEF SaveInv, SaveTypes
<1>6. ASSUME clashed \subseteq {"z"} PROVE Apart'
      <2>1. SaveTypes /\ Apart /\ BindingsOK
            BY <1>6 DEF SaveInv, Apart
      <2>2. BindingsOK'
            <3>1. CASE bindings' = bindings
                  BY <2>1, <3>1 DEF BindingsOK
            <3>2. CASE \E k \in ToSet(Keys) : Unset(s, k) \/ \E v \in Values : Set(s, k, v)
                  BY <2>1, <3>2, SetKeeps, UnsetKeeps
            <3> QED
                BY <3>1, <3>2 DEF Pushd, Popd
      <2> QED
          BY <1>1, <2>1, <2>2, FilesAside
<1> QED
    BY <1>1, <1>5, <1>6 DEF SaveInv

\* What a shell sees of itself is something that a save may capture.
LEMMA CurrentIsOne ==
  ASSUME SaveTypes, BindingsOK, NEW s \in Terminals, NEW n \in SessionNames
  PROVE  Current(s, n) \in Infos /\ Current(s, n).name = <<n>>
<1>1. bindings[s] \in Tables /\ cwd[s] \in Spots
      BY DEF BindingsOK, SaveTypes
<1>2. (IF cwd[s] = "" THEN <<>> ELSE <<cwd[s]>>) \in {<<>>} \cup {<<d>> : d \in Dirs}
      BY <1>1 DEF Spots
<1> QED
    BY <1>1, <1>2 DEF Current, Infos

LEMMA SaveApart ==
  ASSUME SaveInv, NEW s \in Terminals, NEW n \in SessionNames, Save(s, n)
  PROVE  SaveInv'
<1> DEFINE i == Current(s, n)
<1>1. /\ stage[s] = "prompt" /\ stage' = [stage EXCEPT ![s] = "open"]
      /\ pending' = [pending EXCEPT ![s] = [file |-> n, text |-> Text(i)]]
      /\ captured' = [captured EXCEPT ![n] = @ \cup {i}]
      /\ UNCHANGED <<dirs, sessions, cwd, bindings, info, clashed>>
      BY DEF Save, Ready, shared, place
<1>2. SaveTypes => Current(s, n) = i
      OBVIOUS
<1>3. ASSUME clashed \subseteq {"z"} PROVE i \in Infos /\ i.name = <<n>>
      BY <1>3, CurrentIsOne DEF SaveInv, Apart
<1> HIDE DEF i
<1>4. /\ stage'[s] = "open" /\ pending'[s].file = n /\ pending'[s].text = Text(i)
      /\ \A t \in Terminals : t # s => stage'[t] = stage[t] /\ pending'[t] = pending[t]
      BY <1>1 DEF SaveInv, SaveTypes
<1>5. /\ captured'[n] = captured[n] \cup {i}
      /\ \A m \in SessionNames : m # n => captured'[m] = captured[m]
      BY <1>1 DEF SaveInv, SaveTypes
<1>6. \A m \in SessionNames : captured[m] \subseteq captured'[m]
      BY <1>5
<1>7. SaveTypes'
      <2>1. /\ stage' = [t \in Terminals |-> stage'[t]] /\ pending' = [t \in Terminals |-> pending'[t]]
            /\ captured' = [m \in SessionNames |-> captured'[m]]
            BY <1>1 DEF SaveInv, SaveTypes
      <2>2. \A t \in Terminals : stage'[t] = "load" => pending'[t].file \in SessionNames
            BY <1>4 DEF SaveInv, SaveTypes
      <2> QED
          BY <1>1, <2>1, <2>2 DEF SaveInv, SaveTypes
<1>8. ASSUME clashed \subseteq {"z"} PROVE Apart'
      <2>1. Apart
            BY <1>8 DEF SaveInv
      <2>2. BindingsOK'
            BY <1>1, <2>1 DEF Apart, BindingsOK
      <2>3. CapturesOK'
            BY <1>3, <1>5, <1>8, <2>1 DEF Apart, CapturesOK
      <2>4. \A m \in SessionNames : TextsOf(m) \subseteq TextsOf(m)'
            BY <1>6 DEF TextsOf
      <2>5. SessionsOK'
            BY <1>1, <2>1, <2>4 DEF Apart, SessionsOK
      <2>6. \A m \in SessionNames, t \in Terminals : WritesTo(t, m)' => WritesTo(t, m)
            BY <1>4 DEF WritesTo
      <2>7. WritersOK'
            BY <1>1, <2>1, <2>6 DEF Apart, WritersOK
      <2>8. Text(i) \in TextsOf(n)'
            BY <1>5 DEF TextsOf
      <2>9. PendingOK'
            <3> SUFFICES ASSUME NEW m \in SessionNames, NEW t \in Terminals,
                                stage'[t] \in Saving, pending'[t].file = m
                         PROVE  pending'[t].text \in TextsOf(m)'
                BY DEF PendingOK
            <3>1. CASE t = s
                  BY <1>4, <2>8, <3>1
            <3>2. CASE t # s
                  <4>1. pending[t].text \in TextsOf(m)
                        BY <1>4, <2>1, <3>2 DEF Apart, PendingOK
                  <4> QED
                      BY <1>4, <2>4, <3>2, <4>1
            <3> QED
                BY <3>1, <3>2
      <2>10. InfoOK'
            BY <1>1, <1>6, <2>1 DEF Apart, InfoOK
      <2> QED
          BY <2>2, <2>3, <2>5, <2>7, <2>9, <2>10 DEF Apart
<1> QED
    BY <1>1, <1>7, <1>8 DEF SaveInv

\* A step of one shell that goes on to no save.
LEMMA StageAside ==
  ASSUME SaveInv, NEW s \in Terminals, NEW to \in {"prompt", "load"}, stage' = [stage EXCEPT ![s] = to],
         NEW p, pending' = [pending EXCEPT ![s] = p], to = "load" => p.file \in SessionNames,
         UNCHANGED <<dirs, sessions, captured, clashed>>, cwd' \in [Terminals -> Spots],
         bindings' = [t \in Terminals |-> bindings'[t]], clashed \subseteq {"z"} => BindingsOK',
         info' \in {info, [info EXCEPT ![s] = NoInfo]}
  PROVE  SaveInv'
<1>1. /\ stage'[s] = to /\ pending'[s] = p
      /\ \A t \in Terminals : t # s => stage'[t] = stage[t] /\ pending'[t] = pending[t]
      BY DEF SaveInv, SaveTypes
<1>2. \A t \in Terminals : info'[t] \in {info[t], NoInfo}
      BY DEF SaveInv, SaveTypes
<1>3. SaveTypes'
      <2>1. /\ stage' = [t \in Terminals |-> stage'[t]] /\ pending' = [t \in Terminals |-> pending'[t]]
            /\ info' = [t \in Terminals |-> info'[t]]
            BY DEF SaveInv, SaveTypes
      <2>2. \A t \in Terminals : stage'[t] = "load" => pending'[t].file \in SessionNames
            BY <1>1 DEF SaveInv, SaveTypes
      <2> QED
          BY <2>1, <2>2 DEF SaveInv, SaveTypes
<1>4. ASSUME clashed \subseteq {"z"} PROVE Apart'
      <2>1. Apart /\ BindingsOK'
            BY <1>4 DEF SaveInv
      <2>2. \A t \in Terminals : stage'[t] \in Saving => stage'[t] = stage[t] /\ pending'[t] = pending[t]
            BY <1>1 DEF Saving
      <2> QED
          BY <1>2, <2>1, <2>2, FilesAside
<1> QED
    BY <1>3, <1>4 DEF SaveInv

\* A load finds a save, or nothing.
LEMMA RestoreApart ==
  ASSUME SaveInv, NEW s \in Terminals, RestoreSession(s)
  PROVE  SaveInv'
<1> DEFINE n == pending[s].file
           i == LoadSession(sessions[n])
<1>1. /\ stage[s] = "load" /\ stage' = [stage EXCEPT ![s] = "prompt"] /\ pending' = [pending EXCEPT ![s] = NoFile]
      /\ info' = [info EXCEPT ![s] = i]
      /\ UNCHANGED <<dirs, sessions, captured, clashed>>
      BY DEF RestoreSession, shared, ghosts
<1>2. info'[s] = i /\ (\A t \in Terminals : t # s => info'[t] = info[t]) /\ info' = [t \in Terminals |-> info'[t]]
      BY <1>1 DEF SaveInv, SaveTypes
<1>3. cwd' = cwd \/ \E d \in dirs : cwd' = [cwd EXCEPT ![s] = d]
      BY DEF RestoreSession, Moved
<1>4. bindings' = [bindings EXCEPT ![s] =
                     [x \in DOMAIN @ \cup DOMAIN i.bindings |-> IF x \in DOMAIN i.bindings THEN i.bindings[x] ELSE @[x]]]
      BY <1>2 DEF RestoreSession
<1>5. n \in SessionNames
      BY <1>1 DEF SaveInv, SaveTypes
<1>6. SaveTypes'
      <2>1. /\ stage' = [t \in Terminals |-> stage'[t]] /\ pending' = [t \in Terminals |-> pending'[t]]
            /\ bindings' = [t \in Terminals |-> bindings'[t]]
            BY <1>1, <1>4 DEF SaveInv, SaveTypes
      <2>2. \A t \in Terminals : stage'[t] = "load" => stage[t] = "load" /\ pending'[t] = pending[t]
            BY <1>1 DEF SaveInv, SaveTypes
      <2>3. cwd' \in [Terminals -> Spots]
            BY <1>3 DEF SaveInv, SaveTypes, Spots
      <2> QED
          BY <1>1, <1>2, <2>1, <2>2, <2>3 DEF SaveInv, SaveTypes
<1>7. ASSUME clashed \subseteq {"z"} PROVE Apart'
      <2>1. Apart
            BY <1>7 DEF SaveInv
      <2>2. i = NoInfo \/ (i \in captured[n] /\ i \in Infos)
            <3>1. sessions[n] \in {Missing, <<>>} \cup TextsOf(n)
                  BY <1>5, <2>1 DEF Apart, SessionsOK
            <3>2. CASE sessions[n] \in {Missing, <<>>}
                  BY <3>2, TextsAreLegible DEF Legible
            <3>3. CASE sessions[n] \in TextsOf(n)
                  <4>1. PICK j \in captured[n] : sessions[n] = Text(j)
                        BY <3>3 DEF TextsOf
                  <4>2. j \in Infos
                        BY <1>5, <2>1 DEF Apart, CapturesOK
                  <4> QED
                      BY <4>1, <4>2, TextsAreLegible DEF Legible
            <3> QED
                BY <3>1, <3>2, <3>3
      <2> HIDE DEF i
      <2>3. i.bindings \in Tables
            <3>1. <<>> \in [{} -> Values]
                  OBVIOUS
            <3>2. NoInfo.bindings \in Tables
                  BY <3>1 DEF NoInfo, Tables
            <3>3. ASSUME i \in Infos PROVE i.bindings \in Tables
                  BY <3>3 DEF Infos
            <3> QED
                BY <2>2, <3>2, <3>3
      <2> DEFINE c == i.bindings
                 b == bindings[s]
                 e == [x \in DOMAIN b \cup DOMAIN c |-> IF x \in DOMAIN c THEN c[x] ELSE b[x]]
      <2>4. e \in Tables
            BY <2>1, <2>3, MoreKeys DEF Apart, BindingsOK
      <2>5. bindings' = [bindings EXCEPT ![s] = e]
            BY <1>4
      <2> HIDE DEF e
      <2>6. BindingsOK'
            BY <2>1, <2>4, <2>5 DEF Apart, BindingsOK
      <2>7. CapturesOK' /\ SessionsOK'
            BY <1>1, <2>1 DEF Apart, CapturesOK, SessionsOK, TextsOf
      <2>8. \A t \in Terminals : stage'[t] \in Saving => stage'[t] = stage[t] /\ pending'[t] = pending[t]
            BY <1>1 DEF SaveInv, SaveTypes, Saving
      <2>9. \A m \in SessionNames, t \in Terminals : WritesTo(t, m)' => WritesTo(t, m)
            BY <2>8 DEF WritesTo, Saving
      <2>10. WritersOK'
            BY <1>1, <2>1, <2>9 DEF Apart, WritersOK
      <2>11. PendingOK'
            BY <1>1, <2>1, <2>8 DEF Apart, PendingOK, TextsOf
      <2>12. InfoOK'
            BY <1>1, <1>2, <1>5, <2>1, <2>2 DEF Apart, InfoOK
      <2> QED
          BY <2>6, <2>7, <2>10, <2>11, <2>12 DEF Apart
<1> QED
    BY <1>1, <1>6, <1>7 DEF SaveInv

\* Who writes a file that is removed writes it to nobody.
LEMMA RemoveApart ==
  ASSUME SaveInv, NEW s \in Terminals, NEW n \in SessionNames, RemoveSession(s, n)
  PROVE  SaveInv'
<1>1. /\ sessions' = [sessions EXCEPT ![n] = Missing]
      /\ stage' = [t \in Terminals |-> IF stage[t] = "write" /\ pending[t].file = n THEN "detached" ELSE stage[t]]
      /\ UNCHANGED <<dirs, pending, cwd, bindings, info, captured, clashed>>
      BY DEF RemoveSession, place, ghosts
<1>2. sessions'[n] = Missing /\ \A m \in SessionNames : m # n => sessions'[m] = sessions[m]
      BY <1>1 DEF SaveInv, SaveTypes
<1>3. \A m \in SessionNames, t \in Terminals : WritesTo(t, m)' => WritesTo(t, m) /\ m # n
      BY <1>1 DEF WritesTo
<1>4. SaveTypes'
      BY <1>1 DEF SaveInv, SaveTypes
<1>5. ASSUME clashed \subseteq {"z"} PROVE Apart'
      <2>1. Apart
            BY <1>5 DEF SaveInv
      <2>2. BindingsOK' /\ CapturesOK' /\ InfoOK'
            BY <1>1, <2>1 DEF Apart, BindingsOK, CapturesOK, InfoOK
      <2>3. SessionsOK'
            BY <1>1, <1>2, <2>1 DEF Apart, SessionsOK, TextsOf
      <2>4. WritersOK'
            BY <1>2, <1>3, <2>1 DEF Apart, WritersOK
      <2>5. PendingOK'
            BY <1>1, <2>1 DEF Apart, PendingOK, TextsOf, Saving
      <2> QED
          BY <2>2, <2>3, <2>4, <2>5 DEF Apart
<1> QED
    BY <1>1, <1>4, <1>5 DEF SaveInv

\* The file is truncated for the one who opens it, if nobody else writes it.
LEMMA OpenApart ==
  ASSUME SaveInv, NEW s \in Terminals, Open(s)
  PROVE  SaveInv'
<1> DEFINE n == pending[s].file
<1>1. /\ stage[s] = "open" /\ stage' = [stage EXCEPT ![s] = "write"]
      /\ clashed' = clashed \cup {f \in {n} : \E t \in Terminals : stage[t] = "write" /\ pending[t].file = f}
      /\ UNCHANGED <<dirs, pending, cwd, bindings, info, captured>>
      BY DEF Open, place
<1>2. /\ n \in SessionNames => sessions' = [sessions EXCEPT ![n] = <<>>]
      /\ n \notin SessionNames => sessions' = [sessions EXCEPT ![n] = <<>>] \/ sessions' = sessions
      BY WorkspaceAssumption DEF Open, Put
<1>3. /\ stage'[s] = "write" /\ \A t \in Terminals : t # s => stage'[t] = stage[t]
      BY <1>1 DEF SaveInv, SaveTypes
<1>4. /\ n \in SessionNames => sessions'[n] = <<>>
      /\ \A m \in SessionNames : m # n => sessions'[m] = sessions[m]
      BY <1>2 DEF SaveInv, SaveTypes
<1>5. SaveTypes'
      BY <1>1, <1>2, <1>3 DEF SaveInv, SaveTypes
<1>6. ASSUME clashed' \subseteq {"z"} PROVE Apart'
      <2>1. Apart /\ (n \in SessionNames => \A t \in Terminals : ~WritesTo(t, n))
            <3>1. clashed \subseteq {"z"}
                  BY <1>1, <1>6
            <3>2. ASSUME n \in SessionNames, NEW t \in Terminals, WritesTo(t, n) PROVE FALSE
                  <4>1. stage[t] = "write" /\ pending[t].file = n
                        BY <3>2 DEF WritesTo
                  <4>2. n \in clashed'
                        BY <1>1, <4>1
                  <4>3. n = "z"
                        BY <1>6, <4>2
                  <4> QED
                      BY <3>2, <4>3, WorkspaceAssumption
            <3> QED
                BY <3>1, <3>2 DEF SaveInv
      <2>2. BindingsOK' /\ CapturesOK' /\ InfoOK'
            BY <1>1, <2>1 DEF Apart, BindingsOK, CapturesOK, InfoOK
      <2>3. SessionsOK'
            BY <1>1, <1>4, <2>1 DEF Apart, SessionsOK, TextsOf
      <2>4. \A m \in SessionNames, t \in Terminals : WritesTo(t, m)' => (WritesTo(t, m) /\ m # n) \/ (t = s /\ m = n)
            BY <1>1, <1>3, <2>1 DEF WritesTo
      <2>5. WritersOK'
            BY <1>4, <2>1, <2>4 DEF Apart, WritersOK
      <2>6. PendingOK'
            BY <1>1, <1>3, <2>1 DEF Apart, PendingOK, TextsOf, Saving
      <2> QED
          BY <2>2, <2>3, <2>5, <2>6 DEF Apart
<1> QED
    BY <1>5, <1>6 DEF SaveInv

LEMMA OverNothing ==
  ASSUME NEW C, NEW text \in Seq(C)
  PROVE  Over(<<>>, text) = text
<1>1. Len(text) \in Nat /\ Len(<<>>) = 0
      OBVIOUS
<1>2. Len(text) + 1 \in Int /\ 0 \in Int /\ 0 < Len(text) + 1
      BY <1>1
<1>3. SubSeq(<<>>, Len(text) + 1, 0) = <<>>
      BY <1>2, SubSeqEmpty, Zenon
<1>4. text \o <<>> = text
      OBVIOUS
<1> QED
    BY <1>1, <1>3, <1>4 DEF Over

\* What is written is the whole of the file.
LEMMA WriteApart ==
  ASSUME SaveInv, NEW s \in Terminals, WriteOut(s)
  PROVE  SaveInv'
<1> DEFINE n == pending[s].file
           text == pending[s].text
<1>1. /\ stage[s] \in {"write", "detached"} /\ stage' = [stage EXCEPT ![s] = "prompt"]
      /\ pending' = [pending EXCEPT ![s] = NoFile]
      /\ UNCHANGED <<dirs, cwd, bindings, info, captured, clashed>>
      BY DEF WriteOut, place, ghosts
<1>2. CASE sessions' = sessions
      <2>1. clashed \subseteq {"z"} => BindingsOK'
            BY <1>1 DEF SaveInv, Apart, BindingsOK
      <2>2. cwd' \in [Terminals -> Spots] /\ bindings' = [t \in Terminals |-> bindings'[t]]
            BY <1>1 DEF SaveInv, SaveTypes
      <2> QED
          BY <1>1, <1>2, <2>1, <2>2, StageAside
<1>3. CASE sessions' # sessions
      <2>1. stage[s] = "write" /\ n # "z" /\ sessions' = [sessions EXCEPT ![n] = Over(sessions[n], text)]
            BY <1>3 DEF WriteOut, Put, Contents
      <2>2. n \in SessionNames
            BY <1>3, <2>1 DEF SaveInv, SaveTypes
      <2>3. /\ stage'[s] = "prompt"
            /\ \A t \in Terminals : t # s => stage'[t] = stage[t] /\ pending'[t] = pending[t]
            BY <1>1 DEF SaveInv, SaveTypes
      <2>4. SaveTypes'
            <3>1. /\ stage' = [t \in Terminals |-> stage'[t]] /\ pending' = [t \in Terminals |-> pending'[t]]
                  /\ sessions' = [m \in SessionNames |-> sessions'[m]]
                  BY <1>1, <2>1 DEF SaveInv, SaveTypes
            <3>2. \A t \in Terminals : stage'[t] = "load" => pending'[t].file \in SessionNames
                  BY <2>3 DEF SaveInv, SaveTypes
            <3> QED
                BY <1>1, <3>1, <3>2 DEF SaveInv, SaveTypes
      <2>5. ASSUME clashed \subseteq {"z"} PROVE Apart'
            <3>1. Apart
                  BY <2>5 DEF SaveInv
            <3>2. WritesTo(s, n) /\ sessions[n] = <<>> /\ \A t \in Terminals : WritesTo(t, n) => s = t
                  BY <2>1, <2>2, <3>1 DEF Apart, WritersOK, WritesTo
            <3>3. text \in TextsOf(n)
                  BY <2>1, <2>2, <3>1 DEF Apart, PendingOK, Saving
            <3>4. PICK i \in captured[n] : text = Text(i)
                  BY <3>3 DEF TextsOf
            <3>5. text \in Seq(Range(text))
                  BY <2>2, <3>1, <3>4, TextsAreLegible DEF Apart, CapturesOK, Legible
            <3> HIDE DEF n, text
            <3>6. Over(<<>>, text) = text
                  BY <3>5, OverNothing
            <3>7. sessions'[n] = text /\ \A m \in SessionNames : m # n => sessions'[m] = sessions[m]
                  BY <2>1, <2>2, <3>2, <3>6 DEF SaveInv, SaveTypes, n, text
            <3>8. \A m : TextsOf(m)' = TextsOf(m)
                  BY <1>1 DEF TextsOf
            <3>9. SessionsOK'
                  BY <3>1, <3>3, <3>7, <3>8 DEF Apart, SessionsOK
            <3>10. BindingsOK' /\ CapturesOK' /\ InfoOK'
                  BY <1>1, <3>1 DEF Apart, BindingsOK, CapturesOK, InfoOK
            <3>11. \A m \in SessionNames, t \in Terminals : WritesTo(t, m)' => WritesTo(t, m) /\ m # n
                  BY <2>3, <3>2 DEF WritesTo
            <3>12. WritersOK'
                  BY <3>1, <3>7, <3>11 DEF Apart, WritersOK
            <3>13. PendingOK'
                  BY <2>3, <3>1, <3>8 DEF Apart, PendingOK, Saving
            <3> QED
                BY <3>9, <3>10, <3>12, <3>13 DEF Apart
      <2> QED
          BY <1>1, <2>4, <2>5 DEF SaveInv
<1> QED
    BY <1>2, <1>3

LEMMA NextSaveInv == ASSUME SaveInv, [WorkspaceNext]_workspaceVars PROVE SaveInv'
<1>1. CASE UNCHANGED workspaceVars
      <2>1. UNCHANGED <<dirs, sessions, stage, pending, cwd, bindings, info, captured, clashed>>
            BY <1>1 DEF workspaceVars, shared, place, ghosts
      <2> QED
          BY <2>1 DEF SaveInv, SaveTypes, Apart, BindingsOK, CapturesOK, SessionsOK, WritersOK, PendingOK, InfoOK, WritesTo, TextsOf
<1>2. ASSUME NEW s \in Terminals, ShellStep(s) PROVE SaveInv'
      <2>1. CASE (\E d \in Dirs : Cd(s, d)) \/ CdBack(s) \/ \E word \in Queries : Z(s, word)
            BY <2>1, GoAside DEF Cd, CdBack, Z
      <2>2. CASE \/ (\E d \in Dirs : Pushd(s, d)) \/ Popd(s)
                 \/ \E k \in ToSet(Keys) : Unset(s, k) \/ \E v \in Values : Set(s, k, v)
            BY <2>2, MoveAside
      <2>3. ASSUME NEW n \in SessionNames, Save(s, n) PROVE SaveInv'
            BY <2>3, SaveApart
      <2>4. ASSUME NEW n \in SessionNames, LoadNamed(s, n) PROVE SaveInv'
            <3> DEFINE p == [file |-> n, text |-> <<>>]
            <3>1. /\ stage' = [stage EXCEPT ![s] = "load"] /\ pending' = [pending EXCEPT ![s] = p]
                  /\ UNCHANGED <<dirs, sessions, cwd, bindings, info, captured, clashed>>
                  BY <2>4 DEF LoadNamed, shared, place, ghosts
            <3>2. p.file \in SessionNames
                  OBVIOUS
            <3>3. clashed \subseteq {"z"} => BindingsOK'
                  BY <3>1 DEF SaveInv, Apart, BindingsOK
            <3>4. cwd' \in [Terminals -> Spots] /\ bindings' = [t \in Terminals |-> bindings'[t]]
                  BY <3>1 DEF SaveInv, SaveTypes
            <3> HIDE DEF p
            <3> QED
                BY <3>1, <3>2, <3>3, <3>4, StageAside
      <2>5. ASSUME NEW n \in SessionNames, RemoveSession(s, n) PROVE SaveInv'
            BY <2>5, RemoveApart
      <2>6. CASE RestoreSession(s)
            BY <2>6, RestoreApart
      <2>7. CASE CannotOpen(s)
            <3>1. /\ stage' = [stage EXCEPT ![s] = "prompt"] /\ pending' = [pending EXCEPT ![s] = NoFile]
                  /\ UNCHANGED <<dirs, sessions, cwd, bindings, info, captured, clashed>>
                  BY <2>7 DEF CannotOpen, shared, place, ghosts
            <3>3. clashed \subseteq {"z"} => BindingsOK'
                  BY <3>1 DEF SaveInv, Apart, BindingsOK
            <3>4. cwd' \in [Terminals -> Spots] /\ bindings' = [t \in Terminals |-> bindings'[t]]
                  BY <3>1 DEF SaveInv, SaveTypes
            <3> QED
                BY <3>1, <3>3, <3>4, StageAside
      <2>8. CASE Killed(s)
            <3>1. /\ stage' = [stage EXCEPT ![s] = "prompt"] /\ pending' = [pending EXCEPT ![s] = NoFile]
                  /\ cwd' = [cwd EXCEPT ![s] = Home] /\ bindings' = [bindings EXCEPT ![s] = <<>>]
                  /\ info' = [info EXCEPT ![s] = NoInfo]
                  /\ UNCHANGED <<dirs, sessions, captured, clashed>>
                  BY <2>8 DEF Killed, Moved, shared, ghosts
            <3>2. <<>> \in Tables
                  <4>1. <<>> \in [{} -> Values]
                        OBVIOUS
                  <4> QED
                      BY <4>1 DEF Tables
            <3>3. clashed \subseteq {"z"} => BindingsOK'
                  BY <3>1, <3>2 DEF SaveInv, Apart, BindingsOK
            <3>4. cwd' \in [Terminals -> Spots] /\ bindings' = [t \in Terminals |-> bindings'[t]]
                  BY <3>1, WorkspaceAssumption DEF SaveInv, SaveTypes, Spots
            <3> QED
                BY <3>1, <3>3, <3>4, StageAside
      <2>9. CASE Open(s)
            BY <2>9, OpenApart
      <2>10. CASE WriteOut(s)
            BY <2>10, WriteApart
      <2> QED
          BY <1>2, <2>1, <2>2, <2>3, <2>4, <2>5, <2>6, <2>7, <2>8, <2>9, <2>10 DEF ShellStep
<1>3. CASE (\E d \in Dirs : RemoveDir(d)) \/ (\E hours \in {1, 24, 168} : Pass(hours))
      <2>1. dirs' \subseteq dirs /\ UNCHANGED <<sessions, stage, pending, bindings, info, captured, clashed>>
            BY <1>3 DEF RemoveDir, Pass, ghosts
      <2>2. cwd' \in [Terminals -> Spots]
            <3>1. cwd \in [Terminals -> Spots]
                  BY DEF SaveInv, SaveTypes
            <3>2. ASSUME NEW d \in Dirs, RemoveDir(d) PROVE cwd' \in [Terminals -> Spots]
                  BY <3>1, <3>2 DEF RemoveDir, Spots
            <3>3. ASSUME NEW hours \in {1, 24, 168}, Pass(hours) PROVE cwd' \in [Terminals -> Spots]
                  BY <3>1, <3>3 DEF Pass, place
            <3> QED
                BY <1>3, <3>2, <3>3
      <2>3. SaveTypes'
            BY <2>1, <2>2 DEF SaveInv, SaveTypes
      <2>4. ASSUME clashed \subseteq {"z"} PROVE Apart'
            BY <2>1, <2>4, FilesAside DEF SaveInv, Apart, BindingsOK
      <2> QED
          BY <2>1, <2>3, <2>4 DEF SaveInv
<1> QED
    BY <1>1, <1>2, <1>3 DEF WorkspaceNext

LEMMA SavesAreLoaded == ASSUME SaveInv PROVE LoadIsASave
<1> SUFFICES ASSUME NEW s \in Terminals, info[s] # NoInfo, clashed \subseteq {"z"}
             PROVE  info[s].name # <<>> /\ info[s].name[1] \in SessionNames /\ info[s] \in captured[info[s].name[1]]
    BY DEF LoadIsASave
<1>1. Apart
      BY DEF SaveInv
<1>2. PICK n \in SessionNames : info[s] \in captured[n]
      BY <1>1 DEF Apart, InfoOK
<1>3. info[s].name = <<n>>
      BY <1>1, <1>2 DEF Apart, CapturesOK
<1>4. <<n>> # <<>> /\ <<n>>[1] = n
      OBVIOUS
<1> QED
    BY <1>2, <1>3, <1>4

\* Whatever the shells' unlocked saves, loads and removals do to each other, and
\* wherever a shell is killed: what a load restores is nothing, or what one save under
\* that name has captured, symbol for symbol through the escaping of the file, unless
\* two saves under a name met (save_session and load_session in session.cpp).
THEOREM LoadsAreSaves == WorkspaceSpec => []LoadIsASave
<1>1. WorkspaceInit => SaveInv
      BY InitSaveInv
<1>2. SaveInv /\ [WorkspaceNext]_workspaceVars => SaveInv'
      BY NextSaveInv
<1>3. SaveInv => LoadIsASave
      BY SavesAreLoaded
<1> QED
    BY <1>1, <1>2, <1>3, PTL DEF WorkspaceSpec

-----------------------------------------------------------------------------
(* The frecency file: while no two shells fill it at once, it is truncated   *)
(* by the one that writes it, or the text of entries that count visits made. *)
ZSymbols == {"|", NL} \cup UNION {ToSet(f) : f \in Range(Spelling) \cup Range(Numerals) \cup Range(Stamps)}
ZEntry == [path : Range(Spelling), frequency : DOMAIN Numerals, last : DOMAIN Stamps]

LEMMA FieldsDo ==
  ASSUME NEW f \in Range(Spelling) \cup Range(Numerals) \cup Range(Stamps)
  PROVE  /\ f \in Seq(ZSymbols \ {"|"}) /\ f \in Seq(ZSymbols \ {NL}) /\ f \in Seq(ZSymbols)
         /\ NL \in ZSymbols \ {"|"} /\ "|" \in ZSymbols \ {NL}
<1> DEFINE W == ToSet(f) \ {"|", NL}
<1>1. f \in Seq(W)
      BY LinesAssumption
<1>2. W \subseteq ZSymbols \ {"|"} /\ W \subseteq ZSymbols \ {NL} /\ W \subseteq ZSymbols
      BY DEF ZSymbols
<1>3. NL # "|"
      BY DEF NL
<1>4. NL \in ZSymbols /\ "|" \in ZSymbols
      BY DEF ZSymbols
<1> HIDE DEF W
<1> QED
    BY <1>1, <1>2, <1>3, <1>4, SeqMonotonic

\* What a field of an entry is.
LEMMA PartsOfEntry ==
  ASSUME NEW e \in ZEntry
  PROVE  /\ e.path \in Range(Spelling) /\ Numerals[e.frequency] \in Range(Numerals) /\ Stamps[e.last] \in Range(Stamps)
         /\ e.frequency \in DOMAIN Numerals /\ e.last \in DOMAIN Stamps
         /\ e = [path |-> e.path, frequency |-> e.frequency, last |-> e.last]
  BY DEF ZEntry, Range

\* The line of an entry, cut at its bars.
Times(e) == Numerals[e.frequency] \o <<"|">> \o Stamps[e.last]

LEMMA CutAtBar ==
  ASSUME NEW C, "|" \in C, NEW key \in Seq(C \ {"|"}), NEW value \in Seq(C), NEW line, line = key \o <<"|">> \o value
  PROVE  Marks("|", line) # {} /\ Before("|", line) = key /\ Behind("|", line) = value
<1> DEFINE c == "|"
<1>1. c \in C /\ key \in Seq(C \ {c}) /\ line = key \o <<c>> \o value
      OBVIOUS
<1> HIDE DEF c
<1>2. /\ Marks(c, key \o <<c>> \o value) # {}
      /\ Before(c, key \o <<c>> \o value) = key /\ Behind(c, key \o <<c>> \o value) = value
      BY <1>1, CutAt
<1> QED
    BY <1>1, <1>2 DEF c

LEMMA FieldsCut ==
  ASSUME NEW e \in ZEntry
  PROVE  /\ ZFields(e) \in Seq(ZSymbols \ {NL}) /\ Marks("|", ZFields(e)) # {}
         /\ Before("|", ZFields(e)) = e.path /\ Behind("|", ZFields(e)) = Times(e)
         /\ Before("|", Times(e)) = Numerals[e.frequency] /\ Behind("|", Times(e)) = Stamps[e.last]
<1> DEFINE p == e.path
           n == Numerals[e.frequency]
           h == Stamps[e.last]
           C == ZSymbols
           D == ZSymbols \ {NL}
<1>1. /\ p \in Seq(C \ {"|"}) /\ n \in Seq(C \ {"|"}) /\ h \in Seq(C)
      /\ p \in Seq(D) /\ n \in Seq(D) /\ h \in Seq(D) /\ n \in Seq(C) /\ "|" \in C /\ "|" \in D
      BY PartsOfEntry, FieldsDo
<1>2. Times(e) = n \o <<"|">> \o h /\ ZFields(e) = p \o <<"|">> \o Times(e)
      BY DEF Times, ZFields
<1> HIDE DEF p, n, h, C, D
<1>3. Times(e) \in Seq(C) /\ Times(e) \in Seq(D) /\ ZFields(e) \in Seq(D)
      BY <1>1, <1>2
<1>4. Before("|", Times(e)) = n /\ Behind("|", Times(e)) = h
      BY <1>1, <1>2, CutAtBar
<1>5. Marks("|", ZFields(e)) # {} /\ Before("|", ZFields(e)) = p /\ Behind("|", ZFields(e)) = Times(e)
      BY <1>1, <1>2, <1>3, CutAtBar
<1> QED
    BY <1>3, <1>4, <1>5 DEF p, n, h, D

\* It is read as that entry and no other.
LEMMA EntryReads ==
  ASSUME NEW e \in ZEntry
  PROVE  EntryIn(ZFields(e)) = <<e>>
<1> DEFINE line == ZFields(e)
           all == [path : {Before("|", line)}, frequency : DOMAIN Numerals, last : DOMAIN Stamps]
           read == {x \in all : ZFields(x) = line}
<1>1. Marks("|", line) # {} /\ Before("|", line) = e.path /\ Behind("|", line) = Times(e)
      BY FieldsCut
<1>2. e.path \in Range(Spelling) /\ e = [path |-> e.path, frequency |-> e.frequency, last |-> e.last]
      /\ e.frequency \in DOMAIN Numerals /\ e.last \in DOMAIN Stamps
      BY PartsOfEntry
<1>3. e \in read
      <2>1. e \in all
            BY <1>1, <1>2
      <2> HIDE DEF all
      <2> QED
          BY <2>1
<1>4. ASSUME NEW x \in read PROVE x = e
      <2>1. x \in all /\ ZFields(x) = line
            OBVIOUS
      <2>2. x.path = e.path /\ x.frequency \in DOMAIN Numerals /\ x.last \in DOMAIN Stamps
            /\ x = [path |-> x.path, frequency |-> x.frequency, last |-> x.last]
            BY <1>1, <2>1
      <2>3. x \in ZEntry
            BY <1>2, <2>2 DEF ZEntry
      <2> HIDE DEF line, all, read
      <2>4. Times(x) = Times(e)
            BY <1>1, <2>1, <2>3, FieldsCut
      <2>5. Numerals[x.frequency] = Numerals[e.frequency] /\ Stamps[x.last] = Stamps[e.last]
            BY <2>3, <2>4, FieldsCut
      <2>6. x.frequency = e.frequency /\ x.last = e.last
            BY <1>2, <2>2, <2>5, LinesAssumption DEF LinesAssumption, IsInjective
      <2> QED
          BY <1>2, <2>2, <2>6
<1>5. EntryIn(line) = IF Marks("|", line) = {} \/ read = {} THEN <<>> ELSE <<CHOOSE x \in read : TRUE>>
      BY DEF EntryIn
<1> HIDE DEF line, all, read
<1>6. (CHOOSE x \in read : TRUE) = e
      BY <1>3, <1>4
<1>7. EntryIn(line) = <<e>>
      BY <1>1, <1>3, <1>5, <1>6
<1> QED
    BY <1>7 DEF line

LEMMA NothingIn == EntryIn(<<>>) = <<>>
<1>1. Marks("|", <<>>) = {}
      BY DEF Marks
<1> QED
    BY <1>1 DEF EntryIn

LEMMA MappedMore ==
  ASSUME NEW C, NEW V, NEW F \in [C -> V], NEW q \in Seq(C), NEW c \in C
  PROVE  /\ [i \in DOMAIN q |-> F[q[i]]] \in Seq(V)
         /\ [i \in DOMAIN Append(q, c) |-> F[Append(q, c)[i]]] = Append([i \in DOMAIN q |-> F[q[i]]], F[c])
<1> DEFINE r == Append(q, c)
           a == [i \in DOMAIN q |-> F[q[i]]]
           b == [i \in DOMAIN r |-> F[r[i]]]
           n == Len(q)
<1>1. n \in Nat /\ DOMAIN q = 1..n /\ DOMAIN r = 1..n + 1 /\ (\A i \in 1..n : r[i] = q[i] /\ q[i] \in C) /\ r[n + 1] = c
      BY PartsAre
<1> HIDE DEF n, r
<1>2. a = [i \in 1..n |-> F[q[i]]] /\ b = [i \in 1..n + 1 |-> F[r[i]]]
      BY <1>1
<1>3. \A i \in 1..n + 1 : i \in 1..n \/ i = n + 1
      BY <1>1
<1>4. (\A i \in 1..n : F[q[i]] \in V) /\ \A i \in 1..n + 1 : F[r[i]] \in V
      BY <1>1, <1>3
<1> HIDE DEF a, b
<1>5. a \in Seq(V) /\ Len(a) = n /\ b \in Seq(V) /\ Len(b) = n + 1
      BY <1>1, <1>2, <1>4
<1> DEFINE d == Append(a, F[c])
<1>6. d \in Seq(V) /\ Len(d) = n + 1 /\ (\A i \in 1..n : d[i] = a[i]) /\ d[n + 1] = F[c]
      BY <1>5
<1> HIDE DEF d
<1>7. \A i \in 1..n + 1 : b[i] = d[i]
      <2> TAKE i \in 1..n + 1
      <2>1. b[i] = F[r[i]]
            BY <1>2
      <2>2. CASE i \in 1..n
            BY <1>1, <1>2, <1>6, <2>1, <2>2
      <2>3. CASE i = n + 1
            BY <1>1, <1>6, <2>1, <2>3
      <2> QED
          BY <1>3, <2>2, <2>3
<1>8. b = d
      BY <1>5, <1>6, <1>7, SameSeq
<1> QED
    BY <1>5, <1>8 DEF a, b, d, r

\* What is written is read, line by line.
ZLines == {ZFields(e) : e \in ZEntry} \cup {<<>>}
ReadIn(ls) == FlattenSeq([i \in DOMAIN ls |-> EntryIn(ls[i])])
ZReads(q) ==
  /\ ZText(q) \in Seq(ZSymbols)
  /\ \E ls \in Seq(ZLines) :
       /\ FoldIs(Append(ls, <<>>), ZText(q), Gathered(ZSymbols), <<<<>>>>, Gathering(ZSymbols))
       /\ ReadIn(ls) = q

LEMMA ZLinesRead ==
  /\ ZLines \subseteq Seq(ZSymbols) /\ <<>> \in ZLines
  /\ \A line \in ZLines : EntryIn(line) \in Seq(ZEntry)
<1>1. ZSymbols \ {NL} \subseteq ZSymbols /\ <<>> \in Seq(ZSymbols)
      OBVIOUS
<1>2. ASSUME NEW e \in ZEntry PROVE ZFields(e) \in Seq(ZSymbols) /\ EntryIn(ZFields(e)) \in Seq(ZEntry)
      <2>1. ZFields(e) \in Seq(ZSymbols)
            BY <1>1, FieldsCut, SeqMonotonic
      <2>2. EntryIn(ZFields(e)) = <<e>>
            BY EntryReads
      <2> QED
          BY <2>1, <2>2
<1>3. EntryIn(<<>>) \in Seq(ZEntry)
      <2>1. <<>> \in Seq(ZEntry)
            OBVIOUS
      <2> QED
          BY <2>1, NothingIn
<1> QED
    BY <1>1, <1>2, <1>3 DEF ZLines

LEMMA ReadInMore ==
  ASSUME NEW ls \in Seq(ZLines), NEW line \in ZLines
  PROVE  ReadIn(Append(ls, line)) = ReadIn(ls) \o EntryIn(line) /\ ReadIn(ls) \in Seq(ZEntry)
<1> DEFINE V == Seq(ZEntry)
           F == [x \in ZLines |-> EntryIn(x)]
           a == [i \in DOMAIN ls |-> F[ls[i]]]
           r == Append(ls, line)
<1>1. F \in [ZLines -> V] /\ \A x \in ZLines : F[x] = EntryIn(x)
      BY ZLinesRead
<1>2. (\A i \in DOMAIN ls : ls[i] \in ZLines) /\ \A i \in DOMAIN r : r[i] \in ZLines
      OBVIOUS
<1> HIDE DEF F, V, r
<1>3. /\ [i \in DOMAIN ls |-> EntryIn(ls[i])] = a
      /\ [i \in DOMAIN r |-> EntryIn(r[i])] = [i \in DOMAIN r |-> F[r[i]]]
      BY <1>1, <1>2
<1>4. a \in Seq(V) /\ [i \in DOMAIN r |-> F[r[i]]] = Append(a, F[line])
      <2>1. F \in [ZLines -> V]
            BY <1>1
      <2>2. /\ a \in Seq(V)
            /\ [i \in DOMAIN Append(ls, line) |-> F[Append(ls, line)[i]]] = Append(a, F[line])
            BY <2>1, MappedMore
      <2> QED
          BY <2>2 DEF r
<1>5. F[line] \in V
      BY <1>1
<1> HIDE DEF a
<1>6. FlattenSeq(Append(a, F[line])) = FlattenSeq(a) \o F[line] /\ FlattenSeq(a) \in V
      BY <1>4, <1>5, FlattenMore, Flattened DEF V
<1> QED
    BY <1>1, <1>3, <1>4, <1>6 DEF ReadIn, r, V

LEMMA ZTextMore ==
  ASSUME NEW q \in Seq(ZEntry), NEW e \in ZEntry
  PROVE  ZText(Append(q, e)) = ZText(q) \o ZLine(e) /\ ZText(q) \in Seq(ZSymbols)
<1> DEFINE V == Seq(ZSymbols)
           F == [x \in ZEntry |-> ZLine(x)]
           a == [i \in DOMAIN q |-> F[q[i]]]
           r == Append(q, e)
<1>1. F \in [ZEntry -> V] /\ \A x \in ZEntry : F[x] = ZLine(x)
      <2> SUFFICES ASSUME NEW x \in ZEntry PROVE ZLine(x) \in V
          OBVIOUS
      <2>1. ZFields(x) \in V
            BY ZLinesRead DEF ZLines
      <2>2. NL \in ZSymbols
            BY DEF ZSymbols
      <2> QED
          BY <2>1, <2>2 DEF ZLine
<1>2. (\A i \in DOMAIN q : q[i] \in ZEntry) /\ \A i \in DOMAIN r : r[i] \in ZEntry
      OBVIOUS
<1> HIDE DEF F, V, r
<1>3. /\ [i \in DOMAIN q |-> ZLine(q[i])] = a
      /\ [i \in DOMAIN r |-> ZLine(r[i])] = [i \in DOMAIN r |-> F[r[i]]]
      BY <1>1, <1>2
<1>4. a \in Seq(V) /\ [i \in DOMAIN r |-> F[r[i]]] = Append(a, F[e])
      <2>1. F \in [ZEntry -> V]
            BY <1>1
      <2>2. /\ a \in Seq(V)
            /\ [i \in DOMAIN Append(q, e) |-> F[Append(q, e)[i]]] = Append(a, F[e])
            BY <2>1, MappedMore
      <2> QED
          BY <2>2 DEF r
<1>5. F[e] \in V
      BY <1>1
<1> HIDE DEF a
<1>6. FlattenSeq(Append(a, F[e])) = FlattenSeq(a) \o F[e] /\ FlattenSeq(a) \in V
      BY <1>4, <1>5, FlattenMore, Flattened DEF V
<1> QED
    BY <1>1, <1>3, <1>4, <1>6 DEF ZText, r, V

LEMMA NoText == ZText(<<>>) = <<>> /\ ReadIn(<<>>) = <<>>
<1>1. FlattenSeq(<<>>) = <<>>
      BY DEF FlattenSeq
<1>2. [i \in DOMAIN <<>> |-> ZLine(<<>>[i])] = <<>> /\ [i \in DOMAIN <<>> |-> EntryIn(<<>>[i])] = <<>>
      OBVIOUS
<1> QED
    BY <1>1, <1>2 DEF ZText, ReadIn

LEMMA ZTextReads ==
  ASSUME NEW q \in Seq(ZEntry)
  PROVE  ZText(q) \in Seq(ZSymbols) /\ ZEntries(ZText(q)) = q
<1> DEFINE C == ZSymbols
           V == Gathered(C)
           T == Gathering(C)
           base == <<<<>>>>
           none == <<>>
           S == {r \in Seq(ZEntry) : ZReads(r)}
<1>1. T \in [C -> [V -> V]] /\ base \in V
      BY GatheringGathers
<1>2. none \in S
      <2>1. none \in Seq(C) /\ none \in Seq(ZLines) /\ none \in Seq(ZEntry) /\ Append(none, <<>>) = base
            OBVIOUS
      <2>2. ZText(none) = none /\ ReadIn(none) = none
            BY NoText
      <2> HIDE DEF C, V, T, base
      <2>3. FoldIs(base, <<>>, V, base, T)
            BY <1>1, FoldEmpty
      <2>4. FoldIs(Append(none, <<>>), ZText(none), V, base, T)
            BY <2>1, <2>2, <2>3
      <2> HIDE DEF none
      <2>5. ZReads(none)
            BY <2>1, <2>2, <2>4 DEF ZReads, C, V, T, base
      <2> QED
          BY <2>1, <2>5
<1>3. ASSUME NEW r \in Seq(ZEntry), NEW e \in ZEntry, r \in S PROVE Append(r, e) \in S
      <2> DEFINE u == ZFields(e)
                 t == ZText(r)
      <2>1. PICK ls \in Seq(ZLines) : FoldIs(Append(ls, <<>>), t, V, base, T) /\ ReadIn(ls) = r
            BY <1>3 DEF ZReads
      <2>2. t \in Seq(C) /\ ZText(Append(r, e)) = t \o (u \o <<NL>>)
            BY ZTextMore DEF ZLine
      <2>3. u \in ZLines /\ u \in Seq(C \ {NL}) /\ NL \in C
            BY FieldsCut DEF ZLines, ZSymbols
      <2>4. EntryIn(u) = <<e>>
            BY EntryReads
      <2>5. Append(r, e) \in Seq(ZEntry) /\ r \o <<e>> = Append(r, e)
            OBVIOUS
      <2>6. ls \in Seq(Seq(C))
            BY ZLinesRead, SeqMonotonic
      <2> HIDE DEF u, t
      <2>7. /\ t \o (u \o <<NL>>) \in Seq(C)
            /\ FoldIs(Append(Append(ls, u), <<>>), t \o (u \o <<NL>>), V, base, T)
            <3> HIDE DEF C
            <3> QED
                BY <2>1, <2>2, <2>3, <2>6, LineEnds
      <2>8. ReadIn(Append(ls, u)) = Append(r, e)
            BY <2>1, <2>3, <2>4, <2>5, ReadInMore
      <2>9. Append(ls, u) \in Seq(ZLines)
            <3> HIDE DEF V, T, base, S
            <3> QED
                BY <2>3
      <2> DEFINE more == Append(ls, u)
      <2> HIDE DEF more
      <2>10. ZReads(Append(r, e))
            BY <2>2, <2>7, <2>8, <2>9 DEF ZReads, more
      <2> QED
          BY <2>5, <2>10
<1>4. q \in S
      <2> HIDE DEF S
      <2> QED
          BY <1>2, <1>3, SeqBySet
<1>5. PICK ls \in Seq(ZLines) : FoldIs(Append(ls, none), ZText(q), V, base, T) /\ ReadIn(ls) = q
      BY <1>4 DEF ZReads
<1>6. ZText(q) \in Seq(C)
      BY <1>4 DEF ZReads
<1>7. Lines(ZText(q)) = Append(ls, none)
      BY <1>5, <1>6, LinesIs
<1>8. ReadIn(Append(ls, none)) = q \o <<>>
      <2>1. none \in ZLines /\ EntryIn(none) = <<>>
            BY ZLinesRead, NothingIn
      <2> QED
          BY <1>5, <2>1, ReadInMore
<1>9. q \o <<>> = q
      OBVIOUS
<1> QED
    BY <1>6, <1>7, <1>8, <1>9 DEF ZEntries, ReadIn

\* What the file may say: no more than the visits made.
Visits(d) == {e \in ZEntry : e.path = Spelling[d] /\ e.frequency <= visits[d]}
Honest == UNION {Visits(d) : d \in Dirs}
HonestTexts == {ZText(q) : q \in Seq(Honest)}

ZTypes ==
  /\ now \in DOMAIN Stamps /\ dirs \subseteq Dirs /\ commands \in 0..MaxCommands
  /\ visits \in [Dirs -> Nat] /\ \A d \in Dirs : visits[d] <= commands
  /\ pending = [s \in Terminals |-> pending[s]] /\ stage = [s \in Terminals |-> stage[s]]
ZApart ==
  /\ zfile \in HonestTexts
  /\ \A s \in Terminals : pending[s].file = "z" => pending[s].text \in HonestTexts
  /\ \A s \in Terminals : WritesTo(s, "z") => zfile = <<>> /\ \A t \in Terminals : WritesTo(t, "z") => s = t
ZInv == ZTypes /\ ("z" \notin clashed => ZApart)

LEMMA HonestRead ==
  ASSUME NEW text \in HonestTexts
  PROVE  /\ ZEntries(text) \in Seq(Honest) /\ text = ZText(ZEntries(text)) /\ text \in Seq(ZSymbols)
         /\ <<>> \in HonestTexts
<1>1. PICK q \in Seq(Honest) : text = ZText(q)
      BY DEF HonestTexts
<1>2. Honest \subseteq ZEntry
      BY DEF Honest, Visits
<1>3. q \in Seq(ZEntry)
      BY <1>2, SeqMonotonic
<1>4. ZEntries(text) = q /\ text \in Seq(ZSymbols)
      BY <1>1, <1>3, ZTextReads
<1>5. <<>> \in Seq(Honest)
      OBVIOUS
<1>6. <<>> \in HonestTexts
      BY <1>5, NoText DEF HonestTexts
<1> QED
    BY <1>1, <1>4, <1>6

\* A count stays under the number of commands.
LEMMA CommandsAreCounted ==
  ASSUME ZTypes
  PROVE  commands \in Nat /\ MaxCommands \in Nat /\ commands <= MaxCommands
<1>1. MaxCommands \in Nat
      BY WorkspaceAssumption, Zenon
<1>2. commands \in 0..MaxCommands
      BY DEF ZTypes
<1> QED
    BY <1>1, <1>2

LEMMA CountsClimb ==
  ASSUME NEW m \in Nat, NEW c \in Nat, NEW v \in Nat, v <= c, c < m
  PROVE  /\ c + 1 \in 0..m /\ v + 1 \in 0..m /\ 1 \in 0..m /\ 1 <= v + 1
         /\ \A n \in 0..m : n <= v => n + 1 \in 0..m /\ n + 1 <= v + 1
  OBVIOUS

\* One more visit: of the first entry that has the path, or a new one.
LEMMA VisitedHonest ==
  ASSUME ZTypes, NEW d \in Dirs, NEW q \in Seq(Honest), commands < MaxCommands, visits' = [visits EXCEPT ![d] = @ + 1]
  PROVE  Honest \subseteq Honest' /\ Visited(q, Spelling[d]) \in Seq(Honest')
<1> DEFINE path == Spelling[d]
           S == {i \in DOMAIN q : q[i].path = path}
           first == Min(S)
           top == visits[d] + 1
<1>1. /\ visits' \in [Dirs -> Nat] /\ visits'[d] = top /\ visits[d] \in Nat /\ top \in Nat
      /\ \A e \in Dirs : e # d => visits'[e] = visits[e]
      BY DEF ZTypes
<1>2. top \in DOMAIN Numerals /\ DOMAIN Numerals = 0..MaxCommands /\ now \in DOMAIN Stamps /\ path \in Range(Spelling)
      <2>1. commands \in Nat /\ MaxCommands \in Nat /\ visits[d] <= commands
            BY CommandsAreCounted DEF ZTypes
      <2>2. DOMAIN Numerals = 0..MaxCommands /\ DOMAIN Spelling = Dirs
            BY LinesAssumption
      <2>3. top \in 0..MaxCommands
            BY <1>1, <2>1, CountsClimb
      <2> QED
          BY <2>2, <2>3 DEF ZTypes, Range
<1>3. \A e \in Dirs : Visits(e) \subseteq Visits(e)'
      <2> SUFFICES ASSUME NEW e \in Dirs, NEW x \in Visits(e) PROVE x \in Visits(e)'
          OBVIOUS
      <2>1. x \in ZEntry /\ x.path = Spelling[e] /\ x.frequency <= visits[e] /\ x.frequency \in DOMAIN Numerals
            BY DEF Visits, ZEntry
      <2>2. x.frequency \in Nat /\ visits[e] \in Nat /\ visits'[e] \in Nat /\ visits[e] <= visits'[e]
            <3>1. x.frequency \in Nat
                  BY <1>2, <2>1
            <3>2. visits[e] \in Nat /\ visits'[e] \in Nat
                  BY <1>1 DEF ZTypes
            <3>3. visits[e] <= visits'[e]
                  BY <1>1, <3>2
            <3> QED
                BY <3>1, <3>2, <3>3
      <2>3. x.frequency <= visits'[e]
            BY <2>1, <2>2
      <2> QED
          BY <2>1, <2>3 DEF Visits
<1>4. Honest \subseteq Honest'
      BY <1>3 DEF Honest
<1>5. q \in Seq(Honest')
      BY <1>4, SeqMonotonic
<1>5a. /\ 1 \in 0..MaxCommands /\ 1 <= top
       /\ \A n \in 0..MaxCommands : n <= visits[d] => n + 1 \in 0..MaxCommands /\ n + 1 <= top
       <2>1. commands \in Nat /\ MaxCommands \in Nat /\ visits[d] <= commands
             BY CommandsAreCounted DEF ZTypes
       <2> QED
           BY <1>1, <2>1, CountsClimb
<1> DEFINE is(n) == [path |-> path, frequency |-> n, last |-> now]
<1>6. ASSUME NEW n \in 0..MaxCommands, n <= top PROVE is(n) \in Honest'
      <2> DEFINE x == is(n)
      <2>1. x \in ZEntry /\ x.path = Spelling[d] /\ x.frequency = n
            BY <1>2, <1>6 DEF ZEntry
      <2> HIDE DEF x
      <2>2. x.frequency <= visits'[d]
            BY <1>1, <1>6, <2>1
      <2>3. x \in Visits(d)'
            BY <2>1, <2>2 DEF Visits
      <2>4. x \in Honest'
            BY <2>3 DEF Honest
      <2> QED
          BY <2>4 DEF x
<1>7. CASE S # {}
      <2>1. S \in SUBSET Nat
            OBVIOUS
      <2>2. first \in S
            BY <1>7, <2>1, FirstIs
      <2> HIDE DEF first
      <2>3. q[first] \in Honest /\ q[first].path = path /\ first \in DOMAIN q
            BY <2>2
      <2> DEFINE x == q[first]
                 more == [x EXCEPT !.frequency = @ + 1, !.last = now]
      <2>4. PICK e \in Dirs : x \in Visits(e)
            BY <2>3 DEF Honest
      <2>5. e = d
            BY <2>3, <2>4, LinesAssumption DEF Visits, LinesAssumption, IsInjective
      <2>6. x \in ZEntry /\ x.path = path /\ x.frequency <= visits[d] /\ x.frequency \in 0..MaxCommands
            BY <1>2, <2>4, <2>5 DEF Visits, ZEntry
      <2> HIDE DEF x
      <2>7. more = is(x.frequency + 1)
            <3>1. x = [path |-> path, frequency |-> x.frequency, last |-> x.last]
                  BY <2>6, PartsOfEntry
            <3> DEFINE n == x.frequency
                       h == x.last
                       y == [x EXCEPT !.frequency = n + 1]
            <3>2. more = [y EXCEPT !.last = now]
                  OBVIOUS
            <3>3. x = [path |-> path, frequency |-> n, last |-> h]
                  BY <3>1
            <3> HIDE DEF n, h, path
            <3>4. y = [path |-> path, frequency |-> n + 1, last |-> h]
                  BY <3>3
            <3> HIDE DEF y
            <3>5. [y EXCEPT !.last = now] = [path |-> path, frequency |-> n + 1, last |-> now]
                  BY <3>4
            <3> QED
                BY <3>2, <3>5 DEF n
      <2>8. x.frequency + 1 \in 0..MaxCommands /\ x.frequency + 1 <= top
            <3> HIDE DEF top
            <3> QED
                BY <1>5a, <2>6
      <2> HIDE DEF is
      <2>9. more \in Honest'
            BY <1>6, <2>7, <2>8
      <2>10. Visited(q, path) = [q EXCEPT ![first] = more]
            BY <1>7 DEF Visited, first, x
      <2> HIDE DEF more, path
      <2> QED
          BY <1>4, <1>5, <2>3, <2>9, <2>10 DEF path
<1>8. CASE S = {}
      <2>1. Visited(q, path) = Append(q, is(1))
            BY <1>8 DEF Visited
      <2>2. 1 \in 0..MaxCommands /\ 1 <= top
            BY <1>5a
      <2> HIDE DEF is
      <2>3. is(1) \in Honest'
            BY <1>6, <2>2
      <2> QED
          BY <1>4, <1>5, <2>1, <2>3
<1> QED
    BY <1>7, <1>8

LEMMA PrunedKeeps ==
  ASSUME NEW S, NEW q \in Seq(S), NEW r \in Pruned(q)
  PROVE  r \in Seq(S)
<1>1. CASE Len(q) <= MaxEntries
      BY <1>1 DEF Pruned
<1>2. CASE ~(Len(q) <= MaxEntries)
      <2>1. PICK e \in ByScore(q) : r = SubSeq(e, 1, KeptEntries)
            BY <1>2 DEF Pruned
      <2>2. PICK p \in [DOMAIN q -> DOMAIN q] : e = [i \in DOMAIN q |-> q[p[i]]]
            BY <2>1 DEF ByScore, Bijection, Injection
      <2>3. DOMAIN q = 1 .. Len(q) /\ Len(q) \in Nat /\ \A i \in DOMAIN q : q[i] \in S
            OBVIOUS
      <2>4. \A i \in 1 .. Len(q) : e[i] \in S
            BY <2>2, <2>3
      <2>5. KeptEntries \in Nat /\ KeptEntries <= Len(q)
            <3>1. KeptEntries \in Nat /\ MaxEntries \in Nat /\ KeptEntries <= MaxEntries
                  BY WorkspaceAssumption
            <3>2. MaxEntries < Len(q)
                  BY <1>2, <2>3, <3>1
            <3> QED
                BY <2>3, <3>1, <3>2
      <2>6. \A i \in 1 .. KeptEntries : e[i] \in S
            BY <2>3, <2>4, <2>5
      <2>7. SubSeq(e, 1, KeptEntries) \in Seq(S)
            <3>1. 1 \in Int /\ KeptEntries \in Int
                  BY <2>5
            <3> QED
                BY <2>6, <3>1, SubSeqProperties, Zenon
      <2> QED
          BY <2>1, <2>7
<1> QED
    BY <1>1, <1>2

LEMMA InitZInv == ASSUME WorkspaceInit PROVE ZInv
<1>1. /\ now = 0 /\ dirs = Dirs /\ zfile = <<>> /\ visits = [d \in Dirs |-> 0] /\ commands = 0
      /\ pending = [s \in Terminals |-> NoFile] /\ stage = [s \in Terminals |-> "prompt"]
      BY DEF WorkspaceInit
<1>2. NoFile.file # "z" /\ MaxCommands \in Nat /\ 0 \in DOMAIN Stamps
      BY WorkspaceAssumption, LinesAssumption DEF NoFile
<1>3. ZTypes
      BY <1>1, <1>2 DEF ZTypes
<1>4. <<>> \in HonestTexts
      <2>1. <<>> \in Seq(Honest)
            OBVIOUS
      <2> QED
          BY <2>1, NoText DEF HonestTexts
<1>5. ZApart
      BY <1>1, <1>2, <1>4 DEF ZApart, WritesTo
<1> QED
    BY <1>3, <1>5 DEF ZInv

LEMMA OneCommand ==
  ASSUME ZTypes, commands' = commands \/ (commands < MaxCommands /\ commands' = commands + 1)
  PROVE  commands' \in 0..MaxCommands /\ commands <= commands'
<1>1. MaxCommands \in Nat /\ commands \in Nat /\ commands <= MaxCommands
      BY CommandsAreCounted
<1>2. CASE commands' = commands
      BY <1>1, <1>2
<1>3. CASE commands < MaxCommands /\ commands' = commands + 1
      BY <1>1, <1>3
<1> QED
    BY <1>2, <1>3

\* What does not touch the file, and gives no shell a text for it.
LEMMA Aside ==
  ASSUME ZInv, UNCHANGED <<zfile, visits>>, now' \in DOMAIN Stamps, dirs' \subseteq dirs, clashed \subseteq clashed',
         commands' = commands \/ (commands < MaxCommands /\ commands' = commands + 1),
         pending' = [t \in Terminals |-> pending'[t]], stage' = [t \in Terminals |-> stage'[t]],
         \A t \in Terminals : pending'[t].file = "z" => pending'[t] = pending[t] /\ (stage'[t] = "write" => stage[t] = "write")
  PROVE  ZInv'
<1>1. HonestTexts' = HonestTexts
      BY DEF HonestTexts, Honest, Visits
<1>2. ZTypes'
      <2>1. commands' \in 0..MaxCommands /\ commands <= commands' /\ commands \in 0..MaxCommands
            BY OneCommand DEF ZInv, ZTypes
      <2>2. visits' \in [Dirs -> Nat] /\ \A d \in Dirs : visits'[d] <= commands'
            <3>1. ASSUME NEW d \in Dirs PROVE visits[d] <= commands'
                  <4>1. visits[d] \in Nat /\ visits[d] <= commands
                        BY DEF ZInv, ZTypes
                  <4> QED
                      BY <2>1, <4>1
            <3> QED
                BY <3>1 DEF ZInv, ZTypes
      <2> QED
          BY <2>1, <2>2 DEF ZInv, ZTypes
<1>3. ASSUME "z" \notin clashed' PROVE ZApart'
      <2>1. ZApart
            BY <1>3 DEF ZInv
      <2>2. \A t \in Terminals : WritesTo(t, "z")' => WritesTo(t, "z")
            BY DEF WritesTo
      <2>3. \A t \in Terminals : pending'[t].file = "z" => pending'[t].text \in HonestTexts
            BY <2>1 DEF ZApart
      <2>4. zfile' \in HonestTexts
            BY <2>1 DEF ZApart
      <2>5. \A u \in Terminals : WritesTo(u, "z")' => zfile' = <<>> /\ \A t \in Terminals : WritesTo(t, "z")' => u = t
            BY <2>1, <2>2 DEF ZApart
      <2> QED
          BY <1>1, <2>3, <2>4, <2>5 DEF ZApart
<1> QED
    BY <1>2, <1>3 DEF ZInv

\* A command that goes somewhere writes down the visit.
LEMMA RecordHonest ==
  ASSUME ZInv, NEW s \in Terminals, NEW d, NEW path, Ready(s), GoTo(s, d, path), "z" \notin clashed => path = Spelling[d]
  PROVE  ZInv'
<1>1. /\ d \in Dirs /\ UNCHANGED <<dirs, now, zfile, clashed>> /\ visits' = [visits EXCEPT ![d] = @ + 1]
      /\ commands < MaxCommands /\ commands' = commands + 1 /\ stage' = [stage EXCEPT ![s] = "open"]
      BY DEF GoTo, Record, shared, ZInv, ZTypes, Ready
<1>2. PICK q \in Pruned(Visited(ZEntries(zfile), path)) : pending' = [pending EXCEPT ![s] = [file |-> "z", text |-> ZText(q)]]
      BY DEF GoTo, Record
<1>3. /\ pending'[s].text = ZText(q) /\ \A t \in Terminals : t # s => pending'[t] = pending[t] /\ stage'[t] = stage[t]
      /\ stage'[s] = "open"
      BY <1>1, <1>2 DEF ZInv, ZTypes
<1>4. ZTypes'
      <2>1. commands' \in 0..MaxCommands /\ commands \in Nat
            BY <1>1, OneCommand DEF ZInv, ZTypes
      <2>2. visits' \in [Dirs -> Nat]
            BY <1>1 DEF ZInv, ZTypes
      <2>3. ASSUME NEW e \in Dirs PROVE visits'[e] <= commands'
            <3>1. visits[e] \in Nat /\ visits[e] <= commands /\ visits'[e] \in {visits[e], visits[e] + 1}
                  BY <1>1 DEF ZInv, ZTypes
            <3> QED
                BY <1>1, <2>1, <3>1
      <2>4. pending' = [t \in Terminals |-> pending'[t]] /\ stage' = [t \in Terminals |-> stage'[t]]
            BY <1>1, <1>2 DEF ZInv, ZTypes
      <2> QED
          BY <1>1, <2>1, <2>2, <2>3, <2>4 DEF ZInv, ZTypes
<1>5. ASSUME "z" \notin clashed PROVE ZApart'
      <2>1. ZApart /\ ZTypes /\ path = Spelling[d]
            BY <1>5 DEF ZInv
      <2>2. ZEntries(zfile) \in Seq(Honest) /\ zfile = ZText(ZEntries(zfile))
            BY <2>1, HonestRead DEF ZApart
      <2>3. Honest \subseteq Honest' /\ Visited(ZEntries(zfile), path) \in Seq(Honest')
            BY <1>1, <2>1, <2>2, VisitedHonest
      <2>4. q \in Seq(Honest')
            BY <1>2, <2>3, PrunedKeeps
      <2>5. ZText(q) \in HonestTexts'
            BY <2>4 DEF HonestTexts
      <2>6. HonestTexts \subseteq HonestTexts'
            <3>1. Seq(Honest) \subseteq Seq(Honest')
                  BY <2>3, WiderSeq
            <3> QED
                BY <3>1 DEF HonestTexts
      <2>7. \A t \in Terminals : pending'[t].file = "z" => pending'[t].text \in HonestTexts'
            <3> TAKE t \in Terminals
            <3>1. CASE t = s
                  BY <1>3, <2>5, <3>1
            <3>2. CASE t # s
                  BY <1>3, <2>1, <2>6, <3>2 DEF ZApart
            <3> QED
                BY <3>1, <3>2
      <2>8. \A t \in Terminals : WritesTo(t, "z")' => WritesTo(t, "z")
            BY <1>3 DEF WritesTo
      <2>9. zfile' \in HonestTexts'
            BY <1>1, <2>1, <2>6 DEF ZApart
      <2>10. \A u \in Terminals : WritesTo(u, "z")' => zfile' = <<>> /\ \A t \in Terminals : WritesTo(t, "z")' => u = t
             BY <1>1, <2>1, <2>8 DEF ZApart
      <2> QED
          BY <2>7, <2>9, <2>10 DEF ZApart
<1> QED
    BY <1>1, <1>4, <1>5 DEF ZInv

\* While the lines are whole, z takes a path that leads to its own directory.
LEMMA ZHonest ==
  ASSUME ZInv, NEW s \in Terminals, NEW word, Z(s, word)
  PROVE  ZInv'
<1> DEFINE entries == ZEntries(zfile)
<1>1. Ready(s)
      BY DEF Z
<1>2. PICK i \in Foremost(entries, Candidates(s, word, entries)) :
        \E d \in LedTo(s, entries[i].path) : GoTo(s, d, entries[i].path)
      BY DEF Z
<1>3. PICK d \in LedTo(s, entries[i].path) : GoTo(s, d, entries[i].path)
      BY <1>2
<1> DEFINE path == entries[i].path
<1>4. ASSUME "z" \notin clashed PROVE path = Spelling[d]
      <2>1. entries \in Seq(Honest)
            BY <1>4, HonestRead DEF ZInv, ZApart
      <2>2. i \in DOMAIN entries
            BY DEF Foremost, Candidates
      <2> HIDE DEF entries
      <2>3. entries[i] \in Honest
            BY <2>1, <2>2
      <2>4. PICK e \in Dirs : path = Spelling[e]
            BY <2>3 DEF Honest, Visits
      <2>5. path[1] = "/"
            BY <2>4, LinesAssumption
      <2> HIDE DEF path
      <2> QED
          BY <2>5 DEF LedTo, path
<1> HIDE DEF entries
<1> QED
    BY <1>1, <1>3, <1>4, RecordHonest

\* The file is truncated, or filled.
LEMMA OpenHonest ==
  ASSUME ZInv, NEW s \in Terminals, Open(s)
  PROVE  ZInv'
<1>1. /\ stage' = [stage EXCEPT ![s] = "write"] /\ UNCHANGED <<dirs, now, pending, visits, commands>>
      /\ clashed' = clashed \cup {f \in {pending[s].file} : \E t \in Terminals : stage[t] = "write" /\ pending[t].file = f}
      BY DEF Open
<1>2. /\ stage' = [t \in Terminals |-> stage'[t]] /\ pending' = [t \in Terminals |-> pending'[t]]
      /\ now' \in DOMAIN Stamps
      /\ stage'[s] = "write" /\ \A t \in Terminals : t # s => stage'[t] = stage[t]
      BY <1>1 DEF ZInv, ZTypes
<1>3. CASE pending[s].file # "z"
      <2>1. zfile' = zfile
            BY <1>3 DEF Open, Put
      <2>2. \A t \in Terminals : pending'[t].file = "z" => pending'[t] = pending[t] /\ (stage'[t] = "write" => stage[t] = "write")
            BY <1>1, <1>2, <1>3
      <2> QED
          BY <1>1, <1>2, <2>1, <2>2, Aside
<1>4. CASE pending[s].file = "z"
      <2>1. zfile' = <<>>
            BY <1>4 DEF Open, Put
      <2>2. HonestTexts' = HonestTexts
            BY <1>1 DEF HonestTexts, Honest, Visits
      <2>3. ZTypes'
            BY <1>1, <1>2 DEF ZInv, ZTypes
      <2>4. ASSUME "z" \notin clashed' PROVE ZApart'
            <3>1. ZApart /\ \A t \in Terminals : ~WritesTo(t, "z")
                  BY <1>1, <1>4, <2>4 DEF ZInv, WritesTo
            <3>2. \A t \in Terminals : WritesTo(t, "z")' => t = s
                  BY <1>1, <1>2, <3>1 DEF WritesTo
            <3>3. <<>> \in HonestTexts
                  BY <3>1, HonestRead DEF ZApart
            <3>4. \A t \in Terminals : pending'[t].file = "z" => pending'[t].text \in HonestTexts'
                  BY <1>1, <2>2, <3>1 DEF ZApart
            <3>5. \A u \in Terminals : WritesTo(u, "z")' => zfile' = <<>> /\ \A t \in Terminals : WritesTo(t, "z")' => u = t
                  BY <2>1, <3>2
            <3> QED
                BY <2>1, <2>2, <3>3, <3>4, <3>5 DEF ZApart
      <2> QED
          BY <2>3, <2>4 DEF ZInv
<1> QED
    BY <1>3, <1>4

LEMMA WriteHonest ==
  ASSUME ZInv, NEW s \in Terminals, WriteOut(s)
  PROVE  ZInv'
<1>1. /\ stage' = [stage EXCEPT ![s] = "prompt"] /\ pending' = [pending EXCEPT ![s] = NoFile]
      /\ UNCHANGED <<dirs, now, visits, commands, clashed>>
      BY DEF WriteOut, ghosts
<1>2. /\ stage' = [t \in Terminals |-> stage'[t]] /\ pending' = [t \in Terminals |-> pending'[t]]
      /\ now' \in DOMAIN Stamps /\ pending'[s] = NoFile /\ stage'[s] = "prompt" /\ NoFile.file # "z"
      /\ \A t \in Terminals : t # s => stage'[t] = stage[t] /\ pending'[t] = pending[t]
      BY <1>1 DEF ZInv, ZTypes, NoFile
<1>3. CASE zfile' = zfile
      <2>1. \A t \in Terminals : pending'[t].file = "z" => pending'[t] = pending[t] /\ (stage'[t] = "write" => stage[t] = "write")
            BY <1>2
      <2> QED
          BY <1>1, <1>2, <1>3, <2>1, Aside
<1>4. CASE zfile' # zfile
      <2>1. WritesTo(s, "z") /\ zfile' = Over(zfile, pending[s].text)
            BY <1>4 DEF WriteOut, Put, Contents, WritesTo
      <2>2. HonestTexts' = HonestTexts
            BY <1>1 DEF HonestTexts, Honest, Visits
      <2>3. ZTypes'
            BY <1>1, <1>2 DEF ZInv, ZTypes
      <2>4. ASSUME "z" \notin clashed PROVE ZApart'
            <3>1. ZApart
                  BY <2>4 DEF ZInv
            <3>2. pending[s].text \in HonestTexts /\ zfile = <<>> /\ \A t \in Terminals : WritesTo(t, "z") => s = t
                  BY <2>1, <3>1 DEF ZApart, WritesTo
            <3>3. zfile' = pending[s].text
                  BY <2>1, <3>2, HonestRead, OverNothing
            <3>4. \A t \in Terminals : ~WritesTo(t, "z")'
                  BY <1>2, <3>2 DEF WritesTo
            <3>5. \A t \in Terminals : pending'[t].file = "z" => pending'[t].text \in HonestTexts
                  BY <1>2, <3>1 DEF ZApart
            <3> QED
                BY <2>2, <3>2, <3>3, <3>4, <3>5 DEF ZApart
      <2> QED
          BY <1>1, <2>3, <2>4 DEF ZInv
<1> QED
    BY <1>3, <1>4

LEMMA NextZInv == ASSUME ZInv, [WorkspaceNext]_workspaceVars PROVE ZInv'
<1>0. /\ NoFile.file # "z" /\ "z" \notin SessionNames /\ now \in DOMAIN Stamps
      /\ pending = [t \in Terminals |-> pending[t]] /\ stage = [t \in Terminals |-> stage[t]]
      BY WorkspaceAssumption DEF NoFile, ZInv, ZTypes
<1>1. CASE UNCHANGED workspaceVars
      <2>1. UNCHANGED <<now, visits, dirs, pending, stage, clashed, commands, zfile>>
            BY <1>1 DEF workspaceVars, shared, ghosts
      <2> QED
          BY <1>0, <2>1, Aside
<1>2. ASSUME NEW s \in Terminals, ShellStep(s) PROVE ZInv'
      <2>1. ASSUME NEW d \in Dirs, Cd(s, d) PROVE ZInv'
            BY <2>1, RecordHonest DEF Cd
      <2>2. CASE CdBack(s)
            BY <2>2, RecordHonest DEF CdBack
      <2>3. CASE \E word \in Queries : Z(s, word)
            BY <2>3, ZHonest
      <2>4. CASE \/ (\E d \in Dirs : Pushd(s, d)) \/ Popd(s)
                 \/ \E k \in ToSet(Keys) : Unset(s, k) \/ \E v \in Values : Set(s, k, v)
            <3>1. /\ UNCHANGED <<dirs, now, zfile, visits, pending, stage, clashed>>
                  /\ commands < MaxCommands /\ commands' = commands + 1
                  BY <2>4 DEF Pushd, Popd, Unset, Set, shared, ghosts, Ready
            <3> QED
                BY <1>0, <3>1, Aside
      <2>5. ASSUME NEW n \in SessionNames, Save(s, n) \/ LoadNamed(s, n) PROVE ZInv'
            <3>1. /\ UNCHANGED <<dirs, now, zfile, visits, clashed>>
                  /\ commands < MaxCommands /\ commands' = commands + 1
                  BY <2>5 DEF Save, LoadNamed, shared, ghosts, Ready
            <3>2. \E text, to : pending' = [pending EXCEPT ![s] = [file |-> n, text |-> text]] /\ stage' = [stage EXCEPT ![s] = to]
                  <4>1. CASE Save(s, n)
                        <5>1. /\ pending' = [pending EXCEPT ![s] = [file |-> n, text |-> Text(Current(s, n))]]
                              /\ stage' = [stage EXCEPT ![s] = "open"]
                              BY <4>1 DEF Save
                        <5> QED
                            BY <5>1
                  <4>2. CASE LoadNamed(s, n)
                        <5>1. /\ pending' = [pending EXCEPT ![s] = [file |-> n, text |-> <<>>]]
                              /\ stage' = [stage EXCEPT ![s] = "load"]
                              BY <4>2 DEF LoadNamed
                        <5> QED
                            BY <5>1
                  <4> QED
                      BY <2>5, <4>1, <4>2
            <3>2a. PICK text, to : pending' = [pending EXCEPT ![s] = [file |-> n, text |-> text]] /\ stage' = [stage EXCEPT ![s] = to]
                  BY <3>2
            <3> DEFINE p == [file |-> n, text |-> text]
            <3>3. p.file # "z" /\ pending' = [pending EXCEPT ![s] = p]
                  BY <1>0, <3>2a
            <3> HIDE DEF p
            <3>4. /\ pending' = [t \in Terminals |-> pending'[t]] /\ stage' = [t \in Terminals |-> stage'[t]]
                  /\ \A t \in Terminals : pending'[t].file = "z" => pending'[t] = pending[t] /\ stage'[t] = stage[t]
                  BY <1>0, <3>2a, <3>3
            <3> QED
                BY <1>0, <3>1, <3>4, Aside
      <2>6. ASSUME NEW n \in SessionNames, RemoveSession(s, n) PROVE ZInv'
            <3>1. /\ UNCHANGED <<dirs, now, zfile, visits, pending, clashed>>
                  /\ commands < MaxCommands /\ commands' = commands + 1
                  /\ stage' = [t \in Terminals |-> IF stage[t] = "write" /\ pending[t].file = n THEN "detached" ELSE stage[t]]
                  BY <2>6 DEF RemoveSession, ghosts, Ready
            <3>2. stage' = [t \in Terminals |-> stage'[t]] /\ \A t \in Terminals : stage'[t] = "write" => stage[t] = "write"
                  BY <3>1
            <3> QED
                BY <1>0, <3>1, <3>2, Aside
      <2>7. CASE RestoreSession(s) \/ CannotOpen(s) \/ Killed(s)
            <3>1. /\ UNCHANGED <<dirs, now, zfile, visits, clashed, commands>>
                  /\ pending' = [pending EXCEPT ![s] = NoFile] /\ stage' = [stage EXCEPT ![s] = "prompt"]
                  BY <2>7 DEF RestoreSession, CannotOpen, Killed, shared, ghosts
            <3>2. /\ pending' = [t \in Terminals |-> pending'[t]] /\ stage' = [t \in Terminals |-> stage'[t]]
                  /\ \A t \in Terminals : pending'[t].file = "z" => pending'[t] = pending[t] /\ stage'[t] = stage[t]
                  BY <1>0, <3>1
            <3> QED
                BY <1>0, <3>1, <3>2, Aside
      <2>8. CASE Open(s)
            BY <2>8, OpenHonest
      <2>9. CASE WriteOut(s)
            BY <2>9, WriteHonest
      <2> QED
          BY <1>2, <2>1, <2>2, <2>3, <2>4, <2>5, <2>6, <2>7, <2>8, <2>9 DEF ShellStep
<1>3. ASSUME NEW d \in Dirs, RemoveDir(d) PROVE ZInv'
      <2>1. UNCHANGED <<now, zfile, visits, pending, stage, clashed, commands>> /\ dirs' \subseteq dirs
            BY <1>3 DEF RemoveDir, ghosts
      <2> QED
          BY <1>0, <2>1, Aside
<1>4. ASSUME NEW hours \in {1, 24, 168}, Pass(hours) PROVE ZInv'
      <2>1. UNCHANGED <<dirs, zfile, visits, pending, stage, clashed, commands>> /\ now' \in DOMAIN Stamps
            BY <1>4 DEF Pass, ghosts
      <2> QED
          BY <1>0, <2>1, Aside
<1> QED
    BY <1>1, <1>2, <1>3, <1>4 DEF WorkspaceNext

\* However the shells' rewrites of ~/.tash_z interleave and wherever one is killed: while
\* no two fill the file at once, what it is read as counts no visit that nobody made, and
\* names no directory that is none, for any number of shells, directories and lines kept
\* (z_record_directory in frecency.cpp, which takes no lock).
THEOREM VisitsAreReal == WorkspaceSpec => []CountsAreVisits
<1>1. WorkspaceInit => ZInv
      BY InitZInv
<1>2. ZInv /\ [WorkspaceNext]_workspaceVars => ZInv'
      BY NextZInv
<1>3. ZInv => CountsAreVisits
      <2> SUFFICES ASSUME ZInv, "z" \notin clashed, NEW e \in ToSet(ZEntries(zfile))
                   PROVE  \E d \in Dirs : e.path = Spelling[d] /\ e.frequency <= visits[d]
          BY DEF CountsAreVisits
      <2> DEFINE q == ZEntries(zfile)
      <2>1. q \in Seq(Honest)
            BY HonestRead DEF ZInv, ZApart
      <2>2. e \in Honest
            <3>1. PICK i \in DOMAIN q : e = q[i]
                  BY DEF ToSet
            <3> HIDE DEF q
            <3> QED
                BY <2>1, <3>1
      <2> QED
          BY <2>2 DEF Honest, Visits
<1> QED
    BY <1>1, <1>2, <1>3, PTL DEF WorkspaceSpec

-----------------------------------------------------------------------------
(* Config sync: the versions of a file only grow on their way from the       *)
(* directory to the index, to master, and to the remote.                     *)
Trees == [SyncFiles -> Nat]
Synced == SyncFiles \ Ignored
Precedes(t, u) == \A f \in Synced : t[f] <= u[f]

\* A commit has nothing older than the commits before it.
Lineage(c) == c.tree \in Trees /\ \A p \in c.past : p.tree \in Trees /\ Precedes(p.tree, c.tree)

SyncTypes ==
  /\ work \in [Machines -> Trees] /\ staged \in [Machines -> Trees]
  /\ head = [m \in Machines |-> head[m]] /\ begun \in [Syncers -> Trees]
  /\ doing \in [Syncers -> {"prompt", "add", "commit", "push"}] /\ edits \in Nat

\* From the directory to the remote.
Ordered ==
  /\ \A m \in Machines : Lineage(head[m]) /\ Precedes(head[m].tree, staged[m]) /\ Precedes(staged[m], work[m])
  /\ Lineage(remote)
  /\ \A f \in Synced : remote.tree[f] <= edits /\ \A m \in Machines : work[m][f] <= edits

\* What a push began with is as far as its last step.
Carries(s) ==
  /\ doing[s] = "add" => Precedes(begun[s], work[Here(s)])
  /\ doing[s] = "commit" => Precedes(begun[s], staged[Here(s)])
  /\ doing[s] = "push" => Precedes(begun[s], head[Here(s)].tree)

SyncInv == SyncTypes /\ Ordered /\ \A s \in Syncers : Carries(s)

LEMMA HereIsOne == ASSUME NEW s \in Syncers PROVE Here(s) \in Machines
  BY SyncAssumption DEF Here, Machines, Range

LEMMA PrecedesTrans ==
  ASSUME NEW t \in Trees, NEW u \in Trees, NEW v \in Trees, Precedes(t, u), Precedes(u, v) PROVE Precedes(t, v)
  BY DEF Precedes, Trees, Synced

LEMMA PrecedesSelf == ASSUME NEW t \in Trees PROVE Precedes(t, t)
  BY DEF Precedes, Trees, Synced

LEMMA InitSyncInv == ASSUME SyncInit PROVE SyncInv
<1>1. NoFiles \in Trees /\ \A f \in SyncFiles : NoFiles[f] = 0
      BY DEF NoFiles, Trees
<1>2. None.tree = NoFiles /\ None.past = {}
      BY DEF None
<1> HIDE DEF NoFiles
<1>3. Lineage(None) /\ Precedes(NoFiles, NoFiles)
      BY <1>1, <1>2, PrecedesSelf DEF Lineage
<1>4. SyncTypes
      BY <1>1 DEF SyncInit, SyncTypes
<1>5. Ordered
      BY <1>1, <1>2, <1>3 DEF SyncInit, Ordered, Synced
<1>6. \A s \in Syncers : doing[s] = "prompt"
      BY DEF SyncInit
<1> QED
    BY <1>4, <1>5, <1>6 DEF SyncInv, Carries

\* A push that is at the same step carries what it carried, if nothing became older.
LEMMA StillCarries ==
  ASSUME SyncInv, SyncTypes', NEW s \in Syncers, doing'[s] = doing[s], begun'[s] = begun[s],
         LET m == Here(s) IN
           /\ Precedes(work[m], work'[m]) /\ Precedes(staged[m], staged'[m])
           /\ head'[m].tree \in Trees /\ Precedes(head[m].tree, head'[m].tree)
  PROVE  Carries(s)'
<1> DEFINE m == Here(s)
<1>1. /\ m \in Machines /\ begun[s] \in Trees /\ work[m] \in Trees /\ staged[m] \in Trees /\ head[m].tree \in Trees
      /\ work'[m] \in Trees /\ staged'[m] \in Trees /\ head'[m].tree \in Trees
      BY HereIsOne DEF SyncInv, SyncTypes, Ordered, Lineage
<1>2. Precedes(work[m], work'[m]) /\ Precedes(staged[m], staged'[m]) /\ Precedes(head[m].tree, head'[m].tree)
      OBVIOUS
<1> HIDE DEF m
<1>3. Carries(s)
      BY DEF SyncInv
<1>4. doing[s] = "add" => Precedes(begun[s], work'[m])
      BY <1>1, <1>2, <1>3, PrecedesTrans DEF Carries, m
<1>5. doing[s] = "commit" => Precedes(begun[s], staged'[m])
      BY <1>1, <1>2, <1>3, PrecedesTrans DEF Carries, m
<1>6. doing[s] = "push" => Precedes(begun[s], head'[m].tree)
      BY <1>1, <1>2, <1>3, PrecedesTrans DEF Carries, m
<1> QED
    BY <1>4, <1>5, <1>6 DEF Carries, m, Here

\* What the steps leave alone is as old as it was.
LEMMA Unmoved ==
  ASSUME SyncInv, NEW m \in Machines
  PROVE  Precedes(work[m], work[m]) /\ Precedes(staged[m], staged[m])
         /\ head[m].tree \in Trees /\ Precedes(head[m].tree, head[m].tree)
  BY PrecedesSelf DEF SyncInv, SyncTypes, Ordered, Lineage

LEMMA EditOrdered == ASSUME SyncInv, NEW m \in Machines, NEW f \in SyncFiles, Edit(m, f) PROVE SyncInv'
<1>1. /\ edits' = edits + 1 /\ work' = [work EXCEPT ![m][f] = edits'] /\ edits \in Nat
      /\ UNCHANGED <<staged, head, remote, doing, begun>> /\ work \in [Machines -> Trees]
      BY DEF Edit, SyncInv, SyncTypes
<1>2. \A g \in Synced : \A x \in Machines : work[x][g] <= edits
      BY DEF SyncInv, Ordered
<1>3. ASSUME NEW x \in Machines, NEW g \in SyncFiles
      PROVE  work'[x][g] = (IF x = m /\ g = f THEN edits + 1 ELSE work[x][g]) /\ work[x][g] \in Nat
      BY <1>1 DEF Trees
<1>4. work' \in [Machines -> Trees]
      BY <1>1 DEF Trees
<1>5. SyncTypes'
      BY <1>1, <1>4 DEF SyncInv, SyncTypes
<1>6. \A x \in Machines : Precedes(work[x], work'[x])
      BY <1>1, <1>2, <1>3 DEF Precedes, Synced
<1>7. \A x \in Machines : Precedes(staged[x], work'[x])
      <2> SUFFICES ASSUME NEW x \in Machines PROVE Precedes(staged[x], work'[x])
          OBVIOUS
      <2>1. staged[x] \in Trees /\ work[x] \in Trees /\ work'[x] \in Trees /\ Precedes(staged[x], work[x])
            BY <1>4 DEF SyncInv, SyncTypes, Ordered
      <2> QED
          BY <1>6, <2>1, PrecedesTrans
<1>8. \A g \in Synced : remote.tree[g] <= edits' /\ \A x \in Machines : work'[x][g] <= edits'
      <2> SUFFICES ASSUME NEW g \in Synced, NEW x \in Machines PROVE remote.tree[g] <= edits' /\ work'[x][g] <= edits'
          BY DEF Synced
      <2>1. remote.tree[g] \in Nat /\ remote.tree[g] <= edits
            BY DEF SyncInv, Ordered, Lineage, Trees, Synced
      <2> QED
          BY <1>1, <1>2, <1>3, <2>1 DEF Synced
<1>9. Ordered'
      BY <1>1, <1>7, <1>8 DEF SyncInv, Ordered
<1>10. ASSUME NEW s \in Syncers PROVE Carries(s)'
      <2>1. Here(s) \in Machines
            BY HereIsOne
      <2>2. Precedes(staged[Here(s)], staged'[Here(s)]) /\ head'[Here(s)].tree \in Trees /\ Precedes(head[Here(s)].tree, head'[Here(s)].tree)
            BY <1>1, <2>1, Unmoved
      <2> QED
          BY <1>1, <1>5, <1>6, <2>1, <2>2, StillCarries
<1> QED
    BY <1>5, <1>9, <1>10 DEF SyncInv

\* A step that changes no directory, no index and no commit, but where a push is.
LEMMA OnlyDoing ==
  ASSUME SyncInv, UNCHANGED <<machine, remote, edits>>, begun' \in [Syncers -> Trees],
         doing' \in [Syncers -> {"prompt", "add", "commit", "push"}],
         \A s \in Syncers : (doing'[s] = doing[s] /\ begun'[s] = begun[s]) \/ Carries(s)'
  PROVE  SyncInv'
<1>1. UNCHANGED <<work, staged, head, remote, edits>>
      BY DEF machine
<1>2. SyncTypes' /\ Ordered'
      BY <1>1 DEF SyncInv, SyncTypes, Ordered
<1>3. ASSUME NEW s \in Syncers, doing'[s] = doing[s], begun'[s] = begun[s] PROVE Carries(s)'
      <2>1. Carries(s)
            BY DEF SyncInv
      <2> QED
          BY <1>1, <1>3, <2>1 DEF Carries, Here
<1> QED
    BY <1>2, <1>3 DEF SyncInv

LEMMA PromptOrdered ==
  ASSUME SyncInv, NEW s \in Syncers, SyncInitRepo(s) \/ SyncSetRemote(s)
  PROVE  SyncInv'
<1>1. UNCHANGED <<work, staged, head, remote, edits, doing, begun>>
      BY DEF SyncInitRepo, SyncSetRemote
<1> QED
    BY <1>1 DEF SyncInv, SyncTypes, Ordered, Carries, Here

LEMMA PushOrdered ==
  ASSUME SyncInv, NEW s \in Syncers, SyncPush(s) \/ NoCommit(s) \/ GitFails(s)
  PROVE  SyncInv'
<1>1. Here(s) \in Machines /\ doing \in [Syncers -> {"prompt", "add", "commit", "push"}]
      /\ begun \in [Syncers -> Trees] /\ work \in [Machines -> Trees]
      BY HereIsOne DEF SyncInv, SyncTypes
<1>2. UNCHANGED <<machine, remote, edits>> /\ UNCHANGED <<work, staged, head>>
      BY DEF SyncPush, NoCommit, GitFails, machine
<1>3. \/ doing' = [doing EXCEPT ![s] = "add"] /\ begun' = [begun EXCEPT ![s] = work[Here(s)]]
      \/ doing' = [doing EXCEPT ![s] = "push"] /\ begun' = begun /\ doing[s] = "commit" /\ staged[Here(s)] = head[Here(s)].tree
      \/ doing' = [doing EXCEPT ![s] = "prompt"] /\ begun' = begun
      BY DEF SyncPush, NoCommit, GitFails, Then, NothingToCommit
<1>4. work[Here(s)] \in Trees
      BY <1>1
<1>5. begun' \in [Syncers -> Trees] /\ doing' \in [Syncers -> {"prompt", "add", "commit", "push"}]
      BY <1>1, <1>3, <1>4
<1>6. \A t \in Syncers : t # s => doing'[t] = doing[t] /\ begun'[t] = begun[t]
      BY <1>1, <1>3
<1>7. Carries(s)'
      <2>1. CASE doing' = [doing EXCEPT ![s] = "add"] /\ begun' = [begun EXCEPT ![s] = work[Here(s)]]
            <3>1. doing'[s] = "add" /\ begun'[s] = work[Here(s)]
                  BY <1>1, <2>1
            <3>2. Precedes(work[Here(s)], work[Here(s)])
                  BY <1>4, PrecedesSelf
            <3> QED
                BY <1>2, <3>1, <3>2 DEF Carries, Here
      <2>2. CASE doing' = [doing EXCEPT ![s] = "push"] /\ begun' = begun /\ doing[s] = "commit" /\ staged[Here(s)] = head[Here(s)].tree
            <3>1. doing'[s] = "push" /\ begun'[s] = begun[s]
                  BY <1>1, <2>2
            <3>2. Precedes(begun[s], staged[Here(s)])
                  BY <2>2 DEF SyncInv, Carries
            <3> QED
                BY <1>2, <2>2, <3>1, <3>2 DEF Carries, Here
      <2>3. CASE doing' = [doing EXCEPT ![s] = "prompt"]
            <3>1. doing'[s] = "prompt"
                  BY <1>1, <2>3
            <3> QED
                BY <3>1 DEF Carries
      <2> QED
          BY <1>3, <2>1, <2>2, <2>3
<1>8. \A t \in Syncers : (doing'[t] = doing[t] /\ begun'[t] = begun[t]) \/ Carries(t)'
      BY <1>6, <1>7
<1> QED
    BY <1>2, <1>5, <1>8, OnlyDoing

\* git takes the remote's versions, which are not older than its own.
LEMMA PullOrdered == ASSUME SyncInv, NEW s \in Syncers, SyncPull(s) PROVE SyncInv'
<1> DEFINE m == Here(s)
           new(t) == [f \in SyncFiles |-> IF f \in Touched(m) THEN remote.tree[f] ELSE t[f]]
<1>1. m \in Machines
      BY HereIsOne
<1>2. /\ work \in [Machines -> Trees] /\ staged \in [Machines -> Trees] /\ head = [x \in Machines |-> head[x]]
      /\ remote.tree \in Trees /\ head[m].tree \in Trees
      BY <1>1 DEF SyncInv, SyncTypes, Ordered, Lineage
<1>3. /\ head' = [head EXCEPT ![m] = remote] /\ work' = [work EXCEPT ![m] = new(@)]
      /\ staged' = [staged EXCEPT ![m] = new(@)] /\ UNCHANGED <<remote, doing, begun, edits>>
      BY DEF SyncPull
<1>4. \A f \in Touched(m) : work[m][f] = head[m].tree[f] /\ staged[m][f] = head[m].tree[f]
      BY DEF SyncPull, Clean
<1>5. \A f \in SyncFiles : f \notin Touched(m) => remote.tree[f] = head[m].tree[f]
      BY DEF Touched
<1>6. Precedes(head[m].tree, remote.tree)
      <2>1. head[m] \in remote.past \/ head[m] = None
            BY DEF SyncPull, Ahead
      <2>2. CASE head[m] \in remote.past
            BY <2>2 DEF SyncInv, Ordered, Lineage
      <2>3. CASE head[m] = None
            <3>1. \A f \in SyncFiles : head[m].tree[f] = 0
                  BY <2>3 DEF None, NoFiles
            <3>2. \A f \in SyncFiles : remote.tree[f] >= head[m].tree[f]
                  <4> HIDE DEF m
                  <4>1. \A f \in SyncFiles : remote.tree[f] \in Nat
                        BY <1>2 DEF Trees
                  <4> QED
                      BY <3>1, <4>1
            <3> HIDE DEF m
            <3> QED
                BY <3>2 DEF Precedes, Synced
      <2> QED
          BY <2>1, <2>2, <2>3
<1>7. ASSUME NEW t \in Trees PROVE new(t) \in Trees
      BY <1>2, <1>7 DEF Trees
<1>8. work'[m] = new(work[m]) /\ staged'[m] = new(staged[m]) /\ head'[m] = remote
      BY <1>1, <1>2, <1>3
<1>9. \A x \in Machines : x # m => work'[x] = work[x] /\ staged'[x] = staged[x] /\ head'[x] = head[x]
      BY <1>2, <1>3
<1>10. work[m] \in Trees /\ staged[m] \in Trees
      BY <1>1, <1>2
<1>11. SyncTypes'
      <2>1. new(work[m]) \in Trees /\ new(staged[m]) \in Trees
            BY <1>7, <1>10
      <2> HIDE DEF m, new
      <2>2. work' \in [Machines -> Trees] /\ staged' \in [Machines -> Trees]
            BY <1>1, <1>2, <1>3, <2>1
      <2>3. head' = [x \in Machines |-> head'[x]]
            BY <1>2, <1>3
      <2> QED
          BY <1>3, <2>2, <2>3 DEF SyncInv, SyncTypes
<1>12. \A f \in SyncFiles : /\ work'[m][f] = (IF f \in Touched(m) THEN remote.tree[f] ELSE work[m][f])
                            /\ staged'[m][f] = (IF f \in Touched(m) THEN remote.tree[f] ELSE staged[m][f])
      BY <1>8
<1> HIDE DEF new, m
<1>13. Precedes(head[m].tree, staged[m]) /\ Precedes(staged[m], work[m]) /\ \A f \in Synced : work[m][f] <= edits /\ remote.tree[f] <= edits
      BY <1>1 DEF SyncInv, Ordered
<1>14. \A f \in SyncFiles : remote.tree[f] \in Nat /\ head[m].tree[f] \in Nat /\ work[m][f] \in Nat /\ staged[m][f] \in Nat
      BY <1>2, <1>10 DEF Trees
<1>15. /\ Precedes(remote.tree, staged'[m]) /\ Precedes(staged'[m], work'[m])
       /\ Precedes(work[m], work'[m]) /\ Precedes(staged[m], staged'[m])
       /\ \A f \in Synced : work'[m][f] <= edits
      BY <1>4, <1>5, <1>6, <1>12, <1>13, <1>14 DEF Precedes, Synced
<1>16. Ordered'
      <2>1. Lineage(remote) /\ \A x \in Machines : Lineage(head[x]) /\ Precedes(head[x].tree, staged[x]) /\ Precedes(staged[x], work[x])
            BY DEF SyncInv, Ordered
      <2>2. \A x \in Machines : Lineage(head'[x]) /\ Precedes(head'[x].tree, staged'[x]) /\ Precedes(staged'[x], work'[x])
            <3> SUFFICES ASSUME NEW x \in Machines PROVE Lineage(head'[x]) /\ Precedes(head'[x].tree, staged'[x]) /\ Precedes(staged'[x], work'[x])
                OBVIOUS
            <3>1. CASE x = m
                  BY <1>8, <1>15, <2>1, <3>1
            <3>2. CASE x # m
                  BY <1>9, <2>1, <3>2
            <3> QED
                BY <3>1, <3>2
      <2>3. \A f \in Synced : remote.tree[f] <= edits /\ \A x \in Machines : work'[x][f] <= edits
            <3> SUFFICES ASSUME NEW f \in Synced PROVE remote.tree[f] <= edits /\ \A x \in Machines : work'[x][f] <= edits
                OBVIOUS
            <3>1. \A x \in Machines : x # m => work'[x][f] <= edits
                  BY <1>9 DEF SyncInv, Ordered
            <3> QED
                BY <1>13, <1>15, <3>1
      <2> QED
          BY <1>3, <2>1, <2>2, <2>3 DEF Ordered
<1>17. ASSUME NEW t \in Syncers PROVE Carries(t)'
      <2>1. Here(t) \in Machines /\ doing'[t] = doing[t] /\ begun'[t] = begun[t]
            BY <1>3, HereIsOne
      <2> DEFINE x == Here(t)
      <2>2. /\ Precedes(work[x], work'[x]) /\ Precedes(staged[x], staged'[x])
            /\ head'[x].tree \in Trees /\ Precedes(head[x].tree, head'[x].tree)
            <3>1. CASE x = m
                  BY <1>2, <1>6, <1>8, <1>15, <3>1
            <3>2. CASE x # m
                  BY <1>9, <2>1, <3>2, Unmoved
            <3> QED
                BY <3>1, <3>2
      <2> QED
          BY <1>11, <2>1, <2>2, StillCarries
<1> QED
    BY <1>11, <1>16, <1>17 DEF SyncInv

\* git add -A takes what the directory has.
LEMMA AddOrdered == ASSUME SyncInv, NEW s \in Syncers, GitAdd(s) PROVE SyncInv'
<1> DEFINE m == Here(s)
           index == [f \in SyncFiles |-> IF f \in Ignored THEN 0 ELSE work[m][f]]
<1>1. /\ m \in Machines /\ work \in [Machines -> Trees] /\ staged \in [Machines -> Trees]
      /\ doing \in [Syncers -> {"prompt", "add", "commit", "push"}]
      BY HereIsOne DEF SyncInv, SyncTypes
<1>2. /\ doing[s] = "add" /\ doing' = [doing EXCEPT ![s] = "commit"] /\ staged' = [staged EXCEPT ![m] = index]
      /\ UNCHANGED <<work, head, remote, begun, edits>>
      BY DEF GitAdd, Then
<1>3. index \in Trees /\ \A f \in Synced : index[f] = work[m][f]
      BY <1>1 DEF Trees, Synced
<1> HIDE DEF m, index
<1>4. staged'[m] = index /\ \A x \in Machines : x # m => staged'[x] = staged[x]
      BY <1>1, <1>2
<1>5. SyncTypes'
      <2>1. staged' \in [Machines -> Trees]
            BY <1>1, <1>2, <1>3
      <2> QED
          BY <1>1, <1>2, <2>1 DEF SyncInv, SyncTypes
<1>6. /\ work[m] \in Trees /\ staged[m] \in Trees /\ head[m].tree \in Trees
      /\ Precedes(head[m].tree, staged[m]) /\ Precedes(staged[m], work[m])
      BY <1>1 DEF SyncInv, Ordered, Lineage
<1>7. Precedes(index, work[m]) /\ Precedes(work[m], index)
      BY <1>3, <1>6, PrecedesSelf DEF Precedes
<1>8. Precedes(staged[m], index) /\ Precedes(head[m].tree, index)
      BY <1>3, <1>6, <1>7, PrecedesTrans
<1>9. Ordered'
      <2>1. \A x \in Machines : Lineage(head[x]) /\ Precedes(head[x].tree, staged'[x]) /\ Precedes(staged'[x], work[x])
            BY <1>4, <1>7, <1>8 DEF SyncInv, Ordered
      <2> QED
          BY <1>2, <2>1 DEF SyncInv, Ordered
<1>10. ASSUME NEW t \in Syncers PROVE Carries(t)'
      <2>1. CASE t = s
            <3>1. doing'[s] = "commit" /\ begun[s] \in Trees
                  BY <1>1, <1>2 DEF SyncInv, SyncTypes
            <3>2. Precedes(begun[s], work[m])
                  BY <1>2 DEF SyncInv, Carries, m
            <3>3. Precedes(begun[s], staged'[m])
                  BY <1>3, <1>4, <1>6, <1>7, <3>1, <3>2, PrecedesTrans
            <3> QED
                BY <1>2, <2>1, <3>1, <3>3 DEF Carries, Here, m
      <2>2. CASE t # s
            <3>1. Here(t) \in Machines /\ doing'[t] = doing[t] /\ begun'[t] = begun[t]
                  BY <1>1, <1>2, <2>2, HereIsOne
            <3> DEFINE x == Here(t)
            <3>2. Precedes(staged[x], staged'[x])
                  BY <1>4, <1>8, <3>1, Unmoved
            <3>3. Precedes(work[x], work'[x]) /\ head'[x].tree \in Trees /\ Precedes(head[x].tree, head'[x].tree)
                  BY <1>2, <3>1, Unmoved
            <3> QED
                BY <1>5, <3>1, <3>2, <3>3, StillCarries
      <2> QED
          BY <2>1, <2>2
<1> QED
    BY <1>5, <1>9, <1>10 DEF SyncInv

\* git commit puts the index on master.
LEMMA CommitOrdered == ASSUME SyncInv, NEW s \in Syncers, GitCommit(s) PROVE SyncInv'
<1> DEFINE m == Here(s)
           c == [tree |-> staged[m], past |-> head[m].past \cup {head[m]}]
<1>1. /\ m \in Machines /\ staged \in [Machines -> Trees] /\ head = [x \in Machines |-> head[x]]
      /\ doing \in [Syncers -> {"prompt", "add", "commit", "push"}]
      BY HereIsOne DEF SyncInv, SyncTypes
<1>2. /\ doing[s] = "commit" /\ doing' = [doing EXCEPT ![s] = "push"] /\ head' = [head EXCEPT ![m] = c]
      /\ UNCHANGED <<work, staged, remote, begun, edits>>
      BY DEF GitCommit, Then
<1>3. c.tree = staged[m] /\ c.past = head[m].past \cup {head[m]}
      OBVIOUS
<1> HIDE DEF m, c
<1>4. head'[m] = c /\ \A x \in Machines : x # m => head'[x] = head[x]
      BY <1>1, <1>2
<1>5. SyncTypes'
      <2>1. head' = [x \in Machines |-> head'[x]]
            BY <1>1, <1>2
      <2> QED
          BY <1>1, <1>2, <2>1 DEF SyncInv, SyncTypes
<1>6. /\ staged[m] \in Trees /\ head[m].tree \in Trees /\ Lineage(head[m])
      /\ Precedes(head[m].tree, staged[m]) /\ Precedes(staged[m], staged[m])
      BY <1>1, Unmoved DEF SyncInv, Ordered, Lineage
<1>7. Lineage(c)
      <2> SUFFICES ASSUME NEW p \in c.past PROVE p.tree \in Trees /\ Precedes(p.tree, c.tree)
          BY <1>3, <1>6 DEF Lineage
      <2>1. CASE p = head[m]
            BY <1>3, <1>6, <2>1
      <2>2. CASE p \in head[m].past
            BY <1>3, <1>6, <2>2, PrecedesTrans DEF Lineage
      <2> QED
          BY <1>3, <2>1, <2>2
<1>8. Ordered'
      <2>1. \A x \in Machines : Lineage(head'[x]) /\ Precedes(head'[x].tree, staged[x]) /\ Precedes(staged[x], work[x])
            BY <1>3, <1>4, <1>6, <1>7 DEF SyncInv, Ordered
      <2> QED
          BY <1>2, <2>1 DEF SyncInv, Ordered
<1>9. ASSUME NEW t \in Syncers PROVE Carries(t)'
      <2>1. CASE t = s
            <3>1. doing'[s] = "push"
                  BY <1>1, <1>2
            <3>2. Precedes(begun[s], staged[m])
                  BY <1>2 DEF SyncInv, Carries, m
            <3> QED
                BY <1>2, <1>3, <1>4, <2>1, <3>1, <3>2 DEF Carries, Here, m
      <2>2. CASE t # s
            <3>1. Here(t) \in Machines /\ doing'[t] = doing[t] /\ begun'[t] = begun[t]
                  BY <1>1, <1>2, <2>2, HereIsOne
            <3> DEFINE x == Here(t)
            <3>2. head'[x].tree \in Trees /\ Precedes(head[x].tree, head'[x].tree)
                  BY <1>3, <1>4, <1>6, <3>1, Unmoved
            <3>3. Precedes(work[x], work'[x]) /\ Precedes(staged[x], staged'[x])
                  BY <1>2, <3>1, Unmoved
            <3> QED
                BY <1>5, <3>1, <3>2, <3>3, StillCarries
      <2> QED
          BY <2>1, <2>2
<1> QED
    BY <1>5, <1>8, <1>9 DEF SyncInv

\* git push puts master on the remote.
LEMMA RemoteOrdered ==
  ASSUME SyncInv, NEW s \in Syncers, GitPush(s)
  PROVE  SyncInv' /\ \A f \in Synced : remote'.tree[f] >= begun[s][f]
<1> DEFINE m == Here(s)
<1>1. /\ m \in Machines /\ doing \in [Syncers -> {"prompt", "add", "commit", "push"}]
      /\ begun[s] \in Trees /\ work[m] \in Trees /\ staged[m] \in Trees
      BY HereIsOne DEF SyncInv, SyncTypes
<1>2. /\ doing[s] = "push" /\ doing' = [doing EXCEPT ![s] = "prompt"] /\ remote' = head[m]
      /\ UNCHANGED <<work, staged, head, begun, edits>>
      BY DEF GitPush, Then, machine
<1>3. SyncTypes'
      BY <1>1, <1>2 DEF SyncInv, SyncTypes
<1>4. Lineage(head[m]) /\ head[m].tree \in Trees /\ Precedes(head[m].tree, staged[m]) /\ Precedes(staged[m], work[m])
      BY <1>1 DEF SyncInv, Ordered, Lineage
<1>5. Precedes(head[m].tree, work[m])
      BY <1>1, <1>4, PrecedesTrans
<1>6. \A f \in Synced : head[m].tree[f] <= edits
      <2> SUFFICES ASSUME NEW f \in Synced PROVE head[m].tree[f] <= edits
          OBVIOUS
      <2>1. head[m].tree[f] \in Nat /\ work[m][f] \in Nat /\ edits \in Nat /\ work[m][f] <= edits
            BY <1>1, <1>4 DEF Trees, Synced, SyncInv, SyncTypes, Ordered
      <2> QED
          BY <1>5, <2>1 DEF Precedes
<1> HIDE DEF m
<1>7. Ordered'
      BY <1>2, <1>4, <1>6 DEF SyncInv, Ordered
<1>8. ASSUME NEW t \in Syncers PROVE Carries(t)'
      <2>1. CASE t = s
            BY <1>1, <1>2, <2>1 DEF Carries
      <2>2. CASE t # s
            <3>1. Here(t) \in Machines /\ doing'[t] = doing[t] /\ begun'[t] = begun[t]
                  BY <1>1, <1>2, <2>2, HereIsOne
            <3> QED
                BY <1>2, <1>3, <3>1, StillCarries, Unmoved
      <2> QED
          BY <2>1, <2>2
<1>9. \A f \in Synced : remote'.tree[f] >= begun[s][f]
      <2>1. Precedes(begun[s], head[m].tree)
            BY <1>2 DEF SyncInv, Carries, m
      <2>2. \A f \in Synced : begun[s][f] \in Nat /\ head[m].tree[f] \in Nat
            BY <1>1, <1>4 DEF Trees, Synced
      <2> QED
          BY <1>2, <2>1, <2>2 DEF Precedes
<1> QED
    BY <1>3, <1>7, <1>8, <1>9 DEF SyncInv

LEMMA NextSyncInv == ASSUME SyncInv, [SyncNext]_syncVars PROVE SyncInv'
<1>1. CASE UNCHANGED syncVars
      BY <1>1 DEF syncVars, SyncInv, SyncTypes, Ordered, Carries, Here
<1>2. CASE \E m \in Machines, f \in SyncFiles : Edit(m, f)
      BY <1>2, EditOrdered
<1>3. ASSUME NEW s \in Syncers,
             \/ SyncInitRepo(s) \/ SyncSetRemote(s) \/ SyncPull(s)
             \/ SyncPush(s) \/ GitAdd(s) \/ GitCommit(s) \/ NoCommit(s) \/ GitPush(s) \/ GitFails(s)
      PROVE  SyncInv'
      BY <1>3, PromptOrdered, PullOrdered, PushOrdered, AddOrdered, CommitOrdered, RemoteOrdered
<1> QED
    BY <1>1, <1>2, <1>3 DEF SyncNext

\* A push that reports ok has put on the remote what the directory held when it
\* began, or what is newer, whatever other shells and programs did between its runs
\* of git, and whatever failed before (sync_push, sync_pull in config_sync.cpp).
THEOREM PushesArrive == SyncSpec => PushedIsThere
<1>1. SyncInit => SyncInv
      BY InitSyncInv
<1>2. SyncInv /\ [SyncNext]_syncVars => SyncInv'
      BY NextSyncInv
<1>3. SyncInv => [\A s \in Syncers : GitPush(s) =>
                    \A f \in SyncFiles \ Ignored : remote'.tree[f] >= begun[s][f]]_syncVars
      BY RemoteOrdered DEF Synced
<1> QED
    BY <1>1, <1>2, <1>3, PTL DEF SyncSpec, PushedIsThere

-----------------------------------------------------------------------------
(* The history database.                                                    *)

Words == UNION {ToSet(words) : words \in Asked}
Args == [ok : BOOLEAN, exit : {0, 2}, wants : {"", "limit", "search"}, stats : BOOLEAN, here : BOOLEAN,
         failed : BOOLEAN, limit : Nat \ {0}, search : Seq(Words)]

LEMMA ReadWordArgs ==
  ASSUME NEW a \in Args, NEW word \in Words PROVE ReadWord(a, word) \in Args
<1> USE HistoryAssumption
<1>1. Limit(word) \in Nat \ {0} \/ word \notin DOMAIN NumberIn
      BY DEF Limit
<1>2. a.search \in Seq(Words)
      BY DEF Args
<1>3. <<word>> \in Seq(Words) /\ Append(a.search, word) \in Seq(Words)
      <2> DEFINE s == a.search
      <2>1. s \in Seq(Words)
            BY <1>2
      <2> HIDE DEF s
      <2>2. Append(s, word) \in Seq(Words)
            BY <2>1
      <2> QED
          BY <2>2 DEF s
<1>4. \A b \in BOOLEAN : [a EXCEPT !.stats = b] \in Args /\ [a EXCEPT !.here = b] \in Args /\ [a EXCEPT !.failed = b] \in Args
      BY DEF Args
<1>5. [a EXCEPT !.ok = FALSE] \in Args /\ [a EXCEPT !.ok = FALSE, !.exit = 2] \in Args
      BY DEF Args
<1>6. [a EXCEPT !.wants = "limit"] \in Args /\ [a EXCEPT !.wants = "search"] \in Args
      BY DEF Args
<1>7. [a EXCEPT !.wants = "", !.search = <<word>>] \in Args /\ [a EXCEPT !.search = Append(a.search, word)] \in Args
      BY <1>3 DEF Args
<1>8. word \in DOMAIN NumberIn => [a EXCEPT !.wants = "", !.limit = Limit(word)] \in Args
      BY <1>1 DEF Args
<1> QED
    BY <1>4, <1>5, <1>6, <1>7, <1>8 DEF ReadWord

LEMMA ReadWordsIs ==
  ASSUME NEW words \in Asked
  PROVE  ReadWords(words)[Len(words)] \in Args
<1> DEFINE n == Len(words)
           read == ReadWords(words)
           F == [i \in 1..n |-> [a \in Args |-> ReadWord(a, words[i])]]
<1>1. n \in Nat /\ \A i \in 1..n : words[i] \in Words
      BY HistoryAssumption DEF Words
<1>2. NoArgs \in Args
      BY HistoryAssumption DEF NoArgs, Args
<1>3. F \in [1..n -> [Args -> Args]]
      BY <1>1, ReadWordArgs
<1>4. PICK g : Recurs(g, n, Args, NoArgs, F)
      <2> HIDE DEF F, n
      <2> QED
          BY <1>1, <1>2, <1>3, RecursionExists
<1>5. g = [i \in 0..n |-> IF i = 0 THEN NoArgs ELSE ReadWord(g[i - 1], words[i])]
      <2>1. ASSUME NEW i \in 1..n PROVE g[i] = ReadWord(g[i - 1], words[i])
            <3>1. i - 1 \in 0..n /\ g[i - 1] \in Args
                  BY <1>1, <1>4 DEF Recurs
            <3> QED
                BY <1>4, <3>1 DEF Recurs
      <2> HIDE DEF F, n
      <2> QED
          BY <1>1, <1>4, <2>1 DEF Recurs
<1>6. read = [i \in 0..n |-> IF i = 0 THEN NoArgs ELSE ReadWord(read[i - 1], words[i])]
      BY <1>5 DEF ReadWords
<1> HIDE DEF read
<1>7. ASSUME NEW i \in 1..n, read[i - 1] \in Args PROVE read[i] = F[i][read[i - 1]]
      <2>1. read[i] = ReadWord(read[i - 1], words[i])
            BY <1>1, <1>6
      <2> QED
          BY <1>7, <2>1
<1>8. read[0] = NoArgs /\ read = [i \in 0..n |-> read[i]]
      BY <1>1, <1>6
<1>9. Recurs(read, n, Args, NoArgs, F)
      <2> HIDE DEF F, n
      <2> QED
          BY <1>1, <1>2, <1>3, <1>7, <1>8, RecursionIs
<1> QED
    BY <1>1, <1>9 DEF Recurs, read

LEMMA ParseArgsIs ==
  ASSUME NEW words \in Asked PROVE ParseArgs(words) \in Args
<1> DEFINE a == ReadWords(words)[Len(words)]
<1>1. a \in Args
      BY ReadWordsIs
<1> HIDE DEF a
<1>2. [a EXCEPT !.ok = FALSE, !.exit = 2] \in Args
      BY <1>1 DEF Args
<1>3. ParseArgs(words) = IF a.ok /\ a.wants # "" THEN [a EXCEPT !.ok = FALSE, !.exit = 2] ELSE a
      BY DEF ParseArgs, a
<1> QED
    BY <1>1, <1>2, <1>3

\* What the shells put into the database.
RunTexts == {Trimmed(r.command) : r \in Runs} \cup {Trimmed(<<" ">> \o r.command) : r \in Runs}
         \cup {Trimmed(<<"history">> \o words) : words \in Asked} \cup {<<>>}
RunCodes == {r.exit : r \in Runs} \cup {0, 2}
RunDirs == {r.dir : r \in Runs} \cup {""}
Entries == [command : RunTexts, exit : RunCodes, dir : RunDirs, time : Nat]

HistoryTypeOK ==
  /\ clock \in 0..MaxClock /\ rows \in Seq(Entries) /\ inserting \in [Users -> Entries] /\ starts \in 0..MaxStarts

\* b lists H once, the newest first.
Lists(b, H) ==
  /\ IsFiniteSet(H) /\ Cardinality(H) \in Nat /\ H \subseteq DOMAIN rows
  /\ Len(b) = Cardinality(H) /\ b \in [1..Cardinality(H) -> H]
  /\ \A x \in H : \E n \in 1..Cardinality(H) : b[n] = x
  /\ \A i, j \in 1..Cardinality(H) : i < j => b[i] # b[j] /\ rows[b[j]].time <= rows[b[i]].time

LEMMA TimesAreNumbers ==
  ASSUME HistoryTypeOK
  PROVE  DOMAIN rows = 1..Len(rows) /\ Len(rows) \in Nat /\ \A i \in DOMAIN rows : rows[i].time \in Nat
<1>1. \A i \in DOMAIN rows : rows[i] \in Entries
      BY DEF HistoryTypeOK
<1> QED
    BY <1>1 DEF HistoryTypeOK, Entries

LEMMA NewestFirstLists ==
  ASSUME HistoryTypeOK, NEW hits \in SUBSET DOMAIN rows
  PROVE  Lists(NewestFirst(hits), hits)
<1> DEFINE order == {p \in hits \X hits : Newer(p[1], p[2])}
           b == Arranged(hits, order)
<1>1. IsFiniteSet(hits) /\ hits \in SUBSET Nat
      <2>1. hits \in SUBSET (1..Len(rows)) /\ Len(rows) \in Int
            BY TimesAreNumbers
      <2>2. IsFiniteSet(1..Len(rows))
            BY <2>1, FS_Interval
      <2> QED
          BY <2>1, <2>2, FS_Subset
<1>2. \A x, y \in hits : <<x, y>> \in order <=> Newer(x, y)
      OBVIOUS
<1> HIDE DEF order
<1>3. LinesUp(hits, order)
      BY <1>1, <1>2, TimesAreNumbers DEF LinesUp, Newer
<1>4. IsArranged(b, hits, order)
      BY <1>1, <1>3, ArrangedIs
<1>5. NewestFirst(hits) = b
      BY DEF NewestFirst, order
<1> HIDE DEF b
<1>6. \A i, j \in 1..Cardinality(hits) : i < j => b[i] # b[j] /\ rows[b[j]].time <= rows[b[i]].time
      <2> TAKE i, j \in 1..Cardinality(hits)
      <2>1. b[i] \in hits /\ b[j] \in hits
            BY <1>4 DEF IsArranged
      <2>2. i < j => Newer(b[i], b[j])
            <3>1. i < j => <<b[i], b[j]>> \in order
                  BY <1>4 DEF IsArranged
            <3> QED
                BY <1>2, <2>1, <3>1
      <2>3. /\ b[i] \in Nat /\ b[j] \in Nat
            /\ rows[b[i]].time \in Nat /\ rows[b[j]].time \in Nat
            BY <1>1, <2>1, TimesAreNumbers
      <2> QED
          BY <2>2, <2>3 DEF Newer
<1>7. \A x \in hits : \E n \in 1..Cardinality(hits) : b[n] = x
      BY <1>4 DEF IsArranged
<1> QED
    BY <1>1, <1>4, <1>5, <1>6, <1>7 DEF Lists, IsArranged

\* Of a list, those that pass a test list the ones that pass it.
LEMMA PickedLists ==
  ASSUME HistoryTypeOK, NEW b, NEW H, Lists(b, H), NEW P \in SUBSET H
  PROVE  Lists(Picked(b, {k \in DOMAIN b : b[k] \in P}), P)
<1> DEFINE picks == {k \in DOMAIN b : b[k] \in P}
           p == Picked(b, picks)
           from == Ascending(picks)
           m == Cardinality(picks)
<1>1. b \in Seq(H) /\ DOMAIN b = 1..Cardinality(H) /\ picks \in SUBSET DOMAIN b
      BY DEF Lists
<1>2. p \in Seq(H) /\ IsPicked(p, b, picks, from)
      BY <1>1, PickedIs
<1>3. \A n \in 1..m : from[n] \in DOMAIN b /\ b[from[n]] \in P /\ p[n] = b[from[n]]
      BY <1>2 DEF IsPicked
<1>4. \A k \in DOMAIN b : b[k] \in P => \E n \in 1..m : from[n] = k
      BY <1>2 DEF IsPicked, IsAscending
<1>5. \A i, j \in 1..m : i < j => from[i] < from[j]
      BY <1>2 DEF IsPicked, IsAscending
<1>6. m \in Nat /\ Len(p) = m /\ DOMAIN p = 1..m
      BY <1>2 DEF IsPicked, IsAscending
<1> HIDE DEF picks, p, from, m
<1>7. p \in [1..m -> P]
      <2>1. p = [n \in 1..m |-> p[n]]
            BY <1>2, <1>6
      <2> QED
          BY <1>3, <2>1
<1>8. \A x \in P : \E n \in 1..m : p[n] = x
      <2> TAKE x \in P
      <2>1. PICK k \in DOMAIN b : b[k] = x
            BY <1>1 DEF Lists
      <2>2. PICK n \in 1..m : from[n] = k
            BY <1>4, <2>1
      <2> QED
          BY <1>3, <2>1, <2>2
<1>9. \A i, j \in 1..m : i < j => p[i] # p[j] /\ rows[p[j]].time <= rows[p[i]].time
      <2> TAKE i, j \in 1..m
      <2> HAVE i < j
      <2>1. from[i] < from[j] /\ from[i] \in 1..Cardinality(H) /\ from[j] \in 1..Cardinality(H)
            BY <1>1, <1>3, <1>5
      <2>2. b[from[i]] # b[from[j]] /\ rows[b[from[j]]].time <= rows[b[from[i]]].time
            BY <2>1 DEF Lists
      <2> QED
          BY <1>3, <2>2
<1>10. IsFiniteSet(P) /\ Cardinality(P) = m
      <2>1. p \in Bijection(1..m, P)
            <3>1. \A i, j \in 1..m : p[i] = p[j] => i = j
                  BY <1>6, <1>9
            <3> QED
                BY <1>7, <1>8, <3>1 DEF Bijection, Injection, Surjection, IsInjective
      <2>2. ExistsBijection(1..m, P)
            BY <2>1 DEF ExistsBijection
      <2>3. IsFiniteSet(1..m) /\ Cardinality(1..m) = m
            BY <1>6, FS_Interval
      <2> QED
          BY <2>2, <2>3, FS_Bijection
<1> QED
    BY <1>6, <1>7, <1>8, <1>9, <1>10 DEF Lists, p, picks

LEMMA MinOfTwo ==
  ASSUME NEW a \in Nat, NEW b \in Nat PROVE Min({a, b}) = IF a < b THEN a ELSE b
BY DEF Min

\* The first of a list, turned round, are the newest.
LEMMA ListsTheNewestOf ==
  ASSUME HistoryTypeOK, NEW b, NEW H, Lists(b, H), NEW limit \in Nat
  PROVE  NewestOf(limit, H, Reverse(FirstOf(limit, b)))
<1> DEFINE m == Min({limit, Len(b)})
           shown == Reverse(FirstOf(limit, b))
           n == Cardinality(H)
<1>1. b \in Seq(H) /\ n \in Nat /\ Len(b) = n /\ DOMAIN b = 1..n
      BY DEF Lists
<1>2. m \in 0..n /\ m = Min({limit, n}) /\ (m = limit \/ m = n)
      BY <1>1, MinOfTwo
<1> HIDE DEF m, n
<1>3. shown = [i \in 1..m |-> b[m - i + 1]]
      <2>1. FirstOf(limit, b) = [i \in 1..m |-> b[i]]
            BY <1>1, <1>2 DEF FirstOf, m
      <2> DEFINE f == FirstOf(limit, b)
      <2>2. f = [i \in 1..m |-> b[i]]
            BY <2>1
      <2> HIDE DEF f
      <2>3. Len(f) = m /\ \A i \in 1..m : f[m - i + 1] = b[m - i + 1]
            BY <1>2, <2>2
      <2>4. shown = [i \in 1..m |-> f[m - i + 1]]
            BY <2>3 DEF Reverse, f
      <2> QED
          BY <2>3, <2>4
<1> HIDE DEF shown
<1>4. Len(shown) = m /\ DOMAIN shown = 1..m /\ \A i \in 1..m : shown[i] = b[m - i + 1] /\ m - i + 1 \in 1..n
      BY <1>1, <1>2, <1>3
<1>5. \A i, j \in 1..n : i < j => b[i] # b[j] /\ rows[b[j]].time <= rows[b[i]].time
      BY DEF Lists, n
<1>6. \A i \in 1..n : b[i] \in H /\ b[i] \in DOMAIN rows
      BY DEF Lists, n
<1>7. ToSet(shown) \subseteq H
      BY <1>4, <1>6 DEF ToSet
<1>8. IsInjective(shown)
      <2> SUFFICES ASSUME NEW i \in 1..m, NEW j \in 1..m, shown[i] = shown[j] PROVE i = j
          BY <1>4 DEF IsInjective
      <2>1. m - i + 1 \in 1..n /\ m - j + 1 \in 1..n /\ b[m - i + 1] = b[m - j + 1]
            BY <1>4
      <2>2. m - i + 1 = m - j + 1
            BY <1>1, <1>5, <2>1
      <2> QED
          BY <1>2, <2>2
<1>9. ASSUME NEW i \in DOMAIN shown, NEW j \in DOMAIN shown, i < j
      PROVE  rows[shown[i]].time <= rows[shown[j]].time
      <2>1. m - j + 1 < m - i + 1 /\ m - j + 1 \in 1..n /\ m - i + 1 \in 1..n
            BY <1>1, <1>2, <1>4, <1>9
      <2> QED
          BY <1>4, <1>5, <2>1
<1>10. ASSUME NEW h \in H \ ToSet(shown), NEW i \in DOMAIN shown
       PROVE  rows[h].time <= rows[shown[i]].time
      <2>1. PICK k \in 1..n : b[k] = h
            BY DEF Lists, n
      <2>2. k > m
            <3> SUFFICES ASSUME k <= m PROVE h \in ToSet(shown)
                BY <1>2, <1>10
            <3>1. m - k + 1 \in 1..m /\ m - (m - k + 1) + 1 = k
                  BY <1>2
            <3>2. shown[m - k + 1] = b[k]
                  BY <1>4, <3>1
            <3> QED
                BY <1>4, <2>1, <3>1, <3>2 DEF ToSet
      <2>3. m - i + 1 < k /\ m - i + 1 \in 1..n
            BY <1>1, <1>2, <1>4, <1>10, <2>2
      <2> QED
          BY <1>4, <1>5, <2>1, <2>3
<1> QED
    BY <1>1, <1>2, <1>4, <1>7, <1>8, <1>9, <1>10 DEF NewestOf, shown, n

LEMMA WideIs == ASSUME NEW limit \in Nat PROVE Wide(limit) \in Nat
<1>1. WideFloor \in Nat
      BY HistoryAssumption
<1>2. 4 * limit \in Nat
      OBVIOUS
<1>3. \A a, b \in Nat : Max({a, b}) \in Nat
      BY DEF Max
<1> QED
    BY <1>1, <1>2, <1>3 DEF Wide

LEMMA SearchLists ==
  ASSUME HistoryTypeOK, NEW search, NEW dir, NEW limit \in Nat
  PROVE  LET hits == {i \in DOMAIN rows : Matches(rows[i], search, dir)} IN
         /\ Lists(NewestFirst(hits), hits)
         /\ NewestOf(limit, hits, Reverse(Search(search, dir, limit)))
         /\ Cardinality(hits) <= limit => Search(search, dir, limit) = NewestFirst(hits)
<1> DEFINE hits == {i \in DOMAIN rows : Matches(rows[i], search, dir)}
           b == NewestFirst(hits)
<1>1. Lists(b, hits)
      BY NewestFirstLists
<1>2. Search(search, dir, limit) = FirstOf(limit, b)
      BY DEF Search, Newest
<1> HIDE DEF hits, b
<1>3. NewestOf(limit, hits, Reverse(FirstOf(limit, b)))
      BY <1>1, ListsTheNewestOf
<1>4. Cardinality(hits) <= limit => FirstOf(limit, b) = b
      <2>1. b \in Seq(hits) /\ Len(b) = Cardinality(hits) /\ Cardinality(hits) \in Nat
            BY <1>1 DEF Lists
      <2>2. Cardinality(hits) <= limit => Min({limit, Len(b)}) = Len(b)
            BY <2>1, MinOfTwo
      <2> QED
          BY <2>1, <2>2 DEF FirstOf
<1> QED
    BY <1>1, <1>2, <1>3, <1>4 DEF hits, b

\* What history is asked for is what it lists.
LEMMA ListedIsNewest ==
  ASSUME HistoryTypeOK, NEW args \in Args, NEW dir
  PROVE  LET hits == {i \in DOMAIN rows : Matches(rows[i], args.search, IF args.here THEN dir ELSE "")}
             asked == {i \in hits : args.failed => rows[i].exit # 0}
         IN (args.failed => Cardinality(hits) <= Wide(args.limit)) => NewestOf(args.limit, asked, Reverse(Listed(args, dir)))
<1> DEFINE here == IF args.here THEN dir ELSE ""
           hits == {i \in DOMAIN rows : Matches(rows[i], args.search, here)}
           asked == {i \in hits : args.failed => rows[i].exit # 0}
<1> SUFFICES ASSUME args.failed => Cardinality(hits) <= Wide(args.limit)
             PROVE  NewestOf(args.limit, asked, Reverse(Listed(args, dir)))
    OBVIOUS
<1>1. args.limit \in Nat /\ args.failed \in BOOLEAN
      BY DEF Args
<1>2. CASE ~args.failed
      <2>1. asked = hits
            BY <1>2
      <2>2. Listed(args, dir) = Search(args.search, here, args.limit)
            BY <1>2 DEF Listed
      <2>3. NewestOf(args.limit, hits, Reverse(Search(args.search, here, args.limit)))
            BY <1>1, SearchLists
      <2> QED
          BY <2>1, <2>2, <2>3
<1>3. CASE args.failed
      <2> DEFINE wide == Wide(args.limit)
                 b == NewestFirst(hits)
      <2>1. wide \in Nat
            BY <1>1, WideIs
      <2>2. Lists(b, hits) /\ (Cardinality(hits) <= wide => Search(args.search, here, wide) = b)
            BY <2>1, SearchLists
      <2> HIDE DEF wide
      <2>3. Search(args.search, here, wide) = b
            BY <1>3, <2>2 DEF wide
      <2> HIDE DEF b, here, hits
      <2> DEFINE kept == {k \in DOMAIN b : rows[b[k]].exit # 0}
      <2>4. kept = {k \in DOMAIN b : b[k] \in asked}
            BY <1>3, <2>2 DEF Lists
      <2>5. asked \in SUBSET hits
            OBVIOUS
      <2> HIDE DEF asked, kept
      <2>6. Lists(Picked(b, kept), asked)
            BY <2>2, <2>4, <2>5, PickedLists
      <2>7. NewestOf(args.limit, asked, Reverse(FirstOf(args.limit, Picked(b, kept))))
            BY <1>1, <2>6, ListsTheNewestOf
      <2>8. Listed(args, dir) = FirstOf(args.limit, Picked(b, kept))
            <3>1. Listed(args, dir) = Failed(args, here)
                  BY <1>3 DEF Listed, here
            <3> QED
                BY <2>3, <3>1 DEF Failed, kept, wide
      <2> QED
          BY <2>7, <2>8
<1> QED
    BY <1>1, <1>2, <1>3

\* The line that is being run is printed last, and only once.
LEMMA PrintedIs ==
  ASSUME NEW words, NEW dir, ParseArgs(words).ok, ~ParseArgs(words).stats,
         NEW found, found = Listed(ParseArgs(words), dir), NEW T, found \in Seq(T)
  PROVE  LET printed == Printed(words, dir)
             shown == Reverse(found)
         IN /\ SubSeq(printed, 1, Len(shown)) = [k \in DOMAIN shown |-> rows[shown[k]].command]
            /\ ParseArgs(words).failed \/ Last(printed) = <<"history">> \o words
<1> DEFINE typed == <<"history">> \o words
           n == Len(found)
           C == {rows[found[k]].command : k \in 1..n} \cup {typed}
           typedIn == [k \in 1..n |-> rows[found[k]].command]
           inFlight == ~ParseArgs(words).failed /\ ~(typedIn # <<>> /\ Head(typedIn) = typed)
           list == IF inFlight THEN <<typed>> \o typedIn ELSE typedIn
           shown == Reverse(found)
<1>1. n \in Nat /\ DOMAIN found = 1..n
      OBVIOUS
<1> HIDE DEF typed
<1>2. Printed(words, dir) = Reverse(list)
      BY <1>1 DEF Printed, typed
<1>3. shown = [k \in 1..n |-> found[n - k + 1]]
      BY DEF Reverse
<1> HIDE DEF shown
<1>4. Len(shown) = n /\ DOMAIN shown = 1..n /\ \A k \in 1..n : rows[shown[k]].command = typedIn[n - k + 1]
      <2>1. \A k \in 1..n : n - k + 1 \in 1..n
            BY <1>1
      <2> QED
          BY <1>1, <1>3, <2>1
<1>5. typedIn \in Seq(C) /\ Len(typedIn) = n /\ typed \in C
      BY <1>1
<1> HIDE DEF typedIn, C, n
<1>6. CASE inFlight
      <2>1. list = <<typed>> \o typedIn
            BY <1>6
      <2> HIDE DEF list, inFlight
      <2>2. list \in Seq(C) /\ Len(list) = n + 1 /\ list[1] = typed /\ \A k \in 1..n : list[k + 1] = typedIn[k]
            BY <1>1, <1>5, <2>1
      <2> DEFINE p == Reverse(list)
      <2>3. p = [k \in 1..n + 1 |-> list[n + 1 - k + 1]]
            BY <1>1, <2>2 DEF Reverse
      <2> HIDE DEF p
      <2>4. p \in Seq(C) /\ Len(p) = n + 1 /\ p[n + 1] = typed
            BY <1>1, <2>2, <2>3
      <2>5. \A k \in 1..n : p[k] = typedIn[n - k + 1]
            <3> TAKE k \in 1..n
            <3>1. p[k] = list[n - k + 1 + 1] /\ n - k + 1 \in 1..n
                  BY <1>1, <2>3
            <3> QED
                BY <2>2, <3>1
      <2>6. SubSeq(p, 1, n) = [k \in 1..n |-> typedIn[n - k + 1]]
            BY <1>1, <2>4, <2>5
      <2>7. SubSeq(p, 1, Len(shown)) = [k \in DOMAIN shown |-> rows[shown[k]].command]
            BY <1>4, <2>6
      <2> QED
          BY <1>2, <2>4, <2>7 DEF Last, p, shown, typed
<1>7. CASE ~inFlight
      <2>1. list = typedIn /\ (ParseArgs(words).failed \/ (typedIn # <<>> /\ Head(typedIn) = typed))
            BY <1>7
      <2> HIDE DEF list, inFlight
      <2> DEFINE p == Reverse(list)
      <2>2. p = [k \in 1..n |-> typedIn[n - k + 1]]
            BY <1>5, <2>1 DEF Reverse
      <2> HIDE DEF p
      <2>3. p \in Seq(C) /\ Len(p) = n
            <3>1. \A k \in 1..n : typedIn[n - k + 1] \in C
                  BY <1>1, <1>5
            <3> QED
                BY <1>1, <2>2, <3>1
      <2>4. SubSeq(p, 1, n) = p
            BY <1>1, <2>3
      <2>5. SubSeq(p, 1, Len(shown)) = [k \in DOMAIN shown |-> rows[shown[k]].command]
            BY <1>4, <2>2, <2>4
      <2>6. typedIn # <<>> /\ Head(typedIn) = typed => p[Len(p)] = typed
            <3> HAVE typedIn # <<>> /\ Head(typedIn) = typed
            <3>1. n > 0 /\ typedIn[1] = typed
                  BY <1>1, <1>5
            <3> QED
                BY <1>1, <2>2, <2>3, <3>1
      <2> QED
          BY <1>2, <2>1, <2>5, <2>6 DEF Last, p, shown, typed
<1> QED
    BY <1>6, <1>7

LEMMA FirstIsSeq == ASSUME NEW T, NEW s \in Seq(T), NEW limit \in Nat PROVE FirstOf(limit, s) \in Seq(T)
<1> DEFINE m == Min({limit, Len(s)})
<1>1. m \in 0..Len(s)
      BY MinOfTwo
<1> HIDE DEF m
<1>2. SubSeq(s, 1, m) \in Seq(T)
      BY <1>1
<1> QED
    BY <1>2 DEF FirstOf, m

LEMMA ListedIsSeq ==
  ASSUME HistoryTypeOK, NEW args \in Args, NEW dir PROVE \E T : Listed(args, dir) \in Seq(T)
<1>1. ASSUME NEW search, NEW here, NEW limit \in Nat
      PROVE  \E T : Search(search, here, limit) \in Seq(T)
      <2> DEFINE hits == {i \in DOMAIN rows : Matches(rows[i], search, here)}
      <2>1. Lists(NewestFirst(hits), hits)
            BY NewestFirstLists
      <2> HIDE DEF hits
      <2> DEFINE b == NewestFirst(hits)
      <2> HIDE DEF b
      <2>2. b \in Seq(hits)
            BY <2>1 DEF Lists, b
      <2>3. FirstOf(limit, b) \in Seq(hits)
            BY <2>2, FirstIsSeq
      <2> QED
          BY <2>3 DEF Search, Newest, hits, b
<1>2. args.limit \in Nat
      BY DEF Args
<1>3. CASE args.failed
      <2> DEFINE here == IF args.here THEN dir ELSE ""
                 f == Search(args.search, here, Wide(args.limit))
      <2>1. PICK T : f \in Seq(T)
            BY <1>1, <1>2, WideIs
      <2> HIDE DEF f, here
      <2> DEFINE picks == {k \in DOMAIN f : rows[f[k]].exit # 0}
      <2>2. Picked(f, picks) \in Seq(T)
            <3>1. picks \in SUBSET DOMAIN f
                  OBVIOUS
            <3> HIDE DEF picks
            <3> QED
                BY <2>1, <3>1, PickedIs
      <2>3. FirstOf(args.limit, Picked(f, picks)) \in Seq(T)
            BY <1>2, <2>2, FirstIsSeq
      <2>4. Listed(args, dir) = FirstOf(args.limit, Picked(f, picks))
            BY <1>3 DEF Listed, Failed, f, here
      <2> QED
          BY <2>3, <2>4
<1>4. CASE ~args.failed
      BY <1>1, <1>2, <1>4 DEF Listed
<1> QED
    BY <1>3, <1>4

LEMMA NewestAreListed == HistoryTypeOK => ListsTheNewest
<1> SUFFICES ASSUME HistoryTypeOK PROVE ListsTheNewest
    OBVIOUS
<1>1. NewestOf(RingSize, DOMAIN rows, Ring)
      <2>1. Lists(NewestFirst(DOMAIN rows), DOMAIN rows)
            BY NewestFirstLists
      <2>2. RingSize \in Nat
            BY HistoryAssumption
      <2>3. NewestOf(RingSize, DOMAIN rows, Reverse(FirstOf(RingSize, NewestFirst(DOMAIN rows))))
            BY <2>1, <2>2, ListsTheNewestOf
      <2> QED
          BY <2>3 DEF Ring, Recent, Newest
<1>2. ASSUME NEW words \in Asked, NEW r \in Runs
      PROVE  LET args == ParseArgs(words)
                 printed == Printed(words, r.dir)
                 found == Reverse(Listed(args, r.dir))
                 hits == {i \in DOMAIN rows : Matches(rows[i], args.search, IF args.here THEN r.dir ELSE "")}
                 asked == {i \in hits : args.failed => rows[i].exit # 0}
             IN (args.ok /\ ~args.stats /\ (args.failed => Cardinality(hits) <= Wide(args.limit))) =>
                  /\ NewestOf(args.limit, asked, found)
                  /\ SubSeq(printed, 1, Len(found)) = [k \in DOMAIN found |-> rows[found[k]].command]
                  /\ args.failed \/ Last(printed) = <<"history">> \o words
      <2> DEFINE args == ParseArgs(words)
                 listed == Listed(args, r.dir)
                 hits == {i \in DOMAIN rows : Matches(rows[i], args.search, IF args.here THEN r.dir ELSE "")}
                 asked == {i \in hits : args.failed => rows[i].exit # 0}
      <2> SUFFICES ASSUME args.ok, ~args.stats, args.failed => Cardinality(hits) <= Wide(args.limit)
                   PROVE  /\ NewestOf(args.limit, asked, Reverse(listed))
                          /\ SubSeq(Printed(words, r.dir), 1, Len(Reverse(listed))) =
                               [k \in DOMAIN Reverse(listed) |-> rows[Reverse(listed)[k]].command]
                          /\ args.failed \/ Last(Printed(words, r.dir)) = <<"history">> \o words
          OBVIOUS
      <2>1. args \in Args
            BY ParseArgsIs
      <2>2. NewestOf(args.limit, asked, Reverse(listed))
            BY <2>1, ListedIsNewest
      <2>3. PICK T : listed \in Seq(T)
            BY <2>1, ListedIsSeq
      <2>4. /\ SubSeq(Printed(words, r.dir), 1, Len(Reverse(listed))) =
                 [k \in DOMAIN Reverse(listed) |-> rows[Reverse(listed)[k]].command]
            /\ args.failed \/ Last(Printed(words, r.dir)) = <<"history">> \o words
            BY <2>3, PrintedIs
      <2> QED
          BY <2>2, <2>4
<1> QED
    BY <1>1, <1>2 DEF ListsTheNewest

LEMMA RunTypeOK ==
  ASSUME HistoryTypeOK, NEW s \in Users, NEW typed, NEW exit \in RunCodes, NEW dir \in RunDirs,
         Trimmed(typed) \in RunTexts, Finished(s, typed, exit, dir)
  PROVE  inserting' \in [Users -> Entries]
<1>1. [command |-> Trimmed(typed), exit |-> exit, dir |-> dir, time |-> clock] \in Entries
      BY HistoryAssumption DEF HistoryTypeOK, Entries
<1> QED
    BY <1>1 DEF HistoryTypeOK, Finished

LEMMA HistoryTypeStep == HistoryTypeOK /\ [HistoryNext]_historyVars => HistoryTypeOK'
<1> SUFFICES ASSUME HistoryTypeOK, [HistoryNext]_historyVars PROVE HistoryTypeOK'
    OBVIOUS
<1> USE HistoryAssumption
<1>1. ASSUME NEW s \in Users, NEW r \in Runs, NEW blank \in BOOLEAN, Run(s, r, blank) PROVE HistoryTypeOK'
      <2>1. inserting' \in [Users -> Entries]
            <3> DEFINE typed == IF blank THEN <<" ">> \o r.command ELSE r.command
            <3>1. Trimmed(typed) \in RunTexts /\ r.exit \in RunCodes /\ r.dir \in RunDirs
                  BY DEF RunTexts, RunCodes, RunDirs
            <3>2. Finished(s, typed, r.exit, r.dir)
                  BY <1>1 DEF Run
            <3> QED
                BY <3>1, <3>2, RunTypeOK
      <2> QED
          BY <1>1, <2>1 DEF Run, HistoryTypeOK
<1>2. ASSUME NEW s \in Users, NEW words \in Asked, NEW r \in Runs, RunHistory(s, words, r.dir) PROVE HistoryTypeOK'
      <2>1. inserting' \in [Users -> Entries]
            <3> DEFINE typed == <<"history">> \o words
            <3>1. Trimmed(typed) \in RunTexts /\ r.dir \in RunDirs
                  BY DEF RunTexts, RunDirs
            <3>2. ParseArgs(words).exit \in RunCodes
                  BY ParseArgsIs DEF Args, RunCodes
            <3>3. Finished(s, typed, ParseArgs(words).exit, r.dir)
                  BY <1>2 DEF RunHistory
            <3> QED
                BY <3>1, <3>2, <3>3, RunTypeOK
      <2> QED
          BY <1>2, <2>1 DEF RunHistory, HistoryTypeOK
<1>3. NoEntry \in Entries
      BY DEF NoEntry, Entries, RunTexts, RunCodes, RunDirs
<1>4. ASSUME NEW s \in Users, Inserted(s) PROVE HistoryTypeOK'
      <2>1. inserting[s] \in Entries
            BY DEF HistoryTypeOK
      <2> QED
          BY <1>3, <1>4, <2>1 DEF Inserted, HistoryTypeOK
<1>5. ASSUME NEW s \in Users, Start(s) PROVE HistoryTypeOK'
      BY <1>3, <1>5 DEF Start, HistoryTypeOK
<1>6. CASE Second
      BY <1>6 DEF Second, HistoryTypeOK
<1>7. CASE UNCHANGED historyVars
      BY <1>7 DEF historyVars, HistoryTypeOK
<1> QED
    BY <1>1, <1>2, <1>4, <1>5, <1>6, <1>7 DEF HistoryNext

\* Whatever the shells of a user run, whenever their rows come in and whatever they are
\* asked: history lists, and the ring of a new shell has, the newest typedIn asked for.
THEOREM HistoryIsNewest == HistorySpec => []ListsTheNewest
<1>1. HistoryInit => HistoryTypeOK
      <2>1. NoEntry \in Entries
            BY DEF NoEntry, Entries, RunTexts, RunCodes, RunDirs
      <2>2. 0 \in 0..MaxClock /\ 0 \in 0..MaxStarts /\ <<>> \in Seq(Entries)
            BY HistoryAssumption
      <2> QED
          BY <2>1, <2>2 DEF HistoryInit, HistoryTypeOK
<1> QED
    BY <1>1, HistoryTypeStep, NewestAreListed, PTL DEF HistorySpec
====
