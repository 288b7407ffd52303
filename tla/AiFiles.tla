------------------------------- MODULE AiFiles -------------------------------
\* The files behind @ai, as several shells use them at once: provider, model,
\* keys, privacy, conversation and usage (src/ai/ai_config.cpp), and the handlers
\* that read and write them (src/ai/ai_handler.cpp).  Every file but the usage
\* count is rewritten in place: truncated, then filled.
EXTENDS Naturals, Sequences, SequencesExt

CONSTANTS
  Shells,
  Providers,  \* "gemini" and "openai" need a key, "ollama" does not
  Models,     \* what may be saved as the model
  Fits,       \* the pairs of provider and model that model_matches_provider accepts
  MaxTurns,   \* MAX_CONVERSATION_TURNS, 10 in the code
  MaxOps,     \* bound on the commands given
  MaxBreaks   \* bound on the shells that end and the midnights that pass

ASSUME AiFilesAssumption ==
  /\ "gemini" \in Providers /\ "" \notin Providers \cup Models /\ Fits \subseteq Providers \X Models
  /\ "nobody" \notin Shells
ASSUME AiFilesBounds == MaxTurns \in Nat /\ MaxTurns > 0 /\ MaxOps \in Nat /\ MaxBreaks \in Nat

VARIABLES
  file,    \* the contents of the files that are rewritten in place
  usage,   \* ai_usage: [day, count]; the day is 0 when it is empty
  locked,  \* the shell that holds the flock of ai_usage, or "nobody"
  at,      \* where each shell is
  todo,    \* the writes each shell is about to make, in order
  opened,  \* the shells that have truncated the file they are about to fill
  detached,\* those among them whose file was unlinked meanwhile
  local,   \* what each shell has read: provider, model, day and count
  client,  \* the client of the command being run
  sent,    \* its request
  mem,     \* conversation_history
  loaded,  \* conversation_loaded
  enabled, \* state.ai.ai_enabled
  day, asks, ops, crashes,
  since,   \* the questions asked before each shell's last @ai clear
  made     \* the increments per day, as long as none is lost to a crash

files == <<file, usage, locked>>
shell == <<at, todo, opened, detached, local, client, sent, mem, loaded, enabled>>
counts == <<day, asks, ops, crashes, since, made>>
vars == <<files, shell, counts>>

\* What is left when two writes of the conversation overlap: not JSON.
Corrupt == <<[role |-> "corrupt", ask |-> 0]>>
KeyFile(p) == IF p = "gemini" THEN "gemini_key" ELSE "openai_key"
Names == {"provider", "model", "pref", "conv", "gemini_key", "openai_key"}
Blank(f) == IF f = "conv" THEN <<>> ELSE ""

NoLocal == [provider |-> "", model |-> "", purpose |-> "", day |-> 0, count |-> 0, ask |-> 0]
NoClient == [provider |-> "", model |-> ""]
NoRequest == [stderr |-> FALSE, history |-> <<>>]

Init ==
  /\ \E key \in {"", "key"} : file = [f \in Names |-> IF f = "gemini_key" THEN key ELSE Blank(f)]
  /\ usage = [day |-> 0, count |-> 0] /\ locked = "nobody"
  /\ at = [s \in Shells |-> "idle"] /\ todo = [s \in Shells |-> <<>>] /\ opened = {} /\ detached = {}
  /\ local = [s \in Shells |-> NoLocal] /\ client = [s \in Shells |-> NoClient]
  /\ sent = [s \in Shells |-> NoRequest]
  /\ mem = [s \in Shells |-> <<>>] /\ loaded = [s \in Shells |-> FALSE] /\ enabled = [s \in Shells |-> TRUE]
  /\ day = 1 /\ asks = 0 /\ ops = 0 /\ crashes = 0
  /\ since = [s \in Shells |-> 0] /\ made = [d \in 0..MaxBreaks + 1 |-> 0]

-----------------------------------------------------------------------------
\* Reading the files.  An empty provider file means gemini, an empty model file the
\* default model, an empty privacy file that stderr is sent.
Provider == IF file["provider"] = "" THEN "gemini" ELSE file["provider"]
HasKey(p) == p = "ollama" \/ file[KeyFile(p)] # ""
SendsStderr == file["pref"] # "0"

LastTurns(turns) == IF Len(turns) > MaxTurns THEN SubSeq(turns, Len(turns) - MaxTurns + 1, Len(turns)) ELSE turns
Conversation == IF file["conv"] = Corrupt THEN <<>> ELSE LastTurns(file["conv"])

\* Mutant: the file is read again whenever nothing is remembered.
LoadAgain(s) == IF mem[s] # <<>> THEN mem[s] ELSE Conversation

\* load_conversation_if_needed
Load(s) == IF loaded[s] THEN mem[s] ELSE Conversation

\* write_secure_file: O_TRUNC, and the contents after that.  Two shells that fill
\* the same file write over each other; for a file of one line the last one counts.
Write(f, v) == [name |-> f, value |-> v]
Overlaid(f, old, new) == IF f = "conv" /\ old \notin {<<>>, new} THEN {new, Corrupt} ELSE {new}

Truncate(s) ==
  /\ todo[s] # <<>> /\ s \notin opened
  /\ opened' = opened \cup {s}
  /\ file' = [file EXCEPT ![todo[s][1].name] = Blank(todo[s][1].name)]
  /\ UNCHANGED <<usage, locked, at, todo, detached, local, client, sent, mem, loaded, enabled, counts>>

Fill(s) ==
  /\ s \in opened
  /\ opened' = opened \ {s} /\ detached' = detached \ {s} /\ todo' = [todo EXCEPT ![s] = Tail(@)]
  /\ IF s \in detached THEN UNCHANGED file
     ELSE \E v \in Overlaid(todo[s][1].name, file[todo[s][1].name], todo[s][1].value) :
            file' = [file EXCEPT ![todo[s][1].name] = v]
  /\ UNCHANGED <<usage, locked, at, local, client, sent, mem, loaded, enabled, counts>>

\* open fails, or the directory is refused: no caller looks at the result, except
\* the wizard.
CannotWrite(s) ==
  /\ todo[s] # <<>> /\ s \notin opened
  /\ todo' = [todo EXCEPT ![s] = Tail(@)]
  /\ UNCHANGED <<files, at, opened, detached, local, client, sent, mem, loaded, enabled, counts>>

-----------------------------------------------------------------------------
\* Commands that only write: they are given at the prompt.
Prompt(s) == at[s] = "idle" /\ todo[s] = <<>> /\ ops < MaxOps /\ ops' = ops + 1

Writes(s, ws) ==
  /\ Prompt(s) /\ todo' = [todo EXCEPT ![s] = ws]
  /\ UNCHANGED <<files, at, opened, detached, local, client, sent, mem, loaded, enabled, day, asks, crashes, since, made>>

\* What ai_run_setup_wizard writes once a key was pasted: it reads the provider itself.
SavedKey == IF Provider = "ollama" THEN <<>> ELSE <<Write(KeyFile(Provider), "key")>>

SetKey(s) == Provider # "ollama" /\ Writes(s, SavedKey)
SetProvider(s, p) == Writes(s, <<Write("provider", p), Write("model", "")>>)
SetModel(s, m) == Writes(s, <<Write("model", m)>>)
Privacy(s, v) == Writes(s, <<Write("pref", v)>>)

OnOff(s, on) ==
  /\ Prompt(s) /\ enabled' = [enabled EXCEPT ![s] = on]
  /\ UNCHANGED <<files, at, todo, opened, detached, local, client, sent, mem, loaded, day, asks, crashes, since, made>>

\* @ai clear: loaded is set so that nothing is read again.
Clear(s) ==
  /\ Prompt(s)
  /\ mem' = [mem EXCEPT ![s] = <<>>] /\ loaded' = [loaded EXCEPT ![s] = TRUE]
  /\ file' = [file EXCEPT !["conv"] = <<>>]
  /\ detached' = detached \cup {t \in opened : todo[t][1].name = "conv"}
  /\ since' = [since EXCEPT ![s] = asks]
  /\ UNCHANGED <<usage, locked, at, todo, opened, local, client, sent, enabled, day, asks, crashes, made>>

-----------------------------------------------------------------------------
\* A step of a handler that goes from one place to another, once its writes are made.
Step(s, from, to) == at[s] = from /\ todo[s] = <<>> /\ at' = [at EXCEPT ![s] = to]
Quiet == UNCHANGED <<opened, detached, enabled, day, ops, crashes>>

\* A command is over, and with it what it has read, its client and its request.
Forgets(s) ==
  /\ local' = [local EXCEPT ![s] = NoLocal] /\ client' = [client EXCEPT ![s] = NoClient] /\ sent' = [sent EXCEPT ![s] = NoRequest]

\* ensure_client
Ask(s) ==
  /\ enabled[s] /\ Prompt(s)
  /\ at' = [at EXCEPT ![s] = IF HasKey(Provider) THEN "client" ELSE "wizard"]
  /\ local' = [local EXCEPT ![s] = [NoLocal EXCEPT !.provider = Provider, !.purpose = "ask"]]
  /\ UNCHANGED <<files, todo, opened, detached, client, sent, mem, loaded, enabled, day, asks, crashes, since, made>>

\* ai_run_setup_wizard reads the provider once more.  It is cancelled, or a key is
\* saved.
Wizard(s) ==
  /\ \/ Step(s, "wizard", "idle") /\ Forgets(s) /\ UNCHANGED todo
     \/ /\ Step(s, "wizard", "rekey") /\ UNCHANGED <<local, client, sent>>
        /\ todo' = [todo EXCEPT ![s] = SavedKey]
  /\ Quiet /\ UNCHANGED <<files, mem, loaded, asks, since, made>>

\* After the wizard the key of the provider read first is loaded again.
Rekey(s) ==
  /\ \/ HasKey(local[s].provider) /\ Step(s, "rekey", "client") /\ UNCHANGED <<local, client, sent>>
     \/ ~HasKey(local[s].provider) /\ Step(s, "rekey", "idle") /\ Forgets(s)
  /\ Quiet /\ UNCHANGED <<files, todo, mem, loaded, asks, since, made>>

\* @ai status, config and test make a client too, and ask nothing of the conversation.
Status(s) ==
  /\ Prompt(s) /\ at' = [at EXCEPT ![s] = "client"]
  /\ local' = [local EXCEPT ![s] = [NoLocal EXCEPT !.purpose = "status"]]
  /\ UNCHANGED <<files, todo, opened, detached, client, sent, mem, loaded, enabled, day, asks, crashes, since, made>>

\* create_current_client: the provider, then the model, which is reset when it does
\* not fit, and the client of both.
ReadProvider(s) ==
  /\ Step(s, "client", "model") /\ local' = [local EXCEPT ![s].provider = Provider]
  /\ Quiet /\ UNCHANGED <<files, todo, client, sent, mem, loaded, asks, since, made>>

Suits(p, m) == m = "" \/ <<p, m>> \in Fits

\* Mutant: the file is reset and the model used all the same.
ReadModelKeeps(s) ==
  /\ Step(s, "model", "build") /\ local' = [local EXCEPT ![s].model = file["model"]]
  /\ todo' = IF Suits(local[s].provider, file["model"]) THEN todo ELSE [todo EXCEPT ![s] = <<Write("model", "")>>]
  /\ Quiet /\ UNCHANGED <<files, client, sent, mem, loaded, asks, since, made>>

ReadModel(s) ==
  /\ Step(s, "model", "build")
  /\ IF Suits(local[s].provider, file["model"])
     THEN local' = [local EXCEPT ![s].model = file["model"]] /\ UNCHANGED todo
     ELSE local' = [local EXCEPT ![s].model = ""] /\ todo' = [todo EXCEPT ![s] = <<Write("model", "")>>]
  /\ Quiet /\ UNCHANGED <<files, client, sent, mem, loaded, asks, since, made>>

Build(s) ==
  /\ Step(s, "build", IF local[s].purpose = "ask" THEN "request" ELSE "status")
  /\ client' = [client EXCEPT ![s] = [provider |-> local[s].provider, model |-> local[s].model]]
  /\ Quiet /\ UNCHANGED <<files, todo, local, sent, mem, loaded, asks, since, made>>

\* What status says, or the request that test makes.
Told(s) ==
  /\ Step(s, "status", "idle") /\ Forgets(s)
  /\ Quiet /\ UNCHANGED <<files, todo, mem, loaded, asks, since, made>>

\* handle_ask: a question about an error carries stderr unless the user opted out;
\* the conversation goes along.
Request(s, aboutError) ==
  /\ Step(s, "request", "answer")
  /\ sent' = [sent EXCEPT ![s] = [stderr |-> aboutError /\ SendsStderr, history |-> Load(s)]]
  /\ mem' = [mem EXCEPT ![s] = Load(s)] /\ loaded' = [loaded EXCEPT ![s] = TRUE]
  /\ asks' = asks + 1 /\ local' = [local EXCEPT ![s].ask = asks + 1]
  /\ Quiet /\ UNCHANGED <<files, todo, client, since, made>>

\* A failure leaves nothing behind; 403 turns the AI off, and 401 offers the wizard.
Fails(s, status) ==
  /\ Step(s, "answer", "idle") /\ enabled' = [enabled EXCEPT ![s] = @ /\ status # 403]
  /\ \/ UNCHANGED todo
     \/ status = 401 /\ todo' = [todo EXCEPT ![s] = SavedKey]
  /\ Forgets(s) /\ UNCHANGED <<files, opened, detached, mem, loaded, day, asks, ops, crashes, since, made>>

Succeeds(s) ==
  /\ Step(s, "answer", "usage") /\ Quiet
  /\ UNCHANGED <<files, todo, local, client, sent, mem, loaded, asks, since, made>>

\* Mutant: the turn goes after what the file has now.
Append1Merged(s, role) == LastTurns(Append(Conversation, [role |-> role, ask |-> local[s].ask]))

\* add_to_conversation, called for the question and then for the answer.
Append1(s, role) == LastTurns(Append(Load(s), [role |-> role, ask |-> local[s].ask]))

AddTurn(s, role) ==
  /\ Step(s, role, IF role = "user" THEN "assistant" ELSE "idle")
  /\ mem' = [mem EXCEPT ![s] = Append1(s, role)] /\ loaded' = [loaded EXCEPT ![s] = TRUE]
  /\ todo' = [todo EXCEPT ![s] = <<Write("conv", Append1(s, role))>>]
  /\ IF role = "user" THEN UNCHANGED <<local, client, sent>> ELSE Forgets(s)
  /\ Quiet /\ UNCHANGED <<files, asks, since, made>>

-----------------------------------------------------------------------------
\* ai_increment_usage: under the flock the count of today is read, the file
\* truncated and written.
Today(u, d) == IF u.day = d THEN u.count ELSE 0

\* Mutant: the count is read before the lock is taken.
UsageLockLate(s) ==
  /\ Step(s, "usage", "counted") /\ locked' = s
  /\ local' = [local EXCEPT ![s].day = day, ![s].count = Today(usage, day)]
  /\ Quiet /\ UNCHANGED <<file, usage, todo, client, sent, mem, loaded, asks, since, made>>

UsageLock(s) ==
  /\ locked = "nobody" /\ Step(s, "usage", "counted") /\ locked' = s
  /\ local' = [local EXCEPT ![s].day = day, ![s].count = Today(usage, day)]
  /\ Quiet /\ UNCHANGED <<file, usage, todo, client, sent, mem, loaded, asks, since, made>>

UsageTruncate(s) ==
  /\ Step(s, "counted", "truncated") /\ usage' = [day |-> 0, count |-> 0]
  /\ Quiet /\ UNCHANGED <<file, locked, todo, local, client, sent, mem, loaded, asks, since, made>>

UsageWrite(s) ==
  /\ Step(s, "truncated", "user") /\ locked' = "nobody"
  /\ usage' = [day |-> local[s].day, count |-> local[s].count + 1]
  /\ made' = [made EXCEPT ![local[s].day] = @ + 1]
  /\ Quiet /\ UNCHANGED <<file, todo, local, client, sent, mem, loaded, asks, since>>

Breaks == crashes + day <= MaxBreaks

\* A shell ends anywhere and another one takes its place; the kernel gives its
\* lock back.
Crash(s) ==
  /\ Breaks /\ crashes' = crashes + 1
  /\ at' = [at EXCEPT ![s] = "idle"] /\ todo' = [todo EXCEPT ![s] = <<>>]
  /\ opened' = opened \ {s} /\ detached' = detached \ {s}
  /\ Forgets(s)
  /\ mem' = [mem EXCEPT ![s] = <<>>] /\ loaded' = [loaded EXCEPT ![s] = FALSE]
  /\ enabled' = [enabled EXCEPT ![s] = TRUE] /\ since' = [since EXCEPT ![s] = 0]
  /\ locked' = IF locked = s THEN "nobody" ELSE locked
  /\ made' = IF at[s] = "truncated" THEN [d \in DOMAIN made |-> 0] ELSE made
  /\ UNCHANGED <<file, usage, day, asks, ops>>

Midnight ==
  /\ Breaks /\ day' = day + 1
  /\ UNCHANGED <<files, shell, asks, ops, crashes, since, made>>

Next ==
  \/ Midnight
  \/ \E s \in Shells :
       \/ Truncate(s) \/ Fill(s) \/ CannotWrite(s) \/ Clear(s) \/ Ask(s) \/ Status(s) \/ SetKey(s) \/ Wizard(s) \/ Rekey(s)
       \/ ReadProvider(s) \/ ReadModel(s) \/ Build(s) \/ Told(s) \/ Succeeds(s)
       \/ UsageLock(s) \/ UsageTruncate(s) \/ UsageWrite(s) \/ Crash(s)
       \/ \E p \in Providers : SetProvider(s, p)
       \/ \E m \in Models : SetModel(s, m)
       \/ \E v \in {"0", "1"} : Privacy(s, v)
       \/ \E b \in BOOLEAN : OnOff(s, b) \/ Request(s, b)
       \/ \E status \in {0, 401, 403} : Fails(s, status)
       \/ \E role \in {"user", "assistant"} : AddTurn(s, role)

Spec == Init /\ [][Next]_vars
-----------------------------------------------------------------------------
\* Properties

\* In every conversation, in memory, on disk and on the wire, an answer follows its
\* own question, and what was asked first comes first: whatever the shells do to
\* the file, one never continues half of what another one said.
Answered(turns) ==
  \A i \in 2..Len(turns) :
    /\ turns[i - 1].ask <= turns[i].ask
    /\ turns[i].role = "assistant" => turns[i - 1] = [role |-> "user", ask |-> turns[i].ask]

AnswersFollowQuestions ==
  /\ file["conv"] # Corrupt => Answered(file["conv"])
  /\ \A s \in Shells : Answered(mem[s]) /\ Answered(sent[s].history)

\* What a shell has cleared it never sends again, although other shells may write
\* the old conversation back.
ClearedStaysCleared ==
  \A s \in Shells : \A i \in DOMAIN mem[s] : mem[s][i].ask > since[s]

\* Outside the lock the usage file has the number of the answers of its day: no
\* increment of two shells is lost, nor one around midnight.
UsageIsComplete ==
  (locked = "nobody") => usage.count = (IF usage.day = 0 THEN 0 ELSE made[usage.day])

\* No request is made with a model that does not belong to its provider, even while
\* the two files are being changed one after the other.
ModelFitsProvider ==
  \A s \in Shells : client[s].model # "" => <<client[s].provider, client[s].model>> \in Fits
=============================================================================
