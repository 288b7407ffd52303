------------------------------ MODULE AiAnswer ------------------------------
\* From a question to what is run: the request for each provider, the stream of the
\* reply and the decoder that shows its content while it comes
\* (src/ai/llm_client.cpp), and what handle_ask then does with it
\* (src/ai/ai_handler.cpp).  Texts are sequences of symbols.
EXTENDS Naturals, Sequences, SequencesExt, FiniteSetsExt

CONSTANTS
  Histories,  \* conversations that may go along: sequences of "user" and "assistant"
  Replies,    \* what the model may say: see Replies of a provider
  Filenames,  \* what the user may type at "Save to?"
  CutsAt,     \* bound on the places where the server cuts a text in two
  MaxChunk,   \* bound on the cells of a network chunk
  MaxBlanks,  \* bound on the empty lines in a reply
  MaxCells    \* tash_max_response_bytes: the cells after which a reply is cut off

ASSUME AnswerAssumption ==
  CutsAt \subseteq Nat /\ MaxChunk \in Nat \ {0} /\ MaxBlanks \in Nat /\ MaxCells \in Nat

VARIABLES
  phase,   \* "idle", "stream", "parse", "run", "save", "step", "stop", "done"
  provider, body, \* the provider and the body of the request
  reply,   \* what the model says
  wire,    \* the cells still on their way
  received,\* the cells that have come
  buffer,  \* CurlStreamContext::buffer
  accumulated, \* CurlStreamContext::accumulated
  decoder, \* JsonContentStreamer
  shown,   \* the content the user has been shown
  parsed,  \* ParsedResponse
  next, runAll, \* of the loop over the steps
  log,     \* keys pressed and commands run: [what, step, key]
  saved,   \* the file written
  result   \* what handle_ask returned

answerVars == <<phase, provider, body, reply, wire, received, buffer, accumulated, decoder, shown,
                parsed, next, runAll, log, saved, result>>
request == <<provider, body, reply>>
stream == <<wire, received, buffer, accumulated, decoder>>

NoReply == [kind |-> "plain", text |-> <<>>]
NoBody == [messages |-> <<>>, schema |-> "none", stream |-> FALSE]
NoResponse == [type |-> "answer", content |-> <<>>, filename |-> <<>>, steps |-> <<>>]
Idle == [mode |-> "idle", quoted |-> FALSE, inKey |-> FALSE, key |-> <<>>, escape |-> FALSE,
         unicode |-> FALSE, objects |-> 0, arrays |-> 0, out |-> <<>>]

AnswerInit ==
  /\ phase = "idle" /\ provider = "gemini" /\ body = NoBody /\ reply = NoReply
  /\ wire = <<>> /\ received = 0 /\ buffer = <<>> /\ accumulated = <<>> /\ decoder = Idle
  /\ shown = <<>> /\ parsed = NoResponse /\ next = 1 /\ runAll = FALSE /\ log = <<>> /\ saved = <<>>
  /\ result = 0

-----------------------------------------------------------------------------
\* The requests.  Gemini takes the system prompt apart and calls the assistant
\* "model"; it and OpenAI enforce the schema, Ollama is only told about it.
GeminiRole(role) == IF role = "assistant" THEN "model" ELSE "user"
GeminiBody(history) ==
  [messages |-> [i \in DOMAIN history |-> GeminiRole(history[i])] \o <<"user">>, schema |-> "enforced", stream |-> FALSE]
OpenAiBody(history) == [messages |-> <<"system">> \o history \o <<"user">>, schema |-> "enforced", stream |-> TRUE]
OllamaBody(history) == [messages |-> <<"system">> \o history \o <<"user">>, schema |-> "told", stream |-> TRUE]

Body(p, history) ==
  CASE p = "gemini" -> GeminiBody(history) [] p = "openai" -> OpenAiBody(history) [] p = "ollama" -> OllamaBody(history)

\* What a model says: under an enforced schema an object that has it, else anything.
\* A reply is plain text, or an object: its fields in order, each [key, value], where
\* a value is [kind, text] or [kind, steps].  A text is a sequence of units, a
\* symbol or an escape.
Strict(r) == r.kind = "object" /\ r.schema
MaySay(b) == {r \in Replies : b.schema = "enforced" => Strict(r)}

-----------------------------------------------------------------------------
\* The text of a reply.
Quoted(text) == <<"\"">> \o FlattenSeq(text) \o <<"\"">>
Joined(parts) == FlattenSeq([i \in DOMAIN parts |-> IF i = 1 THEN parts[1] ELSE <<",">> \o parts[i]])
FieldText(f, valueText) == Quoted(<<<<f.key>>>>) \o <<":">> \o valueText
Simple(v) == IF v.kind = "string" THEN Quoted(v.text) ELSE <<"7">>
ObjectText(fields) == <<"{">> \o Joined([i \in DOMAIN fields |-> FieldText(fields[i], Simple(fields[i].value))]) \o <<"}">>
ValueText(v) ==
  IF v.kind # "steps" THEN Simple(v)
  ELSE <<"[">> \o Joined([i \in DOMAIN v.steps |-> ObjectText(v.steps[i])]) \o <<"]">>
ReplyText(r) ==
  IF r.kind = "plain" THEN r.text
  ELSE <<"{">> \o Joined([i \in DOMAIN r.fields |-> FieldText(r.fields[i], ValueText(r.fields[i].value))]) \o <<"}">>

TextOf == [r \in Replies |-> ReplyText(r)]

\* What an escape stands for, and so what a text means.
Meaning == [c \in {"n", "\"", "\\"} |-> IF c = "n" THEN "newline" ELSE c]
Unit(u) == IF u[1] # "\\" THEN u ELSE IF u[2] = "u" THEN <<u[3]>> ELSE <<Meaning[u[2]]>>
Decoded(text) == FlattenSeq([i \in DOMAIN text |-> Unit(text[i])])

\* What JSON makes of a text, and what models do not do: an object with two contents,
\* and a command or script without an object that has "content" in it.
IsUnit(u) ==
  \/ Len(u) = 1 /\ u[1] \notin {"\\", "\""}
  \/ Len(u) = 2 /\ u[1] = "\\" /\ u[2] \in DOMAIN Meaning
  \/ Len(u) = 3 /\ u[1] = "\\" /\ u[2] = "u" /\ u[3] \notin {"\\", "\""}
IsText(text) == text \in Seq(Seq(STRING)) /\ \A i \in DOMAIN text : IsUnit(text[i])
AreFields(fields) ==
  /\ fields \in Seq(ToSet(fields))
  /\ \A f \in ToSet(fields) : f.key \in STRING \ {"\\", "\""} /\ (f.value.kind = "string" => IsText(f.value.text))
AreSteps(steps) == steps \in Seq(ToSet(steps)) /\ \A step \in ToSet(steps) : AreFields(step)
IsObject(fields) ==
  /\ AreFields(fields) /\ \A f \in ToSet(fields) : f.value.kind = "steps" => AreSteps(f.value.steps)
  /\ \A i, j \in DOMAIN fields : (fields[i].key = "content" /\ fields[j].key = "content") => i = j
IsPlain(text) ==
  text \in Seq(STRING) /\ ((text # <<>> /\ text[1] \in {"[COMMAND]", "[SCRIPT:"}) => "content" \notin ToSet(text))

ASSUME RepliesAssumption == \A r \in Replies : IF r.kind = "plain" THEN IsPlain(r.text) ELSE IsObject(r.fields)

-----------------------------------------------------------------------------
\* The stream.  The server cuts the text into pieces and sends a line for each; a
\* line is two cells and a newline, and the last newline may be missing.  Other
\* lines (empty ones, "data: [DONE]") carry no piece.
LineEnd == [part |-> 0, prefix |-> "", piece |-> <<>>]
LineCells(prefix, piece) ==
  <<[part |-> 1, prefix |-> prefix, piece |-> piece], [part |-> 2, prefix |-> prefix, piece |-> piece], LineEnd>>
Prefix(p) == IF p = "ollama" THEN "" ELSE "data: "
Cells(p, text, cut, blanks) ==
  LineCells(Prefix(p), SubSeq(text, 1, cut)) \o [i \in 1..blanks |-> LineEnd] \o LineCells(Prefix(p), SubSeq(text, cut + 1, Len(text)))

\* parse_stream_line of the adapters: a line that is not whole is not JSON.
ParseLine(p, cells) ==
  IF Len(cells) = 2 /\ cells[1].part = 1 /\ cells[2].part = 2 /\ cells[1].prefix = Prefix(p) THEN cells[1].piece ELSE <<>>

\* JsonContentStreamer::handle_char.  A \u escape takes one more symbol here.
Emit(d, c) == IF d.mode = "content" THEN [d EXCEPT !.out = Append(@, c)] ELSE d
AfterEscape(d, c) ==
  IF c = "u" /\ d.mode = "content" THEN [d EXCEPT !.escape = FALSE, !.unicode = TRUE]
  ELSE Emit([d EXCEPT !.escape = FALSE], IF c \in DOMAIN Meaning THEN Meaning[c] ELSE c)
InString(d, c) ==
  IF c = "\\" THEN [d EXCEPT !.escape = TRUE]
  ELSE IF c = "\"" THEN [d EXCEPT !.mode = "idle", !.quoted = FALSE, !.inKey = FALSE]
  ELSE IF d.mode = "content" THEN Emit(d, c)
  ELSE IF d.inKey THEN [d EXCEPT !.key = Append(@, c)] ELSE d

OpensString(d) ==
  IF d.objects >= 1 /\ d.mode # "content" THEN [d EXCEPT !.quoted = TRUE, !.inKey = TRUE, !.key = <<>>]
  ELSE [d EXCEPT !.quoted = TRUE]

\* Mutant: the content of an object within the object counts too.
AtRootAnyDepth(d) == d.objects >= 1

AtRoot(d) == d.objects = 1 /\ d.arrays = 0

Outside(d, c) ==
  CASE c = "\"" -> OpensString(d)
    [] c = "{" -> [d EXCEPT !.objects = @ + 1]
    [] c = "}" -> [d EXCEPT !.objects = IF @ > 0 THEN @ - 1 ELSE 0]
    [] c = "[" -> [d EXCEPT !.arrays = @ + 1]
    [] c = "]" -> [d EXCEPT !.arrays = IF @ > 0 THEN @ - 1 ELSE 0]
    [] c = ":" -> [d EXCEPT !.key = <<>>, !.mode = IF AtRoot(d) /\ d.key = <<"content">> THEN "content" ELSE @]
    [] c = "," -> [d EXCEPT !.key = <<>>]
    [] OTHER -> d

HandleChar(d, c) ==
  IF d.unicode THEN Emit([d EXCEPT !.unicode = FALSE], c)
  ELSE IF d.escape THEN AfterEscape(d, c)
  ELSE IF d.quoted THEN InString(d, c) ELSE Outside(d, c)
Feed(d, text) == LET fed[n \in 0..Len(text)] == IF n = 0 THEN d ELSE HandleChar(fed[n - 1], text[n]) IN fed[Len(text)]

\* The cells are put together to lines; the piece of a line goes to the text and to
\* the decoder.
TakeCell(p, got, c) ==
  IF c = LineEnd THEN
    LET piece == ParseLine(p, got.line)
    IN [line |-> <<>>, text |-> got.text \o piece, decoder |-> Feed(got.decoder, piece)]
  ELSE [got EXCEPT !.line = Append(@, c)]
TakeCells(p, got, cells) ==
  LET taken[n \in 0..Len(cells)] == IF n = 0 THEN got ELSE TakeCell(p, taken[n - 1], cells[n]) IN taken[Len(cells)]

-----------------------------------------------------------------------------
\* handle_ask up to the request; the request ends with the whole reply on its way.
Ask(p, history, r, cut, blanks, unended) ==
  /\ phase = "idle" /\ phase' = "stream"
  /\ provider' = p /\ body' = Body(p, history)
  /\ r \in MaySay(Body(p, history)) /\ reply' = r
  /\ cut <= Len(TextOf[r])
  /\ wire' = IF unended THEN Front(Cells(p, TextOf[r], cut, blanks)) ELSE Cells(p, TextOf[r], cut, blanks)
  /\ UNCHANGED <<received, buffer, accumulated, decoder, shown, parsed, next, runAll, log, saved, result>>

\* tash_curl_write_cb with a chunk of n cells.
Receive(n) ==
  /\ phase = "stream" /\ n <= Len(wire) /\ received + n <= MaxCells
  /\ LET got == TakeCells(provider, [line |-> buffer, text |-> accumulated, decoder |-> decoder], SubSeq(wire, 1, n))
     IN buffer' = got.line /\ accumulated' = got.text /\ decoder' = got.decoder
  /\ shown' = decoder'.out
  /\ wire' = SubSeq(wire, n + 1, Len(wire)) /\ received' = received + n
  /\ UNCHANGED <<phase, request, parsed, next, runAll, log, saved, result>>

Finish(value) == phase' = "done" /\ result' = value

\* Beyond the limit the transfer is aborted: the request has failed.
Overflows(n) ==
  /\ phase = "stream" /\ n <= Len(wire) /\ received + n > MaxCells /\ Finish(1)
  /\ UNCHANGED <<request, stream, shown, parsed, next, runAll, log, saved>>

\* The end of the transfer; an answer without text is a failure.
Complete ==
  /\ phase = "stream" /\ wire = <<>>
  /\ IF accumulated = <<>> THEN Finish(1) ELSE phase' = "parse" /\ UNCHANGED result
  /\ UNCHANGED <<request, stream, shown, parsed, next, runAll, log, saved>>

-----------------------------------------------------------------------------
\* parse_ai_response.  json::parse gives the object back from its own text only.
IsJson == reply.kind = "object" /\ accumulated = TextOf[reply]
Fields(r, key) == {i \in DOMAIN r.fields : r.fields[i].key = key}
Field(r, key) == r.fields[Max(Fields(r, key))].value
HasString(r, key) == Fields(r, key) # {} /\ Field(r, key).kind = "string"

Types == {<<"command">>, <<"script">>, <<"steps">>}
TypeOf(r) == IF Decoded(Field(r, "response_type").text) \in Types THEN Field(r, "response_type").text[1][1] ELSE "answer"
Filename(r) ==
  IF HasString(r, "filename") /\ Field(r, "filename").text # <<>> THEN Decoded(Field(r, "filename").text) ELSE <<"script.sh">>

StepsOf(r) == IF Fields(r, "steps") # {} /\ Field(r, "steps").kind = "steps" THEN Field(r, "steps").steps ELSE <<>>
AsObject(step) == [fields |-> step]
Command(step) == IF HasString(AsObject(step), "command") THEN Decoded(Field(AsObject(step), "command").text) ELSE <<>>
Throws(step) == Fields(AsObject(step), "command") # {} /\ ~HasString(AsObject(step), "command")

\* Text that is not JSON, or JSON that does not have what it should have: the raw
\* text, under a tag that it may begin with.  The type and the steps that were
\* read before the exception stay.
Untagged(resp, raw) ==
  IF Len(raw) > 1 /\ raw[1] = "[COMMAND]" THEN [resp EXCEPT !.type = "command", !.content = Tail(raw)]
  ELSE IF Len(raw) > 1 /\ raw[1] = "[SCRIPT:" THEN
    LET ends == {i \in DOMAIN raw : raw[i] = "]"} IN
    IF ends = {} THEN [resp EXCEPT !.type = "script", !.content = raw]
    ELSE [resp EXCEPT !.type = "script", !.filename = SubSeq(raw, 2, Min(ends) - 1),
                      !.content = SubSeq(raw, Min(ends) + 1, Len(raw))]
  ELSE IF Len(raw) > 1 /\ raw[1] = "[ANSWER]" THEN [resp EXCEPT !.content = Tail(raw)]
  ELSE [resp EXCEPT !.content = raw]
Fallback(type, steps) ==
  Untagged([type |-> type, content |-> <<>>, filename |-> <<"script.sh">>, steps |-> steps], accumulated)

Structured(r) ==
  LET steps == IF TypeOf(r) = "steps" THEN StepsOf(r) ELSE <<>>
      bad == {i \in DOMAIN steps : Throws(steps[i])}
      read == [i \in 1..(IF bad = {} THEN Len(steps) ELSE Min(bad) - 1) |-> Command(steps[i])]
  IN IF bad # {} THEN Fallback("steps", read)
     ELSE [type |-> TypeOf(r), content |-> Decoded(Field(r, "content").text),
           filename |-> IF TypeOf(r) = "script" THEN Filename(r) ELSE <<"script.sh">>, steps |-> read]

ParseAiResponse ==
  IF IsJson /\ HasString(reply, "response_type") /\ HasString(reply, "content") THEN Structured(reply)
  ELSE Fallback("answer", <<>>)

\* What follows: content that was not streamed is shown now; without a terminal
\* nothing is asked.
Follows(resp, tty) ==
  CASE resp.type = "command" -> IF tty THEN "run" ELSE "done"
    [] resp.type = "script" -> IF tty THEN "save" ELSE "done"
    [] resp.type = "steps" -> IF tty /\ resp.steps # <<>> THEN "step" ELSE "done"
    [] OTHER -> "done"

Parse(tty) ==
  /\ phase = "parse" /\ parsed' = ParseAiResponse
  /\ phase' = Follows(parsed', tty)
  /\ shown' = IF shown = <<>> /\ parsed'.steps = <<>> THEN parsed'.content ELSE shown
  /\ UNCHANGED <<request, stream, next, runAll, log, saved, result>>

-----------------------------------------------------------------------------
\* The prompts.  A command that was run has some status.
Pressed(i, k) == [what |-> "key", step |-> i, key |-> k]
Ran(i) == [what |-> "ran", step |-> i, key |-> ""]
Status == {0, 1}

\* "Run? [y/n/e]"; e puts the command into the line editor.
RunOne(k, status) ==
  /\ phase = "run"
  /\ IF k = "y" THEN Finish(status) /\ log' = log \o <<Pressed(1, k), Ran(1)>>
     ELSE Finish(0) /\ log' = Append(log, Pressed(1, k))
  /\ UNCHANGED <<request, stream, shown, parsed, next, runAll, saved>>

\* "Save to?": only a line of blanks takes the suggested name, an empty one is a no.
Trimmed(name) == SelectSeq(name, LAMBDA c : c # " ")
Chosen(name) == IF Trimmed(name) = <<>> THEN parsed.filename ELSE Trimmed(name)
Refused(name) == ".." \in ToSet(name) \/ name[1] \in {"/", "~"}

Save(name, ok) ==
  /\ phase = "save"
  /\ IF name = <<>> \/ name[1] = "n" THEN Finish(0) /\ UNCHANGED saved
     ELSE IF Refused(Chosen(name)) \/ ~ok THEN Finish(1) /\ UNCHANGED saved
     ELSE Finish(0) /\ saved' = Chosen(name)
  /\ UNCHANGED <<request, stream, shown, parsed, next, runAll, log>>

\* The loop over the steps, asked at each one until "all" was chosen.  What is
\* neither no nor skip runs the step.
Advance(status) ==
  next' = next + 1 /\ result' = status /\ phase' = IF next = Len(parsed.steps) THEN "done" ELSE "step"

\* Mutant: s runs the step like any other key.
SkippedRuns(k) == {"n"}

Skips(k) == {"n", "s"}

RunStep(k, status) ==
  /\ log' = log \o <<Pressed(next, k), Ran(next)>> /\ runAll' = (k = "a")
  /\ IF status # 0 /\ k # "a" THEN phase' = "stop" /\ result' = status /\ UNCHANGED next ELSE Advance(status)

Step(k, status) ==
  /\ phase = "step" /\ ~runAll
  /\ IF k \notin Skips(k) THEN RunStep(k, status)
     ELSE /\ log' = Append(log, Pressed(next, k)) /\ UNCHANGED runAll
          /\ IF k = "n" THEN Finish(0) /\ UNCHANGED next ELSE Advance(result)
  /\ UNCHANGED <<request, stream, shown, parsed, saved>>

StepOfAll(status) ==
  /\ phase = "step" /\ runAll /\ log' = Append(log, Ran(next)) /\ Advance(status)
  /\ UNCHANGED <<request, stream, shown, parsed, runAll, saved>>

\* "Stop? [y/n]" after a step that failed.
Stop(k) ==
  /\ phase = "stop" /\ log' = Append(log, [Pressed(next, k) EXCEPT !.what = "stop"])
  /\ IF k = "y" THEN phase' = "done" /\ UNCHANGED <<next, result>> ELSE Advance(result)
  /\ UNCHANGED <<request, stream, shown, parsed, runAll, saved>>

AnswerNext ==
  \/ \E p \in {"gemini", "openai", "ollama"}, h \in Histories, r \in Replies :
       \E cut \in CutsAt, blanks \in 0..MaxBlanks, unended \in BOOLEAN : Ask(p, h, r, cut, blanks, unended)
  \/ \E n \in 1..MaxChunk : Receive(n) \/ Overflows(n)
  \/ Complete \/ \E tty \in BOOLEAN : Parse(tty)
  \/ \E k \in {"y", "n", "e"}, status \in Status : RunOne(k, status)
  \/ \E name \in Filenames, ok \in BOOLEAN : Save(name, ok)
  \/ \E k \in {"y", "n", "a", "s", "other"}, status \in Status : Step(k, status)
  \/ \E status \in Status : StepOfAll(status)
  \/ \E k \in {"y", "n"} : Stop(k)

AnswerSpec == AnswerInit /\ [][AnswerNext]_answerVars

-----------------------------------------------------------------------------
\* Properties

\* However the network cuts the stream: a reply that came whole is taken for what
\* it is, and the user who is asked whether to run or save something has been shown
\* exactly that, escapes decoded, whether it was streamed or not.
Whole == wire = <<>> /\ buffer = <<>>
AskedIsShown ==
  /\ (phase \in {"run", "save"}) => shown = parsed.content
  /\ (phase \in {"run", "save"} /\ reply.kind = "object") =>
       parsed.content = Decoded(Field(reply, "content").text)
  /\ (phase = "parse" /\ Whole) => accumulated = TextOf[reply]

\* Nothing is run without a key that allows it, nothing after a no or a stop, no
\* step that was skipped, and none twice.
Allows(e, i) == e.what = "key" /\ ((e.step = i /\ e.key \notin {"n", "s", "e"}) \/ (e.step < i /\ e.key = "a"))
Ends(e) == (e.what = "key" /\ e.key = "n") \/ (e.what = "stop" /\ e.key = "y")
OnlyWhatWasAllowed ==
  \A j \in DOMAIN log : log[j].what = "ran" =>
    /\ \E i \in 1..j - 1 : Allows(log[i], log[j].step)
    /\ \A i \in 1..j - 1 : ~Ends(log[i]) /\ ~(log[i].what = "ran" /\ log[i].step >= log[j].step)
=============================================================================
