------------------------------ MODULE ReadLoop ------------------------------
\* How lines become commands: the interactive loop (src/repl.cpp), script files
\* (execute_script_file in src/core/executor.cpp) and ~/.tashrc (src/startup.cpp).
\* Physical lines are made of units; a command may take several of them,
\* and the bodies of its heredocs some more.  "ran" is what was handed to
\* execute_command_line last.
EXTENDS LineSyntax

CONSTANTS
  Units,      \* what may be typed: a set of sequences of symbols
  Readers,    \* a subset of {"repl", "script", "rc"}
  KnownWords, \* the words that are builtins or commands on the PATH
  MaxUnits,   \* bound on the units typed
  MaxLines,   \* bound on the lines entered
  MaxRing     \* bound on the history of the line editor

ASSUME ReadLoopAssumption ==
  /\ \A u \in Units : u \in Seq(ToSet(u))
  /\ Readers \subseteq {"repl", "script", "rc"} /\ MaxUnits \in Nat /\ MaxLines \in Nat /\ MaxRing \in Nat \ {0}

VARIABLES
  reader,  \* who reads
  awaits,   \* "prompt", "more" (continuation), "body" (heredoc), "exited", "crashed"
  raw,     \* the lines of the present or last command, joined
  heredocs,\* the heredocs of the command, with the bodies read so far
  reading, \* index of the heredoc whose body is read
  ring,    \* the history of the line editor, oldest first
  last,    \* state.ai.last_command_text
  ran,     \* the outcome of the last command: see Outcome
  ctrlD,   \* ctrl_d_count
  typed, entered \* how much of the bounds is used

loopVars == <<reader, awaits, raw, heredocs, reading, ring, last, ran, ctrlD, typed, entered>>

Nothing == [kind |-> "none", text |-> <<>>, segments |-> <<>>, errors |-> {}]

LoopInit ==
  /\ reader \in Readers /\ awaits = "prompt" /\ raw = <<>> /\ heredocs = <<>> /\ reading = 0
  /\ ring = <<>> /\ last = <<>> /\ ran = Nothing /\ ctrlD = 0 /\ typed = 0 /\ entered = 0

-----------------------------------------------------------------------------
\* History of the line editor.  replxx keeps entries unique (a repeated one moves
\* to the end) and drops the oldest beyond its size.
HistoryAdd(r, line) ==
  LET n == Append(SelectSeq(r, LAMBDA e : e # line), line)
  IN IF Len(n) > MaxRing THEN Tail(n) ELSE n

\* should_record_history: the scan starts at the oldest entry, and only that one
\* is compared.
ShouldRecord(r, line) ==
  line # <<>> /\ line[1] # Blank /\ (r = <<>> \/ r[1] # line)

\* expand_history_bang.  "!1" and "!2" stand for a bang and a number that may be in
\* the history, "!huge" for one that std::stoi throws on.
EventNumber == [e \in {"!1", "!2"} |-> IF e = "!1" THEN 1 ELSE 2]

Found(text) == [ok |-> TRUE, text |-> text, crash |-> FALSE]
NotFound == [ok |-> FALSE, text |-> <<>>, crash |-> FALSE]
EventAt(r, n) == IF n \in DOMAIN r THEN Found(r[n]) ELSE NotFound

ExpandBang(line, r) ==
  CASE Trim(line) = <<"!!">> -> EventAt(r, Len(r))
    [] Trim(line) = <<"!huge">> -> [NotFound EXCEPT !.crash = TRUE]
    [] Trim(line) \in {<<e>> : e \in DOMAIN EventNumber} -> EventAt(r, EventNumber[Trim(line)[1]])
    [] OTHER -> Found(line)

-----------------------------------------------------------------------------
IsAiWord(t) == t # <<>> /\ t[1] = "@ai" /\ (Len(t) = 1 \/ t[2] = Blank)
IsAiCommand(s) == IsAiWord(SubSeq(s, FirstFrom(s, 1, LAMBDA c : c # Blank), Len(s)))

WithoutMark(w) == IF w # <<>> /\ Last(w) = "?" THEN Front(w) ELSE w
FirstWord(t) == WithoutMark(SubSeq(t, 1, FirstFrom(t, 1, LAMBDA c : c \in {Blank, TAB}) - 1))

\* The ? may not be in quotes; only within double quotes a backslash hides one.
IsAiQuestion(s) ==
  LET t == Trim(s) IN
  /\ t # <<>> /\ Last(t) = "?" /\ ToSet(t) \cap {Blank, TAB} # {}
  /\ HiddenQuotes(Front(t), LAMBDA q : q = "\"") = "none"
  /\ FirstWord(t) \notin KnownWords \cup {<<>>}

KindOf(s) == IF IsAiCommand(s) THEN "ai" ELSE IF IsAiQuestion(s) THEN "question" ELSE "commands"

\* parse_command_line and the distribution of the bodies over its segments.
WithBodies(text, p, hd) ==
  [kind |-> "commands", text |-> text, errors |-> p.errors,
   segments |-> [k \in DOMAIN p.segments |->
                   [op |-> p.segments[k].op, command |-> p.segments[k].command, heredocs |-> hd[k]]]]
Distribute(text, p, bodies) ==
  WithBodies(text, p, HandOut([k \in DOMAIN p.segments |-> p.segments[k].command], bodies))
Commands(text, bodies) == Distribute(text, ParseCommandLine(text), bodies)

\* The joined lines become one: the loop turns every newline into a ";".
JoinedLines(s) == [i \in DOMAIN s |-> IF s[i] = NL THEN ";" ELSE s[i]]

\* The end of one command of the interactive loop, after the history expansion.
RunExpanded(bang, bodies) ==
  /\ awaits' = IF bang.crash THEN "crashed" ELSE "prompt"
  /\ IF ~bang.ok
     THEN ran' = [Nothing EXCEPT !.errors = {"event not found"}] /\ UNCHANGED <<ring, last>>
     ELSE /\ ring' = IF ShouldRecord(ring, bang.text) THEN HistoryAdd(ring, bang.text) ELSE ring
          /\ last' = bang.text
          /\ ran' = IF KindOf(bang.text) = "commands" THEN Commands(bang.text, bodies)
                    ELSE [Nothing EXCEPT !.kind = KindOf(bang.text), !.text = bang.text]

RunInteractive(line, bodies) == RunExpanded(ExpandBang(JoinedLines(line), ring), bodies)

\* Scripts and ~/.tashrc have no history and no questions.
RunLine(line, bodies) ==
  /\ awaits' = "prompt" /\ ran' = Commands(line, bodies) /\ UNCHANGED <<ring, last>>

RunCommand(line, bodies) == IF reader = "repl" THEN RunInteractive(line, bodies) ELSE RunLine(line, bodies)

\* A command has all its lines: first its heredocs are read.  ~/.tashrc reads none.
AcceptWith(line, pending) ==
  /\ raw' = line /\ heredocs' = pending
  /\ IF pending = <<>> THEN RunCommand(line, <<>>) /\ reading' = 0
     ELSE awaits' = "body" /\ reading' = 1 /\ UNCHANGED <<ring, last, ran>>
Accept(line) == AcceptWith(line, IF reader = "rc" THEN <<>> ELSE ScanHeredocs(line))

-----------------------------------------------------------------------------
\* A physical line of n units is entered.
EnterLine(n) == entered < MaxLines /\ entered' = entered + 1 /\ typed' = typed + n /\ ctrlD' = 0 /\ UNCHANGED reader

\* What still lacks lines: the loop asks is_input_complete, scripts look for a
\* backslash at the end and drop it.
WantsMore(line) ==
  CASE reader = "repl" -> ~IsInputComplete(line)
    [] reader = "script" -> line # <<>> /\ Last(line) = "\\"
    [] OTHER -> FALSE

NextLine(line) ==
  IF WantsMore(line)
  THEN awaits' = "more" /\ raw' = line /\ UNCHANGED <<heredocs, reading, ring, last, ran>>
  ELSE Accept(line)

EnterCommand(n, line) ==
  /\ awaits = "prompt" /\ EnterLine(n)
  /\ IF line = <<>> THEN UNCHANGED <<awaits, raw, heredocs, reading, ring, last, ran>> ELSE NextLine(line)

\* A further line of the command: joined by a newline, or in place of the backslash.
EnterContinuation(n, line) ==
  /\ awaits = "more" /\ EnterLine(n)
  /\ NextLine(IF reader = "repl" THEN raw \o <<NL>> \o line ELSE SubSeq(raw, 1, Len(raw) - 1) \o line)

StripTabs(l) == SubSeq(l, FirstFrom(l, 1, LAMBDA c : c # TAB), Len(l))

\* collect_heredoc_bodies: lines up to the delimiter, heredoc after heredoc.
EnterBody(n, line) ==
  LET h == heredocs[reading]
      l == IF h.tabs THEN StripTabs(line) ELSE line
  IN /\ awaits = "body" /\ EnterLine(n) /\ UNCHANGED raw
     /\ IF l # h.delim
        THEN heredocs' = [heredocs EXCEPT ![reading].body = Append(@, l)] /\ UNCHANGED <<awaits, reading, ring, last, ran>>
        ELSE /\ UNCHANGED heredocs
             /\ IF reading < Len(heredocs) THEN reading' = reading + 1 /\ UNCHANGED <<awaits, ring, last, ran>>
                ELSE reading' = 0 /\ RunCommand(raw, heredocs)

\* Ctrl-D at the prompt: the second in a row leaves the loop.
EndAtPrompt ==
  /\ awaits = "prompt"
  /\ ctrlD' = IF reader = "repl" THEN ctrlD + 1 ELSE ctrlD
  /\ awaits' = IF reader # "repl" \/ ctrlD' >= 2 THEN "exited" ELSE awaits
  /\ UNCHANGED <<reader, raw, heredocs, reading, ring, last, ran, typed, entered>>

\* An end of input within a continuation: what there is counts as the command.
EndInContinuation ==
  /\ awaits = "more"
  /\ Accept(IF reader = "repl" THEN raw ELSE SubSeq(raw, 1, Len(raw) - 1))
  /\ UNCHANGED <<reader, ctrlD, typed, entered>>

\* An end of input within a body: the command is dropped; a script ends with it.
EndInBody ==
  /\ awaits = "body"
  /\ awaits' = IF reader = "repl" THEN "prompt" ELSE "exited"
  /\ reading' = 0 /\ ran' = [Nothing EXCEPT !.errors = {"unexpected EOF"}]
  /\ UNCHANGED <<reader, raw, heredocs, ring, last, ctrlD, typed, entered>>

LoopNext == \/ \E n \in 0..MaxUnits - typed : \E us \in [1..n -> Units] : LET line == FlattenSeq(us) IN
             EnterCommand(n, line) \/ EnterContinuation(n, line) \/ EnterBody(n, line)
        \/ EndAtPrompt \/ EndInContinuation \/ EndInBody

LoopSpec == LoopInit /\ [][LoopNext]_loopVars

-----------------------------------------------------------------------------
\* Properties

\* A line that is_input_complete lets pass is one that parse_command_line has no
\* fault to find with: the two scan quotes and operators by separate code.  It is
\* not so with a backslash, which only the first honours, nor with a comment.
AcceptedLinesParse ==
  (/\ reader = "repl" /\ ran.kind = "commands" /\ awaits = "prompt"
   /\ ran.text = JoinedLines(raw) /\ IsInputComplete(raw) /\ ToSet(raw) \cap {"\\", "#"} = {})
  => ran.errors = {}

\* The redirections that the stages of all segments end up with, in order.  A
\* structured pipeline has its head executed by /bin/sh, without any body.
OfStage(t, hd) ==
  IF InParens(t) THEN ParseRedirections(BehindParens(Trim(t)), <<>>).redirections
                 ELSE ParseRedirections(t, hd).redirections
OfStages(st, hd) == FlattenSeq([k \in DOMAIN st |-> OfStage(st[k], hd[k])])
OfSegment(st, bodies) == OfStages(st, HandOutToStages(st, bodies))
OfCommand(c, bodies) == IF IsStructured(c) THEN <<>> ELSE OfSegment(Stages(c), bodies)
Attached == FlattenSeq([k \in DOMAIN ran.segments |-> OfCommand(ran.segments[k].command, ran.segments[k].heredocs)])

\* The segments that lose a body: heredocs of a subshell, in its parentheses or
\* behind them, and of a structured pipeline get none; and the stages behind such a
\* subshell get the bodies of those before.
Declares(t) == ScanHeredocs(t) # <<>>
LosesBodies(c) ==
  \/ IsStructured(c) /\ Declares(c)
  \/ \E k \in DOMAIN Stages(c) : InParens(Stages(c)[k]) /\ Declares(Stages(c)[k])

\* Only the scan of the whole line takes a ; for part of a delimiter, and only a
\* file name swallows a << that follows it; a << without a delimiter, which is an
\* error, takes the body of the next one all the same; and a << in a comment waits
\* for a body.
Unambiguous(redirs) ==
  /\ "#" \notin ToSet(raw)
  /\ \A k \in DOMAIN ran.segments : ~LosesBodies(ran.segments[k].command)
  /\ \A n \in DOMAIN heredocs : ToSet(heredocs[n].delim) \cap (Separators \cup Quotes \cup {"#", NL}) = {}
  /\ \A n \in DOMAIN redirs :
       /\ redirs[n].op \in {"<", ">", ">>", "2>"} => "<" \notin ToSet(redirs[n].name)
       /\ redirs[n].op = "<<" => redirs[n].delim # <<>>

SameHeredocs(got) ==
  /\ Len(got) = Len(heredocs)
  /\ \A n \in DOMAIN heredocs : got[n].delim = heredocs[n].delim /\ got[n].body = heredocs[n].body

HeredocsArrive(redirs) == Unambiguous(redirs) => SameHeredocs(SelectSeq(redirs, LAMBDA r : r.op = "<<"))

\* Every heredoc of a command gets the body that was typed for it, across the
\* scan of the whole line, of each segment, of each stage and of the redirections,
\* with subshells and structured pipelines among them, unless these declare heredocs
\* themselves: (a <<A) | b <<B gives b the body of A (executor.cpp:432-467).
BodiesReachTheirCommand ==
  (awaits = "prompt" /\ heredocs # <<>> /\ ran.kind = "commands") => HeredocsArrive(Attached)

=============================================================================
