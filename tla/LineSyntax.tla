----------------------------- MODULE LineSyntax -----------------------------
\* What src/core/parser.cpp makes of the text of a command.  A text is a
\* sequence of symbols; "&&", "||" and "&1" are one symbol each, every other
\* operator is spelt with "<", ">", "2" and "-".  All scanners share QuoteState
\* except is_input_complete, which alone honours the backslash.
EXTENDS Naturals, Sequences, SequencesExt, FiniteSetsExt, Ranks

Quotes == {"'", "\""}
QuoteStates == {"none"} \cup Quotes
Blank == " "
NL == "\n"
TAB == "\t"
Separators == {";", "&&", "||"}

\* QuoteState::consume: the state after a symbol.
Toggle(q, c) == IF q = "none" /\ c \in Quotes THEN c ELSE IF q = c THEN "none" ELSE q

\* The quote state in front of every position of s.
QuoteAt(s) ==
  LET q[i \in 1..Len(s) + 1] == IF i = 1 THEN "none" ELSE Toggle(q[i - 1], s[i - 1]) IN q

Between(s, solid) == IF solid = {} THEN <<>> ELSE SubSeq(s, Min(solid), Max(solid))
Trim(s) == Between(s, {i \in DOMAIN s : s[i] \notin {Blank, NL, TAB}})

\* The first position from i on that satisfies P, or the end of s.
FirstFrom(s, i, P(_)) == Min({j \in i..Len(s) : P(s[j])} \cup {Len(s) + 1})

StripComment(s) == SubSeq(s, 1, FirstFrom([i \in DOMAIN s |-> <<s[i], QuoteAt(s)[i]>>], 1,
                                          LAMBDA p : p = <<"#", "none">>) - 1)

\* Depth of (...) and of $(...) after a symbol c, outside quotes, behind b.
Deeper(e, b, c) ==
  CASE c = "(" /\ b = "$" -> [e EXCEPT !.sub = @ + 1]
    [] c = "(" /\ b # "$" -> [e EXCEPT !.paren = @ + 1]
    [] c = ")" /\ e.sub > 0 -> [e EXCEPT !.sub = @ - 1]
    [] c = ")" /\ e.sub = 0 /\ e.paren > 0 -> [e EXCEPT !.paren = @ - 1]
    [] OTHER -> e

\* The same in front of every position; q is the quote state there.
DepthAt(s, q) ==
  LET d[i \in 1..Len(s) + 1] ==
        IF i = 1 THEN [paren |-> 0, sub |-> 0]
        ELSE IF q[i - 1] # "none" THEN d[i - 1]
        ELSE Deeper(d[i - 1], IF i > 2 THEN s[i - 2] ELSE Blank, s[i - 1])
  IN d

\* The positions of the symbols in C outside quotes and outside what Deep says.
Open(s, q, d, C, Deep(_)) == {i \in DOMAIN s : s[i] \in C /\ q[i] = "none" /\ ~Deep(d[i])}
OpenIn(s, q, C, Deep(_)) == Open(s, q, DepthAt(s, q), C, Deep)

Cuts(s, at) == <<0>> \o Ascending(at) \o <<Len(s) + 1>>

\* The pieces between the separators, each with the separator in front of it.
\* Only parens, not $( ), keep a separator from splitting.
PiecesOf(s, cut) ==
  [k \in 1..Len(cut) - 1 |->
     [op |-> IF k = 1 THEN "none" ELSE s[cut[k]],
      command |-> Trim(SubSeq(s, cut[k] + 1, cut[k + 1] - 1))]]
Pieces(s) == PiecesOf(s, Cuts(s, OpenIn(s, QuoteAt(s), Separators, LAMBDA e : e.paren > 0)))

PieceErrors(p) == IF p.command = <<>> /\ p.op \in {"&&", "||"} THEN {"empty command"} ELSE {}
QuoteErrors(s) == IF QuoteAt(s)[Len(s) + 1] # "none" THEN {"unmatched quote"} ELSE {}

Parsed(s, ps) ==
  [segments |-> SelectSeq(ps, LAMBDA p : p.command # <<>>),
   errors |-> PieceErrors(Last(ps)) \cup QuoteErrors(s)]
ParseStripped(s) == Parsed(s, Pieces(s))
ParseCommandLine(line) == ParseStripped(StripComment(line))

\* The quote state at the end of s when a backslash hides the next symbol
\* wherever Hides says so.
HiddenQuotes(s, Hides(_)) ==
  LET scan[n \in 0..Len(s)] ==
        IF n = 0 THEN [q |-> "none", hidden |-> FALSE]
        ELSE LET was == scan[n - 1] IN
             IF was.hidden THEN [was EXCEPT !.hidden = FALSE]
             ELSE IF s[n] = "\\" /\ Hides(was.q) THEN [was EXCEPT !.hidden = TRUE]
             ELSE [was EXCEPT !.q = Toggle(@, s[n])]
  IN scan[Len(s)].q

\* Mutant: an && at the end is taken for the end of the command.
IsInputCompleteNoAnd(s) ==
  /\ HiddenQuotes(s, LAMBDA q : TRUE) = "none"
  /\ Trim(s) = <<>> \/ Last(Trim(s)) \notin {"|", "||", "\\"}

IsInputComplete(s) ==
  /\ HiddenQuotes(s, LAMBDA q : TRUE) = "none"
  /\ Trim(s) = <<>> \/ Last(Trim(s)) \notin {"|", "||", "&&", "\\"}

\* The stages of a pipeline: split at every | outside quotes and parentheses.
StagesOf(s, cut) == [k \in 1..Len(cut) - 1 |-> SubSeq(s, cut[k] + 1, cut[k + 1] - 1)]
Stages(s) == StagesOf(s, Cuts(s, OpenIn(s, QuoteAt(s), {"|"}, LAMBDA e : e.paren + e.sub > 0)))

-----------------------------------------------------------------------------
\* Heredocs: the delimiter behind a << at position i, and where it ends.
EndsDelimiter == {Blank, TAB, "|", "||", ">", "<"}

QuotedDelimiter(s, b, e) == [delim |-> SubSeq(s, b + 1, e - 1), expand |-> FALSE, next |-> e + 1]
PlainDelimiter(s, b, e) == [delim |-> SubSeq(s, b, e - 1), expand |-> TRUE, next |-> e]

DelimiterFrom(s, b) ==
  IF b <= Len(s) /\ s[b] \in Quotes
  THEN QuotedDelimiter(s, b, FirstFrom(s, b + 1, LAMBDA c : c = s[b]))
  ELSE PlainDelimiter(s, b, FirstFrom(s, b, LAMBDA c : c \in EndsDelimiter))

HasDash(s, i) == i <= Len(s) /\ s[i] = "-"
Delimiter(s, i) == DelimiterFrom(s, FirstFrom(s, IF HasDash(s, i) THEN i + 1 ELSE i, LAMBDA c : c \notin {Blank, TAB}))

IsPair(s, i, c1, c2) == i < Len(s) /\ s[i] = c1 /\ s[i + 1] = c2

\* scan_pending_heredocs: every << outside quotes whose delimiter is not empty.
WithHeredoc(d, tabs, rest) ==
  IF d.delim = <<>> THEN rest
  ELSE <<[delim |-> d.delim, tabs |-> tabs, expand |-> d.expand, body |-> <<>>]>> \o rest

ScanHeredocs(s) ==
  LET scan[i \in 1..Len(s) + 2, q \in QuoteStates] ==
        IF i > Len(s) THEN <<>>
        ELSE IF q = "none" /\ IsPair(s, i, "<", "<")
        THEN WithHeredoc(Delimiter(s, i + 2), HasDash(s, i + 2), scan[Delimiter(s, i + 2).next, q])
        ELSE scan[i + 1, Toggle(q, s[i])]
  IN scan[1, "none"]

\* The bodies for each of several texts, handed out in the order of appearance;
\* a text that declares more than are left keeps its own empty ones.
Wanted(wants, k) == FoldLeft(LAMBDA n, w : n + Len(w), 0, SubSeq(wants, 1, k))
Filled(h, n, bodies) == IF n <= Len(bodies) THEN [h EXCEPT !.body = bodies[n].body] ELSE h
\* Mutant: every text takes the bodies from the first on.
HandOutToFromStart(wants, bodies) ==
  [k \in DOMAIN wants |-> [n \in DOMAIN wants[k] |-> Filled(wants[k][n], n, bodies)]]
HandOutTo(wants, bodies) ==
  [k \in DOMAIN wants |-> [n \in DOMAIN wants[k] |-> Filled(wants[k][n], Wanted(wants, k - 1) + n, bodies)]]
HandOut(texts, bodies) == HandOutTo([k \in DOMAIN texts |-> ScanHeredocs(texts[k])], bodies)

\* A subshell: its body is all text to the child that executes it, and what stands
\* behind its closing parenthesis is redirected without a body.
InParens(t) == Trim(t) # <<>> /\ Head(Trim(t)) = "("
DepthBehind(e) == e.paren + e.sub
ClosingParen(s, q, d) == Min({i \in DOMAIN s : s[i] = ")" /\ q[i] = "none" /\ DepthBehind(d[i + 1]) = 0} \cup {Len(s) + 1})
BehindParens(s) == SubSeq(s, ClosingParen(s, QuoteAt(s), DepthAt(s, QuoteAt(s))) + 1, Len(s))

\* The bodies for the stages of a pipeline: a subshell is passed over, and the
\* heredocs it declares are not counted.
HandOutToStages(stages, bodies) ==
  HandOutTo([k \in DOMAIN stages |-> IF InParens(stages[k]) THEN <<>> ELSE ScanHeredocs(stages[k])], bodies)

-----------------------------------------------------------------------------
\* tokenize_string: split at delim outside quotes; \" \' and \\ lose the backslash.
FlushTo(st, t) == [st EXCEPT !.cur = <<>>, !.out = IF t = <<>> THEN @ ELSE Append(@, t)]
Flush(st) == FlushTo(st, Trim(st.cur))
Add(st, c) == [st EXCEPT !.cur = Append(@, c)]
Release(st) == IF st.held THEN [Add(st, "\\") EXCEPT !.held = FALSE] ELSE st

Plain(st, c, delim) ==
  IF c = delim /\ st.q = "none" THEN Flush(st) ELSE [Add(st, c) EXCEPT !.q = Toggle(@, c)]

TokenStep(st, c, delim) ==
  IF st.held /\ c \in Quotes \cup {"\\"} THEN [Add(st, c) EXCEPT !.held = FALSE]
  ELSE IF c = "\\" THEN [st EXCEPT !.held = TRUE]
  ELSE Plain(Release(st), c, delim)

Tokenize(s, delim) ==
  Flush(Release(FoldLeft(LAMBDA st, c : TokenStep(st, c, delim),
                         [out |-> <<>>, cur |-> <<>>, q |-> "none", held |-> FALSE], s))).out

Enclosed(t) == Len(t) >= 2 /\ t[1] \in Quotes /\ Last(t) = t[1]
StripQuotes(t) == IF Enclosed(t) THEN SubSeq(t, 2, Len(t) - 1) ELSE t
ExpandTilde(t) == IF t[1] = "~" THEN <<"HOME">> \o Tail(t) ELSE t

\* Glob characters and \ lose their backslash and make the word literal.
Unescape(t) ==
  LET un[i \in 1..Len(t) + 2] ==
        IF i > Len(t) THEN <<>>
        ELSE IF t[i] = "\\" /\ i < Len(t) /\ t[i + 1] \in {"*", "?", "[", "\\"} THEN <<t[i + 1]>> \o un[i + 2]
        ELSE <<t[i]>> \o un[i + 1]
  IN un[1]

\* One word of argv.
Bare(t) == StripQuotes(ExpandTilde(t))
Word(t) == [text |-> Unescape(Bare(t)), quoted |-> Enclosed(t) \/ Unescape(Bare(t)) # Bare(t)]

\* A file name runs from the first symbol that is no blank to the next blank or tab.
NameFrom(s, b, e) == [name |-> SubSeq(s, b, e - 1), next |-> e]
NameAt(s, b) == NameFrom(s, b, FirstFrom(s, b, LAMBDA c : c \in {Blank, TAB}))
FileName(s, i) == NameAt(s, FirstFrom(s, i, LAMBDA c : c # Blank))

\* The operator at position i; 2> wins over >>, so 2>> is 2> with a name.
OperatorAt(s, i) ==
  IF IsPair(s, i, "2", ">") THEN (IF i + 2 <= Len(s) /\ s[i + 2] = "&1" THEN "2>&1" ELSE "2>")
  ELSE IF IsPair(s, i, ">", ">") THEN ">>"
  ELSE IF IsPair(s, i, "<", "<") THEN "<<"
  ELSE IF s[i] \in {"<", ">"} THEN s[i]
  ELSE "none"

\* The outcome of parse_redirections' loop with one more thing in front of it.
Text(c, after) == [after EXCEPT !.rest = <<c>> \o @]
Redirect(r, errs, after) == [after EXCEPT !.redirs = r \o @, !.errors = @ \cup errs]
NameError(name) == IF name = <<>> THEN {"missing filename"} ELSE {}
File(op, f, after) ==
  Redirect(IF f.name = <<>> THEN <<>> ELSE <<[op |-> op, name |-> f.name]>>, NameError(f.name), after)
Heredoc(d, tabs, body, after) ==
  Redirect(<<[op |-> "<<", delim |-> d.delim, tabs |-> tabs, expand |-> d.expand, body |-> body]>>,
           IF d.delim = <<>> THEN {"missing delimiter"} ELSE {}, after)

\* parse_redirections: quotes within names and delimiters are not seen by the
\* quote state; the b-th heredoc takes the b-th body.
RedirScan(s, bodies) ==
  LET scan[i \in 1..Len(s) + 2, q \in QuoteStates, b \in 1..Len(bodies) + 1] ==
        LET op == OperatorAt(s, i) IN
        IF i > Len(s) THEN [redirs |-> <<>>, rest |-> <<>>, errors |-> {}]
        ELSE IF q # "none" \/ op = "none" THEN Text(s[i], scan[i + 1, Toggle(q, s[i]), b])
        ELSE IF op = "2>&1" THEN Redirect(<<[op |-> op]>>, {}, scan[i + 3, q, b])
        ELSE IF op = "<<" /\ b > Len(bodies)
        THEN Heredoc(Delimiter(s, i + 2), HasDash(s, i + 2), <<>>, scan[Delimiter(s, i + 2).next, q, b])
        ELSE IF op = "<<"
        THEN Heredoc(Delimiter(s, i + 2), HasDash(s, i + 2), bodies[b].body,
                     scan[Delimiter(s, i + 2).next, q, b + 1])
        ELSE File(op, FileName(s, i + IF op \in {"2>", ">>"} THEN 2 ELSE 1),
                  scan[FileName(s, i + IF op \in {"2>", ">>"} THEN 2 ELSE 1).next, q, b])
  IN scan[1, "none", 1]

Words(tokens) == [k \in DOMAIN tokens |-> Word(tokens[k])]
WithWords(r) == [redirections |-> r.redirs, errors |-> r.errors, argv |-> Words(Tokenize(r.rest, Blank))]
ParseRedirections(s, bodies) == WithWords(RedirScan(s, bodies))

\* Whether the text is a structured pipeline, which parses its heads by itself.
IsStructured(s) == \E i \in DOMAIN s : IsPair(s, i, "|", ">") /\ QuoteAt(s)[i] = "none"
=============================================================================
