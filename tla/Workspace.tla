------------------------------ MODULE Workspace ------------------------------
\* Where the shells are and what they remember of it: cd, pushd, popd and z
\* (src/builtins/nav.cpp), the frecency file that all shells of a user share
\* (src/history/frecency.cpp), aliases and variables (src/builtins/env.cpp), and the
\* sessions that are saved and loaded (src/core/session.cpp, src/builtins/config.cpp).
EXTENDS Naturals, Sequences, SequencesExt, FiniteSetsExt, Functions

CONSTANTS
  Terminals,   \* the shells, one in each
  Dirs,        \* directories; Home is one of them and is never removed
  Home,
  Spelling,    \* the absolute path of each, a sequence of symbols, as the frecency file has it
  Queries,     \* what is given to z: sequences of symbols
  Numerals,    \* for each count up to MaxCommands, and
  Stamps,      \* for each hour that the time may be, the symbols that the file has for it
  SessionNames,
  Keys,        \* the keys of aliases and captured variables, "alias:" or "env:" and a name, sorted
  Values,      \* their values: sequences of symbols
  MaxEntries, KeptEntries, \* 200 and 150 in z_record_directory
  MaxCommands, \* bound on the commands given
  MaxEvents    \* bound on crashes, directories removed or made, and hours that pass

NL == "\n"
CR == "\r"

ASSUME WorkspaceAssumption ==
  /\ Home \in Dirs /\ "" \notin Dirs /\ "z" \notin SessionNames
  /\ Keys \in Seq(ToSet(Keys)) /\ \A v \in ToSet(Keys) \cup Values : v \in Seq(ToSet(v))
  /\ \A k \in ToSet(Keys) : Len(k) > 1 /\ k[1] \in {"alias:", "env:"} /\ "=" \notin ToSet(k) \* a name ends at the =
  /\ KeptEntries \in Nat /\ MaxEntries \in Nat /\ KeptEntries <= MaxEntries
  /\ MaxCommands \in Nat /\ MaxEvents \in Nat

\* A directory with a | or a line break in its name is left out: the file has no escapes.
ASSUME LinesAssumption ==
  /\ DOMAIN Spelling = Dirs /\ DOMAIN Numerals = 0..MaxCommands /\ 0 \in DOMAIN Stamps /\ DOMAIN Stamps \subseteq Nat
  /\ IsInjective(Spelling) /\ IsInjective(Numerals) /\ IsInjective(Stamps)
  /\ \A f \in Range(Spelling) \cup Range(Numerals) \cup Range(Stamps) : f \in Seq(ToSet(f) \ {"|", NL})
  /\ \A d \in Dirs : Spelling[d] # <<>> /\ Spelling[d][1] = "/"

VARIABLES
  dirs,      \* the directories that exist
  now,       \* the time in hours
  zfile,     \* ~/.tash_z: a text
  sessions,  \* the session files: a text, or Missing
  stage,     \* where each shell is: "prompt", "open", "write", "detached", "load"
  pending,   \* what it is about to write: [file, text]
  cwd,       \* what getcwd gives: "" when the directory was removed
  previous, stack, bindings, \* previous_directory, dir_stack, the aliases and captured variables
  info,      \* the session last loaded
  visits, captured, clashed, commands, events \* for the properties and the bounds:
             \* visits made, sessions captured, and the files whose writers met

shared == <<dirs, now, zfile, sessions>>
place == <<cwd, previous, stack>>
ghosts == <<visits, captured, clashed>>
workspaceVars == <<shared, stage, pending, place, bindings, info, ghosts, commands, events>>

Missing == <<"missing">>
NoFile == [file |-> "", text |-> <<>>]
NoInfo == [name |-> <<>>, cwd |-> <<>>, bindings |-> <<>>]

WorkspaceInit ==
  /\ dirs = Dirs /\ now = 0 /\ zfile = <<>> /\ sessions = [n \in SessionNames |-> Missing]
  /\ stage = [s \in Terminals |-> "prompt"] /\ pending = [s \in Terminals |-> NoFile]
  /\ cwd = [s \in Terminals |-> Home] /\ previous = [s \in Terminals |-> ""] /\ stack = [s \in Terminals |-> <<>>]
  /\ bindings = [s \in Terminals |-> <<>>] /\ info = [s \in Terminals |-> NoInfo]
  /\ visits = [d \in Dirs |-> 0] /\ captured = [n \in SessionNames |-> {}] /\ clashed = {} /\ commands = 0 /\ events = 0

Ready(s) == stage[s] = "prompt" /\ commands < MaxCommands /\ commands' = commands + 1

-----------------------------------------------------------------------------
\* A text is a sequence of symbols, cut into lines at the line breaks.
AddSymbol(lines, c) == IF c = NL THEN Append(lines, <<>>) ELSE [lines EXCEPT ![Len(lines)] = Append(@, c)]
Lines(text) == LET lines[n \in 0..Len(text)] == IF n = 0 THEN <<<<>>>> ELSE AddSymbol(lines[n - 1], text[n]) IN lines[Len(text)]

\* A line up to its first c, and what follows it.
Marks(c, line) == {n \in DOMAIN line : line[n] = c}
Before(c, line) == SubSeq(line, 1, Min(Marks(c, line)) - 1)
Behind(c, line) == SubSeq(line, Min(Marks(c, line)) + 1, Len(line))

-----------------------------------------------------------------------------
\* The frecency file: a line path|frequency|last for each entry.
ZFields(e) == e.path \o <<"|">> \o (Numerals[e.frequency] \o <<"|">> \o Stamps[e.last])
ZLine(e) == ZFields(e) \o <<NL>>
ZText(entries) == FlattenSeq([i \in DOMAIN entries |-> ZLine(entries[i])])

\* load_z_data: a line that has less than two bars or no numbers is passed over.  Where
\* lines were cut the numbers are whole or gone with their bars, so that digits with
\* something behind them, which stoi takes, need no case.
EntryIn(line) ==
  LET read == {e \in [path : {Before("|", line)}, frequency : DOMAIN Numerals, last : DOMAIN Stamps] : ZFields(e) = line}
  IN IF Marks("|", line) = {} \/ read = {} THEN <<>> ELSE <<CHOOSE e \in read : TRUE>>
ZEntries(text) == LET lines == Lines(text) IN FlattenSeq([i \in DOMAIN lines |-> EntryIn(lines[i])])

\* Twice frecency_score, to keep it whole.
Weight(age) == IF age < 1 THEN 8 ELSE IF age < 24 THEN 4 ELSE IF age < 168 THEN 2 ELSE 1
Score(e) == e.frequency * Weight(now - e.last)

\* Mutant: a visit counts for every entry.
VisitedAll(entries, d) ==
  IF \E i \in DOMAIN entries : entries[i].path = d
  THEN [i \in DOMAIN entries |-> [entries[i] EXCEPT !.frequency = @ + 1, !.last = now]]
  ELSE Append(entries, [path |-> d, frequency |-> 1, last |-> now])

Visited(entries, d) ==
  IF \E i \in DOMAIN entries : entries[i].path = d
  THEN LET first == Min({i \in DOMAIN entries : entries[i].path = d})
       IN [entries EXCEPT ![first].frequency = @ + 1, ![first].last = now]
  ELSE Append(entries, [path |-> d, frequency |-> 1, last |-> now])

\* std::sort leaves the order of equals open.
ByScore(entries) ==
  {[i \in DOMAIN entries |-> entries[p[i]]] :
     p \in {q \in Bijection(DOMAIN entries, DOMAIN entries) :
              \A i, j \in DOMAIN entries : i < j => Score(entries[q[i]]) >= Score(entries[q[j]])}}
Pruned(entries) ==
  IF Len(entries) <= MaxEntries THEN {entries} ELSE {SubSeq(e, 1, KeptEntries) : e \in ByScore(entries)}

\* z_record_directory up to the writing; what the file holds is read now.
Record(s, path) ==
  /\ \E entries \in Pruned(Visited(ZEntries(zfile), path)) :
       pending' = [pending EXCEPT ![s] = [file |-> "z", text |-> ZText(entries)]]
  /\ stage' = [stage EXCEPT ![s] = "open"]

\* The directory that a path leads to, if there is one: stat, and later chdir, take a
\* path without / in front, which only a line that was cut can have, from where the shell is.
LedTo(s, path) ==
  {d \in dirs : /\ cwd[s] # "" /\ path # <<>>
                /\ Spelling[d] = IF path[1] = "/" THEN path ELSE Spelling[cwd[s]] \o <<"/">> \o path}
IsPartOf(word, path) == \E n \in DOMAIN path : IsPrefix(word, SubSeq(path, n, Len(path)))

\* z_find_directory: the entries it considers, and the first of those with the best score.
Candidates(s, word, entries) == {i \in DOMAIN entries : IsPartOf(word, entries[i].path) /\ LedTo(s, entries[i].path) # {}}
Foremost(entries, S) ==
  {i \in S : \A j \in S : Score(entries[j]) < Score(entries[i]) \/ (Score(entries[j]) = Score(entries[i]) /\ i <= j)}

-----------------------------------------------------------------------------
\* The builtins.  chdir fails for a directory that is not there, and cd and pushd
\* also where getcwd fails.
Moved(s, d) == cwd' = [cwd EXCEPT ![s] = d]

GoTo(s, d, path) ==
  /\ cwd[s] # "" /\ d \in dirs
  /\ Moved(s, d) /\ previous' = [previous EXCEPT ![s] = cwd[s]] /\ Record(s, path)
  /\ visits' = [visits EXCEPT ![d] = @ + 1]
  /\ UNCHANGED <<shared, stack, bindings, info, captured, clashed, events>>

\* cd writes down what getcwd gives, z the path that it found.
Cd(s, d) == Ready(s) /\ GoTo(s, d, Spelling[d])
CdBack(s) == Ready(s) /\ previous[s] # "" /\ GoTo(s, previous[s], Spelling[previous[s]])
Z(s, word) ==
  LET entries == ZEntries(zfile) IN
  Ready(s) /\ \E i \in Foremost(entries, Candidates(s, word, entries)) :
    \E d \in LedTo(s, entries[i].path) : GoTo(s, d, entries[i].path)

Pushd(s, d) ==
  /\ Ready(s) /\ cwd[s] # "" /\ d \in dirs
  /\ Moved(s, d) /\ stack' = [stack EXCEPT ![s] = Append(@, cwd[s])]
  /\ UNCHANGED <<shared, stage, pending, previous, bindings, info, ghosts, events>>

\* The entry is gone whether chdir succeeds or not.
Popd(s) ==
  /\ Ready(s) /\ stack[s] # <<>>
  /\ stack' = [stack EXCEPT ![s] = Front(@)]
  /\ IF Last(stack[s]) \in dirs THEN Moved(s, Last(stack[s])) ELSE UNCHANGED cwd
  /\ UNCHANGED <<shared, stage, pending, previous, bindings, info, ghosts, events>>

Bind(b, k, v) == [x \in DOMAIN b \cup {k} |-> IF x = k THEN v ELSE b[x]]

\* alias and export
Set(s, k, v) ==
  /\ Ready(s) /\ bindings' = [bindings EXCEPT ![s] = Bind(@, k, v)]
  /\ UNCHANGED <<shared, stage, pending, place, info, ghosts, events>>

\* unalias and unset
Unset(s, k) ==
  /\ Ready(s) /\ k \in DOMAIN bindings[s] /\ bindings' = [bindings EXCEPT ![s] = Restrict(@, DOMAIN @ \ {k})]
  /\ UNCHANGED <<shared, stage, pending, place, info, ghosts, events>>

-----------------------------------------------------------------------------
\* The text of a session: a line for each thing; the times and the socket are left out.
EscapeOf == [c \in {"\\", NL, CR} |-> IF c = NL THEN "n" ELSE IF c = CR THEN "r" ELSE c]
Escaped(c) == IF c \in DOMAIN EscapeOf THEN <<"\\", EscapeOf[c]>> ELSE <<c>>

\* Mutant: a backslash stands for itself.
EscapeNewlines(v) == FlattenSeq([n \in DOMAIN v |-> IF v[n] = "\\" THEN <<v[n]>> ELSE Escaped(v[n])])

EscapeValue(v) == FlattenSeq([n \in DOMAIN v |-> Escaped(v[n])])

\* One more symbol of an escaped value; a backslash in front of anything else, or at
\* the end, is only a backslash.
Unread == [escaped |-> FALSE, out |-> <<>>]
Unescaped(c) == CASE c = "\\" -> <<c>> [] c = "n" -> <<NL>> [] c = "r" -> <<CR>> [] OTHER -> <<"\\", c>>
ReadSymbol(t, c) ==
  IF t.escaped THEN [escaped |-> FALSE, out |-> t.out \o Unescaped(c)]
  ELSE IF c = "\\" THEN [escaped |-> TRUE, out |-> t.out] ELSE [escaped |-> FALSE, out |-> Append(t.out, c)]

UnescapeValue(v) ==
  LET unescaped[n \in 0..Len(v)] == IF n = 0 THEN Unread ELSE ReadSymbol(unescaped[n - 1], v[n])
      end == unescaped[Len(v)]
  IN IF end.escaped THEN Append(end.out, "\\") ELSE end.out

LineOf(key, value) == EscapeValue(key) \o <<"=">> \o EscapeValue(value) \o <<NL>>
BindingLine(b, k) == IF k \in DOMAIN b THEN LineOf(k, b[k]) ELSE <<>>
Text(i) ==
  LineOf(<<"name">>, i.name) \o LineOf(<<"cwd">>, i.cwd) \o FlattenSeq([n \in DOMAIN Keys |-> BindingLine(i.bindings, Keys[n])])

\* load_session: lines without = and keys it does not know are passed over.
ReadEntry(i, key, value) ==
  IF key = <<"name">> THEN [i EXCEPT !.name = value]
  ELSE IF key = <<"cwd">> THEN [i EXCEPT !.cwd = value]
  ELSE IF Len(key) > 1 /\ key[1] \in {"alias:", "env:"} THEN [i EXCEPT !.bindings = Bind(@, UnescapeValue(key), value)]
  ELSE i
ReadLine(i, line) ==
  IF Marks("=", line) = {} THEN i ELSE ReadEntry(i, Before("=", line), UnescapeValue(Behind("=", line)))

ReadLines(lines) ==
  LET read[n \in 0..Len(lines)] == IF n = 0 THEN NoInfo ELSE ReadLine(read[n - 1], lines[n]) IN read[Len(lines)]
LoadSession(text) == ReadLines(Lines(IF text = Missing THEN <<>> ELSE text))

\* capture_current_state
Current(s, n) == [name |-> <<n>>, cwd |-> IF cwd[s] = "" THEN <<>> ELSE <<cwd[s]>>, bindings |-> bindings[s]]

Save(s, n) ==
  /\ Ready(s) /\ stage' = [stage EXCEPT ![s] = "open"]
  /\ pending' = [pending EXCEPT ![s] = [file |-> n, text |-> Text(Current(s, n))]]
  /\ captured' = [captured EXCEPT ![n] = @ \cup {Current(s, n)}]
  /\ UNCHANGED <<shared, place, bindings, info, visits, clashed, events>>

\* session load: first it looks whether the file is there, then it reads it.
LoadNamed(s, n) ==
  /\ Ready(s) /\ sessions[n] # Missing
  /\ stage' = [stage EXCEPT ![s] = "load"] /\ pending' = [pending EXCEPT ![s] = [file |-> n, text |-> <<>>]]
  /\ UNCHANGED <<shared, place, bindings, info, ghosts, events>>

RestoreSession(s) ==
  /\ stage[s] = "load" /\ stage' = [stage EXCEPT ![s] = "prompt"] /\ pending' = [pending EXCEPT ![s] = NoFile]
  /\ info' = [info EXCEPT ![s] = LoadSession(sessions[pending[s].file])]
  /\ LET i == info'[s] IN
       /\ IF i.cwd # <<>> /\ i.cwd[1] \in dirs THEN Moved(s, i.cwd[1]) ELSE UNCHANGED cwd
       /\ bindings' = [bindings EXCEPT ![s] = [x \in DOMAIN @ \cup DOMAIN i.bindings |-> IF x \in DOMAIN i.bindings THEN i.bindings[x] ELSE @[x]]]
  /\ UNCHANGED <<shared, previous, stack, ghosts, commands, events>>

\* session rm.  Who writes the file meanwhile writes it to nobody.
RemoveSession(s, n) ==
  /\ Ready(s) /\ sessions[n] # Missing /\ sessions' = [sessions EXCEPT ![n] = Missing]
  /\ stage' = [t \in Terminals |-> IF stage[t] = "write" /\ pending[t].file = n THEN "detached" ELSE stage[t]]
  /\ UNCHANGED <<dirs, now, zfile, pending, place, bindings, info, ghosts, events>>

-----------------------------------------------------------------------------
\* Both kinds of file are written the same way: truncated when they are opened, and
\* filled by one write when they are closed.  What is written lies, symbol by symbol, over
\* what another shell has written meanwhile: of a longer text the end is left, which may
\* begin inside a line.
Contents(f) == IF f = "z" THEN zfile ELSE sessions[f]
Put(f, text) ==
  IF f = "z" THEN zfile' = text /\ UNCHANGED sessions ELSE sessions' = [sessions EXCEPT ![f] = text] /\ UNCHANGED zfile
Over(old, new) == new \o SubSeq(old, Len(new) + 1, Len(old))

Open(s) ==
  /\ stage[s] = "open" /\ stage' = [stage EXCEPT ![s] = "write"]
  /\ Put(pending[s].file, <<>>)
  /\ clashed' = clashed \cup {f \in {pending[s].file} : \E t \in Terminals : stage[t] = "write" /\ pending[t].file = f}
  /\ UNCHANGED <<dirs, now, pending, place, bindings, info, visits, captured, commands, events>>

CannotOpen(s) ==
  /\ stage[s] = "open" /\ stage' = [stage EXCEPT ![s] = "prompt"] /\ pending' = [pending EXCEPT ![s] = NoFile]
  /\ UNCHANGED <<shared, place, bindings, info, ghosts, commands, events>>

WriteOut(s) ==
  /\ stage[s] \in {"write", "detached"} /\ stage' = [stage EXCEPT ![s] = "prompt"] /\ pending' = [pending EXCEPT ![s] = NoFile]
  /\ IF stage[s] = "write" THEN Put(pending[s].file, Over(Contents(pending[s].file), pending[s].text))
     ELSE UNCHANGED <<zfile, sessions>>
  /\ UNCHANGED <<dirs, now, place, bindings, info, ghosts, commands, events>>

-----------------------------------------------------------------------------
\* What happens around the shells.
Event == events < MaxEvents /\ events' = events + 1

\* A shell is killed and another takes its place.
Killed(s) ==
  /\ Event /\ stage[s] # "prompt" /\ stage' = [stage EXCEPT ![s] = "prompt"] /\ pending' = [pending EXCEPT ![s] = NoFile]
  /\ Moved(s, Home) /\ previous' = [previous EXCEPT ![s] = ""] /\ stack' = [stack EXCEPT ![s] = <<>>]
  /\ bindings' = [bindings EXCEPT ![s] = <<>>] /\ info' = [info EXCEPT ![s] = NoInfo]
  /\ UNCHANGED <<shared, ghosts, commands>>

RemoveDir(d) ==
  /\ Event /\ d \in dirs \ {Home} /\ dirs' = dirs \ {d}
  /\ cwd' = [s \in Terminals |-> IF cwd[s] = d THEN "" ELSE cwd[s]]
  /\ UNCHANGED <<now, zfile, sessions, stage, pending, previous, stack, bindings, info, ghosts, commands>>

Pass(hours) ==
  /\ Event /\ now' = now + hours /\ now' \in DOMAIN Stamps
  /\ UNCHANGED <<dirs, zfile, sessions, stage, pending, place, bindings, info, ghosts, commands>>

ShellStep(s) ==
  \/ \E d \in Dirs : Cd(s, d) \/ Pushd(s, d)
  \/ CdBack(s) \/ Popd(s) \/ (\E word \in Queries : Z(s, word))
  \/ \E k \in ToSet(Keys) : Unset(s, k) \/ \E v \in Values : Set(s, k, v)
  \/ \E n \in SessionNames : Save(s, n) \/ LoadNamed(s, n) \/ RemoveSession(s, n)
  \/ RestoreSession(s) \/ Open(s) \/ CannotOpen(s) \/ WriteOut(s) \/ Killed(s)

WorkspaceNext ==
  \/ \E s \in Terminals : ShellStep(s)
  \/ (\E d \in Dirs : RemoveDir(d)) \/ (\E hours \in {1, 24, 168} : Pass(hours))

WorkspaceSpec == WorkspaceInit /\ [][WorkspaceNext]_workspaceVars

-----------------------------------------------------------------------------
\* Properties

\* However the shells' unlocked rewrites of ~/.tash_z interleave, and wherever one is
\* killed: while no two fill the file at once, what it is read as counts no visit that
\* nobody made, to a directory that is one.  (It may miss some.)  Two writes at once may
\* leave the end of a line, which is read as an entry of its own.
CountsAreVisits ==
  \/ "z" \in clashed
  \/ \A e \in ToSet(ZEntries(zfile)) : \E d \in Dirs : e.path = Spelling[d] /\ e.frequency <= visits[d]

\* What session load restores is what one save under that name has captured, in
\* every alias, variable and directory; or nothing, when the saver was killed or has
\* not written yet.  Two saves at once may mix.
LoadIsASave ==
  \A s \in Terminals : info[s] # NoInfo =>
    \/ info[s].name # <<>> /\ info[s].name[1] \in SessionNames /\ info[s] \in captured[info[s].name[1]]
    \/ ~(clashed \subseteq {"z"})
=============================================================================
