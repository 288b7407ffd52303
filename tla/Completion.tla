----------------------------- MODULE Completion -----------------------------
\* What Tab offers and what a mistyped command is answered with: the providers that
\* startup registers (src/startup.cpp), their merging (src/plugins/plugin_registry.cpp)
\* and caches (src/plugins/*_completion_provider.cpp), the callback of the line editor
\* (src/ui/completion.cpp) and the suggestion after exit status 127
\* (src/ui/suggest.cpp).  Words are sequences of symbols.
EXTENDS Integers, SequencesExt, Ranks

CONSTANTS
  Disabled,    \* the sets of plugins that the environment and config.json may disable
  Tools,       \* the commands for which there are specs and help
  FigSpecs,    \* what the spec of a tool may be: [kind |-> "none" | "bad" | "good", options]
  FishFiles,   \* what its fish file may have: a sequence of lines of tokens
  HelpTexts,   \* what its --help may print: a sequence of lines of symbols
  Paths,       \* what $PATH may have: sequences of directories, each a sequence of names
  Builtins,    \* the names of builtins, a sequence
  Subcommands, \* of git and docker
  KillLike, DirOnly, \* the commands that take pids, and directories only
  Candidates,       \* for "variables", "pids", "dirs" and "files", the words there are
  Inputs,      \* what stands before the cursor: [tool, word], the tool <<>> at its start
  HelpCuts,    \* what of it has been read when its two seconds are over: [lines, symbols]
  Typed,       \* commands that end with status 127
  MaxTabs,     \* bound on the completions remembered
  MaxChanges   \* bound on the changes of the files outside

ASSUME CompletionAssumption ==
  /\ MaxTabs \in Nat /\ MaxChanges \in Nat /\ Builtins # <<>>
  /\ \A input \in Inputs : input.word # <<>> /\ input.word[1] = "-" => input.tool \in Tools
  /\ \A spec \in FigSpecs : spec.options \in Seq(ToSet(spec.options))
  /\ \A lines \in FishFiles \cup HelpTexts : lines \in Seq(ToSet(lines))
  /\ \A cut \in HelpCuts : cut.lines \in Nat
  /\ \A dirs \in Paths : dirs \in Seq(ToSet(dirs)) /\ \A names \in ToSet(dirs) : names \in Seq(ToSet(names))
  /\ Builtins \in Seq(ToSet(Builtins))
  /\ \A word \in Typed \cup ToSet(Builtins) \cup UNION {ToSet(names) : names \in UNION {ToSet(dirs) : dirs \in Paths}} :
       word \in Seq(ToSet(word))

VARIABLES
  figs, fishes, helps, path, \* what is outside
  plugins,   \* the completion providers that are registered
  indexed,   \* the tools for which fig and fish have found a file at startup
  specs, entries, options, \* the caches of fig, fish and manpage
  pathCommands,
  offered,   \* the last completions
  hint,      \* the last suggestion: [typed, command]
  tabs,      \* the flags offered so far: [tool, word, flags]
  changes

outside == <<figs, fishes, helps, path>>
caches == <<specs, entries, options>>
completionVars == <<outside, plugins, indexed, caches, pathCommands, offered, hint, tabs, changes>>

Providers == {"fig", "fish", "manpage"}
Dash == "-"
Least(a, b) == IF a < b THEN a ELSE b
None == <<>>
NoHint == [typed |-> None, command |-> None]
StartsWith(prefix, words) == Picked(words, {i \in DOMAIN words : IsPrefix(prefix, words[i])})

-----------------------------------------------------------------------------
\* The caches that are filled when the shell starts.  A provider is registered unless
\* the environment or the file disables it; a file found first counts.
Enabled(off, listed) == Providers \ (off \cup listed)

Listed(words) == Picked(words, {i \in DOMAIN words : \A j \in 1..i - 1 : words[j] # words[i]})
BuildCommandCache == Listed(FlattenSeq(path) \o Builtins)

IndexOf == [p \in {"fig", "fish"} |-> {t \in Tools : IF p = "fig" THEN figs[t].kind # "none" ELSE fishes[t] # None}]

CompletionInit ==
  /\ figs \in [Tools -> FigSpecs] /\ fishes \in [Tools -> FishFiles]
  /\ helps \in [Tools -> HelpTexts] /\ path \in Paths
  /\ \E off, listed \in Disabled : plugins = Enabled(off, listed)
  /\ indexed = IndexOf /\ specs = None /\ entries = None /\ options = None
  /\ pathCommands = BuildCommandCache /\ offered = None /\ hint = NoHint /\ tabs = None /\ changes = 0

-----------------------------------------------------------------------------
\* parse_fish_complete_line: an option takes the next token, the condition and the
\* wrapped command are passed over with theirs.
FieldOf(token) ==
  CASE token \in {<<Dash, "c">>, <<Dash, Dash, "command">>} -> "command"
    [] token \in {<<Dash, "s">>, <<Dash, Dash, "short-option">>} -> "short"
    [] token \in {<<Dash, "l">>, <<Dash, Dash, "long-option">>} -> "long"
    [] token \in {<<Dash, "a">>, <<Dash, Dash, "arguments">>} -> "argument"
    [] token \in {<<Dash, c>> : c \in {"d", "n", "w"}} \cup {<<Dash, Dash, w>> : w \in {"description", "condition", "wraps"}} -> "ignored"
    [] OTHER -> "none"
Takes(tokens) == LET takes[i \in DOMAIN tokens] == i > 1 /\ FieldOf(tokens[i]) # "none" /\ ~takes[i - 1] IN takes
Given(tokens, field) ==
  LET at == {i \in 1..Len(tokens) - 1 : FieldOf(tokens[i]) = field /\ Takes(tokens)[i]}
  IN IF at = {} THEN None ELSE tokens[Max(at) + 1]

FishOffers(tokens) ==
  LET short == Given(tokens, "short") long == Given(tokens, "long") argument == Given(tokens, "argument") IN
  IF Given(tokens, "command") = None THEN None
  ELSE (IF short # None THEN <<<<Dash>> \o short>> ELSE None)
         \o (IF long # None THEN <<<<Dash, Dash>> \o long>> ELSE None)
         \o (IF argument # None /\ short = None /\ long = None THEN <<argument>> ELSE None)
ParseFile(lines) == FlattenSeq([i \in DOMAIN lines |-> FishOffers(lines[i])])

\* parse_help_line: after blanks a short flag, a comma, a long flag; a line at the margin
\* is none of them.
IsBlank(c) == c \in {" ", "\t"}
IsFlagChar(c) == c \notin {" ", "\t", ",", "=", "<", Dash}
SkipWhile(Test(_), s) ==
  LET stops == {i \in DOMAIN s : ~Test(s[i])} IN IF stops = {} THEN None ELSE SubSeq(s, Min(stops), Len(s))
Short(s) == IF Len(s) > 1 /\ s[1] = Dash /\ IsFlagChar(s[2]) THEN SubSeq(s, 1, 2) ELSE None
AfterShort(s) ==
  LET rest == SubSeq(s, Len(Short(s)) + 1, Len(s))
      next == SkipWhile(IsBlank, rest)
  IN IF Short(s) # None /\ next # None /\ next[1] = "," THEN SkipWhile(IsBlank, Tail(next)) ELSE rest
Long(s) ==
  IF Len(s) < 3 \/ SubSeq(s, 1, 2) # <<Dash, Dash>> \/ ~IsFlagChar(s[3]) THEN None
  ELSE SubSeq(s, 1, Len(s) - Len(SkipWhile(LAMBDA c : IsFlagChar(c) \/ c = Dash, s)))
ParseHelpLine(line) ==
  LET s == SkipWhile(IsBlank, line) IN
  IF line = None \/ ~IsBlank(line[1]) THEN None
  ELSE LET flags == <<Short(s), Long(AfterShort(s))>> IN Picked(flags, {i \in 1..2 : flags[i] # None})
ParseHelpOutput(lines) == FlattenSeq([i \in DOMAIN lines |-> ParseHelpLine(lines[i])])
ReadUpTo(lines, cut) ==
  IF cut.lines >= Len(lines) THEN lines
  ELSE LET next == lines[cut.lines + 1]
       IN Append(SubSeq(lines, 1, cut.lines), SubSeq(next, 1, Least(cut.symbols, Len(next))))

-----------------------------------------------------------------------------
\* The providers.  Each remembers what it has read for a tool: fig a spec that it could
\* read, fish whatever the file gave, manpage what --help had printed when it ended or
\* its two seconds were over.
Remember(cache, tool, value) == [t \in DOMAIN cache \cup {tool} |-> IF t = tool THEN value ELSE cache[t]]

FigLoads(tool) == tool \in indexed["fig"] /\ figs[tool].kind = "good"
LoadSpec(tool) == IF tool \in DOMAIN specs \/ ~FigLoads(tool) THEN specs ELSE Remember(specs, tool, figs[tool].options)
LoadCommand(tool) ==
  IF tool \in DOMAIN entries \/ tool \notin indexed["fish"] THEN entries
  ELSE Remember(entries, tool, ParseFile(fishes[tool]))

\* Mutant: what --help had printed is not remembered.
AskAgain(tool, cut) == Remember(options, tool, ParseHelpOutput(ReadUpTo(helps[tool], cut)))

GetHelpOptions(tool, cut) ==
  IF tool \in DOMAIN options THEN options ELSE Remember(options, tool, ParseHelpOutput(ReadUpTo(helps[tool], cut)))

CacheOf(p, tool, cut) ==
  LET cache == CASE p = "fig" -> LoadSpec(tool) [] p = "fish" -> LoadCommand(tool)
                 [] p = "manpage" -> GetHelpOptions(tool, cut)
  IN IF tool \in DOMAIN cache THEN cache[tool] ELSE None

\* PluginRegistry::complete: the better provider first (their priorities are 20, 10
\* and 5), and nothing twice.
FoundBy(p, tool, word, cut) == IF p \in plugins THEN StartsWith(word, CacheOf(p, tool, cut)) ELSE None
Merged(tool, word, cut) ==
  Listed(FoundBy("fig", tool, word, cut) \o FoundBy("fish", tool, word, cut) \o FoundBy("manpage", tool, word, cut))

-----------------------------------------------------------------------------
\* completion_callback.  At the start of a line builtins and commands, or, where none
\* begins so, those that have the letters typed in this order.
InOrder(word, name) ==
  LET matched[i \in 0..Len(name)] ==
        IF i = 0 THEN 0 ELSE LET m == matched[i - 1] IN IF m < Len(word) /\ word[m + 1] = name[i] THEN m + 1 ELSE m
  IN matched[Len(name)] = Len(word)

TabCommand(word) ==
  /\ pathCommands' = BuildCommandCache
  /\ LET names == Builtins \o BuildCommandCache IN
       offered' = IF StartsWith(word, names) = None /\ Len(word) > 1
                  THEN SelectSeq(names, LAMBDA n : InOrder(word, n)) ELSE StartsWith(word, names)
  /\ hint' = NoHint /\ UNCHANGED <<outside, plugins, indexed, caches, tabs, changes>>

\* In an argument, the kind of word that fits.
Subcommand(tool, word) == IF tool \in DOMAIN Subcommands THEN StartsWith(word, Subcommands[tool]) ELSE None
Argument(tool, word) ==
  IF word # None /\ word[1] = "$" THEN StartsWith(word, Candidates["variables"])
  ELSE IF tool \in KillLike THEN Subcommand(tool, word) \o StartsWith(word, Candidates["pids"])
  ELSE Subcommand(tool, word) \o StartsWith(word, Candidates["dirs"])
         \o (IF tool \in DirOnly THEN None ELSE StartsWith(word, Candidates["files"]))

IsFlag(word) == word # None /\ word[1] = Dash

TabArgument(tool, word) ==
  /\ ~IsFlag(word) /\ offered' = Argument(tool, word)
  /\ hint' = NoHint /\ UNCHANGED <<outside, plugins, indexed, caches, pathCommands, tabs, changes>>

TabFlag(tool, word, cut) ==
  /\ IsFlag(word) /\ Len(tabs) < MaxTabs
  /\ specs' = IF "fig" \in plugins THEN LoadSpec(tool) ELSE specs
  /\ entries' = IF "fish" \in plugins THEN LoadCommand(tool) ELSE entries
  /\ options' = IF "manpage" \in plugins THEN GetHelpOptions(tool, cut) ELSE options
  /\ LET flags == Merged(tool, word, cut) IN
       /\ offered' = IF flags # None THEN flags ELSE Argument(tool, word)
       /\ tabs' = Append(tabs, [tool |-> tool, word |-> word, flags |-> flags])
  /\ hint' = NoHint /\ UNCHANGED <<outside, plugins, indexed, pathCommands, changes>>

-----------------------------------------------------------------------------
\* damerau_levenshtein, with its table dp.
\* Mutant: a transposition is not an edit.
SwapCostTwo(a, b, i, j, two) == two + 2

SwapCost(a, b, i, j, two) == two + 1

Edits(dp, row, a, b, i, j) ==
  LET plain == Least(Least(dp[i - 1][j], row[j - 1]) + 1, dp[i - 1][j - 1] + IF a[i] = b[j] THEN 0 ELSE 1)
      swapped == i > 1 /\ j > 1 /\ a[i] = b[j - 1] /\ a[i - 1] = b[j]
  IN IF swapped THEN Least(plain, SwapCost(a, b, i, j, dp[i - 2][j - 2])) ELSE plain
Row(dp, a, b, i) ==
  LET row[j \in 0..Len(b)] == IF i = 0 \/ j = 0 THEN i + j ELSE Edits(dp, row, a, b, i, j) IN row
DamerauLevenshtein(a, b) ==
  LET dp[i \in 0..Len(a)] == Row(dp, a, b, i) IN dp[Len(a)][Len(b)]

\* suggest_command: the first of the nearest, if it is near enough for the length.
MaxDistance(word) == Len(word) \div 3 + 1
SuggestCommand(word) ==
  LET far == MaxDistance(word)
      like == {i \in DOMAIN pathCommands : Len(pathCommands[i]) - Len(word) \in -far..far}
      near == {n \in {[distance |-> DamerauLevenshtein(word, pathCommands[i]), at |-> i] : i \in like} : n.distance \in 1..far}
      best == {n \in near : \A m \in near : n.distance < m.distance \/ (n.distance = m.distance /\ n.at <= m.at)}
  IN IF near = {} THEN None ELSE pathCommands[(CHOOSE n \in best : TRUE).at]

\* A command ended with 127: it was not found, or said so itself.  (A bound: before
\* the first flag is completed; the suggestion uses nothing that flags change.)
NotFound127(word) ==
  /\ tabs = None
  /\ hint' = [typed |-> word, command |-> SuggestCommand(word)] /\ offered' = None
  /\ UNCHANGED <<outside, plugins, indexed, caches, pathCommands, tabs, changes>>

-----------------------------------------------------------------------------
\* Programs are installed and removed, and their files change.
Change(tool) ==
  /\ changes < MaxChanges /\ changes' = changes + 1
  /\ \/ \E spec \in FigSpecs : figs' = [figs EXCEPT ![tool] = spec] /\ UNCHANGED <<fishes, helps, path>>
     \/ \E lines \in FishFiles : fishes' = [fishes EXCEPT ![tool] = lines] /\ UNCHANGED <<figs, helps, path>>
     \/ \E text \in HelpTexts : helps' = [helps EXCEPT ![tool] = text] /\ UNCHANGED <<figs, fishes, path>>
     \/ \E p \in Paths : path' = p /\ UNCHANGED <<figs, fishes, helps>>
  /\ UNCHANGED <<plugins, indexed, caches, pathCommands, offered, hint, tabs>>

CompletionNext ==
  \/ \E input \in Inputs :
       \/ input.tool = None /\ TabCommand(input.word)
       \/ input.tool # None /\ TabArgument(input.tool, input.word)
       \/ input.tool # None /\ \E cut \in HelpCuts : TabFlag(input.tool, input.word, cut)
  \/ \E word \in Typed \ ToSet(Builtins) : NotFound127(word)
  \/ \E tool \in Tools : Change(tool)

CompletionSpec == CompletionInit /\ [][CompletionNext]_completionVars

-----------------------------------------------------------------------------
\* Properties

\* Typing on and pressing Tab again never hides a flag that still fits, and a flag is
\* offered once: whatever the files, --help and its two seconds do in between.
TypingNarrows ==
  \A i, j \in DOMAIN tabs :
    /\ IsInjective(tabs[i].flags)
    /\ (i < j /\ tabs[i].tool = tabs[j].tool /\ IsPrefix(tabs[i].word, tabs[j].word)) =>
         ToSet(StartsWith(tabs[j].word, tabs[i].flags)) \subseteq ToSet(tabs[j].flags)

\* Whoever leaves out, adds, mistakes or swaps one letter of a command is told of a
\* command that one such slip explains.
Without(w, i) == SubSeq(w, 1, i - 1) \o SubSeq(w, i + 1, Len(w))
Slip(w, c) ==
  \/ \E i \in DOMAIN w : Without(w, i) = c
  \/ \E i \in DOMAIN c : Without(c, i) = w
  \/ Len(w) = Len(c) /\ \E i \in DOMAIN w : Without(w, i) = Without(c, i)
  \/ Len(w) = Len(c) /\ \E i \in 1..Len(w) - 1 : [w EXCEPT ![i] = w[i + 1], ![i + 1] = w[i]] = c

TyposAreCaught ==
  LET known == ToSet(pathCommands) IN
  (hint # NoHint /\ hint.typed \notin known /\ \E c \in known : Slip(hint.typed, c)) => Slip(hint.typed, hint.command)
=============================================================================
