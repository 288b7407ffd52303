------------------------------ MODULE History ------------------------------
\* The history database that all shells of a user write and read:
\* SqliteHistoryProvider (src/plugins/sqlite_history_provider.cpp), the history builtin
\* (src/builtins/history.cpp), the recording of every command in execute_command_line
\* and the filling of the line editor's ring when a shell starts (src/repl.cpp).
EXTENDS Integers, SequencesExt, FiniteSetsExt, Ranks

CONSTANTS
  Users,      \* the shells
  Runs,       \* the commands run: [command, exit, dir]; a command is a sequence of words
  Asked,      \* the words given to history
  NumberIn,   \* the numbers among those words
  DefaultLimit, WideFloor, RingSize, \* 100, 200 and 1000
  MaxRows,    \* bound on the rows of the database
  MaxClock,   \* bound on the seconds that pass
  MaxStarts   \* bound on the shells started anew

ASSUME HistoryAssumption ==
  /\ {DefaultLimit, WideFloor, RingSize} \subseteq Nat \ {0}
  /\ \A words \in Asked : words \in Seq(ToSet(words))
  /\ \A word \in DOMAIN NumberIn : NumberIn[word] \in Int
  /\ MaxRows \in Nat /\ MaxClock \in Nat /\ MaxStarts \in Nat

VARIABLES
  clock,     \* time in seconds
  rows,      \* the table, in the order of the ids: each [command, exit, dir, time]
  inserting, \* the entry that each shell is inserting, or NoEntry
  starts

historyVars == <<clock, rows, inserting, starts>>

NoEntry == [command |-> <<>>, exit |-> 0, dir |-> "", time |-> 0]
NoArgs == [ok |-> TRUE, exit |-> 0, wants |-> "", stats |-> FALSE, here |-> FALSE, failed |-> FALSE, limit |-> DefaultLimit, search |-> <<>>]

HistoryInit ==
  /\ clock = 0 /\ rows = <<>> /\ inserting = [s \in Users |-> NoEntry]
  /\ starts = 0

-----------------------------------------------------------------------------
\* Queries.  ORDER BY timestamp DESC goes by the index on timestamp, which has rows of
\* the same second in the order of their ids.
Newer(i, j) == rows[i].time > rows[j].time \/ (rows[i].time = rows[j].time /\ i < j)

NewestFirst(hits) == Arranged(hits, {p \in hits \X hits : Newer(p[1], p[2])})

FirstOf(n, s) == SubSeq(s, 1, Min({n, Len(s)}))

\* Mutant: the limit is applied before the order.
LimitedFirst(limit, hits) == NewestFirst(ToSet(FirstOf(limit, Ascending(hits))))

Newest(limit, hits) == FirstOf(limit, NewestFirst(hits))

\* LIKE with escaped wildcards: the pattern is part of the command.
Matches(row, search, dir) ==
  /\ \E i \in 1..Len(row.command) - Len(search) + 1 : SubSeq(row.command, i, i + Len(search) - 1) = search
  /\ dir = "" \/ row.dir = dir
Search(search, dir, limit) == Newest(limit, {i \in DOMAIN rows : Matches(rows[i], search, dir)})
Recent(count) == Newest(count, DOMAIN rows)

-----------------------------------------------------------------------------
\* record refuses a command behind a blank, but what it is given is the segment as the
\* parser has trimmed it.  It would also refuse what the session recorded last, but only
\* for an entry that names its session, and none does.
Trimmed(words) == SelectSeq(words, LAMBDA w : w # " ")
Recordable(command) == command # <<>> /\ command[1] # " "

\* A command is run and recorded, with the time at its end.  While another shell inserts
\* the database is busy, and the row is lost.
Finished(s, typed, exit, dir) ==
  LET command == Trimmed(typed) IN
  inserting' = IF Recordable(command) /\ \A t \in Users : inserting[t] = NoEntry
               THEN [inserting EXCEPT ![s] = [command |-> command, exit |-> exit, dir |-> dir, time |-> clock]]
               ELSE inserting

AtPrompt(s) == inserting[s] = NoEntry /\ Len(rows) < MaxRows

Run(s, r, blank) ==
  /\ AtPrompt(s) /\ Finished(s, IF blank THEN <<" ">> \o r.command ELSE r.command, r.exit, r.dir)
  /\ UNCHANGED <<clock, rows, starts>>

Inserted(s) ==
  /\ inserting[s] # NoEntry
  /\ rows' = Append(rows, inserting[s]) /\ inserting' = [inserting EXCEPT ![s] = NoEntry]
  /\ UNCHANGED <<clock, starts>>

-----------------------------------------------------------------------------
\* The history builtin.
Limit(word) == IF NumberIn[word] <= 0 THEN DefaultLimit ELSE NumberIn[word]
ReadWord(a, word) ==
  CASE ~a.ok -> a
    [] a.wants = "limit" ->
         IF word \in DOMAIN NumberIn THEN [a EXCEPT !.wants = "", !.limit = Limit(word)]
         ELSE [a EXCEPT !.ok = FALSE, !.exit = 2]
    [] a.wants = "search" -> [a EXCEPT !.wants = "", !.search = <<word>>]
    [] word = "stats" -> [a EXCEPT !.stats = TRUE]
    [] word = "--here" -> [a EXCEPT !.here = TRUE]
    [] word = "--failed" -> [a EXCEPT !.failed = TRUE]
    [] word \in {"-n", "--limit"} -> [a EXCEPT !.wants = "limit"]
    [] word = "--search" -> [a EXCEPT !.wants = "search"]
    [] word \in {"-h", "--help"} -> [a EXCEPT !.ok = FALSE]
    [] word = "--unknown" -> [a EXCEPT !.ok = FALSE, !.exit = 2]
    [] OTHER -> [a EXCEPT !.search = Append(@, word)]
ReadWords(words) ==
  LET read[i \in 0..Len(words)] == IF i = 0 THEN NoArgs ELSE ReadWord(read[i - 1], words[i]) IN read
ParseArgs(words) ==
  LET a == ReadWords(words)[Len(words)]
  IN IF a.ok /\ a.wants # "" THEN [a EXCEPT !.ok = FALSE, !.exit = 2] ELSE a

\* --failed takes a wide look and keeps what failed.
Wide(limit) == Max({4 * limit, WideFloor})
Failed(args, dir) ==
  LET found == Search(args.search, dir, Wide(args.limit))
  IN FirstOf(args.limit, Picked(found, {k \in DOMAIN found : rows[found[k]].exit # 0}))

Listed(args, dir) ==
  LET here == IF args.here THEN dir ELSE ""
  IN IF args.failed THEN Failed(args, here) ELSE Search(args.search, here, args.limit)

\* prepend_in_flight puts the line being run before the newest row, unless that row
\* says the same; what is printed are the commands, oldest first.
Printed(words, dir) ==
  LET args == ParseArgs(words)
      typed == <<"history">> \o words
      found == Listed(args, dir)
      commands == [k \in DOMAIN found |-> rows[found[k]].command]
      inFlight == ~args.failed /\ ~(commands # <<>> /\ Head(commands) = typed)
  IN IF ~args.ok \/ args.stats THEN <<>> ELSE Reverse(IF inFlight THEN <<typed>> \o commands ELSE commands)

\* To the tables, history is a command like others.
RunHistory(s, words, dir) ==
  /\ AtPrompt(s) /\ Finished(s, <<"history">> \o words, ParseArgs(words).exit, dir)
  /\ UNCHANGED <<clock, rows, starts>>

\* configure_replxx fills the ring of a new shell, oldest first.  The shell it replaces
\* may have been killed before its row was in.
Ring == Reverse(Recent(RingSize))
Start(s) ==
  /\ starts < MaxStarts /\ starts' = starts + 1
  /\ inserting' = [inserting EXCEPT ![s] = NoEntry]
  /\ UNCHANGED <<clock, rows>>

Second == clock < MaxClock /\ clock' = clock + 1 /\ UNCHANGED <<rows, inserting, starts>>

HistoryNext ==
  \/ \E s \in Users :
       \/ \E r \in Runs, blank \in BOOLEAN : Run(s, r, blank)
       \/ \E words \in Asked, r \in Runs : RunHistory(s, words, r.dir)
       \/ Inserted(s) \/ Start(s)
  \/ Second

HistorySpec == HistoryInit /\ [][HistoryNext]_historyVars

-----------------------------------------------------------------------------
\* Properties

\* Whatever rows the shells have put in (at least one), and in whatever order: what history prints
\* before its own line, and what the up-arrow of a new shell walks back through, are the
\* newest of the commands asked for, as many as fit, oldest first; for --failed too,
\* unless there are more rows than it looks at.
NewestOf(limit, hits, shown) ==
  /\ Len(shown) = Min({limit, Cardinality(hits)}) /\ ToSet(shown) \subseteq hits /\ IsInjective(shown)
  /\ \A i, j \in DOMAIN shown : i < j => rows[shown[i]].time <= rows[shown[j]].time
  /\ \A h \in hits \ ToSet(shown), i \in DOMAIN shown : rows[h].time <= rows[shown[i]].time

ListsTheNewest == rows # <<>> =>
  /\ NewestOf(RingSize, DOMAIN rows, Ring)
  /\ \A words \in Asked, r \in Runs :
       LET args == ParseArgs(words)
           printed == Printed(words, r.dir)
           found == Reverse(Listed(args, r.dir))
           hits == {i \in DOMAIN rows : Matches(rows[i], args.search, IF args.here THEN r.dir ELSE "")}
           asked == {i \in hits : args.failed => rows[i].exit # 0}
       IN (args.ok /\ ~args.stats /\ (args.failed => Cardinality(hits) <= Wide(args.limit))) =>
            /\ NewestOf(args.limit, asked, found)
            /\ SubSeq(printed, 1, Len(found)) = [k \in DOMAIN found |-> rows[found[k]].command]
            /\ args.failed \/ Last(printed) = <<"history">> \o words
=============================================================================
