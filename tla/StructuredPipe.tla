--------------------------- MODULE StructuredPipe ---------------------------
\* command |> operator |> ...: src/core/structured_pipe.cpp.  The line is split at
\* every |> outside quotes, the first piece is run as a command and its output read
\* as rows, every other piece transforms the rows, and what is left is printed.
EXTENDS LineSyntax, Ranks

CONSTANTS
  Lines,    \* the lines given: sequences of symbols, "|>" and quotes among them
  Outputs,  \* what the command may print: see Output
  Order,    \* the texts values are displayed as, in the order of their bytes
  NumberOf  \* what strtod makes of those texts that it reads to the end

ASSUME PipeAssumption ==
  /\ \A i, j \in DOMAIN Order : Order[i] = Order[j] => i = j
  /\ Order \in Seq(ToSet(Order)) /\ DOMAIN NumberOf \subseteq ToSet(Order)
  /\ \A text \in DOMAIN NumberOf : NumberOf[text] \in Int
  /\ \A output \in Outputs : \A s \in {output.lines, output.rows} : s \in Seq(ToSet(s))

VARIABLES
  pipePhase, \* "idle", "parse", "operators", "printed"
  segments,  \* the pieces not yet executed
  rows,      \* the data
  format,    \* the last output operator seen
  printed,   \* the outcome: columns and lines of cells, or the rows for to-json
  step       \* the last operator applied and the rows it was applied to

pipeVars == <<pipePhase, segments, rows, format, printed, step>>

Unprinted == [as |-> "nothing", columns |-> <<>>, cells |-> <<>>]
NoStep == [op |-> <<>>, before |-> <<>>]

PipeInit ==
  /\ pipePhase = "idle" /\ segments = <<>> /\ rows = <<>> /\ format = "to-table" /\ printed = Unprinted
  /\ step = NoStep

-----------------------------------------------------------------------------
\* Values and rows.  A value is a number, a string, another scalar or null, with
\* the text it is displayed as; a row is an object with some fields, or something else.
Value(kind, text) == [kind |-> kind, text |-> text]
Object(fields) == [object |-> fields # <<>>, at |-> fields]
Has(row, f) == row.object /\ f \in DOMAIN row.at

Rank(text) == CHOOSE i \in DOMAIN Order : Order[i] = text
Sign(a, b) == IF a < b THEN -1 ELSE IF a > b THEN 1 ELSE 0

\* compare_json: numbers by value, everything else by text.
Compare(a, b) ==
  IF a.kind = "number" /\ b.kind = "number" THEN Sign(NumberOf[a.text], NumberOf[b.text])
  ELSE Sign(Rank(a.text), Rank(b.text))

AutoTyped(text) == Value(IF text \in DOMAIN NumberOf THEN "number" ELSE "string", text)

\* The first argument as a positive number, or 1.
HowMany(args) ==
  IF args # <<>> /\ args[1] \in DOMAIN NumberOf /\ NumberOf[args[1]] > 0 THEN NumberOf[args[1]] ELSE 1

-----------------------------------------------------------------------------
\* The line.
HasStructuredPipe(line) == \E i \in DOMAIN line : line[i] = "|>" /\ QuoteAt(line)[i] = "none"

Cut(line, at) == StagesOf(line, Cuts(line, {i \in DOMAIN line : line[i] \in at /\ QuoteAt(line)[i] = "none"}))
NonEmpty(pieces) == SelectSeq([k \in DOMAIN pieces |-> Trim(pieces[k])], LAMBDA p : p # <<>>)

SplitPipeline(line) == NonEmpty(Cut(line, {"|>"}))
TokenizeArgs(piece) == NonEmpty(Cut(piece, {Blank, TAB}))

-----------------------------------------------------------------------------
\* parse_input.  An output is the lines it has and what they are as JSON: "array" or
\* "object" with the rows, or "none" (scalars too).
LineRow(text, i) ==
  Object([f \in {<<"line">>, <<"index">>} |->
            IF f = <<"line">> THEN Value("string", text) ELSE Value("number", <<ToString(i)>>)])

ParseInput(output) ==
  IF output.json # "none" THEN output.rows
  ELSE IF \A i \in DOMAIN output.lines : Trim(output.lines[i]) = <<>> THEN <<>>
  ELSE [i \in DOMAIN output.lines |-> LineRow(output.lines[i], i - 1)]

-----------------------------------------------------------------------------
\* The operators.
Holds(op, cmp) ==
  CASE op \in {"==", "="} -> cmp = 0
    [] op = "!=" -> cmp # 0
    [] op = ">" -> cmp > 0
    [] op = "<" -> cmp < 0
    [] op = ">=" -> cmp >= 0
    [] op = "<=" -> cmp <= 0
    [] OTHER -> FALSE

\* The words behind the operator are joined by blanks; quotes around them all go.
JoinWords(words) == FoldLeft(LAMBDA t, w : IF t = <<>> THEN w ELSE t \o <<Blank>> \o w, <<>>, words)
Operand(args) == AutoTyped(StripQuotes(JoinWords(SubSeq(args, 3, Len(args)))))

Where(args, data) ==
  IF Len(args) < 3 THEN data
  ELSE LET holds(r) == Has(r, args[1]) /\ Holds(args[2][1], Compare(r.at[args[1]], Operand(args)))
       IN Picked(data, {i \in DOMAIN data : holds(data[i])})

Descending(args) == \E i \in 2..Len(args) : args[i] \in {<<"--desc">>, <<"-d">>}

\* Mutant: descending is the negation of ascending.
BeforeNegated(f, desc, a, b) ==
  /\ Has(a, f)
  /\ Has(b, f) => IF desc THEN ~(Compare(a.at[f], b.at[f]) < 0) ELSE Compare(a.at[f], b.at[f]) < 0

\* The comparator of sort-by: rows without the field come last.
Before(f, desc, a, b) ==
  /\ Has(a, f)
  /\ Has(b, f) => IF desc THEN Compare(a.at[f], b.at[f]) > 0 ELSE Compare(a.at[f], b.at[f]) < 0

\* std::stable_sort, which is an insertion sort for this few rows: a row that comes
\* before the first one goes to the front, any other moves back past the rows that
\* it comes before.
Place(sorted, f, desc, r) ==
  IF sorted = <<>> \/ Before(f, desc, r, sorted[1]) THEN 1
  ELSE Max({i \in DOMAIN sorted : ~Before(f, desc, r, sorted[i])}) + 1

SortBy(args, data) ==
  LET sorted[k \in 0..Len(data)] ==
        IF k = 0 THEN <<>>
        ELSE LET before == sorted[k - 1] IN InsertAt(before, Place(before, args[1], Descending(args), data[k]), data[k])
  IN IF args = <<>> THEN data ELSE sorted[Len(data)]

\* With none of the fields left the object is not an object but null.
Keep(row, fields) == Object([f \in DOMAIN row.at \cap fields |-> row.at[f]])

ObjectRows(data) == Picked(data, {i \in DOMAIN data : data[i].object})
Select(args, data) ==
  IF args = <<>> THEN data
  ELSE LET objects == ObjectRows(data)
       IN [i \in DOMAIN objects |-> Keep(objects[i], ToSet(args))]

Reject(args, data) ==
  [i \in DOMAIN data |-> IF args = <<>> \/ ~data[i].object THEN data[i]
                         ELSE Keep(data[i], DOMAIN data[i].at \ ToSet(args))]

FirstRows(args, data) == SubSeq(data, 1, Min({HowMany(args), Len(data)}))
LastRows(args, data) == SubSeq(data, Len(data) - Min({HowMany(args), Len(data)}) + 1, Len(data))
Count(data) == <<Object([f \in {<<"count">>} |-> Value("number", <<ToString(Len(data))>>)])>>
Uniq(data) == Picked(data, {i \in DOMAIN data : i = 1 \/ data[i] # data[i - 1]})
Unknown(name) == <<Object([f \in {<<"error">>} |-> Value("string", <<"unknown operator", name>>)])>>

Formats == {"to-json", "to-csv", "to-table"}

ApplyOperator(name, args, data) ==
  CASE name = "where" -> Where(args, data)
    [] name = "sort-by" -> SortBy(args, data)
    [] name = "select" -> Select(args, data)
    [] name = "reject" -> Reject(args, data)
    [] name = "first" -> FirstRows(args, data)
    [] name = "last" -> LastRows(args, data)
    [] name = "count" -> Count(data)
    [] name = "uniq" -> Uniq(data)
    [] name \in Formats -> data
    [] OTHER -> Unknown(name)

-----------------------------------------------------------------------------
\* The printers: the columns in the order in which the rows name them (each object
\* has its fields in byte order), and a line of cells for each object.
FieldsOf(row) == SetToSortSeq(DOMAIN row.at, LAMBDA f, g : Rank(f) < Rank(g))
Columns(data) ==
  FoldLeft(LAMBDA cols, r : cols \o SelectSeq(FieldsOf(r), LAMBDA f : f \notin ToSet(cols)), <<>>, data)

Cell(row, f) == IF f \in DOMAIN row.at THEN row.at[f].text ELSE <<>>
Line(row, columns) == [k \in DOMAIN columns |-> Cell(row, columns[k])]
CellsOf(data, columns) ==
  [i \in DOMAIN ObjectRows(data) |-> Line(ObjectRows(data)[i], columns)]

\* In to-csv a cell with a comma, a quote or a newline is quoted, with its quotes doubled.
Doubled(text) == FoldLeft(LAMBDA t, c : t \o IF c = "\"" THEN <<c, c>> ELSE <<c>>, <<>>, text)
CsvCell(text) ==
  IF ToSet(text) \cap {",", "\"", NL} = {} THEN text ELSE <<"\"">> \o Doubled(text) \o <<"\"">>
ToCsv(data) ==
  [as |-> "to-csv", columns |-> Columns(data),
   cells |-> [i \in DOMAIN CellsOf(data, Columns(data)) |->
                [k \in DOMAIN Columns(data) |-> CsvCell(CellsOf(data, Columns(data))[i][k])]]]

\* Cells wider than MAX_COL_WIDTH are cut short; texts here are not that long.
RenderTable(data) == [as |-> "to-table", columns |-> Columns(data), cells |-> CellsOf(data, Columns(data))]

Printed(data, as) ==
  IF as = "to-json" THEN [as |-> as, columns |-> <<>>, cells |-> data]
  ELSE IF data = <<>> \/ Columns(data) = <<>> THEN [Unprinted EXCEPT !.as = as]
  ELSE IF as = "to-csv" THEN ToCsv(data) ELSE RenderTable(data)

-----------------------------------------------------------------------------
\* execute_pipeline.  The first piece that is not empty is the command, even behind a |>.
Enter(line) ==
  /\ pipePhase = "idle" /\ HasStructuredPipe(line)
  /\ segments' = SplitPipeline(line)
  /\ pipePhase' = IF SplitPipeline(line) = <<>> THEN "printed" ELSE "parse"
  /\ UNCHANGED <<rows, format, printed, step>>

\* A command that a hook vetoes has no output, and nothing more is done.
Vetoed ==
  /\ pipePhase = "parse" /\ pipePhase' = "printed"
  /\ UNCHANGED <<segments, rows, format, printed, step>>

Capture ==
  /\ pipePhase = "parse" /\ pipePhase' = "operators"
  /\ \E output \in Outputs : rows' = ParseInput(output)
  /\ segments' = Tail(segments)
  /\ UNCHANGED <<format, printed, step>>

Operate ==
  /\ pipePhase = "operators" /\ segments # <<>>
  /\ LET tokens == TokenizeArgs(segments[1]) IN
       /\ format' = IF tokens[1][1] \in Formats THEN tokens[1][1] ELSE format
       /\ rows' = ApplyOperator(tokens[1][1], Tail(tokens), rows)
       /\ step' = [op |-> tokens, before |-> rows]
  /\ segments' = Tail(segments)
  /\ UNCHANGED <<pipePhase, printed>>

Show ==
  /\ pipePhase = "operators" /\ segments = <<>>
  /\ printed' = Printed(rows, format) /\ pipePhase' = "printed"
  /\ UNCHANGED <<segments, rows, format, step>>

PipeNext ==
  \/ \E line \in Lines : Enter(line)
  \/ Vetoed \/ Capture \/ Operate \/ Show

PipeSpec == PipeInit /\ [][PipeNext]_pipeVars

-----------------------------------------------------------------------------
\* Properties

\* Sorting keeps every row, orders those that have the field by it, and leaves rows
\* that are equal, or lack it, as they were: for a column of numbers only or of
\* strings only.  (In a column of both, 9 < 10, "10" < "5" and "5" < "9" have no order.)
\* The texts are among those that Order and NumberOf know, or nothing could be sorted.
Comparable(data, f) ==
  LET column == {data[i].at[f] : i \in {j \in DOMAIN data : Has(data[j], f)}} IN
  /\ \A a, b \in column : a.kind = b.kind
  /\ \A a \in column : a.text \in IF a.kind = "number" THEN DOMAIN NumberOf ELSE ToSet(Order)

Ordered(a, b, f, desc) == IF desc THEN Compare(b.at[f], a.at[f]) ELSE Compare(a.at[f], b.at[f])
Precedes(data, f, desc, i, j) ==
  IF Has(data[i], f) /\ Has(data[j], f)
  THEN LET c == Ordered(data[i], data[j], f, desc) IN c < 0 \/ (c = 0 /\ i < j)
  ELSE Has(data[i], f) \/ (~Has(data[j], f) /\ i < j)
PlaceOf(data, f, desc, j) == Cardinality({i \in DOMAIN data : Precedes(data, f, desc, i, j)}) + 1

SortIsStable ==
  LET args == Tail(step.op) IN
  (step.op # <<>> /\ step.op[1] = <<"sort-by">> /\ args # <<>> /\ Comparable(step.before, args[1])) =>
    /\ Len(rows) = Len(step.before)
    /\ \A j \in DOMAIN step.before : rows[PlaceOf(step.before, args[1], Descending(args), j)] = step.before[j]
=============================================================================
