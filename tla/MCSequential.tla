---------------------------- MODULE MCSequential ----------------------------
\* Five parts of the shell that run by themselves: the reading of commands,
\* redirections of builtins, structured pipelines, what becomes of an answer of the
\* AI, and completion.  Each is explored with the others at rest.
EXTENDS ReadLoop, Redirections, StructuredPipe, AiAnswer, Completion

VARIABLE part \* the part explored

\* Some units declare two heredocs, so that three units and four lines are enough
\* for a command with two bodies of different length.
MCUnits == {<<"a">>, <<"'">>, <<"&&">>, <<"|">>, <<" ", ";">>, <<"\\">>, <<"!!">>, <<"!huge">>, <<"@ai">>,
            <<" ", "?">>, <<"#">>, <<"$", "(">>, <<")">>, <<TAB, "a">>,
            <<"a", " ", "<", "<", "a">>,
            <<"a", " ", "<", "<", "a", " ", "|", " ", "(", "a", ")", " ", "|", "a", " ", "<", "<", "'", "a", "'">>,
            <<"(", "a", " ", "<", "<", "a", " ", ")", "|", "a", " ", "<", "<", "a">>,
            <<"|", ">", " ", "a">>,
            <<"a", " ", "<", "<", "a", " ", ";", "a", " ", "<", "<", "-", "a">>}
MCKnown == {<<"a">>}
-----------------------------------------------------------------------------
W(word) == <<word>>
Sp(words) == FoldLeft(LAMBDA t, w : IF t = <<>> THEN <<w>> ELSE t \o <<" ", w>>, <<>>, words)
Pipe(pieces) == FoldLeft(LAMBDA t, p : IF t = <<>> THEN p ELSE t \o <<" ", "|>", " ">> \o p, <<>>, pieces)
Cmd == W("cmd")
MCLines ==
  {Pipe(<<Cmd, Sp(<<"sort-by", "size">>)>>), Pipe(<<Cmd, Sp(<<"sort-by", "size", "-d">>), Sp(<<"first", "2">>)>>),
   Pipe(<<Cmd, Sp(<<"where", "size", ">=", "9">>), Sp(<<"sort-by", "name">>), Sp(<<"to-csv">>)>>),
   Pipe(<<Cmd, Sp(<<"reject", "name">>), W("uniq"), W("count"), W("to-json")>>),
   Pipe(<<Cmd, Sp(<<"select", "size">>), W("uniq"), Sp(<<"sort-by", "size", "-d">>), W("to-csv"), W("to-table")>>),
   Pipe(<<Cmd, W("bogus"), Sp(<<"last">>)>>), <<"|>", "cmd", "|>", "count">>, <<"|>">>,
   Pipe(<<Cmd, <<"where", " ", "name", " ", "==", " ", "\"", "a", "|>", " ", "b", "\"">>>>),
   Pipe(<<Cmd, Sp(<<"sort-by", "line", "-d">>), Sp(<<"last", "2">>)>>)}
MCOrder == <<<<>>, W("0"), W("1"), W("10"), W("2"), W("9"), W("a"), <<"a", "|>", " ", "b">>, W("b"), W("count"), W("error"),
             W("index"), W("line"), W("name"), W("size"), <<"unknown operator", "bogus">>>>
MCNumberOf == W("0") :> 0 @@ W("1") :> 1 @@ W("2") :> 2 @@ W("9") :> 9 @@ W("10") :> 10

Named(n) == W("name") :> Value("string", n)
Sized(k, v) == W("size") :> Value(k, W(v))
MCRows == {Object(f @@ Named(n)) : f \in {Sized("number", "2"), Sized("number", "10"), Sized("string", "9"), <<>>},
                                   n \in {W("a"), W("b")}}
          \cup {Object(<<>>), Object(Named(<<"a", "|>", " ", "b">>))}
MCJson == {[json |-> "array", rows |-> r, lines |-> <<>>] : r \in BoundedSeq(MCRows, 3)}
MCText == {[json |-> "none", rows |-> <<>>, lines |-> l] : l \in BoundedSeq({<<>>, W("b"), W("10")}, 3)}
MCOutputs == MCJson \cup MCText
-----------------------------------------------------------------------------
MCRedirs == {[fd |-> 0, to |-> "in"], [fd |-> 1, to |-> "f"], [fd |-> 1, to |-> "g"],
             [fd |-> 2, to |-> "g"], [fd |-> 2, to |-> "stdout"]}
-----------------------------------------------------------------------------
Str(units) == [kind |-> "string", text |-> units]
F(k, v) == [key |-> k, value |-> v]
Type(t) == F("response_type", Str(<<W(t)>>))
Content(units) == F("content", Str(units))
Steps(list) == F("steps", [kind |-> "steps", steps |-> list])
Cmds(c) == <<F("command", Str(<<W(c)>>))>>
Reply(ok, fields) == [kind |-> "object", schema |-> ok, fields |-> fields]
MCReplies ==
  {Reply(TRUE, <<Type("command"), Content(<<W("ls")>>)>>),
   Reply(TRUE, <<Content(<<<<"\\", "\"">>, W("ls"), <<"\\", "u", "e9">>>>), Type("command")>>),
   Reply(TRUE, <<Type("script"), Content(<<W("#!"), <<"\\", "n">>>>), F("filename", Str(<<W("..")>>))>>),
   Reply(TRUE, <<Type("script"), Content(<<W("#!")>>)>>),
   Reply(TRUE, <<Type("answer"), Content(<<>>)>>),
   Reply(TRUE, <<Type("steps"), Steps(<<Cmds("a"), Cmds("b")>>), Content(<<W("do")>>)>>),
   Reply(TRUE, <<Type("steps"), Content(<<W("do")>>)>>),
   Reply(FALSE, <<Type("command"), Steps(<<<<Content(<<W("rm")>>)>>>>), Content(<<W("ls")>>)>>),
   Reply(FALSE, <<Type("steps"), Steps(<<Cmds("a"), <<F("command", [kind |-> "number", text |-> <<>>])>>>>), Content(<<W("x")>>)>>),
   Reply(FALSE, <<F("content", [kind |-> "number", text |-> <<>>]), Type("command")>>),
   [kind |-> "plain", text |-> <<"[COMMAND]", "ls">>], [kind |-> "plain", text |-> <<"[ANSWER]", "\"", "a", "\"">>],
   [kind |-> "plain", text |-> <<"[SCRIPT:", "f", "]", "#!">>], [kind |-> "plain", text |-> <<"[SCRIPT:", "f">>],
   [kind |-> "plain", text |-> <<"no">>]}
MCHistories == {<<"user", "assistant">>}
MCCutsAt == {0, 1, 16, 23, 40}
MCFilenames == {<<>>, <<" ">>, <<"n", "o">>, <<"x">>, <<"/", "x">>, <<"..", "/", "x">>, <<"~", "/", "x">>}
-----------------------------------------------------------------------------
MCTool == <<"g">>
MCTools == {MCTool}
MCKillLike == {<<"k">>}
MCDirOnly == {<<"c", "d">>}
MCFigSpecs == {[kind |-> "none", options |-> <<>>], [kind |-> "bad", options |-> <<>>],
               [kind |-> "good", options |-> <<<<"-", "a">>, <<"-", "-", "b">>>>]}
MCComplete(command) == <<<<"complete">>, <<"-", "c">>, command>>
MCFishFiles ==
  {<<>>, <<MCComplete(MCTool) \o <<<<"-", "s">>, <<"a">>, <<"-", "l">>, <<"a", "b">>, <<"-", "n">>, <<"-", "c">>>>,
           MCComplete(<<"k">>) \o <<<<"-", "-", "arguments">>, <<"-", "x">>>>,
           <<<<"complete">>, <<"-", "s">>, <<"b">>, <<"-", "f">>>>>>}
MCHelpTexts ==
  {<<<<"-", "u">>, <<" ", "-", "a", ",", " ", "-", "-", "a", "b", "=", "-">>, <<" ", " ", "-", "-", "b", "-", "b">>>>,
   <<<<" ", "-", "b", "-">>, <<" ", "-", "-">>, <<>>>>}
MCPaths == {<<>>, <<<<<<"g">>, <<"a", "b">>, <<"m", "a", "k", "e">>>>, <<<<"a", "b">>, <<"k", "m">>, <<"a", "c", "t">>>>>>}
MCBuiltins == <<<<"c", "d">>, <<"a", "b", "c">>>>
MCSubcommands == MCTool :> <<<<"a", "d">>, <<"b">>>>
MCCandidates == "variables" :> <<<<"$", "a">>>> @@ "pids" :> <<<<"1">>, <<"1", "2">>>> @@ "dirs" :> <<<<"a", "/">>>>
                @@ "files" :> <<<<"a">>, <<"b">>>>
MCDisabled == {{}, {"fig", "manpage"}}
MCInputs == ({<<>>} \X {<<"a">>, <<"m", "e">>})
            \cup ({MCTool} \X {<<"-">>, <<"-", "-">>, <<"$">>, <<"a">>})
            \cup {<<<<"k">>, <<"1">>>>, <<<<"c", "d">>, <<>>>>}
MCTabInputs == {[tool |-> i[1], word |-> i[2]] : i \in MCInputs}
MCHelpCuts == {[lines |-> 0, symbols |-> 0], [lines |-> 1, symbols |-> 8], [lines |-> 3, symbols |-> 0]}
MCTyped == {<<"b", "a">>, <<"m", "a", "k">>, <<"a", "c", "k">>, <<"g", "a">>}
-----------------------------------------------------------------------------
SeqInit ==
  /\ part \in {"loop", "redirections", "pipes", "answers", "completion"}
  /\ LoopInit /\ Init /\ PipeInit /\ AnswerInit /\ CompletionInit
  /\ part # "loop" => reader = "repl"
  /\ part # "completion" =>
       /\ \A t \in Tools : figs[t].kind = "none" /\ fishes[t] = None /\ helps[t][1] = <<"-", "u">>
       /\ path = <<>> /\ plugins = Providers
SeqNext ==
  \/ part = "loop" /\ LoopNext /\ UNCHANGED <<part, vars, pipeVars, answerVars, completionVars>>
  \/ part = "redirections" /\ Next /\ UNCHANGED <<part, loopVars, pipeVars, answerVars, completionVars>>
  \/ part = "pipes" /\ PipeNext /\ UNCHANGED <<part, loopVars, vars, answerVars, completionVars>>
  \/ part = "answers" /\ AnswerNext /\ UNCHANGED <<part, loopVars, vars, pipeVars, completionVars>>
  \/ part = "completion" /\ CompletionNext /\ UNCHANGED <<part, loopVars, vars, pipeVars, answerVars>>
SeqSpec == SeqInit /\ [][SeqNext]_<<part, loopVars, vars, pipeVars, answerVars, completionVars>>
=============================================================================
