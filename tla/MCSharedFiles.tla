---------------------------- MODULE MCSharedFiles ----------------------------
\* What the shells of a user share through files: the settings, conversation and
\* count of the AI, the frecency file and the sessions, the history database, and
\* the data directory that config sync pushes.  The four are explored one by one,
\* each with the others at rest.
EXTENDS AiFiles, Workspace, ConfigSync, History, TLC

VARIABLE part \* the part explored

\* Every model belongs to one provider; ollama takes any.
MCFits == {<<"gemini", "gemini-a">>, <<"openai", "gpt-a">>} \cup ({"ollama"} \X Models)
-----------------------------------------------------------------------------
\* /h, /a and /h/a: an end of the last may be the second, or the last seen from the first.
\* Numbers and their widths as the binary numerals have them; seconds since 1970 have one width.
MCSpelling == "home" :> <<"/", "h">> @@ "a" :> <<"/", "a">> @@ "ha" :> <<"/", "h", "/", "a">>
MCQueries == {<<"a">>, <<"/", "h">>}
MCNumerals == 0 :> <<"0">> @@ 1 :> <<"1">> @@ 2 :> <<"1", "0">> @@ 3 :> <<"1", "1">>
MCStamps == 0 :> <<"t0">> @@ 1 :> <<"t1">> @@ 24 :> <<"t24">> @@ 168 :> <<"t168">>
MCKeys == <<<<"alias:", "\\", "n">>>>
MCValues == {<<"x">>, <<"\\", "n">>, <<"\n">>}
-----------------------------------------------------------------------------
MCMachineOf == "s1" :> "m1" @@ "s2" :> "m1" @@ "s3" :> "m2"
-----------------------------------------------------------------------------
MCRuns == {[command |-> <<"ls">>, exit |-> 0, dir |-> "a"], [command |-> <<"git", "push">>, exit |-> 1, dir |-> "b"]}
MCAsked == {<<>>, <<"--limit", "1", "--here">>, <<"--failed", "-n", "1">>, <<"push", "-n", "0">>, <<"stats">>}
MCNumberIn == "0" :> 0 @@ "1" :> 1
-----------------------------------------------------------------------------
MCSymmetry == Permutations(Terminals)

SharedInit ==
  /\ part \in {"ai", "workspace", "sync", "history"}
  /\ Init /\ WorkspaceInit /\ SyncInit /\ HistoryInit
  /\ part # "ai" => ~HasKey("gemini")
SharedNext ==
  \/ part = "ai" /\ Next /\ UNCHANGED <<part, workspaceVars, syncVars, historyVars>>
  \/ part = "workspace" /\ WorkspaceNext /\ UNCHANGED <<part, vars, syncVars, historyVars>>
  \/ part = "sync" /\ SyncNext /\ UNCHANGED <<part, vars, workspaceVars, historyVars>>
  \/ part = "history" /\ HistoryNext /\ UNCHANGED <<part, vars, workspaceVars, syncVars>>
SharedSpec == SharedInit /\ [][SharedNext]_<<part, vars, workspaceVars, syncVars, historyVars>>
=============================================================================
