--------------------------- MODULE JobControlImpl ---------------------------
(* The refinement mapping from the shell's job control to JobTable.          *)
EXTENDS JobControl

Table == INSTANCE JobTable WITH
           Jobs     <- Pids,
           Capacity <- MaxBackground,
           listed   <- background_processes,
           ended    <- {p \in background_processes : ~Live(p)}

\* Where no signal but the user's bg* commands stops a job and no SIGINT breaks
\* a wait, the map behaves as the table: background_process starts, the reaper
\* and fg forget, and only jobs that have ended.
ImplementsJobTable == Table!Spec
=============================================================================
