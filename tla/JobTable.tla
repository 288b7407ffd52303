------------------------------ MODULE JobTable ------------------------------
(***************************************************************************)
(* What tash promises of its background jobs, without pids' life cycles,   *)
(* signals or waits: a bounded list on which a job stays until it has      *)
(* ended.  README.md: `bg cmd` runs a command in background, `bglist`      *)
(* lists the background jobs.                                              *)
(***************************************************************************)
EXTENDS Integers, FiniteSets

CONSTANTS Jobs, Capacity

VARIABLES listed, ended

Init == listed = {} /\ ended = {}

Start(j) ==
  /\ j \notin listed /\ Cardinality(listed) < Capacity
  /\ listed' = listed \cup {j} /\ UNCHANGED ended

End(j) ==
  /\ j \in listed \ ended
  /\ ended' = ended \cup {j} /\ UNCHANGED listed

Forget(j) ==
  /\ j \in ended
  /\ listed' = listed \ {j} /\ ended' = ended \ {j}

Next == \E j \in Jobs : Start(j) \/ End(j) \/ Forget(j)

Spec == Init /\ [][Next]_<<listed, ended>>
=============================================================================
