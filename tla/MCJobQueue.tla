------------------------------ MODULE MCJobQueue ------------------------------
(* Small instances of JobQueue for TLC: which session has which workflow,  *)
(* and the symmetry of ids that the model only compares for equality.      *)
EXTENDS JobQueue, TLC

CONSTANTS w1, w2, a1

LoopNSession == <<"loop_n">>
InboxAndOthers == <<"inbox", "chat", "loop_until_sentinel">>
AllForA1 == [s \in Sessions |-> a1]

Interchangeable == Permutations(Workers) \cup Permutations(Requests)
===============================================================================
