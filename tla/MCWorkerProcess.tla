---------------------------- MODULE MCWorkerProcess ----------------------------
(* Small instances of WorkerProcess for TLC.                               *)
EXTENDS WorkerProcess, TLC

CONSTANTS w1, w2, a1

ChatSession == <<"chat">>
InboxSession == <<"inbox">>
AllForA1 == [s \in Sessions |-> a1]

NoInbox == [w \in Workers |-> NoAgent]
AllListen == [w \in Workers |-> a1]

Interchangeable == Permutations(Workers) \cup Permutations(Pulls)
===============================================================================
