---------------------------- MODULE MCChatHistory ----------------------------
(* A small instance of ChatHistory for TLC.                                *)
EXTENDS ChatHistory

CONSTANTS w1, w2, a1

ChatAndSentinel == <<"chat", "loop_until_sentinel">>
AllForA1 == [s \in Sessions |-> a1]
Interchangeable == Permutations(Workers) \cup Permutations(Requests)
===============================================================================
