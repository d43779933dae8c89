----------------------------- MODULE MCLogStream -----------------------------
(* A small instance of LogStream for TLC: a batch of two lines with one     *)
(* timestamp, and a batch of another job from a clock that is behind.       *)
EXTENDS LogStream

BatchJobs == <<"j1", "j2">>
BatchSizes == <<2, 1>>
BatchStamps == <<1, 0>>
===============================================================================
