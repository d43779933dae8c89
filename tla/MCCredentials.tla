---------------------------- MODULE MCCredentials ----------------------------
(* A small instance of Credentials for TLC.  The users set the agent token, *)
(* set, clear or blank the git token, and set the refresh token.          *)
EXTENDS Credentials, TLC

UserPatches == {KeepAll,
                [git |-> "set", refresh |-> "keep"],
                [git |-> "clear", refresh |-> "keep"],
                [git |-> "blank", refresh |-> "keep"],
                [git |-> "keep", refresh |-> "set"]}

Symmetry == Permutations(Handlers)
===============================================================================
