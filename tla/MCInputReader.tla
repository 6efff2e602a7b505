--------------------------- MODULE MCInputReader ---------------------------
(* Instances of InputReader for TLC. *)
EXTENDS InputReader

\* Lines around the limit, with and without a dollar, and every command.
MCShapes ==
    [len : {0, Limit - 1, Limit, Limit + 2}, kind : {"text"}]
    \cup [len : {Limit, Limit + 1}, kind : {"dollar"}]
    \cup [len : {1}, kind : {"wc", "cat", "exit"}]
=============================================================================
