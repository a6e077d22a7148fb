---------------------------- MODULE MCFileSave ----------------------------
(***************************************************************************)
(* FileSave for TLC: two calls, one replacement by the other program.      *)
(***************************************************************************)
EXTENDS FileSave, TLC

CONSTANTS c1, c2, f1

MCCaller == {c1, c2}
MCForeign == {f1}

\* The calls differ only in their names.
Symmetric == Permutations(MCCaller)
=============================================================================
