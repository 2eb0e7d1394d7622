------------------------------- MODULE MCTui -------------------------------
(* Two calls of the user, a run of each kind, one request, and two readLoops.  *)
EXTENDS Tui
=============================================================================
