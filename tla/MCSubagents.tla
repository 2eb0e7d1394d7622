---------------------------- MODULE MCSubagents ----------------------------
(* One top-level run and two calls: at once, in turn or nested, with retries. *)
EXTENDS Subagents
=============================================================================
