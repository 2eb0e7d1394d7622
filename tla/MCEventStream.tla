--------------------------- MODULE MCEventStream ---------------------------
(* A buffer of three events and a run of up to three, one of them traced     *)
(* before the client connects; the third is too long for a replay; the       *)
(* connection subscribes twice.                                              *)
EXTENDS EventStream
=============================================================================
