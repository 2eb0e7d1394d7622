----------------------------- MODULE MCSession -----------------------------
(* Two sends of up to two steps that may overlap, in a session of either    *)
(* mode, and two of the events clear, close, compact and crash. A send is   *)
(* only a name, so the sends are symmetric.                                 *)
EXTENDS Session, TLC

Symmetric == Permutations(Sends)
=============================================================================
