----------------------------- MODULE MCChannels -----------------------------
(* Two senders, one without an agent, four updates of which one has no text.  *)
EXTENDS Channels
SenderOfUpdate == <<"ann", "bob", "bob", "ann">>
=============================================================================
