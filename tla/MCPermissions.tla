--------------------------- MODULE MCPermissions ---------------------------
(* Two concurrent calls of two sessions to two tools: bash, whose commands   *)
(* leave the working directory or match a deny pattern, and write_file.     *)
EXTENDS Permissions

MCSessions == {"s1", "s2"}
MCTools    == {"bash", "write_file"}
MCCalls    == [sess : {"s2"}, tool : {"bash"}, cmd : {"outside", "rm"}]
              \cup [sess : {"s1"}, tool : {"write_file"}, cmd : {"none"}]
MCDefault  == [bash |-> "ask", write_file |-> "ask"]
MCDeny     == [bash |-> {"rm"}, write_file |-> {}]
MCAllow    == [bash |-> {"rm"}, write_file |-> {}]
MCFiles    == {[bash |-> "none", write_file |-> "allow"], [bash |-> "other", write_file |-> "deny"]}
MCOutside  == {"outside"}
=============================================================================
