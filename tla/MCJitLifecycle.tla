--------------------------- MODULE MCJitLifecycle ---------------------------
(* Instances of JitLifecycle for TLC.  "c|d" is a command with a "|" whose   *)
(* first field is the command "c"; "b" decodes to a blocklisted text; "m" is *)
(* not valid utf-8, and decode_cmd stores its encoded form "e".              *)
EXTENDS JitLifecycle, TLC

Plain == {"c"}

MCDecoded == [x \in Commands |-> IF x = "m" THEN "e" ELSE x]
MCField2 == [x \in Commands |-> IF x = "c|d" THEN "c" ELSE x]
MCBlocked == {"b"} \cap Commands

OneHost == [i \in Invocations |-> "g1"]
SameCmd == [i \in Invocations |-> "c"]
Mixed == {"c", "c|d", "b", "m", "e"}
MixedCmd == ("i1" :> "c") @@ ("i2" :> "b")
AllEvents == {"approve", "deny", "purge", "log", "lose", "restart", "kill", "freeze", "override"}

\* The events of a run.
ApproveOnly == {"approve"}
=============================================================================
