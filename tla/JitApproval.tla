----------------------------- MODULE JitApproval -----------------------------
(***************************************************************************)
(* What just-in-time approval promises, without tables, pollers, tickets   *)
(* and files: commands are granted host by host, one at a time, and a      *)
(* session runs its command, once, only when exactly that command has been *)
(* granted on its host.                                                    *)
(***************************************************************************)
CONSTANTS Gateways, Commands, Invocations, GwOf, CmdOf

VARIABLES
  granted,   \* the pairs <<host, command>> that were granted
  ran        \* the sessions that ran their command

Init == granted = {} /\ ran = {}

Grant(g, c) ==
  /\ granted' = granted \cup {<<g, c>>}
  /\ UNCHANGED ran

Run(i) ==
  /\ i \notin ran
  /\ <<GwOf[i], CmdOf[i]>> \in granted
  /\ ran' = ran \cup {i}
  /\ UNCHANGED granted

Next ==
  \/ \E g \in Gateways, c \in Commands : Grant(g, c)
  \/ \E i \in Invocations : Run(i)

Spec == Init /\ [][Next]_<<granted, ran>>
=============================================================================
