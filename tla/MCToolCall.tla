----------------------------- MODULE MCToolCall -----------------------------
(* Instances of ToolCall for TLC: a write over HTTP and one over WebSocket.  *)
EXTENDS ToolCall

CONSTANTS write, ws

MCTools == {write, ws}
MCShape == [t \in MCTools |->
  [kind |-> IF t = write THEN "http" ELSE "ws", readOnly |-> FALSE, writes |-> TRUE,
   dryRun |-> FALSE, destructive |-> t = write, alwaysGate |-> FALSE]]

AllEvents == EventKinds
=============================================================================
