--------------------------- MODULE MCGatewayModes ---------------------------
EXTENDS GatewayModes

\* Commands of four kinds; the lists allow the first three, or forbid all.
MCCommands == {"plain", "smart", "pipe", "eval"}
MCTraits == [c \in MCCommands |->
  CASE c = "pipe" -> {"meta"}
    [] c = "eval" -> {"encoded", "hidden", "meta"}
    [] OTHER -> {}]

MCInstalled == [exact |-> {"plain", "pipe"}, regex |-> {"smart", "pipe"}, black |-> {}]
MCPolicies == {MCInstalled, [MCInstalled EXCEPT !.black = MCCommands], [MCInstalled EXCEPT !.exact = {}]}
=============================================================================
