----------------------------- MODULE FleetQueue -----------------------------
(***************************************************************************)
(* What Fleet Run promises of the execution of its commands, without       *)
(* tables, policy answers, pollers and units: "commands execute one at a   *)
(* time per gateway in dispatch order", and no gateway runs one of them    *)
(* twice.                                                                  *)
(***************************************************************************)
EXTENDS Naturals

CONSTANTS Gateways, Ids

VARIABLES
  dispatched,   \* pairs <<gateway, id>> that were dispatched
  started,      \* pairs whose execution has begun
  running       \* pairs that execute now

Init == dispatched = {} /\ started = {} /\ running = {}

Dispatch(id, targets) ==
  /\ \A p \in dispatched : p[2] < id
  /\ dispatched' = dispatched \cup (targets \X {id})
  /\ UNCHANGED <<started, running>>

Start(g, id) ==
  /\ <<g, id>> \in dispatched
  /\ \A p \in started : p[1] = g => p[2] < id
  /\ \A p \in running : p[1] # g
  /\ started' = started \cup {<<g, id>>}
  /\ running' = running \cup {<<g, id>>}
  /\ UNCHANGED dispatched

Finish(g, id) ==
  /\ <<g, id>> \in running
  /\ running' = running \ {<<g, id>>}
  /\ UNCHANGED <<dispatched, started>>

Next ==
  \/ \E targets \in SUBSET Gateways, id \in Ids : Dispatch(id, targets)
  \/ \E p \in dispatched : Start(p[1], p[2]) \/ Finish(p[1], p[2])

Spec == Init /\ [][Next]_<<dispatched, started, running>>
=============================================================================
