---------------------------- MODULE GatewayWatch ----------------------------
(***************************************************************************)
(* The watch over silent gateways: _check_gateway_transitions, run by a     *)
(* thread of the dashboard and by every listing of the gateways, its two    *)
(* sets in memory and their copies in the meta table, and the hourly        *)
(* removal of gateways that have been silent for a week.                    *)
(***************************************************************************)
EXTENDS Integers, FiniteSets

CONSTANTS
  Count,     \* number of addresses; a check goes through them in their order
  Listings,  \* GET /api/gateways requests
  Budget     \* bound: registrations, listings, removals, faults

ConstantsAssumption == Count \in Nat \ {0} /\ Budget \in Nat /\ "watch" \notin Listings

Gateways == 1..Count
Checks == Listings \cup {"watch"}

\* How long a gateway was silent: 0 up to 120 s, 1 up to 300 s, 2 up to a week.
Ages == 0..3
Kinds == {"disconnected", "offline"}
Limit == [k \in Kinds |-> IF k = "disconnected" THEN 1 ELSE 2]

VARIABLES
  age,       \* now - last_seen, as a level; -1 without a row in gateways
  loaded,    \* _watch_state_loaded
  alerted,   \* _disconnected_gateways and _offline_alerted
  saved,     \* meta: watch_disconnected and watch_offline_alerted
  check,     \* the runs of _check_gateway_transitions
  doomed,    \* gateways the hourly clean-up found stale and has not removed yet
  noticed,   \* timing: gateways the watch went through since they last changed level
  told,      \* history: gateways whose last event or webhook was the bad one
  disturbed, \* history: two checks overlapped, or one was cut off
  twice,     \* history: a bad event repeated without a good one in between
  fuel

dash == <<loaded, alerted, saved, check, doomed>>
hist == <<told, disturbed, twice>>
vars == <<age, dash, noticed, hist, fuel>>

Idle == [pc |-> "idle", list |-> [g \in Gateways |-> -1], at |-> 1, kind |-> "disconnected",
         changed |-> FALSE]
Nobody == [k \in Kinds |-> {}]

TypeOK ==
  /\ age \in [Gateways -> Ages \cup {-1}] /\ loaded \in BOOLEAN
  /\ alerted \in [Kinds -> SUBSET Gateways] /\ saved \in [Kinds -> SUBSET Gateways]
  /\ check \in [Checks -> [pc : {"idle", "load", "list", "test", "add", "send", "save"},
                           list : [Gateways -> Ages \cup {-1}], at : 1..(Count + 1),
                           kind : Kinds, changed : BOOLEAN]]
  /\ doomed \subseteq Gateways /\ noticed \subseteq Gateways
  /\ told \in [Kinds -> SUBSET Gateways] /\ disturbed \in BOOLEAN /\ twice \in BOOLEAN
  /\ fuel \in 0..Budget

Init ==
  /\ age = [g \in Gateways |-> 0] /\ loaded = FALSE /\ alerted = Nobody /\ saved = Nobody
  /\ check = [c \in Checks |-> Idle] /\ doomed = {} /\ noticed = {} /\ told = Nobody
  /\ disturbed = FALSE /\ twice = FALSE /\ fuel = Budget

Spend == fuel > 0 /\ fuel' = fuel - 1

-----------------------------------------------------------------------------
(* One check.                                                              *)

Set(c, new) == check' = [check EXCEPT ![c] = new]
Goto(c, pc) == Set(c, [check[c] EXCEPT !.pc = pc])

\* Goes on to the next gateway, or to the end of the loop.
NextGateway(c, changed) ==
  LET k == check[c]
  IN Set(c, [k EXCEPT !.at = @ + 1, !.kind = "disconnected", !.changed = changed,
                      !.pc = IF k.at < Count THEN "test" ELSE "save"])

\* After a kind comes the other one, then the next gateway.
NextKind(c, changed) ==
  IF check[c].kind = "disconnected"
  THEN Set(c, [check[c] EXCEPT !.pc = "test", !.kind = "offline", !.changed = changed])
  ELSE NextGateway(c, changed)

Enter(c) ==
  /\ check[c].pc = "idle"
  /\ IF c = "watch" THEN UNCHANGED fuel ELSE Spend
  /\ Goto(c, IF loaded THEN "list" ELSE "load")
  /\ disturbed' = (disturbed \/ \E d \in Checks : check[d].pc # "idle")
  /\ UNCHANGED <<age, loaded, alerted, saved, doomed, noticed, told, twice>>

\* Bug: the sets start empty whenever the dashboard does.
LoadNothing(c) ==
  /\ check[c].pc = "load"
  /\ loaded' = TRUE /\ alerted' = Nobody
  /\ Goto(c, "list")
  /\ UNCHANGED <<age, saved, doomed, noticed, hist, fuel>>

Load(c) ==
  /\ check[c].pc = "load"
  /\ loaded' = TRUE /\ alerted' = saved
  /\ Goto(c, "list")
  /\ UNCHANGED <<age, saved, doomed, noticed, hist, fuel>>

List(c) ==
  /\ check[c].pc = "list"
  /\ Set(c, [check[c] EXCEPT !.list = age, !.pc = "test"])
  /\ UNCHANGED <<age, loaded, alerted, saved, doomed, noticed, hist, fuel>>

\* The two tests of a kind.  What became silent is announced, then remembered; what
\* came back is forgotten, then announced.
Test(c, k) ==
  /\ check[c].pc = "test" /\ check[c].kind = k
  /\ LET g == check[c].at
         late == check[c].list[g] >= Limit[k]
         new == late /\ g \notin alerted[k]
         back == ~ late /\ check[c].list[g] # -1 /\ g \in alerted[k]
     IN /\ IF new THEN Goto(c, "add") ELSE IF back THEN Goto(c, "send")
           ELSE NextKind(c, check[c].changed)
        /\ told' = IF new THEN [told EXCEPT ![k] = @ \cup {g}] ELSE told
        /\ twice' = (twice \/ (new /\ g \in told[k]))
        /\ alerted' = IF back THEN [alerted EXCEPT ![k] = @ \ {g}] ELSE alerted
  /\ UNCHANGED <<age, loaded, saved, doomed, noticed, disturbed, fuel>>

Add(c, k) ==
  /\ check[c].pc = "add" /\ check[c].kind = k
  /\ alerted' = [alerted EXCEPT ![k] = @ \cup {check[c].at}]
  /\ NextKind(c, TRUE)
  /\ UNCHANGED <<age, loaded, saved, doomed, noticed, hist, fuel>>

Send(c, k) ==
  /\ check[c].pc = "send" /\ check[c].kind = k
  /\ told' = [told EXCEPT ![k] = @ \ {check[c].at}]
  /\ NextKind(c, TRUE)
  /\ UNCHANGED <<age, loaded, alerted, saved, doomed, noticed, disturbed, twice, fuel>>

\* _save_watch_state, when something changed.
Save(c) ==
  /\ check[c].pc = "save"
  /\ saved' = IF check[c].changed THEN alerted ELSE saved
  /\ noticed' = IF c = "watch" THEN {g \in Gateways : check[c].list[g] = age[g]} ELSE noticed
  /\ Set(c, Idle)
  /\ UNCHANGED <<age, loaded, alerted, doomed, hist, fuel>>

\* A statement fails: the thread swallows it, a listing answers 500.
Cut(c) ==
  /\ check[c].pc # "idle" /\ Spend
  /\ Set(c, Idle)
  /\ disturbed' = TRUE
  /\ UNCHANGED <<age, loaded, alerted, saved, doomed, noticed, told, twice>>

Check(c) ==
  \/ Enter(c) \/ Load(c) \/ List(c) \/ Save(c)
  \/ \E k \in Kinds : Test(c, k) \/ Add(c, k) \/ Send(c, k)

-----------------------------------------------------------------------------
(* The gateways, the clean-up and the restarts of the dashboard.           *)

Resting == \A c \in Checks : check[c].pc = "idle"

\* A level lasts for minutes and a check for seconds: between two levels the watch
\* goes through the gateway.
Silent(g) ==
  /\ age[g] \in 0..2 /\ g \in noticed /\ Resting
  /\ age' = [age EXCEPT ![g] = @ + 1] /\ noticed' = noticed \ {g}
  /\ UNCHANGED <<dash, hist, fuel>>

\* A heartbeat, a poll or a registration: only the last one creates a row.
Heard(g) ==
  /\ IF age[g] = -1 THEN Spend ELSE age[g] # 0 /\ UNCHANGED fuel
  /\ age' = [age EXCEPT ![g] = 0] /\ noticed' = noticed \ {g}
  /\ UNCHANGED <<dash, hist>>

\* The clean-up lists the gateways, then removes the stale ones of that list; its
\* audit event ends the story of the gateway's connection.
FindStale ==
  /\ doomed = {} /\ \E g \in Gateways : age[g] = 3
  /\ doomed' = {g \in Gateways : age[g] = 3}
  /\ UNCHANGED <<age, loaded, alerted, saved, check, noticed, hist, fuel>>

RemoveStale(g) ==
  /\ g \in doomed /\ doomed' = doomed \ {g}
  /\ age' = [age EXCEPT ![g] = -1] /\ noticed' = noticed \ {g}
  /\ alerted' = [alerted EXCEPT !["disconnected"] = @ \ {g}]
  /\ told' = [told EXCEPT !["disconnected"] = @ \ {g}]
  /\ UNCHANGED <<loaded, saved, check, disturbed, twice, fuel>>

Restart ==
  /\ Spend
  /\ loaded' = FALSE /\ alerted' = Nobody /\ doomed' = {}
  /\ check' = [c \in Checks |-> Idle]
  /\ disturbed' = (disturbed \/ ~ Resting)
  /\ UNCHANGED <<age, saved, noticed, told, twice>>

Next ==
  \/ \E c \in Checks : Check(c) \/ Cut(c)
  \/ \E g \in Gateways : Silent(g) \/ Heard(g) \/ RemoveStale(g)
  \/ FindStale \/ Restart

\* The thread loops for ever, whatever a check raises.
Spec == Init /\ [][Next]_vars /\ WF_vars(Check("watch"))

-----------------------------------------------------------------------------
(* What must hold.                                                         *)

\* What the comment above the two sets promises: however often the dashboard is
\* restarted, a gateway that is still silent is not announced again.  Checks that
\* overlap, or are cut off before they save, may announce it twice.
AnnouncedOnce == twice => disturbed

\* A registered gateway that falls silent is announced, whatever became of earlier
\* checks, unless it is heard from or removed first.
SilenceTold ==
  \A g \in Gateways :
    age[g] >= 2 /\ g \notin told["offline"]
      ~> g \in told["offline"] \/ age[g] < 2
=============================================================================
