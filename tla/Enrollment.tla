---------------------------- MODULE Enrollment -----------------------------
(***************************************************************************)
(* Enrolment, updates and removal of gateways: /api/register with its       *)
(* single-use tokens, the triggers the dashboard sets, the poller that      *)
(* follows them, and the uninstaller it launches.                           *)
(***************************************************************************)
EXTENDS Integers, FiniteSets

CONSTANTS
  Hosts,     \* machines, each with one address
  Tokens,    \* enrolment tokens the operator generated
  NoToken,
  MaxId,     \* bound: gateway tokens minted, and update triggers
  Budget     \* bound: requests of the operator, installations and faults

ConstantsAssumption == MaxId \in Nat /\ Budget \in Nat /\ NoToken \notin Tokens

VARIABLES
  used,      \* enrollment_tokens.used
  row,       \* gateways: -1 no row, 0 a row without api_token, else the token
  minted,    \* bound: gateway tokens so far
  trigger,   \* meta: trigger_uninstall_<ip>
  update,    \* meta: trigger_update_version
  ops,       \* requests of the operator between their read and their write
  call,      \* POST /api/register of a host
  host,      \* what is on each machine
  admitted,  \* history: the hosts each enrolment token let in
  asked,     \* history: hosts whose uninstall was asked since they last registered
  stale,     \* history: hosts that launched an uninstall nobody asked for
  fuel

dash == <<used, row, minted, trigger>>
hist == <<admitted, stale>>
vars == <<dash, update, ops, call, host, hist, asked, fuel>>

NoCall == [stage |-> "none", by |-> "installer", token |-> 0, enrol |-> NoToken]
Blank == [installed |-> FALSE, held |-> 0, last |-> 0, pc |-> "off", flag |-> FALSE, id |-> 0,
          unit |-> "none"]

TypeOK ==
  /\ used \subseteq Tokens /\ row \in [Hosts -> -1..MaxId] /\ minted \in 0..MaxId
  /\ trigger \subseteq Hosts /\ update \in 0..MaxId
  /\ ops \subseteq [kind : {"uninstall", "remove"}, host : Hosts]
  /\ call \in [Hosts -> [stage : {"none", "auth", "consume", "row", "clear", "token", "answer"},
                         by : {"installer", "poller"}, token : 0..MaxId,
                         enrol : Tokens \cup {NoToken}]]
  /\ host \in [Hosts -> [installed : BOOLEAN, held : 0..MaxId, last : 0..MaxId,
                         pc : {"off", "idle", "fetched", "launched", "calling"}, flag : BOOLEAN,
                         id : 0..MaxId, unit : {"none", "running", "removed"}]]
  /\ admitted \in [Tokens -> SUBSET Hosts] /\ asked \subseteq Hosts /\ stale \subseteq Hosts
  /\ fuel \in 0..Budget

Init ==
  /\ used = {} /\ row = [h \in Hosts |-> -1] /\ minted = 0 /\ trigger = {} /\ update = 0
  /\ ops = {} /\ call = [h \in Hosts |-> NoCall] /\ host = [h \in Hosts |-> Blank]
  /\ admitted = [e \in Tokens |-> {}] /\ asked = {} /\ stale = {} /\ fuel = Budget

-----------------------------------------------------------------------------
(* /api/register, one transaction a step.                                  *)

Set(h, new) == call' = [call EXCEPT ![h] = new]
Stage(h, s) == Set(h, [call[h] EXCEPT !.stage = s])
Host(h, new) == host' = [host EXCEPT ![h] = new]
Valid(h, t) == t # 0 /\ row[h] = t

Begin(h, by, token, enrol) ==
  /\ call[h].stage = "none"
  /\ Set(h, [stage |-> "auth", by |-> by, token |-> token, enrol |-> enrol])

\* A gateway's token must be valid; without one the address must be new and the
\* enrolment token unused.  A refusal answers no token.
Auth(h) ==
  /\ call[h].stage = "auth"
  /\ LET c == call[h]
         known == c.token # 0 /\ Valid(h, c.token)
         new == c.token = 0 /\ row[h] = -1 /\ c.enrol \in Tokens \ used
     IN /\ Set(h, [c EXCEPT !.stage = IF known THEN "row" ELSE IF new THEN "consume" ELSE "answer",
                            !.token = IF known THEN @ ELSE 0])
        /\ asked' = IF known \/ new THEN asked \ {h} ELSE asked
  /\ UNCHANGED <<dash, update, ops, host, hist, fuel>>

Consume(h) ==
  /\ call[h].stage = "consume"
  /\ used' = used \cup {call[h].enrol}
  /\ admitted' = [admitted EXCEPT ![call[h].enrol] = @ \cup {h}]
  /\ Stage(h, "row")
  /\ UNCHANGED <<row, minted, trigger, update, ops, host, asked, stale, fuel>>

\* register_gateway: a row that exists keeps its token.
RegisterRow(h) ==
  /\ call[h].stage = "row"
  /\ row' = [row EXCEPT ![h] = IF @ = -1 THEN 0 ELSE @]
  /\ Stage(h, "clear")
  /\ UNCHANGED <<used, minted, trigger, update, ops, host, hist, asked, fuel>>

\* Bug: registering leaves an old trigger alone.
KeepTrigger(h) ==
  /\ call[h].stage = "clear"
  /\ Stage(h, "token")
  /\ UNCHANGED <<dash, update, ops, host, hist, asked, fuel>>

ClearTrigger(h) ==
  /\ call[h].stage = "clear"
  /\ trigger' = trigger \ {h}
  /\ Stage(h, "token")
  /\ UNCHANGED <<used, row, minted, update, ops, host, hist, asked, fuel>>

\* get_gateway_token, and set_gateway_token when there is none.  When the row is
\* gone by now the token of the answer is nobody's.
GiveToken(h) ==
  /\ call[h].stage = "token"
  /\ IF row[h] > 0 THEN Set(h, [call[h] EXCEPT !.stage = "answer", !.token = row[h]]) /\ UNCHANGED dash
     ELSE /\ minted < MaxId /\ minted' = minted + 1
          /\ row' = [row EXCEPT ![h] = IF @ = -1 THEN @ ELSE minted + 1]
          /\ Set(h, [call[h] EXCEPT !.stage = "answer", !.token = minted + 1])
          /\ UNCHANGED <<used, trigger>>
  /\ UNCHANGED <<update, ops, host, hist, asked, fuel>>

\* The installer keeps the token it was given, or the one in the script it found,
\* and starts a new poller; the poller goes on with its loop.
Answer(h) ==
  /\ call[h].stage = "answer"
  /\ LET m == host[h]
         held == IF call[h].token # 0 THEN call[h].token ELSE m.held
     IN IF call[h].by = "poller" THEN Host(h, [m EXCEPT !.held = held, !.pc = "idle"])
        ELSE Host(h, [m EXCEPT !.held = held, !.pc = "idle", !.installed = TRUE])
  /\ Set(h, NoCall)
  /\ UNCHANGED <<dash, update, ops, hist, asked, fuel>>

Register(h) == Auth(h) \/ Consume(h) \/ RegisterRow(h) \/ ClearTrigger(h) \/ GiveToken(h) \/ Answer(h)

-----------------------------------------------------------------------------
(* The operator.                                                           *)

Spend == fuel > 0 /\ fuel' = fuel - 1

\* The one-liner is run on a machine; no uninstaller runs there meanwhile.
Install(h) ==
  /\ Spend /\ host[h].unit = "none" /\ host[h].pc # "calling"
  /\ \E e \in Tokens : Begin(h, "installer", 0, e)
  /\ UNCHANGED <<dash, update, ops, host, hist, asked>>

\* trigger_gateway_uninstall and remove_gateway look for the row, then write.
Ask(h) ==
  /\ Spend /\ row[h] # -1
  /\ \E kind \in {"uninstall", "remove"} : ops' = ops \cup {[kind |-> kind, host |-> h]}
  /\ UNCHANGED <<dash, update, call, host, hist, asked>>

Write(o) ==
  /\ ops' = ops \ {o}
  /\ IF o.kind = "uninstall"
     THEN trigger' = trigger \cup {o.host} /\ asked' = asked \cup {o.host} /\ UNCHANGED row
     ELSE IF row[o.host] = -1 THEN UNCHANGED <<row, trigger, asked>>
     ELSE row' = [row EXCEPT ![o.host] = -1] /\ trigger' = trigger \ {o.host} /\ UNCHANGED asked
  /\ UNCHANGED <<used, minted, update, call, host, hist, fuel>>

\* save_policy, trigger-update and promote_edge give all gateways a new trigger id.
TriggerUpdate ==
  /\ Spend /\ update < MaxId /\ update' = update + 1
  /\ UNCHANGED <<dash, ops, call, host, hist, asked>>

-----------------------------------------------------------------------------
(* The poller and the uninstaller.                                         *)

\* fetch_policy answers a valid token only.
Fetch(h) ==
  /\ host[h].pc = "idle" /\ Valid(h, host[h].held)
  /\ h \in trigger \/ update # host[h].last
  /\ Host(h, [host[h] EXCEPT !.pc = "fetched", !.flag = h \in trigger, !.id = update])
  /\ UNCHANGED <<dash, update, ops, call, hist, asked, fuel>>

\* systemd-run refuses a unit that is there.  The poller of this installation must
\* have been asked; one that the installer is about to replace may be late.
Launch(h) ==
  /\ host[h].pc = "fetched" /\ host[h].flag
  /\ Host(h, [host[h] EXCEPT !.pc = "launched", !.unit = IF @ = "none" THEN "running" ELSE @])
  /\ stale' = stale \cup {x \in {h} : h \notin asked /\ call[h].stage = "none"}
  /\ UNCHANGED <<dash, update, ops, call, admitted, asked, fuel>>

\* POST uninstall-started, which can be lost; the poller exits and is started again.
Started(h) ==
  /\ host[h].pc = "launched"
  /\ \/ trigger' = (IF Valid(h, host[h].held) THEN trigger \ {h} ELSE trigger) /\ UNCHANGED fuel
     \/ Spend /\ UNCHANGED trigger
  /\ Host(h, [host[h] EXCEPT !.pc = "idle"])
  /\ UNCHANGED <<used, row, minted, update, ops, call, hist, asked>>

\* The trigger id is saved before the update runs; then the poller registers.
Update(h) ==
  /\ host[h].pc = "fetched" /\ ~ host[h].flag
  /\ IF host[h].id \in {0, host[h].last} \/ call[h].stage # "none"
     THEN Host(h, [host[h] EXCEPT !.pc = "idle"]) /\ UNCHANGED call
     ELSE /\ Host(h, [host[h] EXCEPT !.pc = "calling", !.last = host[h].id])
          /\ Begin(h, "poller", host[h].held, NoToken)
  /\ UNCHANGED <<dash, update, ops, hist, asked, fuel>>

\* The uninstaller stops the poller and removes every file.
Uninstall(h) ==
  /\ host[h].unit = "running" /\ call[h].stage = "none"
  /\ Host(h, [host[h] EXCEPT !.installed = FALSE, !.pc = "off", !.last = 0, !.unit = "removed"])
  /\ UNCHANGED <<dash, update, ops, call, hist, asked, fuel>>

\* The report "complete", if it arrives, clears the trigger and the row.
Complete(h) ==
  /\ host[h].unit = "removed"
  /\ \/ /\ UNCHANGED fuel
        /\ IF Valid(h, host[h].held)
           THEN row' = [row EXCEPT ![h] = -1] /\ trigger' = trigger \ {h}
           ELSE UNCHANGED <<row, trigger>>
     \/ Spend /\ UNCHANGED <<row, trigger>>
  /\ Host(h, [host[h] EXCEPT !.unit = "none", !.held = 0])
  /\ UNCHANGED <<used, minted, update, ops, call, hist, asked>>

\* A reboot ends the uninstaller and forgets the trigger id, which is in /var/run.
Reboot(h) ==
  /\ Spend /\ call[h].stage = "none" /\ host[h].installed
  /\ Host(h, [host[h] EXCEPT !.pc = "idle", !.last = 0, !.unit = "none"])
  /\ UNCHANGED <<dash, update, ops, call, hist, asked>>

Machine(h) ==
  \/ Install(h) \/ Fetch(h) \/ Launch(h) \/ Started(h) \/ Update(h)
  \/ Uninstall(h) \/ Complete(h) \/ Reboot(h)

Next ==
  \/ \E h \in Hosts : Register(h) \/ Machine(h) \/ Ask(h)
  \/ \E o \in ops : Write(o)
  \/ TriggerUpdate

Spec == Init /\ [][Next]_vars

-----------------------------------------------------------------------------
(* What must hold.                                                         *)

\* A trigger that outlived its gateway, because the machine was off or the row was
\* removed first, never uninstalls the gateway enrolled there later: a poller only
\* launches an uninstall that was asked since its host last began to register.
NoStaleUninstall == stale = {}
=============================================================================
