------------------------------ MODULE FleetRun ------------------------------
(***************************************************************************)
(* Fleet Run: a command is dispatched to several gateways by the dashboard *)
(* (main.py, db/fleet.py), reaches each poller inside its policy answer    *)
(* (eshu-poller.sh), runs there as a systemd unit of its own               *)
(* (fleet-runner.sh) and is reported back.  Handlers run in a thread pool; *)
(* every SQLite transaction and every step of a script is a step here.     *)
(***************************************************************************)
EXTENDS Integers, Sequences, FiniteSets

CONSTANTS
  Gateways,      \* gateway hosts
  Tabs,          \* dashboard sessions that dispatch, each one at a time
  MaxCommands,   \* bound: commands ever dispatched
  Events,        \* the operator's other actions and the faults that may occur
  Budget,        \* bound: how many of them occur
  NoCmd, NoResult, NoBody

Kinds == {"freeze", "edit", "clear", "delete", "lose", "late", "fail",
          "purge", "restart", "reboot", "down"}

VARIABLES
  commands,   \* table fleet_commands: commands[id], NoCmd once deleted
  results,    \* table fleet_results: results[g][id]
  frozen,     \* the fleet freeze trigger
  version,    \* policy_version: whatever else the policy answer carries
  disp,       \* disp[t]: where the dispatch of tab t is in its handler
  posts,      \* results on their way to, or in, submit_fleet_result
  pollPc,     \* pollPc[g]: where the poller of g is in its cycle
  body,       \* body[g]: the policy answer the poller is working on
  stamp,      \* stamp[g]: the policy answer last synced (its hash)
  last,       \* last[g]: /var/run/eshu.last_fleet_cmd
  freezeFile, \* freezeFile[g]: /etc/eshu-freeze holds "1"
  cmdFiles,   \* cmdFiles[g]: ids whose command file exists
  unit,       \* unit[g][id]: where the unit eshu-fleet-<id> of g is
  execs,      \* history: execs[g][id], how often g began to execute id
  dispatched, \* history: the pairs <<g, id>> ever approved
  settled,    \* history: pairs that ran, were refused or were skipped
  fuel        \* bound: what is left of Budget

tables   == <<commands, results, frozen, version>>
handlers == <<disp, posts>>
poller   == <<pollPc, body, stamp, last, freezeFile>>
runner   == <<cmdFiles, unit, execs>>
history  == <<dispatched, settled>>
vars == <<tables, handlers, poller, runner, history, fuel>>

Ids == 1..MaxCommands
Final == {"success", "failed", "timeout"}
TERMINAL_RESULT_STATUSES == Final \cup {"skipped"}
Statuses == TERMINAL_RESULT_STATUSES \cup {"queued", "running"}

Command == [status : {"pending", "approved", "complete"},
            targets : SUBSET Gateways]
Body == [freeze : BOOLEAN, cmd : 0..MaxCommands, version : Nat]
\* A result in submit_fleet_result: sent, checked to exist, stored (upserted),
\* or about to set the command complete.
Post == [g : Gateways, id : Ids, status : Statuses,
         stage : {"sent", "checked", "stored", "mark"}]
Handler == [stage : {"idle", "create", "approve", "write"}, targets : SUBSET Gateways,
            id : 0..MaxCommands]
PollPcs == {"fetch", "busy", "select", "sync", "launch", "persist", "stamp"}
UnitPcs == {"none", "ping", "pinged", "guard", "exec", "reported"} \cup Final

ASSUME ConstantsAssumption ==
  /\ MaxCommands \in Nat
  /\ Events \subseteq Kinds
  /\ Budget \in Nat
  /\ NoCmd \notin Command
  /\ NoResult \notin Statuses
  /\ NoBody \notin Body

TypeOK ==
  /\ commands \in Seq(Command \cup {NoCmd}) /\ Len(commands) <= MaxCommands
  /\ results \in [Gateways -> [Ids -> Statuses \cup {NoResult}]]
  /\ frozen \in BOOLEAN
  /\ version \in Nat
  /\ disp \in [Tabs -> Handler]
  /\ posts \subseteq Post
  /\ pollPc \in [Gateways -> PollPcs]
  /\ body \in [Gateways -> Body \cup {NoBody}]
  /\ stamp \in [Gateways -> Body \cup {NoBody}]
  /\ last \in [Gateways -> 0..MaxCommands]
  /\ freezeFile \in [Gateways -> BOOLEAN]
  /\ cmdFiles \in [Gateways -> SUBSET Ids]
  /\ unit \in [Gateways -> [Ids -> UnitPcs]]
  /\ execs \in [Gateways -> [Ids -> Nat]]
  /\ dispatched \subseteq (Gateways \X Ids)
  /\ settled \subseteq (Gateways \X Ids)
  /\ fuel \in Nat

NoDispatch == [stage |-> "idle", targets |-> {}, id |-> 0]

Init ==
  /\ commands = <<>>
  /\ results = [g \in Gateways |-> [id \in Ids |-> NoResult]]
  /\ frozen = FALSE
  /\ version = 0
  /\ disp = [t \in Tabs |-> NoDispatch]
  /\ posts = {}
  /\ pollPc = [g \in Gateways |-> "fetch"]
  /\ body = [g \in Gateways |-> NoBody]
  /\ stamp = [g \in Gateways |-> NoBody]
  /\ last = [g \in Gateways |-> 0]
  /\ freezeFile = [g \in Gateways |-> FALSE]
  /\ cmdFiles = [g \in Gateways |-> {}]
  /\ unit = [g \in Gateways |-> [id \in Ids |-> "none"]]
  /\ execs = [g \in Gateways |-> [id \in Ids |-> 0]]
  /\ dispatched = {}
  /\ settled = {}
  /\ fuel = Budget

Spend(kind) == kind \in Events /\ fuel > 0 /\ fuel' = fuel - 1

-----------------------------------------------------------------------------
(* Dispatch: submit_fleet_command.                                         *)

Existing == {id \in DOMAIN commands : commands[id] # NoCmd}
Approved == {id \in Existing : commands[id].status = "approved"}
Drop(id) ==
  /\ commands' = [commands EXCEPT ![id] = NoCmd]
  /\ results' = [g \in Gateways |-> [results[g] EXCEPT ![id] = NoResult]]

\* The fleet must not be frozen ...
SubmitCheck(t, targets) ==
  /\ disp[t].stage = "idle" /\ targets # {} /\ ~ frozen
  /\ Len(commands) < MaxCommands
  /\ disp' = [disp EXCEPT ![t] = [stage |-> "create", targets |-> targets, id |-> 0]]
  /\ UNCHANGED <<tables, posts, poller, runner, history, fuel>>

\* ... create_fleet_command ...
Create(t) ==
  /\ disp[t].stage = "create" /\ Len(commands) < MaxCommands
  /\ commands' = Append(commands, [status |-> "pending", targets |-> disp[t].targets])
  /\ disp' = [disp EXCEPT ![t].stage = "approve", ![t].id = Len(commands) + 1]
  /\ UNCHANGED <<results, frozen, version, posts, poller, runner, history, fuel>>

\* ... and approve_fleet_command: it reads the command ...
ApproveRead(t) ==
  /\ disp[t].stage = "approve"
  /\ disp' = IF disp[t].id \in Existing THEN [disp EXCEPT ![t].stage = "write"]
             ELSE [disp EXCEPT ![t] = NoDispatch]
  /\ UNCHANGED <<tables, posts, poller, runner, history, fuel>>

\* ... and queues it for every target, in one transaction.
Approve(t) ==
  LET id == disp[t].id
      targets == disp[t].targets IN
  /\ disp[t].stage = "write"
  /\ IF id \in Existing
     THEN /\ commands' = [commands EXCEPT ![id].status = "approved"]
          /\ dispatched' = dispatched \cup (targets \X {id})
     ELSE UNCHANGED <<commands, dispatched>>
  /\ results' = [g \in Gateways |-> IF g \in targets /\ results[g][id] = NoResult
                                    THEN [results[g] EXCEPT ![id] = "queued"]
                                    ELSE results[g]]
  /\ disp' = [disp EXCEPT ![t] = NoDispatch]
  /\ UNCHANGED <<frozen, version, settled, posts, poller, runner, fuel>>

SetFreeze(b) ==
  /\ frozen # b /\ Spend("freeze")
  /\ frozen' = b
  /\ UNCHANGED <<commands, results, version, handlers, poller, runner, history>>

\* Any other change of the policy answer: a commit, an override, a trigger.
Edit ==
  /\ Spend("edit")
  /\ version' = version + 1
  /\ UNCHANGED <<commands, results, frozen, handlers, poller, runner, history>>

\* clear_fleet_result: only a queued result, then upsert_fleet_result.
Clear(g, id) ==
  /\ results[g][id] = "queued" /\ Spend("clear")
  /\ posts' = posts \cup
       {[g |-> g, id |-> id, status |-> "skipped", stage |-> "checked"]}
  /\ UNCHANGED <<tables, disp, poller, runner, history>>

\* delete_fleet_command, whatever the command's status.
Delete(id) ==
  /\ Spend("delete") /\ Drop(id)
  /\ UNCHANGED <<frozen, version, handlers, poller, runner, history>>

\* purge_old_fleet_commands: complete ones only.
Purge(id) ==
  /\ commands[id].status = "complete" /\ Spend("purge") /\ Drop(id)
  /\ UNCHANGED <<frozen, version, handlers, poller, runner, history>>

\* The dashboard restarts: its handlers are gone.
Down ==
  /\ Spend("down")
  /\ disp' = [t \in Tabs |-> NoDispatch]
  /\ posts' = {}
  /\ UNCHANGED <<tables, poller, runner, history>>

-----------------------------------------------------------------------------
(* Results: submit_fleet_result and upsert_fleet_result.                   *)

Advance(p, stage) == posts' = (posts \ {p}) \cup {[p EXCEPT !.stage = stage]}
Answer(p) == posts' = posts \ {p}

\* No row of this command and gateway: 404.
ResultCheck(p) ==
  /\ p.stage = "sent"
  /\ IF results[p.g][p.id] = NoResult THEN Answer(p) ELSE Advance(p, "checked")
  /\ UNCHANGED <<tables, disp, poller, runner, history, fuel>>

\* INSERT ... ON CONFLICT DO UPDATE: the status it replaces is not read.
upsert_fleet_result(p) ==
  /\ p.stage = "checked"
  /\ results' = [results EXCEPT ![p.g][p.id] = p.status]
  /\ settled' = IF p.status = "skipped" THEN settled \cup {<<p.g, p.id>>}
                ELSE settled
  /\ Advance(p, "stored")
  /\ UNCHANGED <<commands, frozen, version, disp, poller, runner, dispatched, fuel>>

Stored(id) == {results[g][id] : g \in Gateways} \ {NoResult}

\* Bug: a result that is no longer queued is taken for a final one.
AllDoneStarted(id) == Stored(id) # {} /\ "queued" \notin Stored(id)

AllDone(id) == Stored(id) # {} /\ Stored(id) \subseteq TERMINAL_RESULT_STATUSES

\* mark_fleet_complete_if_done, its reads ...
MarkRead(p) ==
  /\ p.stage = "stored"
  /\ IF p.id \in Approved /\ AllDone(p.id) THEN Advance(p, "mark") ELSE Answer(p)
  /\ UNCHANGED <<tables, disp, poller, runner, history, fuel>>

\* ... and set_fleet_status.
set_fleet_status(p) ==
  /\ p.stage = "mark"
  /\ commands' = [commands EXCEPT ![p.id] =
                    IF @ = NoCmd THEN NoCmd ELSE [@ EXCEPT !.status = "complete"]]
  /\ Answer(p)
  /\ UNCHANGED <<results, frozen, version, disp, poller, runner, history, fuel>>

\* A result that never reaches the dashboard.
Lose(p) ==
  /\ p.stage = "sent" /\ Spend("lose")
  /\ Answer(p)
  /\ UNCHANGED <<tables, disp, poller, runner, history>>

-----------------------------------------------------------------------------
(* The poller of a gateway, and the policy answer it asks for.             *)

At(g, from, to) == pollPc[g] = from /\ pollPc' = [pollPc EXCEPT ![g] = to]
Forget(g) == body' = [body EXCEPT ![g] = NoBody]

\* fetch_policy: the freeze trigger and the policies ...
ReadFreeze(g) ==
  /\ At(g, "fetch", "busy")
  /\ body' = [body EXCEPT ![g] = [freeze |-> frozen, cmd |-> 0, version |-> version]]
  /\ UNCHANGED <<tables, handlers, stamp, last, freezeFile, runner, history, fuel>>

\* ... get_injectable_fleet_cmd: nothing while a command runs there ...
ReadBusy(g) ==
  /\ At(g, "busy", IF \E id \in Approved : results[g][id] = "running"
                   THEN "sync" ELSE "select")
  /\ UNCHANGED <<tables, handlers, body, stamp, last, freezeFile, runner,
                 history, fuel>>

\* Bugs: commands of other gateways too; no order.
CandidatesAnyTarget(g) ==
  {id \in Approved : results[g][id] \notin TERMINAL_RESULT_STATUSES}
EarliestAny(ids) == ids

\* The approved commands of g without a final result.
Candidates(g) ==
  {id \in Approved : /\ g \in commands[id].targets
                     /\ results[g][id] \notin TERMINAL_RESULT_STATUSES}

Earliest(ids) == {id \in ids : \A other \in ids : id <= other}

\* ... and then the earliest.
ReadNext(g) ==
  LET next == Earliest(Candidates(g)) IN
  /\ At(g, "select", "sync")
  /\ \/ next = {} /\ UNCHANGED body
     \/ \E id \in next : body' = [body EXCEPT ![g].cmd = id]
  /\ UNCHANGED <<tables, handlers, stamp, last, freezeFile, runner, history, fuel>>

\* Bug: an answer that differs in its command alone is taken for the old one.
SyncedPolicy(g) ==
  /\ stamp[g] # NoBody
  /\ body[g].freeze = stamp[g].freeze /\ body[g].version = stamp[g].version

policy_stamp_matches(g) == body[g] = stamp[g]

\* The answer is lost, is the one synced last, or is synced: the freeze file
\* first, then a command that is not the one launched last.
Sync(g) ==
  /\ \/ /\ At(g, "sync", "fetch") /\ Forget(g)
        /\ \/ policy_stamp_matches(g) /\ UNCHANGED fuel
           \/ Spend("lose")
        /\ UNCHANGED freezeFile
     \/ /\ At(g, "sync", IF body[g].cmd \notin {0, last[g]} THEN "launch" ELSE "stamp")
        /\ ~ policy_stamp_matches(g) /\ UNCHANGED body
        /\ freezeFile' = [freezeFile EXCEPT ![g] = body[g].freeze]
        /\ UNCHANGED fuel
  /\ UNCHANGED <<tables, handlers, stamp, last, runner, history>>

\* The runner is fetched, or cannot be; the command file is written and the unit
\* started.  systemd refuses a second unit of the same name, and the poller then
\* removes the command file.
Launch(g) ==
  LET id == body[g].cmd IN
  /\ pollPc[g] = "launch"
  /\ \/ /\ unit[g][id] = "none"
        /\ At(g, "launch", "persist")
        /\ unit' = [unit EXCEPT ![g][id] = "ping"]
        /\ cmdFiles' = [cmdFiles EXCEPT ![g] = @ \cup {id}]
        /\ UNCHANGED fuel
     \/ /\ \/ unit[g][id] # "none" /\ UNCHANGED fuel
           \/ Spend("fail")
        /\ At(g, "launch", "stamp")
        /\ cmdFiles' = [cmdFiles EXCEPT ![g] = @ \ {id}]
        /\ UNCHANGED unit
     \/ /\ At(g, "launch", "stamp") /\ Spend("fail")
        /\ UNCHANGED <<cmdFiles, unit>>
  /\ UNCHANGED <<tables, handlers, body, stamp, last, freezeFile, execs, history>>

\* The id is persisted after the launch ...
Persist(g) ==
  /\ At(g, "persist", "stamp")
  /\ last' = [last EXCEPT ![g] = body[g].cmd]
  /\ UNCHANGED <<tables, handlers, body, stamp, freezeFile, runner, history, fuel>>

\* ... and the answer is remembered at the end, a failed launch or not.
Stamp(g) ==
  /\ At(g, "stamp", "fetch")
  /\ stamp' = [stamp EXCEPT ![g] = body[g]]
  /\ Forget(g)
  /\ UNCHANGED <<tables, handlers, last, freezeFile, runner, history, fuel>>

\* The poller is restarted; units go on.
PollerRestart(g) ==
  /\ Spend("restart")
  /\ pollPc' = [pollPc EXCEPT ![g] = "fetch"]
  /\ Forget(g)
  /\ UNCHANGED <<tables, handlers, stamp, last, freezeFile, runner, history>>

\* The host reboots: /run is empty, /etc is kept.
Reboot(g) ==
  /\ Spend("reboot")
  /\ pollPc' = [pollPc EXCEPT ![g] = "fetch"]
  /\ Forget(g)
  /\ stamp' = [stamp EXCEPT ![g] = NoBody]
  /\ last' = [last EXCEPT ![g] = 0]
  /\ cmdFiles' = [cmdFiles EXCEPT ![g] = {}]
  /\ unit' = [unit EXCEPT ![g] = [id \in Ids |-> "none"]]
  /\ UNCHANGED <<tables, handlers, freezeFile, execs, history>>

-----------------------------------------------------------------------------
(* The unit eshu-fleet-<id> of a gateway: fleet-runner.sh.                 *)

Go(g, id, from, to) ==
  unit[g][id] = from /\ unit' = [unit EXCEPT ![g][id] = to]
Send(g, id, status) ==
  posts' = posts \cup {[g |-> g, id |-> id, status |-> status, stage |-> "sent"]}
Settle(g, id) == settled' = settled \cup {<<g, id>>}

\* curl has its answer, or gives up before the handler has finished.
Answered(g, id, statuses) ==
  \/ /\ \A p \in posts : ~ (p.g = g /\ p.id = id /\ p.status \in statuses)
     /\ UNCHANGED fuel
  \/ Spend("late")

\* It reports "running" ...
Ping(g, id) ==
  /\ Go(g, id, "ping", "pinged")
  /\ Send(g, id, "running")
  /\ UNCHANGED <<tables, disp, poller, cmdFiles, execs, history, fuel>>

Pinged(g, id) ==
  /\ Go(g, id, "pinged", "guard")
  /\ Answered(g, id, {"running"})
  /\ UNCHANGED <<tables, handlers, poller, cmdFiles, execs, history>>

\* ... runs nothing on a frozen host or without its command file ...
Guard(g, id) ==
  /\ \/ /\ freezeFile[g] \/ id \notin cmdFiles[g]
        /\ Go(g, id, "guard", "failed") /\ Settle(g, id)
        /\ UNCHANGED execs
     \/ /\ ~ freezeFile[g] /\ id \in cmdFiles[g]
        /\ Go(g, id, "guard", "exec")
        /\ execs' = [execs EXCEPT ![g][id] = @ + 1]
        /\ UNCHANGED settled
  /\ UNCHANGED <<tables, handlers, poller, cmdFiles, dispatched, fuel>>

\* ... runs the command under a timeout ...
Exec(g, id) ==
  /\ \E status \in Final : Go(g, id, "exec", status)
  /\ Settle(g, id)
  /\ UNCHANGED <<tables, handlers, poller, cmdFiles, execs, dispatched, fuel>>

\* ... reports how it ended, and removes its files.
Report(g, id) ==
  /\ \E status \in Final : Go(g, id, status, "reported") /\ Send(g, id, status)
  /\ UNCHANGED <<tables, disp, poller, cmdFiles, execs, history, fuel>>

Reported(g, id) ==
  /\ Go(g, id, "reported", "none")
  /\ Answered(g, id, Final)
  /\ cmdFiles' = [cmdFiles EXCEPT ![g] = @ \ {id}]
  /\ UNCHANGED <<tables, handlers, poller, execs, history>>

-----------------------------------------------------------------------------
Submit(t) == (\E targets \in SUBSET Gateways : SubmitCheck(t, targets))
             \/ Create(t) \/ ApproveRead(t) \/ Approve(t)

Handle(g) ==
  \E p \in posts : p.g = g /\ \/ ResultCheck(p) \/ upsert_fleet_result(p)
                              \/ MarkRead(p) \/ set_fleet_status(p)

Poller(g) ==
  \/ ReadFreeze(g) \/ ReadBusy(g) \/ ReadNext(g) \/ Sync(g)
  \/ Launch(g) \/ Persist(g) \/ Stamp(g)

Unit(g, id) ==
  \/ Ping(g, id) \/ Pinged(g, id) \/ Guard(g, id)
  \/ Exec(g, id) \/ Report(g, id) \/ Reported(g, id)

Operator ==
  \/ \E b \in BOOLEAN : SetFreeze(b)
  \/ Edit
  \/ \E id \in Existing : Delete(id) \/ Purge(id)
  \/ \E g \in Gateways, id \in Ids : Clear(g, id)

Next ==
  \/ \E t \in Tabs : Submit(t)
  \/ Operator
  \/ Down
  \/ \E p \in posts : Lose(p)
  \/ \E g \in Gateways : \/ Handle(g) \/ Poller(g) \/ PollerRestart(g) \/ Reboot(g)
                         \/ \E id \in Ids : Unit(g, id)

Spec == Init /\ [][Next]_vars

\* Handlers finish, pollers poll and units run; the operator may dispatch or not.
FairSpec ==
  /\ Spec
  /\ \A t \in Tabs : WF_vars(Create(t) \/ ApproveRead(t) \/ Approve(t))
  /\ \A g \in Gateways :
       /\ WF_vars(Handle(g))
       /\ WF_vars(Poller(g))
       /\ \A id \in Ids : WF_vars(Unit(g, id))

-----------------------------------------------------------------------------
(* What must hold.                                                         *)

\* A command is complete only when every gateway it was sent to has run it,
\* has refused it (frozen, no command file) or had it skipped: the reads and
\* the write of mark_fleet_complete_if_done race with results of other
\* gateways, late ones, clears and deletes.
CompleteIsSettled ==
  \A id \in Existing :
    commands[id].status = "complete" =>
      \A g \in commands[id].targets : <<g, id>> \in settled

\* Nothing but a command dispatched to a gateway ever runs there: not one of
\* another gateway, not one whose dispatch was cut off between its insertion and
\* its approval, whatever answers, restarts and late results do.
OnlyDispatchedRuns ==
  \A g \in Gateways, id \in Ids : execs[g][id] > 0 => <<g, id>> \in dispatched

\* What the parts hold between two steps.
PollerHolds ==
  \A g \in Gateways :
    /\ pollPc[g] # "fetch" => body[g] # NoBody
    /\ pollPc[g] \in {"launch", "persist"} => body[g].cmd # 0
    /\ (body[g] # NoBody /\ body[g].cmd # 0) => <<g, body[g].cmd>> \in dispatched

UnitHolds ==
  \A g \in Gateways, id \in Ids :
    /\ unit[g][id] # "none" => <<g, id>> \in dispatched
    /\ unit[g][id] \in Final \cup {"reported"} => <<g, id>> \in settled

TablesHold ==
  /\ \A id \in Existing : commands[id].status # "pending" =>
       \A g \in commands[id].targets :
         results[g][id] # NoResult /\ <<g, id>> \in dispatched
  /\ \A g \in Gateways, id \in Ids :
       /\ results[g][id] \in TERMINAL_RESULT_STATUSES => <<g, id>> \in settled
       /\ results[g][id] # NoResult => id \in DOMAIN commands
  /\ \A p \in dispatched : p[2] \in DOMAIN commands

HandlersHold ==
  /\ \A t \in Tabs : disp[t].stage \in {"approve", "write"} =>
       /\ disp[t].id \in DOMAIN commands
       /\ disp[t].id \in Existing => commands[disp[t].id].targets = disp[t].targets
  /\ \A p \in posts :
       /\ p.id \in DOMAIN commands
       /\ p.status \in Final => <<p.g, p.id>> \in settled
       /\ (p.stage = "mark" /\ p.id \in Existing) =>
            /\ commands[p.id].status # "pending"
            /\ \A g \in commands[p.id].targets : <<g, p.id>> \in settled

\* The inductive invariant: the tables, the answers and results on their way
\* and the units agree on what was dispatched and what is over.
IInv ==
  /\ TypeOK
  /\ TablesHold
  /\ HandlersHold
  /\ PollerHolds
  /\ UnitHolds
  /\ OnlyDispatchedRuns
  /\ CompleteIsSettled

\* The abstract promise: one at a time, in dispatch order, none twice, none
\* undispatched (CHANGELOG.md "Commands execute one at a time per gateway in
\* dispatch order"), in the operation that CalmOperation describes below.
Queue == INSTANCE FleetQueue WITH
  started <- {p \in Gateways \X Ids : execs[p[1]][p[2]] > 0},
  running <- {p \in Gateways \X Ids : unit[p[1]][p[2]] = "exec"}

ImplementsQueue == Queue!Spec

\* Every dispatched command completes as long as nothing goes wrong, however
\* many are queued for a gateway: a finished command leaves the queue and
\* changes the policy answer, so that the next one is seen.
DispatchedCompletes ==
  \A id \in Ids :
    (id \in Approved) ~> (id \notin Approved \/ fuel < Budget)

-----------------------------------------------------------------------------
(* When commands run one at a time and in order.                           *)

\* One tab dispatches; nothing is skipped or deleted, no answer of curl is late and
\* no poller restarts on its own; a gateway that may reboot loses no result, or
\* only one thing goes wrong at all.
CalmOperation ==
  /\ \A t, u \in Tabs : t = u
  /\ Events \cap {"clear", "delete", "late", "restart"} = {}
  /\ "reboot" \in Events => Events \cap {"lose", "down"} = {} \/ Budget <= 1

Rebootable == "reboot" \in Events /\ fuel > 0

\* A poller is no longer offered the command.
Closed(g, id) ==
  id \notin Approved \/ results[g][id] \in TERMINAL_RESULT_STATUSES

\* A report of the unit is still to be stored.
Reporting(g, id, statuses) ==
  \E p \in posts : /\ p.g = g /\ p.id = id /\ p.status \in statuses
                   /\ p.stage \in {"sent", "checked"}

\* A run of the command has begun, or is about to be reported as over.
Ran(g, id) == execs[g][id] > 0 \/ Reporting(g, id, Final)

\* Ids are dispatched in their order, each one once.
DispatchInOrder ==
  /\ \A t \in Tabs : disp[t].stage \in {"approve", "write"} =>
       /\ disp[t].id \in Existing /\ commands[disp[t].id].status = "pending"
       /\ \A p \in dispatched : p[2] < disp[t].id
  /\ \A g \in Gateways, id \in Existing : <<g, id>> \in dispatched =>
       commands[id].status # "pending" /\ g \in commands[id].targets

\* A result in the handler comes from a unit and tells nothing older than the
\* table; a command is about to be complete only when every result is final.
ReportsInOrder ==
  /\ \A p \in posts :
       /\ p.status \in Final \cup {"running"} /\ <<p.g, p.id>> \in dispatched
       /\ (p.stage = "mark" /\ p.id \in Approved) =>
            \A g \in commands[p.id].targets : results[g][p.id] \in TERMINAL_RESULT_STATUSES
  /\ \A g \in Gateways, id \in Ids : Reporting(g, id, {"running"}) =>
       /\ results[g][id] \notin TERMINAL_RESULT_STATUSES
       /\ ~ Reporting(g, id, Final)
       /\ unit[g][id] \in {"none", "ping", "pinged"}

\* Until a unit has reported how it ended its command stays open, and before it
\* executes it never did.
OpenWhileBusy ==
  \A g \in Gateways, id \in Ids :
    /\ unit[g][id] \notin {"none", "reported"} =>
         ~ Closed(g, id) /\ ~ Reporting(g, id, Final)
    /\ unit[g][id] \in {"ping", "pinged", "guard"} => execs[g][id] = 0

\* The poller knows that it launched the command.
Known(g, id) == last[g] = id \/ (pollPc[g] = "persist" /\ body[g].cmd = id)

\* A command that was launched is known to the poller, or closed, or running in the
\* table; as long as the host may reboot, not just the first of these.
Remembered ==
  \A g \in Gateways, id \in Ids :
    /\ unit[g][id] # "none" => Known(g, id) \/ Closed(g, id)
    /\ Ran(g, id) => Known(g, id) \/ Closed(g, id) \/ results[g][id] = "running"
    /\ Rebootable => /\ Ran(g, id) => Closed(g, id) \/ results[g][id] = "running"
                     /\ unit[g][id] \notin {"none", "ping"} =>
                          \/ Closed(g, id) \/ results[g][id] = "running"
                          \/ Reporting(g, id, {"running"})

\* The command was offered to the poller of its gateway, or more.
Offered(g, id) ==
  \/ last[g] = id \/ unit[g][id] # "none" \/ Ran(g, id)
  \/ pollPc[g] # "fetch" /\ body[g].cmd = id

\* When a command is offered the earlier ones of its gateway are closed, for good;
\* what the poller is about to launch is open and never ran.
InOrder(g) ==
  /\ pollPc[g] \in {"busy", "select"} => body[g].cmd = 0
  /\ pollPc[g] = "launch" => body[g].cmd # last[g]
  /\ \A id \in Ids :
       /\ Offered(g, id) =>
            /\ <<g, id>> \in dispatched
            /\ \A other \in Ids :
                 (other < id /\ <<g, other>> \in dispatched) => Closed(g, other)
       /\ (pollPc[g] = "select" /\ Ran(g, id)) => last[g] = id \/ Closed(g, id)
       /\ (pollPc[g] \in {"sync", "launch"} /\ body[g].cmd = id /\ last[g] # id) =>
            ~ Closed(g, id) /\ ~ Ran(g, id)
       /\ (pollPc[g] = "persist" /\ body[g].cmd # id
           /\ (unit[g][id] # "none" \/ Ran(g, id))) => Closed(g, id)

LaunchInOrder == \A g \in Gateways : InOrder(g)

\* What one at a time and in order rest on.
CalmInv ==
  /\ fuel <= Budget
  /\ DispatchInOrder
  /\ ReportsInOrder
  /\ OpenWhileBusy
  /\ Remembered
  /\ LaunchInOrder

QueueInv == IInv /\ (CalmOperation => CalmInv)

-----------------------------------------------------------------------------
(* What the comments say, and the code does not do.                        *)

\* "launch failed - will retry" (eshu-poller.sh): a command waiting on a
\* gateway is launched, or cleared, in the end.
LaunchRetried ==
  \A g \in Gateways, id \in Ids :
    (results[g][id] = "queued") ~> (results[g][id] # "queued")
=============================================================================
