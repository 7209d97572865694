---------------------------- MODULE JitLifecycle ----------------------------
(***************************************************************************)
(* One JIT request from the SSH command that needs it to the command's     *)
(* execution: the requests table of the dashboard (db/requests.py and its  *)
(* handlers in main.py), the poller that carries approved tickets to the   *)
(* lockbox file of its gateway (eshu-poller.sh), and the gateway script    *)
(* that claims a ticket from the lockbox or from the dashboard             *)
(* (eshu-gateway.sh from stage 5 on).  Handlers run in a thread pool and   *)
(* every SQLite statement or file rename is a step of its own.             *)
(***************************************************************************)
EXTENDS Integers, Sequences, FiniteSets

CONSTANTS
  Gateways,         \* gateway hosts, named by their IP
  Commands,         \* command texts
  Invocations,      \* SSH sessions that reach stage 5 of the gateway script
  GwOf, CmdOf,      \* the host and the command of each invocation
  Decoded,          \* text decode_cmd stores for a command (utf-8 or not)
  Field2,           \* text of a command up to its first "|": awk's $2
  BlockedPayloads,  \* texts whose decoded payload is on a blocklist
  TTL,              \* life of a request row
  Grace,            \* extra time update_ticket_consumed_by_ip allows
  Live,             \* age up to which a lockbox line can be claimed
  Wait,             \* JIT_WAIT_SECONDS
  MaxTime,          \* bound: the clock stops here
  Events,           \* the operator's actions and the faults that may occur
  Budget,           \* bound: how many of them occur
  NoFile, NoRow, NoTicket

Kinds == {"approve", "deny", "purge", "freeze", "override", "log",
          "lose", "restart", "kill"}

ASSUME ConstantsAssumption ==
  /\ GwOf \in [Invocations -> Gateways]
  /\ CmdOf \in [Invocations -> Commands]
  /\ Decoded \in [Commands -> Commands]
  /\ Field2 \in [Commands -> Commands]
  /\ BlockedPayloads \subseteq Commands
  /\ TTL \in Nat /\ Grace \in Nat /\ Live \in Nat /\ Wait \in Nat
  /\ MaxTime \in Nat
  /\ Events \subseteq Kinds
  /\ Budget \in Nat
  /\ NoTicket \notin [req : Nat, ts : Nat, cmd : Commands, at : Nat]

VARIABLES
  now,         \* the clock of dashboard and gateways
  requests,    \* the requests table: requests[id], NoRow once deleted
  frozen,      \* the fleet freeze trigger
  override,    \* override[g]: an override auto-approves requests of g
  freezeFile,  \* freezeFile[g]: /etc/eshu-freeze of g holds "1"
  lockbox,     \* lockbox[g]: /var/run/eshu.tickets of g, or NoFile
  tmpFile,     \* tmpFile[g]: /var/run/eshu.tickets.tmp of g, or NoFile
  lineNo,      \* number of lines ever appended to a lockbox
  pollPc,      \* pollPc[g]: where the poller of g is in its cycle
  carry,       \* carry[g]: the ticket the poll of g selected, or NoTicket
  pc,          \* pc[i]: where invocation i is in the gateway script
  reqOf,       \* reqOf[i]: REQUEST_ID of i, 0 before the POST
  deadline,    \* deadline[i]: when i stops waiting
  auto,        \* auto[i]: the handler of i's POST saw a usable override
  snap,        \* snap[i]: the lines claim_lockbox_ticket keeps
  hit,         \* hit[i]: claim_lockbox_ticket found i's line
  held,        \* held[i]: the ticket /api/ticket selected for i
  granted,     \* history: the grants ever made
  reopened,    \* history: requests approved after they had been settled
  fuel         \* bound: what is left of Budget

history  == <<granted, reopened>>
dashVars == <<requests, frozen, override, history>>
fileVars == <<freezeFile, lockbox, tmpFile, lineNo>>
pollVars == <<pollPc, carry>>
invVars  == <<pc, reqOf, deadline, auto, snap, hit, held>>
vars == <<now, dashVars, fileVars, pollVars, invVars, fuel>>

-----------------------------------------------------------------------------
Status == {"pending", "approved", "denied", "consumed", "expired",
           "abandoned", "blocked", "logged"}
Row == [gw : Gateways, cmd : Commands, status : Status,
        created : Nat, expires : Nat]
\* "<created_at>|<command>"; req and no name the row and the position in the
\* file, which the program does not store; at is the handler's now.
Ticket == [req : Nat, ts : Nat, cmd : Commands, at : Nat]
Line   == [no : Nat, req : Nat, ts : Nat, cmd : Commands]
Grant  == [req : Nat, gw : Gateways, cmd : Commands, ts : Nat]
File   == (SUBSET Line) \cup {NoFile}

PollPcs == {"clean", "move", "policy", "poll", "consume", "deposit", "boot"}
InvPcs == {"start", "claim", "claimMv", "post", "insert", "wait", "ticket",
           "consume", "reclaim", "reclaimMv", "strip", "stripMv",
           "ran", "ended"}

TypeOK ==
  /\ now \in Nat
  /\ requests \in Seq(Row \cup {NoRow})
  /\ frozen \in BOOLEAN
  /\ override \in [Gateways -> BOOLEAN]
  /\ freezeFile \in [Gateways -> BOOLEAN]
  /\ lockbox \in [Gateways -> File]
  /\ tmpFile \in [Gateways -> File]
  /\ lineNo \in Nat
  /\ pollPc \in [Gateways -> PollPcs]
  /\ carry \in [Gateways -> Ticket \cup {NoTicket}]
  /\ pc \in [Invocations -> InvPcs]
  /\ reqOf \in [Invocations -> Nat]
  /\ deadline \in [Invocations -> Nat]
  /\ auto \in [Invocations -> BOOLEAN]
  /\ snap \in [Invocations -> SUBSET Line]
  /\ hit \in [Invocations -> BOOLEAN]
  /\ held \in [Invocations -> Ticket \cup {NoTicket}]
  /\ granted \in SUBSET Grant
  /\ reopened \in SUBSET Nat
  /\ fuel \in Nat

Init ==
  /\ now = 0
  /\ requests = <<>>
  /\ frozen = FALSE
  /\ override = [g \in Gateways |-> FALSE]
  /\ freezeFile = [g \in Gateways |-> FALSE]
  /\ lockbox = [g \in Gateways |-> NoFile]
  /\ tmpFile = [g \in Gateways |-> NoFile]
  /\ lineNo = 0
  /\ pollPc = [g \in Gateways |-> "clean"]
  /\ carry = [g \in Gateways |-> NoTicket]
  /\ pc = [i \in Invocations |-> "start"]
  /\ reqOf = [i \in Invocations |-> 0]
  /\ deadline = [i \in Invocations |-> 0]
  /\ auto = [i \in Invocations |-> FALSE]
  /\ snap = [i \in Invocations |-> {}]
  /\ hit = [i \in Invocations |-> FALSE]
  /\ held = [i \in Invocations |-> NoTicket]
  /\ granted = {}
  /\ reopened = {}
  /\ fuel = Budget

-----------------------------------------------------------------------------
(* The requests table.                                                     *)

Spend(kind) == kind \in Events /\ fuel > 0 /\ fuel' = fuel - 1

Rows == {r \in DOMAIN requests : requests[r] # NoRow}

GrantOf(r) == [req |-> r, gw |-> requests[r].gw, cmd |-> requests[r].cmd,
               ts |-> requests[r].created]
TicketOf(r) == [req |-> r, ts |-> requests[r].created,
                cmd |-> requests[r].cmd, at |-> now]

\* INSERT with AUTOINCREMENT: the next id is never an id used before.
create_request(g, c, status, ttl) ==
  requests' = Append(requests, [gw |-> g, cmd |-> c, status |-> status,
                                created |-> now, expires |-> now + ttl])

\* UPDATE ... WHERE id: no row, no effect; the status it replaces is not read.
update_request_status(r, status) ==
  requests' = [requests EXCEPT ![r] =
                 IF @ = NoRow THEN NoRow ELSE [@ EXCEPT !.status = status]]

\* Bug: the UPDATE is never committed.
consumeUncommitted(r, time) == requests' = requests

\* UPDATE ... SET status = 'consumed', expires_at = ? WHERE id.
consume(r, time) ==
  requests' = [requests EXCEPT ![r] =
                 IF @ = NoRow THEN NoRow
                 ELSE [@ EXCEPT !.status = "consumed", !.expires = time]]

\* Bugs: the WHERE clause without its status, and without its target_ip.
ClaimableAnyStatus(g) ==
  {r \in Rows : requests[r].gw = g /\ requests[r].expires > now - Grace}
ClaimableAnyHost(g) ==
  {r \in Rows : /\ requests[r].status = "approved"
                /\ requests[r].expires > now - Grace}

\* The rows the poll may hand out (no ORDER BY: any of them).
Claimable(g) ==
  {r \in Rows : /\ requests[r].gw = g
                /\ requests[r].status = "approved"
                /\ requests[r].expires > now - Grace}

\* Bug: the sweep forgets its second terminal state.
SweptPending(row) ==
  IF row # NoRow /\ row.status = "pending" /\ row.expires < now
  THEN [row EXCEPT !.status = "expired"] ELSE row

\* What one pass of the sweep makes of a row.
Swept(row) ==
  CASE row = NoRow -> NoRow
    [] row # NoRow /\ row.status = "pending" /\ row.expires < now ->
         [row EXCEPT !.status = "expired"]
    [] row # NoRow /\ row.status = "approved" /\ row.expires < now - Grace ->
         [row EXCEPT !.status = "abandoned"]
    [] OTHER -> row

expire_stale_requests ==
  /\ \E r \in Rows : Swept(requests[r]) # requests[r]
  /\ requests' = [r \in DOMAIN requests |-> Swept(requests[r])]
  /\ UNCHANGED <<now, frozen, override, history, fileVars, pollVars, invVars,
                 fuel>>

\* approve_request: whatever the row's status is.
Approve(r) ==
  /\ Spend("approve")
  /\ update_request_status(r, "approved")
  /\ granted' = granted \cup {GrantOf(r)}
  /\ reopened' = IF requests[r].status \in {"pending", "approved"} THEN reopened
                 ELSE reopened \cup {r}
  /\ UNCHANGED <<now, frozen, override, fileVars, pollVars, invVars>>

Deny(r) ==
  /\ Spend("deny")
  /\ update_request_status(r, "denied")
  /\ UNCHANGED <<now, frozen, override, history, fileVars, pollVars, invVars>>

\* A bug: without AUTOINCREMENT the ids after the last row are given out again.
PurgeReused(before) ==
  LET kept == {r \in Rows : requests[r].created >= before} IN
  /\ Spend("purge")
  /\ requests' = [r \in {n \in DOMAIN requests : \E k \in kept : n <= k} |->
                    IF r \in kept THEN requests[r] ELSE NoRow]
  /\ UNCHANGED <<now, frozen, override, history, fileVars, pollVars, invVars>>

\* purge_requests: delete every row created before a time.
Purge(before) ==
  /\ Spend("purge")
  /\ requests' = [r \in DOMAIN requests |->
                    IF requests[r] # NoRow /\ requests[r].created < before
                    THEN NoRow ELSE requests[r]]
  /\ UNCHANGED <<now, frozen, override, history, fileVars, pollVars, invVars>>

\* Bug: receive_log stores any status it is given, "approved" included.
LogRowApproved(g, c) ==
  /\ Spend("log")
  /\ create_request(g, Decoded[c], "approved", TTL)
  /\ UNCHANGED <<now, frozen, override, history, fileVars, pollVars, invVars>>

\* receive_log: the outcomes a gateway reports are rows too, never approved.
LogRow(g, c) ==
  /\ Spend("log")
  /\ create_request(g, Decoded[c], "logged", 0)
  /\ UNCHANGED <<now, frozen, override, history, fileVars, pollVars, invVars>>

SetFreeze(b) ==
  /\ frozen # b /\ Spend("freeze")
  /\ frozen' = b
  /\ UNCHANGED <<now, requests, override, history, fileVars, pollVars, invVars>>

SetOverride(g, b) ==
  /\ override[g] # b /\ Spend("override")
  /\ override' = [override EXCEPT ![g] = b]
  /\ UNCHANGED <<now, requests, frozen, history, fileVars, pollVars, invVars>>

Tick ==
  /\ now < MaxTime
  /\ now' = now + 1
  /\ UNCHANGED <<dashVars, fileVars, pollVars, invVars, fuel>>

-----------------------------------------------------------------------------
(* The poller of a gateway: one cycle of eshu-poller.sh.                   *)

At(g, from, to) == pollPc[g] = from /\ pollPc' = [pollPc EXCEPT ![g] = to]

\* awk copies the lines that are not yet too old to the temporary file.
CleanLockbox(g) ==
  /\ lockbox[g] \notin {NoFile, {}}
  /\ At(g, "clean", "move")
  /\ tmpFile' = [tmpFile EXCEPT ![g] = {l \in lockbox[g] : l.ts + Live >= now}]
  /\ UNCHANGED <<now, dashVars, freezeFile, lockbox, lineNo, carry, invVars, fuel>>

NothingToClean(g) ==
  /\ lockbox[g] \in {NoFile, {}}
  /\ At(g, "clean", "policy")
  /\ UNCHANGED <<now, dashVars, fileVars, carry, invVars, fuel>>

\* mv of the temporary file over the lockbox.
MoveTmp(g) ==
  /\ tmpFile[g] # NoFile
  /\ lockbox' = [lockbox EXCEPT ![g] = tmpFile[g]]
  /\ tmpFile' = [tmpFile EXCEPT ![g] = NoFile]

\* A failed mv (the gateway moved the same file first) is ignored here.
MoveClean(g) ==
  /\ At(g, "move", "policy")
  /\ \/ MoveTmp(g)
     \/ tmpFile[g] = NoFile /\ UNCHANGED <<lockbox, tmpFile>>
  /\ UNCHANGED <<now, dashVars, freezeFile, lineNo, carry, invVars, fuel>>

SyncPolicy(g) ==
  /\ At(g, "policy", "poll")
  /\ \/ freezeFile' = [freezeFile EXCEPT ![g] = frozen] /\ UNCHANGED fuel
     \/ Spend("lose") /\ UNCHANGED freezeFile
  /\ UNCHANGED <<now, dashVars, lockbox, tmpFile, lineNo, carry, invVars>>

\* update_ticket_consumed_by_ip, its SELECT.
PollSelect(g) ==
  \/ \E r \in Claimable(g) :
       /\ At(g, "poll", "consume")
       /\ carry' = [carry EXCEPT ![g] = TicketOf(r)]
       /\ UNCHANGED <<now, dashVars, fileVars, invVars, fuel>>
  \/ /\ Claimable(g) = {}
     /\ At(g, "poll", "clean")
     /\ UNCHANGED <<now, dashVars, fileVars, carry, invVars, fuel>>

\* update_ticket_consumed_by_ip, its UPDATE.
PollConsume(g) ==
  /\ At(g, "consume", "deposit")
  /\ consume(carry[g].req, carry[g].at)
  /\ UNCHANGED <<now, frozen, override, history, fileVars, carry, invVars, fuel>>

\* The answer arrives and its ticket is appended to the lockbox, or is lost.
PollDeposit(g) ==
  /\ At(g, "deposit", "clean")
  /\ carry' = [carry EXCEPT ![g] = NoTicket]
  /\ \/ LET t == carry[g]
            line == [no |-> lineNo, req |-> t.req, ts |-> t.ts, cmd |-> t.cmd]
        IN  /\ lockbox' = [lockbox EXCEPT ![g] =
                             IF @ = NoFile THEN {line} ELSE @ \cup {line}]
            /\ lineNo' = lineNo + 1
            /\ UNCHANGED fuel
     \/ Spend("lose") /\ UNCHANGED <<lockbox, lineNo>>
  /\ UNCHANGED <<now, dashVars, freezeFile, tmpFile, invVars>>

\* The service is restarted at any point of its cycle (a poll that the dashboard
\* has begun to answer is finished there, and only its answer is lost) ...
PollerRestart(g) ==
  /\ pollPc[g] \notin {"consume", "boot"} /\ Spend("restart")
  /\ pollPc' = [pollPc EXCEPT ![g] = "boot"]
  /\ carry' = [carry EXCEPT ![g] = NoTicket]
  /\ UNCHANGED <<now, dashVars, fileVars, invVars>>

\* ... and removes the lockbox before its loop.
PollerBoot(g) ==
  /\ At(g, "boot", "clean")
  /\ lockbox' = [lockbox EXCEPT ![g] = NoFile]
  /\ UNCHANGED <<now, dashVars, freezeFile, tmpFile, lineNo, carry, invVars, fuel>>

-----------------------------------------------------------------------------
(* An invocation of the gateway script, from stage 5 on.                   *)

Go(i, from, to) == pc[i] = from /\ pc' = [pc EXCEPT ![i] = to]

\* Stage 0; the stages between neither run the command nor refuse it.
Start(i) ==
  /\ Go(i, "start", IF freezeFile[GwOf[i]] THEN "ended" ELSE "claim")
  /\ UNCHANGED <<now, dashVars, fileVars, pollVars, reqOf, deadline, auto,
                 snap, hit, held, fuel>>

LiveLines(g) == {l \in lockbox[g] : now - l.ts <= Live}
Matching(i) == {l \in LiveLines(GwOf[i]) : l.cmd = CmdOf[i]}

\* claim_lockbox_ticket: every live line except the first match is kept.
ClaimRead(i, from, miss, mv) ==
  \/ /\ lockbox[GwOf[i]] = NoFile
     /\ Go(i, from, miss)
     /\ UNCHANGED <<snap, hit>>
  \/ /\ lockbox[GwOf[i]] # NoFile
     /\ Go(i, from, mv)
     /\ hit' = [hit EXCEPT ![i] = Matching(i) # {}]
     /\ snap' = [snap EXCEPT ![i] =
          {l \in LiveLines(GwOf[i]) :
             ~ (l \in Matching(i) /\ \A m \in Matching(i) : l.no <= m.no)}]

\* The kept lines replace the file, whatever it has become meanwhile.
ClaimMove(i, from, miss, found) ==
  /\ Go(i, from, IF hit[i] THEN found ELSE miss)
  /\ lockbox' = [lockbox EXCEPT ![GwOf[i]] = snap[i]]
  /\ snap' = [snap EXCEPT ![i] = {}]
  /\ hit' = [hit EXCEPT ![i] = FALSE]

\* Stage 5 before a request, and again when the request is found consumed.
LockboxRead(i) ==
  /\ \/ ClaimRead(i, "claim", "post", "claimMv")
     \/ ClaimRead(i, "reclaim", "ended", "reclaimMv")
  /\ UNCHANGED <<now, dashVars, fileVars, pollVars, reqOf, deadline, auto,
                 held, fuel>>

LockboxMove(i) ==
  /\ \/ ClaimMove(i, "claimMv", "post", "ran")
     \/ ClaimMove(i, "reclaimMv", "ended", "strip")
  /\ UNCHANGED <<now, dashVars, freezeFile, tmpFile, lineNo, pollVars, reqOf,
                 deadline, auto, held, fuel>>

\* receive_request: the reads it decides on (or it is never reached) ...
PostRead(i) ==
  /\ \/ /\ Go(i, "post", "insert")
        /\ auto' = [auto EXCEPT ![i] = override[GwOf[i]] /\ ~ frozen]
        /\ UNCHANGED fuel
     \/ Go(i, "post", "ended") /\ Spend("lose") /\ UNCHANGED auto
  /\ UNCHANGED <<now, dashVars, fileVars, pollVars, reqOf, deadline, snap,
                 hit, held>>

\* ... the row it inserts, and its answer, which may be lost.
PostStatus(i) ==
  IF Decoded[CmdOf[i]] \in BlockedPayloads THEN "blocked"
  ELSE IF auto[i] THEN "approved" ELSE "pending"

PostInsert(i) ==
  LET id == Len(requests) + 1
      g == GwOf[i]
      c == Decoded[CmdOf[i]]
      status == PostStatus(i)
  IN  /\ create_request(g, c, status, TTL)
      /\ granted' = IF status = "approved"
                    THEN granted \cup {[req |-> id, gw |-> g, cmd |-> c, ts |-> now]}
                    ELSE granted
      /\ \/ /\ status # "blocked"
            /\ Go(i, "insert", "wait")
            /\ reqOf' = [reqOf EXCEPT ![i] = id]
            /\ deadline' = [deadline EXCEPT ![i] = now + Wait]
            /\ UNCHANGED fuel
         \/ /\ Go(i, "insert", "ended")
            /\ \/ status = "blocked" /\ UNCHANGED fuel
               \/ status # "blocked" /\ Spend("lose")
            /\ UNCHANGED <<reqOf, deadline>>
      /\ auto' = [auto EXCEPT ![i] = FALSE]
      /\ UNCHANGED <<now, frozen, override, reopened, fileVars, pollVars, snap, hit,
                      held>>

\* The status the waiting loop reads; a missing row reads as pending.
StatusOf(r) == IF requests[r] = NoRow THEN "pending" ELSE requests[r].status

\* A bug: POLL_START is taken anew in every round.
TimedOutNever(i) == now >= now + Wait

TimedOut(i) == now >= deadline[i]

WaitLoop(i) ==
  LET status == StatusOf(reqOf[i]) IN
  /\ pc[i] = "wait"
  /\ \/ TimedOut(i) /\ Go(i, "wait", "ended")
     \/ /\ ~ TimedOut(i) /\ status \in {"denied", "expired", "abandoned"}
        /\ Go(i, "wait", "ended")
     \/ ~ TimedOut(i) /\ status = "approved" /\ Go(i, "wait", "ticket")
     \/ ~ TimedOut(i) /\ status = "consumed" /\ Go(i, "wait", "reclaim")
  /\ UNCHANGED <<now, dashVars, fileVars, pollVars, reqOf, deadline, auto,
                 snap, hit, held, fuel>>

\* The answer of /api/ticket reaches the script: the command must be the same.
TicketAnswer(i, from, t) ==
  \/ /\ Go(i, from, IF t.cmd = CmdOf[i] THEN "strip" ELSE "ended")
     /\ UNCHANGED fuel
  \/ Go(i, from, "wait") /\ Spend("lose")

\* get_ticket_by_request_id, its SELECT; a consumed row is answered at once.
TicketSelect(i) ==
  LET r == reqOf[i]
      status == StatusOf(r)
  IN  /\ pc[i] = "ticket"
      /\ \/ /\ status \notin {"approved", "consumed"}
            /\ Go(i, "ticket", "wait")
            /\ UNCHANGED <<held, fuel>>
         \/ /\ status = "approved"
            /\ Go(i, "ticket", "consume")
            /\ held' = [held EXCEPT ![i] = TicketOf(r)]
            /\ UNCHANGED fuel
         \/ /\ status = "consumed"
            /\ TicketAnswer(i, "ticket", TicketOf(r))
            /\ UNCHANGED held
      /\ UNCHANGED <<now, dashVars, fileVars, pollVars, reqOf, deadline, auto,
                     snap, hit>>

\* get_ticket_by_request_id, its UPDATE.
TicketConsume(i) ==
  /\ pc[i] = "consume"
  /\ consume(held[i].req, now)
  /\ TicketAnswer(i, "consume", held[i])
  /\ held' = [held EXCEPT ![i] = NoTicket]
  /\ UNCHANGED <<now, frozen, override, history, fileVars, pollVars, reqOf,
                 deadline, auto, snap, hit>>

\* TICKET_FOUND: awk drops every line whose second field is the command ...
StripRead(i) ==
  LET g == GwOf[i] IN
  /\ \/ lockbox[g] = NoFile /\ Go(i, "strip", "ran") /\ UNCHANGED tmpFile
     \/ /\ lockbox[g] # NoFile
        /\ Go(i, "strip", "stripMv")
        /\ tmpFile' = [tmpFile EXCEPT ![g] =
                         {l \in lockbox[g] : Field2[l.cmd] # CmdOf[i]}]
  /\ UNCHANGED <<now, dashVars, freezeFile, lockbox, lineNo, pollVars, reqOf,
                 deadline, auto, snap, hit, held, fuel>>

\* ... and mv puts the result in place; "set -e" ends the script if it fails.
StripMove(i) ==
  LET g == GwOf[i] IN
  /\ \/ MoveTmp(g) /\ Go(i, "stripMv", "ran")
     \/ /\ tmpFile[g] = NoFile /\ Go(i, "stripMv", "ended")
        /\ UNCHANGED <<lockbox, tmpFile>>
  /\ UNCHANGED <<now, dashVars, freezeFile, lineNo, pollVars, reqOf, deadline,
                 auto, snap, hit, held, fuel>>

\* The session ends early: the client disconnects, the host kills it, or curl
\* gives up.  A handler that has begun goes on without it.
Kill(i) ==
  /\ pc[i] \notin {"start", "insert", "consume", "ran", "ended"}
  /\ Spend("kill")
  /\ pc' = [pc EXCEPT ![i] = "ended"]
  /\ auto' = [auto EXCEPT ![i] = FALSE]
  /\ snap' = [snap EXCEPT ![i] = {}]
  /\ hit' = [hit EXCEPT ![i] = FALSE]
  /\ held' = [held EXCEPT ![i] = NoTicket]
  /\ UNCHANGED <<now, dashVars, fileVars, pollVars, reqOf, deadline>>

-----------------------------------------------------------------------------
Operator ==
  \/ \E r \in Rows : Approve(r) \/ Deny(r)
  \/ \E before \in 0..now : Purge(before)
  \/ \E b \in BOOLEAN : SetFreeze(b)
  \/ \E g \in Gateways, b \in BOOLEAN : SetOverride(g, b)

Poller(g) ==
  \/ CleanLockbox(g) \/ NothingToClean(g) \/ MoveClean(g)
  \/ SyncPolicy(g) \/ PollSelect(g) \/ PollConsume(g) \/ PollDeposit(g)
  \/ PollerBoot(g)

Script(i) ==
  \/ Start(i) \/ LockboxRead(i) \/ LockboxMove(i)
  \/ PostRead(i) \/ PostInsert(i) \/ WaitLoop(i)
  \/ TicketSelect(i) \/ TicketConsume(i) \/ StripRead(i) \/ StripMove(i)

Next ==
  \/ Tick
  \/ expire_stale_requests
  \/ Operator
  \/ \E g \in Gateways, c \in Commands : LogRow(g, c)
  \/ \E g \in Gateways : Poller(g) \/ PollerRestart(g)
  \/ \E i \in Invocations : Script(i) \/ Kill(i)

Spec == Init /\ [][Next]_vars

\* The clock goes on, the watch loop sweeps again and again, and a script that
\* can take its next step takes it; nothing is assumed of operator or poller.
FairSpec ==
  /\ Spec
  /\ WF_vars(Tick)
  /\ WF_vars(expire_stale_requests)
  /\ \A i \in Invocations : WF_vars(Script(i))
-----------------------------------------------------------------------------
(* What must hold.                                                         *)

\* The file as a set of lines.
LinesOf(file) == IF file = NoFile THEN {} ELSE file

Backed(g, t) == [req |-> t.req, gw |-> g, cmd |-> t.cmd, ts |-> t.ts] \in granted

\* A command runs on a host only after a request for exactly that command on
\* that host was approved, by the operator or by an override: whatever the
\* order of claims, deposits, restarts and losses (stage 5 and the waiting loop
\* of eshu-gateway.sh).
CmdGranted(i) == \E a \in granted : a.gw = GwOf[i] /\ a.cmd = CmdOf[i]

RunsGranted == \A i \in Invocations : pc[i] = "ran" => CmdGranted(i)

\* Every ticket, at rest in a lockbox or a temporary file, in the memory of a
\* script or on its way to a gateway, is the ticket of a granted request of
\* that gateway.
TicketsBacked ==
  /\ \A g \in Gateways :
       /\ \A l \in LinesOf(lockbox[g]) \cup LinesOf(tmpFile[g]) : Backed(g, l)
       /\ carry[g] # NoTicket => Backed(g, carry[g])
  /\ \A i \in Invocations :
       /\ \A l \in snap[i] : Backed(GwOf[i], l)
       /\ held[i] # NoTicket => Backed(GwOf[i], held[i])

\* A row is approved, consumed or abandoned only if it was granted: reported
\* outcomes (/api/log), refused, blocked and expired requests never turn into
\* tickets, although the UPDATE that consumes a row does not read its status.
RowsGranted ==
  \A r \in Rows :
    requests[r].status \in {"approved", "consumed", "abandoned"}
      => GrantOf(r) \in granted

\* An id names one request for ever: the row a grant was given to, if it still
\* exists, is for the host and command that were granted, also after a purge.
GrantsMatchRows ==
  \A a \in granted :
    /\ a.req \in DOMAIN requests
    /\ requests[a.req] # NoRow => GrantOf(a.req) = a

\* A waiting script asks about its own request: the row under its REQUEST_ID
\* is for its host and holds the text decode_cmd made of its command, so "does
\* not match the requested command" is reached only for a text that is not
\* valid utf-8.
OwnRequest ==
  \A i \in Invocations :
    /\ held[i] # NoTicket => held[i].cmd = Decoded[CmdOf[i]]
    /\ pc[i] \in {"wait", "ticket", "consume"} =>
         /\ reqOf[i] \in DOMAIN requests
         /\ requests[reqOf[i]] # NoRow =>
              /\ requests[reqOf[i]].gw = GwOf[i]
              /\ requests[reqOf[i]].cmd = Decoded[CmdOf[i]]

\* Rows, grants and scripts agree on what a request is, and on what became of it,
\* through late decisions, purges and reported outcomes.
RequestsKept == RowsGranted /\ GrantsMatchRows /\ OwnRequest

\* What a script and a poller hold between two steps: a script that found its
\* line or its ticket has a grant for its command, and a ticket is there to be
\* consumed and deposited.
InHand ==
  /\ \A i \in Invocations :
       /\ pc[i] \in {"strip", "stripMv"} => CmdGranted(i)
       /\ hit[i] => CmdGranted(i)
       /\ pc[i] = "consume" => held[i] # NoTicket
  /\ \A g \in Gateways :
       pollPc[g] \in {"consume", "deposit"} => carry[g] # NoTicket

\* The table, the tickets on their way and what the scripts have found agree on what
\* was granted.
GrantsAgree ==
  /\ TypeOK
  /\ RowsGranted
  /\ GrantsMatchRows
  /\ TicketsBacked
  /\ OwnRequest
  /\ InHand
  /\ RunsGranted

\* The request is neither pending nor approved any more, unless somebody approved it
\* again after it was.
Settled(r) ==
  r \in Rows \ reopened => requests[r].status \notin {"pending", "approved"}

\* A session that runs on the request it posted leaves that request consumed,
\* whichever way the ticket took, so that the run is in the audit trail ("#2393
\* ran unrecorded" in eshu-gateway.sh); it may be denied later, and is pending or
\* approved only if it was approved again.
RunsRecorded ==
  \A i \in Invocations : pc[i] \in {"strip", "stripMv", "ran"} => Settled(reqOf[i])

\* What a session knows of its request: it has none before the answer to its POST,
\* holds the ticket of its own, and goes back to the lockbox only when it was consumed.
SessionHolds ==
  \A i \in Invocations :
    /\ pc[i] \in {"start", "claim", "claimMv", "post", "insert"} => reqOf[i] = 0
    /\ reqOf[i] \in (DOMAIN requests) \cup {0}
    /\ pc[i] = "consume" => held[i].req = reqOf[i]
    /\ pc[i] \in {"reclaim", "reclaimMv"} => Settled(reqOf[i])

\* The inductive invariant: what was granted, and what became of it.
IInv == GrantsAgree /\ SessionHolds /\ RunsRecorded

\* The abstract promise, and how the state here maps to it.
Approval == INSTANCE JitApproval WITH
  granted <- {<<a.gw, a.cmd>> : a \in granted},
  ran <- {i \in Invocations : pc[i] = "ran"}

\* The whole pipeline, with its two ways to claim a ticket, implements it: no
\* run without an earlier grant, no second run of one session, no grant taken
\* back (JitApproval).
ImplementsApproval == Approval!Spec

\* Every script ends: it comes as far as the waiting loop, and the loop has a
\* deadline, whatever the operator, the poller and the network do (a deadline
\* that the modelled time reaches).
ScriptEnds ==
  \A i \in Invocations :
    /\ pc[i] = "claim" ~> pc[i] \in {"wait", "ran", "ended"}
    /\ (pc[i] = "wait" /\ deadline[i] <= MaxTime) ~> pc[i] \in {"ran", "ended"}

\* No row waits for ever: one whose time is over is expired, abandoned,
\* decided or claimed (expire_stale_requests).
RowsSettle ==
  \A r \in 1..(Cardinality(Invocations) + Budget) :
    (r \in Rows /\ requests[r].status \in {"pending", "approved"}
       /\ requests[r].expires + Grace < MaxTime)
      ~> ~ (r \in Rows /\ requests[r].status \in {"pending", "approved"})

-----------------------------------------------------------------------------
(* What the documentation and the comments say, and the code does not do.  *)

\* "single-use ticket claim-and-burn" (CHANGELOG.md): a command runs at most
\* once for each request for it that was granted (for runs with one approval).
OneRunPerGrant ==
  \A g \in Gateways, c \in Commands :
    Cardinality({i \in Invocations : pc[i] = "ran" /\ GwOf[i] = g /\ CmdOf[i] = c})
      <= Cardinality({a \in granted : a.gw = g /\ a.cmd = c})

=============================================================================
