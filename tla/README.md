# Eshu Gateway: TLA+ models and proofs

Eshu lets AI agents run SSH commands and API calls under a policy with a human in
the loop. Three programs share the work:

- the **dashboard** (`src/dashboard/main.py`, `core/`, `db/`): one FastAPI process;
  handlers declared `def` run concurrently in a thread pool, three daemon threads
  sweep and watch, and all durable state is one SQLite file in WAL mode;
- the **poller** (`eshu-poller.sh`), one per gateway host: a root shell loop that
  fetches the policy answer and approved tickets and writes files;
- the **gateway script** (`eshu-gateway.sh`), started by sshd for every command: it
  decides from the files the poller wrote and asks the dashboard when nothing
  matches; and, for fleet commands, a systemd unit running `static/fleet-runner.sh`.

A statement or transaction is atomic (SQLite serialises it); a handler made of two
statements is not; a shell script is atomic only up to one redirect, `mv` or `curl`.
That granularity is used in every module here; where state is kept in the
dashboard's memory (buckets, caches, MCP surfaces) each access is a step.

## 1. Inventory

| component | state | operations | hard behaviour | what makes it correct |
|---|---|---|---|---|
| JIT requests and tickets (`db/requests.py`, `main.py` 680-836, 951-983, `eshu-poller.sh` 99-111, 354-370, `eshu-gateway.sh` 356-516) | table `requests`, lockbox file, poller's and scripts' memory | POST a request, approve, deny, purge, sweep, poll, direct claim, deposit, lockbox claim | two claim paths for one row, files read and replaced without a lock, lost answers, restarts, five timeouts | nothing runs without a grant; a ticket stays with its host and command; every script ends; every row settles |
| Fleet commands (`db/fleet.py`, `main.py` 1212-1336, `eshu-poller.sh` 187-221, 343-349, `static/fleet-runner.sh`) | tables `fleet_commands`, `fleet_results`, policy stamp, last id, units | dispatch, inject into the policy answer, launch, report, complete, clear, delete, purge | answers computed before a report, launch and persist apart, restarts and reboots, late results | one at a time in dispatch order; only what was dispatched; complete means settled everywhere; the queue drains |
| Policy pipeline (`eshu-gateway.sh` stages 0-4, `core/policy_eval.py`, `core/cmd_blocklist.py`) | files | one verdict per command | files replaced while it reads them; two implementations of one order of stages | the policy tester agrees with the script |
| Policy sync (`eshu-poller.sh` 46-350, `main.py` 838-889) | cached files, stamp | fetch, parse, write file by file | failed polls, cut-off answers, restarts between two files | what a sync brought stays in force; the strict flag never comes before its key |
| Overrides, zero trust, freeze (`db/overrides.py`, `db/gateways.py`, `main.py` 680-760, 1095-1204) | flags, override rows | start, cancel, toggle, automatic approval | exclusion by check-then-act, reads in transactions of their own | what is approved by itself was open |
| Approved windows (`db/windows.py`, `main.py` 2371-2636, `static/features/approved_windows.sh`) | `approved_windows` rows, cached list | create, request, approve, deny, edit, toggle, delete, claim | claims race with each other, with edits and with the copy; they fail open without network | the cap holds for counted claims; only approved commands run |
| Integration calls (`main.py` 3300-3520, `core/tool_runner.py`, `core/mcp_server.py`, `db/integrations.py`, `core/agent_policy.py`) | tokens, policies, tools, gate mode, `pending_integration_calls`, audit rows | authenticate, judge, run or queue, approve and execute, deny, purge | policy, gate and flags are read apart; status checked before and written after the call | no run without permission; one run unless decisions overlap; every run audited; a decision is reached |
| Upstream credentials (`core/integration_proxy.py`, `core/session_auth.py`) | token and session caches | look up, log in, send, retry once | threads share the cache; expired, revoked, refused credentials | an effect is not repeated; refusals are repaired; calls end |
| Edit handlers (`core/tool_handlers.py`) | Home Assistant and *arr configurations (upstream) | list, read, merge, save, read back | others edit in between; lost connections | what was read is kept; the report is true |
| Enrolment, update and removal (`db/enrollment.py`, `db/gateways.py`, `main.py` 618-678, 1654-1734, poller, `uninstall`) | enrolment and gateway tokens, triggers | issue, register, update, uninstall, complete | select then update; triggers outlive gateways; reboots | no stale uninstall |
| Mediated fetches (`core/web_fetch.py`, `core/web_fetch_policy.py`, `core/web_fetch_limit.py`) | policy, deques, semaphores | acquire, evaluate, open, redirect, audit, release | redirects to other hosts, a policy saved meanwhile, slots on every path | hops allowed; limits and slots |
| Rate limits (`core/rate_limit.py`) | buckets | sweep, filter, admit, refuse | no lock | a quiet caller stays within its limit |
| Commute alerts (`core/commute.py`, `db/commute.py`) | profile, sent slots, audit | due, check, mark, answer; merge a profile | waits for TfL; grace minute; overlap | each slot once; a due slot is tried; the audit chains |
| Gateway watch (`core/gateway_watch.py`, `core/notify.py`) | last seen, two persisted sets | transitions, stale removal | restarts, repeated alerts, listings that run the check too | announced once; silence is told |
| Learning (`core/learning.py`, `db/misc.py`) | tables, gap cache | scan, dismiss, mark all seen | a scan that began earlier stores later | what was cleared stays out |
| Releases (`main.py` 1440-1640, start-up) | Build, Edge, backup, source, hash, triggers | seed, push, promote, rollback, upgrade | several copies, rows and a trigger in one handler | hash, files and triggers agree |
| Tool catalogue (`db/integrations.py`, `core/generic_tools.py`, `core/mcp_server.py` 230-470, seeds) | tool rows, MCP surfaces | save, seed, reseed, toggle, refresh | refreshes without a lock; ids read before they are deleted | the surface follows; seeding spares what was made by hand |
| Omada tools (`core/omada_utils.py`, `core/transforms.py`) | the controller's rules, groups and tables (upstream), the cached list of sites | move a rule, create one and name it, edit a group, list page by page, judge an unknown site | no lock upstream: people move, delete and add between two calls; lost answers; page limits | what was read is kept; the report is true |
| SSH sessions and signatures, login, CSRF, web interface, installers' files, database core, train lookups, most transforms | | pure text, I/O, presentation | no protocol of their own | not modelled (section 8) |

Interactions: the poller pulls (policy answer, tickets), the script posts requests and
asks for their status, the runner posts results, the operator's browser calls the
handlers, agents call the MCP server; gateway programs share only files, the
dashboard's threads the database and a few dictionaries.

## 2. Modules

| module | models | proofs in |
|---|---|---|
| `JitLifecycle`, abstract `JitApproval` | JIT requests and tickets, end to end | `JitLifecycleProofs` |
| `FleetRun`, abstract `FleetQueue` | fleet commands, end to end | `FleetRunProofs` |
| `PolicyPipeline` | what stages 1-4 and the policy tester ask of a command, as operators | `GatewayModesProofs` |
| `GatewayModes` (extends `PolicyPipeline`) | a switch, from the database through poller and files to the script and back to `receive_request` | `GatewayModesProofs` |
| `ToolCall` | integration calls from token to audit row | `ToolCallProofs` |
| `ApprovedWindows` | windows, claims, the gateway's copy | `ApprovedWindowsProofs` |
| `Enrollment` | registration, triggers, uninstallation | `ServicesProofs` |
| `WebFetch` | mediated fetches and their limiter | `WebFetchProofs` |
| `RateLimits`, `GatewayWatch`, `Learning`, `Releases`, `Commute` | one service each | `ServicesProofs` |
| `EditHandlers`, `OmadaHandlers`, `ToolCatalog`, `UpstreamAuth` | one service each | `IntegrationProofs` (extends `ServicesProofs`) |
| `Services` | the twelve modules that share no state, instantiated side by side | `ServicesProofs`, `IntegrationProofs` |
| `MCJitLifecycle`, `MCFleetRun`, `MCToolCall`, `MCGatewayModes`, `MCServices` | values of constants for TLC | |

### JitLifecycle

State: `requests[id]` is the table row (`NoRow` when purged, ids never reused),
`lockbox[g]` and `tmpFile[g]` are `/var/run/eshu.tickets` and its `.tmp` (`NoFile` when
absent), `pollPc`/`carry` the poller's position and the ticket the dashboard selected for
it, `pc`, `reqOf`, `deadline`, `snap`, `hit`, `held` a script's position and variables,
`granted` the history of approvals. A ticket carries its row's id and a lockbox line a
number; the program stores neither, and no guard reads them.

| action | code |
|---|---|
| `Approve`, `Deny`, `Purge`, `LogRow` | the handlers of the same purpose; `update_request_status` overwrites any status, as the code does |
| `expire_stale_requests` | the watch loop's sweep, in one transaction: pending rows expire, approved ones are abandoned after their grace |
| `PollSelect`, `PollConsume`, `PollDeposit` | `/api/poll`: SELECT, UPDATE, and the poller's append after the answer; the answer may be lost between |
| `CleanLockbox`, `MoveTmp`, `MoveClean`, `NothingToClean`, `SyncPolicy`, `PollerRestart`, `PollerBoot` | the poller's other steps on the shared files |
| `Start`, `LockboxRead`/`LockboxMove`, `PostRead`/`PostInsert`, `WaitLoop`, `TicketSelect`/`TicketConsume`, `StripRead`/`StripMove`, `Kill` | the gateway script from stage 5: `claim_lockbox_ticket` (awk, then mv), the POST (reads, then insert), the waiting loop, `/api/ticket` (SELECT, then UPDATE), the final strip of the lockbox |

### FleetRun

State: `commands[id]`, `results[g][id]`, `frozen` are the dashboard's tables and trigger;
`version` stands for everything else in the policy answer; `disp[t]` is a dispatch
handler, `posts` the results under way with the stage of their handler; `body[g]` is the
answer the poller works on, `stamp[g]` the one it remembers, `last[g]` the id file,
`unit[g][id]` the systemd unit; `execs`, `dispatched`, `settled` are histories.

| action | code |
|---|---|
| `SubmitCheck`, `Create`, `ApproveRead`, `Approve` | `submit_fleet_command`: freeze check, `create_fleet_command`, and the read and the transaction of `approve_fleet_command` |
| `Clear`, `Delete`, `Purge`, `Down` | `clear_fleet_result`, `delete_fleet_command`, `purge_old_fleet_commands`, a dashboard restart |
| `ResultCheck`, `upsert_fleet_result`, `MarkRead`, `set_fleet_status` | `submit_fleet_result` down to `mark_fleet_complete_if_done`, one step per transaction |
| `ReadFreeze`, `ReadBusy`, `ReadNext` | `fetch_policy` and the two SELECTs of `get_injectable_fleet_cmd` |
| `Sync`, `Launch`, `Persist`, `Stamp`, `PollerRestart`, `Reboot` | the poller from the hash comparison to the stamp; `/run` is lost on reboot, `/etc` is not |
| `Ping`, `Pinged`, `Guard`, `Exec`, `Report`, `Reported` | `fleet-runner.sh`; the runner waits for the answer of each post, up to its 5 s timeout (`late`) |

### GatewayModes and PolicyPipeline

One gateway and one command. `db` holds the switches (`freeze`, `trust` for zero trust),
the lists, strict sessions and overrides; `op` the override and zero-trust requests that
checked and have not written; `poller` its position and the answer it handles, `stamp`
the body whose hash it keeps, `files` the `/etc/eshu-*` files; `script` the command. The
histories `inForce`, `seen` and `clean` say what was on, or held, since when. The actions
are the dashboard's switches (`Settings`), the poller from fetch through each file to the
stamp (`Poll`, with polls that fail and answers that are cut off), its restart, and the
script's stages 0 to 4, each file read a step, then `receive_request`, each read of the
dashboard's settings a step. `PolicyPipeline` reduces the text of a command to the traits
the stages test and has both verdicts, the script's (`HardBlocked`, `ForcedToJit`, ...)
and the policy tester's (`Mirror`).

### ToolCall

`db` is the configuration (agents with the id of their row, policies, integration, tools,
gate mode, strict), `pending` the queue, `bound` the in-memory session of a connection,
`req` the requests in the dashboard: connections of agents (`Callers`) and requests of
operators (`Desks`). A request goes through authentication, policy, tool, gate, and run or
queue; a desk loads a queued call, judges it again (caller, policy), runs it and writes
the status; each SQLite transaction and each upstream call is a step. Events change the
configuration, purge old rows, raise in an executor, or restart the dashboard. `seen` in
a request is the history of what was in force at some instant of it.

### The services

| module | state and actions |
|---|---|
| `UpstreamAuth` | the cache entry of one integration, the service's valid credentials, calls with stages look up, log in, CSRF, store, send, check, pop, record; the service revokes, forgets CSRF tokens, refuses, is not reached |
| `EditHandlers` | a dashboard or quality definition as the set of its edits; list, read, write, read back of the handlers; edits by hand in between |
| `ApprovedWindows` | rows, requests between their read and their write, the gateway's copy, commands with a token through match, find, count; expiry and schedule are flags that time switches |
| `Enrollment` | enrolment tokens, gateway rows and tokens, triggers; `/api/register` one transaction a step; the machine: poller, update, uninstaller, reboot |
| `WebFetch` | a call from handler to audit row: acquire, evaluate, open, answer, redirect, audit, release; deques with their times, semaphores, a policy saved in between |
| `RateLimits` | buckets as sets of entries (a time and what tells equal times apart); every read and write of the dictionary by a thread without a lock, with the sweep of all buckets |
| `Commute` | the profile, the sent slots, the audit; scheduler requests (gate, slots, check, mark, answer or lost) and profile writers (read, save) |
| `GatewayWatch` | silence as a level of age, sets in memory and their saved copies, checks by the thread and by listings, the weekly removal, restarts, checks cut off |
| `Learning` | the tables as sets of gaps, the cache, scans by the hourly thread and by requests, marks |
| `Releases` | four files, the deployed hash, two triggers; handlers statement by statement, cut off, overlapped; upgrades of the dashboard |
| `OmadaHandlers` | the rules in their order, one group, one table, the sites and the list of them that is cached for a minute; each upstream call of a tool is a step, its connection may be lost after it took effect; people change all of it in between |
| `ToolCatalog` | rows with ids, catalogues, the shared and single surfaces; saves, deletions, seeding, refreshes item by item; restarts with re-seeding |

`Services` instantiates all of them. `which` chooses one at the start; its steps are the
behaviour and the other modules keep an initial state, so the state space is the sum, not
the product. Their fairness is stated with `which` as a guard, so that it binds only the
service that runs. Each of its constants is a record with the parameters of one service
(`EditSetup.Calls`, `ControllerSetup.Rules`, ...); `ServicesAssumption` is the conjunction
of the assumptions of all twelve. `ApprovedWindows`, `Enrollment` and `WebFetch` are
instantiated through their proof modules, so that theorems about the composition cite the
lemmas proved there.

`MCServices` gives the records their values, and in `MCInit` pins the services that do
not run to one initial state each. For the calls with a credential it also leaves out two
kinds of initial states that behave like others: an entry of a service that refuses
everything, and an OAuth2 entry whose expiry has passed, neither of which is used. The
theorems are about `Services!Spec`, without these restrictions.

## 3. Runs

| run | question | bounds |
|---|---|---|
| `jit_race` | refinement of `JitApproval`; every script ends, rows settle | two sessions, one command, one approval, fair clock, sweep and scripts |
| `jit_events` | the inductive invariant and each promise it implies | two gateways, two sessions, one that may run and one with a blocklisted payload, logged texts with a bar or that `decode_cmd` cannot decode; two of: approve, deny, purge, log, freeze, override, lost answer, poller restart, kill |
| `jit_one_run` | violated (section 6) | |
| `fleet_queue` | refinement of `FleetQueue`; the queue drains; the inductive invariants, that of the queue included | two commands, one gateway, one event |
| `fleet_race` | complete means settled; only dispatched commands run | one command, two gateways, one of late result, clear, delete, poller restart |
| `fleet_retry` | violated (section 6) | |
| `gateway_modes` | what a sync brought stays in force; what is approved by itself was open; the strict flag follows its key; the policy tester agrees | four kinds of commands, three contents of the lists, two changes or faults |
| `gateway_retry` | violated (section 6) | as above |
| `tool_calls` | allowed, ungated, enabled, grouped; repeats only where requests overlap; audit; decisions are reached | one agent, two tools (HTTP and WebSocket), one connection, two desks, one queued call, two events |
| `tool_denied` | violated (section 6) | no events |
| `services` | the properties of the twelve services, one `which` at a time | the values at the top of `MCServices` |
| `upstream_repaired` | violated (section 6) | two calls |

Every property of a passing run is violated when one mapped definition is replaced by a
mutant of it, listed in `PROJECT.json`; the mutants stand next to the definitions
("Bug:").

**Bounds.** `MaxTime`, `MaxClock`, `Budget`, `MaxCommands`, `MaxCalls`, `MaxId` are guards
of the actions they bound. Two sessions are the least that share a ticket or a line, two
desks the least that decide one call, two threads the least that overlap on a bucket, a
cache or a surface, two gateways the least for "complete means settled everywhere", two
commands the least for an order. `TTL`, `Grace`, `Live` and `Wait` are one tick or two:
steps interleave freely within a tick and sessions start at different ticks, so a row's
expiry, a line's and a script's deadline fall before or after each other's use. The
limits of `WebFetch` and `RateLimits` are 1, so that the second call is already at the
limit, and their clocks run past a whole window. The event budgets are two or three: a
fault, and a change that meets it; the enrolment has five, enough to install, ask for an
uninstall, reboot, remove and install again. The theorems of section 5 remove the bounds
of the properties they state. The Omada tools have two calls, pages of one row and at
most two of them, so that a listing of three rows stops at its last page.

`CHECK_DEADLOCK FALSE` is said where the modelled clock, the calls or the budget end;
`FleetRun` has pollers that go on for ever and is checked for deadlock.

**Symmetry** is used for gateways in `fleet_race`, which has no liveness.

**Fairness.**
- `JitLifecycle!FairSpec`: the clock runs, the watch loop (`while True`, every exception
  caught) sweeps, a script takes the step it can take. Nothing is assumed of the operator
  or the poller, so scripts end and rows settle without them.
- `FleetRun!FairSpec`: handlers that began finish, pollers poll (systemd restarts them),
  started units run on (`timeout --kill-after` bounds a command). The operator may never
  dispatch.
- `ToolCall!FairSpec`: a desk that has begun finishes, since every upstream request has a
  timeout; nobody has to begin.
- `UpstreamAuth`: a call goes on (every request has a timeout). `GatewayWatch`,
  `Learning`: their threads loop for ever and catch what a round raises. In `GatewayWatch`
  a gateway changes its level only after the watch has seen the one before (`Silent`): a
  level lasts minutes to days and the watch comes every few seconds.

Weak fairness is enough: each of these processes is sequential and no other process
disables its next step for ever. `RowsSettle` and `ScriptEnds` speak only of rows and
deadlines that the bounded clock reaches; `DecisionReached` of desks that no further
event meets.

## 4. Abstract specifications

`ImplementsApproval` maps `granted` to pairs of host and command, `ran` to the sessions
at `"ran"`. `JitApproval` lets a session run once, after a grant for its host and its
command, and never withdraws a grant. It does not say that a grant serves one session
only: the code does not promise it (`jit_one_run`).

`ImplementsQueue` maps the histories of `FleetRun` to `FleetQueue`: an execution starts
only if dispatched, after every earlier one of that gateway, while none runs there.
`Approve` maps to `Dispatch`, the step of a unit past its freeze check (`Guard`) to
`Start`, the end of the command (`Exec`) or a reboot to `Finish`, all else to a stutter.
It does not hold of every event. TLC finds it violated by a late result (a running post
recorded after the next answer was computed), a clear (a skip of a command already in a
poller's hand), a delete of a running command, a poller restart (a forgotten launch), two
tabs that dispatch at once (ids approved out of order), and a reboot after a lost running
post or a dashboard restart. `CalmOperation` excludes these and nothing
else; it is a condition on the constants, and under it the refinement is proved for any
number of gateways and commands and any budget of lost answers and results, failed
launches, policy edits, freezes, purges and dashboard restarts, or of reboots without
losses and restarts. `fleet_race` states the weaker safety
that holds without it.

## 5. Proofs

Eight modules prove `Spec => []IInv` for an inductive invariant `IInv` and, from it, the
properties below for all values of the constants, from the module's `ConstantsAssumption`
only: the types of the constants, naturals as bounds, null values that are no values, and
where cardinalities or `CHOOSE` are used that a set is finite or not empty. Only the
refinement of `FleetQueue` has a further hypothesis (section 4). TLC evaluates
each assumption, those of the services through `ServicesAssumption`. The theorems about
the services speak of the composition: a step of `Services` is a step of each service or
leaves its variables alone (`WindowsStep`, `LimiterStep`, `ControllerStep`, ...), so each
invariant carries over, and a property of several services follows from several
invariants.

- **JIT.** "Nothing runs without a grant" is not inductive: a script runs on a line it
  read before, deposited by a poller from a row consumed before that. `IInv` follows the
  ticket back: rows that can be claimed were granted (`RowsGranted`), an id never names
  another request (`GrantsMatchRows`), each ticket in a file or a memory is backed
  (`TicketsBacked`), a waiting script's id is its own (`OwnRequest`), and what a process
  has in hand is there (`InHand`). `RunsRecorded` needs what a session knows of its own
  request (`SessionHolds`): it goes back to the lockbox only once its request is no longer
  pending or approved. Since the dashboard lets an operator approve a settled row again,
  `reopened` names the rows for which that was done, and the promise is about the others.
  `Refinement` adds that a step makes at most one grant
  or one run (`StepEffect`, `OneMoves`) and that initial states map to initial states.
- **Fleet.** "Complete means settled" is not inductive either: `set_fleet_status` writes
  what `MarkRead` concluded some steps ago. `HandlersHold` keeps that conclusion true
  (a settled pair stays settled, `commands[id].targets` never changes, ids are never
  reused), `TablesHold` says final results belong to settled pairs, `UnitHolds` and
  `PollerHolds` carry "dispatched" through answers and units. `OnlyDispatchedRuns` follows.
- **Fleet, one at a time and in order.** The refinement of `FleetQueue` needs what no part
  of the program knows: that a command the dashboard offers has not run, and that the
  earlier ones are over for good. `QueueInv` says it in calm operation. A command is closed
  for a gateway when no poll will offer it again, and stays so (`Closed`). A unit that has
  not yet posted how it ended keeps its command open (`OpenWhileBusy`), so two units
  cannot run on one gateway. What was launched is remembered somewhere: by the poller
  (`last`, or the answer it is about to note), by a result that closes it, or, when a
  reboot has wiped `/run`, by its running row (`Remembered`). Whatever was offered has
  every earlier command of that gateway closed (`LaunchInOrder`); ids are dispatched
  upwards (`DispatchInOrder`), and results are stored in the order they are posted
  (`ReportsInOrder`).
- **Tool calls.** A request is judged by the configuration and its own record, so `Good`
  says, stage by stage, what a request must have seen to be there, and steps of other
  requests do not disturb it. The agent read for its policy may no longer be the one that
  was authenticated (`SameAgent`: the same row, or it was absent meanwhile). `CallsGood`
  relates a queued call's status, the desks that hold it and how often it ran, as long as
  no two held it; that gives `OnlyOverlapRepeats`. `EveryRunLogged` counts with
  cardinalities and is inductive by itself.
- **Gateway modes.** `AppliedHolds` needs the whole way of a switch: an answer under
  construction carries what was on throughout (`PollerGood`), a file half way through a
  sync agrees with the body that is being written, and a stamp that matches means the
  files hold its switches unless a sync was cut short (`FilesGood`). `inForce` drops a
  switch when an answer that is cut off is processed, which is the exception of section 6.
  `TesterAgrees` then compares two verdicts on the same lists.
- **Approved windows.** `ClaimsGood`: the row counts every claim it granted, and the
  guard of the counting UPDATE keeps the count below the cap although cap and count are
  edited; `OpsGood`: what requests between read and write may still do to a row;
  `RunGood`, `CacheGood`: what a run or a copy names was enabled once.
- **Enrolment.** `EnrolGood`: a trigger was asked for, but for the time between the
  registration that makes it obsolete and the statement that clears it; a poller that saw
  it then belongs to the installation that is being replaced.
- **Web fetch.** `HitsKept`: a call within the window still has its entry in the deque,
  whatever was trimmed; with an injection from calls to entries, the cardinality of the
  deque bounds the calls. `GoodCall` says stage by stage what is held and contacted.
- **Learning.** `LearnAlone`: until two scans overlap there is one scan, and what it has
  read is compatible with the marks that were answered.
- **Rate limits.** The bucket is rewritten from copies, so "at most `Max` quiet calls in a
  window" needs `LimitHeld`: an entry of a call that ran alone, still within the window,
  is in its bucket and in the copy of every thread about to replace that bucket.
  `LimitAlone` says this as of the moment a call that nobody overlapped began; when it is
  let in, the entries it counted include all of those, and the cardinality of the bucket
  bounds theirs.
- **Gateway watch.** `WatchAlone`: until checks overlap or are cut off, at most one is
  under way, and whoever was announced is in the set in memory, and in the saved copy as
  long as the check has nothing to save (`WatchHolds`), but for the gateway it is just
  announcing; a restart then reads back every gateway that was announced.
- **Releases.** `ReleaseAlone`: until a request overlaps, fails or stops, the only handler
  at work has a stage (`ReleaseStage`) that says which of the files, the row and the
  triggers it has already written; the property is that relation with no handler at work.
- **Commute.** `CommuteInv` has two halves. `CommuteTold`: whatever was answered had
  been marked as sent before, and once, unless requests overlapped; `CommuteSaved`: the last audit row describes the profile as it is, so that the row of the
  next writer continues it.
- **Tool catalogue.** `ToolRight`: an id a handler is about to delete names a row that
  seeding made, whatever was saved since it was read. `ToolSync`, until refreshes
  overlap or one is cut off: a refresh rebuilds the surfaces one integration at a time, and `ToolStage` says
  of the integrations it has passed that their surface agrees with the tables.
- **Calls with a credential.** `AuthGood` says by the stage of a call what the service
  carried out: nothing before the answer, nothing on an answer that is sent again.
  `AuthCalm`, of a service that keeps its credentials and honours them: a call sends a
  stale one only the first time, and until another call empties the cache it finds there
  the entry it has to drop. There is always a token that is not in use for a login
  to return (`AuthFree`), by their cardinalities.
- **Types of the composition.** `TypeOK` of `Services` follows from the twelve invariants.
- **Edits.** `EditShape` ties the stage of a call, and what it reports, to whether it wrote.
- **Omada.** `OmadaShape` says what a call has by its stage: an order without repetitions
  that has both its rules, a created rule with the text and the fields it asked for, and
  of a listing nobody disturbed that its rows are the first rows of the table
  (`OmadaPrefix`). Lemmas about sequences carry the rest: `OmadaMoved` (take an entry out,
  put it before another one: the same rules, the two next to each other, the others in
  their order), `OmadaNamed` (the first of the rules that match exists and is alike),
  `OmadaNextPage`, `OmadaPageOf` (a page as long as what matched is all of it).
  `OmadaSites`: the cached list differs from the controller's by the sites that moved.

Each action has a lemma with one step per conjunct of `IInv` it can disturb; helpers
(records, sequences, cardinalities) are lemmas of their own.

`EditsSpareTheRest` is an action property: it follows from the two invariants and the
lemmas about the step that writes (`EditSpares`, `OmadaSparesRules`,
`OmadaSparesMembers`).

Only model-checked: liveness (`ScriptEnds`, `RowsSettle`, `DispatchedCompletes`,
`DecisionReached`, `Progress`), which the prover cannot treat. Every invariant, the action
property and both refinements the passing runs check are proved, `ImplementsQueue` under
`CalmOperation`. Induction over data is not needed. In no run does a session's own text
fail to decode; the theorems, for any `Decoded`, include it.

## 6. What the code does not do

Each is a violated run of one statement quoted from the repository in `PROJECT.json`.

1. `jit_one_run`: one approval can serve two sessions with the same command: the direct
   claim still answers a row the poller has consumed and deposited.
2. `fleet_retry`: after a failed launch the answer is stamped as synced, so it is not
   retried until some other part of the answer changes.
3. `gateway_retry`: an answer that is cut off clears freeze, zero trust and strict
   sessions on the gateway, and the next whole answer is skipped as already synced.
4. `tool_denied`: a call denied while another request executes it was executed.
5. `upstream_repaired`: a call that succeeds on its retry after a 401 is recorded and
   returned as an error.

Behaviours met while modelling that no run states, because no document promises
otherwise or a stated one already covers the cause:

- JIT: `claim_lockbox_ticket` can drop a line appended while it works; "consumed" is
  visible before the ticket is in the lockbox; poller and script share one `.tmp`, and a
  failing `mv` ends an approved session under `set -e`. The model has all three.
- Fleet: a poller restart between launch and persist, with an answer computed before the
  ping arrived, runs a short command twice.
- Enrolment: two machines that present one single-use token at once are both admitted
  (`Auth`, `Consume`); a poller that updates registers again and thereby clears an
  uninstall that was asked meanwhile.
- Windows: a recurring window at midnight has `execution_time` 0, which the script reads
  as no schedule; a denial that crosses an approval leaves a denied row that is enabled.
- Releases: without overlapping requests the state `ready_for_promote` is never reached;
  a stop inside `shutil.copy` leaves a torn Build; promoting twice makes the backup equal
  to Build.
- Tool catalogue: overlapping refreshes leave tools of removed rows visible until a
  restart; the surface of a disabled integration keeps its tools; a tool made by hand
  whose name enters a catalogue counts as seeded and goes when the name does.
- Omada: of several identical rules a create is given the first, although it may be
  another's (`enrich_acl_create`); a filtered listing that stopped at its last page
  reports that it is not truncated; an update whose re-read fails is answered with an
  error after it was written. `ReportsTruth` states what does hold.
- Commute: requests that overlap can send a slot twice; a slot without a message is tried
  again in its grace minute; a message marked as sent may never arrive.

## 7. Abstractions

- Command texts, outputs, reasons, host names and audit texts are left out; a text is a
  model value with the facts the code depends on (what `decode_cmd` stores, the field up
  to a bar, blocklisted or not; the traits of `PolicyPipeline`; the shape of a tool call).
- Time is a small clock where durations are compared (`JitLifecycle`, `WebFetch`,
  `RateLimits`, `Commute`), levels or flags that change by themselves elsewhere, and
  absent from `FleetRun` and the calls, where a timeout is a choice. The hash of a policy
  body is the record itself. In `Commute` the minute of a request may be its `at`, so any
  minute may come with any request.
- `fetch_policy` is one read of freeze and policies plus the two reads of the fleet
  tables in `FleetRun`, and a read of each flag in `GatewayModes`; `MarkRead` joins the
  reads of a command and its results (a command deleted or completed between them makes
  no difference to what is written).
- Histories (`granted`, `dispatched`, `seen`, `inForce`, `open`, `asked`, `cleared`,
  `overlap`, ...) are written beside the steps and no guard of the code's actions reads
  them; `GatewayWatch!noticed` is the timing assumption of section 3.
- `WebFetch` reads the clock inside the lock of the limiter. `Commute` reads the sent
  slots of a request in one step. `Enrollment!admitted` only documents who came in.
- The history rows a dispatch adds to `requests` (status `fleet-run`, never claimable)
  are left out of `FleetRun`; calls refused before they do anything (unknown names, bad
  arguments) are left out of `ToolCall`.

## 8. Not modelled

- The attribution of rows to SSH sessions and the HMAC signatures: cryptography; the
  session id is an input of `GatewayModes` (none, minted, forged).
- Operator login, CSRF and transport headers: filters of requests without state that a
  modelled component shares.
- Train lookups and the transforms that reshape one answer: they keep no state and have no
  order of steps to get wrong; their input and output are texts. The listings that fetch
  page by page are in `OmadaHandlers`.
- `_sync_web_fetch_access` (`main.py` 2827-2877), which copies settings of the page into
  agent policies and fetch policies; the verification of a write by
  `tool_runner._run_write_verify`; previews, listings and searches.
- The packages, units and files an installer writes, the poller's rollback and edge
  builds: shell commands on one machine whose failures end the script.
- Profiles, risks, categories and descriptions of commands (`core/cmd_*.py`): pure text
  classification; `Learning` sees their result as a set of gaps.
- The web interface, the static catalogues of tools, and SQLite itself, of which every
  module assumes that a statement is atomic and a transaction serialised.

## 9. What is left of the plan

A model of `_sync_web_fetch_access` beside `ToolCall` and `WebFetch` would join the two
policies. No invariant waits for a proof; what the refinement of `FleetQueue` leaves out
is false of the code (section 4).
