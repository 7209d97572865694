------------------------------ MODULE ToolCall ------------------------------
(***************************************************************************)
(* Calls of integration tools: an agent's MCP request is authenticated     *)
(* (main.py), judged by its agent policy (core/agent_policy.py) and run or *)
(* queued (core/tool_runner.py); a queued call waits for an operator       *)
(* (main.py, db/integrations.py).  Requests are served by several threads: *)
(* every SQLite transaction and every upstream call is a step of its own.  *)
(***************************************************************************)
EXTENDS Integers, FiniteSets

CONSTANTS
  Agents,     \* names of agent tokens
  Tools,      \* a tool together with the arguments it is called with
  Shape,      \* Shape[t]: how t is declared and what its arguments ask for
  Callers,    \* MCP connections, each with one request at a time
  Desks,      \* requests of operators that decide a queued call
  MaxCalls,   \* bound: calls ever queued; agents then rest
  Events,     \* changes of the configuration and faults that may occur
  Budget      \* bound: how many of them occur

Kinds == {"http", "generic", "ws", "handler"}
Modes == {"deny", "inherit", "gated", "ungated"}
Gates == {"all", "destructive", "none"}
Sessions == {"none", "plain", "minted"}
ToolShape == [kind : Kinds, readOnly : BOOLEAN, writes : BOOLEAN,
              dryRun : BOOLEAN, destructive : BOOLEAN, alwaysGate : BOOLEAN]
EventKinds == {"agent", "policy", "tool", "integration", "gate", "strict",
               "purge", "raise", "down"}

\* A curated read-only tool sends what it declares, a read; only the generic
\* ones take a method or command from their arguments.
ASSUME ConstantsAssumption ==
  /\ Shape \in [Tools -> ToolShape]
  /\ \A t \in Tools : /\ Shape[t].dryRun => Shape[t].kind = "handler"
                      /\ (Shape[t].readOnly /\ Shape[t].writes) =>
                           Shape[t].kind \in {"generic", "ws"}
  /\ IsFiniteSet(Callers) /\ IsFiniteSet(Desks) /\ Callers \cap Desks = {}
  /\ Agents # {} /\ Tools # {}
  /\ MaxCalls \in Nat /\ Budget \in Nat /\ Events \subseteq EventKinds

VARIABLES
  db,       \* the configuration: agents, policies, integration, tools, flags
  pending,  \* table pending_integration_calls
  queued,   \* how many rows it ever had
  minted,   \* connections whose agent knows a session of session_begin
  bound,    \* bound[c]: _last_session_by_transport, in memory
  req,      \* the requests in the dashboard
  ran,      \* history: ran[i], how often queued call i was sent upstream
  logged,   \* history: logged[i], how many audit rows tell of it
  cut,      \* history: cut[i], runs whose thread died before the audit row
  overlap,  \* history: calls that two requests held, or one that died
  fuel      \* bound: what is left of Budget

sessions == <<minted, bound>>
history == <<ran, logged, cut, overlap>>
vars == <<db, pending, queued, sessions, req, history, fuel>>

Ids == 1..MaxCalls
Requests == Callers \cup Desks
Row == [status : {"none", "pending", "approved", "denied", "gone"},
        agent : Agents, tool : Tools]
Config == [agent : [Agents -> [status : {"active", "revoked", "absent"}, id : Nat]],
           policy : [Agents -> [Tools -> Modes]],
           integration : {"on", "off", "gone"},
           tool : [Tools -> {"on", "off", "gone"}],
           gate : Gates, strict : BOOLEAN]
Request == [stage : {"idle", "policy", "called", "tool", "queue", "load", "caller",
                     "exec", "ran", "settle", "refuse"},
            agent : Agents, id : Nat, tool : Tools, call : 0..MaxCalls,
            mode : Modes, gate : Gates, session : Sessions, enabled : BOOLEAN,
            seen : SUBSET (Modes \cup Gates \cup {"active", "revoked", "absent",
                                                  "tool", "integration", "lax"})]

TypeOK ==
  /\ db \in Config
  /\ pending \in [Ids -> Row] /\ queued \in 0..MaxCalls
  /\ minted \in SUBSET Callers /\ bound \in [Callers -> Sessions]
  /\ req \in [Requests -> Request]
  /\ ran \in [Ids -> Nat] /\ logged \in [Ids -> Nat] /\ cut \in [Ids -> Nat]
  /\ overlap \in SUBSET Ids
  /\ fuel \in 0..Budget

\* What is in force at some instant of a request: the status of its agent, the
\* mode of its policy, the gate mode, what is enabled, no strict sessions.
Facts(d, a, t) ==
  {d.agent[a].status, d.gate}
  \cup (IF d.agent[a].status = "absent" THEN {} ELSE {d.policy[a][t]})
  \cup (IF d.tool[t] = "on" THEN {"tool"} ELSE {})
  \cup (IF d.integration = "on" THEN {"integration"} ELSE {})
  \cup (IF d.strict THEN {} ELSE {"lax"})

Someone == CHOOSE a \in Agents : TRUE
Something == CHOOSE t \in Tools : TRUE

NoRequest == [stage |-> "idle", agent |-> Someone, id |-> 0, tool |-> Something,
              call |-> 0, mode |-> "inherit", gate |-> "none",
              session |-> "none", enabled |-> FALSE, seen |-> {}]

\* A request that has only the status of its call left to write.
Closing(stage, i) == [NoRequest EXCEPT !.stage = stage, !.call = i]

\* Agents exist with the default policy: every tool, the integration's gate.
Init ==
  /\ db = [agent |-> [a \in Agents |-> [status |-> "active", id |-> 0]],
           policy |-> [a \in Agents |-> [t \in Tools |-> "inherit"]],
           integration |-> "on", tool |-> [t \in Tools |-> "on"],
           gate |-> "destructive", strict |-> FALSE]
  /\ pending = [i \in Ids |-> [status |-> "none", agent |-> Someone,
                               tool |-> Something]]
  /\ queued = 0 /\ minted = {} /\ bound = [c \in Callers |-> "none"]
  /\ req = [r \in Requests |-> NoRequest]
  /\ ran = [i \in Ids |-> 0] /\ logged = ran /\ cut = ran
  /\ overlap = {}
  /\ fuel = Budget

At(r, stage) == req[r].stage = stage
Become(r, new) == req' = [req EXCEPT ![r] = new]
Go(r, from, to) == At(r, from) /\ Become(r, [req[r] EXCEPT !.stage = to])
Holders(i) == {d \in Desks : ~ At(d, "idle") /\ req[d].call = i}

-----------------------------------------------------------------------------
(* An MCP request: authentication, policy, sessions, gate.                 *)

\* mcp_agent_auth_middleware: the token resolves to an agent, not revoked ...
Authenticate(c, a, t) ==
  /\ At(c, "idle") /\ db.agent[a].status = "active" /\ queued < MaxCalls
  /\ Become(c, [NoRequest EXCEPT !.stage = "policy", !.agent = a, !.tool = t,
                                 !.id = db.agent[a].id, !.seen = Facts(db, a, t)])
  /\ UNCHANGED <<db, pending, queued, sessions, history, fuel>>

\* get_agent_policy by the agent's id: no row, the default policy.
get_agent_policy(a, id, t) ==
  IF db.agent[a].status # "absent" /\ db.agent[a].id = id
  THEN db.policy[a][t] ELSE "inherit"

\* ... and its policy is read in a transaction of its own.
BindPolicy(c) ==
  LET r == req[c] IN
  /\ At(c, "policy") /\ c \in Callers
  /\ Become(c, [r EXCEPT !.stage = "called",
                         !.mode = get_agent_policy(r.agent, r.id, r.tool)])
  /\ UNCHANGED <<db, pending, queued, sessions, history, fuel>>

\* Bug: any id will do for a session.
session_problem_any(session) == session = "none"

\* session_problem: the id is one that session_begin made.
session_problem(session) == session # "minted"

\* call_tool refuses an unlisted tool; run_tool resolves the session, the one
\* named in the call or the one bound to the connection, and then reads the
\* integration.
CallTool(c, named) ==
  LET r == req[c]
      session == IF named = "none" THEN bound[c] ELSE named
  IN
  /\ At(c, "called")
  /\ named = "minted" => c \in minted
  /\ \/ /\ r.mode = "deny" \/ (db.strict /\ session_problem(session))
        /\ Become(c, NoRequest) /\ UNCHANGED bound
     \/ /\ r.mode # "deny" /\ (db.strict => ~ session_problem(session))
        /\ \/ /\ db.integration # "on"
              /\ Become(c, NoRequest) /\ bound' = [bound EXCEPT ![c] = session]
           \/ /\ db.integration = "on"
              /\ Become(c, [r EXCEPT !.stage = "tool", !.session = session,
                                     !.gate = db.gate])
              /\ UNCHANGED bound
  /\ UNCHANGED <<db, pending, queued, minted, history, fuel>>

\* Bug: the agent's own mode only loosens.
ShouldGateLoose(mode, gate, t) ==
  /\ mode # "ungated"
  /\ \/ gate = "all"
     \/ gate = "destructive" /\ Shape[t].destructive
     \/ Shape[t].alwaysGate

\* Whether a mutating call waits for an operator: the agent's mode over the
\* integration's, and a dry run never.
ShouldGate(mode, gate, t) ==
  /\ ~ Shape[t].dryRun
  /\ \/ mode = "gated"
     \/ /\ mode = "inherit"
        /\ \/ gate = "all"
           \/ gate = "destructive" /\ Shape[t].destructive
           \/ Shape[t].alwaysGate

\* A connection remembers the session of its last call.
Finish(c) ==
  /\ Become(c, NoRequest)
  /\ bound' = [bound EXCEPT ![c] = req[c].session]

\* _run_tool, from the tool row on: missing or disabled, a read-only tool asked
\* to write, a read, a preflight that fails, a call to queue, a call to run.
RunTool(c) ==
  LET r == req[c]
      s == Shape[r.tool]
      gated == ~ s.readOnly /\ ShouldGate(r.mode, r.gate, r.tool)
  IN
  /\ At(c, "tool")
  /\ \/ /\ \/ db.tool[r.tool] # "on"
           \/ s.readOnly /\ s.writes
           \/ gated /\ s.kind = "handler"
        /\ Finish(c)
     \/ /\ db.tool[r.tool] = "on" /\ ~ (s.readOnly /\ s.writes)
        /\ Become(c, IF gated
                      THEN [NoRequest EXCEPT !.stage = "queue", !.agent = r.agent,
                                             !.tool = r.tool, !.session = r.session]
                      ELSE [r EXCEPT !.stage = "exec", !.enabled = TRUE])
        /\ UNCHANGED bound
  /\ UNCHANGED <<db, pending, queued, minted, history, fuel>>

create_pending_call(c) ==
  /\ At(c, "queue") /\ queued < MaxCalls
  /\ queued' = queued + 1
  /\ pending' = [pending EXCEPT ![queued + 1] =
                   [status |-> "pending", agent |-> req[c].agent, tool |-> req[c].tool]]
  /\ Finish(c)
  /\ UNCHANGED <<db, minted, history, fuel>>

\* session_begin, a tool that every agent may call.
SessionBegin(c, a) ==
  /\ At(c, "idle") /\ db.agent[a].status = "active" /\ c \notin minted
  /\ queued < MaxCalls
  /\ minted' = minted \cup {c}
  /\ bound' = [bound EXCEPT ![c] = "minted"]
  /\ UNCHANGED <<db, pending, queued, req, history, fuel>>

-----------------------------------------------------------------------------
(* An operator decides a queued call.                                      *)

\* get_pending_call: anything but a pending row is 404.
ReadCall(d, i, verdict) ==
  /\ At(d, "idle") /\ pending[i].status = "pending"
  /\ Become(d, IF verdict = "deny" THEN Closing("refuse", i)
                ELSE [NoRequest EXCEPT
                        !.stage = "load", !.agent = pending[i].agent,
                        !.tool = pending[i].tool, !.call = i,
                        !.seen = Facts(db, pending[i].agent, pending[i].tool)])
  /\ overlap' = IF Holders(i) = {} THEN overlap ELSE overlap \cup {i}
  /\ UNCHANGED <<db, pending, queued, sessions, ran, logged, cut, fuel>>

\* Bug: only the integration is looked at.
ExecutorIntegration(t) == Shape[t].kind \in {"http", "generic"} => db.integration = "on"

\* What the executor of the tool's kind checks before it sends anything.
ExecutorEnabled(t) ==
  CASE Shape[t].kind = "http" -> db.integration = "on" /\ db.tool[t] = "on"
    [] Shape[t].kind = "generic" -> db.integration = "on"
    [] OTHER -> TRUE

Load(d) ==
  /\ IF db.integration = "gone" \/ db.tool[req[d].tool] = "gone"
     THEN At(d, "load") /\ Become(d, NoRequest)
     ELSE At(d, "load") /\ Become(d, [req[d] EXCEPT !.stage = "caller",
                                        !.enabled = ExecutorEnabled(req[d].tool)])
  /\ UNCHANGED <<db, pending, queued, sessions, history, fuel>>

\* Bug: the caller is not looked up again.
StillActiveOnce(a) == TRUE

\* _caller_agent: the agent of that name, whichever it is now ...
StillActive(a) == db.agent[a].status = "active"

_caller_agent(d) ==
  LET a == req[d].agent IN
  /\ At(d, "caller")
  /\ Become(d, IF StillActive(a)
                THEN [req[d] EXCEPT !.stage = "policy", !.id = db.agent[a].id]
                ELSE Closing("refuse", req[d].call))
  /\ UNCHANGED <<db, pending, queued, sessions, history, fuel>>

\* ... and its policy now.
Judge(d) ==
  LET r == req[d]
      mode == get_agent_policy(r.agent, r.id, r.tool)
  IN
  /\ At(d, "policy") /\ d \in Desks
  /\ Become(d, IF mode = "deny" THEN Closing("refuse", r.call)
                ELSE [r EXCEPT !.stage = "exec"])
  /\ UNCHANGED <<db, pending, queued, sessions, history, fuel>>

\* Bugs: a refusal, or an approval, leaves the row as it is.
ResolveApproved(i, status) ==
  pending' = [pending EXCEPT ![i].status =
                IF @ = "gone" \/ status = "denied" THEN @ ELSE status]
ResolveDenied(i, status) ==
  pending' = [pending EXCEPT ![i].status =
                IF @ = "gone" \/ status = "approved" THEN @ ELSE status]

\* set_pending_call_status: an UPDATE by id, whatever the status was; no row, no
\* effect.  Secrets in the payload are replaced in the same statement.
Resolve(i, status) ==
  pending' = [pending EXCEPT ![i].status = IF @ = "gone" THEN @ ELSE status]

\* Denied, by the operator or by the policy.
Refuse(d) ==
  /\ At(d, "refuse")
  /\ Resolve(req[d].call, "denied")
  /\ Become(d, NoRequest)
  /\ UNCHANGED <<db, queued, sessions, history, fuel>>

Settle(d) ==
  /\ At(d, "settle")
  /\ Resolve(req[d].call, "approved")
  /\ Become(d, NoRequest)
  /\ UNCHANGED <<db, queued, sessions, history, fuel>>

-----------------------------------------------------------------------------
(* The upstream call, the same for both.                                   *)

Count(counter, r) ==
  counter' = IF req[r].call = 0 THEN counter
             ELSE [counter EXCEPT ![req[r].call] = @ + 1]

\* The request is sent, or the executor refuses a disabled one.
Execute(r) ==
  /\ \/ req[r].enabled /\ Go(r, "exec", "ran") /\ Count(ran, r)
     \/ /\ ~ req[r].enabled /\ At(r, "exec")
        /\ Become(r, Closing("settle", req[r].call))
        /\ UNCHANGED ran
  /\ UNCHANGED <<db, pending, queued, sessions, logged, cut, overlap, fuel>>

\* Bug: only calls that ran at once are recorded.
record_auto_call(r) ==
  /\ At(r, "ran")
  /\ IF r \in Callers THEN Finish(r)
     ELSE Become(r, Closing("settle", req[r].call)) /\ UNCHANGED bound
  /\ UNCHANGED <<db, pending, queued, minted, ran, logged, cut, overlap, fuel>>

\* record_integration_call, whether upstream answered or failed.
record_integration_call(r) ==
  /\ At(r, "ran")
  /\ Count(logged, r)
  /\ IF r \in Callers THEN Finish(r)
     ELSE Become(r, Closing("settle", req[r].call)) /\ UNCHANGED bound
  /\ UNCHANGED <<db, pending, queued, minted, ran, cut, overlap, fuel>>

-----------------------------------------------------------------------------
(* Changes of the configuration, and faults.                               *)

\* Bug: no bound.
SpendAlways(event) == event \in Events /\ fuel' = fuel - 1

Spend(event) == event \in Events /\ fuel > 0 /\ fuel' = fuel - 1

Configure(new) ==
  /\ db' = new
  /\ req' = [r \in Requests |->
       IF req[r].stage \in {"idle", "queue", "ran", "settle", "refuse"} THEN req[r]
       ELSE [req[r] EXCEPT !.seen = @ \cup Facts(new, req[r].agent, req[r].tool)]]
  /\ UNCHANGED <<sessions, history>>

\* Create, revoke or delete an agent token: a new one has no policy row.
SetAgent(a, status) ==
  LET old == db.agent[a] IN
  /\ Spend("agent")
  /\ \/ status = "active" /\ old.status = "absent"
        /\ Configure([db EXCEPT !.agent[a] = [status |-> "active", id |-> old.id + 1],
                                !.policy[a] = [t \in Tools |-> "inherit"]])
     \/ status = "revoked" /\ old.status = "active"
        /\ Configure([db EXCEPT !.agent[a].status = "revoked"])
     \/ status = "absent" /\ old.status # "absent"
        /\ Configure([db EXCEPT !.agent[a].status = "absent"])
  /\ UNCHANGED <<pending, queued>>

SetPolicy(a, t, mode) ==
  /\ db.agent[a].status # "absent" /\ db.policy[a][t] # mode /\ Spend("policy")
  /\ Configure([db EXCEPT !.policy[a][t] = mode])
  /\ UNCHANGED <<pending, queued>>

\* Toggle, delete or create a tool.
SetTool(t, state) ==
  /\ db.tool[t] # state /\ db.integration # "gone"
  /\ db.tool[t] = "gone" => state = "on"
  /\ Spend("tool")
  /\ Configure([db EXCEPT !.tool[t] = state])
  /\ UNCHANGED <<pending, queued>>

\* Toggle the integration; deleting it deletes its tools and queued calls.
SetIntegration(state) ==
  /\ db.integration # state
  /\ db.integration = "gone" => state = "on"
  /\ Spend("integration")
  /\ IF state = "gone"
     THEN /\ Configure([db EXCEPT !.integration = "gone",
                                  !.tool = [t \in Tools |-> "gone"]])
          /\ pending' = [i \in Ids |-> [pending[i] EXCEPT !.status =
                                          IF @ = "none" THEN @ ELSE "gone"]]
     ELSE Configure([db EXCEPT !.integration = state]) /\ UNCHANGED pending
  /\ UNCHANGED queued

SetGate(gate) ==
  /\ db.gate # gate /\ Spend("gate")
  /\ Configure([db EXCEPT !.gate = gate])
  /\ UNCHANGED <<pending, queued>>

SetStrict(b) ==
  /\ db.strict # b /\ Spend("strict")
  /\ Configure([db EXCEPT !.strict = b])
  /\ UNCHANGED <<pending, queued>>

\* The daily purge deletes old rows, decided or not.
Purge(i) ==
  /\ pending[i].status \notin {"none", "gone"} /\ Spend("purge")
  /\ pending' = [pending EXCEPT ![i].status = "gone"]
  /\ UNCHANGED <<db, queued, sessions, req, history>>

\* Threads that die: their runs are not recorded, their calls not settled.
Lost(dead) ==
  /\ cut' = [i \in Ids |-> cut[i] +
               Cardinality({r \in dead : At(r, "ran") /\ req[r].call = i})]
  /\ overlap' = overlap \cup {i \in Ids : dead \cap Holders(i) # {}}
  /\ req' = [r \in Requests |-> IF r \in dead THEN NoRequest ELSE req[r]]

\* A WebSocket that times out raises what execute_ws_call does not catch.
Raise(r) ==
  /\ At(r, "ran") /\ Shape[req[r].tool].kind = "ws" /\ Spend("raise")
  /\ Lost({r})
  /\ UNCHANGED <<db, pending, queued, sessions, ran, logged>>

\* The dashboard restarts: connections forget their sessions too.
Down ==
  /\ Spend("down")
  /\ Lost(Requests)
  /\ bound' = [c \in Callers |-> "none"]
  /\ UNCHANGED <<db, pending, queued, minted, ran, logged>>

-----------------------------------------------------------------------------
Call(c) ==
  \/ \E a \in Agents, t \in Tools : Authenticate(c, a, t)
  \/ \E a \in Agents : SessionBegin(c, a)
  \/ BindPolicy(c)
  \/ \E named \in Sessions : CallTool(c, named)
  \/ RunTool(c) \/ create_pending_call(c)

Decide(d) == Load(d) \/ _caller_agent(d) \/ Judge(d) \/ Refuse(d) \/ Settle(d)

Upstream(r) == Execute(r) \/ record_integration_call(r)

Operator ==
  \/ \E a \in Agents : \/ \E status \in {"active", "revoked", "absent"} : SetAgent(a, status)
                       \/ \E t \in Tools, mode \in Modes : SetPolicy(a, t, mode)
  \/ \E state \in {"on", "off", "gone"} :
       SetIntegration(state) \/ \E t \in Tools : SetTool(t, state)
  \/ \E gate \in Gates : SetGate(gate)
  \/ \E b \in BOOLEAN : SetStrict(b)

Next ==
  \/ \E c \in Callers : Call(c)
  \/ \E d \in Desks : \/ Decide(d)
                      \/ \E i \in Ids, verdict \in {"approve", "deny"} : ReadCall(d, i, verdict)
  \/ \E r \in Requests : Upstream(r) \/ Raise(r)
  \/ Operator
  \/ \E i \in Ids : Purge(i)
  \/ Down

Spec == Init /\ [][Next]_vars

\* Threads finish what they began; nobody has to begin anything.
FairSpec == Spec /\ \A d \in Desks : WF_vars(Decide(d) \/ Upstream(d))

-----------------------------------------------------------------------------
(* What must hold.                                                         *)

\* What runs for an agent runs for an active one, with a policy that allows the
\* call, each so at some instant between the start of the request and the run: a
\* revocation or a tightened policy reaches the calls queued before it.  The two
\* are read apart: an agent deleted in between has the default policy.
AllowedAtSomeTime ==
  \A r \in Requests : At(r, "ran") =>
    /\ "active" \in req[r].seen
    /\ req[r].seen \cap {"inherit", "gated", "ungated", "absent"} # {}

\* A write runs without an operator only if a policy and a gate mode, each in
\* force at some instant of the request, let it; and never through a read-only
\* tool.
UngatedAtSomeTime ==
  \A c \in Callers :
    LET r == req[c]
        s == Shape[r.tool]
    IN
    (At(c, "ran") /\ s.writes /\ ~ s.dryRun) =>
      /\ ~ s.readOnly
      /\ \/ "ungated" \in r.seen
         \/ /\ {"inherit", "absent"} \cap r.seen # {} /\ ~ s.alwaysGate
            /\ "none" \in r.seen \/ ("destructive" \in r.seen /\ ~ s.destructive)

\* In strict mode a call runs inside a session of session_begin, whatever other
\* ids its connection named before and whatever a restart made it forget.
GroupedWhenStrict ==
  \A c \in Callers :
    (At(c, "ran") /\ "lax" \notin req[c].seen) => req[c].session = "minted"

\* What was disabled when a request began and until its run does not run; an
\* approved call over a WebSocket or of a curated handler is not held back.
DisabledNeverRuns ==
  \A r \in Requests : At(r, "ran") =>
    LET kind == Shape[req[r].tool].kind IN
    /\ (r \in Callers \/ kind \in {"http", "generic"}) => "integration" \in req[r].seen
    /\ (r \in Callers \/ kind = "http") => "tool" \in req[r].seen

\* A queued call is sent upstream twice, or sent and denied, only if two requests
\* held it at once or one died on the way.
OnlyOverlapRepeats ==
  \A i \in Ids \ overlap :
    /\ ran[i] <= 1
    /\ pending[i].status = "denied" => ran[i] = 0

\* Every run of a queued call has its audit row, but for the thread that is
\* between the two or died there.
EveryRunLogged ==
  \A i \in Ids :
    ran[i] = logged[i] + cut[i] +
             Cardinality({d \in Desks : At(d, "ran") /\ req[d].call = i})

\* A decision that was begun is reached: the call is pending no more, unless its
\* tool is gone or something was changed or broke meanwhile.
DecisionReached ==
  \A d \in Desks, i \in Ids :
    (req[d].call = i /\ fuel = 0) ~>
      (pending[i].status # "pending" \/ db.tool[pending[i].tool] = "gone")

-----------------------------------------------------------------------------
(* What the comments say, and the code does not do.                        *)

\* "Denied calls never execute" (main.py, _record_integration_denied).
DeniedNeverRuns == \A i \in Ids : pending[i].status = "denied" => ran[i] = 0
=============================================================================
