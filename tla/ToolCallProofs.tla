--------------------------- MODULE ToolCallProofs ---------------------------
(***************************************************************************)
(* What runs for an agent, for every number of agents, tools, connections,  *)
(* operators and changes of the configuration.                              *)
(***************************************************************************)
EXTENDS ToolCall, FiniteSetTheorems, TLAPS

-----------------------------------------------------------------------------
(* The inductive invariant.  A request is judged by the configuration d and *)
(* its own record x alone, so a step of another request does not disturb it.*)

Live(x) == x.stage \in {"policy", "called", "tool", "load", "caller", "exec"}

\* The agent is still the one that was looked up, or was absent meanwhile.
SameAgent(d, x) == d.agent[x.agent].id = x.id \/ "absent" \in x.seen

\* The mode was in force, or is the default of an agent that was absent.
ModeSeen(x) == x.mode \in x.seen \/ (x.mode = "inherit" /\ "absent" \in x.seen)

\* What stands between a write and its run without an operator.
Unguarded(x) ==
  LET s == Shape[x.tool] IN
  /\ ~ (s.readOnly /\ s.writes)
  /\ s.readOnly \/ ~ ShouldGate(x.mode, x.gate, x.tool)

GoodCaller(d, x) ==
  /\ x.call = 0 /\ x.stage \in {"idle", "policy", "called", "tool", "queue", "exec", "ran"}
  /\ x.stage \in {"policy", "called", "tool", "exec", "ran"} => "active" \in x.seen
  /\ x.stage = "policy" => SameAgent(d, x)
  /\ x.stage \in {"called", "tool", "exec", "ran"} => ModeSeen(x)
  /\ x.stage \in {"tool", "exec", "ran"} =>
       /\ x.mode # "deny" /\ x.gate \in x.seen /\ "integration" \in x.seen
       /\ x.session = "minted" \/ "lax" \in x.seen
  /\ x.stage \in {"exec", "ran"} => "tool" \in x.seen /\ Unguarded(x)
  /\ x.stage = "exec" => x.enabled

EnabledSeen(x) ==
  /\ Shape[x.tool].kind \in {"http", "generic"} => "integration" \in x.seen
  /\ Shape[x.tool].kind = "http" => "tool" \in x.seen

GoodDesk(d, x) ==
  /\ x.stage \in {"idle", "load", "caller", "policy", "exec", "ran", "settle", "refuse"}
  /\ x.stage # "idle" => x.call \in Ids
  /\ x.stage \in {"policy", "exec", "ran"} => "active" \in x.seen
  /\ x.stage = "policy" => SameAgent(d, x)
  /\ x.stage \in {"exec", "ran"} => x.seen \cap {"inherit", "gated", "ungated", "absent"} # {}
  /\ (x.stage \in {"caller", "policy", "exec"} /\ x.enabled) \/ x.stage = "ran" => EnabledSeen(x)

Good(d, r, x) ==
  /\ Live(x) => Facts(d, x.agent, x.tool) \subseteq x.seen
  /\ r \in Callers => GoodCaller(d, x)
  /\ r \in Desks => GoodDesk(d, x)

RequestsGood == \A r \in Requests : Good(db, r, req[r])

\* What the table says of a call and how often it was sent.
CallGood(i) ==
  /\ i > queued => pending[i].status = "none"
  /\ pending[i].status = "none" => ran[i] = 0 /\ Holders(i) = {}
  /\ i \notin overlap =>
       /\ \A d, e \in Holders(i) : d = e
       /\ \A d \in Holders(i) :
            /\ pending[i].status \in {"pending", "gone"}
            /\ ~ At(d, "ran") /\ ~ At(d, "settle") => ran[i] = 0
       /\ ran[i] <= 1
       /\ pending[i].status \in {"pending", "denied"} /\ Holders(i) = {} => ran[i] = 0

CallsGood == \A i \in Ids : CallGood(i)

IInv == TypeOK /\ RequestsGood /\ CallsGood /\ EveryRunLogged

-----------------------------------------------------------------------------
(* Types.                                                                  *)

LEMMA Elements == Someone \in Agents /\ Something \in Tools
  BY ConstantsAssumption DEF Someone, Something

LEMMA NoRequestType == NoRequest \in Request
  BY Elements, ConstantsAssumption DEF NoRequest, Request, Gates, Modes, Sessions

LEMMA ClosingType ==
  ASSUME NEW i \in 0..MaxCalls, NEW stage \in {"refuse", "settle"}
  PROVE  Closing(stage, i) \in Request
  BY NoRequestType DEF Closing, NoRequest, Request

LEMMA FactsType ==
  ASSUME NEW d \in Config, NEW a \in Agents, NEW t \in Tools
  PROVE  Facts(d, a, t) \subseteq (Modes \cup Gates \cup {"active", "revoked", "absent",
                                                       "tool", "integration", "lax"})
  BY DEF Facts, Config

LEMMA BecomeType ==
  ASSUME TypeOK, NEW r \in Requests, NEW x \in Request, Become(r, x)
  PROVE  req' \in [Requests -> Request]
  BY DEF TypeOK, Become

LEMMA InitType == Init => TypeOK
<1> SUFFICES ASSUME Init PROVE TypeOK
  OBVIOUS
<1>1. db \in Config
  BY DEF Init, Config, Modes, Gates
<1>2. req \in [Requests -> Request]
  BY NoRequestType DEF Init
<1>3. pending \in [Ids -> Row]
  BY Elements DEF Init, Row
<1> QED
  BY <1>1, <1>2, <1>3, ConstantsAssumption DEF Init, TypeOK, Sessions

LEMMA ConfigureType ==
  ASSUME TypeOK, NEW new \in Config, Configure(new)
  PROVE  db' \in Config /\ req' \in [Requests -> Request]
<1>1. ASSUME NEW r \in Requests
      PROVE  [req[r] EXCEPT !.seen = @ \cup Facts(new, req[r].agent, req[r].tool)] \in Request
  <2>1. req[r] \in Request /\ req[r].agent \in Agents /\ req[r].tool \in Tools
    BY DEF TypeOK, Request
  <2>2. Facts(new, req[r].agent, req[r].tool)
          \subseteq (Modes \cup Gates \cup {"active", "revoked", "absent", "tool", "integration", "lax"})
    BY <2>1, FactsType
  <2> QED
    BY <2>1, <2>2 DEF Request
<1> QED
  BY <1>1 DEF TypeOK, Configure

LEMMA LostType ==
  ASSUME TypeOK, NEW dead \in SUBSET Requests, Lost(dead)
  PROVE  /\ req' \in [Requests -> Request] /\ cut' \in [Ids -> Nat]
         /\ overlap' \in SUBSET Ids
<1>1. ASSUME NEW i \in Ids
      PROVE  Cardinality({r \in dead : At(r, "ran") /\ req[r].call = i}) \in Nat
  <2>1. IsFiniteSet(Requests)
    BY ConstantsAssumption, FS_Union DEF Requests
  <2>2. IsFiniteSet({r \in dead : At(r, "ran") /\ req[r].call = i})
    BY <2>1, FS_Subset
  <2> QED
    BY <2>2, FS_CardinalityType
<1> QED
  BY <1>1, NoRequestType DEF TypeOK, Lost

LEMMA SpendType ==
  ASSUME TypeOK, NEW event, Spend(event)
  PROVE  fuel' \in 0..Budget
  BY ConstantsAssumption DEF TypeOK, Spend

LEMMA ConfigureKeeps ==
  ASSUME TypeOK, NEW new \in Config, NEW event, Configure(new), Spend(event),
         pending' \in [Ids -> Row], queued' = queued
  PROVE  TypeOK'
<1>1. db' \in Config /\ req' \in [Requests -> Request]
  BY ConfigureType
<1>2. fuel' \in 0..Budget
  BY SpendType
<1>3. UNCHANGED <<minted, bound, ran, logged, cut, overlap>>
  BY DEF Configure, sessions, history
<1> QED
  BY <1>1, <1>2, <1>3 DEF TypeOK

LEMMA TypeStep == TypeOK /\ [Next]_vars => TypeOK'
<1> SUFFICES ASSUME TypeOK, [Next]_vars PROVE TypeOK'
  OBVIOUS
<1> USE DEF sessions, history
<1>u. CASE UNCHANGED vars
  BY <1>u DEF TypeOK, vars
<1>1. ASSUME NEW c \in Callers, NEW a \in Agents, NEW t \in Tools, Authenticate(c, a, t)
      PROVE TypeOK'
  <2> DEFINE x == [NoRequest EXCEPT !.stage = "policy", !.agent = a, !.tool = t,
                                    !.id = db.agent[a].id, !.seen = Facts(db, a, t)]
  <2>1. db \in Config
    BY DEF TypeOK
  <2>2. db.agent[a].id \in Nat
    BY <2>1 DEF Config
  <2>3. x \in Request
    BY NoRequestType, <2>1, <2>2, FactsType DEF Request, NoRequest
  <2> QED
    BY <1>1, <2>3, BecomeType DEF TypeOK, Authenticate, Requests
<1>2. ASSUME NEW c \in Callers, NEW a \in Agents, SessionBegin(c, a)
      PROVE TypeOK'
  BY <1>2 DEF TypeOK, SessionBegin, Sessions
<1>3. ASSUME NEW c \in Callers, BindPolicy(c)
      PROVE TypeOK'
  <2> DEFINE m == get_agent_policy(req[c].agent, req[c].id, req[c].tool)
  <2>1. req[c] \in Request /\ db \in Config
    BY DEF TypeOK, Requests
  <2>2. m \in Modes
    BY <2>1 DEF get_agent_policy, Config, Request, Modes
  <2>3. [req[c] EXCEPT !.stage = "called", !.mode = m] \in Request
    BY <2>1, <2>2 DEF Request
  <2> QED
    BY <1>3, <2>3, BecomeType DEF TypeOK, BindPolicy, Requests
<1>4. ASSUME NEW c \in Callers, NEW named \in Sessions, CallTool(c, named)
      PROVE TypeOK'
  <2> DEFINE session == IF named = "none" THEN bound[c] ELSE named
             x == [req[c] EXCEPT !.stage = "tool", !.session = session, !.gate = db.gate]
  <2>1. req[c] \in Request /\ db \in Config /\ session \in Sessions
    BY DEF TypeOK, Requests
  <2>2. x \in Request
    BY <2>1 DEF Request, Config
  <2>3. req' = [req EXCEPT ![c] = NoRequest] \/ req' = [req EXCEPT ![c] = x]
    BY <1>4 DEF CallTool, Become
  <2>4. bound' \in [Callers -> Sessions]
    BY <1>4, <2>1 DEF CallTool, TypeOK
  <2> QED
    BY <1>4, <2>2, <2>3, <2>4, NoRequestType DEF TypeOK, CallTool, Requests
<1>5. ASSUME NEW c \in Callers, RunTool(c)
      PROVE TypeOK'
  <2> DEFINE r == req[c]
             x == [NoRequest EXCEPT !.stage = "queue", !.agent = r.agent,
                                    !.tool = r.tool, !.session = r.session]
             y == [r EXCEPT !.stage = "exec", !.enabled = TRUE]
  <2>1. r \in Request /\ r.session \in Sessions
    BY DEF TypeOK, Requests, Request
  <2>2. x \in Request /\ y \in Request
    BY <2>1, NoRequestType DEF Request, NoRequest
  <2>3. /\ \/ req' = [req EXCEPT ![c] = NoRequest] \/ req' = [req EXCEPT ![c] = x]
           \/ req' = [req EXCEPT ![c] = y]
        /\ bound' = bound \/ bound' = [bound EXCEPT ![c] = r.session]
    BY <1>5 DEF RunTool, Become, Finish
  <2> QED
    BY <1>5, <2>1, <2>2, <2>3, NoRequestType DEF TypeOK, RunTool, Requests
<1>6. ASSUME NEW c \in Callers, create_pending_call(c)
      PROVE TypeOK'
  <2> DEFINE row == [status |-> "pending", agent |-> req[c].agent, tool |-> req[c].tool]
  <2>1. req[c] \in Request
    BY DEF TypeOK, Requests
  <2>2. row \in Row /\ req[c].session \in Sessions
    BY <2>1 DEF Request, Row
  <2>3. queued + 1 \in 0..MaxCalls
    BY <1>6, ConstantsAssumption DEF create_pending_call, TypeOK
  <2> QED
    BY <1>6, <2>2, <2>3, NoRequestType, ConstantsAssumption
    DEF TypeOK, create_pending_call, Finish, Become, Requests
<1>7. ASSUME NEW d \in Desks, NEW i \in Ids, NEW verdict \in {"approve", "deny"},
             ReadCall(d, i, verdict)
      PROVE TypeOK'
  <2> DEFINE x == [NoRequest EXCEPT
                     !.stage = "load", !.agent = pending[i].agent, !.tool = pending[i].tool,
                     !.call = i, !.seen = Facts(db, pending[i].agent, pending[i].tool)]
  <2>1. db \in Config /\ pending[i] \in Row /\ i \in 0..MaxCalls
    BY DEF TypeOK, Ids
  <2>2. pending[i].agent \in Agents /\ pending[i].tool \in Tools
    BY <2>1 DEF Row
  <2>3. x \in Request
    BY <2>1, <2>2, FactsType, NoRequestType DEF Request, NoRequest
  <2>4. Closing("refuse", i) \in Request
    BY <2>1, ClosingType
  <2>5. req' = [req EXCEPT ![d] = x] \/ req' = [req EXCEPT ![d] = Closing("refuse", i)]
    BY <1>7 DEF ReadCall, Become
  <2>6. overlap' \in SUBSET Ids
    BY <1>7 DEF ReadCall, TypeOK
  <2> QED
    BY <1>7, <2>3, <2>4, <2>5, <2>6 DEF TypeOK, ReadCall, Requests
<1>8. ASSUME NEW d \in Desks, Load(d)
      PROVE TypeOK'
  <2> DEFINE x == [req[d] EXCEPT !.stage = "caller", !.enabled = ExecutorEnabled(req[d].tool)]
  <2>1. req[d] \in Request /\ db \in Config
    BY DEF TypeOK, Requests
  <2>2. ExecutorEnabled(req[d].tool) \in BOOLEAN
    BY <2>1, ConstantsAssumption DEF ExecutorEnabled, Request, ToolShape
  <2>3. x \in Request
    BY <2>1, <2>2 DEF Request
  <2>4. req' = [req EXCEPT ![d] = x] \/ req' = [req EXCEPT ![d] = NoRequest]
    BY <1>8 DEF Load, Become
  <2> QED
    BY <1>8, <2>3, <2>4, NoRequestType DEF TypeOK, Load, Requests
<1>9. ASSUME NEW d \in Desks, _caller_agent(d)
      PROVE TypeOK'
  <2> DEFINE x == [req[d] EXCEPT !.stage = "policy", !.id = db.agent[req[d].agent].id]
  <2>1. req[d] \in Request /\ db \in Config
    BY DEF TypeOK, Requests
  <2>2. x \in Request /\ req[d].call \in 0..MaxCalls
    BY <2>1 DEF Request, Config
  <2>3. req' = [req EXCEPT ![d] = x] \/ req' = [req EXCEPT ![d] = Closing("refuse", req[d].call)]
    BY <1>9 DEF _caller_agent, Become
  <2> QED
    BY <1>9, <2>2, <2>3, ClosingType DEF TypeOK, _caller_agent, Requests
<1>10. ASSUME NEW d \in Desks, Judge(d)
       PROVE TypeOK'
  <2>1. req[d] \in Request
    BY DEF TypeOK, Requests
  <2>2. req[d].call \in 0..MaxCalls /\ [req[d] EXCEPT !.stage = "exec"] \in Request
    BY <2>1 DEF Request
  <2>3. \/ req' = [req EXCEPT ![d] = [req[d] EXCEPT !.stage = "exec"]]
        \/ req' = [req EXCEPT ![d] = Closing("refuse", req[d].call)]
    BY <1>10 DEF Judge, Become
  <2> QED
    BY <1>10, <2>2, <2>3, ClosingType DEF TypeOK, Judge, Requests
<1>11. ASSUME NEW d \in Desks, Refuse(d) \/ Settle(d)
       PROVE TypeOK'
  <2>1. pending' \in [Ids -> Row]
    BY <1>11 DEF TypeOK, Refuse, Settle, Resolve, Row
  <2> QED
    BY <1>11, <2>1, NoRequestType DEF TypeOK, Refuse, Settle, Become, Requests
<1>12. ASSUME NEW r \in Requests, Execute(r)
       PROVE TypeOK'
  <2>1. req[r] \in Request
    BY DEF TypeOK
  <2>2. req[r].call \in 0..MaxCalls /\ [req[r] EXCEPT !.stage = "ran"] \in Request
    BY <2>1 DEF Request
  <2>3. \/ req' = [req EXCEPT ![r] = [req[r] EXCEPT !.stage = "ran"]]
        \/ req' = [req EXCEPT ![r] = Closing("settle", req[r].call)]
    BY <1>12 DEF Execute, Go, Become
  <2>4. ran' \in [Ids -> Nat]
    BY <1>12 DEF Execute, Count, TypeOK
  <2> QED
    BY <1>12, <2>2, <2>3, <2>4, ClosingType DEF TypeOK, Execute
<1>13. ASSUME NEW r \in Requests, record_integration_call(r)
       PROVE TypeOK'
  <2>1. req[r] \in Request
    BY DEF TypeOK
  <2>2. req[r].call \in 0..MaxCalls /\ req[r].session \in Sessions
    BY <2>1 DEF Request
  <2>3. \/ req' = [req EXCEPT ![r] = NoRequest]
        \/ req' = [req EXCEPT ![r] = Closing("settle", req[r].call)]
    BY <1>13 DEF record_integration_call, Finish, Become
  <2>4. logged' \in [Ids -> Nat]
    <3>1. Count(logged, r)
      BY <1>13 DEF record_integration_call
    <3>2. logged \in [Ids -> Nat]
      BY DEF TypeOK
    <3>3. logged' = logged \/ logged' = [logged EXCEPT ![req[r].call] = @ + 1]
      BY <3>1 DEF Count
    <3> QED
      BY <3>2, <3>3
  <2>5. bound' \in [Callers -> Sessions]
    <3>1. CASE r \in Callers
      BY <1>13, <2>2, <3>1 DEF record_integration_call, Finish, TypeOK
    <3>2. CASE r \notin Callers
      BY <1>13, <3>2 DEF record_integration_call, TypeOK
    <3> QED
      BY <3>1, <3>2
  <2> QED
    BY <1>13, <2>2, <2>3, <2>4, <2>5, ClosingType, NoRequestType DEF TypeOK, record_integration_call
<1>14. ASSUME NEW r \in Requests, Raise(r)
       PROVE TypeOK'
  <2>1. Lost({r})
    BY <1>14 DEF Raise
  <2>2. req' \in [Requests -> Request] /\ cut' \in [Ids -> Nat] /\ overlap' \in SUBSET Ids
    BY <2>1, LostType
  <2>3. fuel' \in 0..Budget
    BY <1>14, SpendType DEF Raise
  <2> QED
    BY <1>14, <2>2, <2>3 DEF TypeOK, Raise
<1>15. CASE Down
  <2>1. Lost(Requests)
    BY <1>15 DEF Down
  <2>2. req' \in [Requests -> Request] /\ cut' \in [Ids -> Nat] /\ overlap' \in SUBSET Ids
    BY <2>1, LostType
  <2>3. fuel' \in 0..Budget
    BY <1>15, SpendType DEF Down
  <2>4. bound' \in [Callers -> Sessions]
    BY <1>15 DEF Down, Sessions
  <2> QED
    BY <1>15, <2>2, <2>3, <2>4 DEF TypeOK, Down
<1>16. CASE Operator
  <2>1. db \in Config
    BY DEF TypeOK
  <2>2. ASSUME NEW a \in Agents, NEW status \in {"active", "revoked", "absent"},
               SetAgent(a, status)
        PROVE TypeOK'
    <3> DEFINE old == db.agent[a]
               d1 == [db EXCEPT !.agent[a] = [status |-> "active", id |-> old.id + 1],
                                !.policy[a] = [t \in Tools |-> "inherit"]]
               d2 == [db EXCEPT !.agent[a].status = "revoked"]
               d3 == [db EXCEPT !.agent[a].status = "absent"]
    <3>1. old.id \in Nat /\ old.status \in {"active", "revoked", "absent"}
      BY <2>1 DEF Config
    <3>2. d1 \in Config
      <4>1. [db.agent EXCEPT ![a] = [status |-> "active", id |-> old.id + 1]]
              \in [Agents -> [status : {"active", "revoked", "absent"}, id : Nat]]
        BY <2>1, <3>1 DEF Config
      <4>2. [db.policy EXCEPT ![a] = [t \in Tools |-> "inherit"]] \in [Agents -> [Tools -> Modes]]
        BY <2>1 DEF Config, Modes
      <4> QED
        BY <2>1, <4>1, <4>2 DEF Config
    <3>3. d2 \in Config /\ d3 \in Config
      <4>1. ASSUME NEW x \in {"revoked", "absent"}
            PROVE [db EXCEPT !.agent[a].status = x] \in Config
        <5>1. [db.agent EXCEPT ![a].status = x]
                \in [Agents -> [status : {"active", "revoked", "absent"}, id : Nat]]
          BY <2>1 DEF Config
        <5> QED
          BY <2>1, <5>1 DEF Config
      <4> QED
        BY <4>1
    <3>4. Configure(d1) \/ Configure(d2) \/ Configure(d3)
      BY <2>2 DEF SetAgent
    <3>5. Spend("agent") /\ pending' = pending /\ queued' = queued /\ pending \in [Ids -> Row]
      BY <2>2 DEF SetAgent, TypeOK
    <3> HIDE DEF old, d1, d2, d3
    <3> QED
      BY <3>2, <3>3, <3>4, <3>5, ConfigureKeeps
  <2>3. ASSUME NEW a \in Agents, NEW t \in Tools, NEW mode \in Modes, SetPolicy(a, t, mode)
        PROVE TypeOK'
    <3>1. [db EXCEPT !.policy[a][t] = mode] \in Config
      BY <2>1 DEF Config
    <3>2. /\ Configure([db EXCEPT !.policy[a][t] = mode]) /\ Spend("policy")
          /\ pending' \in [Ids -> Row] /\ queued' = queued
      BY <2>3 DEF SetPolicy, TypeOK
    <3> QED
      BY <3>1, <3>2, ConfigureKeeps
  <2>4. ASSUME NEW t \in Tools, NEW state \in {"on", "off", "gone"}, SetTool(t, state)
        PROVE TypeOK'
    <3>1. [db EXCEPT !.tool[t] = state] \in Config
      BY <2>1 DEF Config
    <3>2. /\ Configure([db EXCEPT !.tool[t] = state]) /\ Spend("tool")
          /\ pending' \in [Ids -> Row] /\ queued' = queued
      BY <2>4 DEF SetTool, TypeOK
    <3> QED
      BY <3>1, <3>2, ConfigureKeeps
  <2>5. ASSUME NEW state \in {"on", "off", "gone"}, SetIntegration(state)
        PROVE TypeOK'
    <3> DEFINE d1 == [db EXCEPT !.integration = "gone", !.tool = [t \in Tools |-> "gone"]]
               d2 == [db EXCEPT !.integration = state]
    <3>1. d1 \in Config /\ d2 \in Config
      BY <2>1 DEF Config
    <3>2. Configure(d1) \/ Configure(d2)
      BY <2>5 DEF SetIntegration
    <3>3. pending' \in [Ids -> Row]
      <4>1. ASSUME NEW i \in Ids, NEW s \in {"none", "pending", "approved", "denied", "gone"}
            PROVE [pending[i] EXCEPT !.status = s] \in Row
        <5>1. pending[i] \in Row
          BY DEF TypeOK
        <5> QED
          BY <5>1 DEF Row
      <4>2. \A i \in Ids : pending[i].status \in {"none", "pending", "approved", "denied", "gone"}
        BY DEF TypeOK, Row
      <4>3. CASE UNCHANGED pending
        BY <4>3 DEF TypeOK
      <4>4. CASE pending' = [i \in Ids |-> [pending[i] EXCEPT
                    !.status = IF pending[i].status = "none" THEN @ ELSE "gone"]]
        BY <4>1, <4>2, <4>4
      <4> QED
        BY <2>5, <4>3, <4>4 DEF SetIntegration
    <3>4. Spend("integration") /\ queued' = queued
      BY <2>5 DEF SetIntegration
    <3> QED
      BY <3>1, <3>2, <3>3, <3>4, ConfigureKeeps
  <2>6. ASSUME NEW gate \in Gates, SetGate(gate)
        PROVE TypeOK'
    <3>1. [db EXCEPT !.gate = gate] \in Config
      BY <2>1 DEF Config
    <3>2. /\ Configure([db EXCEPT !.gate = gate]) /\ Spend("gate")
          /\ pending' \in [Ids -> Row] /\ queued' = queued
      BY <2>6 DEF SetGate, TypeOK
    <3> QED
      BY <3>1, <3>2, ConfigureKeeps
  <2>7. ASSUME NEW b \in BOOLEAN, SetStrict(b)
        PROVE TypeOK'
    <3>1. [db EXCEPT !.strict = b] \in Config
      BY <2>1 DEF Config
    <3>2. /\ Configure([db EXCEPT !.strict = b]) /\ Spend("strict")
          /\ pending' \in [Ids -> Row] /\ queued' = queued
      BY <2>7 DEF SetStrict, TypeOK
    <3> QED
      BY <3>1, <3>2, ConfigureKeeps
  <2> QED
    BY <1>16, <2>2, <2>3, <2>4, <2>5, <2>6, <2>7 DEF Operator
<1>17. ASSUME NEW i \in Ids, Purge(i)
       PROVE TypeOK'
  <2>1. pending' \in [Ids -> Row]
    BY <1>17 DEF Purge, TypeOK, Row
  <2>2. fuel' \in 0..Budget
    BY <1>17, SpendType DEF Purge
  <2> QED
    BY <1>17, <2>1, <2>2 DEF TypeOK, Purge
<1> QED
  BY <1>u, <1>1, <1>2, <1>3, <1>4, <1>5, <1>6, <1>7, <1>8, <1>9, <1>10, <1>11, <1>12, <1>13,
     <1>14, <1>15, <1>16, <1>17 DEF Next, Call, Decide, Upstream

-----------------------------------------------------------------------------
(* What a request has seen of the configuration.                           *)

LEMMA CallerMoves ==
  ASSUME RequestsGood, TypeOK, NEW c \in Callers, NEW x, Become(c, x), db' = db,
         Live(x) => Facts(db, x.agent, x.tool) \subseteq x.seen, GoodCaller(db, x)
  PROVE  RequestsGood'
<1>1. Good(db, c, x)
  BY ConstantsAssumption DEF Good
<1>2. ASSUME NEW r \in Requests PROVE Good(db, r, req'[r])
  BY <1>1, <1>2 DEF RequestsGood, Become, TypeOK
<1> QED
  BY <1>2 DEF RequestsGood

LEMMA DeskMoves ==
  ASSUME RequestsGood, TypeOK, NEW d \in Desks, NEW x, Become(d, x), db' = db,
         Live(x) => Facts(db, x.agent, x.tool) \subseteq x.seen, GoodDesk(db, x)
  PROVE  RequestsGood'
<1>1. Good(db, d, x)
  BY ConstantsAssumption DEF Good
<1>2. ASSUME NEW r \in Requests PROVE Good(db, r, req'[r])
  BY <1>1, <1>2 DEF RequestsGood, Become, TypeOK
<1> QED
  BY <1>2 DEF RequestsGood

LEMMA IdleIsGood ==
  /\ ~ Live(NoRequest)
  /\ \A d : GoodCaller(d, NoRequest) /\ GoodDesk(d, NoRequest)
  BY DEF NoRequest, Live, GoodCaller, GoodDesk

LEMMA ClosingIsGood ==
  ASSUME NEW i \in Ids, NEW stage \in {"refuse", "settle"}
  PROVE  ~ Live(Closing(stage, i)) /\ \A d : GoodDesk(d, Closing(stage, i))
  BY DEF Closing, NoRequest, Live, GoodDesk

LEMMA LiveSees ==
  ASSUME RequestsGood, TypeOK, NEW r \in Requests, Live(req[r])
  PROVE  Facts(db, req[r].agent, req[r].tool) \subseteq req[r].seen
  BY DEF RequestsGood, Good

\* The policy that is read was in force, or is that of an agent that was absent.
LEMMA PolicyWasSeen ==
  ASSUME RequestsGood, TypeOK, NEW r \in Requests, At(r, "policy"), SameAgent(db, req[r]),
         NEW m, m = get_agent_policy(req[r].agent, req[r].id, req[r].tool)
  PROVE  m \in Modes /\ (m \in req[r].seen \/ (m = "inherit" /\ "absent" \in req[r].seen))
<1> DEFINE a == req[r].agent
           t == req[r].tool
<1>1. Facts(db, a, t) \subseteq req[r].seen
  BY LiveSees DEF Live, At
<1>2. req[r] \in Request /\ db \in Config
  BY DEF TypeOK
<1>3. m \in Modes
  BY <1>2 DEF get_agent_policy, Request, Config, Modes
<1>4. CASE db.agent[a].status = "absent"
  BY <1>1, <1>3, <1>4 DEF Facts, get_agent_policy
<1>5. CASE db.agent[a].status # "absent" /\ db.agent[a].id = req[r].id
  BY <1>1, <1>3, <1>5 DEF Facts, get_agent_policy
<1>6. CASE db.agent[a].status # "absent" /\ db.agent[a].id # req[r].id
  BY <1>3, <1>6 DEF SameAgent, get_agent_policy
<1> QED
  BY <1>4, <1>5, <1>6

\* A request that goes on sees the new configuration as well; an id changes only
\* with an agent that was absent.
LEMMA ConfigureGood ==
  ASSUME RequestsGood, TypeOK, NEW new, Configure(new),
         \A a \in Agents : new.agent[a].id = db.agent[a].id \/ db.agent[a].status = "absent"
  PROVE  RequestsGood'
<1> SUFFICES ASSUME NEW r \in Requests PROVE Good(new, r, req'[r])
  BY DEF RequestsGood, Configure
<1> DEFINE x == req[r]
           y == [x EXCEPT !.seen = @ \cup Facts(new, x.agent, x.tool)]
<1>1. x \in Request /\ Good(db, r, x)
  BY DEF TypeOK, RequestsGood
<1>2. CASE ~ Live(x)
  <2>1. req'[r] = x
    BY <1>1, <1>2 DEF Configure, Live, Request
  <2>2. x.stage # "policy"
    BY <1>2 DEF Live
  <2> QED
    BY <1>1, <1>2, <2>1, <2>2 DEF Good, GoodCaller, GoodDesk
<1>3. CASE Live(x)
  <2>1. req'[r] = y
    BY <1>3 DEF Configure, Live
  <2>2. /\ y.stage = x.stage /\ y.agent = x.agent /\ y.id = x.id /\ y.tool = x.tool
        /\ y.call = x.call /\ y.mode = x.mode /\ y.gate = x.gate /\ y.session = x.session
        /\ y.enabled = x.enabled /\ y.seen = x.seen \cup Facts(new, x.agent, x.tool)
    BY <1>1 DEF Request
  <2>3. SameAgent(db, x) => SameAgent(new, y)
    <3>1. x.agent \in Agents /\ Facts(db, x.agent, x.tool) \subseteq x.seen
      BY <1>1, <1>3 DEF Request, Good
    <3>2. CASE db.agent[x.agent].status = "absent"
      BY <2>2, <3>1, <3>2 DEF SameAgent, Facts
    <3>3. CASE new.agent[x.agent].id = db.agent[x.agent].id
      BY <2>2, <3>3 DEF SameAgent
    <3> QED
      BY <3>1, <3>2, <3>3
  <2> HIDE DEF y
  <2>4. Facts(new, y.agent, y.tool) \subseteq y.seen
    BY <2>2
  <2>5. r \in Callers => GoodCaller(new, y)
    BY <1>1, <2>2, <2>3 DEF Good, GoodCaller, ModeSeen, Unguarded
  <2>6. r \in Desks => GoodDesk(new, y)
    BY <1>1, <2>2, <2>3 DEF Good, GoodDesk, EnabledSeen
  <2> QED
    BY <2>1, <2>4, <2>5, <2>6 DEF Good
<1> QED
  BY <1>2, <1>3

LEMMA RequestsInit == Init => RequestsGood
  BY IdleIsGood DEF Init, RequestsGood, Good

LEMMA LostGood ==
  ASSUME RequestsGood, TypeOK, NEW dead, Lost(dead), db' = db
  PROVE  RequestsGood'
<1>1. ASSUME NEW r \in Requests PROVE Good(db, r, req'[r])
  BY IdleIsGood DEF Lost, RequestsGood, Good
<1> QED
  BY <1>1 DEF RequestsGood

LEMMA RequestsStep == TypeOK /\ RequestsGood /\ [Next]_vars => RequestsGood'
<1> SUFFICES ASSUME TypeOK, RequestsGood, [Next]_vars PROVE RequestsGood'
  OBVIOUS
<1>t. /\ db \in Config
      /\ \A r \in Requests : req[r] \in Request
      /\ \A c \in Callers : c \in Requests /\ GoodCaller(db, req[c])
      /\ \A d \in Desks : d \in Requests /\ GoodDesk(db, req[d])
  BY DEF TypeOK, RequestsGood, Good, Requests
<1>u. CASE UNCHANGED vars
  BY <1>u DEF RequestsGood, vars
<1>1. ASSUME NEW c \in Callers, NEW a \in Agents, NEW t \in Tools, Authenticate(c, a, t)
      PROVE RequestsGood'
  <2> DEFINE x == [NoRequest EXCEPT !.stage = "policy", !.agent = a, !.tool = t,
                                    !.id = db.agent[a].id, !.seen = Facts(db, a, t)]
  <2>1. /\ x.stage = "policy" /\ x.agent = a /\ x.tool = t /\ x.call = 0
        /\ x.id = db.agent[a].id /\ x.seen = Facts(db, a, t)
    BY DEF NoRequest
  <2>2. Become(c, x) /\ db' = db /\ "active" \in Facts(db, a, t)
    BY <1>1 DEF Authenticate, Facts
  <2> HIDE DEF x
  <2>3. GoodCaller(db, x)
    BY <2>1, <2>2 DEF GoodCaller, SameAgent
  <2> QED
    BY <2>1, <2>2, <2>3, CallerMoves
<1>2. ASSUME NEW c \in Callers, NEW a \in Agents, SessionBegin(c, a)
      PROVE RequestsGood'
  BY <1>2 DEF SessionBegin, RequestsGood
<1>3. ASSUME NEW c \in Callers, BindPolicy(c)
      PROVE RequestsGood'
  <2> DEFINE m == get_agent_policy(req[c].agent, req[c].id, req[c].tool)
             x == [req[c] EXCEPT !.stage = "called", !.mode = m]
  <2>1. /\ x.stage = "called" /\ x.agent = req[c].agent /\ x.tool = req[c].tool
        /\ x.call = req[c].call /\ x.mode = m /\ x.seen = req[c].seen
    BY <1>t DEF Request
  <2>2. Become(c, x) /\ db' = db /\ At(c, "policy")
    BY <1>3 DEF BindPolicy
  <2>3. m \in req[c].seen \/ (m = "inherit" /\ "absent" \in req[c].seen)
    BY <1>t, <2>2, PolicyWasSeen DEF GoodCaller, At
  <2>4. Facts(db, req[c].agent, req[c].tool) \subseteq req[c].seen
    BY <1>t, <2>2, LiveSees DEF Live, At
  <2> HIDE DEF x, m
  <2>5. GoodCaller(db, x)
    BY <1>t, <2>1, <2>2, <2>3 DEF GoodCaller, ModeSeen, At
  <2> QED
    BY <2>1, <2>2, <2>4, <2>5, CallerMoves
<1>4. ASSUME NEW c \in Callers, NEW named \in Sessions, CallTool(c, named)
      PROVE RequestsGood'
  <2> DEFINE session == IF named = "none" THEN bound[c] ELSE named
             x == [req[c] EXCEPT !.stage = "tool", !.session = session, !.gate = db.gate]
  <2>1. db' = db /\ At(c, "called")
    BY <1>4 DEF CallTool
  <2>2. CASE Become(c, NoRequest)
    BY <2>1, <2>2, IdleIsGood, CallerMoves
  <2>3. CASE /\ Become(c, x) /\ req[c].mode # "deny" /\ db.integration = "on"
             /\ db.strict => ~ session_problem(session)
    <3>1. /\ x.stage = "tool" /\ x.agent = req[c].agent /\ x.tool = req[c].tool
          /\ x.call = req[c].call /\ x.mode = req[c].mode /\ x.seen = req[c].seen
          /\ x.session = session /\ x.gate = db.gate
      BY <1>t DEF Request
    <3>2. Facts(db, req[c].agent, req[c].tool) \subseteq req[c].seen
      BY <1>t, <2>1, LiveSees DEF Live, At
    <3>3. /\ db.gate \in req[c].seen /\ "integration" \in req[c].seen
          /\ session = "minted" \/ "lax" \in req[c].seen
      BY <2>3, <3>2 DEF Facts, session_problem
    <3> HIDE DEF x, session
    <3>4. GoodCaller(db, x)
      BY <1>t, <2>1, <2>3, <3>1, <3>3 DEF GoodCaller, ModeSeen, At
    <3> QED
      BY <2>1, <2>3, <3>1, <3>2, <3>4, CallerMoves
  <2> QED
    BY <1>4, <2>2, <2>3 DEF CallTool
<1>5. ASSUME NEW c \in Callers, RunTool(c)
      PROVE RequestsGood'
  <2> DEFINE r == req[c]
             s == Shape[r.tool]
             x == [NoRequest EXCEPT !.stage = "queue", !.agent = r.agent,
                                    !.tool = r.tool, !.session = r.session]
             y == [r EXCEPT !.stage = "exec", !.enabled = TRUE]
  <2>1. db' = db /\ At(c, "tool")
    BY <1>5 DEF RunTool
  <2>2. CASE Become(c, NoRequest)
    BY <2>1, <2>2, IdleIsGood, CallerMoves
  <2>3. CASE Become(c, x)
    <3>1. x.stage = "queue" /\ x.call = 0
      BY DEF NoRequest
    <3> HIDE DEF x
    <3>2. GoodCaller(db, x) /\ ~ Live(x)
      BY <3>1 DEF GoodCaller, Live
    <3> QED
      BY <2>1, <2>3, <3>2, CallerMoves
  <2>4. CASE /\ Become(c, y) /\ db.tool[r.tool] = "on" /\ ~ (s.readOnly /\ s.writes)
             /\ s.readOnly \/ ~ ShouldGate(r.mode, r.gate, r.tool)
    <3>1. /\ y.stage = "exec" /\ y.agent = r.agent /\ y.tool = r.tool /\ y.call = r.call
          /\ y.mode = r.mode /\ y.seen = r.seen /\ y.session = r.session /\ y.gate = r.gate
          /\ y.enabled
      BY <1>t DEF Request
    <3>2. Facts(db, r.agent, r.tool) \subseteq r.seen
      BY <1>t, <2>1, LiveSees DEF Live, At
    <3>3. "tool" \in r.seen
      BY <2>4, <3>2 DEF Facts
    <3> HIDE DEF y
    <3>4. GoodCaller(db, y)
      BY <1>t, <2>1, <2>4, <3>1, <3>3 DEF GoodCaller, ModeSeen, Unguarded, At
    <3> QED
      BY <2>1, <2>4, <3>1, <3>2, <3>4, CallerMoves
  <2> QED
    BY <1>5, <2>2, <2>3, <2>4 DEF RunTool, Finish
<1>6. ASSUME NEW c \in Callers, create_pending_call(c)
      PROVE RequestsGood'
  BY <1>6, IdleIsGood, CallerMoves DEF create_pending_call, Finish
<1>7. ASSUME NEW d \in Desks, NEW i \in Ids, NEW verdict \in {"approve", "deny"},
             ReadCall(d, i, verdict)
      PROVE RequestsGood'
  <2> DEFINE f == Facts(db, pending[i].agent, pending[i].tool)
             x == [NoRequest EXCEPT
                     !.stage = "load", !.agent = pending[i].agent, !.tool = pending[i].tool,
                     !.call = i, !.seen = f]
  <2>1. /\ x.stage = "load" /\ x.agent = pending[i].agent /\ x.tool = pending[i].tool
        /\ x.call = i /\ x.seen = f
    BY DEF NoRequest
  <2>2. db' = db /\ (Become(d, x) \/ Become(d, Closing("refuse", i)))
    BY <1>7 DEF ReadCall
  <2>3. CASE Become(d, x)
    <3> HIDE DEF x
    <3>1. GoodDesk(db, x)
      BY <2>1 DEF GoodDesk
    <3> QED
      BY <2>1, <2>2, <2>3, <3>1, DeskMoves
  <2>4. CASE Become(d, Closing("refuse", i))
    BY <2>2, <2>4, ClosingIsGood, DeskMoves
  <2> QED
    BY <2>2, <2>3, <2>4
<1>8. ASSUME NEW d \in Desks, Load(d)
      PROVE RequestsGood'
  <2> DEFINE x == [req[d] EXCEPT !.stage = "caller", !.enabled = ExecutorEnabled(req[d].tool)]
  <2>1. db' = db /\ At(d, "load") /\ (Become(d, x) \/ Become(d, NoRequest))
    BY <1>8 DEF Load
  <2>2. CASE Become(d, NoRequest)
    BY <2>1, <2>2, IdleIsGood, DeskMoves
  <2>3. CASE Become(d, x)
    <3>1. /\ x.stage = "caller" /\ x.agent = req[d].agent /\ x.tool = req[d].tool
          /\ x.call = req[d].call /\ x.seen = req[d].seen
          /\ x.enabled = ExecutorEnabled(req[d].tool)
      BY <1>t DEF Request
    <3>2. Facts(db, req[d].agent, req[d].tool) \subseteq req[d].seen
      BY <1>t, <2>1, LiveSees DEF Live, At
    <3>3. /\ db.integration = "on" => "integration" \in req[d].seen
          /\ db.tool[req[d].tool] = "on" => "tool" \in req[d].seen
      BY <3>2 DEF Facts
    <3> HIDE DEF x
    <3>4. x.enabled => EnabledSeen(x)
      BY <3>1, <3>3 DEF EnabledSeen, ExecutorEnabled
    <3>5. GoodDesk(db, x)
      BY <1>t, <2>1, <3>1, <3>4 DEF GoodDesk, At
    <3> QED
      BY <2>1, <2>3, <3>1, <3>2, <3>5, DeskMoves
  <2> QED
    BY <2>1, <2>2, <2>3
<1>9. ASSUME NEW d \in Desks, _caller_agent(d)
      PROVE RequestsGood'
  <2> DEFINE x == [req[d] EXCEPT !.stage = "policy", !.id = db.agent[req[d].agent].id]
  <2>1. /\ db' = db /\ At(d, "caller")
        /\ \/ Become(d, x) /\ db.agent[req[d].agent].status = "active"
           \/ Become(d, Closing("refuse", req[d].call))
    BY <1>9 DEF _caller_agent, StillActive
  <2>2. CASE Become(d, Closing("refuse", req[d].call))
    <3>1. req[d].call \in Ids
      BY <1>t, <2>1 DEF GoodDesk, At
    <3> QED
      BY <2>1, <2>2, <3>1, ClosingIsGood, DeskMoves
  <2>3. CASE Become(d, x) /\ db.agent[req[d].agent].status = "active"
    <3>1. /\ x.stage = "policy" /\ x.agent = req[d].agent /\ x.tool = req[d].tool
          /\ x.call = req[d].call /\ x.seen = req[d].seen /\ x.enabled = req[d].enabled
          /\ x.id = db.agent[x.agent].id
      BY <1>t DEF Request
    <3>2. Facts(db, req[d].agent, req[d].tool) \subseteq req[d].seen
      BY <1>t, <2>1, LiveSees DEF Live, At
    <3>3. "active" \in req[d].seen
      BY <2>3, <3>2 DEF Facts
    <3> HIDE DEF x
    <3>4. GoodDesk(db, x)
      BY <1>t, <2>1, <3>1, <3>3 DEF GoodDesk, SameAgent, EnabledSeen, At
    <3> QED
      BY <2>1, <2>3, <3>1, <3>2, <3>4, DeskMoves
  <2> QED
    BY <2>1, <2>2, <2>3
<1>10. ASSUME NEW d \in Desks, Judge(d)
       PROVE RequestsGood'
  <2> DEFINE m == get_agent_policy(req[d].agent, req[d].id, req[d].tool)
             x == [req[d] EXCEPT !.stage = "exec"]
  <2>1. /\ db' = db /\ At(d, "policy")
        /\ \/ Become(d, x) /\ m # "deny"
           \/ Become(d, Closing("refuse", req[d].call))
    BY <1>10 DEF Judge
  <2>2. CASE Become(d, Closing("refuse", req[d].call))
    <3>1. req[d].call \in Ids
      BY <1>t, <2>1 DEF GoodDesk, At
    <3> QED
      BY <2>1, <2>2, <3>1, ClosingIsGood, DeskMoves
  <2>3. CASE Become(d, x) /\ m # "deny"
    <3>1. /\ x.stage = "exec" /\ x.agent = req[d].agent /\ x.tool = req[d].tool
          /\ x.call = req[d].call /\ x.seen = req[d].seen /\ x.enabled = req[d].enabled
      BY <1>t DEF Request
    <3>2. Facts(db, req[d].agent, req[d].tool) \subseteq req[d].seen
      BY <1>t, <2>1, LiveSees DEF Live, At
    <3>3. m \in Modes /\ (m \in req[d].seen \/ (m = "inherit" /\ "absent" \in req[d].seen))
      BY <1>t, <2>1, PolicyWasSeen DEF GoodDesk, At
    <3>4. req[d].seen \cap {"inherit", "gated", "ungated", "absent"} # {}
      BY <2>3, <3>3 DEF Modes
    <3> HIDE DEF x
    <3>5. GoodDesk(db, x)
      BY <1>t, <2>1, <3>1, <3>4 DEF GoodDesk, EnabledSeen, At
    <3> QED
      BY <2>1, <2>3, <3>1, <3>2, <3>5, DeskMoves
  <2> QED
    BY <2>1, <2>2, <2>3
<1>11. ASSUME NEW d \in Desks, Refuse(d) \/ Settle(d)
       PROVE RequestsGood'
  BY <1>11, IdleIsGood, DeskMoves DEF Refuse, Settle
<1>12. ASSUME NEW r \in Requests, Execute(r)
       PROVE RequestsGood'
  <2> DEFINE x == [req[r] EXCEPT !.stage = "ran"]
  <2>1. /\ db' = db /\ At(r, "exec")
        /\ \/ Become(r, x) /\ req[r].enabled
           \/ Become(r, Closing("settle", req[r].call)) /\ ~ req[r].enabled
    BY <1>12 DEF Execute, Go
  <2>2. /\ x.stage = "ran" /\ x.agent = req[r].agent /\ x.tool = req[r].tool
        /\ x.call = req[r].call /\ x.seen = req[r].seen /\ x.enabled = req[r].enabled
        /\ x.mode = req[r].mode /\ x.gate = req[r].gate /\ x.session = req[r].session
    BY <1>t DEF Request
  <2> HIDE DEF x
  <2>3. ~ Live(x)
    BY <2>2 DEF Live
  <2>4. CASE r \in Callers /\ Become(r, x)
    <3>1. GoodCaller(db, x)
      BY <1>t, <2>1, <2>2, <2>4 DEF GoodCaller, ModeSeen, Unguarded, At
    <3> QED
      BY <2>1, <2>3, <2>4, <3>1, CallerMoves
  <2>5. CASE r \in Callers /\ ~ req[r].enabled
    BY <1>t, <2>1, <2>5 DEF GoodCaller, At
  <2>6. CASE r \in Desks /\ Become(r, x) /\ req[r].enabled
    <3>1. GoodDesk(db, x)
      BY <1>t, <2>1, <2>2, <2>6 DEF GoodDesk, EnabledSeen, At
    <3> QED
      BY <2>1, <2>3, <2>6, <3>1, DeskMoves
  <2>7. CASE r \in Desks /\ Become(r, Closing("settle", req[r].call))
    <3>1. req[r].call \in Ids
      BY <1>t, <2>1, <2>7 DEF GoodDesk, At
    <3> QED
      BY <2>1, <2>7, <3>1, ClosingIsGood, DeskMoves
  <2> QED
    BY <2>1, <2>4, <2>5, <2>6, <2>7 DEF Requests
<1>13. ASSUME NEW r \in Requests, record_integration_call(r)
       PROVE RequestsGood'
  <2>1. CASE r \in Callers
    <3>1. Become(r, NoRequest) /\ db' = db
      BY <1>13, <2>1 DEF record_integration_call, Finish
    <3> QED
      BY <2>1, <3>1, IdleIsGood, CallerMoves
  <2>2. CASE r \in Desks
    <3>1. req[r].call \in Ids
      BY <1>t, <1>13, <2>2 DEF record_integration_call, GoodDesk, At
    <3>2. Become(r, Closing("settle", req[r].call)) /\ db' = db
      BY <1>13, <2>2, ConstantsAssumption DEF record_integration_call
    <3> QED
      BY <2>2, <3>1, <3>2, ClosingIsGood, DeskMoves
  <2> QED
    BY <2>1, <2>2 DEF Requests
<1>14. ASSUME NEW r \in Requests, Raise(r)
       PROVE RequestsGood'
  BY <1>14, LostGood DEF Raise
<1>15. CASE Down
  BY <1>15, LostGood DEF Down
<1>16. CASE Operator
  <2>1. ASSUME NEW new, Configure(new), new.agent = db.agent
        PROVE RequestsGood'
    BY <2>1, ConfigureGood
  <2>2. ASSUME NEW a \in Agents, NEW status \in {"active", "revoked", "absent"},
               SetAgent(a, status)
        PROVE RequestsGood'
    <3> DEFINE old == db.agent[a]
               d1 == [db EXCEPT !.agent[a] = [status |-> "active", id |-> old.id + 1],
                                !.policy[a] = [t \in Tools |-> "inherit"]]
    <3>1. CASE old.status = "absent" /\ Configure(d1)
      <4>1. \A b \in Agents : d1.agent[b].id = db.agent[b].id \/ db.agent[b].status = "absent"
        BY <1>t, <3>1 DEF Config
      <4> QED
        BY <3>1, <4>1, ConfigureGood
    <3>2. ASSUME NEW s \in {"revoked", "absent"}, Configure([db EXCEPT !.agent[a].status = s])
          PROVE RequestsGood'
      <4>1. \A b \in Agents : [db EXCEPT !.agent[a].status = s].agent[b].id = db.agent[b].id
        BY <1>t DEF Config
      <4> QED
        BY <3>2, <4>1, ConfigureGood
    <3> QED
      BY <2>2, <3>1, <3>2 DEF SetAgent
  <2>3. ASSUME NEW a \in Agents, NEW t \in Tools, NEW mode \in Modes, SetPolicy(a, t, mode)
        PROVE RequestsGood'
    BY <1>t, <2>1, <2>3 DEF SetPolicy, Config
  <2>4. ASSUME NEW t \in Tools, NEW state \in {"on", "off", "gone"}, SetTool(t, state)
        PROVE RequestsGood'
    BY <1>t, <2>1, <2>4 DEF SetTool, Config
  <2>5. ASSUME NEW state \in {"on", "off", "gone"}, SetIntegration(state)
        PROVE RequestsGood'
    <3> DEFINE d1 == [db EXCEPT !.integration = "gone", !.tool = [t \in Tools |-> "gone"]]
               d2 == [db EXCEPT !.integration = state]
    <3>1. d1.agent = db.agent /\ d2.agent = db.agent
      BY <1>t DEF Config
    <3>2. Configure(d1) \/ Configure(d2)
      BY <2>5 DEF SetIntegration
    <3> QED
      BY <2>1, <3>1, <3>2
  <2>6. ASSUME NEW gate \in Gates, SetGate(gate)
        PROVE RequestsGood'
    BY <1>t, <2>1, <2>6 DEF SetGate, Config
  <2>7. ASSUME NEW b \in BOOLEAN, SetStrict(b)
        PROVE RequestsGood'
    BY <1>t, <2>1, <2>7 DEF SetStrict, Config
  <2> QED
    BY <1>16, <2>2, <2>3, <2>4, <2>5, <2>6, <2>7 DEF Operator
<1>17. ASSUME NEW i \in Ids, Purge(i)
       PROVE RequestsGood'
  BY <1>17 DEF Purge, RequestsGood
<1> QED
  BY <1>u, <1>1, <1>2, <1>3, <1>4, <1>5, <1>6, <1>7, <1>8, <1>9, <1>10, <1>11, <1>12, <1>13,
     <1>14, <1>15, <1>16, <1>17 DEF Next, Call, Decide, Upstream

-----------------------------------------------------------------------------
(* What the table says of a call and how often it was sent.                *)

\* No decision moves; rows may be deleted.
LEMMA CallsFrame ==
  ASSUME TypeOK, CallsGood, queued' = queued, ran' = ran, overlap' = overlap,
         \A d \in Desks : req'[d].stage = req[d].stage /\ req'[d].call = req[d].call,
         \A i \in Ids : \/ pending'[i].status = pending[i].status
                        \/ pending[i].status # "none" /\ pending'[i].status = "gone"
  PROVE  CallsGood'
<1> SUFFICES ASSUME NEW i \in Ids PROVE CallGood(i)'
  BY DEF CallsGood
<1>1. Holders(i)' = Holders(i)
  BY DEF Holders, At
<1>2. \A d \in Holders(i) : (At(d, "ran")' <=> At(d, "ran")) /\ (At(d, "settle")' <=> At(d, "settle"))
  BY DEF Holders, At
<1>3. CallGood(i)
  BY DEF CallsGood
<1> QED
  BY <1>1, <1>2, <1>3 DEF CallGood

\* The requests of agents hold no queued call.
LEMMA CallerFrame ==
  ASSUME TypeOK, NEW c \in Callers, NEW x, Become(c, x)
  PROVE  \A d \in Desks : req'[d] = req[d]
  BY ConstantsAssumption DEF TypeOK, Become, Requests

\* One decision moves, and with it no call but its own.
LEMMA DeskStep ==
  ASSUME TypeOK, CallsGood, NEW d \in Desks, NEW i \in Ids,
         \A e \in Desks \ {d} : req'[e] = req[e],
         At(d, "idle") \/ req[d].call = i, At(d, "idle")' \/ req'[d].call = i,
         queued' = queued, CallGood(i)',
         \A j \in Ids \ {i} : /\ pending'[j] = pending[j] /\ ran'[j] = ran[j]
                              /\ j \in overlap' <=> j \in overlap
  PROVE  CallsGood'
<1>2. ASSUME NEW j \in Ids \ {i} PROVE CallGood(j)'
  <2>1. Holders(j)' = Holders(j) /\ \A e \in Holders(j) : req'[e] = req[e]
    BY DEF Holders, At
  <2>2. CallGood(j)
    BY DEF CallsGood
  <2> QED
    BY <2>1, <2>2 DEF CallGood, At
<1> QED
  BY <1>2 DEF CallsGood

LEMMA CallsInit == Init => CallsGood
<1> SUFFICES ASSUME Init, NEW i \in Ids PROVE CallGood(i)
  BY DEF CallsGood
<1>1. Holders(i) = {}
  BY DEF Init, Holders, At, NoRequest, Requests
<1> QED
  BY <1>1 DEF Init, CallGood

LEMMA CallsStep == TypeOK /\ RequestsGood /\ CallsGood /\ [Next]_vars => CallsGood'
<1> SUFFICES ASSUME TypeOK, RequestsGood, CallsGood, [Next]_vars PROVE CallsGood'
  OBVIOUS
<1> USE DEF sessions, history
<1>t. /\ \A c \in Callers : req[c].call = 0
      /\ \A d \in Desks : d \in Requests /\ (~ At(d, "idle") => req[d].call \in Ids)
      /\ \A i \in Ids : CallGood(i)
      /\ NoRequest.stage = "idle"
      /\ \A i, stage : Closing(stage, i).stage = stage /\ Closing(stage, i).call = i
  BY DEF RequestsGood, Good, GoodCaller, GoodDesk, CallsGood, At, Requests, NoRequest, Closing
<1>f. ASSUME UNCHANGED <<pending, queued, ran, overlap>>,
             \A d \in Desks : req'[d] = req[d]
      PROVE CallsGood'
  BY <1>f, CallsFrame
<1>u. CASE UNCHANGED vars
  BY <1>u, <1>f DEF vars
<1>1. ASSUME NEW c \in Callers, NEW a \in Agents, NEW t \in Tools, Authenticate(c, a, t)
      PROVE CallsGood'
  BY <1>1, <1>f, CallerFrame DEF Authenticate
<1>2. ASSUME NEW c \in Callers, NEW a \in Agents, SessionBegin(c, a)
      PROVE CallsGood'
  BY <1>2, <1>f DEF SessionBegin
<1>3. ASSUME NEW c \in Callers, BindPolicy(c)
      PROVE CallsGood'
  BY <1>3, <1>f, CallerFrame DEF BindPolicy
<1>4. ASSUME NEW c \in Callers, NEW named \in Sessions, CallTool(c, named)
      PROVE CallsGood'
  BY <1>4, <1>f, CallerFrame DEF CallTool
<1>5. ASSUME NEW c \in Callers, RunTool(c)
      PROVE CallsGood'
  BY <1>5, <1>f, CallerFrame DEF RunTool, Finish
<1>6. ASSUME NEW c \in Callers, create_pending_call(c)
      PROVE CallsGood'
  <2> SUFFICES ASSUME NEW i \in Ids PROVE CallGood(i)'
    BY DEF CallsGood
  <2>1. \A d \in Desks : req'[d] = req[d]
    BY <1>6, CallerFrame DEF create_pending_call, Finish
  <2>2. Holders(i)' = Holders(i) /\ \A d \in Holders(i) : req'[d] = req[d]
    BY <2>1 DEF Holders, At
  <2>3. ran' = ran /\ overlap' = overlap /\ queued' = queued + 1 /\ queued \in Nat /\ i \in Nat
    BY <1>6, ConstantsAssumption DEF create_pending_call, TypeOK, Ids
  <2>4. CASE i = queued + 1
    <3>1. pending'[i].status = "pending" /\ pending[i].status = "none"
      BY <1>t, <1>6, <2>3, <2>4 DEF create_pending_call, TypeOK, CallGood
    <3> QED
      BY <1>t, <2>2, <2>3, <2>4, <3>1 DEF CallGood, At
  <2>5. CASE i # queued + 1
    <3>1. pending'[i] = pending[i]
      BY <1>6, <2>5 DEF create_pending_call, TypeOK
    <3> QED
      BY <1>t, <2>2, <2>3, <2>5, <3>1 DEF CallGood, At
  <2> QED
    BY <2>4, <2>5
<1>b. ASSUME NEW d \in Desks, NEW x, Become(d, x)
      PROVE req'[d] = x /\ \A e \in Desks \ {d} : req'[e] = req[e]
  BY <1>b DEF Become, TypeOK, Requests
<1>m. ASSUME NEW d \in Desks, NEW x, Become(d, x), ~ At(d, "idle"), ~ At(d, "ran"),
             ~ At(d, "settle"), x.stage = "idle" \/ x.call = req[d].call,
             UNCHANGED <<pending, queued, ran, overlap>>
      PROVE CallsGood'
  <2>1. req'[d] = x /\ \A e \in Desks \ {d} : req'[e] = req[e]
    BY <1>m, <1>b
  <2>2. PICK i \in Ids : i = req[d].call
    BY <1>m, <1>t
  <2>3. Holders(i)' \subseteq Holders(i) /\ d \in Holders(i)
    BY <1>m, <2>1, <2>2 DEF Holders, At
  <2>4. CallGood(i)'
    BY <1>m, <1>t, <2>1, <2>2, <2>3 DEF CallGood, At
  <2> QED
    BY <1>m, <2>1, <2>2, <2>4, DeskStep DEF At
<1>7. ASSUME NEW d \in Desks, NEW i \in Ids, NEW verdict \in {"approve", "deny"},
             ReadCall(d, i, verdict)
      PROVE CallsGood'
  <2>1. req'[d].stage \in {"load", "refuse"} /\ req'[d].call = i
    <3>1. CASE verdict = "deny"
      BY <1>7, <1>b, <1>t, <3>1 DEF ReadCall
    <3>2. CASE verdict # "deny"
      <4> DEFINE x == [NoRequest EXCEPT
                         !.stage = "load", !.agent = pending[i].agent, !.tool = pending[i].tool,
                         !.call = i, !.seen = Facts(db, pending[i].agent, pending[i].tool)]
      <4>1. x.stage = "load" /\ x.call = i
        BY DEF NoRequest
      <4>2. Become(d, x)
        BY <1>7, <3>2 DEF ReadCall
      <4> HIDE DEF x
      <4> QED
        BY <1>b, <4>1, <4>2
    <3> QED
      BY <3>1, <3>2
  <2>2. \A e \in Desks \ {d} : req'[e] = req[e]
    BY <1>7, <1>b DEF ReadCall
  <2>3. /\ At(d, "idle") /\ pending[i].status = "pending"
        /\ overlap' = IF Holders(i) = {} THEN overlap ELSE overlap \cup {i}
        /\ UNCHANGED <<pending, queued, ran>>
    BY <1>7 DEF ReadCall
  <2>4. CallGood(i)'
    <3>1. CASE Holders(i) = {}
      <4>1. Holders(i)' = {d}
        BY <2>1, <2>2, <3>1 DEF Holders, At
      <4> QED
        BY <1>t, <2>1, <2>2, <2>3, <3>1, <4>1 DEF CallGood, At
    <3>2. CASE Holders(i) # {}
      BY <1>t, <2>3, <3>2 DEF CallGood
    <3> QED
      BY <3>1, <3>2
  <2> QED
    BY <2>1, <2>2, <2>3, <2>4, DeskStep
<1>8. ASSUME NEW d \in Desks, Load(d)
      PROVE CallsGood'
  <2> DEFINE x == [req[d] EXCEPT !.stage = "caller", !.enabled = ExecutorEnabled(req[d].tool)]
  <2>1. Become(d, NoRequest) \/ Become(d, x)
    BY <1>8 DEF Load
  <2>2. x.call = req[d].call
    BY <1>t DEF TypeOK, Request
  <2> HIDE DEF x
  <2> QED
    BY <1>8, <1>t, <1>m, <2>1, <2>2 DEF Load, At
<1>9. ASSUME NEW d \in Desks, _caller_agent(d)
      PROVE CallsGood'
  <2> DEFINE x == [req[d] EXCEPT !.stage = "policy", !.id = db.agent[req[d].agent].id]
  <2>1. Become(d, x) \/ Become(d, Closing("refuse", req[d].call))
    BY <1>9 DEF _caller_agent
  <2>2. x.call = req[d].call
    BY <1>t DEF TypeOK, Request
  <2> HIDE DEF x
  <2> QED
    BY <1>9, <1>t, <1>m, <2>1, <2>2 DEF _caller_agent, At
<1>10. ASSUME NEW d \in Desks, Judge(d)
       PROVE CallsGood'
  <2> DEFINE x == [req[d] EXCEPT !.stage = "exec"]
  <2>1. Become(d, x) \/ Become(d, Closing("refuse", req[d].call))
    BY <1>10 DEF Judge
  <2>2. x.call = req[d].call
    BY <1>t DEF TypeOK, Request
  <2> HIDE DEF x
  <2> QED
    BY <1>10, <1>t, <1>m, <2>1, <2>2 DEF Judge, At
<1>11. ASSUME NEW d \in Desks, Refuse(d) \/ Settle(d)
       PROVE CallsGood'
  <2>i. PICK i \in Ids : i = req[d].call
    BY <1>11, <1>t DEF Refuse, Settle, At
  <2>1. /\ At(d, "refuse") \/ At(d, "settle")
        /\ Become(d, NoRequest) /\ UNCHANGED <<queued, ran, overlap>>
    BY <1>11 DEF Refuse, Settle
  <2>2. req'[d].stage = "idle" /\ \A e \in Desks \ {d} : req'[e] = req[e]
    BY <1>b, <1>t, <2>1
  <2>3. \A j \in Ids \ {i} : pending'[j] = pending[j]
    BY <1>11, <2>i DEF Refuse, Settle, Resolve, TypeOK
  <2>4. /\ pending[i].status = "gone" => pending'[i].status = "gone"
        /\ pending[i].status # "gone" /\ At(d, "refuse") => pending'[i].status = "denied"
        /\ pending[i].status # "gone" /\ At(d, "settle") => pending'[i].status = "approved"
    BY <1>11, <2>i, <2>1 DEF Refuse, Settle, Resolve, TypeOK, At, Row
  <2>5. d \in Holders(i)
    BY <2>i, <2>1 DEF Holders, At
  <2>6. i \notin overlap => Holders(i)' = {}
    BY <1>t, <2>1, <2>2, <2>5 DEF CallGood, Holders, At
  <2>7. CallGood(i)'
    BY <1>t, <2>1, <2>2, <2>4, <2>5, <2>6 DEF CallGood, At
  <2> QED
    BY <2>i, <2>1, <2>2, <2>3, <2>7, DeskStep DEF At
<1>12. ASSUME NEW r \in Requests, Execute(r)
       PROVE CallsGood'
  <2>1. CASE r \in Callers
    BY <1>t, <1>12, <1>f, <2>1, CallerFrame DEF Execute, Go, Count
  <2>2. CASE r \in Desks
    <3>i. PICK i \in Ids : i = req[r].call
      BY <1>t, <1>12, <2>2 DEF Execute, Go, At
    <3>1. At(r, "exec") /\ UNCHANGED <<pending, queued, overlap>>
      BY <1>12 DEF Execute, Go
    <3>2. /\ req'[r].call = i
          /\ \/ req'[r].stage = "ran" /\ ran' = [ran EXCEPT ![i] = @ + 1]
             \/ req'[r].stage = "settle" /\ ran' = ran
      <4> DEFINE x == [req[r] EXCEPT !.stage = "ran"]
      <4>1. x.stage = "ran" /\ x.call = i
        BY <1>t, <2>2, <3>i DEF TypeOK, Request
      <4>2. CASE Become(r, x) /\ Count(ran, r)
        <5>1. ran' = [ran EXCEPT ![i] = @ + 1]
          BY <3>i, <4>2 DEF Count, Ids
        <5>2. req'[r] = x
          BY <1>b, <2>2, <4>2
        <5> QED
          BY <4>1, <5>1, <5>2
      <4>3. CASE Become(r, Closing("settle", i)) /\ ran' = ran
        BY <1>b, <1>t, <2>2, <4>3
      <4> QED
        BY <1>12, <3>i, <4>2, <4>3 DEF Execute, Go
    <3>3. \A e \in Desks \ {r} : req'[e] = req[e]
      BY <1>12, <1>b, <2>2 DEF Execute, Go
    <3>4. /\ \A j \in Ids \ {i} : ran'[j] = ran[j]
          /\ ran'[i] = ran[i] \/ ran'[i] = ran[i] + 1
          /\ ran[i] \in Nat
      BY <3>1, <3>2 DEF TypeOK
    <3>5. Holders(i)' = Holders(i) /\ r \in Holders(i)
      BY <2>2, <3>i, <3>1, <3>2, <3>3 DEF Holders, At
    <3>6. CallGood(i)'
      <4>1. CASE i \in overlap
        <5>1. pending[i].status # "none"
          BY <1>t, <3>1, <3>5 DEF CallGood
        <5>2. queued' = queued
          BY <1>12 DEF Execute
        <5> QED
          BY <1>t, <3>1, <4>1, <5>1, <5>2 DEF CallGood
      <4>2. CASE i \notin overlap
        <5>1. Holders(i) = {r} /\ ran[i] = 0 /\ pending[i].status \in {"pending", "gone"}
          BY <1>t, <3>1, <3>5, <4>2 DEF CallGood, At
        <5> QED
          BY <1>t, <3>1, <3>2, <3>3, <3>4, <3>5, <4>2, <5>1 DEF CallGood, At
      <4> QED
        BY <4>1, <4>2
    <3>7. queued' = queued
      BY <1>12 DEF Execute
    <3> QED
      BY <2>2, <3>i, <3>1, <3>2, <3>3, <3>4, <3>6, <3>7, DeskStep
  <2> QED
    BY <2>1, <2>2 DEF Requests
<1>13. ASSUME NEW r \in Requests, record_integration_call(r)
       PROVE CallsGood'
  <2>1. CASE r \in Callers
    BY <1>13, <1>f, <2>1, CallerFrame DEF record_integration_call, Finish
  <2>2. CASE r \in Desks
    <3>i. PICK i \in Ids : i = req[r].call
      BY <1>t, <1>13, <2>2 DEF record_integration_call, At
    <3>1. /\ At(r, "ran") /\ UNCHANGED <<pending, queued, ran, overlap>>
          /\ Become(r, Closing("settle", i))
      BY <1>13, <2>2, <3>i, ConstantsAssumption DEF record_integration_call
    <3>2. req'[r] = Closing("settle", i) /\ \A e \in Desks \ {r} : req'[e] = req[e]
      BY <1>b, <2>2, <3>1
    <3>3. Holders(i)' = Holders(i) /\ r \in Holders(i)
      BY <1>t, <2>2, <3>i, <3>1, <3>2 DEF Holders, At
    <3>4. CallGood(i)'
      BY <1>t, <3>1, <3>2, <3>3 DEF CallGood, At
    <3>5. req'[r].call = i
      BY <1>t, <3>2
    <3> QED
      BY <2>2, <3>i, <3>1, <3>2, <3>4, <3>5, DeskStep
  <2> QED
    BY <2>1, <2>2 DEF Requests
<1>l. ASSUME NEW dead, Lost(dead), UNCHANGED <<pending, queued, ran>>
      PROVE CallsGood'
  <2> SUFFICES ASSUME NEW i \in Ids PROVE CallGood(i)'
    BY DEF CallsGood
  <2>1. /\ overlap' = overlap \cup {j \in Ids : dead \cap Holders(j) # {}}
        /\ \A d \in Desks : req'[d] = IF d \in dead THEN NoRequest ELSE req[d]
    BY <1>l DEF Lost, Requests
  <2>2. Holders(i)' \subseteq Holders(i)
    BY <1>t, <2>1 DEF Holders, At
  <2>3. ASSUME i \notin overlap'
        PROVE  Holders(i)' = Holders(i) /\ \A d \in Holders(i) : req'[d] = req[d]
    <3>1. dead \cap Holders(i) = {}
      BY <2>1, <2>3
    <3>2. \A d \in Holders(i) : req'[d] = req[d]
      BY <2>1, <3>1 DEF Holders
    <3>3. Holders(i) \subseteq Holders(i)'
      BY <3>2 DEF Holders, At
    <3> QED
      BY <2>2, <3>2, <3>3
  <2> QED
    BY <1>t, <1>l, <2>1, <2>2, <2>3 DEF CallGood, At
<1>14. ASSUME NEW r \in Requests, Raise(r)
       PROVE CallsGood'
  BY <1>14, <1>l DEF Raise
<1>15. CASE Down
  BY <1>15, <1>l DEF Down
<1>c. ASSUME NEW new, Configure(new), queued' = queued,
             \A i \in Ids : \/ pending'[i].status = pending[i].status
                            \/ pending[i].status # "none" /\ pending'[i].status = "gone"
      PROVE CallsGood'
  <2>1. \A d \in Desks : req'[d].stage = req[d].stage /\ req'[d].call = req[d].call
    BY <1>c DEF Configure, TypeOK, Requests, Request
  <2> QED
    BY <1>c, <2>1, CallsFrame DEF Configure
<1>16. CASE Operator
  <2>1. PICK new : Configure(new) /\ queued' = queued
    BY <1>16 DEF Operator, SetAgent, SetPolicy, SetTool, SetIntegration, SetGate, SetStrict
  <2>2. ASSUME NEW i \in Ids
        PROVE  \/ pending'[i].status = pending[i].status
               \/ pending[i].status # "none" /\ pending'[i].status = "gone"
    <3>1. ASSUME NEW state \in {"on", "off", "gone"}, SetIntegration(state)
          PROVE  \/ pending'[i].status = pending[i].status
                 \/ pending[i].status # "none" /\ pending'[i].status = "gone"
      BY <3>1 DEF SetIntegration, TypeOK, Row
    <3> QED
      BY <1>16, <3>1 DEF Operator, SetAgent, SetPolicy, SetTool, SetGate, SetStrict
  <2> QED
    BY <1>c, <2>1, <2>2
<1>17. ASSUME NEW i \in Ids, Purge(i)
       PROVE CallsGood'
  <2>1. \A j \in Ids : \/ pending'[j].status = pending[j].status
                       \/ pending[j].status # "none" /\ pending'[j].status = "gone"
    BY <1>17 DEF Purge, TypeOK, Row
  <2> QED
    BY <1>17, <2>1, CallsFrame DEF Purge
<1> QED
  BY <1>u, <1>1, <1>2, <1>3, <1>4, <1>5, <1>6, <1>7, <1>8, <1>9, <1>10, <1>11, <1>12, <1>13,
     <1>14, <1>15, <1>16, <1>17 DEF Next, Call, Decide, Upstream

-----------------------------------------------------------------------------
(* The runs that have no audit row yet.                                    *)

Runs(i) == {d \in Desks : At(d, "ran") /\ req[d].call = i}

LEMMA RunsFinite == \A i \in Ids : IsFiniteSet(Runs(i)) /\ Cardinality(Runs(i)) \in Nat
<1> SUFFICES ASSUME NEW i \in Ids PROVE IsFiniteSet(Runs(i)) /\ Cardinality(Runs(i)) \in Nat
  OBVIOUS
<1>1. Runs(i) \in SUBSET Desks
  BY DEF Runs
<1>2. IsFiniteSet(Runs(i))
  BY <1>1, ConstantsAssumption, FS_Subset
<1> QED
  BY <1>2, FS_CardinalityType

LEMMA RunsCount ==
  EveryRunLogged <=> \A i \in Ids : ran[i] = logged[i] + cut[i] + Cardinality(Runs(i))
  BY DEF EveryRunLogged, Runs

LEMMA LoggedFrame ==
  ASSUME EveryRunLogged, UNCHANGED <<ran, logged, cut>>,
         \A d \in Desks : \/ ~ At(d, "ran") /\ ~ At(d, "ran")'
                          \/ req'[d].stage = req[d].stage /\ req'[d].call = req[d].call
  PROVE  EveryRunLogged'
<1>1. \A i \in Ids : Runs(i)' = Runs(i)
  BY DEF Runs, At
<1> QED
  BY <1>1 DEF EveryRunLogged, Runs

LEMMA LoggedInit == Init => EveryRunLogged
<1> SUFFICES ASSUME Init, NEW i \in Ids
             PROVE ran[i] = logged[i] + cut[i] + Cardinality(Runs(i))
  BY RunsCount
<1>1. Runs(i) = {}
  BY DEF Init, Runs, At, NoRequest, Requests
<1>2. ran[i] = 0 /\ logged[i] = 0 /\ cut[i] = 0
  BY DEF Init
<1>3. Cardinality(Runs(i)) = 0
  BY <1>1, FS_EmptySet
<1> QED
  BY <1>2, <1>3

LEMMA LoggedStep ==
  TypeOK /\ RequestsGood /\ EveryRunLogged /\ [Next]_vars => EveryRunLogged'
<1> SUFFICES ASSUME TypeOK, RequestsGood, EveryRunLogged, [Next]_vars PROVE EveryRunLogged'
  OBVIOUS
<1> USE DEF sessions, history
<1>t. /\ \A c \in Callers : req[c].call = 0
      /\ \A d \in Desks : d \in Requests /\ (~ At(d, "idle") => req[d].call \in Ids)
      /\ NoRequest.stage = "idle"
      /\ \A i, stage : Closing(stage, i).stage = stage /\ Closing(stage, i).call = i
      /\ \A i \in Ids : i # 0
      /\ \A i \in Ids : ran[i] \in Nat /\ logged[i] \in Nat /\ cut[i] \in Nat
      /\ \A i \in Ids : ran[i] = logged[i] + cut[i] + Cardinality(Runs(i))
  BY RunsCount, ConstantsAssumption
  DEF RequestsGood, Good, GoodCaller, GoodDesk, At, Requests, NoRequest, Closing, Ids, TypeOK
<1>b. ASSUME NEW d \in Desks, NEW x, Become(d, x)
      PROVE req'[d] = x /\ \A e \in Desks \ {d} : req'[e] = req[e]
  BY <1>b DEF Become, TypeOK, Requests
<1>c. ASSUME NEW c \in Callers, NEW x, Become(c, x), UNCHANGED <<ran, logged, cut>>
      PROVE EveryRunLogged'
  BY <1>c, CallerFrame, LoggedFrame
<1>d. ASSUME NEW d \in Desks, NEW x, Become(d, x), ~ At(d, "ran"), x.stage # "ran",
             UNCHANGED <<ran, logged, cut>>
      PROVE EveryRunLogged'
  <2>1. \A e \in Desks : \/ ~ At(e, "ran") /\ ~ At(e, "ran")'
                         \/ req'[e].stage = req[e].stage /\ req'[e].call = req[e].call
    BY <1>d, <1>b DEF At
  <2> QED
    BY <1>d, <2>1, LoggedFrame
<1>u. CASE UNCHANGED vars
  BY <1>u, LoggedFrame DEF vars
<1>1. ASSUME NEW c \in Callers, Call(c)
      PROVE EveryRunLogged'
  <2>1. UNCHANGED <<ran, logged, cut>>
    BY <1>1 DEF Call, Authenticate, SessionBegin, BindPolicy, CallTool, RunTool, create_pending_call
  <2>2. req' = req \/ \E x : Become(c, x)
    BY <1>1 DEF Call, Authenticate, SessionBegin, BindPolicy, CallTool, RunTool,
                create_pending_call, Finish
  <2> QED
    BY <1>c, <2>1, <2>2, LoggedFrame
<1>2. ASSUME NEW d \in Desks, NEW i \in Ids, NEW verdict \in {"approve", "deny"},
             ReadCall(d, i, verdict)
      PROVE EveryRunLogged'
  <2> DEFINE x == [NoRequest EXCEPT
                     !.stage = "load", !.agent = pending[i].agent, !.tool = pending[i].tool,
                     !.call = i, !.seen = Facts(db, pending[i].agent, pending[i].tool)]
  <2>1. x.stage = "load"
    BY DEF NoRequest
  <2>2. Become(d, x) \/ Become(d, Closing("refuse", i))
    BY <1>2 DEF ReadCall
  <2>3. At(d, "idle") /\ UNCHANGED <<ran, logged, cut>>
    BY <1>2 DEF ReadCall
  <2> HIDE DEF x
  <2> QED
    BY <1>d, <1>t, <2>1, <2>2, <2>3 DEF At
<1>3. ASSUME NEW d \in Desks, Decide(d)
      PROVE EveryRunLogged'
  <2> DEFINE x1 == [req[d] EXCEPT !.stage = "caller", !.enabled = ExecutorEnabled(req[d].tool)]
             x2 == [req[d] EXCEPT !.stage = "policy", !.id = db.agent[req[d].agent].id]
             x3 == [req[d] EXCEPT !.stage = "exec"]
             x4 == Closing("refuse", req[d].call)
  <2>1. x1.stage = "caller" /\ x2.stage = "policy" /\ x3.stage = "exec" /\ x4.stage = "refuse"
    BY <1>t DEF TypeOK, Request
  <2>2. \/ Become(d, x1) \/ Become(d, x2) \/ Become(d, x3) \/ Become(d, x4)
        \/ Become(d, NoRequest)
    BY <1>3 DEF Decide, Load, _caller_agent, Judge, Refuse, Settle
  <2>3. ~ At(d, "ran") /\ UNCHANGED <<ran, logged, cut>>
    BY <1>3 DEF Decide, Load, _caller_agent, Judge, Refuse, Settle, At
  <2> HIDE DEF x1, x2, x3, x4
  <2> QED
    BY <1>d, <1>t, <2>1, <2>2, <2>3
<1>4. ASSUME NEW r \in Requests, Execute(r)
      PROVE EveryRunLogged'
  <2>1. CASE r \in Callers
    BY <1>4, <1>c, <1>t, <2>1 DEF Execute, Go, Count
  <2>2. CASE r \in Desks /\ ~ req[r].enabled
    <3>1. Become(r, Closing("settle", req[r].call)) /\ ~ At(r, "ran") /\ UNCHANGED <<ran, logged, cut>>
      BY <1>4, <2>2 DEF Execute, Go, At
    <3> QED
      BY <1>d, <1>t, <2>2, <3>1
  <2>3. CASE r \in Desks /\ req[r].enabled
    <3>1. PICK i \in Ids : i = req[r].call
      BY <1>t, <1>4, <2>3 DEF Execute, Go, At
    <3>2. At(r, "exec") /\ Count(ran, r) /\ UNCHANGED <<logged, cut>>
      BY <1>4, <2>3 DEF Execute, Go
    <3>3. req'[r].stage = "ran" /\ req'[r].call = i
      <4> DEFINE x == [req[r] EXCEPT !.stage = "ran"]
      <4>1. x.stage = "ran" /\ x.call = i
        BY <1>t, <2>3, <3>1 DEF TypeOK, Request
      <4>2. Become(r, x)
        BY <1>4, <2>3 DEF Execute, Go
      <4> HIDE DEF x
      <4> QED
        BY <1>b, <2>3, <4>1, <4>2
    <3>4. \A e \in Desks \ {r} : req'[e] = req[e]
      BY <1>4, <1>b, <2>3 DEF Execute, Go
    <3>5. \A j \in Ids : ran'[j] = IF j = i THEN ran[j] + 1 ELSE ran[j]
      BY <1>t, <3>1, <3>2 DEF Count, TypeOK
    <3>6. ASSUME NEW j \in Ids
          PROVE ran'[j] = logged'[j] + cut'[j] + Cardinality(Runs(j)')
      <4>1. CASE j = i
        <5>1. Runs(j)' = Runs(j) \cup {r} /\ r \notin Runs(j)
          BY <2>3, <3>2, <3>3, <3>4, <4>1 DEF Runs, At
        <5>2. Cardinality(Runs(j)') = Cardinality(Runs(j)) + 1
          BY <5>1, RunsFinite, FS_AddElement
        <5>3. /\ ran'[j] = ran[j] + 1 /\ logged'[j] = logged[j] /\ cut'[j] = cut[j]
              /\ ran[j] = logged[j] + cut[j] + Cardinality(Runs(j))
              /\ ran[j] \in Nat /\ logged[j] \in Nat /\ cut[j] \in Nat /\ Cardinality(Runs(j)) \in Nat
          BY <1>t, <3>2, <3>5, <4>1, RunsFinite
        <5> QED
          BY <5>2, <5>3
      <4>2. CASE j # i
        <5>1. Runs(j)' = Runs(j)
          BY <2>3, <3>1, <3>3, <3>4, <4>2 DEF Runs, At
        <5> QED
          BY <1>t, <3>2, <3>5, <4>2, <5>1
      <4> QED
        BY <4>1, <4>2
    <3> QED
      BY <3>6 DEF EveryRunLogged, Runs
  <2> QED
    BY <2>1, <2>2, <2>3 DEF Requests
<1>5. ASSUME NEW r \in Requests, record_integration_call(r)
      PROVE EveryRunLogged'
  <2>1. CASE r \in Callers
    <3>1. Become(r, NoRequest) /\ UNCHANGED <<ran, cut>> /\ Count(logged, r)
      BY <1>5, <2>1 DEF record_integration_call, Finish
    <3>2. UNCHANGED logged
      BY <1>t, <2>1, <3>1 DEF Count
    <3> QED
      BY <1>c, <2>1, <3>1, <3>2
  <2>2. CASE r \in Desks
    <3>1. PICK i \in Ids : i = req[r].call
      BY <1>t, <1>5, <2>2 DEF record_integration_call, At
    <3>2. /\ At(r, "ran") /\ Count(logged, r) /\ UNCHANGED <<ran, cut>>
          /\ Become(r, Closing("settle", i))
      BY <1>5, <2>2, <3>1, ConstantsAssumption DEF record_integration_call
    <3>3. req'[r].stage = "settle" /\ \A e \in Desks \ {r} : req'[e] = req[e]
      BY <1>b, <1>t, <2>2, <3>2
    <3>4. \A j \in Ids : logged'[j] = IF j = i THEN logged[j] + 1 ELSE logged[j]
      BY <1>t, <3>1, <3>2 DEF Count, TypeOK
    <3>5. ASSUME NEW j \in Ids
          PROVE ran'[j] = logged'[j] + cut'[j] + Cardinality(Runs(j)')
      <4>1. CASE j = i
        <5>1. Runs(j)' = Runs(j) \ {r} /\ r \in Runs(j)
          BY <2>2, <3>1, <3>2, <3>3, <4>1 DEF Runs, At
        <5>2. Cardinality(Runs(j)') = Cardinality(Runs(j)) - 1
          BY <5>1, RunsFinite, FS_RemoveElement
        <5>3. /\ ran'[j] = ran[j] /\ logged'[j] = logged[j] + 1 /\ cut'[j] = cut[j]
              /\ ran[j] = logged[j] + cut[j] + Cardinality(Runs(j))
              /\ ran[j] \in Nat /\ logged[j] \in Nat /\ cut[j] \in Nat /\ Cardinality(Runs(j)) \in Nat
          BY <1>t, <3>2, <3>4, <4>1, RunsFinite
        <5> QED
          BY <5>2, <5>3
      <4>2. CASE j # i
        <5>1. Runs(j)' = Runs(j)
          BY <2>2, <3>1, <3>2, <3>3, <4>2 DEF Runs, At
        <5> QED
          BY <1>t, <3>2, <3>4, <4>2, <5>1
      <4> QED
        BY <4>1, <4>2
    <3> QED
      BY <3>5 DEF EveryRunLogged, Runs
  <2> QED
    BY <2>1, <2>2 DEF Requests
<1>6. ASSUME NEW dead \in SUBSET Requests, Lost(dead), UNCHANGED <<ran, logged>>
      PROVE EveryRunLogged'
  <2>1. ASSUME NEW i \in Ids
        PROVE ran'[i] = logged'[i] + cut'[i] + Cardinality(Runs(i)')
    <3>1. \A d \in Desks : req'[d] = IF d \in dead THEN NoRequest ELSE req[d]
      BY <1>6 DEF Lost, Requests
    <3>2. Runs(i)' = Runs(i) \ dead
      BY <1>t, <3>1 DEF Runs, At
    <3>3. {r \in dead : At(r, "ran") /\ req[r].call = i} = Runs(i) \cap dead
      BY <1>t DEF Runs, Requests
    <3>4. cut'[i] = cut[i] + Cardinality(Runs(i) \cap dead)
      BY <1>6, <3>3 DEF Lost
    <3>5. Cardinality(Runs(i) \ dead) = Cardinality(Runs(i)) - Cardinality(Runs(i) \cap dead)
      BY RunsFinite, FS_Difference
    <3>6. Cardinality(Runs(i) \cap dead) \in Nat
      <4>1. Runs(i) \cap dead \in SUBSET Runs(i)
        OBVIOUS
      <4>2. IsFiniteSet(Runs(i) \cap dead)
        BY <4>1, RunsFinite, FS_Subset
      <4> QED
        BY <4>2, FS_CardinalityType
    <3>7. /\ ran'[i] = ran[i] /\ logged'[i] = logged[i]
          /\ ran[i] = logged[i] + cut[i] + Cardinality(Runs(i))
          /\ ran[i] \in Nat /\ logged[i] \in Nat /\ cut[i] \in Nat /\ Cardinality(Runs(i)) \in Nat
      BY <1>6, <1>t, RunsFinite
    <3> QED
      BY <3>2, <3>4, <3>5, <3>6, <3>7
  <2> QED
    BY <2>1 DEF EveryRunLogged, Runs
<1>7. ASSUME NEW r \in Requests, Raise(r)
      PROVE EveryRunLogged'
  BY <1>7, <1>6 DEF Raise
<1>8. CASE Down
  BY <1>8, <1>6 DEF Down
<1>9. CASE Operator
  <2>1. PICK new : Configure(new)
    BY <1>9 DEF Operator, SetAgent, SetPolicy, SetTool, SetIntegration, SetGate, SetStrict
  <2>2. \A d \in Desks : req'[d].stage = req[d].stage /\ req'[d].call = req[d].call
    BY <2>1 DEF Configure, TypeOK, Requests, Request
  <2> QED
    BY <2>1, <2>2, LoggedFrame DEF Configure
<1>10. ASSUME NEW i \in Ids, Purge(i)
       PROVE EveryRunLogged'
  BY <1>10, LoggedFrame DEF Purge
<1> QED
  BY <1>u, <1>1, <1>2, <1>3, <1>4, <1>5, <1>7, <1>8, <1>9, <1>10 DEF Next, Upstream

-----------------------------------------------------------------------------
(* The results.                                                            *)

LEMMA Inductive == Spec => []IInv
<1>1. Init => IInv
  BY InitType, RequestsInit, CallsInit, LoggedInit DEF IInv
<1>2. IInv /\ [Next]_vars => IInv'
  BY TypeStep, RequestsStep, CallsStep, LoggedStep DEF IInv
<1> QED
  BY <1>1, <1>2, PTL DEF Spec

\* The variables keep their types.
THEOREM TypeCorrect == Spec => []TypeOK
<1>1. IInv => TypeOK
  BY DEF IInv
<1> QED
  BY <1>1, Inductive, PTL

\* What runs for an agent runs for an active one, with a policy that allows the
\* call, each so at some instant of its request.
THEOREM AllowedRuns == Spec => []AllowedAtSomeTime
<1>1. IInv => AllowedAtSomeTime
  <2> SUFFICES ASSUME IInv, NEW r \in Requests, At(r, "ran")
               PROVE /\ "active" \in req[r].seen
                     /\ req[r].seen \cap {"inherit", "gated", "ungated", "absent"} # {}
    BY DEF AllowedAtSomeTime
  <2>1. req[r] \in Request /\ Good(db, r, req[r])
    BY DEF IInv, TypeOK, RequestsGood
  <2>2. CASE r \in Callers
    <3>1. "active" \in req[r].seen /\ ModeSeen(req[r]) /\ req[r].mode # "deny"
      BY <2>1, <2>2 DEF Good, GoodCaller, At
    <3>2. req[r].mode \in {"inherit", "gated", "ungated"}
      BY <2>1, <3>1 DEF Request, Modes
    <3> QED
      BY <3>1, <3>2 DEF ModeSeen
  <2>3. CASE r \in Desks
    BY <2>1, <2>3 DEF Good, GoodDesk, At
  <2> QED
    BY <2>2, <2>3 DEF Requests
<1> QED
  BY <1>1, Inductive, PTL

\* A write runs without an operator only if a policy and a gate mode, each in
\* force at some instant of the request, let it; never through a read-only tool.
THEOREM UngatedWrites == Spec => []UngatedAtSomeTime
<1>1. IInv => UngatedAtSomeTime
  <2> SUFFICES ASSUME IInv, NEW c \in Callers, At(c, "ran"),
                      Shape[req[c].tool].writes, ~ Shape[req[c].tool].dryRun
               PROVE /\ ~ Shape[req[c].tool].readOnly
                     /\ \/ "ungated" \in req[c].seen
                        \/ /\ {"inherit", "absent"} \cap req[c].seen # {}
                           /\ ~ Shape[req[c].tool].alwaysGate
                           /\ \/ "none" \in req[c].seen
                              \/ "destructive" \in req[c].seen /\ ~ Shape[req[c].tool].destructive
    BY DEF UngatedAtSomeTime
  <2>1. req[c] \in Request /\ GoodCaller(db, req[c])
    BY DEF IInv, TypeOK, RequestsGood, Good, Requests
  <2>2. /\ ModeSeen(req[c]) /\ req[c].mode # "deny" /\ req[c].gate \in req[c].seen
        /\ Unguarded(req[c])
    BY <2>1 DEF GoodCaller, At
  <2>3. ~ Shape[req[c].tool].readOnly /\ ~ ShouldGate(req[c].mode, req[c].gate, req[c].tool)
    BY <2>2 DEF Unguarded
  <2>4. req[c].mode \in {"inherit", "ungated"}
    BY <2>1, <2>2, <2>3 DEF ShouldGate, Request, Modes
  <2>5. CASE req[c].mode = "ungated"
    BY <2>2, <2>3, <2>5 DEF ModeSeen
  <2>6. CASE req[c].mode = "inherit"
    <3>1. /\ ~ Shape[req[c].tool].alwaysGate
          /\ req[c].gate = "none" \/ (req[c].gate = "destructive" /\ ~ Shape[req[c].tool].destructive)
      BY <2>1, <2>3, <2>6 DEF ShouldGate, Request, Gates
    <3> QED
      BY <2>2, <2>3, <2>6, <3>1 DEF ModeSeen
  <2> QED
    BY <2>4, <2>5, <2>6
<1> QED
  BY <1>1, Inductive, PTL

\* In strict mode a call runs inside a session of session_begin.
THEOREM StrictIsGrouped == Spec => []GroupedWhenStrict
<1>1. IInv => GroupedWhenStrict
  BY DEF IInv, RequestsGood, Good, GoodCaller, GroupedWhenStrict, Requests, At
<1> QED
  BY <1>1, Inductive, PTL

\* What was disabled when a request began and until its run does not run.
THEOREM DisabledStaysOff == Spec => []DisabledNeverRuns
<1>1. IInv => DisabledNeverRuns
  <2> SUFFICES ASSUME IInv, NEW r \in Requests, At(r, "ran")
               PROVE LET kind == Shape[req[r].tool].kind IN
                     /\ (r \in Callers \/ kind \in {"http", "generic"}) => "integration" \in req[r].seen
                     /\ (r \in Callers \/ kind = "http") => "tool" \in req[r].seen
    BY DEF DisabledNeverRuns
  <2>1. Good(db, r, req[r])
    BY DEF IInv, RequestsGood
  <2> QED
    BY <2>1 DEF Good, GoodCaller, GoodDesk, EnabledSeen, At, Requests
<1> QED
  BY <1>1, Inductive, PTL

\* A queued call is sent twice, or sent and denied, only if two requests held it
\* at once or one died on the way.
THEOREM RepeatsNeedOverlap == Spec => []OnlyOverlapRepeats
<1>1. IInv => OnlyOverlapRepeats
  <2> SUFFICES ASSUME IInv, NEW i \in Ids \ overlap
               PROVE ran[i] <= 1 /\ (pending[i].status = "denied" => ran[i] = 0)
    BY DEF OnlyOverlapRepeats
  <2>1. CallGood(i)
    BY DEF IInv, CallsGood
  <2> QED
    BY <2>1 DEF CallGood
<1> QED
  BY <1>1, Inductive, PTL

\* Every run of a queued call has its audit row, but for the thread that is
\* between the two or died there.
THEOREM RunsAreLogged == Spec => []EveryRunLogged
<1>1. IInv => EveryRunLogged
  BY DEF IInv
<1> QED
  BY <1>1, Inductive, PTL
=============================================================================
