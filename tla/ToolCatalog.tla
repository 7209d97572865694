----------------------------- MODULE ToolCatalog -----------------------------
(***************************************************************************)
(* The tools of the integrations: their rows, the catalogues that seed them *)
(* and change with a release or with the kind of an integration, and the    *)
(* MCP surfaces that refresh_mcp_tools keeps in step with the rows: the     *)
(* shared one and those of single integrations, which a start creates.      *)
(* Handlers run in threads, and nothing serialises their refreshes.         *)
(***************************************************************************)
EXTENDS Integers, FiniteSets

CONSTANTS
  Integrations,
  Names,      \* tool names
  Catalogues, \* the sets of names that a kind's catalogue may hold
  Handlers,   \* requests of the operator
  MaxId,      \* bound: tool rows created
  Budget      \* bound: requests, restarts and faults

ConstantsAssumption == Catalogues \subseteq SUBSET Names /\ MaxId \in Nat /\ Budget \in Nat

VARIABLES
  integ,     \* integrations
  catalogue, \* seed_tool_names of each integration's kind
  row,       \* integration_tools: id 0 where there is no row
  lastId,
  shared,    \* tools on the shared surface
  names,     \* _registered_names
  own,       \* _per_integration: the surfaces of single integrations
  op,        \* the requests that are running
  lost,      \* history: a seeding deleted a row made by hand
  tangled,   \* history: since the start, refreshes overlapped or one was cut off
  fuel

tables == <<integ, catalogue, row, lastId>>
surfaces == <<shared, names, own>>
hist == <<lost, tangled>>
vars == <<tables, surfaces, op, hist, fuel>>

Modes == {"joined", "standalone", "both"}
Tools == Integrations \X Names

\* `chosen` is the operator's last word on `enabled`; `hand`: made by hand, and no
\* seeding has met the name since.
NoRow == [id |-> 0, on |-> FALSE, seeded |-> FALSE, chosen |-> FALSE, hand |-> FALSE]
NoSurface == [there |-> FALSE, tools |-> {}]
Idle == [pc |-> "idle", i |-> {}, seen |-> <<>>, todo |-> {}, expected |-> {}, tools |-> {}]

TypeOK ==
  /\ integ \in [Integrations -> [there : BOOLEAN, on : BOOLEAN, mode : Modes]]
  /\ catalogue \in [Integrations -> Catalogues]
  /\ row \in [Tools -> [id : 0..MaxId, on : BOOLEAN, seeded : BOOLEAN, chosen : BOOLEAN,
                      hand : BOOLEAN]]
  /\ lastId \in 0..MaxId /\ shared \subseteq Tools /\ names \subseteq Tools
  /\ own \in [Integrations -> [there : BOOLEAN, tools : SUBSET Names]]
  /\ \A h \in Handlers :
       /\ op[h].pc \in {"idle", "seed", "stale", "drop", "take", "rebind", "list", "next", "read",
                        "add", "record", "own", "ownRead", "ownAdd"}
       /\ op[h].i \subseteq Integrations /\ op[h].expected \subseteq Names
  /\ lost \in BOOLEAN /\ tangled \in BOOLEAN /\ fuel \in 0..Budget

\* What the surfaces show after a start.
Enabled(i) == {n \in Names : row[<<i, n>>].id # 0 /\ row[<<i, n>>].on}
Active(i) == integ[i].there /\ integ[i].on
Served == {t \in Tools : Active(t[1]) /\ integ[t[1]].mode # "standalone" /\ t[2] \in Enabled(t[1])}

\* The integrations were just created, and nothing has been seeded.
Init ==
  /\ integ \in [Integrations -> [there : {TRUE}, on : {TRUE}, mode : {"joined", "both"}]]
  /\ catalogue \in [Integrations -> Catalogues]
  /\ row = [t \in Tools |-> NoRow] /\ lastId = 0 /\ shared = {} /\ names = {}
  /\ own = [i \in Integrations |-> NoSurface] /\ op = [h \in Handlers |-> Idle]
  /\ lost = FALSE /\ tangled = FALSE /\ fuel = Budget

Spend == fuel > 0 /\ fuel' = fuel - 1

-----------------------------------------------------------------------------
(* The requests: one transaction, then a refresh.                          *)

Set(h, new) == op' = [op EXCEPT ![h] = new]
Goto(h, pc) == Set(h, [op[h] EXCEPT !.pc = pc])
Begin(h) == op[h].pc = "idle" /\ Spend
Refresh(h) == Set(h, [Idle EXCEPT !.pc = "take"])

\* A row with the next id; ids are only compared for the same name.
NewRow(seeded) ==
  [id |-> lastId + 1, on |-> TRUE, seeded |-> seeded, chosen |-> TRUE, hand |-> ~ seeded]

\* POST, PUT integrations: the kind decides which catalogue seeds it.
SaveIntegration(h, i) ==
  /\ Begin(h) /\ Refresh(h)
  /\ \E on \in BOOLEAN, mode \in Modes, cat \in Catalogues :
       /\ integ' = [integ EXCEPT ![i] = [there |-> TRUE, on |-> on, mode |-> mode]]
       /\ catalogue' = [catalogue EXCEPT ![i] = cat]
  /\ UNCHANGED <<row, lastId, surfaces, hist>>

\* A seeding that runs meanwhile goes on with an id that no integration has.
DeleteIntegration(h, i) ==
  /\ Begin(h) /\ integ[i].there
  /\ integ' = [integ EXCEPT ![i].there = FALSE]
  /\ row' = [t \in Tools |-> IF t[1] = i THEN NoRow ELSE row[t]]
  /\ op' = [g \in Handlers |-> IF g = h THEN [Idle EXCEPT !.pc = "take"]
                               ELSE IF op[g].i = {i} /\ op[g].pc \in {"seed", "stale", "drop"}
                               THEN [Idle EXCEPT !.pc = "take"] ELSE op[g]]
  /\ UNCHANGED <<catalogue, lastId, surfaces, hist>>

\* A name that is there is refused.
CreateTool(h, t) ==
  /\ Begin(h) /\ Refresh(h) /\ lastId < MaxId
  /\ integ[t[1]].there /\ row[t].id = 0
  /\ row' = [row EXCEPT ![t] = NewRow(FALSE)] /\ lastId' = lastId + 1
  /\ UNCHANGED <<integ, catalogue, surfaces, hist>>

DeleteTool(h, t) ==
  /\ Begin(h) /\ Refresh(h) /\ row[t].id # 0
  /\ row' = [row EXCEPT ![t] = NoRow]
  /\ UNCHANGED <<integ, catalogue, lastId, surfaces, hist>>

\* The toggle of one tool, or of all.
Toggle(h, i) ==
  /\ Begin(h) /\ Refresh(h)
  /\ \E ns \in {{n} : n \in Names} \cup {Names}, on \in BOOLEAN :
       /\ \E n \in ns : row[<<i, n>>].id # 0
       /\ row' = [t \in Tools |-> IF t[1] = i /\ t[2] \in ns /\ row[t].id # 0
                                  THEN [row[t] EXCEPT !.on = on, !.chosen = on] ELSE row[t]]
  /\ UNCHANGED <<integ, catalogue, lastId, surfaces, hist>>

-----------------------------------------------------------------------------
(* seed_for_kind.                                                          *)

\* The rows that exist are read once; the kind was read before.
Seed(h, i) ==
  /\ Begin(h) /\ integ[i].there
  /\ Set(h, [Idle EXCEPT !.pc = "seed", !.i = {i}, !.todo = catalogue[i], !.expected = catalogue[i],
                         !.seen = [n \in Names |-> row[<<i, n>>].id]])
  /\ UNCHANGED <<tables, surfaces, hist>>

\* What a seeding writes to a row whose name it knows.
Met(r) == [r EXCEPT !.seeded = TRUE, !.hand = FALSE]

\* A row that was there is updated by its id and keeps `enabled`; another is created,
\* which fails when the name was taken meanwhile: no refresh follows.
SeedTool(h, n) ==
  /\ op[h].pc = "seed" /\ n \in op[h].todo
  /\ LET t == <<CHOOSE i \in op[h].i : TRUE, n>>
         id == op[h].seen[n]
         more == Set(h, [op[h] EXCEPT !.todo = @ \ {n}])
     IN IF id # 0
        THEN /\ row' = IF row[t].id = id THEN [row EXCEPT ![t] = Met(@)] ELSE row
             /\ more /\ UNCHANGED <<lastId, tangled>>
        ELSE IF row[t].id # 0
        THEN Set(h, Idle) /\ tangled' = TRUE /\ UNCHANGED <<row, lastId>>
        ELSE /\ lastId < MaxId /\ lastId' = lastId + 1
             /\ row' = [row EXCEPT ![t] = NewRow(TRUE)] /\ more /\ UNCHANGED tangled
  /\ UNCHANGED <<integ, catalogue, surfaces, lost, fuel>>

\* Bug: tools the operator created are stale too.
StaleAny(h) ==
  /\ op[h].pc = "seed" /\ op[h].todo = {}
  /\ LET i == CHOOSE x \in op[h].i : TRUE
     IN Set(h, [op[h] EXCEPT !.pc = "drop", !.seen = [n \in Names |-> row[<<i, n>>].id],
                             !.todo = {n \in Names \ op[h].expected : row[<<i, n>>].id # 0}])
  /\ UNCHANGED <<tables, surfaces, hist, fuel>>

\* _drop_stale_seed_tools reads the rows again, then deletes by id.
Stale(h) ==
  /\ op[h].pc = "seed" /\ op[h].todo = {}
  /\ LET i == CHOOSE x \in op[h].i : TRUE
     IN Set(h, [op[h] EXCEPT !.pc = "drop", !.seen = [n \in Names |-> row[<<i, n>>].id],
                             !.todo = {n \in Names \ op[h].expected :
                                         row[<<i, n>>].id # 0 /\ row[<<i, n>>].seeded}])
  /\ UNCHANGED <<tables, surfaces, hist, fuel>>

Drop(h) ==
  /\ op[h].pc = "drop"
  /\ IF op[h].todo = {} THEN Refresh(h) /\ UNCHANGED <<row, lost>>
     ELSE \E n \in op[h].todo :
            LET t == <<CHOOSE i \in op[h].i : TRUE, n>>
                id == op[h].seen[n]
            IN /\ row' = IF row[t].id = id THEN [row EXCEPT ![t] = NoRow] ELSE row
               /\ lost' = (lost \/ (row[t].id = id /\ row[t].hand))
               /\ Set(h, [op[h] EXCEPT !.todo = @ \ {n}])
  /\ UNCHANGED <<integ, catalogue, lastId, surfaces, tangled, fuel>>

-----------------------------------------------------------------------------
(* refresh_mcp_tools.                                                      *)

Refreshing == {"rebind", "list", "next", "read", "add", "record", "own", "ownRead", "ownAdd"}

\* The names of the last refresh are removed, then forgotten.
Take(h) ==
  /\ op[h].pc = "take"
  /\ shared' = shared \ names
  /\ Goto(h, "rebind")
  /\ tangled' = (tangled \/ \E g \in Handlers : op[g].pc \in Refreshing)
  /\ UNCHANGED <<tables, names, own, lost, fuel>>

Rebind(h) ==
  /\ op[h].pc = "rebind" /\ names' = {} /\ Goto(h, "list")
  /\ UNCHANGED <<tables, shared, own, hist, fuel>>

\* get_integrations: what is disabled is left out, its own surface included.
List(h) ==
  /\ op[h].pc = "list"
  /\ Set(h, [Idle EXCEPT !.pc = "next", !.seen = integ, !.todo = {i \in Integrations : Active(i)}])
  /\ UNCHANGED <<tables, surfaces, hist, fuel>>

NextIntegration(h) ==
  /\ op[h].pc = "next"
  /\ IF op[h].todo = {} THEN Set(h, Idle)
     ELSE \E i \in op[h].todo :
            Set(h, [op[h] EXCEPT !.i = {i}, !.todo = @ \ {i},
                                 !.pc = IF op[h].seen[i].mode = "standalone" THEN "own" ELSE "read"])
  /\ UNCHANGED <<tables, surfaces, hist, fuel>>

Read(h) ==
  /\ op[h].pc \in {"read", "ownRead"}
  /\ Set(h, [op[h] EXCEPT !.tools = UNION {Enabled(i) : i \in op[h].i},
                          !.pc = IF op[h].pc = "read" THEN "add" ELSE "ownAdd"])
  /\ UNCHANGED <<tables, surfaces, hist, fuel>>

Add(h) ==
  /\ op[h].pc = "add"
  /\ shared' = shared \cup (op[h].i \X op[h].tools)
  /\ Goto(h, "record")
  /\ UNCHANGED <<tables, names, own, hist, fuel>>

Record(h) ==
  /\ op[h].pc = "record"
  /\ names' = names \cup (op[h].i \X op[h].tools)
  /\ Goto(h, "own")
  /\ UNCHANGED <<tables, shared, own, hist, fuel>>

\* _refresh_single_instance, when the start created one, whatever the mode is now.
OwnTake(h) ==
  /\ op[h].pc = "own"
  /\ LET i == CHOOSE x \in op[h].i : TRUE
     IN IF own[i].there THEN own' = [own EXCEPT ![i].tools = {}] /\ Goto(h, "ownRead")
        ELSE Goto(h, "next") /\ UNCHANGED own
  /\ UNCHANGED <<tables, shared, names, hist, fuel>>

OwnAdd(h) ==
  /\ op[h].pc = "ownAdd"
  /\ own' = [i \in Integrations |-> IF i \in op[h].i THEN [own[i] EXCEPT !.tools = @ \cup op[h].tools]
                                    ELSE own[i]]
  /\ Goto(h, "next")
  /\ UNCHANGED <<tables, shared, names, hist, fuel>>

RefreshStep(h) ==
  \/ Take(h) \/ Rebind(h) \/ List(h) \/ NextIntegration(h) \/ Read(h) \/ Add(h) \/ Record(h)
  \/ OwnTake(h) \/ OwnAdd(h)

-----------------------------------------------------------------------------
(* Faults and starts.                                                      *)

\* A statement fails and the request answers 500.
Cut(h) ==
  /\ op[h].pc \in Refreshing \cup {"seed", "drop", "take"} /\ Spend
  /\ Set(h, Idle) /\ tangled' = TRUE
  /\ UNCHANGED <<tables, surfaces, lost>>

\* reseed_all_integrations, refresh_mcp_tools and build_per_integration_mcp of a start,
\* perhaps of a release whose catalogues differ.
Reseeded(t, wanted) ==
  IF wanted THEN IF row[t].id = 0 THEN NewRow(TRUE) ELSE Met(row[t])
  ELSE IF row[t].seeded THEN NoRow ELSE row[t]

Restart ==
  /\ Spend /\ lastId < MaxId
  /\ UNCHANGED integ
  /\ \E cats \in [Integrations -> Catalogues] :
       /\ catalogue' = cats
       /\ row' = [t \in Tools |-> Reseeded(t, integ[t[1]].there /\ t[2] \in cats[t[1]])]
  /\ lastId' = lastId + 1
  /\ lost' = (lost \/ \E t \in Tools : row[t].hand /\ row'[t].id = 0)
  /\ shared' = Served' /\ names' = Served'
  /\ own' = [i \in Integrations |-> IF Active(i) /\ integ[i].mode # "joined"
                                    THEN [there |-> TRUE, tools |-> Enabled(i)'] ELSE NoSurface]
  /\ op' = [h \in Handlers |-> Idle] /\ tangled' = FALSE

Request(h) ==
  \/ \E i \in Integrations :
       SaveIntegration(h, i) \/ DeleteIntegration(h, i) \/ Toggle(h, i) \/ Seed(h, i)
  \/ \E t \in Tools : CreateTool(h, t) \/ DeleteTool(h, t)
  \/ \E n \in Names : SeedTool(h, n)
  \/ Stale(h) \/ Drop(h)

Next == Restart \/ \E h \in Handlers : Request(h) \/ RefreshStep(h) \/ Cut(h)

Spec == Init /\ [][Next]_vars

-----------------------------------------------------------------------------
(* What must hold.                                                         *)

\* "so the MCP surface stays in sync without a restart" (refresh_mcp_tools): when no
\* request is running, agents see the enabled tools of the enabled integrations, unless
\* refreshes overlapped or one was cut off since the start.
SurfaceFollows ==
  (\A h \in Handlers : op[h].pc = "idle") /\ ~ tangled =>
    /\ shared = Served
    /\ \A i \in Integrations : own[i].there /\ Active(i) => own[i].tools = Enabled(i)

\* "tools the operator created by hand are left alone" (_drop_stale_seed_tools) unless a
\* catalogue ever held their name, and seeding "preserves the operator's enable/disable
\* state" (reseed_all_integrations) as long as the row exists.
SeedingSpares == ~ lost /\ \A t \in Tools : row[t].on = row[t].chosen
=============================================================================
