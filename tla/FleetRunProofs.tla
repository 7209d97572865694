-------------------------- MODULE FleetRunProofs --------------------------
(***************************************************************************)
(* Safety of FleetRun for any set of gateways and dashboard tabs, any      *)
(* number of commands and any budget of operator actions and faults.       *)
(***************************************************************************)
EXTENDS FleetRun, SequenceTheorems, TLAPS

USE ConstantsAssumption DEF ConstantsAssumption, tables, handlers, poller, runner, history

T == Command \cup {NoCmd}

LEMMA CommandsType ==
  ASSUME TypeOK
  PROVE  /\ Len(commands) \in Nat
         /\ DOMAIN commands = 1..Len(commands)
         /\ DOMAIN commands \subseteq Ids
         /\ \A id \in DOMAIN commands : commands[id] \in T
         /\ commands \in [DOMAIN commands -> T]
<1>1. commands \in Seq(T) /\ Len(commands) <= MaxCommands
  BY DEF TypeOK, T
<1> QED
  BY <1>1, LenProperties, ElementOfSeq DEF Ids

\* A step that keeps the ids keeps the type of the table.
LEMMA SameIds ==
  ASSUME TypeOK, commands' \in [DOMAIN commands -> T]
  PROVE  /\ commands' \in Seq(Command \cup {NoCmd})
         /\ Len(commands') = Len(commands)
         /\ Len(commands') <= MaxCommands
         /\ DOMAIN commands' = DOMAIN commands
<1>1. /\ Len(commands) \in Nat
      /\ commands' \in [1..Len(commands) -> T]
      /\ DOMAIN commands = 1..Len(commands)
      /\ Len(commands) <= MaxCommands
  BY CommandsType DEF TypeOK
<1>2. commands' \in Seq(T)
  BY <1>1, SeqDef
<1>3. Len(commands') = Len(commands)
  BY <1>1, <1>2, LenProperties
<1> QED
  BY <1>1, <1>2, <1>3 DEF T

\* A new command takes the next id.
LEMMA NewCommand ==
  ASSUME TypeOK, NEW c \in Command, Len(commands) < MaxCommands,
         commands' = Append(commands, c)
  PROVE  /\ commands' \in Seq(Command \cup {NoCmd})
         /\ Len(commands') <= MaxCommands
         /\ Len(commands) + 1 \in Ids \ DOMAIN commands
         /\ DOMAIN commands' = DOMAIN commands \cup {Len(commands) + 1}
         /\ \A id \in DOMAIN commands : commands'[id] = commands[id]
         /\ commands'[Len(commands) + 1] = c
<1>1. commands \in Seq(T) /\ c \in T
  BY DEF TypeOK, T
<1>2. /\ commands' \in Seq(T)
      /\ Len(commands') = Len(commands) + 1
      /\ \A id \in 1..Len(commands) : commands'[id] = commands[id]
      /\ commands'[Len(commands) + 1] = c
  BY <1>1, AppendProperties
<1>3. /\ DOMAIN commands' = 1..Len(commands')
      /\ DOMAIN commands = 1..Len(commands)
      /\ Len(commands) \in Nat
  BY <1>1, <1>2, LenProperties
<1> QED
  BY <1>2, <1>3 DEF T, Ids

\* A step of a unit changes that unit only.
LEMMA UnitMoves ==
  ASSUME TypeOK, NEW g \in Gateways, NEW id \in Ids, NEW from, NEW to \in UnitPcs,
         Go(g, id, from, to)
  PROVE  /\ unit[g][id] = from
         /\ unit' \in [Gateways -> [Ids -> UnitPcs]]
         /\ \A h \in Gateways, j \in Ids :
              unit'[h][j] = IF h = g /\ j = id THEN to ELSE unit[h][j]
<1> QED
  BY DEF TypeOK, Go

\* A result is sent.
LEMMA ResultSent ==
  ASSUME TypeOK, NEW g \in Gateways, NEW id \in Ids, NEW status \in Statuses,
         Send(g, id, status)
  PROVE  /\ posts' \subseteq Post
         /\ \A p \in posts' :
              p \in posts \/ (p.g = g /\ p.id = id /\ p.status = status /\ p.stage = "sent")
<1>1. [g |-> g, id |-> id, status |-> status, stage |-> "sent"] \in Post
  BY DEF Post
<1> QED
  BY <1>1 DEF TypeOK, Send

-----------------------------------------------------------------------------
(* The dispatch handler.                                                    *)

LEMMA SubmitCheckStep ==
  ASSUME IInv, NEW t \in Tabs, NEW targets \in SUBSET Gateways, SubmitCheck(t, targets)
  PROVE  IInv'
<1>1. TypeOK'
  BY DEF IInv, TypeOK, SubmitCheck, Handler
<1>2. TablesHold'
  BY DEF IInv, TypeOK, Existing, TablesHold, SubmitCheck
<1>3. HandlersHold'
  BY DEF IInv, TypeOK, Existing, HandlersHold, SubmitCheck
<1>4. PollerHolds'
  BY DEF IInv, TypeOK, PollerHolds, SubmitCheck
<1>5. UnitHolds'
  BY DEF IInv, TypeOK, UnitHolds, SubmitCheck
<1>6. OnlyDispatchedRuns'
  BY DEF IInv, TypeOK, OnlyDispatchedRuns, SubmitCheck
<1>7. CompleteIsSettled'
  BY DEF IInv, TypeOK, Existing, CompleteIsSettled, SubmitCheck
<1> QED
  BY <1>1, <1>2, <1>3, <1>4, <1>5, <1>6, <1>7 DEF IInv

LEMMA CreateStep ==
  ASSUME IInv, NEW t \in Tabs, Create(t)
  PROVE  IInv'
<1> DEFINE c == [status |-> "pending", targets |-> disp[t].targets]
<1>0. TypeOK /\ c \in Command /\ disp[t] \in Handler
  BY DEF IInv, TypeOK, Handler, Command
<1>a. /\ commands' \in Seq(Command \cup {NoCmd})
      /\ Len(commands') <= MaxCommands
      /\ Len(commands) + 1 \in Ids \ DOMAIN commands
      /\ DOMAIN commands' = DOMAIN commands \cup {Len(commands) + 1}
      /\ \A id \in DOMAIN commands : commands'[id] = commands[id]
      /\ commands'[Len(commands) + 1] = c
  BY <1>0, NewCommand DEF Create
<1>b. /\ disp' \in [Tabs -> Handler]
      /\ \A u \in Tabs : u # t => disp'[u] = disp[u]
      /\ disp'[t].id = Len(commands) + 1
  <2>1. disp' = [disp EXCEPT ![t].stage = "approve", ![t].id = Len(commands) + 1]
    BY DEF Create
  <2>2. disp \in [Tabs -> Handler] /\ Len(commands) + 1 \in 0..MaxCommands
    BY <1>0, <1>a DEF TypeOK, Ids
  <2>3. disp' \in [Tabs -> Handler]
    BY <2>1, <2>2 DEF Handler
  <2> QED
    BY <1>0, <2>1, <2>2, <2>3 DEF Handler
<1>c. disp'[t].targets = c.targets
  <2>1. disp \in [Tabs -> Handler]
    BY <1>0 DEF TypeOK
  <2> QED
    BY <1>0, <2>1 DEF Create, Handler
<1>1. TypeOK'
  BY <1>0, <1>a, <1>b DEF TypeOK, Create
<1>2. TablesHold'
<2>1. \A id \in Existing' : commands'[id].status # "pending" =>
        id \in Existing /\ commands'[id] = commands[id]
  BY <1>a DEF Existing
<2> QED
  BY <1>a, <2>1 DEF IInv, TablesHold, Create
<1>3. HandlersHold'
<2>1. ASSUME NEW u \in Tabs, disp'[u].stage \in {"approve", "write"}
      PROVE  /\ disp'[u].id \in DOMAIN commands'
             /\ disp'[u].id \in Existing' =>
                  commands'[disp'[u].id].targets = disp'[u].targets
  <3>1. CASE u = t
    BY <1>a, <1>b, <1>c, <3>1
  <3>2. CASE u # t
    <4>1. disp'[u] = disp[u] /\ disp[u].id \in DOMAIN commands
      BY <1>b, <2>1, <3>2 DEF IInv, HandlersHold
    <4>2. commands'[disp[u].id] = commands[disp[u].id]
      BY <1>a, <4>1
    <4>3. disp[u].id \in Existing' => disp[u].id \in Existing
      BY <4>1, <4>2 DEF Existing
    <4> QED
      BY <1>a, <2>1, <4>1, <4>2, <4>3 DEF IInv, HandlersHold
  <3> QED
    BY <3>1, <3>2
<2>2. ASSUME NEW p \in posts
      PROVE  /\ p.id \in DOMAIN commands'
             /\ p.status \in Final => <<p.g, p.id>> \in settled
             /\ (p.stage = "mark" /\ p.id \in Existing') =>
                  /\ commands'[p.id].status # "pending"
                  /\ \A g \in commands'[p.id].targets : <<g, p.id>> \in settled
  <3>1. p.id \in DOMAIN commands /\ commands'[p.id] = commands[p.id]
    BY <1>a DEF IInv, HandlersHold
  <3>2. p.id \in Existing' => p.id \in Existing
    BY <3>1 DEF Existing
  <3> QED
    BY <1>a, <3>1, <3>2 DEF IInv, HandlersHold
<2> QED
  BY <2>1, <2>2 DEF HandlersHold, Create
<1>4. PollerHolds'
  BY DEF IInv, TypeOK, PollerHolds, Create
<1>5. UnitHolds'
  BY DEF IInv, TypeOK, UnitHolds, Create
<1>6. OnlyDispatchedRuns'
  BY DEF IInv, TypeOK, OnlyDispatchedRuns, Create
<1>7. CompleteIsSettled'
  BY <1>0, <1>a DEF IInv, TypeOK, Existing, CompleteIsSettled, Create
<1> QED
  BY <1>1, <1>2, <1>3, <1>4, <1>5, <1>6, <1>7 DEF IInv

LEMMA ApproveReadStep ==
  ASSUME IInv, NEW t \in Tabs, ApproveRead(t)
  PROVE  IInv'
<1>0. /\ disp[t] \in Handler
      /\ [disp[t] EXCEPT !.stage = "write"] \in Handler
      /\ NoDispatch \in Handler
  <2>1. disp[t] \in Handler
    BY DEF IInv, TypeOK
  <2>2. NoDispatch \in Handler
    BY DEF Handler, NoDispatch
  <2> QED
    BY <2>1, <2>2 DEF Handler
<1>a. PICK d \in Handler :
        /\ disp' = [disp EXCEPT ![t] = d]
        /\ d = NoDispatch \/ (d.id = disp[t].id /\ d.targets = disp[t].targets)
  <2>1. CASE disp' = [disp EXCEPT ![t] = NoDispatch]
    BY <1>0, <2>1
  <2>2. CASE disp' = [disp EXCEPT ![t].stage = "write"]
    <3> DEFINE w == [disp[t] EXCEPT !.stage = "write"]
    <3>1. w \in Handler /\ w.id = disp[t].id /\ w.targets = disp[t].targets
      BY <1>0 DEF Handler
    <3>2. disp' = [disp EXCEPT ![t] = w]
      BY <2>2
    <3> QED
      BY <3>1, <3>2
  <2> QED
    BY <2>1, <2>2 DEF ApproveRead
<1>b. disp[t].stage = "approve" /\ UNCHANGED <<tables, posts, poller, runner, history, fuel>>
  BY DEF ApproveRead
<1>1. TypeOK'
  BY <1>a, <1>b DEF IInv, TypeOK
<1>2. TablesHold'
  BY DEF IInv, TypeOK, Existing, TablesHold, ApproveRead
<1>3. HandlersHold'
<2>1. ASSUME NEW u \in Tabs, disp'[u].stage \in {"approve", "write"}
      PROVE  /\ disp'[u].id \in DOMAIN commands
             /\ disp'[u].id \in Existing => commands[disp'[u].id].targets = disp'[u].targets
  BY <1>a, <1>b, <2>1 DEF IInv, TypeOK, HandlersHold, NoDispatch
<2> QED
  BY <1>b, <2>1 DEF IInv, HandlersHold, Existing
<1>4. PollerHolds'
  BY DEF IInv, TypeOK, PollerHolds, ApproveRead
<1>5. UnitHolds'
  BY DEF IInv, TypeOK, UnitHolds, ApproveRead
<1>6. OnlyDispatchedRuns'
  BY DEF IInv, TypeOK, OnlyDispatchedRuns, ApproveRead
<1>7. CompleteIsSettled'
  BY DEF IInv, TypeOK, Existing, CompleteIsSettled, ApproveRead
<1> QED
  BY <1>1, <1>2, <1>3, <1>4, <1>5, <1>6, <1>7 DEF IInv

LEMMA ApproveStep ==
  ASSUME IInv, NEW t \in Tabs, Approve(t)
  PROVE  IInv'
<1> DEFINE id == disp[t].id
           targets == disp[t].targets
           c == [commands[id] EXCEPT !.status = "approved"]
<1>0. /\ TypeOK /\ id \in DOMAIN commands /\ id \in Ids
      /\ targets \subseteq Gateways
      /\ id \in Existing => commands[id].targets = targets
      /\ DOMAIN commands \subseteq Ids
      /\ \A q \in DOMAIN commands : commands[q] \in T
  BY CommandsType DEF IInv, TypeOK, HandlersHold, Approve, Handler
<1>1a. id \in Existing => /\ commands[id] \in Command /\ c \in Command
                          /\ c.targets = targets /\ c.status = "approved"
  BY <1>0 DEF Existing, T, Command
<1>2a. /\ \/ id \notin Existing /\ UNCHANGED <<commands, dispatched>>
          \/ /\ id \in Existing
             /\ commands' = [commands EXCEPT ![id] = c]
             /\ dispatched' = dispatched \cup (targets \X {id})
       /\ results' = [g \in Gateways |->
            IF g \in targets /\ results[g][id] = NoResult
            THEN [results[g] EXCEPT ![id] = "queued"] ELSE results[g]]
       /\ disp' = [disp EXCEPT ![t] = NoDispatch]
       /\ UNCHANGED <<frozen, version, settled, posts, poller, runner, fuel>>
  BY DEF Approve
<1> HIDE DEF c, id, targets
<1>a. /\ commands' \in Seq(Command \cup {NoCmd})
      /\ Len(commands') <= MaxCommands
      /\ DOMAIN commands' = DOMAIN commands
      /\ \A q \in DOMAIN commands :
           commands'[q] = commands[q] \/ (q = id /\ id \in Existing /\ commands'[q] = c)
  <2>1. CASE UNCHANGED commands
    BY <1>0, <2>1 DEF TypeOK
  <2>2. CASE id \in Existing /\ commands' = [commands EXCEPT ![id] = c]
    <3>1. commands' = [q \in DOMAIN commands |-> IF q = id THEN c ELSE commands[q]]
      BY <2>2
    <3>2. commands' \in [DOMAIN commands -> T]
      BY <1>0, <1>1a, <2>2, <3>1 DEF T
    <3> QED
      BY <1>0, <2>2, <3>1, <3>2, SameIds
  <2> QED
    BY <1>2a, <2>1, <2>2
<1>b. \A g \in Gateways, q \in Ids :
        results'[g][q] = IF q = id /\ g \in targets /\ results[g][q] = NoResult
                         THEN "queued" ELSE results[g][q]
  BY <1>0, <1>2a DEF TypeOK
<1>c. results' \in [Gateways -> [Ids -> Statuses \cup {NoResult}]]
  BY <1>0, <1>2a DEF TypeOK, Statuses
<1>d. /\ dispatched \subseteq dispatched'
      /\ dispatched' \subseteq (Gateways \X Ids)
      /\ \A p \in dispatched' : p \in dispatched \/ p[2] = id
      /\ id \in Existing => \A g \in targets : <<g, id>> \in dispatched'
  BY <1>0, <1>2a DEF TypeOK
<1>e. NoDispatch \in Handler
  BY DEF NoDispatch, Handler
<1>1. TypeOK'
  BY <1>0, <1>2a, <1>a, <1>c, <1>d, <1>e DEF TypeOK
<1>2. TablesHold'
<2>1. ASSUME NEW q \in Existing', commands'[q].status # "pending",
             NEW g \in commands'[q].targets
      PROVE  results'[g][q] # NoResult /\ <<g, q>> \in dispatched'
  <3>1. CASE commands'[q] = commands[q]
    <4>1. q \in Existing
      BY <1>a, <2>1, <3>1 DEF Existing
    <4>2. g \in Gateways /\ q \in Ids
      BY <1>0, <2>1, <3>1, <4>1 DEF Existing, T, Command
    <4> QED
      BY <1>b, <1>d, <2>1, <3>1, <4>1, <4>2 DEF IInv, TablesHold, Statuses
  <3>2. CASE q = id /\ id \in Existing /\ commands'[q] = c
    BY <1>0, <1>1a, <1>b, <1>d, <2>1, <3>2 DEF Statuses
  <3> QED
    BY <1>a, <2>1, <3>1, <3>2 DEF Existing
<2>2. ASSUME NEW g \in Gateways, NEW q \in Ids,
             results'[g][q] \in TERMINAL_RESULT_STATUSES
      PROVE  <<g, q>> \in settled
  BY <1>b, <2>2 DEF IInv, TablesHold, TERMINAL_RESULT_STATUSES, Final
<2>3. ASSUME NEW g \in Gateways, NEW q \in Ids, results'[g][q] # NoResult
      PROVE  q \in DOMAIN commands'
  BY <1>0, <1>a, <1>b, <2>3 DEF IInv, TablesHold
<2>4. \A p \in dispatched' : p[2] \in DOMAIN commands'
  BY <1>0, <1>a, <1>d DEF IInv, TablesHold
<2> QED
  BY <1>2a, <2>1, <2>2, <2>3, <2>4 DEF TablesHold
<1>3. HandlersHold'
<2>1. ASSUME NEW q \in Existing'
      PROVE  /\ q \in Existing
             /\ commands'[q].targets = commands[q].targets
             /\ commands[q].status # "pending" => commands'[q].status # "pending"
  <3>1. q \in Existing
    BY <1>a, <2>1 DEF Existing
  <3> QED
    BY <1>0, <1>1a, <1>a, <3>1 DEF Existing
<2>2. \A u \in Tabs : u # t => disp'[u] = disp[u]
  BY <1>0, <1>2a DEF TypeOK
<2>3. disp'[t].stage = "idle"
  BY <1>0, <1>2a DEF TypeOK, NoDispatch
<2>4. UNCHANGED <<posts, settled>>
  BY <1>2a
<2> QED
  BY <1>a, <2>1, <2>2, <2>3, <2>4 DEF IInv, HandlersHold
<1>4. PollerHolds'
  BY <1>2a, <1>d DEF IInv, PollerHolds
<1>5. UnitHolds'
  BY <1>2a, <1>d DEF IInv, UnitHolds
<1>6. OnlyDispatchedRuns'
  BY <1>2a, <1>d DEF IInv, OnlyDispatchedRuns
<1>7. CompleteIsSettled'
<2>1. ASSUME NEW q \in Existing', commands'[q].status = "complete"
      PROVE  q \in Existing /\ commands'[q] = commands[q]
  BY <1>1a, <1>a, <2>1 DEF Existing
<2> QED
  BY <1>2a, <2>1 DEF IInv, CompleteIsSettled
<1> QED
  BY <1>1, <1>2, <1>3, <1>4, <1>5, <1>6, <1>7 DEF IInv

-----------------------------------------------------------------------------
(* The operator's other actions and a restart of the dashboard.             *)

LEMMA SetFreezeStep ==
  ASSUME IInv, NEW b \in BOOLEAN, SetFreeze(b)
  PROVE  IInv'
<1>1. TypeOK'
  BY DEF IInv, TypeOK, SetFreeze, Spend
<1>2. TablesHold'
  BY DEF IInv, TypeOK, Existing, TablesHold, SetFreeze, Spend
<1>3. HandlersHold'
  BY DEF IInv, TypeOK, Existing, HandlersHold, SetFreeze, Spend
<1>4. PollerHolds'
  BY DEF IInv, TypeOK, PollerHolds, SetFreeze, Spend
<1>5. UnitHolds'
  BY DEF IInv, TypeOK, UnitHolds, SetFreeze, Spend
<1>6. OnlyDispatchedRuns'
  BY DEF IInv, TypeOK, OnlyDispatchedRuns, SetFreeze, Spend
<1>7. CompleteIsSettled'
  BY DEF IInv, TypeOK, Existing, CompleteIsSettled, SetFreeze, Spend
<1> QED
  BY <1>1, <1>2, <1>3, <1>4, <1>5, <1>6, <1>7 DEF IInv

LEMMA EditStep ==
  ASSUME IInv, Edit
  PROVE  IInv'
<1>1. TypeOK'
  BY DEF IInv, TypeOK, Edit, Spend
<1>2. TablesHold'
  BY DEF IInv, TypeOK, Existing, TablesHold, Edit, Spend
<1>3. HandlersHold'
  BY DEF IInv, TypeOK, Existing, HandlersHold, Edit, Spend
<1>4. PollerHolds'
  BY DEF IInv, TypeOK, PollerHolds, Edit, Spend
<1>5. UnitHolds'
  BY DEF IInv, TypeOK, UnitHolds, Edit, Spend
<1>6. OnlyDispatchedRuns'
  BY DEF IInv, TypeOK, OnlyDispatchedRuns, Edit, Spend
<1>7. CompleteIsSettled'
  BY DEF IInv, TypeOK, Existing, CompleteIsSettled, Edit, Spend
<1> QED
  BY <1>1, <1>2, <1>3, <1>4, <1>5, <1>6, <1>7 DEF IInv

LEMMA ClearStep ==
  ASSUME IInv, NEW g \in Gateways, NEW id \in Ids, Clear(g, id)
  PROVE  IInv'
<1>0. [g |-> g, id |-> id, status |-> "skipped", stage |-> "checked"] \in Post
  BY DEF Post, Statuses, TERMINAL_RESULT_STATUSES
<1>1. TypeOK'
<2>1. posts' \subseteq Post
  BY <1>0 DEF IInv, TypeOK, Clear
<2>2. fuel' \in Nat
  BY DEF IInv, TypeOK, Clear, Spend
<2> QED
  BY <2>1, <2>2 DEF IInv, TypeOK, Clear
<1>2. TablesHold'
  BY DEF IInv, TypeOK, Existing, TablesHold, Clear, Spend
<1>3. HandlersHold'
<2>1. id \in DOMAIN commands
  BY DEF IInv, TablesHold, Clear, Statuses
<2> QED
  BY <2>1 DEF IInv, Existing, HandlersHold, Clear, Final
<1>4. PollerHolds'
  BY DEF IInv, TypeOK, PollerHolds, Clear, Spend
<1>5. UnitHolds'
  BY DEF IInv, TypeOK, UnitHolds, Clear, Spend
<1>6. OnlyDispatchedRuns'
  BY DEF IInv, TypeOK, OnlyDispatchedRuns, Clear, Spend
<1>7. CompleteIsSettled'
  BY DEF IInv, TypeOK, Existing, CompleteIsSettled, Clear, Spend
<1> QED
  BY <1>1, <1>2, <1>3, <1>4, <1>5, <1>6, <1>7 DEF IInv

LEMMA DeleteStep ==
  ASSUME IInv, NEW id \in Existing, Delete(id)
  PROVE  IInv'
<1>0. TypeOK /\ id \in DOMAIN commands /\ id \in Ids /\ Drop(id)
  BY CommandsType DEF IInv, Existing, Delete
<1>a. /\ commands' \in Seq(Command \cup {NoCmd})
      /\ Len(commands') <= MaxCommands
      /\ DOMAIN commands' = DOMAIN commands
      /\ \A q \in DOMAIN commands : commands'[q] = IF q = id THEN NoCmd ELSE commands[q]
  <2>1. commands' = [q \in DOMAIN commands |-> IF q = id THEN NoCmd ELSE commands[q]]
    BY <1>0 DEF Drop
  <2>2. commands' \in [DOMAIN commands -> T]
    BY <1>0, <2>1, CommandsType DEF T
  <2>3. TypeOK
    BY <1>0
  <2>4. /\ commands' \in Seq(Command \cup {NoCmd})
        /\ Len(commands') = Len(commands) /\ Len(commands') <= MaxCommands
        /\ DOMAIN commands' = DOMAIN commands
    BY <2>2, <2>3, SameIds
  <2> QED
    BY <2>1, <2>4
<1>b. /\ results' \in [Gateways -> [Ids -> Statuses \cup {NoResult}]]
      /\ \A g \in Gateways, q \in Ids :
           results'[g][q] = IF q = id THEN NoResult ELSE results[g][q]
  BY <1>0 DEF TypeOK, Drop
<1>1. TypeOK'
  <2>1. /\ UNCHANGED <<frozen, version, disp, posts, pollPc, body, stamp, last, freezeFile>>
        /\ UNCHANGED <<cmdFiles, unit, execs, dispatched, settled>>
        /\ fuel' \in Nat
    BY <1>0 DEF Delete, Spend, TypeOK
  <2> QED
    BY <1>0, <1>a, <1>b, <2>1 DEF TypeOK
<1>2. TablesHold'
<2>1. ASSUME NEW q \in Existing', commands'[q].status # "pending",
             NEW g \in commands'[q].targets
      PROVE  results'[g][q] # NoResult /\ <<g, q>> \in dispatched
  <3>1. /\ q \in Existing /\ q # id
        /\ commands'[q] = commands[q]
    BY <1>a, <2>1 DEF Existing
  <3>2. q \in Ids /\ g \in Gateways
    BY <1>0, <2>1, <3>1, CommandsType DEF Existing, T, Command
  <3> QED
    BY <1>b, <2>1, <3>1, <3>2 DEF IInv, TablesHold
<2>2. ASSUME NEW g \in Gateways, NEW q \in Ids,
             results'[g][q] \in TERMINAL_RESULT_STATUSES
      PROVE  <<g, q>> \in settled
  BY <1>b, <2>2 DEF IInv, TablesHold, Statuses
<2>3. \A g \in Gateways, q \in Ids : results'[g][q] # NoResult => q \in DOMAIN commands'
  BY <1>a, <1>b DEF IInv, TablesHold
<2>4. \A p \in dispatched' : p[2] \in DOMAIN commands'
  BY <1>a DEF IInv, TablesHold, Delete
<2> QED
  BY <2>1, <2>2, <2>3, <2>4 DEF TablesHold, Delete
<1>3. HandlersHold'
  BY <1>0, <1>a DEF IInv, Existing, HandlersHold, Delete
<1>4. PollerHolds'
  BY DEF IInv, TypeOK, PollerHolds, Delete, Drop, Spend
<1>5. UnitHolds'
  BY DEF IInv, TypeOK, UnitHolds, Delete, Drop, Spend
<1>6. OnlyDispatchedRuns'
  BY DEF IInv, TypeOK, OnlyDispatchedRuns, Delete, Drop, Spend
<1>7. CompleteIsSettled'
  BY <1>0, <1>a DEF IInv, Existing, CompleteIsSettled, Delete
<1> QED
  BY <1>1, <1>2, <1>3, <1>4, <1>5, <1>6, <1>7 DEF IInv

LEMMA PurgeStep ==
  ASSUME IInv, NEW id \in Existing, Purge(id)
  PROVE  IInv'
<1>0. TypeOK /\ id \in DOMAIN commands /\ id \in Ids /\ Drop(id)
  BY CommandsType DEF IInv, Existing, Purge
<1>a. /\ commands' \in Seq(Command \cup {NoCmd})
      /\ Len(commands') <= MaxCommands
      /\ DOMAIN commands' = DOMAIN commands
      /\ \A q \in DOMAIN commands : commands'[q] = IF q = id THEN NoCmd ELSE commands[q]
  <2>1. commands' = [q \in DOMAIN commands |-> IF q = id THEN NoCmd ELSE commands[q]]
    BY <1>0 DEF Drop
  <2>2. commands' \in [DOMAIN commands -> T]
    BY <1>0, <2>1, CommandsType DEF T
  <2>3. TypeOK
    BY <1>0
  <2>4. /\ commands' \in Seq(Command \cup {NoCmd})
        /\ Len(commands') = Len(commands) /\ Len(commands') <= MaxCommands
        /\ DOMAIN commands' = DOMAIN commands
    BY <2>2, <2>3, SameIds
  <2> QED
    BY <2>1, <2>4
<1>b. /\ results' \in [Gateways -> [Ids -> Statuses \cup {NoResult}]]
      /\ \A g \in Gateways, q \in Ids :
           results'[g][q] = IF q = id THEN NoResult ELSE results[g][q]
  BY <1>0 DEF TypeOK, Drop
<1>1. TypeOK'
  BY <1>0, <1>a, <1>b, SMTT(20) DEF TypeOK, Purge, Spend
<1>2. TablesHold'
<2>1. ASSUME NEW q \in Existing', commands'[q].status # "pending",
             NEW g \in commands'[q].targets
      PROVE  results'[g][q] # NoResult /\ <<g, q>> \in dispatched
  <3>1. /\ q \in Existing /\ q # id
        /\ commands'[q] = commands[q]
    BY <1>a, <2>1 DEF Existing
  <3>2. q \in Ids /\ g \in Gateways
    BY <1>0, <2>1, <3>1, CommandsType DEF Existing, T, Command
  <3> QED
    BY <1>b, <2>1, <3>1, <3>2 DEF IInv, TablesHold
<2>2. ASSUME NEW g \in Gateways, NEW q \in Ids,
             results'[g][q] \in TERMINAL_RESULT_STATUSES
      PROVE  <<g, q>> \in settled
  BY <1>b, <2>2 DEF IInv, TablesHold, Statuses
<2>3. \A g \in Gateways, q \in Ids : results'[g][q] # NoResult => q \in DOMAIN commands'
  BY <1>a, <1>b DEF IInv, TablesHold
<2>4. \A p \in dispatched' : p[2] \in DOMAIN commands'
  BY <1>a DEF IInv, TablesHold, Purge
<2> QED
  BY <2>1, <2>2, <2>3, <2>4 DEF TablesHold, Purge
<1>3. HandlersHold'
  BY <1>0, <1>a DEF IInv, Existing, HandlersHold, Purge
<1>4. PollerHolds'
  BY DEF IInv, TypeOK, PollerHolds, Purge, Drop, Spend
<1>5. UnitHolds'
  BY DEF IInv, TypeOK, UnitHolds, Purge, Drop, Spend
<1>6. OnlyDispatchedRuns'
  BY DEF IInv, TypeOK, OnlyDispatchedRuns, Purge, Drop, Spend
<1>7. CompleteIsSettled'
  BY <1>0, <1>a DEF IInv, Existing, CompleteIsSettled, Purge
<1> QED
  BY <1>1, <1>2, <1>3, <1>4, <1>5, <1>6, <1>7 DEF IInv

LEMMA DownStep ==
  ASSUME IInv, Down
  PROVE  IInv'
<1>1. TypeOK'
  BY DEF IInv, TypeOK, Down, NoDispatch, Spend, Handler
<1>2. TablesHold'
  BY DEF IInv, TypeOK, Existing, TablesHold, Down, NoDispatch, Spend
<1>3. HandlersHold'
  BY DEF IInv, TypeOK, Existing, HandlersHold, Down, NoDispatch, Spend
<1>4. PollerHolds'
  BY DEF IInv, TypeOK, PollerHolds, Down, NoDispatch, Spend
<1>5. UnitHolds'
  BY DEF IInv, TypeOK, UnitHolds, Down, NoDispatch, Spend
<1>6. OnlyDispatchedRuns'
  BY DEF IInv, TypeOK, OnlyDispatchedRuns, Down, NoDispatch, Spend
<1>7. CompleteIsSettled'
  BY DEF IInv, TypeOK, Existing, CompleteIsSettled, Down, NoDispatch,
         Spend
<1> QED
  BY <1>1, <1>2, <1>3, <1>4, <1>5, <1>6, <1>7 DEF IInv

-----------------------------------------------------------------------------
(* Results on their way.                                                    *)

LEMMA ResultCheckStep ==
  ASSUME IInv, NEW p \in posts, ResultCheck(p)
  PROVE  IInv'
<1>p. p \in Post /\ p \in posts /\ p.id \in DOMAIN commands
  BY DEF IInv, TypeOK, HandlersHold
<1>0. p \in Post /\ [p EXCEPT !.stage = "checked"] \in Post
  BY <1>p DEF Post
<1>a. \A q \in posts' : q \in posts \/ q = [p EXCEPT !.stage = "checked"]
  BY DEF ResultCheck, Answer, Advance
<1>1. TypeOK'
  BY <1>0, <1>a DEF IInv, TypeOK, ResultCheck
<1>2. TablesHold'
  BY DEF IInv, TypeOK, Existing, TablesHold, ResultCheck, Advance, Answer
<1>3. HandlersHold'
<2>1. \A q \in posts' :
        q \in posts \/ (q.stage = "checked" /\ q.status = p.status /\ q.g = p.g /\ q.id = p.id)
  BY <1>0, <1>a DEF Post
<2>2. UNCHANGED <<commands, disp, settled, Existing>>
  BY DEF ResultCheck, Existing
<2> QED
  BY <1>p, <2>1, <2>2 DEF IInv, HandlersHold
<1>4. PollerHolds'
  BY DEF IInv, TypeOK, PollerHolds, ResultCheck, Advance, Answer
<1>5. UnitHolds'
  BY DEF IInv, TypeOK, UnitHolds, ResultCheck, Advance, Answer
<1>6. OnlyDispatchedRuns'
  BY DEF IInv, TypeOK, OnlyDispatchedRuns, ResultCheck, Advance, Answer
<1>7. CompleteIsSettled'
  BY DEF IInv, TypeOK, Existing, CompleteIsSettled, ResultCheck, Advance,
         Answer
<1> QED
  BY <1>1, <1>2, <1>3, <1>4, <1>5, <1>6, <1>7 DEF IInv

LEMMA upsert_fleet_resultStep ==
  ASSUME IInv, NEW p \in posts, upsert_fleet_result(p)
  PROVE  IInv'
<1>p. p \in Post /\ p \in posts /\ p.id \in DOMAIN commands
  BY DEF IInv, TypeOK, HandlersHold
<1>0. p \in Post /\ [p EXCEPT !.stage = "stored"] \in Post
  BY <1>p DEF Post
<1>a. \A q \in posts' : q \in posts \/ q = [p EXCEPT !.stage = "stored"]
  BY DEF upsert_fleet_result, Advance
<1>b. /\ results' \in [Gateways -> [Ids -> Statuses \cup {NoResult}]]
      /\ \A g \in Gateways, id \in Ids :
           results'[g][id] = IF g = p.g /\ id = p.id THEN p.status ELSE results[g][id]
  BY <1>0 DEF IInv, TypeOK, upsert_fleet_result, Post
<1>c. /\ settled \subseteq settled'
      /\ settled' \subseteq (Gateways \X Ids)
      /\ p.status \in TERMINAL_RESULT_STATUSES => <<p.g, p.id>> \in settled'
  <2>1. p.g \in Gateways /\ p.id \in Ids
    BY <1>0 DEF Post
  <2>2. settled \subseteq (Gateways \X Ids)
    BY DEF IInv, TypeOK
  <2>3. p.status \in Final => <<p.g, p.id>> \in settled
    BY <1>p DEF IInv, HandlersHold
  <2> QED
    BY <2>1, <2>2, <2>3 DEF upsert_fleet_result, TERMINAL_RESULT_STATUSES
<1>1. TypeOK'
  BY <1>0, <1>a, <1>b, <1>c DEF IInv, TypeOK, upsert_fleet_result
<1>2. TablesHold'
<2>1. ASSUME NEW q \in Existing', commands'[q].status # "pending",
             NEW g \in commands'[q].targets
      PROVE  results'[g][q] # NoResult /\ <<g, q>> \in dispatched
  <3>1. q \in Existing /\ commands' = commands
    BY <2>1 DEF Existing, upsert_fleet_result
  <3>2. q \in Ids /\ g \in Gateways
    BY <2>1, <3>1, CommandsType DEF IInv, Existing, T, Command
  <3>3. p.status # NoResult
    BY <1>0 DEF Post
  <3> QED
    BY <1>b, <2>1, <3>1, <3>2, <3>3 DEF IInv, TablesHold
<2>2. ASSUME NEW g \in Gateways, NEW id \in Ids,
             results'[g][id] \in TERMINAL_RESULT_STATUSES
      PROVE  <<g, id>> \in settled'
  BY <1>b, <1>c, <2>2 DEF IInv, TablesHold
<2>3. ASSUME NEW g \in Gateways, NEW id \in Ids, results'[g][id] # NoResult
      PROVE  id \in DOMAIN commands
  BY <1>p, <1>b, <2>3 DEF IInv, TablesHold
<2> QED
  BY <2>1, <2>2, <2>3 DEF IInv, TablesHold, upsert_fleet_result
<1>3. HandlersHold'
<2>1. \A q \in posts' :
        q \in posts \/ (q.stage = "stored" /\ q.status = p.status /\ q.g = p.g /\ q.id = p.id)
  BY <1>0, <1>a DEF Post
<2>2. commands' = commands /\ disp' = disp /\ Existing' = Existing
  BY DEF upsert_fleet_result, Existing
<2> QED
  BY <1>p, <1>c, <2>1, <2>2 DEF IInv, HandlersHold
<1>4. PollerHolds'
  BY DEF IInv, TypeOK, PollerHolds, upsert_fleet_result, Advance
<1>5. UnitHolds'
  BY DEF IInv, TypeOK, UnitHolds, upsert_fleet_result, Advance
<1>6. OnlyDispatchedRuns'
  BY DEF IInv, TypeOK, OnlyDispatchedRuns, upsert_fleet_result, Advance
<1>7. CompleteIsSettled'
  BY DEF IInv, TypeOK, Existing, CompleteIsSettled, upsert_fleet_result,
         Advance
<1> QED
  BY <1>1, <1>2, <1>3, <1>4, <1>5, <1>6, <1>7 DEF IInv

LEMMA MarkReadStep ==
  ASSUME IInv, NEW p \in posts, MarkRead(p)
  PROVE  IInv'
<1>p. p \in Post /\ p \in posts /\ p.id \in DOMAIN commands
  BY DEF IInv, TypeOK, HandlersHold
<1>0. p \in Post /\ [p EXCEPT !.stage = "mark"] \in Post
  BY <1>p DEF Post
<1>a. \A q \in posts' : \/ q \in posts
                        \/ /\ q = [p EXCEPT !.stage = "mark"]
                           /\ p.id \in Approved /\ AllDone(p.id)
  BY DEF MarkRead, Answer, Advance
<1>1. TypeOK'
  BY <1>0, <1>a DEF IInv, TypeOK, MarkRead
<1>2. TablesHold'
  BY DEF IInv, TypeOK, Existing, TablesHold, MarkRead, Advance, Answer
<1>3. HandlersHold'
<2>1. ASSUME p.id \in Approved, AllDone(p.id)
      PROVE  /\ commands[p.id].status # "pending"
             /\ \A g \in commands[p.id].targets : <<g, p.id>> \in settled
  <3>1. p.id \in Existing /\ commands[p.id].status = "approved"
    BY <2>1 DEF Approved
  <3>2. p.id \in Ids /\ commands[p.id].targets \subseteq Gateways
    BY <1>0, <3>1, CommandsType DEF IInv, Existing, T, Command, Post
  <3>3. ASSUME NEW g \in commands[p.id].targets
        PROVE  results[g][p.id] \in TERMINAL_RESULT_STATUSES
    <4>1. results[g][p.id] # NoResult
      BY <3>1 DEF IInv, TablesHold
    <4> QED
      BY <2>1, <3>2, <4>1 DEF AllDone, Stored
  <3> QED
    BY <3>1, <3>2, <3>3 DEF IInv, TablesHold
<2>2. \A q \in posts' : \/ q \in posts
                        \/ /\ q.g = p.g /\ q.id = p.id /\ q.status = p.status
                           /\ p.id \in Approved /\ AllDone(p.id)
  BY <1>0, <1>a DEF Post
<2>3. UNCHANGED <<commands, disp, settled, Existing>>
  BY DEF MarkRead, Existing
<2> QED
  BY <1>p, <2>1, <2>2, <2>3 DEF IInv, HandlersHold
<1>4. PollerHolds'
  BY DEF IInv, TypeOK, PollerHolds, MarkRead, Advance, Answer
<1>5. UnitHolds'
  BY DEF IInv, TypeOK, UnitHolds, MarkRead, Advance, Answer
<1>6. OnlyDispatchedRuns'
  BY DEF IInv, TypeOK, OnlyDispatchedRuns, MarkRead, Advance, Answer
<1>7. CompleteIsSettled'
  BY DEF IInv, TypeOK, Existing, CompleteIsSettled, MarkRead, Advance,
         Answer
<1> QED
  BY <1>1, <1>2, <1>3, <1>4, <1>5, <1>6, <1>7 DEF IInv

LEMMA set_fleet_statusStep ==
  ASSUME IInv, NEW p \in posts, set_fleet_status(p)
  PROVE  IInv'
<1> DEFINE done == IF commands[p.id] = NoCmd THEN NoCmd
                   ELSE [commands[p.id] EXCEPT !.status = "complete"]
<1>0. p \in Post /\ p \in posts /\ p.stage = "mark" /\ TypeOK /\ posts' = posts \ {p}
  BY DEF IInv, TypeOK, set_fleet_status, Answer
<1>a. p.id \in DOMAIN commands =>
        /\ done \in T
        /\ commands[p.id] # NoCmd => /\ done.status = "complete"
                                     /\ done.targets = commands[p.id].targets
  BY <1>0, CommandsType DEF T, Command
<1>b. commands' = [q \in DOMAIN commands |-> IF q = p.id THEN done ELSE commands[q]]
  BY DEF set_fleet_status
<1> HIDE DEF done
<1>c. commands' \in [DOMAIN commands -> T]
  BY <1>0, <1>a, <1>b, CommandsType
<1>d. /\ commands' \in Seq(Command \cup {NoCmd})
      /\ Len(commands') <= MaxCommands
      /\ DOMAIN commands' = DOMAIN commands
  BY <1>0, <1>c, SameIds
<1>e. \A q \in Existing' :
        /\ q \in Existing
        /\ q # p.id => commands'[q] = commands[q]
        /\ q = p.id => /\ commands'[q].status = "complete"
                       /\ commands'[q].targets = commands[q].targets
  BY <1>a, <1>b DEF Existing, done
<1>f. p.id \in Existing => /\ commands[p.id].status # "pending"
                           /\ \A g \in commands[p.id].targets : <<g, p.id>> \in settled
  BY <1>0 DEF IInv, HandlersHold
<1>1. TypeOK'
  BY <1>0, <1>d DEF TypeOK, set_fleet_status
<1>2. TablesHold'
  BY <1>d, <1>e, <1>f DEF IInv, TablesHold, set_fleet_status
<1>3. HandlersHold'
  BY <1>0, <1>d, <1>e, <1>f DEF IInv, HandlersHold, set_fleet_status
<1>4. PollerHolds'
  BY DEF IInv, TypeOK, PollerHolds, set_fleet_status, Answer
<1>5. UnitHolds'
  BY DEF IInv, TypeOK, UnitHolds, set_fleet_status, Answer
<1>6. OnlyDispatchedRuns'
  BY DEF IInv, TypeOK, OnlyDispatchedRuns, set_fleet_status, Answer
<1>7. CompleteIsSettled'
  BY <1>e, <1>f DEF IInv, CompleteIsSettled, set_fleet_status
<1> QED
  BY <1>1, <1>2, <1>3, <1>4, <1>5, <1>6, <1>7 DEF IInv

LEMMA LoseStep ==
  ASSUME IInv, NEW p \in posts, Lose(p)
  PROVE  IInv'
<1>1. TypeOK'
  BY DEF IInv, TypeOK, Lose, Answer, Spend
<1>2. TablesHold'
  BY DEF IInv, TypeOK, Existing, TablesHold, Lose, Answer, Spend
<1>3. HandlersHold'
  BY DEF IInv, TypeOK, Existing, HandlersHold, Lose, Answer, Spend
<1>4. PollerHolds'
  BY DEF IInv, TypeOK, PollerHolds, Lose, Answer, Spend
<1>5. UnitHolds'
  BY DEF IInv, TypeOK, UnitHolds, Lose, Answer, Spend
<1>6. OnlyDispatchedRuns'
  BY DEF IInv, TypeOK, OnlyDispatchedRuns, Lose, Answer, Spend
<1>7. CompleteIsSettled'
  BY DEF IInv, TypeOK, Existing, CompleteIsSettled, Lose, Answer, Spend
<1> QED
  BY <1>1, <1>2, <1>3, <1>4, <1>5, <1>6, <1>7 DEF IInv

-----------------------------------------------------------------------------
(* The poller.                                                              *)

LEMMA ReadFreezeStep ==
  ASSUME IInv, NEW g \in Gateways, ReadFreeze(g)
  PROVE  IInv'
<1> DEFINE b == [freeze |-> frozen, cmd |-> 0, version |-> version]
<1>0. b \in Body /\ b # NoBody /\ b.cmd = 0
  BY DEF IInv, TypeOK, Body
<1>a. /\ body' = [body EXCEPT ![g] = b]
      /\ pollPc' = [pollPc EXCEPT ![g] = "busy"]
      /\ UNCHANGED <<dispatched>>
  BY DEF ReadFreeze, At
<1> HIDE DEF b
<1>1. TypeOK'
  BY <1>0, <1>a DEF IInv, TypeOK, ReadFreeze, PollPcs
<1>2. TablesHold'
  BY DEF IInv, TypeOK, Existing, TablesHold, ReadFreeze, At
<1>3. HandlersHold'
  BY DEF IInv, TypeOK, Existing, HandlersHold, ReadFreeze, At
<1>4. PollerHolds'
  BY <1>0, <1>a DEF IInv, TypeOK, PollerHolds
<1>5. UnitHolds'
  BY DEF IInv, TypeOK, UnitHolds, ReadFreeze, At
<1>6. OnlyDispatchedRuns'
  BY DEF IInv, TypeOK, OnlyDispatchedRuns, ReadFreeze, At
<1>7. CompleteIsSettled'
  BY DEF IInv, TypeOK, Existing, CompleteIsSettled, ReadFreeze, At
<1> QED
  BY <1>1, <1>2, <1>3, <1>4, <1>5, <1>6, <1>7 DEF IInv

LEMMA ReadBusyStep ==
  ASSUME IInv, NEW g \in Gateways, ReadBusy(g)
  PROVE  IInv'
<1>1. TypeOK'
  BY DEF IInv, TypeOK, ReadBusy, At, PollPcs
<1>2. TablesHold'
  BY DEF IInv, TypeOK, Existing, TablesHold, ReadBusy, At
<1>3. HandlersHold'
  BY DEF IInv, TypeOK, Existing, HandlersHold, ReadBusy, At
<1>4. PollerHolds'
  BY DEF IInv, TypeOK, PollerHolds, ReadBusy, At
<1>5. UnitHolds'
  BY DEF IInv, TypeOK, UnitHolds, ReadBusy, At
<1>6. OnlyDispatchedRuns'
  BY DEF IInv, TypeOK, OnlyDispatchedRuns, ReadBusy, At
<1>7. CompleteIsSettled'
  BY DEF IInv, TypeOK, Existing, CompleteIsSettled, ReadBusy, At
<1> QED
  BY <1>1, <1>2, <1>3, <1>4, <1>5, <1>6, <1>7 DEF IInv

LEMMA ReadNextStep ==
  ASSUME IInv, NEW g \in Gateways, ReadNext(g)
  PROVE  IInv'
<1>0. body[g] \in Body
  BY DEF IInv, TypeOK, PollerHolds, ReadNext, At
<1>a. pollPc' = [pollPc EXCEPT ![g] = "sync"]
  BY DEF ReadNext, At
<1>b. ASSUME NEW id \in Existing, id \in Candidates(g)
      PROVE  id \in Ids /\ <<g, id>> \in dispatched
  BY <1>b, CommandsType DEF IInv, TablesHold, Candidates, Approved, Existing
<1>c. UNCHANGED body \/ \E b \in Body :
        /\ body' = [body EXCEPT ![g] = b]
        /\ <<g, b.cmd>> \in dispatched
  <2>1. CASE UNCHANGED body
    BY <2>1
  <2>2. CASE \E id \in Earliest(Candidates(g)) : body' = [body EXCEPT ![g].cmd = id]
    <3>1. PICK id \in Candidates(g) : body' = [body EXCEPT ![g].cmd = id]
      BY <2>2 DEF Earliest
    <3>2. id \in Ids /\ <<g, id>> \in dispatched
      BY <1>b DEF Candidates, Approved
    <3> DEFINE b == [body[g] EXCEPT !.cmd = id]
    <3>3. b \in Body /\ b.cmd = id
      BY <1>0, <3>2 DEF Body, Ids
    <3>4. body' = [body EXCEPT ![g] = b]
      BY <3>1 DEF IInv, TypeOK
    <3> QED
      BY <3>2, <3>3, <3>4
  <2> QED
    BY <2>1, <2>2 DEF ReadNext
<1>1. TypeOK'
<2>1. body' \in [Gateways -> Body \cup {NoBody}]
  BY <1>c DEF IInv, TypeOK
<2> QED
  BY <1>a, <2>1 DEF IInv, TypeOK, ReadNext, PollPcs
<1>2. TablesHold'
  BY DEF IInv, TypeOK, Existing, TablesHold, ReadNext, At, Earliest,
         Candidates, Approved
<1>3. HandlersHold'
  BY DEF IInv, TypeOK, Existing, HandlersHold, ReadNext, At, Earliest,
         Candidates, Approved
<1>4. PollerHolds'
<2>1. UNCHANGED dispatched
  BY DEF ReadNext
<2> QED
  BY <1>0, <1>a, <1>c, <2>1 DEF IInv, TypeOK, PollerHolds
<1>5. UnitHolds'
  BY DEF IInv, TypeOK, UnitHolds, ReadNext, At, Earliest, Candidates,
         Approved
<1>6. OnlyDispatchedRuns'
  BY DEF IInv, TypeOK, OnlyDispatchedRuns, ReadNext, At, Earliest,
         Candidates, Approved
<1>7. CompleteIsSettled'
  BY DEF IInv, TypeOK, Existing, CompleteIsSettled, ReadNext, At, Earliest,
         Candidates, Approved
<1> QED
  BY <1>1, <1>2, <1>3, <1>4, <1>5, <1>6, <1>7 DEF IInv

LEMMA SyncStep ==
  ASSUME IInv, NEW g \in Gateways, Sync(g)
  PROVE  IInv'
<1>1. TypeOK'
<2>1. pollPc' \in [Gateways -> PollPcs]
  BY DEF IInv, TypeOK, Sync, At, PollPcs
<2>2. body' \in [Gateways -> Body \cup {NoBody}]
  BY DEF IInv, TypeOK, Sync, Forget
<2>3. freezeFile' \in [Gateways -> BOOLEAN]
  <3>1. CASE UNCHANGED freezeFile
    BY <3>1 DEF IInv, TypeOK
  <3>2. CASE freezeFile' = [freezeFile EXCEPT ![g] = body[g].freeze] /\ pollPc[g] = "sync"
    <4>1. body[g] \in Body
      BY <3>2 DEF IInv, TypeOK, PollerHolds
    <4>2. body[g].freeze \in BOOLEAN
      BY <4>1 DEF Body
    <4> QED
      BY <3>2, <4>2 DEF IInv, TypeOK
  <3> QED
    BY <3>1, <3>2 DEF Sync, At
<2>4. fuel' \in Nat
  BY DEF IInv, TypeOK, Sync, Spend
<2> QED
  BY <2>1, <2>2, <2>3, <2>4 DEF IInv, TypeOK, Sync
<1>2. TablesHold'
  BY DEF IInv, TypeOK, Existing, TablesHold, Sync, At, Forget, Spend
<1>3. HandlersHold'
  BY DEF IInv, TypeOK, Existing, HandlersHold, Sync, At, Forget, Spend
<1>4. PollerHolds'
  BY DEF IInv, TypeOK, PollerHolds, Sync, At, Forget, Spend
<1>5. UnitHolds'
  BY DEF IInv, TypeOK, UnitHolds, Sync, At, Forget, Spend
<1>6. OnlyDispatchedRuns'
  BY DEF IInv, TypeOK, OnlyDispatchedRuns, Sync, At, Forget, Spend
<1>7. CompleteIsSettled'
  BY DEF IInv, TypeOK, Existing, CompleteIsSettled, Sync, At, Forget,
         Spend
<1> QED
  BY <1>1, <1>2, <1>3, <1>4, <1>5, <1>6, <1>7 DEF IInv

LEMMA LaunchStep ==
  ASSUME IInv, NEW g \in Gateways, Launch(g)
  PROVE  IInv'
<1> DEFINE id == body[g].cmd
<1>0. id \in Ids /\ <<g, id>> \in dispatched
  <2>1. body[g] \in Body /\ id # 0 /\ <<g, id>> \in dispatched
    BY DEF IInv, TypeOK, PollerHolds, Launch
  <2> QED
    BY <2>1 DEF Body, Ids
<1>l. /\ \/ UNCHANGED unit
         \/ unit[g][id] = "none" /\ unit' = [unit EXCEPT ![g][id] = "ping"]
      /\ \/ cmdFiles' = [cmdFiles EXCEPT ![g] = @ \cup {id}]
         \/ cmdFiles' = [cmdFiles EXCEPT ![g] = @ \ {id}]
         \/ UNCHANGED cmdFiles
  BY DEF Launch
<1>t. /\ unit \in [Gateways -> [Ids -> UnitPcs]]
      /\ cmdFiles \in [Gateways -> SUBSET Ids]
      /\ "ping" \in UnitPcs
  BY DEF IInv, TypeOK, UnitPcs
<1> HIDE DEF id
<1>a. \/ UNCHANGED unit
      \/ /\ unit' \in [Gateways -> [Ids -> UnitPcs]]
         /\ unit[g][id] = "none"
         /\ \A h \in Gateways, j \in Ids :
              unit'[h][j] = IF h = g /\ j = id THEN "ping" ELSE unit[h][j]
  <2>1. CASE UNCHANGED unit
    BY <2>1
  <2>2. CASE unit[g][id] = "none" /\ unit' = [unit EXCEPT ![g][id] = "ping"]
    BY <1>0, <1>t, <2>2
  <2> QED
    BY <1>l, <2>1, <2>2
<1>1. TypeOK'
<2>1. pollPc' \in [Gateways -> PollPcs]
  BY DEF IInv, TypeOK, Launch, At, PollPcs
<2>2. cmdFiles' \in [Gateways -> SUBSET Ids]
  BY <1>0, <1>l, <1>t
<2>3. unit' \in [Gateways -> [Ids -> UnitPcs]]
  BY <1>a DEF IInv, TypeOK
<2>4. fuel' \in Nat
  BY DEF IInv, TypeOK, Launch, Spend
<2> QED
  BY <2>1, <2>2, <2>3, <2>4 DEF IInv, TypeOK, Launch
<1>2. TablesHold'
  BY DEF IInv, TypeOK, Existing, TablesHold, Launch, At, Spend
<1>3. HandlersHold'
  BY DEF IInv, TypeOK, Existing, HandlersHold, Launch, At, Spend
<1>4. PollerHolds'
  BY DEF IInv, TypeOK, PollerHolds, Launch, At, Spend
<1>5. UnitHolds'
  BY <1>0, <1>a DEF IInv, UnitHolds, Launch, Final
<1>6. OnlyDispatchedRuns'
  BY DEF IInv, TypeOK, OnlyDispatchedRuns, Launch, At, Spend
<1>7. CompleteIsSettled'
  BY DEF IInv, TypeOK, Existing, CompleteIsSettled, Launch, At, Spend
<1> QED
  BY <1>1, <1>2, <1>3, <1>4, <1>5, <1>6, <1>7 DEF IInv

LEMMA PersistStep ==
  ASSUME IInv, NEW g \in Gateways, Persist(g)
  PROVE  IInv'
<1>1. TypeOK'
<2>1. body[g] \in Body
  BY DEF IInv, TypeOK, PollerHolds, Persist, At
<2>2. body[g].cmd \in 0..MaxCommands
  BY <2>1 DEF Body
<2> QED
  BY <2>2 DEF IInv, TypeOK, Persist, At, PollPcs
<1>2. TablesHold'
  BY DEF IInv, TypeOK, Existing, TablesHold, Persist, At
<1>3. HandlersHold'
  BY DEF IInv, TypeOK, Existing, HandlersHold, Persist, At
<1>4. PollerHolds'
  BY DEF IInv, TypeOK, PollerHolds, Persist, At
<1>5. UnitHolds'
  BY DEF IInv, TypeOK, UnitHolds, Persist, At
<1>6. OnlyDispatchedRuns'
  BY DEF IInv, TypeOK, OnlyDispatchedRuns, Persist, At
<1>7. CompleteIsSettled'
  BY DEF IInv, TypeOK, Existing, CompleteIsSettled, Persist, At
<1> QED
  BY <1>1, <1>2, <1>3, <1>4, <1>5, <1>6, <1>7 DEF IInv

LEMMA StampStep ==
  ASSUME IInv, NEW g \in Gateways, Stamp(g)
  PROVE  IInv'
<1>1. TypeOK'
  BY DEF IInv, TypeOK, Stamp, At, Forget, PollPcs
<1>2. TablesHold'
  BY DEF IInv, TypeOK, Existing, TablesHold, Stamp, At, Forget
<1>3. HandlersHold'
  BY DEF IInv, TypeOK, Existing, HandlersHold, Stamp, At, Forget
<1>4. PollerHolds'
  BY DEF IInv, TypeOK, PollerHolds, Stamp, At, Forget
<1>5. UnitHolds'
  BY DEF IInv, TypeOK, UnitHolds, Stamp, At, Forget
<1>6. OnlyDispatchedRuns'
  BY DEF IInv, TypeOK, OnlyDispatchedRuns, Stamp, At, Forget
<1>7. CompleteIsSettled'
  BY DEF IInv, TypeOK, Existing, CompleteIsSettled, Stamp, At, Forget
<1> QED
  BY <1>1, <1>2, <1>3, <1>4, <1>5, <1>6, <1>7 DEF IInv

LEMMA PollerRestartStep ==
  ASSUME IInv, NEW g \in Gateways, PollerRestart(g)
  PROVE  IInv'
<1>1. TypeOK'
  BY DEF IInv, TypeOK, PollerRestart, Forget, Spend, PollPcs
<1>2. TablesHold'
  BY DEF IInv, TypeOK, Existing, TablesHold, PollerRestart, Forget, Spend
<1>3. HandlersHold'
  BY DEF IInv, TypeOK, Existing, HandlersHold, PollerRestart, Forget,
         Spend
<1>4. PollerHolds'
  BY DEF IInv, TypeOK, PollerHolds, PollerRestart, Forget, Spend
<1>5. UnitHolds'
  BY DEF IInv, TypeOK, UnitHolds, PollerRestart, Forget, Spend
<1>6. OnlyDispatchedRuns'
  BY DEF IInv, TypeOK, OnlyDispatchedRuns, PollerRestart, Forget, Spend
<1>7. CompleteIsSettled'
  BY DEF IInv, TypeOK, Existing, CompleteIsSettled, PollerRestart, Forget,
         Spend
<1> QED
  BY <1>1, <1>2, <1>3, <1>4, <1>5, <1>6, <1>7 DEF IInv

LEMMA RebootStep ==
  ASSUME IInv, NEW g \in Gateways, Reboot(g)
  PROVE  IInv'
<1>1. TypeOK'
  BY DEF IInv, TypeOK, Reboot, Forget, Spend, PollPcs, UnitPcs
<1>2. TablesHold'
  BY DEF IInv, TypeOK, Existing, TablesHold, Reboot, Forget, Spend
<1>3. HandlersHold'
  BY DEF IInv, TypeOK, Existing, HandlersHold, Reboot, Forget, Spend
<1>4. PollerHolds'
  BY DEF IInv, TypeOK, PollerHolds, Reboot, Forget, Spend
<1>5. UnitHolds'
  BY DEF IInv, TypeOK, UnitHolds, Reboot, Final
<1>6. OnlyDispatchedRuns'
  BY DEF IInv, TypeOK, OnlyDispatchedRuns, Reboot, Forget, Spend
<1>7. CompleteIsSettled'
  BY DEF IInv, TypeOK, Existing, CompleteIsSettled, Reboot, Forget, Spend
<1> QED
  BY <1>1, <1>2, <1>3, <1>4, <1>5, <1>6, <1>7 DEF IInv

-----------------------------------------------------------------------------
(* The unit.                                                                *)

LEMMA PingStep ==
  ASSUME IInv, NEW g \in Gateways, NEW id \in Ids, Ping(g, id)
  PROVE  IInv'
<1>0. /\ unit[g][id] = "ping"
      /\ \A h \in Gateways, j \in Ids :
           unit'[h][j] = IF h = g /\ j = id THEN "pinged" ELSE unit[h][j]
  BY UnitMoves DEF IInv, Ping, UnitPcs
<1>a. \A p \in posts' :
        p \in posts \/ (p.g = g /\ p.id = id /\ p.status = "running" /\ p.stage = "sent")
  BY ResultSent DEF IInv, Ping, Statuses
<1>b. <<g, id>> \in dispatched /\ id \in DOMAIN commands
  BY <1>0 DEF IInv, UnitHolds, TablesHold
<1>1. TypeOK'
  BY DEF IInv, TypeOK, Ping, Go, Send, UnitPcs, Post, Statuses
<1>2. TablesHold'
  BY DEF IInv, TypeOK, Existing, TablesHold, Ping, Go, Send
<1>3. HandlersHold'
<2>1. UNCHANGED <<commands, disp, settled, Existing>>
  BY DEF Ping, Existing
<2> QED
  BY <1>a, <1>b, <2>1 DEF IInv, HandlersHold, Final
<1>4. PollerHolds'
  BY DEF IInv, TypeOK, PollerHolds, Ping, Go, Send
<1>5. UnitHolds'
  BY <1>0, <1>b DEF IInv, UnitHolds, Ping, Final
<1>6. OnlyDispatchedRuns'
  BY DEF IInv, TypeOK, OnlyDispatchedRuns, Ping, Go, Send
<1>7. CompleteIsSettled'
  BY DEF IInv, TypeOK, Existing, CompleteIsSettled, Ping, Go, Send
<1> QED
  BY <1>1, <1>2, <1>3, <1>4, <1>5, <1>6, <1>7 DEF IInv

LEMMA PingedStep ==
  ASSUME IInv, NEW g \in Gateways, NEW id \in Ids, Pinged(g, id)
  PROVE  IInv'
<1>0. /\ unit[g][id] = "pinged"
      /\ \A h \in Gateways, j \in Ids :
           unit'[h][j] = IF h = g /\ j = id THEN "guard" ELSE unit[h][j]
  BY UnitMoves DEF IInv, Pinged, UnitPcs
<1>b. <<g, id>> \in dispatched
  BY <1>0 DEF IInv, UnitHolds
<1>1. TypeOK'
  BY DEF IInv, TypeOK, Pinged, Go, Answered, Spend, UnitPcs
<1>2. TablesHold'
  BY DEF IInv, TypeOK, Existing, TablesHold, Pinged, Go, Answered, Spend
<1>3. HandlersHold'
  BY DEF IInv, TypeOK, Existing, HandlersHold, Pinged, Go, Answered, Spend
<1>4. PollerHolds'
  BY DEF IInv, TypeOK, PollerHolds, Pinged, Go, Answered, Spend
<1>5. UnitHolds'
  BY <1>0, <1>b DEF IInv, UnitHolds, Pinged, Final
<1>6. OnlyDispatchedRuns'
  BY DEF IInv, TypeOK, OnlyDispatchedRuns, Pinged, Go, Answered, Spend
<1>7. CompleteIsSettled'
  BY DEF IInv, TypeOK, Existing, CompleteIsSettled, Pinged, Go, Answered,
         Spend
<1> QED
  BY <1>1, <1>2, <1>3, <1>4, <1>5, <1>6, <1>7 DEF IInv

LEMMA GuardStep ==
  ASSUME IInv, NEW g \in Gateways, NEW id \in Ids, Guard(g, id)
  PROVE  IInv'
<1>0. \E to \in {"failed", "exec"} :
        /\ unit[g][id] = "guard"
        /\ unit' \in [Gateways -> [Ids -> UnitPcs]]
        /\ \A h \in Gateways, j \in Ids :
             unit'[h][j] = IF h = g /\ j = id THEN to ELSE unit[h][j]
        /\ to = "failed" => settled' = settled \cup {<<g, id>>}
        /\ to = "exec" => UNCHANGED settled
  <2>1. CASE Go(g, id, "guard", "failed") /\ Settle(g, id)
    BY <2>1, UnitMoves DEF IInv, Settle, UnitPcs, Final
  <2>2. CASE Go(g, id, "guard", "exec") /\ UNCHANGED settled
    BY <2>2, UnitMoves DEF IInv, UnitPcs, Final
  <2> QED
    BY <2>1, <2>2 DEF Guard
<1>a. /\ execs' \in [Gateways -> [Ids -> Nat]]
      /\ \A h \in Gateways, j \in Ids :
           execs'[h][j] = execs[h][j] \/ (h = g /\ j = id)
  <2>1. UNCHANGED execs \/ execs' = [execs EXCEPT ![g][id] = execs[g][id] + 1]
    BY DEF Guard
  <2>2. execs \in [Gateways -> [Ids -> Nat]] /\ execs[g][id] + 1 \in Nat
    BY DEF IInv, TypeOK
  <2> QED
    BY <2>1, <2>2
<1>b. <<g, id>> \in dispatched
  BY <1>0 DEF IInv, UnitHolds
<1>1. TypeOK'
<2>1. settled' \subseteq (Gateways \X Ids)
  BY <1>0 DEF IInv, TypeOK
<2>2. unit' \in [Gateways -> [Ids -> UnitPcs]]
  BY <1>0
<2> QED
  BY <1>a, <2>1, <2>2 DEF IInv, TypeOK, Guard
<1>2. TablesHold'
  BY DEF IInv, TypeOK, Existing, TablesHold, Guard, Go, Settle
<1>3. HandlersHold'
  BY DEF IInv, TypeOK, Existing, HandlersHold, Guard, Go, Settle
<1>4. PollerHolds'
  BY DEF IInv, TypeOK, PollerHolds, Guard, Go, Settle
<1>5. UnitHolds'
<2>1. UNCHANGED dispatched
  BY DEF Guard
<2> QED
  BY <1>0, <1>b, <2>1 DEF IInv, UnitHolds, Final
<1>6. OnlyDispatchedRuns'
<2>1. UNCHANGED dispatched
  BY DEF Guard
<2> QED
  BY <1>a, <1>b, <2>1 DEF IInv, OnlyDispatchedRuns
<1>7. CompleteIsSettled'
  BY DEF IInv, TypeOK, Existing, CompleteIsSettled, Guard, Go, Settle
<1> QED
  BY <1>1, <1>2, <1>3, <1>4, <1>5, <1>6, <1>7 DEF IInv

LEMMA ExecStep ==
  ASSUME IInv, NEW g \in Gateways, NEW id \in Ids, Exec(g, id)
  PROVE  IInv'
<1>0. \E to \in Final :
        /\ unit[g][id] = "exec"
        /\ \A h \in Gateways, j \in Ids :
             unit'[h][j] = IF h = g /\ j = id THEN to ELSE unit[h][j]
  <2>1. PICK to \in Final : Go(g, id, "exec", to)
    BY DEF Exec
  <2>2. to \in UnitPcs
    BY DEF UnitPcs
  <2> QED
    BY <2>1, <2>2, UnitMoves DEF IInv
<1>a. UNCHANGED dispatched /\ settled' = settled \cup {<<g, id>>}
  BY DEF Exec, Settle
<1>b. <<g, id>> \in dispatched
  BY <1>0 DEF IInv, UnitHolds
<1>1. TypeOK'
  BY DEF IInv, TypeOK, Exec, Go, Settle, UnitPcs, Final
<1>2. TablesHold'
  BY DEF IInv, TypeOK, Existing, TablesHold, Exec, Go, Settle
<1>3. HandlersHold'
  BY DEF IInv, TypeOK, Existing, HandlersHold, Exec, Go, Settle
<1>4. PollerHolds'
  BY DEF IInv, TypeOK, PollerHolds, Exec, Go, Settle
<1>5. UnitHolds'
  BY <1>0, <1>a, <1>b DEF IInv, UnitHolds, Final
<1>6. OnlyDispatchedRuns'
  BY DEF IInv, TypeOK, OnlyDispatchedRuns, Exec, Go, Settle
<1>7. CompleteIsSettled'
  BY DEF IInv, TypeOK, Existing, CompleteIsSettled, Exec, Go, Settle
<1> QED
  BY <1>1, <1>2, <1>3, <1>4, <1>5, <1>6, <1>7 DEF IInv

LEMMA ReportStep ==
  ASSUME IInv, NEW g \in Gateways, NEW id \in Ids, Report(g, id)
  PROVE  IInv'
<1>0. /\ unit[g][id] \in Final
      /\ \A h \in Gateways, j \in Ids :
           unit'[h][j] = IF h = g /\ j = id THEN "reported" ELSE unit[h][j]
  BY UnitMoves DEF IInv, Report, UnitPcs
<1>a. \E status \in Final : \A p \in posts' :
        p \in posts \/ (p.g = g /\ p.id = id /\ p.status = status /\ p.stage = "sent")
  BY ResultSent DEF IInv, Report, Statuses, TERMINAL_RESULT_STATUSES
<1>b. /\ <<g, id>> \in dispatched /\ id \in DOMAIN commands
      /\ <<g, id>> \in settled
  BY <1>0 DEF IInv, UnitHolds, TablesHold, Final
<1>1. TypeOK'
  BY DEF IInv, TypeOK, Report, Go, Send, UnitPcs, Final, Post, Statuses,
         TERMINAL_RESULT_STATUSES
<1>2. TablesHold'
  BY DEF IInv, TypeOK, Existing, TablesHold, Report, Go, Send
<1>3. HandlersHold'
<2>1. UNCHANGED <<commands, disp, settled, Existing>>
  BY DEF Report, Existing
<2> QED
  BY <1>a, <1>b, <2>1 DEF IInv, HandlersHold
<1>4. PollerHolds'
  BY DEF IInv, TypeOK, PollerHolds, Report, Go, Send
<1>5. UnitHolds'
  BY <1>0, <1>b DEF IInv, UnitHolds, Report, Final
<1>6. OnlyDispatchedRuns'
  BY DEF IInv, TypeOK, OnlyDispatchedRuns, Report, Go, Send
<1>7. CompleteIsSettled'
  BY DEF IInv, TypeOK, Existing, CompleteIsSettled, Report, Go, Send
<1> QED
  BY <1>1, <1>2, <1>3, <1>4, <1>5, <1>6, <1>7 DEF IInv

LEMMA ReportedStep ==
  ASSUME IInv, NEW g \in Gateways, NEW id \in Ids, Reported(g, id)
  PROVE  IInv'
<1>1. TypeOK'
  BY DEF IInv, TypeOK, Reported, Go, Answered, Spend, UnitPcs, Final
<1>2. TablesHold'
  BY DEF IInv, TypeOK, Existing, TablesHold, Reported, Go, Answered, Spend
<1>3. HandlersHold'
  BY DEF IInv, TypeOK, Existing, HandlersHold, Reported, Go, Answered,
         Spend
<1>4. PollerHolds'
  BY DEF IInv, TypeOK, PollerHolds, Reported, Go, Answered, Spend
<1>5. UnitHolds'
  BY DEF IInv, TypeOK, UnitHolds, Reported, Go, Answered, Spend
<1>6. OnlyDispatchedRuns'
  BY DEF IInv, TypeOK, OnlyDispatchedRuns, Reported, Go, Answered, Spend
<1>7. CompleteIsSettled'
  BY DEF IInv, TypeOK, Existing, CompleteIsSettled, Reported, Go, Answered,
         Spend
<1> QED
  BY <1>1, <1>2, <1>3, <1>4, <1>5, <1>6, <1>7 DEF IInv

-----------------------------------------------------------------------------
(* The initial states, and any step.                                       *)

LEMMA InitInv ==
  ASSUME Init
  PROVE  IInv
<1>1. TypeOK
  <2>1. commands \in Seq(Command \cup {NoCmd}) /\ Len(commands) = 0
    BY EmptySeq DEF Init
  <2>2. disp \in [Tabs -> Handler]
    BY DEF Init, NoDispatch, Handler
  <2>3. /\ pollPc \in [Gateways -> PollPcs]
        /\ unit \in [Gateways -> [Ids -> UnitPcs]]
        /\ cmdFiles \in [Gateways -> SUBSET Ids]
        /\ execs \in [Gateways -> [Ids -> Nat]]
        /\ results \in [Gateways -> [Ids -> Statuses \cup {NoResult}]]
    BY DEF Init, PollPcs, UnitPcs
  <2>4. /\ last \in [Gateways -> 0..MaxCommands]
        /\ body \in [Gateways -> Body \cup {NoBody}]
        /\ stamp \in [Gateways -> Body \cup {NoBody}]
        /\ freezeFile \in [Gateways -> BOOLEAN]
    BY DEF Init
  <2>5. /\ frozen \in BOOLEAN
        /\ posts \subseteq Post
        /\ dispatched \subseteq (Gateways \X Ids)
        /\ settled \subseteq (Gateways \X Ids)
    BY DEF Init
  <2>6. version \in Nat /\ fuel \in Nat
    BY DEF Init
  <2>7. 0 <= MaxCommands
    OBVIOUS
  <2> QED
    BY <2>1, <2>2, <2>3, <2>4, <2>5, <2>6, <2>7 DEF TypeOK
<1>2. commands = <<>> /\ DOMAIN commands = {}
  BY DEF Init
<1>3. TablesHold
  BY <1>2 DEF Init, TablesHold, Existing, Statuses
<1>4. HandlersHold
  BY DEF Init, HandlersHold, NoDispatch
<1>5. PollerHolds /\ UnitHolds /\ OnlyDispatchedRuns
  BY DEF Init, PollerHolds, UnitHolds, OnlyDispatchedRuns, Final
<1>6. CompleteIsSettled
  BY <1>2 DEF CompleteIsSettled, Existing
<1> QED
  BY <1>1, <1>3, <1>4, <1>5, <1>6 DEF IInv

LEMMA StutterStep ==
  ASSUME IInv, UNCHANGED vars
  PROVE  IInv'
<1>1. TypeOK' /\ TablesHold' /\ CompleteIsSettled'
  BY DEF IInv, vars, TypeOK, TablesHold, CompleteIsSettled, Existing
<1>2. HandlersHold' /\ PollerHolds' /\ UnitHolds' /\ OnlyDispatchedRuns'
  BY DEF IInv, vars, HandlersHold, PollerHolds, UnitHolds, OnlyDispatchedRuns, Existing
<1> QED
  BY <1>1, <1>2 DEF IInv

LEMMA HandleStep ==
  ASSUME IInv, NEW g \in Gateways, Handle(g)
  PROVE  IInv'
BY ResultCheckStep, upsert_fleet_resultStep, MarkReadStep, set_fleet_statusStep
   DEF Handle

LEMMA PollerStep ==
  ASSUME IInv, NEW g \in Gateways, Poller(g)
  PROVE  IInv'
BY ReadFreezeStep, ReadBusyStep, ReadNextStep, SyncStep, LaunchStep, PersistStep,
   StampStep DEF Poller

LEMMA UnitStep ==
  ASSUME IInv, NEW g \in Gateways, NEW id \in Ids, Unit(g, id)
  PROVE  IInv'
BY PingStep, PingedStep, GuardStep, ExecStep, ReportStep, ReportedStep DEF Unit

LEMMA NextInv ==
  ASSUME IInv, [Next]_vars
  PROVE  IInv'
<1>1. ASSUME NEW t \in Tabs, Submit(t) PROVE IInv'
  BY <1>1, SubmitCheckStep, CreateStep, ApproveReadStep, ApproveStep
  DEF Submit
<1>2. CASE Operator
  <2>1. CASE \E b \in BOOLEAN : SetFreeze(b)
    BY <2>1, SetFreezeStep
  <2>2. CASE Edit
    BY <2>2, EditStep
  <2>3. CASE \E id \in Existing : Delete(id) \/ Purge(id)
    BY <2>3, DeleteStep, PurgeStep
  <2>4. CASE \E g \in Gateways, id \in Ids : Clear(g, id)
    BY <2>4, ClearStep
  <2> QED
    BY <1>2, <2>1, <2>2, <2>3, <2>4 DEF Operator
<1>3. CASE Down
  BY <1>3, DownStep
<1>4. CASE \E p \in posts : Lose(p)
  BY <1>4, LoseStep
<1>5. ASSUME NEW g \in Gateways,
             \/ Handle(g) \/ Poller(g) \/ PollerRestart(g) \/ Reboot(g)
             \/ \E id \in Ids : Unit(g, id)
      PROVE  IInv'
  BY <1>5, HandleStep, PollerStep, PollerRestartStep, RebootStep, UnitStep
<1>6. CASE UNCHANGED vars
  BY <1>6, StutterStep
<1> QED
  BY <1>1, <1>2, <1>3, <1>4, <1>5, <1>6 DEF Next

-----------------------------------------------------------------------------
(* The theorems.                                                           *)

\* The tables, the results and policy answers on their way, the pollers and the
\* units agree on what was dispatched and what is over, in every reachable
\* state: after crashes, restarts, lost, late and repeated results too.
THEOREM Invariance == Spec => []IInv
<1>1. Init => IInv
  BY InitInv
<1>2. IInv /\ [Next]_vars => IInv'
  BY NextInv
<1> QED
  BY <1>1, <1>2, PTL DEF Spec

\* Every state has its type (db/fleet.py's tables, the poller's files).
THEOREM TypeCorrect == Spec => []TypeOK
<1>1. IInv => TypeOK
  BY DEF IInv
<1> QED
  BY <1>1, Invariance, PTL

\* A gateway executes only commands whose dispatch to it was approved
\* (approve_fleet_command), for any number of gateways, commands and faults.
THEOREM OnlyDispatched == Spec => []OnlyDispatchedRuns
<1>1. IInv => OnlyDispatchedRuns
  BY DEF IInv
<1> QED
  BY <1>1, Invariance, PTL

\* A complete command (mark_fleet_complete_if_done) is over on every gateway it
\* was sent to.
THEOREM CompletesWhenSettled == Spec => []CompleteIsSettled
<1>1. IInv => CompleteIsSettled
  BY DEF IInv
<1> QED
  BY <1>1, Invariance, PTL

-----------------------------------------------------------------------------
(* One at a time and in order.                                              *)

\* What was offered, ran or is reported was dispatched.
LEMMA OnlyDispatchedMoves ==
  ASSUME IInv, CalmInv, NEW g \in Gateways, NEW id \in Ids
  PROVE  /\ Reporting(g, id, Final) => <<g, id>> \in dispatched
         /\ Reporting(g, id, {"running"}) => <<g, id>> \in dispatched
         /\ Ran(g, id) => <<g, id>> \in dispatched
         /\ unit[g][id] # "none" => <<g, id>> \in dispatched
         /\ Offered(g, id) => <<g, id>> \in dispatched
<1>1. \A statuses : Reporting(g, id, statuses) => <<g, id>> \in dispatched
  BY DEF CalmInv, ReportsInOrder, Reporting
<1>2. Ran(g, id) => <<g, id>> \in dispatched
  BY <1>1 DEF IInv, OnlyDispatchedRuns, Ran
<1> QED
  BY <1>1, <1>2 DEF IInv, UnitHolds, CalmInv, LaunchInOrder, InOrder

\* A dispatched command that exists is not pending and has the gateway as a target.
LEMMA DispatchedRow ==
  ASSUME IInv, CalmInv, NEW g \in Gateways, NEW id \in Existing, <<g, id>> \in dispatched
  PROVE  /\ commands[id].status # "pending" /\ g \in commands[id].targets
         /\ results[g][id] # NoResult
BY DEF IInv, TablesHold, CalmInv, DispatchInOrder

\* Steps of the tables and of the handlers keep the order, when they open no
\* command, close one only on the report of its unit and drop a report only when it
\* is stored or nothing else may go wrong.
LEMMA TableMoves ==
  ASSUME IInv, IInv', CalmInv, fuel' <= fuel,
         UNCHANGED <<unit, execs, last, pollPc, body>>, dispatched \subseteq dispatched',
         \A g \in Gateways, id \in Ids :
           /\ Reporting(g, id, Final)' => Reporting(g, id, Final)
           /\ <<g, id>> \in dispatched =>
                /\ Closed(g, id) => Closed(g, id)'
                /\ Closed(g, id)' => Closed(g, id) \/ Reporting(g, id, Final)
                /\ results[g][id] = "running" => results'[g][id] = "running" \/ Closed(g, id)'
                /\ Reporting(g, id, {"running"}) =>
                     \/ Reporting(g, id, {"running"})' \/ results'[g][id] = "running"
                     \/ Closed(g, id)' \/ ~ Rebootable'
           /\ <<g, id>> \in dispatched' \ dispatched =>
                \A other \in Ids : <<g, other>> \in dispatched => other < id
  PROVE  OpenWhileBusy' /\ Remembered' /\ LaunchInOrder'
<1>0. /\ OpenWhileBusy /\ Remembered /\ LaunchInOrder
      /\ fuel \in Nat /\ fuel' \in Nat
  BY DEF CalmInv, IInv, TypeOK
<1>1. Rebootable' => Rebootable
  BY <1>0 DEF Rebootable
<1>2. ASSUME NEW g \in Gateways, NEW id \in Ids
      PROVE  /\ Ran(g, id)' => Ran(g, id)
             /\ Offered(g, id)' => Offered(g, id)
             /\ Known(g, id)' = Known(g, id)
             /\ unit'[g][id] = unit[g][id] /\ execs'[g][id] = execs[g][id]
             /\ last'[g] = last[g] /\ pollPc'[g] = pollPc[g] /\ body'[g] = body[g]
  BY DEF Ran, Offered, Known
<1>3. ASSUME NEW g \in Gateways, NEW id \in Ids
      PROVE  /\ Ran(g, id) => <<g, id>> \in dispatched
             /\ unit[g][id] # "none" => <<g, id>> \in dispatched
             /\ Offered(g, id) => <<g, id>> \in dispatched
  BY OnlyDispatchedMoves
<1>4. OpenWhileBusy'
  <2>1. ASSUME NEW g \in Gateways, NEW id \in Ids, unit'[g][id] \notin {"none", "reported"}
        PROVE  ~ Closed(g, id)' /\ ~ Reporting(g, id, Final)'
    BY <1>0, <1>2, <1>3, <2>1 DEF OpenWhileBusy
  <2>2. ASSUME NEW g \in Gateways, NEW id \in Ids, unit'[g][id] \in {"ping", "pinged", "guard"}
        PROVE  execs'[g][id] = 0
    BY <1>0, <1>2, <2>2 DEF OpenWhileBusy
  <2> QED
    BY <2>1, <2>2 DEF OpenWhileBusy
<1>5. Remembered'
  <2>1. ASSUME NEW g \in Gateways, NEW id \in Ids
        PROVE  /\ unit'[g][id] # "none" => Known(g, id)' \/ Closed(g, id)'
               /\ Ran(g, id)' => Known(g, id)' \/ Closed(g, id)' \/ results'[g][id] = "running"
    BY <1>0, <1>2, <1>3 DEF Remembered
  <2>2. ASSUME NEW g \in Gateways, NEW id \in Ids, Rebootable'
        PROVE  /\ Ran(g, id)' => Closed(g, id)' \/ results'[g][id] = "running"
               /\ unit'[g][id] \notin {"none", "ping"} =>
                    \/ Closed(g, id)' \/ results'[g][id] = "running"
                    \/ Reporting(g, id, {"running"})'
    BY <1>0, <1>1, <1>2, <1>3, <2>2 DEF Remembered
  <2> QED
    BY <2>1, <2>2 DEF Remembered
<1>6. LaunchInOrder'
  <2>1. ASSUME NEW g \in Gateways, NEW id \in Ids, Offered(g, id)'
        PROVE  /\ <<g, id>> \in dispatched'
               /\ \A other \in Ids :
                    (other < id /\ <<g, other>> \in dispatched') => Closed(g, other)'
    <3>1. Offered(g, id) /\ <<g, id>> \in dispatched
      BY <1>2, <1>3, <2>1
    <3>2. ASSUME NEW other \in Ids, other < id, <<g, other>> \in dispatched'
          PROVE  Closed(g, other)'
      <4>1. <<g, other>> \in dispatched
        BY <3>1, <3>2 DEF Ids
      <4> QED
        BY <1>0, <3>1, <3>2, <4>1 DEF LaunchInOrder, InOrder
    <3> QED
      BY <3>1, <3>2
  <2>2. ASSUME NEW g \in Gateways, NEW id \in Ids
        PROVE  /\ (pollPc'[g] = "select" /\ Ran(g, id)') => last'[g] = id \/ Closed(g, id)'
               /\ (pollPc'[g] \in {"sync", "launch"} /\ body'[g].cmd = id /\ last'[g] # id) =>
                    ~ Closed(g, id)' /\ ~ Ran(g, id)'
               /\ (pollPc'[g] = "persist" /\ body'[g].cmd # id
                   /\ (unit'[g][id] # "none" \/ Ran(g, id)')) => Closed(g, id)'
    <3>1. (pollPc[g] \in {"sync", "launch"} /\ body[g].cmd = id) => <<g, id>> \in dispatched
      BY <1>3 DEF Offered
    <3>2. ~ Ran(g, id) => ~ Reporting(g, id, Final)
      BY DEF Ran
    <3> QED
      BY <1>0, <1>2, <1>3, <3>1, <3>2 DEF LaunchInOrder, InOrder
  <2>3. ASSUME NEW g \in Gateways
        PROVE  /\ pollPc'[g] \in {"busy", "select"} => body'[g].cmd = 0
               /\ pollPc'[g] = "launch" => body'[g].cmd # last'[g]
    BY <1>0, <2>3 DEF LaunchInOrder, InOrder
  <2> QED
    BY <2>1, <2>2, <2>3 DEF LaunchInOrder, InOrder
<1> QED
  BY <1>4, <1>5, <1>6

\* Without skips, deletes, late answers and restarts: what spends fuel here.
LEMMA CalmSpends ==
  ASSUME IInv, CalmOperation, CalmInv, NEW kind, Spend(kind)
  PROVE  /\ kind \in Events \ {"clear", "delete", "late", "restart"}
         /\ fuel' \in Nat /\ fuel' <= fuel /\ fuel' <= Budget
         /\ kind \in {"lose", "down"} => ~ Rebootable'
<1>1. fuel \in Nat /\ fuel <= Budget /\ Budget \in Nat
  BY DEF IInv, TypeOK, CalmInv
<1>2. kind \in Events /\ fuel > 0 /\ fuel' = fuel - 1
  BY DEF Spend
<1>3. kind \notin {"clear", "delete", "late", "restart"}
  BY <1>2 DEF CalmOperation
<1>4. ASSUME kind \in {"lose", "down"}, "reboot" \in Events PROVE fuel' = 0
  <2>1. Budget <= 1
    BY <1>2, <1>4 DEF CalmOperation
  <2> QED
    BY <1>1, <1>2, <2>1
<1> QED
  BY <1>1, <1>2, <1>3, <1>4 DEF Rebootable

\* A step that leaves tables, posts, units and pollers alone.
LEMMA QuietMoves ==
  ASSUME IInv, IInv', CalmInv, fuel' <= fuel,
         UNCHANGED <<commands, results, posts, unit, execs, last, pollPc, body, dispatched>>
  PROVE  OpenWhileBusy' /\ Remembered' /\ LaunchInOrder' /\ ReportsInOrder'
<1>1. ASSUME NEW g \in Gateways, NEW id \in Ids
      PROVE  /\ Reporting(g, id, Final)' <=> Reporting(g, id, Final)
             /\ Reporting(g, id, {"running"})' <=> Reporting(g, id, {"running"})
             /\ Closed(g, id)' <=> Closed(g, id)
  BY DEF Reporting, Closed, Approved, Existing
<1>2. ReportsInOrder'
  BY <1>1 DEF CalmInv, ReportsInOrder, Approved, Existing
<1> QED
  BY <1>1, <1>2, TableMoves

LEMMA SubmitCheckCalm ==
  ASSUME IInv, IInv', CalmInv, NEW t \in Tabs, NEW targets \in SUBSET Gateways,
         SubmitCheck(t, targets)
  PROVE  CalmInv'
<1>1. fuel \in Nat
  BY DEF IInv, TypeOK
<1>2. DispatchInOrder'
  BY DEF IInv, TypeOK, CalmInv, DispatchInOrder, SubmitCheck, Existing
<1>3. OpenWhileBusy' /\ Remembered' /\ LaunchInOrder' /\ ReportsInOrder'
  BY <1>1, QuietMoves DEF SubmitCheck
<1> QED
  BY <1>1, <1>2, <1>3 DEF CalmInv, SubmitCheck

LEMMA CreateCalm ==
  ASSUME IInv, IInv', CalmInv, NEW t \in Tabs, Create(t)
  PROVE  CalmInv'
<1> DEFINE c == [status |-> "pending", targets |-> disp[t].targets]
           new == Len(commands) + 1
<1>0. TypeOK /\ c \in Command /\ disp[t] \in Handler
  BY DEF IInv, TypeOK, Handler, Command
<1>a. /\ new \in Ids \ DOMAIN commands
      /\ DOMAIN commands' = DOMAIN commands \cup {new}
      /\ \A id \in DOMAIN commands : commands'[id] = commands[id]
      /\ commands'[new] = c
  BY <1>0, NewCommand DEF Create
<1>b. /\ Existing' = Existing \cup {new} /\ new \notin Existing
      /\ commands'[new].status = "pending"
  BY <1>0, <1>a DEF Existing
<1>c. Approved' = Approved
  BY <1>a, <1>b DEF Approved, Existing
<1>d. \A p \in dispatched : p[2] \in DOMAIN commands /\ p[2] < new
  BY <1>0, CommandsType DEF IInv, TablesHold
<1>e. UNCHANGED <<results, posts, unit, execs, last, pollPc, body, dispatched, fuel>>
  BY DEF Create
<1>f. disp' = [disp EXCEPT ![t].stage = "approve", ![t].id = new]
  BY DEF Create
<1> HIDE DEF c, new
<1>1. DispatchInOrder'
  <2>1. ASSUME NEW u \in Tabs, disp'[u].stage \in {"approve", "write"}
        PROVE  /\ disp'[u].id \in Existing' /\ commands'[disp'[u].id].status = "pending"
               /\ \A p \in dispatched' : p[2] < disp'[u].id
    <3>1. CASE u = t
      <4>1. disp'[u].id = new
        <5>1. disp'[t].id = [disp[t] EXCEPT !.stage = "approve", !.id = new].id
          BY <1>0, <1>f DEF TypeOK
        <5> QED
          BY <1>0, <3>1, <5>1 DEF Handler
      <4> QED
        BY <1>b, <1>d, <1>e, <4>1
    <3>2. CASE u # t
      <4>1. disp'[u] = disp[u]
        BY <1>0, <1>f, <3>2 DEF TypeOK
      <4> QED
        BY <1>a, <1>b, <1>e, <2>1, <4>1 DEF CalmInv, DispatchInOrder, Existing
    <3> QED
      BY <3>1, <3>2
  <2>2. ASSUME NEW g \in Gateways, NEW id \in Existing', <<g, id>> \in dispatched'
        PROVE  commands'[id].status # "pending" /\ g \in commands'[id].targets
    <3>1. id \in DOMAIN commands /\ id \in Existing
      BY <1>a, <1>b, <1>d, <1>e, <2>2
    <3> QED
      BY <1>a, <1>e, <2>2, <3>1 DEF CalmInv, DispatchInOrder
  <2> QED
    BY <2>1, <2>2 DEF DispatchInOrder
<1>2. ASSUME NEW g \in Gateways, NEW id \in Ids
      PROVE  /\ Reporting(g, id, Final)' <=> Reporting(g, id, Final)
             /\ Reporting(g, id, {"running"})' <=> Reporting(g, id, {"running"})
             /\ Closed(g, id)' <=> Closed(g, id)
  BY <1>c, <1>e DEF Reporting, Closed
<1>3. ReportsInOrder'
  <2>1. ASSUME NEW p \in posts, p.stage = "mark", p.id \in Approved
        PROVE  commands'[p.id] = commands[p.id]
    BY <1>a, <2>1 DEF Approved, Existing
  <2> QED
    BY <1>2, <1>c, <1>e, <2>1 DEF CalmInv, ReportsInOrder
<1>4. fuel \in Nat
  BY <1>0 DEF TypeOK
<1> QED
  BY <1>1, <1>2, <1>3, <1>4, <1>e, TableMoves DEF CalmInv

LEMMA ApproveReadCalm ==
  ASSUME IInv, IInv', CalmInv, NEW t \in Tabs, ApproveRead(t)
  PROVE  CalmInv'
<1>1. fuel \in Nat
  BY DEF IInv, TypeOK
<1>2. DispatchInOrder'
  BY DEF IInv, TypeOK, CalmInv, DispatchInOrder, ApproveRead, Existing, NoDispatch, Handler
<1>3. OpenWhileBusy' /\ Remembered' /\ LaunchInOrder' /\ ReportsInOrder'
  BY <1>1, QuietMoves DEF ApproveRead
<1> QED
  BY <1>1, <1>2, <1>3 DEF CalmInv, ApproveRead

LEMMA ApproveCalm ==
  ASSUME IInv, IInv', CalmOperation, CalmInv, NEW t \in Tabs, Approve(t)
  PROVE  CalmInv'
<1> DEFINE id == disp[t].id
           targets == disp[t].targets
<1>0. TypeOK /\ disp[t] \in Handler /\ disp[t].stage = "write"
  BY DEF IInv, TypeOK, Approve
<1>a. /\ id \in Existing /\ id \in DOMAIN commands /\ commands[id].status = "pending"
      /\ commands[id].targets = targets
      /\ \A p \in dispatched : p[2] < id
  BY <1>0 DEF CalmInv, DispatchInOrder, IInv, HandlersHold, Existing
<1>b. /\ commands' = [commands EXCEPT ![id].status = "approved"]
      /\ dispatched' = dispatched \cup (targets \X {id})
      /\ disp' = [disp EXCEPT ![t] = NoDispatch]
      /\ UNCHANGED <<posts, unit, execs, last, pollPc, body, fuel>>
  BY <1>a DEF Approve
<1>c. /\ id \in Ids /\ targets \subseteq Gateways
      /\ DOMAIN commands' = DOMAIN commands
      /\ \A j \in DOMAIN commands : j # id => commands'[j] = commands[j]
      /\ commands'[id].status = "approved" /\ commands'[id].targets = targets
      /\ commands'[id] # NoCmd
  <2>1. commands[id] \in Command /\ commands \in [DOMAIN commands -> T] /\ id \in Ids
    BY <1>0, <1>a, CommandsType DEF Existing, T
  <2>2. [commands[id] EXCEPT !.status = "approved"] \in Command
    BY <2>1 DEF Command
  <2>3. commands'[id] = [commands[id] EXCEPT !.status = "approved"]
    BY <1>a, <1>b, <2>1
  <2> QED
    BY <1>0, <1>a, <1>b, <2>1, <2>2, <2>3 DEF Command, Handler
<1>d. \A j \in DOMAIN commands, g \in Gateways : j # id => results'[g][j] = results[g][j]
  BY <1>0 DEF Approve, TypeOK
<1>e. /\ \A j \in DOMAIN commands : j # id => (j \in Approved' <=> j \in Approved)
      /\ Existing' = Existing
      /\ \A j \in Approved' : j \in DOMAIN commands
  BY <1>a, <1>c DEF Approved, Existing
<1>f. \A g \in Gateways, j \in Ids : <<g, j>> \in dispatched =>
        j # id /\ j < id /\ j \in DOMAIN commands
  <2>1. ASSUME NEW g \in Gateways, NEW j \in Ids, <<g, j>> \in dispatched
        PROVE  j # id /\ j < id /\ j \in DOMAIN commands
    <3>1. <<g, j>>[2] < id /\ <<g, j>>[2] \in DOMAIN commands
      BY <1>a, <2>1 DEF IInv, TablesHold
    <3> QED
      BY <1>c, <3>1 DEF Ids
  <2> QED
    BY <2>1
<1> HIDE DEF id, targets
<1>1. DispatchInOrder'
  <2>1. \A u \in Tabs : disp'[u].stage = "idle"
    BY <1>0, <1>b DEF CalmOperation, TypeOK, NoDispatch
  <2>2. ASSUME NEW g \in Gateways, NEW j \in Existing, <<g, j>> \in dispatched'
        PROVE  commands'[j].status # "pending" /\ g \in commands'[j].targets
    <3>1. CASE j = id
      <4>1. <<g, j>> \notin dispatched
        BY <1>c, <1>f, <3>1
      <4> QED
        BY <1>b, <1>c, <2>2, <3>1, <4>1
    <3>2. CASE j # id
      <4>1. <<g, j>> \in dispatched /\ j \in DOMAIN commands
        BY <1>b, <2>2, <3>2 DEF Existing
      <4> QED
        BY <1>c, <3>2, <4>1 DEF CalmInv, DispatchInOrder
    <3> QED
      BY <3>1, <3>2
  <2> QED
    BY <1>e, <2>1, <2>2 DEF DispatchInOrder
<1>2. ASSUME NEW g \in Gateways, NEW j \in Ids
      PROVE  /\ Reporting(g, j, Final)' <=> Reporting(g, j, Final)
             /\ Reporting(g, j, {"running"})' <=> Reporting(g, j, {"running"})
             /\ <<g, j>> \in dispatched =>
                  /\ Closed(g, j)' <=> Closed(g, j)
                  /\ results'[g][j] = results[g][j]
  BY <1>b, <1>d, <1>e, <1>f DEF Reporting, Closed
<1>3. ReportsInOrder'
  <2>1. ASSUME NEW p \in posts
        PROVE  /\ p.g \in Gateways /\ p.id \in Ids /\ <<p.g, p.id>> \in dispatched
               /\ p.status \in Final \cup {"running"}
    BY <1>0 DEF TypeOK, Post, CalmInv, ReportsInOrder
  <2>2. ASSUME NEW p \in posts, p.stage = "mark", p.id \in Approved',
               NEW g \in commands'[p.id].targets
        PROVE  results'[g][p.id] \in TERMINAL_RESULT_STATUSES
    <3>1. p.id # id /\ p.id \in DOMAIN commands
      BY <1>f, <2>1
    <3>2. p.id \in Approved /\ g \in commands[p.id].targets
      BY <1>c, <1>e, <2>2, <3>1
    <3>3. g \in Gateways
      BY <1>0, <3>1, <3>2, CommandsType DEF T, Command, Approved, Existing
    <3>4. results[g][p.id] \in TERMINAL_RESULT_STATUSES
      BY <2>2, <3>2 DEF CalmInv, ReportsInOrder
    <3> QED
      BY <1>d, <3>1, <3>3, <3>4
  <2>3. ASSUME NEW g \in Gateways, NEW j \in Ids, Reporting(g, j, {"running"})'
        PROVE  /\ results'[g][j] \notin TERMINAL_RESULT_STATUSES
               /\ ~ Reporting(g, j, Final)'
               /\ unit'[g][j] \in {"none", "ping", "pinged"}
    <3>1. Reporting(g, j, {"running"}) /\ <<g, j>> \in dispatched
      BY <1>2, <2>3, OnlyDispatchedMoves
    <3> QED
      BY <1>2, <1>b, <3>1 DEF CalmInv, ReportsInOrder
  <2> QED
    BY <1>b, <2>1, <2>2, <2>3 DEF ReportsInOrder
<1>4. ASSUME NEW g \in Gateways, NEW j \in Ids, <<g, j>> \in dispatched' \ dispatched
      PROVE  \A other \in Ids : <<g, other>> \in dispatched => other < j
  BY <1>b, <1>f, <1>4
<1>5. fuel \in Nat
  BY <1>0 DEF TypeOK
<1> QED
  BY <1>1, <1>2, <1>3, <1>4, <1>5, <1>b, TableMoves DEF CalmInv

LEMMA SetFreezeCalm ==
  ASSUME IInv, IInv', CalmOperation, CalmInv, NEW b \in BOOLEAN, SetFreeze(b)
  PROVE  CalmInv'
<1>1. fuel' <= fuel /\ fuel' <= Budget
  BY CalmSpends DEF SetFreeze
<1>2. DispatchInOrder'
  BY DEF CalmInv, DispatchInOrder, SetFreeze, Existing
<1>3. OpenWhileBusy' /\ Remembered' /\ LaunchInOrder' /\ ReportsInOrder'
  BY <1>1, QuietMoves DEF SetFreeze
<1> QED
  BY <1>1, <1>2, <1>3 DEF CalmInv

LEMMA EditCalm ==
  ASSUME IInv, IInv', CalmOperation, CalmInv, Edit
  PROVE  CalmInv'
<1>1. fuel' <= fuel /\ fuel' <= Budget
  BY CalmSpends DEF Edit
<1>2. DispatchInOrder'
  BY DEF CalmInv, DispatchInOrder, Edit, Existing
<1>3. OpenWhileBusy' /\ Remembered' /\ LaunchInOrder' /\ ReportsInOrder'
  BY <1>1, QuietMoves DEF Edit
<1> QED
  BY <1>1, <1>2, <1>3 DEF CalmInv

LEMMA PurgeCalm ==
  ASSUME IInv, IInv', CalmOperation, CalmInv, NEW id \in Existing, Purge(id)
  PROVE  CalmInv'
<1>0. TypeOK /\ id \in Existing /\ id \in DOMAIN commands /\ commands[id].status = "complete"
  BY DEF IInv, Existing, Purge
<1>a. /\ fuel' <= fuel /\ fuel' <= Budget
      /\ UNCHANGED <<disp, posts, unit, execs, last, pollPc, body, dispatched>>
  BY CalmSpends DEF Purge
<1>b. /\ Existing' = Existing \ {id} /\ Approved' = Approved
      /\ \A j \in Existing' : j # id /\ commands'[j] = commands[j]
  BY <1>0 DEF Purge, Drop, Existing, Approved
<1>c. \A g \in Gateways, j \in Ids :
        results'[g][j] = IF j = id THEN NoResult ELSE results[g][j]
  BY <1>0, CommandsType DEF Purge, Drop, TypeOK
<1>d. id \notin Approved /\ NoResult \notin TERMINAL_RESULT_STATUSES
  BY <1>0 DEF Approved, Statuses
<1>1. DispatchInOrder'
  <2>1. ASSUME NEW u \in Tabs, disp[u].stage \in {"approve", "write"}
        PROVE  disp[u].id \in Existing' /\ commands'[disp[u].id].status = "pending"
    <3>1. disp[u].id \in Existing /\ commands[disp[u].id].status = "pending"
      BY <2>1 DEF CalmInv, DispatchInOrder
    <3> QED
      BY <1>0, <1>b, <3>1
  <2> QED
    BY <1>a, <1>b, <2>1 DEF CalmInv, DispatchInOrder
<1>2. ASSUME NEW g \in Gateways, NEW j \in Ids
      PROVE  /\ Reporting(g, j, Final)' <=> Reporting(g, j, Final)
             /\ Reporting(g, j, {"running"})' <=> Reporting(g, j, {"running"})
             /\ Closed(g, j)' <=> Closed(g, j)
             /\ results[g][j] = "running" => results'[g][j] = "running" \/ Closed(g, j)'
  BY <1>a, <1>b, <1>c, <1>d DEF Reporting, Closed
<1>3. ReportsInOrder'
  <2>1. ASSUME NEW p \in posts, p.stage = "mark", p.id \in Approved',
               NEW g \in commands'[p.id].targets
        PROVE  results'[g][p.id] \in TERMINAL_RESULT_STATUSES
    <3>1. p.id \in Approved /\ p.id # id /\ g \in commands[p.id].targets
      BY <1>b, <1>d, <2>1 DEF Approved, Existing
    <3>2. g \in Gateways /\ p.id \in Ids
      BY <1>0, <3>1, CommandsType DEF T, Command, Approved, Existing
    <3>3. results[g][p.id] \in TERMINAL_RESULT_STATUSES
      BY <2>1, <3>1 DEF CalmInv, ReportsInOrder
    <3> QED
      BY <1>c, <3>1, <3>2, <3>3
  <2>2. ASSUME NEW g \in Gateways, NEW j \in Ids, Reporting(g, j, {"running"})
        PROVE  results'[g][j] \notin TERMINAL_RESULT_STATUSES
    BY <1>c, <1>d, <2>2 DEF CalmInv, ReportsInOrder
  <2> QED
    BY <1>2, <1>a, <2>1, <2>2 DEF CalmInv, ReportsInOrder
<1> QED
  BY <1>1, <1>2, <1>3, <1>a, TableMoves DEF CalmInv

LEMMA DownCalm ==
  ASSUME IInv, IInv', CalmOperation, CalmInv, Down
  PROVE  CalmInv'
<1>a. /\ fuel' <= fuel /\ fuel' <= Budget /\ ~ Rebootable'
  BY CalmSpends DEF Down
<1>b. UNCHANGED <<commands, results, unit, execs, last, pollPc, body, dispatched>>
  BY DEF Down
<1>c. posts' = {} /\ \A u \in Tabs : disp'[u].stage = "idle"
  BY DEF Down, NoDispatch
<1>1. DispatchInOrder'
  BY <1>b, <1>c DEF CalmInv, DispatchInOrder, Existing
<1>2. ASSUME NEW g \in Gateways, NEW j \in Ids
      PROVE  /\ ~ Reporting(g, j, Final)' /\ ~ Reporting(g, j, {"running"})'
             /\ Closed(g, j)' <=> Closed(g, j)
  BY <1>b, <1>c DEF Reporting, Closed, Approved, Existing
<1>3. ReportsInOrder'
  BY <1>2, <1>c DEF ReportsInOrder
<1> QED
  BY <1>1, <1>2, <1>3, <1>a, <1>b, TableMoves DEF CalmInv

\* A lost report leaves a gateway that does not reboot any more.
LEMMA LoseCalm ==
  ASSUME IInv, IInv', CalmOperation, CalmInv, NEW p \in posts, Lose(p)
  PROVE  CalmInv'
<1>a. /\ fuel' <= fuel /\ fuel' <= Budget /\ ~ Rebootable'
  BY CalmSpends DEF Lose
<1>b. /\ UNCHANGED <<commands, results, disp, unit, execs, last, pollPc, body, dispatched>>
      /\ posts' \subseteq posts
  BY DEF Lose, Answer
<1>1. DispatchInOrder'
  BY <1>b DEF CalmInv, DispatchInOrder, Existing
<1>2. ASSUME NEW g \in Gateways, NEW j \in Ids
      PROVE  /\ Reporting(g, j, Final)' => Reporting(g, j, Final)
             /\ Reporting(g, j, {"running"})' => Reporting(g, j, {"running"})
             /\ Closed(g, j)' <=> Closed(g, j)
  BY <1>b DEF Reporting, Closed, Approved, Existing
<1>3. ReportsInOrder'
  BY <1>2, <1>b DEF CalmInv, ReportsInOrder, Approved, Existing
<1> QED
  BY <1>1, <1>2, <1>3, <1>a, <1>b, TableMoves DEF CalmInv

LEMMA ResultCheckCalm ==
  ASSUME IInv, IInv', CalmInv, NEW p \in posts, ResultCheck(p)
  PROVE  CalmInv'
<1>0. TypeOK /\ p \in Post /\ p.stage = "sent" /\ fuel \in Nat
  BY DEF IInv, TypeOK, ResultCheck
<1>a. /\ UNCHANGED <<commands, results, disp, unit, execs, last, pollPc, body, dispatched, fuel>>
      /\ \/ posts' = (posts \ {p}) \cup {[p EXCEPT !.stage = "checked"]}
         \/ posts' = posts \ {p} /\ results[p.g][p.id] = NoResult
  BY DEF ResultCheck, Answer, Advance
<1>b. LET q == [p EXCEPT !.stage = "checked"]
      IN  q.g = p.g /\ q.id = p.id /\ q.status = p.status /\ q.stage = "checked"
  BY <1>0 DEF Post
<1>c. p.g \in Gateways /\ p.id \in Ids /\ <<p.g, p.id>> \in dispatched
  BY <1>0 DEF Post, CalmInv, ReportsInOrder
<1>d. results[p.g][p.id] = NoResult => Closed(p.g, p.id)
  BY <1>c, DispatchedRow DEF Closed, Approved
<1>1. DispatchInOrder'
  BY <1>a DEF CalmInv, DispatchInOrder, Existing
<1>2. ASSUME NEW g \in Gateways, NEW j \in Ids
      PROVE  /\ Closed(g, j)' <=> Closed(g, j)
             /\ Reporting(g, j, Final)' => Reporting(g, j, Final)
             /\ Reporting(g, j, {"running"})' => Reporting(g, j, {"running"})
             /\ Reporting(g, j, {"running"}) => Reporting(g, j, {"running"})' \/ Closed(g, j)
  <2>1. Closed(g, j)' <=> Closed(g, j)
    BY <1>a DEF Closed, Approved, Existing
  <2>2. ASSUME NEW statuses, Reporting(g, j, statuses)' PROVE Reporting(g, j, statuses)
    BY <1>0, <1>a, <1>b, <2>2 DEF Reporting
  <2>3. ASSUME Reporting(g, j, {"running"})
        PROVE  Reporting(g, j, {"running"})' \/ Closed(g, j)
    <3>1. PICK r \in posts : /\ r.g = g /\ r.id = j /\ r.status \in {"running"}
                             /\ r.stage \in {"sent", "checked"}
      BY <2>3 DEF Reporting
    <3> QED
      BY <1>0, <1>a, <1>b, <1>d, <3>1 DEF Reporting
  <2> QED
    BY <2>1, <2>2, <2>3
<1>3. ReportsInOrder'
  <2>1. ASSUME NEW r \in posts'
        PROVE  /\ r.status \in Final \cup {"running"} /\ <<r.g, r.id>> \in dispatched
               /\ r.stage = "mark" => r \in posts
    <3>1. \/ r \in posts
          \/ /\ r.g = p.g /\ r.id = p.id /\ r.status = p.status
             /\ r.stage = "checked"
      BY <1>a, <1>b
    <3>2. p.status \in Final \cup {"running"}
      BY DEF CalmInv, ReportsInOrder
    <3> QED
      BY <1>c, <3>1, <3>2 DEF CalmInv, ReportsInOrder
  <2> QED
    BY <1>2, <1>a, <2>1 DEF CalmInv, ReportsInOrder, Approved, Existing
<1> QED
  BY <1>0, <1>1, <1>2, <1>3, <1>a, TableMoves DEF CalmInv

LEMMA upsert_fleet_resultCalm ==
  ASSUME IInv, IInv', CalmInv, NEW p \in posts, upsert_fleet_result(p)
  PROVE  CalmInv'
<1>0. TypeOK /\ p \in Post /\ p.stage = "checked" /\ fuel \in Nat
  BY DEF IInv, TypeOK, upsert_fleet_result
<1>a. /\ UNCHANGED <<commands, disp, unit, execs, last, pollPc, body, dispatched, fuel>>
      /\ posts' = (posts \ {p}) \cup {[p EXCEPT !.stage = "stored"]}
  BY DEF upsert_fleet_result, Advance
<1>b. \A r \in posts' : \/ r \in posts
                        \/ /\ r.g = p.g /\ r.id = p.id /\ r.status = p.status
                           /\ r.stage = "stored"
  BY <1>0, <1>a DEF Post
<1>c. /\ p.g \in Gateways /\ p.id \in Ids /\ <<p.g, p.id>> \in dispatched
      /\ p.status \in Final \cup {"running"}
  BY <1>0 DEF Post, CalmInv, ReportsInOrder
<1>d. \A g \in Gateways, j \in Ids :
        results'[g][j] = IF g = p.g /\ j = p.id THEN p.status ELSE results[g][j]
  BY <1>0, <1>c DEF TypeOK, upsert_fleet_result
<1>e. p.status = "running" => /\ Reporting(p.g, p.id, {"running"})
                              /\ results[p.g][p.id] \notin TERMINAL_RESULT_STATUSES
  <2>1. p.status = "running" => Reporting(p.g, p.id, {"running"})
    BY <1>0 DEF Reporting
  <2> QED
    BY <1>c, <2>1 DEF CalmInv, ReportsInOrder
<1>f. p.status \in Final => Reporting(p.g, p.id, Final)
  BY <1>0 DEF Reporting
<1>g. Final \subseteq TERMINAL_RESULT_STATUSES /\ "running" \notin TERMINAL_RESULT_STATUSES
  BY DEF TERMINAL_RESULT_STATUSES, Final
<1>1. DispatchInOrder'
  BY <1>a DEF CalmInv, DispatchInOrder, Existing
<1>2. ASSUME NEW g \in Gateways, NEW j \in Ids
      PROVE  /\ results[g][j] \in TERMINAL_RESULT_STATUSES =>
                   results'[g][j] \in TERMINAL_RESULT_STATUSES
             /\ results'[g][j] \in TERMINAL_RESULT_STATUSES =>
                   results[g][j] \in TERMINAL_RESULT_STATUSES \/ Reporting(g, j, Final)
             /\ j \in Approved' <=> j \in Approved
  BY <1>a, <1>c, <1>d, <1>e, <1>f, <1>g DEF Approved, Existing
<1>3. ASSUME NEW g \in Gateways, NEW j \in Ids
      PROVE  /\ Closed(g, j) => Closed(g, j)'
             /\ Closed(g, j)' => Closed(g, j) \/ Reporting(g, j, Final)
             /\ Reporting(g, j, Final)' => Reporting(g, j, Final)
             /\ Reporting(g, j, {"running"})' => Reporting(g, j, {"running"})
             /\ results[g][j] = "running" => results'[g][j] = "running" \/ Closed(g, j)'
             /\ Reporting(g, j, {"running"}) =>
                  Reporting(g, j, {"running"})' \/ results'[g][j] = "running" \/ Closed(g, j)'
  <2>1. /\ Closed(g, j) => Closed(g, j)'
        /\ Closed(g, j)' => Closed(g, j) \/ Reporting(g, j, Final)
    BY <1>2 DEF Closed
  <2>2. ASSUME NEW statuses, Reporting(g, j, statuses)' PROVE Reporting(g, j, statuses)
    BY <1>b, <2>2 DEF Reporting
  <2>3. results[g][j] = "running" => results'[g][j] = "running" \/ Closed(g, j)'
    BY <1>c, <1>d, <1>g DEF Closed
  <2>4. ASSUME Reporting(g, j, {"running"})
        PROVE  Reporting(g, j, {"running"})' \/ results'[g][j] = "running" \/ Closed(g, j)'
    <3>1. PICK r \in posts : /\ r.g = g /\ r.id = j /\ r.status \in {"running"}
                             /\ r.stage \in {"sent", "checked"}
      BY <2>4 DEF Reporting
    <3>2. CASE r = p
      BY <1>c, <1>d, <3>1, <3>2
    <3>3. CASE r # p
      BY <1>a, <3>1, <3>3 DEF Reporting
    <3> QED
      BY <3>2, <3>3
  <2> QED
    BY <2>1, <2>2, <2>3, <2>4
<1>4. ReportsInOrder'
  <2>1. ASSUME NEW r \in posts'
        PROVE  r.status \in Final \cup {"running"} /\ <<r.g, r.id>> \in dispatched
    BY <1>b, <1>c DEF CalmInv, ReportsInOrder
  <2>2. ASSUME NEW r \in posts', r.stage = "mark", r.id \in Approved',
               NEW g \in commands'[r.id].targets
        PROVE  results'[g][r.id] \in TERMINAL_RESULT_STATUSES
    <3>1. r \in posts /\ r.id \in Approved /\ g \in commands[r.id].targets
      BY <1>a, <1>b, <2>2 DEF Approved, Existing
    <3>2. g \in Gateways /\ r.id \in Ids
      BY <1>0, <3>1, CommandsType DEF T, Command, Approved, Existing
    <3>3. results[g][r.id] \in TERMINAL_RESULT_STATUSES
      BY <2>2, <3>1 DEF CalmInv, ReportsInOrder
    <3> QED
      BY <1>2, <3>2, <3>3
  <2>3. ASSUME NEW g \in Gateways, NEW j \in Ids, Reporting(g, j, {"running"})'
        PROVE  /\ results'[g][j] \notin TERMINAL_RESULT_STATUSES
               /\ ~ Reporting(g, j, Final)'
               /\ unit'[g][j] \in {"none", "ping", "pinged"}
    <3>1. Reporting(g, j, {"running"})
      BY <1>3, <2>3
    <3> QED
      BY <1>2, <1>3, <1>a, <3>1 DEF CalmInv, ReportsInOrder
  <2> QED
    BY <1>a, <2>1, <2>2, <2>3 DEF ReportsInOrder
<1> QED
  BY <1>0, <1>1, <1>3, <1>4, <1>a, TableMoves DEF CalmInv

LEMMA MarkReadCalm ==
  ASSUME IInv, IInv', CalmInv, NEW p \in posts, MarkRead(p)
  PROVE  CalmInv'
<1>0. TypeOK /\ p \in Post /\ p.stage = "stored" /\ fuel \in Nat
  BY DEF IInv, TypeOK, MarkRead
<1>a. UNCHANGED <<commands, results, disp, unit, execs, last, pollPc, body, dispatched, fuel>>
  BY DEF MarkRead
<1>b. /\ \A r \in posts' : \/ r \in posts
                           \/ /\ r.g = p.g /\ r.id = p.id /\ r.status = p.status
                              /\ r.stage = "mark"
                              /\ p.id \in Approved /\ AllDone(p.id)
      /\ posts \ {p} \subseteq posts'
  BY <1>0 DEF Post, MarkRead, Answer, Advance
<1>c. /\ p.g \in Gateways /\ p.id \in Ids /\ <<p.g, p.id>> \in dispatched
      /\ p.status \in Final \cup {"running"}
  BY <1>0 DEF Post, CalmInv, ReportsInOrder
<1>1. DispatchInOrder'
  BY <1>a DEF CalmInv, DispatchInOrder, Existing
<1>2. ASSUME NEW g \in Gateways, NEW j \in Ids
      PROVE  /\ Closed(g, j)' <=> Closed(g, j)
             /\ Reporting(g, j, Final)' <=> Reporting(g, j, Final)
             /\ Reporting(g, j, {"running"})' <=> Reporting(g, j, {"running"})
  <2>1. Closed(g, j)' <=> Closed(g, j)
    BY <1>a DEF Closed, Approved, Existing
  <2>2. ASSUME NEW statuses, Reporting(g, j, statuses)' PROVE Reporting(g, j, statuses)
    BY <1>b, <2>2 DEF Reporting
  <2>3. ASSUME NEW statuses, Reporting(g, j, statuses) PROVE Reporting(g, j, statuses)'
    BY <1>0, <1>b, <2>3 DEF Reporting
  <2> QED
    BY <2>1, <2>2, <2>3
<1>3. ReportsInOrder'
  <2>1. ASSUME NEW r \in posts'
        PROVE  r.status \in Final \cup {"running"} /\ <<r.g, r.id>> \in dispatched
    BY <1>b, <1>c DEF CalmInv, ReportsInOrder
  <2>2. ASSUME NEW r \in posts', r.stage = "mark", r.id \in Approved,
               NEW g \in commands[r.id].targets
        PROVE  results[g][r.id] \in TERMINAL_RESULT_STATUSES
    <3>1. CASE r \in posts
      BY <2>2, <3>1 DEF CalmInv, ReportsInOrder
    <3>2. CASE r.id = p.id /\ AllDone(p.id)
      <4>1. g \in Gateways /\ r.id \in Existing /\ r.id \in Ids
        BY <1>0, <2>2, CommandsType DEF T, Command, Approved, Existing
      <4>2. results[g][r.id] # NoResult
        BY <2>2, <4>1 DEF IInv, TablesHold, Approved
      <4> QED
        BY <3>2, <4>1, <4>2 DEF AllDone, Stored
    <3> QED
      BY <1>b, <2>2, <3>1, <3>2
  <2>3. \A r \in posts' : (r.stage = "mark" /\ r.id \in Approved') =>
          \A g \in commands'[r.id].targets : results'[g][r.id] \in TERMINAL_RESULT_STATUSES
    BY <1>a, <2>2 DEF Approved, Existing
  <2> QED
    BY <1>2, <1>a, <2>1, <2>3 DEF CalmInv, ReportsInOrder
<1> QED
  BY <1>0, <1>1, <1>2, <1>3, <1>a, TableMoves DEF CalmInv

LEMMA set_fleet_statusCalm ==
  ASSUME IInv, IInv', CalmInv, NEW p \in posts, set_fleet_status(p)
  PROVE  CalmInv'
<1> DEFINE done == IF commands[p.id] = NoCmd THEN NoCmd
                   ELSE [commands[p.id] EXCEPT !.status = "complete"]
<1>0. TypeOK /\ p \in Post /\ p.stage = "mark" /\ fuel \in Nat
  BY DEF IInv, TypeOK, set_fleet_status
<1>a. /\ UNCHANGED <<results, disp, unit, execs, last, pollPc, body, dispatched, fuel>>
      /\ posts' = posts \ {p}
      /\ commands' = [q \in DOMAIN commands |-> IF q = p.id THEN done ELSE commands[q]]
  BY DEF set_fleet_status, Answer
<1>b. (p.id \in DOMAIN commands /\ commands[p.id] # NoCmd) =>
        /\ done.status = "complete" /\ done # NoCmd
        /\ done.targets = commands[p.id].targets
  <2>1. ASSUME p.id \in DOMAIN commands, commands[p.id] # NoCmd
        PROVE  [commands[p.id] EXCEPT !.status = "complete"] \in Command
    BY <1>0, <2>1, CommandsType DEF T, Command
  <2> QED
    BY <1>0, <2>1, CommandsType DEF T, Command
<1>c. /\ p.g \in Gateways /\ p.id \in Ids /\ <<p.g, p.id>> \in dispatched
      /\ p.status \in Final \cup {"running"}
  BY <1>0 DEF Post, CalmInv, ReportsInOrder
<1>d. /\ Existing' = Existing /\ Approved' = Approved \ {p.id}
      /\ \A j \in Existing : /\ commands'[j].targets = commands[j].targets
                             /\ j # p.id => commands'[j] = commands[j]
                             /\ j = p.id => commands'[j].status = "complete"
  <2> HIDE DEF done
  <2>1. (commands[p.id] = NoCmd) => done = NoCmd
    BY DEF done
  <2>2. Existing' = Existing
    BY <1>a, <1>b, <2>1 DEF Existing
  <2> QED
    BY <1>a, <1>b, <2>1, <2>2 DEF Existing, Approved
<1> HIDE DEF done
<1>1. DispatchInOrder'
  <2>1. ASSUME NEW u \in Tabs, disp[u].stage \in {"approve", "write"}
        PROVE  disp[u].id \in Existing' /\ commands'[disp[u].id].status = "pending"
    <3>1. /\ disp[u].id \in Existing /\ commands[disp[u].id].status = "pending"
          /\ <<p.g, p.id>>[2] < disp[u].id
      BY <1>c, <2>1 DEF CalmInv, DispatchInOrder
    <3>2. p.id # disp[u].id
      BY <1>c, <3>1 DEF Ids
    <3> QED
      BY <1>d, <3>1, <3>2
  <2>2. ASSUME NEW g \in Gateways, NEW j \in Existing, <<g, j>> \in dispatched
        PROVE  commands'[j].status # "pending" /\ g \in commands'[j].targets
    BY <1>d, <2>2 DEF CalmInv, DispatchInOrder
  <2> QED
    BY <1>a, <1>d, <2>1, <2>2 DEF CalmInv, DispatchInOrder
<1>2. ASSUME NEW g \in Gateways, NEW j \in Ids
      PROVE  /\ Closed(g, j) => Closed(g, j)'
             /\ (<<g, j>> \in dispatched /\ Closed(g, j)') => Closed(g, j)
             /\ Reporting(g, j, Final)' <=> Reporting(g, j, Final)
             /\ Reporting(g, j, {"running"})' <=> Reporting(g, j, {"running"})
  <2>1. Closed(g, j) => Closed(g, j)'
    BY <1>a, <1>d DEF Closed
  <2>2. ASSUME <<g, j>> \in dispatched, Closed(g, j)', ~ Closed(g, j) PROVE FALSE
    <3>1. j = p.id /\ j \in Approved /\ j \in Existing
      BY <1>a, <1>d, <2>2 DEF Closed, Approved
    <3>2. g \in commands[j].targets
      BY <2>2, <3>1 DEF CalmInv, DispatchInOrder
    <3>3. results[g][j] \in TERMINAL_RESULT_STATUSES
      BY <1>0, <3>1, <3>2 DEF CalmInv, ReportsInOrder
    <3> QED
      BY <2>2, <3>3 DEF Closed
  <2>3. ASSUME NEW statuses
        PROVE  Reporting(g, j, statuses)' <=> Reporting(g, j, statuses)
    BY <1>0, <1>a DEF Reporting
  <2> QED
    BY <2>1, <2>2, <2>3
<1>3. ReportsInOrder'
  <2>1. ASSUME NEW r \in posts', r.stage = "mark", r.id \in Approved',
               NEW g \in commands'[r.id].targets
        PROVE  results'[g][r.id] \in TERMINAL_RESULT_STATUSES
    <3>1. r \in posts /\ r.id \in Approved /\ g \in commands[r.id].targets
      BY <1>a, <1>d, <2>1 DEF Approved
    <3> QED
      BY <1>a, <2>1, <3>1 DEF CalmInv, ReportsInOrder
  <2> QED
    BY <1>2, <1>a, <2>1 DEF CalmInv, ReportsInOrder
<1> QED
  BY <1>0, <1>1, <1>2, <1>3, <1>a, TableMoves DEF CalmInv

\* A step of a unit keeps the order, whatever it reports: its command is known to the
\* poller or closed, and the earlier ones are closed.
LEMMA UnitMovesCalm ==
  ASSUME IInv, IInv', CalmInv, NEW g \in Gateways, NEW id \in Ids, unit[g][id] # "none",
         UNCHANGED <<commands, results, disp, last, pollPc, body, dispatched>>, fuel' <= fuel,
         \A h \in Gateways, j \in Ids : (h # g \/ j # id) =>
           /\ unit'[h][j] = unit[h][j] /\ execs'[h][j] = execs[h][j]
           /\ Reporting(h, j, Final)' <=> Reporting(h, j, Final)
           /\ Reporting(h, j, {"running"})' <=> Reporting(h, j, {"running"}),
         unit'[g][id] \notin {"none", "reported"} =>
           unit[g][id] # "reported" /\ ~ Reporting(g, id, Final)',
         unit'[g][id] \in {"ping", "pinged", "guard"} => execs'[g][id] = 0,
         Rebootable' =>
           /\ Ran(g, id)' => Closed(g, id) \/ results[g][id] = "running"
           /\ unit'[g][id] \notin {"none", "ping"} =>
                \/ Closed(g, id) \/ results[g][id] = "running"
                \/ Reporting(g, id, {"running"})'
  PROVE  DispatchInOrder' /\ OpenWhileBusy' /\ Remembered' /\ LaunchInOrder'
<1>0. /\ OpenWhileBusy /\ Remembered /\ LaunchInOrder
      /\ fuel \in Nat /\ fuel' \in Nat
  BY DEF CalmInv, IInv, TypeOK
<1>1. DispatchInOrder'
  BY DEF CalmInv, DispatchInOrder, Existing
<1>2. Rebootable' => Rebootable
  BY <1>0 DEF Rebootable
<1>3. ASSUME NEW h \in Gateways, NEW j \in Ids
      PROVE  /\ Closed(h, j)' <=> Closed(h, j)
             /\ Known(h, j)' <=> Known(h, j)
             /\ (h # g \/ j # id) => (Ran(h, j)' <=> Ran(h, j)) /\ (Offered(h, j)' <=> Offered(h, j))
             /\ Offered(h, j)' => Offered(h, j)
  <2>1. Closed(h, j)' <=> Closed(h, j)
    BY DEF Closed, Approved, Existing
  <2>2. Known(h, j)' <=> Known(h, j)
    BY DEF Known
  <2>3. (h # g \/ j # id) => (Ran(h, j)' <=> Ran(h, j)) /\ (Offered(h, j)' <=> Offered(h, j))
    BY DEF Ran, Offered
  <2>4. (h = g /\ j = id) => Offered(h, j)
    BY DEF Offered
  <2> QED
    BY <2>1, <2>2, <2>3, <2>4
<1>4. Known(g, id) \/ Closed(g, id)
  BY <1>0 DEF Remembered
<1>5. OpenWhileBusy'
  <2>1. ASSUME NEW h \in Gateways, NEW j \in Ids, unit'[h][j] \notin {"none", "reported"}
        PROVE  ~ Closed(h, j)' /\ ~ Reporting(h, j, Final)'
    <3>1. CASE h = g /\ j = id
      BY <1>0, <1>3, <2>1, <3>1 DEF OpenWhileBusy
    <3>2. CASE h # g \/ j # id
      BY <1>0, <1>3, <2>1, <3>2 DEF OpenWhileBusy
    <3> QED
      BY <3>1, <3>2
  <2>2. ASSUME NEW h \in Gateways, NEW j \in Ids, unit'[h][j] \in {"ping", "pinged", "guard"}
        PROVE  execs'[h][j] = 0
    BY <1>0, <2>2 DEF OpenWhileBusy
  <2> QED
    BY <2>1, <2>2 DEF OpenWhileBusy
<1>6. Remembered'
  <2>1. ASSUME NEW h \in Gateways, NEW j \in Ids
        PROVE  /\ unit'[h][j] # "none" => Known(h, j)' \/ Closed(h, j)'
               /\ Ran(h, j)' => Known(h, j)' \/ Closed(h, j)' \/ results[h][j] = "running"
    <3>1. CASE h = g /\ j = id
      BY <1>3, <1>4, <3>1
    <3>2. CASE h # g \/ j # id
      BY <1>0, <1>3, <3>2 DEF Remembered
    <3> QED
      BY <3>1, <3>2
  <2>2. ASSUME NEW h \in Gateways, NEW j \in Ids, Rebootable'
        PROVE  /\ Ran(h, j)' => Closed(h, j)' \/ results[h][j] = "running"
               /\ unit'[h][j] \notin {"none", "ping"} =>
                    \/ Closed(h, j)' \/ results[h][j] = "running"
                    \/ Reporting(h, j, {"running"})'
    <3>1. CASE h = g /\ j = id
      BY <1>3, <2>2, <3>1
    <3>2. CASE h # g \/ j # id
      BY <1>0, <1>2, <1>3, <2>2, <3>2 DEF Remembered
    <3> QED
      BY <3>1, <3>2
  <2> QED
    BY <2>1, <2>2 DEF Remembered
<1>7. LaunchInOrder'
  <2>1. ASSUME NEW h \in Gateways, NEW j \in Ids, Offered(h, j)'
        PROVE  /\ <<h, j>> \in dispatched'
               /\ \A other \in Ids :
                    (other < j /\ <<h, other>> \in dispatched') => Closed(h, other)'
    BY <1>0, <1>3, <2>1 DEF LaunchInOrder, InOrder
  <2>2. ASSUME NEW h \in Gateways, NEW j \in Ids
        PROVE  /\ (pollPc[h] = "select" /\ Ran(h, j)') => last[h] = j \/ Closed(h, j)
               /\ (pollPc[h] \in {"sync", "launch"} /\ body[h].cmd = j /\ last[h] # j) =>
                    ~ Closed(h, j) /\ ~ Ran(h, j)'
               /\ (pollPc[h] = "persist" /\ body[h].cmd # j
                   /\ (unit'[h][j] # "none" \/ Ran(h, j)')) => Closed(h, j)
    <3>1. CASE h = g /\ j = id
      BY <1>0, <1>4, <3>1 DEF LaunchInOrder, InOrder, Known
    <3>2. CASE h # g \/ j # id
      <4>1. (Ran(h, j)' <=> Ran(h, j)) /\ unit'[h][j] = unit[h][j]
        BY <1>3, <3>2
      <4> QED
        BY <1>0, <4>1 DEF LaunchInOrder, InOrder
    <3> QED
      BY <3>1, <3>2
  <2>3. \A h \in Gateways : /\ pollPc[h] \in {"busy", "select"} => body[h].cmd = 0
                            /\ pollPc[h] = "launch" => body[h].cmd # last[h]
    BY <1>0 DEF LaunchInOrder, InOrder
  <2> QED
    BY <1>3, <2>1, <2>2, <2>3 DEF LaunchInOrder, InOrder
<1> QED
  BY <1>1, <1>5, <1>6, <1>7

\* What is sent is reported, and nothing else changes.
LEMMA Sent ==
  ASSUME TypeOK, NEW g \in Gateways, NEW id \in Ids, NEW status \in Statuses,
         Send(g, id, status)
  PROVE  \A h \in Gateways, j \in Ids, statuses \in SUBSET Statuses :
           Reporting(h, j, statuses)' <=>
             Reporting(h, j, statuses) \/ (h = g /\ j = id /\ status \in statuses)
<1> DEFINE new == [g |-> g, id |-> id, status |-> status, stage |-> "sent"]
<1>1. /\ posts' = posts \cup {new}
      /\ new.g = g /\ new.id = id /\ new.status = status /\ new.stage = "sent"
  BY DEF Send
<1> HIDE DEF new
<1> QED
  BY <1>1 DEF Reporting

LEMMA PingCalm ==
  ASSUME IInv, IInv', CalmInv, NEW g \in Gateways, NEW id \in Ids, Ping(g, id)
  PROVE  CalmInv'
<1>0. TypeOK /\ fuel \in Nat /\ "running" \in Statuses /\ "pinged" \in UnitPcs
  BY DEF IInv, TypeOK, Statuses, UnitPcs
<1>1. /\ unit[g][id] = "ping"
      /\ \A h \in Gateways, j \in Ids :
           unit'[h][j] = IF h = g /\ j = id THEN "pinged" ELSE unit[h][j]
      /\ UNCHANGED <<commands, results, disp, last, pollPc, body, execs, dispatched, fuel>>
  BY <1>0, UnitMoves DEF Ping
<1>2. Final \in SUBSET Statuses /\ {"running"} \in SUBSET Statuses /\ "running" \notin Final
  BY DEF Statuses, TERMINAL_RESULT_STATUSES, Final
<1>3. ASSUME NEW h \in Gateways, NEW j \in Ids
      PROVE  /\ Reporting(h, j, Final)' <=> Reporting(h, j, Final)
             /\ Reporting(h, j, {"running"})' <=>
                  Reporting(h, j, {"running"}) \/ (h = g /\ j = id)
  BY <1>0, <1>2, Sent DEF Ping
<1>4. /\ ~ Reporting(g, id, Final) /\ execs[g][id] = 0 /\ <<g, id>> \in dispatched
      /\ results[g][id] \notin TERMINAL_RESULT_STATUSES
  BY <1>1 DEF CalmInv, OpenWhileBusy, Closed, IInv, UnitHolds
<1>5. ReportsInOrder'
  <2>1. \A p \in posts' : \/ p \in posts
                          \/ /\ p.g = g /\ p.id = id /\ p.status = "running"
                             /\ p.stage = "sent"
    BY <1>0, ResultSent DEF Ping
  <2>2. ASSUME NEW h \in Gateways, NEW j \in Ids, Reporting(h, j, {"running"})'
        PROVE  /\ results[h][j] \notin TERMINAL_RESULT_STATUSES
               /\ ~ Reporting(h, j, Final)' /\ unit'[h][j] \in {"none", "ping", "pinged"}
    BY <1>1, <1>3, <1>4, <2>2 DEF CalmInv, ReportsInOrder
  <2>3. ASSUME NEW p \in posts'
        PROVE  /\ p.status \in Final \cup {"running"} /\ <<p.g, p.id>> \in dispatched
               /\ p.stage = "mark" => p \in posts
    BY <1>4, <2>1 DEF CalmInv, ReportsInOrder
  <2> QED
    BY <1>1, <2>2, <2>3 DEF CalmInv, ReportsInOrder, Approved, Existing
<1>6. DispatchInOrder' /\ OpenWhileBusy' /\ Remembered' /\ LaunchInOrder'
  <2>1. ~ Ran(g, id)'
    BY <1>1, <1>3, <1>4 DEF Ran
  <2> QED
    BY <1>0, <1>1, <1>3, <1>4, <2>1, UnitMovesCalm
<1> QED
  BY <1>1, <1>5, <1>6 DEF CalmInv

\* A curl that has its answer has no result of its kind on the way.
LEMMA CalmAnswer ==
  ASSUME IInv, CalmOperation, CalmInv, NEW g \in Gateways, NEW id \in Ids,
         NEW statuses, Answered(g, id, statuses)
  PROVE  ~ Reporting(g, id, statuses) /\ fuel' = fuel
<1>1. ~ Spend("late")
  BY CalmSpends
<1> QED
  BY <1>1 DEF Answered, Reporting

LEMMA PingedCalm ==
  ASSUME IInv, IInv', CalmOperation, CalmInv, NEW g \in Gateways, NEW id \in Ids,
         Pinged(g, id)
  PROVE  CalmInv'
<1>0. TypeOK /\ fuel \in Nat /\ "guard" \in UnitPcs
  BY DEF IInv, TypeOK, UnitPcs
<1>1. /\ unit[g][id] = "pinged"
      /\ \A h \in Gateways, j \in Ids :
           unit'[h][j] = IF h = g /\ j = id THEN "guard" ELSE unit[h][j]
      /\ UNCHANGED <<commands, results, disp, posts, last, pollPc, body, execs, dispatched>>
  BY <1>0, UnitMoves DEF Pinged
<1>2. ~ Reporting(g, id, {"running"}) /\ fuel' = fuel
  BY CalmAnswer DEF Pinged
<1>3. ASSUME NEW h \in Gateways, NEW j \in Ids
      PROVE  /\ Reporting(h, j, Final)' <=> Reporting(h, j, Final)
             /\ Reporting(h, j, {"running"})' <=> Reporting(h, j, {"running"})
             /\ Ran(h, j)' <=> Ran(h, j)
  BY <1>1 DEF Reporting, Ran
<1>4. ~ Reporting(g, id, Final) /\ execs[g][id] = 0
  BY <1>1 DEF CalmInv, OpenWhileBusy
<1>5. ReportsInOrder'
  <2>1. ASSUME NEW h \in Gateways, NEW j \in Ids, Reporting(h, j, {"running"})'
        PROVE  unit'[h][j] \in {"none", "ping", "pinged"}
    BY <1>1, <1>2, <1>3, <2>1 DEF CalmInv, ReportsInOrder
  <2> QED
    BY <1>1, <1>3, <2>1 DEF CalmInv, ReportsInOrder, Approved, Existing
<1>6. DispatchInOrder' /\ OpenWhileBusy' /\ Remembered' /\ LaunchInOrder'
  <2>1. ~ Ran(g, id)'
    BY <1>3, <1>4 DEF Ran
  <2>2. Rebootable' => Closed(g, id) \/ results[g][id] = "running"
    BY <1>1, <1>2 DEF CalmInv, Remembered, Rebootable
  <2> QED
    BY <1>0, <1>1, <1>2, <1>3, <1>4, <2>1, <2>2, UnitMovesCalm
<1> QED
  BY <1>2, <1>5, <1>6 DEF CalmInv

\* A unit past its ping runs a command that is closed, running in the table, or on a
\* host that does not reboot any more.
LEMMA PastPing ==
  ASSUME CalmInv, NEW g \in Gateways, NEW id \in Ids,
         unit[g][id] \in {"guard", "exec", "reported"} \cup Final
  PROVE  /\ ~ Reporting(g, id, {"running"})
         /\ Rebootable => Closed(g, id) \/ results[g][id] = "running"
<1>1. unit[g][id] \notin {"none", "ping", "pinged"}
  BY DEF Final
<1>2. ~ Reporting(g, id, {"running"})
  BY <1>1 DEF CalmInv, ReportsInOrder
<1> QED
  BY <1>1, <1>2 DEF CalmInv, Remembered

LEMMA GuardCalm ==
  ASSUME IInv, IInv', CalmInv, NEW g \in Gateways, NEW id \in Ids, Guard(g, id)
  PROVE  CalmInv'
<1>0. TypeOK /\ fuel \in Nat /\ {"exec", "failed"} \subseteq UnitPcs
  BY DEF IInv, TypeOK, UnitPcs, Final
<1>1. PICK to \in {"exec", "failed"} : Go(g, id, "guard", to)
  BY DEF Guard
<1>2. /\ unit[g][id] = "guard"
      /\ \A h \in Gateways, j \in Ids :
           unit'[h][j] = IF h = g /\ j = id THEN to ELSE unit[h][j]
  BY <1>0, <1>1, UnitMoves
<1>3. /\ UNCHANGED <<commands, results, disp, posts, last, pollPc, body, dispatched, fuel>>
      /\ \A h \in Gateways, j \in Ids :
           (h # g \/ j # id) => execs'[h][j] = execs[h][j]
  BY <1>0 DEF Guard, TypeOK
<1>4. ASSUME NEW h \in Gateways, NEW j \in Ids
      PROVE  /\ Reporting(h, j, Final)' <=> Reporting(h, j, Final)
             /\ Reporting(h, j, {"running"})' <=> Reporting(h, j, {"running"})
  BY <1>3 DEF Reporting
<1>5. /\ ~ Reporting(g, id, Final) /\ ~ Reporting(g, id, {"running"})
      /\ Rebootable => Closed(g, id) \/ results[g][id] = "running"
  BY <1>2, PastPing DEF CalmInv, OpenWhileBusy
<1>6. ReportsInOrder'
  <2>1. ASSUME NEW h \in Gateways, NEW j \in Ids, Reporting(h, j, {"running"})'
        PROVE  unit'[h][j] \in {"none", "ping", "pinged"}
    BY <1>2, <1>4, <1>5, <2>1 DEF CalmInv, ReportsInOrder
  <2> QED
    BY <1>3, <1>4, <2>1 DEF CalmInv, ReportsInOrder, Approved, Existing
<1>7. DispatchInOrder' /\ OpenWhileBusy' /\ Remembered' /\ LaunchInOrder'
  <2>1. Rebootable' <=> Rebootable
    BY <1>3 DEF Rebootable
  <2> QED
    BY <1>0, <1>2, <1>3, <1>4, <1>5, <2>1, UnitMovesCalm
<1> QED
  BY <1>3, <1>6, <1>7 DEF CalmInv

LEMMA ExecCalm ==
  ASSUME IInv, IInv', CalmInv, NEW g \in Gateways, NEW id \in Ids, Exec(g, id)
  PROVE  CalmInv'
<1>0. TypeOK /\ fuel \in Nat /\ Final \subseteq UnitPcs
  BY DEF IInv, TypeOK, UnitPcs
<1>1. PICK to \in Final : Go(g, id, "exec", to)
  BY DEF Exec
<1>2. /\ unit[g][id] = "exec"
      /\ \A h \in Gateways, j \in Ids :
           unit'[h][j] = IF h = g /\ j = id THEN to ELSE unit[h][j]
  BY <1>0, <1>1, UnitMoves
<1>3. UNCHANGED <<commands, results, disp, posts, last, pollPc, body, execs, dispatched, fuel>>
  BY DEF Exec
<1>4. ASSUME NEW h \in Gateways, NEW j \in Ids
      PROVE  /\ Reporting(h, j, Final)' <=> Reporting(h, j, Final)
             /\ Reporting(h, j, {"running"})' <=> Reporting(h, j, {"running"})
  BY <1>3 DEF Reporting
<1>5. /\ ~ Reporting(g, id, Final) /\ ~ Reporting(g, id, {"running"})
      /\ Rebootable => Closed(g, id) \/ results[g][id] = "running"
      /\ to \notin {"ping", "pinged", "guard"}
  BY <1>2, PastPing DEF CalmInv, OpenWhileBusy, Final
<1>6. ReportsInOrder'
  <2>1. ASSUME NEW h \in Gateways, NEW j \in Ids, Reporting(h, j, {"running"})'
        PROVE  unit'[h][j] \in {"none", "ping", "pinged"}
    BY <1>2, <1>4, <1>5, <2>1 DEF CalmInv, ReportsInOrder
  <2> QED
    BY <1>3, <1>4, <2>1 DEF CalmInv, ReportsInOrder, Approved, Existing
<1>7. DispatchInOrder' /\ OpenWhileBusy' /\ Remembered' /\ LaunchInOrder'
  <2>1. Rebootable' <=> Rebootable
    BY <1>3 DEF Rebootable
  <2> QED
    BY <1>0, <1>2, <1>3, <1>4, <1>5, <2>1, UnitMovesCalm
<1> QED
  BY <1>3, <1>6, <1>7 DEF CalmInv

LEMMA ReportCalm ==
  ASSUME IInv, IInv', CalmInv, NEW g \in Gateways, NEW id \in Ids, Report(g, id)
  PROVE  CalmInv'
<1>0. TypeOK /\ fuel \in Nat /\ "reported" \in UnitPcs /\ Final \subseteq Statuses
  BY DEF IInv, TypeOK, UnitPcs, Statuses, TERMINAL_RESULT_STATUSES
<1>1. PICK status \in Final : Go(g, id, status, "reported") /\ Send(g, id, status)
  BY DEF Report
<1>2. /\ unit[g][id] = status /\ status # "none"
      /\ \A h \in Gateways, j \in Ids :
           unit'[h][j] = IF h = g /\ j = id THEN "reported" ELSE unit[h][j]
  BY <1>0, <1>1, UnitMoves DEF Final
<1>3. UNCHANGED <<commands, results, disp, last, pollPc, body, execs, dispatched, fuel>>
  BY DEF Report
<1>4. Final \in SUBSET Statuses /\ {"running"} \in SUBSET Statuses /\ "running" \notin Final
  BY DEF Statuses, TERMINAL_RESULT_STATUSES, Final
<1>5. ASSUME NEW h \in Gateways, NEW j \in Ids
      PROVE  /\ Reporting(h, j, Final)' <=> Reporting(h, j, Final) \/ (h = g /\ j = id)
             /\ Reporting(h, j, {"running"})' <=> Reporting(h, j, {"running"})
  BY <1>0, <1>1, <1>4, Sent
<1>6. /\ ~ Reporting(g, id, {"running"}) /\ <<g, id>> \in dispatched
      /\ Rebootable => Closed(g, id) \/ results[g][id] = "running"
  BY <1>2, PastPing DEF IInv, UnitHolds
<1>7. ReportsInOrder'
  <2>1. ASSUME NEW h \in Gateways, NEW j \in Ids, Reporting(h, j, {"running"})'
        PROVE  /\ results[h][j] \notin TERMINAL_RESULT_STATUSES
               /\ ~ Reporting(h, j, Final)' /\ unit'[h][j] \in {"none", "ping", "pinged"}
    BY <1>2, <1>5, <1>6, <2>1 DEF CalmInv, ReportsInOrder
  <2>2. \A p \in posts' : \/ p \in posts
                          \/ /\ p.g = g /\ p.id = id /\ p.status = status
                             /\ p.stage = "sent"
    BY <1>0, <1>1, ResultSent
  <2>3. ASSUME NEW p \in posts'
        PROVE  /\ p.status \in Final \cup {"running"} /\ <<p.g, p.id>> \in dispatched
               /\ p.stage = "mark" => p \in posts
    BY <1>6, <2>2 DEF CalmInv, ReportsInOrder
  <2> QED
    BY <1>3, <2>1, <2>3 DEF CalmInv, ReportsInOrder, Approved, Existing
<1>8. DispatchInOrder' /\ OpenWhileBusy' /\ Remembered' /\ LaunchInOrder'
  <2>1. Rebootable' <=> Rebootable
    BY <1>3 DEF Rebootable
  <2> QED
    BY <1>0, <1>2, <1>3, <1>5, <1>6, <2>1, UnitMovesCalm
<1> QED
  BY <1>3, <1>7, <1>8 DEF CalmInv

LEMMA ReportedCalm ==
  ASSUME IInv, IInv', CalmOperation, CalmInv, NEW g \in Gateways, NEW id \in Ids,
         Reported(g, id)
  PROVE  CalmInv'
<1>0. TypeOK /\ fuel \in Nat /\ "none" \in UnitPcs
  BY DEF IInv, TypeOK, UnitPcs
<1>1. /\ unit[g][id] = "reported"
      /\ \A h \in Gateways, j \in Ids :
           unit'[h][j] = IF h = g /\ j = id THEN "none" ELSE unit[h][j]
      /\ UNCHANGED <<commands, results, disp, posts, last, pollPc, body, execs, dispatched>>
  BY <1>0, UnitMoves DEF Reported
<1>2. fuel' = fuel
  BY CalmAnswer DEF Reported
<1>3. ASSUME NEW h \in Gateways, NEW j \in Ids
      PROVE  /\ Reporting(h, j, Final)' <=> Reporting(h, j, Final)
             /\ Reporting(h, j, {"running"})' <=> Reporting(h, j, {"running"})
  BY <1>1 DEF Reporting
<1>4. Rebootable => Closed(g, id) \/ results[g][id] = "running"
  BY <1>1, PastPing
<1>5. ReportsInOrder'
  <2>1. ASSUME NEW h \in Gateways, NEW j \in Ids, Reporting(h, j, {"running"})'
        PROVE  unit'[h][j] \in {"none", "ping", "pinged"}
    BY <1>1, <1>3, <2>1 DEF CalmInv, ReportsInOrder
  <2> QED
    BY <1>1, <1>3, <2>1 DEF CalmInv, ReportsInOrder, Approved, Existing
<1>6. DispatchInOrder' /\ OpenWhileBusy' /\ Remembered' /\ LaunchInOrder'
  <2>1. Rebootable' <=> Rebootable
    BY <1>2 DEF Rebootable
  <2> QED
    BY <1>0, <1>1, <1>2, <1>3, <1>4, <2>1, UnitMovesCalm
<1> QED
  BY <1>2, <1>5, <1>6 DEF CalmInv

\* A step of a poller, which may start units that are open and never ran or lose
\* all of them, keeps the order when its gateway does.
LEMMA PollerMovesCalm ==
  ASSUME IInv, IInv', CalmInv, NEW g \in Gateways, fuel' <= fuel,
         UNCHANGED <<commands, results, disp, posts, execs, dispatched>>,
         \A h \in Gateways : h # g =>
           /\ pollPc'[h] = pollPc[h] /\ body'[h] = body[h]
           /\ last'[h] = last[h] /\ unit'[h] = unit[h],
         \A j \in Ids :
           /\ \/ unit'[g][j] \in {unit[g][j], "none"}
              \/ unit'[g][j] = "ping" /\ ~ Closed(g, j) /\ ~ Ran(g, j)
           /\ unit'[g][j] # "none" => Known(g, j)' \/ Closed(g, j)
           /\ Ran(g, j) => Known(g, j)' \/ Closed(g, j) \/ results[g][j] = "running",
         InOrder(g)'
  PROVE  /\ DispatchInOrder' /\ OpenWhileBusy' /\ Remembered' /\ LaunchInOrder'
         /\ ReportsInOrder'
<1>0. /\ OpenWhileBusy /\ Remembered /\ LaunchInOrder /\ TypeOK
      /\ fuel \in Nat /\ fuel' \in Nat
  BY DEF CalmInv, IInv, TypeOK
<1>1. DispatchInOrder'
  BY DEF CalmInv, DispatchInOrder, Existing
<1>2. Rebootable' => Rebootable
  BY <1>0 DEF Rebootable
<1>3. ASSUME NEW h \in Gateways, NEW j \in Ids
      PROVE  /\ Closed(h, j)' <=> Closed(h, j)
             /\ Reporting(h, j, Final)' <=> Reporting(h, j, Final)
             /\ Reporting(h, j, {"running"})' <=> Reporting(h, j, {"running"})
             /\ Ran(h, j)' <=> Ran(h, j)
  BY DEF Closed, Approved, Existing, Reporting, Ran
<1>4. ASSUME NEW h \in Gateways, NEW j \in Ids, h # g
      PROVE  /\ Known(h, j)' <=> Known(h, j)
             /\ Offered(h, j)' <=> Offered(h, j)
  BY <1>3, <1>4 DEF Known, Offered
<1>5. ASSUME NEW j \in Ids, ~ Ran(g, j)
      PROVE  execs[g][j] = 0 /\ ~ Reporting(g, j, Final)
  BY <1>0, <1>5 DEF Ran, TypeOK
<1>6. OpenWhileBusy'
  <2>1. ASSUME NEW h \in Gateways, NEW j \in Ids, unit'[h][j] \notin {"none", "reported"}
        PROVE  ~ Closed(h, j)' /\ ~ Reporting(h, j, Final)'
    <3>1. CASE h = g
      <4>1. \/ unit[g][j] \notin {"none", "reported"}
            \/ ~ Closed(g, j) /\ ~ Ran(g, j)
        BY <2>1, <3>1
      <4> QED
        BY <1>0, <1>3, <1>5, <3>1, <4>1 DEF OpenWhileBusy
    <3>2. CASE h # g
      BY <1>0, <1>3, <2>1, <3>2 DEF OpenWhileBusy
    <3> QED
      BY <3>1, <3>2
  <2>2. ASSUME NEW h \in Gateways, NEW j \in Ids, unit'[h][j] \in {"ping", "pinged", "guard"}
        PROVE  execs[h][j] = 0
    <3>1. CASE h = g
      <4>1. unit[g][j] \in {"ping", "pinged", "guard"} \/ ~ Ran(g, j)
        BY <2>2, <3>1
      <4> QED
        BY <1>0, <1>5, <3>1, <4>1 DEF OpenWhileBusy
    <3>2. CASE h # g
      BY <1>0, <2>2, <3>2 DEF OpenWhileBusy
    <3> QED
      BY <3>1, <3>2
  <2> QED
    BY <2>1, <2>2 DEF OpenWhileBusy
<1>7. Remembered'
  <2>1. ASSUME NEW h \in Gateways, NEW j \in Ids
        PROVE  /\ unit'[h][j] # "none" => Known(h, j)' \/ Closed(h, j)'
               /\ Ran(h, j)' => Known(h, j)' \/ Closed(h, j)' \/ results[h][j] = "running"
    <3>1. CASE h = g
      BY <1>3, <3>1
    <3>2. CASE h # g
      BY <1>0, <1>3, <1>4, <3>2 DEF Remembered
    <3> QED
      BY <3>1, <3>2
  <2>2. ASSUME NEW h \in Gateways, NEW j \in Ids, Rebootable'
        PROVE  Ran(h, j)' => Closed(h, j)' \/ results[h][j] = "running"
    BY <1>0, <1>2, <1>3, <2>2 DEF Remembered
  <2>3. ASSUME NEW h \in Gateways, NEW j \in Ids, Rebootable',
               unit'[h][j] \notin {"none", "ping"}
        PROVE  \/ Closed(h, j)' \/ results[h][j] = "running"
               \/ Reporting(h, j, {"running"})'
    <3>1. unit[h][j] \notin {"none", "ping"}
      BY <2>3
    <3> QED
      BY <1>0, <1>2, <1>3, <2>3, <3>1 DEF Remembered
  <2> QED
    BY <2>1, <2>2, <2>3 DEF Remembered
<1>8. LaunchInOrder'
  <2>1. ASSUME NEW h \in Gateways, h # g PROVE InOrder(h)'
    <3>1. InOrder(h)
      BY <1>0 DEF LaunchInOrder
    <3> QED
      BY <1>3, <1>4, <2>1, <3>1 DEF InOrder
  <2> QED
    BY <2>1 DEF LaunchInOrder
<1>9. ReportsInOrder'
  <2>1. ASSUME NEW h \in Gateways, NEW j \in Ids, Reporting(h, j, {"running"})'
        PROVE  unit'[h][j] \in {"none", "ping", "pinged"}
    <3>1. unit[h][j] \in {"none", "ping", "pinged"}
      BY <1>3, <2>1 DEF CalmInv, ReportsInOrder
    <3> QED
      BY <3>1
  <2> QED
    BY <1>3, <2>1 DEF CalmInv, ReportsInOrder, Approved, Existing
<1> QED
  BY <1>1, <1>6, <1>7, <1>8, <1>9

\* The answer a poller works on.
LEMMA BodyType ==
  ASSUME IInv, NEW g \in Gateways, pollPc[g] # "fetch"
  PROVE  body[g] \in Body /\ body[g].cmd \in 0..MaxCommands
BY DEF IInv, TypeOK, PollerHolds, Body

LEMMA ReadFreezeCalm ==
  ASSUME IInv, IInv', CalmInv, NEW g \in Gateways, ReadFreeze(g)
  PROVE  CalmInv'
<1>0. TypeOK /\ fuel \in Nat /\ InOrder(g)
  BY DEF IInv, TypeOK, CalmInv, LaunchInOrder
<1>1. /\ pollPc[g] = "fetch" /\ pollPc'[g] = "busy" /\ body'[g].cmd = 0
      /\ \A h \in Gateways : h # g => pollPc'[h] = pollPc[h] /\ body'[h] = body[h]
      /\ UNCHANGED <<commands, results, disp, posts, last, unit, execs, dispatched, fuel>>
  BY <1>0 DEF ReadFreeze, At, TypeOK
<1>2. ASSUME NEW j \in Ids
      PROVE  /\ Ran(g, j)' <=> Ran(g, j)
             /\ \A i \in Ids : Closed(g, i)' <=> Closed(g, i)
             /\ Known(g, j) => Known(g, j)'
             /\ Offered(g, j)' => Offered(g, j)
  BY <1>1 DEF Closed, Approved, Existing, Reporting, Ran, Known, Offered, Ids
<1>3. InOrder(g)'
  BY <1>0, <1>1, <1>2 DEF InOrder
<1>4. \A j \in Ids :
        /\ unit[g][j] # "none" => Known(g, j)' \/ Closed(g, j)
        /\ Ran(g, j) => Known(g, j)' \/ Closed(g, j) \/ results[g][j] = "running"
  BY <1>2 DEF CalmInv, Remembered
<1> QED
  BY <1>0, <1>1, <1>3, <1>4, PollerMovesCalm DEF CalmInv

LEMMA ReadBusyCalm ==
  ASSUME IInv, IInv', CalmInv, NEW g \in Gateways, ReadBusy(g)
  PROVE  CalmInv'
<1>0. TypeOK /\ fuel \in Nat /\ InOrder(g)
  BY DEF IInv, TypeOK, CalmInv, LaunchInOrder
<1>1. /\ pollPc[g] = "busy" /\ body[g].cmd = 0
      /\ \/ pollPc'[g] = "sync"
         \/ pollPc'[g] = "select" /\ \A id \in Approved : results[g][id] # "running"
      /\ \A h \in Gateways : h # g => pollPc'[h] = pollPc[h]
      /\ UNCHANGED <<commands, results, disp, posts, body, last, unit, execs, dispatched, fuel>>
  BY <1>0 DEF ReadBusy, At, TypeOK, InOrder
<1>2. ASSUME NEW j \in Ids
      PROVE  /\ Ran(g, j)' <=> Ran(g, j)
             /\ \A i \in Ids : Closed(g, i)' <=> Closed(g, i)
             /\ Known(g, j) <=> last[g] = j
             /\ Known(g, j) => Known(g, j)'
             /\ Offered(g, j)' => Offered(g, j)
  BY <1>1 DEF Closed, Approved, Existing, Reporting, Ran, Known, Offered, Ids
<1>3. ASSUME NEW j \in Ids, pollPc'[g] = "select", Ran(g, j)
      PROVE  last[g] = j \/ Closed(g, j)
  <2>1. Known(g, j) \/ Closed(g, j) \/ results[g][j] = "running"
    BY <1>3 DEF CalmInv, Remembered
  <2> QED
    BY <1>1, <1>2, <1>3, <2>1 DEF Closed
<1>4. InOrder(g)'
  <2>1. \A j \in Ids : j # 0
    BY DEF Ids
  <2> QED
    BY <1>0, <1>1, <1>2, <1>3, <2>1 DEF InOrder
<1>5. \A j \in Ids :
        /\ unit[g][j] # "none" => Known(g, j)' \/ Closed(g, j)
        /\ Ran(g, j) => Known(g, j)' \/ Closed(g, j) \/ results[g][j] = "running"
  BY <1>2 DEF CalmInv, Remembered
<1> QED
  BY <1>0, <1>1, <1>4, <1>5, PollerMovesCalm DEF CalmInv

\* The command that is offered is the earliest open one, so the ones before it are
\* closed, and it never ran unless it is the last one launched.
LEMMA ReadNextCalm ==
  ASSUME IInv, IInv', CalmInv, NEW g \in Gateways, ReadNext(g)
  PROVE  CalmInv'
<1>0. TypeOK /\ fuel \in Nat /\ InOrder(g)
  BY DEF IInv, TypeOK, CalmInv, LaunchInOrder
<1>1. /\ pollPc[g] = "select" /\ body[g].cmd = 0 /\ pollPc'[g] = "sync"
      /\ \A h \in Gateways : h # g => pollPc'[h] = pollPc[h] /\ body'[h] = body[h]
      /\ UNCHANGED <<commands, results, disp, posts, last, unit, execs, dispatched, fuel>>
      /\ body'[g].cmd \in {0} \cup Earliest(Candidates(g))
  <2>1. /\ pollPc[g] = "select" /\ body[g].cmd = 0 /\ pollPc'[g] = "sync"
        /\ \A h \in Gateways : h # g => pollPc'[h] = pollPc[h] /\ body'[h] = body[h]
        /\ UNCHANGED <<commands, results, disp, posts, last, unit, execs, dispatched, fuel>>
    BY <1>0 DEF ReadNext, At, TypeOK, InOrder
  <2>2. CASE UNCHANGED body
    BY <2>1, <2>2
  <2>3. ASSUME NEW id \in Earliest(Candidates(g)), body' = [body EXCEPT ![g].cmd = id]
        PROVE  body'[g].cmd = id
    <3>1. body[g] \in Body
      BY <2>1, BodyType
    <3> QED
      BY <1>0, <2>3, <3>1 DEF TypeOK, Body
  <2> QED
    BY <2>1, <2>2, <2>3 DEF ReadNext
<1>2. ASSUME NEW j \in Ids
      PROVE  /\ Ran(g, j)' <=> Ran(g, j)
             /\ \A i \in Ids : Closed(g, i)' <=> Closed(g, i)
             /\ Known(g, j) => Known(g, j)'
             /\ Offered(g, j)' => Offered(g, j) \/ body'[g].cmd = j
  BY <1>1 DEF Closed, Approved, Existing, Reporting, Ran, Known, Offered
<1>3. ASSUME NEW c \in Ids, body'[g].cmd = c
      PROVE  /\ ~ Closed(g, c) /\ <<g, c>> \in dispatched
             /\ \A other \in Ids :
                  (other < c /\ <<g, other>> \in dispatched) => Closed(g, other)
  <2>1. c \in Candidates(g) /\ \A other \in Candidates(g) : c <= other
    BY <1>1, <1>3 DEF Earliest, Ids
  <2>2. ~ Closed(g, c) /\ c \in Existing /\ commands[c].status # "pending"
        /\ g \in commands[c].targets
    BY <2>1 DEF Candidates, Closed, Approved
  <2>3. <<g, c>> \in dispatched
    BY <2>2 DEF IInv, TablesHold
  <2>4. ASSUME NEW other \in Ids, other < c, <<g, other>> \in dispatched,
               ~ Closed(g, other)
        PROVE  FALSE
    <3>1. other \in Existing /\ other \in Approved
      BY <2>4 DEF Closed, Approved
    <3>2. other \in Candidates(g)
      BY <2>4, <3>1, DispatchedRow DEF Candidates, Closed
    <3> QED
      BY <2>1, <2>4, <3>2 DEF Ids
  <2> QED
    BY <2>2, <2>3, <2>4
<1>4. InOrder(g)'
  <2>1. ASSUME NEW j \in Ids, Offered(g, j)'
        PROVE  /\ <<g, j>> \in dispatched
               /\ \A other \in Ids :
                    (other < j /\ <<g, other>> \in dispatched) => Closed(g, other)
    BY <1>0, <1>2, <1>3, <2>1 DEF InOrder
  <2>2. ASSUME NEW j \in Ids, body'[g].cmd = j, last[g] # j
        PROVE  ~ Closed(g, j) /\ ~ Ran(g, j)
    BY <1>0, <1>1, <1>3, <2>2 DEF InOrder
  <2> QED
    BY <1>1, <1>2, <2>1, <2>2 DEF InOrder
<1>5. \A j \in Ids :
        /\ unit[g][j] # "none" => Known(g, j)' \/ Closed(g, j)
        /\ Ran(g, j) => Known(g, j)' \/ Closed(g, j) \/ results[g][j] = "running"
  BY <1>2 DEF CalmInv, Remembered
<1> QED
  BY <1>0, <1>1, <1>4, <1>5, PollerMovesCalm DEF CalmInv

\* A step of a poller that only leaves an answer or goes on with it.
LEMMA PollerGoesOn ==
  ASSUME IInv, IInv', CalmInv, NEW g \in Gateways, fuel' <= fuel,
         UNCHANGED <<commands, results, disp, posts, last, unit, execs, dispatched>>,
         \A h \in Gateways : h # g => pollPc'[h] = pollPc[h] /\ body'[h] = body[h],
         pollPc[g] \notin {"fetch", "persist"},
         pollPc'[g] = "launch" => pollPc[g] = "sync" /\ body[g].cmd # last[g],
         pollPc'[g] \in {"launch", "stamp", "fetch"},
         pollPc'[g] = "fetch" \/ body'[g] = body[g]
  PROVE  /\ DispatchInOrder' /\ OpenWhileBusy' /\ Remembered' /\ LaunchInOrder'
         /\ ReportsInOrder'
<1>0. InOrder(g)
  BY DEF CalmInv, LaunchInOrder
<1>1. ASSUME NEW j \in Ids
      PROVE  /\ Ran(g, j)' <=> Ran(g, j)
             /\ \A i \in Ids : Closed(g, i)' <=> Closed(g, i)
             /\ Known(g, j) => Known(g, j)'
             /\ Offered(g, j)' => Offered(g, j)
  BY DEF Closed, Approved, Existing, Reporting, Ran, Known, Offered
<1>2. InOrder(g)'
  BY <1>0, <1>1 DEF InOrder
<1>3. \A j \in Ids :
        /\ unit[g][j] # "none" => Known(g, j)' \/ Closed(g, j)
        /\ Ran(g, j) => Known(g, j)' \/ Closed(g, j) \/ results[g][j] = "running"
  BY <1>1 DEF CalmInv, Remembered
<1> QED
  BY <1>2, <1>3, PollerMovesCalm

LEMMA SyncCalm ==
  ASSUME IInv, IInv', CalmOperation, CalmInv, NEW g \in Gateways, Sync(g)
  PROVE  CalmInv'
<1>0. TypeOK /\ fuel \in Nat /\ fuel <= Budget
  BY DEF IInv, TypeOK, CalmInv
<1>1. fuel' <= fuel /\ fuel' <= Budget
  BY <1>0, CalmSpends DEF Sync
<1>2. /\ UNCHANGED <<commands, results, disp, posts, last, unit, execs, dispatched>>
      /\ \A h \in Gateways : h # g => pollPc'[h] = pollPc[h] /\ body'[h] = body[h]
      /\ pollPc[g] = "sync"
      /\ pollPc'[g] = "launch" => body[g].cmd # last[g]
      /\ pollPc'[g] \in {"launch", "stamp", "fetch"}
      /\ pollPc'[g] = "fetch" \/ body'[g] = body[g]
  BY <1>0 DEF Sync, At, Forget, TypeOK
<1> QED
  BY <1>1, <1>2, PollerGoesOn DEF CalmInv

LEMMA LaunchCalm ==
  ASSUME IInv, IInv', CalmOperation, CalmInv, NEW g \in Gateways, Launch(g)
  PROVE  CalmInv'
<1> DEFINE c == body[g].cmd
<1>0. TypeOK /\ fuel \in Nat /\ fuel <= Budget /\ InOrder(g)
  BY DEF IInv, TypeOK, CalmInv, LaunchInOrder
<1>1. /\ fuel' <= fuel /\ fuel' <= Budget /\ pollPc[g] = "launch"
      /\ UNCHANGED <<commands, results, disp, posts, body, last, execs, dispatched>>
      /\ \A h \in Gateways : h # g => pollPc'[h] = pollPc[h]
  BY <1>0, CalmSpends DEF Launch, At, TypeOK
<1>2. c \in Ids /\ c # last[g] /\ ~ Closed(g, c) /\ ~ Ran(g, c)
  <2>1. c \in 0..MaxCommands /\ c # 0
    BY <1>1, BodyType DEF IInv, PollerHolds
  <2>2. c \in Ids
    BY <2>1 DEF Ids
  <2> QED
    BY <1>0, <1>1, <2>2 DEF InOrder
<1>3. CASE pollPc'[g] = "stamp" /\ UNCHANGED unit
  BY <1>1, <1>3, PollerGoesOn DEF CalmInv
<1>4. CASE /\ pollPc'[g] = "persist" /\ unit[g][c] = "none"
           /\ unit' = [unit EXCEPT ![g][c] = "ping"]
  <2>1. /\ \A h \in Gateways : h # g => unit'[h] = unit[h]
        /\ \A j \in Ids : unit'[g][j] = IF j = c THEN "ping" ELSE unit[g][j]
    BY <1>0, <1>4 DEF TypeOK
  <2>2. ASSUME NEW j \in Ids
        PROVE  /\ Ran(g, j)' <=> Ran(g, j)
               /\ \A i \in Ids : Closed(g, i)' <=> Closed(g, i)
               /\ last[g] = j => Known(g, j)'
               /\ j = c => Known(g, j)'
               /\ Offered(g, j)' => Offered(g, j)
    BY <1>1, <1>4, <2>1 DEF Closed, Approved, Existing, Reporting, Ran, Known, Offered
  <2>3. Offered(g, c)
    BY <1>1 DEF Offered
  <2>4. ASSUME NEW j \in Ids, j # c, unit[g][j] # "none" \/ Ran(g, j)
        PROVE  Closed(g, j)
    <3>1. Offered(g, j) /\ <<g, j>> \in dispatched /\ <<g, c>> \in dispatched
      BY <1>0, <1>2, <2>3, <2>4 DEF Offered, InOrder
    <3>2. ~ (c < j)
      BY <1>0, <1>2, <3>1 DEF InOrder
    <3>3. j < c
      BY <1>2, <2>4, <3>2 DEF Ids
    <3> QED
      BY <1>0, <1>2, <2>3, <3>1, <3>3 DEF InOrder
  <2>5. InOrder(g)'
    <3>1. \A j \in Ids : Offered(g, j) =>
            /\ <<g, j>> \in dispatched
            /\ \A other \in Ids :
                 (other < j /\ <<g, other>> \in dispatched) => Closed(g, other)
      BY <1>0 DEF InOrder
    <3>2. ASSUME NEW j \in Ids, j # c, unit'[g][j] # "none" \/ Ran(g, j)
          PROVE  Closed(g, j)
      BY <2>1, <2>4, <3>2
    <3> QED
      BY <1>1, <1>4, <2>2, <3>1, <3>2 DEF InOrder
  <2>6. \A j \in Ids :
          /\ \/ unit'[g][j] \in {unit[g][j], "none"}
             \/ unit'[g][j] = "ping" /\ ~ Closed(g, j) /\ ~ Ran(g, j)
          /\ unit'[g][j] # "none" => Known(g, j)' \/ Closed(g, j)
          /\ Ran(g, j) => Known(g, j)' \/ Closed(g, j) \/ results[g][j] = "running"
    <3>1. ASSUME NEW j \in Ids, j = c
          PROVE  /\ unit'[g][j] = "ping" /\ ~ Closed(g, j) /\ ~ Ran(g, j)
                 /\ Known(g, j)'
      BY <1>2, <2>1, <2>2, <3>1
    <3>2. ASSUME NEW j \in Ids, j # c
          PROVE  /\ unit'[g][j] = unit[g][j]
                 /\ (unit[g][j] # "none" \/ Ran(g, j)) => Closed(g, j)
      BY <2>1, <2>4, <3>2
    <3> QED
      BY <3>1, <3>2
  <2> HIDE DEF c
  <2>7. /\ DispatchInOrder' /\ OpenWhileBusy' /\ Remembered' /\ LaunchInOrder'
        /\ ReportsInOrder'
    BY <1>1, <2>1, <2>5, <2>6, PollerMovesCalm
  <2> QED
    BY <1>1, <2>7 DEF CalmInv
<1> QED
  BY <1>0, <1>3, <1>4 DEF Launch, At, TypeOK

\* The poller forgets what it launched before: it is closed.
LEMMA PersistCalm ==
  ASSUME IInv, IInv', CalmInv, NEW g \in Gateways, Persist(g)
  PROVE  CalmInv'
<1>0. TypeOK /\ fuel \in Nat /\ InOrder(g)
  BY DEF IInv, TypeOK, CalmInv, LaunchInOrder
<1>1. /\ pollPc[g] = "persist" /\ pollPc'[g] = "stamp" /\ last'[g] = body[g].cmd
      /\ \A h \in Gateways : h # g => pollPc'[h] = pollPc[h] /\ last'[h] = last[h]
      /\ UNCHANGED <<commands, results, disp, posts, body, unit, execs, dispatched, fuel>>
  BY <1>0 DEF Persist, At, TypeOK
<1>2. ASSUME NEW j \in Ids
      PROVE  /\ Ran(g, j)' <=> Ran(g, j)
             /\ \A i \in Ids : Closed(g, i)' <=> Closed(g, i)
             /\ Known(g, j)' <=> body[g].cmd = j
             /\ Offered(g, j)' => Offered(g, j)
  BY <1>1 DEF Closed, Approved, Existing, Reporting, Ran, Known, Offered
<1>3. InOrder(g)'
  BY <1>0, <1>1, <1>2 DEF InOrder
<1>4. \A j \in Ids :
        /\ unit[g][j] # "none" => Known(g, j)' \/ Closed(g, j)
        /\ Ran(g, j) => Known(g, j)' \/ Closed(g, j) \/ results[g][j] = "running"
  BY <1>0, <1>1, <1>2 DEF InOrder
<1> QED
  BY <1>0, <1>1, <1>3, <1>4, PollerMovesCalm DEF CalmInv

LEMMA StampCalm ==
  ASSUME IInv, IInv', CalmInv, NEW g \in Gateways, Stamp(g)
  PROVE  CalmInv'
<1>0. TypeOK /\ fuel \in Nat
  BY DEF IInv, TypeOK
<1>1. /\ UNCHANGED <<commands, results, disp, posts, last, unit, execs, dispatched, fuel>>
      /\ \A h \in Gateways : h # g => pollPc'[h] = pollPc[h] /\ body'[h] = body[h]
      /\ pollPc[g] = "stamp" /\ pollPc'[g] = "fetch"
  BY <1>0 DEF Stamp, At, Forget, TypeOK
<1> QED
  BY <1>0, <1>1, PollerGoesOn DEF CalmInv

\* After a reboot the table alone remembers: what ran is closed or running there.
LEMMA RebootCalm ==
  ASSUME IInv, IInv', CalmOperation, CalmInv, NEW g \in Gateways, Reboot(g)
  PROVE  CalmInv'
<1>0. TypeOK /\ fuel \in Nat /\ InOrder(g)
  BY DEF IInv, TypeOK, CalmInv, LaunchInOrder
<1>1. fuel' <= fuel /\ fuel' <= Budget /\ Rebootable
  BY CalmSpends DEF Reboot, Spend, Rebootable
<1>2. /\ pollPc'[g] = "fetch" /\ last'[g] = 0 /\ \A j \in Ids : unit'[g][j] = "none"
      /\ \A h \in Gateways : h # g =>
           /\ pollPc'[h] = pollPc[h] /\ body'[h] = body[h]
           /\ last'[h] = last[h] /\ unit'[h] = unit[h]
      /\ UNCHANGED <<commands, results, disp, posts, execs, dispatched>>
  BY <1>0 DEF Reboot, Forget, TypeOK
<1>3. ASSUME NEW j \in Ids
      PROVE  /\ Ran(g, j)' <=> Ran(g, j)
             /\ \A i \in Ids : Closed(g, i)' <=> Closed(g, i)
             /\ Offered(g, j)' => Offered(g, j)
  BY <1>2 DEF Closed, Approved, Existing, Reporting, Ran, Offered, Ids
<1>4. InOrder(g)'
  BY <1>0, <1>2, <1>3 DEF InOrder
<1>5. \A j \in Ids : Ran(g, j) => Closed(g, j) \/ results[g][j] = "running"
  BY <1>1 DEF CalmInv, Remembered
<1>6. /\ DispatchInOrder' /\ OpenWhileBusy' /\ Remembered' /\ LaunchInOrder'
      /\ ReportsInOrder'
  BY <1>1, <1>2, <1>4, <1>5, PollerMovesCalm
<1> QED
  BY <1>1, <1>6 DEF CalmInv

LEMMA InitCalm ==
  ASSUME Init
  PROVE  CalmInv
<1>1. DispatchInOrder
  BY DEF Init, DispatchInOrder, NoDispatch
<1>2. \A g \in Gateways, id \in Ids :
        ~ Reporting(g, id, Final) /\ ~ Reporting(g, id, {"running"}) /\ ~ Ran(g, id)
        /\ ~ Offered(g, id)
  BY DEF Init, Reporting, Ran, Offered, Ids
<1>3. ReportsInOrder
  BY <1>2 DEF Init, ReportsInOrder
<1>4. OpenWhileBusy /\ Remembered
  BY <1>2 DEF Init, OpenWhileBusy, Remembered
<1>5. LaunchInOrder
  BY <1>2 DEF Init, LaunchInOrder, InOrder
<1>6. fuel <= Budget
  BY DEF Init
<1> QED
  BY <1>1, <1>3, <1>4, <1>5, <1>6 DEF CalmInv

LEMMA NextCalm ==
  ASSUME IInv, CalmOperation, CalmInv, [Next]_vars
  PROVE  CalmInv'
<1>0. IInv' /\ fuel \in Nat
  BY NextInv DEF IInv, TypeOK
<1>1. ASSUME NEW t \in Tabs, Submit(t) PROVE CalmInv'
  BY <1>0, <1>1, SubmitCheckCalm, CreateCalm, ApproveReadCalm, ApproveCalm DEF Submit
<1>2. CASE Operator
  <2>1. CASE \E b \in BOOLEAN : SetFreeze(b)
    BY <1>0, <2>1, SetFreezeCalm
  <2>2. CASE Edit
    BY <1>0, <2>2, EditCalm
  <2>3. ASSUME NEW id \in Existing, Delete(id) \/ Purge(id) PROVE CalmInv'
    <3>1. ~ Delete(id)
      BY CalmSpends DEF Delete
    <3> QED
      BY <1>0, <2>3, <3>1, PurgeCalm
  <2>4. ASSUME NEW g \in Gateways, NEW id \in Ids, Clear(g, id) PROVE FALSE
    BY <2>4, CalmSpends DEF Clear
  <2> QED
    BY <1>2, <2>1, <2>2, <2>3, <2>4 DEF Operator
<1>3. CASE Down
  BY <1>0, <1>3, DownCalm
<1>4. ASSUME NEW p \in posts, Lose(p) PROVE CalmInv'
  BY <1>0, <1>4, LoseCalm
<1>5. ASSUME NEW g \in Gateways, Handle(g) PROVE CalmInv'
  BY <1>0, <1>5, ResultCheckCalm, upsert_fleet_resultCalm, MarkReadCalm,
     set_fleet_statusCalm DEF Handle
<1>6. ASSUME NEW g \in Gateways, Poller(g) PROVE CalmInv'
  BY <1>0, <1>6, ReadFreezeCalm, ReadBusyCalm, ReadNextCalm, SyncCalm, LaunchCalm,
     PersistCalm, StampCalm DEF Poller
<1>7. ASSUME NEW g \in Gateways, PollerRestart(g) PROVE FALSE
  BY <1>7, CalmSpends DEF PollerRestart
<1>8. ASSUME NEW g \in Gateways, Reboot(g) PROVE CalmInv'
  BY <1>0, <1>8, RebootCalm
<1>9. ASSUME NEW g \in Gateways, NEW id \in Ids, Unit(g, id) PROVE CalmInv'
  BY <1>0, <1>9, PingCalm, PingedCalm, GuardCalm, ExecCalm, ReportCalm, ReportedCalm
  DEF Unit
<1>10. CASE UNCHANGED vars
  <2>1. DispatchInOrder'
    BY <1>10 DEF vars, CalmInv, DispatchInOrder, Existing
  <2> QED
    BY <1>0, <1>10, <2>1, QuietMoves DEF vars, CalmInv
<1> QED
  BY <1>1, <1>2, <1>3, <1>4, <1>5, <1>6, <1>7, <1>8, <1>9, <1>10 DEF Next

-----------------------------------------------------------------------------
(* The refinement of FleetQueue.                                            *)

Started == {p \in Gateways \X Ids : execs[p[1]][p[2]] > 0}
Running == {p \in Gateways \X Ids : unit[p[1]][p[2]] = "exec"}
QueueVars == <<dispatched, Started, Running>>

LEMMA QueueInit ==
  ASSUME Init
  PROVE  Queue!Init
<1>1. Started = {} /\ Running = {} /\ dispatched = {}
  BY DEF Init, Started, Running
<1> QED
  BY <1>1 DEF Queue!Init, Started, Running

\* Steps that begin, end and dispatch nothing.
LEMMA QueueStutters ==
  ASSUME UNCHANGED <<execs, dispatched>>,
         \A g \in Gateways, id \in Ids : unit'[g][id] = "exec" <=> unit[g][id] = "exec"
  PROVE  UNCHANGED QueueVars
<1>1. Started' = Started /\ dispatched' = dispatched
  BY DEF Started
<1>2. Running' = Running
  BY DEF Running
<1> QED
  BY <1>1, <1>2 DEF QueueVars

\* Of the commands of a gateway with a unit at work or a run behind them, the later
\* ones find the earlier ones closed, and what is closed is not at work.
LEMMA OneAtATime ==
  ASSUME IInv, CalmInv, NEW g \in Gateways, NEW id \in Ids, NEW other \in Ids,
         unit[g][id] \notin {"none", "reported"}
  PROVE  /\ execs[g][other] > 0 => other <= id
         /\ unit[g][other] = "exec" => other = id
<1>1. Offered(g, id) /\ <<g, id>> \in dispatched /\ ~ Closed(g, id)
  BY DEF Offered, IInv, UnitHolds, CalmInv, OpenWhileBusy
<1>2. ASSUME execs[g][other] > 0 \/ unit[g][other] = "exec" PROVE other <= id
  <2>1. Offered(g, other)
    BY <1>2 DEF Offered, Ran
  <2>2. ~ (id < other)
    BY <1>1, <2>1 DEF CalmInv, LaunchInOrder, InOrder
  <2> QED
    BY <2>2 DEF Ids
<1>3. ASSUME unit[g][other] = "exec" PROVE ~ (other < id)
  <2>1. ~ Closed(g, other) /\ <<g, other>> \in dispatched
    BY <1>3 DEF IInv, UnitHolds, CalmInv, OpenWhileBusy
  <2> QED
    BY <1>1, <2>1 DEF CalmInv, LaunchInOrder, InOrder
<1> QED
  BY <1>2, <1>3 DEF Ids

LEMMA ApproveDispatches ==
  ASSUME IInv, CalmInv, NEW t \in Tabs, Approve(t)
  PROVE  Queue!Next
<1> DEFINE id == disp[t].id
           targets == disp[t].targets
<1>1. /\ id \in Existing /\ id \in Ids /\ targets \in SUBSET Gateways
      /\ \A p \in dispatched : p[2] < id
  <2>1. TypeOK /\ disp[t] \in Handler /\ disp[t].stage = "write"
    BY DEF IInv, TypeOK, Approve
  <2>2. id \in Existing /\ \A p \in dispatched : p[2] < id
    BY <2>1 DEF CalmInv, DispatchInOrder
  <2> QED
    BY <2>1, <2>2, CommandsType DEF Existing, Handler
<1>2. dispatched' = dispatched \cup (targets \X {id}) /\ UNCHANGED <<execs, unit>>
  BY <1>1 DEF Approve
<1> HIDE DEF id, targets
<1>3. Started' = Started /\ Running' = Running
  BY <1>2 DEF Started, Running
<1>4. Queue!Dispatch(id, targets)
  BY <1>1, <1>2, <1>3 DEF Queue!Dispatch, Started, Running
<1> QED
  BY <1>1, <1>4 DEF Queue!Next

LEMMA GuardStarts ==
  ASSUME IInv, CalmInv, NEW g \in Gateways, NEW id \in Ids, Guard(g, id)
  PROVE  Queue!Next \/ UNCHANGED QueueVars
<1>0. TypeOK /\ {"exec", "failed"} \subseteq UnitPcs
  BY DEF IInv, TypeOK, UnitPcs, Final
<1>1. CASE Go(g, id, "guard", "failed") /\ UNCHANGED execs
  <2>1. \A h \in Gateways, j \in Ids : unit'[h][j] = "exec" <=> unit[h][j] = "exec"
    BY <1>0, <1>1, UnitMoves
  <2> QED
    BY <1>1, <2>1, QueueStutters DEF Guard
<1>2. CASE Go(g, id, "guard", "exec") /\ execs' = [execs EXCEPT ![g][id] = @ + 1]
  <2>1. /\ unit[g][id] = "guard"
        /\ \A h \in Gateways, j \in Ids :
             unit'[h][j] = IF h = g /\ j = id THEN "exec" ELSE unit[h][j]
    BY <1>0, <1>2, UnitMoves
  <2>2. /\ execs[g][id] = 0 /\ execs'[g][id] = 1
        /\ \A h \in Gateways, j \in Ids : (h # g \/ j # id) => execs'[h][j] = execs[h][j]
    BY <1>0, <1>2, <2>1 DEF TypeOK, CalmInv, OpenWhileBusy
  <2>3. Running' = Running \cup {<<g, id>>}
    BY <2>1 DEF Running
  <2>4. Started' = Started \cup {<<g, id>>}
    BY <2>2 DEF Started
  <2>5. \A p \in Started : p[1] = g => p[2] < id
    <3>1. ASSUME NEW p \in Started, p[1] = g PROVE p[2] < id
      <4>1. p[2] \in Ids /\ execs[g][p[2]] > 0
        BY <3>1 DEF Started
      <4>2. p[2] <= id /\ p[2] # id
        BY <2>1, <2>2, <4>1, OneAtATime
      <4> QED
        BY <4>1, <4>2 DEF Ids
    <3> QED
      BY <3>1
  <2>6. \A p \in Running : p[1] # g
    <3>1. ASSUME NEW p \in Running, p[1] = g PROVE FALSE
      <4>1. p[2] \in Ids /\ unit[g][p[2]] = "exec"
        BY <3>1 DEF Running
      <4>2. p[2] = id
        BY <2>1, <4>1, OneAtATime
      <4> QED
        BY <2>1, <4>1, <4>2
    <3> QED
      BY <3>1
  <2>7. <<g, id>> \in dispatched /\ dispatched' = dispatched
    BY <2>1 DEF IInv, UnitHolds, Guard
  <2>8. Queue!Start(g, id)
    BY <2>3, <2>4, <2>5, <2>6, <2>7 DEF Queue!Start, Started, Running
  <2> QED
    BY <2>7, <2>8 DEF Queue!Next
<1> QED
  BY <1>1, <1>2 DEF Guard

\* An execution that ends, or is cut off with its host.
LEMMA RunningEnds ==
  ASSUME NEW g \in Gateways, NEW id \in Ids, unit[g][id] = "exec",
         <<g, id>> \in dispatched, UNCHANGED <<execs, dispatched>>,
         \A h \in Gateways, j \in Ids :
           unit'[h][j] = "exec" <=> unit[h][j] = "exec" /\ (h # g \/ j # id)
  PROVE  Queue!Next
<1>1. Running' = Running \ {<<g, id>>} /\ <<g, id>> \in Running
  BY DEF Running
<1>2. Started' = Started /\ dispatched' = dispatched
  BY DEF Started
<1>3. Queue!Finish(g, id)
  BY <1>1, <1>2 DEF Queue!Finish, Started, Running
<1> QED
  BY <1>3 DEF Queue!Next

LEMMA ExecFinishes ==
  ASSUME IInv, NEW g \in Gateways, NEW id \in Ids, Exec(g, id)
  PROVE  Queue!Next
<1>0. TypeOK /\ Final \subseteq UnitPcs /\ "exec" \notin Final
  BY DEF IInv, UnitPcs, Final
<1>1. PICK to \in Final : Go(g, id, "exec", to)
  BY DEF Exec
<1>2. /\ unit[g][id] = "exec"
      /\ \A h \in Gateways, j \in Ids :
           unit'[h][j] = IF h = g /\ j = id THEN to ELSE unit[h][j]
  BY <1>0, <1>1, UnitMoves
<1>3. <<g, id>> \in dispatched
  BY <1>2 DEF IInv, UnitHolds
<1> QED
  BY <1>0, <1>2, <1>3, RunningEnds DEF Exec

LEMMA RebootFinishes ==
  ASSUME IInv, CalmInv, NEW g \in Gateways, Reboot(g)
  PROVE  Queue!Next \/ UNCHANGED QueueVars
<1>1. \A h \in Gateways, j \in Ids : unit'[h][j] = IF h = g THEN "none" ELSE unit[h][j]
  BY DEF IInv, TypeOK, Reboot
<1>2. UNCHANGED <<execs, dispatched>>
  BY DEF Reboot
<1>3. CASE \E id \in Ids : unit[g][id] = "exec"
  <2>1. PICK id \in Ids : unit[g][id] = "exec"
    BY <1>3
  <2>2. \A j \in Ids : unit[g][j] = "exec" => j = id
    BY <2>1, OneAtATime
  <2>3. <<g, id>> \in dispatched
    BY <2>1 DEF IInv, UnitHolds
  <2>4. ASSUME NEW h \in Gateways, NEW j \in Ids
        PROVE  unit'[h][j] = "exec" <=> unit[h][j] = "exec" /\ (h # g \/ j # id)
    BY <1>1, <2>2
  <2> QED
    BY <1>2, <2>1, <2>3, <2>4, RunningEnds
<1>4. CASE \A id \in Ids : unit[g][id] # "exec"
  <2>1. \A h \in Gateways, j \in Ids : unit'[h][j] = "exec" <=> unit[h][j] = "exec"
    BY <1>1, <1>4
  <2> QED
    BY <1>2, <2>1, QueueStutters
<1> QED
  BY <1>3, <1>4

LEMMA QueueStep ==
  ASSUME IInv, CalmOperation, CalmInv, [Next]_vars
  PROVE  Queue!Next \/ UNCHANGED QueueVars
<1>0. TypeOK
  BY DEF IInv
<1>1. ASSUME NEW t \in Tabs, Submit(t) PROVE Queue!Next \/ UNCHANGED QueueVars
  <2>1. CASE Approve(t)
    BY <2>1, ApproveDispatches
  <2>2. CASE (\E targets \in SUBSET Gateways : SubmitCheck(t, targets))
             \/ Create(t) \/ ApproveRead(t)
    <3>1. UNCHANGED <<execs, unit, dispatched>>
      BY <2>2 DEF SubmitCheck, Create, ApproveRead
    <3> QED
      BY <3>1, QueueStutters
  <2> QED
    BY <1>1, <2>1, <2>2 DEF Submit
<1>2. CASE Operator \/ Down \/ (\E p \in posts : Lose(p)) \/ UNCHANGED vars
           \/ (\E g \in Gateways : Handle(g) \/ PollerRestart(g))
  <2>1. Operator => UNCHANGED <<execs, unit, dispatched>>
    BY DEF Operator, SetFreeze, Edit, Delete, Purge, Clear
  <2>2. (\E g \in Gateways : Handle(g)) => UNCHANGED <<execs, unit, dispatched>>
    BY DEF Handle, ResultCheck, upsert_fleet_result, MarkRead, set_fleet_status
  <2>3. UNCHANGED <<execs, unit, dispatched>>
    BY <1>2, <2>1, <2>2 DEF Down, Lose, PollerRestart, vars
  <2> QED
    BY <2>3, QueueStutters
<1>3. ASSUME NEW g \in Gateways, Poller(g) PROVE UNCHANGED QueueVars
  <2>1. CASE Launch(g)
    <3>1. UNCHANGED unit \/ (/\ unit[g][body[g].cmd] = "none"
                             /\ unit' = [unit EXCEPT ![g][body[g].cmd] = "ping"])
      BY <2>1 DEF Launch
    <3>2. ASSUME NEW c, unit[g][c] = "none", unit' = [unit EXCEPT ![g][c] = "ping"],
                 NEW h \in Gateways, NEW j \in Ids
          PROVE  unit'[h][j] = "exec" <=> unit[h][j] = "exec"
      <4>1. unit'[h][j] = IF h = g /\ j = c THEN "ping" ELSE unit[h][j]
        BY <1>0, <3>2 DEF TypeOK
      <4> QED
        BY <3>2, <4>1
    <3>3. \A h \in Gateways, j \in Ids : unit'[h][j] = "exec" <=> unit[h][j] = "exec"
      BY <3>1, <3>2
    <3> QED
      BY <2>1, <3>3, QueueStutters DEF Launch
  <2>2. CASE ReadFreeze(g) \/ ReadBusy(g) \/ ReadNext(g) \/ Sync(g) \/ Persist(g) \/ Stamp(g)
    <3>1. UNCHANGED <<execs, unit, dispatched>>
      BY <2>2 DEF ReadFreeze, ReadBusy, ReadNext, Sync, Persist, Stamp
    <3> QED
      BY <3>1, QueueStutters
  <2> QED
    BY <1>3, <2>1, <2>2 DEF Poller
<1>4. ASSUME NEW g \in Gateways, NEW id \in Ids, Unit(g, id)
      PROVE  Queue!Next \/ UNCHANGED QueueVars
  <2>1. CASE Guard(g, id)
    BY <2>1, GuardStarts
  <2>2. CASE Exec(g, id)
    BY <2>2, ExecFinishes
  <2>3. CASE Ping(g, id) \/ Pinged(g, id) \/ Report(g, id) \/ Reported(g, id)
    <3>1. PICK from \in UnitPcs \ {"exec"}, to \in UnitPcs \ {"exec"} : Go(g, id, from, to)
      BY <2>3 DEF Ping, Pinged, Report, Reported, UnitPcs, Final
    <3>2. \A h \in Gateways, j \in Ids : unit'[h][j] = "exec" <=> unit[h][j] = "exec"
      BY <1>0, <3>1, UnitMoves
    <3> QED
      BY <2>3, <3>2, QueueStutters DEF Ping, Pinged, Report, Reported
  <2> QED
    BY <1>4, <2>1, <2>2, <2>3 DEF Unit
<1>5. ASSUME NEW g \in Gateways, Reboot(g) PROVE Queue!Next \/ UNCHANGED QueueVars
  BY <1>5, RebootFinishes
<1> QED
  BY <1>1, <1>2, <1>3, <1>4, <1>5 DEF Next

-----------------------------------------------------------------------------
(* The theorems of the queue.                                               *)

\* The inductive invariant, and in calm operation the order of dispatches, reports
\* and launches that execution one at a time rests on.
THEOREM QueueInvariance == Spec => []QueueInv
<1>1. Init => QueueInv
  BY InitInv, InitCalm DEF QueueInv
<1>2. QueueInv /\ [Next]_vars => QueueInv'
  <2>1. ASSUME QueueInv, [Next]_vars PROVE QueueInv'
    <3>1. IInv'
      BY <2>1, NextInv DEF QueueInv
    <3>2. CalmOperation' <=> CalmOperation
      BY DEF CalmOperation
    <3>3. CalmOperation => CalmInv'
      BY <2>1, NextCalm DEF QueueInv
    <3> QED
      BY <3>1, <3>2, <3>3 DEF QueueInv
  <2> QED
    BY <2>1
<1> QED
  BY <1>1, <1>2, PTL DEF Spec

\* Commands execute one at a time per gateway, in dispatch order and each at most
\* once (get_injectable_fleet_cmd, the last id of the poller, the systemd unit), for
\* any gateways, commands and number of faults, lost reports, failed launches,
\* freezes, purges, restarts of the dashboard or reboots of hosts, in calm operation.
THEOREM Refinement ==
  ASSUME CalmOperation
  PROVE  Spec => ImplementsQueue
<1>1. Init => Queue!Init
  BY QueueInit
<1>2. QueueInv /\ [Next]_vars
        => [Queue!Next]_<<dispatched,
                          {p \in Gateways \X Ids : execs[p[1]][p[2]] > 0},
                          {p \in Gateways \X Ids : unit[p[1]][p[2]] = "exec"}>>
  BY QueueStep DEF QueueInv, QueueVars, Started, Running
<1> QED
  BY <1>1, <1>2, QueueInvariance, PTL DEF Spec, ImplementsQueue, Queue!Spec
=============================================================================
