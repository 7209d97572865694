------------------------ MODULE JitLifecycleProofs ------------------------
(***************************************************************************)
(* Safety of JitLifecycle for any set of hosts, commands and sessions, any *)
(* time limits and any budget of operator actions and faults.              *)
(***************************************************************************)
EXTENDS JitLifecycle, SequenceTheorems, TLAPS

USE ConstantsAssumption DEF ConstantsAssumption, dashVars, fileVars, pollVars, invVars, history

-----------------------------------------------------------------------------
(* Facts used for several actions.                                         *)

LEMMA SpendType ==
  ASSUME TypeOK, NEW kind, Spend(kind)
  PROVE  fuel' \in Nat
  BY DEF TypeOK, Spend

LEMMA TableType ==
  ASSUME TypeOK
  PROVE  /\ Len(requests) \in Nat
         /\ DOMAIN requests = 1..Len(requests)
         /\ \A r \in DOMAIN requests : requests[r] \in Row \cup {NoRow}
<1> QED
  BY LenProperties, ElementOfSeq DEF TypeOK

\* The step leaves the table's ids alone, brings no deleted row back and gives
\* no row to another request.
KeepsRows ==
  /\ DOMAIN requests' = DOMAIN requests
  /\ \A r \in DOMAIN requests :
       requests'[r] # NoRow =>
         /\ requests[r] # NoRow
         /\ requests'[r].gw = requests[r].gw
         /\ requests'[r].cmd = requests[r].cmd
         /\ requests'[r].created = requests[r].created

LEMMA UpdateRow ==
  ASSUME TypeOK, NEW r \in DOMAIN requests, NEW status \in Status,
         update_request_status(r, status)
  PROVE  /\ requests' \in Seq(Row \cup {NoRow})
         /\ KeepsRows
         /\ \A q \in DOMAIN requests :
              q # r => requests'[q] = requests[q]
         /\ requests'[r] # NoRow => requests'[r].status = status
<1> DEFINE row == IF requests[r] = NoRow THEN NoRow
                  ELSE [requests[r] EXCEPT !.status = status]
<1>1. /\ requests \in Seq(Row \cup {NoRow})
      /\ r \in 1..Len(requests)
      /\ requests[r] \in Row \cup {NoRow}
  BY TableType DEF TypeOK
<1>2. row \in Row \cup {NoRow}
  BY <1>1 DEF Row
<1>3. requests' = [requests EXCEPT ![r] = row]
  BY DEF update_request_status
<1>4. /\ requests' \in Seq(Row \cup {NoRow})
      /\ Len(requests') = Len(requests)
      /\ \A q \in 1..Len(requests) :
           requests'[q] = IF q = r THEN row ELSE requests[q]
  BY <1>1, <1>2, <1>3, ExceptSeq
<1>5. DOMAIN requests' = DOMAIN requests /\ DOMAIN requests = 1..Len(requests)
  BY <1>1, <1>3, TableType
<1>6. row # NoRow => /\ requests[r] # NoRow
                     /\ row.gw = requests[r].gw
                     /\ row.cmd = requests[r].cmd
                     /\ row.created = requests[r].created
                     /\ row.status = status
  BY <1>1 DEF Row
<1> QED
  BY <1>4, <1>5, <1>6 DEF KeepsRows

LEMMA ConsumeRow ==
  ASSUME TypeOK, NEW r \in DOMAIN requests, NEW time \in Nat,
         consume(r, time)
  PROVE  /\ requests' \in Seq(Row \cup {NoRow})
         /\ KeepsRows
         /\ \A q \in DOMAIN requests :
              q # r => requests'[q] = requests[q]
<1> DEFINE row == IF requests[r] = NoRow THEN NoRow
                  ELSE [requests[r] EXCEPT !.status = "consumed", !.expires = time]
<1>1. /\ requests \in Seq(Row \cup {NoRow})
      /\ r \in 1..Len(requests)
      /\ requests[r] \in Row \cup {NoRow}
      /\ now \in Nat
  BY TableType DEF TypeOK
<1>2. row \in Row \cup {NoRow}
  BY <1>1 DEF Row, Status
<1>3. requests' = [requests EXCEPT ![r] = row]
  BY DEF consume
<1>4. /\ requests' \in Seq(Row \cup {NoRow})
      /\ Len(requests') = Len(requests)
      /\ \A q \in 1..Len(requests) :
           requests'[q] = IF q = r THEN row ELSE requests[q]
  BY <1>1, <1>2, <1>3, ExceptSeq
<1>5. DOMAIN requests' = DOMAIN requests /\ DOMAIN requests = 1..Len(requests)
  BY <1>1, <1>3, TableType
<1>6. row # NoRow => /\ requests[r] # NoRow
                     /\ row.gw = requests[r].gw
                     /\ row.cmd = requests[r].cmd
                     /\ row.created = requests[r].created
  BY <1>1 DEF Row
<1> QED
  BY <1>4, <1>5, <1>6 DEF KeepsRows

LEMMA InsertRow ==
  ASSUME TypeOK, NEW g \in Gateways, NEW c \in Commands, NEW s \in Status,
         NEW ttl \in Nat, create_request(g, c, s, ttl)
  PROVE  /\ requests' \in Seq(Row \cup {NoRow})
         /\ DOMAIN requests' = DOMAIN requests \cup {Len(requests) + 1}
         /\ Len(requests) + 1 \notin DOMAIN requests
         /\ \A q \in DOMAIN requests : requests'[q] = requests[q]
         /\ requests'[Len(requests) + 1] =
              [gw |-> g, cmd |-> c, status |-> s, created |-> now, expires |-> now + ttl]
<1> DEFINE row == [gw |-> g, cmd |-> c, status |-> s,
                   created |-> now, expires |-> now + ttl]
           T == Row \cup {NoRow}
<1>1. requests \in Seq(T) /\ now \in Nat
  BY DEF TypeOK
<1>2. row \in T
  BY <1>1 DEF Row
<1>3. requests' = Append(requests, row)
  BY DEF create_request
<1> HIDE DEF row, T
<1>4. /\ requests' \in Seq(T)
      /\ Len(requests') = Len(requests) + 1
      /\ \A q \in 1..Len(requests) : requests'[q] = requests[q]
      /\ requests'[Len(requests) + 1] = row
  BY <1>1, <1>2, <1>3, AppendProperties
<1>5. /\ DOMAIN requests' = 1..Len(requests')
      /\ DOMAIN requests = 1..Len(requests)
      /\ Len(requests) \in Nat
  BY <1>1, <1>4, LenProperties
<1> USE DEF row, T
<1> QED
  BY <1>4, <1>5

LEMMA TickStep ==
  ASSUME GrantsAgree, Tick
  PROVE  GrantsAgree'
<1>1. TypeOK'
    BY DEF GrantsAgree, TypeOK, Tick
<1>2. RowsGranted'
    BY DEF GrantsAgree, RowsGranted, Rows, GrantOf, Tick
<1>3. GrantsMatchRows'
    BY DEF GrantsAgree, GrantsMatchRows, GrantOf, Tick
<1>4. TicketsBacked'
    BY DEF GrantsAgree, TicketsBacked, Backed, Tick
<1>5. OwnRequest'
    BY DEF GrantsAgree, OwnRequest, Tick
<1>6. InHand'
    BY DEF GrantsAgree, InHand, CmdGranted, Tick
<1>7. RunsGranted'
    BY DEF GrantsAgree, RunsGranted, CmdGranted, Tick
<1> QED
  BY <1>1, <1>2, <1>3, <1>4, <1>5, <1>6, <1>7 DEF GrantsAgree

LEMMA expire_stale_requestsStep ==
  ASSUME GrantsAgree, expire_stale_requests
  PROVE  GrantsAgree'
<1>1. TypeOK'
<2>1. requests' \in Seq(Row \cup {NoRow})
  <3> DEFINE T == Row \cup {NoRow}
             f == [r \in DOMAIN requests |-> Swept(requests[r])]
  <3>1. /\ Len(requests) \in Nat
        /\ DOMAIN requests = 1..Len(requests)
        /\ \A r \in DOMAIN requests : requests[r] \in T
    BY TableType DEF GrantsAgree
  <3>2. \A row \in T : Swept(row) \in T
    BY DEF Swept, Row, Status
  <3>3. f \in [1..Len(requests) -> T]
    BY <3>1, <3>2
  <3>4. f \in Seq(T)
    BY <3>1, <3>3, SeqDef
  <3> QED
    BY <3>4 DEF expire_stale_requests
<2> QED
  BY <2>1 DEF GrantsAgree, TypeOK, expire_stale_requests
<1>2. RowsGranted'
    BY DEF GrantsAgree, RowsGranted, Rows, GrantOf, expire_stale_requests, Swept
<1>3. GrantsMatchRows'
    BY DEF GrantsAgree, GrantsMatchRows, GrantOf, expire_stale_requests, Swept,
     Rows
<1>4. TicketsBacked'
    BY DEF GrantsAgree, TicketsBacked, Backed, expire_stale_requests, Swept, Rows
<1>5. OwnRequest'
    BY DEF GrantsAgree, OwnRequest, expire_stale_requests, Swept, Rows
<1>6. InHand'
    BY DEF GrantsAgree, InHand, CmdGranted, expire_stale_requests, Swept, Rows
<1>7. RunsGranted'
    BY DEF GrantsAgree, RunsGranted, CmdGranted, expire_stale_requests, Swept, Rows
<1> QED
  BY <1>1, <1>2, <1>3, <1>4, <1>5, <1>6, <1>7 DEF GrantsAgree

LEMMA ApproveStep ==
  ASSUME GrantsAgree, NEW r \in Rows, Approve(r)
  PROVE  GrantsAgree'
<1>1. TypeOK'
<2>1. requests' \in Seq(Row \cup {NoRow})
  BY UpdateRow DEF GrantsAgree, Approve, Rows, Status
<2>2. GrantOf(r) \in Grant
  BY TableType, LenProperties DEF GrantsAgree, TypeOK, Rows, GrantOf, Grant, Row
<2>3. reopened' \in SUBSET Nat
  <3>1. r \in Nat /\ reopened \in SUBSET Nat
    BY TableType DEF GrantsAgree, TypeOK, Rows
  <3>2. reopened' = reopened \/ reopened' = reopened \cup {r}
    BY DEF Approve
  <3> QED
    BY <3>1, <3>2
<2> QED
  BY <2>1, <2>2, <2>3, SpendType DEF GrantsAgree, TypeOK, Approve
<1>2. RowsGranted'
    BY DEF GrantsAgree, RowsGranted, Rows, GrantOf, Approve, Spend,
     update_request_status
<1>3. GrantsMatchRows'
    BY DEF GrantsAgree, GrantsMatchRows, GrantOf, Approve, Spend,
     update_request_status, Rows
<1>4. TicketsBacked'
    BY DEF GrantsAgree, TicketsBacked, Backed, Approve, Spend,
     update_request_status, GrantOf, Rows
<1>5. OwnRequest'
    BY DEF GrantsAgree, OwnRequest, Approve, Spend, update_request_status, GrantOf,
     Rows
<1>6. InHand'
    BY DEF GrantsAgree, InHand, CmdGranted, Approve, Spend, update_request_status,
     GrantOf, Rows
<1>7. RunsGranted'
    BY DEF GrantsAgree, RunsGranted, CmdGranted, Approve, Spend, update_request_status,
     GrantOf, Rows
<1> QED
  BY <1>1, <1>2, <1>3, <1>4, <1>5, <1>6, <1>7 DEF GrantsAgree

LEMMA DenyStep ==
  ASSUME GrantsAgree, NEW r \in Rows, Deny(r)
  PROVE  GrantsAgree'
<1>1. TypeOK'
<2>1. requests' \in Seq(Row \cup {NoRow})
  BY UpdateRow DEF GrantsAgree, Deny, Rows, Status
<2> QED
  BY <2>1, SpendType DEF GrantsAgree, TypeOK, Deny
<1>2. RowsGranted'
    BY DEF GrantsAgree, RowsGranted, Rows, GrantOf, Deny, Spend,
     update_request_status
<1>3. GrantsMatchRows'
    BY DEF GrantsAgree, GrantsMatchRows, GrantOf, Deny, Spend,
     update_request_status, Rows
<1>4. TicketsBacked'
    BY DEF GrantsAgree, TicketsBacked, Backed, Deny, Spend, update_request_status,
     Rows
<1>5. OwnRequest'
    BY DEF GrantsAgree, OwnRequest, Deny, Spend, update_request_status, Rows
<1>6. InHand'
    BY DEF GrantsAgree, InHand, CmdGranted, Deny, Spend, update_request_status,
     Rows
<1>7. RunsGranted'
    BY DEF GrantsAgree, RunsGranted, CmdGranted, Deny, Spend, update_request_status, Rows
<1> QED
  BY <1>1, <1>2, <1>3, <1>4, <1>5, <1>6, <1>7 DEF GrantsAgree

LEMMA PurgeStep ==
  ASSUME GrantsAgree, NEW before \in 0..now, Purge(before)
  PROVE  GrantsAgree'
<1>1. TypeOK'
<2>1. requests' \in Seq(Row \cup {NoRow})
  <3> DEFINE T == Row \cup {NoRow}
             f == [r \in DOMAIN requests |->
                     IF requests[r] # NoRow /\ requests[r].created < before
                     THEN NoRow ELSE requests[r]]
  <3>1. /\ Len(requests) \in Nat
        /\ DOMAIN requests = 1..Len(requests)
        /\ \A r \in DOMAIN requests : requests[r] \in T
    BY TableType DEF GrantsAgree
  <3>2. f \in [1..Len(requests) -> T]
    BY <3>1
  <3>3. f \in Seq(T)
    BY <3>1, <3>2, SeqDef
  <3> QED
    BY <3>3 DEF Purge
<2> QED
  BY <2>1, SpendType DEF GrantsAgree, TypeOK, Purge
<1>2. RowsGranted'
    BY DEF GrantsAgree, RowsGranted, Rows, GrantOf, Purge, Spend
<1>3. GrantsMatchRows'
    BY DEF GrantsAgree, GrantsMatchRows, GrantOf, Purge, Spend
<1>4. TicketsBacked'
    BY DEF GrantsAgree, TicketsBacked, Backed, Purge, Spend
<1>5. OwnRequest'
    BY DEF GrantsAgree, OwnRequest, Purge, Spend
<1>6. InHand'
    BY DEF GrantsAgree, InHand, CmdGranted, Purge, Spend
<1>7. RunsGranted'
    BY DEF GrantsAgree, RunsGranted, CmdGranted, Purge, Spend
<1> QED
  BY <1>1, <1>2, <1>3, <1>4, <1>5, <1>6, <1>7 DEF GrantsAgree

LEMMA SetFreezeStep ==
  ASSUME GrantsAgree, NEW b \in BOOLEAN, SetFreeze(b)
  PROVE  GrantsAgree'
<1>1. TypeOK'
    BY SpendType DEF GrantsAgree, TypeOK, SetFreeze
<1>2. RowsGranted'
    BY DEF GrantsAgree, RowsGranted, Rows, GrantOf, SetFreeze, Spend
<1>3. GrantsMatchRows'
    BY DEF GrantsAgree, GrantsMatchRows, GrantOf, SetFreeze, Spend
<1>4. TicketsBacked'
    BY DEF GrantsAgree, TicketsBacked, Backed, SetFreeze, Spend
<1>5. OwnRequest'
    BY DEF GrantsAgree, OwnRequest, SetFreeze, Spend
<1>6. InHand'
    BY DEF GrantsAgree, InHand, CmdGranted, SetFreeze, Spend
<1>7. RunsGranted'
    BY DEF GrantsAgree, RunsGranted, CmdGranted, SetFreeze, Spend
<1> QED
  BY <1>1, <1>2, <1>3, <1>4, <1>5, <1>6, <1>7 DEF GrantsAgree

LEMMA SetOverrideStep ==
  ASSUME GrantsAgree, NEW g \in Gateways, NEW b \in BOOLEAN, SetOverride(g, b)
  PROVE  GrantsAgree'
<1>1. TypeOK'
    BY SpendType DEF GrantsAgree, TypeOK, SetOverride
<1>2. RowsGranted'
    BY DEF GrantsAgree, RowsGranted, Rows, GrantOf, SetOverride, Spend
<1>3. GrantsMatchRows'
    BY DEF GrantsAgree, GrantsMatchRows, GrantOf, SetOverride, Spend
<1>4. TicketsBacked'
    BY DEF GrantsAgree, TicketsBacked, Backed, SetOverride, Spend
<1>5. OwnRequest'
    BY DEF GrantsAgree, OwnRequest, SetOverride, Spend
<1>6. InHand'
    BY DEF GrantsAgree, InHand, CmdGranted, SetOverride, Spend
<1>7. RunsGranted'
    BY DEF GrantsAgree, RunsGranted, CmdGranted, SetOverride, Spend
<1> QED
  BY <1>1, <1>2, <1>3, <1>4, <1>5, <1>6, <1>7 DEF GrantsAgree

LEMMA LogRowStep ==
  ASSUME GrantsAgree, NEW g \in Gateways, NEW c \in Commands, LogRow(g, c)
  PROVE  GrantsAgree'
<1>1. TypeOK'
<2>1. requests' \in Seq(Row \cup {NoRow})
  BY InsertRow DEF GrantsAgree, LogRow, Status
<2> QED
  BY <2>1, SpendType DEF GrantsAgree, TypeOK, LogRow
<1>2. RowsGranted'
    BY DEF GrantsAgree, RowsGranted, Rows, GrantOf, LogRow, Spend, create_request
<1>3. GrantsMatchRows'
    BY DEF GrantsAgree, GrantsMatchRows, GrantOf, LogRow, Spend, create_request
<1>4. TicketsBacked'
    BY DEF GrantsAgree, TicketsBacked, Backed, LogRow, Spend, create_request
<1>5. OwnRequest'
    BY DEF GrantsAgree, OwnRequest, LogRow, Spend, create_request
<1>6. InHand'
    BY DEF GrantsAgree, InHand, CmdGranted, LogRow, Spend, create_request
<1>7. RunsGranted'
    BY DEF GrantsAgree, RunsGranted, CmdGranted, LogRow, Spend, create_request
<1> QED
  BY <1>1, <1>2, <1>3, <1>4, <1>5, <1>6, <1>7 DEF GrantsAgree

LEMMA CleanLockboxStep ==
  ASSUME GrantsAgree, NEW g \in Gateways, CleanLockbox(g)
  PROVE  GrantsAgree'
<1>1. TypeOK'
    BY DEF GrantsAgree, TypeOK, File, PollPcs, Line, CleanLockbox, At
<1>2. RowsGranted'
    BY DEF GrantsAgree, RowsGranted, Rows, GrantOf, CleanLockbox, At
<1>3. GrantsMatchRows'
    BY DEF GrantsAgree, GrantsMatchRows, GrantOf, CleanLockbox, At
<1>4. TicketsBacked'
    BY DEF GrantsAgree, TicketsBacked, Backed, TypeOK, LinesOf, CleanLockbox, At
<1>5. OwnRequest'
    BY DEF GrantsAgree, OwnRequest, TypeOK, CleanLockbox, At
<1>6. InHand'
    BY DEF GrantsAgree, InHand, CmdGranted, TypeOK, CleanLockbox, At
<1>7. RunsGranted'
    BY DEF GrantsAgree, RunsGranted, CmdGranted, TypeOK, CleanLockbox, At
<1> QED
  BY <1>1, <1>2, <1>3, <1>4, <1>5, <1>6, <1>7 DEF GrantsAgree

LEMMA NothingToCleanStep ==
  ASSUME GrantsAgree, NEW g \in Gateways, NothingToClean(g)
  PROVE  GrantsAgree'
<1>1. TypeOK'
    BY DEF GrantsAgree, TypeOK, PollPcs, NothingToClean, At
<1>2. RowsGranted'
    BY DEF GrantsAgree, RowsGranted, Rows, GrantOf, NothingToClean, At
<1>3. GrantsMatchRows'
    BY DEF GrantsAgree, GrantsMatchRows, GrantOf, NothingToClean, At
<1>4. TicketsBacked'
    BY DEF GrantsAgree, TicketsBacked, Backed, TypeOK, LinesOf, NothingToClean, At
<1>5. OwnRequest'
    BY DEF GrantsAgree, OwnRequest, TypeOK, NothingToClean, At
<1>6. InHand'
    BY DEF GrantsAgree, InHand, CmdGranted, TypeOK, NothingToClean, At
<1>7. RunsGranted'
    BY DEF GrantsAgree, RunsGranted, CmdGranted, TypeOK, NothingToClean, At
<1> QED
  BY <1>1, <1>2, <1>3, <1>4, <1>5, <1>6, <1>7 DEF GrantsAgree

LEMMA MoveCleanStep ==
  ASSUME GrantsAgree, NEW g \in Gateways, MoveClean(g)
  PROVE  GrantsAgree'
<1>1. TypeOK'
    BY DEF GrantsAgree, TypeOK, PollPcs, File, Line, MoveClean, At, MoveTmp
<1>2. RowsGranted'
    BY DEF GrantsAgree, RowsGranted, Rows, GrantOf, MoveClean, At, MoveTmp
<1>3. GrantsMatchRows'
    BY DEF GrantsAgree, GrantsMatchRows, GrantOf, MoveClean, At, MoveTmp
<1>4. TicketsBacked'
    BY DEF GrantsAgree, TicketsBacked, Backed, TypeOK, LinesOf, MoveClean, At,
     MoveTmp
<1>5. OwnRequest'
    BY DEF GrantsAgree, OwnRequest, TypeOK, MoveClean, At, MoveTmp
<1>6. InHand'
    BY DEF GrantsAgree, InHand, CmdGranted, TypeOK, MoveClean, At, MoveTmp
<1>7. RunsGranted'
    BY DEF GrantsAgree, RunsGranted, CmdGranted, TypeOK, MoveClean, At, MoveTmp
<1> QED
  BY <1>1, <1>2, <1>3, <1>4, <1>5, <1>6, <1>7 DEF GrantsAgree

LEMMA SyncPolicyStep ==
  ASSUME GrantsAgree, NEW g \in Gateways, SyncPolicy(g)
  PROVE  GrantsAgree'
<1>1. TypeOK'
    BY SpendType, ZenonT(40) DEF GrantsAgree, TypeOK, PollPcs, SyncPolicy, At
<1>2. RowsGranted'
    BY DEF GrantsAgree, RowsGranted, Rows, GrantOf, SyncPolicy, At, Spend
<1>3. GrantsMatchRows'
    BY DEF GrantsAgree, GrantsMatchRows, GrantOf, SyncPolicy, At, Spend
<1>4. TicketsBacked'
    BY DEF GrantsAgree, TicketsBacked, Backed, TypeOK, SyncPolicy, At, Spend
<1>5. OwnRequest'
    BY DEF GrantsAgree, OwnRequest, TypeOK, SyncPolicy, At, Spend
<1>6. InHand'
    BY DEF GrantsAgree, InHand, CmdGranted, TypeOK, SyncPolicy, At, Spend
<1>7. RunsGranted'
    BY DEF GrantsAgree, RunsGranted, CmdGranted, TypeOK, SyncPolicy, At, Spend
<1> QED
  BY <1>1, <1>2, <1>3, <1>4, <1>5, <1>6, <1>7 DEF GrantsAgree

LEMMA RowTicket ==
  ASSUME GrantsAgree, NEW r \in Rows, requests[r].status \in {"approved", "consumed"}
  PROVE  /\ TicketOf(r) \in Ticket
         /\ TicketOf(r) # NoTicket
         /\ Backed(requests[r].gw, TicketOf(r))
<1>1. /\ r \in Nat
      /\ now \in Nat
      /\ requests[r] \in Row
  BY TableType DEF GrantsAgree, TypeOK, Rows
<1>2. TicketOf(r) \in Ticket
  BY <1>1 DEF TicketOf, Ticket, Row
<1>3. GrantOf(r) \in granted
  BY DEF GrantsAgree, RowsGranted
<1> QED
  BY <1>2, <1>3 DEF Ticket, TicketOf, GrantOf, Backed

LEMMA PollSelectStep ==
  ASSUME GrantsAgree, NEW g \in Gateways, PollSelect(g)
  PROVE  GrantsAgree'
<1>0. \/ carry' = carry /\ pollPc' = [pollPc EXCEPT ![g] = "clean"]
      \/ \E r \in Rows :
           /\ TicketOf(r) \in Ticket
           /\ TicketOf(r) # NoTicket
           /\ Backed(g, TicketOf(r))
           /\ carry' = [carry EXCEPT ![g] = TicketOf(r)]
           /\ pollPc' = [pollPc EXCEPT ![g] = "consume"]
  BY RowTicket DEF PollSelect, Claimable, At
<1>1. TypeOK'
<2>1. carry' \in [Gateways -> Ticket \cup {NoTicket}]
  BY <1>0 DEF GrantsAgree, TypeOK
<2>2. pollPc' \in [Gateways -> PollPcs]
  BY <1>0 DEF GrantsAgree, TypeOK, PollPcs
<2> QED
  BY <2>1, <2>2 DEF GrantsAgree, TypeOK, PollSelect
<1>2. RowsGranted'
    BY DEF GrantsAgree, RowsGranted, Rows, GrantOf, PollSelect, At, Claimable,
     TicketOf
<1>3. GrantsMatchRows'
    BY DEF GrantsAgree, GrantsMatchRows, GrantOf, PollSelect, At, Claimable,
     TicketOf, Rows
<1>4. TicketsBacked'
  BY <1>0, ZenonT(40) DEF GrantsAgree, TicketsBacked, Backed, PollSelect, TypeOK
<1>5. OwnRequest'
    BY DEF GrantsAgree, OwnRequest, TypeOK, PollSelect, At, Claimable, TicketOf,
     GrantOf, Rows
<1>6. InHand'
  BY <1>0 DEF GrantsAgree, InHand, CmdGranted, PollSelect, TypeOK
<1>7. RunsGranted'
    BY DEF GrantsAgree, RunsGranted, CmdGranted, TypeOK, PollSelect, At, Claimable, TicketOf,
     GrantOf, Rows
<1> QED
  BY <1>1, <1>2, <1>3, <1>4, <1>5, <1>6, <1>7 DEF GrantsAgree

\* The row of a backed ticket is a granted one, if it still exists.
LEMMA BackedRow ==
  ASSUME GrantsAgree, NEW g \in Gateways, NEW t, Backed(g, t)
  PROVE  /\ t.req \in DOMAIN requests
         /\ requests[t.req] # NoRow => GrantOf(t.req) \in granted
  BY DEF GrantsAgree, GrantsMatchRows, Backed

LEMMA ConsumeGranted ==
  ASSUME GrantsAgree, NEW r \in DOMAIN requests, NEW time \in Nat, consume(r, time),
         granted' = granted,
         requests[r] # NoRow => GrantOf(r) \in granted
  PROVE  RowsGranted'
<1> SUFFICES ASSUME NEW q \in Rows',
                    requests'[q].status \in {"approved", "consumed", "abandoned"}
             PROVE  GrantOf(q)' \in granted
  BY DEF RowsGranted
<1>1. q \in Rows /\ GrantOf(q)' = GrantOf(q)
  BY ConsumeRow DEF GrantsAgree, KeepsRows, Rows, GrantOf
<1>2. CASE q = r
  BY <1>1, <1>2 DEF Rows
<1>3. CASE q # r
  BY <1>1, <1>3, ConsumeRow DEF GrantsAgree, RowsGranted, Rows
<1> QED
  BY <1>2, <1>3

LEMMA PollConsumeStep ==
  ASSUME GrantsAgree, NEW g \in Gateways, PollConsume(g)
  PROVE  GrantsAgree'
<1>0. /\ carry[g] # NoTicket
      /\ carry[g].at \in Nat
      /\ carry[g].req \in DOMAIN requests
      /\ requests[carry[g].req] # NoRow => GrantOf(carry[g].req) \in granted
  BY BackedRow DEF GrantsAgree, TypeOK, Ticket, PollConsume, At, InHand, TicketsBacked
<1>1. TypeOK'
  BY <1>0, ConsumeRow DEF GrantsAgree, TypeOK, PollPcs, PollConsume, At
<1>2. RowsGranted'
  BY <1>0, ConsumeGranted DEF GrantsAgree, PollConsume
<1>3. GrantsMatchRows'
    BY DEF GrantsAgree, GrantsMatchRows, GrantOf, PollConsume, At, consume
<1>4. TicketsBacked'
    BY DEF GrantsAgree, TicketsBacked, Backed, TypeOK, PollConsume, At, consume
<1>5. OwnRequest'
    BY DEF GrantsAgree, OwnRequest, TypeOK, PollConsume, At, consume
<1>6. InHand'
    BY DEF GrantsAgree, InHand, CmdGranted, TypeOK, PollConsume, At, consume
<1>7. RunsGranted'
    BY DEF GrantsAgree, RunsGranted, CmdGranted, TypeOK, PollConsume, At, consume
<1> QED
  BY <1>1, <1>2, <1>3, <1>4, <1>5, <1>6, <1>7 DEF GrantsAgree

LEMMA PollDepositStep ==
  ASSUME GrantsAgree, NEW g \in Gateways, PollDeposit(g)
  PROVE  GrantsAgree'
<1>0. /\ carry[g] \in Ticket
      /\ Backed(g, carry[g])
  BY DEF GrantsAgree, TypeOK, PollDeposit, At, InHand, TicketsBacked
<1>1. TypeOK'
<2> DEFINE line == [no |-> lineNo, req |-> carry[g].req, ts |-> carry[g].ts,
                    cmd |-> carry[g].cmd]
           new == IF lockbox[g] = NoFile THEN {line} ELSE lockbox[g] \cup {line}
<2>1. line \in Line
  BY <1>0 DEF Ticket, Line, GrantsAgree, TypeOK
<2>2. new \in File
  BY <2>1 DEF GrantsAgree, TypeOK, File
<2>3. lockbox' = lockbox \/ lockbox' = [lockbox EXCEPT ![g] = new]
  BY DEF PollDeposit
<2>4. lockbox' \in [Gateways -> File]
  BY <2>2, <2>3 DEF GrantsAgree, TypeOK
<2>5. fuel' \in Nat
  BY SpendType DEF GrantsAgree, TypeOK, PollDeposit
<2>6. lineNo' \in Nat
  BY DEF GrantsAgree, TypeOK, PollDeposit
<2> QED
  BY <2>4, <2>5, <2>6 DEF GrantsAgree, TypeOK, PollPcs, PollDeposit, At
<1>2. RowsGranted'
    BY DEF GrantsAgree, RowsGranted, Rows, GrantOf, PollDeposit, At, Spend
<1>3. GrantsMatchRows'
    BY DEF GrantsAgree, GrantsMatchRows, GrantOf, PollDeposit, At, Spend
<1>4. TicketsBacked'
<2>1. \A h \in Gateways : \A l \in LinesOf(lockbox'[h]) :
        \/ l \in LinesOf(lockbox[h])
        \/ h = g /\ l = [no |-> lineNo, req |-> carry[g].req,
                        ts |-> carry[g].ts, cmd |-> carry[g].cmd]
  BY DEF GrantsAgree, TypeOK, PollDeposit, LinesOf
<2>2. \A h \in Gateways : \A l \in LinesOf(lockbox'[h]) : Backed(h, l)
  <3> SUFFICES ASSUME NEW h \in Gateways, NEW l \in LinesOf(lockbox'[h])
               PROVE  Backed(h, l)
    OBVIOUS
  <3>1. CASE l \in LinesOf(lockbox[h])
    BY <3>1 DEF GrantsAgree, TicketsBacked
  <3>2. CASE h = g /\ l = [no |-> lineNo, req |-> carry[g].req,
                          ts |-> carry[g].ts, cmd |-> carry[g].cmd]
    BY <1>0, <3>2 DEF Backed
  <3> QED
    BY <2>1, <3>1, <3>2
<2> QED
  BY <2>2 DEF GrantsAgree, TypeOK, TicketsBacked, Backed, PollDeposit
<1>5. OwnRequest'
    BY DEF GrantsAgree, OwnRequest, TypeOK, PollDeposit, At, Spend
<1>6. InHand'
    BY DEF GrantsAgree, InHand, CmdGranted, TypeOK, PollDeposit, At, Spend
<1>7. RunsGranted'
    BY DEF GrantsAgree, RunsGranted, CmdGranted, TypeOK, PollDeposit, At, Spend
<1> QED
  BY <1>1, <1>2, <1>3, <1>4, <1>5, <1>6, <1>7 DEF GrantsAgree

LEMMA PollerBootStep ==
  ASSUME GrantsAgree, NEW g \in Gateways, PollerBoot(g)
  PROVE  GrantsAgree'
<1>1. TypeOK'
    BY DEF GrantsAgree, TypeOK, PollPcs, File, PollerBoot, At
<1>2. RowsGranted'
    BY DEF GrantsAgree, RowsGranted, Rows, GrantOf, PollerBoot, At
<1>3. GrantsMatchRows'
    BY DEF GrantsAgree, GrantsMatchRows, GrantOf, PollerBoot, At
<1>4. TicketsBacked'
    BY DEF GrantsAgree, TicketsBacked, Backed, TypeOK, LinesOf, PollerBoot, At
<1>5. OwnRequest'
    BY DEF GrantsAgree, OwnRequest, TypeOK, PollerBoot, At
<1>6. InHand'
    BY DEF GrantsAgree, InHand, CmdGranted, TypeOK, PollerBoot, At
<1>7. RunsGranted'
    BY DEF GrantsAgree, RunsGranted, CmdGranted, TypeOK, PollerBoot, At
<1> QED
  BY <1>1, <1>2, <1>3, <1>4, <1>5, <1>6, <1>7 DEF GrantsAgree

LEMMA PollerRestartStep ==
  ASSUME GrantsAgree, NEW g \in Gateways, PollerRestart(g)
  PROVE  GrantsAgree'
<1>1. TypeOK'
    BY SpendType DEF GrantsAgree, TypeOK, PollPcs, PollerRestart
<1>2. RowsGranted'
    BY DEF GrantsAgree, RowsGranted, Rows, GrantOf, PollerRestart, Spend
<1>3. GrantsMatchRows'
    BY DEF GrantsAgree, GrantsMatchRows, GrantOf, PollerRestart, Spend
<1>4. TicketsBacked'
    BY DEF GrantsAgree, TicketsBacked, Backed, TypeOK, PollerRestart, Spend
<1>5. OwnRequest'
    BY DEF GrantsAgree, OwnRequest, TypeOK, PollerRestart, Spend
<1>6. InHand'
    BY DEF GrantsAgree, InHand, CmdGranted, TypeOK, PollerRestart, Spend
<1>7. RunsGranted'
    BY DEF GrantsAgree, RunsGranted, CmdGranted, TypeOK, PollerRestart, Spend
<1> QED
  BY <1>1, <1>2, <1>3, <1>4, <1>5, <1>6, <1>7 DEF GrantsAgree

LEMMA StartStep ==
  ASSUME GrantsAgree, NEW i \in Invocations, Start(i)
  PROVE  GrantsAgree'
<1>1. TypeOK'
    BY DEF GrantsAgree, TypeOK, InvPcs, Start, Go
<1>2. RowsGranted'
    BY DEF GrantsAgree, RowsGranted, Rows, GrantOf, Start, Go
<1>3. GrantsMatchRows'
    BY DEF GrantsAgree, GrantsMatchRows, GrantOf, Start, Go
<1>4. TicketsBacked'
    BY DEF GrantsAgree, TicketsBacked, Backed, TypeOK, Start, Go
<1>5. OwnRequest'
    BY DEF GrantsAgree, OwnRequest, TypeOK, Start, Go
<1>6. InHand'
    BY DEF GrantsAgree, InHand, CmdGranted, TypeOK, Start, Go
<1>7. RunsGranted'
    BY DEF GrantsAgree, RunsGranted, CmdGranted, TypeOK, Start, Go
<1> QED
  BY <1>1, <1>2, <1>3, <1>4, <1>5, <1>6, <1>7 DEF GrantsAgree

LEMMA LockboxReadStep ==
  ASSUME GrantsAgree, NEW i \in Invocations, LockboxRead(i)
  PROVE  GrantsAgree'
<1>0. /\ GwOf[i] \in Gateways
      /\ lockbox[GwOf[i]] # NoFile =>
           /\ lockbox[GwOf[i]] \in SUBSET Line
           /\ \A l \in lockbox[GwOf[i]] : Backed(GwOf[i], l)
  BY DEF GrantsAgree, TypeOK, File, TicketsBacked, LinesOf
<1>01. \/ snap' = snap /\ hit' = hit
       \/ /\ lockbox[GwOf[i]] # NoFile
          /\ \E S \in SUBSET LiveLines(GwOf[i]) : snap' = [snap EXCEPT ![i] = S]
          /\ hit' = [hit EXCEPT ![i] = Matching(i) # {}]
  <2>1. {l \in LiveLines(GwOf[i]) :
           ~ (l \in Matching(i) /\ \A m \in Matching(i) : l.no <= m.no)}
             \in SUBSET LiveLines(GwOf[i])
    OBVIOUS
  <2>2. CASE ClaimRead(i, "claim", "post", "claimMv")
    BY <2>1, <2>2 DEF ClaimRead
  <2>3. CASE ClaimRead(i, "reclaim", "ended", "reclaimMv")
    BY <2>1, <2>3 DEF ClaimRead
  <2> QED
    BY <2>2, <2>3 DEF LockboxRead
<1>1. TypeOK'
<2>1. lockbox[GwOf[i]] # NoFile => LiveLines(GwOf[i]) \in SUBSET Line
  BY <1>0 DEF LiveLines
<2>3. snap' \in [Invocations -> SUBSET Line]
  <3>1. snap \in [Invocations -> SUBSET Line]
    BY DEF GrantsAgree, TypeOK
  <3>2. CASE snap' = snap
    BY <3>1, <3>2
  <3>3. CASE lockbox[GwOf[i]] # NoFile /\ \E S \in SUBSET LiveLines(GwOf[i]) :
               snap' = [snap EXCEPT ![i] = S]
    <4>1. PICK S \in SUBSET Line : snap' = [snap EXCEPT ![i] = S]
      BY <2>1, <3>3
    <4> QED
      BY <3>1, <4>1
  <3> QED
    BY <1>01, <3>2, <3>3
<2>4. hit' \in [Invocations -> BOOLEAN]
  BY <1>01 DEF GrantsAgree, TypeOK
<2> QED
  BY <2>3, <2>4 DEF GrantsAgree, TypeOK, InvPcs, LockboxRead, Go, ClaimRead
<1>2. RowsGranted'
    BY DEF GrantsAgree, RowsGranted, Rows, GrantOf, LockboxRead, Go, ClaimRead,
     LiveLines, Matching
<1>3. GrantsMatchRows'
    BY DEF GrantsAgree, GrantsMatchRows, GrantOf, LockboxRead, Go, ClaimRead,
     LiveLines, Matching
<1>4. TicketsBacked'
<2>1. \A j \in Invocations : \A l \in snap'[j] : Backed(GwOf[j], l)
  <3>1. CASE snap' = snap
    BY <3>1 DEF GrantsAgree, TicketsBacked
  <3>2. CASE lockbox[GwOf[i]] # NoFile /\ \E S \in SUBSET LiveLines(GwOf[i]) :
               snap' = [snap EXCEPT ![i] = S]
    <4>1. PICK S \in SUBSET LiveLines(GwOf[i]) : snap' = [snap EXCEPT ![i] = S]
      BY <3>2
    <4>2. \A l \in S : Backed(GwOf[i], l)
      BY <1>0, <3>2 DEF LiveLines
    <4> QED
      BY <4>1, <4>2 DEF GrantsAgree, TypeOK, TicketsBacked
  <3> QED
    BY <1>01, <3>1, <3>2
<2> QED
  BY <2>1 DEF GrantsAgree, TicketsBacked, Backed, LockboxRead
<1>5. OwnRequest'
    BY DEF GrantsAgree, OwnRequest, TypeOK, LockboxRead, Go, ClaimRead, LiveLines,
     Matching
<1>6. InHand'
<2>1. ASSUME lockbox[GwOf[i]] # NoFile, Matching(i) # {}
      PROVE  CmdGranted(i)
  <3>1. PICK l \in lockbox[GwOf[i]] : l.cmd = CmdOf[i]
    BY <2>1 DEF Matching, LiveLines
  <3> QED
    BY <1>0, <2>1, <3>1 DEF CmdGranted, Backed
<2>2. \A j \in Invocations : hit'[j] => CmdGranted(j)
  BY <1>01, <2>1 DEF GrantsAgree, InHand, TypeOK
<2> QED
  BY <2>2 DEF GrantsAgree, InHand, TypeOK, CmdGranted, LockboxRead, ClaimRead, Go
<1>7. RunsGranted'
    BY DEF GrantsAgree, RunsGranted, CmdGranted, TypeOK, LockboxRead, Go, ClaimRead, LiveLines,
     Matching
<1> QED
  BY <1>1, <1>2, <1>3, <1>4, <1>5, <1>6, <1>7 DEF GrantsAgree

LEMMA LockboxMoveStep ==
  ASSUME GrantsAgree, NEW i \in Invocations, LockboxMove(i)
  PROVE  GrantsAgree'
<1>0. hit[i] => CmdGranted(i)
  BY DEF GrantsAgree, InHand
<1>1. TypeOK'
<2>1. snap[i] \in File
  BY DEF GrantsAgree, TypeOK, File
<2> QED
  BY <2>1 DEF GrantsAgree, TypeOK, InvPcs, LockboxMove, Go, ClaimMove
<1>2. RowsGranted'
    BY DEF GrantsAgree, RowsGranted, Rows, GrantOf, LockboxMove, Go, ClaimMove
<1>3. GrantsMatchRows'
    BY DEF GrantsAgree, GrantsMatchRows, GrantOf, LockboxMove, Go, ClaimMove
<1>4. TicketsBacked'
    BY ZenonT(40) DEF GrantsAgree, TicketsBacked, Backed, TypeOK, LinesOf, LockboxMove, Go,
     ClaimMove
<1>5. OwnRequest'
    BY DEF GrantsAgree, OwnRequest, TypeOK, LockboxMove, Go, ClaimMove
<1>6. InHand'
<2>1. \A j \in Invocations : CmdGranted(j)' = CmdGranted(j)
  BY DEF CmdGranted, LockboxMove
<2>2. \A j \in Invocations : hit'[j] => CmdGranted(j)
  BY DEF GrantsAgree, InHand, TypeOK, LockboxMove, ClaimMove
<2>3. \A j \in Invocations : pc'[j] \in {"strip", "stripMv"} => CmdGranted(j)
  BY <1>0 DEF GrantsAgree, InHand, TypeOK, LockboxMove, ClaimMove, Go
<2> QED
  BY <2>1, <2>2, <2>3 DEF GrantsAgree, InHand, TypeOK, LockboxMove, ClaimMove, Go
<1>7. RunsGranted'
  BY <1>0 DEF GrantsAgree, TypeOK, RunsGranted, CmdGranted, LockboxMove, ClaimMove, Go
<1> QED
  BY <1>1, <1>2, <1>3, <1>4, <1>5, <1>6, <1>7 DEF GrantsAgree

LEMMA PostReadStep ==
  ASSUME GrantsAgree, NEW i \in Invocations, PostRead(i)
  PROVE  GrantsAgree'
<1>1. TypeOK'
    BY SpendType DEF GrantsAgree, TypeOK, InvPcs, PostRead, Go
<1>2. RowsGranted'
    BY DEF GrantsAgree, RowsGranted, Rows, GrantOf, PostRead, Go, Spend
<1>3. GrantsMatchRows'
    BY DEF GrantsAgree, GrantsMatchRows, GrantOf, PostRead, Go, Spend
<1>4. TicketsBacked'
    BY DEF GrantsAgree, TicketsBacked, Backed, TypeOK, PostRead, Go, Spend
<1>5. OwnRequest'
    BY DEF GrantsAgree, OwnRequest, TypeOK, PostRead, Go, Spend
<1>6. InHand'
    BY DEF GrantsAgree, InHand, CmdGranted, TypeOK, PostRead, Go, Spend
<1>7. RunsGranted'
    BY DEF GrantsAgree, RunsGranted, CmdGranted, TypeOK, PostRead, Go, Spend
<1> QED
  BY <1>1, <1>2, <1>3, <1>4, <1>5, <1>6, <1>7 DEF GrantsAgree

LEMMA PostInsertStep ==
  ASSUME GrantsAgree, NEW i \in Invocations, PostInsert(i)
  PROVE  GrantsAgree'
<1>0. /\ GwOf[i] \in Gateways
      /\ Decoded[CmdOf[i]] \in Commands
      /\ PostStatus(i) \in Status
      /\ create_request(GwOf[i], Decoded[CmdOf[i]], PostStatus(i), TTL)
  BY DEF PostInsert, PostStatus, Status
<1>01. /\ requests' \in Seq(Row \cup {NoRow})
       /\ DOMAIN requests' = DOMAIN requests \cup {Len(requests) + 1}
       /\ Len(requests) + 1 \notin DOMAIN requests
       /\ \A q \in DOMAIN requests : requests'[q] = requests[q]
       /\ requests'[Len(requests) + 1] =
             [gw |-> GwOf[i], cmd |-> Decoded[CmdOf[i]], status |-> PostStatus(i),
              created |-> now, expires |-> now + TTL]
  <2>1. TypeOK /\ TTL \in Nat
    BY DEF GrantsAgree
  <2>2. requests' \in Seq(Row \cup {NoRow})
    BY <1>0, <2>1, InsertRow
  <2>3. DOMAIN requests' = DOMAIN requests \cup {Len(requests) + 1}
    BY <1>0, <2>1, InsertRow
  <2>4. Len(requests) + 1 \notin DOMAIN requests
    BY <1>0, <2>1, InsertRow
  <2>5. \A q \in DOMAIN requests : requests'[q] = requests[q]
    BY <1>0, <2>1, InsertRow
  <2>6. requests'[Len(requests) + 1] =
          [gw |-> GwOf[i], cmd |-> Decoded[CmdOf[i]], status |-> PostStatus(i),
           created |-> now, expires |-> now + TTL]
    BY <1>0, <2>1, InsertRow
  <2> QED
    BY <2>2, <2>3, <2>4, <2>5, <2>6
<1>1. TypeOK'
<2>1. Len(requests) + 1 \in Nat
  BY TableType DEF GrantsAgree
<2>2. granted' \in SUBSET Grant
  BY <1>0, <2>1 DEF GrantsAgree, TypeOK, PostInsert, Grant
<2>3. fuel' \in Nat
  BY SpendType DEF GrantsAgree, TypeOK, PostInsert
<2>4. deadline' \in [Invocations -> Nat]
  <3>1. now + Wait \in Nat
    BY DEF GrantsAgree, TypeOK
  <3> QED
    BY <3>1 DEF GrantsAgree, TypeOK, PostInsert
<2>5. reqOf' \in [Invocations -> Nat]
  BY <2>1 DEF GrantsAgree, TypeOK, PostInsert
<2>6. pc' \in [Invocations -> InvPcs]
  BY ZenonT(40) DEF GrantsAgree, TypeOK, InvPcs, PostInsert, Go
<2>7. auto' \in [Invocations -> BOOLEAN]
  BY DEF GrantsAgree, TypeOK, PostInsert
<2> QED
  BY <1>01, <2>2, <2>3, <2>4, <2>5, <2>6, <2>7 DEF GrantsAgree, TypeOK, PostInsert
<1>2. RowsGranted'
    BY DEF GrantsAgree, RowsGranted, Rows, GrantOf, PostInsert, Go, Spend,
     create_request, PostStatus
<1>3. GrantsMatchRows'
    BY DEF GrantsAgree, GrantsMatchRows, GrantOf, PostInsert, Go, Spend,
     create_request, PostStatus
<1>4. TicketsBacked'
    BY DEF GrantsAgree, TicketsBacked, Backed, TypeOK, PostInsert, Go, Spend,
     create_request, PostStatus
<1>5. OwnRequest'
<2>1. /\ DOMAIN requests' = DOMAIN requests \cup {Len(requests) + 1}
      /\ \A q \in DOMAIN requests : requests'[q] = requests[q]
      /\ requests'[Len(requests) + 1].gw = GwOf[i]
      /\ requests'[Len(requests) + 1].cmd = Decoded[CmdOf[i]]
  BY <1>01
<2>2. /\ pc'[i] = "wait" => reqOf'[i] = Len(requests) + 1
      /\ pc'[i] \in {"wait", "ended"}
      /\ \A j \in Invocations \ {i} : pc'[j] = pc[j] /\ reqOf'[j] = reqOf[j]
  BY DEF GrantsAgree, TypeOK, PostInsert, Go
<2> QED
  BY <2>1, <2>2 DEF GrantsAgree, OwnRequest, PostInsert
<1>6. InHand'
    BY DEF GrantsAgree, InHand, CmdGranted, TypeOK, PostInsert, Go, Spend,
     create_request, PostStatus
<1>7. RunsGranted'
    BY DEF GrantsAgree, RunsGranted, CmdGranted, TypeOK, PostInsert, Go, Spend, create_request,
     PostStatus
<1> QED
  BY <1>1, <1>2, <1>3, <1>4, <1>5, <1>6, <1>7 DEF GrantsAgree

LEMMA WaitLoopStep ==
  ASSUME GrantsAgree, NEW i \in Invocations, WaitLoop(i)
  PROVE  GrantsAgree'
<1>1. TypeOK'
    BY DEF GrantsAgree, TypeOK, InvPcs, WaitLoop, Go, StatusOf, TimedOut
<1>2. RowsGranted'
    BY DEF GrantsAgree, RowsGranted, Rows, GrantOf, WaitLoop, Go, StatusOf,
     TimedOut
<1>3. GrantsMatchRows'
    BY DEF GrantsAgree, GrantsMatchRows, GrantOf, WaitLoop, Go, StatusOf, TimedOut
<1>4. TicketsBacked'
    BY DEF GrantsAgree, TicketsBacked, Backed, TypeOK, WaitLoop, Go, StatusOf,
     TimedOut
<1>5. OwnRequest'
    BY DEF GrantsAgree, OwnRequest, TypeOK, WaitLoop, Go, StatusOf, TimedOut
<1>6. InHand'
    BY DEF GrantsAgree, InHand, CmdGranted, TypeOK, WaitLoop, Go, StatusOf,
     TimedOut
<1>7. RunsGranted'
    BY DEF GrantsAgree, RunsGranted, CmdGranted, TypeOK, WaitLoop, Go, StatusOf, TimedOut
<1> QED
  BY <1>1, <1>2, <1>3, <1>4, <1>5, <1>6, <1>7 DEF GrantsAgree

LEMMA TicketSelectStep ==
  ASSUME GrantsAgree, NEW i \in Invocations, TicketSelect(i)
  PROVE  GrantsAgree'
<1>0. /\ reqOf[i] \in DOMAIN requests
      /\ StatusOf(reqOf[i]) \in {"approved", "consumed"} =>
           /\ TicketOf(reqOf[i]) \in Ticket
           /\ TicketOf(reqOf[i]) # NoTicket
           /\ TicketOf(reqOf[i]).cmd = Decoded[CmdOf[i]]
           /\ Backed(GwOf[i], TicketOf(reqOf[i]))
  BY RowTicket DEF GrantsAgree, TicketSelect, OwnRequest, StatusOf, Rows, TicketOf
<1>1. TypeOK'
<2>1. fuel' \in Nat
  BY SpendType DEF GrantsAgree, TypeOK, TicketSelect, TicketAnswer
<2>2. held' \in [Invocations -> Ticket \cup {NoTicket}]
  BY <1>0 DEF GrantsAgree, TypeOK, TicketSelect
<2>3. pc' \in [Invocations -> InvPcs]
  <3>1. \E at \in InvPcs : pc' = [pc EXCEPT ![i] = at]
    BY DEF InvPcs, TicketSelect, TicketAnswer, Go
  <3> QED
    BY <3>1 DEF GrantsAgree, TypeOK
<2> QED
  BY <2>1, <2>2, <2>3 DEF GrantsAgree, TypeOK, TicketSelect
<1>2. RowsGranted'
    BY DEF GrantsAgree, RowsGranted, Rows, GrantOf, TicketSelect, Go, Spend,
     StatusOf, TicketOf, TicketAnswer
<1>3. GrantsMatchRows'
    BY DEF GrantsAgree, GrantsMatchRows, GrantOf, TicketSelect, Go, Spend,
     StatusOf, TicketOf, TicketAnswer
<1>4. TicketsBacked'
  BY <1>0 DEF GrantsAgree, TicketsBacked, Backed, TypeOK, TicketSelect
<1>5. OwnRequest'
    BY DEF GrantsAgree, OwnRequest, TypeOK, TicketSelect, Go, Spend, StatusOf,
     TicketOf, GrantOf, TicketAnswer
<1>6. InHand'
<2>1. \A j \in Invocations : pc'[j] \in {"strip", "stripMv"} => CmdGranted(j)
  BY <1>0 DEF GrantsAgree, InHand, TypeOK, TicketSelect, TicketAnswer, Go, Backed, CmdGranted
<2>2. \A j \in Invocations : pc'[j] = "consume" => held'[j] # NoTicket
  BY <1>0 DEF GrantsAgree, InHand, TypeOK, TicketSelect, TicketAnswer, Go
<2> QED
  BY <2>1, <2>2 DEF GrantsAgree, InHand, CmdGranted, TicketSelect
<1>7. RunsGranted'
    BY DEF GrantsAgree, RunsGranted, CmdGranted, TypeOK, TicketSelect, Go, Spend, StatusOf,
     TicketOf, GrantOf, TicketAnswer
<1> QED
  BY <1>1, <1>2, <1>3, <1>4, <1>5, <1>6, <1>7 DEF GrantsAgree

LEMMA TicketConsumeStep ==
  ASSUME GrantsAgree, NEW i \in Invocations, TicketConsume(i)
  PROVE  GrantsAgree'
<1>0. /\ held[i] # NoTicket
      /\ now \in Nat
      /\ GwOf[i] \in Gateways
      /\ Backed(GwOf[i], held[i])
      /\ held[i].req \in DOMAIN requests
      /\ requests[held[i].req] # NoRow => GrantOf(held[i].req) \in granted
  BY BackedRow DEF GrantsAgree, TypeOK, TicketConsume, InHand, TicketsBacked
<1>1. TypeOK'
  BY <1>0, ConsumeRow, SpendType DEF GrantsAgree, TypeOK, InvPcs,
     TicketConsume, TicketAnswer, Go
<1>2. RowsGranted'
  BY <1>0, ConsumeGranted DEF GrantsAgree, TicketConsume
<1>3. GrantsMatchRows'
    BY DEF GrantsAgree, GrantsMatchRows, GrantOf, TicketConsume, Go, Spend,
     consume, TicketAnswer
<1>4. TicketsBacked'
    BY DEF GrantsAgree, TicketsBacked, Backed, TypeOK, TicketConsume, Go, Spend,
     consume, TicketAnswer
<1>5. OwnRequest'
    BY SMTT(20) DEF GrantsAgree, OwnRequest, TypeOK, TicketConsume, Go, Spend, consume,
     TicketAnswer
<1>6. InHand'
<2>1. \A j \in Invocations : pc'[j] \in {"strip", "stripMv"} => CmdGranted(j)
  BY <1>0 DEF GrantsAgree, InHand, TypeOK, TicketConsume, TicketAnswer, Go, Backed, CmdGranted
<2>2. \A j \in Invocations : pc'[j] = "consume" => held'[j] # NoTicket
  BY DEF GrantsAgree, InHand, TypeOK, TicketConsume, TicketAnswer, Go
<2> QED
  BY <2>1, <2>2 DEF GrantsAgree, InHand, CmdGranted, TicketConsume
<1>7. RunsGranted'
    BY DEF GrantsAgree, RunsGranted, CmdGranted, TypeOK, TicketConsume, Go, Spend, consume,
     TicketAnswer
<1> QED
  BY <1>1, <1>2, <1>3, <1>4, <1>5, <1>6, <1>7 DEF GrantsAgree

LEMMA StripReadStep ==
  ASSUME GrantsAgree, NEW i \in Invocations, StripRead(i)
  PROVE  GrantsAgree'
<1>1. TypeOK'
<2>1. GwOf[i] \in Gateways /\ lockbox[GwOf[i]] \in File
  BY DEF GrantsAgree, TypeOK
<2>2. lockbox[GwOf[i]] # NoFile =>
        {l \in lockbox[GwOf[i]] : Field2[l.cmd] # CmdOf[i]} \in File
  BY <2>1 DEF File
<2>3. tmpFile' \in [Gateways -> File]
  BY <2>2 DEF GrantsAgree, TypeOK, StripRead
<2> QED
  BY <2>3 DEF GrantsAgree, TypeOK, InvPcs, StripRead, Go
<1>2. RowsGranted'
    BY DEF GrantsAgree, RowsGranted, Rows, GrantOf, StripRead, Go
<1>3. GrantsMatchRows'
    BY DEF GrantsAgree, GrantsMatchRows, GrantOf, StripRead, Go
<1>4. TicketsBacked'
<2>1. \/ tmpFile' = tmpFile
      \/ /\ lockbox[GwOf[i]] # NoFile
         /\ \E S \in SUBSET lockbox[GwOf[i]] :
              tmpFile' = [tmpFile EXCEPT ![GwOf[i]] = S]
  BY DEF StripRead
<2>2. \A g \in Gateways : \A l \in LinesOf(tmpFile'[g]) :
        l \in LinesOf(lockbox[g]) \cup LinesOf(tmpFile[g])
  BY <2>1 DEF GrantsAgree, TypeOK, LinesOf
<2> QED
  BY <2>2 DEF GrantsAgree, TicketsBacked, Backed, StripRead
<1>5. OwnRequest'
    BY DEF GrantsAgree, OwnRequest, TypeOK, StripRead, Go
<1>6. InHand'
    BY DEF GrantsAgree, InHand, CmdGranted, TypeOK, StripRead, Go
<1>7. RunsGranted'
  BY DEF GrantsAgree, InHand, RunsGranted, CmdGranted, TypeOK, StripRead, Go
<1> QED
  BY <1>1, <1>2, <1>3, <1>4, <1>5, <1>6, <1>7 DEF GrantsAgree

LEMMA StripMoveStep ==
  ASSUME GrantsAgree, NEW i \in Invocations, StripMove(i)
  PROVE  GrantsAgree'
<1>1. TypeOK'
    BY DEF GrantsAgree, TypeOK, InvPcs, File, StripMove, Go, MoveTmp
<1>2. RowsGranted'
    BY DEF GrantsAgree, RowsGranted, Rows, GrantOf, StripMove, Go, MoveTmp
<1>3. GrantsMatchRows'
    BY DEF GrantsAgree, GrantsMatchRows, GrantOf, StripMove, Go, MoveTmp
<1>4. TicketsBacked'
<2>1. \/ UNCHANGED <<lockbox, tmpFile>>
      \/ MoveTmp(GwOf[i]) /\ GwOf[i] \in Gateways
  BY DEF StripMove
<2>2. \A g \in Gateways : \A l \in LinesOf(lockbox'[g]) \cup LinesOf(tmpFile'[g]) :
        l \in LinesOf(lockbox[g]) \cup LinesOf(tmpFile[g])
  <3>1. CASE UNCHANGED <<lockbox, tmpFile>>
    BY <3>1 DEF LinesOf
  <3>2. CASE MoveTmp(GwOf[i]) /\ GwOf[i] \in Gateways
    BY <3>2 DEF GrantsAgree, TypeOK, MoveTmp, LinesOf
  <3> QED
    BY <2>1, <3>1, <3>2
<2> QED
  BY <2>2 DEF GrantsAgree, TicketsBacked, Backed, StripMove
<1>5. OwnRequest'
    BY DEF GrantsAgree, OwnRequest, TypeOK, StripMove, Go, MoveTmp
<1>6. InHand'
    BY DEF GrantsAgree, InHand, CmdGranted, TypeOK, StripMove, Go, MoveTmp
<1>7. RunsGranted'
  BY DEF GrantsAgree, InHand, RunsGranted, CmdGranted, TypeOK, StripMove, Go
<1> QED
  BY <1>1, <1>2, <1>3, <1>4, <1>5, <1>6, <1>7 DEF GrantsAgree

LEMMA KillStep ==
  ASSUME GrantsAgree, NEW i \in Invocations, Kill(i)
  PROVE  GrantsAgree'
<1>1. TypeOK'
    BY SpendType DEF GrantsAgree, TypeOK, InvPcs, Kill
<1>2. RowsGranted'
    BY DEF GrantsAgree, RowsGranted, Rows, GrantOf, Kill, Spend
<1>3. GrantsMatchRows'
    BY DEF GrantsAgree, GrantsMatchRows, GrantOf, Kill, Spend
<1>4. TicketsBacked'
    BY DEF GrantsAgree, TicketsBacked, Backed, TypeOK, Kill, Spend
<1>5. OwnRequest'
    BY DEF GrantsAgree, OwnRequest, TypeOK, Kill, Spend
<1>6. InHand'
    BY DEF GrantsAgree, InHand, CmdGranted, TypeOK, Kill, Spend
<1>7. RunsGranted'
    BY DEF GrantsAgree, RunsGranted, CmdGranted, TypeOK, Kill, Spend
<1> QED
  BY <1>1, <1>2, <1>3, <1>4, <1>5, <1>6, <1>7 DEF GrantsAgree

-----------------------------------------------------------------------------
(* The invariant.                                                          *)

LEMMA InitAgree == Init => GrantsAgree
<1> SUFFICES ASSUME Init PROVE GrantsAgree
  OBVIOUS
<1>1. DOMAIN requests = {} /\ requests \in Seq(Row \cup {NoRow})
  BY EmptySeq DEF Init
<1>2. TypeOK
  BY <1>1 DEF Init, TypeOK, File, PollPcs, InvPcs
<1>3. RowsGranted /\ GrantsMatchRows
  BY <1>1 DEF Init, RowsGranted, Rows, GrantsMatchRows
<1>4. TicketsBacked
  BY DEF Init, TicketsBacked, LinesOf
<1>5. OwnRequest /\ InHand /\ RunsGranted
  BY DEF Init, OwnRequest, InHand, CmdGranted, RunsGranted
<1> QED
  BY <1>2, <1>3, <1>4, <1>5 DEF GrantsAgree

LEMMA OperatorStep ==
  ASSUME GrantsAgree, Operator
  PROVE  GrantsAgree'
  BY ApproveStep, DenyStep, PurgeStep, SetFreezeStep, SetOverrideStep
     DEF Operator

LEMMA PollerStep ==
  ASSUME GrantsAgree, NEW g \in Gateways, Poller(g)
  PROVE  GrantsAgree'
  BY CleanLockboxStep, NothingToCleanStep, MoveCleanStep, SyncPolicyStep,
     PollSelectStep, PollConsumeStep, PollDepositStep, PollerBootStep
     DEF Poller

LEMMA ScriptStep ==
  ASSUME GrantsAgree, NEW i \in Invocations, Script(i)
  PROVE  GrantsAgree'
  BY StartStep, LockboxReadStep, LockboxMoveStep, PostReadStep,
     PostInsertStep, WaitLoopStep, TicketSelectStep, TicketConsumeStep,
     StripReadStep, StripMoveStep
     DEF Script

LEMMA StutterStep ==
  ASSUME GrantsAgree, UNCHANGED vars
  PROVE  GrantsAgree'
  BY DEF GrantsAgree, TypeOK, RowsGranted, Rows, GrantOf, GrantsMatchRows,
         TicketsBacked, Backed, OwnRequest, InHand, CmdGranted, RunsGranted,
         vars

LEMMA NextAgree == GrantsAgree /\ [Next]_vars => GrantsAgree'
<1> SUFFICES ASSUME GrantsAgree, [Next]_vars PROVE GrantsAgree'
  OBVIOUS
<1>1. CASE Tick
  BY <1>1, TickStep
<1>2. CASE expire_stale_requests
  BY <1>2, expire_stale_requestsStep
<1>3. CASE Operator
  BY <1>3, OperatorStep
<1>4. CASE \E g \in Gateways, c \in Commands : LogRow(g, c)
  BY <1>4, LogRowStep
<1>5. CASE \E g \in Gateways : Poller(g) \/ PollerRestart(g)
  BY <1>5, PollerStep, PollerRestartStep
<1>6. CASE \E i \in Invocations : Script(i) \/ Kill(i)
  BY <1>6, ScriptStep, KillStep
<1>7. CASE UNCHANGED vars
  BY <1>7, StutterStep
<1> QED
  BY <1>1, <1>2, <1>3, <1>4, <1>5, <1>6, <1>7 DEF Next

-----------------------------------------------------------------------------
(* What became of a request.                                               *)

\* What a step makes of the requests that nothing is open of.
LEMMA TableSettles ==
  ASSUME GrantsAgree, [Next]_vars, NEW r \in (DOMAIN requests) \cup {0}
  PROVE  /\ r \in (DOMAIN requests') \cup {0}
         /\ Settled(r) => Settled(r)'
<1>1. TypeOK /\ TypeOK'
  BY NextAgree DEF GrantsAgree
<1>2. 0 \notin DOMAIN requests'
  BY <1>1, LenProperties DEF TypeOK
<1>3. CASE UNCHANGED <<requests, reopened>>
  BY <1>3 DEF Settled, Rows
<1>4. ASSUME NEW q \in Rows, Approve(q) PROVE r \in (DOMAIN requests') \cup {0} /\ (Settled(r) => Settled(r)')
  <2>1. q \in DOMAIN requests /\ update_request_status(q, "approved") /\ "approved" \in Status
    BY <1>4 DEF Approve, Rows, Status
  <2>2. KeepsRows /\ \A n \in DOMAIN requests : n # q => requests'[n] = requests[n]
    BY <1>1, <2>1, UpdateRow
  <2>3. reopened \subseteq reopened' /\ (requests[q].status \notin {"pending", "approved"} => q \in reopened')
    BY <1>4 DEF Approve
  <2> QED
    BY <1>2, <2>2, <2>3 DEF KeepsRows, Settled, Rows
<1>5. ASSUME NEW q \in Rows, Deny(q) PROVE r \in (DOMAIN requests') \cup {0} /\ (Settled(r) => Settled(r)')
  <2>1. q \in DOMAIN requests /\ update_request_status(q, "denied") /\ "denied" \in Status
    BY <1>5 DEF Deny, Rows, Status
  <2>2. /\ KeepsRows /\ \A n \in DOMAIN requests : n # q => requests'[n] = requests[n]
        /\ requests'[q] # NoRow => requests'[q].status = "denied"
    BY <1>1, <2>1, UpdateRow
  <2> QED
    BY <1>2, <1>5, <2>2 DEF Deny, KeepsRows, Settled, Rows
<1>6. ASSUME NEW before \in 0..now, Purge(before)
      PROVE  r \in (DOMAIN requests') \cup {0} /\ (Settled(r) => Settled(r)')
  BY <1>2, <1>6 DEF Purge, Settled, Rows
<1>7. CASE expire_stale_requests
  <2>1. DOMAIN requests' = DOMAIN requests /\ reopened' = reopened
    BY <1>7 DEF expire_stale_requests
  <2>2. \A n \in DOMAIN requests : requests'[n] = Swept(requests[n]) /\ requests[n] \in Row \cup {NoRow}
    BY <1>1, <1>7, TableType DEF expire_stale_requests
  <2>3. \A row \in Row \cup {NoRow} :
          Swept(row) # NoRow =>
            /\ row # NoRow
            /\ row.status \notin {"pending", "approved"} => Swept(row).status \notin {"pending", "approved"}
    BY DEF Swept, Row
  <2> QED
    BY <1>2, <2>1, <2>2, <2>3 DEF Settled, Rows
<1>8. ASSUME NEW q \in DOMAIN requests, NEW time \in Nat, consume(q, time), reopened' = reopened
      PROVE  r \in (DOMAIN requests') \cup {0} /\ (Settled(r) => Settled(r)')
  <2>1. KeepsRows /\ \A n \in DOMAIN requests : n # q => requests'[n] = requests[n]
    BY <1>1, <1>8, ConsumeRow
  <2>2. requests'[q] # NoRow => requests'[q].status = "consumed"
    BY <1>1, <1>8, TableType DEF consume, Row
  <2> QED
    BY <1>2, <1>8, <2>1, <2>2 DEF KeepsRows, Settled, Rows
<1>9. ASSUME NEW g \in Gateways, NEW c \in Commands, NEW st \in Status, NEW ttl \in Nat,
             create_request(g, c, st, ttl), reopened' = reopened
      PROVE  r \in (DOMAIN requests') \cup {0} /\ (Settled(r) => Settled(r)')
  <2>1. /\ DOMAIN requests' = DOMAIN requests \cup {Len(requests) + 1}
        /\ \A q \in DOMAIN requests : requests'[q] = requests[q]
    BY <1>1, <1>9, InsertRow
  <2> QED
    BY <1>2, <1>9, <2>1 DEF Settled, Rows
<1>10. ASSUME NEW g \in Gateways, PollConsume(g) PROVE carry[g].req \in DOMAIN requests /\ carry[g].at \in Nat
  BY <1>10, BackedRow DEF GrantsAgree, TypeOK, Ticket, PollConsume, At, InHand, TicketsBacked
<1>11. ASSUME NEW i \in Invocations, TicketConsume(i) PROVE held[i].req \in DOMAIN requests /\ now \in Nat
  <2>1. held[i] # NoTicket /\ GwOf[i] \in Gateways /\ now \in Nat
    BY <1>11 DEF GrantsAgree, TypeOK, TicketConsume, InHand
  <2> QED
    BY <2>1, BackedRow DEF GrantsAgree, TicketsBacked
<1>12. ASSUME NEW i \in Invocations, PostInsert(i)
       PROVE  r \in (DOMAIN requests') \cup {0} /\ (Settled(r) => Settled(r)')
  <2>1. /\ GwOf[i] \in Gateways /\ Decoded[CmdOf[i]] \in Commands /\ PostStatus(i) \in Status
        /\ create_request(GwOf[i], Decoded[CmdOf[i]], PostStatus(i), TTL) /\ reopened' = reopened
    BY <1>12 DEF PostInsert, PostStatus, Status
  <2> QED
    BY <1>9, <2>1
<1>13. CASE Operator
  BY <1>3, <1>4, <1>5, <1>6, <1>13 DEF Operator, SetFreeze, SetOverride
<1>14. ASSUME NEW g \in Gateways, Poller(g) \/ PollerRestart(g)
       PROVE  r \in (DOMAIN requests') \cup {0} /\ (Settled(r) => Settled(r)')
  <2>1. CASE PollConsume(g)
    BY <1>8, <1>10, <2>1 DEF PollConsume
  <2>2. CASE ~ PollConsume(g)
    BY <1>3, <1>14, <2>2 DEF Poller, PollerRestart, CleanLockbox, NothingToClean, MoveClean,
       SyncPolicy, PollSelect, PollDeposit, PollerBoot
  <2> QED
    BY <2>1, <2>2
<1>15. ASSUME NEW i \in Invocations, Script(i) \/ Kill(i)
       PROVE  r \in (DOMAIN requests') \cup {0} /\ (Settled(r) => Settled(r)')
  <2>1. CASE TicketConsume(i)
    BY <1>8, <1>11, <2>1 DEF TicketConsume
  <2>2. CASE PostInsert(i)
    BY <1>12, <2>2
  <2>3. CASE ~ TicketConsume(i) /\ ~ PostInsert(i)
    BY <1>3, <1>15, <2>3 DEF Script, Kill, Start, LockboxRead, LockboxMove, PostRead, WaitLoop,
       TicketSelect, StripRead, StripMove
  <2> QED
    BY <2>1, <2>2, <2>3
<1>16. ASSUME NEW g \in Gateways, NEW c \in Commands, LogRow(g, c)
       PROVE  r \in (DOMAIN requests') \cup {0} /\ (Settled(r) => Settled(r)')
  BY <1>9, <1>16 DEF LogRow, Status
<1> QED
  BY <1>3, <1>7, <1>13, <1>14, <1>15, <1>16 DEF Next, Tick, vars

\* SessionHolds and RunsRecorded of one session.
Recorded(i) ==
  /\ pc[i] \in {"start", "claim", "claimMv", "post", "insert"} => reqOf[i] = 0
  /\ reqOf[i] \in (DOMAIN requests) \cup {0}
  /\ pc[i] = "consume" => held[i].req = reqOf[i]
  /\ pc[i] \in {"reclaim", "reclaimMv", "strip", "stripMv", "ran"} => Settled(reqOf[i])

LEMMA RecordedAll ==
  /\ SessionHolds /\ RunsRecorded <=> \A i \in Invocations : Recorded(i)
  /\ SessionHolds' /\ RunsRecorded' <=> \A i \in Invocations : Recorded(i)'
  BY DEF SessionHolds, RunsRecorded, Recorded

\* A session that does not move.
LEMMA RecordedStays ==
  ASSUME GrantsAgree, [Next]_vars, NEW i \in Invocations, Recorded(i),
         pc'[i] = pc[i], reqOf'[i] = reqOf[i], held'[i] = held[i]
  PROVE  Recorded(i)'
<1>1. PICK r \in (DOMAIN requests) \cup {0} : reqOf[i] = r
  BY DEF Recorded
<1>2. r \in (DOMAIN requests') \cup {0} /\ (Settled(r) => Settled(r)')
  BY TableSettles
<1> QED
  BY <1>1, <1>2 DEF Recorded, Settled, Rows

\* A session that moves leaves the others where they are ...
LEMMA SessionMoves ==
  ASSUME TypeOK, NEW i \in Invocations, Script(i) \/ Kill(i)
  PROVE  /\ \E p \in InvPcs : pc' = [pc EXCEPT ![i] = p]
         /\ reqOf' = reqOf \/ (PostInsert(i) /\ reqOf' = [reqOf EXCEPT ![i] = Len(requests) + 1])
         /\ held' = held \/ \E t \in {TicketOf(reqOf[i]), NoTicket} : held' = [held EXCEPT ![i] = t]
<1>1. CASE Start(i) \/ PostRead(i) \/ WaitLoop(i) \/ Kill(i)
  BY <1>1 DEF Start, PostRead, WaitLoop, Kill, Go, InvPcs
<1>2. CASE LockboxRead(i) \/ LockboxMove(i)
  BY <1>2 DEF LockboxRead, LockboxMove, ClaimRead, ClaimMove, Go, InvPcs
<1>3. CASE TicketSelect(i) \/ TicketConsume(i)
  BY <1>3 DEF TicketSelect, TicketConsume, TicketAnswer, Go, InvPcs
<1>4. CASE StripRead(i) \/ StripMove(i)
  BY <1>4 DEF StripRead, StripMove, Go, InvPcs
<1>5. CASE PostInsert(i)
  BY <1>5 DEF PostInsert, Go, InvPcs
<1> QED
  BY <1>1, <1>2, <1>3, <1>4, <1>5 DEF Script

\* ... and what it knows of its own request is right again.
LEMMA RecordedMoves ==
  ASSUME GrantsAgree, [Next]_vars, NEW i \in Invocations, Script(i) \/ Kill(i), Recorded(i)
  PROVE  Recorded(i)'
<1>1. TypeOK /\ TypeOK' /\ 0 \notin DOMAIN requests /\ 0 \notin DOMAIN requests'
  <2>1. GrantsAgree'
    BY NextAgree
  <2>2. requests \in Seq(Row \cup {NoRow}) /\ requests' \in Seq(Row \cup {NoRow})
    BY <2>1 DEF GrantsAgree, TypeOK
  <2>3. DOMAIN requests = 1..Len(requests) /\ DOMAIN requests' = 1..Len(requests')
        /\ Len(requests) \in Nat /\ Len(requests') \in Nat
    BY <2>2, LenProperties
  <2> QED
    BY <2>1, <2>3 DEF GrantsAgree
<1>2. PICK r \in (DOMAIN requests) \cup {0} : reqOf[i] = r
  BY DEF Recorded
<1>3. /\ pc \in [Invocations -> InvPcs] /\ reqOf \in [Invocations -> Nat]
      /\ held \in [Invocations -> Ticket \cup {NoTicket}]
  BY <1>1 DEF TypeOK
<1>4. Settled(0) /\ Settled(0)'
  BY <1>1 DEF Settled, Rows
<1>5. r \in (DOMAIN requests') \cup {0} /\ (Settled(r) => Settled(r)')
  BY TableSettles
<1>14. reqOf' = reqOf => (Settled(reqOf[i])' <=> Settled(r)')
  BY <1>2 DEF Settled, Rows
<1>6. CASE PostInsert(i)
  <2>1. Len(requests) + 1 \in DOMAIN requests'
    <3>1. /\ GwOf[i] \in Gateways /\ Decoded[CmdOf[i]] \in Commands /\ PostStatus(i) \in Status
          /\ create_request(GwOf[i], Decoded[CmdOf[i]], PostStatus(i), TTL) /\ TTL \in Nat
      BY <1>6 DEF PostInsert, PostStatus, Status
    <3> QED
      BY <1>1, <3>1, InsertRow
  <2>2. pc'[i] \in {"wait", "ended"}
    BY <1>3, <1>6 DEF PostInsert, Go
  <2>3. reqOf'[i] \in {reqOf[i], Len(requests) + 1}
    BY <1>3, <1>6 DEF PostInsert
  <2> QED
    BY <1>2, <1>5, <2>1, <2>2, <2>3 DEF Recorded
<1>7. CASE Start(i) \/ PostRead(i) \/ Kill(i)
  <2>1. reqOf' = reqOf /\ pc'[i] \in {"claim", "insert", "ended"}
        /\ (pc'[i] # "ended" => pc[i] \in {"start", "post"})
    BY <1>3, <1>7 DEF Start, PostRead, Kill, Go
  <2> QED
    BY <1>2, <1>3, <1>5, <2>1 DEF Recorded
<1>8. CASE LockboxRead(i) \/ LockboxMove(i)
  <2>1. /\ reqOf' = reqOf
        /\ \/ pc[i] \in {"claim", "claimMv"} /\ pc'[i] \in {"post", "claimMv", "ran"}
           \/ pc[i] \in {"reclaim", "reclaimMv"} /\ pc'[i] \in {"ended", "reclaimMv", "strip"}
    BY <1>3, <1>8 DEF LockboxRead, LockboxMove, ClaimRead, ClaimMove, Go
  <2> QED
    BY <1>2, <1>3, <1>4, <1>5, <1>14, <2>1 DEF Recorded
<1>9. CASE WaitLoop(i)
  <2>1. /\ reqOf' = reqOf /\ pc'[i] \in {"ended", "ticket", "reclaim"}
        /\ pc'[i] = "reclaim" => StatusOf(r) = "consumed"
    BY <1>2, <1>3, <1>9 DEF WaitLoop, Go
  <2>2. StatusOf(r) = "consumed" => Settled(r)
    BY DEF StatusOf, Settled, Rows
  <2> QED
    BY <1>2, <1>3, <1>5, <1>14, <2>1, <2>2 DEF Recorded
<1>10. CASE TicketSelect(i)
  <2>1. /\ reqOf' = reqOf /\ pc'[i] \in {"wait", "consume", "strip", "ended"}
        /\ pc'[i] = "consume" => held'[i].req = r
        /\ pc'[i] = "strip" => StatusOf(r) = "consumed"
    BY <1>2, <1>3, <1>10 DEF TicketSelect, TicketAnswer, Go, TicketOf
  <2>2. StatusOf(r) = "consumed" => Settled(r)
    BY DEF StatusOf, Settled, Rows
  <2> QED
    BY <1>2, <1>3, <1>5, <1>14, <2>1, <2>2 DEF Recorded
<1>11. CASE TicketConsume(i)
  <2>1. /\ reqOf' = reqOf /\ pc[i] = "consume" /\ pc'[i] \in {"wait", "strip", "ended"}
        /\ consume(held[i].req, now)
    BY <1>3, <1>11 DEF TicketConsume, TicketAnswer, Go
  <2>2. held[i].req = r
    BY <1>2, <2>1 DEF Recorded
  <2>3. Settled(r)'
    BY <1>1, <2>1, <2>2, TableType DEF consume, Row, Settled, Rows
  <2> QED
    BY <1>2, <1>3, <1>5, <1>14, <2>1, <2>3 DEF Recorded
<1>12. CASE StripRead(i) \/ StripMove(i)
  <2>1. /\ reqOf' = reqOf /\ pc[i] \in {"strip", "stripMv"} /\ pc'[i] \in {"ran", "stripMv", "ended"}
    BY <1>3, <1>12 DEF StripRead, StripMove, Go
  <2> QED
    BY <1>2, <1>3, <1>5, <1>14, <2>1 DEF Recorded
<1> QED
  BY <1>6, <1>7, <1>8, <1>9, <1>10, <1>11, <1>12 DEF Script

LEMMA RecordedNext == ASSUME IInv, [Next]_vars PROVE SessionHolds' /\ RunsRecorded'
<1>1. GrantsAgree /\ TypeOK /\ \A i \in Invocations : Recorded(i)
  BY RecordedAll DEF IInv, GrantsAgree
<1>2. SUFFICES ASSUME NEW j \in Invocations PROVE Recorded(j)'
  BY RecordedAll
<1>3. CASE UNCHANGED <<pc, reqOf, held>>
  BY <1>1, <1>3, RecordedStays
<1>4. ASSUME NEW i \in Invocations, Script(i) \/ Kill(i) PROVE Recorded(j)'
  <2>1. CASE j = i
    BY <1>1, <1>4, <2>1, RecordedMoves
  <2>2. CASE j # i
    <3>1. pc'[j] = pc[j] /\ reqOf'[j] = reqOf[j] /\ held'[j] = held[j]
      <4>1. pc'[j] = pc[j]
        BY <1>1, <1>4, <2>2, SessionMoves DEF TypeOK
      <4>2. reqOf'[j] = reqOf[j]
        BY <1>1, <1>4, <2>2, SessionMoves DEF TypeOK
      <4>3. held'[j] = held[j]
        <5>1. held \in [Invocations -> Ticket \cup {NoTicket}]
          BY <1>1 DEF TypeOK
        <5>2. held' = held \/ \E t \in {TicketOf(reqOf[i]), NoTicket} : held' = [held EXCEPT ![i] = t]
          BY <1>1, <1>4, SessionMoves
        <5> QED
          BY <2>2, <5>1, <5>2
      <4> QED
        BY <4>1, <4>2, <4>3
    <3> QED
      BY <1>1, <3>1, RecordedStays
  <2> QED
    BY <2>1, <2>2
<1>5. CASE Operator
  BY <1>3, <1>5 DEF Operator, Approve, Deny, Purge, SetFreeze, SetOverride
<1>6. CASE \E g \in Gateways : Poller(g) \/ PollerRestart(g)
  BY <1>3, <1>6 DEF Poller, PollerRestart, CleanLockbox, NothingToClean, MoveClean,
     SyncPolicy, PollSelect, PollConsume, PollDeposit, PollerBoot
<1> QED
  BY <1>3, <1>4, <1>5, <1>6 DEF Next, Tick, expire_stale_requests, LogRow, vars

LEMMA InitInv == Init => IInv
<1> SUFFICES ASSUME Init PROVE IInv
  OBVIOUS
<1>1. SessionHolds /\ RunsRecorded
  BY DEF Init, SessionHolds, RunsRecorded
<1> QED
  BY <1>1, InitAgree DEF IInv

LEMMA NextInv == IInv /\ [Next]_vars => IInv'
  BY NextAgree, RecordedNext DEF IInv

\* The inductive invariant holds in every reachable state: the dashboard's
\* table, the lockboxes and the scripts agree on what was granted.
THEOREM Invariance == Spec => []IInv
  BY InitInv, NextInv, PTL DEF Spec

\* Every variable keeps its type.
THEOREM TypeCorrect == Spec => []TypeOK
<1>1. IInv => TypeOK
  BY DEF IInv, GrantsAgree
<1> QED
  BY <1>1, Invariance, PTL

\* No session runs a command that was not granted for its host, for any number
\* of hosts, sessions and commands and any losses, restarts and kills.
THEOREM RunsAreGranted == Spec => []RunsGranted
<1>1. IInv => RunsGranted
  BY DEF IInv, GrantsAgree
<1> QED
  BY <1>1, Invariance, PTL

\* Every ticket, wherever it is between the table and a script, was granted.
THEOREM TicketsAreBacked == Spec => []TicketsBacked
<1>1. IInv => TicketsBacked
  BY DEF IInv, GrantsAgree
<1> QED
  BY <1>1, Invariance, PTL

\* Only granted rows are ever approved, consumed or abandoned, a grant's row stays
\* the row it was given for, and a waiting script asks about its own request.
THEOREM RequestsAreKept == Spec => []RequestsKept
<1>1. IInv => RequestsKept
  BY DEF IInv, GrantsAgree, RequestsKept
<1> QED
  BY <1>1, Invariance, PTL

\* A session that ran on the request it posted left it settled, on whichever of the two
\* ways the ticket came, through any losses, restarts, purges, denials and decisions.
THEOREM RunsAreRecorded == Spec => []RunsRecorded
<1>1. IInv => RunsRecorded
  BY DEF IInv
<1> QED
  BY <1>1, Invariance, PTL

-----------------------------------------------------------------------------
(* The refinement of JitApproval.                                          *)

Ran == {i \in Invocations : pc[i] = "ran"}
Pairs == {<<a.gw, a.cmd>> : a \in granted}

\* A step that grants nothing and in which no script but i moves.
LEMMA OneMoves ==
  ASSUME TypeOK, NEW i \in Invocations, NEW p \in InvPcs,
         pc' = [pc EXCEPT ![i] = p], pc[i] # "ran"
  PROVE  Ran' = Ran \/ (Ran' = Ran \cup {i} /\ i \notin Ran)
  BY DEF TypeOK, Ran

LEMMA ScriptEffect ==
  ASSUME TypeOK, NEW i \in Invocations, Script(i) \/ Kill(i), ~ PostInsert(i)
  PROVE  /\ granted' = granted
         /\ Ran' = Ran \/ (Ran' = Ran \cup {i} /\ i \notin Ran)
<1>1. granted' = granted
  BY DEF Script, Start, LockboxRead, LockboxMove, PostRead, WaitLoop,
         TicketSelect, TicketConsume, StripRead, StripMove, Kill, dashVars
<1>2. pc[i] # "ran" /\ \E p \in InvPcs : pc' = [pc EXCEPT ![i] = p]
  <2>1. CASE Start(i) \/ PostRead(i) \/ WaitLoop(i) \/ Kill(i)
    BY <2>1 DEF Start, PostRead, WaitLoop, Kill, Go, InvPcs
  <2>2. CASE LockboxRead(i) \/ LockboxMove(i)
    BY <2>2 DEF LockboxRead, LockboxMove, ClaimRead, ClaimMove, Go, InvPcs
  <2>3. CASE TicketSelect(i) \/ TicketConsume(i)
    BY <2>3 DEF TicketSelect, TicketConsume, TicketAnswer, Go, InvPcs
  <2>4. CASE StripRead(i) \/ StripMove(i)
    BY <2>4 DEF StripRead, StripMove, Go, InvPcs
  <2> QED
    BY <2>1, <2>2, <2>3, <2>4 DEF Script
<1> QED
  BY <1>1, <1>2, OneMoves

\* A step grants at most one command, or lets at most one session run.
LEMMA StepEffect ==
  ASSUME IInv, [Next]_vars
  PROVE  \/ granted' = granted /\ Ran' = Ran
         \/ \E a \in Grant : granted' = granted \cup {a} /\ Ran' = Ran
         \/ \E i \in Invocations :
              granted' = granted /\ i \notin Ran /\ Ran' = Ran \cup {i}
<1>0. TypeOK
  BY DEF IInv, GrantsAgree
<1>1. CASE \E i \in Invocations : (Script(i) \/ Kill(i)) /\ ~ PostInsert(i)
  BY <1>0, <1>1, ScriptEffect
<1>2. CASE \E i \in Invocations : PostInsert(i)
  <2>1. PICK i \in Invocations : PostInsert(i)
    BY <1>2
  <2>2. Ran' = Ran
    BY <1>0, <2>1 DEF PostInsert, Go, Ran, TypeOK
  <2>3. [req |-> Len(requests) + 1, gw |-> GwOf[i], cmd |-> Decoded[CmdOf[i]],
         ts |-> now] \in Grant
    BY <1>0, TableType DEF Grant, TypeOK
  <2> QED
    BY <2>1, <2>2, <2>3 DEF PostInsert
<1>3. CASE \E r \in Rows : Approve(r)
  <2>1. PICK r \in Rows : Approve(r)
    BY <1>3
  <2>2. GrantOf(r) \in Grant
    <3>1. r \in Nat /\ requests[r] \in Row
      BY <1>0, TableType DEF Rows
    <3> QED
      BY <3>1 DEF GrantOf, Grant, Row
  <2>3. Ran' = Ran
    BY <2>1 DEF Approve, Ran
  <2> QED
    BY <2>1, <2>2, <2>3 DEF Approve
<1>4. CASE \/ Tick \/ expire_stale_requests
           \/ \E g \in Gateways, c \in Commands : LogRow(g, c)
           \/ \E r \in Rows : Deny(r)
           \/ \E before \in 0..now : Purge(before)
           \/ \E b \in BOOLEAN : SetFreeze(b)
           \/ \E g \in Gateways, b \in BOOLEAN : SetOverride(g, b)
  BY <1>4 DEF Tick, expire_stale_requests, LogRow, Deny, Purge, SetFreeze,
     SetOverride, Ran
<1>5. CASE \E g \in Gateways : Poller(g) \/ PollerRestart(g)
  BY <1>5 DEF Poller, PollerRestart, CleanLockbox, NothingToClean, MoveClean,
     SyncPolicy, PollSelect, PollConsume, PollDeposit, PollerBoot, Ran
<1>6. CASE UNCHANGED vars
  BY <1>6 DEF vars, Ran
<1> QED
  BY <1>1, <1>2, <1>3, <1>4, <1>5, <1>6 DEF Next, Operator

LEMMA InitRefines == Init => Approval!Init
  BY DEF Init, Approval!Init

LEMMA NextRefines ==
  ASSUME IInv, IInv', [Next]_vars
  PROVE  [Approval!Next]_<<Pairs, Ran>>
<1>1. CASE granted' = granted /\ Ran' = Ran
  BY <1>1 DEF Pairs
<1>2. CASE \E a \in Grant : granted' = granted \cup {a} /\ Ran' = Ran
  <2>1. PICK a \in Grant : granted' = granted \cup {a} /\ Ran' = Ran
    BY <1>2
  <2>2. Pairs' = Pairs \cup {<<a.gw, a.cmd>>}
    BY <2>1 DEF Pairs
  <2>3. Approval!Grant(a.gw, a.cmd)
    BY <2>1, <2>2 DEF Approval!Grant, Pairs, Ran
  <2>4. a.gw \in Gateways /\ a.cmd \in Commands
    BY DEF Grant
  <2> QED
    BY <2>3, <2>4 DEF Approval!Next
<1>3. CASE \E i \in Invocations :
             granted' = granted /\ i \notin Ran /\ Ran' = Ran \cup {i}
  <2>1. PICK i \in Invocations :
               granted' = granted /\ i \notin Ran /\ Ran' = Ran \cup {i}
    BY <1>3
  <2>2. <<GwOf[i], CmdOf[i]>> \in Pairs
    BY <2>1 DEF IInv, GrantsAgree, RunsGranted, CmdGranted, Ran, Pairs
  <2>3. Approval!Run(i)
    BY <2>1, <2>2 DEF Approval!Run, Pairs, Ran
  <2> QED
    BY <2>3 DEF Approval!Next
<1> QED
  BY <1>1, <1>2, <1>3, StepEffect

\* The table, the pollers, the lockboxes and the scripts together implement
\* approval as JitApproval states it: no run without an earlier grant for that
\* host and command, one run per session, no grant taken back.
THEOREM Refinement == Spec => ImplementsApproval
<1>1. Init => Approval!Init
  BY InitRefines
<1>2. IInv /\ IInv' /\ [Next]_vars => [Approval!Next]_<<Pairs, Ran>>
  BY NextRefines
<1> QED
  BY <1>1, <1>2, Invariance, PTL DEF Spec, ImplementsApproval, Approval!Spec, Pairs, Ran
=============================================================================
