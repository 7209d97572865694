----------------------- MODULE ApprovedWindowsProofs -----------------------
(***************************************************************************)
(* What a window grants and for which commands, for every set of windows,   *)
(* runs, commands and caps and any number of requests and lost answers.     *)
(***************************************************************************)
EXTENDS ApprovedWindows, FiniteSetTheorems, TLAPS

-----------------------------------------------------------------------------
(* The inductive invariant.                                                *)

Gone == {"none", "deleted"}
Granted(w) == {r \in Runs : run[r].counted /\ run[r].window = w}

\* A row that is enabled is there, and the history has seen its command; the history
\* of its cap is never behind.
RowGood(w) ==
  /\ row[w].enabled => row[w].status \notin Gone /\ row[w].cmd \in open[w]
  /\ row[w].status \notin Gone =>
       /\ row[w].max = 0 => cap[w] = -1
       /\ cap[w] # -1 => row[w].max <= cap[w]

\* The row counts every claim it granted.
ClaimsGood(w) ==
  /\ row[w].status # "deleted" => Cardinality(Granted(w)) <= row[w].count
  /\ row[w].status = "none" => row[w].count = 0
  /\ cap[w] # -1 => Cardinality(Granted(w)) <= cap[w]

\* A run waits for a claim on the word of a copy, which has only what was enabled.
RunGood(r) ==
  /\ run[r].stage # "done" => ~ run[r].counted
  /\ run[r].stage = "match" => run[r].result = "none"
  /\ run[r].stage \in {"read", "count"} \/ run[r].result = "run" => run[r].cmd \in open[run[r].window]

CacheGood == \A line \in cache : line.cmd \in open[line.window]

\* A denial that is on its way is of a request that nobody approves, and nothing
\* will enable what is pending or denied.
OpsGood(w) ==
  /\ (\E o \in ops : o.window = w) => row[w].status # "none"
  /\ w \notin overlap =>
       /\ ~ (Pending("approve", w) /\ Pending("deny", w))
       /\ Pending("deny", w) => row[w].status # "active"
       /\ row[w].status \in {"pending_review", "denied"} => ~ row[w].enabled /\ ~ Pending("toggle", w)

IInv ==
  /\ TypeOK /\ CacheGood
  /\ \A w \in Windows : RowGood(w) /\ ClaimsGood(w) /\ OpsGood(w)
  /\ \A r \in Runs : RunGood(r)

-----------------------------------------------------------------------------
(* Types.                                                                  *)

RunRecords == [stage : {"match", "read", "count", "done"}, window : Windows, cmd : Cmds,
               result : {"none", "run", "rejected"}, counted : BOOLEAN]
Lines == [window : Windows, cmd : Cmds, schedule : Schedules]

TablesType ==
  /\ row \in [Windows -> Row]
  /\ open \in [Windows -> SUBSET Cmds] /\ cap \in [Windows -> Nat \cup {-1}]

RestType ==
  /\ over \subseteq Windows /\ due \subseteq Windows /\ ops \subseteq Ops
  /\ cache \subseteq Lines /\ overlap \subseteq Windows /\ fuel \in 0..Budget

LEMMA TypeParts == TypeOK <=> TablesType /\ RestType /\ run \in [Runs -> RunRecords]
  BY DEF TypeOK, TablesType, RestType, RunRecords, Lines

LEMMA TypePartsNext == TypeOK' <=> TablesType' /\ RestType' /\ run' \in [Runs -> RunRecords]
  BY DEF TypeOK, TablesType, RestType, RunRecords, Lines

LEMMA NoRowType == ASSUME ConstantsAssumption PROVE AnyCmd \in Cmds /\ NoRow \in Row
<1>1. AnyCmd \in Cmds
  BY DEF AnyCmd, ConstantsAssumption
<1> QED
  BY <1>1 DEF NoRow, Row, Statuses, Schedules

LEMMA GrantedFinite ==
  ASSUME ConstantsAssumption, NEW w \in Windows
  PROVE  IsFiniteSet(Granted(w)) /\ Cardinality(Granted(w)) \in Nat
<1>1. Granted(w) \in SUBSET Runs /\ IsFiniteSet(Runs)
  BY DEF Granted, ConstantsAssumption
<1> QED
  BY <1>1, FS_Subset, FS_CardinalityType

LEMMA InitInv == ASSUME ConstantsAssumption, Init PROVE IInv
<1>1. TypeOK
  <2>1. TablesType
    BY NoRowType DEF Init, TablesType
  <2>2. RestType
    BY DEF Init, RestType, ConstantsAssumption
  <2>3. (CHOOSE w \in Windows : TRUE) \in Windows
    BY DEF ConstantsAssumption
  <2>4. run \in [Runs -> RunRecords]
    BY <2>3, NoRowType DEF Init, RunRecords
  <2> QED
    BY <2>1, <2>2, <2>4, TypeParts
<1>2. CacheGood /\ \A r \in Runs : RunGood(r)
  BY DEF Init, CacheGood, RunGood
<1>3. \A w \in Windows : RowGood(w) /\ OpsGood(w)
  BY DEF Init, RowGood, OpsGood, NoRow, Pending, Gone
<1>4. \A w \in Windows : ClaimsGood(w)
  <2> SUFFICES ASSUME NEW w \in Windows PROVE ClaimsGood(w)
    OBVIOUS
  <2>1. Granted(w) = {}
    BY DEF Init, Granted
  <2>2. Cardinality(Granted(w)) = 0
    BY <2>1, FS_EmptySet
  <2> QED
    BY <2>2 DEF Init, ClaimsGood, NoRow
<1> QED
  BY <1>1, <1>2, <1>3, <1>4 DEF IInv

-----------------------------------------------------------------------------
(* Writes of the table.                                                    *)

\* A row that has a sequel in the table: only one that was never there has no past.
Sequel(old, new) ==
  /\ new.enabled => new.status \notin Gone
  /\ new.status = "none" => old.status = "none" /\ new.count = 0
  /\ new.status # "deleted" => old.status # "deleted" /\ old.count <= new.count

\* What every write does to the history.
LEMMA SetRowsHistory ==
  ASSUME ConstantsAssumption, TypeOK, NEW new \in [Windows -> Row], SetRows(new),
         \A w \in Windows : Sequel(row[w], new[w])
  PROVE  /\ TablesType' /\ row' = new
         /\ \A w \in Windows : /\ RowGood(w)'
                               /\ open[w] \subseteq open'[w]
                               /\ cap'[w] # -1 => cap[w] # -1 /\ cap[w] <= cap'[w]
<1>1. row \in [Windows -> Row] /\ open \in [Windows -> SUBSET Cmds] /\ cap \in [Windows -> Nat \cup {-1}]
  BY TypeParts DEF TablesType
<1>2. \A w \in Windows : new[w].cmd \in Cmds /\ new[w].max \in Nat
  <2>1. \A w \in Windows : new[w].cmd \in Cmds /\ new[w].max \in Caps \cup {0}
    BY DEF Row
  <2>2. Caps \cup {0} \subseteq Nat
    BY DEF ConstantsAssumption
  <2> QED
    BY <2>1, <2>2
<1>3. row' = new
  BY DEF SetRows
<1>4. \A w \in Windows : open'[w] = open[w] \cup {c \in {new[w].cmd} : new[w].enabled}
  BY DEF SetRows
<1>5. open' \in [Windows -> SUBSET Cmds]
  BY <1>1, <1>2 DEF SetRows
<1> DEFINE H(w) == IF new[w].status \in {"none", "deleted"} THEN cap[w]
                   ELSE IF new[w].max = 0 \/ cap[w] = -1 THEN -1
                   ELSE IF new[w].max > cap[w] THEN new[w].max ELSE cap[w]
<1>6. cap' = [w \in Windows |-> H(w)]
  BY DEF SetRows
<1>7. \A w \in Windows :
        /\ H(w) \in Nat \cup {-1}
        /\ H(w) # -1 => cap[w] # -1 /\ cap[w] <= H(w)
        /\ new[w].status \notin Gone => /\ new[w].max = 0 => H(w) = -1
                                        /\ H(w) # -1 => new[w].max <= H(w)
  BY <1>1, <1>2 DEF Gone
<1> HIDE DEF H
<1>8. TablesType' /\ \A w \in Windows : cap'[w] = H(w)
  BY <1>3, <1>5, <1>6, <1>7 DEF TablesType
<1>9. \A w \in Windows : RowGood(w)'
  BY <1>3, <1>4, <1>7, <1>8 DEF RowGood, Sequel
<1> QED
  BY <1>3, <1>4, <1>7, <1>8, <1>9

\* A write of the table that is no claim.
LEMMA TableStep ==
  ASSUME ConstantsAssumption, IInv, NEW new \in [Windows -> Row], SetRows(new),
         UNCHANGED <<cache, run>>, \A w \in Windows : Sequel(row[w], new[w])
  PROVE  /\ TablesType' /\ row' = new /\ CacheGood'
         /\ \A w \in Windows : RowGood(w)' /\ ClaimsGood(w)'
         /\ \A r \in Runs : RunGood(r)'
<1>1. /\ TablesType' /\ row' = new
      /\ \A w \in Windows : /\ RowGood(w)' /\ open[w] \subseteq open'[w]
                            /\ cap'[w] # -1 => cap[w] # -1 /\ cap[w] <= cap'[w]
  BY SetRowsHistory DEF IInv
<1>2. CacheGood' /\ \A r \in Runs : RunGood(r)'
  BY <1>1, TypeParts DEF IInv, CacheGood, RunGood, RestType, Lines, RunRecords
<1>3. ASSUME NEW w \in Windows PROVE ClaimsGood(w)'
  <2>1. Granted(w)' = Granted(w) /\ Cardinality(Granted(w)) \in Nat
    BY GrantedFinite DEF Granted
  <2>2. row[w].count \in Nat /\ new[w].count \in Nat /\ cap[w] \in Nat \cup {-1} /\ cap'[w] \in Nat \cup {-1}
    BY <1>1, TypeParts DEF IInv, TablesType, Row
  <2>3. ClaimsGood(w) /\ Sequel(row[w], new[w])
    BY DEF IInv
  <2> QED
    BY <1>1, <2>1, <2>2, <2>3 DEF ClaimsGood, Sequel
<1> QED
  BY <1>1, <1>2, <1>3

\* A row as it is, or with another setting, is a sequel of itself.
LEMMA ListedSequel ==
  ASSUME IInv
  PROVE  /\ Listed \in [Windows -> Row] /\ row \in [Windows -> Row]
         /\ \A w \in Windows : /\ Sequel(row[w], row[w]) /\ Sequel(row[w], Listed[w])
                               /\ Listed[w].status = row[w].status
                               /\ Listed[w].enabled => row[w].enabled
<1>1. row \in [Windows -> Row]
  BY TypeParts DEF IInv, TablesType
<1>2. \A w \in Windows : RowGood(w) /\ ClaimsGood(w) /\ row[w].count \in Nat
  BY <1>1 DEF IInv, Row
<1>3. \A w \in Windows : Sequel(row[w], row[w])
  BY <1>2 DEF Sequel, RowGood, ClaimsGood
<1>4. ASSUME NEW w \in Windows
      PROVE  /\ Listed[w] \in Row /\ Listed[w].status = row[w].status
             /\ Listed[w].count = row[w].count /\ (Listed[w].enabled => row[w].enabled)
  BY <1>1 DEF Listed, Row
<1>5. Listed \in [Windows -> Row]
  BY <1>4 DEF Listed
<1> QED
  BY <1>1, <1>3, <1>4, <1>5 DEF Sequel

LEMMA RequestType == ASSUME ConstantsAssumption, TypeOK, Request PROVE fuel' \in 0..Budget
  BY DEF ConstantsAssumption, TypeOK, Request

\* The read of a request, and what it may make of the table.
LEMMA StartKeeps ==
  ASSUME ConstantsAssumption, IInv, NEW w \in Windows,
         NEW kind \in {"toggle", "edit", "delete", "approve", "deny"}, NEW to \in BOOLEAN,
         Start(kind, w, to), NEW new \in {Listed, row}, SetRows(new),
         row[w].status # "none",
         kind = "toggle" => row[w].status = "active",
         kind = "deny" => row[w].status = "pending_review"
  PROVE  IInv'
<1> DEFINE o == [kind |-> kind, window |-> w, to |-> to]
<1>1. Request /\ ops' = ops \cup {o}
  BY DEF Start
<1>2. /\ TablesType' /\ row' = new /\ CacheGood'
      /\ \A x \in Windows : RowGood(x)' /\ ClaimsGood(x)'
      /\ \A r \in Runs : RunGood(r)'
  BY <1>1, ListedSequel, TableStep DEF Request
<1>3. overlap' = overlap \cup
       {x \in {w} : (kind = "approve" /\ Pending("deny", w)) \/ (kind = "deny" /\ Pending("approve", w))}
  BY DEF Start
<1>4. TypeOK'
  <2>1. o \in Ops
    BY DEF Ops
  <2>2. RestType'
    BY <1>1, <1>3, <2>1, RequestType, TypeParts DEF IInv, RestType, Request
  <2>3. run' \in [Runs -> RunRecords]
    BY <1>1, TypeParts DEF IInv, Request
  <2> QED
    BY <1>2, <2>2, <2>3, TypePartsNext
<1>5. \A x \in Windows : new[x].status = row[x].status /\ (new[x].enabled => row[x].enabled)
  BY ListedSequel
<1>6. ASSUME NEW x \in Windows PROVE OpsGood(x)'
  <2>1. OpsGood(x)
    BY DEF IInv
  <2>2. row'[x].status = row[x].status /\ (row'[x].enabled => row[x].enabled)
    BY <1>2, <1>5
  <2>3. \A k : Pending(k, x)' <=> Pending(k, x) \/ (k = kind /\ x = w)
    <3>1. o.kind = kind /\ o.window = w
      OBVIOUS
    <3> HIDE DEF o
    <3> QED
      BY <1>1, <3>1 DEF Pending
  <2>4. (\E p \in ops' : p.window = x) => row'[x].status # "none"
    BY <1>1, <2>1, <2>2 DEF OpsGood
  <2>5. ASSUME x \notin overlap'
        PROVE  /\ ~ (Pending("approve", x)' /\ Pending("deny", x)')
               /\ Pending("deny", x)' => row'[x].status # "active"
               /\ row'[x].status \in {"pending_review", "denied"} =>
                    ~ row'[x].enabled /\ ~ Pending("toggle", x)'
    <3>1. x \notin overlap
      BY <1>3, <2>5
    <3>2. x = w => /\ kind = "approve" => ~ Pending("deny", x)
                   /\ kind = "deny" => ~ Pending("approve", x)
      BY <1>3, <2>5
    <3>3. /\ ~ (Pending("approve", x) /\ Pending("deny", x))
          /\ Pending("deny", x) => row[x].status # "active"
          /\ row[x].status \in {"pending_review", "denied"} => ~ row[x].enabled /\ ~ Pending("toggle", x)
      BY <2>1, <3>1 DEF OpsGood
    <3> QED
      BY <2>2, <2>3, <3>2, <3>3
  <2> QED
    BY <2>4, <2>5 DEF OpsGood
<1> QED
  BY <1>2, <1>4, <1>6 DEF IInv

LEMMA RequestsKeep ==
  ASSUME ConstantsAssumption, IInv, Toggle \/ EditOrDelete \/ ApproveOrDeny PROVE IInv'
<1>1. ASSUME Toggle PROVE IInv'
  <2>1. PICK w \in Windows : row[w].status = "active" /\ Start("toggle", w, ~ Listed[w].enabled)
    BY <1>1 DEF Toggle
  <2>2. (~ Listed[w].enabled) \in BOOLEAN
    BY Z3
  <2> QED
    BY <1>1, <2>1, <2>2, StartKeeps DEF Toggle
<1>2. ASSUME EditOrDelete PROVE IInv'
  <2>1. PICK w \in Windows, kind \in {"edit", "delete"} : Exists(w) /\ Start(kind, w, FALSE)
    BY <1>2 DEF EditOrDelete
  <2> QED
    BY <1>2, <2>1, StartKeeps DEF EditOrDelete, Exists
<1>3. ASSUME ApproveOrDeny PROVE IInv'
  <2>1. PICK w \in Windows, kind \in {"approve", "deny"} :
          row[w].status = "pending_review" /\ Start(kind, w, FALSE)
    BY <1>3 DEF ApproveOrDeny
  <2> QED
    BY <1>3, <2>1, StartKeeps DEF ApproveOrDeny
<1> QED
  BY <1>1, <1>2, <1>3

LEMMA CreateKeeps == ASSUME ConstantsAssumption, IInv, Create PROVE IInv'
<1>1. PICK w \in Windows, m \in Caps, s \in Schedules, status \in {"active", "pending_review"} :
        /\ row[w].status = "none"
        /\ SetRow(w, [NoRow EXCEPT !.status = status, !.enabled = (status = "active"),
                                   !.max = m, !.schedule = s])
  BY DEF Create
<1> DEFINE one == [NoRow EXCEPT !.status = status, !.enabled = (status = "active"),
                                !.max = m, !.schedule = s]
           new == [row EXCEPT ![w] = one]
<1>2. /\ one \in Row /\ one.status = status /\ one.enabled = (status = "active") /\ one.count = 0
  BY NoRowType DEF NoRow, Row, Statuses
<1>3. SetRows(new)
  BY <1>1 DEF SetRow
<1> HIDE DEF one
<1>4. row \in [Windows -> Row] /\ \A x \in Windows : Sequel(row[x], row[x])
  BY ListedSequel
<1>5. new \in [Windows -> Row] /\ new[w] = one /\ \A x \in Windows \ {w} : new[x] = row[x]
  BY <1>2, <1>4
<1>6. row[w].count = 0
  BY <1>1 DEF IInv, ClaimsGood
<1>7. \A x \in Windows : Sequel(row[x], new[x])
  BY <1>1, <1>2, <1>4, <1>5, <1>6 DEF Sequel, Gone
<1> HIDE DEF new
<1>8. UNCHANGED <<over, due, cache, run, ops, overlap>> /\ Request
  BY DEF Create, Request
<1>9. /\ TablesType' /\ row' = new /\ CacheGood'
      /\ \A x \in Windows : RowGood(x)' /\ ClaimsGood(x)'
      /\ \A r \in Runs : RunGood(r)'
  BY <1>3, <1>5, <1>7, <1>8, TableStep
<1>10. TypeOK'
  <2>1. RestType' /\ run' \in [Runs -> RunRecords]
    BY <1>8, RequestType, TypeParts DEF IInv, RestType
  <2> QED
    BY <1>9, <2>1, TypePartsNext
<1>11. \A x \in Windows : OpsGood(x)'
  <2> SUFFICES ASSUME NEW x \in Windows PROVE OpsGood(x)'
    OBVIOUS
  <2>1. OpsGood(x)
    BY DEF IInv
  <2>2. \A k : Pending(k, x)' <=> Pending(k, x)
    BY <1>8 DEF Pending
  <2>3. CASE x # w
    BY <1>5, <1>8, <1>9, <2>1, <2>2, <2>3 DEF OpsGood
  <2>4. CASE x = w
    <3>1. ~ \E o \in ops : o.window = x
      BY <1>1, <2>1, <2>4 DEF OpsGood
    <3>2. \A k : ~ Pending(k, x)'
      BY <2>2, <3>1 DEF Pending
    <3>3. row'[x] = one
      BY <1>5, <1>9, <2>4
    <3> QED
      BY <1>2, <1>8, <3>1, <3>2, <3>3 DEF OpsGood
  <2> QED
    BY <2>3, <2>4
<1> QED
  BY <1>9, <1>10, <1>11 DEF IInv

\* The write of a request, whatever it finds.
LEMMA WriteKeeps == ASSUME ConstantsAssumption, IInv, NEW o \in ops, Write(o) PROVE IInv'
<1> DEFINE w == o.window
<1>1. o \in Ops /\ w \in Windows /\ ops' = ops \ {o} /\ UNCHANGED <<over, due, cache, run, overlap, fuel>>
  BY TypeParts DEF IInv, RestType, Ops, Write, Finish
<1>2. row \in [Windows -> Row] /\ \A x \in Windows : Sequel(row[x], row[x])
  BY ListedSequel
<1>3. OpsGood(w) /\ RowGood(w) /\ ClaimsGood(w) /\ Pending(o.kind, w)
  BY <1>1 DEF IInv, Pending
<1>4. PICK one \in Row :
        /\ SetRows([row EXCEPT ![w] = one])
        /\ Sequel(row[w], one)
        /\ row[w].status # "none" => one.status # "none"
        /\ w \notin overlap =>
             /\ Pending("deny", w) => one.status # "active"
             /\ one.status \in {"pending_review", "denied"} => ~ one.enabled /\ ~ Pending("toggle", w)
  <2>1. CASE ~ Exists(w)
    <3>1. [row EXCEPT ![w] = row[w]] = row
      BY <1>1, <1>2
    <3>2. SetRows([row EXCEPT ![w] = row[w]])
      BY <2>1, <3>1 DEF Write
    <3> QED
      BY <1>1, <1>2, <1>3, <2>1, <3>2 DEF OpsGood, Exists
  <2>2. CASE Exists(w)
    <3>0. row[w] \in Row /\ row[w].status \notin Gone
      BY <1>1, <1>2, <2>2 DEF Exists, Gone
    <3>1. CASE o.kind = "toggle"
      <4> DEFINE one == [row[w] EXCEPT !.enabled = o.to]
      <4>1. /\ one \in Row /\ one.status = row[w].status /\ one.count = row[w].count
        BY <1>1, <3>0 DEF Row, Ops
      <4>2. SetRows([row EXCEPT ![w] = one])
        BY <2>2, <3>1 DEF Write, SetRow
      <4> HIDE DEF one
      <4>3. Sequel(row[w], one)
        BY <1>2, <1>1, <3>0, <4>1 DEF Sequel
      <4> QED
        BY <1>3, <3>0, <3>1, <4>1, <4>2, <4>3 DEF OpsGood, Gone
    <3>2. CASE o.kind = "edit"
      <4>1. PICK m \in Caps, c \in Cmds : SetRow(w, [row[w] EXCEPT !.max = m, !.cmd = c])
        BY <2>2, <3>2 DEF Write
      <4> DEFINE one == [row[w] EXCEPT !.max = m, !.cmd = c]
      <4>2. /\ one \in Row /\ one.status = row[w].status /\ one.count = row[w].count
            /\ one.enabled = row[w].enabled
        BY <3>0 DEF Row
      <4>3. SetRows([row EXCEPT ![w] = one])
        BY <4>1 DEF SetRow
      <4> HIDE DEF one
      <4>4. Sequel(row[w], one)
        BY <1>2, <1>1, <3>0, <4>2 DEF Sequel
      <4> QED
        BY <1>3, <3>0, <3>2, <4>2, <4>3, <4>4 DEF OpsGood, Gone
    <3>3. CASE o.kind = "delete"
      <4> DEFINE one == [NoRow EXCEPT !.status = "deleted"]
      <4>1. one \in Row /\ one.status = "deleted" /\ one.enabled = FALSE
        BY NoRowType DEF NoRow, Row, Statuses
      <4>2. SetRows([row EXCEPT ![w] = one])
        BY <2>2, <3>3 DEF Write, SetRow
      <4> HIDE DEF one
      <4> QED
        BY <4>1, <4>2 DEF Sequel
    <3>4. CASE o.kind = "approve" /\ row[w].status = "pending_review"
      <4> DEFINE one == [row[w] EXCEPT !.status = "active", !.enabled = TRUE]
      <4>1. one \in Row /\ one.status = "active" /\ one.enabled = TRUE /\ one.count = row[w].count
        BY <3>0 DEF Row, Statuses
      <4>2. SetRows([row EXCEPT ![w] = one])
        BY <2>2, <3>4 DEF Write, SetRow
      <4> HIDE DEF one
      <4>3. Sequel(row[w], one)
        BY <1>1, <1>2, <3>4, <4>1 DEF Sequel, Gone
      <4>4. w \notin overlap => ~ Pending("deny", w)
        BY <1>3, <3>4 DEF OpsGood
      <4> QED
        BY <4>1, <4>2, <4>3, <4>4
    <3>5. CASE o.kind = "approve" /\ row[w].status # "pending_review"
      <4>1. SetRows([row EXCEPT ![w] = row[w]])
        BY <2>2, <3>5 DEF Write, SetRow
      <4> QED
        BY <1>1, <1>2, <1>3, <3>0, <3>5, <4>1 DEF OpsGood
    <3>6. CASE o.kind = "deny"
      <4> DEFINE one == [row[w] EXCEPT !.status = "denied"]
      <4>1. one \in Row /\ one.status = "denied" /\ one.enabled = row[w].enabled /\ one.count = row[w].count
        BY <3>0 DEF Row, Statuses
      <4>2. SetRows([row EXCEPT ![w] = one])
        BY <2>2, <3>6 DEF Write, SetRow
      <4> HIDE DEF one
      <4>3. Sequel(row[w], one)
        BY <1>1, <1>2, <3>0, <4>1 DEF Sequel, Gone
      <4>4. w \notin overlap => row[w].status \in {"pending_review", "denied"}
        BY <1>3, <3>0, <3>6 DEF OpsGood, Row, Statuses, Gone
      <4> QED
        BY <1>3, <3>6, <4>1, <4>2, <4>3, <4>4 DEF OpsGood
    <3> QED
      BY <1>1, <3>1, <3>2, <3>3, <3>4, <3>5, <3>6 DEF Ops
  <2> QED
    BY <2>1, <2>2
<1> DEFINE new == [row EXCEPT ![w] = one]
<1>5. new \in [Windows -> Row] /\ new[w] = one /\ \A x \in Windows \ {w} : new[x] = row[x]
  BY <1>1, <1>2
<1>6. SetRows(new) /\ \A x \in Windows : Sequel(row[x], new[x])
  BY <1>2, <1>4, <1>5
<1> HIDE DEF new
<1>7. /\ TablesType' /\ row' = new /\ CacheGood'
      /\ \A x \in Windows : RowGood(x)' /\ ClaimsGood(x)'
      /\ \A r \in Runs : RunGood(r)'
  BY <1>1, <1>5, <1>6, TableStep
<1>8. TypeOK'
  <2>1. RestType' /\ run' \in [Runs -> RunRecords]
    BY <1>1, TypeParts DEF IInv, RestType
  <2> QED
    BY <1>7, <2>1, TypePartsNext
<1>9. ASSUME NEW x \in Windows PROVE OpsGood(x)'
  <2>1. OpsGood(x)
    BY DEF IInv
  <2>2. \A k : Pending(k, x)' => Pending(k, x)
    BY <1>1 DEF Pending
  <2>3. CASE x # w
    BY <1>1, <1>5, <1>7, <2>1, <2>2, <2>3 DEF OpsGood
  <2>4. CASE x = w
    <3>1. row'[x] = one /\ row[w].status # "none"
      BY <1>3, <1>5, <1>7, <2>4 DEF OpsGood, Pending
    <3> QED
      BY <1>1, <1>4, <2>1, <2>2, <2>4, <3>1 DEF OpsGood
  <2> QED
    BY <2>3, <2>4
<1> QED
  BY <1>7, <1>8, <1>9 DEF IInv

-----------------------------------------------------------------------------
(* The gateway.                                                            *)

\* A step of a run that claims nothing and leaves the table alone.
LEMMA RunFrame ==
  ASSUME IInv, NEW r \in Runs, NEW new \in RunRecords, run' = [run EXCEPT ![r] = new],
         UNCHANGED <<row, over, due, ops, cache, open, cap, overlap>>, fuel' \in 0..Budget,
         ~ run[r].counted, ~ new.counted, RunGood(r)'
  PROVE  IInv'
<1>1. run \in [Runs -> RunRecords]
  BY TypeParts DEF IInv
<1>2. TypeOK'
  <2>1. TablesType' /\ RestType'
    BY TypeParts DEF IInv, TablesType, RestType
  <2>2. run' \in [Runs -> RunRecords]
    BY <1>1
  <2> QED
    BY <2>1, <2>2, TypePartsNext
<1>3. \A x \in Runs \ {r} : RunGood(x)'
  BY <1>1 DEF IInv, RunGood
<1>4. \A w \in Windows : Granted(w)' = Granted(w)
  BY <1>1 DEF Granted
<1>5. CacheGood' /\ \A w \in Windows : RowGood(w)' /\ ClaimsGood(w)' /\ OpsGood(w)'
  BY <1>4 DEF IInv, CacheGood, RowGood, ClaimsGood, OpsGood, Pending
<1> QED
  BY <1>2, <1>3, <1>5 DEF IInv

LEMMA MatchKeeps == ASSUME IInv, NEW r \in Runs, Match(r) PROVE IInv'
<1>0. run[r] \in RunRecords /\ run \in [Runs -> RunRecords] /\ fuel' \in 0..Budget
  BY TypeParts DEF IInv, Match, RestType
<1>1. ~ run[r].counted /\ run[r].result = "none"
  BY DEF IInv, RunGood, Match
<1>2. PICK w \in Windows, c \in Cmds :
        \/ /\ \E line \in cache : line.window = w /\ Fits(line, c)
           /\ Set(r, [run[r] EXCEPT !.stage = "read", !.window = w, !.cmd = c])
        \/ Set(r, [run[r] EXCEPT !.stage = "done", !.window = w, !.cmd = c, !.result = "rejected"])
  BY DEF Match
<1>3. CASE /\ \E line \in cache : line.window = w /\ Fits(line, c)
           /\ Set(r, [run[r] EXCEPT !.stage = "read", !.window = w, !.cmd = c])
  <2> DEFINE new == [run[r] EXCEPT !.stage = "read", !.window = w, !.cmd = c]
  <2>1. /\ new \in RunRecords /\ new.stage = "read" /\ new.window = w /\ new.cmd = c
        /\ new.result = run[r].result /\ new.counted = run[r].counted
    BY <1>0 DEF RunRecords
  <2>2. run' = [run EXCEPT ![r] = new] /\ UNCHANGED <<row, over, due, ops, cache, open, cap, overlap>>
    BY <1>3 DEF Match, Set
  <2> HIDE DEF new
  <2>3. run'[r] = new
    BY <1>0, <2>2
  <2>4. c \in open[w]
    BY <1>3 DEF IInv, CacheGood, Fits
  <2>5. RunGood(r)'
    BY <1>1, <2>1, <2>2, <2>3, <2>4 DEF RunGood
  <2> QED
    BY <1>0, <1>1, <2>1, <2>2, <2>5, RunFrame
<1>4. CASE Set(r, [run[r] EXCEPT !.stage = "done", !.window = w, !.cmd = c, !.result = "rejected"])
  <2> DEFINE new == [run[r] EXCEPT !.stage = "done", !.window = w, !.cmd = c, !.result = "rejected"]
  <2>1. /\ new \in RunRecords /\ new.stage = "done" /\ new.result = "rejected"
        /\ new.counted = run[r].counted
    BY <1>0 DEF RunRecords
  <2>2. run' = [run EXCEPT ![r] = new] /\ UNCHANGED <<row, over, due, ops, cache, open, cap, overlap>>
    BY <1>4 DEF Match, Set
  <2> HIDE DEF new
  <2>3. run'[r] = new
    BY <1>0, <2>2
  <2>4. RunGood(r)'
    BY <2>1, <2>3 DEF RunGood
  <2> QED
    BY <1>0, <1>1, <2>1, <2>2, <2>4, RunFrame
<1> QED
  BY <1>2, <1>3, <1>4

LEMMA GiveUpKeeps == ASSUME ConstantsAssumption, IInv, NEW r \in Runs, GiveUp(r) PROVE IInv'
<1>0. run[r] \in RunRecords /\ run \in [Runs -> RunRecords]
  BY TypeParts DEF IInv
<1>1. PICK stage \in {run[r].stage, "done"} :
        /\ run[r].stage = "count" => stage = "count"
        /\ Set(r, [run[r] EXCEPT !.stage = stage, !.result = "run"])
  BY DEF GiveUp
<1> DEFINE new == [run[r] EXCEPT !.stage = stage, !.result = "run"]
<1>2. /\ new \in RunRecords /\ new.stage = stage /\ new.result = "run" /\ new.window = run[r].window
      /\ new.cmd = run[r].cmd /\ new.counted = run[r].counted
  BY <1>0, <1>1 DEF RunRecords
<1>3. run' = [run EXCEPT ![r] = new] /\ UNCHANGED <<row, over, due, ops, cache, open, cap, overlap>>
  BY <1>1 DEF GiveUp, Set
<1> HIDE DEF new
<1>4. run'[r] = new
  BY <1>0, <1>3
<1>5. ~ run[r].counted /\ run[r].cmd \in open[run[r].window] /\ run[r].stage \in {"read", "count"}
  BY DEF IInv, RunGood, GiveUp
<1>6. RunGood(r)'
  BY <1>2, <1>3, <1>4, <1>5 DEF RunGood
<1>7. fuel' \in 0..Budget
  BY TypeParts DEF ConstantsAssumption, GiveUp, IInv, RestType
<1> QED
  BY <1>2, <1>3, <1>5, <1>6, <1>7, RunFrame

\* What a claim's endpoint leaves of a run: the script may have gone on already.
LEMMA AnsweredFields ==
  ASSUME IInv, NEW r \in Runs, NEW stage \in {"done"}, NEW result \in {"run", "rejected"}
  PROVE  LET a == Answered(r, stage, result) IN
         /\ a \in RunRecords /\ a.stage = stage /\ a.window = run[r].window /\ a.cmd = run[r].cmd
         /\ a.counted = run[r].counted
         /\ a.result = "run" => run[r].result = "run" \/ result = "run"
<1>1. run[r] \in RunRecords
  BY TypeParts DEF IInv
<1> QED
  BY <1>1 DEF Answered, RunRecords

\* A write of the table by a run that claims nothing.
LEMMA RunTableStep ==
  ASSUME ConstantsAssumption, IInv, NEW r \in Runs, NEW one \in RunRecords,
         run' = [run EXCEPT ![r] = one], NEW new \in {Listed, row}, SetRows(new),
         UNCHANGED <<over, due, ops, cache, overlap, fuel>>,
         ~ run[r].counted, ~ one.counted, one.window = run[r].window, one.cmd = run[r].cmd,
         run[r].cmd \in open[run[r].window], one.stage # "match"
  PROVE  IInv'
<1>0. run \in [Runs -> RunRecords] /\ open \in [Windows -> SUBSET Cmds]
  BY TypeParts DEF IInv, TablesType
<1>1. /\ new \in [Windows -> Row] /\ \A w \in Windows : Sequel(row[w], new[w])
  BY ListedSequel
<1>2. \A w \in Windows : new[w].status = row[w].status /\ (new[w].enabled => row[w].enabled)
  BY ListedSequel
<1>3. /\ TablesType' /\ row' = new
      /\ \A w \in Windows : /\ RowGood(w)' /\ open[w] \subseteq open'[w]
                            /\ cap'[w] # -1 => cap[w] # -1 /\ cap[w] <= cap'[w]
  BY <1>1, SetRowsHistory DEF IInv
<1>4. TypeOK'
  <2>1. RestType'
    BY TypeParts DEF IInv, RestType
  <2>2. run' \in [Runs -> RunRecords]
    BY <1>0
  <2> QED
    BY <1>3, <2>1, <2>2, TypePartsNext
<1>5. \A w \in Windows : OpsGood(w)'
  BY <1>2, <1>3 DEF IInv, OpsGood, Pending
<1>6. CacheGood'
  BY <1>3, TypeParts DEF IInv, CacheGood, RestType, Lines
<1>7. \A x \in Runs : RunGood(x)'
  <2> SUFFICES ASSUME NEW x \in Runs PROVE RunGood(x)'
    OBVIOUS
  <2>1. run[x].window \in Windows /\ RunGood(x)
    BY <1>0 DEF IInv, RunRecords
  <2>2. CASE x = r
    BY <1>0, <1>3, <2>1, <2>2 DEF RunGood
  <2>3. CASE x # r
    BY <1>0, <1>3, <2>1, <2>3 DEF RunGood
  <2> QED
    BY <2>2, <2>3
<1>8. ASSUME NEW w \in Windows PROVE ClaimsGood(w)'
  <2>1. Granted(w)' = Granted(w) /\ Cardinality(Granted(w)) \in Nat
    BY <1>0, GrantedFinite DEF Granted
  <2>2. row[w].count \in Nat /\ new[w].count \in Nat /\ cap[w] \in Nat \cup {-1} /\ cap'[w] \in Nat \cup {-1}
    BY <1>1, <1>3, TypeParts DEF IInv, TablesType, Row
  <2>3. ClaimsGood(w) /\ Sequel(row[w], new[w])
    BY <1>1 DEF IInv
  <2> QED
    BY <1>3, <2>1, <2>2, <2>3 DEF ClaimsGood, Sequel
<1> QED
  BY <1>3, <1>4, <1>5, <1>6, <1>7, <1>8 DEF IInv

LEMMA FindKeeps == ASSUME ConstantsAssumption, IInv, NEW r \in Runs, Find(r) PROVE IInv'
<1>0. run[r] \in RunRecords
  BY TypeParts DEF IInv
<1>1. ~ run[r].counted /\ run[r].cmd \in open[run[r].window]
  BY DEF IInv, RunGood, Find
<1>2. PICK one \in RunRecords :
        /\ run' = [run EXCEPT ![r] = one]
        /\ ~ one.counted /\ one.window = run[r].window /\ one.cmd = run[r].cmd /\ one.stage # "match"
  <2>1. CASE Exists(run[r].window)
    <3> DEFINE one == [run[r] EXCEPT !.stage = "count"]
    <3>1. /\ one \in RunRecords /\ one.stage = "count" /\ one.window = run[r].window
          /\ one.cmd = run[r].cmd /\ one.counted = run[r].counted
      BY <1>0 DEF RunRecords
    <3>2. run' = [run EXCEPT ![r] = one]
      BY <2>1 DEF Find, Set
    <3> HIDE DEF one
    <3> QED
      BY <1>1, <3>1, <3>2
  <2>2. CASE ~ Exists(run[r].window)
    <3> DEFINE one == Answered(r, "done", "rejected")
    <3>1. /\ one \in RunRecords /\ one.stage = "done" /\ one.window = run[r].window
          /\ one.cmd = run[r].cmd /\ one.counted = run[r].counted
      BY AnsweredFields
    <3>2. run' = [run EXCEPT ![r] = one]
      BY <2>2 DEF Find, Set
    <3> HIDE DEF one
    <3> QED
      BY <1>1, <3>1, <3>2
  <2> QED
    BY <2>1, <2>2
<1>3. SetRows(Listed) /\ UNCHANGED <<over, due, ops, cache, overlap, fuel>>
  BY DEF Find
<1> QED
  BY <1>1, <1>2, <1>3, RunTableStep

\* A claim that is granted counts once in the row and once in the runs.
LEMMA GrantKeeps ==
  ASSUME ConstantsAssumption, IInv, NEW r \in Runs, Count(r), Claimable(run[r].window) PROVE IInv'
<1>w. run[r].window \in Windows
  BY TypeParts DEF IInv, RunRecords
<1> PICK w \in Windows : w = run[r].window
  BY <1>w
<1> DEFINE one == [Answered(r, "done", "run") EXCEPT !.counted = TRUE]
           counted == Counted(w)
           new == [row EXCEPT ![w] = counted]
<1>0. /\ run \in [Runs -> RunRecords] /\ open \in [Windows -> SUBSET Cmds] /\ run[r] \in RunRecords
      /\ row \in [Windows -> Row] /\ w \in Windows /\ row[w] \in Row
  BY TypeParts DEF IInv, TablesType, RunRecords
<1>1. ~ run[r].counted /\ run[r].cmd \in open[w]
  BY DEF IInv, RunGood, Count
<1>2. /\ one \in RunRecords /\ one.stage = "done" /\ one.window = w /\ one.cmd = run[r].cmd /\ one.counted
  <2>1. LET a == Answered(r, "done", "run") IN
        /\ a \in RunRecords /\ a.stage = "done" /\ a.window = w /\ a.cmd = run[r].cmd
    BY AnsweredFields
  <2> QED
    BY <2>1 DEF RunRecords
<1>3. /\ SetRows(new) /\ run' = [run EXCEPT ![r] = one]
      /\ UNCHANGED <<over, due, ops, cache, overlap, fuel>>
  BY DEF Count, SetRow, Set
<1>4. /\ row[w].enabled /\ (row[w].max = 0 \/ row[w].count < row[w].max)
      /\ row[w].count \in Nat /\ row[w].status \notin Gone
  BY <1>0 DEF Claimable, Within, IInv, RowGood, Row
<1>5. /\ counted \in Row /\ counted.status = row[w].status /\ counted.count = row[w].count + 1
      /\ counted.enabled => row[w].enabled
  <2> DEFINE n == row[w].count + 1
             e == row[w].enabled /\ ~ (row[w].max > 0 /\ n >= row[w].max)
  <2>1. counted = [row[w] EXCEPT !.count = n, !.enabled = e]
    BY <1>0 DEF Counted, Row
  <2>2. n \in Nat /\ e \in BOOLEAN
    BY <1>4
  <2>3. e => row[w].enabled
    OBVIOUS
  <2> HIDE DEF e, n
  <2>4. counted \in Row /\ counted.status = row[w].status /\ counted.count = n /\ counted.enabled = e
    BY <1>0, <2>1, <2>2 DEF Row
  <2> QED
    BY <2>3, <2>4 DEF n
<1> HIDE DEF one, counted
<1>6. /\ new \in [Windows -> Row] /\ new[w] = counted /\ \A x \in Windows \ {w} : new[x] = row[x]
  BY <1>0, <1>5
<1> HIDE DEF new
<1>7. \A x \in Windows : Sequel(row[x], new[x])
  BY <1>4, <1>5, <1>6, ListedSequel DEF Sequel, Gone
<1>8. /\ TablesType' /\ row' = new
      /\ \A x \in Windows : /\ RowGood(x)' /\ open[x] \subseteq open'[x]
                            /\ cap'[x] # -1 => cap[x] # -1 /\ cap[x] <= cap'[x]
  BY <1>3, <1>6, <1>7, SetRowsHistory DEF IInv
<1>9. TypeOK'
  <2>1. RestType'
    BY <1>3, TypeParts DEF IInv, RestType
  <2>2. run' \in [Runs -> RunRecords]
    BY <1>0, <1>2, <1>3
  <2> QED
    BY <1>8, <2>1, <2>2, TypePartsNext
<1>10. \A x \in Windows : OpsGood(x)'
  <2>1. \A x \in Windows : new[x].status = row[x].status /\ (new[x].enabled => row[x].enabled)
    BY <1>5, <1>6
  <2> QED
    BY <1>3, <1>8, <2>1 DEF IInv, OpsGood, Pending
<1>11. CacheGood'
  BY <1>3, <1>8, TypeParts DEF IInv, CacheGood, RestType, Lines
<1>12. \A x \in Runs : RunGood(x)'
  <2> SUFFICES ASSUME NEW x \in Runs PROVE RunGood(x)'
    OBVIOUS
  <2>1. run[x].window \in Windows /\ RunGood(x)
    BY <1>0 DEF IInv, RunRecords
  <2>2. CASE x = r
    BY <1>0, <1>1, <1>2, <1>3, <1>8, <2>1, <2>2 DEF RunGood
  <2>3. CASE x # r
    BY <1>0, <1>3, <1>8, <2>1, <2>3 DEF RunGood
  <2> QED
    BY <2>2, <2>3
<1>13. ASSUME NEW x \in Windows PROVE ClaimsGood(x)'
  <2>1. IsFiniteSet(Granted(x)) /\ Cardinality(Granted(x)) \in Nat
    BY GrantedFinite
  <2>2. row[x].count \in Nat /\ cap[x] \in Nat \cup {-1} /\ cap'[x] \in Nat \cup {-1}
    BY <1>0, <1>8, TypeParts DEF IInv, TablesType, Row
  <2>3. ClaimsGood(x)
    BY DEF IInv
  <2>4. CASE x # w
    <3>1. Granted(x)' = Granted(x) /\ row'[x] = row[x]
      BY <1>0, <1>2, <1>3, <1>6, <1>8, <2>4 DEF Granted
    <3> QED
      BY <1>8, <2>1, <2>2, <2>3, <3>1 DEF ClaimsGood
  <2>5. CASE x = w
    <3>1. Granted(w)' = Granted(w) \cup {r} /\ r \notin Granted(w)
      BY <1>0, <1>1, <1>2, <1>3 DEF Granted
    <3>2. Cardinality(Granted(w)') = Cardinality(Granted(w)) + 1
      BY <2>1, <2>5, <3>1, FS_AddElement
    <3>3. row'[w].status = row[w].status /\ row'[w].count = row[w].count + 1
      BY <1>5, <1>6, <1>8
    <3>4. Cardinality(Granted(w)) <= row[w].count
      BY <1>4, <2>3, <2>5 DEF ClaimsGood, Gone
    <3>5. cap'[w] # -1 => cap[w] # -1 /\ cap[w] <= cap'[w] /\ row[w].count < cap[w]
      <4>1. row[w].status \notin Gone => /\ row[w].max = 0 => cap[w] = -1
                                         /\ cap[w] # -1 => row[w].max <= cap[w]
        BY <1>0 DEF IInv, RowGood
      <4>2. row[w].max \in Nat
        <5>1. row[w].max \in Caps \cup {0}
          BY <1>0 DEF Row
        <5>2. Caps \cup {0} \subseteq Nat
          BY DEF ConstantsAssumption
        <5> QED
          BY <5>1, <5>2
      <4> QED
        BY <1>0, <1>4, <1>8, <2>2, <2>5, <4>1, <4>2
    <3>6. /\ Cardinality(Granted(w)) \in Nat /\ row[w].count \in Nat
          /\ cap[w] \in Nat \cup {-1} /\ cap'[w] \in Nat \cup {-1}
      BY <2>1, <2>2, <2>5
    <3>7. Cardinality(Granted(w)') <= row'[w].count
      BY <3>2, <3>3, <3>4, <3>6
    <3>8. cap'[w] # -1 => Cardinality(Granted(w)') <= cap'[w]
      BY <3>2, <3>4, <3>5, <3>6
    <3>9. row'[w].status # "none"
      BY <1>4, <3>3 DEF Gone
    <3> QED
      BY <2>5, <3>7, <3>8, <3>9 DEF ClaimsGood
  <2> QED
    BY <2>4, <2>5
<1> QED
  BY <1>8, <1>9, <1>10, <1>11, <1>12, <1>13 DEF IInv

LEMMA CountKeeps == ASSUME ConstantsAssumption, IInv, NEW r \in Runs, Count(r) PROVE IInv'
<1>1. CASE ~ Claimable(run[r].window)
  <2> DEFINE one == Answered(r, "done", "rejected")
  <2>1. /\ one \in RunRecords /\ one.stage = "done" /\ one.window = run[r].window
        /\ one.cmd = run[r].cmd /\ one.counted = run[r].counted
    BY AnsweredFields
  <2>2. /\ run' = [run EXCEPT ![r] = one] /\ SetRows(row)
        /\ UNCHANGED <<over, due, ops, cache, overlap, fuel>>
    BY <1>1 DEF Count, Set
  <2> HIDE DEF one
  <2>3. ~ run[r].counted /\ run[r].cmd \in open[run[r].window]
    BY DEF IInv, RunGood, Count
  <2> QED
    BY <2>1, <2>2, <2>3, RunTableStep
<1> QED
  BY <1>1, GrantKeeps

\* The poller's copy has commands of windows that are enabled.
LEMMA SyncKeeps == ASSUME IInv, Sync PROVE IInv'
<1>1. \A line \in cache' : line \in Lines /\ line.cmd \in open[line.window]
  <2> SUFFICES ASSUME NEW w \in Windows, Active(w)
               PROVE LET line == [window |-> w, cmd |-> row[w].cmd, schedule |-> row[w].schedule] IN
                     line \in Lines /\ line.cmd \in open[line.window]
    BY DEF Sync
  <2>1. row[w] \in Row
    BY TypeParts DEF IInv, TablesType
  <2>2. row[w].cmd \in open[w]
    BY DEF IInv, RowGood, Active
  <2> QED
    BY <2>1, <2>2 DEF Lines, Row
<1>2. UNCHANGED <<row, over, due, ops, run, open, cap, overlap, fuel>>
  BY DEF Sync
<1>3. TypeOK'
  <2>1. TablesType' /\ run' \in [Runs -> RunRecords]
    BY <1>2, TypeParts DEF IInv, TablesType
  <2>2. RestType'
    BY <1>1, <1>2, TypeParts DEF IInv, RestType
  <2> QED
    BY <2>1, <2>2, TypePartsNext
<1>4. CacheGood'
  BY <1>1, <1>2 DEF CacheGood
<1>5. /\ \A w \in Windows : RowGood(w)' /\ ClaimsGood(w)' /\ OpsGood(w)'
      /\ \A r \in Runs : RunGood(r)'
  BY <1>2 DEF IInv, RowGood, ClaimsGood, OpsGood, RunGood, Pending, Granted
<1> QED
  BY <1>3, <1>4, <1>5 DEF IInv

LEMMA TimeKeeps == ASSUME IInv, Expire \/ Tick PROVE IInv'
<1>1. /\ over' \subseteq Windows /\ due' \subseteq Windows
      /\ UNCHANGED <<row, ops, cache, run, open, cap, overlap, fuel>>
  BY TypeParts DEF IInv, RestType, Expire, Tick
<1>2. TypeOK'
  BY <1>1 DEF IInv, TypeOK
<1>3. CacheGood' /\ \A w \in Windows : RowGood(w)' /\ ClaimsGood(w)' /\ OpsGood(w)'
  BY <1>1 DEF IInv, CacheGood, RowGood, ClaimsGood, OpsGood, Pending, Granted
<1>4. \A r \in Runs : RunGood(r)'
  BY <1>1 DEF IInv, RunGood
<1> QED
  BY <1>2, <1>3, <1>4 DEF IInv

-----------------------------------------------------------------------------
(* The theorems.                                                           *)

LEMMA NextKeeps == ASSUME ConstantsAssumption, IInv, [Next]_vars PROVE IInv'
<1>1. CASE UNCHANGED vars
  <2>1. TypeOK' /\ CacheGood' /\ \A r \in Runs : RunGood(r)'
    BY <1>1 DEF IInv, vars, TypeOK, CacheGood, RunGood
  <2>2. \A w \in Windows : RowGood(w)' /\ ClaimsGood(w)' /\ OpsGood(w)'
    BY <1>1 DEF IInv, vars, RowGood, ClaimsGood, OpsGood, Pending, Granted
  <2> QED
    BY <2>1, <2>2 DEF IInv
<1> QED
  BY <1>1, CreateKeeps, RequestsKeep, WriteKeeps, SyncKeeps, TimeKeeps, MatchKeeps, FindKeeps,
     CountKeeps, GiveUpKeeps DEF Next

\* The invariant holds in every state, and every variable has its type.
THEOREM TypeCorrect == ASSUME ConstantsAssumption PROVE Spec => []TypeOK /\ []IInv
<1>1. Init => IInv
  BY InitInv
<1>2. IInv /\ [Next]_vars => IInv'
  BY NextKeeps
<1>3. IInv => TypeOK
  BY DEF IInv
<1> QED
  BY <1>1, <1>2, <1>3, PTL DEF Spec

\* However claims, requests and the poller's copies interleave, a window grants no
\* more claims than the largest cap it had, what runs is a command it was enabled for,
\* and a denied request is no enabled window unless the denial crossed an approval.
THEOREM WindowsAreKept == ASSUME ConstantsAssumption PROVE Spec => []WindowsHold
<1>1. IInv => WindowsHold
  <2> SUFFICES ASSUME IInv PROVE WindowsHold
    OBVIOUS
  <2>1. ClaimsWithinCap
    BY DEF IInv, ClaimsGood, Granted, ClaimsWithinCap
  <2>2. RunsWereApproved
    BY DEF IInv, RunGood, OpsGood, RunsWereApproved
  <2> QED
    BY <2>1, <2>2 DEF WindowsHold
<1> QED
  BY <1>1, TypeCorrect, PTL
=============================================================================
