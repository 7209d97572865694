------------------------- MODULE GatewayModesProofs -------------------------
(***************************************************************************)
(* A gateway keeps what was switched on for it, for every set of commands,  *)
(* policy lists and number of changes, failed polls and restarts.           *)
(***************************************************************************)
EXTENDS GatewayModes, TLAPS

-----------------------------------------------------------------------------
(* The inductive invariant.                                                *)

Writing == {"wExact", "wRegex", "wBlack", "wFreeze", "wTrust", "wKey", "wStrict", "wStamp"}
Asked == {"reqSession", "reqTrust", "reqHost", "reqHostTrust"}

\* The body that is being built, compared or written holds every switch in force;
\* a body that cannot be read is empty, and nothing is in force once it is written.
PollerGood ==
  LET F == inForce.files
      p == poller
      fetched == p.pc \in {"freeze", "trust", "strict"} \/ (p.ok /\ p.pc # "idle")
  IN
  /\ F \subseteq db.on /\ inForce.script \subseteq F
  /\ fetched => p.steady \subseteq p.body.on /\ p.steady \subseteq db.on
  /\ (fetched /\ p.pc # "freeze" /\ "freeze" \in F) => "freeze" \in p.steady
  /\ (fetched /\ p.pc \notin {"freeze", "trust"} /\ "trust" \in F) => "trust" \in p.steady
  /\ p.pc \in {"freeze", "trust", "strict"} => ~ p.ok /\ ~ p.body.strict
  /\ ~ p.ok /\ p.pc = "compare" => p.body = NoBody
  /\ ~ p.ok /\ p.pc \in Writing => p.body = NoBody /\ F = {}
  /\ ~ p.ok => p.pc \notin {"wExact", "wRegex", "wBlack", "wKey", "wStamp"}

\* What is in force is in the files; the stamp tells what is in them, unless a sync
\* was cut short; the flag of strict sessions comes with its key.
FilesGood ==
  LET p == poller IN
  /\ inForce.files \subseteq files.on
  /\ p.ok /\ p.pc \in {"wTrust", "wKey", "wStrict", "wStamp"} =>
       ("freeze" \in files.on <=> "freeze" \in p.body.on)
  /\ p.ok /\ p.pc \in {"wKey", "wStrict", "wStamp"} =>
       ("trust" \in files.on <=> "trust" \in p.body.on)
  /\ clean /\ p.pc \notin Writing => \A b \in stamp : files.on = b.on
  /\ p.pc \in Writing /\ ~ p.ok => ~ clean
  /\ files.strict => "key" \in files.present
  /\ p.pc = "wStrict" /\ p.body.strict => "key" \in files.present

\* What the script has read on its way.
ScriptGood ==
  LET s == script
      S == inForce.script
  IN
  /\ s.pc # "end" => s.result = "none"
  /\ s.pc = "start" => S = {} /\ ~ s.strict
  /\ "freeze" \in S => s.pc = "end" /\ s.result = "frozen"
  /\ s.pc \in {"exact", "regex"} /\ "trust" \in S => s.trust
  /\ s.result = "auto" => "trust" \notin S
  /\ s.pc \in {"black", "gate", "trust", "exact", "regex", "reqFreeze"} \cup Asked
       \/ s.result \in {"auto", "approved", "pending", "refused"} => ~ HardBlocked(s.cmd)
  /\ s.pc \in {"gate", "trust", "exact", "regex", "reqFreeze"} \cup Asked
       \/ s.result \in {"auto", "approved", "pending", "refused"} => s.cmd \notin s.read.black
  /\ s.result = "auto" => s.cmd \in s.read.exact \cup s.read.regex /\ ~ ForcedToJit(s.cmd)
  /\ s.strict => s.sid = "minted"

\* What the dashboard has seen of its own settings.
RequestGood ==
  LET s == script IN
  /\ Handling => Holding(db) \subseteq seen
  /\ s.pc \in Asked /\ ~ s.frozen => "thawed" \in seen
  /\ s.pc = "reqTrust" => ~ s.frozen /\ "session" \in seen /\ s.sid # "none"
  /\ s.pc = "reqHostTrust" => ~ s.frozen /\ "host" \in seen

IInv == TypeOK /\ PollerGood /\ FilesGood /\ ScriptGood /\ RequestGood /\ ApprovedWasOpen

-----------------------------------------------------------------------------
(* Types.                                                                  *)

LEMMA NoBodyType == NoBody \in Body
  BY DEF NoBody, Body, Lists

LEMMA ListsAreKnown == Policies \subseteq Lists /\ Installed \in Lists
  BY ConstantsAssumption

LEMMA InitType == Init => TypeOK
<1> SUFFICES ASSUME Init PROVE TypeOK
  OBVIOUS
<1>1. (CHOOSE c \in Commands : TRUE) \in Commands
  BY TraitsAssumption
<1>2. NoBody.lists \in Lists /\ NoBody \in Body
  BY DEF NoBody, Body, Lists
<1>3. PICK on \in SUBSET Switches :
        LET body == [lists |-> Installed, on |-> on, strict |-> FALSE] IN
        /\ db = [lists |-> Installed, on |-> on, strict |-> FALSE, overrides |-> {}]
        /\ \/ /\ files = [lists |-> Installed, on |-> on, strict |-> FALSE, present |-> FileNames]
              /\ stamp = {body} /\ inForce = [files |-> on, script |-> {}]
           \/ /\ files = [lists |-> NoBody.lists, on |-> {}, strict |-> FALSE, present |-> {}]
              /\ stamp = {} /\ inForce = [files |-> {}, script |-> {}]
  BY DEF Init
<1>4. /\ db \in Db /\ files \in Files /\ stamp \in SUBSET Body
      /\ inForce \in [files : SUBSET Switches, script : SUBSET Switches]
  <2>1. db \in Db
    BY <1>3, ConstantsAssumption DEF Db
  <2>2. files \in Files
    <3>1. [lists |-> Installed, on |-> on, strict |-> FALSE, present |-> FileNames] \in Files
      BY ListsAreKnown DEF Files
    <3>2. [lists |-> NoBody.lists, on |-> {}, strict |-> FALSE, present |-> {}] \in Files
      BY <1>2 DEF Files
    <3> QED
      BY <1>3, <3>1, <3>2
  <2>3. [lists |-> Installed, on |-> on, strict |-> FALSE] \in Body
    BY ListsAreKnown DEF Body
  <2>4. stamp \in SUBSET Body
    BY <1>3, <2>3
  <2>5. inForce \in [files : SUBSET Switches, script : SUBSET Switches]
    BY <1>3
  <2> QED
    BY <2>1, <2>2, <2>4, <2>5
<1>5. poller \in [pc : PollerPcs, body : Body, ok : BOOLEAN, steady : SUBSET Switches]
  BY <1>2 DEF Init, PollerPcs
<1>6. script \in [pc : ScriptPcs, cmd : Commands, sid : {"none", "minted", "forged"},
                  read : Lists, trust : BOOLEAN, frozen : BOOLEAN, strict : BOOLEAN,
                  result : Results]
  BY <1>1, <1>2 DEF Init, ScriptPcs, Results
<1>7. clean \in BOOLEAN /\ seen \subseteq {"thawed"} /\ op = {} /\ fuel \in 0..Budget
  BY ConstantsAssumption DEF Init
<1> QED
  BY <1>4, <1>5, <1>6, <1>7 DEF TypeOK

LEMMA ChangeType == TypeOK /\ Change => fuel' \in 0..Budget
  BY ConstantsAssumption DEF TypeOK, Change

\* A switch in the dashboard: what SetDb does to the histories.
LEMMA SetDbEffect ==
  ASSUME TypeOK, NEW d \in Db, SetDb(d)
  PROVE  /\ db' = d /\ UNCHANGED <<files, stamp, script, clean>>
         /\ inForce' = [files |-> inForce.files \cap d.on, script |-> inForce.script \cap d.on]
         /\ poller' = [pc |-> poller.pc, body |-> poller.body, ok |-> poller.ok,
                       steady |-> poller.steady \cap d.on]
         /\ seen' = IF Handling THEN seen \cup Holding(d) ELSE seen
<1>1. inForce = [files |-> inForce.files, script |-> inForce.script]
  BY DEF TypeOK
<1>2. DOMAIN inForce = {"files", "script"}
  BY <1>1
<1>3. inForce' = [k \in {"files", "script"} |-> inForce[k] \cap d.on]
  BY <1>2 DEF SetDb
<1>4. inForce' = [files |-> inForce.files \cap d.on, script |-> inForce.script \cap d.on]
  BY <1>3
<1> QED
  BY <1>4 DEF SetDb, TypeOK

LEMMA HoldingType == \A d : Holding(d) \subseteq {"thawed", "untrusted", "session", "host"}
  BY DEF Holding

LEMMA SettingsAreDb ==
  ASSUME TypeOK, Settings
  PROVE  \/ \E d \in Db : SetDb(d)
         \/ UNCHANGED <<db, poller, files, stamp, script, seen, inForce, clean>>
<1>1. CASE Freeze
  <2> DEFINE d == [db EXCEPT !.on = IF "freeze" \in @ THEN @ \ {"freeze"} ELSE @ \cup {"freeze"}]
  <2>1. d \in Db
    BY DEF TypeOK, Db, Switches
  <2> QED
    BY <1>1, <2>1 DEF Freeze
<1>2. CASE SavePolicy
  <2>1. PICK p \in Policies : SetDb([db EXCEPT !.lists = p])
    BY <1>2 DEF SavePolicy
  <2>2. [db EXCEPT !.lists = p] \in Db
    BY DEF TypeOK, Db
  <2> QED
    BY <2>1, <2>2
<1>3. CASE SetStrict
  <2>1. [db EXCEPT !.strict = ~ @] \in Db
    BY DEF TypeOK, Db
  <2> QED
    BY <1>3, <2>1 DEF SetStrict
<1>4. CASE OverrideAnyHost
  <2>1. [db EXCEPT !.overrides = @ \cup {"anyHost"}] \in Db
    BY DEF TypeOK, Db, Scopes
  <2> QED
    BY <1>4, <2>1 DEF OverrideAnyHost
<1>5. CASE ZeroTrustOff
  <2>1. [db EXCEPT !.on = @ \ {"trust"}] \in Db
    BY DEF TypeOK, Db
  <2> QED
    BY <1>5, <2>1 DEF ZeroTrustOff
<1>6. CASE EndOverride
  <2>1. PICK s \in db.overrides : SetDb([db EXCEPT !.overrides = @ \ {s}])
    BY <1>6 DEF EndOverride
  <2>2. [db EXCEPT !.overrides = @ \ {s}] \in Db
    BY DEF TypeOK, Db
  <2> QED
    BY <2>1, <2>2
<1>7. CASE Check
  BY <1>7 DEF Check
<1>8. CASE Write
  <2> DEFINE d1 == [db EXCEPT !.overrides = @ \cup {"host"}]
             d2 == [db EXCEPT !.overrides = @ \cup {"session"}]
             d3 == [db EXCEPT !.on = @ \cup {"trust"}]
  <2>1. d1 \in Db /\ d2 \in Db /\ d3 \in Db
    BY DEF TypeOK, Db, Scopes, Switches
  <2>2. SetDb(d1) \/ SetDb(d2) \/ SetDb(d3)
    BY <1>8 DEF Write
  <2> QED
    BY <2>1, <2>2
<1> QED
  BY <1>1, <1>2, <1>3, <1>4, <1>5, <1>6, <1>7, <1>8 DEF Settings

LEMMA SettingsType == TypeOK /\ Settings => TypeOK'
<1> SUFFICES ASSUME TypeOK, Settings PROVE TypeOK'
  OBVIOUS
<1>1. fuel' \in 0..Budget
  BY ChangeType DEF Settings, Freeze, SavePolicy, SetStrict, OverrideAnyHost, ZeroTrustOff,
                    EndOverride, Check, Write, TypeOK
<1>2. op' \subseteq {"override", "session", "zeroTrust"}
  BY DEF Settings, Freeze, SavePolicy, SetStrict, OverrideAnyHost, ZeroTrustOff,
         EndOverride, Check, Write, TypeOK
<1>3. CASE \E d \in Db : SetDb(d)
  <2>1. PICK d \in Db : SetDb(d)
    BY <1>3
  <2>2. /\ db' \in Db /\ UNCHANGED <<files, stamp, script, clean>>
        /\ seen' \subseteq {"thawed", "untrusted", "session", "host"}
    BY <2>1, SetDbEffect, HoldingType DEF TypeOK
  <2>3. inForce' \in [files : SUBSET Switches, script : SUBSET Switches]
    BY <2>1, SetDbEffect DEF TypeOK
  <2>4. poller' \in [pc : PollerPcs, body : Body, ok : BOOLEAN, steady : SUBSET Switches]
    BY <2>1, SetDbEffect DEF TypeOK
  <2> QED
    BY <1>1, <1>2, <2>2, <2>3, <2>4 DEF TypeOK
<1>4. CASE UNCHANGED <<db, poller, files, stamp, script, seen, inForce, clean>>
  BY <1>1, <1>2, <1>4 DEF TypeOK
<1> QED
  BY <1>3, <1>4, SettingsAreDb

LEMMA PollerType ==
  ASSUME TypeOK, NEW pc \in PollerPcs, NEW b \in Body, Poller(pc, b)
  PROVE  poller' = [pc |-> pc, body |-> b, ok |-> poller.ok, steady |-> poller.steady]
         /\ poller' \in [pc : PollerPcs, body : Body, ok : BOOLEAN, steady : SUBSET Switches]
  BY DEF TypeOK, Poller

LEMMA PollType == TypeOK /\ (Poll \/ Restart) => TypeOK'
<1> SUFFICES ASSUME TypeOK, Poll \/ Restart PROVE TypeOK'
  OBVIOUS
<1> DEFINE PollerSet == [pc : PollerPcs, body : Body, ok : BOOLEAN, steady : SUBSET Switches]
           InForceSet == [files : SUBSET Switches, script : SUBSET Switches]
<1>0. /\ db \in Db /\ db.lists \in Lists /\ db.strict \in BOOLEAN /\ db.on \subseteq Switches
      /\ poller \in PollerSet /\ poller.body \in Body /\ poller.steady \subseteq Switches
      /\ poller.ok \in BOOLEAN /\ NoBody \in Body /\ files \in Files /\ inForce \in InForceSet
      /\ poller.pc \in PollerPcs /\ clean \in BOOLEAN
  BY ListsAreKnown, NoBodyType DEF TypeOK, Db
<1>k. UNCHANGED <<db, op, script, seen>>
  BY DEF Poll, Restart, FetchLists, FetchSwitch, Answer, Compare, WriteList, WriteSwitch,
         WriteKey, WriteStrict, WriteStamp, Unserved
<1>f. fuel' \in 0..Budget
  <2>1. fuel' = fuel \/ (fuel > 0 /\ fuel' = fuel - 1)
    BY DEF Poll, Restart, FetchLists, FetchSwitch, Answer, Compare, WriteList,
           WriteSwitch, WriteKey, WriteStrict, WriteStamp
  <2> QED
    BY <2>1, ConstantsAssumption DEF TypeOK
<1>1. CASE FetchLists
  <2>1. poller' \in PollerSet
    <3>1. [NoBody EXCEPT !.lists = db.lists] \in Body
      BY <1>0 DEF Body, NoBody
    <3> HIDE DEF PollerSet
    <3>2. [poller EXCEPT !.pc = "freeze", !.steady = {}, !.ok = FALSE,
                         !.body = [NoBody EXCEPT !.lists = db.lists]] \in PollerSet
      BY <1>0, <3>1 DEF PollerSet, PollerPcs
    <3> QED
      BY <1>1, <3>2 DEF FetchLists
  <2> QED
    BY <1>1, <1>k, <1>f, <2>1 DEF FetchLists, TypeOK
<1>2. CASE FetchSwitch
  <2> DEFINE k == {poller.pc} \cap db.on
             b == [poller.body EXCEPT !.on = @ \cup k]
  <2>1. b \in Body
    BY <1>0 DEF Body
  <2>2. poller' = [pc |-> IF poller.pc = "freeze" THEN "trust" ELSE "strict",
                   body |-> b, ok |-> poller.ok, steady |-> poller.steady \cup k]
    BY <1>0, <1>2 DEF FetchSwitch
  <2> HIDE DEF b
  <2>3. poller' \in PollerSet
    BY <1>0, <2>1, <2>2 DEF PollerPcs
  <2> QED
    BY <1>2, <1>k, <1>f, <2>3 DEF FetchSwitch, TypeOK
<1>3. CASE Answer
  <2> DEFINE b == [poller.body EXCEPT !.strict = db.strict]
  <2>1. b \in Body
    BY <1>0 DEF Body
  <2>2. \/ poller' = [pc |-> "compare", body |-> b, ok |-> TRUE, steady |-> poller.steady]
        \/ \E pc \in {"compare", "idle"} : Poller(pc, NoBody)
    BY <1>0, <1>3 DEF Answer
  <2> HIDE DEF b
  <2>3. poller' \in PollerSet
    <3>1. CASE \E pc \in {"compare", "idle"} : Poller(pc, NoBody)
      <4>1. PICK pc \in PollerPcs : Poller(pc, NoBody)
        BY <3>1 DEF PollerPcs
      <4> QED
        BY <1>0, <4>1, PollerType
    <3>2. CASE poller' = [pc |-> "compare", body |-> b, ok |-> TRUE, steady |-> poller.steady]
      BY <1>0, <2>1, <3>2 DEF PollerPcs
    <3> QED
      BY <2>2, <3>1, <3>2
  <2> QED
    BY <1>3, <1>k, <1>f, <2>3 DEF Answer, TypeOK
<1>4. CASE Compare
  <2>1. poller' \in PollerSet
    BY <1>0, <1>4, PollerType DEF Compare, PollerPcs
  <2>2. inForce' \in InForceSet
    BY <1>0, <1>4 DEF Compare
  <2>3. clean' \in BOOLEAN
    BY <1>0, <1>4 DEF Compare
  <2> QED
    BY <1>4, <1>k, <1>f, <2>1, <2>2, <2>3 DEF Compare, TypeOK
<1>5. CASE WriteList
  <2>1. PICK k \in {"exact", "regex", "black"} :
          /\ files' = [files EXCEPT !.lists[k] = poller.body.lists[k], !.present = @ \cup {k}]
          /\ \E pc \in PollerPcs : Poller(pc, poller.body)
    BY <1>5 DEF WriteList, PollerPcs
  <2>2. poller' \in PollerSet
    BY <1>0, <2>1, PollerType
  <2>3. [files.lists EXCEPT ![k] = poller.body.lists[k]] \in Lists
    BY <1>0 DEF Files, Lists, Body
  <2>4. files' \in Files
    BY <1>0, <2>1, <2>3 DEF Files, FileNames
  <2> QED
    BY <1>5, <1>k, <1>f, <2>2, <2>4 DEF WriteList, TypeOK
<1>6. CASE WriteSwitch
  <2>1. PICK k \in Switches :
          /\ files' = [files EXCEPT !.on = (@ \ {k}) \cup ({k} \cap poller.body.on),
                                    !.present = @ \cup {k}]
          /\ \E pc \in PollerPcs : Poller(pc, poller.body)
    BY <1>6 DEF WriteSwitch, PollerPcs
  <2>2. poller' \in PollerSet
    BY <1>0, <2>1, PollerType
  <2>3. files' \in Files
    BY <1>0, <2>1 DEF Files, FileNames, Switches
  <2> QED
    BY <1>6, <1>k, <1>f, <2>2, <2>3 DEF WriteSwitch, TypeOK
<1>7. CASE WriteKey
  <2>1. poller' \in PollerSet
    BY <1>0, <1>7, PollerType DEF WriteKey, PollerPcs
  <2>2. files' \in Files
    BY <1>0, <1>7 DEF WriteKey, Files, FileNames
  <2> QED
    BY <1>7, <1>k, <1>f, <2>1, <2>2 DEF WriteKey, TypeOK
<1>8. CASE WriteStrict
  <2>1. poller' \in PollerSet
    BY <1>0, <1>8, PollerType DEF WriteStrict, PollerPcs
  <2>2. files' \in Files
    BY <1>0, <1>8 DEF WriteStrict, Files, FileNames, Body
  <2> QED
    BY <1>8, <1>k, <1>f, <2>1, <2>2 DEF WriteStrict, TypeOK
<1>9. CASE WriteStamp
  <2>1. poller' \in PollerSet
    BY <1>0, <1>9, PollerType DEF WriteStamp, PollerPcs
  <2>2. inForce' \in InForceSet /\ stamp' \in SUBSET Body /\ clean' \in BOOLEAN
    BY <1>0, <1>9 DEF WriteStamp
  <2> QED
    BY <1>9, <1>k, <1>f, <2>1, <2>2 DEF WriteStamp, TypeOK
<1>10. CASE Restart
  <2>1. poller' \in PollerSet
    BY <1>0, <1>10, PollerType DEF Restart, PollerPcs
  <2>2. clean' \in BOOLEAN
    BY <1>0, <1>10 DEF Restart
  <2> QED
    BY <1>10, <1>k, <1>f, <2>1, <2>2 DEF Restart, TypeOK
<1> QED
  BY <1>1, <1>2, <1>3, <1>4, <1>5, <1>6, <1>7, <1>8, <1>9, <1>10 DEF Poll

LEMMA ScriptType == TypeOK /\ Script => TypeOK'
<1> SUFFICES ASSUME TypeOK, Script PROVE TypeOK'
  OBVIOUS
<1> DEFINE ScriptSet ==
      [pc : ScriptPcs, cmd : Commands, sid : {"none", "minted", "forged"}, read : Lists,
       trust : BOOLEAN, frozen : BOOLEAN, strict : BOOLEAN, result : Results]
<1>0. /\ script \in ScriptSet /\ script.read \in Lists /\ files \in Files
      /\ files.lists \in Lists /\ files.strict \in BOOLEAN
  BY DEF TypeOK, Files
<1>k. UNCHANGED <<db, op, poller, files, stamp, clean, fuel>>
  BY DEF Script, Start, Black, Gate, Trust, Exact, Regex, ReqFreeze, ReqSession, ReqTrust,
         ReqHost, ReqHostTrust, At
<1>s. seen' \subseteq {"thawed", "untrusted", "session", "host"}
  <2>1. seen' = seen \/ seen' = Holding(db)
    BY DEF Script, Start, Black, Gate, Trust, Exact, Regex, ReqFreeze,
           ReqSession, ReqTrust, ReqHost, ReqHostTrust, Goto, End, Read
  <2>2. Holding(db) \subseteq {"thawed", "untrusted", "session", "host"}
    BY HoldingType
  <2>3. seen \subseteq {"thawed", "untrusted", "session", "host"}
    BY DEF TypeOK
  <2> QED
    BY <2>1, <2>2, <2>3
<1>i. inForce' \in [files : SUBSET Switches, script : SUBSET Switches]
  BY DEF TypeOK, Script, Start, Black, Gate, Trust, Exact, Regex, ReqFreeze,
     ReqSession, ReqTrust, ReqHost, ReqHostTrust, Goto, End, Read
<1>g. ASSUME NEW pc \in ScriptPcs, Goto(pc) PROVE script' \in ScriptSet
  BY <1>0, <1>g DEF Goto
<1>e. ASSUME NEW result \in Results, End(result) PROVE script' \in ScriptSet
  BY <1>0, <1>e DEF End, ScriptPcs
<1>r. ASSUME NEW k \in {"exact", "regex", "black"}
      PROVE [script.read EXCEPT ![k] = files.lists[k]] \in Lists
  BY <1>0 DEF Lists
<1>q. script' \in ScriptSet
  <2>1. CASE Start
    BY <1>0, <2>1, ZenonT(40) DEF Start, ScriptPcs, Results
  <2>2. CASE Black
    BY <1>0, <1>e, <1>r, <2>2 DEF Black, Read, ScriptPcs, Results
  <2>3. CASE Gate
    BY <1>0, <1>e, <2>3 DEF Gate, ScriptPcs, Results
  <2>4. CASE Trust
    <3>1. PICK b \in BOOLEAN : b = ("trust" \in files.on)
      <4>1. ("trust" \in files.on) \in BOOLEAN
        BY Z3
      <4> QED
        BY <4>1, Zenon
    <3>2. script' = [script EXCEPT !.pc = "exact", !.trust = b]
      BY <2>4, <3>1 DEF Trust
    <3> QED
      BY <1>0, <3>2 DEF ScriptPcs
  <2>5. CASE Exact
    BY <1>0, <1>r, <2>5, ZenonT(40) DEF Exact, Read, ScriptPcs, Results
  <2>6. CASE Regex
    BY <1>0, <1>r, <2>6, ZenonT(40) DEF Regex, ScriptPcs, Results
  <2>7. CASE ReqFreeze
    <3>1. PICK b \in BOOLEAN : b = ("freeze" \in db.on)
      <4>1. ("freeze" \in db.on) \in BOOLEAN
        BY Z3
      <4> QED
        BY <4>1, Zenon
    <3>2. \/ script' = [script EXCEPT !.frozen = b, !.pc = "end", !.result = "refused"]
          \/ script' = [script EXCEPT !.frozen = b, !.pc = "reqSession", !.result = @]
      BY <2>7, <3>1 DEF ReqFreeze
    <3> QED
      BY <1>0, <3>2 DEF ScriptPcs, Results
  <2>8. CASE ReqSession \/ ReqTrust \/ ReqHost \/ ReqHostTrust
    BY <1>e, <1>g, <2>8 DEF ReqSession, ReqTrust, ReqHost, ReqHostTrust, ScriptPcs, Results
  <2> QED
    BY <2>1, <2>2, <2>3, <2>4, <2>5, <2>6, <2>7, <2>8 DEF Script
<1> QED
  BY <1>k, <1>s, <1>i, <1>q DEF TypeOK

LEMMA TypeStep == TypeOK /\ [Next]_vars => TypeOK'
<1>1. TypeOK /\ UNCHANGED vars => TypeOK'
  BY DEF TypeOK, vars
<1> QED
  BY <1>1, SettingsType, PollType, ScriptType DEF Next

-----------------------------------------------------------------------------
(* What is in force on the gateway.                                        *)

LEMMA ScriptFrame ==
  ASSUME TypeOK, Script
  PROVE  /\ UNCHANGED <<db, op, poller, files, stamp, clean, fuel>>
         /\ \/ UNCHANGED inForce
            \/ Start /\ inForce' = [files |-> inForce.files, script |-> inForce.files]
<1>1. inForce = [files |-> inForce.files, script |-> inForce.script]
  BY DEF TypeOK
<1>2. Start => inForce' = [files |-> inForce.files, script |-> inForce.files]
  BY <1>1 DEF Start
<1> QED
  BY <1>2 DEF Script, Start, Black, Gate, Trust, Exact, Regex, ReqFreeze, ReqSession, ReqTrust,
     ReqHost, ReqHostTrust, At, Goto, End, Read

LEMMA InForceStep == TypeOK /\ PollerGood /\ FilesGood /\ [Next]_vars => PollerGood' /\ FilesGood'
<1> SUFFICES ASSUME TypeOK, PollerGood, FilesGood, [Next]_vars PROVE PollerGood' /\ FilesGood'
  OBVIOUS
<1>0. /\ poller = [pc |-> poller.pc, body |-> poller.body, ok |-> poller.ok, steady |-> poller.steady]
      /\ poller.body = [lists |-> poller.body.lists, on |-> poller.body.on,
                        strict |-> poller.body.strict]
      /\ files = [lists |-> files.lists, on |-> files.on, strict |-> files.strict,
                  present |-> files.present]
      /\ inForce = [files |-> inForce.files, script |-> inForce.script]
      /\ inForce.files \subseteq Switches /\ NoBody.on = {} /\ ~ NoBody.strict
      /\ poller.ok \in BOOLEAN /\ poller.pc \in PollerPcs
  BY DEF TypeOK, Body, Files, NoBody
<1>p. ASSUME NEW pc, NEW b, Poller(pc, b)
      PROVE poller' = [pc |-> pc, body |-> b, ok |-> poller.ok, steady |-> poller.steady]
  BY <1>0, <1>p DEF Poller
<1>u. CASE UNCHANGED vars
  BY <1>u DEF vars, PollerGood, FilesGood
<1>a. CASE Settings
  <2>1. CASE UNCHANGED <<db, poller, files, stamp, script, seen, inForce, clean>>
    BY <2>1 DEF PollerGood, FilesGood
  <2>2. ASSUME NEW d \in Db, SetDb(d) PROVE PollerGood' /\ FilesGood'
    <3>1. /\ db' = d /\ UNCHANGED <<files, stamp, clean>>
          /\ inForce'.files = inForce.files \cap d.on
          /\ inForce'.script = inForce.script \cap d.on
          /\ poller'.pc = poller.pc /\ poller'.body = poller.body /\ poller'.ok = poller.ok
          /\ poller'.steady = poller.steady \cap d.on
      BY <2>2, SetDbEffect
    <3> QED
      BY <3>1 DEF PollerGood, FilesGood
  <2> QED
    BY <1>a, <2>1, <2>2, SettingsAreDb
<1>b. CASE Script
  <2>1. /\ UNCHANGED <<db, poller, files, stamp, clean>>
        /\ inForce'.files = inForce.files
        /\ inForce'.script = inForce.script \/ inForce'.script = inForce.files
    BY <1>b, ScriptFrame
  <2> QED
    BY <2>1 DEF PollerGood, FilesGood
<1>1. CASE FetchLists
  <2>1. poller' = [pc |-> "freeze", steady |-> {}, ok |-> FALSE,
                   body |-> [NoBody EXCEPT !.lists = db.lists]]
    BY <1>0, <1>1 DEF FetchLists
  <2>2. [NoBody EXCEPT !.lists = db.lists].strict = FALSE
    BY DEF NoBody
  <2>3. poller.pc = "idle" /\ UNCHANGED <<db, files, stamp, inForce, clean>>
    BY <1>1 DEF FetchLists, Unserved
  <2> QED
    BY <2>1, <2>2, <2>3 DEF PollerGood, FilesGood, Writing
<1>2. CASE FetchSwitch
  <2> DEFINE k == {poller.pc} \cap db.on
             b == [poller.body EXCEPT !.on = @ \cup k]
  <2>1. poller' = [pc |-> IF poller.pc = "freeze" THEN "trust" ELSE "strict",
                   body |-> b, ok |-> poller.ok, steady |-> poller.steady \cup k]
    BY <1>0, <1>2 DEF FetchSwitch
  <2>2. b.on = poller.body.on \cup k /\ b.strict = poller.body.strict
    BY <1>0
  <2>3. poller.pc \in Switches /\ UNCHANGED <<db, files, stamp, inForce, clean>>
    BY <1>2 DEF FetchSwitch, Unserved
  <2> HIDE DEF b
  <2> QED
    BY <2>1, <2>2, <2>3 DEF PollerGood, FilesGood, Writing, Switches
<1>3. CASE Answer
  <2> DEFINE b == [poller.body EXCEPT !.strict = db.strict]
  <2>1. \/ poller' = [pc |-> "compare", body |-> b, ok |-> TRUE, steady |-> poller.steady]
        \/ \E pc \in {"compare", "idle"} :
             poller' = [pc |-> pc, body |-> NoBody, ok |-> poller.ok, steady |-> poller.steady]
    BY <1>0, <1>3, <1>p DEF Answer
  <2>2. b.on = poller.body.on
    BY <1>0
  <2>3. poller.pc = "strict" /\ UNCHANGED <<db, files, stamp, inForce, clean>>
    BY <1>3 DEF Answer, Unserved
  <2> HIDE DEF b
  <2> QED
    BY <1>0, <2>1, <2>2, <2>3 DEF PollerGood, FilesGood, Writing
<1>4. CASE Compare
  <2>1. poller.pc = "compare" /\ UNCHANGED <<db, files, stamp>>
    BY <1>4 DEF Compare, Unserved
  <2>2. CASE Same /\ FilesOk
    <3>1. /\ poller' = [pc |-> "idle", body |-> NoBody, ok |-> poller.ok, steady |-> poller.steady]
          /\ clean' = clean /\ poller.ok /\ stamp = {poller.body}
          /\ inForce' = [files |-> IF clean THEN poller.steady ELSE inForce.files,
                         script |-> inForce.script]
      BY <1>0, <1>4, <1>p, <2>2 DEF Compare, Same
    <3>2. clean => poller.steady \subseteq files.on
      BY <2>1, <3>1 DEF PollerGood, FilesGood, Writing
    <3>3. inForce.files \subseteq poller.steady
      BY <1>0, <2>1, <3>1 DEF PollerGood, Switches
    <3> QED
      BY <2>1, <3>1, <3>2, <3>3 DEF PollerGood, FilesGood, Writing
  <2>3. CASE ~ (Same /\ FilesOk) /\ poller.ok
    <3>1. /\ poller' = [pc |-> "wExact", body |-> poller.body, ok |-> poller.ok, steady |-> poller.steady]
          /\ clean' = clean /\ inForce' = inForce
      BY <1>4, <1>p, <2>3 DEF Compare, TypeOK
    <3> QED
      BY <2>1, <2>3, <3>1 DEF PollerGood, FilesGood, Writing
  <2>4. CASE ~ poller.ok
    <3>1. /\ poller' = [pc |-> "wFreeze", body |-> poller.body, ok |-> poller.ok, steady |-> poller.steady]
          /\ ~ clean' /\ inForce' = [files |-> {}, script |-> {}]
      BY <1>4, <1>p, <2>4 DEF Compare, Same
    <3> QED
      BY <1>0, <2>1, <2>4, <3>1 DEF PollerGood, FilesGood, Writing
  <2> QED
    BY <2>2, <2>3, <2>4
<1>5. CASE WriteList
  <2>1. \E pc \in {"wRegex", "wBlack", "wFreeze"} : Poller(pc, poller.body)
    BY <1>5 DEF WriteList
  <2>2. /\ poller.pc \in {"wExact", "wRegex", "wBlack"}
        /\ UNCHANGED <<db, stamp, inForce, clean>>
    BY <1>5 DEF WriteList, Unserved
  <2>3. /\ files'.on = files.on /\ files'.strict = files.strict
        /\ files.present \subseteq files'.present
    BY <1>0, <1>5 DEF WriteList
  <2>4. poller.ok
    BY <1>0, <2>2 DEF PollerGood
  <2>5. /\ poller'.pc \in {"wRegex", "wBlack", "wFreeze"} /\ poller'.body = poller.body
        /\ poller'.ok = poller.ok /\ poller'.steady = poller.steady
    BY <1>p, <2>1
  <2> QED
    BY <2>2, <2>3, <2>4, <2>5 DEF PollerGood, FilesGood, Writing
<1>6. CASE WriteSwitch
  <2>1. PICK k \in Switches :
          /\ poller.pc = IF k = "freeze" THEN "wFreeze" ELSE "wTrust"
          /\ files' = [files EXCEPT !.on = (@ \ {k}) \cup ({k} \cap poller.body.on),
                                    !.present = @ \cup {k}]
          /\ Poller(IF k = "freeze" THEN "wTrust" ELSE IF poller.ok THEN "wKey" ELSE "wStrict",
                    poller.body)
    BY <1>6 DEF WriteSwitch
  <2>2. UNCHANGED <<db, stamp, inForce, clean>>
    BY <1>6 DEF WriteSwitch, Unserved
  <2>3. /\ files'.on = (files.on \ {k}) \cup ({k} \cap poller.body.on)
        /\ files'.strict = files.strict /\ files.present \subseteq files'.present
    BY <1>0, <2>1
  <2>4. /\ poller'.pc = IF k = "freeze" THEN "wTrust" ELSE IF poller.ok THEN "wKey" ELSE "wStrict"
        /\ poller'.body = poller.body /\ poller'.ok = poller.ok /\ poller'.steady = poller.steady
    BY <1>p, <2>1
  <2>5. PollerGood'
    BY <1>0, <2>1, <2>2, <2>4 DEF PollerGood, Writing, Switches
  <2>6. k \in inForce.files => k \in poller.body.on
    BY <1>0, <2>1 DEF PollerGood, Writing, Switches
  <2>7. ~ poller.ok => ~ poller.body.strict /\ inForce.files = {} /\ ~ clean
    BY <1>0, <2>1 DEF PollerGood, FilesGood, Writing
  <2>8. FilesGood'
    BY <2>1, <2>2, <2>3, <2>4, <2>6, <2>7 DEF FilesGood, Writing, Switches
  <2> QED
    BY <2>5, <2>8
<1>7. CASE WriteKey
  <2>1. /\ poller.pc = "wKey" /\ UNCHANGED <<db, stamp, inForce, clean>>
        /\ poller' = [pc |-> "wStrict", body |-> poller.body, ok |-> poller.ok, steady |-> poller.steady]
        /\ files'.on = files.on /\ files'.strict = files.strict
        /\ "key" \in files'.present
    BY <1>0, <1>7, <1>p DEF WriteKey, Unserved
  <2> QED
    BY <2>1 DEF PollerGood, FilesGood, Writing
<1>8. CASE WriteStrict
  <2>1. /\ poller.pc = "wStrict" /\ UNCHANGED <<db, stamp, inForce, clean>>
        /\ files'.on = files.on /\ files'.strict = poller.body.strict
        /\ files'.present = files.present \cup {"strict"}
        /\ \/ /\ poller.ok
              /\ poller' = [pc |-> "wStamp", body |-> poller.body, ok |-> poller.ok, steady |-> poller.steady]
           \/ /\ ~ poller.ok
              /\ poller' = [pc |-> "idle", body |-> NoBody, ok |-> poller.ok, steady |-> poller.steady]
    BY <1>0, <1>8, <1>p DEF WriteStrict, Unserved
  <2> QED
    BY <1>0, <2>1 DEF PollerGood, FilesGood, Writing
<1>9. CASE WriteStamp
  <2>1. /\ poller.pc = "wStamp" /\ UNCHANGED <<db, files>>
        /\ poller' = [pc |-> "idle", body |-> NoBody, ok |-> poller.ok, steady |-> poller.steady]
        /\ stamp' = {poller.body} /\ clean' = TRUE
        /\ inForce' = [files |-> poller.steady, script |-> inForce.script]
    BY <1>0, <1>9, <1>p DEF WriteStamp, Unserved
  <2>2. poller.ok
    BY <1>0, <2>1 DEF PollerGood
  <2>3. inForce.files \subseteq poller.steady
    BY <1>0, <2>1, <2>2 DEF PollerGood, Switches
  <2>4. files.on \subseteq Switches /\ poller.body.on \subseteq Switches
    BY DEF TypeOK, Files, Body
  <2>5. files.on = poller.body.on
    <3>1. /\ "freeze" \in files.on <=> "freeze" \in poller.body.on
          /\ "trust" \in files.on <=> "trust" \in poller.body.on
      BY <2>1, <2>2 DEF FilesGood
    <3>2. \A x : x \in files.on <=> x \in poller.body.on
      BY <2>4, <3>1 DEF Switches
    <3> QED
      BY <3>2
  <2> QED
    BY <2>1, <2>2, <2>3, <2>5 DEF PollerGood, FilesGood, Writing
<1>10. CASE Restart
  <2>1. /\ poller.pc # "idle" /\ UNCHANGED <<db, files, stamp, inForce>>
        /\ poller' = [pc |-> "idle", body |-> NoBody, ok |-> poller.ok, steady |-> poller.steady]
        /\ clean' = (clean /\ poller.pc \in {"freeze", "trust", "strict", "compare"})
    BY <1>10, <1>p DEF Restart, Unserved
  <2> QED
    BY <2>1 DEF PollerGood, FilesGood, Writing
<1> QED
  BY <1>u, <1>a, <1>b, <1>1, <1>2, <1>3, <1>4, <1>5, <1>6, <1>7, <1>8, <1>9, <1>10 DEF Next, Poll

-----------------------------------------------------------------------------
(* The script and the request it makes.                                    *)

LEMMA ScriptStep ==
  TypeOK /\ PollerGood /\ FilesGood /\ ScriptGood /\ [Next]_vars => ScriptGood'
<1> SUFFICES ASSUME TypeOK, PollerGood, FilesGood, ScriptGood, [Next]_vars PROVE ScriptGood'
  OBVIOUS
<1> DEFINE Fields(s) ==
      s = [pc |-> s.pc, cmd |-> s.cmd, sid |-> s.sid, read |-> s.read, trust |-> s.trust,
           frozen |-> s.frozen, strict |-> s.strict, result |-> s.result]
<1>0. /\ Fields(script) /\ files.lists \in Lists /\ script.read \in Lists
      /\ script.read = [exact |-> script.read.exact, regex |-> script.read.regex,
                        black |-> script.read.black]
      /\ inForce.script \subseteq inForce.files /\ inForce.files \subseteq files.on
      /\ script.sid \in {"none", "minted", "forged"}
  BY DEF TypeOK, Lists, Files, PollerGood, FilesGood
<1>s. ASSUME script' = script, inForce'.script \subseteq inForce.script PROVE ScriptGood'
  BY <1>s DEF ScriptGood
<1>g. ASSUME NEW pc \in Asked, Goto(pc), script.pc \in {"reqFreeze"} \cup Asked PROVE ScriptGood'
  <2>1. /\ inForce' = inForce /\ script'.pc = pc /\ script'.cmd = script.cmd
        /\ script'.sid = script.sid /\ script'.read = script.read
        /\ script'.strict = script.strict /\ script'.result = script.result
    BY <1>0, <1>g DEF Goto
  <2> QED
    BY <1>g, <2>1 DEF ScriptGood, Asked
<1>e. ASSUME NEW result \in {"approved", "pending"}, End(result), script.pc \in Asked
      PROVE ScriptGood'
  <2>1. /\ inForce' = inForce /\ script'.pc = "end" /\ script'.cmd = script.cmd
        /\ script'.sid = script.sid /\ script'.read = script.read
        /\ script'.strict = script.strict /\ script'.result = result
    BY <1>0, <1>e DEF End
  <2> QED
    BY <1>e, <2>1 DEF ScriptGood, Asked
<1>u. CASE UNCHANGED vars
  BY <1>u, <1>s DEF vars
<1>a. CASE Settings
  <2>1. script' = script /\ inForce'.script \subseteq inForce.script
    BY <1>a, SettingsAreDb, SetDbEffect
  <2> QED
    BY <1>s, <2>1
<1>b. CASE Poll \/ Restart
  <2>1. script' = script
    BY <1>b DEF Poll, Restart, FetchLists, FetchSwitch, Answer, Compare, WriteList, WriteSwitch,
                WriteKey, WriteStrict, WriteStamp, Unserved
  <2>2. inForce = [files |-> inForce.files, script |-> inForce.script]
    BY DEF TypeOK
  <2>3. inForce'.script \subseteq inForce.script
    <3>1. CASE Compare
      BY <2>2, <3>1 DEF Compare
    <3>2. CASE WriteStamp
      BY <2>2, <3>2 DEF WriteStamp
    <3>3. CASE inForce' = inForce
      BY <3>3
    <3> QED
      BY <1>b, <3>1, <3>2, <3>3
      DEF Poll, Restart, FetchLists, FetchSwitch, Answer, WriteList, WriteSwitch, WriteKey, WriteStrict
  <2> QED
    BY <1>s, <2>1, <2>3
<1>1. CASE Start
  <2>1. PICK c \in Commands, sid \in {"none", "minted", "forged"} :
          LET result == IF "freeze" \in files.on THEN "frozen"
                        ELSE IF HardBlocked(c) THEN "blocked" ELSE "none" IN
          script' = [script EXCEPT !.cmd = c, !.sid = sid, !.result = result,
                                   !.pc = IF result = "none" THEN "black" ELSE "end"]
    BY <1>1 DEF Start
  <2>2. script.pc = "start"
    BY <1>1 DEF Start, At
  <2>3. inForce'.script = inForce.files
    <3>1. inForce = [files |-> inForce.files, script |-> inForce.script]
      BY DEF TypeOK
    <3> QED
      BY <1>1, <3>1 DEF Start
  <2>4. /\ script'.cmd = c /\ script'.strict = script.strict
        /\ \/ "freeze" \in files.on /\ script'.pc = "end" /\ script'.result = "frozen"
           \/ "freeze" \notin files.on /\ script'.pc = "end" /\ script'.result = "blocked"
           \/ /\ "freeze" \notin files.on /\ ~ HardBlocked(c)
              /\ script'.pc = "black" /\ script'.result = "none"
    BY <1>0, <2>1
  <2> QED
    BY <1>0, <2>2, <2>3, <2>4 DEF ScriptGood, Asked
<1>2. CASE Black
  <2>1. /\ script.pc = "black" /\ inForce' = inForce
        /\ script'.cmd = script.cmd /\ script'.strict = script.strict /\ script'.sid = script.sid
        /\ \/ script'.pc = "end" /\ script'.result = "blocked"
           \/ /\ script.cmd \notin files.lists.black /\ script'.pc = "gate"
              /\ script'.result = script.result /\ script'.read.black = files.lists.black
    BY <1>0, <1>2 DEF Black, At, End, Read
  <2> QED
    BY <2>1 DEF ScriptGood, Asked
<1>3. CASE Gate
  <2>1. /\ script.pc = "gate" /\ inForce' = inForce
        /\ script'.cmd = script.cmd /\ script'.sid = script.sid /\ script'.read = script.read
        /\ \/ script'.pc = "end" /\ script'.result = "session-required" /\ script'.strict = script.strict
           \/ /\ ~ (files.strict /\ (script.sid = "none" \/ ("key" \in files.present /\ script.sid = "forged")))
              /\ script'.pc = "trust" /\ script'.result = script.result
              /\ script'.strict = files.strict
    BY <1>0, <1>3 DEF Gate, At, End
  <2>2. files.strict => "key" \in files.present
    BY DEF FilesGood
  <2> QED
    BY <1>0, <2>1, <2>2 DEF ScriptGood, Asked
<1>4. CASE Trust
  <2>1. /\ script.pc = "trust" /\ inForce' = inForce
        /\ script'.cmd = script.cmd /\ script'.sid = script.sid /\ script'.read = script.read
        /\ script'.strict = script.strict /\ script'.result = script.result
        /\ script'.pc = "exact" /\ ("trust" \in files.on => script'.trust)
    BY <1>0, <1>4 DEF Trust, At
  <2> QED
    BY <1>0, <2>1 DEF ScriptGood, Asked
<1>5. CASE Exact
  <2>1. /\ script.pc = "exact" /\ inForce' = inForce
        /\ script'.cmd = script.cmd /\ script'.sid = script.sid /\ script'.trust = script.trust
        /\ script'.strict = script.strict /\ script'.read.black = script.read.black
        /\ \/ /\ script'.pc = "end" /\ script'.result = "auto" /\ MayAutoRun
              /\ script.cmd \in script'.read.exact
           \/ script'.pc = "regex" /\ script'.result = script.result
    <3>1. script.pc = "exact" /\ inForce' = inForce
      BY <1>5 DEF Exact, At, Read
    <3>2. [script.read EXCEPT !.exact = files.lists.exact].black = script.read.black
      BY <1>0
    <3>3. [script.read EXCEPT !.exact = files.lists.exact].exact = files.lists.exact
      BY <1>0
    <3>4. CASE MayAutoRun /\ script.cmd \in files.lists.exact
      <4>1. script' = [script EXCEPT !.pc = "end", !.result = "auto",
                                     !.read = [@ EXCEPT !.exact = files.lists.exact]]
        BY <1>5, <3>4 DEF Exact
      <4> QED
        BY <1>0, <3>1, <3>2, <3>3, <3>4, <4>1
    <3>5. CASE ~ (MayAutoRun /\ script.cmd \in files.lists.exact)
      <4>1. script' = [script EXCEPT !.pc = "regex",
                                     !.read = [@ EXCEPT !.exact = files.lists.exact]]
        BY <1>5, <3>5 DEF Exact, Read
      <4> QED
        BY <1>0, <3>1, <3>2, <4>1
    <3> QED
      BY <3>4, <3>5
  <2> QED
    BY <2>1 DEF ScriptGood, Asked, MayAutoRun
<1>6. CASE Regex
  <2>1. /\ script.pc = "regex" /\ inForce' = inForce
        /\ script'.cmd = script.cmd /\ script'.sid = script.sid
        /\ script'.strict = script.strict /\ script'.read.black = script.read.black
        /\ \/ /\ script'.pc = "end" /\ script'.result = "auto" /\ MayAutoRun
              /\ script.cmd \in script'.read.regex
           \/ script'.pc = "reqFreeze" /\ script'.result = script.result
    <3>1. script.pc = "regex" /\ inForce' = inForce
      BY <1>6 DEF Regex, At
    <3>2. [script.read EXCEPT !.regex = files.lists.regex].black = script.read.black
      BY <1>0
    <3>3. [script.read EXCEPT !.regex = files.lists.regex].regex = files.lists.regex
      BY <1>0
    <3>4. CASE MayAutoRun /\ script.cmd \in files.lists.regex
      <4>1. script' = [script EXCEPT !.pc = "end", !.result = "auto",
                                     !.read = [@ EXCEPT !.regex = files.lists.regex]]
        BY <1>6, <3>4 DEF Regex
      <4> QED
        BY <1>0, <3>1, <3>2, <3>3, <3>4, <4>1
    <3>5. CASE ~ (MayAutoRun /\ script.cmd \in files.lists.regex)
      <4>1. script' = [script EXCEPT !.pc = "reqFreeze",
                                     !.read = [@ EXCEPT !.regex = files.lists.regex]]
        BY <1>6, <3>5 DEF Regex
      <4> QED
        BY <1>0, <3>1, <3>2, <4>1
    <3> QED
      BY <3>4, <3>5
  <2> QED
    BY <2>1 DEF ScriptGood, Asked, MayAutoRun
<1>7. CASE ReqFreeze
  <2>1. /\ script.pc = "reqFreeze" /\ inForce' = inForce
        /\ script'.cmd = script.cmd /\ script'.sid = script.sid
        /\ script'.strict = script.strict /\ script'.read = script.read
        /\ \/ script'.pc = "end" /\ script'.result = "refused"
           \/ script'.pc = "reqSession" /\ script'.result = script.result
    BY <1>0, <1>7 DEF ReqFreeze, At
  <2> QED
    BY <2>1 DEF ScriptGood, Asked
<1>8. CASE ReqSession \/ ReqTrust \/ ReqHost \/ ReqHostTrust
  <2>1. script.pc \in Asked
    BY <1>8 DEF ReqSession, ReqTrust, ReqHost, ReqHostTrust, At, Asked
  <2>2. \/ \E pc \in Asked : Goto(pc)
        \/ \E result \in {"approved", "pending"} : End(result)
    BY <1>8 DEF ReqSession, ReqTrust, ReqHost, ReqHostTrust, Asked
  <2> QED
    BY <1>e, <1>g, <2>1, <2>2
<1> QED
  BY <1>u, <1>a, <1>b, <1>1, <1>2, <1>3, <1>4, <1>5, <1>6, <1>7, <1>8 DEF Next, Script

LEMMA RequestStep ==
  TypeOK /\ ScriptGood /\ RequestGood /\ ApprovedWasOpen /\ [Next]_vars
    => RequestGood' /\ ApprovedWasOpen'
<1> SUFFICES ASSUME TypeOK, ScriptGood, RequestGood, ApprovedWasOpen, [Next]_vars
             PROVE RequestGood' /\ ApprovedWasOpen'
  OBVIOUS
<1>0. script = [pc |-> script.pc, cmd |-> script.cmd, sid |-> script.sid, read |-> script.read,
                trust |-> script.trust, frozen |-> script.frozen, strict |-> script.strict,
                result |-> script.result]
  BY DEF TypeOK
<1>1. Handling <=> script.pc \in {"reqFreeze"} \cup Asked
  BY DEF Handling, Asked
<1>2. Handling' <=> script'.pc \in {"reqFreeze"} \cup Asked
  BY DEF Handling, Asked
<1>s. ASSUME script' = script, db' = db, seen' = seen PROVE RequestGood' /\ ApprovedWasOpen'
  BY <1>s DEF RequestGood, ApprovedWasOpen, Handling, Holding
<1>u. CASE UNCHANGED vars
  BY <1>u, <1>s DEF vars
<1>a. CASE Settings
  <2>1. CASE UNCHANGED <<db, poller, files, stamp, script, seen, inForce, clean>>
    BY <1>s, <2>1
  <2>2. ASSUME NEW d \in Db, SetDb(d) PROVE RequestGood' /\ ApprovedWasOpen'
    <3>1. db' = d /\ script' = script /\ seen' = IF Handling THEN seen \cup Holding(d) ELSE seen
      BY <2>2, SetDbEffect
    <3>2. Holding(db)' = Holding(d)
      BY <3>1 DEF Holding
    <3> QED
      BY <1>1, <1>2, <3>1, <3>2 DEF RequestGood, ApprovedWasOpen
  <2> QED
    BY <1>a, <2>1, <2>2, SettingsAreDb
<1>b. CASE Poll \/ Restart
  BY <1>b, <1>s DEF Poll, Restart, FetchLists, FetchSwitch, Answer, Compare, WriteList, WriteSwitch,
                    WriteKey, WriteStrict, WriteStamp, Unserved
<1>c. CASE Script
  <2>1. db' = db /\ Holding(db)' = Holding(db)
    BY <1>c, ScriptFrame DEF Holding
  <2>2. script.pc # "end" /\ script.result = "none"
    BY <1>c DEF Script, Start, Black, Gate, Trust, Exact, Regex, ReqFreeze, ReqSession, ReqTrust,
                ReqHost, ReqHostTrust, At, ScriptGood
  <2>3. CASE Start \/ Black \/ Gate \/ Trust \/ Exact
    <3>1. /\ script'.pc \notin {"reqFreeze"} \cup Asked
          /\ script'.result # "approved"
      BY <1>0, <2>2, <2>3, ZenonT(40) DEF Start, Black, Gate, Trust, Exact, End, Read, Asked
    <3> QED
      BY <1>2, <3>1 DEF RequestGood, ApprovedWasOpen, Asked
  <2>4. CASE Regex
    <3>1. \/ script'.pc = "end" /\ script'.result = "auto"
          \/ /\ script'.pc = "reqFreeze" /\ script'.result = script.result
             /\ seen' = Holding(db)
      BY <1>0, <2>4 DEF Regex
    <3> QED
      BY <1>2, <2>1, <2>2, <3>1 DEF RequestGood, ApprovedWasOpen, Asked
  <2>5. CASE ReqFreeze
    <3>1. /\ script.pc = "reqFreeze" /\ seen' = seen
          /\ \/ script'.pc = "end" /\ script'.result = "refused"
             \/ script'.pc = "reqSession" /\ script'.result = script.result
          /\ "freeze" \in db.on => script'.frozen
      BY <1>0, <2>5 DEF ReqFreeze, At
    <3>2. "freeze" \notin db.on => "thawed" \in seen
      BY <1>1, <3>1 DEF RequestGood, Holding
    <3> QED
      BY <1>1, <1>2, <2>1, <2>2, <3>1, <3>2 DEF RequestGood, ApprovedWasOpen, Asked
  <2>6. CASE ReqSession
    <3>1. /\ script.pc = "reqSession" /\ seen' = seen /\ script'.result = script.result
          /\ script'.sid = script.sid /\ script'.frozen = script.frozen
          /\ \/ /\ script'.pc = "reqTrust" /\ script.sid # "none" /\ ~ script.frozen
                /\ db.overrides \cap {"session", "anyHost"} # {}
             \/ script'.pc = "reqHost"
      BY <1>0, <2>6 DEF ReqSession, At, Goto
    <3>2. db.overrides \cap {"session", "anyHost"} # {} => "session" \in seen
      BY <1>1, <3>1 DEF RequestGood, Holding, Asked
    <3> QED
      BY <1>1, <1>2, <2>1, <2>2, <3>1, <3>2 DEF RequestGood, ApprovedWasOpen, Asked
  <2>7. CASE ReqTrust
    <3>1. /\ script.pc = "reqTrust" /\ seen' = seen /\ script'.sid = script.sid
          /\ script'.frozen = script.frozen
          /\ \/ script'.pc = "reqHost" /\ script'.result = script.result
             \/ script'.pc = "end" /\ script'.result = "approved" /\ "trust" \notin db.on
      BY <1>0, <2>7 DEF ReqTrust, At, Goto, End
    <3>2. "trust" \notin db.on => "untrusted" \in seen
      BY <1>1, <3>1 DEF RequestGood, Holding, Asked
    <3> QED
      BY <1>1, <1>2, <2>1, <2>2, <3>1, <3>2 DEF RequestGood, ApprovedWasOpen, Asked
  <2>8. CASE ReqHost
    <3>1. /\ script.pc = "reqHost" /\ seen' = seen /\ script'.sid = script.sid
          /\ script'.frozen = script.frozen
          /\ \/ /\ script'.pc = "reqHostTrust" /\ script'.result = script.result
                /\ "host" \in db.overrides /\ ~ script.frozen
             \/ script'.pc = "end" /\ script'.result = "pending"
      BY <1>0, <2>8 DEF ReqHost, At, Goto, End
    <3>2. "host" \in db.overrides => "host" \in seen
      BY <1>1, <3>1 DEF RequestGood, Holding, Asked
    <3> QED
      BY <1>1, <1>2, <2>1, <2>2, <3>1, <3>2 DEF RequestGood, ApprovedWasOpen, Asked
  <2>9. CASE ReqHostTrust
    <3>1. /\ script.pc = "reqHostTrust" /\ seen' = seen /\ script'.sid = script.sid
          /\ \/ script'.pc = "end" /\ script'.result = "pending"
             \/ script'.pc = "end" /\ script'.result = "approved" /\ "trust" \notin db.on
      BY <1>0, <2>9 DEF ReqHostTrust, At, End
    <3>2. "trust" \notin db.on => "untrusted" \in seen
      BY <1>1, <3>1 DEF RequestGood, Holding, Asked
    <3> QED
      BY <1>1, <1>2, <2>1, <2>2, <3>1, <3>2 DEF RequestGood, ApprovedWasOpen, Asked
  <2> QED
    BY <1>c, <2>3, <2>4, <2>5, <2>6, <2>7, <2>8, <2>9 DEF Script
<1> QED
  BY <1>u, <1>a, <1>b, <1>c DEF Next

-----------------------------------------------------------------------------
(* The results.                                                            *)

LEMMA GoodInit ==
  Init => PollerGood /\ FilesGood /\ ScriptGood /\ RequestGood /\ ApprovedWasOpen
<1> SUFFICES ASSUME Init
             PROVE PollerGood /\ FilesGood /\ ScriptGood /\ RequestGood /\ ApprovedWasOpen
  OBVIOUS
<1>1. PICK on \in SUBSET Switches :
        LET body == [lists |-> Installed, on |-> on, strict |-> FALSE] IN
        /\ db = [lists |-> Installed, on |-> on, strict |-> FALSE, overrides |-> {}]
        /\ \/ /\ files = [lists |-> Installed, on |-> on, strict |-> FALSE, present |-> FileNames]
              /\ stamp = {body} /\ inForce = [files |-> on, script |-> {}]
           \/ /\ files = [lists |-> NoBody.lists, on |-> {}, strict |-> FALSE, present |-> {}]
              /\ stamp = {} /\ inForce = [files |-> {}, script |-> {}]
  BY DEF Init
<1>2. /\ poller.pc = "idle" /\ ~ poller.ok /\ clean = TRUE
      /\ script.pc = "start" /\ script.result = "none" /\ ~ script.strict
  BY DEF Init
<1>3. PollerGood
  BY <1>1, <1>2 DEF PollerGood, Writing
<1>4. FilesGood
  BY <1>1, <1>2 DEF FilesGood, Writing
<1>5. ScriptGood
  BY <1>1, <1>2 DEF ScriptGood, Asked
<1>6. RequestGood /\ ApprovedWasOpen
  BY <1>2 DEF RequestGood, ApprovedWasOpen, Handling, Asked
<1> QED
  BY <1>3, <1>4, <1>5, <1>6

LEMMA Inductive == Spec => []IInv
<1>1. Init => IInv
  BY InitType, GoodInit DEF IInv
<1>2. IInv /\ [Next]_vars => IInv'
  BY TypeStep, InForceStep, ScriptStep, RequestStep DEF IInv
<1> QED
  BY <1>1, <1>2, PTL DEF Spec

\* The variables keep their types.
THEOREM TypeCorrect == Spec => []TypeOK
<1>1. IInv => TypeOK
  BY DEF IInv
<1> QED
  BY <1>1, Inductive, PTL

\* A switch that a sync has brought to the gateway stays in force there until it is
\* turned off in the dashboard, through skipped, repeated and aborted syncs.
THEOREM AppliedStays == Spec => []AppliedHolds
<1>1. IInv => AppliedHolds
  <2> SUFFICES ASSUME IInv PROVE AppliedHolds
    OBVIOUS
  <2>1. ScriptGood
    BY DEF IInv
  <2> QED
    BY <2>1 DEF ScriptGood, AppliedHolds
<1> QED
  BY <1>1, Inductive, PTL

\* The dashboard approves a command by itself only if, while it handled it, there
\* was a time without freeze, one without zero trust, and one with an override.
THEOREM ApprovalWasOpen == Spec => []ApprovedWasOpen
<1>1. IInv => ApprovedWasOpen
  BY DEF IInv
<1> QED
  BY <1>1, Inductive, PTL

\* Under strict sessions no session id that was not minted passes the gate.
THEOREM StrictGate == Spec => []StrictMeansMinted
<1>1. IInv => StrictMeansMinted
  BY DEF IInv, ScriptGood, StrictMeansMinted
<1> QED
  BY <1>1, Inductive, PTL

\* The policy tester shows as approved what an allowlist runs, and nothing it shows
\* as blocked is run or sent for approval.
THEOREM TesterIsRight == Spec => []TesterAgrees
<1>1. IInv => TesterAgrees
  <2> SUFFICES ASSUME IInv PROVE TesterAgrees
    OBVIOUS
  <2>1. ScriptGood /\ script.cmd \in Commands
    BY DEF IInv, TypeOK
  <2>2. ASSUME script.result = "auto" PROVE Mirror(script.cmd, script.read) = "auto_approved"
    <3>1. Traits[script.cmd] \cap {"esh", "meta"} = {}
      BY <2>1, <2>2 DEF ScriptGood, ForcedToJit
    <3> QED
      BY <2>1, <2>2, <3>1 DEF ScriptGood, Mirror
  <2>3. ASSUME script.result \in {"approved", "pending", "refused"}
        PROVE Mirror(script.cmd, script.read) # "blocked"
    BY <2>1, <2>3 DEF ScriptGood, Mirror
  <2> QED
    BY <2>2, <2>3 DEF TesterAgrees
<1> QED
  BY <1>1, Inductive, PTL
=============================================================================
