---------------------------- MODULE GatewayModes ----------------------------
(***************************************************************************)
(* From a switch in the dashboard to what a gateway runs: freeze, zero      *)
(* trust, overrides, strict sessions and the policy lists in the database,  *)
(* the poller that copies them into files (eshu-poller.sh), the script that *)
(* reads the files (stages 0 to 4 of eshu-gateway.sh), and the dashboard's  *)
(* answer to a command that needs approval (receive_request).               *)
(*                                                                         *)
(* One gateway and one command sent to it.  Every read or write of the      *)
(* database or of a file is a step.                                        *)
(***************************************************************************)
EXTENDS PolicyPipeline, Integers

CONSTANTS
  Policies,   \* contents the policy lists may have
  Installed,  \* the contents at first
  Budget      \* bound: changes made in the dashboard, polls that fail, answers cut
              \* off and restarts of the poller, together

ASSUME ConstantsAssumption ==
  Policies \subseteq Lists /\ Installed \in Policies /\ Budget \in Nat

VARIABLES
  db,       \* the dashboard's settings
  op,       \* override and zero-trust requests between their check and their write
  poller,   \* the poller: where it is, and the answer it handles
  files,    \* /etc/eshu-*
  stamp,    \* /var/run/eshu.policy.sha256: the body it is the hash of, or none
  script,   \* the command's way through the script and receive_request
  seen,     \* history: what held at some time while the dashboard handled it
  inForce,  \* history: switches on since before the last sync, and since before
            \* the script began
  clean,    \* history: no sync was cut short since the stamp was written
  fuel      \* bound: what is left of Budget

vars == <<db, op, poller, files, stamp, script, seen, inForce, clean, fuel>>

Switches == {"freeze", "trust"}
Scopes == {"host", "session", "anyHost"}   \* overrides: of the gateway, of the session
Db == [lists : Policies, on : SUBSET Switches, strict : BOOLEAN,
       overrides : SUBSET Scopes]
Body == [lists : Lists, on : SUBSET Switches, strict : BOOLEAN]
NoBody == [lists |-> [exact |-> {}, regex |-> {}, black |-> {}], on |-> {}, strict |-> FALSE]
FileNames == {"exact", "regex", "black", "freeze", "trust", "key", "strict"}
Files == [lists : Lists, on : SUBSET Switches, strict : BOOLEAN, present : SUBSET FileNames]

PollerPcs == {"idle", "freeze", "trust", "strict", "compare",
              "wExact", "wRegex", "wBlack", "wFreeze", "wTrust", "wKey", "wStrict", "wStamp"}
ScriptPcs == {"start", "black", "gate", "trust", "exact", "regex",
              "reqFreeze", "reqSession", "reqTrust", "reqHost", "reqHostTrust", "end"}
Results == {"none", "frozen", "blocked", "session-required", "auto",
            "refused", "approved", "pending"}

TypeOK ==
  /\ db \in Db /\ files \in Files /\ stamp \in SUBSET Body
  /\ op \subseteq {"override", "session", "zeroTrust"}
  /\ poller \in [pc : PollerPcs, body : Body, ok : BOOLEAN, steady : SUBSET Switches]
  /\ script \in [pc : ScriptPcs, cmd : Commands, sid : {"none", "minted", "forged"},
                 read : Lists, trust : BOOLEAN, frozen : BOOLEAN, strict : BOOLEAN,
                 result : Results]
  /\ seen \subseteq {"thawed", "untrusted", "session", "host"}
  /\ inForce \in [files : SUBSET Switches, script : SUBSET Switches] /\ clean \in BOOLEAN
  /\ fuel \in 0..Budget

\* A gateway that has synced before, or one just installed.
Init ==
  /\ \E on \in SUBSET Switches :
       LET body == [lists |-> Installed, on |-> on, strict |-> FALSE] IN
       /\ db = [lists |-> Installed, on |-> on, strict |-> FALSE, overrides |-> {}]
       /\ \/ /\ files = [lists |-> Installed, on |-> on, strict |-> FALSE, present |-> FileNames]
             /\ stamp = {body} /\ inForce = [files |-> on, script |-> {}]
          \/ /\ files = [lists |-> NoBody.lists, on |-> {}, strict |-> FALSE, present |-> {}]
             /\ stamp = {} /\ inForce = [files |-> {}, script |-> {}]
  /\ op = {}
  /\ poller = [pc |-> "idle", body |-> NoBody, ok |-> FALSE, steady |-> {}]
  /\ script = [pc |-> "start", cmd |-> CHOOSE c \in Commands : TRUE, sid |-> "none",
                read |-> NoBody.lists, trust |-> FALSE, frozen |-> FALSE, strict |-> FALSE, result |-> "none"]
  /\ seen = {} /\ clean = TRUE /\ fuel = Budget

-----------------------------------------------------------------------------
(* The dashboard's switches.                                               *)

Handling == script.pc \in {"reqFreeze", "reqSession", "reqTrust", "reqHost", "reqHostTrust"}

\* What holds in a state of the database.
Holding(d) ==
  {x \in {"thawed"} : "freeze" \notin d.on} \cup {x \in {"untrusted"} : "trust" \notin d.on}
    \cup {x \in {"session"} : d.overrides \cap {"session", "anyHost"} # {}}
    \cup {x \in {"host"} : "host" \in d.overrides}

\* The behaviour of one command is followed to its end.
Running == script.pc # "end"

SetDb(d) ==
  /\ Running
  /\ db' = d
  /\ seen' = IF Handling THEN seen \cup Holding(d) ELSE seen
  /\ inForce' = [k \in DOMAIN inForce |-> inForce[k] \cap d.on]
  /\ poller' = [poller EXCEPT !.steady = @ \cap d.on]
  /\ UNCHANGED <<files, stamp, script, clean>>

Change ==
  /\ Running /\ fuel > 0 /\ fuel' = fuel - 1

\* trigger_freeze, clear_trigger_freeze
Freeze ==
  /\ Change
  /\ SetDb([db EXCEPT !.on = IF "freeze" \in @ THEN @ \ {"freeze"} ELSE @ \cup {"freeze"}])
  /\ UNCHANGED op

\* save_policy, rollback_policy_change: one of the lists.
SavePolicy ==
  /\ Change
  /\ \E p \in Policies :
       /\ \E k \in {"exact", "regex", "black"} : p = [db.lists EXCEPT ![k] = p[k]]
       /\ p # db.lists
       /\ SetDb([db EXCEPT !.lists = p])
  /\ UNCHANGED op

\* The flag require_sessions, or the mode of the gateway.
SetStrict ==
  /\ Change
  /\ SetDb([db EXCEPT !.strict = ~ @])
  /\ UNCHANGED op

\* start_override and start_session_override look at zero trust, set_gw_zero_trust
\* at the host's override, before they write; a session's grant for any host looks
\* at nothing.
Check ==
  /\ Change
  /\ \E k \in {"override", "session", "zeroTrust"} \ op :
       /\ k = "zeroTrust" => "host" \notin db.overrides
       /\ k # "zeroTrust" => "trust" \notin db.on
       /\ op' = op \cup {k}
  /\ UNCHANGED <<db, poller, files, stamp, script, seen, inForce, clean>>

Write ==
  /\ \E k \in op :
       /\ op' = op \ {k}
       /\ SetDb(CASE k = "override" -> [db EXCEPT !.overrides = @ \cup {"host"}]
                  [] k = "session" -> [db EXCEPT !.overrides = @ \cup {"session"}]
                  [] OTHER -> [db EXCEPT !.on = @ \cup {"trust"}])
  /\ UNCHANGED fuel

OverrideAnyHost ==
  /\ Change
  /\ SetDb([db EXCEPT !.overrides = @ \cup {"anyHost"}])
  /\ UNCHANGED op

ZeroTrustOff ==
  /\ "trust" \in db.on /\ Change
  /\ SetDb([db EXCEPT !.on = @ \ {"trust"}])
  /\ UNCHANGED op

\* stop_override, stop_session_override, or the end of its minutes.
EndOverride ==
  /\ \E s \in db.overrides : SetDb([db EXCEPT !.overrides = @ \ {s}])
  /\ UNCHANGED <<op, fuel>>

-----------------------------------------------------------------------------
(* The poller.                                                             *)

Poller(pc, b) == poller' = [poller EXCEPT !.pc = pc, !.body = b]

Unserved == UNCHANGED <<db, op, script, seen>>

\* fetch_policy reads the lists, the freeze, zero trust and the session flag, each
\* in a transaction of its own.
FetchLists ==
  /\ Running /\ poller.pc = "idle"
  /\ poller' = [poller EXCEPT !.pc = "freeze", !.steady = {}, !.ok = FALSE,
                              !.body = [NoBody EXCEPT !.lists = db.lists]]
  /\ UNCHANGED <<files, stamp, inForce, clean, fuel>> /\ Unserved

FetchSwitch ==
  /\ poller.pc \in Switches
  /\ LET k == {poller.pc} \cap db.on IN
     poller' = [poller EXCEPT !.pc = IF @ = "freeze" THEN "trust" ELSE "strict",
                              !.body.on = @ \cup k, !.steady = @ \cup k]
  /\ UNCHANGED <<files, stamp, inForce, clean, fuel>> /\ Unserved

\* The answer comes whole, cut off (curl still reports status 200), or not at all.
Answer ==
  /\ poller.pc = "strict"
  /\ \/ /\ poller' = [poller EXCEPT !.pc = "compare", !.ok = TRUE,
                                    !.body.strict = db.strict]
        /\ UNCHANGED fuel
     \/ /\ fuel > 0 /\ fuel' = fuel - 1
        /\ \E pc \in {"compare", "idle"} : Poller(pc, NoBody)
  /\ UNCHANGED <<files, stamp, inForce, clean>> /\ Unserved

\* policy_stamp_matches and policy_files_ok.  Bug: the stamp is the policy version,
\* which neither switch changes.
SameVersion == poller.ok /\ \E b \in stamp : b.lists = poller.body.lists
Same == poller.ok /\ stamp = {poller.body}
FilesOk == FileNames \ {"key"} \subseteq files.present

\* What the files do not say cannot be made up: a body that cannot be read leaves
\* the lists and the key and writes every flag as off.
Compare ==
  /\ poller.pc = "compare"
  /\ IF Same /\ FilesOk
     THEN /\ Poller("idle", NoBody)
          /\ inForce' = [inForce EXCEPT !.files = IF clean THEN poller.steady ELSE @]
          /\ UNCHANGED clean
     ELSE /\ Poller(IF poller.ok THEN "wExact" ELSE "wFreeze", poller.body)
          /\ clean' = (clean /\ poller.ok)
          /\ inForce' = IF poller.ok THEN inForce ELSE [files |-> {}, script |-> {}]
  /\ UNCHANGED <<files, stamp, fuel>> /\ Unserved

WriteList ==
  /\ \E k \in {"exact", "regex", "black"} :
       /\ poller.pc = CASE k = "exact" -> "wExact" [] k = "regex" -> "wRegex" [] OTHER -> "wBlack"
       /\ files' = [files EXCEPT !.lists[k] = poller.body.lists[k], !.present = @ \cup {k}]
       /\ Poller(CASE k = "exact" -> "wRegex" [] k = "regex" -> "wBlack" [] OTHER -> "wFreeze",
                 poller.body)
  /\ UNCHANGED <<stamp, inForce, clean, fuel>> /\ Unserved

WriteSwitch ==
  /\ \E k \in Switches :
       /\ poller.pc = IF k = "freeze" THEN "wFreeze" ELSE "wTrust"
       /\ files' = [files EXCEPT !.on = (@ \ {k}) \cup ({k} \cap poller.body.on),
                                 !.present = @ \cup {k}]
       /\ Poller(IF k = "freeze" THEN "wTrust" ELSE IF poller.ok THEN "wKey" ELSE "wStrict",
                 poller.body)
  /\ UNCHANGED <<stamp, inForce, clean, fuel>> /\ Unserved

\* Bug: the flag is written before the key it needs.
WriteKeyLate ==
  /\ poller.pc = "wKey" /\ Poller("wStrict", poller.body)
  /\ files' = [files EXCEPT !.strict = poller.body.strict]
  /\ UNCHANGED <<stamp, inForce, clean, fuel>> /\ Unserved

WriteKey ==
  /\ poller.pc = "wKey" /\ Poller("wStrict", poller.body)
  /\ files' = [files EXCEPT !.present = @ \cup {"key"}]
  /\ UNCHANGED <<stamp, inForce, clean, fuel>> /\ Unserved

WriteStrict ==
  /\ poller.pc = "wStrict"
  /\ files' = [files EXCEPT !.strict = poller.body.strict, !.present = @ \cup {"strict"}]
  /\ IF poller.ok THEN Poller("wStamp", poller.body) ELSE Poller("idle", NoBody)
  /\ UNCHANGED <<stamp, inForce, clean, fuel>> /\ Unserved

WriteStamp ==
  /\ poller.pc = "wStamp" /\ Poller("idle", NoBody)
  /\ stamp' = {poller.body} /\ clean' = TRUE
  /\ inForce' = [inForce EXCEPT !.files = poller.steady]
  /\ UNCHANGED <<files, fuel>> /\ Unserved

\* systemd or an update stops the poller and starts it anew.
Restart ==
  /\ Running /\ poller.pc # "idle" /\ fuel > 0 /\ fuel' = fuel - 1
  /\ Poller("idle", NoBody)
  /\ clean' = (clean /\ poller.pc \in {"freeze", "trust", "strict", "compare"})
  /\ UNCHANGED <<files, stamp, inForce>> /\ Unserved

-----------------------------------------------------------------------------
(* The script.                                                             *)

At(pc) == script.pc = pc /\ UNCHANGED <<db, op, poller, files, stamp, clean, fuel>>
Goto(pc) == script' = [script EXCEPT !.pc = pc] /\ UNCHANGED <<seen, inForce>>
End(result) ==
  script' = [script EXCEPT !.pc = "end", !.result = result] /\ UNCHANGED <<seen, inForce>>

\* Stages 0 and 1.
Start ==
  /\ At("start")
  /\ \E c \in Commands, sid \in {"none", "minted", "forged"} :
       LET result == IF "freeze" \in files.on THEN "frozen"
                     ELSE IF HardBlocked(c) THEN "blocked" ELSE "none" IN
       script' = [script EXCEPT !.cmd = c, !.sid = sid, !.result = result,
                                !.pc = IF result = "none" THEN "black" ELSE "end"]
  /\ inForce' = [inForce EXCEPT !.script = inForce.files]
  /\ UNCHANGED seen

Read(pc, k) ==
  script' = [script EXCEPT !.pc = pc, !.read[k] = files.lists[k]] /\ UNCHANGED <<seen, inForce>>

\* Stage 2.
Black ==
  /\ At("black")
  /\ IF script.cmd \in files.lists.black THEN End("blocked") ELSE Read("gate", "black")

\* Stage 2.5: without the key the gate is open.
Gate ==
  /\ At("gate")
  /\ IF files.strict /\ (script.sid = "none" \/ ("key" \in files.present /\ script.sid = "forged"))
     THEN End("session-required")
     ELSE /\ script' = [script EXCEPT !.pc = "trust", !.strict = files.strict]
          /\ UNCHANGED <<seen, inForce>>

\* Stage 3 reads zero trust once, for both allowlists.
Trust ==
  /\ At("trust")
  /\ script' = [script EXCEPT !.pc = "exact", !.trust = "trust" \in files.on]
  /\ UNCHANGED <<seen, inForce>>

MayAutoRun == ~ ForcedToJit(script.cmd) /\ ~ script.trust

Exact ==
  /\ At("exact")
  /\ IF MayAutoRun /\ script.cmd \in files.lists.exact
     THEN script' = [script EXCEPT !.pc = "end", !.result = "auto",
                                   !.read.exact = files.lists.exact] /\ UNCHANGED <<seen, inForce>>
     ELSE Read("regex", "exact")

\* Stage 4, and the request of stage 5.
Regex ==
  /\ At("regex")
  /\ IF MayAutoRun /\ script.cmd \in files.lists.regex
     THEN /\ script' = [script EXCEPT !.pc = "end", !.result = "auto",
                                      !.read.regex = files.lists.regex]
          /\ UNCHANGED seen
     ELSE /\ script' = [script EXCEPT !.pc = "reqFreeze", !.read.regex = files.lists.regex]
          /\ seen' = Holding(db)
  /\ UNCHANGED inForce

-----------------------------------------------------------------------------
(* receive_request.                                                        *)

ReqFreeze ==
  /\ At("reqFreeze")
  /\ script' = [script EXCEPT
       !.frozen = "freeze" \in db.on,
       !.pc = IF "hidden" \in Traits[script.cmd] THEN "end" ELSE "reqSession",
       !.result = IF "hidden" \in Traits[script.cmd] THEN "refused" ELSE @]
  /\ UNCHANGED <<seen, inForce>>

\* The session's override, for this host or any, if the command names a session.
ReqSession ==
  /\ At("reqSession")
  /\ Goto(IF /\ script.sid # "none" /\ ~ script.frozen
             /\ db.overrides \cap {"session", "anyHost"} # {}
          THEN "reqTrust" ELSE "reqHost")

\* Bug: an override for any host does not ask the host.
ReqTrustOwn ==
  /\ At("reqTrust")
  /\ IF "trust" \in db.on /\ "session" \in db.overrides THEN Goto("reqHost") ELSE End("approved")

ReqTrust ==
  /\ At("reqTrust")
  /\ IF "trust" \in db.on THEN Goto("reqHost") ELSE End("approved")

\* Bug: the row is given a status of its own.
ReqHostNamed ==
  /\ At("reqHost")
  /\ IF "host" \in db.overrides /\ ~ script.frozen THEN End("override") ELSE End("pending")

ReqHost ==
  /\ At("reqHost")
  /\ IF "host" \in db.overrides /\ ~ script.frozen THEN Goto("reqHostTrust") ELSE End("pending")

ReqHostTrust ==
  /\ At("reqHostTrust")
  /\ IF "trust" \in db.on THEN End("pending") ELSE End("approved")

-----------------------------------------------------------------------------
Settings ==
  \/ Freeze \/ SavePolicy \/ SetStrict \/ OverrideAnyHost \/ ZeroTrustOff \/ EndOverride
  \/ Check \/ Write

Poll ==
  \/ FetchLists \/ FetchSwitch \/ Answer \/ Compare
  \/ WriteList \/ WriteSwitch \/ WriteKey \/ WriteStrict \/ WriteStamp

Script ==
  \/ Start \/ Black \/ Gate \/ Trust \/ Exact \/ Regex
  \/ ReqFreeze \/ ReqSession \/ ReqTrust \/ ReqHost \/ ReqHostTrust

Next == Settings \/ Poll \/ Restart \/ Script

Spec == Init /\ [][Next]_vars

-----------------------------------------------------------------------------
(* What must hold.                                                         *)

\* A switch that a sync has brought to the gateway stays in force there until it is
\* turned off in the dashboard, through every later sync, skipped, repeated or cut
\* short by a restart: a frozen gateway starts nothing, a zero-trust gateway runs
\* nothing by its allowlists.  (Answers that are cut off break this; see below.)
AppliedHolds ==
  /\ "freeze" \in inForce.script => script.result \in {"none", "frozen"}
  /\ "trust" \in inForce.script => script.result # "auto"

\* The dashboard approves a command by itself only if, while it handled it, there
\* was a time without freeze, one without zero trust, and one with an override of
\* that host or that session.  Zero trust and an override may both be on: the two
\* checks that keep them apart can pass each other.
ApprovedWasOpen ==
  script.result = "approved" =>
    /\ {"thawed", "untrusted"} \subseteq seen
    /\ "host" \in seen \/ ("session" \in seen /\ script.sid # "none")

\* Once strict sessions have reached the gateway, a session id it did not mint gets
\* no command past the gate: the key is there before the flag is.
StrictMeansMinted == script.strict => script.sid = "minted"

\* The policy tester does not promise less than the gateway does: for the lists the
\* script has read, it shows what runs by an allowlist as approved, and nothing it
\* shows as blocked is run or sent for approval.
TesterAgrees ==
  LET shown == Mirror(script.cmd, script.read) IN
  /\ script.result = "auto" => shown = "auto_approved"
  /\ script.result \in {"approved", "pending", "refused"} => shown # "blocked"

-----------------------------------------------------------------------------
(* What a comment says, and the code does not do.                          *)

\* "A malformed body or a partial write must retry next cycle" (eshu-poller.sh):
\* a sync is skipped only if the files hold what the dashboard answers.
FailedSyncRetried ==
  (poller.pc = "compare" /\ Same /\ FilesOk) =>
    /\ files.lists = poller.body.lists /\ files.on = poller.body.on
    /\ files.strict = poller.body.strict
=============================================================================
