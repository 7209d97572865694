------------------------------ MODULE Releases ------------------------------
(***************************************************************************)
(* The release pipeline of the gateway installer: the files Build (golden), *)
(* Edge, backup and source, the hash of what was deployed, the triggers     *)
(* that make gateways update, and the handlers that move a release along.   *)
(***************************************************************************)
EXTENDS Integers, Sequences

CONSTANTS
  Versions,  \* contents of an installer
  None,      \* no file, no hash
  Torn,      \* a file that is being written, or was when the dashboard stopped
  Handlers,  \* requests of the operator
  Budget     \* bound: requests, upgrades and faults

ConstantsAssumption == None \notin Versions /\ Torn \notin Versions /\ None # Torn /\ Budget \in Nat

Files == {"golden", "edge", "bak", "source"}

VARIABLES
  file,      \* contents of the four files
  deployed,  \* meta: deployed_golden_hash
  devTrigger, devPush, \* meta: trigger_dev_update, dev_push_initiated
  op,        \* the handlers that are running
  served,    \* history: what the fleet was last told to install
  before,    \* history: what the last promote replaced
  built,     \* history: an upgrade replaced Build since the fleet was last told
  disturbed, \* history: handlers overlapped, or one was cut off
  fuel

meta == <<deployed, devTrigger, devPush>>
hist == <<served, before, built, disturbed>>
vars == <<file, meta, op, hist, fuel>>

Idle == [kind |-> "none", pc |-> "idle", nth |-> 1, hash |-> None]

Copies == [seed |-> << <<"golden", "edge">> >>, rollback |-> << <<"bak", "golden">>, <<"bak", "source">> >>,
           promote |-> << <<"golden", "bak">>, <<"edge", "golden">>, <<"edge", "source">> >>,
           push |-> << >>]

\* nth: the copy at hand.
Ops == [kind : {"none", "seed", "push", "promote", "rollback"},
        pc : {"idle", "decide", "open", "close", "trigger", "flag", "hash", "store", "tell"},
        nth : 1..3, hash : Versions \cup {None, Torn}]

TypeOK ==
  /\ file \in [Files -> Versions \cup {None, Torn}] /\ deployed \in Versions \cup {None, Torn}
  /\ devTrigger \in BOOLEAN /\ devPush \in BOOLEAN
  /\ op \in [Handlers -> Ops]
  /\ served \in Versions \cup {None, Torn} /\ before \in Versions \cup {None, Torn}
  /\ built \in BOOLEAN /\ disturbed \in BOOLEAN /\ fuel \in 0..Budget

\* The first start: all come from the source, and its hash counts as deployed.
Init ==
  /\ \E v \in Versions : /\ file = [f \in Files |-> IF f = "bak" THEN None ELSE v]
                         /\ deployed = v /\ served = v
  /\ devTrigger = FALSE /\ devPush = FALSE /\ op = [h \in Handlers |-> Idle]
  /\ before = None /\ built = FALSE /\ disturbed = FALSE /\ fuel = Budget

Spend == fuel > 0 /\ fuel' = fuel - 1
Resting == \A h \in Handlers : op[h].pc = "idle"

-----------------------------------------------------------------------------
(* The handlers, a file operation or a statement a step.                   *)

Set(h, new) == op' = [op EXCEPT ![h] = new]
Goto(h, pc) == Set(h, [op[h] EXCEPT !.pc = pc])
From(k) == Copies[k.kind][k.nth][1]
Into(k) == Copies[k.kind][k.nth][2]

Call(h) ==
  /\ op[h].pc = "idle" /\ Spend
  /\ \E kind \in DOMAIN Copies :
       /\ kind = "rollback" => file["bak"] # None
       /\ Set(h, [Idle EXCEPT !.kind = kind,
                    !.pc = CASE kind = "seed" -> "decide" [] kind = "push" -> "trigger"
                             [] OTHER -> "open"])
       /\ before' = IF kind = "promote" THEN file["golden"] ELSE before
  /\ disturbed' = (disturbed \/ ~ Resting)
  /\ UNCHANGED <<file, meta, served, built>>

\* seed_edge ends a dev push when Build is not what was deployed.
Decide(h) ==
  /\ op[h].pc = "decide"
  /\ devTrigger' = (devTrigger /\ (deployed = None \/ file["golden"] = deployed))
  /\ devPush' = FALSE
  /\ Goto(h, "open")
  /\ UNCHANGED <<file, deployed, hist, fuel>>

\* shutil.copy empties the target, then fills it with what the source holds.
Open(h) ==
  /\ op[h].pc = "open"
  /\ file' = [file EXCEPT ![Into(op[h])] = Torn]
  /\ Goto(h, "close")
  /\ UNCHANGED <<meta, hist, fuel>>

Close(h) ==
  /\ op[h].pc = "close"
  /\ LET k == op[h]
     IN /\ file' = [file EXCEPT ![Into(k)] = file[From(k)]]
        /\ Set(h, IF k.kind = "seed" THEN Idle
                  ELSE IF k.nth = Len(Copies[k.kind]) THEN [k EXCEPT !.pc = "flag"]
                  ELSE [k EXCEPT !.pc = "open", !.nth = @ + 1])
  /\ UNCHANGED <<meta, hist, fuel>>

\* push_dev_gateways sets the trigger, then the flag; the others clear both.
Trigger(h) ==
  /\ op[h].pc = "trigger"
  /\ devTrigger' = (op[h].kind = "push")
  /\ Goto(h, IF op[h].kind = "push" THEN "flag" ELSE "hash")
  /\ UNCHANGED <<file, deployed, devPush, hist, fuel>>

Flag(h) ==
  /\ op[h].pc = "flag"
  /\ devPush' = (op[h].kind = "push")
  /\ IF op[h].kind = "push" THEN Set(h, Idle) ELSE Goto(h, "trigger")
  /\ UNCHANGED <<file, deployed, devTrigger, hist, fuel>>

\* Bug: what counts as deployed is the installer that was replaced.
HashBackup(h) ==
  /\ op[h].pc = "hash"
  /\ Set(h, [op[h] EXCEPT !.pc = "store", !.hash = file["bak"]])
  /\ UNCHANGED <<file, meta, hist, fuel>>

Hash(h) ==
  /\ op[h].pc = "hash"
  /\ Set(h, [op[h] EXCEPT !.pc = "store", !.hash = file["golden"]])
  /\ UNCHANGED <<file, meta, hist, fuel>>

Store(h) ==
  /\ op[h].pc = "store"
  /\ deployed' = op[h].hash
  /\ Goto(h, "tell")
  /\ UNCHANGED <<file, devTrigger, devPush, hist, fuel>>

\* trigger_update_version: every gateway installs Build.
Tell(h) ==
  /\ op[h].pc = "tell"
  /\ served' = file["golden"] /\ built' = FALSE
  /\ Set(h, Idle)
  /\ UNCHANGED <<file, meta, before, disturbed, fuel>>

Step(h) ==
  \/ Call(h) \/ Decide(h) \/ Open(h) \/ Close(h) \/ Trigger(h) \/ Flag(h) \/ Hash(h) \/ Store(h)
  \/ Tell(h)

\* A copy or a statement fails, or the dashboard stops: it answers nothing.
Cut(h) ==
  /\ op[h].pc # "idle" /\ Spend
  /\ Set(h, Idle)
  /\ disturbed' = TRUE
  /\ UNCHANGED <<file, meta, served, before, built>>

\* deploy-dashboard.sh resets the tracked files to a new commit, then restarts; the
\* backup is not tracked.
Upgrade ==
  /\ Spend /\ Resting
  /\ \E build, edge \in Versions :
       file' = [file EXCEPT !["golden"] = build, !["source"] = build, !["edge"] = edge]
  /\ built' = TRUE
  /\ UNCHANGED <<meta, op, served, before, disturbed>>

Next == Upgrade \/ \E h \in Handlers : Step(h) \/ Cut(h)

Spec == Init /\ [][Next]_vars

-----------------------------------------------------------------------------
(* What must hold.                                                         *)

\* The state the operator is shown (dev_status).
Pipeline ==
  IF file["golden"] # file["edge"] THEN "needs_seed"
  ELSE IF devTrigger /\ (deployed = None \/ file["golden"] # deployed) THEN "dev_in_progress"
  ELSE IF devPush /\ deployed # None /\ file["golden"] # deployed THEN "ready_for_promote"
  ELSE IF deployed # None /\ file["golden"] # deployed THEN "ready_for_dev"
  ELSE "clear"

\* What counts as deployed is what the fleet was told to install, and Build until the
\* next upgrade; the operator is then shown no push that waits for a promotion.
DeployedIsServed ==
  /\ deployed = served /\ deployed \in Versions
  /\ ~ built => file["golden"] = served /\ Pipeline \in {"clear", "needs_seed"}

\* "Restore previous golden installer" (rollback_golden): the backup is what the last
\* promotion replaced.
BackupIsPrevious == file["bak"] = before

\* The flag of a push never outlives its trigger: ready_for_promote is not reached.
FlagsAgree == devPush => devTrigger /\ Pipeline # "ready_for_promote"

\* Between requests that neither overlapped nor were cut off.
ReleasesConsistent ==
  Resting /\ ~ disturbed => DeployedIsServed /\ BackupIsPrevious /\ FlagsAgree
=============================================================================
