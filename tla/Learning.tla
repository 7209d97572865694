------------------------------ MODULE Learning ------------------------------
(***************************************************************************)
(* Policy gaps: commands approved or denied so often that a rule should     *)
(* cover them.  compute_gaps reads the tables one after the other; its      *)
(* result replaces the cache the operator is shown.  It is run by an        *)
(* hourly thread, by requests, and by "mark all seen".  Which gaps are new, *)
(* their counts and descriptions are left out.                              *)
(***************************************************************************)
EXTENDS Integers, FiniteSets

CONSTANTS
  Gaps,      \* pairs of a kind (approve, deny) and a command
  Requests,  \* requests of the operator
  Budget     \* bound: changes of the tables, requests and faults

ConstantsAssumption == Budget \in Nat /\ "loop" \notin Requests

Commands == {gap[2] : gap \in Gaps}
Scans == Requests \cup {"loop"}

VARIABLES
  rows,      \* gaps whose requests rows reach the threshold
  ruled,     \* gaps the allowlist or the blocklist covers
  dismissed, \* dismissed_policy_gaps
  seen,      \* meta: learning_seen_gaps
  cache,     \* the gaps of _gaps_cache
  scan,      \* the runs of compute_gaps and the handlers around them
  cleared,   \* history: commands of the marks that were answered
  overlap,   \* history: two scans overlapped
  fuel

tables == <<rows, ruled, dismissed, seen>>
hist == <<cleared, overlap>>
vars == <<tables, cache, scan, hist, fuel>>

Idle == [pc |-> "idle", mark |-> FALSE, skip |-> {}, ruled |-> {}, found |-> {}, todo |-> {}]

TypeOK ==
  /\ rows \subseteq Gaps /\ ruled \subseteq Gaps /\ dismissed \subseteq Commands
  /\ seen \subseteq Commands /\ cache \subseteq Gaps
  /\ scan \in [Scans -> [pc : {"idle", "dismissed", "rules", "rows", "store", "mark", "write",
                               "dismiss"},
                         mark : BOOLEAN, skip : SUBSET Commands, ruled : SUBSET Gaps,
                         found : SUBSET Gaps, todo : SUBSET Commands]]
  /\ cleared \subseteq Commands /\ overlap \in BOOLEAN /\ fuel \in 0..Budget

\* The start of the dashboard fills the cache.
Init ==
  /\ rows \in SUBSET Gaps /\ ruled = {} /\ dismissed = {} /\ seen = {}
  /\ cache = rows /\ scan = [s \in Scans |-> Idle]
  /\ cleared = {} /\ overlap = FALSE /\ fuel = Budget

Spend == fuel > 0 /\ fuel' = fuel - 1

-----------------------------------------------------------------------------
(* compute_gaps.                                                           *)

Set(s, new) == scan' = [scan EXCEPT ![s] = new]

\* The thread wakes up; the operator asks for a refresh or for "mark all seen".
Enter(s) ==
  /\ scan[s].pc = "idle"
  /\ IF s = "loop" THEN UNCHANGED fuel ELSE Spend
  /\ \E mark \in {s # "loop", FALSE} : Set(s, [Idle EXCEPT !.pc = "dismissed", !.mark = mark])
  /\ overlap' = (overlap \/ \E r \in Scans : scan[r].pc # "idle")
  /\ UNCHANGED <<tables, cache, cleared>>

\* Bug: the commands recorded as seen are skipped, not the dismissed ones.
ReadSeen(s) ==
  /\ scan[s].pc = "dismissed"
  /\ Set(s, [scan[s] EXCEPT !.pc = "rules", !.skip = seen])
  /\ UNCHANGED <<tables, cache, hist, fuel>>

ReadDismissed(s) ==
  /\ scan[s].pc = "dismissed"
  /\ Set(s, [scan[s] EXCEPT !.pc = "rules", !.skip = dismissed])
  /\ UNCHANGED <<tables, cache, hist, fuel>>

ReadRules(s) ==
  /\ scan[s].pc = "rules"
  /\ Set(s, [scan[s] EXCEPT !.pc = "rows", !.ruled = ruled])
  /\ UNCHANGED <<tables, cache, hist, fuel>>

\* What is left of the rows.  "Mark all seen" goes on with it.
ReadRows(s) ==
  /\ scan[s].pc = "rows"
  /\ LET k == scan[s]
         gaps == {gap \in rows \ k.ruled : gap[2] \notin k.skip}
     IN Set(s, [Idle EXCEPT !.pc = IF k.mark THEN "mark" ELSE "store", !.mark = k.mark,
                            !.found = gaps,
                            !.todo = IF k.mark THEN {gap[2] : gap \in gaps} ELSE k.todo])
  /\ UNCHANGED <<tables, cache, hist, fuel>>

\* Under the lock.  The last scan of a mark answers it: what it cleared is in todo.
Store(s) ==
  /\ scan[s].pc = "store"
  /\ cache' = scan[s].found
  /\ cleared' = cleared \cup scan[s].todo
  /\ Set(s, Idle)
  /\ UNCHANGED <<tables, overlap, fuel>>

-----------------------------------------------------------------------------
(* mark_all_seen, after its own compute_gaps.                              *)

MarkRead(s) ==
  /\ scan[s].pc = "mark"
  /\ Set(s, [scan[s] EXCEPT !.pc = "write", !.skip = seen])
  /\ UNCHANGED <<tables, cache, hist, fuel>>

MarkWrite(s) ==
  /\ scan[s].pc = "write"
  /\ seen' = scan[s].skip \cup scan[s].todo
  /\ Set(s, [scan[s] EXCEPT !.pc = "dismiss", !.skip = scan[s].todo])
  /\ UNCHANGED <<rows, ruled, dismissed, cache, hist, fuel>>

\* Bug: the commands are recorded as seen only.
DismissNone(s) ==
  /\ scan[s].pc = "dismiss"
  /\ Set(s, [Idle EXCEPT !.pc = "dismissed", !.todo = scan[s].todo])
  /\ UNCHANGED <<tables, cache, hist, fuel>>

\* One transaction a command; then refresh_gaps.
Dismiss(s) ==
  /\ scan[s].pc = "dismiss"
  /\ IF scan[s].skip = {}
     THEN Set(s, [Idle EXCEPT !.pc = "dismissed", !.todo = scan[s].todo]) /\ UNCHANGED dismissed
     ELSE \E c \in scan[s].skip :
            /\ dismissed' = dismissed \cup {c}
            /\ Set(s, [scan[s] EXCEPT !.skip = @ \ {c}])
  /\ UNCHANGED <<rows, ruled, seen, cache, hist, fuel>>

Step(s) ==
  \/ Enter(s) \/ ReadDismissed(s) \/ ReadRules(s) \/ ReadRows(s) \/ Store(s)
  \/ MarkRead(s) \/ MarkWrite(s) \/ Dismiss(s)

-----------------------------------------------------------------------------
(* The tables, the operator and the faults.                                *)

\* Decisions and purges move a command over or under the threshold; a policy is saved.
Decide(gap) ==
  /\ Spend
  /\ \/ rows' = (rows \cup {gap}) /\ UNCHANGED ruled
     \/ rows' = rows \ {gap} /\ UNCHANGED ruled
     \/ ruled' = (IF gap \in ruled THEN ruled \ {gap} ELSE ruled \cup {gap}) /\ UNCHANGED rows
  /\ UNCHANGED <<dismissed, seen, cache, scan, hist>>

\* POST dismiss-gap leaves the cache alone.
DismissOne(c) ==
  /\ Spend
  /\ dismissed' = dismissed \cup {c}
  /\ UNCHANGED <<rows, ruled, seen, cache, scan, hist>>

\* A read or a write fails: a refresh keeps the old cache, a mark answers 500.
Cut(s) ==
  /\ scan[s].pc # "idle" /\ Spend
  /\ Set(s, Idle)
  /\ UNCHANGED <<tables, cache, hist>>

Next ==
  \/ \E s \in Scans : Step(s) \/ Cut(s)
  \/ \E gap \in Gaps : Decide(gap)
  \/ \E c \in Commands : DismissOne(c)

\* The hourly thread loops for ever, whatever a scan raises.
Spec == Init /\ [][Next]_vars /\ WF_vars(Step("loop"))

-----------------------------------------------------------------------------
(* What must hold.                                                         *)

\* "Record the current set of gaps as seen and dismiss them so the screen clears"
\* (mark_all_seen): what a mark cleared stays recorded and is not shown again, unless
\* scans overlapped: one that began before the mark stores what it found after it, and
\* two marks overwrite each other's record.
ClearedStayOut ==
  overlap \/ (cleared \subseteq seen /\ \A gap \in cache : gap[2] \notin cleared)

\* Whatever overlapped, was cut off or stored late, a dismissed command leaves the
\* cache for good.
DismissedLeaves ==
  \A c \in Commands : (c \in dismissed) ~> [](\A gap \in cache : gap[2] # c)
=============================================================================
