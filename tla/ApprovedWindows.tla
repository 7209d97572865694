-------------------------- MODULE ApprovedWindows --------------------------
(***************************************************************************)
(* Approved windows: commands an operator allows ahead of time, for a       *)
(* number of runs.  The table of db/windows.py and its endpoints, each a    *)
(* read followed by a write in another transaction; the gateway's copy of   *)
(* the active rows; and static/features/approved_windows.sh, which claims a *)
(* run at the dashboard and runs on its copy when that cannot be reached.   *)
(***************************************************************************)
EXTENDS Integers, FiniteSets

CONSTANTS
  Windows,   \* rows, by id; an id is never used again
  Runs,      \* commands sent with a window token
  Cmds,      \* commands a window may be for
  Caps,      \* values of max_executions; 0 is without limit
  Budget     \* bound: requests from the dashboard's page, and claims without answer

ConstantsAssumption ==
  /\ Caps \subseteq Nat /\ Budget \in Nat /\ Cmds # {} /\ Windows # {} /\ IsFiniteSet(Runs)

VARIABLES
  row,       \* approved_windows
  over,      \* windows whose expires_at is past
  due,       \* windows whose start and end, or whose days and time, allow a run now
  ops,       \* requests of the operator between their read and their write
  cache,     \* /etc/eshu-windows.txt
  run,       \* the commands sent with a token, and their claims
  open,      \* history: commands a window was enabled for
  cap,       \* history: the largest cap a window had, -1 when it had none
  overlap,   \* history: windows approved and denied by requests that overlap
  fuel       \* bound: what is left of Budget

vars == <<row, over, due, ops, cache, run, open, cap, overlap, fuel>>

\* A recurring window has days and a time; at midnight its time is 0.
Schedules == {"once", "recurring", "midnight"}
Statuses == {"none", "active", "pending_review", "denied", "deleted"}
Row == [status : Statuses, enabled : BOOLEAN, max : Caps \cup {0}, count : Nat,
        cmd : Cmds, schedule : Schedules]
AnyCmd == CHOOSE c \in Cmds : TRUE
NoRow == [status |-> "none", enabled |-> FALSE, max |-> 0, count |-> 0,
          cmd |-> AnyCmd, schedule |-> "once"]
Ops == [kind : {"toggle", "edit", "delete", "approve", "deny"}, window : Windows, to : BOOLEAN]

TypeOK ==
  /\ row \in [Windows -> Row]
  /\ over \subseteq Windows /\ due \subseteq Windows /\ ops \subseteq Ops
  /\ cache \subseteq [window : Windows, cmd : Cmds, schedule : Schedules]
  /\ run \in [Runs -> [stage : {"match", "read", "count", "done"}, window : Windows, cmd : Cmds,
                       result : {"none", "run", "rejected"}, counted : BOOLEAN]]
  /\ open \in [Windows -> SUBSET Cmds] /\ cap \in [Windows -> Nat \cup {-1}]
  /\ overlap \subseteq Windows /\ fuel \in 0..Budget

Init ==
  /\ row = [w \in Windows |-> NoRow] /\ over = {} /\ due = {}
  /\ ops = {} /\ cache = {}
  /\ run = [r \in Runs |-> [stage |-> "match", window |-> CHOOSE w \in Windows : TRUE,
                            cmd |-> AnyCmd, result |-> "none", counted |-> FALSE]]
  /\ open = [w \in Windows |-> {}] /\ cap = [w \in Windows |-> 0]
  /\ overlap = {} /\ fuel = Budget

-----------------------------------------------------------------------------
(* The table.                                                              *)

Exists(w) == row[w].status \notin {"none", "deleted"}

\* Every write of the table is seen by the history.
SetRows(new) ==
  /\ row' = new
  /\ open' = [w \in Windows |-> open[w] \cup {c \in {new[w].cmd} : new[w].enabled}]
  /\ cap' = [w \in Windows |->
       IF new[w].status \in {"none", "deleted"} THEN cap[w]
       ELSE IF new[w].max = 0 \/ cap[w] = -1 THEN -1
       ELSE IF new[w].max > cap[w] THEN new[w].max ELSE cap[w]]

SetRow(w, new) == SetRows([row EXCEPT ![w] = new])

\* get_approved_windows turns off the windows that are over, then lists them all.
Listed == [w \in Windows |-> [row[w] EXCEPT !.enabled = @ /\ w \notin over]]

\* get_active_approved_windows.  Bug: what is enabled is not looked at.
Timely(w) == w \notin over /\ (row[w].schedule = "once" => w \in due)
Within(w) == Timely(w) /\ (row[w].max = 0 \/ row[w].count < row[w].max)
ActiveAny(w) == Exists(w) /\ Within(w)
Active(w) == row[w].enabled /\ Within(w)

\* Bug: a window that reached its cap is merely turned off.
ClaimableEnabled(w) == row[w].enabled /\ Timely(w)

\* The guard of increment_window_execution's UPDATE, and what it does: at the cap
\* the window is turned off.
Claimable(w) == row[w].enabled /\ Within(w)
Counted(w) ==
  LET n == row[w].count + 1 IN
  [row[w] EXCEPT !.count = n, !.enabled = @ /\ ~ (row[w].max > 0 /\ n >= row[w].max)]

-----------------------------------------------------------------------------
(* The dashboard.                                                          *)

Request == fuel > 0 /\ fuel' = fuel - 1 /\ UNCHANGED <<over, due, cache, run>>

\* create_window, by the operator, or submit_window_request, by an agent.
Create ==
  /\ Request
  /\ \E w \in Windows, m \in Caps, s \in Schedules, status \in {"active", "pending_review"} :
       /\ row[w].status = "none"
       /\ SetRow(w, [NoRow EXCEPT !.status = status, !.enabled = (status = "active"),
                                  !.max = m, !.schedule = s])
  /\ UNCHANGED <<ops, overlap>>

Pending(kind, w) == \E o \in ops : o.kind = kind /\ o.window = w

\* The read of a request: toggle_window, edit_window and delete_window list the
\* windows, approve_window and deny_window_request look at their own.
Start(kind, w, to) ==
  /\ Request
  /\ ops' = ops \cup {[kind |-> kind, window |-> w, to |-> to]}
  /\ overlap' = overlap \cup
       {x \in {w} : (kind = "approve" /\ Pending("deny", w)) \/ (kind = "deny" /\ Pending("approve", w))}

Toggle ==
  /\ \E w \in Windows :
       /\ row[w].status = "active"
       /\ Start("toggle", w, ~ Listed[w].enabled)
  /\ SetRows(Listed)

EditOrDelete ==
  /\ \E w \in Windows, kind \in {"edit", "delete"} : Exists(w) /\ Start(kind, w, FALSE)
  /\ SetRows(Listed)

ApproveOrDeny ==
  /\ \E w \in Windows, kind \in {"approve", "deny"} :
       row[w].status = "pending_review" /\ Start(kind, w, FALSE)
  /\ SetRows(row)

Finish(o) == o \in ops /\ ops' = ops \ {o} /\ UNCHANGED <<over, due, cache, run, overlap, fuel>>

\* toggle_approved_window, update_approved_window, delete_approved_window,
\* approve_window_request, and the UPDATE of deny_window_request: only the approval
\* repeats what was read.
Write(o) ==
  /\ Finish(o)
  /\ LET w == o.window IN
     IF ~ Exists(w) THEN SetRows(row)
     ELSE CASE o.kind = "toggle" -> SetRow(w, [row[w] EXCEPT !.enabled = o.to])
            [] o.kind = "edit" -> \E m \in Caps, c \in Cmds :
                                    SetRow(w, [row[w] EXCEPT !.max = m, !.cmd = c])
            [] o.kind = "delete" -> SetRow(w, [NoRow EXCEPT !.status = "deleted"])
            [] o.kind = "approve" ->
                 SetRow(w, IF row[w].status = "pending_review"
                           THEN [row[w] EXCEPT !.status = "active", !.enabled = TRUE] ELSE row[w])
            [] OTHER -> SetRow(w, [row[w] EXCEPT !.status = "denied"])

-----------------------------------------------------------------------------
(* The gateway.                                                            *)

\* The poller's copy of what fetch_policy answers.
Sync ==
  /\ cache' = {[window |-> w, cmd |-> row[w].cmd, schedule |-> row[w].schedule] :
                 w \in {w \in Windows : Active(w)}}
  /\ cache' # cache
  /\ UNCHANGED <<row, over, due, ops, run, open, cap, overlap, fuel>>

Set(r, new) == run' = [run EXCEPT ![r] = new]

\* The line of the token: expiry, schedule and command, from the gateway's copy.
\* The days and the time of a window at midnight are not looked at.
Fits(line, c) ==
  /\ line.cmd = c /\ line.window \notin over
  /\ line.schedule # "midnight" => line.window \in due

Match(r) ==
  /\ run[r].stage = "match"
  /\ \E w \in Windows, c \in Cmds :
       \/ /\ \E line \in cache : line.window = w /\ Fits(line, c)
          /\ Set(r, [run[r] EXCEPT !.stage = "read", !.window = w, !.cmd = c])
       \/ /\ row[w].status # "none" /\ ~ \E line \in cache : line.window = w /\ Fits(line, c)
          /\ Set(r, [run[r] EXCEPT !.stage = "done", !.window = w, !.cmd = c,
                                   !.result = "rejected"])
  /\ UNCHANGED <<row, over, due, ops, cache, open, cap, overlap, fuel>>

\* An answer is of use only while the script waits for it.
Answered(r, stage, result) ==
  [run[r] EXCEPT !.stage = stage, !.result = IF @ = "none" THEN result ELSE @]

\* window_execute: the window of the token.
Find(r) ==
  /\ run[r].stage = "read"
  /\ SetRows(Listed)
  /\ Set(r, IF Exists(run[r].window) THEN [run[r] EXCEPT !.stage = "count"]
            ELSE Answered(r, "done", "rejected"))
  /\ UNCHANGED <<over, due, ops, cache, overlap, fuel>>

\* increment_window_execution; the script runs the command on 200 only.
Count(r) ==
  /\ run[r].stage = "count"
  /\ IF Claimable(run[r].window)
     THEN /\ SetRow(run[r].window, Counted(run[r].window))
          /\ Set(r, [Answered(r, "done", "run") EXCEPT !.counted = TRUE])
     ELSE /\ SetRows(row)
          /\ Set(r, Answered(r, "done", "rejected"))
  /\ UNCHANGED <<over, due, ops, cache, overlap, fuel>>

\* curl gives up before or after the dashboard has the claim: the script runs the
\* command on the word of its copy.
GiveUp(r) ==
  /\ run[r].stage \in {"read", "count"} /\ run[r].result = "none"
  /\ fuel > 0 /\ fuel' = fuel - 1
  /\ \E stage \in {run[r].stage, "done"} :
       /\ run[r].stage = "count" => stage = "count"
       /\ Set(r, [run[r] EXCEPT !.stage = stage, !.result = "run"])
  /\ UNCHANGED <<row, over, due, ops, cache, open, cap, overlap>>

\* Time.
Expire ==
  /\ \E w \in Windows : Exists(w) /\ w \notin over /\ over' = over \cup {w}
  /\ UNCHANGED <<row, due, ops, cache, run, open, cap, overlap, fuel>>

Tick ==
  /\ \E w \in Windows : /\ Exists(w) /\ row[w].schedule # "midnight"
                        /\ due' = IF w \in due THEN due \ {w} ELSE due \cup {w}
  /\ UNCHANGED <<row, over, ops, cache, run, open, cap, overlap, fuel>>

Next ==
  \/ Create \/ Toggle \/ EditOrDelete \/ ApproveOrDeny \/ \E o \in ops : Write(o)
  \/ Sync \/ Expire \/ Tick
  \/ \E r \in Runs : Match(r) \/ Find(r) \/ Count(r) \/ GiveUp(r)

Spec == Init /\ [][Next]_vars

-----------------------------------------------------------------------------
(* What must hold.                                                         *)

\* However claims race with toggles, edits and claims that got no answer, the
\* claims a window grants are never more than the largest cap it had: only runs on
\* the gateway's copy come on top, and those only when the dashboard did not answer.
ClaimsWithinCap ==
  \A w \in Windows :
    cap[w] # -1 => Cardinality({r \in Runs : run[r].counted /\ run[r].window = w}) <= cap[w]

\* What runs under a window, also on the word of an old copy, is a command the window
\* was once enabled for, hence one an operator saw; and a request the operator denied
\* is not an enabled window, unless the denial crossed an approval.
RunsWereApproved ==
  /\ \A r \in Runs : run[r].result = "run" => run[r].cmd \in open[run[r].window]
  /\ \A w \in Windows : row[w].status = "denied" /\ row[w].enabled => w \in overlap

\* Claims and commands together: what a window grants is within what it was given.
WindowsHold == ClaimsWithinCap /\ RunsWereApproved
=============================================================================
