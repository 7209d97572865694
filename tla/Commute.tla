------------------------------ MODULE Commute ------------------------------
(***************************************************************************)
(* The commute alerts of one person on one day (core/commute.py,            *)
(* db/commute.py): scheduler requests decide whether a notification slot is *)
(* due, ask TfL, mark the slot and answer; agents read, merge and write the *)
(* profile, with an audit row, while they do.  The minute of a request is   *)
(* the clock's or its `at`, so any minute may come with any request.        *)
(***************************************************************************)
EXTENDS Integers, Sequences, FiniteSets

CONSTANTS Runs,         \* requests of the scheduler
          Writers,      \* profile writers
          Minutes,      \* the minutes of the morning (a set of integers)
          Plans,        \* the sets of notify_times a profile may hold
          Budget        \* bound of the number of requests and writes

ConstantsAssumption == /\ Minutes \subseteq Int
                            /\ Plans \subseteq SUBSET Minutes
                            /\ Budget \in Nat

VARIABLES profile,      \* commute_profiles.config_json
          sent,         \* commute_notify_state of the day
          audit,        \* commute_profile_audit: before and after
          run, writer,
          alerts,       \* history: the messages answered, and who overlapped
          tried, last,  \* history: slots a request chose; slots in their last minute
          begun         \* history: requests and writes begun

vars == <<profile, sent, audit, run, writer, alerts, tried, last, begun>>

SLOT_GRACE_MINUTES == 1

Overrides == {<<"none">>, <<"skip">>, <<"office">>} \union ({"times"} \X Plans)
Profiles == [times: Plans, commuteDay: BOOLEAN, paused: BOOLEAN,
             override: Overrides, alerts_only: BOOLEAN]

NoRun == [at |-> "idle", now |-> 0, dry |-> FALSE, prof |-> <<>>, holiday |-> FALSE,
          slot |-> 0, alone |-> TRUE]
NoWriter == [at |-> "idle", new |-> <<>>, before |-> <<>>, alone |-> TRUE]

Init ==
    /\ \E p \in Plans, only \in BOOLEAN :
          profile = [times |-> p, commuteDay |-> TRUE, paused |-> FALSE,
                     override |-> <<"none">>, alerts_only |-> only]
    /\ sent = {} /\ audit = <<>> /\ alerts = <<>> /\ tried = {} /\ last = {}
    /\ run = [r \in Runs |-> NoRun]
    /\ writer = [w \in Writers |-> NoWriter]
    /\ begun = 0

-----------------------------------------------------------------------------
(* day_gate and effective_profile *)
MayRun(p, holiday) ==
    /\ ~p.paused
    /\ p.override # <<"skip">>
    /\ p.override = <<"office">> \/ (~holiday /\ p.commuteDay)

Times(p) == IF p.override[1] = "times" THEN p.override[2] ELSE p.times

\* Mutants: no grace minute; the newest slot first.
WithinMinute(slot, now) == now = slot
LatestOf(slots) == CHOOSE s \in slots : \A o \in slots : o <= s

Due(slot, now) == 0 <= now - slot /\ now - slot <= SLOT_GRACE_MINUTES
FirstOf(slots) == CHOOSE s \in slots : \A o \in slots : s <= o

DueAll(r) == {s \in Times(run[r].prof) : Due(s, run[r].now)}
DueSlots(r) == {s \in Times(run[r].prof) : Due(s, run[r].now) /\ s \notin sent}

Step(r, at) == run' = [run EXCEPT ![r].at = at]
End(r) == run' = [run EXCEPT ![r] = NoRun]

(* due: the profile is read, then the time, then the bank holidays, which   *)
(* may have to be fetched.                                                  *)
DueStart(r, now, dry) ==
    LET others == {o \in Runs \ {r} : run[o].at # "idle"} IN
    /\ run[r].at = "idle" /\ begun < Budget
    /\ begun' = begun + 1
    /\ run' = [o \in Runs |->
          IF o = r THEN [NoRun EXCEPT !.at = "gate", !.now = now, !.dry = dry,
                                      !.prof = profile, !.alone = others = {}]
          ELSE [run[o] EXCEPT !.alone = o \notin others /\ @]]
    /\ UNCHANGED <<profile, sent, audit, writer, alerts, tried, last>>

Gate(r) ==
    /\ run[r].at = "gate"
    /\ \E holiday \in BOOLEAN :
          IF MayRun(run[r].prof, holiday) THEN Step(r, "slots") ELSE End(r)
    /\ UNCHANGED <<profile, sent, audit, writer, alerts, tried, last, begun>>

PickSlot(r) ==
    /\ run[r].at = "slots"
    /\ last' = last \union {s \in DueAll(r) : run[r].now - s = SLOT_GRACE_MINUTES}
    /\ IF DueSlots(r) = {}
         THEN End(r) /\ UNCHANGED tried
         ELSE LET slot == FirstOf(DueSlots(r)) IN
              /\ run' = [run EXCEPT ![r].at = "check", ![r].slot = slot]
              /\ tried' = tried \union {slot}
    /\ UNCHANGED <<profile, sent, audit, writer, alerts, begun>>

(* check and classify: a failed fetch or a disruption has a text; a good    *)
(* train has one unless the profile wants alerts only; a train that left    *)
(* has none.  A slot with nothing to send is not marked.                    *)
Check(r) ==
    /\ run[r].at = "check"
    /\ \E level \in {"nodata", "late", "normal", "passed"} :
          IF level = "passed" \/ (level = "normal" /\ run[r].prof.alerts_only)
            THEN End(r)
            ELSE Step(r, IF run[r].dry THEN "answer" ELSE "mark")
    /\ UNCHANGED <<profile, sent, audit, writer, alerts, tried, last, begun>>

\* Mutant: a message that is not recorded.
MarkNothing(r) ==
    /\ run[r].at = "mark"
    /\ Step(r, "answer")
    /\ UNCHANGED <<profile, sent, audit, writer, alerts, tried, last, begun>>

MarkSent(r) ==
    /\ run[r].at = "mark"
    /\ sent' = sent \union {run[r].slot}
    /\ Step(r, "answer")
    /\ UNCHANGED <<profile, audit, writer, alerts, tried, last, begun>>

(* The answer carries the message, or is lost: the trigger gave up, or the  *)
(* dashboard stopped after the mark.                                        *)
Answer(r) ==
    /\ run[r].at = "answer"
    /\ alerts' = Append(alerts, [slot |-> run[r].slot, dry |-> run[r].dry,
                                 alone |-> run[r].alone])
    /\ End(r)
    /\ UNCHANGED <<profile, sent, audit, writer, tried, last, begun>>

Lost(r) ==
    /\ run[r].at # "idle"
    /\ End(r)
    /\ UNCHANGED <<profile, sent, audit, writer, alerts, tried, last, begun>>

-----------------------------------------------------------------------------
(* update_profile, override and pause: read, merge, then save_profile,      *)
(* which reads the profile again for the audit row before it writes both.   *)
Merged(p) ==
    {[p EXCEPT !.paused = b] : b \in BOOLEAN}
    \union {[p EXCEPT !.override = o] : o \in Overrides}
    \union {[p EXCEPT !.times = t] : t \in Plans}
    \union {[p EXCEPT !.alerts_only = b] : b \in BOOLEAN}

WriteStart(w) ==
    LET others == {o \in Writers \ {w} : writer[o].at # "idle"} IN
    /\ writer[w].at = "idle" /\ begun < Budget
    /\ begun' = begun + 1
    /\ \E new \in Merged(profile) :
          writer' = [o \in Writers |->
              IF o = w THEN [NoWriter EXCEPT !.at = "before", !.new = new,
                                             !.alone = others = {}]
              ELSE [writer[o] EXCEPT !.alone = o \notin others /\ @]]
    /\ UNCHANGED <<profile, sent, audit, run, alerts, tried, last>>

ReadBefore(w) ==
    /\ writer[w].at = "before"
    /\ writer' = [writer EXCEPT ![w].at = "save", ![w].before = profile]
    /\ UNCHANGED <<profile, sent, audit, run, alerts, tried, last, begun>>

\* Mutant: the audit row keeps the profile it was merged into as both.
SaveBlind(w) ==
    /\ writer[w].at = "save"
    /\ profile' = writer[w].new
    /\ audit' = Append(audit, [before |-> writer[w].new, after |-> writer[w].new,
                               alone |-> writer[w].alone])
    /\ writer' = [writer EXCEPT ![w] = NoWriter]
    /\ UNCHANGED <<sent, run, alerts, tried, last, begun>>

SaveProfile(w) ==
    /\ writer[w].at = "save"
    /\ profile' = writer[w].new
    /\ audit' = Append(audit, [before |-> writer[w].before, after |-> writer[w].new,
                               alone |-> writer[w].alone])
    /\ writer' = [writer EXCEPT ![w] = NoWriter]
    /\ UNCHANGED <<sent, run, alerts, tried, last, begun>>

Next ==
    \/ \E r \in Runs :
         \/ \E now \in Minutes, dry \in BOOLEAN : DueStart(r, now, dry)
         \/ Gate(r) \/ PickSlot(r) \/ Check(r) \/ MarkSent(r) \/ Answer(r) \/ Lost(r)
    \/ \E w \in Writers : WriteStart(w) \/ ReadBefore(w) \/ SaveProfile(w)

Spec == Init /\ [][Next]_vars
-----------------------------------------------------------------------------
TypeOK ==
    /\ profile \in Profiles
    /\ sent \subseteq Minutes /\ tried \subseteq Minutes /\ last \subseteq Minutes
    /\ \A r \in Runs : run[r].at \in {"idle", "gate", "slots", "check", "mark", "answer"}
    /\ \A w \in Writers : writer[w].at \in {"idle", "before", "save"}
    /\ begun \in 0..Budget

\* A slot's message is answered once, however often the scheduler asks in its
\* grace, unless two requests overlap: both then find the slot unsent (only
\* the mark, after the fetch, tells them apart).
SlotSentOnce ==
    \A s \in Minutes :
        Cardinality({i \in DOMAIN alerts : /\ alerts[i].slot = s
                                           /\ ~alerts[i].dry /\ alerts[i].alone}) <= 1

\* A request that comes in the last minute of a slot tries it if nobody has:
\* a neighbouring slot that had nothing to send, and so stays due, never
\* makes the next one miss its grace.
SlotsTried == last \subseteq tried \union sent

\* The audit rows chain: the profile that a writer nobody overlapped says it
\* replaced is the one the row before it wrote.
AuditChains ==
    \A i \in DOMAIN audit :
        i > 1 /\ audit[i].alone => audit[i].before = audit[i-1].after
=============================================================================
