----------------------------- MODULE RateLimits -----------------------------
(***************************************************************************)
(* The in-memory rate limiter of the dashboard (core/rate_limit.py): one    *)
(* dictionary of buckets, each the times of the calls that were let in,     *)
(* read, filtered and written back by request threads that hold no lock.    *)
(* Every thread first sweeps all buckets when the last sweep is old.        *)
(*                                                                          *)
(* The code filters, counts and extends a bucket and never looks at its     *)
(* order: it is the set of its entries, told apart by the number of the     *)
(* call, since times can be equal.                                          *)
(***************************************************************************)
EXTENDS Integers, FiniteSets

CONSTANTS Callers,      \* request threads
          Keys,         \* bucket keys: (kind, address) or ("agent", id)
          Agents,       \* the keys of agents, whose refusal rewrites the bucket
          Max,          \* calls let in per window; 0 switches an agent's limit off
          Window,
          MaxClock,     \* bound of the clock
          Budget        \* bound of the number of calls

ConstantsAssumption == /\ Agents \subseteq Keys
                       /\ Max \in Nat /\ Window \in Nat \ {0}
                       /\ MaxClock \in Nat /\ Budget \in Nat

VARIABLES clock,
          buckets,      \* _rate_limit_buckets
          swept,        \* _last_sweep
          thread,       \* what each thread holds
          admitted,     \* history: the calls of each key that were let in and ran alone
          started       \* calls begun; the number of the last one

vars == <<clock, buckets, swept, thread, admitted, started>>

Times == 0..MaxClock
Entries == [at : Times, call : 1..Budget]
Stages == {"idle", "enter", "list", "sweep", "rewrite", "read", "write", "refuse"}

\* call: the number and the time of the request; key, copy: the bucket it works on.
NoKey == "none"
Idle == [at |-> "idle", key |-> NoKey, call |-> [at |-> 0, call |-> 0], todo |-> {},
         swept |-> NoKey, copy |-> {}, alone |-> TRUE]
Records == [at : Stages, key : Keys \cup {NoKey}, call : Entries \cup {Idle.call},
            todo : SUBSET Keys, swept : Keys \cup {NoKey}, copy : SUBSET Entries,
            alone : BOOLEAN]

Init ==
    /\ clock = 0
    /\ buckets = [k \in {} |-> {}]
    /\ swept = 0 - Window
    /\ thread = [c \in Callers |-> Idle]
    /\ admitted = [k \in Keys |-> {}]
    /\ started = 0

Put(k, b) == [x \in DOMAIN buckets \union {k} |->
                 IF x = k THEN b ELSE buckets[x]]
Drop(k) == [x \in DOMAIN buckets \ {k} |-> buckets[x]]
Has(k) == k \in DOMAIN buckets

Fresh(b, now) == {e \in b : now - e.at < Window}

\* Bug: a sweep that forgets.
FreshBefore(b, now) == {e \in b : e.at > now}

Full(b) == Cardinality(b) >= Max
Swept(b, now) == Fresh(b, now)

Set(c, new) == thread' = [thread EXCEPT ![c] = new]
Leave(c) == Set(c, Idle)

(* _check_rate_limit, check_agent_rate_limit_status: the time is read once. *)
(* A limit of 0 lets an agent in without a bucket.                          *)
Enter(c, k) ==
    /\ thread[c].at = "idle" /\ started < Budget
    /\ started' = started + 1
    /\ IF k \in Agents /\ Max = 0
         THEN UNCHANGED thread
         ELSE LET others == {o \in Callers \ {c} : thread[o].at # "idle"} IN
              thread' = [o \in Callers |->
                  IF o = c THEN [Idle EXCEPT !.at = "enter", !.key = k, !.alone = others = {},
                                             !.call = [at |-> clock, call |-> started']]
                  ELSE [thread[o] EXCEPT !.alone = o \notin others /\ @]]
    /\ UNCHANGED <<clock, buckets, swept, admitted>>

(* _sweep: the test of the last sweep, its update and the list of the keys  *)
(* are separate statements, and so are the reading of each bucket and its   *)
(* rewriting or deletion.                                                   *)
SweepDue(c) ==
    /\ thread[c].at = "enter"
    /\ Set(c, [thread[c] EXCEPT
                 !.at = IF thread[c].call.at - swept < Window THEN "read" ELSE "list"])
    /\ UNCHANGED <<clock, buckets, swept, admitted, started>>

ListKeys(c) ==
    /\ thread[c].at = "list"
    /\ swept' = thread[c].call.at
    /\ Set(c, [thread[c] EXCEPT !.at = "sweep", !.todo = DOMAIN buckets])
    /\ UNCHANGED <<clock, buckets, admitted, started>>

\* A bucket that is gone is a KeyError.
SweepRead(c) ==
    /\ thread[c].at = "sweep"
    /\ IF thread[c].todo = {}
         THEN Set(c, [thread[c] EXCEPT !.at = "read"])
         ELSE \E k \in thread[c].todo :
                IF Has(k)
                  THEN Set(c, [thread[c] EXCEPT !.at = "rewrite", !.todo = @ \ {k}, !.swept = k,
                                                !.copy = Swept(buckets[k], thread[c].call.at)])
                  ELSE Leave(c)
    /\ UNCHANGED <<clock, buckets, swept, admitted, started>>

SweepWrite(c) ==
    LET k == thread[c].swept
        b == thread[c].copy IN
    /\ thread[c].at = "rewrite"
    /\ buckets' = IF b # {} THEN Put(k, b) ELSE Drop(k)
    /\ IF b = {} /\ ~ Has(k) THEN Leave(c)
       ELSE Set(c, [thread[c] EXCEPT !.at = "sweep", !.copy = {}])
    /\ UNCHANGED <<clock, swept, admitted, started>>

(* The bucket is read and filtered into a copy; a full one refuses.         *)
Read(c) ==
    LET k == thread[c].key
        b == IF Has(k) THEN Fresh(buckets[k], thread[c].call.at) ELSE {} IN
    /\ thread[c].at = "read"
    /\ IF ~ Full(b) THEN Set(c, [thread[c] EXCEPT !.at = "write", !.copy = b])
       ELSE IF k \in Agents THEN Set(c, [thread[c] EXCEPT !.at = "refuse", !.copy = b])
       ELSE Leave(c)
    /\ UNCHANGED <<clock, buckets, swept, admitted, started>>

Admit(c) ==
    LET m == thread[c] IN
    /\ m.at = "write"
    /\ buckets' = Put(m.key, m.copy \cup {m.call})
    /\ admitted' = IF m.alone THEN [admitted EXCEPT ![m.key] = @ \cup {m.call}]
                   ELSE admitted
    /\ Leave(c)
    /\ UNCHANGED <<clock, swept, started>>

Refuse(c) ==
    /\ thread[c].at = "refuse"
    /\ buckets' = Put(thread[c].key, thread[c].copy)
    /\ Leave(c)
    /\ UNCHANGED <<clock, swept, admitted, started>>

Tick ==
    /\ clock < MaxClock
    /\ clock' = clock + 1
    /\ UNCHANGED <<buckets, swept, thread, admitted, started>>

Next ==
    \/ \E c \in Callers :
         \/ \E k \in Keys : Enter(c, k)
         \/ SweepDue(c) \/ ListKeys(c) \/ SweepRead(c) \/ SweepWrite(c)
         \/ Read(c) \/ Admit(c) \/ Refuse(c)
    \/ Tick

Spec == Init /\ [][Next]_vars
-----------------------------------------------------------------------------
TypeOK ==
    /\ clock \in Times /\ swept \in (0 - Window)..MaxClock
    /\ DOMAIN buckets \subseteq Keys /\ buckets \in [DOMAIN buckets -> SUBSET Entries]
    /\ thread \in [Callers -> Records]
    /\ admitted \in [Keys -> SUBSET Entries]
    /\ started \in 0..Budget

\* In no window does a key get more than Max calls that ran alone: whatever
\* the threads that overlap lose of each other's times, a sweep of another
\* key's thread included, the time of a call nobody overlapped is never lost
\* before it is old.
QuietCallsWithinLimit ==
    Max > 0 =>
    \A k \in Keys, t \in Times :
        Cardinality({e \in Fresh(admitted[k], t) : e.at <= t}) <= Max
=============================================================================
