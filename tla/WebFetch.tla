------------------------------ MODULE WebFetch ------------------------------
(***************************************************************************)
(* The mediated web fetch: the policy of a principal, the limits of          *)
(* core/web_fetch_limit.py, and a fetch that resolves, connects and follows  *)
(* redirects by itself (core/web_fetch.py), from handler to audit row.       *)
(***************************************************************************)
EXTENDS Integers, FiniteSets

CONSTANTS
  Calls,          \* calls of web_fetch_url
  Principals,
  Hosts,          \* hosts a URL or a Location can name
  MinuteLimit, HourLimit, MaxConcurrent, MaxRedirects,
  Minute, Hour,   \* lengths of the windows, in ticks of the clock
  MaxClock,       \* bound of the clock
  Budget          \* bound: policies saved

ConstantsAssumption ==
  /\ {MinuteLimit, HourLimit, MaxConcurrent, MaxRedirects, MaxClock, Budget} \subseteq Nat
  /\ Minute \in Nat \ {0} /\ Hour \in Nat \ {0}
  /\ IsFiniteSet(Calls) /\ Principals # {} /\ Hosts # {}

VARIABLES
  clock,
  policy,    \* web_fetch_policies
  minute,    \* _minute: the fetches of a principal in its minute, with their times
  hour,      \* _hour
  free,      \* what is left of a principal's semaphore
  call,
  started,   \* history: when a call was let in, -1 before
  contacts,  \* history: what a call connected to, in order
  audits,    \* history: audit rows of a call
  fuel

vars == <<clock, policy, minute, hour, free, call, started, contacts, audits, fuel>>

Urls == [host : Hosts, tls : BOOLEAN]
\* An entry covers a host and its subdomains; a policy is what the entries cover.
Policies == [enabled : BOOLEAN, allow : SUBSET Hosts, deny : SUBSET Hosts]
NoPolicy == [enabled |-> FALSE, allow |-> {}, deny |-> {}]
AnyUrl == CHOOSE u \in Urls : TRUE
Anyone == CHOOSE p \in Principals : TRUE

Stages == {"new", "acquire", "evaluate", "open", "answer", "audit", "release", "done"}
Hits == [at : 0..MaxClock, call : Calls]

TypeOK ==
  /\ clock \in 0..MaxClock
  /\ policy \in [Principals -> Policies]
  /\ minute \in [Principals -> SUBSET Hits] /\ hour \in [Principals -> SUBSET Hits]
  /\ free \in [Principals -> 0..MaxConcurrent]
  /\ call \in [Calls -> [stage : Stages, who : Principals, policy : Policies, url : Urls,
                         from : {"tls", "plain", "none"}, hops : 0..MaxRedirects + 1,
                         held : BOOLEAN, code : {"none", "ok", "denied", "limited", "error"}]]
  /\ started \in [Calls -> -1..MaxClock]
  /\ audits \in [Calls -> 0..1] /\ fuel \in 0..Budget

Init ==
  /\ clock = 0 /\ policy = [p \in Principals |-> NoPolicy]
  /\ minute = [p \in Principals |-> {}] /\ hour = [p \in Principals |-> {}]
  /\ free = [p \in Principals |-> MaxConcurrent]
  /\ call = [c \in Calls |-> [stage |-> "new", who |-> Anyone, policy |-> NoPolicy, url |-> AnyUrl,
                              from |-> "none", hops |-> 0, held |-> FALSE, code |-> "none"]]
  /\ started = [c \in Calls |-> -1] /\ contacts = [c \in Calls |-> {}]
  /\ audits = [c \in Calls |-> 0] /\ fuel = Budget

-----------------------------------------------------------------------------
Set(c, new) == call' = [call EXCEPT ![c] = new]
End(c, code) == [call[c] EXCEPT !.stage = "audit", !.code = code]

limits == <<minute, hour, free, started>>

\* set_web_fetch_policy, by the operator.
SavePolicy ==
  /\ fuel > 0 /\ fuel' = fuel - 1
  /\ \E p \in Principals, new \in Policies : policy[p] # new /\ policy' = [policy EXCEPT ![p] = new]
  /\ UNCHANGED <<clock, limits, call, contacts, audits>>

\* The handler reads the policy once; the fetch works with what it read.
Start(c) ==
  /\ call[c].stage = "new"
  /\ \E p \in Principals, u \in Urls :
       Set(c, [call[c] EXCEPT !.stage = "acquire", !.who = p, !.url = u, !.policy = policy[p]])
  /\ UNCHANGED <<clock, policy, limits, contacts, audits, fuel>>

\* acquire, under its lock: entries of the age of the window are dropped first, and a
\* fetch that finds no slot leaves no entry.
Recent(hits, window) == {h \in hits : clock - h.at < window}

\* Bug: a full window lets one more fetch in.
LetInOneMore(p) ==
  /\ Cardinality(Recent(minute[p], Minute)) <= MinuteLimit
  /\ Cardinality(Recent(hour[p], Hour)) < HourLimit
  /\ free[p] > 0

LetIn(p) ==
  /\ Cardinality(Recent(minute[p], Minute)) < MinuteLimit
  /\ Cardinality(Recent(hour[p], Hour)) < HourLimit
  /\ free[p] > 0

Acquire(c) ==
  /\ call[c].stage = "acquire"
  /\ LET p == call[c].who
         hit == {h \in {[at |-> clock, call |-> c]} : LetIn(p)}
     IN /\ minute' = [minute EXCEPT ![p] = Recent(@, Minute) \cup hit]
        /\ hour' = [hour EXCEPT ![p] = Recent(@, Hour) \cup hit]
        /\ IF LetIn(p)
           THEN /\ free' = [free EXCEPT ![p] = @ - 1] /\ started' = [started EXCEPT ![c] = clock]
                /\ Set(c, [call[c] EXCEPT !.stage = "evaluate", !.held = TRUE])
           ELSE UNCHANGED <<free, started>> /\ Set(c, End(c, "limited"))
  /\ UNCHANGED <<clock, policy, contacts, audits, fuel>>

\* evaluate: off, denied, not allowed or allowed, in this order.
Allowed(pol, u) == pol.enabled /\ u.host \notin pol.deny /\ u.host \in pol.allow

Evaluate(c) ==
  /\ call[c].stage = "evaluate"
  /\ Set(c, IF Allowed(call[c].policy, call[c].url) THEN [call[c] EXCEPT !.stage = "open"]
            ELSE End(c, "denied"))
  /\ UNCHANGED <<clock, policy, limits, contacts, audits, fuel>>

\* _open: every address of the host must be public, and the connection is made to an
\* address that was looked at.
Open(c) ==
  /\ call[c].stage = "open"
  /\ \E public \in BOOLEAN :
       IF public
       THEN /\ contacts' = [contacts EXCEPT ![c] = @ \cup
                 {[url |-> call[c].url, public |-> public, hop |-> call[c].hops, from |-> call[c].from]}]
            /\ Set(c, [call[c] EXCEPT !.stage = "answer"])
       ELSE UNCHANGED contacts /\ Set(c, End(c, "denied"))
  /\ UNCHANGED <<clock, policy, limits, audits, fuel>>

\* No address answers, the deadline passes, or the connection breaks.
Fail(c) ==
  /\ call[c].stage \in {"open", "answer"}
  /\ Set(c, End(c, "error"))
  /\ UNCHANGED <<clock, policy, limits, contacts, audits, fuel>>

\* A text within the caps, or a status, type or size that is refused.
Respond(c) ==
  /\ call[c].stage = "answer"
  /\ Set(c, End(c, "ok"))
  /\ UNCHANGED <<clock, policy, limits, contacts, audits, fuel>>

\* Bug: the scheme of the next hop is not compared.
MayFollowPlain(c, next) == call[c].hops < MaxRedirects /\ Allowed(call[c].policy, next)

MayFollow(c, next) ==
  /\ call[c].hops < MaxRedirects
  /\ ~ (call[c].url.tls /\ ~ next.tls)
  /\ Allowed(call[c].policy, next)

Redirect(c) ==
  /\ call[c].stage = "answer"
  /\ \E next \in Urls :
       Set(c, IF MayFollow(c, next)
              THEN [call[c] EXCEPT !.stage = "evaluate", !.url = next, !.hops = @ + 1,
                                   !.from = IF call[c].url.tls THEN "tls" ELSE "plain"]
              ELSE End(c, "denied"))
  /\ UNCHANGED <<clock, policy, limits, contacts, audits, fuel>>

\* A refused fetch is recorded before its slot is given back, a finished one after.
Audit(c) ==
  /\ call[c].stage = "audit" /\ ~ (call[c].code = "ok" /\ call[c].held)
  /\ audits' = [audits EXCEPT ![c] = @ + 1]
  /\ Set(c, [call[c] EXCEPT !.stage = IF @ = "audit" /\ call[c].held THEN "release" ELSE "done"])
  /\ UNCHANGED <<clock, policy, limits, contacts, fuel>>

\* Bug: the slot is given back and still counts as held.
ReleaseAgain(c) ==
  /\ call[c].held
  /\ call[c].stage = "release" \/ (call[c].stage = "audit" /\ call[c].code = "ok")
  /\ free' = [free EXCEPT ![call[c].who] = @ + 1]
  /\ Set(c, [call[c] EXCEPT !.stage = IF @ = "release" THEN "done" ELSE @])
  /\ UNCHANGED <<clock, policy, minute, hour, started, contacts, audits, fuel>>

Release(c) ==
  /\ call[c].held
  /\ call[c].stage = "release" \/ (call[c].stage = "audit" /\ call[c].code = "ok")
  /\ free' = [free EXCEPT ![call[c].who] = @ + 1]
  /\ Set(c, [call[c] EXCEPT !.held = FALSE, !.stage = IF @ = "release" THEN "done" ELSE @])
  /\ UNCHANGED <<clock, policy, minute, hour, started, contacts, audits, fuel>>

Tick ==
  /\ clock < MaxClock /\ clock' = clock + 1
  /\ UNCHANGED <<policy, limits, call, contacts, audits, fuel>>

Step(c) ==
  \/ Start(c) \/ Acquire(c) \/ Evaluate(c) \/ Open(c) \/ Fail(c) \/ Respond(c)
  \/ Redirect(c) \/ Audit(c) \/ Release(c)

Next == SavePolicy \/ Tick \/ \E c \in Calls : Step(c)

Spec == Init /\ [][Next]_vars

-----------------------------------------------------------------------------
(* What must hold.                                                         *)

In(p, from, length) ==
  {c \in Calls : started[c] # -1 /\ call[c].who = p /\ started[c] \in from..from + length - 1}

\* In every minute and every hour, wherever it begins, a principal's fetches are
\* within its limits, however refusals, redirects and the clock fall; and the slots
\* that are free and the calls that hold one are always all the slots.
FetchesWithinLimits ==
  \A p \in Principals :
    /\ \A t \in 0..MaxClock : /\ Cardinality(In(p, t, Minute)) <= MinuteLimit
                              /\ Cardinality(In(p, t, Hour)) <= HourLimit
    /\ free[p] + Cardinality({c \in Calls : call[c].held /\ call[c].who = p}) = MaxConcurrent

\* Whatever redirects answer and the operator saves meanwhile, a fetch connects only
\* to public addresses of hosts its policy allowed when it began, at most once per
\* redirect and once more, and never without TLS after a hop with TLS; and a call
\* that is over left exactly one audit row and holds no slot.
HopsAllowed ==
  \A c \in Calls :
    /\ \A k \in contacts[c] :
         /\ Allowed(call[c].policy, k.url) /\ k.public /\ k.hop <= MaxRedirects
         /\ k.from = "tls" => k.url.tls
    /\ call[c].stage = "done" => audits[c] = 1 /\ ~ call[c].held

=============================================================================
