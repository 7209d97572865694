---------------------------- MODULE UpstreamAuth ----------------------------
(***************************************************************************)
(* Calls to an integrated service with a cached credential: the OAuth2     *)
(* token of core/integration_proxy.py, the session and CSRF token of       *)
(* core/session_auth.py, and the one retry of _http_roundtrip.  Threads    *)
(* share the cache, a dictionary; each access to it, and each request to   *)
(* the service, is a step.                                                 *)
(***************************************************************************)
EXTENDS Integers, FiniteSets

CONSTANTS
  Calls,    \* the calls made, each by a thread of its own
  Writes,   \* those with a method other than GET and HEAD
  Tokens,   \* credentials the service may issue; none is issued while in use
  NoToken,
  Budget    \* bound: how often the service drops credentials or is not reached

ConstantsAssumption ==
  /\ Writes \subseteq Calls /\ NoToken \notin Tokens /\ Budget \in Nat
  /\ IsFiniteSet(Tokens) /\ IsFiniteSet(Calls)
  /\ Cardinality(Tokens) > Cardinality(Calls) + 1

VARIABLES
  auth,     \* how the integration authenticates
  rejects,  \* the service issues credentials and then refuses them
  cache,    \* _oauth_tokens or _sessions at the integration's name
  valid,    \* credentials the service accepts
  forged,   \* sessions whose CSRF token the service no longer accepts
  call,     \* the calls
  executed, \* history: how often the service carried a call out
  popped,   \* history: calls during which another one emptied the cache
  fuel      \* bound: what is left of Budget

vars == <<auth, rejects, cache, valid, forged, call, executed, popped, fuel>>

Entries == [token : Tokens \cup {NoToken}, expires : {"never", "later", "past"}]
NoEntry == [token |-> NoToken, expires |-> "never"]
Statuses == {"none", "ok", "unauthorized", "forbidden", "expired", "unreachable"}
Stages == {"begin", "login", "csrf", "store", "send", "check", "pop", "record", "done"}

TypeOK ==
  /\ auth \in {"oauth2", "session"} /\ rejects \in BOOLEAN
  /\ cache \in Entries /\ valid \subseteq Tokens /\ forged \subseteq Tokens
  /\ call \in [Calls -> [stage : Stages, attempt : 0..2, token : Tokens \cup {NoToken},
                         status : Statuses, outcome : {"ok", "error"},
                         audited : BOOLEAN]]
  /\ executed \in [Calls -> 0..2] /\ popped \in SUBSET Calls /\ fuel \in 0..Budget

Fresh == [stage |-> "begin", attempt |-> 0, token |-> NoToken, status |-> "none",
          outcome |-> "ok", audited |-> FALSE]

\* An earlier call may have left a credential, no longer valid perhaps.
Init ==
  /\ auth \in {"oauth2", "session"} /\ rejects \in BOOLEAN
  /\ \/ cache = NoEntry /\ valid = {}
     \/ \E x \in {"never", "later", "past"} :
          LET t == CHOOSE t \in Tokens : TRUE IN
          cache = [token |-> t, expires |-> x] /\ valid \in {{}, {t}}
  /\ forged = {}
  /\ call = [c \in Calls |-> Fresh]
  /\ executed = [c \in Calls |-> 0] /\ popped = {} /\ fuel = Budget

Set(c, new) == call' = [call EXCEPT ![c] = new]
Goto(c, from, to) ==
  call[c].stage = from /\ Set(c, [call[c] EXCEPT !.stage = to])
Done(c, new) == Set(c, [new EXCEPT !.stage = "done", !.token = NoToken])
InUse == {cache.token} \cup {call[c].token : c \in Calls}

-----------------------------------------------------------------------------
(* Credentials.                                                            *)

\* A token without an expiry is never reused, a session without one always.
Reusable ==
  /\ cache # NoEntry
  /\ \/ cache.expires = "later"
     \/ cache.expires = "never" /\ auth = "session"

\* _oauth2_headers, _ensure_session: the first access to the cache.
Lookup(c) ==
  /\ call[c].stage = "begin"
  /\ Set(c, [call[c] EXCEPT !.attempt = IF @ = 0 THEN 1 ELSE @,
                            !.token = IF Reusable THEN cache.token ELSE NoToken,
                            !.stage = IF Reusable THEN "send" ELSE "login"])
  /\ UNCHANGED <<auth, rejects, cache, valid, forged, executed, popped, fuel>>

\* A login that fails raises: to the caller, without an audit row, unless it
\* happens inside the try block of _http_roundtrip, for an answer with status 200.
Fail(c) ==
  /\ fuel > 0 /\ fuel' = fuel - 1
  /\ Set(c, IF call[c].status = "expired"
             THEN [call[c] EXCEPT !.stage = "record", !.outcome = "error"]
             ELSE [call[c] EXCEPT !.stage = "done", !.token = NoToken])
  /\ UNCHANGED <<auth, rejects, cache, valid, forged, executed, popped>>

\* _fetch_oauth2_token, _login
Login(c) ==
  /\ call[c].stage = "login"
  /\ \/ Fail(c)
     \/ /\ LET t == CHOOSE t \in Tokens : t \notin InUse IN
           /\ Set(c, [call[c] EXCEPT !.token = t,
                        !.stage = IF auth = "session" THEN "csrf" ELSE "store"])
           /\ valid' = (valid \cap InUse) \cup (IF rejects THEN {} ELSE {t})
           /\ forged' = forged \cap InUse
        /\ UNCHANGED <<auth, rejects, cache, executed, popped, fuel>>

\* _fetch_csrf: a request with the new session.
Csrf(c) ==
  /\ call[c].stage = "csrf"
  /\ \/ Fail(c)
     \/ Goto(c, "csrf", "store")
        /\ UNCHANGED <<auth, rejects, cache, valid, forged, executed, popped, fuel>>

Store(c) ==
  /\ Goto(c, "store", "send")
  /\ \E x \in {"never", "later"} : cache' = [token |-> call[c].token, expires |-> x]
  /\ UNCHANGED <<auth, rejects, valid, forged, executed, popped, fuel>>

-----------------------------------------------------------------------------
(* The request and its retry.                                              *)

\* What the service may answer to the credential; only a request it accepts is
\* carried out.
Answers(c) ==
  LET t == call[c].token IN
  IF t \notin valid
  THEN IF auth = "oauth2" THEN {"unauthorized", "expired"} ELSE {"unauthorized"}
  ELSE IF auth = "session" /\ c \in Writes /\ t \in forged THEN {"forbidden"}
  ELSE {"ok"}

\* An HTTP error sets the outcome; nothing sets it back.
Answered(c, status) ==
  Set(c, [call[c] EXCEPT !.status = status, !.stage = "check",
            !.outcome = IF status \in {"ok", "expired"} THEN @ ELSE "error"])

Send(c) ==
  /\ call[c].stage = "send"
  /\ \/ \E status \in Answers(c) :
          /\ Answered(c, status)
          /\ executed' = IF status = "ok" THEN [executed EXCEPT ![c] = @ + 1] ELSE executed
        /\ UNCHANGED fuel
     \/ /\ fuel > 0 /\ fuel' = fuel - 1
        /\ Answered(c, "unreachable")
        /\ \/ UNCHANGED executed
           \/ "ok" \in Answers(c) /\ executed' = [executed EXCEPT ![c] = @ + 1]
  /\ UNCHANGED <<auth, rejects, cache, valid, forged, popped>>

\* Bug: a retry after a timeout.
RetriesTimeout(c) ==
  /\ call[c].attempt = 1 /\ cache # NoEntry
  /\ call[c].status \notin {"none", "ok"}

\* The first refusal is tried again if the integration has a cached credential,
\* this call's or another's.
Retries(c) ==
  /\ call[c].attempt = 1 /\ cache # NoEntry
  /\ \/ call[c].status = "unauthorized"
     \/ call[c].status = "expired" /\ auth = "oauth2"
     \/ call[c].status = "forbidden" /\ auth = "session" /\ c \in Writes

Check(c) ==
  /\ Goto(c, "check", IF Retries(c) THEN "pop" ELSE "record")
  /\ UNCHANGED <<auth, rejects, cache, valid, forged, executed, popped, fuel>>

\* The entry that is dropped may be one that another call has just stored.
Pop(c) ==
  /\ call[c].stage = "pop"
  /\ Set(c, [call[c] EXCEPT !.stage = "begin", !.attempt = 2, !.token = NoToken])
  /\ cache' = NoEntry
  /\ popped' = popped \cup {d \in Calls \ {c} : call[d].attempt > 0 /\ call[d].stage # "done"}
  /\ UNCHANGED <<auth, rejects, valid, forged, executed, fuel>>

\* Bug: only calls that went well are recorded.
RecordOk(c) ==
  /\ call[c].stage = "record"
  /\ Done(c, [call[c] EXCEPT !.audited = call[c].outcome = "ok"])
  /\ UNCHANGED <<auth, rejects, cache, valid, forged, executed, popped, fuel>>

Record(c) ==
  /\ call[c].stage = "record"
  /\ Done(c, [call[c] EXCEPT !.audited = TRUE])
  /\ UNCHANGED <<auth, rejects, cache, valid, forged, executed, popped, fuel>>

-----------------------------------------------------------------------------
(* The service, and time.                                                  *)

\* A restart of the service, or another account entered in the dashboard, which
\* keeps the cache: what was issued is refused from now on.
Revoke ==
  /\ valid # {} /\ fuel > 0 /\ fuel' = fuel - 1
  /\ valid' = {}
  /\ UNCHANGED <<auth, rejects, cache, forged, call, executed, popped>>

Forget ==
  /\ auth = "session" /\ fuel > 0 /\ fuel' = fuel - 1
  /\ forged' = valid
  /\ UNCHANGED <<auth, rejects, cache, valid, call, executed, popped>>

\* The time of an entry is over, a margin before the service says so.
Expire ==
  /\ cache.expires = "later"
  /\ cache' = [cache EXCEPT !.expires = "past"]
  /\ UNCHANGED <<auth, rejects, valid, forged, call, executed, popped, fuel>>

Step(c) ==
  Lookup(c) \/ Login(c) \/ Csrf(c) \/ Store(c) \/ Send(c) \/ Check(c) \/ Pop(c) \/ Record(c)

Next == (\E c \in Calls : Step(c)) \/ Revoke \/ Forget \/ Expire

Spec == Init /\ [][Next]_vars

\* Every request has a timeout, every thread is scheduled.
FairSpec == Spec /\ \A c \in Calls : WF_vars(Step(c))

-----------------------------------------------------------------------------
(* What must hold.                                                         *)

\* The retry repeats no effect: the service carries a call out at most once,
\* also when an answer is lost, and every call it carried out is in the audit
\* trail when it ends.
OnceAndRecorded ==
  \A c \in Calls :
    /\ executed[c] <= 1
    /\ (call[c].stage = "done" /\ executed[c] > 0) => call[c].audited

\* With a service that is reached and keeps its credentials, a refusal reaches
\* the caller only if another call emptied the cache meanwhile: stale and expired
\* entries are repaired by the retry.
RefusedOnlyIfDisturbed ==
  \A c \in Calls :
    (/\ call[c].stage = "done" /\ fuel = Budget /\ ~ rejects /\ c \notin popped)
      => call[c].status = "ok"

\* Every call ends, whatever the service answers and other calls do.
CallsEnd == <>(\A c \in Calls : call[c].stage = "done")

-----------------------------------------------------------------------------
(* What the documentation says, and the code does not do.                  *)

\* "automatic re-auth on HTTP 401" (CHANGELOG.md): a call the service answered
\* after the retry is a success like any other, in its audit row too.
RepairedIsOk ==
  \A c \in Calls :
    (call[c].audited /\ call[c].status = "ok") => call[c].outcome = "ok"
=============================================================================
