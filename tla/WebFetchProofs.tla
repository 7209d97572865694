--------------------------- MODULE WebFetchProofs ---------------------------
(***************************************************************************)
(* The hops of a fetch and the limits of a principal, for every set of      *)
(* calls, principals and hosts, all limits, windows and redirects.          *)
(***************************************************************************)
EXTENDS WebFetch, FiniteSetTheorems, FunctionTheorems, TLAPS

-----------------------------------------------------------------------------
(* The inductive invariant.                                                *)

Contacts == [url : Urls, public : BOOLEAN, hop : Nat, from : {"tls", "plain", "none"}]

\* Where a call stands tells what its next connection may be, what it holds and
\* what it has left behind.
GoodCall(c) ==
  LET k == call[c] IN
  /\ k.stage \in {"new", "acquire"} =>
       contacts[c] = {} /\ started[c] = -1 /\ k.hops = 0 /\ k.from = "none"
  /\ k.stage \in {"evaluate", "open"} =>
       k.hops <= MaxRedirects /\ (k.from = "tls" => k.url.tls)
  /\ k.stage = "answer" => k.hops <= MaxRedirects
  /\ k.stage = "open" => Allowed(k.policy, k.url)
  /\ k.stage \in {"new", "acquire", "done"} => ~ k.held
  /\ k.stage \in {"evaluate", "open", "answer", "release"} => k.held
  /\ k.stage \in {"new", "acquire", "evaluate", "open", "answer", "audit"} => audits[c] = 0
  /\ k.stage \in {"release", "done"} => audits[c] = 1

CallsGood == contacts \in [Calls -> SUBSET Contacts] /\ \A c \in Calls : GoodCall(c)

\* While a call that was let in is within the window, its entry is there.
HitsKept ==
  \A c \in Calls :
    /\ started[c] <= clock
    /\ started[c] # -1 /\ clock - started[c] < Minute =>
         [at |-> started[c], call |-> c] \in minute[call[c].who]
    /\ started[c] # -1 /\ clock - started[c] < Hour =>
         [at |-> started[c], call |-> c] \in hour[call[c].who]

IInv == TypeOK /\ CallsGood /\ HitsKept /\ HopsAllowed /\ FetchesWithinLimits

-----------------------------------------------------------------------------
(* The initial state.                                                      *)

LEMMA LimitTypes ==
  ASSUME ConstantsAssumption
  PROVE  /\ MinuteLimit \in Nat /\ HourLimit \in Nat /\ MaxConcurrent \in Nat /\ MaxRedirects \in Nat
         /\ MaxClock \in Nat /\ Budget \in Nat /\ Minute \in Nat \ {0} /\ Hour \in Nat \ {0}
         /\ IsFiniteSet(Calls)
  BY DEF ConstantsAssumption

LEMMA AnyUrlType == ASSUME ConstantsAssumption PROVE AnyUrl \in Urls /\ Anyone \in Principals
<1>1. \E u \in Urls : TRUE
  <2>1. PICK h \in Hosts : TRUE
    BY DEF ConstantsAssumption
  <2>2. [host |-> h, tls |-> TRUE] \in Urls
    BY DEF Urls
  <2> QED
    BY <2>2
<1>2. \E p \in Principals : TRUE
  BY DEF ConstantsAssumption
<1> QED
  BY <1>1, <1>2 DEF AnyUrl, Anyone

LEMMA InitInv == ASSUME ConstantsAssumption, Init PROVE IInv
<1>1. TypeOK
  BY AnyUrlType DEF ConstantsAssumption, Init, TypeOK, NoPolicy, Policies, Stages
<1>2. CallsGood /\ HopsAllowed
  BY AnyUrlType DEF ConstantsAssumption, Init, CallsGood, GoodCall, HopsAllowed
<1>3. HitsKept
  BY DEF Init, HitsKept, ConstantsAssumption
<1>4. FetchesWithinLimits
  <2>1. \A p \in Principals, t \in 0..MaxClock : In(p, t, Minute) = {} /\ In(p, t, Hour) = {}
    BY DEF Init, In
  <2>2. \A p \in Principals : {c \in Calls : call[c].held /\ call[c].who = p} = {}
    BY DEF Init
  <2>3. \A p \in Principals : free[p] = MaxConcurrent
    BY DEF Init
  <2>4. Cardinality({}) = 0
    BY FS_EmptySet
  <2>5. MinuteLimit >= 0 /\ HourLimit >= 0 /\ MaxConcurrent + 0 = MaxConcurrent
    BY LimitTypes
  <2> QED
    BY <2>1, <2>2, <2>3, <2>4, <2>5 DEF FetchesWithinLimits
<1> QED
  BY <1>1, <1>2, <1>3, <1>4 DEF IInv

-----------------------------------------------------------------------------
(* Counting.                                                               *)

\* Entries of a window are at least as many as the calls they are of.
LEMMA WindowAdmits ==
  ASSUME IsFiniteSet(Calls), MaxClock \in Nat, NEW log \in SUBSET Hits, NEW at, NEW now \in Int,
         NEW length \in Nat, NEW limit \in Nat, NEW S \in SUBSET Calls, NEW c,
         \A d \in S : /\ [at |-> at[d], call |-> d] \in log
                      /\ now - at[d] < length,
         Cardinality({h \in log : now - h.at < length}) < limit
  PROVE  Cardinality(S \cup {c}) <= limit
<1> DEFINE R == {h \in log : now - h.at < length}
           T == {h.call : h \in R}
<1>1. IsFiniteSet(R)
  <2> DEFINE f == [h \in R |-> <<h.at, h.call>>]
             P == (0..MaxClock) \X Calls
  <2>1. IsFiniteSet(P)
    <3>1. IsFiniteSet(0..MaxClock)
      BY FS_Interval
    <3> QED
      BY <3>1, FS_Product
  <2>2. f \in Injection(R, P)
    <3>1. \A h \in R : h \in Hits
      OBVIOUS
    <3>2. f \in [R -> P]
      BY <3>1 DEF Hits
    <3>3. \A h, k \in R : f[h] = f[k] => h = k
      BY <3>1 DEF Hits
    <3> QED
      BY <3>2, <3>3, Fun_IsInj
  <2> QED
    BY <2>1, <2>2, FS_Injection
<1>2. IsFiniteSet(T) /\ Cardinality(T) <= Cardinality(R)
  <2> DEFINE f == [h \in R |-> h.call]
  <2>1. f \in Surjection(R, T)
    BY DEF Surjection
  <2> QED
    BY <1>1, <2>1, FS_Surjection
<1>3. S \subseteq T
  <2> SUFFICES ASSUME NEW d \in S PROVE d \in T
    OBVIOUS
  <2>1. [at |-> at[d], call |-> d] \in R
    OBVIOUS
  <2> QED
    BY <2>1
<1>4. IsFiniteSet(S) /\ Cardinality(S) <= Cardinality(T)
  BY <1>2, <1>3, FS_Subset
<1>5. Cardinality(S \cup {c}) <= Cardinality(S) + 1 /\ Cardinality(S \cup {c}) \in Nat
  <2>1. IsFiniteSet(S \cup {c}) /\ Cardinality(S) \in Nat
        /\ Cardinality(S \cup {c}) = IF c \in S THEN Cardinality(S) ELSE Cardinality(S) + 1
    BY <1>4, FS_AddElement, FS_CardinalityType
  <2>2. Cardinality(S \cup {c}) \in Nat
    BY <2>1, FS_CardinalityType
  <2> QED
    BY <2>1, <2>2
<1>6. Cardinality(R) \in Nat /\ Cardinality(T) \in Nat /\ Cardinality(S) \in Nat
  BY <1>1, <1>2, <1>4, FS_CardinalityType
<1>7. Cardinality(R) < limit
  OBVIOUS
<1> HIDE DEF R, T
<1> QED
  BY <1>2, <1>4, <1>5, <1>6, <1>7

-----------------------------------------------------------------------------
(* Types.                                                                  *)

Records == [stage : Stages, who : Principals, policy : Policies, url : Urls,
            from : {"tls", "plain", "none"}, hops : 0..MaxRedirects + 1,
            held : BOOLEAN, code : {"none", "ok", "denied", "limited", "error"}]

LimitsType ==
  /\ clock \in 0..MaxClock
  /\ minute \in [Principals -> SUBSET Hits] /\ hour \in [Principals -> SUBSET Hits]
  /\ free \in [Principals -> 0..MaxConcurrent]
  /\ started \in [Calls -> -1..MaxClock]

RestType ==
  /\ policy \in [Principals -> Policies]
  /\ audits \in [Calls -> 0..1] /\ fuel \in 0..Budget

LEMMA TypeParts == TypeOK <=> LimitsType /\ RestType /\ call \in [Calls -> Records]
  BY DEF TypeOK, LimitsType, RestType, Records

LEMMA TypePartsNext == TypeOK' <=> LimitsType' /\ RestType' /\ call' \in [Calls -> Records]
  BY DEF TypeOK, LimitsType, RestType, Records

\* What the end of a call leaves of its record.
LEMMA EndFields ==
  ASSUME TypeOK, NEW c \in Calls, NEW code \in {"none", "ok", "denied", "limited", "error"}
  PROVE  LET e == End(c, code) IN
         /\ e \in Records /\ e.stage = "audit" /\ e.code = code
         /\ e.who = call[c].who /\ e.policy = call[c].policy /\ e.url = call[c].url
         /\ e.from = call[c].from /\ e.hops = call[c].hops /\ e.held = call[c].held
<1>1. call[c] \in Records
  BY TypeParts
<1> QED
  BY <1>1 DEF End, Records, Stages

\* A step of a call that touches neither limits nor policies.
LEMMA CallTypeFrame ==
  ASSUME TypeOK, NEW c \in Calls, NEW new \in Records, call' = [call EXCEPT ![c] = new],
         UNCHANGED <<clock, policy, limits, audits, fuel>>
  PROVE  TypeOK'
<1>1. LimitsType' /\ RestType'
  BY TypeParts DEF LimitsType, RestType, limits
<1>2. call' \in [Calls -> Records]
  BY TypeParts
<1> QED
  BY <1>1, <1>2, TypePartsNext

-----------------------------------------------------------------------------
(* Steps that touch no limit.                                              *)

Holders(p) == {d \in Calls : call[d].held /\ call[d].who = p}
Limits == HitsKept /\ FetchesWithinLimits

\* What the limits say depends on the calls that were let in and on those that hold
\* a slot.
LEMMA LimitsFrame ==
  ASSUME Limits, UNCHANGED <<clock, limits>>,
         \A d \in Calls : /\ started[d] # -1 => call'[d].who = call[d].who
                          /\ call'[d].held <=> call[d].held
                          /\ call[d].held => call'[d].who = call[d].who
  PROVE  Limits'
<1>1. HitsKept'
  BY DEF Limits, HitsKept, limits
<1>2. \A p \in Principals, t \in 0..MaxClock :
        In(p, t, Minute)' = In(p, t, Minute) /\ In(p, t, Hour)' = In(p, t, Hour)
  BY DEF In, limits
<1>3. \A p \in Principals : Holders(p)' = Holders(p)
  BY DEF Holders
<1>4. FetchesWithinLimits'
  BY <1>2, <1>3 DEF Limits, FetchesWithinLimits, Holders, limits
<1> QED
  BY <1>1, <1>4 DEF Limits

LEMMA SavePolicyKeeps == ASSUME ConstantsAssumption, IInv, SavePolicy PROVE IInv'
<1>1. TypeOK'
  <2>1. LimitsType' /\ call' \in [Calls -> Records]
    BY TypeParts DEF IInv, LimitsType, SavePolicy, limits
  <2>2. RestType'
    <3>1. PICK p \in Principals, new \in Policies : policy' = [policy EXCEPT ![p] = new]
      BY DEF SavePolicy
    <3>2. policy' \in [Principals -> Policies]
      BY <3>1, TypeParts DEF IInv, RestType
    <3>3. fuel' \in 0..Budget
      BY LimitTypes, TypeParts DEF IInv, RestType, SavePolicy
    <3> QED
      BY <3>2, <3>3, TypeParts DEF IInv, RestType, SavePolicy
  <2> QED
    BY <2>1, <2>2, TypePartsNext
<1>2. CallsGood' /\ HopsAllowed'
  BY DEF IInv, CallsGood, GoodCall, HopsAllowed, SavePolicy, limits
<1>3. Limits'
  BY LimitsFrame DEF IInv, Limits, SavePolicy
<1> QED
  BY <1>1, <1>2, <1>3 DEF IInv, Limits

LEMMA StartKeeps == ASSUME ConstantsAssumption, IInv, NEW c \in Calls, Start(c) PROVE IInv'
<1> PICK p \in Principals, u \in Urls :
       call' = [call EXCEPT ![c] = [call[c] EXCEPT !.stage = "acquire", !.who = p, !.url = u,
                                                   !.policy = policy[p]]]
  BY DEF Start, Set
<1>1. TypeOK'
  <2>1. [call[c] EXCEPT !.stage = "acquire", !.who = p, !.url = u, !.policy = policy[p]] \in Records
    BY TypeParts, ZenonT(40) DEF IInv, RestType, Records, Stages
  <2> QED
    BY <2>1, CallTypeFrame DEF IInv, Start
<1>2. CallsGood' /\ HopsAllowed'
  BY DEF IInv, TypeOK, CallsGood, GoodCall, HopsAllowed, Start, limits
<1>3. Limits'
  BY LimitsFrame DEF IInv, TypeOK, Limits, CallsGood, GoodCall, Start
<1> QED
  BY <1>1, <1>2, <1>3 DEF IInv, Limits

LEMMA EvaluateKeeps == ASSUME ConstantsAssumption, IInv, NEW c \in Calls, Evaluate(c) PROVE IInv'
<1>0. \/ call' = [call EXCEPT ![c] = [call[c] EXCEPT !.stage = "open"]]
      \/ call' = [call EXCEPT ![c] = End(c, "denied")]
  BY DEF Evaluate, Set
<1>1. TypeOK'
  <2>1. [call[c] EXCEPT !.stage = "open"] \in Records /\ End(c, "denied") \in Records
    BY TypeParts DEF IInv, Records, Stages, End
  <2> QED
    BY <1>0, <2>1, CallTypeFrame DEF IInv, Evaluate
<1>2. CallsGood' /\ HopsAllowed'
  BY DEF IInv, TypeOK, CallsGood, GoodCall, HopsAllowed, Evaluate, Set, End, limits
<1>3. Limits'
  BY LimitsFrame DEF IInv, TypeOK, Limits, Evaluate, Set, End
<1> QED
  BY <1>1, <1>2, <1>3 DEF IInv, Limits

LEMMA OpenKeeps == ASSUME ConstantsAssumption, IInv, NEW c \in Calls, Open(c) PROVE IInv'
<1> DEFINE new == [url |-> call[c].url, public |-> TRUE, hop |-> call[c].hops, from |-> call[c].from]
<1>0. \/ contacts' = [contacts EXCEPT ![c] = @ \cup {new}]
         /\ call' = [call EXCEPT ![c] = [call[c] EXCEPT !.stage = "answer"]]
      \/ contacts' = contacts /\ call' = [call EXCEPT ![c] = End(c, "denied")]
  BY DEF Open, Set
<1>1. TypeOK'
  <2>1. [call[c] EXCEPT !.stage = "answer"] \in Records /\ End(c, "denied") \in Records
    BY TypeParts DEF IInv, Records, Stages, End
  <2> QED
    BY <1>0, <2>1, CallTypeFrame DEF IInv, Open
<1>2. CallsGood'
  <2>1. new \in Contacts
    BY DEF IInv, TypeOK, Contacts
  <2>2. contacts' \in [Calls -> SUBSET Contacts]
    BY <1>0, <2>1, ZenonT(40) DEF IInv, CallsGood
  <2>3. \A d \in Calls \ {c} : call'[d] = call[d] /\ contacts'[d] = contacts[d]
    BY <1>0 DEF IInv, TypeOK, CallsGood
  <2>4. \A d \in Calls \ {c} : GoodCall(d)'
    BY <2>3 DEF IInv, CallsGood, GoodCall, Open, limits
  <2>5. GoodCall(c)'
    <3>1. /\ call'[c].stage \in {"answer", "audit"} /\ call'[c].hops = call[c].hops
          /\ call'[c].held = call[c].held
      BY <1>0, EndFields DEF IInv, TypeOK
    <3> QED
      BY <3>1 DEF IInv, CallsGood, GoodCall, Open, limits
  <2> QED
    BY <2>2, <2>4, <2>5 DEF CallsGood
<1>3. HopsAllowed'
  <2> SUFFICES ASSUME NEW d \in Calls
               PROVE (/\ \A k \in contacts[d] :
                           /\ Allowed(call[d].policy, k.url) /\ k.public /\ k.hop <= MaxRedirects
                           /\ k.from = "tls" => k.url.tls
                      /\ call[d].stage = "done" => audits[d] = 1 /\ ~ call[d].held)'
    BY DEF HopsAllowed
  <2>1. /\ Allowed(call[c].policy, new.url) /\ new.public /\ new.hop <= MaxRedirects
        /\ new.from = "tls" => new.url.tls
    BY DEF IInv, CallsGood, GoodCall, Open
  <2>2. call'[d].policy = call[d].policy
    <3>1. End(c, "denied").policy = call[c].policy
      BY EndFields DEF IInv
    <3>2. CASE d # c
      BY <1>0, <3>2 DEF IInv, TypeOK
    <3>3. CASE d = c
      BY <1>0, <3>1, <3>3 DEF IInv, TypeOK
    <3> QED
      BY <3>2, <3>3
  <2>3. contacts'[d] \subseteq contacts[d] \cup {k \in {new} : d = c}
    BY <1>0 DEF IInv, CallsGood
  <2>4. call'[d].stage = "done" => d # c /\ call'[d] = call[d]
    BY <1>0, ZenonT(40) DEF IInv, TypeOK, End
  <2> HIDE DEF new
  <2> QED
    BY <2>1, <2>2, <2>3, <2>4 DEF IInv, HopsAllowed, Open, Allowed
<1>4. Limits'
  <2> DEFINE new1 == [call[c] EXCEPT !.stage = "answer"]
             new2 == End(c, "denied")
  <2>0. /\ new1.who = call[c].who /\ new1.held = call[c].held
        /\ new2.who = call[c].who /\ new2.held = call[c].held
    BY EndFields, TypeParts DEF IInv, Records
  <2>1. \A d \in Calls : call'[d].who = call[d].who /\ call'[d].held = call[d].held
    <3>1. call' = [call EXCEPT ![c] = new1] \/ call' = [call EXCEPT ![c] = new2]
      BY <1>0
    <3> HIDE DEF new1, new2
    <3> QED
      BY <2>0, <3>1, TypeParts DEF IInv
  <2> QED
    BY <2>1, LimitsFrame DEF IInv, Limits, Open
<1> QED
  BY <1>1, <1>2, <1>3, <1>4 DEF IInv, Limits

\* The other steps of a call change its record only, within what a call may hold.
LEMMA CallKeeps ==
  ASSUME ConstantsAssumption, IInv, NEW c \in Calls, NEW new \in Records,
         call' = [call EXCEPT ![c] = new],
         UNCHANGED <<clock, policy, limits, contacts, audits, fuel>>,
         new.who = call[c].who, new.held = call[c].held, new.policy = call[c].policy,
         GoodCall(c)', new.stage # "done"
  PROVE  IInv'
<1>0. call \in [Calls -> Records]
  BY TypeParts DEF IInv
<1>1. TypeOK'
  BY CallTypeFrame DEF IInv
<1>2. CallsGood'
  <2>1. \A d \in Calls \ {c} : GoodCall(d)'
    BY <1>0 DEF IInv, CallsGood, GoodCall, limits
  <2> QED
    BY <2>1 DEF IInv, CallsGood
<1>3. HopsAllowed'
  <2>1. \A d \in Calls : /\ call'[d].policy = call[d].policy
                         /\ call'[d].stage = "done" => call'[d] = call[d]
    BY <1>0
  <2> QED
    BY <2>1 DEF IInv, HopsAllowed, Allowed
<1>4. Limits'
  <2>1. \A d \in Calls : call'[d].who = call[d].who /\ (call'[d].held <=> call[d].held)
    BY <1>0
  <2> QED
    BY <2>1, LimitsFrame DEF IInv, Limits
<1> QED
  BY <1>1, <1>2, <1>3, <1>4 DEF IInv, Limits

LEMMA FailKeeps == ASSUME ConstantsAssumption, IInv, NEW c \in Calls, Fail(c) PROVE IInv'
<1> DEFINE new == End(c, "error")
<1>1. /\ new \in Records /\ new.stage = "audit" /\ new.policy = call[c].policy
      /\ new.who = call[c].who /\ new.held = call[c].held
  BY EndFields DEF IInv
<1>2. call' = [call EXCEPT ![c] = new] /\ UNCHANGED <<clock, policy, limits, contacts, audits, fuel>>
  BY DEF Fail, Set
<1>3. call'[c] = new
  BY <1>2 DEF IInv, TypeOK
<1> HIDE DEF new
<1>4. GoodCall(c)'
  BY <1>1, <1>2, <1>3 DEF GoodCall, IInv, CallsGood, Fail
<1> QED
  BY <1>1, <1>2, <1>4, CallKeeps

LEMMA RespondKeeps == ASSUME ConstantsAssumption, IInv, NEW c \in Calls, Respond(c) PROVE IInv'
<1> DEFINE new == End(c, "ok")
<1>1. /\ new \in Records /\ new.stage = "audit" /\ new.policy = call[c].policy
      /\ new.who = call[c].who /\ new.held = call[c].held
  BY EndFields DEF IInv
<1>2. call' = [call EXCEPT ![c] = new] /\ UNCHANGED <<clock, policy, limits, contacts, audits, fuel>>
  BY DEF Respond, Set
<1>3. call'[c] = new
  BY <1>2 DEF IInv, TypeOK
<1> HIDE DEF new
<1>4. GoodCall(c)'
  BY <1>1, <1>2, <1>3 DEF GoodCall, IInv, CallsGood, Respond
<1> QED
  BY <1>1, <1>2, <1>4, CallKeeps

LEMMA RedirectKeeps == ASSUME ConstantsAssumption, IInv, NEW c \in Calls, Redirect(c) PROVE IInv'
<1>1. PICK next \in Urls :
        Set(c, IF MayFollow(c, next)
               THEN [call[c] EXCEPT !.stage = "evaluate", !.url = next, !.hops = @ + 1,
                                    !.from = IF call[c].url.tls THEN "tls" ELSE "plain"]
               ELSE End(c, "denied"))
  BY DEF Redirect
<1>2. call[c] \in Records
  BY TypeParts DEF IInv
<1>3. UNCHANGED <<clock, policy, limits, contacts, audits, fuel>>
  BY DEF Redirect
<1>4. CASE ~ MayFollow(c, next)
  <2> DEFINE new == End(c, "denied")
  <2>1. /\ new \in Records /\ new.stage = "audit" /\ new.policy = call[c].policy
        /\ new.who = call[c].who /\ new.held = call[c].held
    BY EndFields DEF IInv
  <2>2. call' = [call EXCEPT ![c] = new]
    BY <1>1, <1>4 DEF Set
  <2>3. call'[c] = new
    BY <2>2 DEF IInv, TypeOK
  <2> HIDE DEF new
  <2>4. GoodCall(c)'
    BY <1>3, <2>1, <2>2, <2>3 DEF GoodCall, IInv, CallsGood, Redirect
  <2> QED
    BY <1>3, <2>1, <2>2, <2>4, CallKeeps
<1>5. CASE MayFollow(c, next)
  <2> DEFINE new == [call[c] EXCEPT !.stage = "evaluate", !.url = next, !.hops = @ + 1,
                                    !.from = IF call[c].url.tls THEN "tls" ELSE "plain"]
  <2>1. /\ new \in Records /\ new.stage = "evaluate" /\ new.policy = call[c].policy
        /\ new.who = call[c].who /\ new.held = call[c].held /\ new.url = next
        /\ new.hops = call[c].hops + 1 /\ new.from = IF call[c].url.tls THEN "tls" ELSE "plain"
    <3>1. call[c].hops + 1 \in 0..MaxRedirects + 1
      BY <1>2, <1>5, LimitTypes DEF MayFollow, Records
    <3>2. "evaluate" \in Stages
      BY DEF Stages
    <3> QED
      BY <1>2, <3>1, <3>2 DEF Records
  <2>2. call' = [call EXCEPT ![c] = new]
    BY <1>1, <1>5 DEF Set
  <2>3. call'[c] = new
    BY <2>2 DEF IInv, TypeOK
  <2>4. call[c].hops + 1 <= MaxRedirects
    BY <1>2, <1>5, LimitTypes DEF MayFollow, Records
  <2> HIDE DEF new
  <2>5. GoodCall(c)'
    BY <1>3, <1>5, <2>1, <2>2, <2>3, <2>4 DEF GoodCall, IInv, CallsGood, Redirect, MayFollow
  <2> QED
    BY <1>3, <2>1, <2>2, <2>5, CallKeeps
<1> QED
  BY <1>4, <1>5

LEMMA AuditKeeps == ASSUME ConstantsAssumption, IInv, NEW c \in Calls, Audit(c) PROVE IInv'
<1> DEFINE new == [call[c] EXCEPT !.stage = IF @ = "audit" /\ call[c].held THEN "release" ELSE "done"]
<1>0. call[c] \in Records /\ call \in [Calls -> Records] /\ audits \in [Calls -> 0..1]
  BY TypeParts DEF IInv, RestType
<1>1. /\ new \in Records /\ new.stage = IF call[c].held THEN "release" ELSE "done"
      /\ new.policy = call[c].policy /\ new.who = call[c].who /\ new.held = call[c].held
  BY <1>0 DEF Records, Stages, Audit
<1>2. call' = [call EXCEPT ![c] = new] /\ audits' = [audits EXCEPT ![c] = @ + 1]
  BY DEF Audit, Set
<1> HIDE DEF new
<1>3. audits[c] = 0
  BY DEF Audit, IInv, CallsGood, GoodCall
<1>4. UNCHANGED <<clock, policy, limits, contacts, fuel>>
  BY DEF Audit
<1>5. TypeOK'
  <2>1. LimitsType' /\ RestType'
    BY <1>0, <1>2, <1>3, <1>4, TypeParts DEF IInv, LimitsType, RestType, limits
  <2>2. call' \in [Calls -> Records]
    BY <1>0, <1>1, <1>2
  <2> QED
    BY <2>1, <2>2, TypePartsNext
<1>6. GoodCall(c)'
  BY <1>0, <1>1, <1>2, <1>3, <1>4 DEF GoodCall, IInv, CallsGood
<1>7. CallsGood'
  <2>1. \A d \in Calls \ {c} : GoodCall(d)'
    BY <1>0, <1>2, <1>4 DEF IInv, CallsGood, GoodCall, limits
  <2> QED
    BY <1>4, <1>6, <2>1 DEF IInv, CallsGood
<1>8. HopsAllowed'
  <2>1. \A d \in Calls : /\ call'[d].policy = call[d].policy
                         /\ d # c => call'[d] = call[d] /\ audits'[d] = audits[d]
    BY <1>0, <1>1, <1>2
  <2>2. call'[c].stage = "done" => audits'[c] = 1 /\ ~ call'[c].held
    BY <1>0, <1>1, <1>2, <1>3
  <2> QED
    BY <1>4, <2>1, <2>2 DEF IInv, HopsAllowed, Allowed
<1>9. Limits'
  <2>1. \A d \in Calls : call'[d].who = call[d].who /\ (call'[d].held <=> call[d].held)
    BY <1>0, <1>1, <1>2
  <2> QED
    BY <1>4, <2>1, LimitsFrame DEF IInv, Limits
<1> QED
  BY <1>5, <1>7, <1>8, <1>9 DEF IInv, Limits

-----------------------------------------------------------------------------
(* Steps that touch the limits.                                            *)

LEMMA HoldersFinite ==
  ASSUME ConstantsAssumption, NEW p \in Principals
  PROVE  IsFiniteSet(Holders(p)) /\ Cardinality(Holders(p)) \in Nat
<1>1. Holders(p) \in SUBSET Calls
  BY DEF Holders
<1> QED
  BY <1>1, LimitTypes, FS_Subset, FS_CardinalityType

LEMMA FreeAndHeld ==
  ASSUME IInv, NEW p \in Principals
  PROVE  free[p] + Cardinality(Holders(p)) = MaxConcurrent
  BY DEF IInv, FetchesWithinLimits, Holders

LEMMA TickKeeps == ASSUME ConstantsAssumption, IInv, Tick PROVE IInv'
<1>1. TypeOK'
  <2>1. clock' \in 0..MaxClock
    BY LimitTypes, TypeParts DEF IInv, LimitsType, Tick
  <2>2. LimitsType' /\ RestType' /\ call' \in [Calls -> Records]
    BY <2>1, TypeParts DEF IInv, LimitsType, RestType, Tick, limits
  <2> QED
    BY <2>2, TypePartsNext
<1>2. CallsGood' /\ HopsAllowed'
  BY DEF IInv, CallsGood, GoodCall, HopsAllowed, Tick, limits
<1>4. FetchesWithinLimits'
  <2>1. \A p \in Principals, t \in 0..MaxClock :
          In(p, t, Minute)' = In(p, t, Minute) /\ In(p, t, Hour)' = In(p, t, Hour)
    BY DEF In, Tick, limits
  <2> QED
    BY <2>1 DEF IInv, FetchesWithinLimits, Tick, limits
<1>3. HitsKept'
  <2> SUFFICES ASSUME NEW d \in Calls
               PROVE /\ started[d] <= clock'
                     /\ started[d] # -1 /\ clock' - started[d] < Minute =>
                          [at |-> started[d], call |-> d] \in minute[call[d].who]
                     /\ started[d] # -1 /\ clock' - started[d] < Hour =>
                          [at |-> started[d], call |-> d] \in hour[call[d].who]
    BY DEF HitsKept, Tick, limits
  <2>1. started[d] \in Int /\ clock \in Int /\ clock' = clock + 1
    BY TypeParts, LimitTypes DEF IInv, LimitsType, Tick
  <2>2. Minute \in Int /\ Hour \in Int
    BY LimitTypes
  <2> QED
    BY <2>1, <2>2 DEF IInv, HitsKept
<1> QED
  BY <1>1, <1>2, <1>3, <1>4 DEF IInv

LEMMA ReleaseKeeps == ASSUME ConstantsAssumption, IInv, NEW c \in Calls, Release(c) PROVE IInv'
<1> DEFINE new == [call[c] EXCEPT !.held = FALSE, !.stage = IF @ = "release" THEN "done" ELSE @]
           q == call[c].who
<1>0. call[c] \in Records /\ call \in [Calls -> Records] /\ q \in Principals
  BY TypeParts DEF IInv, Records
<1>1. /\ new \in Records /\ new.stage = IF call[c].stage = "release" THEN "done" ELSE "audit"
      /\ new.policy = call[c].policy /\ new.who = call[c].who /\ new.held = FALSE
  BY <1>0 DEF Records, Stages, Release
<1>2. call' = [call EXCEPT ![c] = new] /\ free' = [free EXCEPT ![q] = @ + 1]
  BY DEF Release, Set
<1> HIDE DEF new
<1>3. call[c].held /\ UNCHANGED <<clock, policy, minute, hour, started, contacts, audits, fuel>>
  BY DEF Release
<1>4. \A p \in Principals : Holders(p)' = IF p = q THEN Holders(p) \ {c} ELSE Holders(p)
  BY <1>0, <1>1, <1>2 DEF Holders
<1>5. \A p \in Principals : free'[p] \in 0..MaxConcurrent
                            /\ free'[p] + Cardinality(Holders(p)') = MaxConcurrent
  <2> SUFFICES ASSUME NEW p \in Principals
               PROVE free'[p] \in 0..MaxConcurrent
                     /\ free'[p] + Cardinality(Holders(p)') = MaxConcurrent
    OBVIOUS
  <2>1. free \in [Principals -> 0..MaxConcurrent]
    BY TypeParts DEF IInv, LimitsType
  <2>2. IsFiniteSet(Holders(p)) /\ Cardinality(Holders(p)) \in Nat
    BY HoldersFinite
  <2>3. free[p] + Cardinality(Holders(p)) = MaxConcurrent
    BY FreeAndHeld
  <2>4. CASE p # q
    <3>1. Holders(p)' = Holders(p) /\ free'[p] = free[p]
      BY <1>2, <1>4, <2>1, <2>4
    <3> QED
      BY <2>1, <2>3, <3>1
  <2>5. CASE p = q
    <3>1. c \in Holders(p)
      BY <1>3, <2>5 DEF Holders
    <3>2. Cardinality(Holders(p) \ {c}) = Cardinality(Holders(p)) - 1
      BY <2>2, <3>1, FS_RemoveElement
    <3>3. Cardinality(Holders(p) \ {c}) \in Nat
      BY <2>2, FS_RemoveElement, FS_CardinalityType
    <3>4. Holders(p)' = Holders(p) \ {c} /\ free'[p] = free[p] + 1
      BY <1>2, <1>4, <2>1, <2>5
    <3>5. free[p] \in Int /\ MaxConcurrent \in Int
      BY <2>1, LimitTypes
    <3> QED
      BY <2>1, <2>2, <2>3, <3>2, <3>3, <3>4, <3>5, LimitTypes
  <2> QED
    BY <2>4, <2>5
<1>6. TypeOK'
  <2>1. free' \in [Principals -> 0..MaxConcurrent]
    BY <1>2, <1>5, TypeParts DEF IInv, LimitsType
  <2>2. LimitsType' /\ RestType'
    BY <1>3, <2>1, TypeParts DEF IInv, LimitsType, RestType
  <2>3. call' \in [Calls -> Records]
    BY <1>0, <1>1, <1>2
  <2> QED
    BY <2>2, <2>3, TypePartsNext
<1>7. GoodCall(c)'
  <2>1. call'[c] = new
    BY <1>0, <1>2
  <2>2. call[c].stage = "release" \/ call[c].stage = "audit"
    BY DEF Release
  <2>3. GoodCall(c)
    BY DEF IInv, CallsGood
  <2> QED
    BY <1>1, <1>3, <2>1, <2>2, <2>3 DEF GoodCall
<1>8. CallsGood'
  <2>1. \A d \in Calls \ {c} : GoodCall(d)'
    BY <1>0, <1>2, <1>3 DEF IInv, CallsGood, GoodCall
  <2> QED
    BY <1>3, <1>7, <2>1 DEF IInv, CallsGood
<1>9. HopsAllowed'
  <2>1. \A d \in Calls : /\ call'[d].policy = call[d].policy
                         /\ d # c => call'[d] = call[d]
    BY <1>0, <1>1, <1>2
  <2>2. call'[c].stage = "done" => audits'[c] = 1 /\ ~ call'[c].held
    BY <1>0, <1>1, <1>2, <1>3 DEF IInv, CallsGood, GoodCall
  <2> QED
    BY <1>3, <2>1, <2>2 DEF IInv, HopsAllowed, Allowed
<1>10. HitsKept' /\ FetchesWithinLimits'
  <2>1. \A d \in Calls : call'[d].who = call[d].who
    BY <1>0, <1>1, <1>2
  <2>2. \A p \in Principals, t \in 0..MaxClock :
          In(p, t, Minute)' = In(p, t, Minute) /\ In(p, t, Hour)' = In(p, t, Hour)
    BY <1>3, <2>1 DEF In
  <2>3. HitsKept'
    BY <1>3, <2>1 DEF IInv, HitsKept
  <2> QED
    BY <1>5, <2>2, <2>3 DEF IInv, FetchesWithinLimits, Holders
<1> QED
  BY <1>6, <1>8, <1>9, <1>10 DEF IInv

\* A refused call leaves its limits as they were but for the entries too old to count.
LEMMA RefusedKeeps ==
  ASSUME ConstantsAssumption, IInv, NEW c \in Calls, Acquire(c), ~ LetIn(call[c].who)
  PROVE  IInv'
<1> DEFINE new == End(c, "limited")
           q == call[c].who
<1>0. call \in [Calls -> Records] /\ q \in Principals
      /\ minute \in [Principals -> SUBSET Hits] /\ hour \in [Principals -> SUBSET Hits]
  BY TypeParts DEF IInv, Records, LimitsType
<1>1. /\ new \in Records /\ new.stage = "audit" /\ new.policy = call[c].policy
      /\ new.who = q /\ new.held = call[c].held
  BY EndFields DEF IInv
<1>2. /\ call' = [call EXCEPT ![c] = new] /\ UNCHANGED <<free, started>>
      /\ minute' = [minute EXCEPT ![q] = Recent(@, Minute)]
      /\ hour' = [hour EXCEPT ![q] = Recent(@, Hour)]
      /\ UNCHANGED <<clock, policy, contacts, audits, fuel>>
  BY DEF Acquire, Set
<1>3. call'[c] = new
  BY <1>0, <1>2
<1> HIDE DEF new
<1>4. TypeOK'
  <2>1. minute' \in [Principals -> SUBSET Hits] /\ hour' \in [Principals -> SUBSET Hits]
    BY <1>0, <1>2 DEF Recent
  <2>2. LimitsType' /\ RestType' /\ call' \in [Calls -> Records]
    BY <1>0, <1>1, <1>2, <2>1, TypeParts DEF IInv, LimitsType, RestType
  <2> QED
    BY <2>2, TypePartsNext
<1>5. CallsGood'
  <2>1. \A d \in Calls \ {c} : GoodCall(d)'
    BY <1>0, <1>2 DEF IInv, CallsGood, GoodCall
  <2>2. GoodCall(c)'
    BY <1>1, <1>2, <1>3 DEF IInv, CallsGood, GoodCall, Acquire
  <2> QED
    BY <1>2, <2>1, <2>2 DEF IInv, CallsGood
<1>6. HopsAllowed'
  <2>1. \A d \in Calls : /\ call'[d].policy = call[d].policy
                         /\ call'[d].stage = "done" => call'[d] = call[d]
    BY <1>0, <1>1, <1>2
  <2> QED
    BY <1>2, <2>1 DEF IInv, HopsAllowed, Allowed
<1>7. \A d \in Calls : call'[d].who = call[d].who /\ call'[d].held = call[d].held
  BY <1>0, <1>1, <1>2
<1>8. HitsKept'
  <2> SUFFICES ASSUME NEW d \in Calls
               PROVE /\ started[d] <= clock
                     /\ started[d] # -1 /\ clock - started[d] < Minute =>
                          [at |-> started[d], call |-> d] \in minute'[call[d].who]
                     /\ started[d] # -1 /\ clock - started[d] < Hour =>
                          [at |-> started[d], call |-> d] \in hour'[call[d].who]
    BY <1>2, <1>7 DEF HitsKept
  <2>1. call[d].who \in Principals
    BY <1>0 DEF Records
  <2> QED
    BY <1>0, <1>2, <2>1 DEF IInv, HitsKept, Recent
<1>9. FetchesWithinLimits'
  <2>1. \A p \in Principals, t \in 0..MaxClock :
          In(p, t, Minute)' = In(p, t, Minute) /\ In(p, t, Hour)' = In(p, t, Hour)
    BY <1>2, <1>7 DEF In
  <2>2. \A p \in Principals : Holders(p)' = Holders(p)
    BY <1>7 DEF Holders
  <2> QED
    BY <1>2, <2>1, <2>2 DEF IInv, FetchesWithinLimits, Holders
<1> QED
  BY <1>4, <1>5, <1>6, <1>8, <1>9 DEF IInv

\* A call that is let in finds, in the entries of its principal, every call that a
\* window with it in could also hold.
LEMMA LetInKeeps ==
  ASSUME ConstantsAssumption, IInv, NEW c \in Calls, Acquire(c), LetIn(call[c].who)
  PROVE  IInv'
<1> DEFINE new == [call[c] EXCEPT !.stage = "evaluate", !.held = TRUE]
           q == call[c].who
           entry == [at |-> clock, call |-> c]
<1>0. /\ call \in [Calls -> Records] /\ q \in Principals /\ call[c] \in Records
      /\ minute \in [Principals -> SUBSET Hits] /\ hour \in [Principals -> SUBSET Hits]
      /\ free \in [Principals -> 0..MaxConcurrent] /\ started \in [Calls -> -1..MaxClock]
      /\ clock \in 0..MaxClock
  BY TypeParts DEF IInv, Records, LimitsType
<1>1. /\ new \in Records /\ new.stage = "evaluate" /\ new.policy = call[c].policy
      /\ new.who = q /\ new.held = TRUE /\ new.hops = call[c].hops /\ new.from = call[c].from
      /\ new.url = call[c].url
  BY <1>0 DEF Records, Stages
<1>2. /\ call' = [call EXCEPT ![c] = new] /\ free' = [free EXCEPT ![q] = @ - 1]
      /\ started' = [started EXCEPT ![c] = clock]
      /\ minute' = [minute EXCEPT ![q] = Recent(@, Minute) \cup {entry}]
      /\ hour' = [hour EXCEPT ![q] = Recent(@, Hour) \cup {entry}]
      /\ UNCHANGED <<clock, policy, contacts, audits, fuel>>
  BY DEF Acquire, Set
<1>3. call'[c] = new
  BY <1>0, <1>2
<1> HIDE DEF new
<1>4. started[c] = -1 /\ ~ call[c].held /\ contacts[c] = {} /\ audits[c] = 0
      /\ call[c].hops = 0 /\ call[c].from = "none"
  BY DEF IInv, CallsGood, GoodCall, Acquire
<1>5. TypeOK'
  <2>1. minute' \in [Principals -> SUBSET Hits] /\ hour' \in [Principals -> SUBSET Hits]
    <3>1. entry \in Hits
      BY <1>0 DEF Hits
    <3> QED
      BY <1>0, <1>2, <3>1 DEF Recent
  <2>2. free' \in [Principals -> 0..MaxConcurrent]
    <3>1. free[q] > 0
      BY DEF LetIn
    <3>2. free[q] - 1 \in 0..MaxConcurrent
      BY <1>0, <3>1, LimitTypes
    <3> QED
      BY <1>0, <1>2, <3>2
  <2>3. LimitsType' /\ RestType' /\ call' \in [Calls -> Records]
    BY <1>0, <1>1, <1>2, <2>1, <2>2, TypeParts DEF IInv, LimitsType, RestType
  <2> QED
    BY <2>3, TypePartsNext
<1>6. CallsGood'
  <2>1. \A d \in Calls \ {c} : GoodCall(d)'
    BY <1>0, <1>2 DEF IInv, CallsGood, GoodCall
  <2>2. GoodCall(c)'
    BY <1>1, <1>2, <1>3, <1>4, LimitTypes DEF GoodCall
  <2> QED
    BY <1>2, <2>1, <2>2 DEF IInv, CallsGood
<1>7. HopsAllowed'
  <2>1. \A d \in Calls : /\ call'[d].policy = call[d].policy
                         /\ call'[d].stage = "done" => call'[d] = call[d]
    BY <1>0, <1>1, <1>2
  <2> QED
    BY <1>2, <2>1 DEF IInv, HopsAllowed, Allowed
<1>8. \A d \in Calls : /\ call'[d].who = call[d].who
                       /\ call'[d].held = IF d = c THEN TRUE ELSE call[d].held
                       /\ started'[d] = IF d = c THEN clock ELSE started[d]
  BY <1>0, <1>1, <1>2
<1>9. HitsKept'
  <2> SUFFICES ASSUME NEW d \in Calls
               PROVE /\ started'[d] <= clock
                     /\ started'[d] # -1 /\ clock - started'[d] < Minute =>
                          [at |-> started'[d], call |-> d] \in minute'[call[d].who]
                     /\ started'[d] # -1 /\ clock - started'[d] < Hour =>
                          [at |-> started'[d], call |-> d] \in hour'[call[d].who]
    BY <1>2, <1>8 DEF HitsKept
  <2>1. call[d].who \in Principals
    BY <1>0 DEF Records
  <2>2. CASE d = c
    BY <1>0, <1>2, <1>8, <2>1, <2>2
  <2>3. CASE d # c
    BY <1>0, <1>2, <1>8, <2>1, <2>3 DEF IInv, HitsKept, Recent
  <2> QED
    BY <2>2, <2>3
<1>10. \A p \in Principals, t \in 0..MaxClock :
         /\ Cardinality(In(p, t, Minute)') <= MinuteLimit
         /\ Cardinality(In(p, t, Hour)') <= HourLimit
  <2> SUFFICES ASSUME NEW p \in Principals, NEW t \in 0..MaxClock
               PROVE  /\ Cardinality(In(p, t, Minute)') <= MinuteLimit
                      /\ Cardinality(In(p, t, Hour)') <= HourLimit
    OBVIOUS
  <2>1. \A length \in {Minute, Hour} :
          In(p, t, length)' = IF p = q /\ clock \in t..t + length - 1
                              THEN In(p, t, length) \cup {c} ELSE In(p, t, length)
    <3> SUFFICES ASSUME NEW length \in {Minute, Hour}
                 PROVE  In(p, t, length)' = IF p = q /\ clock \in t..t + length - 1
                                            THEN In(p, t, length) \cup {c} ELSE In(p, t, length)
      OBVIOUS
    <3> DEFINE I == t..t + length - 1
    <3>1. In(p, t, length) = {d \in Calls : started[d] # -1 /\ call[d].who = p /\ started[d] \in I}
      BY DEF In
    <3>2. In(p, t, length)' = {d \in Calls : started'[d] # -1 /\ call'[d].who = p /\ started'[d] \in I}
      BY DEF In
    <3>3. clock # -1
      BY <1>0
    <3> HIDE DEF I
    <3>4. \A d \in Calls : d \in In(p, t, length)' <=>
            d \in In(p, t, length) \/ (d = c /\ p = q /\ clock \in I)
      BY <1>4, <1>8, <3>1, <3>2, <3>3
    <3>5. In(p, t, length)' \subseteq Calls /\ In(p, t, length) \subseteq Calls
      BY <3>1, <3>2
    <3>6. In(p, t, length)' = IF p = q /\ clock \in I
                              THEN In(p, t, length) \cup {c} ELSE In(p, t, length)
      BY <3>4, <3>5
    <3> QED
      BY <3>6 DEF I
  <2>2. \A d \in In(p, t, Minute) :
          clock \in t..t + Minute - 1 =>
            clock - started[d] < Minute /\ [at |-> started[d], call |-> d] \in minute[p]
    BY <1>0, LimitTypes DEF IInv, HitsKept, In
  <2>3. \A d \in In(p, t, Hour) :
          clock \in t..t + Hour - 1 =>
            clock - started[d] < Hour /\ [at |-> started[d], call |-> d] \in hour[p]
    BY <1>0, LimitTypes DEF IInv, HitsKept, In
  <2>4. In(p, t, Minute) \in SUBSET Calls /\ In(p, t, Hour) \in SUBSET Calls
    BY DEF In
  <2>5. Cardinality(In(p, t, Minute)') <= MinuteLimit
    <3>1. CASE p = q /\ clock \in t..t + Minute - 1
      <4>1. Cardinality({h \in minute[p] : clock - h.at < Minute}) < MinuteLimit
        BY <3>1 DEF LetIn, Recent
      <4>2. Cardinality(In(p, t, Minute) \cup {c}) <= MinuteLimit
        <5> DEFINE S == In(p, t, Minute)
                   log == minute[p]
        <5>1. log \in SUBSET Hits /\ S \in SUBSET Calls
          BY <1>0, <2>4
        <5>2. \A d \in S : [at |-> started[d], call |-> d] \in log /\ clock - started[d] < Minute
          BY <2>2, <3>1
        <5>3. /\ IsFiniteSet(Calls) /\ MaxClock \in Nat /\ clock \in Int
              /\ Minute \in Nat /\ MinuteLimit \in Nat
          BY <1>0, LimitTypes
        <5>4. Cardinality({h \in log : clock - h.at < Minute}) < MinuteLimit
          BY <4>1
        <5> HIDE DEF S, log
        <5>5. Cardinality(S \cup {c}) <= MinuteLimit
          BY <5>1, <5>2, <5>3, <5>4, WindowAdmits
        <5> QED
          BY <5>5 DEF S
      <4> QED
        BY <2>1, <3>1, <4>2
    <3>2. CASE ~ (p = q /\ clock \in t..t + Minute - 1)
      BY <2>1, <3>2 DEF IInv, FetchesWithinLimits
    <3> QED
      BY <3>1, <3>2
  <2>6. Cardinality(In(p, t, Hour)') <= HourLimit
    <3>1. CASE p = q /\ clock \in t..t + Hour - 1
      <4>1. Cardinality({h \in hour[p] : clock - h.at < Hour}) < HourLimit
        BY <3>1 DEF LetIn, Recent
      <4>2. Cardinality(In(p, t, Hour) \cup {c}) <= HourLimit
        <5> DEFINE S == In(p, t, Hour)
                   log == hour[p]
        <5>1. log \in SUBSET Hits /\ S \in SUBSET Calls
          BY <1>0, <2>4
        <5>2. \A d \in S : [at |-> started[d], call |-> d] \in log /\ clock - started[d] < Hour
          BY <2>3, <3>1
        <5>3. /\ IsFiniteSet(Calls) /\ MaxClock \in Nat /\ clock \in Int
              /\ Hour \in Nat /\ HourLimit \in Nat
          BY <1>0, LimitTypes
        <5>4. Cardinality({h \in log : clock - h.at < Hour}) < HourLimit
          BY <4>1
        <5> HIDE DEF S, log
        <5>5. Cardinality(S \cup {c}) <= HourLimit
          BY <5>1, <5>2, <5>3, <5>4, WindowAdmits
        <5> QED
          BY <5>5 DEF S
      <4> QED
        BY <2>1, <3>1, <4>2
    <3>2. CASE ~ (p = q /\ clock \in t..t + Hour - 1)
      BY <2>1, <3>2 DEF IInv, FetchesWithinLimits
    <3> QED
      BY <3>1, <3>2
  <2> QED
    BY <2>5, <2>6
<1>11. \A p \in Principals : free'[p] + Cardinality(Holders(p)') = MaxConcurrent
  <2> SUFFICES ASSUME NEW p \in Principals
               PROVE  free'[p] + Cardinality(Holders(p)') = MaxConcurrent
    OBVIOUS
  <2>1. IsFiniteSet(Holders(p)) /\ Cardinality(Holders(p)) \in Nat
    BY HoldersFinite
  <2>2. free[p] + Cardinality(Holders(p)) = MaxConcurrent
    BY FreeAndHeld
  <2>3. CASE p # q
    <3>1. Holders(p)' = Holders(p) /\ free'[p] = free[p]
      BY <1>0, <1>2, <1>8, <2>3 DEF Holders
    <3> QED
      BY <2>2, <3>1
  <2>4. CASE p = q
    <3>1. Holders(p)' = Holders(p) \cup {c} /\ c \notin Holders(p)
      BY <1>4, <1>8, <2>4 DEF Holders
    <3>2. Cardinality(Holders(p) \cup {c}) = Cardinality(Holders(p)) + 1
      BY <2>1, <3>1, FS_AddElement
    <3>3. free'[p] = free[p] - 1 /\ free[p] \in Int
      BY <1>0, <1>2, <2>4
    <3> QED
      BY <2>1, <2>2, <3>1, <3>2, <3>3
  <2> QED
    BY <2>3, <2>4
<1>12. FetchesWithinLimits'
  BY <1>10, <1>11 DEF FetchesWithinLimits, Holders
<1> QED
  BY <1>5, <1>6, <1>7, <1>9, <1>12 DEF IInv

-----------------------------------------------------------------------------
(* The theorems.                                                           *)

LEMMA NextKeeps == ASSUME ConstantsAssumption, IInv, [Next]_vars PROVE IInv'
<1>1. CASE SavePolicy
  BY <1>1, SavePolicyKeeps
<1>2. CASE Tick
  BY <1>2, TickKeeps
<1>3. ASSUME NEW c \in Calls, Step(c) PROVE IInv'
  <2>1. CASE Acquire(c)
    BY <2>1, RefusedKeeps, LetInKeeps
  <2> QED
    BY <1>3, <2>1, StartKeeps, EvaluateKeeps, OpenKeeps, FailKeeps, RespondKeeps, RedirectKeeps,
       AuditKeeps, ReleaseKeeps DEF Step
<1>4. CASE UNCHANGED vars
  <2>1. TypeOK' /\ CallsGood' /\ HitsKept' /\ HopsAllowed'
    BY <1>4 DEF IInv, vars, TypeOK, CallsGood, GoodCall, HitsKept, HopsAllowed
  <2>2. FetchesWithinLimits'
    BY <1>4 DEF IInv, vars, FetchesWithinLimits, In
  <2> QED
    BY <2>1, <2>2 DEF IInv
<1> QED
  BY <1>1, <1>2, <1>3, <1>4 DEF Next

\* The invariant holds in every state, and every variable has its type: no principal
\* ever has more slots than there are, or fewer than none.
THEOREM TypeCorrect == ASSUME ConstantsAssumption PROVE Spec => []TypeOK /\ []IInv
<1>1. Init => IInv
  BY InitInv
<1>2. IInv /\ [Next]_vars => IInv'
  BY NextKeeps
<1>3. IInv => TypeOK
  BY DEF IInv
<1> QED
  BY <1>1, <1>2, <1>3, PTL DEF Spec

\* Whatever a server answers, every connection of a fetch is one its policy allowed
\* when it began, and a call that is over has its audit row and gave its slot back.
THEOREM HopsAreAllowed == ASSUME ConstantsAssumption PROVE Spec => []HopsAllowed
<1>1. IInv => HopsAllowed
  BY DEF IInv
<1> QED
  BY <1>1, TypeCorrect, PTL

\* In every minute and hour a principal's fetches are within its limits, and no slot is
\* lost or given back twice.
THEOREM LimitsHold == ASSUME ConstantsAssumption PROVE Spec => []FetchesWithinLimits
<1>1. IInv => FetchesWithinLimits
  BY DEF IInv
<1> QED
  BY <1>1, TypeCorrect, PTL
=============================================================================
