--------------------------- MODULE ServicesProofs ---------------------------
(***************************************************************************)
(* The services side by side keep their invariants, for every value of     *)
(* their parameters.  The invariants of the approved windows and of the    *)
(* web fetches come from the proof modules of these services; those of the *)
(* others are stated and proved here, of the instances that the            *)
(* composition makes, except those of the integrations, which              *)
(* IntegrationProofs states.                                               *)
(***************************************************************************)
EXTENDS Services, FiniteSetTheorems, TLAPS

-----------------------------------------------------------------------------
(* Enrolment, registration and removal of gateways.                        *)

(* The inductive invariant.                                                *)

\* The trigger of a host was asked for, except while the registration that forgot the
\* demand has not yet cleared it; a poller that saw it then is one the installer is
\* about to replace.
EnrolGood(h) ==
  /\ h \in trigger => h \in asked \/ nCall[h].stage \in {"consume", "row", "clear"}
  /\ host[h].pc = "fetched" /\ host[h].flag => h \in asked \/ nCall[h].stage # "none"
  /\ nCall[h].stage = "consume" => nCall[h].enrol \in EnrolSetup.Tokens

EnrolInv == N!TypeOK /\ (\A h \in EnrolSetup.Hosts : EnrolGood(h)) /\ N!NoStaleUninstall

-----------------------------------------------------------------------------
(* Types.                                                                  *)

EnrolCalls == [stage : {"none", "auth", "consume", "row", "clear", "token", "answer"},
                by : {"installer", "poller"}, token : 0..EnrolSetup.MaxId, enrol : EnrolSetup.Tokens \cup {EnrolSetup.NoToken}]
EnrolHosts == [installed : BOOLEAN, held : 0..EnrolSetup.MaxId, last : 0..EnrolSetup.MaxId,
                pc : {"off", "idle", "fetched", "launched", "calling"}, flag : BOOLEAN,
                id : 0..EnrolSetup.MaxId, unit : {"none", "running", "removed"}]
EnrolOps == [kind : {"uninstall", "remove"}, host : EnrolSetup.Hosts]

\* The dashboard's part, without the calls and the machines.
EnrolRest ==
  /\ used \subseteq EnrolSetup.Tokens /\ row \in [EnrolSetup.Hosts -> -1..EnrolSetup.MaxId] /\ minted \in 0..EnrolSetup.MaxId
  /\ trigger \subseteq EnrolSetup.Hosts /\ update \in 0..EnrolSetup.MaxId /\ ops \subseteq EnrolOps
  /\ nAdmitted \in [EnrolSetup.Tokens -> SUBSET EnrolSetup.Hosts] /\ asked \subseteq EnrolSetup.Hosts /\ stale \subseteq EnrolSetup.Hosts
  /\ nFuel \in 0..EnrolSetup.Budget

LEMMA EnrolParts == N!TypeOK <=> EnrolRest /\ nCall \in [EnrolSetup.Hosts -> EnrolCalls] /\ host \in [EnrolSetup.Hosts -> EnrolHosts]
  BY DEF N!TypeOK, EnrolRest, EnrolCalls, EnrolHosts, EnrolOps

LEMMA EnrolPartsNext ==
  N!TypeOK' <=> EnrolRest' /\ nCall' \in [EnrolSetup.Hosts -> EnrolCalls] /\ host' \in [EnrolSetup.Hosts -> EnrolHosts]
  BY DEF N!TypeOK, EnrolRest, EnrolCalls, EnrolHosts, EnrolOps

LEMMA EnrolInit == ASSUME N!ConstantsAssumption, N!Init PROVE EnrolInv
<1>0. EnrolSetup.MaxId \in Nat /\ EnrolSetup.Budget \in Nat
  BY DEF N!ConstantsAssumption
<1>1. N!NoCall \in EnrolCalls /\ N!Blank \in EnrolHosts
  BY <1>0 DEF N!NoCall, N!Blank, EnrolCalls, EnrolHosts
<1>2. EnrolRest
  BY <1>0 DEF N!Init, EnrolRest
<1>3. N!TypeOK
  BY <1>1, <1>2, EnrolParts DEF N!Init
<1>4. \A h \in EnrolSetup.Hosts : EnrolGood(h)
  BY DEF N!Init, EnrolGood, N!Blank, N!NoCall
<1> QED
  BY <1>3, <1>4 DEF EnrolInv, N!Init, N!NoStaleUninstall

LEMMA EnrolSpends == ASSUME N!ConstantsAssumption, N!TypeOK, N!Spend PROVE nFuel' \in 0..EnrolSetup.Budget
  BY DEF N!ConstantsAssumption, N!TypeOK, N!Spend

\* A step about one host, as its call and its machine become.
LEMMA EnrolOneHost ==
  ASSUME EnrolInv, NEW h \in EnrolSetup.Hosts, NEW c \in EnrolCalls, NEW m \in EnrolHosts,
         nCall' = [nCall EXCEPT ![h] = c], host' = [host EXCEPT ![h] = m], EnrolRest',
         \A x \in EnrolSetup.Hosts \ {h} :
           /\ x \in trigger' => x \in trigger
           /\ x \in asked => x \in asked',
         stale' = {},
         h \in trigger' => h \in asked' \/ c.stage \in {"consume", "row", "clear"},
         m.pc = "fetched" /\ m.flag => h \in asked' \/ c.stage # "none",
         c.stage = "consume" => c.enrol \in EnrolSetup.Tokens
  PROVE  EnrolInv'
<1>1. nCall \in [EnrolSetup.Hosts -> EnrolCalls] /\ host \in [EnrolSetup.Hosts -> EnrolHosts]
  BY EnrolParts DEF EnrolInv
<1>2. /\ nCall'[h] = c /\ host'[h] = m
      /\ \A x \in EnrolSetup.Hosts \ {h} : nCall'[x] = nCall[x] /\ host'[x] = host[x]
  BY <1>1
<1>3. N!TypeOK'
  BY <1>1, EnrolPartsNext
<1>4. ASSUME NEW x \in EnrolSetup.Hosts PROVE EnrolGood(x)'
  <2>1. CASE x = h
    BY <1>2, <2>1 DEF EnrolGood
  <2>2. CASE x # h
    <3>1. EnrolGood(x)
      BY DEF EnrolInv
    <3>2. /\ nCall'[x] = nCall[x] /\ host'[x] = host[x] /\ (x \in trigger' => x \in trigger)
          /\ x \in asked => x \in asked'
      BY <1>2, <2>2
    <3> QED
      BY <3>1, <3>2 DEF EnrolGood
  <2> QED
    BY <2>1, <2>2
<1> QED
  BY <1>3, <1>4 DEF EnrolInv, N!NoStaleUninstall

-----------------------------------------------------------------------------
(* /api/register.                                                          *)

\* A step of a call that leaves the machine alone.
LEMMA EnrolCallStep ==
  ASSUME EnrolInv, NEW h \in EnrolSetup.Hosts, NEW c \in EnrolCalls,
         nCall' = [nCall EXCEPT ![h] = c], UNCHANGED <<host, stale>>, EnrolRest',
         \A x \in EnrolSetup.Hosts \ {h} :
           /\ x \in trigger' => x \in trigger
           /\ x \in asked => x \in asked',
         h \in trigger' => h \in asked' \/ c.stage \in {"consume", "row", "clear"},
         c.stage # "none", c.stage = "consume" => c.enrol \in EnrolSetup.Tokens
  PROVE  EnrolInv'
<1>1. host \in [EnrolSetup.Hosts -> EnrolHosts]
  BY EnrolParts DEF EnrolInv
<1>2. host' = [host EXCEPT ![h] = host[h]] /\ host[h] \in EnrolHosts
  BY <1>1
<1>3. stale' = {}
  BY DEF EnrolInv, N!NoStaleUninstall
<1> QED
  BY <1>2, <1>3, EnrolOneHost

LEMMA EnrolAuths == ASSUME N!ConstantsAssumption, EnrolInv, NEW h \in EnrolSetup.Hosts, N!Auth(h) PROVE EnrolInv'
<1> DEFINE c == nCall[h]
           registered == c.token # 0 /\ N!Valid(h, c.token)
           new == c.token = 0 /\ row[h] = -1 /\ c.enrol \in EnrolSetup.Tokens \ used
           next == [c EXCEPT !.stage = IF registered THEN "row" ELSE IF new THEN "consume" ELSE "answer",
                             !.token = IF registered THEN @ ELSE 0]
<1>0. c \in EnrolCalls /\ EnrolSetup.MaxId \in Nat
  BY EnrolParts DEF EnrolInv, N!ConstantsAssumption
<1>1. /\ next \in EnrolCalls /\ next.enrol = c.enrol
      /\ next.stage = (IF registered THEN "row" ELSE IF new THEN "consume" ELSE "answer")
  <2> DEFINE stage == IF registered THEN "row" ELSE IF new THEN "consume" ELSE "answer"
             token == IF registered THEN c.token ELSE 0
  <2>1. token \in 0..EnrolSetup.MaxId
    BY <1>0 DEF EnrolCalls
  <2>2. stage \in {"row", "consume", "answer"}
    OBVIOUS
  <2>3. next = [c EXCEPT !.stage = stage, !.token = token]
    BY <1>0 DEF EnrolCalls
  <2> HIDE DEF stage, token, next
  <2>4. next \in EnrolCalls /\ next.enrol = c.enrol /\ next.stage = stage
    BY <1>0, <2>1, <2>2, <2>3 DEF EnrolCalls
  <2> QED
    BY <2>4 DEF stage
<1>n. new => c.enrol \in EnrolSetup.Tokens
  OBVIOUS
<1>2. /\ nCall' = [nCall EXCEPT ![h] = next]
      /\ asked' = IF registered \/ new THEN asked \ {h} ELSE asked
      /\ UNCHANGED <<N!dash, update, ops, host, N!hist, nFuel>>
  BY DEF N!Auth, N!Set
<1>3. h \in trigger => h \in asked
  BY DEF N!Auth, EnrolInv, EnrolGood
<1> HIDE DEF next, registered, new
<1>4. EnrolRest'
  BY <1>2, EnrolParts DEF EnrolInv, EnrolRest, N!dash, N!hist
<1> QED
  BY <1>1, <1>2, <1>3, <1>4, <1>n, EnrolCallStep DEF N!dash, N!hist

LEMMA EnrolConsumes == ASSUME EnrolInv, NEW h \in EnrolSetup.Hosts, N!Consume(h) PROVE EnrolInv'
<1> DEFINE next == [nCall[h] EXCEPT !.stage = "row"]
<1>0. nCall[h] \in EnrolCalls
  BY EnrolParts DEF EnrolInv
<1>1. next \in EnrolCalls /\ next.stage = "row"
  BY <1>0 DEF EnrolCalls
<1>2. nCall' = [nCall EXCEPT ![h] = next]
  BY DEF N!Consume, N!Stage, N!Set
<1> HIDE DEF next
<1>3. EnrolRest'
  <2>1. nCall[h].enrol \in EnrolSetup.Tokens
    BY DEF EnrolInv, EnrolGood, N!Consume
  <2>2. used' \subseteq EnrolSetup.Tokens /\ nAdmitted' \in [EnrolSetup.Tokens -> SUBSET EnrolSetup.Hosts]
    BY <2>1, EnrolParts DEF EnrolInv, EnrolRest, N!Consume
  <2> QED
    BY <2>2, EnrolParts DEF EnrolInv, EnrolRest, N!Consume
<1> QED
  BY <1>1, <1>2, <1>3, EnrolCallStep DEF N!Consume

LEMMA EnrolRegisters == ASSUME N!ConstantsAssumption, EnrolInv, NEW h \in EnrolSetup.Hosts, N!RegisterRow(h) PROVE EnrolInv'
<1> DEFINE next == [nCall[h] EXCEPT !.stage = "clear"]
<1>0. nCall[h] \in EnrolCalls
  BY EnrolParts DEF EnrolInv
<1>1. next \in EnrolCalls /\ next.stage = "clear"
  BY <1>0 DEF EnrolCalls
<1>2. nCall' = [nCall EXCEPT ![h] = next]
  BY DEF N!RegisterRow, N!Stage, N!Set
<1> HIDE DEF next
<1>3. EnrolRest'
  BY EnrolParts DEF EnrolInv, EnrolRest, N!RegisterRow, N!hist, N!ConstantsAssumption
<1> QED
  BY <1>1, <1>2, <1>3, EnrolCallStep DEF N!RegisterRow, N!hist

LEMMA EnrolClearTriggers == ASSUME EnrolInv, NEW h \in EnrolSetup.Hosts, N!ClearTrigger(h) PROVE EnrolInv'
<1> DEFINE next == [nCall[h] EXCEPT !.stage = "token"]
<1>0. nCall[h] \in EnrolCalls
  BY EnrolParts DEF EnrolInv
<1>1. next \in EnrolCalls /\ next.stage = "token"
  BY <1>0 DEF EnrolCalls
<1>2. nCall' = [nCall EXCEPT ![h] = next]
  BY DEF N!ClearTrigger, N!Stage, N!Set
<1> HIDE DEF next
<1>3. EnrolRest'
  BY EnrolParts DEF EnrolInv, EnrolRest, N!ClearTrigger, N!hist
<1> QED
  BY <1>1, <1>2, <1>3, EnrolCallStep DEF N!ClearTrigger, N!hist

LEMMA EnrolGiveTokens == ASSUME N!ConstantsAssumption, EnrolInv, NEW h \in EnrolSetup.Hosts, N!GiveToken(h) PROVE EnrolInv'
<1>0. nCall[h] \in EnrolCalls /\ row \in [EnrolSetup.Hosts -> -1..EnrolSetup.MaxId] /\ minted \in 0..EnrolSetup.MaxId /\ EnrolSetup.MaxId \in Nat
  BY EnrolParts DEF EnrolInv, EnrolRest, N!ConstantsAssumption
<1>1. h \in trigger => h \in asked
  BY DEF N!GiveToken, EnrolInv, EnrolGood
<1>2. PICK t \in 0..EnrolSetup.MaxId : nCall' = [nCall EXCEPT ![h] = [nCall[h] EXCEPT !.stage = "answer", !.token = t]]
  <2>1. CASE row[h] > 0
    <3>1. row[h] \in 0..EnrolSetup.MaxId
      BY <1>0, <2>1
    <3> QED
      BY <2>1, <3>1 DEF N!GiveToken, N!Set
  <2>2. CASE ~ row[h] > 0
    <3>1. minted + 1 \in 0..EnrolSetup.MaxId
      BY <1>0, <2>2 DEF N!GiveToken
    <3> QED
      BY <2>2, <3>1 DEF N!GiveToken, N!Set
  <2> QED
    BY <2>1, <2>2
<1> DEFINE next == [nCall[h] EXCEPT !.stage = "answer", !.token = t]
<1>3. next \in EnrolCalls /\ next.stage = "answer"
  BY <1>0 DEF EnrolCalls
<1> HIDE DEF next
<1>4. EnrolRest' /\ UNCHANGED <<trigger, asked, host, stale>>
  <2>1. CASE row[h] > 0
    BY <2>1, EnrolParts DEF N!GiveToken, EnrolInv, EnrolRest, N!dash, N!hist
  <2>2. CASE ~ row[h] > 0
    <3>1. minted < EnrolSetup.MaxId /\ minted' = minted + 1 /\ minted + 1 \in -1..EnrolSetup.MaxId
      BY <1>0, <2>2 DEF N!GiveToken
    <3>2. row' = [row EXCEPT ![h] = IF @ = -1 THEN @ ELSE minted + 1]
      BY <2>2 DEF N!GiveToken
    <3>3. row' \in [EnrolSetup.Hosts -> -1..EnrolSetup.MaxId]
      BY <1>0, <3>1, <3>2
    <3>4. minted' \in 0..EnrolSetup.MaxId
      BY <1>0, <3>1
    <3> QED
      BY <2>2, <3>3, <3>4, EnrolParts DEF N!GiveToken, EnrolInv, EnrolRest, N!hist
  <2> QED
    BY <2>1, <2>2
<1> QED
  BY <1>1, <1>2, <1>3, <1>4, EnrolCallStep DEF next

\* The installer and the poller go on in their loop, with what they were answered.
LEMMA EnrolAnswers == ASSUME N!ConstantsAssumption, EnrolInv, NEW h \in EnrolSetup.Hosts, N!Answer(h) PROVE EnrolInv'
<1>0. nCall[h] \in EnrolCalls /\ host[h] \in EnrolHosts
  BY EnrolParts DEF EnrolInv
<1>1. PICK m \in EnrolHosts : m.pc = "idle" /\ host' = [host EXCEPT ![h] = m]
  <2> DEFINE held == IF nCall[h].token # 0 THEN nCall[h].token ELSE host[h].held
             m1 == [host[h] EXCEPT !.held = held, !.pc = "idle"]
             m2 == [host[h] EXCEPT !.held = held, !.pc = "idle", !.installed = TRUE]
  <2>1. held \in 0..EnrolSetup.MaxId
    BY <1>0 DEF EnrolCalls, EnrolHosts
  <2>2. host' = [host EXCEPT ![h] = m1] \/ host' = [host EXCEPT ![h] = m2]
    BY DEF N!Answer, N!Host
  <2> HIDE DEF held
  <2>3. m1 \in EnrolHosts /\ m1.pc = "idle" /\ m2 \in EnrolHosts /\ m2.pc = "idle"
    BY <1>0, <2>1 DEF EnrolHosts
  <2> HIDE DEF m1, m2
  <2> QED
    BY <2>2, <2>3
<1>2. N!NoCall \in EnrolCalls /\ N!NoCall.stage = "none"
  BY DEF N!NoCall, EnrolCalls, N!ConstantsAssumption
<1>3. nCall' = [nCall EXCEPT ![h] = N!NoCall] /\ UNCHANGED <<N!dash, update, ops, N!hist, asked, nFuel>>
  BY DEF N!Answer, N!Set
<1>4. h \in trigger => h \in asked
  BY DEF N!Answer, EnrolInv, EnrolGood
<1>5. EnrolRest'
  BY <1>3, EnrolParts DEF EnrolInv, EnrolRest, N!dash, N!hist
<1> QED
  BY <1>1, <1>2, <1>3, <1>4, <1>5, EnrolOneHost DEF N!dash, N!hist, EnrolInv, N!NoStaleUninstall

-----------------------------------------------------------------------------
(* The operator.                                                           *)

LEMMA EnrolInstalls == ASSUME N!ConstantsAssumption, EnrolInv, NEW h \in EnrolSetup.Hosts, N!Install(h) PROVE EnrolInv'
<1>1. PICK e \in EnrolSetup.Tokens : N!Begin(h, "installer", 0, e)
  BY DEF N!Install
<1> DEFINE c == [stage |-> "auth", by |-> "installer", token |-> 0, enrol |-> e]
<1>2. c \in EnrolCalls /\ c.stage = "auth"
  BY DEF EnrolCalls, N!ConstantsAssumption
<1>3. nCall' = [nCall EXCEPT ![h] = c] /\ nCall[h].stage = "none"
  BY <1>1 DEF N!Begin, N!Set
<1> HIDE DEF c
<1>4. h \in trigger => h \in asked
  BY <1>3 DEF EnrolInv, EnrolGood
<1>5. EnrolRest'
  BY EnrolSpends, EnrolParts DEF N!Install, EnrolInv, EnrolRest, N!dash, N!hist
<1> QED
  BY <1>2, <1>3, <1>4, <1>5, EnrolCallStep DEF N!Install, N!dash, N!hist

\* Steps that touch neither calls nor machines.
LEMMA EnrolTableStep ==
  ASSUME EnrolInv, UNCHANGED <<nCall, host, stale>>, EnrolRest', asked \subseteq asked',
         \A h \in trigger' : h \in trigger \/ h \in asked'
  PROVE  EnrolInv'
<1>1. N!TypeOK'
  BY EnrolParts, EnrolPartsNext DEF EnrolInv
<1>2. \A h \in EnrolSetup.Hosts : EnrolGood(h)'
  BY DEF EnrolInv, EnrolGood
<1> QED
  BY <1>1, <1>2 DEF EnrolInv, N!NoStaleUninstall

LEMMA EnrolAsks == ASSUME N!ConstantsAssumption, EnrolInv, NEW h \in EnrolSetup.Hosts, N!Ask(h) PROVE EnrolInv'
<1>1. ops' \subseteq EnrolOps
  BY EnrolParts DEF N!Ask, EnrolInv, EnrolRest, EnrolOps
<1>2. EnrolRest'
  BY <1>1, EnrolSpends, EnrolParts DEF N!Ask, EnrolInv, EnrolRest, N!dash, N!hist
<1> QED
  BY <1>2, EnrolTableStep DEF N!Ask, N!dash, N!hist

LEMMA EnrolWrites == ASSUME N!ConstantsAssumption, EnrolInv, NEW o \in ops, N!Write(o) PROVE EnrolInv'
<1>1. o \in EnrolOps /\ o.host \in EnrolSetup.Hosts
  BY EnrolParts DEF EnrolInv, EnrolRest, EnrolOps
<1>2. /\ UNCHANGED <<used, minted, update, nCall, host, N!hist, nFuel>>
      /\ ops' \subseteq EnrolOps /\ trigger' \subseteq EnrolSetup.Hosts /\ asked' \subseteq EnrolSetup.Hosts
      /\ row' = row \/ row' = [row EXCEPT ![o.host] = -1]
      /\ asked \subseteq asked' /\ trigger' \subseteq trigger \cup (asked' \cap trigger')
  BY <1>1, EnrolParts DEF N!Write, EnrolInv, EnrolRest
<1>3. row' \in [EnrolSetup.Hosts -> -1..EnrolSetup.MaxId]
  BY <1>2, EnrolParts DEF EnrolInv, EnrolRest, N!ConstantsAssumption
<1>4. EnrolRest'
  BY <1>2, <1>3, EnrolParts DEF EnrolInv, EnrolRest, N!hist
<1> QED
  BY <1>2, <1>4, EnrolTableStep DEF N!hist

LEMMA EnrolTriggerUpdates == ASSUME N!ConstantsAssumption, EnrolInv, N!TriggerUpdate PROVE EnrolInv'
<1>1. update' \in 0..EnrolSetup.MaxId
  BY EnrolParts DEF EnrolInv, EnrolRest, N!TriggerUpdate, N!ConstantsAssumption
<1>2. EnrolRest'
  BY <1>1, EnrolSpends, EnrolParts DEF N!TriggerUpdate, EnrolInv, EnrolRest, N!dash, N!hist
<1> QED
  BY <1>2, EnrolTableStep DEF N!TriggerUpdate, N!dash, N!hist

-----------------------------------------------------------------------------
(* The poller and the uninstaller.                                         *)

\* A step of a machine that leaves its call alone.
LEMMA EnrolMachineStep ==
  ASSUME EnrolInv, NEW h \in EnrolSetup.Hosts, NEW m \in EnrolHosts,
         host' = [host EXCEPT ![h] = m], nCall' = nCall, stale' = {}, EnrolRest',
         trigger' \subseteq trigger, asked' = asked,
         m.pc = "fetched" /\ m.flag => h \in asked \/ nCall[h].stage # "none"
  PROVE  EnrolInv'
<1>1. nCall \in [EnrolSetup.Hosts -> EnrolCalls]
  BY EnrolParts DEF EnrolInv
<1>2. nCall' = [nCall EXCEPT ![h] = nCall[h]] /\ nCall[h] \in EnrolCalls
  BY <1>1
<1>3. EnrolGood(h)
  BY DEF EnrolInv
<1> QED
  BY <1>2, <1>3, EnrolOneHost DEF EnrolGood

LEMMA EnrolFetches == ASSUME EnrolInv, NEW h \in EnrolSetup.Hosts, N!Fetch(h) PROVE EnrolInv'
<1> DEFINE flag == h \in trigger
           m == [host[h] EXCEPT !.pc = "fetched", !.flag = flag, !.id = update]
<1>0. host[h] \in EnrolHosts /\ update \in 0..EnrolSetup.MaxId
  BY EnrolParts DEF EnrolInv, EnrolRest
<1>1. flag \in BOOLEAN
  BY Z3
<1>2. host' = [host EXCEPT ![h] = m]
  BY DEF N!Fetch, N!Host
<1>3. flag => h \in asked \/ nCall[h].stage # "none"
  BY DEF EnrolInv, EnrolGood
<1> HIDE DEF flag
<1>4. m \in EnrolHosts /\ m.flag = flag
  BY <1>0, <1>1 DEF EnrolHosts
<1> HIDE DEF m
<1>5. EnrolRest'
  BY EnrolParts DEF N!Fetch, EnrolInv, EnrolRest, N!dash, N!hist
<1> QED
  BY <1>2, <1>3, <1>4, <1>5, EnrolMachineStep DEF N!Fetch, N!dash, N!hist, EnrolInv, N!NoStaleUninstall

\* What a poller launches was asked for, or an installer is about to replace it.
LEMMA EnrolLaunches == ASSUME EnrolInv, NEW h \in EnrolSetup.Hosts, N!Launch(h) PROVE EnrolInv'
<1> DEFINE m == [host[h] EXCEPT !.pc = "launched", !.unit = IF @ = "none" THEN "running" ELSE @]
<1>0. host[h] \in EnrolHosts
  BY EnrolParts DEF EnrolInv
<1>1. m \in EnrolHosts /\ m.pc = "launched"
  BY <1>0 DEF EnrolHosts
<1>2. host' = [host EXCEPT ![h] = m]
  BY DEF N!Launch, N!Host
<1> HIDE DEF m
<1>3. h \in asked \/ nCall[h].stage # "none"
  BY DEF EnrolInv, EnrolGood, N!Launch
<1>4. stale' = {}
  BY <1>3 DEF N!Launch, EnrolInv, N!NoStaleUninstall
<1>5. EnrolRest'
  BY <1>4, EnrolParts DEF N!Launch, EnrolInv, EnrolRest, N!dash
<1> QED
  BY <1>1, <1>2, <1>4, <1>5, EnrolMachineStep DEF N!Launch, N!dash

LEMMA EnrolStarts == ASSUME N!ConstantsAssumption, EnrolInv, NEW h \in EnrolSetup.Hosts, N!Started(h) PROVE EnrolInv'
<1> DEFINE m == [host[h] EXCEPT !.pc = "idle"]
<1>0. host[h] \in EnrolHosts
  BY EnrolParts DEF EnrolInv
<1>1. m \in EnrolHosts /\ m.pc = "idle"
  BY <1>0 DEF EnrolHosts
<1>2. host' = [host EXCEPT ![h] = m]
  BY DEF N!Started, N!Host
<1> HIDE DEF m
<1>3. trigger' \subseteq trigger /\ nFuel' \in 0..EnrolSetup.Budget
  BY EnrolSpends, EnrolParts DEF N!Started, EnrolInv, EnrolRest
<1>4. EnrolRest'
  BY <1>3, EnrolParts DEF N!Started, EnrolInv, EnrolRest, N!hist
<1> QED
  BY <1>1, <1>2, <1>3, <1>4, EnrolMachineStep DEF N!Started, N!hist, EnrolInv, N!NoStaleUninstall

LEMMA EnrolUpdates == ASSUME N!ConstantsAssumption, EnrolInv, NEW h \in EnrolSetup.Hosts, N!Update(h) PROVE EnrolInv'
<1>0. host[h] \in EnrolHosts /\ UNCHANGED <<N!dash, update, ops, N!hist, asked, nFuel>>
  BY EnrolParts DEF EnrolInv, N!Update
<1>1. EnrolRest' /\ stale' = {} /\ trigger' = trigger /\ asked' = asked
  BY <1>0, EnrolParts DEF EnrolInv, EnrolRest, N!dash, N!hist, N!NoStaleUninstall
<1>2. CASE host[h].id \in {0, host[h].last} \/ nCall[h].stage # "none"
  <2> DEFINE m == [host[h] EXCEPT !.pc = "idle"]
  <2>1. m \in EnrolHosts /\ m.pc = "idle"
    BY <1>0 DEF EnrolHosts
  <2>2. host' = [host EXCEPT ![h] = m] /\ nCall' = nCall
    BY <1>2 DEF N!Update, N!Host
  <2> HIDE DEF m
  <2> QED
    BY <1>1, <2>1, <2>2, EnrolMachineStep
<1>3. CASE ~ (host[h].id \in {0, host[h].last} \/ nCall[h].stage # "none")
  <2> DEFINE m == [host[h] EXCEPT !.pc = "calling", !.last = host[h].id]
             c == [stage |-> "auth", by |-> "poller", token |-> host[h].held, enrol |-> EnrolSetup.NoToken]
  <2>1. m \in EnrolHosts /\ m.pc = "calling"
    BY <1>0 DEF EnrolHosts
  <2>2. c \in EnrolCalls /\ c.stage = "auth"
    BY <1>0 DEF EnrolCalls, EnrolHosts
  <2>3. host' = [host EXCEPT ![h] = m] /\ nCall' = [nCall EXCEPT ![h] = c]
    BY <1>3 DEF N!Update, N!Host, N!Begin, N!Set
  <2> HIDE DEF m, c
  <2>4. h \in trigger => h \in asked
    BY <1>3 DEF EnrolInv, EnrolGood
  <2> QED
    BY <1>1, <2>1, <2>2, <2>3, <2>4, EnrolOneHost
<1> QED
  BY <1>2, <1>3

LEMMA EnrolUninstalls == ASSUME N!ConstantsAssumption, EnrolInv, NEW h \in EnrolSetup.Hosts, N!Uninstall(h) PROVE EnrolInv'
<1> DEFINE m == [host[h] EXCEPT !.installed = FALSE, !.pc = "off", !.last = 0, !.unit = "removed"]
<1>0. host[h] \in EnrolHosts /\ 0 \in 0..EnrolSetup.MaxId
  BY EnrolParts DEF EnrolInv, N!ConstantsAssumption
<1>1. m \in EnrolHosts /\ m.pc = "off"
  BY <1>0 DEF EnrolHosts
<1>2. host' = [host EXCEPT ![h] = m]
  BY DEF N!Uninstall, N!Host
<1> HIDE DEF m
<1>3. EnrolRest'
  BY EnrolParts DEF N!Uninstall, EnrolInv, EnrolRest, N!dash, N!hist
<1> QED
  BY <1>1, <1>2, <1>3, EnrolMachineStep DEF N!Uninstall, N!dash, N!hist, EnrolInv, N!NoStaleUninstall

LEMMA EnrolCompletes == ASSUME N!ConstantsAssumption, EnrolInv, NEW h \in EnrolSetup.Hosts, N!Complete(h) PROVE EnrolInv'
<1> DEFINE m == [host[h] EXCEPT !.unit = "none", !.held = 0]
<1>0. host[h] \in EnrolHosts /\ 0 \in 0..EnrolSetup.MaxId /\ -1 \in -1..EnrolSetup.MaxId
  BY EnrolParts DEF EnrolInv, N!ConstantsAssumption
<1>1. m \in EnrolHosts /\ m.pc = host[h].pc /\ m.flag = host[h].flag
  BY <1>0 DEF EnrolHosts
<1>2. host' = [host EXCEPT ![h] = m]
  BY DEF N!Complete, N!Host
<1> HIDE DEF m
<1>3. /\ trigger' \subseteq trigger /\ nFuel' \in 0..EnrolSetup.Budget
      /\ row' = row \/ row' = [row EXCEPT ![h] = -1]
  BY EnrolSpends, EnrolParts DEF N!Complete, EnrolInv, EnrolRest
<1>4. row' \in [EnrolSetup.Hosts -> -1..EnrolSetup.MaxId]
  BY <1>0, <1>3, EnrolParts DEF EnrolInv, EnrolRest
<1>5. EnrolRest'
  BY <1>3, <1>4, EnrolParts DEF N!Complete, EnrolInv, EnrolRest, N!hist
<1>6. EnrolGood(h)
  BY DEF EnrolInv
<1> QED
  BY <1>1, <1>2, <1>3, <1>5, <1>6, EnrolMachineStep DEF N!Complete, N!hist, EnrolInv, N!NoStaleUninstall, EnrolGood

LEMMA EnrolReboots == ASSUME N!ConstantsAssumption, EnrolInv, NEW h \in EnrolSetup.Hosts, N!Reboot(h) PROVE EnrolInv'
<1> DEFINE m == [host[h] EXCEPT !.pc = "idle", !.last = 0, !.unit = "none"]
<1>0. host[h] \in EnrolHosts /\ 0 \in 0..EnrolSetup.MaxId
  BY EnrolParts DEF EnrolInv, N!ConstantsAssumption
<1>1. m \in EnrolHosts /\ m.pc = "idle"
  BY <1>0 DEF EnrolHosts
<1>2. host' = [host EXCEPT ![h] = m]
  BY DEF N!Reboot, N!Host
<1> HIDE DEF m
<1>3. EnrolRest'
  BY EnrolSpends, EnrolParts DEF N!Reboot, EnrolInv, EnrolRest, N!dash, N!hist
<1> QED
  BY <1>1, <1>2, <1>3, EnrolMachineStep DEF N!Reboot, N!dash, N!hist, EnrolInv, N!NoStaleUninstall

-----------------------------------------------------------------------------
(* Every step.                                                             *)

LEMMA EnrolKeeps == ASSUME N!ConstantsAssumption, EnrolInv, [N!Next]_(N!vars) PROVE EnrolInv'
<1>1. CASE UNCHANGED N!vars
  BY <1>1 DEF EnrolInv, N!TypeOK, EnrolGood, N!NoStaleUninstall, N!vars, N!dash, N!hist
<1>2. ASSUME NEW h \in EnrolSetup.Hosts, N!Register(h) PROVE EnrolInv'
  BY <1>2, EnrolAuths, EnrolConsumes, EnrolRegisters, EnrolClearTriggers, EnrolGiveTokens,
     EnrolAnswers DEF N!Register
<1>3. ASSUME NEW h \in EnrolSetup.Hosts, N!Machine(h) PROVE EnrolInv'
  BY <1>3, EnrolInstalls, EnrolFetches, EnrolLaunches, EnrolStarts, EnrolUpdates, EnrolUninstalls,
     EnrolCompletes, EnrolReboots DEF N!Machine
<1> QED
  BY <1>1, <1>2, <1>3, EnrolAsks, EnrolWrites, EnrolTriggerUpdates DEF N!Next

LEMMA EnrolFollows == ASSUME EnrolInv PROVE N!TypeOK /\ N!NoStaleUninstall
  BY DEF EnrolInv

-----------------------------------------------------------------------------
(* The sliding windows of the rate limiter.                                *)

\* What a thread at work holds: a call of the past, and a copy with room for it.
LimitShape(c) ==
  LET m == thread[c] IN
  /\ IsFiniteSet(m.copy)
  /\ m.at # "idle" => m.key \in LimitSetup.Keys /\ m.call \in R!Entries /\ m.call.at <= clock
  /\ m.at = "rewrite" => m.swept \in LimitSetup.Keys
  /\ m.at = "write" => ~ R!Full(m.copy)

\* A thread about to replace bucket k knows of entry e.
LimitKnows(c, k, e) ==
  LET m == thread[c] IN
  /\ m.at \in {"write", "refuse"} /\ m.key = k => e \in m.copy
  /\ m.at = "rewrite" /\ m.swept = k => e \in m.copy

\* What ran alone less than a window before h is in its bucket, and nobody is
\* about to lose it.
LimitHeld(h) ==
  \A k \in LimitSetup.Keys : \A e \in R!Fresh(admitted[k], h) :
    /\ R!Has(k) /\ e \in buckets[k]
    /\ \A c \in LimitSetup.Callers : LimitKnows(c, k, e)

\* A call nobody has overlapped so far: nothing ages while it runs, and what was
\* let in came before it.
LimitAlone(c) ==
  thread[c].at # "idle" /\ thread[c].alone =>
    /\ \A o \in LimitSetup.Callers \ {c} : thread[o].at = "idle"
    /\ LimitHeld(thread[c].call.at)
    /\ \A k \in LimitSetup.Keys : \A e \in admitted[k] : e.at <= thread[c].call.at

LimitTables ==
  /\ clock \in R!Times /\ swept \in (0 - LimitSetup.Window)..LimitSetup.MaxClock
  /\ DOMAIN buckets \subseteq LimitSetup.Keys /\ buckets \in [DOMAIN buckets -> SUBSET R!Entries]
  /\ admitted \in [LimitSetup.Keys -> SUBSET R!Entries]
  /\ started \in 0..LimitSetup.Budget

LimitPast ==
  /\ \A k \in DOMAIN buckets : IsFiniteSet(buckets[k])
  /\ \A k \in LimitSetup.Keys : \A e \in admitted[k] : e.at <= clock

LimitInv ==
  /\ R!TypeOK
  /\ LimitPast
  /\ \A c \in LimitSetup.Callers : LimitShape(c)
  /\ LimitHeld(clock)
  /\ \A c \in LimitSetup.Callers : LimitAlone(c)
  /\ R!QuietCallsWithinLimit

LEMMA LimitCount == \A S : R!Cardinality(S) = Cardinality(S)
  BY DEF R!Cardinality, Cardinality

LEMMA LimitParts == R!TypeOK <=> LimitTables /\ thread \in [LimitSetup.Callers -> R!Records]
  BY DEF R!TypeOK, LimitTables

LEMMA LimitPartsNext == R!TypeOK' <=> LimitTables' /\ thread' \in [LimitSetup.Callers -> R!Records]
  BY DEF R!TypeOK, LimitTables, R!Times, R!Records, R!Stages, R!Entries

LEMMA LimitInit == ASSUME R!ConstantsAssumption, R!Init PROVE LimitInv
<1>1. LimitTables
  BY DEF R!Init, LimitTables, R!ConstantsAssumption, R!Times
<1>2. R!Idle \in R!Records
  BY DEF R!Idle, R!Records, R!Stages
<1>3. R!TypeOK
  BY <1>1, <1>2, LimitParts DEF R!Init
<1>4. LimitPast
  BY DEF R!Init, LimitPast
<1>5. \A c \in LimitSetup.Callers : LimitShape(c)
  BY FS_EmptySet DEF R!Init, LimitShape, R!Idle
<1>6. LimitHeld(clock)
  BY DEF R!Init, LimitHeld, R!Fresh
<1>7. \A c \in LimitSetup.Callers : LimitAlone(c)
  BY DEF R!Init, LimitAlone, R!Idle
<1>8. R!QuietCallsWithinLimit
  <2>1. \A k \in LimitSetup.Keys, t \in R!Times : {e \in R!Fresh(admitted[k], t) : e.at <= t} = {}
    BY DEF R!Init, R!Fresh
  <2>2. Cardinality({}) = 0
    BY FS_EmptySet
  <2>3. \A k \in LimitSetup.Keys, t \in R!Times :
          R!Cardinality({e \in R!Fresh(admitted[k], t) : e.at <= t}) = 0
    BY <2>1, <2>2, LimitCount, Zenon
  <2> QED
    BY <2>3 DEF R!QuietCallsWithinLimit, R!ConstantsAssumption
<1> QED
  BY <1>3, <1>4, <1>5, <1>6, <1>7, <1>8 DEF LimitInv

\* A step of a thread at work, towards new, that lets nobody in.
LEMMA LimitStep ==
  ASSUME R!ConstantsAssumption, LimitInv, NEW c \in LimitSetup.Callers, thread[c].at # "idle",
         NEW new \in R!Records, R!Set(c, new),
         clock' = clock, admitted' = admitted, started' = started,
         swept' \in (0 - LimitSetup.Window)..LimitSetup.MaxClock,
         DOMAIN buckets' \subseteq LimitSetup.Keys, buckets' \in [DOMAIN buckets' -> SUBSET R!Entries],
         \A k \in DOMAIN buckets' : IsFiniteSet(buckets'[k]),
         IsFiniteSet(new.copy),
         new.at # "idle" =>
           new.key = thread[c].key /\ new.call = thread[c].call /\ new.alone = thread[c].alone,
         new.at = "rewrite" => new.swept \in LimitSetup.Keys,
         new.at = "write" => ~ R!Full(new.copy),
         \A h \in R!Times : LimitHeld(h) /\ thread[c].call.at <= h =>
           \A k \in LimitSetup.Keys : \A e \in R!Fresh(admitted[k], h) :
             /\ k \in DOMAIN buckets' /\ e \in buckets'[k]
             /\ new.at \in {"write", "refuse"} /\ new.key = k => e \in new.copy
             /\ new.at = "rewrite" /\ new.swept = k => e \in new.copy
  PROVE  LimitInv'
<1>1. LimitTables /\ thread \in [LimitSetup.Callers -> R!Records] /\ LimitShape(c) /\ LimitAlone(c)
  BY LimitParts DEF LimitInv
<1>2. thread' = [thread EXCEPT ![c] = new] /\ thread' \in [LimitSetup.Callers -> R!Records]
  BY <1>1 DEF R!Set
<1>3. thread'[c] = new /\ \A o \in LimitSetup.Callers \ {c} : thread'[o] = thread[o]
  BY <1>1, <1>2
<1>4. clock \in R!Times /\ thread[c].call \in R!Entries /\ thread[c].call.at \in R!Times /\ thread[c].call.at <= clock
  BY <1>1 DEF LimitTables, LimitShape, R!Entries
<1>5. R!TypeOK'
  BY <1>1, <1>2, LimitPartsNext DEF LimitTables
<1>6. LimitPast'
  BY DEF LimitInv, LimitPast
<1>7. \A o \in LimitSetup.Callers : LimitShape(o)'
  <2>1. LimitShape(c)'
    BY <1>1, <1>3 DEF LimitShape, R!Full
  <2>2. \A o \in LimitSetup.Callers \ {c} : LimitShape(o)'
    BY <1>3 DEF LimitInv, LimitShape, R!Full
  <2> QED
    BY <2>1, <2>2
<1>8. ASSUME NEW h \in R!Times, LimitHeld(h), thread[c].call.at <= h
      PROVE  LimitHeld(h)'
  <2> SUFFICES ASSUME NEW k \in LimitSetup.Keys, NEW e \in R!Fresh(admitted[k], h)
               PROVE  /\ k \in DOMAIN buckets' /\ e \in buckets'[k]
                      /\ \A o \in LimitSetup.Callers : LimitKnows(o, k, e)'
    BY DEF LimitHeld, R!Fresh, R!Has
  <2>1. /\ k \in DOMAIN buckets' /\ e \in buckets'[k]
        /\ new.at \in {"write", "refuse"} /\ new.key = k => e \in new.copy
        /\ new.at = "rewrite" /\ new.swept = k => e \in new.copy
    BY <1>8
  <2>2. LimitKnows(c, k, e)'
    BY <2>1, <1>3 DEF LimitKnows
  <2>3. \A o \in LimitSetup.Callers \ {c} : LimitKnows(o, k, e)'
    BY <1>3, <1>8 DEF LimitHeld, LimitKnows
  <2> QED
    BY <2>1, <2>2, <2>3
<1>9. LimitHeld(clock)'
  BY <1>4, <1>8 DEF LimitInv, LimitHeld, R!Fresh
<1>10. \A o \in LimitSetup.Callers : LimitAlone(o)'
  <2>1. LimitAlone(c)'
    <3> SUFFICES ASSUME new.at # "idle", new.alone
                 PROVE  /\ \A o \in LimitSetup.Callers \ {c} : thread'[o].at = "idle"
                        /\ LimitHeld(thread[c].call.at)'
                        /\ \A k \in LimitSetup.Keys : \A e \in admitted[k] : e.at <= thread[c].call.at
      BY <1>3 DEF LimitAlone
    <3>1. /\ \A o \in LimitSetup.Callers \ {c} : thread[o].at = "idle"
          /\ LimitHeld(thread[c].call.at)
          /\ \A k \in LimitSetup.Keys : \A e \in admitted[k] : e.at <= thread[c].call.at
      BY <1>1 DEF LimitAlone
    <3>2. PICK h \in R!Times : h = thread[c].call.at /\ h = thread'[c].call.at
      BY <1>3, <1>4
    <3>3. LimitHeld(h)'
      BY <1>4, <1>8, <3>1, <3>2 DEF R!Times, R!ConstantsAssumption
    <3> QED
      BY <1>3, <3>1, <3>2, <3>3 DEF LimitHeld, R!Fresh
  <2>2. \A o \in LimitSetup.Callers \ {c} : LimitAlone(o)'
    BY <1>3 DEF LimitInv, LimitAlone
  <2> QED
    BY <2>1, <2>2
<1>11. R!QuietCallsWithinLimit'
  BY DEF LimitInv, R!QuietCallsWithinLimit, R!Fresh
<1> QED
  BY <1>5, <1>6, <1>7, <1>9, <1>10, <1>11 DEF LimitInv

\* A step that leaves the buckets alone.
LEMMA LimitMove ==
  ASSUME R!ConstantsAssumption, LimitInv, NEW c \in LimitSetup.Callers, thread[c].at # "idle",
         NEW new \in R!Records, R!Set(c, new),
         UNCHANGED <<clock, buckets, admitted, started>>,
         swept' \in (0 - LimitSetup.Window)..LimitSetup.MaxClock,
         IsFiniteSet(new.copy),
         new.at # "idle" =>
           new.key = thread[c].key /\ new.call = thread[c].call /\ new.alone = thread[c].alone,
         new.at = "rewrite" =>
           /\ new.swept \in DOMAIN buckets
           /\ new.copy = R!Fresh(buckets[new.swept], thread[c].call.at),
         new.at = "write" => ~ R!Full(new.copy),
         new.at \in {"write", "refuse"} /\ R!Has(new.key) =>
           new.copy = R!Fresh(buckets[new.key], thread[c].call.at)
  PROVE  LimitInv'
<1>1. /\ LimitTables /\ LimitShape(c) /\ LimitPast
  BY LimitParts DEF LimitInv
<1>2. thread[c].call.at \in R!Times
  BY <1>1 DEF LimitShape, R!Entries
<1>3. new.at = "rewrite" => new.swept \in LimitSetup.Keys
  BY <1>1 DEF LimitTables
<1>4. ASSUME NEW h \in R!Times, LimitHeld(h), thread[c].call.at <= h,
             NEW k \in LimitSetup.Keys, NEW e \in R!Fresh(admitted[k], h)
      PROVE  /\ k \in DOMAIN buckets' /\ e \in buckets'[k]
             /\ new.at \in {"write", "refuse"} /\ new.key = k => e \in new.copy
             /\ new.at = "rewrite" /\ new.swept = k => e \in new.copy
  <2>1. R!Has(k) /\ e \in buckets[k]
    BY <1>4 DEF LimitHeld
  <2>2. e \in R!Entries /\ h - e.at < LimitSetup.Window /\ e.at \in R!Times
    BY <1>1 DEF LimitTables, R!Fresh, R!Entries
  <2>3. e \in R!Fresh(buckets[k], thread[c].call.at)
    BY <1>2, <1>4, <2>1, <2>2 DEF R!Fresh, R!Times, R!ConstantsAssumption
  <2> QED
    BY <2>1, <2>3 DEF R!Has
<1>5. /\ DOMAIN buckets' \subseteq LimitSetup.Keys /\ buckets' \in [DOMAIN buckets' -> SUBSET R!Entries]
      /\ \A k \in DOMAIN buckets' : IsFiniteSet(buckets'[k])
  BY <1>1 DEF LimitTables, LimitPast
<1>6. \A h \in R!Times : LimitHeld(h) /\ thread[c].call.at <= h =>
           \A k \in LimitSetup.Keys : \A e \in R!Fresh(admitted[k], h) :
             /\ k \in DOMAIN buckets' /\ e \in buckets'[k]
             /\ new.at \in {"write", "refuse"} /\ new.key = k => e \in new.copy
             /\ new.at = "rewrite" /\ new.swept = k => e \in new.copy
  BY <1>4
<1> QED
  BY <1>3, <1>5, <1>6, LimitStep

\* A step that replaces bucket k by what the thread holds, or drops it when it
\* holds nothing.
LEMMA LimitStore ==
  ASSUME R!ConstantsAssumption, LimitInv, NEW c \in LimitSetup.Callers, thread[c].at # "idle",
         NEW new \in R!Records, R!Set(c, new), NEW k \in LimitSetup.Keys, NEW b \in SUBSET R!Entries,
         IsFiniteSet(b),
         buckets' = R!Put(k, b) \/ (b = {} /\ buckets' = R!Drop(k)),
         \A e \in R!Entries : LimitKnows(c, k, e) => e \in b,
         UNCHANGED <<clock, swept, admitted, started>>,
         new.copy = {},
         new.at # "idle" =>
           new.key = thread[c].key /\ new.call = thread[c].call /\ new.alone = thread[c].alone,
         new.at \in {"idle", "sweep"}
  PROVE  LimitInv'
<1>1. /\ LimitTables /\ LimitPast
  BY LimitParts DEF LimitInv
<1>2. /\ DOMAIN buckets' \subseteq LimitSetup.Keys /\ buckets' \in [DOMAIN buckets' -> SUBSET R!Entries]
      /\ \A x \in DOMAIN buckets' : IsFiniteSet(buckets'[x])
  <2>1. CASE buckets' = R!Put(k, b)
    BY <1>1, <2>1 DEF R!Put, LimitTables, LimitPast
  <2>2. CASE buckets' = R!Drop(k)
    BY <1>1, <2>2 DEF R!Drop, LimitTables, LimitPast
  <2> QED
    BY <2>1, <2>2
<1>3. ASSUME NEW h \in R!Times, LimitHeld(h), NEW x \in LimitSetup.Keys, NEW e \in R!Fresh(admitted[x], h)
      PROVE  x \in DOMAIN buckets' /\ e \in buckets'[x]
  <2>1. R!Has(x) /\ e \in buckets[x] /\ LimitKnows(c, x, e)
    BY <1>3 DEF LimitHeld
  <2>2. e \in R!Entries
    BY <1>1 DEF LimitTables, R!Fresh
  <2>3. CASE x = k
    BY <2>1, <2>2, <2>3 DEF R!Put
  <2>4. CASE x # k
    BY <2>1, <2>4 DEF R!Put, R!Drop, R!Has
  <2> QED
    BY <2>3, <2>4
<1>4. /\ swept' \in (0 - LimitSetup.Window)..LimitSetup.MaxClock /\ IsFiniteSet(new.copy)
      /\ ~ new.at = "rewrite" /\ ~ new.at = "write" /\ ~ new.at = "refuse"
  BY <1>1, FS_EmptySet DEF LimitTables
<1>5. \A h \in R!Times : LimitHeld(h) /\ thread[c].call.at <= h =>
           \A x \in LimitSetup.Keys : \A e \in R!Fresh(admitted[x], h) :
             /\ x \in DOMAIN buckets' /\ e \in buckets'[x]
             /\ new.at \in {"write", "refuse"} /\ new.key = x => e \in new.copy
             /\ new.at = "rewrite" /\ new.swept = x => e \in new.copy
  BY <1>3, <1>4
<1> QED
  BY <1>2, <1>4, <1>5, LimitStep

LEMMA LimitIdle ==
  R!Idle \in R!Records /\ R!Idle.at = "idle" /\ R!Idle.copy = {} /\ IsFiniteSet(R!Idle.copy)
  BY FS_EmptySet DEF R!Idle, R!Records, R!Stages

LEMMA LimitAside ==
  ASSUME R!ConstantsAssumption, LimitInv, NEW c \in LimitSetup.Callers,
         R!SweepDue(c) \/ R!ListKeys(c) \/ R!SweepRead(c) \/ R!SweepWrite(c) \/ R!Read(c) \/ R!Refuse(c)
  PROVE  LimitInv'
<1> DEFINE m == thread[c]
<1>1. /\ LimitTables /\ LimitPast /\ thread \in [LimitSetup.Callers -> R!Records] /\ LimitShape(c)
  BY LimitParts DEF LimitInv
<1>2. m \in R!Records /\ IsFiniteSet(m.copy) /\ swept \in (0 - LimitSetup.Window)..LimitSetup.MaxClock
  BY <1>1 DEF LimitShape, LimitTables
<1>3. CASE R!SweepDue(c)
  <2> DEFINE new == [m EXCEPT !.at = IF m.call.at - swept < LimitSetup.Window THEN "read" ELSE "list"]
  <2>1. /\ new \in R!Records /\ new.copy = m.copy /\ new.at \in {"read", "list"}
        /\ new.key = m.key /\ new.call = m.call /\ new.alone = m.alone
    BY <1>2 DEF R!Records, R!Stages
  <2>2. m.at # "idle" /\ R!Set(c, new) /\ UNCHANGED <<clock, buckets, swept, admitted, started>>
    BY <1>3 DEF R!SweepDue
  <2> HIDE DEF new
  <2> QED
    BY <1>2, <2>1, <2>2, LimitMove
<1>4. CASE R!ListKeys(c)
  <2> DEFINE new == [m EXCEPT !.at = "sweep", !.todo = DOMAIN buckets]
  <2>1. /\ new \in R!Records /\ new.copy = m.copy /\ new.at = "sweep"
        /\ new.key = m.key /\ new.call = m.call /\ new.alone = m.alone
    BY <1>1, <1>2 DEF R!Records, R!Stages, LimitTables
  <2>2. m.at # "idle" /\ R!Set(c, new) /\ UNCHANGED <<clock, buckets, admitted, started>>
    BY <1>4 DEF R!ListKeys
  <2>3. swept' \in (0 - LimitSetup.Window)..LimitSetup.MaxClock
    <3>1. swept' = m.call.at /\ m.call \in R!Entries
      BY <1>1, <1>4 DEF R!ListKeys, LimitShape
    <3> QED
      BY <3>1 DEF R!Entries, R!Times, R!ConstantsAssumption
  <2> HIDE DEF new
  <2> QED
    BY <1>2, <2>1, <2>2, <2>3, LimitMove
<1>5. CASE R!SweepRead(c)
  <2>0. m.at # "idle" /\ UNCHANGED <<clock, buckets, swept, admitted, started>>
    BY <1>5 DEF R!SweepRead
  <2>1. CASE R!Leave(c)
    BY <1>2, <2>0, <2>1, LimitIdle, LimitMove DEF R!Leave
  <2>2. CASE R!Set(c, [m EXCEPT !.at = "read"])
    <3> DEFINE new == [m EXCEPT !.at = "read"]
    <3>1. /\ new \in R!Records /\ new.copy = m.copy /\ new.at = "read"
          /\ new.key = m.key /\ new.call = m.call /\ new.alone = m.alone
      BY <1>2 DEF R!Records, R!Stages
    <3> HIDE DEF new
    <3>2. R!Set(c, new)
      BY <2>2 DEF new
    <3> QED
      BY <1>2, <2>0, <3>1, <3>2, LimitMove
  <2>3. ASSUME NEW k \in DOMAIN buckets,
               R!Set(c, [m EXCEPT !.at = "rewrite", !.todo = @ \ {k}, !.swept = k,
                                !.copy = R!Swept(buckets[k], m.call.at)])
        PROVE  LimitInv'
    <3> DEFINE new == [m EXCEPT !.at = "rewrite", !.todo = @ \ {k}, !.swept = k,
                                !.copy = R!Swept(buckets[k], m.call.at)]
    <3>1. /\ R!Fresh(buckets[k], m.call.at) \in SUBSET R!Entries
          /\ IsFiniteSet(R!Fresh(buckets[k], m.call.at)) /\ k \in LimitSetup.Keys
      BY <1>1, FS_Subset DEF R!Fresh, LimitTables, LimitPast
    <3>2. /\ new \in R!Records /\ new.copy = R!Fresh(buckets[k], m.call.at)
          /\ new.at = "rewrite" /\ new.swept = k
          /\ new.key = m.key /\ new.call = m.call /\ new.alone = m.alone
      BY <1>2, <3>1 DEF R!Records, R!Stages, R!Swept
    <3> HIDE DEF new
    <3>3. R!Set(c, new)
      BY <2>3 DEF new
    <3> QED
      BY <1>2, <2>0, <3>1, <3>2, <3>3, LimitMove
  <2> QED
    BY <1>5, <2>1, <2>2, <2>3 DEF R!SweepRead, R!Has
<1>6. CASE R!SweepWrite(c)
  <2>1. m.at = "rewrite" /\ m.swept \in LimitSetup.Keys /\ m.copy \in SUBSET R!Entries
    BY <1>1, <1>6 DEF R!SweepWrite, LimitShape, R!Records
  <2>2. \A e \in R!Entries : LimitKnows(c, m.swept, e) => e \in m.copy
    BY <2>1 DEF LimitKnows
  <2>3. /\ UNCHANGED <<clock, swept, admitted, started>>
        /\ buckets' = R!Put(m.swept, m.copy) \/ (m.copy = {} /\ buckets' = R!Drop(m.swept))
    BY <1>6 DEF R!SweepWrite
  <2>4. CASE R!Leave(c)
    BY <1>2, <2>1, <2>2, <2>3, <2>4, LimitIdle, LimitStore DEF R!Leave
  <2>5. CASE R!Set(c, [m EXCEPT !.at = "sweep", !.copy = {}])
    <3> DEFINE new == [m EXCEPT !.at = "sweep", !.copy = {}]
    <3>1. /\ new \in R!Records /\ new.copy = {} /\ new.at = "sweep"
          /\ new.key = m.key /\ new.call = m.call /\ new.alone = m.alone
      BY <1>2 DEF R!Records, R!Stages
    <3> HIDE DEF new
    <3>2. R!Set(c, new)
      BY <2>5 DEF new
    <3> QED
      BY <1>2, <2>1, <2>2, <2>3, <3>1, <3>2, LimitStore
  <2> QED
    BY <1>6, <2>4, <2>5 DEF R!SweepWrite
<1>7. CASE R!Read(c)
  <2> DEFINE k == m.key
             b == IF R!Has(k) THEN R!Fresh(buckets[k], m.call.at) ELSE {}
  <2>1. m.at # "idle" /\ UNCHANGED <<clock, buckets, swept, admitted, started>>
    BY <1>7 DEF R!Read
  <2>2. b \in SUBSET R!Entries /\ IsFiniteSet(b)
    BY <1>1, FS_Subset, FS_EmptySet DEF R!Fresh, LimitTables, LimitPast, R!Has
  <2>3. R!Has(k) => b = R!Fresh(buckets[k], m.call.at)
    OBVIOUS
  <2>4. \/ ~ R!Full(b) /\ R!Set(c, [m EXCEPT !.at = "write", !.copy = b])
        \/ R!Set(c, [m EXCEPT !.at = "refuse", !.copy = b])
        \/ R!Leave(c)
    BY <1>7 DEF R!Read
  <2> HIDE DEF b
  <2>5. ASSUME NEW s \in {"write", "refuse"}, s = "write" => ~ R!Full(b),
               R!Set(c, [m EXCEPT !.at = s, !.copy = b])
        PROVE  LimitInv'
    <3> DEFINE new == [m EXCEPT !.at = s, !.copy = b]
    <3>1. /\ new \in R!Records /\ new.copy = b /\ new.at = s
          /\ new.key = m.key /\ new.call = m.call /\ new.alone = m.alone
      BY <1>2, <2>2, <2>5 DEF R!Records, R!Stages
    <3> HIDE DEF new
    <3>2. R!Set(c, new)
      BY <2>5 DEF new
    <3> QED
      BY <1>2, <2>1, <2>2, <2>3, <2>5, <3>1, <3>2, LimitMove
  <2>6. CASE R!Leave(c)
    BY <1>2, <2>1, <2>6, LimitIdle, LimitMove DEF R!Leave
  <2> QED
    BY <2>4, <2>5, <2>6
<1>8. CASE R!Refuse(c)
  <2>1. m.at = "refuse" /\ m.key \in LimitSetup.Keys /\ m.copy \in SUBSET R!Entries
    BY <1>1, <1>8 DEF R!Refuse, LimitShape, R!Records
  <2>2. \A e \in R!Entries : LimitKnows(c, m.key, e) => e \in m.copy
    BY <2>1 DEF LimitKnows
  <2> QED
    BY <1>2, <1>8, <2>1, <2>2, LimitIdle, LimitStore DEF R!Leave, R!Refuse
<1> QED
  BY <1>3, <1>4, <1>5, <1>6, <1>7, <1>8

LEMMA LimitTick == ASSUME R!ConstantsAssumption, LimitInv, R!Tick PROVE LimitInv'
<1>1. /\ clock' = clock + 1 /\ clock < LimitSetup.MaxClock /\ clock \in R!Times
      /\ UNCHANGED <<buckets, swept, thread, admitted, started>>
  BY LimitParts DEF R!Tick, LimitInv, LimitTables
<1>2. LimitTables /\ clock \in Int /\ clock <= clock'
  BY <1>1, LimitParts DEF LimitInv, R!Times, R!ConstantsAssumption
<1>3. \A k \in LimitSetup.Keys : \A e \in admitted[k] : e \in R!Entries /\ e.at \in Int
  BY <1>2 DEF LimitTables, R!Entries, R!Times
<1>4. R!TypeOK'
  BY <1>1, <1>2 DEF LimitInv, R!TypeOK, R!Times, R!ConstantsAssumption
<1>5. LimitPast'
  BY <1>1, <1>2, <1>3 DEF LimitInv, LimitPast
<1>6. \A c \in LimitSetup.Callers : LimitShape(c)'
  <2> SUFFICES ASSUME NEW c \in LimitSetup.Callers PROVE LimitShape(c)'
    OBVIOUS
  <2>1. LimitShape(c)
    BY DEF LimitInv
  <2>2. thread[c].at # "idle" => thread[c].call.at \in Int
    BY <2>1 DEF LimitShape, R!Entries, R!Times
  <2> QED
    BY <1>1, <1>2, <2>1, <2>2 DEF LimitShape, R!Full
<1>7. LimitHeld(clock)'
  BY <1>1, <1>2, <1>3 DEF LimitInv, LimitHeld, R!Fresh, R!Has, LimitKnows, R!ConstantsAssumption
<1>8. \A c \in LimitSetup.Callers : LimitAlone(c)'
  BY <1>1 DEF LimitInv, LimitAlone, LimitHeld, R!Has, LimitKnows
<1>9. R!QuietCallsWithinLimit'
  BY <1>1 DEF LimitInv, R!QuietCallsWithinLimit
<1> QED
  BY <1>4, <1>5, <1>6, <1>7, <1>8, <1>9 DEF LimitInv

LEMMA LimitEnter ==
  ASSUME R!ConstantsAssumption, LimitInv, NEW c \in LimitSetup.Callers, NEW k \in LimitSetup.Keys, R!Enter(c, k)
  PROVE  LimitInv'
<1>1. /\ LimitTables /\ LimitPast /\ thread \in [LimitSetup.Callers -> R!Records] /\ LimitHeld(clock)
      /\ UNCHANGED <<clock, buckets, swept, admitted>>
      /\ started' = started + 1 /\ started < LimitSetup.Budget
  BY LimitParts DEF LimitInv, R!Enter
<1>2. /\ started' \in 1..LimitSetup.Budget /\ LimitTables'
  BY <1>1 DEF LimitTables, R!ConstantsAssumption
<1>3. LimitPast' /\ R!QuietCallsWithinLimit'
  BY <1>1 DEF LimitPast, LimitInv, R!QuietCallsWithinLimit
<1>4. CASE UNCHANGED thread
  <2>1. R!TypeOK'
    BY <1>1, <1>2, <1>4, LimitPartsNext
  <2>2. \A o \in LimitSetup.Callers : LimitShape(o)' /\ LimitAlone(o)'
    BY <1>1, <1>4, SMTT(30) DEF LimitInv, LimitShape, LimitAlone, LimitHeld, R!Has, LimitKnows
  <2>3. LimitHeld(clock)'
    BY <1>1, <1>4 DEF LimitHeld, R!Has, LimitKnows
  <2> QED
    BY <1>3, <2>1, <2>2, <2>3 DEF LimitInv
<1>5. CASE ~ UNCHANGED thread
  <2> DEFINE others == {o \in LimitSetup.Callers \ {c} : thread[o].at # "idle"}
             new == [R!Idle EXCEPT !.at = "enter", !.key = k, !.alone = others = {},
                                 !.call = [at |-> clock, call |-> started']]
             Other(o) == [thread[o] EXCEPT !.alone = o \notin others /\ @]
  <2>1. thread[c].at = "idle" /\ thread' = [o \in LimitSetup.Callers |-> IF o = c THEN new ELSE Other(o)]
    BY <1>5 DEF R!Enter
  <2>2. /\ new \in R!Records /\ new.at = "enter" /\ new.key = k /\ new.alone = (others = {})
        /\ new.call = [at |-> clock, call |-> started'] /\ new.copy = {}
        /\ new.call \in R!Entries
    BY <1>1, <1>2 DEF R!Idle, R!Records, R!Stages, R!Entries, LimitTables
  <2>3. \A o \in LimitSetup.Callers :
          /\ Other(o) \in R!Records /\ Other(o).at = thread[o].at
          /\ Other(o).key = thread[o].key /\ Other(o).call = thread[o].call
          /\ Other(o).copy = thread[o].copy
          /\ Other(o).swept = thread[o].swept
          /\ Other(o).alone = (o \notin others /\ thread[o].alone)
    BY <1>1, ZenonT(40) DEF R!Records
  <2> HIDE DEF new, Other
  <2>4. thread' \in [LimitSetup.Callers -> R!Records] /\ thread'[c] = new
        /\ \A o \in LimitSetup.Callers \ {c} : thread'[o] = Other(o)
    BY <2>1, <2>2, <2>3
  <2>5. R!TypeOK'
    BY <1>2, <2>4, LimitPartsNext
  <2>6. \A o \in LimitSetup.Callers : LimitShape(o)'
    <3>1. LimitShape(c)'
      <4>1. clock <= clock /\ new.call.at = clock
        BY <1>1, <2>2 DEF LimitTables, R!Times
      <4> QED
        BY <1>1, <2>2, <2>4, <4>1, FS_EmptySet DEF LimitShape
    <3>2. \A o \in LimitSetup.Callers \ {c} : LimitShape(o)'
      BY <1>1, <2>3, <2>4 DEF LimitInv, LimitShape, R!Full
    <3> QED
      BY <3>1, <3>2
  <2>7. LimitHeld(clock)'
    <3> SUFFICES ASSUME NEW x \in LimitSetup.Keys, NEW e \in R!Fresh(admitted[x], clock)
                 PROVE  R!Has(x) /\ e \in buckets[x] /\ \A o \in LimitSetup.Callers : LimitKnows(o, x, e)'
      BY <1>1 DEF LimitHeld, R!Fresh, R!Has
    <3>1. R!Has(x) /\ e \in buckets[x] /\ \A o \in LimitSetup.Callers : LimitKnows(o, x, e)
      BY <1>1 DEF LimitHeld
    <3>2. LimitKnows(c, x, e)'
      BY <2>2, <2>4 DEF LimitKnows
    <3>3. \A o \in LimitSetup.Callers \ {c} : LimitKnows(o, x, e)'
      BY <2>3, <2>4, <3>1 DEF LimitKnows
    <3> QED
      BY <3>1, <3>2, <3>3
  <2>8. \A o \in LimitSetup.Callers : LimitAlone(o)'
    <3>1. \A o \in LimitSetup.Callers \ {c} : thread'[o].at # "idle" => ~ thread'[o].alone
      BY <2>3, <2>4
    <3>2. ASSUME new.alone, NEW o \in LimitSetup.Callers \ {c} PROVE thread'[o].at = "idle"
      <4>1. others = {}
        BY <3>2, <2>2
      <4>2. thread[o].at = "idle"
        BY <4>1
      <4> QED
        BY <4>2, <2>3, <2>4
    <3>3. new.call.at = clock /\ \A x \in LimitSetup.Keys : \A e \in admitted[x] : e.at <= clock
      BY <1>1, <2>2 DEF LimitPast
    <3>4. LimitAlone(c)'
      BY <1>1, <2>4, <2>7, <3>2, <3>3 DEF LimitAlone, LimitHeld
    <3> QED
      BY <3>1, <3>4 DEF LimitAlone
  <2> QED
    BY <1>3, <2>5, <2>6, <2>7, <2>8 DEF LimitInv
<1> QED
  BY <1>4, <1>5

LEMMA LimitAdmit ==
  ASSUME R!ConstantsAssumption, LimitInv, NEW c \in LimitSetup.Callers, R!Admit(c)
  PROVE  LimitInv'
<1> DEFINE m == thread[c]
           k == m.key
           b == m.copy \cup {m.call}
<1>1. /\ LimitTables /\ LimitPast /\ thread \in [LimitSetup.Callers -> R!Records] /\ LimitShape(c)
      /\ LimitAlone(c) /\ LimitHeld(clock) /\ R!QuietCallsWithinLimit
  BY LimitParts DEF LimitInv
<1>2. /\ m.at = "write" /\ buckets' = R!Put(k, b) /\ R!Set(c, R!Idle)
      /\ UNCHANGED <<clock, swept, started>>
      /\ admitted' = IF m.alone THEN [admitted EXCEPT ![k] = @ \cup {m.call}] ELSE admitted
  BY DEF R!Admit, R!Leave
<1>3. /\ k \in LimitSetup.Keys /\ m.call \in R!Entries /\ m.call.at <= clock /\ m.call.at \in R!Times
      /\ m.copy \in SUBSET R!Entries /\ b \in SUBSET R!Entries
      /\ IsFiniteSet(m.copy) /\ IsFiniteSet(b) /\ ~ R!Full(m.copy)
  BY <1>1, <1>2, FS_AddElement DEF LimitShape, R!Records, R!Entries
<1>4. CASE ~ m.alone
  <2>1. \A e \in R!Entries : LimitKnows(c, k, e) => e \in b
    BY <1>2 DEF LimitKnows
  <2> QED
    BY <1>2, <1>3, <1>4, <2>1, LimitIdle, LimitStore
<1>5. CASE m.alone
  <2>1. /\ \A o \in LimitSetup.Callers \ {c} : thread[o].at = "idle"
        /\ LimitHeld(m.call.at)
        /\ \A x \in LimitSetup.Keys : \A e \in admitted[x] : e.at <= m.call.at
    BY <1>1, <1>2, <1>5 DEF LimitAlone
  <2>2. /\ thread' \in [LimitSetup.Callers -> R!Records] /\ \A o \in LimitSetup.Callers : thread'[o].at = "idle"
    BY <1>1, <1>2, <2>1, LimitIdle DEF R!Set
  <2>3. /\ admitted' = [admitted EXCEPT ![k] = @ \cup {m.call}]
        /\ admitted' \in [LimitSetup.Keys -> SUBSET R!Entries] /\ admitted'[k] = admitted[k] \cup {m.call}
        /\ \A x \in LimitSetup.Keys \ {k} : admitted'[x] = admitted[x]
    BY <1>1, <1>2, <1>3, <1>5 DEF LimitTables
  <2>4. LimitTables'
    BY <1>1, <1>2, <1>3, <2>3 DEF LimitTables, R!Put
  <2>5. R!TypeOK'
    BY <2>2, <2>4, LimitPartsNext
  <2>6. LimitPast'
    BY <1>1, <1>2, <1>3, <2>3 DEF LimitPast, R!Put
  <2>7. \A o \in LimitSetup.Callers : LimitShape(o)'
    <3>1. IsFiniteSet(thread'[c].copy)
      BY <1>1, <1>2, LimitIdle DEF R!Set
    <3>2. \A o \in LimitSetup.Callers \ {c} : IsFiniteSet(thread'[o].copy)
      BY <1>1, <1>2 DEF R!Set, LimitInv, LimitShape
    <3> QED
      BY <2>2, <3>1, <3>2 DEF LimitShape
  <2>8. LimitHeld(clock)'
    <3> SUFFICES ASSUME NEW x \in LimitSetup.Keys, NEW e \in admitted'[x], clock - e.at < LimitSetup.Window
                 PROVE  x \in DOMAIN buckets' /\ e \in buckets'[x]
      BY <1>2, <2>2 DEF LimitHeld, LimitKnows, R!Fresh, R!Has
    <3>1. CASE x = k /\ e = m.call
      BY <1>2, <3>1 DEF R!Put
    <3>2. CASE e \in admitted[x]
      <4>1. R!Has(x) /\ e \in buckets[x] /\ LimitKnows(c, x, e)
        BY <1>1, <3>2 DEF LimitHeld, R!Fresh
      <4> QED
        BY <1>2, <4>1 DEF LimitKnows, R!Put, R!Has
    <3> QED
      BY <2>3, <3>1, <3>2
  <2>9. \A o \in LimitSetup.Callers : LimitAlone(o)'
    BY <2>2 DEF LimitAlone
  <2>10. R!QuietCallsWithinLimit'
    <3> SUFFICES ASSUME LimitSetup.Max > 0, NEW x \in LimitSetup.Keys, NEW t \in R!Times
                 PROVE  Cardinality({e \in R!Fresh(admitted'[x], t) : e.at <= t}) <= LimitSetup.Max
      BY LimitCount DEF R!QuietCallsWithinLimit, R!Fresh
    <3> DEFINE Old(y) == {e \in R!Fresh(admitted[y], t) : e.at <= t}
               New == {e \in R!Fresh(admitted'[x], t) : e.at <= t}
    <3>1. Cardinality(Old(x)) <= LimitSetup.Max
      BY <1>1, LimitCount DEF R!QuietCallsWithinLimit
    <3>2. CASE x # k \/ t < m.call.at \/ ~ (t - m.call.at < LimitSetup.Window)
      <4>1. New = Old(x)
        BY <1>3, <2>3, <3>2 DEF R!Fresh, R!Times, R!ConstantsAssumption
      <4> QED
        BY <3>1, <4>1
    <3>3. CASE x = k /\ m.call.at <= t /\ t - m.call.at < LimitSetup.Window
      <4>1. New = Old(k) \cup {m.call}
        <5>1. /\ admitted'[x] = admitted[k] \cup {m.call} /\ m.call.at <= t
              /\ t - m.call.at < LimitSetup.Window
          BY <2>3, <3>3
        <5> HIDE DEF m, k
        <5> QED
          BY <5>1 DEF R!Fresh
      <4>2. Old(k) \subseteq m.copy
        <5> SUFFICES ASSUME NEW e \in Old(k) PROVE e \in m.copy
          OBVIOUS
        <5>1. e \in admitted[k] /\ e.at <= m.call.at /\ t - e.at < LimitSetup.Window /\ e.at \in R!Times
          BY <1>1, <1>3, <2>1 DEF R!Fresh, LimitTables, R!Entries
        <5>2. e \in R!Fresh(admitted[k], m.call.at)
          BY <1>3, <3>3, <5>1 DEF R!Fresh, R!Times, R!ConstantsAssumption
        <5> QED
          BY <1>2, <1>3, <2>1, <5>2 DEF LimitHeld, LimitKnows
      <4> HIDE DEF Old, New
      <4>3. /\ IsFiniteSet(Old(k)) /\ Cardinality(Old(k)) <= Cardinality(m.copy)
        BY <1>3, <4>2, FS_Subset
      <4>4. Cardinality(New) <= Cardinality(Old(k)) + 1
        <5>1. Cardinality(New) = IF m.call \in Old(k) THEN Cardinality(Old(k)) ELSE Cardinality(Old(k)) + 1
          BY <4>1, <4>3, FS_AddElement
        <5>2. Cardinality(Old(k)) \in Nat
          BY <4>3, FS_CardinalityType
        <5> QED
          BY <5>1, <5>2
      <4>5. /\ Cardinality(m.copy) \in Nat /\ Cardinality(Old(k)) \in Nat
            /\ ~ (Cardinality(m.copy) >= LimitSetup.Max) /\ Cardinality(New) \in Nat
        <5>1. IsFiniteSet(New)
          BY <4>1, <4>3, FS_AddElement
        <5>2. Cardinality(m.copy) \in Nat /\ Cardinality(Old(k)) \in Nat
          BY <1>3, <4>3, FS_CardinalityType
        <5>3. Cardinality(New) \in Nat
          BY <5>1, FS_CardinalityType
        <5> QED
          BY <1>3, <5>2, <5>3, LimitCount DEF R!Full
      <4>6. Cardinality(New) <= LimitSetup.Max
        BY <4>3, <4>4, <4>5 DEF R!ConstantsAssumption
      <4> QED
        BY <4>6 DEF New
    <3>4. t \in Int /\ m.call.at \in Int
      BY <1>3 DEF R!Times
    <3> QED
      BY <3>2, <3>3, <3>4
  <2> QED
    BY <2>5, <2>6, <2>7, <2>8, <2>9, <2>10 DEF LimitInv
<1> QED
  BY <1>1, <1>4, <1>5 DEF R!Records

LEMMA LimitKeeps == ASSUME R!ConstantsAssumption, LimitInv, [R!Next]_(R!vars) PROVE LimitInv'
<1>1. CASE R!Tick
  BY <1>1, LimitTick
<1>2. CASE \E c \in LimitSetup.Callers, k \in LimitSetup.Keys : R!Enter(c, k)
  BY <1>2, LimitEnter
<1>3. CASE \E c \in LimitSetup.Callers : R!Admit(c)
  BY <1>3, LimitAdmit
<1>4. CASE \E c \in LimitSetup.Callers : R!SweepDue(c) \/ R!ListKeys(c) \/ R!SweepRead(c) \/ R!SweepWrite(c)
                              \/ R!Read(c) \/ R!Refuse(c)
  BY <1>4, LimitAside
<1>5. CASE UNCHANGED R!vars
  BY <1>5 DEF R!vars, LimitInv, R!TypeOK, LimitPast, LimitShape, LimitHeld, LimitAlone, R!Has,
              LimitKnows, R!QuietCallsWithinLimit, R!Full
<1> QED
  BY <1>1, <1>2, <1>3, <1>4, <1>5 DEF R!Next

-----------------------------------------------------------------------------
(* The gateway watch.                                                      *)

\* What a check has told and not yet remembered, or forgotten and not yet told.
WatchPending(c, k) ==
  IF check[c].pc \in {"add", "send"} /\ check[c].kind = k THEN {check[c].at} ELSE {}

\* A check that has not listed the gateways has nothing to save.
WatchShape(c) ==
  /\ check[c].pc \in {"test", "add", "send"} => check[c].at \in G!Gateways
  /\ check[c].pc \in {"idle", "load", "list"} =>
       check[c].at = 1 /\ check[c].kind = "disconnected" /\ ~ check[c].changed

\* Whoever was told is in the set in memory, and in the meta table as long as the
\* check has nothing to save.
WatchHolds(c) ==
  /\ check[c].pc \notin {"idle", "load"} => loaded
  /\ \A k \in G!Kinds :
       /\ loaded => told[k] \subseteq alerted[k] \cup WatchPending(c, k)
       /\ ~ check[c].changed => told[k] \subseteq saved[k] \cup WatchPending(c, k)

WatchOthersIdle(c) == \A d \in G!Checks \ {c} : check[d].pc = "idle"

\* Until checks overlap or are cut off.
WatchAlone ==
  /\ \A c \in G!Checks : check[c].pc # "idle" => WatchOthersIdle(c)
  /\ \A c \in G!Checks : WatchOthersIdle(c) => WatchHolds(c)

WatchInv ==
  /\ G!TypeOK /\ \A c \in G!Checks : WatchShape(c)
  /\ ~ gDisturbed => ~ twice /\ WatchAlone

WatchRecords ==
  [pc : {"idle", "load", "list", "test", "add", "send", "save"},
   list : [G!Gateways -> G!Ages \cup {-1}], at : 1..(WatchSetup.Count + 1), kind : G!Kinds, changed : BOOLEAN]

WatchTables ==
  /\ age \in [G!Gateways -> G!Ages \cup {-1}] /\ loaded \in BOOLEAN
  /\ alerted \in [G!Kinds -> SUBSET G!Gateways] /\ saved \in [G!Kinds -> SUBSET G!Gateways]
  /\ doomed \subseteq G!Gateways /\ noticed \subseteq G!Gateways
  /\ told \in [G!Kinds -> SUBSET G!Gateways] /\ gDisturbed \in BOOLEAN /\ twice \in BOOLEAN
  /\ gFuel \in 0..WatchSetup.Budget

LEMMA WatchParts ==
  /\ G!TypeOK <=> WatchTables /\ check \in [G!Checks -> WatchRecords]
  /\ G!TypeOK' <=> WatchTables' /\ check' \in [G!Checks -> WatchRecords]
  BY DEF G!TypeOK, WatchTables, WatchRecords

LEMMA WatchIdle ==
  ASSUME G!ConstantsAssumption
  PROVE  G!Idle \in WatchRecords /\ G!Idle.pc = "idle" /\ G!Idle.at = 1
         /\ G!Idle.kind = "disconnected" /\ G!Idle.changed = FALSE
<1>1. 1 \in 1..(WatchSetup.Count + 1)
  BY DEF G!ConstantsAssumption
<1>2. [g \in G!Gateways |-> -1] \in [G!Gateways -> G!Ages \cup {-1}]
  OBVIOUS
<1> QED
  BY <1>1, <1>2 DEF G!Idle, WatchRecords, G!Kinds

LEMMA WatchInit == ASSUME G!ConstantsAssumption, G!Init PROVE WatchInv
<1>1. /\ check \in [G!Checks -> WatchRecords]
      /\ \A c \in G!Checks : check[c] = G!Idle
  BY WatchIdle DEF G!Init
<1>2. WatchTables
  <2>1. gFuel \in 0..WatchSetup.Budget
    BY DEF G!Init, G!ConstantsAssumption
  <2>2. G!Nobody \in [G!Kinds -> SUBSET G!Gateways] /\ age \in [G!Gateways -> G!Ages \cup {-1}]
    BY DEF G!Nobody, G!Init, G!Ages
  <2> QED
    BY <2>1, <2>2 DEF G!Init, WatchTables
<1>3. \A c \in G!Checks : WatchShape(c) /\ WatchHolds(c)
  BY <1>1, WatchIdle DEF G!Init, WatchShape, WatchHolds, G!Nobody
<1> QED
  BY <1>1, <1>2, <1>3, WatchParts, WatchIdle DEF WatchInv, WatchAlone, G!Init

LEMMA WatchSpend == ASSUME G!ConstantsAssumption, G!TypeOK, G!Spend PROVE gFuel' \in 0..WatchSetup.Budget
  BY DEF G!ConstantsAssumption, G!TypeOK, G!Spend

\* A step of a check that changes nothing of the others.
LEMMA WatchStep ==
  ASSUME G!ConstantsAssumption, WatchInv, NEW c \in G!Checks, NEW new \in WatchRecords,
         check' = [check EXCEPT ![c] = new], WatchTables', WatchShape(c)',
         ~ gDisturbed' => ~ twice' /\ WatchOthersIdle(c) /\ WatchHolds(c)'
  PROVE  WatchInv'
<1>1. check' \in [G!Checks -> WatchRecords] /\ \A d \in G!Checks \ {c} : check'[d] = check[d]
  BY WatchParts DEF WatchInv
<1>2. G!TypeOK'
  BY <1>1, WatchParts
<1>3. \A d \in G!Checks : WatchShape(d)'
  BY <1>1 DEF WatchInv, WatchShape
<1>4. ASSUME ~ gDisturbed' PROVE WatchAlone'
  <2>1. \A d \in G!Checks \ {c} : check'[d].pc = "idle"
    BY <1>1, <1>4 DEF WatchOthersIdle
  <2>2. ASSUME NEW d \in G!Checks \ {c}, WatchOthersIdle(d)' PROVE WatchHolds(d)'
    <3>1. check'[c].pc = "idle" /\ check'[d].pc = "idle"
      BY <2>1, <2>2 DEF WatchOthersIdle
    <3>2. ~ check'[c].changed /\ WatchHolds(c)'
      BY <1>3, <1>4, <3>1 DEF WatchShape
    <3> QED
      BY <3>1, <3>2 DEF WatchHolds, WatchPending
  <2>3. WatchHolds(c)'
    BY <1>4
  <2> QED
    BY <2>1, <2>2, <2>3 DEF WatchAlone, WatchOthersIdle
<1> QED
  BY <1>2, <1>3, <1>4 DEF WatchInv

\* What a check that is in progress can rely on while nothing overlaps.
LEMMA WatchActive ==
  ASSUME WatchInv, NEW c \in G!Checks, check[c].pc # "idle", ~ gDisturbed
  PROVE  ~ twice /\ WatchOthersIdle(c) /\ WatchHolds(c)
  BY DEF WatchInv, WatchAlone

LEMMA WatchEnter == ASSUME G!ConstantsAssumption, WatchInv, NEW c \in G!Checks, G!Enter(c) PROVE WatchInv'
<1> DEFINE new == [check[c] EXCEPT !.pc = IF loaded THEN "list" ELSE "load"]
<1>1. check[c] \in WatchRecords /\ WatchShape(c) /\ check[c].pc = "idle"
  BY WatchParts DEF WatchInv, G!Enter
<1>2. /\ new \in WatchRecords /\ new.pc = (IF loaded THEN "list" ELSE "load")
      /\ new.at = check[c].at /\ new.kind = check[c].kind /\ new.changed = check[c].changed
  BY <1>1 DEF WatchRecords
<1>3. check' = [check EXCEPT ![c] = new]
  BY DEF G!Enter, G!Goto, G!Set
<1> HIDE DEF new
<1>4. check'[c] = new
  BY <1>3, WatchParts DEF WatchInv
<1>5. WatchTables'
  BY WatchParts, WatchSpend DEF G!Enter, WatchInv, WatchTables
<1>6. WatchShape(c)'
  BY <1>1, <1>2, <1>4 DEF WatchShape
<1>7. ASSUME ~ gDisturbed' PROVE ~ twice' /\ WatchOthersIdle(c) /\ WatchHolds(c)'
  <2>1. ~ gDisturbed /\ WatchOthersIdle(c)
    BY <1>7, WatchParts DEF G!Enter, WatchOthersIdle, WatchInv, WatchTables
  <2>2. ~ twice /\ WatchHolds(c)
    BY <2>1 DEF WatchInv, WatchAlone
  <2>3. WatchHolds(c)'
    BY <1>1, <1>2, <1>4, <2>2 DEF WatchHolds, WatchPending, G!Enter
  <2> QED
    BY <2>1, <2>2, <2>3 DEF G!Enter
<1> QED
  BY <1>2, <1>3, <1>5, <1>6, <1>7, WatchStep

LEMMA WatchLoad == ASSUME G!ConstantsAssumption, WatchInv, NEW c \in G!Checks, G!Load(c) PROVE WatchInv'
<1> DEFINE new == [check[c] EXCEPT !.pc = "list"]
<1>1. check[c] \in WatchRecords /\ WatchShape(c) /\ check[c].pc = "load"
  BY WatchParts DEF WatchInv, G!Load
<1>2. /\ new \in WatchRecords /\ new.pc = "list"
      /\ new.at = check[c].at /\ new.kind = check[c].kind /\ new.changed = check[c].changed
  BY <1>1 DEF WatchRecords
<1>3. check' = [check EXCEPT ![c] = new]
  BY DEF G!Load, G!Goto, G!Set
<1> HIDE DEF new
<1>4. check'[c] = new
  BY <1>3, WatchParts DEF WatchInv
<1>5. WatchTables'
  BY WatchParts DEF G!Load, WatchInv, WatchTables, G!hist
<1>6. WatchShape(c)'
  BY <1>1, <1>2, <1>4 DEF WatchShape
<1>7. ASSUME ~ gDisturbed' PROVE ~ twice' /\ WatchOthersIdle(c) /\ WatchHolds(c)'
  <2>1. ~ twice /\ WatchOthersIdle(c) /\ WatchHolds(c)
    BY <1>1, <1>7, WatchActive DEF G!Load, G!hist
  <2>2. WatchHolds(c)'
    BY <1>1, <1>2, <1>4, <2>1 DEF WatchHolds, WatchPending, WatchShape, G!Load, G!hist
  <2> QED
    BY <2>1, <2>2 DEF G!Load, G!hist
<1> QED
  BY <1>2, <1>3, <1>5, <1>6, <1>7, WatchStep

LEMMA WatchList == ASSUME G!ConstantsAssumption, WatchInv, NEW c \in G!Checks, G!List(c) PROVE WatchInv'
<1> DEFINE new == [check[c] EXCEPT !.list = age, !.pc = "test"]
<1>1. check[c] \in WatchRecords /\ WatchShape(c) /\ check[c].pc = "list"
      /\ age \in [G!Gateways -> G!Ages \cup {-1}]
  BY WatchParts DEF WatchInv, G!List, WatchTables
<1>2. /\ new \in WatchRecords /\ new.pc = "test"
      /\ new.at = check[c].at /\ new.kind = check[c].kind /\ new.changed = check[c].changed
  BY <1>1 DEF WatchRecords
<1>3. check' = [check EXCEPT ![c] = new]
  BY DEF G!List, G!Set
<1> HIDE DEF new
<1>4. check'[c] = new
  BY <1>3, WatchParts DEF WatchInv
<1>5. WatchTables'
  BY WatchParts DEF G!List, WatchInv, WatchTables, G!hist
<1>6. WatchShape(c)'
  BY <1>1, <1>2, <1>4 DEF WatchShape, G!ConstantsAssumption, G!Gateways
<1>7. ASSUME ~ gDisturbed' PROVE ~ twice' /\ WatchOthersIdle(c) /\ WatchHolds(c)'
  <2>1. ~ twice /\ WatchOthersIdle(c) /\ WatchHolds(c)
    BY <1>1, <1>7, WatchActive DEF G!List, G!hist
  <2>2. WatchHolds(c)'
    BY <1>1, <1>2, <1>4, <2>1 DEF WatchHolds, WatchPending, G!List, G!hist
  <2> QED
    BY <2>1, <2>2 DEF G!List, G!hist
<1> QED
  BY <1>2, <1>3, <1>5, <1>6, <1>7, WatchStep

LEMMA WatchSave == ASSUME G!ConstantsAssumption, WatchInv, NEW c \in G!Checks, G!Save(c) PROVE WatchInv'
<1>1. check' = [check EXCEPT ![c] = G!Idle] /\ check[c].pc = "save"
  BY DEF G!Save, G!Set
<1>2. check'[c] = G!Idle
  BY <1>1, WatchParts DEF WatchInv
<1>3. WatchTables'
  BY WatchParts DEF G!Save, WatchInv, WatchTables, G!hist
<1>4. WatchShape(c)'
  BY <1>2, WatchIdle DEF WatchShape
<1>5. ASSUME ~ gDisturbed' PROVE ~ twice' /\ WatchOthersIdle(c) /\ WatchHolds(c)'
  <2>1. ~ twice /\ WatchOthersIdle(c) /\ WatchHolds(c)
    BY <1>1, <1>5, WatchActive DEF G!Save, G!hist
  <2>2. WatchHolds(c)'
    BY <1>1, <1>2, <2>1, WatchIdle DEF WatchHolds, WatchPending, G!Save, G!hist
  <2> QED
    BY <2>1, <2>2 DEF G!Save, G!hist
<1> QED
  BY <1>1, <1>3, <1>4, <1>5, WatchIdle, WatchStep

LEMMA WatchCut == ASSUME G!ConstantsAssumption, WatchInv, NEW c \in G!Checks, G!Cut(c) PROVE WatchInv'
<1>1. check' = [check EXCEPT ![c] = G!Idle] /\ gDisturbed'
  BY DEF G!Cut, G!Set
<1>2. check'[c] = G!Idle
  BY <1>1, WatchParts DEF WatchInv
<1>3. WatchTables'
  BY WatchParts, WatchSpend DEF G!Cut, WatchInv, WatchTables
<1>4. WatchShape(c)'
  BY <1>2, WatchIdle DEF WatchShape
<1> QED
  BY <1>1, <1>3, <1>4, WatchIdle, WatchStep

\* After a kind comes the other one, the next gateway or the end.
LEMMA WatchNextKind ==
  ASSUME G!ConstantsAssumption, WatchInv, NEW c \in G!Checks, NEW changed \in BOOLEAN,
         check[c].pc \in {"test", "add", "send"}, G!NextKind(c, changed)
  PROVE  \E new \in WatchRecords :
           /\ check' = [check EXCEPT ![c] = new]
           /\ new.pc \in {"test", "save"} /\ new.changed = changed
           /\ new.pc = "test" => new.at \in G!Gateways
<1> DEFINE other == [check[c] EXCEPT !.pc = "test", !.kind = "offline", !.changed = changed]
           next == [check[c] EXCEPT !.at = @ + 1, !.kind = "disconnected", !.changed = changed,
                                    !.pc = IF check[c].at < WatchSetup.Count THEN "test" ELSE "save"]
<1>1. check[c] \in WatchRecords /\ check[c].at \in 1..WatchSetup.Count /\ WatchSetup.Count \in Nat
  BY WatchParts DEF WatchInv, WatchShape, G!Gateways, G!ConstantsAssumption
<1>2. check' = [check EXCEPT ![c] = other] \/ check' = [check EXCEPT ![c] = next]
  BY DEF G!NextKind, G!NextGateway, G!Set
<1>3. /\ other \in WatchRecords /\ other.pc = "test" /\ other.changed = changed
      /\ other.at \in G!Gateways
  BY <1>1 DEF WatchRecords, G!Kinds, G!Gateways
<1>4. check[c].at + 1 \in 1..(WatchSetup.Count + 1) /\ (check[c].at < WatchSetup.Count => check[c].at + 1 \in G!Gateways)
  BY <1>1 DEF G!Gateways
<1>5. /\ next \in WatchRecords /\ next.pc \in {"test", "save"} /\ next.changed = changed
      /\ next.pc = "test" => next.at \in G!Gateways
  BY <1>1, <1>4 DEF WatchRecords, G!Kinds
<1> QED
  BY <1>2, <1>3, <1>5

LEMMA WatchAdd ==
  ASSUME G!ConstantsAssumption, WatchInv, NEW c \in G!Checks, NEW k \in G!Kinds, G!Add(c, k) PROVE WatchInv'
<1>1. check[c].pc = "add" /\ check[c].kind = k /\ check[c].at \in G!Gateways
  BY DEF G!Add, WatchInv, WatchShape
<1>2. PICK new \in WatchRecords :
        /\ check' = [check EXCEPT ![c] = new]
        /\ new.pc \in {"test", "save"} /\ new.changed = TRUE
        /\ new.pc = "test" => new.at \in G!Gateways
  BY <1>1, WatchNextKind DEF G!Add
<1>3. check'[c] = new
  BY <1>2, WatchParts DEF WatchInv
<1>4. WatchTables'
  BY <1>1, WatchParts DEF G!Add, WatchInv, WatchTables, G!hist
<1>5. WatchShape(c)'
  BY <1>2, <1>3 DEF WatchShape
<1>6. ASSUME ~ gDisturbed' PROVE ~ twice' /\ WatchOthersIdle(c) /\ WatchHolds(c)'
  <2>1. ~ twice /\ WatchOthersIdle(c) /\ WatchHolds(c)
    BY <1>1, <1>6, WatchActive DEF G!Add, G!hist
  <2>2. \A j \in G!Kinds : alerted'[j] = IF j = k THEN alerted[k] \cup {check[c].at} ELSE alerted[j]
    BY WatchParts DEF G!Add, WatchInv, WatchTables
  <2>3. WatchHolds(c)'
    BY <1>1, <1>2, <1>3, <2>1, <2>2 DEF WatchHolds, WatchPending, G!Add, G!hist
  <2> QED
    BY <2>1, <2>3 DEF G!Add, G!hist
<1> QED
  BY <1>2, <1>4, <1>5, <1>6, WatchStep

LEMMA WatchSend ==
  ASSUME G!ConstantsAssumption, WatchInv, NEW c \in G!Checks, NEW k \in G!Kinds, G!Send(c, k) PROVE WatchInv'
<1>1. check[c].pc = "send" /\ check[c].kind = k /\ check[c].at \in G!Gateways
  BY DEF G!Send, WatchInv, WatchShape
<1>2. PICK new \in WatchRecords :
        /\ check' = [check EXCEPT ![c] = new]
        /\ new.pc \in {"test", "save"} /\ new.changed = TRUE
        /\ new.pc = "test" => new.at \in G!Gateways
  BY <1>1, WatchNextKind DEF G!Send
<1>3. check'[c] = new
  BY <1>2, WatchParts DEF WatchInv
<1>4. WatchTables'
  BY <1>1, WatchParts DEF G!Send, WatchInv, WatchTables
<1>5. WatchShape(c)'
  BY <1>2, <1>3 DEF WatchShape
<1>6. ASSUME ~ gDisturbed' PROVE ~ twice' /\ WatchOthersIdle(c) /\ WatchHolds(c)'
  <2>1. ~ twice /\ WatchOthersIdle(c) /\ WatchHolds(c)
    BY <1>1, <1>6, WatchActive DEF G!Send
  <2>2. \A j \in G!Kinds : told'[j] = IF j = k THEN told[k] \ {check[c].at} ELSE told[j]
    BY WatchParts DEF G!Send, WatchInv, WatchTables
  <2>3. WatchHolds(c)'
    BY <1>1, <1>2, <1>3, <2>1, <2>2 DEF WatchHolds, WatchPending, G!Send
  <2> QED
    BY <2>1, <2>3 DEF G!Send
<1> QED
  BY <1>2, <1>4, <1>5, <1>6, WatchStep

LEMMA WatchTest ==
  ASSUME G!ConstantsAssumption, WatchInv, NEW c \in G!Checks, NEW k \in G!Kinds, G!Test(c, k) PROVE WatchInv'
<1> DEFINE g == check[c].at
           late == check[c].list[g] >= G!Limit[k]
           new == late /\ g \notin alerted[k]
           back == ~ late /\ check[c].list[g] # -1 /\ g \in alerted[k]
<1>1. check[c].pc = "test" /\ check[c].kind = k /\ g \in G!Gateways /\ check[c] \in WatchRecords
  BY WatchParts DEF G!Test, WatchInv, WatchShape
<1>2. /\ IF new THEN G!Goto(c, "add") ELSE IF back THEN G!Goto(c, "send") ELSE G!NextKind(c, check[c].changed)
      /\ told' = IF new THEN [told EXCEPT ![k] = @ \cup {g}] ELSE told
      /\ twice' = (twice \/ (new /\ g \in told[k]))
      /\ alerted' = IF back THEN [alerted EXCEPT ![k] = @ \ {g}] ELSE alerted
      /\ UNCHANGED <<age, loaded, saved, doomed, noticed, gDisturbed, gFuel>>
  BY DEF G!Test
<1>3. new => g \notin alerted[k]
  OBVIOUS
<1>4. new \in BOOLEAN /\ back \in BOOLEAN /\ (new => ~ back)
  OBVIOUS
<1> HIDE DEF new, back, late
<1>5. WatchTables'
  <2>1. WatchTables
    BY WatchParts DEF WatchInv
  <2>2. told' \in [G!Kinds -> SUBSET G!Gateways] /\ alerted' \in [G!Kinds -> SUBSET G!Gateways]
    BY <1>1, <1>2, <2>1 DEF WatchTables
  <2>3. twice' \in BOOLEAN
    BY <1>2, <1>4, <2>1 DEF WatchTables
  <2> QED
    BY <1>2, <2>1, <2>2, <2>3 DEF WatchTables
<1>6. \E next \in WatchRecords :
        /\ check' = [check EXCEPT ![c] = next]
        /\ new \/ back => /\ next.pc = IF new THEN "add" ELSE "send"
                          /\ next.at = g /\ next.kind = k /\ next.changed = check[c].changed
        /\ ~ new /\ ~ back => /\ next.pc \in {"test", "save"} /\ next.changed = check[c].changed
                              /\ next.pc = "test" => next.at \in G!Gateways
  <2>1. CASE new \/ back
    <3> DEFINE pc == IF new THEN "add" ELSE "send"
               next == [check[c] EXCEPT !.pc = pc]
    <3>1. /\ next \in WatchRecords /\ next.pc = pc /\ next.at = g /\ next.kind = k
          /\ next.changed = check[c].changed
      BY <1>1 DEF WatchRecords
    <3>2. check' = [check EXCEPT ![c] = next]
      BY <1>2, <2>1 DEF G!Goto, G!Set
    <3> QED
      BY <2>1, <3>1, <3>2
  <2>2. CASE ~ new /\ ~ back
    BY <1>1, <1>2, <2>2, WatchNextKind DEF WatchRecords
  <2> QED
    BY <2>1, <2>2
<1>7. PICK next \in WatchRecords :
        /\ check' = [check EXCEPT ![c] = next]
        /\ new \/ back => /\ next.pc = IF new THEN "add" ELSE "send"
                          /\ next.at = g /\ next.kind = k /\ next.changed = check[c].changed
        /\ ~ new /\ ~ back => /\ next.pc \in {"test", "save"} /\ next.changed = check[c].changed
                              /\ next.pc = "test" => next.at \in G!Gateways
  BY <1>6
<1>8. check'[c] = next
  BY <1>7, WatchParts DEF WatchInv
<1>9. WatchShape(c)'
  BY <1>1, <1>7, <1>8 DEF WatchShape
<1>10. ASSUME ~ gDisturbed' PROVE ~ twice' /\ WatchOthersIdle(c) /\ WatchHolds(c)'
  <2>1. ~ twice /\ WatchOthersIdle(c) /\ WatchHolds(c)
    BY <1>1, <1>2, <1>10, WatchActive
  <2>2. loaded /\ \A j \in G!Kinds : told[j] \subseteq alerted[j] /\ (~ check[c].changed => told[j] \subseteq saved[j])
    BY <1>1, <2>1 DEF WatchHolds, WatchPending
  <2>3. ~ twice'
    BY <1>1, <1>2, <1>3, <2>1, <2>2
  <2>4. /\ \A j \in G!Kinds : told'[j] = IF new /\ j = k THEN told[k] \cup {g} ELSE told[j]
        /\ \A j \in G!Kinds : alerted'[j] = IF back /\ j = k THEN alerted[k] \ {g} ELSE alerted[j]
    BY <1>2, WatchParts DEF WatchInv, WatchTables
  <2>5. WatchHolds(c)'
    BY <1>1, <1>2, <1>4, <1>7, <1>8, <2>2, <2>4 DEF WatchHolds, WatchPending
  <2> QED
    BY <2>1, <2>3, <2>5
<1> QED
  BY <1>5, <1>7, <1>9, <1>10, WatchStep

\* A step of the gateways or of the clean-up leaves the checks alone.
LEMMA WatchAside ==
  ASSUME G!ConstantsAssumption, WatchInv, WatchTables',
         UNCHANGED <<loaded, saved, check, gDisturbed, twice>>,
         \/ UNCHANGED <<alerted, told>>
         \/ \E g \in G!Gateways :
              /\ alerted' = [alerted EXCEPT !["disconnected"] = @ \ {g}]
              /\ told' = [told EXCEPT !["disconnected"] = @ \ {g}]
  PROVE  WatchInv'
<1>1. G!TypeOK' /\ \A c \in G!Checks : WatchShape(c)'
  BY WatchParts DEF WatchInv, WatchShape
<1>2. \/ \A k \in G!Kinds : told'[k] = told[k] /\ alerted'[k] = alerted[k]
      \/ \E g \in G!Gateways : \A k \in G!Kinds :
           IF k = "disconnected" THEN told'[k] = told[k] \ {g} /\ alerted'[k] = alerted[k] \ {g}
           ELSE told'[k] = told[k] /\ alerted'[k] = alerted[k]
  BY WatchParts DEF WatchInv, WatchTables
<1>3. \A c \in G!Checks : WatchHolds(c) => WatchHolds(c)'
  BY <1>2 DEF WatchHolds, WatchPending
<1> QED
  BY <1>1, <1>3 DEF WatchInv, WatchAlone, WatchOthersIdle

LEMMA WatchRestart == ASSUME G!ConstantsAssumption, WatchInv, G!Restart PROVE WatchInv'
<1>1. \A c \in G!Checks : check'[c] = G!Idle
  BY DEF G!Restart
<1>2. check' \in [G!Checks -> WatchRecords]
  BY WatchIdle DEF G!Restart
<1>3. G!Nobody \in [G!Kinds -> SUBSET G!Gateways] /\ G!Resting \in BOOLEAN
  BY DEF G!Nobody, G!Resting
<1>4. WatchTables'
  BY <1>3, WatchParts, WatchSpend DEF G!Restart, WatchInv, WatchTables
<1>5. \A c \in G!Checks : WatchShape(c)'
  BY <1>1, WatchIdle DEF WatchShape
<1>6. ASSUME ~ gDisturbed' PROVE ~ twice' /\ WatchAlone'
  <2>1. ~ gDisturbed /\ G!Resting
    BY <1>6, WatchParts DEF G!Restart, WatchInv, WatchTables
  <2>2. ~ twice /\ \A c \in G!Checks : WatchHolds(c) /\ check[c].pc = "idle"
    BY <2>1 DEF WatchInv, WatchAlone, WatchOthersIdle, G!Resting
  <2>3. \A c \in G!Checks : WatchHolds(c)'
    BY <1>1, <2>2, WatchIdle DEF WatchHolds, WatchPending, WatchInv, WatchShape, G!Restart
  <2> QED
    BY <1>1, <2>2, <2>3, WatchIdle DEF G!Restart, WatchAlone
<1> QED
  BY <1>2, <1>4, <1>5, <1>6, WatchParts DEF WatchInv

LEMMA WatchKeeps == ASSUME G!ConstantsAssumption, WatchInv, [G!Next]_(G!vars) PROVE WatchInv'
<1>1. ASSUME NEW c \in G!Checks, G!Check(c) \/ G!Cut(c) PROVE WatchInv'
  BY <1>1, WatchEnter, WatchLoad, WatchList, WatchSave, WatchCut, WatchTest, WatchAdd, WatchSend DEF G!Check
<1> USE WatchParts DEF WatchInv, WatchTables
<1>2. ASSUME NEW g \in G!Gateways, G!Silent(g) PROVE WatchInv'
  <2>1. age' \in [G!Gateways -> G!Ages \cup {-1}]
    BY <1>2 DEF G!Silent, G!Ages
  <2> QED
    BY <1>2, <2>1, WatchAside DEF G!Silent, G!dash, G!hist
<1>3. ASSUME NEW g \in G!Gateways, G!Heard(g) PROVE WatchInv'
  <2>1. age' \in [G!Gateways -> G!Ages \cup {-1}] /\ gFuel' \in 0..WatchSetup.Budget
    BY <1>3, WatchSpend DEF G!Heard, G!Ages
  <2> QED
    BY <1>3, <2>1, WatchAside DEF G!Heard, G!dash, G!hist
<1>4. ASSUME NEW g \in G!Gateways, G!RemoveStale(g) PROVE WatchInv'
  <2>1. age' \in [G!Gateways -> G!Ages \cup {-1}]
    BY <1>4 DEF G!RemoveStale
  <2>2. WatchTables'
    BY <1>4, <2>1 DEF G!RemoveStale
  <2> QED
    BY <1>4, <2>2, WatchAside DEF G!RemoveStale
<1>5. ASSUME G!FindStale PROVE WatchInv'
  BY <1>5, WatchAside DEF G!FindStale, G!hist
<1>6. ASSUME UNCHANGED G!vars PROVE WatchInv'
  BY <1>6, WatchAside DEF G!vars, G!dash, G!hist
<1> QED
  BY <1>1, <1>2, <1>3, <1>4, <1>5, <1>6, WatchRestart DEF G!Next

-----------------------------------------------------------------------------
(* Releases of the gateway files.                                          *)

\* Between requests that went well, and before an upgrade of the files.
ReleaseCalm ==
  /\ deployed = served /\ deployed \in ReleaseSetup.Versions /\ (~ built => file["golden"] = served)
  /\ file["golden"] \in ReleaseSetup.Versions /\ file["edge"] \in ReleaseSetup.Versions
  /\ file["bak"] = before /\ before \in ReleaseSetup.Versions \cup {ReleaseSetup.None}
  /\ devPush => devTrigger

\* What the file operations and statements of request k have done so far.
ReleaseStage(k) ==
  /\ k.kind \in {"seed", "push"} =>
       /\ deployed = served /\ (~ built => file["golden"] = served)
       /\ file["golden"] \in ReleaseSetup.Versions /\ file["bak"] = before
       /\ k.pc # "close" => file["edge"] \in ReleaseSetup.Versions
       /\ k.pc \in (IF k.kind = "seed" THEN {"decide", "open", "close"} ELSE {"trigger", "flag"})
       /\ k.nth = 1
  /\ k.kind = "push" => file["edge"] \in ReleaseSetup.Versions
  /\ k.kind = "push" /\ k.pc = "flag" => devTrigger
  /\ k.kind = "promote" =>
       /\ (k.pc = "close" /\ k.nth = 2) \/ file["golden"] \in ReleaseSetup.Versions
       /\ IF k.pc \in {"open", "close"} /\ k.nth = 1 THEN file["golden"] = before
          ELSE file["bak"] = before
       /\ file["edge"] \in ReleaseSetup.Versions
  /\ k.kind = "rollback" =>
       /\ file["bak"] = before /\ before \in ReleaseSetup.Versions /\ file["edge"] \in ReleaseSetup.Versions
       /\ k.pc \in {"open", "close"} => k.nth <= 2
       /\ (k.pc = "close" /\ k.nth = 1) \/ file["golden"] \in ReleaseSetup.Versions
  /\ k.kind \in {"promote", "rollback"} =>
       /\ k.pc \in {"open", "close", "flag", "trigger", "hash", "store", "tell"}
       /\ k.pc \in {"hash", "store", "tell", "trigger"} => ~ devPush
       /\ k.pc = "store" => k.hash = file["golden"]
       /\ IF k.pc = "tell" THEN deployed = file["golden"] ELSE deployed = served
  /\ deployed \in ReleaseSetup.Versions /\ before \in ReleaseSetup.Versions \cup {ReleaseSetup.None}
  /\ devPush => devTrigger
  /\ k.kind # "none"

ReleaseAlone ==
  /\ P!Resting => ReleaseCalm
  /\ \A h \in ReleaseSetup.Handlers : rOp[h].pc # "idle" =>
       ReleaseStage(rOp[h]) /\ \A g \in ReleaseSetup.Handlers \ {h} : rOp[g].pc = "idle"

ReleaseShape(k) ==
  /\ k.pc \in {"open", "close"} => k.kind \in {"seed", "promote", "rollback"}
  /\ k.pc = "decide" => k.kind = "seed"
  /\ k.kind = "seed" => k.nth = 1
  /\ k.kind = "rollback" => k.nth <= 2

ReleaseInv ==
  /\ P!TypeOK
  /\ \A h \in ReleaseSetup.Handlers : ReleaseShape(rOp[h])
  /\ rDisturbed \/ ReleaseAlone

ReleaseTables ==
  /\ file \in [P!Files -> ReleaseSetup.Versions \cup {ReleaseSetup.None, ReleaseSetup.Torn}] /\ deployed \in ReleaseSetup.Versions \cup {ReleaseSetup.None, ReleaseSetup.Torn}
  /\ devTrigger \in BOOLEAN /\ devPush \in BOOLEAN
  /\ served \in ReleaseSetup.Versions \cup {ReleaseSetup.None, ReleaseSetup.Torn} /\ before \in ReleaseSetup.Versions \cup {ReleaseSetup.None, ReleaseSetup.Torn}
  /\ built \in BOOLEAN /\ rDisturbed \in BOOLEAN /\ rFuel \in 0..ReleaseSetup.Budget

LEMMA ReleaseParts == P!TypeOK <=> ReleaseTables /\ rOp \in [ReleaseSetup.Handlers -> P!Ops]
  BY DEF P!TypeOK, ReleaseTables

LEMMA ReleasePartsNext == P!TypeOK' <=> ReleaseTables' /\ rOp' \in [ReleaseSetup.Handlers -> P!Ops]
  BY DEF P!TypeOK, ReleaseTables, P!Files, P!Ops

LEMMA ReleaseIdle ==
  P!Idle \in P!Ops /\ P!Idle.pc = "idle" /\ P!Idle.nth = 1 /\ ReleaseShape(P!Idle)
  BY DEF P!Idle, P!Ops, ReleaseShape

LEMMA ReleaseCopies ==
  ASSUME NEW k \in P!Ops, ReleaseShape(k), k.pc \in {"open", "close"}
  PROVE  /\ k.kind = "seed" => P!From(k) = "golden" /\ P!Into(k) = "edge"
         /\ k.kind = "promote" =>
              /\ k.nth = 1 => P!From(k) = "golden" /\ P!Into(k) = "bak"
              /\ k.nth = 2 => P!From(k) = "edge" /\ P!Into(k) = "golden"
              /\ k.nth = 3 => P!From(k) = "edge" /\ P!Into(k) = "source"
              /\ Len(P!Copies[k.kind]) = 3
         /\ k.kind = "rollback" =>
              /\ k.nth = 1 => P!From(k) = "bak" /\ P!Into(k) = "golden"
              /\ k.nth = 2 => P!From(k) = "bak" /\ P!Into(k) = "source"
              /\ Len(P!Copies[k.kind]) = 2 /\ k.nth \in {1, 2}
         /\ k.kind \in {"seed", "promote", "rollback"} /\ k.nth \in {1, 2, 3}
         /\ P!From(k) \in P!Files /\ P!Into(k) \in P!Files
<1>1. k.kind \in {"seed", "promote", "rollback"} /\ k.nth \in {1, 2, 3}
  BY DEF P!Ops, ReleaseShape
<1>2. CASE k.kind = "seed"
  <2>1. k.nth = 1 /\ P!Copies[k.kind] = << <<"golden", "edge">> >>
    BY <1>2 DEF P!Copies, ReleaseShape
  <2> QED
    BY <1>1, <1>2, <2>1 DEF P!From, P!Into, P!Files
<1>3. CASE k.kind = "promote"
  <2>1. P!Copies[k.kind] = << <<"golden", "bak">>, <<"edge", "golden">>, <<"edge", "source">> >>
    BY <1>3 DEF P!Copies
  <2> QED
    BY <1>1, <1>3, <2>1 DEF P!From, P!Into, P!Files
<1>4. CASE k.kind = "rollback"
  <2>1. k.nth \in {1, 2} /\ P!Copies[k.kind] = << <<"bak", "golden">>, <<"bak", "source">> >>
    BY <1>1, <1>4 DEF P!Copies, ReleaseShape
  <2> QED
    BY <1>1, <1>4, <2>1 DEF P!From, P!Into, P!Files
<1> QED
  BY <1>1, <1>2, <1>3, <1>4

LEMMA ReleaseInit == ASSUME P!ConstantsAssumption, P!Init PROVE ReleaseInv
<1>0. PICK v \in ReleaseSetup.Versions :
        /\ file = [f \in P!Files |-> IF f = "bak" THEN ReleaseSetup.None ELSE v]
        /\ deployed = v /\ served = v
  BY DEF P!Init
<1>4. file \in [P!Files -> ReleaseSetup.Versions \cup {ReleaseSetup.None, ReleaseSetup.Torn}]
  BY <1>0
<1>5. devTrigger \in BOOLEAN /\ devPush \in BOOLEAN /\ built \in BOOLEAN /\ rDisturbed \in BOOLEAN
  BY DEF P!Init
<1>6. /\ deployed \in ReleaseSetup.Versions /\ served \in ReleaseSetup.Versions /\ before = ReleaseSetup.None
      /\ rFuel \in 0..ReleaseSetup.Budget
  BY <1>0 DEF P!Init, P!ConstantsAssumption
<1>1. ReleaseTables
  BY <1>4, <1>5, <1>6 DEF ReleaseTables
<1>2. P!TypeOK /\ \A h \in ReleaseSetup.Handlers : ReleaseShape(rOp[h]) /\ rOp[h].pc = "idle"
  BY <1>1, ReleaseIdle, ReleaseParts DEF P!Init
<1>3. ReleaseAlone
  BY <1>0, <1>2 DEF ReleaseAlone, ReleaseCalm, P!Init, P!Files
<1> QED
  BY <1>2, <1>3 DEF ReleaseInv

\* A step of a running request, towards new.
LEMMA ReleaseStep ==
  ASSUME P!ConstantsAssumption, ReleaseInv, NEW h \in ReleaseSetup.Handlers, rOp[h].pc # "idle",
         NEW new \in P!Ops, P!Set(h, new), ReleaseTables', ReleaseShape(new),
         rDisturbed' = rDisturbed,
         ~ rDisturbed /\ new.pc = "idle" => ReleaseCalm',
         ~ rDisturbed /\ new.pc # "idle" => ReleaseStage(new)'
  PROVE  ReleaseInv'
<1>1. rOp \in [ReleaseSetup.Handlers -> P!Ops] /\ rDisturbed \in BOOLEAN
  BY ReleaseParts DEF ReleaseInv, ReleaseTables
<1>2. /\ rOp' \in [ReleaseSetup.Handlers -> P!Ops] /\ rOp'[h] = new
      /\ \A g \in ReleaseSetup.Handlers \ {h} : rOp'[g] = rOp[g]
  BY <1>1 DEF P!Set
<1>3. P!TypeOK'
  BY <1>2, ReleasePartsNext
<1>4. \A g \in ReleaseSetup.Handlers : ReleaseShape(rOp[g])'
  BY <1>2 DEF ReleaseInv, ReleaseShape
<1>5. ASSUME ~ rDisturbed' PROVE ReleaseAlone'
  <2>1. ReleaseAlone
    BY <1>1, <1>5 DEF ReleaseInv
  <2>2. \A g \in ReleaseSetup.Handlers \ {h} : rOp'[g].pc = "idle"
    BY <1>2, <2>1 DEF ReleaseAlone
  <2>3. P!Resting' => ReleaseCalm'
    BY <1>2, <1>5 DEF P!Resting
  <2>4. new.pc # "idle" => ReleaseStage(rOp[h])'
    BY <1>2, <1>5 DEF ReleaseStage
  <2> QED
    BY <1>2, <2>2, <2>3, <2>4 DEF ReleaseAlone
<1> QED
  BY <1>3, <1>4, <1>5 DEF ReleaseInv

\* What a request that nothing disturbed may rely on.
LEMMA ReleaseUndisturbed ==
  ASSUME ReleaseInv, NEW h \in ReleaseSetup.Handlers
  PROVE  /\ rOp[h] \in P!Ops /\ ReleaseTables /\ ReleaseShape(rOp[h])
         /\ ~ rDisturbed /\ rOp[h].pc # "idle" => ReleaseStage(rOp[h])
         /\ ~ rDisturbed /\ P!Resting => ReleaseCalm
  BY ReleaseParts DEF ReleaseInv, ReleaseAlone

LEMMA ReleaseCall == ASSUME P!ConstantsAssumption, ReleaseInv, NEW h \in ReleaseSetup.Handlers, P!Call(h) PROVE ReleaseInv'
<1>1. PICK goal \in DOMAIN P!Copies :
        /\ goal = "rollback" => file["bak"] # ReleaseSetup.None
        /\ P!Set(h, [P!Idle EXCEPT !.kind = goal,
                     !.pc = CASE goal = "seed" -> "decide" [] goal = "push" -> "trigger"
                              [] OTHER -> "open"])
        /\ before' = IF goal = "promote" THEN file["golden"] ELSE before
  BY DEF P!Call
<1> DEFINE pc == CASE goal = "seed" -> "decide" [] goal = "push" -> "trigger" [] OTHER -> "open"
           new == [P!Idle EXCEPT !.kind = goal, !.pc = pc]
<1>2. /\ rOp[h].pc = "idle" /\ rFuel > 0 /\ rFuel' = rFuel - 1 /\ rDisturbed' = (rDisturbed \/ ~ P!Resting)
      /\ UNCHANGED <<file, deployed, devTrigger, devPush, served, built>>
  BY DEF P!Call, P!Spend, P!meta
<1>3. /\ rOp \in [ReleaseSetup.Handlers -> P!Ops] /\ ReleaseTables /\ \A g \in ReleaseSetup.Handlers : ReleaseShape(rOp[g])
  BY ReleaseParts DEF ReleaseInv
<1>4. goal \in {"seed", "rollback", "promote", "push"}
  BY DEF P!Copies
<1>10. /\ goal = "seed" => pc = "decide"
       /\ goal = "push" => pc = "trigger"
       /\ goal \in {"rollback", "promote"} => pc = "open"
  BY <1>4
<1>11. P!Set(h, new)
  BY <1>1
<1> HIDE DEF pc
<1>5. /\ new \in P!Ops /\ new.kind = goal /\ new.nth = 1 /\ new.pc = pc /\ new.pc # "idle"
  <2>1. pc \in {"decide", "trigger", "open"}
    BY <1>4, <1>10
  <2> QED
    BY <1>4, <2>1, ReleaseIdle DEF P!Ops
<1> HIDE DEF new
<1>6. /\ rOp' \in [ReleaseSetup.Handlers -> P!Ops] /\ rOp'[h] = new
      /\ \A g \in ReleaseSetup.Handlers \ {h} : rOp'[g] = rOp[g]
  BY <1>11, <1>3, <1>5 DEF P!Set
<1>7. P!TypeOK'
  BY <1>1, <1>2, <1>3, <1>6, ReleasePartsNext DEF ReleaseTables, P!Files, P!ConstantsAssumption
<1>8. \A g \in ReleaseSetup.Handlers : ReleaseShape(rOp[g])'
  BY <1>3, <1>4, <1>5, <1>6, <1>10 DEF ReleaseShape
<1>9. ASSUME ~ rDisturbed' PROVE ReleaseAlone'
  <2>1. P!Resting /\ ReleaseCalm /\ ~ rDisturbed
    BY <1>2, <1>3, <1>9, ReleaseUndisturbed DEF ReleaseTables
  <2>2. \A g \in ReleaseSetup.Handlers \ {h} : rOp'[g].pc = "idle"
    BY <1>6, <2>1 DEF P!Resting
  <2>3. ReleaseStage(new)'
    BY <1>1, <1>2, <1>4, <1>5, <1>10, <2>1 DEF ReleaseCalm, ReleaseStage
  <2> QED
    BY <1>5, <1>6, <2>2, <2>3 DEF ReleaseAlone, P!Resting
<1> QED
  BY <1>7, <1>8, <1>9 DEF ReleaseInv

LEMMA ReleaseDecide ==
  ASSUME P!ConstantsAssumption, ReleaseInv, NEW h \in ReleaseSetup.Handlers, P!Decide(h) PROVE ReleaseInv'
<1> DEFINE k == rOp[h]
<1>1. /\ k \in P!Ops /\ ReleaseTables /\ ReleaseShape(k)
      /\ ~ rDisturbed => ReleaseStage(k)
  BY ReleaseUndisturbed DEF P!Decide
<1> DEFINE to == [k EXCEPT !.pc = "open"]
<1>7. to \in P!Ops
  BY <1>1 DEF P!Ops
<1>2. PICK new \in P!Ops :
        /\ new = to /\ new.kind = k.kind /\ new.nth = k.nth /\ new.hash = k.hash
        /\ new.pc = "open"
  BY <1>1, <1>7 DEF P!Ops
<1>3. /\ k.pc # "idle" /\ P!Set(h, to)
      /\ devPush' = FALSE /\ k.pc = "decide"
      /\ file' = file /\ deployed' = deployed /\ served' = served
      /\ before' = before /\ built' = built /\ rDisturbed' = rDisturbed
      /\ rFuel' = rFuel
      /\ devTrigger' \in BOOLEAN
  BY DEF P!Decide, P!Goto, P!meta, P!hist
<1> HIDE DEF to
<1>8. devPush' \in BOOLEAN
  BY <1>3
<1>9. ReleaseTables'
  BY <1>1, <1>3, <1>8 DEF ReleaseTables
<1>4. ReleaseTables' /\ ReleaseShape(new)
  BY <1>1, <1>2, <1>3, <1>9 DEF ReleaseShape
<1>5. ASSUME ~ rDisturbed PROVE ReleaseStage(new)'
  <2>1. ReleaseStage(k)
    BY <1>1, <1>5
  <2> QED
    BY <1>2, <1>3, <2>1 DEF ReleaseStage
<1>6. new.pc # "idle"
  BY <1>2
<1> QED
  BY <1>2, <1>3, <1>4, <1>5, <1>6, ReleaseStep DEF P!Set


LEMMA ReleaseTrigger ==
  ASSUME P!ConstantsAssumption, ReleaseInv, NEW h \in ReleaseSetup.Handlers, P!Trigger(h) PROVE ReleaseInv'
<1> DEFINE k == rOp[h]
<1>1. /\ k \in P!Ops /\ ReleaseTables /\ ReleaseShape(k)
      /\ ~ rDisturbed => ReleaseStage(k)
  BY ReleaseUndisturbed DEF P!Trigger
<1> DEFINE to == [k EXCEPT !.pc = IF k.kind = "push" THEN "flag" ELSE "hash"]
<1>7. to \in P!Ops
  BY <1>1 DEF P!Ops
<1>2. PICK new \in P!Ops :
        /\ new = to /\ new.kind = k.kind /\ new.nth = k.nth /\ new.hash = k.hash
        /\ new.pc = IF k.kind = "push" THEN "flag" ELSE "hash"
  BY <1>1, <1>7 DEF P!Ops
<1>3. /\ k.pc # "idle" /\ P!Set(h, to)
      /\ k.pc = "trigger" /\ devTrigger' \in BOOLEAN
      /\ IF k.kind = "push" THEN devTrigger' ELSE ~ devTrigger'
      /\ file' = file /\ deployed' = deployed /\ devPush' = devPush
      /\ served' = served /\ before' = before /\ built' = built
      /\ rDisturbed' = rDisturbed /\ rFuel' = rFuel
  BY DEF P!Trigger, P!Goto, P!meta, P!hist
<1> HIDE DEF to
<1>4. ReleaseTables' /\ ReleaseShape(new)
  BY <1>1, <1>2, <1>3, ReleaseIdle DEF ReleaseTables, ReleaseShape, P!Ops
<1>5. ASSUME ~ rDisturbed PROVE ReleaseStage(new)'
  <2>1. ReleaseStage(k)
    BY <1>1, <1>5
  <2>2. CASE k.kind = "push"
    BY <1>2, <1>3, <2>1, <2>2 DEF ReleaseStage
  <2>3. CASE k.kind # "push"
    <3>1. k.kind \in {"promote", "rollback"} /\ ~ devPush /\ ~ devPush'
      BY <1>1, <1>3, <2>1, <2>3 DEF ReleaseStage, P!Ops
    <3> QED
      BY <1>2, <1>3, <2>1, <2>3, <3>1 DEF ReleaseStage
  <2> QED
    BY <2>2, <2>3
<1>6. new.pc # "idle"
  BY <1>2
<1> QED
  BY <1>2, <1>3, <1>4, <1>5, <1>6, ReleaseStep DEF P!Set


LEMMA ReleaseHash ==
  ASSUME P!ConstantsAssumption, ReleaseInv, NEW h \in ReleaseSetup.Handlers, P!Hash(h) PROVE ReleaseInv'
<1> DEFINE k == rOp[h]
<1>1. /\ k \in P!Ops /\ ReleaseTables /\ ReleaseShape(k)
      /\ ~ rDisturbed => ReleaseStage(k)
  BY ReleaseUndisturbed DEF P!Hash
<1> DEFINE to == [k EXCEPT !.pc = "store", !.hash = file["golden"]]
<1>7. to \in P!Ops
  BY <1>1 DEF P!Ops, ReleaseTables, P!Files
<1>2. PICK new \in P!Ops :
        /\ new = to /\ new.kind = k.kind /\ new.nth = k.nth /\ new.hash = file["golden"]
        /\ new.pc = "store"
  BY <1>1, <1>7 DEF P!Ops
<1>3. /\ k.pc # "idle" /\ P!Set(h, to)
      /\ k.pc = "hash"
      /\ file' = file /\ deployed' = deployed /\ devTrigger' = devTrigger
      /\ devPush' = devPush /\ served' = served /\ before' = before
      /\ built' = built /\ rDisturbed' = rDisturbed /\ rFuel' = rFuel
  BY DEF P!Hash, P!Goto, P!meta, P!hist
<1> HIDE DEF to
<1>4. ReleaseTables' /\ ReleaseShape(new)
  BY <1>1, <1>2, <1>3, ReleaseIdle DEF ReleaseTables, ReleaseShape, P!Ops
<1>5. ASSUME ~ rDisturbed PROVE ReleaseStage(new)'
  <2>1. ReleaseStage(k)
    BY <1>1, <1>5
  <2> QED
    BY <1>2, <1>3, <2>1 DEF ReleaseStage
<1>6. new.pc # "idle"
  BY <1>2
<1> QED
  BY <1>2, <1>3, <1>4, <1>5, <1>6, ReleaseStep DEF P!Set


LEMMA ReleaseStore ==
  ASSUME P!ConstantsAssumption, ReleaseInv, NEW h \in ReleaseSetup.Handlers, P!Store(h) PROVE ReleaseInv'
<1> DEFINE k == rOp[h]
<1>1. /\ k \in P!Ops /\ ReleaseTables /\ ReleaseShape(k)
      /\ ~ rDisturbed => ReleaseStage(k)
  BY ReleaseUndisturbed DEF P!Store
<1> DEFINE to == [k EXCEPT !.pc = "tell"]
<1>7. to \in P!Ops
  BY <1>1 DEF P!Ops
<1>2. PICK new \in P!Ops :
        /\ new = to /\ new.kind = k.kind /\ new.nth = k.nth /\ new.hash = k.hash
        /\ new.pc = "tell"
  BY <1>1, <1>7 DEF P!Ops
<1>3. /\ k.pc # "idle" /\ P!Set(h, to)
      /\ k.pc = "store" /\ deployed' = k.hash
      /\ file' = file /\ devTrigger' = devTrigger /\ devPush' = devPush
      /\ served' = served /\ before' = before /\ built' = built
      /\ rDisturbed' = rDisturbed /\ rFuel' = rFuel
  BY DEF P!Store, P!Goto, P!meta, P!hist
<1> HIDE DEF to
<1>4. ReleaseTables' /\ ReleaseShape(new)
  BY <1>1, <1>2, <1>3, ReleaseIdle DEF ReleaseTables, ReleaseShape, P!Ops
<1>5. ASSUME ~ rDisturbed PROVE ReleaseStage(new)'
  <2>1. ReleaseStage(k)
    BY <1>1, <1>5
  <2>2. k.kind \in {"promote", "rollback"}
    BY <1>1, <1>3, <2>1 DEF ReleaseStage, P!Ops
  <2>3. k.hash = file["golden"] /\ file["golden"] \in ReleaseSetup.Versions
    BY <1>3, <2>1, <2>2 DEF ReleaseStage
  <2> QED
    BY <1>2, <1>3, <2>1, <2>2, <2>3 DEF ReleaseStage
<1>6. new.pc # "idle"
  BY <1>2
<1> QED
  BY <1>2, <1>3, <1>4, <1>5, <1>6, ReleaseStep DEF P!Set

LEMMA ReleaseOpen ==
  ASSUME P!ConstantsAssumption, ReleaseInv, NEW h \in ReleaseSetup.Handlers, P!Open(h) PROVE ReleaseInv'
<1> DEFINE k == rOp[h]
           to == [k EXCEPT !.pc = "close"]
<1>1. /\ k \in P!Ops /\ ReleaseTables /\ ReleaseShape(k)
      /\ ~ rDisturbed => ReleaseStage(k)
  BY ReleaseUndisturbed DEF P!Open
<1>2. to \in P!Ops
  BY <1>1 DEF P!Ops
<1>3. PICK new \in P!Ops :
        /\ new = to /\ new.kind = k.kind /\ new.nth = k.nth /\ new.hash = k.hash
        /\ new.pc = "close"
  BY <1>1, <1>2 DEF P!Ops
<1>4. /\ k.pc = "open" /\ P!Set(h, to)
      /\ file' = [file EXCEPT ![P!Into(k)] = ReleaseSetup.Torn]
      /\ deployed' = deployed /\ served' = served /\ before' = before
      /\ devTrigger' = devTrigger /\ devPush' = devPush /\ built' = built
      /\ rDisturbed' = rDisturbed /\ rFuel' = rFuel
  BY DEF P!Open, P!Goto, P!meta, P!hist
<1> HIDE DEF to
<1>5. ReleaseShape(new) /\ new.pc # "idle"
  BY <1>1, <1>3, <1>4 DEF ReleaseShape
<1>6. file \in [P!Files -> ReleaseSetup.Versions \cup {ReleaseSetup.None, ReleaseSetup.Torn}]
  BY <1>1 DEF ReleaseTables
<1>7. file' \in [P!Files -> ReleaseSetup.Versions \cup {ReleaseSetup.None, ReleaseSetup.Torn}]
  BY <1>4, <1>6
<1>8. ReleaseTables'
  BY <1>1, <1>4, <1>7 DEF ReleaseTables
<1>9. ASSUME ~ rDisturbed PROVE ReleaseStage(new)'
  <2>1. ReleaseStage(k)
    BY <1>1, <1>9
  <2>2. CASE k.kind = "seed"
    <3>1. /\ file'["golden"] = file["golden"] /\ file'["bak"] = file["bak"]
      BY <1>1, <1>4, <1>6, <2>2, ReleaseCopies DEF P!Files
    <3> QED
      BY <1>3, <1>4, <2>1, <2>2, <3>1 DEF ReleaseStage
  <2>3. CASE k.kind = "promote"
    <3>1. /\ k.nth = 2 \/ file'["golden"] = file["golden"]
          /\ k.nth = 1 \/ file'["bak"] = file["bak"]
          /\ file'["edge"] = file["edge"]
      BY <1>1, <1>4, <1>6, <2>3, ReleaseCopies DEF P!Files
    <3> QED
      BY <1>3, <1>4, <2>1, <2>3, <3>1 DEF ReleaseStage
  <2>4. CASE k.kind = "rollback"
    <3>1. /\ k.nth = 1 \/ file'["golden"] = file["golden"]
          /\ file'["bak"] = file["bak"] /\ file'["edge"] = file["edge"]
      BY <1>1, <1>4, <1>6, <2>4, ReleaseCopies DEF P!Files
    <3> QED
      BY <1>3, <1>4, <2>1, <2>4, <3>1 DEF ReleaseStage
  <2> QED
    BY <1>1, <1>4, <2>2, <2>3, <2>4, ReleaseCopies
<1> QED
  BY <1>3, <1>4, <1>5, <1>8, <1>9, ReleaseStep DEF P!Set

LEMMA ReleaseClose ==
  ASSUME P!ConstantsAssumption, ReleaseInv, NEW h \in ReleaseSetup.Handlers, P!Close(h) PROVE ReleaseInv'
<1> DEFINE k == rOp[h]
<1>1. /\ k \in P!Ops /\ ReleaseTables /\ ReleaseShape(k)
      /\ ~ rDisturbed => ReleaseStage(k)
  BY ReleaseUndisturbed DEF P!Close
<1>4. /\ k.pc = "close"
      /\ file' = [file EXCEPT ![P!Into(k)] = file[P!From(k)]]
      /\ P!Set(h, IF k.kind = "seed" THEN P!Idle
                ELSE IF k.nth = Len(P!Copies[k.kind]) THEN [k EXCEPT !.pc = "flag"]
                ELSE [k EXCEPT !.pc = "open", !.nth = @ + 1])
      /\ deployed' = deployed /\ served' = served /\ before' = before
      /\ devTrigger' = devTrigger /\ devPush' = devPush /\ built' = built
      /\ rDisturbed' = rDisturbed /\ rFuel' = rFuel
  BY DEF P!Close, P!meta, P!hist
<1>5. file \in [P!Files -> ReleaseSetup.Versions \cup {ReleaseSetup.None, ReleaseSetup.Torn}]
  BY <1>1 DEF ReleaseTables
<1>6. P!From(k) \in P!Files /\ P!Into(k) \in P!Files
  BY <1>1, <1>4, ReleaseCopies
<1>7. file' \in [P!Files -> ReleaseSetup.Versions \cup {ReleaseSetup.None, ReleaseSetup.Torn}]
  BY <1>4, <1>5, <1>6
<1>8. ReleaseTables'
  BY <1>1, <1>4, <1>7 DEF ReleaseTables
<1>9. CASE k.kind = "seed"
  <2>1. file'["golden"] = file["golden"] /\ file'["bak"] = file["bak"] /\ file'["edge"] = file["golden"]
    BY <1>1, <1>4, <1>5, <1>9, ReleaseCopies DEF P!Files
  <2>2. ASSUME ~ rDisturbed PROVE ReleaseCalm'
    BY <1>1, <1>4, <1>9, <2>1, <2>2 DEF ReleaseStage, ReleaseCalm
  <2>3. P!Set(h, P!Idle)
    BY <1>4, <1>9
  <2> QED
    BY <1>4, <1>8, <2>2, <2>3, ReleaseIdle, ReleaseStep
<1>10. CASE k.kind = "promote"
  <2>1. /\ IF k.nth = 2 THEN file'["golden"] = file["edge"] ELSE file'["golden"] = file["golden"]
        /\ IF k.nth = 1 THEN file'["bak"] = file["golden"] ELSE file'["bak"] = file["bak"]
        /\ file'["edge"] = file["edge"] /\ k.nth \in {1, 2, 3} /\ Len(P!Copies[k.kind]) = 3
    BY <1>1, <1>4, <1>5, <1>10, ReleaseCopies DEF P!Files
  <2> DEFINE to == IF k.nth = 3 THEN [k EXCEPT !.pc = "flag"]
                   ELSE [k EXCEPT !.pc = "open", !.nth = @ + 1]
  <2>2. P!Set(h, to)
    BY <1>4, <1>10, <2>1
  <2>3. to \in P!Ops
    <3>1. [k EXCEPT !.pc = "flag"] \in P!Ops
      BY <1>1 DEF P!Ops
    <3>2. k.nth \in {1, 2} => k.nth + 1 \in 1..3
      OBVIOUS
    <3>3. k.nth \in {1, 2} => [k EXCEPT !.pc = "open", !.nth = @ + 1] \in P!Ops
      BY <1>1, <3>2 DEF P!Ops
    <3> QED
      BY <2>1, <3>1, <3>3
  <2>4. PICK new \in P!Ops :
          /\ new = to /\ new.kind = k.kind /\ new.hash = k.hash
          /\ IF k.nth = 3 THEN new.pc = "flag" /\ new.nth = 3
             ELSE new.pc = "open" /\ new.nth \in {2, 3}
    <3>1. CASE k.nth = 3
      BY <1>1, <2>3, <3>1 DEF P!Ops
    <3>2. CASE k.nth # 3
      <4>1. k.nth + 1 \in {2, 3} /\ to = [k EXCEPT !.pc = "open", !.nth = @ + 1]
        BY <2>1, <3>2
      <4>2. to.nth = k.nth + 1 /\ to.pc = "open" /\ to.kind = k.kind /\ to.hash = k.hash
        BY <1>1, <4>1 DEF P!Ops
      <4> QED
        BY <2>3, <3>2, <4>1, <4>2
    <3> QED
      BY <3>1, <3>2
  <2> HIDE DEF to
  <2>5. ReleaseShape(new) /\ new.pc # "idle"
    BY <1>10, <2>4 DEF ReleaseShape
  <2>6. ASSUME ~ rDisturbed PROVE ReleaseStage(new)'
    <3>1. ReleaseStage(k)
      BY <1>1, <2>6
    <3> QED
      BY <1>4, <1>10, <2>1, <2>4, <3>1 DEF ReleaseStage
  <2> QED
    BY <1>4, <1>8, <2>2, <2>4, <2>5, <2>6, ReleaseStep DEF P!Set
<1>11. CASE k.kind = "rollback"
  <2>1. /\ IF k.nth = 1 THEN file'["golden"] = file["bak"] ELSE file'["golden"] = file["golden"]
        /\ file'["bak"] = file["bak"] /\ k.nth \in {1, 2}
        /\ file'["edge"] = file["edge"] /\ Len(P!Copies[k.kind]) = 2
    BY <1>1, <1>4, <1>5, <1>11, ReleaseCopies DEF P!Files, ReleaseShape
  <2> DEFINE to == IF k.nth = 2 THEN [k EXCEPT !.pc = "flag"]
                   ELSE [k EXCEPT !.pc = "open", !.nth = @ + 1]
  <2>2. P!Set(h, to)
    BY <1>4, <1>11, <2>1
  <2>3. to \in P!Ops
    <3>1. [k EXCEPT !.pc = "flag"] \in P!Ops
      BY <1>1 DEF P!Ops
    <3>2. k.nth \in {1, 2} => k.nth + 1 \in 1..3
      OBVIOUS
    <3>3. k.nth \in {1, 2} => [k EXCEPT !.pc = "open", !.nth = @ + 1] \in P!Ops
      BY <1>1, <3>2 DEF P!Ops
    <3> QED
      BY <2>1, <3>1, <3>3
  <2>4. PICK new \in P!Ops :
          /\ new = to /\ new.kind = k.kind /\ new.hash = k.hash /\ new.nth = 2
          /\ IF k.nth = 2 THEN new.pc = "flag" ELSE new.pc = "open"
    <3>1. CASE k.nth = 2
      BY <1>1, <2>3, <3>1 DEF P!Ops
    <3>2. CASE k.nth # 2
      <4>1. k.nth + 1 = 2 /\ to = [k EXCEPT !.pc = "open", !.nth = @ + 1]
        BY <2>1, <3>2
      <4>2. to.nth = k.nth + 1 /\ to.pc = "open" /\ to.kind = k.kind /\ to.hash = k.hash
        BY <1>1, <4>1 DEF P!Ops
      <4> QED
        BY <2>3, <3>2, <4>1, <4>2
    <3> QED
      BY <3>1, <3>2
  <2> HIDE DEF to
  <2>5. ReleaseShape(new) /\ new.pc # "idle"
    BY <1>11, <2>4 DEF ReleaseShape
  <2>6. ASSUME ~ rDisturbed PROVE ReleaseStage(new)'
    <3>1. ReleaseStage(k)
      BY <1>1, <2>6
    <3> QED
      BY <1>4, <1>11, <2>1, <2>4, <3>1 DEF ReleaseStage
  <2> QED
    BY <1>4, <1>8, <2>2, <2>4, <2>5, <2>6, ReleaseStep DEF P!Set
<1> QED
  BY <1>1, <1>4, <1>9, <1>10, <1>11, ReleaseCopies

LEMMA ReleaseFlag ==
  ASSUME P!ConstantsAssumption, ReleaseInv, NEW h \in ReleaseSetup.Handlers, P!Flag(h) PROVE ReleaseInv'
<1> DEFINE k == rOp[h]
<1>1. /\ k \in P!Ops /\ ReleaseTables /\ ReleaseShape(k)
      /\ ~ rDisturbed => ReleaseStage(k)
  BY ReleaseUndisturbed DEF P!Flag
<1>2. /\ k.pc = "flag" /\ devPush' \in BOOLEAN
      /\ IF k.kind = "push" THEN devPush' /\ P!Set(h, P!Idle)
         ELSE ~ devPush' /\ P!Set(h, [k EXCEPT !.pc = "trigger"])
      /\ file' = file /\ deployed' = deployed /\ served' = served /\ before' = before
      /\ devTrigger' = devTrigger /\ built' = built
      /\ rDisturbed' = rDisturbed /\ rFuel' = rFuel
  BY DEF P!Flag, P!Goto, P!hist
<1>3. ReleaseTables'
  BY <1>1, <1>2 DEF ReleaseTables
<1>4. CASE k.kind = "push"
  <2>1. ASSUME ~ rDisturbed PROVE ReleaseCalm'
    <3>1. ReleaseStage(k)
      BY <1>1, <2>1
    <3>2. devTrigger' = devTrigger /\ devTrigger
      BY <1>2, <1>4, <3>1 DEF ReleaseStage
    <3>3. devTrigger'
      BY <3>2
    <3>4. /\ deployed = served /\ deployed \in ReleaseSetup.Versions /\ (~ built => file["golden"] = served)
          /\ file["golden"] \in ReleaseSetup.Versions /\ file["edge"] \in ReleaseSetup.Versions
          /\ file["bak"] = before /\ before \in ReleaseSetup.Versions \cup {ReleaseSetup.None}
      BY <1>2, <1>4, <3>1 DEF ReleaseStage
    <3> QED
      BY <1>2, <3>3, <3>4 DEF ReleaseCalm
  <2> QED
    BY <1>2, <1>3, <1>4, <2>1, ReleaseIdle, ReleaseStep
<1>5. CASE k.kind # "push"
  <2> DEFINE to == [k EXCEPT !.pc = "trigger"]
  <2>1. to \in P!Ops
    BY <1>1 DEF P!Ops
  <2>2. PICK new \in P!Ops :
          /\ new = to /\ new.kind = k.kind /\ new.hash = k.hash /\ new.nth = k.nth
          /\ new.pc = "trigger"
    BY <1>1, <2>1 DEF P!Ops
  <2> HIDE DEF to
  <2>3. ReleaseShape(new) /\ new.pc # "idle" /\ P!Set(h, to)
    BY <1>1, <1>2, <1>5, <2>2 DEF ReleaseShape, to
  <2>4. ASSUME ~ rDisturbed PROVE ReleaseStage(new)'
    <3>1. ReleaseStage(k)
      BY <1>1, <2>4
    <3>2. k.kind \in {"promote", "rollback"}
      BY <1>1, <1>2, <1>5, <3>1 DEF ReleaseStage, P!Ops
    <3> QED
      BY <1>2, <1>5, <2>2, <3>1, <3>2 DEF ReleaseStage
  <2> QED
    BY <1>2, <1>3, <2>2, <2>3, <2>4, ReleaseStep DEF P!Set
<1> QED
  BY <1>4, <1>5

LEMMA ReleaseTell ==
  ASSUME P!ConstantsAssumption, ReleaseInv, NEW h \in ReleaseSetup.Handlers, P!Tell(h) PROVE ReleaseInv'
<1> DEFINE k == rOp[h]
<1>1. /\ k \in P!Ops /\ ReleaseTables
      /\ ~ rDisturbed => ReleaseStage(k)
  BY ReleaseUndisturbed DEF P!Tell
<1>2. /\ k.pc = "tell" /\ served' = file["golden"] /\ ~ built' /\ built' \in BOOLEAN
      /\ P!Set(h, P!Idle)
      /\ file' = file /\ deployed' = deployed /\ before' = before
      /\ devTrigger' = devTrigger /\ devPush' = devPush
      /\ rDisturbed' = rDisturbed /\ rFuel' = rFuel
  BY DEF P!Tell, P!meta
<1>3. served' \in ReleaseSetup.Versions \cup {ReleaseSetup.None, ReleaseSetup.Torn}
  BY <1>1, <1>2 DEF ReleaseTables, P!Files
<1>4. ReleaseTables'
  BY <1>1, <1>2, <1>3 DEF ReleaseTables
<1>5. ASSUME ~ rDisturbed PROVE ReleaseCalm'
  <2>1. ReleaseStage(k)
    BY <1>1, <1>5
  <2>2. k.kind \in {"promote", "rollback"} /\ ~ devPush
    BY <1>1, <1>2, <2>1 DEF ReleaseStage, P!Ops
  <2> QED
    BY <1>2, <2>1, <2>2 DEF ReleaseStage, ReleaseCalm
<1> QED
  BY <1>2, <1>4, <1>5, ReleaseIdle, ReleaseStep

LEMMA ReleaseFaults ==
  ASSUME P!ConstantsAssumption, ReleaseInv, P!Upgrade \/ \E h \in ReleaseSetup.Handlers : P!Cut(h)
  PROVE  ReleaseInv'
<1>1. ReleaseTables /\ rOp \in [ReleaseSetup.Handlers -> P!Ops] /\ \A h \in ReleaseSetup.Handlers : ReleaseShape(rOp[h])
  BY ReleaseParts DEF ReleaseInv
<1>2. CASE P!Upgrade
  <2>1. PICK build \in ReleaseSetup.Versions, edge \in ReleaseSetup.Versions :
          file' = [file EXCEPT !["golden"] = build, !["source"] = build, !["edge"] = edge]
    BY <1>2 DEF P!Upgrade
  <2>2. /\ P!Resting /\ built' /\ built' \in BOOLEAN /\ rFuel > 0 /\ rFuel' = rFuel - 1
        /\ deployed' = deployed /\ served' = served /\ before' = before /\ rOp' = rOp
        /\ devTrigger' = devTrigger /\ devPush' = devPush
        /\ rDisturbed' = rDisturbed
    BY <1>2 DEF P!Upgrade, P!meta, P!Spend
  <2>3. file' \in [P!Files -> ReleaseSetup.Versions \cup {ReleaseSetup.None, ReleaseSetup.Torn}] /\ rFuel' \in 0..ReleaseSetup.Budget
    <3>1. file \in [P!Files -> ReleaseSetup.Versions \cup {ReleaseSetup.None, ReleaseSetup.Torn}] /\ rFuel \in 0..ReleaseSetup.Budget
      BY <1>1 DEF ReleaseTables
    <3>2. file' \in [P!Files -> ReleaseSetup.Versions \cup {ReleaseSetup.None, ReleaseSetup.Torn}]
      BY <2>1, <3>1
    <3> QED
      BY <2>2, <3>1, <3>2 DEF P!ConstantsAssumption
  <2>4. P!TypeOK' /\ \A h \in ReleaseSetup.Handlers : ReleaseShape(rOp[h])'
    <3>1. ReleaseTables'
      BY <1>1, <2>2, <2>3 DEF ReleaseTables
    <3> QED
      BY <1>1, <2>2, <3>1, ReleasePartsNext DEF ReleaseShape
  <2>5. ASSUME ~ rDisturbed PROVE ReleaseAlone'
    <3>1. ReleaseCalm
      BY <2>2, <2>5 DEF ReleaseInv, ReleaseAlone
    <3>2. file'["golden"] \in ReleaseSetup.Versions /\ file'["edge"] \in ReleaseSetup.Versions /\ file'["bak"] = file["bak"]
      BY <1>1, <2>1 DEF ReleaseTables, P!Files
    <3>3. ReleaseCalm'
      BY <2>2, <3>1, <3>2 DEF ReleaseCalm
    <3> QED
      BY <2>2, <3>3 DEF ReleaseAlone, P!Resting
  <2> QED
    BY <2>2, <2>4, <2>5 DEF ReleaseInv
<1>3. CASE \E h \in ReleaseSetup.Handlers : P!Cut(h)
  <2>1. PICK h \in ReleaseSetup.Handlers : P!Cut(h)
    BY <1>3
  <2>2. /\ rDisturbed' /\ rDisturbed' \in BOOLEAN /\ rFuel > 0 /\ rFuel' = rFuel - 1 /\ P!Set(h, P!Idle)
        /\ file' = file /\ deployed' = deployed /\ served' = served /\ before' = before
        /\ devTrigger' = devTrigger /\ devPush' = devPush /\ built' = built
    BY <2>1 DEF P!Cut, P!Spend, P!meta
  <2>3. rOp' \in [ReleaseSetup.Handlers -> P!Ops] /\ \A g \in ReleaseSetup.Handlers : ReleaseShape(rOp[g])'
    BY <1>1, <2>2, ReleaseIdle DEF P!Set, ReleaseShape
  <2>4. rFuel' \in 0..ReleaseSetup.Budget
    BY <1>1, <2>2 DEF ReleaseTables, P!ConstantsAssumption
  <2>5. ReleaseTables'
    BY <1>1, <2>2, <2>4 DEF ReleaseTables
  <2> QED
    BY <2>2, <2>3, <2>5, ReleasePartsNext DEF ReleaseInv
<1> QED
  BY <1>2, <1>3

LEMMA ReleaseKeeps == ASSUME P!ConstantsAssumption, ReleaseInv, [P!Next]_(P!vars) PROVE ReleaseInv'
<1>1. CASE \E h \in ReleaseSetup.Handlers : P!Step(h)
  BY <1>1, ReleaseCall, ReleaseDecide, ReleaseOpen, ReleaseClose, ReleaseTrigger, ReleaseFlag,
     ReleaseHash, ReleaseStore, ReleaseTell DEF P!Step
<1>2. CASE P!Upgrade \/ \E h \in ReleaseSetup.Handlers : P!Cut(h)
  BY <1>2, ReleaseFaults
<1>3. CASE UNCHANGED P!vars
  <2>1. /\ file' = file /\ deployed' = deployed /\ served' = served /\ before' = before
        /\ devTrigger' = devTrigger /\ devPush' = devPush /\ built' = built
        /\ rDisturbed' = rDisturbed /\ rFuel' = rFuel /\ rOp' = rOp
    BY <1>3 DEF P!vars, P!meta, P!hist
  <2>2. P!TypeOK' /\ \A h \in ReleaseSetup.Handlers : ReleaseShape(rOp[h])'
    BY <2>1 DEF ReleaseInv, P!TypeOK, ReleaseShape
  <2>3. ReleaseAlone => ReleaseAlone'
    BY <2>1 DEF ReleaseAlone, ReleaseCalm, ReleaseStage, P!Resting
  <2> QED
    BY <2>1, <2>2, <2>3 DEF ReleaseInv
<1> QED
  BY <1>1, <1>2, <1>3 DEF P!Next

LEMMA ReleaseFollows == ASSUME P!ConstantsAssumption, ReleaseInv PROVE P!ReleasesConsistent
<1> SUFFICES ASSUME P!Resting, ~ rDisturbed
             PROVE  P!DeployedIsServed /\ P!BackupIsPrevious /\ P!FlagsAgree
  BY DEF P!ReleasesConsistent
<1>1. ReleaseCalm
  BY DEF ReleaseInv, ReleaseAlone
<1> QED
  BY <1>1 DEF ReleaseCalm, P!DeployedIsServed, P!BackupIsPrevious, P!FlagsAgree, P!Pipeline,
              P!ConstantsAssumption

-----------------------------------------------------------------------------
(* Learning: what a mark cleared stays out of the cache.                   *)

(* The inductive invariant.                                                *)

LearnActive(s) == scan[s].pc # "idle"
LearnScanning == {"dismissed", "rules", "rows", "store"}
LearnSpares(shown, commands) == \A gap \in shown : gap[2] \notin commands

\* What a scan of its own has read and recorded.  A mark has recorded its commands by
\* the time its second scan begins; that scan leaves them out, and all before them.
LearnScan(s) ==
  LET k == scan[s] IN
  /\ k.pc \in LearnScanning => k.todo \subseteq dismissed /\ k.todo \subseteq seen
  /\ k.pc \in {"rules", "rows"} => cleared \subseteq k.skip /\ k.todo \subseteq k.skip
  /\ k.pc = "store" => LearnSpares(k.found, cleared) /\ LearnSpares(k.found, k.todo)
  /\ k.pc = "write" => k.skip = seen
  /\ k.pc = "dismiss" => /\ k.todo \subseteq seen
                         /\ \A c \in k.todo : c \in k.skip \/ c \in dismissed

LearnOneScan == \A r, s \in L!Scans : LearnActive(r) /\ LearnActive(s) => r = s

\* Until two scans overlap.
LearnAlone ==
  /\ LearnOneScan
  /\ cleared \subseteq dismissed /\ cleared \subseteq seen /\ LearnSpares(gaps, cleared)
  /\ \A s \in L!Scans : LearnScan(s)

LearnInv == L!TypeOK /\ (lOverlap \/ LearnAlone)

-----------------------------------------------------------------------------
(* Types.                                                                  *)

LearnRecords == [pc : {"idle", "dismissed", "rules", "rows", "store", "mark", "write", "dismiss"},
            mark : BOOLEAN, skip : SUBSET L!Commands, ruled : SUBSET LearnSetup.Gaps,
            found : SUBSET LearnSetup.Gaps, todo : SUBSET L!Commands]

LearnTables ==
  /\ rows \subseteq LearnSetup.Gaps /\ ruled \subseteq LearnSetup.Gaps /\ dismissed \subseteq L!Commands
  /\ seen \subseteq L!Commands /\ gaps \subseteq LearnSetup.Gaps
  /\ cleared \subseteq L!Commands /\ lOverlap \in BOOLEAN /\ lFuel \in 0..LearnSetup.Budget

LEMMA LearnParts == L!TypeOK <=> LearnTables /\ scan \in [L!Scans -> LearnRecords]
  BY DEF L!TypeOK, LearnTables, LearnRecords

LEMMA LearnPartsNext == L!TypeOK' <=> LearnTables' /\ scan' \in [L!Scans -> LearnRecords]
  BY DEF L!TypeOK, LearnTables, LearnRecords

LEMMA LearnIdle == L!Idle \in LearnRecords
  BY DEF L!Idle, LearnRecords

LEMMA LearnInit == ASSUME L!ConstantsAssumption, L!Init PROVE LearnInv
<1>1. L!TypeOK
  <2>1. lFuel \in 0..LearnSetup.Budget
    BY DEF L!Init, L!ConstantsAssumption
  <2>2. LearnTables
    BY <2>1 DEF L!Init, LearnTables
  <2>3. scan \in [L!Scans -> LearnRecords]
    BY LearnIdle DEF L!Init
  <2> QED
    BY <2>2, <2>3, LearnParts
<1>2. LearnAlone
  BY DEF L!Init, LearnAlone, LearnOneScan, LearnActive, LearnScan, L!Idle, LearnSpares, LearnScanning
<1> QED
  BY <1>1, <1>2 DEF LearnInv

\* Spending leaves a bound.
LEMMA LearnSpend == ASSUME L!ConstantsAssumption, L!TypeOK, L!Spend PROVE lFuel' \in 0..LearnSetup.Budget
  BY DEF L!ConstantsAssumption, L!TypeOK, L!Spend

-----------------------------------------------------------------------------
(* The steps of a scan.                                                    *)

\* The scans other than the one that steps are idle.
LEMMA LearnOthers ==
  ASSUME LearnAlone, NEW s \in L!Scans, LearnActive(s), NEW r \in L!Scans, r # s
  PROVE  scan[r].pc = "idle"
  BY DEF LearnAlone, LearnOneScan, LearnActive

\* A step of the only scan keeps what is said of the others.
LEMMA LearnStep ==
  ASSUME L!TypeOK, LearnAlone, NEW s \in L!Scans, LearnActive(s), NEW new, scan' = [scan EXCEPT ![s] = new],
         LearnScan(s)', cleared' \subseteq dismissed', cleared' \subseteq seen', LearnSpares(gaps, cleared)'
  PROVE  LearnAlone'
<1>1. \A r \in L!Scans \ {s} : scan'[r] = scan[r] /\ scan[r].pc = "idle"
  BY LearnOthers, LearnParts
<1>2. LearnOneScan'
  BY <1>1 DEF LearnOneScan, LearnActive
<1>3. \A r \in L!Scans \ {s} : LearnScan(r)'
  BY <1>1 DEF LearnScan, LearnScanning
<1> QED
  BY <1>2, <1>3 DEF LearnAlone

LEMMA LearnEnter == ASSUME L!ConstantsAssumption, LearnInv, NEW s \in L!Scans, L!Enter(s) PROVE LearnInv'
<1>1. PICK mark \in {s # "loop", FALSE} : L!Set(s, [L!Idle EXCEPT !.pc = "dismissed", !.mark = mark])
  BY DEF L!Enter
<1> DEFINE new == [L!Idle EXCEPT !.pc = "dismissed", !.mark = mark]
<1>2. /\ new \in LearnRecords /\ new.pc = "dismissed" /\ new.todo = {}
  BY DEF L!Idle, LearnRecords
<1>3. scan' = [scan EXCEPT ![s] = new]
  BY <1>1 DEF L!Set
<1> HIDE DEF new
<1>4. scan'[s] = new /\ \A r \in L!Scans \ {s} : scan'[r] = scan[r]
  BY <1>3, LearnParts DEF LearnInv
<1>5. lFuel' \in 0..LearnSetup.Budget
  BY LearnSpend DEF L!Enter, LearnInv, L!TypeOK
<1>6. lOverlap' \in BOOLEAN /\ (~ lOverlap' => ~ lOverlap /\ \A r \in L!Scans : scan[r].pc = "idle")
  BY LearnParts DEF L!Enter, LearnInv, LearnTables
<1>7. L!TypeOK'
  <2>1. LearnTables'
    BY <1>5, <1>6, LearnParts DEF L!Enter, LearnInv, LearnTables, L!tables
  <2>2. scan' \in [L!Scans -> LearnRecords]
    BY <1>2, <1>3, LearnParts DEF LearnInv
  <2> QED
    BY <2>1, <2>2, LearnPartsNext
<1>8. ASSUME ~ lOverlap' PROVE LearnAlone'
  <2>1. LearnAlone /\ \A r \in L!Scans : scan[r].pc = "idle"
    BY <1>6, <1>8 DEF LearnInv
  <2>2. LearnOneScan'
    BY <1>4, <2>1 DEF LearnOneScan, LearnActive
  <2>3. \A r \in L!Scans : LearnScan(r)'
    BY <1>2, <1>4, <2>1 DEF LearnScan, LearnScanning
  <2> QED
    BY <2>1, <2>2, <2>3 DEF LearnAlone, L!Enter, L!tables, LearnSpares
<1> QED
  BY <1>6, <1>7, <1>8 DEF LearnInv

\* A step of a scan that leaves tables, cache and history alone.
LEMMA LearnQuiet ==
  ASSUME LearnInv, NEW s \in L!Scans, LearnActive(s), NEW new \in LearnRecords,
         scan' = [scan EXCEPT ![s] = new], UNCHANGED <<L!tables, gaps, L!hist, lFuel>>,
         LearnAlone => LearnScan(s)'
  PROVE  LearnInv'
<1>1. L!TypeOK'
  <2>1. LearnTables'
    BY LearnParts DEF LearnInv, LearnTables, L!tables, L!hist
  <2>2. scan' \in [L!Scans -> LearnRecords]
    BY LearnParts DEF LearnInv
  <2> QED
    BY <2>1, <2>2, LearnPartsNext
<1>2. ASSUME ~ lOverlap' PROVE LearnAlone'
  <2>1. LearnAlone
    BY <1>2 DEF LearnInv, L!hist
  <2>2. cleared' \subseteq dismissed' /\ cleared' \subseteq seen' /\ LearnSpares(gaps, cleared)'
    BY <2>1 DEF LearnAlone, L!tables, L!hist, LearnSpares
  <2> QED
    BY <2>1, <2>2, LearnStep DEF LearnInv
<1>3. lOverlap' \in BOOLEAN
  BY DEF LearnInv, L!TypeOK, L!hist
<1> QED
  BY <1>1, <1>2, <1>3 DEF LearnInv

LEMMA LearnReadDismissed == ASSUME LearnInv, NEW s \in L!Scans, L!ReadDismissed(s) PROVE LearnInv'
<1> DEFINE new == [scan[s] EXCEPT !.pc = "rules", !.skip = dismissed]
<1>1. /\ new \in LearnRecords /\ new.pc = "rules" /\ new.skip = dismissed /\ new.todo = scan[s].todo
  BY LearnParts DEF LearnInv, LearnRecords, LearnTables
<1>2. scan' = [scan EXCEPT ![s] = new] /\ UNCHANGED <<L!tables, gaps, L!hist, lFuel>>
  BY DEF L!ReadDismissed, L!Set
<1> HIDE DEF new
<1>3. scan'[s] = new
  BY <1>2, LearnParts DEF LearnInv
<1>4. LearnAlone => LearnScan(s)'
  BY <1>1, <1>2, <1>3 DEF LearnAlone, LearnScan, LearnScanning, L!tables, L!hist, L!ReadDismissed
<1> QED
  BY <1>1, <1>2, <1>4, LearnQuiet DEF L!ReadDismissed, LearnActive

LEMMA LearnReadRules == ASSUME LearnInv, NEW s \in L!Scans, L!ReadRules(s) PROVE LearnInv'
<1> DEFINE new == [scan[s] EXCEPT !.pc = "rows", !.ruled = ruled]
<1>1. /\ new \in LearnRecords /\ new.pc = "rows" /\ new.skip = scan[s].skip /\ new.todo = scan[s].todo
  BY LearnParts DEF LearnInv, LearnRecords, LearnTables
<1>2. scan' = [scan EXCEPT ![s] = new] /\ UNCHANGED <<L!tables, gaps, L!hist, lFuel>>
  BY DEF L!ReadRules, L!Set
<1> HIDE DEF new
<1>3. scan'[s] = new
  BY <1>2, LearnParts DEF LearnInv
<1>4. LearnAlone => LearnScan(s)'
  BY <1>1, <1>2, <1>3 DEF LearnAlone, LearnScan, LearnScanning, L!tables, L!hist, L!ReadRules
<1> QED
  BY <1>1, <1>2, <1>4, LearnQuiet DEF L!ReadRules, LearnActive

LEMMA LearnReadRows == ASSUME LearnInv, NEW s \in L!Scans, L!ReadRows(s) PROVE LearnInv'
<1> DEFINE k == scan[s]
           left == {gap \in rows \ k.ruled : gap[2] \notin k.skip}
           marks == {gap[2] : gap \in left}
           new == [L!Idle EXCEPT !.pc = IF k.mark THEN "mark" ELSE "store", !.mark = k.mark,
                               !.found = left, !.todo = IF k.mark THEN marks ELSE k.todo]
<1>1. k \in LearnRecords /\ left \subseteq LearnSetup.Gaps /\ marks \subseteq L!Commands
  BY LearnParts DEF LearnInv, LearnTables, L!Commands
<1>2. scan' = [scan EXCEPT ![s] = new] /\ UNCHANGED <<L!tables, gaps, L!hist, lFuel>>
  BY DEF L!ReadRows, L!Set
<1>3. LearnSpares(left, k.skip)
  BY DEF LearnSpares
<1> HIDE DEF left, marks
<1>4. /\ new \in LearnRecords /\ new.pc = (IF k.mark THEN "mark" ELSE "store") /\ new.found = left
      /\ ~ k.mark => new.todo = k.todo
  BY <1>1 DEF L!Idle, LearnRecords
<1> HIDE DEF new
<1>5. scan'[s] = new
  BY <1>2, LearnParts DEF LearnInv
<1>6. LearnAlone => LearnScan(s)'
  BY <1>2, <1>3, <1>4, <1>5 DEF LearnAlone, LearnScan, LearnScanning, LearnSpares, L!tables, L!hist, L!ReadRows
<1> QED
  BY <1>2, <1>4, <1>6, LearnQuiet DEF L!ReadRows, LearnActive

LEMMA LearnMarkRead == ASSUME LearnInv, NEW s \in L!Scans, L!MarkRead(s) PROVE LearnInv'
<1> DEFINE new == [scan[s] EXCEPT !.pc = "write", !.skip = seen]
<1>1. new \in LearnRecords /\ new.pc = "write" /\ new.skip = seen
  BY LearnParts DEF LearnInv, LearnRecords, LearnTables
<1>2. scan' = [scan EXCEPT ![s] = new] /\ UNCHANGED <<L!tables, gaps, L!hist, lFuel>>
  BY DEF L!MarkRead, L!Set
<1> HIDE DEF new
<1>3. scan'[s] = new
  BY <1>2, LearnParts DEF LearnInv
<1>4. LearnAlone => LearnScan(s)'
  BY <1>1, <1>2, <1>3 DEF LearnScan, LearnScanning, L!tables
<1> QED
  BY <1>1, <1>2, <1>4, LearnQuiet DEF L!MarkRead, LearnActive

LEMMA LearnCut == ASSUME L!ConstantsAssumption, LearnInv, NEW s \in L!Scans, L!Cut(s) PROVE LearnInv'
<1>1. scan' = [scan EXCEPT ![s] = L!Idle] /\ UNCHANGED <<L!tables, gaps, L!hist>> /\ LearnActive(s)
  BY DEF L!Cut, L!Set, LearnActive
<1>2. scan'[s] = L!Idle
  BY <1>1, LearnParts DEF LearnInv
<1>3. L!TypeOK'
  <2>1. LearnTables'
    BY <1>1, LearnSpend, LearnParts DEF L!Cut, LearnInv, LearnTables, L!tables, L!hist
  <2>2. scan' \in [L!Scans -> LearnRecords]
    BY <1>1, LearnIdle, LearnParts DEF LearnInv
  <2> QED
    BY <2>1, <2>2, LearnPartsNext
<1>4. ASSUME ~ lOverlap' PROVE LearnAlone'
  <2>1. LearnAlone
    BY <1>1, <1>4 DEF LearnInv, L!hist
  <2>2. cleared' \subseteq dismissed' /\ cleared' \subseteq seen' /\ LearnSpares(gaps, cleared)'
    BY <1>1, <2>1 DEF LearnAlone, L!tables, L!hist, LearnSpares
  <2>3. LearnScan(s)'
    BY <1>2 DEF LearnScan, LearnScanning, L!Idle
  <2> QED
    BY <1>1, <2>1, <2>2, <2>3, LearnStep DEF LearnInv
<1>5. lOverlap' \in BOOLEAN
  BY <1>1 DEF LearnInv, L!TypeOK, L!hist
<1> QED
  BY <1>3, <1>4, <1>5 DEF LearnInv

-----------------------------------------------------------------------------
(* The steps that write.                                                   *)

LEMMA LearnStore == ASSUME LearnInv, NEW s \in L!Scans, L!Store(s) PROVE LearnInv'
<1> DEFINE k == scan[s]
<1>0. k \in LearnRecords /\ LearnActive(s)
  BY LearnParts DEF LearnInv, L!Store, LearnActive
<1>1. /\ scan' = [scan EXCEPT ![s] = L!Idle] /\ gaps' = k.found /\ cleared' = cleared \cup k.todo
      /\ UNCHANGED <<L!tables, lOverlap, lFuel>>
  BY DEF L!Store, L!Set
<1>2. scan'[s] = L!Idle
  BY <1>1, LearnParts DEF LearnInv
<1>3. L!TypeOK'
  <2>1. LearnTables'
    BY <1>0, <1>1, LearnParts DEF LearnInv, LearnTables, L!tables, LearnRecords
  <2>2. scan' \in [L!Scans -> LearnRecords]
    BY <1>1, LearnIdle, LearnParts DEF LearnInv
  <2> QED
    BY <2>1, <2>2, LearnPartsNext
<1>4. ASSUME ~ lOverlap' PROVE LearnAlone'
  <2>1. LearnAlone
    BY <1>1, <1>4 DEF LearnInv
  <2>2. LearnScan(s) /\ k.pc = "store"
    BY <2>1 DEF LearnAlone, L!Store
  <2>3. cleared' \subseteq dismissed' /\ cleared' \subseteq seen'
    BY <1>1, <2>1, <2>2 DEF LearnAlone, L!tables, LearnScan, LearnScanning
  <2>4. LearnSpares(gaps, cleared)'
    BY <1>1, <2>2 DEF LearnSpares, LearnScan
  <2>5. LearnScan(s)'
    BY <1>2 DEF LearnScan, LearnScanning, L!Idle
  <2> QED
    BY <1>0, <1>1, <2>1, <2>3, <2>4, <2>5, LearnStep DEF LearnInv
<1>5. lOverlap' \in BOOLEAN
  BY <1>1 DEF LearnInv, L!TypeOK
<1> QED
  BY <1>3, <1>4, <1>5 DEF LearnInv

LEMMA LearnMarkWrite == ASSUME LearnInv, NEW s \in L!Scans, L!MarkWrite(s) PROVE LearnInv'
<1> DEFINE k == scan[s]
           new == [k EXCEPT !.pc = "dismiss", !.skip = k.todo]
<1>0. k \in LearnRecords /\ LearnActive(s)
  BY LearnParts DEF LearnInv, L!MarkWrite, LearnActive
<1>1. new \in LearnRecords /\ new.pc = "dismiss" /\ new.skip = k.todo /\ new.todo = k.todo
  BY <1>0 DEF LearnRecords
<1>2. /\ scan' = [scan EXCEPT ![s] = new] /\ seen' = k.skip \cup k.todo
      /\ UNCHANGED <<rows, ruled, dismissed, gaps, L!hist, lFuel>>
  BY DEF L!MarkWrite, L!Set
<1> HIDE DEF new
<1>3. scan'[s] = new
  BY <1>2, LearnParts DEF LearnInv
<1>4. L!TypeOK'
  <2>1. LearnTables'
    BY <1>0, <1>2, LearnParts DEF LearnInv, LearnTables, L!hist, LearnRecords
  <2>2. scan' \in [L!Scans -> LearnRecords]
    BY <1>1, <1>2, LearnParts DEF LearnInv
  <2> QED
    BY <2>1, <2>2, LearnPartsNext
<1>5. ASSUME ~ lOverlap' PROVE LearnAlone'
  <2>1. LearnAlone
    BY <1>2, <1>5 DEF LearnInv, L!hist
  <2>2. k.skip = seen
    BY <2>1 DEF LearnAlone, LearnScan, L!MarkWrite
  <2>3. cleared' \subseteq dismissed' /\ cleared' \subseteq seen' /\ LearnSpares(gaps, cleared)'
    BY <1>2, <2>1, <2>2 DEF LearnAlone, L!hist, LearnSpares
  <2>4. LearnScan(s)'
    BY <1>1, <1>2, <1>3 DEF LearnScan, LearnScanning
  <2> QED
    BY <1>0, <1>2, <2>1, <2>3, <2>4, LearnStep DEF LearnInv
<1>6. lOverlap' \in BOOLEAN
  BY <1>2 DEF LearnInv, L!TypeOK, L!hist
<1> QED
  BY <1>4, <1>5, <1>6 DEF LearnInv

LEMMA LearnDismiss == ASSUME LearnInv, NEW s \in L!Scans, L!Dismiss(s) PROVE LearnInv'
<1> DEFINE k == scan[s]
<1>0. k \in LearnRecords /\ LearnActive(s) /\ k.pc = "dismiss"
  BY LearnParts DEF LearnInv, L!Dismiss, LearnActive
<1>1. UNCHANGED <<rows, ruled, seen, gaps, L!hist, lFuel>>
  BY DEF L!Dismiss
<1>2. CASE k.skip = {}
  <2> DEFINE new == [L!Idle EXCEPT !.pc = "dismissed", !.todo = k.todo]
  <2>1. new \in LearnRecords /\ new.pc = "dismissed" /\ new.todo = k.todo
    BY <1>0 DEF L!Idle, LearnRecords
  <2>2. scan' = [scan EXCEPT ![s] = new] /\ UNCHANGED <<L!tables, gaps, L!hist, lFuel>>
    BY <1>1, <1>2 DEF L!Dismiss, L!Set, L!tables
  <2> HIDE DEF new
  <2>3. scan'[s] = new
    BY <2>2, LearnParts DEF LearnInv
  <2>4. LearnAlone => LearnScan(s)'
    BY <1>0, <1>2, <2>1, <2>2, <2>3 DEF LearnAlone, LearnScan, LearnScanning, L!tables
  <2> QED
    BY <1>0, <2>1, <2>2, <2>4, LearnQuiet
<1>3. CASE k.skip # {}
  <2>1. PICK c \in k.skip : /\ dismissed' = dismissed \cup {c}
                            /\ scan' = [scan EXCEPT ![s] = [k EXCEPT !.skip = @ \ {c}]]
    BY <1>3 DEF L!Dismiss, L!Set
  <2> DEFINE new == [k EXCEPT !.skip = @ \ {c}]
  <2>2. new \in LearnRecords /\ new.pc = "dismiss" /\ new.todo = k.todo /\ new.skip = k.skip \ {c}
    BY <1>0 DEF LearnRecords
  <2>3. scan' = [scan EXCEPT ![s] = new]
    BY <2>1
  <2> HIDE DEF new
  <2>4. scan'[s] = new
    BY <2>3, LearnParts DEF LearnInv
  <2>5. L!TypeOK'
    <3>1. c \in L!Commands
      BY <1>0 DEF LearnRecords
    <3>2. LearnTables'
      BY <1>1, <2>1, <3>1, LearnParts DEF LearnInv, LearnTables, L!hist
    <3>3. scan' \in [L!Scans -> LearnRecords]
      BY <2>2, <2>3, LearnParts DEF LearnInv
    <3> QED
      BY <3>2, <3>3, LearnPartsNext
  <2>6. ASSUME ~ lOverlap' PROVE LearnAlone'
    <3>1. LearnAlone
      BY <1>1, <2>6 DEF LearnInv, L!hist
    <3>2. cleared' \subseteq dismissed' /\ cleared' \subseteq seen' /\ LearnSpares(gaps, cleared)'
      BY <1>1, <2>1, <3>1 DEF LearnAlone, L!hist, LearnSpares
    <3>3. LearnScan(s)'
      BY <1>0, <1>1, <2>1, <2>2, <2>4, <3>1 DEF LearnAlone, LearnScan, LearnScanning
    <3> QED
      BY <1>0, <2>3, <3>1, <3>2, <3>3, LearnStep DEF LearnInv
  <2>7. lOverlap' \in BOOLEAN
    BY <1>1 DEF LearnInv, L!TypeOK, L!hist
  <2> QED
    BY <2>5, <2>6, <2>7 DEF LearnInv
<1> QED
  BY <1>2, <1>3

-----------------------------------------------------------------------------
(* The tables.                                                             *)

LEMMA LearnChoices ==
  ASSUME L!ConstantsAssumption, LearnInv,
         \/ \E gap \in LearnSetup.Gaps : L!Decide(gap)
         \/ \E c \in L!Commands : L!DismissOne(c)
  PROVE  LearnInv'
<1>1. /\ rows' \subseteq LearnSetup.Gaps /\ ruled' \subseteq LearnSetup.Gaps
      /\ dismissed \subseteq dismissed' /\ dismissed' \subseteq L!Commands
      /\ UNCHANGED <<seen, gaps, scan, L!hist>> /\ L!Spend
  BY LearnParts DEF LearnInv, LearnTables, L!Decide, L!DismissOne
<1>2. L!TypeOK'
  <2>1. LearnTables'
    BY <1>1, LearnSpend, LearnParts DEF LearnInv, LearnTables, L!hist
  <2> QED
    BY <1>1, <2>1, LearnParts, LearnPartsNext DEF LearnInv
<1>3. LearnAlone => LearnAlone'
  BY <1>1 DEF LearnAlone, LearnOneScan, LearnActive, LearnScan, LearnSpares, LearnScanning, L!hist
<1> QED
  BY <1>1, <1>2, <1>3 DEF LearnInv, L!hist

-----------------------------------------------------------------------------
(* Every step.                                                             *)

LEMMA LearnKeeps == ASSUME L!ConstantsAssumption, LearnInv, [L!Next]_(L!vars) PROVE LearnInv'
<1>1. ASSUME NEW s \in L!Scans, L!Step(s) \/ L!Cut(s) PROVE LearnInv'
  BY <1>1, LearnEnter, LearnReadDismissed, LearnReadRules, LearnReadRows, LearnStore,
     LearnMarkRead, LearnMarkWrite, LearnDismiss, LearnCut DEF L!Step
<1>2. CASE UNCHANGED L!vars
  BY <1>2 DEF LearnInv, L!TypeOK, LearnAlone, LearnOneScan, LearnActive, LearnScan, LearnSpares, L!vars, L!tables, L!hist
<1> QED
  BY <1>1, <1>2, LearnChoices DEF L!Next

\* What a mark cleared is shown no more.
LEMMA LearnFollows == ASSUME LearnInv PROVE L!ClearedStayOut
  BY DEF LearnInv, LearnAlone, LearnSpares, L!ClearedStayOut

-----------------------------------------------------------------------------
(* Commute alerts.                                                         *)

CommuteRuns ==
  [at : {"idle", "gate", "slots", "check", "mark", "answer"}, now : AlertSetup.Minutes \cup {0},
   dry : BOOLEAN, prof : C!Profiles \cup {<<>>}, holiday : BOOLEAN, slot : AlertSetup.Minutes \cup {0},
   alone : BOOLEAN]
CommuteWriters ==
  [at : {"idle", "before", "save"}, new : C!Profiles \cup {<<>>}, before : C!Profiles \cup {<<>>},
   alone : BOOLEAN]
CommuteMessages == [slot : AlertSetup.Minutes, dry : BOOLEAN, alone : BOOLEAN]
CommuteRows == [before : C!Profiles, after : C!Profiles, alone : BOOLEAN]

\* What a request k has read and done.  Between the choice of a slot and its mark nobody
\* else marks it if the request is alone; and nobody has answered it by then.
CommuteRun(k) ==
  /\ k.at # "idle" => k.now \in AlertSetup.Minutes /\ k.prof \in C!Profiles
  /\ k.at \in {"check", "mark", "answer"} => k.slot \in AlertSetup.Minutes
  /\ ~ k.dry /\ k.at = "answer" => k.slot \in sent
  /\ ~ k.dry /\ k.alone /\ k.at \in {"check", "mark"} => k.slot \notin sent
  /\ ~ k.dry /\ k.alone /\ k.at = "answer" =>
       \A i \in DOMAIN alerts : ~ alerts[i].dry => alerts[i].slot # k.slot

\* A request that is still alone is the only one.
CommuteAlone(r) ==
  run[r].at # "idle" /\ run[r].alone => \A o \in AlertSetup.Runs \ {r} : run[o].at = "idle"

\* What was answered had been marked, and once if alone.
CommuteAlerts ==
  /\ \A i \in DOMAIN alerts : ~ alerts[i].dry => alerts[i].slot \in sent
  /\ \A i, j \in DOMAIN alerts :
       /\ ~ alerts[i].dry /\ ~ alerts[j].dry
       /\ alerts[i].alone /\ alerts[j].alone
       /\ alerts[i].slot = alerts[j].slot
       => i = j

CommuteTold ==
  /\ sent \subseteq AlertSetup.Minutes /\ tried \subseteq AlertSetup.Minutes /\ last \subseteq AlertSetup.Minutes
  /\ alerts \in Seq(CommuteMessages)
  /\ run \in [AlertSetup.Runs -> CommuteRuns]
  /\ \A r \in AlertSetup.Runs : CommuteRun(run[r]) /\ CommuteAlone(r)
  /\ CommuteAlerts
  /\ last \subseteq tried \cup sent

\* A writer has a profile to save; if it is still alone it is the only one, and what it
\* read for the audit is the profile.
CommuteWriter(w) ==
  /\ writer[w].at # "idle" => writer[w].new \in C!Profiles
  /\ writer[w].at = "save" => writer[w].before \in C!Profiles
  /\ writer[w].at # "idle" /\ writer[w].alone =>
       \A o \in AlertSetup.Writers \ {w} : writer[o].at = "idle"
  /\ writer[w].at = "save" /\ writer[w].alone => writer[w].before = profile

CommuteSaved ==
  /\ profile \in C!Profiles /\ audit \in Seq(CommuteRows)
  /\ writer \in [AlertSetup.Writers -> CommuteWriters]
  /\ \A w \in AlertSetup.Writers : CommuteWriter(w)
  /\ audit # <<>> => audit[Len(audit)].after = profile
  /\ C!AuditChains

CommuteInv == begun \in 0..AlertSetup.Budget /\ CommuteTold /\ CommuteSaved

LEMMA CommuteCount == \A S : C!Cardinality(S) = Cardinality(S)
  BY DEF C!Cardinality, Cardinality

LEMMA CommuteIdle ==
  /\ C!NoRun \in CommuteRuns /\ C!NoRun.at = "idle" /\ CommuteRun(C!NoRun) /\ CommuteRun(C!NoRun)'
  /\ C!NoWriter \in CommuteWriters /\ C!NoWriter.at = "idle"
  BY DEF C!NoRun, C!NoWriter, CommuteRuns, CommuteWriters, CommuteRun

LEMMA CommuteInit == ASSUME C!ConstantsAssumption, C!Init PROVE CommuteInv
<1>1. begun \in 0..AlertSetup.Budget
  BY DEF C!Init, C!ConstantsAssumption
<1>2. CommuteTold
  BY CommuteIdle DEF C!Init, CommuteTold, CommuteAlone, CommuteAlerts
<1>3. profile \in C!Profiles
  BY DEF C!Init, C!Profiles, C!Overrides
<1>4. CommuteSaved
  BY <1>3, CommuteIdle DEF C!Init, CommuteSaved, CommuteWriter, C!AuditChains
<1> QED
  BY <1>1, <1>2, <1>4 DEF CommuteInv

-----------------------------------------------------------------------------
(* The requests.                                                           *)

LEMMA CommuteTimes ==
  ASSUME C!ConstantsAssumption, NEW p \in C!Profiles PROVE C!Times(p) \subseteq AlertSetup.Minutes
<1>1. p.times \in AlertSetup.Plans /\ p.override \in C!Overrides
  BY DEF C!Profiles
<1>2. p.override[1] = "times" => p.override[2] \in AlertSetup.Plans
  BY <1>1 DEF C!Overrides
<1> QED
  BY <1>1, <1>2 DEF C!Times, C!ConstantsAssumption

\* The slots due at a minute are that minute and the one before: there is a first one.
LEMMA CommuteFirst ==
  ASSUME NEW m \in Int, NEW S \in SUBSET Int, S # {}, \A s \in S : C!Due(s, m)
  PROVE  C!FirstOf(S) \in S /\ \A o \in S : C!FirstOf(S) <= o
<1>1. \A s \in S : s = m \/ s = m - 1
  BY DEF C!Due, C!SLOT_GRACE_MINUTES
<1>2. \E s \in S : \A o \in S : s <= o
  <2>1. CASE m - 1 \in S
    <3>1. \A o \in S : m - 1 <= o
      BY <1>1
    <3> QED
      BY <2>1, <3>1
  <2>2. CASE m - 1 \notin S
    <3>1. \A o \in S : o = m
      BY <1>1, <2>2
    <3>2. PICK s \in S : s = m
      BY <3>1
    <3>3. m <= m
      OBVIOUS
    <3>4. \A o \in S : m <= o
      BY <3>1, <3>3, Zenon
    <3> QED
      BY <3>2, <3>4
  <2> QED
    BY <2>1, <2>2
<1> QED
  BY <1>2 DEF C!FirstOf

\* A step of a request at work, towards new.
LEMMA CommuteMoves ==
  ASSUME CommuteTold, NEW r \in AlertSetup.Runs, run[r].at # "idle",
         NEW new \in CommuteRuns, run' = [run EXCEPT ![r] = new],
         new.at # "idle" => new.alone = run[r].alone,
         sent \subseteq sent', sent' \subseteq AlertSetup.Minutes,
         tried' \subseteq AlertSetup.Minutes, last' \subseteq AlertSetup.Minutes, last' \subseteq tried' \cup sent',
         alerts' \in Seq(CommuteMessages), CommuteRun(new)', CommuteAlerts'
  PROVE  CommuteTold'
<1>1. /\ run \in [AlertSetup.Runs -> CommuteRuns]
      /\ \A q \in AlertSetup.Runs : CommuteRun(run[q]) /\ CommuteAlone(q)
  BY DEF CommuteTold
<1>2. run' \in [AlertSetup.Runs -> CommuteRuns] /\ run'[r] = new /\ \A q \in AlertSetup.Runs \ {r} : run'[q] = run[q]
  BY <1>1
<1>3. ASSUME NEW q \in AlertSetup.Runs PROVE CommuteRun(run[q])' /\ CommuteAlone(q)'
  <2>1. CASE q = r
    <3>1. CommuteRun(run[q])'
      BY <1>2, <2>1 DEF CommuteRun
    <3>2. CommuteAlone(q)'
      BY <1>1, <1>2, <2>1 DEF CommuteAlone
    <3> QED
      BY <3>1, <3>2
  <2>2. CASE q # r
    <3>1. run'[q] = run[q] /\ CommuteRun(run[q])
      BY <1>1, <1>2, <2>2
    <3>2. run[q].at = "idle" \/ ~ run[q].alone
      BY <1>1, <2>2 DEF CommuteAlone
    <3>3. CommuteRun(run[q])'
      BY <3>1, <3>2 DEF CommuteRun
    <3>4. CommuteAlone(q)'
      BY <3>1, <3>2 DEF CommuteAlone
    <3> QED
      BY <3>3, <3>4
  <2> QED
    BY <2>1, <2>2
<1> QED
  BY <1>2, <1>3 DEF CommuteTold

LEMMA CommuteEnds ==
  ASSUME CommuteTold, NEW r \in AlertSetup.Runs, run[r].at # "idle", C!End(r),
         UNCHANGED <<sent, alerts, tried>>, last' \subseteq AlertSetup.Minutes,
         last' \subseteq tried \cup sent
  PROVE  CommuteTold'
<1>1. run' = [run EXCEPT ![r] = C!NoRun]
  BY DEF C!End
<1>2. CommuteAlerts'
  BY DEF CommuteTold, CommuteAlerts
<1>3. /\ sent \subseteq sent' /\ sent' \subseteq AlertSetup.Minutes /\ tried' \subseteq AlertSetup.Minutes
      /\ last' \subseteq tried' \cup sent' /\ alerts' \in Seq(CommuteMessages)
  BY DEF CommuteTold
<1> QED
  BY <1>1, <1>2, <1>3, CommuteIdle, CommuteMoves

\* A step that only moves a request on.
LEMMA CommuteAdvances ==
  ASSUME CommuteTold, NEW r \in AlertSetup.Runs, run[r].at # "idle",
         NEW at \in {"slots", "mark", "answer"}, C!Step(r, at),
         UNCHANGED <<sent, alerts, tried, last>>,
         at = "mark" => run[r].at = "check",
         at = "answer" => run[r].at = "check" /\ run[r].dry
  PROVE  CommuteTold'
<1> DEFINE to == [run[r] EXCEPT !.at = at]
<1>1. run[r] \in CommuteRuns /\ run \in [AlertSetup.Runs -> CommuteRuns] /\ CommuteRun(run[r])
  BY DEF CommuteTold
<1>2. /\ to \in CommuteRuns /\ to.at = at /\ to.now = run[r].now /\ to.dry = run[r].dry
      /\ to.prof = run[r].prof /\ to.slot = run[r].slot /\ to.alone = run[r].alone
  BY <1>1 DEF CommuteRuns
<1>3. run' = [run EXCEPT ![r] = to]
  BY <1>1 DEF C!Step
<1> HIDE DEF to
<1>4. PICK new \in CommuteRuns : new = to
  BY <1>2
<1>5. CommuteRun(new)'
  BY <1>1, <1>2, <1>4 DEF CommuteRun
<1>6. CommuteAlerts'
  BY DEF CommuteTold, CommuteAlerts
<1>7. /\ sent \subseteq sent' /\ sent' \subseteq AlertSetup.Minutes /\ tried' \subseteq AlertSetup.Minutes
      /\ last' \subseteq AlertSetup.Minutes /\ last' \subseteq tried' \cup sent'
      /\ alerts' \in Seq(CommuteMessages)
  BY DEF CommuteTold
<1>8. run' = [run EXCEPT ![r] = new] /\ (new.at # "idle" => new.alone = run[r].alone)
  BY <1>2, <1>3, <1>4
<1> QED
  BY <1>5, <1>6, <1>7, <1>8, CommuteMoves

LEMMA CommuteGate ==
  ASSUME CommuteTold, NEW r \in AlertSetup.Runs, C!Gate(r) \/ C!Check(r) \/ C!Lost(r) PROVE CommuteTold'
<1>1. /\ UNCHANGED <<sent, alerts, tried, last>> /\ run[r].at # "idle"
      /\ last' \subseteq AlertSetup.Minutes /\ last' \subseteq tried \cup sent
  BY DEF C!Gate, C!Check, C!Lost, CommuteTold
<1>2. CASE C!End(r)
  BY <1>1, <1>2, CommuteEnds
<1>3. CASE C!Gate(r) /\ C!Step(r, "slots")
  BY <1>1, <1>3, CommuteAdvances
<1>4. CASE C!Check(r) /\ C!Step(r, "answer") /\ run[r].dry
  BY <1>1, <1>4, CommuteAdvances DEF C!Check
<1>5. CASE C!Check(r) /\ C!Step(r, "mark")
  BY <1>1, <1>5, CommuteAdvances DEF C!Check
<1>6. C!Gate(r) => C!End(r) \/ C!Step(r, "slots")
  BY DEF C!Gate
<1>7. C!Check(r) => C!End(r) \/ (C!Step(r, "answer") /\ run[r].dry) \/ C!Step(r, "mark")
  BY DEF C!Check
<1>8. C!Lost(r) => C!End(r)
  BY DEF C!Lost
<1> QED
  BY <1>2, <1>3, <1>4, <1>5, <1>6, <1>7, <1>8

LEMMA CommutePicks ==
  ASSUME C!ConstantsAssumption, CommuteTold, NEW r \in AlertSetup.Runs, C!PickSlot(r) PROVE CommuteTold'
<1>1. /\ run[r] \in CommuteRuns /\ run \in [AlertSetup.Runs -> CommuteRuns] /\ CommuteRun(run[r])
      /\ run[r].at = "slots" /\ UNCHANGED <<sent, alerts>> /\ sent \subseteq AlertSetup.Minutes
      /\ tried \subseteq AlertSetup.Minutes /\ last \subseteq AlertSetup.Minutes /\ last \subseteq tried \cup sent
      /\ alerts \in Seq(CommuteMessages)
  BY DEF CommuteTold, C!PickSlot
<1> DEFINE m == run[r].now
           planned == C!Times(run[r].prof)
           late == {s \in C!DueAll(r) : m - s = C!SLOT_GRACE_MINUTES}
           slots == C!DueSlots(r)
<1>2. m \in AlertSetup.Minutes /\ planned \subseteq AlertSetup.Minutes /\ AlertSetup.Minutes \subseteq Int
  BY <1>1, CommuteTimes DEF CommuteRun, C!ConstantsAssumption
<1>3. /\ last' = last \cup late
      /\ slots = {} => C!End(r) /\ UNCHANGED tried
      /\ slots # {} => /\ run' = [run EXCEPT ![r].at = "check", ![r].slot = C!FirstOf(slots)]
                       /\ tried' = tried \cup {C!FirstOf(slots)}
  BY DEF C!PickSlot
<1>4. /\ slots \subseteq AlertSetup.Minutes /\ late \subseteq AlertSetup.Minutes
      /\ \A s \in slots : C!Due(s, m) /\ s \notin sent
      /\ \A s \in late : s = m - 1 /\ (s \in sent \/ s \in slots)
  <2>1. slots \subseteq AlertSetup.Minutes /\ \A s \in slots : C!Due(s, m) /\ s \notin sent
    BY <1>2 DEF C!DueSlots
  <2>2. late \subseteq AlertSetup.Minutes /\ \A s \in late : s \in sent \/ s \in slots
    BY <1>2 DEF C!DueSlots, C!DueAll
  <2>3. \A s \in late : m - s = 1 /\ m \in Int /\ s \in Int
    BY <1>2, <2>2 DEF C!SLOT_GRACE_MINUTES
  <2> HIDE DEF m, late
  <2>4. \A s \in late : s = m - 1
    BY <2>3
  <2> QED
    BY <2>1, <2>2, <2>4
<1> HIDE DEF m, planned, late, slots
<1>5. CASE slots = {}
  <2>1. last' \subseteq AlertSetup.Minutes /\ last' \subseteq tried \cup sent
    BY <1>1, <1>3, <1>4, <1>5
  <2> QED
    BY <1>1, <1>3, <1>5, <2>1, CommuteEnds
<1>6. CASE slots # {}
  <2>1. slots \in SUBSET Int /\ m \in Int
    BY <1>2, <1>4
  <2>2. C!FirstOf(slots) \in slots /\ \A o \in slots : C!FirstOf(slots) <= o
    BY <1>4, <1>6, <2>1, CommuteFirst
  <2>3. PICK f \in AlertSetup.Minutes : f = C!FirstOf(slots) /\ f \in slots /\ f \notin sent
    BY <1>4, <2>2
  <2>4. \A s \in late : s \in sent \/ s = f
    <3> SUFFICES ASSUME NEW s \in late, s \notin sent PROVE s = f
      OBVIOUS
    <3>1. s = m - 1 /\ s \in slots
      BY <1>4
    <3>2. f <= s /\ f \in Int /\ s \in Int
      BY <1>2, <2>1, <2>2, <2>3, <3>1
    <3>3. m - f <= 1
      BY <1>4, <2>3 DEF C!Due, C!SLOT_GRACE_MINUTES
    <3> QED
      BY <2>1, <3>1, <3>2, <3>3
  <2>5. /\ last' \subseteq AlertSetup.Minutes /\ tried' \subseteq AlertSetup.Minutes
        /\ last' \subseteq tried' \cup sent'
    BY <1>1, <1>3, <1>4, <1>6, <2>3, <2>4
  <2> DEFINE to == [run[r] EXCEPT !.at = "check", !.slot = f]
  <2>6. /\ to \in CommuteRuns /\ to.at = "check" /\ to.now = run[r].now
        /\ to.prof = run[r].prof /\ to.slot = f /\ to.alone = run[r].alone
    BY <1>1 DEF CommuteRuns
  <2>7. run' = [run EXCEPT ![r] = to]
    BY <1>1, <1>3, <1>6, <2>3
  <2> HIDE DEF to
  <2>8. PICK new \in CommuteRuns : new = to
    BY <2>6
  <2>9. CommuteRun(new)'
    BY <1>1, <2>3, <2>6, <2>8 DEF CommuteRun
  <2>10. CommuteAlerts'
    BY <1>1 DEF CommuteTold, CommuteAlerts
  <2>11. run' = [run EXCEPT ![r] = new] /\ (new.at # "idle" => new.alone = run[r].alone)
    BY <2>6, <2>7, <2>8
  <2> QED
    BY <1>1, <2>5, <2>9, <2>10, <2>11, CommuteMoves
<1> QED
  BY <1>5, <1>6

LEMMA CommuteMarks ==
  ASSUME CommuteTold, NEW r \in AlertSetup.Runs, C!MarkSent(r) PROVE CommuteTold'
<1>1. /\ run[r] \in CommuteRuns /\ run \in [AlertSetup.Runs -> CommuteRuns] /\ CommuteRun(run[r])
      /\ run[r].at = "mark" /\ UNCHANGED <<alerts, tried, last>> /\ sent \subseteq AlertSetup.Minutes
      /\ tried \subseteq AlertSetup.Minutes /\ last \subseteq AlertSetup.Minutes /\ last \subseteq tried \cup sent
      /\ alerts \in Seq(CommuteMessages) /\ CommuteAlerts
      /\ sent' = sent \cup {run[r].slot} /\ run[r].slot \in AlertSetup.Minutes
  BY DEF CommuteTold, C!MarkSent, CommuteRun
<1> DEFINE to == [run[r] EXCEPT !.at = "answer"]
<1>2. /\ to \in CommuteRuns /\ to.at = "answer" /\ to.now = run[r].now /\ to.dry = run[r].dry
      /\ to.prof = run[r].prof /\ to.slot = run[r].slot /\ to.alone = run[r].alone
  BY <1>1 DEF CommuteRuns
<1>3. run' = [run EXCEPT ![r] = to]
  BY <1>1 DEF C!MarkSent, C!Step
<1> HIDE DEF to
<1>4. PICK new \in CommuteRuns : new = to
  BY <1>2
<1>5. CommuteRun(new)'
  BY <1>1, <1>2, <1>4 DEF CommuteRun, CommuteAlerts
<1>6. CommuteAlerts'
  BY <1>1 DEF CommuteAlerts
<1>7. run' = [run EXCEPT ![r] = new] /\ (new.at # "idle" => new.alone = run[r].alone)
  BY <1>2, <1>3, <1>4
<1>8. /\ sent \subseteq sent' /\ sent' \subseteq AlertSetup.Minutes /\ tried' \subseteq AlertSetup.Minutes
      /\ last' \subseteq AlertSetup.Minutes /\ last' \subseteq tried' \cup sent'
      /\ alerts' \in Seq(CommuteMessages)
  BY <1>1
<1> QED
  BY <1>1, <1>5, <1>6, <1>7, <1>8, CommuteMoves

LEMMA CommuteAnswers ==
  ASSUME CommuteTold, NEW r \in AlertSetup.Runs, C!Answer(r) PROVE CommuteTold'
<1>1. /\ run[r] \in CommuteRuns /\ run \in [AlertSetup.Runs -> CommuteRuns] /\ CommuteRun(run[r])
      /\ run[r].at = "answer" /\ UNCHANGED <<sent, tried, last>> /\ sent \subseteq AlertSetup.Minutes
      /\ tried \subseteq AlertSetup.Minutes /\ last \subseteq AlertSetup.Minutes /\ last \subseteq tried \cup sent
      /\ alerts \in Seq(CommuteMessages) /\ CommuteAlerts /\ run[r].slot \in AlertSetup.Minutes
      /\ run' = [run EXCEPT ![r] = C!NoRun]
  BY DEF CommuteTold, C!Answer, CommuteRun, C!End
<1> DEFINE message == [slot |-> run[r].slot, dry |-> run[r].dry, alone |-> run[r].alone]
<1>2. /\ message \in CommuteMessages /\ message.slot = run[r].slot /\ message.dry = run[r].dry
      /\ message.alone = run[r].alone
  BY <1>1 DEF CommuteMessages, CommuteRuns
<1>3. alerts' = Append(alerts, message)
  BY DEF C!Answer
<1> HIDE DEF message
<1>4. /\ alerts' \in Seq(CommuteMessages) /\ Len(alerts) \in Nat
      /\ DOMAIN alerts = 1..Len(alerts) /\ DOMAIN alerts' = 1..(Len(alerts) + 1)
      /\ \A i \in 1..Len(alerts) : alerts'[i] = alerts[i]
      /\ alerts'[Len(alerts) + 1] = message
  BY <1>1, <1>2, <1>3
<1>5. CommuteAlerts'
  <2>1. \A i \in DOMAIN alerts' : i \in DOMAIN alerts \/ i = Len(alerts) + 1
    BY <1>4
  <2>2. ASSUME NEW i \in DOMAIN alerts', ~ alerts'[i].dry PROVE alerts'[i].slot \in sent'
    BY <1>1, <1>2, <1>4, <2>1, <2>2 DEF CommuteAlerts, CommuteRun
  <2>3. \A i \in DOMAIN alerts : ~ message.dry /\ message.alone /\ ~ alerts[i].dry =>
          alerts[i].slot # message.slot
    BY <1>1, <1>2 DEF CommuteRun
  <2>4. ASSUME NEW i \in DOMAIN alerts', NEW j \in DOMAIN alerts',
               ~ alerts'[i].dry, ~ alerts'[j].dry, alerts'[i].alone, alerts'[j].alone,
               alerts'[i].slot = alerts'[j].slot
        PROVE  i = j
    <3>1. CASE i \in DOMAIN alerts /\ j \in DOMAIN alerts
      BY <1>1, <1>4, <2>4, <3>1 DEF CommuteAlerts
    <3>2. CASE i \in DOMAIN alerts /\ j = Len(alerts) + 1
      BY <1>4, <2>3, <2>4, <3>2
    <3>3. CASE i = Len(alerts) + 1 /\ j \in DOMAIN alerts
      BY <1>4, <2>3, <2>4, <3>3
    <3> QED
      BY <2>1, <3>1, <3>2, <3>3
  <2> QED
    BY <2>2, <2>4 DEF CommuteAlerts
<1>6. /\ sent \subseteq sent' /\ sent' \subseteq AlertSetup.Minutes /\ tried' \subseteq AlertSetup.Minutes
      /\ last' \subseteq AlertSetup.Minutes /\ last' \subseteq tried' \cup sent'
  BY <1>1
<1> QED
  BY <1>1, <1>4, <1>5, <1>6, CommuteIdle, CommuteMoves

LEMMA CommuteStarts ==
  ASSUME CommuteTold, profile \in C!Profiles, NEW r \in AlertSetup.Runs, NEW m \in AlertSetup.Minutes, NEW d \in BOOLEAN,
         C!DueStart(r, m, d)
  PROVE  CommuteTold'
<1> DEFINE others == {o \in AlertSetup.Runs \ {r} : run[o].at # "idle"}
           new == [C!NoRun EXCEPT !.at = "gate", !.now = m, !.dry = d, !.prof = profile,
                                !.alone = others = {}]
           Other(o) == [run[o] EXCEPT !.alone = o \notin others /\ @]
<1>1. /\ run \in [AlertSetup.Runs -> CommuteRuns] /\ UNCHANGED <<sent, alerts, tried, last>>
      /\ \A q \in AlertSetup.Runs : CommuteRun(run[q]) /\ CommuteAlone(q)
      /\ run' = [o \in AlertSetup.Runs |-> IF o = r THEN new ELSE Other(o)]
  BY DEF CommuteTold, C!DueStart
<1>2. /\ new \in CommuteRuns /\ new.at = "gate" /\ new.now = m /\ new.prof = profile
      /\ new.alone = (others = {})
  BY DEF C!NoRun, CommuteRuns
<1>3. \A o \in AlertSetup.Runs :
        /\ Other(o) \in CommuteRuns /\ Other(o).at = run[o].at
        /\ Other(o).now = run[o].now /\ Other(o).dry = run[o].dry
        /\ Other(o).prof = run[o].prof /\ Other(o).slot = run[o].slot
        /\ Other(o).alone = (o \notin others /\ run[o].alone)
  BY <1>1 DEF CommuteRuns
<1> HIDE DEF new, Other
<1>4. /\ run' \in [AlertSetup.Runs -> CommuteRuns] /\ run'[r] = new
      /\ \A o \in AlertSetup.Runs \ {r} : run'[o] = Other(o)
  BY <1>1, <1>2, <1>3
<1>5. ASSUME NEW q \in AlertSetup.Runs PROVE CommuteRun(run[q])' /\ CommuteAlone(q)'
  <2>1. CASE q = r
    <3>1. CommuteRun(run[q])'
      BY <1>2, <1>4, <2>1 DEF CommuteRun
    <3>2. ASSUME run'[q].alone, NEW o \in AlertSetup.Runs \ {q} PROVE run'[o].at = "idle"
      <4>1. others = {}
        BY <1>2, <1>4, <2>1, <3>2, Zenon
      <4>2. run[o].at = "idle"
        BY <2>1, <4>1
      <4> QED
        BY <1>3, <1>4, <2>1, <4>2
    <3> QED
      BY <3>1, <3>2 DEF CommuteAlone
  <2>2. CASE q # r
    <3>1. /\ run'[q].at = run[q].at /\ run'[q].now = run[q].now /\ run'[q].dry = run[q].dry
          /\ run'[q].prof = run[q].prof /\ run'[q].slot = run[q].slot
          /\ run'[q].alone => run[q].at = "idle"
      BY <1>3, <1>4, <2>2
    <3>2. CommuteRun(run[q])'
      BY <1>1, <3>1 DEF CommuteRun
    <3> QED
      BY <3>1, <3>2 DEF CommuteAlone
  <2> QED
    BY <2>1, <2>2
<1>6. CommuteAlerts'
  BY <1>1 DEF CommuteTold, CommuteAlerts
<1>7. /\ sent' \subseteq AlertSetup.Minutes /\ tried' \subseteq AlertSetup.Minutes /\ last' \subseteq AlertSetup.Minutes
      /\ alerts' \in Seq(CommuteMessages) /\ last' \subseteq tried' \cup sent'
  BY <1>1 DEF CommuteTold
<1> QED
  BY <1>4, <1>5, <1>6, <1>7 DEF CommuteTold

-----------------------------------------------------------------------------
(* The writers of the profile.                                             *)

LEMMA CommuteMerges ==
  ASSUME NEW p \in C!Profiles, NEW new \in C!Merged(p) PROVE new \in C!Profiles
<1>1. \A b \in BOOLEAN : [p EXCEPT !.paused = b] \in C!Profiles
  BY DEF C!Profiles
<1>2. \A o \in C!Overrides : [p EXCEPT !.override = o] \in C!Profiles
  BY DEF C!Profiles
<1>3. \A t \in AlertSetup.Plans : [p EXCEPT !.times = t] \in C!Profiles
  BY DEF C!Profiles
<1>4. \A b \in BOOLEAN : [p EXCEPT !.alerts_only = b] \in C!Profiles
  BY DEF C!Profiles
<1> QED
  BY <1>1, <1>2, <1>3, <1>4 DEF C!Merged

LEMMA CommuteWrites ==
  ASSUME CommuteSaved, NEW w \in AlertSetup.Writers, C!WriteStart(w) PROVE CommuteSaved'
<1> DEFINE others == {o \in AlertSetup.Writers \ {w} : writer[o].at # "idle"}
           Other(o) == [writer[o] EXCEPT !.alone = o \notin others /\ @]
<1>1. PICK p \in C!Profiles :
        writer' = [o \in AlertSetup.Writers |->
          IF o = w THEN [C!NoWriter EXCEPT !.at = "before", !.new = p, !.alone = others = {}]
          ELSE Other(o)]
  BY CommuteMerges DEF C!WriteStart, CommuteSaved
<1> DEFINE to == [C!NoWriter EXCEPT !.at = "before", !.new = p, !.alone = others = {}]
<1>2. /\ writer \in [AlertSetup.Writers -> CommuteWriters] /\ UNCHANGED <<profile, audit>>
      /\ \A o \in AlertSetup.Writers : CommuteWriter(o)
      /\ writer' = [o \in AlertSetup.Writers |-> IF o = w THEN to ELSE Other(o)]
  BY <1>1 DEF CommuteSaved, C!WriteStart
<1>3. /\ to \in CommuteWriters /\ to.at = "before" /\ to.new = p /\ to.alone = (others = {})
  BY DEF C!NoWriter, CommuteWriters
<1>4. \A o \in AlertSetup.Writers :
        /\ Other(o) \in CommuteWriters /\ Other(o).at = writer[o].at
        /\ Other(o).new = writer[o].new /\ Other(o).before = writer[o].before
        /\ Other(o).alone = (o \notin others /\ writer[o].alone)
  BY <1>2 DEF CommuteWriters
<1> HIDE DEF to, Other
<1>5. /\ writer' \in [AlertSetup.Writers -> CommuteWriters] /\ writer'[w] = to
      /\ \A o \in AlertSetup.Writers \ {w} : writer'[o] = Other(o)
  BY <1>2, <1>3, <1>4
<1>6. ASSUME NEW v \in AlertSetup.Writers PROVE CommuteWriter(v)'
  <2>1. CASE v = w
    <3>1. ASSUME writer'[v].alone, NEW o \in AlertSetup.Writers \ {v} PROVE writer'[o].at = "idle"
      <4>1. others = {}
        BY <1>3, <1>5, <2>1, <3>1, Zenon
      <4>2. writer[o].at = "idle"
        BY <2>1, <4>1
      <4> QED
        BY <1>4, <1>5, <2>1, <4>2
    <3> QED
      BY <1>3, <1>5, <2>1, <3>1 DEF CommuteWriter
  <2>2. CASE v # w
    <3>1. /\ writer'[v].at = writer[v].at /\ writer'[v].new = writer[v].new
          /\ writer'[v].before = writer[v].before
          /\ writer'[v].alone => writer[v].at = "idle"
      BY <1>4, <1>5, <2>2
    <3> QED
      BY <1>2, <3>1 DEF CommuteWriter
  <2> QED
    BY <2>1, <2>2
<1> QED
  BY <1>2, <1>5, <1>6 DEF CommuteSaved, C!AuditChains

LEMMA CommuteReads ==
  ASSUME CommuteSaved, NEW w \in AlertSetup.Writers, C!ReadBefore(w) PROVE CommuteSaved'
<1>1. /\ writer \in [AlertSetup.Writers -> CommuteWriters] /\ UNCHANGED <<profile, audit>>
      /\ \A o \in AlertSetup.Writers : CommuteWriter(o)
      /\ writer[w].at = "before" /\ profile \in C!Profiles
      /\ writer' = [writer EXCEPT ![w].at = "save", ![w].before = profile]
  BY DEF CommuteSaved, C!ReadBefore
<1> DEFINE to == [writer[w] EXCEPT !.at = "save", !.before = profile]
<1>2. /\ to \in CommuteWriters /\ to.at = "save" /\ to.new = writer[w].new
      /\ to.before = profile /\ to.alone = writer[w].alone
  BY <1>1 DEF CommuteWriters
<1>3. writer' = [writer EXCEPT ![w] = to]
  BY <1>1
<1> HIDE DEF to
<1>4. /\ writer' \in [AlertSetup.Writers -> CommuteWriters] /\ writer'[w] = to
      /\ \A o \in AlertSetup.Writers \ {w} : writer'[o] = writer[o]
  BY <1>1, <1>2, <1>3
<1>5. ASSUME NEW v \in AlertSetup.Writers PROVE CommuteWriter(v)'
  <2>1. CASE v = w
    BY <1>1, <1>2, <1>4, <2>1 DEF CommuteWriter
  <2>2. CASE v # w
    <3>1. writer'[v] = writer[v] /\ (writer[v].at = "idle" \/ ~ writer[v].alone)
      BY <1>1, <1>4, <2>2 DEF CommuteWriter
    <3> QED
      BY <1>1, <3>1 DEF CommuteWriter
  <2> QED
    BY <2>1, <2>2
<1> QED
  BY <1>1, <1>4, <1>5 DEF CommuteSaved, C!AuditChains

LEMMA CommuteSaves ==
  ASSUME CommuteSaved, NEW w \in AlertSetup.Writers, C!SaveProfile(w) PROVE CommuteSaved'
<1>1. /\ writer \in [AlertSetup.Writers -> CommuteWriters] /\ audit \in Seq(CommuteRows)
      /\ \A o \in AlertSetup.Writers : CommuteWriter(o)
      /\ writer[w] \in CommuteWriters /\ writer[w].at = "save"
      /\ writer[w].new \in C!Profiles /\ writer[w].before \in C!Profiles
      /\ profile' = writer[w].new /\ writer' = [writer EXCEPT ![w] = C!NoWriter]
      /\ audit # <<>> => audit[Len(audit)].after = profile
  BY DEF CommuteSaved, C!SaveProfile, CommuteWriter
<1> DEFINE entry == [before |-> writer[w].before, after |-> writer[w].new,
                     alone |-> writer[w].alone]
<1>2. /\ entry \in CommuteRows /\ entry.after = writer[w].new
      /\ entry.alone => entry.before = profile
  BY <1>1 DEF CommuteRows, CommuteWriters, CommuteWriter
<1>3. audit' = Append(audit, entry)
  BY DEF C!SaveProfile
<1> HIDE DEF entry
<1>4. /\ audit' \in Seq(CommuteRows) /\ Len(audit) \in Nat
      /\ DOMAIN audit = 1..Len(audit) /\ DOMAIN audit' = 1..(Len(audit) + 1)
      /\ \A i \in 1..Len(audit) : audit'[i] = audit[i]
      /\ audit'[Len(audit) + 1] = entry /\ Len(audit') = Len(audit) + 1
  BY <1>1, <1>2, <1>3
<1>5. C!AuditChains'
  <2> SUFFICES ASSUME NEW i \in DOMAIN audit', i > 1, audit'[i].alone
               PROVE  audit'[i].before = audit'[i-1].after
    BY DEF C!AuditChains
  <2>1. CASE i \in 1..Len(audit)
    <3>1. i - 1 \in 1..Len(audit) /\ audit[i].before = audit[i-1].after
      BY <1>4, <2>1 DEF CommuteSaved, C!AuditChains
    <3> QED
      BY <1>4, <2>1, <3>1
  <2>2. CASE i = Len(audit) + 1
    <3>1. Len(audit) \in 1..Len(audit) /\ i - 1 = Len(audit) /\ audit # <<>>
      BY <1>1, <1>4, <2>2
    <3> QED
      BY <1>1, <1>2, <1>4, <2>2, <3>1
  <2> QED
    BY <1>4, <2>1, <2>2
<1>6. audit'[Len(audit')].after = profile'
  BY <1>1, <1>2, <1>4
<1>7. /\ writer' \in [AlertSetup.Writers -> CommuteWriters] /\ writer'[w] = C!NoWriter
      /\ \A o \in AlertSetup.Writers \ {w} : writer'[o] = writer[o]
  BY <1>1, CommuteIdle
<1>8. ASSUME NEW v \in AlertSetup.Writers PROVE CommuteWriter(v)'
  <2>1. CASE v = w
    BY <1>7, <2>1, CommuteIdle DEF CommuteWriter
  <2>2. CASE v # w
    <3>1. writer'[v] = writer[v] /\ (writer[v].at = "idle" \/ ~ writer[v].alone)
      BY <1>1, <1>7, <2>2 DEF CommuteWriter
    <3> QED
      BY <1>1, <3>1 DEF CommuteWriter
  <2> QED
    BY <2>1, <2>2
<1> QED
  BY <1>1, <1>4, <1>5, <1>6, <1>7, <1>8 DEF CommuteSaved

-----------------------------------------------------------------------------
(* The steps together, and what the invariant says.                        *)

LEMMA CommuteKeeps ==
  ASSUME C!ConstantsAssumption, CommuteInv, [C!Next]_(C!vars) PROVE CommuteInv'
<1>1. begun \in 0..AlertSetup.Budget /\ AlertSetup.Budget \in Nat /\ CommuteTold /\ CommuteSaved /\ profile \in C!Profiles
  BY DEF CommuteInv, CommuteSaved, C!ConstantsAssumption
<1>2. ASSUME UNCHANGED <<sent, run, alerts, tried, last>> PROVE CommuteTold'
  BY <1>1, <1>2 DEF CommuteTold, CommuteRun, CommuteAlone, CommuteAlerts
<1>3. ASSUME UNCHANGED <<profile, audit, writer>> PROVE CommuteSaved'
  BY <1>1, <1>3 DEF CommuteSaved, CommuteWriter, C!AuditChains
<1>4. ASSUME NEW r \in AlertSetup.Runs, NEW m \in AlertSetup.Minutes, NEW d \in BOOLEAN, C!DueStart(r, m, d)
      PROVE  CommuteInv'
  <2>1. begun < AlertSetup.Budget /\ begun' = begun + 1 /\ UNCHANGED <<profile, audit, writer>>
    BY <1>4 DEF C!DueStart
  <2>2. begun' \in 0..AlertSetup.Budget
    BY <1>1, <2>1
  <2> QED
    BY <1>1, <1>3, <1>4, <2>1, <2>2, CommuteStarts DEF CommuteInv
<1>5. ASSUME NEW r \in AlertSetup.Runs,
             C!Gate(r) \/ C!PickSlot(r) \/ C!Check(r) \/ C!MarkSent(r) \/ C!Answer(r) \/ C!Lost(r)
      PROVE  CommuteInv'
  <2>1. UNCHANGED <<profile, audit, writer, begun>>
    BY <1>5 DEF C!Gate, C!PickSlot, C!Check, C!MarkSent, C!Answer, C!Lost
  <2>2. CommuteTold'
    BY <1>1, <1>5, CommuteGate, CommutePicks, CommuteMarks, CommuteAnswers
  <2> QED
    BY <1>1, <1>3, <2>1, <2>2 DEF CommuteInv
<1>6. ASSUME NEW w \in AlertSetup.Writers, C!WriteStart(w) PROVE CommuteInv'
  <2>1. begun < AlertSetup.Budget /\ begun' = begun + 1 /\ UNCHANGED <<sent, run, alerts, tried, last>>
    BY <1>6 DEF C!WriteStart
  <2>2. begun' \in 0..AlertSetup.Budget
    BY <1>1, <2>1
  <2> QED
    BY <1>1, <1>2, <1>6, <2>1, <2>2, CommuteWrites DEF CommuteInv
<1>7. ASSUME NEW w \in AlertSetup.Writers, C!ReadBefore(w) \/ C!SaveProfile(w) PROVE CommuteInv'
  <2>1. UNCHANGED <<sent, run, alerts, tried, last, begun>>
    BY <1>7 DEF C!ReadBefore, C!SaveProfile
  <2> QED
    BY <1>1, <1>2, <1>7, <2>1, CommuteReads, CommuteSaves DEF CommuteInv
<1>8. CASE UNCHANGED C!vars
  BY <1>1, <1>2, <1>3, <1>8 DEF CommuteInv, C!vars
<1> QED
  BY <1>4, <1>5, <1>6, <1>7, <1>8 DEF C!Next

LEMMA CommuteFollows ==
  ASSUME CommuteInv PROVE C!TypeOK /\ C!SlotSentOnce /\ C!SlotsTried /\ C!AuditChains
<1>1. C!TypeOK
  <2>1. \A r \in AlertSetup.Runs : run[r] \in CommuteRuns
    BY DEF CommuteInv, CommuteTold
  <2>2. \A w \in AlertSetup.Writers : writer[w] \in CommuteWriters
    BY DEF CommuteInv, CommuteSaved
  <2> QED
    BY <2>1, <2>2 DEF CommuteInv, CommuteTold, CommuteSaved, C!TypeOK, CommuteRuns, CommuteWriters
<1>2. C!SlotSentOnce
  <2> SUFFICES ASSUME NEW s \in AlertSetup.Minutes
               PROVE  C!Cardinality({i \in DOMAIN alerts : /\ alerts[i].slot = s
                                                         /\ ~alerts[i].dry /\ alerts[i].alone}) <= 1
    BY DEF C!SlotSentOnce
  <2> DEFINE D == {i \in DOMAIN alerts : /\ alerts[i].slot = s
                                         /\ ~alerts[i].dry /\ alerts[i].alone}
  <2>1. \A i, j \in D : i = j
    BY DEF CommuteInv, CommuteTold, CommuteAlerts
  <2> HIDE DEF D
  <2>2. D = {} \/ \E i \in D : D = {i}
    BY <2>1
  <2>3. Cardinality(D) = 0 \/ Cardinality(D) = 1
    <3>1. CASE D = {}
      BY <3>1, FS_EmptySet
    <3>2. CASE D # {}
      BY <2>2, <3>2, FS_Singleton
    <3> QED
      BY <3>1, <3>2
  <2>4. C!Cardinality(D) <= 1
    <3>1. Cardinality(D) <= 1
      BY <2>3
    <3> QED
      BY <3>1, CommuteCount
  <2> QED
    BY <2>4 DEF D
<1>3. C!SlotsTried /\ C!AuditChains
  BY DEF CommuteInv, CommuteTold, CommuteSaved, C!SlotsTried
<1> QED
  BY <1>1, <1>2, <1>3

-----------------------------------------------------------------------------
(* The composition: a step of the composition is a step of each service or  *)
(* leaves it alone, so the invariant of each holds of all its behaviours.   *)

LEMMA WindowsStep == ASSUME A!IInv, [Next]_vars PROVE A!IInv'
<1>1. [A!Next]_(A!vars)
  BY DEF Next, vars, windowVars, A!vars
<1> QED
  BY <1>1, ServicesAssumption, A!NextKeeps

LEMMA EnrolmentStep == ASSUME EnrolInv, [Next]_vars PROVE EnrolInv'
<1>1. [N!Next]_(N!vars)
  BY DEF Next, vars, enrolVars, N!vars, N!dash, N!hist
<1> QED
  BY <1>1, ServicesAssumption, EnrolKeeps

LEMMA FetchStep == ASSUME W!IInv, [Next]_vars PROVE W!IInv'
<1>1. [W!Next]_(W!vars)
  BY DEF Next, vars, fetchVars, W!vars
<1> QED
  BY <1>1, ServicesAssumption, W!NextKeeps

LEMMA LimiterStep == ASSUME LimitInv, [Next]_vars PROVE LimitInv'
<1>1. [R!Next]_(R!vars)
  BY DEF Next, vars, limitVars, R!vars
<1> QED
  BY <1>1, ServicesAssumption, LimitKeeps

LEMMA GatewayWatchStep == ASSUME WatchInv, [Next]_vars PROVE WatchInv'
<1>1. [G!Next]_(G!vars)
  BY DEF Next, vars, watchVars, G!vars, G!dash, G!hist
<1> QED
  BY <1>1, ServicesAssumption, WatchKeeps

LEMMA LearningStep == ASSUME LearnInv, [Next]_vars PROVE LearnInv'
<1>1. [L!Next]_(L!vars)
  BY DEF Next, vars, learnVars, L!vars, L!tables, L!hist
<1> QED
  BY <1>1, ServicesAssumption, LearnKeeps

LEMMA ReleasesStep == ASSUME ReleaseInv, [Next]_vars PROVE ReleaseInv'
<1>1. [P!Next]_(P!vars)
  BY DEF Next, vars, releaseVars, P!vars, P!meta, P!hist
<1> QED
  BY <1>1, ServicesAssumption, ReleaseKeeps

LEMMA CommuteStep == ASSUME CommuteInv, [Next]_vars PROVE CommuteInv'
<1>1. [C!Next]_(C!vars)
  BY DEF Next, vars, commuteVars, C!vars
<1> QED
  BY <1>1, ServicesAssumption, CommuteKeeps

-----------------------------------------------------------------------------
(* The theorems.                                                           *)

\* However claims, requests and the poller's copies interleave, a window grants no
\* more claims than the largest cap it had, what runs is a command it was enabled for,
\* and a denied request is no enabled window unless the denial crossed an approval.
THEOREM WindowsAreKept == Spec => []WindowsHold
<1>1. Init => A!IInv
  BY ServicesAssumption, A!InitInv DEF Init
<1>2. A!IInv /\ [Next]_vars => A!IInv'
  BY WindowsStep
<1>3. A!IInv => WindowsHold
  <2> SUFFICES ASSUME A!IInv PROVE A!WindowsHold
    BY DEF WindowsHold
  <2>1. A!ClaimsWithinCap
    BY DEF A!IInv, A!ClaimsGood, A!Granted, A!ClaimsWithinCap
  <2>2. A!RunsWereApproved
    BY DEF A!IInv, A!RunGood, A!OpsGood, A!RunsWereApproved
  <2> QED
    BY <2>1, <2>2 DEF A!WindowsHold
<1> QED
  BY <1>1, <1>2, <1>3, PTL DEF Spec

\* Whatever was lost, removed first or rebooted, no poller launches an uninstall that
\* nobody asked for since its host last began to register.
THEOREM UninstallsAreAsked == Spec => []NoStaleUninstall
<1>1. Init => EnrolInv
  BY ServicesAssumption, EnrolInit DEF Init
<1>2. EnrolInv /\ [Next]_vars => EnrolInv'
  BY EnrolmentStep
<1>3. EnrolInv => NoStaleUninstall
  BY EnrolFollows DEF NoStaleUninstall
<1> QED
  BY <1>1, <1>2, <1>3, PTL DEF Spec

\* Whatever a server answers, every connection of a fetch is one its policy allowed
\* when it began, and a call that is over has its audit row and gave its slot back.
THEOREM HopsAreAllowed == Spec => []HopsAllowed
<1>1. Init => W!IInv
  BY ServicesAssumption, W!InitInv DEF Init
<1>2. W!IInv /\ [Next]_vars => W!IInv'
  BY FetchStep
<1>3. W!IInv => HopsAllowed
  BY DEF W!IInv, HopsAllowed
<1> QED
  BY <1>1, <1>2, <1>3, PTL DEF Spec

\* A call of the general limiter that no other call overlaps is let in only if fewer than
\* Max calls were let in, alone, in the window before it, whichever buckets are swept
\* or rewritten by others before and after; and in every minute and hour a principal's
\* fetches are within their limits, with no slot lost or given back twice.
THEOREM LimitsHold == Spec => []WithinLimits
<1>1. Init => LimitInv /\ W!IInv
  BY ServicesAssumption, LimitInit, W!InitInv DEF Init
<1>2. (LimitInv /\ W!IInv) /\ [Next]_vars => (LimitInv /\ W!IInv)'
  BY LimiterStep, FetchStep
<1>3. LimitInv /\ W!IInv => WithinLimits
  BY DEF LimitInv, W!IInv, WithinLimits
<1> QED
  BY <1>1, <1>2, <1>3, PTL DEF Spec

\* As long as checks do not overlap, restart or die half-way, a gateway that stays
\* silent or refused is announced once, not again by each check.
THEOREM GatewaysAnnouncedOnce == Spec => []AnnouncedOnce
<1>1. Init => WatchInv
  BY ServicesAssumption, WatchInit DEF Init
<1>2. WatchInv /\ [Next]_vars => WatchInv'
  BY GatewayWatchStep
<1>3. WatchInv => AnnouncedOnce
  BY DEF WatchInv, G!AnnouncedOnce, AnnouncedOnce
<1> QED
  BY <1>1, <1>2, <1>3, PTL DEF Spec

\* Unless scans overlapped, what a mark cleared is recorded and shown no more, whatever
\* was refreshed, dismissed, decided or cut off before, between and after.
THEOREM MarksHold == Spec => []ClearedStayOut
<1>1. Init => LearnInv
  BY ServicesAssumption, LearnInit DEF Init
<1>2. LearnInv /\ [Next]_vars => LearnInv'
  BY LearningStep
<1>3. LearnInv => ClearedStayOut
  BY LearnFollows DEF ClearedStayOut
<1> QED
  BY <1>1, <1>2, <1>3, PTL DEF Spec

\* When every request is over and none failed, the version shown as deployed is the one
\* served, the backup is the one before it, and a pushed build has its trigger.
THEOREM ReleasesAgree == Spec => []ReleasesConsistent
<1>1. Init => ReleaseInv
  BY ServicesAssumption, ReleaseInit DEF Init
<1>2. ReleaseInv /\ [Next]_vars => ReleaseInv'
  BY ReleasesStep
<1>3. ReleaseInv => ReleasesConsistent
  BY ServicesAssumption, ReleaseFollows DEF ReleasesConsistent
<1> QED
  BY <1>1, <1>2, <1>3, PTL DEF Spec

\* A message of a request that no other request overlapped is the only one of its slot; a
\* slot whose grace a request saw end was tried; and the audit of a profile that writers
\* did not overlap on is a chain, each row beginning where the one before it ended.
THEOREM AlertsAreInTime == Spec => []AlertsInTime
<1>1. Init => CommuteInv
  BY ServicesAssumption, CommuteInit DEF Init
<1>2. CommuteInv /\ [Next]_vars => CommuteInv'
  BY CommuteStep
<1>3. CommuteInv => AlertsInTime
  BY CommuteFollows DEF AlertsInTime
<1> QED
  BY <1>1, <1>2, <1>3, PTL DEF Spec
=============================================================================
