------------------------------ MODULE Services ------------------------------
(***************************************************************************)
(* Twelve services of the dashboard that share no state, side by side:      *)
(* `which` chooses, once and for all, the one whose steps a behaviour       *)
(* takes; the others stay in an initial state.  Each constant is a record   *)
(* with the parameters of one service.  The services with a proof module    *)
(* are instantiated through it, so that theorems can cite its lemmas.       *)
(***************************************************************************)
EXTENDS Integers, Sequences, FiniteSets

CONSTANTS AuthSetup, EditSetup, WindowSetup, EnrolSetup, FetchSetup, LimitSetup,
          AlertSetup, WatchSetup, LearnSetup, ReleaseSetup, ToolSetup, ControllerSetup

VARIABLE which

Services == {"auth", "edit", "windows", "enrol", "fetch", "limit", "commute",
             "watch", "learn", "release", "tools", "omada"}

-----------------------------------------------------------------------------
VARIABLES auth, rejects, cache, valid, forged, aCall, executed, popped, aFuel
authVars == <<auth, rejects, cache, valid, forged, aCall, executed, popped, aFuel>>

U == INSTANCE UpstreamAuth WITH
       call <- aCall, fuel <- aFuel, Calls <- AuthSetup.Calls, Writes <- AuthSetup.Writes,
       NoToken <- AuthSetup.NoToken, Tokens <- AuthSetup.Tokens, Budget <- AuthSetup.Budget

-----------------------------------------------------------------------------
VARIABLES kind, board, ids, eCall, eFuel
editVars == <<kind, board, ids, eCall, eFuel>>

E == INSTANCE EditHandlers WITH
       call <- eCall, fuel <- eFuel, Calls <- EditSetup.Calls,
       Scenarios <- EditSetup.Scenarios, Expects <- EditSetup.Expects, People <- EditSetup.People,
       MaxId <- EditSetup.MaxId, Budget <- EditSetup.Budget

-----------------------------------------------------------------------------
VARIABLES wRow, over, due, wOps, wCache, wRun, open, cap, overlap, wFuel
windowVars == <<wRow, over, due, wOps, wCache, wRun, open, cap, overlap, wFuel>>

A == INSTANCE ApprovedWindowsProofs WITH
       row <- wRow, ops <- wOps, cache <- wCache, run <- wRun, fuel <- wFuel,
       Windows <- WindowSetup.Windows, Runs <- WindowSetup.Runs, Cmds <- WindowSetup.Cmds,
       Caps <- WindowSetup.Caps, Budget <- WindowSetup.Budget

-----------------------------------------------------------------------------
VARIABLES used, row, minted, trigger, update, ops, nCall, host, nAdmitted,
          asked, stale, nFuel
enrolVars == <<used, row, minted, trigger, update, ops, nCall, host, nAdmitted,
               asked, stale, nFuel>>

N == INSTANCE Enrollment WITH
       call <- nCall, admitted <- nAdmitted, fuel <- nFuel, Hosts <- EnrolSetup.Hosts,
       Tokens <- EnrolSetup.Tokens, NoToken <- EnrolSetup.NoToken, MaxId <- EnrolSetup.MaxId,
       Budget <- EnrolSetup.Budget

-----------------------------------------------------------------------------
VARIABLES fClock, policy, minute, hour, free, fCall, fStarted, contacts, audits, fFuel
fetchVars == <<fClock, policy, minute, hour, free, fCall, fStarted, contacts, audits,
               fFuel>>

W == INSTANCE WebFetchProofs WITH
       clock <- fClock, call <- fCall, started <- fStarted, fuel <- fFuel,
       Calls <- FetchSetup.Calls, Principals <- FetchSetup.Principals, Hosts <- FetchSetup.Hosts,
       MinuteLimit <- FetchSetup.MinuteLimit, HourLimit <- FetchSetup.HourLimit,
       MaxConcurrent <- FetchSetup.MaxConcurrent, MaxRedirects <- FetchSetup.MaxRedirects,
       Minute <- FetchSetup.Minute, Hour <- FetchSetup.Hour, MaxClock <- FetchSetup.MaxClock,
       Budget <- FetchSetup.Budget

-----------------------------------------------------------------------------
VARIABLES clock, buckets, swept, thread, admitted, started
limitVars == <<clock, buckets, swept, thread, admitted, started>>

R == INSTANCE RateLimits WITH
       Callers <- LimitSetup.Callers, Keys <- LimitSetup.Keys, Agents <- LimitSetup.Agents,
       Max <- LimitSetup.Max, Window <- LimitSetup.Window, MaxClock <- LimitSetup.MaxClock,
       Budget <- LimitSetup.Budget

-----------------------------------------------------------------------------
VARIABLES profile, sent, audit, run, writer, alerts, tried, last, begun
commuteVars == <<profile, sent, audit, run, writer, alerts, tried, last, begun>>

C == INSTANCE Commute WITH
       Runs <- AlertSetup.Runs, Writers <- AlertSetup.Writers, Minutes <- AlertSetup.Minutes,
       Plans <- AlertSetup.Plans, Budget <- AlertSetup.Budget

-----------------------------------------------------------------------------
VARIABLES age, loaded, alerted, saved, check, doomed, noticed, told, gDisturbed, twice, gFuel
watchVars == <<age, loaded, alerted, saved, check, doomed, noticed, told, gDisturbed,
               twice, gFuel>>

G == INSTANCE GatewayWatch WITH
       disturbed <- gDisturbed, fuel <- gFuel, Count <- WatchSetup.Count,
       Listings <- WatchSetup.Listings, Budget <- WatchSetup.Budget

-----------------------------------------------------------------------------
VARIABLES rows, ruled, dismissed, seen, gaps, scan, cleared, lOverlap, lFuel
learnVars == <<rows, ruled, dismissed, seen, gaps, scan, cleared, lOverlap, lFuel>>

L == INSTANCE Learning WITH
       cache <- gaps, overlap <- lOverlap, fuel <- lFuel, Gaps <- LearnSetup.Gaps,
       Requests <- LearnSetup.Requests, Budget <- LearnSetup.Budget

-----------------------------------------------------------------------------
VARIABLES file, deployed, devTrigger, devPush, rOp, served, before, built, rDisturbed, rFuel
releaseVars == <<file, deployed, devTrigger, devPush, rOp, served, before, built, rDisturbed,
                 rFuel>>

P == INSTANCE Releases WITH
       op <- rOp, disturbed <- rDisturbed, fuel <- rFuel,
       Versions <- ReleaseSetup.Versions, None <- ReleaseSetup.None, Torn <- ReleaseSetup.Torn,
       Handlers <- ReleaseSetup.Handlers, Budget <- ReleaseSetup.Budget

-----------------------------------------------------------------------------
VARIABLES integ, catalogue, tRow, lastId, shared, names, own, tOp, lost, tangled, tFuel
toolVars == <<integ, catalogue, tRow, lastId, shared, names, own, tOp, lost, tangled, tFuel>>

T == INSTANCE ToolCatalog WITH
       row <- tRow, op <- tOp, fuel <- tFuel, Integrations <- ToolSetup.Integrations,
       Names <- ToolSetup.Names, Catalogues <- ToolSetup.Catalogues,
       Handlers <- ToolSetup.Handlers, MaxId <- ToolSetup.MaxId, Budget <- ToolSetup.Budget

-----------------------------------------------------------------------------
VARIABLES ask, acl, born, group, exists, table, visible, known, moved, oCall, oFuel
omadaVars == <<ask, acl, born, group, exists, table, visible, known, moved, oCall, oFuel>>

O == INSTANCE OmadaHandlers WITH
       call <- oCall, fuel <- oFuel, Calls <- ControllerSetup.Calls,
       Scenarios <- ControllerSetup.Scenarios, Rules <- ControllerSetup.Rules,
       Text <- ControllerSetup.Text, Body <- ControllerSetup.Body, Ips <- ControllerSetup.Ips,
       Notes <- ControllerSetup.Notes, Blank <- ControllerSetup.Blank,
       Absent <- ControllerSetup.Absent, Rows <- ControllerSetup.Rows,
       Hits <- ControllerSetup.Hits, Sites <- ControllerSetup.Sites,
       NoSites <- ControllerSetup.NoSites, FirstRules <- ControllerSetup.FirstRules,
       FirstGroups <- ControllerSetup.FirstGroups, FirstTables <- ControllerSetup.FirstTables,
       RulePage <- ControllerSetup.RulePage, FirstPage <- ControllerSetup.FirstPage,
       PageSize <- ControllerSetup.PageSize, MaxPages <- ControllerSetup.MaxPages,
       Budget <- ControllerSetup.Budget

-----------------------------------------------------------------------------
ASSUME ServicesAssumption ==
  /\ U!ConstantsAssumption /\ E!ConstantsAssumption /\ A!ConstantsAssumption
  /\ N!ConstantsAssumption /\ W!ConstantsAssumption /\ R!ConstantsAssumption
  /\ C!ConstantsAssumption /\ G!ConstantsAssumption /\ L!ConstantsAssumption
  /\ P!ConstantsAssumption /\ T!ConstantsAssumption /\ O!ConstantsAssumption

Init ==
  /\ which \in Services
  /\ U!Init /\ E!Init /\ A!Init /\ N!Init /\ W!Init /\ R!Init
  /\ C!Init /\ G!Init /\ L!Init /\ P!Init /\ T!Init /\ O!Init

Next ==
  /\ which' = which
  /\ \/ which = "auth" /\ U!Next
     \/ which # "auth" /\ UNCHANGED authVars
  /\ \/ which = "edit" /\ E!Next
     \/ which # "edit" /\ UNCHANGED editVars
  /\ \/ which = "windows" /\ A!Next
     \/ which # "windows" /\ UNCHANGED windowVars
  /\ \/ which = "enrol" /\ N!Next
     \/ which # "enrol" /\ UNCHANGED enrolVars
  /\ \/ which = "fetch" /\ W!Next
     \/ which # "fetch" /\ UNCHANGED fetchVars
  /\ \/ which = "limit" /\ R!Next
     \/ which # "limit" /\ UNCHANGED limitVars
  /\ \/ which = "commute" /\ C!Next
     \/ which # "commute" /\ UNCHANGED commuteVars
  /\ \/ which = "watch" /\ G!Next
     \/ which # "watch" /\ UNCHANGED watchVars
  /\ \/ which = "learn" /\ L!Next
     \/ which # "learn" /\ UNCHANGED learnVars
  /\ \/ which = "release" /\ P!Next
     \/ which # "release" /\ UNCHANGED releaseVars
  /\ \/ which = "tools" /\ T!Next
     \/ which # "tools" /\ UNCHANGED toolVars
  /\ \/ which = "omada" /\ O!Next
     \/ which # "omada" /\ UNCHANGED omadaVars

vars == <<which, authVars, editVars, windowVars, enrolVars, fetchVars, limitVars,
          commuteVars, watchVars, learnVars, releaseVars, toolVars, omadaVars>>

\* The calls to a service that authenticates go on, and the two threads loop.
Fairness ==
  /\ \A c \in AuthSetup.Calls : WF_authVars(which = "auth" /\ U!Step(c))
  /\ WF_watchVars(which = "watch" /\ G!Check("watch"))
  /\ WF_learnVars(which = "learn" /\ L!Step("loop"))

Spec == Init /\ [][Next]_vars /\ Fairness

-----------------------------------------------------------------------------
\* The type invariants of the services.
TypeOK ==
  CASE which = "auth" -> U!TypeOK   [] which = "edit" -> E!TypeOK
    [] which = "windows" -> A!TypeOK [] which = "enrol" -> N!TypeOK
    [] which = "fetch" -> W!TypeOK   [] which = "limit" -> R!TypeOK
    [] which = "commute" -> C!TypeOK [] which = "watch" -> G!TypeOK
    [] which = "learn" -> L!TypeOK   [] which = "release" -> P!TypeOK
    [] which = "tools" -> T!TypeOK   [] which = "omada" -> O!TypeOK

\* The properties of the services, by the names of their modules.
NoStaleUninstall == which = "enrol" => N!NoStaleUninstall
HopsAllowed == which = "fetch" => W!HopsAllowed
AnnouncedOnce == which = "watch" => G!AnnouncedOnce
ClearedStayOut == which = "learn" => L!ClearedStayOut
ReleasesConsistent == which = "release" => P!ReleasesConsistent

\* What handlers that need several upstream calls change, and what they report of it.
KeepsWhatItRead == E!KeepsWhatItRead /\ O!KeepsWhatItRead
ReportsTruth ==
  /\ which = "edit" => E!ReportsTruth
  /\ which = "omada" => O!ReportsTruth

\* What an upstream service was sent and what the caller and the audit were told.
CallsRecorded == which = "auth" => U!OnceAndRecorded /\ U!RefusedOnlyIfDisturbed

\* What runs in an approved window, and how often.
WindowsHold == which = "windows" => A!WindowsHold

\* What the two limiters that threads share let in.
WithinLimits ==
  /\ which = "limit" => R!QuietCallsWithinLimit
  /\ which = "fetch" => W!FetchesWithinLimits

\* What the scheduler and the audit of the commute profiles promise.
AlertsInTime == which = "commute" => C!SlotSentOnce /\ C!SlotsTried /\ C!AuditChains

\* The tools agents see, and what seeding leaves alone.
CatalogueKept == which = "tools" => T!SurfaceFollows /\ T!SeedingSpares

\* Calls end, and the two threads catch up with whatever earlier rounds missed.
Progress ==
  /\ which = "auth" => U!CallsEnd
  /\ which = "watch" => G!SilenceTold
  /\ which = "learn" => L!DismissedLeaves
=============================================================================
