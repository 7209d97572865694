----------------------------- MODULE MCServices -----------------------------
(***************************************************************************)
(* The services with small parameters.  A service that takes no step is    *)
(* left in one of its initial states.                                      *)
(***************************************************************************)
EXTENDS Services

AuthValues ==
  [Calls |-> {"c1", "c2"}, Writes |-> {"c1"}, NoToken |-> "none",
   Tokens |-> {"t1", "t2", "t3", "t4"}, Budget |-> 1]

EditValues ==
  [Calls |-> {"p", "d", "c"}, Expects |-> {"p"}, People |-> {"h"}, MaxId |-> 2, Budget |-> 1,
   Scenarios |-> {[p |-> "patch", d |-> "delete", c |-> "create"],
                  [p |-> "patch", d |-> "replace", c |-> "rename"],
                  [p |-> "patch", d |-> "dryRun", c |-> "patch"],
                  [p |-> "merge", d |-> "merge", c |-> "merge"]}]

WindowValues ==
  [Windows |-> {"w1"}, Runs |-> {"r1", "r2"}, Cmds |-> {"a", "b"}, Caps |-> {0, 1}, Budget |-> 3]

EnrolValues ==
  [Hosts |-> {"h1"}, Tokens |-> {"e1", "e2"}, NoToken |-> "none", MaxId |-> 3, Budget |-> 5]

FetchValues ==
  [Calls |-> {"f1", "f2"}, Principals |-> {"household"}, Hosts |-> {"a"},
   MinuteLimit |-> 1, HourLimit |-> 1, MaxConcurrent |-> 1, MaxRedirects |-> 1,
   Minute |-> 1, Hour |-> 2, MaxClock |-> 3, Budget |-> 1]

LimitValues ==
  [Callers |-> {"c1", "c2"}, Keys |-> {"agent", "http"}, Agents |-> {"agent"},
   Max |-> 1, Window |-> 2, MaxClock |-> 2, Budget |-> 3]

AlertValues ==
  [Runs |-> {"d1", "d2"}, Writers |-> {"w1", "w2"}, Minutes |-> {1, 2, 3},
   Plans |-> {{1}, {1, 2}}, Budget |-> 2]

WatchValues == [Count |-> 1, Listings |-> {"l1"}, Budget |-> 2]

LearnValues ==
  [Gaps |-> {<<"approve", "a">>, <<"deny", "a">>}, Requests |-> {"q1"}, Budget |-> 3]

ReleaseValues ==
  [Versions |-> {"v1", "v2"}, None |-> "none", Torn |-> "torn", Handlers |-> {"q1", "q2"},
   Budget |-> 3]

ToolValues ==
  [Integrations |-> {"i"}, Names |-> {"a"}, Catalogues |-> {{}, {"a"}},
   Handlers |-> {"q1", "q2"}, MaxId |-> 3, Budget |-> 3]

-----------------------------------------------------------------------------
(* The Omada tools: pairs of calls that meet on one object.                *)

Ask ==
  [kind |-> "reorder", rule |-> "r1", before |-> "r2", members |-> {}, note |-> "none",
   filtered |-> FALSE, site |-> "s"]
Move(r, s) == [Ask EXCEPT !.rule = r, !.before = s]
Members(k, ips, note) == [Ask EXCEPT !.kind = k, !.members = ips, !.note = note]
Plain(k) == [Ask EXCEPT !.kind = k]
Filtered(k) == [Plain(k) EXCEPT !.filtered = TRUE]
Pair(a, b) == [x |-> a, y |-> b]

ControllerValues ==
  [Calls |-> {"x", "y"},
   Scenarios |->
     {Pair(Move("r2", "r3"), Plain("create")), Pair(Move("r3", "r2"), Plain("create")),
      Pair(Members("add", {"i"}, "none"), Members("remove", {"j"}, "none")),
      Pair(Members("add", {"i"}, "n"), Members("add", {"i", "j"}, "none")),
      Pair(Filtered("list_known_clients"), Filtered("list_client_events")),
      Pair(Plain("list_dhcp_reservations"), Plain("list_networks")),
      Pair(Plain("list_acls"), Filtered("get_device")),
      Pair(Plain("site"), Plain("site"))},
   Rules |-> {"r1", "r2", "r3", "r4"},
   Text |-> [r1 |-> "t", r2 |-> "u", r3 |-> "t", r4 |-> "t"],
   Body |-> [r1 |-> "b", r2 |-> "b", r3 |-> "c", r4 |-> "b"],
   Ips |-> {"i", "j"}, Notes |-> {"", "n"}, Blank |-> "", Absent |-> "none",
   Rows |-> {"t1", "t2", "t3", "t4"}, Hits |-> {"t2"}, Sites |-> {"s"}, NoSites |-> {"unlisted"},
   FirstRules |-> {<<"r3", "r2">>, <<"r2", "r3", "r1">>},
   FirstGroups |-> {[i |-> "n", j |-> "none"]}, FirstTables |-> {<<"t1", "t2", "t3">>},
   RulePage |-> 3, FirstPage |-> 2, PageSize |-> 1, MaxPages |-> 2, Budget |-> 2]

-----------------------------------------------------------------------------
\* Init, each service left alone pinned to one initial state as it is generated.  Of
\* the calls with a credential, those whose service refuses any credential start
\* without one, and for OAuth2 an entry without an expiry stands for an expired one:
\* neither is reused.
MCInit ==
  /\ which \in Services
  /\ U!Init
  /\ which # "auth" => auth = "oauth2" /\ ~ rejects /\ cache = U!NoEntry
  /\ which = "auth" => /\ rejects => cache = U!NoEntry
                       /\ auth = "oauth2" => cache.expires # "past"
  /\ E!Init
  /\ which # "edit" => ~ board.yaml /\ \A c \in EditSetup.Calls : kind[c] = "merge"
  /\ A!Init /\ N!Init /\ W!Init /\ R!Init /\ C!Init
  /\ which # "commute" => profile.times = {1} /\ ~ profile.alerts_only
  /\ G!Init /\ L!Init /\ P!Init /\ T!Init
  /\ which # "learn" => rows = {}
  /\ which # "release" => deployed = "v1"
  /\ which # "tools" =>
       \A i \in ToolSetup.Integrations : integ[i].mode = "joined" /\ catalogue[i] = {}
  /\ O!Init
  /\ which # "omada" =>
       /\ ask = Pair(Plain("site"), Plain("site")) /\ acl = <<"r3", "r2">> /\ visible = {}

MCSpec == MCInit /\ [][Next]_vars /\ Fairness
=============================================================================
