---------------------------- MODULE OmadaHandlers ----------------------------
(***************************************************************************)
(* The Omada tools that need several upstream calls (core/omada_utils.py):  *)
(* move an ACL rule, name the rule a create made, edit the members of a     *)
(* group, list a table page by page, tell an unknown site from a forbidden  *)
(* one.  The controller has no locks and people change it between the calls.*)
(* One list of rules, one group and one table are modelled; what a rule or  *)
(* a row says is reduced to what the handlers compare.                      *)
(***************************************************************************)
EXTENDS Integers, Sequences, FiniteSets

CONSTANTS
  Calls,     \* runs of a tool
  Scenarios, \* what the calls ask for, one of these
  Rules,     \* identities of ACL rules
  Text,      \* Text[r]: the description of a rule
  Body,      \* Body[r]: the fields _matches compares
  Ips,       \* addresses of members
  Notes,     \* their descriptions
  Blank,     \* the description that is empty
  Absent,    \* no member, no rule
  Rows,      \* identities of the rows of a table
  Hits,      \* the rows a filter lets through
  Sites,
  NoSites,   \* the list of sites is not known
  FirstRules, FirstGroups, FirstTables, \* what a run may start from
  RulePage,  \* how many rules reorder_acls lists
  FirstPage, \* how many rules enrich_acl_create lists
  PageSize, MaxPages, \* of a listing
  Budget     \* bound: changes by hand, lost connections, refusals

Lists == {"list_known_clients", "list_dhcp_reservations", "list_client_events",
          "list_networks", "list_acls", "get_device"}
Kinds == {"reorder", "create", "add", "remove", "site"} \cup Lists

Asks == [kind : Kinds, rule : Rules, before : Rules, members : SUBSET Ips,
         note : Notes \cup {Absent}, filtered : BOOLEAN, site : Sites]

Elems(s) == {s[i] : i \in DOMAIN s}
NoRepeat(s) == \A i, j \in DOMAIN s : s[i] = s[j] => i = j
Members == [Ips -> Notes \cup {Absent}]

\* The inventories have no filter, a device is looked up by its MAC, and a rule is not
\* moved before itself.
ConstantsAssumption ==
  /\ Scenarios \subseteq [Calls -> Asks]
  /\ \A a \in Scenarios : \A c \in Calls :
       /\ a[c].kind \in {"list_networks", "list_acls"} => ~ a[c].filtered
       /\ a[c].kind = "get_device" => a[c].filtered
       /\ a[c].kind = "reorder" => a[c].rule # a[c].before
  /\ Blank \in Notes /\ Absent \notin Notes \cup Rules
  /\ NoSites \notin SUBSET Sites
  /\ IsFiniteSet(Rows) /\ Hits \subseteq Rows
  /\ FirstRules \subseteq Seq(Rules) /\ \A s \in FirstRules : NoRepeat(s)
  /\ FirstTables \subseteq Seq(Rows) /\ \A s \in FirstTables : NoRepeat(s)
  /\ FirstGroups \subseteq Members
  /\ RulePage \in Nat /\ FirstPage \in Nat
  /\ PageSize \in Nat \ {0} /\ MaxPages \in Nat \ {0} /\ Budget \in Nat

VARIABLES
  ask,     \* ask[c]: the arguments of call c
  acl,     \* the rules in the order they are evaluated
  born,    \* the rules there ever were
  group,   \* the description of each member, or Absent
  exists,  \* the group is there
  table,   \* the rows of the table that is listed
  visible, \* the sites the account may see
  known,   \* _site_cache: the sites listed within the last minute, or NoSites
  moved,   \* history: sites that came or went within that minute
  call,    \* the calls
  fuel     \* bound: what is left of Budget

rules == <<acl, born>>
groups == <<group, exists>>
sites == <<visible, known, moved>>
vars == <<ask, rules, groups, table, sites, call, fuel>>

TypeOK ==
  /\ ask \in Scenarios /\ acl \in Seq(Rules) /\ NoRepeat(acl)
  /\ Elems(acl) \subseteq born /\ born \subseteq Rules
  /\ group \in Members /\ exists \in BOOLEAN /\ table \in Seq(Rows) /\ NoRepeat(table)
  /\ visible \subseteq Sites
  /\ known \in (SUBSET Sites) \cup {NoSites} /\ moved \subseteq Sites /\ fuel \in 0..Budget
  /\ call \in [Calls ->
       [stage : {"start", "write", "after", "end"}, order : Seq(Rules), read : Members,
        mine : Rules \cup {Absent}, named : Rules \cup {Absent}, listed : BOOLEAN,
        rows : Seq(Rows), page : 1..MaxPages, missed : SUBSET Rows,
        truncated : BOOLEAN, scanCapped : BOOLEAN, wrote : BOOLEAN, lost : BOOLEAN,
        calm : BOOLEAN, seen : BOOLEAN,
        result : {"none", "done", "refused", "failed", "not_found", "unknown_site",
                  "permission_denied"}]]

\* read, listed, missed, calm and seen are histories once a call has ended.
Fresh ==
  [stage |-> "start", order |-> <<>>, read |-> [ip \in Ips |-> Absent], mine |-> Absent,
   named |-> Absent, listed |-> FALSE, rows |-> <<>>, page |-> 1, missed |-> {},
   truncated |-> FALSE, scanCapped |-> FALSE, wrote |-> FALSE, lost |-> FALSE,
   calm |-> TRUE, seen |-> FALSE, result |-> "none"]

Init ==
  /\ ask \in Scenarios
  /\ acl \in FirstRules /\ born = Elems(acl)
  /\ group \in FirstGroups /\ exists = TRUE
  /\ table \in FirstTables
  /\ visible \in SUBSET Sites /\ known = NoSites /\ moved = {}
  /\ call = [c \in Calls |-> Fresh] /\ fuel = Budget

Spend == fuel > 0 /\ fuel' = fuel - 1

\* What people change is of interest only if some call can notice.
Concerns(kinds) == \E c \in Calls : ask[c].kind \in kinds /\ call[c].stage # "end"

At(c, stage, kinds) == call[c].stage = stage /\ ask[c].kind \in kinds
Set(c, k) == call' = [call EXCEPT ![c] = k]
End(c, result) == Set(c, [call[c] EXCEPT !.stage = "end", !.result = result])

\* A read fails before anything was written.
Refused(c) == End(c, "refused") /\ Spend

\* The answer to a write that took effect, unless the connection was lost.
Wrote(c, k) ==
  \/ Set(c, [k EXCEPT !.wrote = TRUE]) /\ UNCHANGED fuel
  \/ /\ Set(c, [k EXCEPT !.wrote = TRUE, !.lost = TRUE, !.stage = "end", !.result = "failed"])
     /\ Spend

-----------------------------------------------------------------------------
(* Rules.                                                                  *)

Position(s, x) == CHOOSE i \in DOMAIN s : s[i] = x
Without(s, k) == [i \in 1..(Len(s) - 1) |-> IF i < k THEN s[i] ELSE s[i + 1]]
Insert(s, k, x) ==
  [i \in 1..(Len(s) + 1) |-> IF i < k THEN s[i] ELSE IF i = k THEN x ELSE s[i - 1]]

\* The order without the rule, and the rule put back before the other one.
Moved(s, rule, before) ==
  LET rest == Without(s, Position(s, rule)) IN Insert(rest, Position(rest, before), rule)

Page(s, size) == SubSeq(s, 1, IF Len(s) < size THEN Len(s) ELSE size)

\* reorder_acls: the list, on one page, must have both rules.
ListRules(c) ==
  /\ At(c, "start", {"reorder"})
  /\ \/ LET order == Page(acl, RulePage) IN
          /\ IF {ask[c].rule, ask[c].before} \subseteq Elems(order)
             THEN Set(c, [call[c] EXCEPT !.stage = "write", !.order = order])
             ELSE End(c, "refused")
          /\ UNCHANGED fuel
     \/ Refused(c)
  /\ UNCHANGED <<ask, rules, groups, table, sites>>

\* The whole map of indexes, which the controller takes if it names its rules.
PostIndexes(c) ==
  /\ At(c, "write", {"reorder"})
  /\ LET order == Moved(call[c].order, ask[c].rule, ask[c].before) IN
       \/ /\ Elems(order) = Elems(acl) /\ acl' = order
          /\ Wrote(c, [call[c] EXCEPT !.stage = "end", !.result = "done"])
       \/ Elems(order) # Elems(acl) /\ End(c, "refused") /\ UNCHANGED <<acl, fuel>>
       \/ Refused(c) /\ UNCHANGED acl
  /\ UNCHANGED <<ask, born, groups, table, sites>>

\* The create itself: the controller chooses the identity and appends the rule.
PostRule(c) ==
  /\ At(c, "start", {"create"})
  /\ \/ \E r \in Rules \ born :
          /\ Text[r] = Text[ask[c].rule] /\ Body[r] = Body[ask[c].rule]
          /\ acl' = Append(acl, r) /\ born' = born \cup {r}
          /\ Wrote(c, [call[c] EXCEPT !.stage = "after", !.mine = r])
     \/ Refused(c) /\ UNCHANGED rules
  /\ UNCHANGED <<ask, groups, table, sites>>

\* The one with the description of the create; of several, the first _matches accepts.
Named(list, rule) ==
  LET same == {i \in DOMAIN list : Text[list[i]] = Text[rule]}
      alike == {i \in same : Cardinality(same) = 1 \/ Body[list[i]] = Body[rule]}
  IN IF alike = {} THEN Absent ELSE list[CHOOSE i \in alike : \A j \in alike : i <= j]

\* enrich_acl_create: a list that cannot be read leaves the answer as it was.
EnrichCreate(c) ==
  /\ At(c, "after", {"create"})
  /\ \/ LET list == Page(acl, FirstPage) IN
          /\ Set(c, [call[c] EXCEPT !.stage = "end", !.result = "done",
                       !.named = Named(list, ask[c].rule),
                       !.listed = call[c].mine \in Elems(list)])
          /\ UNCHANGED fuel
     \/ End(c, "done") /\ Spend
  /\ UNCHANGED <<ask, rules, groups, table, sites>>

-----------------------------------------------------------------------------
(* Groups.                                                                 *)

FindGroup(c) ==
  /\ At(c, "start", {"add", "remove"})
  /\ \/ /\ IF exists THEN Set(c, [call[c] EXCEPT !.stage = "write", !.read = group])
                     ELSE End(c, "refused")
        /\ UNCHANGED fuel
     \/ Refused(c)
  /\ UNCHANGED <<ask, rules, groups, table, sites>>

\* update_group_members: what was read, with the members taken out or put in; one that
\* is put in without a description keeps the one it had.
Merged(c) ==
  [ip \in Ips |->
     IF ip \notin ask[c].members THEN call[c].read[ip]
     ELSE IF ask[c].kind = "remove" THEN Absent
     ELSE IF ask[c].note # Absent THEN ask[c].note
     ELSE IF call[c].read[ip] # Absent THEN call[c].read[ip] ELSE Blank]

\* The PATCH replaces the whole list.
PatchGroup(c) ==
  /\ At(c, "write", {"add", "remove"})
  /\ \/ exists /\ group' = Merged(c) /\ Wrote(c, [call[c] EXCEPT !.stage = "after"])
     \/ ~ exists /\ End(c, "refused") /\ UNCHANGED <<group, fuel>>
     \/ Refused(c) /\ UNCHANGED group
  /\ UNCHANGED <<ask, rules, exists, table, sites>>

\* A group that is gone is reported as it was written; a lost connection is an error.
RereadGroup(c) ==
  /\ At(c, "after", {"add", "remove"})
  /\ \/ End(c, "done") /\ UNCHANGED fuel
     \/ Set(c, [call[c] EXCEPT !.stage = "end", !.result = "failed", !.lost = TRUE]) /\ Spend
  /\ UNCHANGED <<ask, rules, groups, table, sites>>

-----------------------------------------------------------------------------
(* Listings.                                                               *)

\* Positions of the rows the caller asked for, and of a page of them.
Matched(c, rows) == {i \in DOMAIN rows : ask[c].filtered => rows[i] \in Hits}

\* Bug: what a filter lets through always counts as complete.
TruncatedUnlessFiltered(returned, matched, total, filtered) == ~ filtered /\ returned < total

_truncated(returned, matched, total, filtered) ==
  IF filtered THEN returned < matched ELSE returned < total

\* The answers that show a page of what matched, whatever the order and the page.
PageOf(c, rows, total) ==
  LET matched == Matched(c, rows)
  IN {[out |-> out, scanCapped |-> FALSE,
       truncated |-> _truncated(Cardinality(out), Cardinality(matched), total,
                                ask[c].filtered)] : out \in SUBSET matched}

AllOf(c, rows) == {[out |-> Matched(c, rows), truncated |-> FALSE, scanCapped |-> FALSE]}

list_known_clients(c, rows, total) == PageOf(c, rows, total)
list_dhcp_reservations(c, rows, total) == PageOf(c, rows, total)
list_client_events(c, rows, total) ==
  {[answer EXCEPT !.scanCapped = Len(rows) < total] : answer \in PageOf(c, rows, total)}
list_networks(c, rows) == AllOf(c, rows)
list_acls(c, rows) == AllOf(c, rows)
get_device(c, rows) == IF Matched(c, rows) = {} THEN {} ELSE AllOf(c, rows)

Answers(c, rows, total) ==
  CASE ask[c].kind = "list_known_clients" -> list_known_clients(c, rows, total)
    [] ask[c].kind = "list_dhcp_reservations" -> list_dhcp_reservations(c, rows, total)
    [] ask[c].kind = "list_client_events" -> list_client_events(c, rows, total)
    [] ask[c].kind = "list_networks" -> list_networks(c, rows)
    [] ask[c].kind = "list_acls" -> list_acls(c, rows)
    [] ask[c].kind = "get_device" -> get_device(c, rows)

\* One page, with the number of rows there are now.
fetch_all(c) ==
  LET k == call[c]
      total == Len(table)
      first == (k.page - 1) * PageSize + 1
      last == IF k.page * PageSize < total THEN k.page * PageSize ELSE total
      data == SubSeq(table, first, last)
      rows == k.rows \o data
  IN IF Len(data) < PageSize \/ Len(rows) >= total \/ k.page = MaxPages
     THEN \/ \E answer \in Answers(c, rows, total) :
               Set(c, [k EXCEPT !.stage = "end", !.result = "done", !.rows = rows,
                         !.truncated = answer.truncated, !.scanCapped = answer.scanCapped,
                         !.missed = {table[i] : i \in Matched(c, table)}
                                      \ {rows[i] : i \in answer.out}])
          \/ /\ Answers(c, rows, total) = {}
             /\ Set(c, [k EXCEPT !.stage = "end", !.result = "not_found", !.rows = rows,
                          !.missed = {table[i] : i \in Matched(c, table)}])
     ELSE Set(c, [k EXCEPT !.rows = rows, !.page = @ + 1])

FetchPage(c) ==
  /\ At(c, "start", Lists)
  /\ (fetch_all(c) /\ UNCHANGED fuel) \/ Refused(c)
  /\ UNCHANGED <<ask, rules, groups, table, sites>>

-----------------------------------------------------------------------------
(* Sites.                                                                  *)

\* The verdict on an answer -1505 about a site.
classify_omada_error(c, ids) ==
  Set(c, [call[c] EXCEPT !.stage = "end",
            !.calm = ids # NoSites /\ ask[c].site \notin moved',
            !.seen = ask[c].site \in visible,
            !.result = IF ids # NoSites /\ ask[c].site \in ids
                       THEN "permission_denied" ELSE "unknown_site"])

\* _known_site_ids: the list of the last minute, a new one, or none.
KnownSites(c) ==
  /\ At(c, "start", {"site"})
  /\ \/ /\ known' = (IF known # NoSites THEN known ELSE visible)
        /\ moved' = (IF known # NoSites THEN moved ELSE {})
        /\ UNCHANGED fuel
     \/ known = NoSites /\ Spend /\ UNCHANGED <<known, moved>>
  /\ classify_omada_error(c, known')
  /\ UNCHANGED <<ask, rules, groups, table, visible>>

\* The minute is over.
Expire ==
  /\ known # NoSites /\ known' = NoSites /\ moved' = {}
  /\ UNCHANGED <<ask, rules, groups, table, visible, call, fuel>>

-----------------------------------------------------------------------------
(* People.                                                                 *)

\* A rule is moved, made or deleted.
RulesByHand ==
  /\ Concerns({"reorder", "create"}) /\ Spend
  /\ \/ \E i, j \in DOMAIN acl :
          i < j /\ acl' = [acl EXCEPT ![i] = acl[j], ![j] = acl[i]] /\ UNCHANGED born
     \/ \E r \in Rules \ born : acl' = Append(acl, r) /\ born' = born \cup {r}
     \/ \E k \in DOMAIN acl : acl' = Without(acl, k) /\ UNCHANGED born
  /\ UNCHANGED <<ask, groups, table, sites, call>>

GroupByHand ==
  /\ Concerns({"add", "remove"}) /\ Spend
  /\ \/ \E ip \in Ips, note \in Notes \cup {Absent} :
          exists /\ group' = [group EXCEPT ![ip] = note] /\ UNCHANGED exists
     \/ exists' = ~ exists /\ group' = [ip \in Ips |-> Absent]
  /\ UNCHANGED <<ask, rules, table, sites, call>>

\* A row comes or goes: listings that are not finished may miss others.
TableChanges ==
  /\ Concerns(Lists) /\ Spend
  /\ \/ \E row \in Rows \ Elems(table), k \in 1..(Len(table) + 1) : table' = Insert(table, k, row)
     \/ \E k \in DOMAIN table : table' = Without(table, k)
  /\ call' = [c \in Calls |->
                IF call[c].stage = "start" /\ call[c].page > 1
                THEN [call[c] EXCEPT !.calm = FALSE] ELSE call[c]]
  /\ UNCHANGED <<ask, rules, groups, sites>>

SiteComesOrGoes(s) ==
  /\ Concerns({"site"}) /\ Spend
  /\ visible' = (IF s \in visible THEN visible \ {s} ELSE visible \cup {s})
  /\ moved' = moved \cup {s}
  /\ UNCHANGED <<ask, rules, groups, table, known, call>>

Next ==
  \/ \E c \in Calls :
       \/ ListRules(c) \/ PostIndexes(c) \/ PostRule(c) \/ EnrichCreate(c)
       \/ FindGroup(c) \/ PatchGroup(c) \/ RereadGroup(c)
       \/ FetchPage(c) \/ KnownSites(c)
  \/ RulesByHand \/ GroupByHand \/ TableChanges \/ Expire
  \/ \E s \in Sites : SiteComesOrGoes(s)

Spec == Init /\ [][Next]_vars

-----------------------------------------------------------------------------
(* What must hold.                                                         *)

Precedes(s, x, y) == \E i, j \in DOMAIN s : i < j /\ s[i] = x /\ s[j] = y

\* A call changes what it was asked to change, and else only what was changed by hand
\* since it read: a reorder keeps every rule, puts its rule right before the other and
\* leaves the rest in the order it listed; an update of a group writes the members it
\* did not name, and the descriptions it was not given, as it read them.
KeepsWhatItRead ==
  [][\A c \in Calls :
       /\ PostIndexes(c) /\ call'[c].wrote =>
            /\ Elems(acl') = Elems(acl)
            /\ \E i \in 1..(Len(acl') - 1) :
                 acl'[i] = ask[c].rule /\ acl'[i + 1] = ask[c].before
            /\ \A x, y \in Elems(acl) \ {ask[c].rule} :
                 Precedes(acl', x, y) <=> Precedes(call[c].order, x, y)
       /\ PatchGroup(c) /\ call'[c].wrote =>
            \A ip \in Ips :
              \/ group'[ip] = call[c].read[ip]
              \/ ip \in ask[c].members /\
                   (group'[ip] = Absent <=> ask[c].kind = "remove") /\
                   (ask[c].note = Absent => call[c].read[ip] = Absent \/ group'[ip] = Absent)]_vars

\* A listing stopped at its last page and has no field to say so.
AtBound(c) ==
  call[c].page = MaxPages /\ (ask[c].filtered => ask[c].kind # "list_client_events")
                          /\ (~ ask[c].filtered => ask[c].kind \in {"list_networks", "list_acls"})

\* What a call reports is what happened.  An error means that nothing was written, unless
\* the connection was lost.  The rule a create names has its description, and its fields
\* if its own rule was on the page that was searched.  A listing that says it is complete
\* is, if the table stood still.  A site is called unknown when it is not in the list.
ReportsTruth ==
  \A c \in Calls :
    LET k == call[c] IN
    /\ k.result = "refused" \/ (k.result = "failed" /\ ~ k.lost) => ~ k.wrote
    /\ k.result = "done" /\ ask[c].kind \notin Lists => k.wrote
    /\ k.named # Absent =>
         /\ Text[k.named] = Text[k.mine]
         /\ k.listed => Body[k.named] = Body[k.mine]
    /\ k.result \in {"done", "not_found"} /\ ask[c].kind \in Lists /\ k.calm =>
         k.truncated \/ k.scanCapped \/ AtBound(c) \/ k.missed = {}
    /\ k.result \in {"unknown_site", "permission_denied"} /\ k.calm =>
         (k.result = "permission_denied") = k.seen
=============================================================================
