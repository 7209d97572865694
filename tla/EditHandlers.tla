---------------------------- MODULE EditHandlers ----------------------------
(***************************************************************************)
(* The handlers of core/tool_handlers.py that edit something in several    *)
(* upstream calls: Home Assistant dashboards (list, read, save, read back) *)
(* and *arr quality definitions (read, merge, PUT, read back).  The service *)
(* has no locks and people edit it too: each call is a step.               *)
(*                                                                         *)
(* One address is modelled.  A configuration is the set of the edits it    *)
(* contains, so that a lost edit shows.                                    *)
(***************************************************************************)
EXTENDS Integers, FiniteSets

CONSTANTS
  Calls,    \* runs of a handler
  Scenarios,\* what the calls ask for, one of these
  Expects,  \* the calls that, if they save, name the expect_hash of an earlier read
  People,   \* edits made in Home Assistant itself
  MaxId,    \* bound: how often there is a dashboard at the address
  Budget    \* bound: connections lost

Kinds == {"patch", "replace", "dryRun", "create", "rename", "delete", "merge"}

ConstantsAssumption ==
  /\ Scenarios \subseteq [Calls -> Kinds] /\ Calls \cap People = {}
  /\ \A k \in Scenarios : (\E c \in Calls : k[c] = "merge") => \A c \in Calls : k[c] = "merge"
  /\ Expects \subseteq Calls
  /\ MaxId \in Nat \ {0} /\ Budget \in Nat

VARIABLES
  kind,   \* kind[c]: what call c asks for
  board,  \* what is at the address: a dashboard, or a quality definition
  ids,    \* how many dashboards there were
  call,   \* the calls
  fuel    \* bound: what is left of Budget

vars == <<kind, board, ids, call, fuel>>

Edits == Calls \cup People
Board == [id : 0..MaxId, yaml : BOOLEAN, config : SUBSET Edits, names : SUBSET Calls]
NoBoard == [id |-> 0, yaml |-> FALSE, config |-> {}, names |-> {}]
Results == {"none", "done", "dryRun", "refused", "failed"}

TypeOK ==
  /\ kind \in Scenarios /\ board \in Board /\ ids \in 0..MaxId /\ fuel \in 0..Budget
  /\ call \in [Calls -> [stage : {"list", "read", "write", "readBack", "end"},
                         id : 0..MaxId, expect : SUBSET Edits, read : SUBSET Edits,
                         wrote : BOOLEAN, lost : BOOLEAN, verified : BOOLEAN,
                         result : Results]]

\* A call that expects something has read it before it waited for approval.
Init ==
  /\ kind \in Scenarios
  /\ \E yaml \in BOOLEAN :
       /\ yaml => \A c \in Calls : kind[c] # "merge"
       /\ board = [id |-> 1, yaml |-> yaml, config |-> {}, names |-> {}]
  /\ ids = 1
  /\ call = [c \in Calls |->
       [stage |-> IF kind[c] = "merge" THEN "read" ELSE "list", id |-> 0,
        expect |-> {}, read |-> {}, wrote |-> FALSE, lost |-> FALSE,
        verified |-> FALSE, result |-> "none"]]
  /\ fuel = Budget

End(c, result) ==
  call' = [call EXCEPT ![c].stage = "end", ![c].result = result]

-----------------------------------------------------------------------------
(* The steps of a handler.                                                 *)

\* lovelace/dashboards/list: create wants none at the address, the others one
\* that is not kept in a file.
List(c) ==
  /\ call[c].stage = "list"
  /\ IF (board.id = 0) = (kind[c] = "create") /\ ~ (board.id # 0 /\ board.yaml)
     THEN call' = [call EXCEPT ![c].id = board.id,
                     ![c].stage = IF kind[c] \in {"create", "rename", "delete"}
                                  THEN "write" ELSE "read"]
     ELSE End(c, "refused")
  /\ UNCHANGED <<kind, board, ids, fuel>>

\* Saves that name the hash of what their agent read before.
Guarded(c) == c \in Expects /\ kind[c] \in {"patch", "replace"}

\* lovelace/config, or the quality definition: a dashboard never saved is an
\* empty one, a dashboard that is gone an error.
Read(c) ==
  /\ call[c].stage = "read"
  /\ IF board.id = 0 \/ (Guarded(c) /\ call[c].expect # board.config)
     THEN End(c, "refused")
     ELSE IF kind[c] = "dryRun" THEN End(c, "dryRun")
     ELSE call' = [call EXCEPT ![c].stage = "write", ![c].read = board.config]
  /\ UNCHANGED <<kind, board, ids, fuel>>

\* Bug: operations are saved without the configuration they were applied to.
PatchedBlind(c) == {c}

\* _apply_ops, the merged fields, or the configuration given.
Patched(c) == IF kind[c] = "replace" THEN {c} ELSE call[c].read \cup {c}

\* What Home Assistant refuses: an address taken, an id that is gone, a
\* configuration for no dashboard or one in a file.
Accepts(c) ==
  CASE kind[c] = "create" -> board.id = 0 /\ ids < MaxId
    [] kind[c] \in {"rename", "delete"} -> board.id = call[c].id
    [] OTHER -> board.id # 0 /\ ~ board.yaml

Effect(c) ==
  CASE kind[c] = "create" -> [NoBoard EXCEPT !.id = ids + 1]
    [] kind[c] = "rename" -> [board EXCEPT !.names = @ \cup {c}]
    [] kind[c] = "delete" -> NoBoard
    [] OTHER -> [board EXCEPT !.config = Patched(c)]

\* The write.  A lost connection hides whether it took effect.
Write(c) ==
  /\ call[c].stage = "write"
  /\ \/ /\ Accepts(c)
        /\ board' = Effect(c)
        /\ ids' = IF kind[c] = "create" THEN ids + 1 ELSE ids
        /\ \/ /\ call' = [call EXCEPT ![c].wrote = TRUE,
                            ![c].id = IF kind[c] = "create" THEN ids + 1 ELSE @,
                            ![c].stage = IF kind[c] = "rename" THEN "end" ELSE "readBack",
                            ![c].result = IF kind[c] = "rename" THEN "done" ELSE @]
              /\ UNCHANGED fuel
           \/ /\ fuel > 0 /\ fuel' = fuel - 1
              /\ call' = [call EXCEPT ![c].wrote = TRUE, ![c].lost = TRUE,
                            ![c].stage = "end", ![c].result = "failed"]
     \/ ~ Accepts(c) /\ End(c, "refused") /\ UNCHANGED <<board, ids, fuel>>
  /\ UNCHANGED kind

\* What is read back is what was written.
Confirmed(c) ==
  CASE kind[c] = "create" -> board.id # 0
    [] kind[c] = "delete" -> board.id # call[c].id
    [] kind[c] = "merge" -> c \in board.config
    [] OTHER -> board.id # 0 /\ board.config = Patched(c)

Finish(c, result, verified, lost) ==
  call' = [call EXCEPT ![c].stage = "end", ![c].result = result,
                       ![c].verified = verified, ![c].lost = lost]

\* The read after the write: an error of the service leaves the result unverified,
\* a lost connection is reported as a failure of the whole call.
ReadBack(c) ==
  /\ call[c].stage = "readBack"
  /\ \/ Finish(c, "done", Confirmed(c), FALSE) /\ UNCHANGED fuel
     \/ /\ fuel > 0 /\ fuel' = fuel - 1
        /\ Finish(c, "done", FALSE, FALSE) \/ Finish(c, "failed", FALSE, TRUE)
  /\ UNCHANGED <<kind, board, ids>>

-----------------------------------------------------------------------------
(* People.                                                                 *)

\* An agent reads (lovelace_dashboard) before it asks for an edit.
Prepare(c) ==
  /\ Guarded(c) /\ call[c].stage = "list" /\ board.id # 0
  /\ call[c].expect # board.config
  /\ call' = [call EXCEPT ![c].expect = board.config]
  /\ UNCHANGED <<kind, board, ids, fuel>>

EditByHand(p) ==
  /\ board.id # 0 /\ p \notin board.config
  /\ board' = [board EXCEPT !.config = @ \cup {p}]
  /\ UNCHANGED <<kind, ids, call, fuel>>

RecreateByHand ==
  /\ ids < MaxId /\ \A c \in Calls : kind[c] # "merge"
  /\ \E yaml \in BOOLEAN :
       board' = [id |-> ids + 1, yaml |-> yaml, config |-> {}, names |-> {}]
  /\ ids' = ids + 1
  /\ UNCHANGED <<kind, call, fuel>>

Next ==
  \/ \E c \in Calls : List(c) \/ Read(c) \/ Write(c) \/ ReadBack(c) \/ Prepare(c)
  \/ \E p \in People : EditByHand(p)
  \/ RecreateByHand

Spec == Init /\ [][Next]_vars

-----------------------------------------------------------------------------
(* What must hold.                                                         *)

\* A patch or a merge keeps every edit it has read: what its save drops was made
\* after that read.  A full replacement is asked for in words; a deletion takes
\* only the dashboard that was looked up, never one made since at its address.
KeepsWhatItRead ==
  [][\A c \in Calls :
       Write(c) =>
         /\ kind[c] \in {"patch", "merge"} =>
              board.config \ board'.config \subseteq board.config \ call[c].read
         /\ board'.id # board.id /\ board.id # 0 => board.id = call[c].id]_vars

\* What a call reports is what happened: an error means that nothing was written,
\* unless the connection was lost; success, and "verified", that it was.
ReportsTruth ==
  \A c \in Calls :
    LET r == call[c] IN
    /\ (r.result \in {"refused", "dryRun"} \/ (r.result = "failed" /\ ~ r.lost)) => ~ r.wrote
    /\ r.result = "done" \/ r.verified => r.wrote
=============================================================================
