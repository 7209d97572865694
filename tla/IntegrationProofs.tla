-------------------------- MODULE IntegrationProofs --------------------------
(***************************************************************************)
(* What agents reach through the integrations, for every value of the       *)
(* parameters: edits of the tracker, the tools of the Omada controller, the *)
(* catalogue of tools and the calls with a cached credential keep their     *)
(* invariants in the composition of the services; and with the invariants   *)
(* of the other services, from ServicesProofs, the whole keeps its types.   *)
(***************************************************************************)
EXTENDS ServicesProofs

-----------------------------------------------------------------------------
(* Edits of the tracker.                                                   *)

\* What a call has done by the stage it is in, and what it may have reported.
EditShape(c) ==
  LET r == eCall[c] IN
  /\ r.stage \in {"list", "read", "write"} => ~ r.wrote
  /\ r.stage = "readBack" => r.wrote
  /\ r.stage # "end" => r.result = "none" /\ ~ r.verified
  /\ r.result \in {"refused", "dryRun"} \/ (r.result = "failed" /\ ~ r.lost) => ~ r.wrote
  /\ r.result = "done" \/ r.verified => r.wrote

EditInv == E!TypeOK /\ \A c \in EditSetup.Calls : EditShape(c)

EditRecords ==
  [stage : {"list", "read", "write", "readBack", "end"},
   id : 0..EditSetup.MaxId, expect : SUBSET E!Edits, read : SUBSET E!Edits,
   wrote : BOOLEAN, lost : BOOLEAN, verified : BOOLEAN, result : E!Results]

EditTables == kind \in EditSetup.Scenarios /\ board \in E!Board /\ ids \in 0..EditSetup.MaxId /\ eFuel \in 0..EditSetup.Budget

LEMMA EditParts == E!TypeOK <=> EditTables /\ eCall \in [EditSetup.Calls -> EditRecords]
  BY DEF E!TypeOK, EditTables, EditRecords

LEMMA EditPartsNext == E!TypeOK' <=> EditTables' /\ eCall' \in [EditSetup.Calls -> EditRecords]
  BY DEF E!TypeOK, EditTables, EditRecords

LEMMA EditKinds == ASSUME E!ConstantsAssumption, kind \in EditSetup.Scenarios, NEW c \in EditSetup.Calls PROVE kind[c] \in E!Kinds
  BY DEF E!ConstantsAssumption

LEMMA EditInit == ASSUME E!ConstantsAssumption, E!Init PROVE EditInv
<1>1. EditTables
  <2>1. PICK yaml \in BOOLEAN : board = [id |-> 1, yaml |-> yaml, config |-> {}, names |-> {}]
    BY DEF E!Init
  <2>2. board \in E!Board
    BY <2>1 DEF E!Board, E!ConstantsAssumption
  <2>3. ids \in 0..EditSetup.MaxId /\ eFuel \in 0..EditSetup.Budget /\ kind \in EditSetup.Scenarios
    BY DEF E!Init, E!ConstantsAssumption
  <2> QED
    BY <2>2, <2>3 DEF EditTables
<1> DEFINE new(c) == [stage |-> IF kind[c] = "merge" THEN "read" ELSE "list", id |-> 0,
                      expect |-> {}, read |-> {}, wrote |-> FALSE, lost |-> FALSE,
                      verified |-> FALSE, result |-> "none"]
<1>2. \A c \in EditSetup.Calls :
        /\ new(c) \in EditRecords /\ ~ new(c).wrote /\ ~ new(c).verified
        /\ new(c).result = "none" /\ new(c).stage \in {"list", "read"}
  BY DEF EditRecords, E!Results, E!ConstantsAssumption
<1>3. eCall = [c \in EditSetup.Calls |-> new(c)]
  BY DEF E!Init
<1> HIDE DEF new
<1>4. eCall \in [EditSetup.Calls -> EditRecords] /\ \A c \in EditSetup.Calls : EditShape(c)
  BY <1>2, <1>3 DEF EditShape
<1> QED
  BY <1>1, <1>4, EditParts DEF EditInv

-----------------------------------------------------------------------------
\* A call takes a step to `new`; the others stay.
LEMMA EditStep ==
  ASSUME EditInv, NEW c \in EditSetup.Calls, EditTables', NEW new \in EditRecords,
         eCall' = [eCall EXCEPT ![c] = new],
         /\ new.stage \in {"list", "read", "write"} => ~ new.wrote
         /\ new.stage = "readBack" => new.wrote
         /\ new.stage # "end" => new.result = "none" /\ ~ new.verified
         /\ new.result \in {"refused", "dryRun"} \/ (new.result = "failed" /\ ~ new.lost) => ~ new.wrote
         /\ new.result = "done" \/ new.verified => new.wrote
  PROVE  EditInv'
<1>1. eCall \in [EditSetup.Calls -> EditRecords]
  BY EditParts DEF EditInv
<1>2. eCall' \in [EditSetup.Calls -> EditRecords] /\ eCall'[c] = new /\ \A o \in EditSetup.Calls \ {c} : eCall'[o] = eCall[o]
  BY <1>1
<1>3. EditShape(c)'
  BY <1>2 DEF EditShape
<1>4. \A o \in EditSetup.Calls \ {c} : EditShape(o)'
  BY <1>2 DEF EditShape, EditInv
<1> QED
  BY <1>2, <1>3, <1>4, EditPartsNext DEF EditInv

\* A call that has written nothing ends refused or after a dry run.
LEMMA EditEnd ==
  ASSUME EditInv, NEW c \in EditSetup.Calls, EditTables', NEW result \in {"refused", "dryRun"},
         eCall[c].stage \in {"list", "read", "write"}, E!End(c, result)
  PROVE  EditInv'
<1>1. eCall \in [EditSetup.Calls -> EditRecords] /\ EditShape(c)
  BY EditParts DEF EditInv
<1> DEFINE new == [eCall[c] EXCEPT !.stage = "end", !.result = result]
<1>2. /\ new \in EditRecords /\ new.stage = "end" /\ new.result = result
      /\ new.wrote = eCall[c].wrote /\ new.verified = eCall[c].verified
  BY <1>1 DEF EditRecords, E!Results
<1>3. eCall' = [eCall EXCEPT ![c] = new]
  BY <1>1 DEF E!End
<1>4. ~ eCall[c].wrote /\ ~ eCall[c].verified
  BY <1>1 DEF EditShape
<1> HIDE DEF new
<1> QED
  BY <1>2, <1>3, <1>4, EditStep

LEMMA EditList == ASSUME E!ConstantsAssumption, EditInv, NEW c \in EditSetup.Calls, E!List(c) PROVE EditInv'
<1>1. /\ EditTables /\ eCall \in [EditSetup.Calls -> EditRecords] /\ EditShape(c)
      /\ eCall[c].stage = "list" /\ UNCHANGED <<kind, board, ids, eFuel>>
  BY EditParts DEF EditInv, E!List
<1>2. EditTables'
  BY <1>1 DEF EditTables
<1> DEFINE stage == IF kind[c] \in {"create", "rename", "delete"} THEN "write" ELSE "read"
           new == [eCall[c] EXCEPT !.id = board.id, !.stage = stage]
<1>3. CASE E!End(c, "refused")
  BY <1>1, <1>2, <1>3, EditEnd
<1>4. CASE eCall' = [eCall EXCEPT ![c].id = board.id, ![c].stage = stage]
  <2>1. /\ new \in EditRecords /\ new.stage \in {"read", "write"} /\ new.result = eCall[c].result
        /\ new.wrote = eCall[c].wrote /\ new.verified = eCall[c].verified /\ new.lost = eCall[c].lost
    BY <1>1, ZenonT(60) DEF EditRecords, EditTables, E!Board
  <2>2. eCall' = [eCall EXCEPT ![c] = new]
    BY <1>1, <1>4
  <2>3. ~ eCall[c].wrote /\ ~ eCall[c].verified /\ eCall[c].result = "none"
    BY <1>1 DEF EditShape
  <2> HIDE DEF new
  <2> QED
    BY <1>2, <2>1, <2>2, <2>3, EditStep
<1> QED
  BY <1>3, <1>4 DEF E!List

LEMMA EditRead == ASSUME E!ConstantsAssumption, EditInv, NEW c \in EditSetup.Calls, E!Read(c) PROVE EditInv'
<1>1. /\ EditTables /\ eCall \in [EditSetup.Calls -> EditRecords] /\ EditShape(c)
      /\ eCall[c].stage = "read" /\ UNCHANGED <<kind, board, ids, eFuel>>
  BY EditParts DEF EditInv, E!Read
<1>2. EditTables'
  BY <1>1 DEF EditTables
<1> DEFINE new == [eCall[c] EXCEPT !.stage = "write", !.read = board.config]
<1>3. CASE E!End(c, "refused") \/ E!End(c, "dryRun")
  BY <1>1, <1>2, <1>3, EditEnd
<1>4. CASE eCall' = [eCall EXCEPT ![c].stage = "write", ![c].read = board.config]
  <2>1. /\ new \in EditRecords /\ new.stage = "write" /\ new.result = eCall[c].result
        /\ new.wrote = eCall[c].wrote /\ new.verified = eCall[c].verified /\ new.lost = eCall[c].lost
    BY <1>1, ZenonT(40) DEF EditRecords, EditTables, E!Board
  <2>2. eCall' = [eCall EXCEPT ![c] = new]
    BY <1>1, <1>4
  <2>3. ~ eCall[c].wrote /\ ~ eCall[c].verified /\ eCall[c].result = "none"
    BY <1>1 DEF EditShape
  <2> HIDE DEF new
  <2> QED
    BY <1>2, <2>1, <2>2, <2>3, EditStep
<1> QED
  BY <1>3, <1>4 DEF E!Read

\* What a write leaves at the address.
LEMMA EditEffect ==
  ASSUME E!ConstantsAssumption, EditTables, eCall \in [EditSetup.Calls -> EditRecords], NEW c \in EditSetup.Calls, E!Accepts(c)
  PROVE  /\ E!Effect(c) \in E!Board /\ (kind[c] = "create" => ids + 1 \in 0..EditSetup.MaxId)
         /\ kind[c] \in {"patch", "merge"} => E!Effect(c).config = eCall[c].read \cup {c}
         /\ E!Effect(c).id # board.id /\ board.id # 0 => board.id = eCall[c].id
<1>1. kind[c] \in E!Kinds /\ board \in E!Board /\ ids \in 0..EditSetup.MaxId /\ EditSetup.MaxId \in Nat /\ eCall[c] \in EditRecords
  BY EditKinds DEF EditTables, E!ConstantsAssumption
<1>2. CASE kind[c] = "create"
  <2>1. /\ board.id = 0 /\ ids + 1 \in 0..EditSetup.MaxId /\ E!Effect(c) = [E!NoBoard EXCEPT !.id = ids + 1]
    BY <1>1, <1>2 DEF E!Accepts, E!Effect
  <2> QED
    BY <1>2, <2>1 DEF E!NoBoard, E!Board
<1>3. CASE kind[c] = "rename"
  <2>1. E!Effect(c) = [board EXCEPT !.names = @ \cup {c}]
    BY <1>3 DEF E!Effect
  <2> QED
    BY <1>1, <1>3, <2>1 DEF E!Board
<1>4. CASE kind[c] = "delete"
  <2>1. E!Effect(c) = E!NoBoard /\ board.id = eCall[c].id
    BY <1>4 DEF E!Effect, E!Accepts
  <2> QED
    BY <1>1, <1>4, <2>1 DEF E!Board, E!NoBoard
<1>5. CASE kind[c] \notin {"create", "rename", "delete"}
  <2>1. E!Effect(c) = [board EXCEPT !.config = E!Patched(c)] /\ E!Patched(c) \subseteq E!Edits
    BY <1>1, <1>5 DEF E!Effect, E!Patched, EditRecords, E!Edits
  <2>2. kind[c] \in {"patch", "merge"} => E!Patched(c) = eCall[c].read \cup {c}
    BY DEF E!Patched
  <2> QED
    BY <1>1, <1>5, <2>1, <2>2 DEF E!Board
<1> QED
  BY <1>2, <1>3, <1>4, <1>5

LEMMA EditWrite == ASSUME E!ConstantsAssumption, EditInv, NEW c \in EditSetup.Calls, E!Write(c) PROVE EditInv'
<1>1. /\ EditTables /\ eCall \in [EditSetup.Calls -> EditRecords] /\ EditShape(c) /\ eCall[c].stage = "write"
      /\ ~ eCall[c].wrote /\ ~ eCall[c].verified /\ eCall[c].result = "none" /\ kind' = kind
      /\ eCall[c] \in EditRecords
  BY EditParts DEF EditInv, E!Write, EditShape
<1>2. CASE E!End(c, "refused") /\ UNCHANGED <<board, ids, eFuel>>
  <2>1. EditTables'
    BY <1>1, <1>2 DEF EditTables
  <2> QED
    BY <1>1, <1>2, <2>1, EditEnd
<1> DEFINE made == IF kind[c] = "create" THEN ids + 1 ELSE eCall[c].id
           stage == IF kind[c] = "rename" THEN "end" ELSE "readBack"
           result == IF kind[c] = "rename" THEN "done" ELSE eCall[c].result
           answered == [eCall[c] EXCEPT !.wrote = TRUE, !.id = made, !.stage = stage, !.result = result]
           unanswered == [eCall[c] EXCEPT !.wrote = TRUE, !.lost = TRUE, !.stage = "end", !.result = "failed"]
<1>3. CASE /\ E!Accepts(c) /\ board' = E!Effect(c)
           /\ ids' = IF kind[c] = "create" THEN ids + 1 ELSE ids
           /\ eFuel' = eFuel \/ (eFuel > 0 /\ eFuel' = eFuel - 1)
           /\ \/ eCall' = [eCall EXCEPT ![c].wrote = TRUE,
                            ![c].id = IF kind[c] = "create" THEN ids + 1 ELSE @,
                            ![c].stage = IF kind[c] = "rename" THEN "end" ELSE "readBack",
                            ![c].result = IF kind[c] = "rename" THEN "done" ELSE @]
              \/ eCall' = [eCall EXCEPT ![c].wrote = TRUE, ![c].lost = TRUE,
                            ![c].stage = "end", ![c].result = "failed"]
  <2>1. E!Effect(c) \in E!Board /\ (kind[c] = "create" => ids + 1 \in 0..EditSetup.MaxId)
    BY <1>1, <1>3, EditEffect
  <2>2. eFuel' \in 0..EditSetup.Budget
    BY <1>1, <1>3 DEF EditTables, E!ConstantsAssumption
  <2>3. EditTables'
    BY <1>1, <1>3, <2>1, <2>2 DEF EditTables
  <2>4. made \in 0..EditSetup.MaxId /\ result \in {"done", "none"} /\ stage \in {"end", "readBack"}
        /\ (result = "none" <=> stage = "readBack")
    BY <1>1, <2>1 DEF EditRecords
  <2>5. CASE eCall' = [eCall EXCEPT ![c].wrote = TRUE,
                        ![c].id = IF kind[c] = "create" THEN ids + 1 ELSE @,
                        ![c].stage = IF kind[c] = "rename" THEN "end" ELSE "readBack",
                        ![c].result = IF kind[c] = "rename" THEN "done" ELSE @]
    <3>1. eCall' = [eCall EXCEPT ![c] = answered]
      BY <1>1, <2>5 DEF EditRecords
    <3> HIDE DEF made, stage, result
    <3>2. /\ answered \in EditRecords /\ answered.wrote /\ ~ answered.verified /\ answered.stage = stage
          /\ answered.result = result
      BY <1>1, <2>4 DEF EditRecords, E!Results
    <3> HIDE DEF answered
    <3> QED
      BY <2>3, <2>4, <3>1, <3>2, EditStep
  <2>6. CASE eCall' = [eCall EXCEPT ![c].wrote = TRUE, ![c].lost = TRUE,
                        ![c].stage = "end", ![c].result = "failed"]
    <3>1. eCall' = [eCall EXCEPT ![c] = unanswered]
      BY <1>1, <2>6 DEF EditRecords
    <3>2. /\ unanswered \in EditRecords /\ unanswered.wrote /\ ~ unanswered.verified /\ unanswered.stage = "end"
          /\ unanswered.result = "failed" /\ unanswered.lost
      BY <1>1 DEF EditRecords, E!Results
    <3> HIDE DEF unanswered
    <3> QED
      BY <2>3, <3>1, <3>2, EditStep
  <2> QED
    BY <1>3, <2>5, <2>6
<1> QED
  BY <1>2, <1>3 DEF E!Write

LEMMA EditReadBack == ASSUME E!ConstantsAssumption, EditInv, NEW c \in EditSetup.Calls, E!ReadBack(c) PROVE EditInv'
<1>1. /\ EditTables /\ eCall \in [EditSetup.Calls -> EditRecords] /\ eCall[c] \in EditRecords
      /\ eCall[c].wrote /\ UNCHANGED <<kind, board, ids>>
  BY EditParts DEF EditInv, E!ReadBack, EditShape
<1>2. eFuel' \in 0..EditSetup.Budget
  <2>1. eFuel' = eFuel \/ (eFuel > 0 /\ eFuel' = eFuel - 1)
    BY Zenon DEF E!ReadBack
  <2> QED
    BY <1>1, <2>1 DEF EditTables, E!ConstantsAssumption
<1>3. EditTables'
  BY <1>1, <1>2 DEF EditTables
<1>4. PICK result \in {"done", "failed"}, verified \in BOOLEAN, dropped \in BOOLEAN :
        E!Finish(c, result, verified, dropped) /\ (result = "failed" => dropped)
  <2>1. E!Confirmed(c) \in BOOLEAN
    <3>1. kind[c] = "create" => E!Confirmed(c) = (board.id # 0)
      BY DEF E!Confirmed
    <3>2. kind[c] = "delete" => E!Confirmed(c) = (board.id # eCall[c].id)
      BY DEF E!Confirmed
    <3>3. kind[c] = "merge" => E!Confirmed(c) = (c \in board.config)
      BY DEF E!Confirmed
    <3>4. kind[c] \notin {"create", "delete", "merge"} =>
            E!Confirmed(c) = (board.id # 0 /\ board.config = E!Patched(c))
      BY DEF E!Confirmed
    <3>5. (board.id # 0) \in BOOLEAN /\ (board.id # eCall[c].id) \in BOOLEAN
          /\ (c \in board.config) \in BOOLEAN
          /\ (board.id # 0 /\ board.config = E!Patched(c)) \in BOOLEAN
      OBVIOUS
    <3> QED
      BY <3>1, <3>2, <3>3, <3>4, <3>5, Zenon
  <2>2. \/ E!Finish(c, "done", E!Confirmed(c), FALSE) \/ E!Finish(c, "done", FALSE, FALSE)
        \/ E!Finish(c, "failed", FALSE, TRUE)
    BY Zenon DEF E!ReadBack
  <2>3. CASE E!Finish(c, "done", E!Confirmed(c), FALSE)
    <3>1. PICK verified \in BOOLEAN : verified = E!Confirmed(c)
      BY <2>1
    <3> QED
      BY <2>3, <3>1
  <2> QED
    BY <2>2, <2>3
<1> DEFINE new == [eCall[c] EXCEPT !.stage = "end", !.result = result,
                                  !.verified = verified, !.lost = dropped]
<1>5. /\ new \in EditRecords /\ new.wrote /\ new.stage = "end" /\ new.result = result
      /\ new.lost = dropped
  BY <1>1 DEF EditRecords, E!Results
<1>6. eCall' = [eCall EXCEPT ![c] = new]
  BY <1>1, <1>4 DEF E!Finish
<1> HIDE DEF new
<1> QED
  BY <1>3, <1>4, <1>5, <1>6, EditStep

LEMMA EditPrepare == ASSUME E!ConstantsAssumption, EditInv, NEW c \in EditSetup.Calls, E!Prepare(c) PROVE EditInv'
<1>1. /\ EditTables /\ eCall \in [EditSetup.Calls -> EditRecords] /\ eCall[c] \in EditRecords /\ EditShape(c)
      /\ UNCHANGED <<kind, board, ids, eFuel>>
      /\ eCall' = [eCall EXCEPT ![c].expect = board.config]
  BY EditParts DEF EditInv, E!Prepare
<1>2. EditTables'
  BY <1>1 DEF EditTables
<1> DEFINE new == [eCall[c] EXCEPT !.expect = board.config]
<1>3. /\ new \in EditRecords /\ new.stage = eCall[c].stage /\ new.result = eCall[c].result
      /\ new.wrote = eCall[c].wrote /\ new.verified = eCall[c].verified /\ new.lost = eCall[c].lost
  BY <1>1 DEF EditRecords, EditTables, E!Board
<1>4. eCall' = [eCall EXCEPT ![c] = new]
  BY <1>1
<1> HIDE DEF new
<1> QED
  BY <1>1, <1>2, <1>3, <1>4, EditStep, ZenonT(40) DEF EditShape

\* What people do leaves the calls alone.
LEMMA EditAside ==
  ASSUME EditInv, EditTables', eCall' = eCall PROVE EditInv'
  BY EditParts, EditPartsNext DEF EditInv, EditShape

LEMMA EditKeeps == ASSUME E!ConstantsAssumption, EditInv, [E!Next]_(E!vars) PROVE EditInv'
<1> USE EditParts DEF EditInv
<1>1. ASSUME NEW c \in EditSetup.Calls, E!List(c) \/ E!Read(c) \/ E!Write(c) \/ E!ReadBack(c) \/ E!Prepare(c) PROVE EditInv'
  BY <1>1, EditList, EditRead, EditWrite, EditReadBack, EditPrepare
<1>2. ASSUME NEW p \in EditSetup.People, E!EditByHand(p) PROVE EditInv'
  <2>1. board' \in E!Board
    BY <1>2 DEF E!EditByHand, EditTables, E!Board, E!Edits
  <2> QED
    BY <1>2, <2>1, EditAside DEF E!EditByHand, EditTables
<1>3. ASSUME E!RecreateByHand PROVE EditInv'
  <2>1. ids' \in 0..EditSetup.MaxId /\ ids' = ids + 1
    BY <1>3 DEF E!RecreateByHand, EditTables, E!ConstantsAssumption
  <2>2. board' \in E!Board
    BY <1>3, <2>1 DEF E!RecreateByHand, EditTables, E!Board
  <2> QED
    BY <1>3, <2>1, <2>2, EditAside DEF E!RecreateByHand, EditTables
<1>4. ASSUME UNCHANGED E!vars PROVE EditInv'
  BY <1>4, EditAside DEF E!vars, EditTables
<1> QED
  BY <1>1, <1>2, <1>3, <1>4 DEF E!Next

LEMMA EditReports == ASSUME EditInv PROVE E!ReportsTruth
  BY DEF EditInv, EditShape, E!ReportsTruth

\* What a write leaves out was put there after its call had read, and a deletion takes
\* the dashboard that was looked up.
LEMMA EditSpares ==
  ASSUME E!ConstantsAssumption, EditInv, NEW c \in EditSetup.Calls, E!Write(c)
  PROVE  /\ kind[c] \in {"patch", "merge"} =>
              board.config \ board'.config \subseteq board.config \ eCall[c].read
         /\ board'.id # board.id /\ board.id # 0 => board.id = eCall[c].id
<1>1. EditTables /\ eCall \in [EditSetup.Calls -> EditRecords]
  BY EditParts DEF EditInv
<1>2. CASE E!Accepts(c) /\ board' = E!Effect(c)
  BY <1>1, <1>2, EditEffect
<1>3. CASE board' = board
  BY <1>3
<1> QED
  BY <1>2, <1>3 DEF E!Write

-----------------------------------------------------------------------------
(* The Omada tools.                                                        *)

OmadaAlike(x, y) == ControllerSetup.Text[x] = ControllerSetup.Text[y] /\ ControllerSetup.Body[x] = ControllerSetup.Body[y]

\* A listing nobody disturbed has read the first rows of the table.
OmadaPrefix(k) ==
  /\ Len(k.rows) = (k.page - 1) * ControllerSetup.PageSize /\ Len(k.rows) <= Len(table)
  /\ \A i \in DOMAIN k.rows : k.rows[i] = table[i]

\* What a call k that was asked for a has done by the stage it is in.
OmadaShape(k, a) ==
  /\ k.stage \in {"start", "write"} => ~ k.wrote
  /\ k.stage = "after" => k.wrote
  /\ k.stage = "after" /\ a.kind = "create" => k.mine \in ControllerSetup.Rules /\ OmadaAlike(k.mine, a.rule)
  /\ k.stage # "end" => k.result = "none" /\ k.named = ControllerSetup.Absent
  /\ k.stage = "start" /\ a.kind \in O!Lists /\ k.calm => OmadaPrefix(k)
  /\ k.stage = "write" /\ a.kind = "reorder" =>
       O!NoRepeat(k.order) /\ a.rule \in O!Elems(k.order) /\ a.before \in O!Elems(k.order)

\* A listing that stopped at its last page and has no field to say so.
OmadaBound(k, a) ==
  /\ k.page = ControllerSetup.MaxPages
  /\ a.filtered => a.kind # "list_client_events"
  /\ ~ a.filtered => a.kind \in {"list_networks", "list_acls"}

\* What ReportsTruth says of one call.
OmadaTruth(k, a) ==
  /\ k.result = "refused" \/ (k.result = "failed" /\ ~ k.lost) => ~ k.wrote
  /\ k.result = "done" /\ a.kind \notin O!Lists => k.wrote
  /\ k.named # ControllerSetup.Absent =>
       ControllerSetup.Text[k.named] = ControllerSetup.Text[k.mine] /\ (k.listed => ControllerSetup.Body[k.named] = ControllerSetup.Body[k.mine])
  /\ k.result \in {"done", "not_found"} /\ a.kind \in O!Lists /\ k.calm =>
       k.truncated \/ k.scanCapped \/ OmadaBound(k, a) \/ k.missed = {}
  /\ k.result \in {"unknown_site", "permission_denied"} /\ k.calm =>
       (k.result = "permission_denied") = k.seen

\* A list of sites that is kept differs from the controller's by the sites that moved.
OmadaSites == known # ControllerSetup.NoSites => \A s \in ControllerSetup.Sites \ moved : s \in known <=> s \in visible

OmadaInv ==
  /\ O!TypeOK /\ OmadaSites
  /\ \A c \in ControllerSetup.Calls : OmadaShape(oCall[c], ask[c]) /\ OmadaTruth(oCall[c], ask[c])

\* A list without one of its entries.
LEMMA OmadaWithout ==
  ASSUME NEW S, NEW s \in Seq(S), O!NoRepeat(s), NEW k \in DOMAIN s
  PROVE  /\ O!Without(s, k) \in Seq(S) /\ Len(O!Without(s, k)) = Len(s) - 1 /\ O!NoRepeat(O!Without(s, k))
         /\ \A i \in 1..(Len(s) - 1) : O!Without(s, k)[i] = IF i < k THEN s[i] ELSE s[i + 1]
         /\ O!Elems(O!Without(s, k)) = O!Elems(s) \ {s[k]}
<1> DEFINE w == O!Without(s, k)
<1>1. /\ w \in Seq(S) /\ Len(w) = Len(s) - 1 /\ DOMAIN w = 1..(Len(s) - 1)
      /\ \A i \in 1..(Len(s) - 1) : w[i] = IF i < k THEN s[i] ELSE s[i + 1]
  <2>1. Len(s) \in Nat /\ DOMAIN s = 1..Len(s) /\ Len(s) - 1 \in Nat
    OBVIOUS
  <2>2. w = [i \in 1..(Len(s) - 1) |-> IF i < k THEN s[i] ELSE s[i + 1]]
    BY DEF O!Without
  <2>3. \A i \in 1..(Len(s) - 1) : (IF i < k THEN s[i] ELSE s[i + 1]) \in S
    BY <2>1
  <2> HIDE DEF w
  <2> QED
    BY <2>1, <2>2, <2>3
<1> HIDE DEF w
<1>2. O!NoRepeat(w)
  <2> SUFFICES ASSUME NEW i \in 1..(Len(s) - 1), NEW j \in 1..(Len(s) - 1), w[i] = w[j] PROVE i = j
    BY <1>1 DEF O!NoRepeat
  <2>1. PICK a \in DOMAIN s : w[i] = s[a] /\ a = (IF i < k THEN i ELSE i + 1)
    BY <1>1
  <2>2. PICK b \in DOMAIN s : w[j] = s[b] /\ b = (IF j < k THEN j ELSE j + 1)
    BY <1>1
  <2>3. a = b
    BY <2>1, <2>2 DEF O!NoRepeat
  <2> QED
    BY <2>1, <2>2, <2>3
<1>3. O!Elems(w) = O!Elems(s) \ {s[k]}
  <2>1. ASSUME NEW i \in DOMAIN w PROVE w[i] \in O!Elems(s) \ {s[k]}
    <3>1. PICK a \in DOMAIN s : w[i] = s[a] /\ a # k
      BY <1>1
    <3> QED
      BY <3>1 DEF O!Elems, O!NoRepeat
  <2>2. ASSUME NEW a \in DOMAIN s, s[a] # s[k] PROVE s[a] \in O!Elems(w)
    <3>1. CASE a < k
      BY <1>1, <3>1 DEF O!Elems
    <3>2. CASE a > k
      <4>1. a - 1 \in 1..(Len(s) - 1) /\ ~ (a - 1 < k) /\ w[a - 1] = s[a]
        BY <1>1, <3>2
      <4> QED
        BY <1>1, <4>1 DEF O!Elems
    <3> QED
      BY <2>2, <3>1, <3>2
  <2> QED
    BY <2>1, <2>2 DEF O!Elems
<1> QED
  BY <1>1, <1>2, <1>3 DEF w

\* A list with one more entry.
LEMMA OmadaInsert ==
  ASSUME NEW S, NEW s \in Seq(S), O!NoRepeat(s), NEW k \in 1..(Len(s) + 1), NEW x \in S \ O!Elems(s)
  PROVE  /\ O!Insert(s, k, x) \in Seq(S) /\ Len(O!Insert(s, k, x)) = Len(s) + 1
         /\ O!NoRepeat(O!Insert(s, k, x))
         /\ \A i \in 1..(Len(s) + 1) :
              O!Insert(s, k, x)[i] = IF i < k THEN s[i] ELSE IF i = k THEN x ELSE s[i - 1]
         /\ O!Elems(O!Insert(s, k, x)) = O!Elems(s) \cup {x}
<1> DEFINE w == O!Insert(s, k, x)
<1>1. /\ w \in Seq(S) /\ Len(w) = Len(s) + 1 /\ DOMAIN w = 1..(Len(s) + 1)
      /\ \A i \in 1..(Len(s) + 1) : w[i] = IF i < k THEN s[i] ELSE IF i = k THEN x ELSE s[i - 1]
  <2>1. Len(s) \in Nat /\ DOMAIN s = 1..Len(s)
    OBVIOUS
  <2>2. w = [i \in 1..(Len(s) + 1) |-> IF i < k THEN s[i] ELSE IF i = k THEN x ELSE s[i - 1]]
    BY DEF O!Insert
  <2>3. \A i \in 1..(Len(s) + 1) : (IF i < k THEN s[i] ELSE IF i = k THEN x ELSE s[i - 1]) \in S
    BY <2>1
  <2> HIDE DEF w
  <2> QED
    BY <2>1, <2>2, <2>3
<1> HIDE DEF w
<1>2. O!NoRepeat(w)
  <2> SUFFICES ASSUME NEW i \in 1..(Len(s) + 1), NEW j \in 1..(Len(s) + 1), w[i] = w[j] PROVE i = j
    BY <1>1 DEF O!NoRepeat
  <2>1. \A a \in DOMAIN s : s[a] # x
    BY DEF O!Elems
  <2>5. \A m \in 1..(Len(s) + 1) : m # k => w[m] # x
    <3> SUFFICES ASSUME NEW m \in 1..(Len(s) + 1), m # k PROVE w[m] # x
      OBVIOUS
    <3>1. PICK a \in DOMAIN s : w[m] = s[a]
      BY <1>1, SMTT(30)
    <3> QED
      BY <2>1, <3>1
  <2>6. w[k] = x
    BY <1>1
  <2>2. CASE i = k
    BY <2>2, <2>5, <2>6
  <2>3. CASE j = k
    BY <2>3, <2>5, <2>6
  <2>4. CASE i # k /\ j # k
    <3>1. PICK a \in DOMAIN s : w[i] = s[a] /\ a = (IF i < k THEN i ELSE i - 1)
      BY <1>1, <2>4
    <3>2. PICK b \in DOMAIN s : w[j] = s[b] /\ b = (IF j < k THEN j ELSE j - 1)
      BY <1>1, <2>4
    <3>3. a = b
      BY <3>1, <3>2 DEF O!NoRepeat
    <3> QED
      BY <2>4, <3>1, <3>2, <3>3
  <2> QED
    BY <2>2, <2>3, <2>4
<1>3. O!Elems(w) = O!Elems(s) \cup {x}
  <2>1. ASSUME NEW i \in DOMAIN w PROVE w[i] \in O!Elems(s) \cup {x}
    <3>1. CASE i = k
      BY <1>1, <3>1
    <3>2. CASE i # k
      <4>1. PICK a \in DOMAIN s : w[i] = s[a] /\ a = (IF i < k THEN i ELSE i - 1)
        BY <1>1, <3>2
      <4>2. s[a] \in O!Elems(s)
        BY DEF O!Elems
      <4> QED
        BY <4>1, <4>2
    <3> QED
      BY <3>1, <3>2
  <2>2. x \in O!Elems(w)
    <3>1. w[k] = x /\ k \in DOMAIN w
      BY <1>1
    <3> QED
      BY <3>1 DEF O!Elems
  <2>3. ASSUME NEW a \in DOMAIN s PROVE s[a] \in O!Elems(w)
    <3>1. CASE a < k
      <4>1. a \in DOMAIN w /\ w[a] = s[a]
        BY <1>1, <3>1
      <4> QED
        BY <4>1 DEF O!Elems
    <3>2. CASE a >= k
      <4>1. a + 1 \in DOMAIN w /\ w[a + 1] = s[a]
        BY <1>1, <3>2
      <4> QED
        BY <4>1 DEF O!Elems
    <3> QED
      BY <3>1, <3>2
  <2> QED
    BY <2>1, <2>2, <2>3 DEF O!Elems
<1> QED
  BY <1>1, <1>2, <1>3 DEF w

LEMMA OmadaAppend ==
  ASSUME NEW S, NEW s \in Seq(S), O!NoRepeat(s), NEW x \in S \ O!Elems(s)
  PROVE  Append(s, x) \in Seq(S) /\ O!NoRepeat(Append(s, x)) /\ O!Elems(Append(s, x)) = O!Elems(s) \cup {x}
<1> DEFINE w == Append(s, x)
<1>1. /\ w \in Seq(S) /\ DOMAIN w = 1..(Len(s) + 1) /\ w[Len(s) + 1] = x
      /\ \A i \in DOMAIN s : w[i] = s[i]
  OBVIOUS
<1> HIDE DEF w
<1>2. \A i \in DOMAIN s : s[i] # x
  BY DEF O!Elems
<1>3. Len(s) \in Nat /\ DOMAIN s = 1..Len(s) /\ DOMAIN w = DOMAIN s \cup {Len(s) + 1}
  BY <1>1
<1>4. O!NoRepeat(w)
  BY <1>1, <1>2, <1>3 DEF O!NoRepeat
<1>5. O!Elems(w) = O!Elems(s) \cup {x}
  BY <1>1, <1>3 DEF O!Elems
<1> QED
  BY <1>1, <1>4, <1>5 DEF w

LEMMA OmadaSwap ==
  ASSUME NEW S, NEW s \in Seq(S), O!NoRepeat(s), NEW a \in DOMAIN s, NEW b \in DOMAIN s, a # b
  PROVE  LET w == [s EXCEPT ![a] = s[b], ![b] = s[a]]
         IN  w \in Seq(S) /\ O!NoRepeat(w) /\ O!Elems(w) = O!Elems(s)
<1> DEFINE w == [s EXCEPT ![a] = s[b], ![b] = s[a]]
<1>1. /\ w \in Seq(S) /\ DOMAIN w = DOMAIN s /\ w[a] = s[b] /\ w[b] = s[a]
      /\ \A i \in DOMAIN s \ {a, b} : w[i] = s[i]
  OBVIOUS
<1> HIDE DEF w
<1>2. O!NoRepeat(w)
  BY <1>1 DEF O!NoRepeat
<1>3. O!Elems(w) = O!Elems(s)
  BY <1>1 DEF O!Elems
<1> QED
  BY <1>1, <1>2, <1>3 DEF w

\* The first page of a list.
LEMMA OmadaPage ==
  ASSUME NEW S, NEW s \in Seq(S), O!NoRepeat(s), NEW size \in Nat
  PROVE  /\ O!Page(s, size) \in Seq(S) /\ O!NoRepeat(O!Page(s, size))
         /\ O!Elems(O!Page(s, size)) \subseteq O!Elems(s)
<1> DEFINE n == IF Len(s) < size THEN Len(s) ELSE size
           w == SubSeq(s, 1, n)
<1>1. n \in 0..Len(s)
  OBVIOUS
<1> HIDE DEF n
<1>2. w \in Seq(S) /\ DOMAIN w = 1..n /\ \A i \in 1..n : w[i] = s[i] /\ i \in DOMAIN s
  BY <1>1
<1>3. O!Page(s, size) = w
  BY DEF O!Page, n
<1> HIDE DEF w
<1> QED
  BY <1>2, <1>3 DEF O!NoRepeat, O!Elems

LEMMA OmadaPosition ==
  ASSUME NEW s, NEW x \in O!Elems(s)
  PROVE  O!Position(s, x) \in DOMAIN s /\ s[O!Position(s, x)] = x
  BY DEF O!Elems, O!Position

\* Entries other than the one taken out or put in keep their order.
LEMMA OmadaWithoutOrder ==
  ASSUME NEW S, NEW s \in Seq(S), O!NoRepeat(s), NEW k \in DOMAIN s,
         NEW x \in S, NEW y \in S, x # s[k], y # s[k]
  PROVE  O!Precedes(O!Without(s, k), x, y) <=> O!Precedes(s, x, y)
<1> DEFINE w == O!Without(s, k)
<1>1. /\ DOMAIN w = 1..(Len(s) - 1) /\ DOMAIN s = 1..Len(s) /\ Len(s) \in Nat
      /\ \A i \in 1..(Len(s) - 1) : w[i] = IF i < k THEN s[i] ELSE s[i + 1]
  BY OmadaWithout
<1> HIDE DEF w
<1>2. ASSUME NEW i \in DOMAIN w, NEW j \in DOMAIN w, i < j, w[i] = x, w[j] = y PROVE O!Precedes(s, x, y)
  <2>1. PICK a \in DOMAIN s : s[a] = x /\ a = (IF i < k THEN i ELSE i + 1)
    BY <1>1, <1>2
  <2>2. PICK b \in DOMAIN s : s[b] = y /\ b = (IF j < k THEN j ELSE j + 1)
    BY <1>1, <1>2
  <2>3. a < b
    BY <1>1, <1>2, <2>1, <2>2
  <2> QED
    BY <2>1, <2>2, <2>3 DEF O!Precedes
<1>3. ASSUME NEW i \in DOMAIN s, NEW j \in DOMAIN s, i < j, s[i] = x, s[j] = y PROVE O!Precedes(w, x, y)
  <2>1. PICK a \in DOMAIN w : w[a] = x /\ a = (IF i < k THEN i ELSE i - 1)
    BY <1>1, <1>3
  <2>2. PICK b \in DOMAIN w : w[b] = y /\ b = (IF j < k THEN j ELSE j - 1)
    BY <1>1, <1>3
  <2>3. a < b
    BY <1>1, <1>3, <2>1, <2>2
  <2> QED
    BY <2>1, <2>2, <2>3 DEF O!Precedes
<1> QED
  BY <1>2, <1>3 DEF O!Precedes, w

LEMMA OmadaInsertOrder ==
  ASSUME NEW S, NEW s \in Seq(S), O!NoRepeat(s), NEW k \in 1..(Len(s) + 1), NEW z \in S \ O!Elems(s),
         NEW x \in S, NEW y \in S, x # z, y # z
  PROVE  O!Precedes(O!Insert(s, k, z), x, y) <=> O!Precedes(s, x, y)
<1> DEFINE w == O!Insert(s, k, z)
<1>1. /\ DOMAIN w = 1..(Len(s) + 1) /\ DOMAIN s = 1..Len(s) /\ Len(s) \in Nat
      /\ \A i \in 1..(Len(s) + 1) : w[i] = IF i < k THEN s[i] ELSE IF i = k THEN z ELSE s[i - 1]
  BY OmadaInsert
<1> HIDE DEF w
<1>2. ASSUME NEW i \in DOMAIN w, NEW j \in DOMAIN w, i < j, w[i] = x, w[j] = y PROVE O!Precedes(s, x, y)
  <2>1. PICK a \in DOMAIN s : s[a] = x /\ a = (IF i < k THEN i ELSE i - 1) /\ i # k
    BY <1>1, <1>2
  <2>2. PICK b \in DOMAIN s : s[b] = y /\ b = (IF j < k THEN j ELSE j - 1) /\ j # k
    BY <1>1, <1>2
  <2>3. a < b
    BY <1>1, <1>2, <2>1, <2>2
  <2> QED
    BY <2>1, <2>2, <2>3 DEF O!Precedes
<1>3. ASSUME NEW i \in DOMAIN s, NEW j \in DOMAIN s, i < j, s[i] = x, s[j] = y PROVE O!Precedes(w, x, y)
  <2>1. PICK a \in DOMAIN w : w[a] = x /\ a = (IF i < k THEN i ELSE i + 1)
    BY <1>1, <1>3
  <2>2. PICK b \in DOMAIN w : w[b] = y /\ b = (IF j < k THEN j ELSE j + 1)
    BY <1>1, <1>3
  <2>3. a < b
    BY <1>1, <1>3, <2>1, <2>2
  <2> QED
    BY <2>1, <2>2, <2>3 DEF O!Precedes
<1> QED
  BY <1>2, <1>3 DEF O!Precedes, w

\* w is s with one entry moved right before another one, the others in their order.
OmadaShift(w, s, that, spot) ==
  /\ O!Elems(w) = O!Elems(s)
  /\ \E i \in 1..(Len(w) - 1) : w[i] = that /\ w[i + 1] = spot
  /\ \A x, y \in O!Elems(s) \ {that} : O!Precedes(w, x, y) <=> O!Precedes(s, x, y)

\* A rule moved before another one: the same rules, the two of them next to each other,
\* the others in their order.
LEMMA OmadaMoved ==
  ASSUME NEW S, NEW s \in Seq(S), O!NoRepeat(s), NEW that \in O!Elems(s), NEW spot \in O!Elems(s),
         that # spot
  PROVE  LET w == O!Moved(s, that, spot) IN
         w \in Seq(S) /\ O!NoRepeat(w) /\ OmadaShift(w, s, that, spot)
<1> DEFINE p == O!Position(s, that)
           rest == O!Without(s, p)
           q == O!Position(rest, spot)
           w == O!Insert(rest, q, that)
<1>8. O!Moved(s, that, spot) = w
  BY DEF O!Moved
<1>1. p \in DOMAIN s /\ s[p] = that
  BY OmadaPosition
<1> HIDE DEF p
<1>2. rest \in Seq(S) /\ O!NoRepeat(rest) /\ O!Elems(rest) = O!Elems(s) \ {that}
  BY <1>1, OmadaWithout
<1>3. \A x, y \in S \ {that} : O!Precedes(rest, x, y) <=> O!Precedes(s, x, y)
  BY <1>1, OmadaWithoutOrder
<1> HIDE DEF rest
<1>4. q \in DOMAIN rest /\ rest[q] = spot
  BY <1>2, OmadaPosition
<1> HIDE DEF q
<1>5. that \in S \ O!Elems(rest) /\ q \in 1..(Len(rest) + 1) /\ O!Elems(s) \subseteq S
  <2>1. O!Elems(s) \subseteq S
    BY DEF O!Elems
  <2>2. that \in S \ O!Elems(rest)
    BY <1>2, <2>1
  <2>3. q \in 1..(Len(rest) + 1)
    BY <1>2, <1>4
  <2> QED
    BY <2>1, <2>2, <2>3
<1>6. /\ w \in Seq(S) /\ O!NoRepeat(w) /\ O!Elems(w) = O!Elems(s) /\ Len(w) = Len(rest) + 1
      /\ w[q] = that /\ w[q + 1] = rest[q]
  <2>1. O!Elems(w) = O!Elems(rest) \cup {that} /\ w \in Seq(S) /\ O!NoRepeat(w) /\ Len(w) = Len(rest) + 1
        /\ \A i \in 1..(Len(rest) + 1) :
              w[i] = IF i < q THEN rest[i] ELSE IF i = q THEN that ELSE rest[i - 1]
    BY <1>2, <1>5, OmadaInsert
  <2> HIDE DEF w
  <2>2. q \in 1..(Len(rest) + 1) /\ q + 1 \in 1..(Len(rest) + 1) /\ (q + 1) - 1 = q
    BY <1>2, <1>4
  <2> QED
    BY <1>2, <2>1, <2>2
<1>7. \A x, y \in S \ {that} : O!Precedes(w, x, y) <=> O!Precedes(rest, x, y)
  BY <1>2, <1>5, OmadaInsertOrder
<1> HIDE DEF w
<1>9. q \in 1..(Len(w) - 1)
  BY <1>2, <1>4, <1>6
<1> QED
  BY <1>3, <1>4, <1>5, <1>6, <1>7, <1>8, <1>9 DEF OmadaShift

-----------------------------------------------------------------------------
(* The tables and the calls.                                               *)

OmadaRecords ==
  [stage : {"start", "write", "after", "end"}, order : Seq(ControllerSetup.Rules), read : O!Members,
   mine : ControllerSetup.Rules \cup {ControllerSetup.Absent}, named : ControllerSetup.Rules \cup {ControllerSetup.Absent}, listed : BOOLEAN,
   rows : Seq(ControllerSetup.Rows), page : 1..ControllerSetup.MaxPages, missed : SUBSET ControllerSetup.Rows,
   truncated : BOOLEAN, scanCapped : BOOLEAN, wrote : BOOLEAN, lost : BOOLEAN,
   calm : BOOLEAN, seen : BOOLEAN,
   result : {"none", "done", "refused", "failed", "not_found", "unknown_site",
             "permission_denied"}]

OmadaRules == acl \in Seq(ControllerSetup.Rules) /\ O!NoRepeat(acl) /\ O!Elems(acl) \subseteq born /\ born \subseteq ControllerSetup.Rules
OmadaGroup == group \in O!Members /\ exists \in BOOLEAN
OmadaTable == table \in Seq(ControllerSetup.Rows) /\ O!NoRepeat(table)
OmadaSiteTypes ==
  visible \subseteq ControllerSetup.Sites /\ known \in (SUBSET ControllerSetup.Sites) \cup {ControllerSetup.NoSites} /\ moved \subseteq ControllerSetup.Sites
OmadaTables ==
  /\ ask \in ControllerSetup.Scenarios /\ OmadaRules /\ OmadaGroup /\ OmadaTable /\ OmadaSiteTypes
  /\ oFuel \in 0..ControllerSetup.Budget

LEMMA OmadaParts == O!TypeOK <=> OmadaTables /\ oCall \in [ControllerSetup.Calls -> OmadaRecords]
  BY DEF O!TypeOK, OmadaTables, OmadaRules, OmadaGroup, OmadaTable, OmadaSiteTypes, OmadaRecords

LEMMA OmadaPartsNext == O!TypeOK' <=> OmadaTables' /\ oCall' \in [ControllerSetup.Calls -> OmadaRecords]
  BY DEF O!TypeOK, OmadaTables, OmadaRules, OmadaGroup, OmadaTable, OmadaSiteTypes, OmadaRecords

LEMMA OmadaAsk ==
  ASSUME O!ConstantsAssumption, ask \in ControllerSetup.Scenarios, NEW c \in ControllerSetup.Calls
  PROVE  /\ ask[c] \in O!Asks
         /\ ask[c].kind \in {"list_networks", "list_acls"} => ~ ask[c].filtered
         /\ ask[c].kind = "get_device" => ask[c].filtered
         /\ ask[c].kind = "reorder" => ask[c].rule # ask[c].before
  BY DEF O!ConstantsAssumption

LEMMA OmadaFresh ==
  ASSUME O!ConstantsAssumption
  PROVE  /\ O!Fresh \in OmadaRecords /\ O!Fresh.stage = "start" /\ O!Fresh.result = "none"
         /\ O!Fresh.named = ControllerSetup.Absent /\ ~ O!Fresh.wrote /\ O!Fresh.page = 1 /\ O!Fresh.rows = <<>>
<1>1. [ip \in ControllerSetup.Ips |-> ControllerSetup.Absent] \in O!Members /\ 1 \in 1..ControllerSetup.MaxPages
  BY DEF O!Members, O!ConstantsAssumption
<1> QED
  BY <1>1 DEF O!Fresh, OmadaRecords

LEMMA OmadaInit == ASSUME O!ConstantsAssumption, O!Init PROVE OmadaInv
<1>1. OmadaTables
  <2>1. OmadaRules /\ OmadaGroup /\ OmadaTable /\ OmadaSiteTypes
    <3>1. acl \in Seq(ControllerSetup.Rules) /\ O!NoRepeat(acl) /\ born = O!Elems(acl) /\ O!Elems(acl) \subseteq ControllerSetup.Rules
      <4>1. acl \in Seq(ControllerSetup.Rules) /\ O!NoRepeat(acl) /\ born = O!Elems(acl)
        BY DEF O!Init, O!ConstantsAssumption
      <4>2. O!Elems(acl) \subseteq ControllerSetup.Rules
        BY <4>1 DEF O!Elems
      <4> QED
        BY <4>1, <4>2
    <3>2. group \in O!Members /\ exists \in BOOLEAN /\ table \in Seq(ControllerSetup.Rows) /\ O!NoRepeat(table)
      BY DEF O!Init, O!ConstantsAssumption
    <3>3. /\ visible \in SUBSET ControllerSetup.Sites /\ known = ControllerSetup.NoSites /\ moved = {}
      BY DEF O!Init
    <3> QED
      BY <3>1, <3>2, <3>3 DEF OmadaRules, OmadaGroup, OmadaTable, OmadaSiteTypes
  <2> QED
    BY <2>1 DEF O!Init, OmadaTables, O!ConstantsAssumption
<1>2. \A c \in ControllerSetup.Calls : oCall[c] = O!Fresh
  BY DEF O!Init
<1>3. oCall \in [ControllerSetup.Calls -> OmadaRecords]
  BY OmadaFresh DEF O!Init
<1>4. OmadaPrefix(O!Fresh)
  <2>1. O!Fresh.rows = <<>> /\ O!Fresh.page = 1 /\ Len(<<>>) = 0 /\ DOMAIN <<>> = {}
        /\ table \in Seq(ControllerSetup.Rows) /\ (1 - 1) * ControllerSetup.PageSize = 0 /\ Len(table) \in Nat
    BY <1>1, OmadaFresh DEF OmadaTables, OmadaTable, O!ConstantsAssumption
  <2> QED
    BY <2>1 DEF OmadaPrefix
<1>5. \A c \in ControllerSetup.Calls : OmadaShape(oCall[c], ask[c]) /\ OmadaTruth(oCall[c], ask[c])
  BY <1>2, <1>4, OmadaFresh DEF OmadaShape, OmadaTruth
<1> QED
  BY <1>1, <1>3, <1>5, OmadaParts DEF OmadaInv, OmadaSites, O!Init

\* Call c steps to `new`; the others stay.
LEMMA OmadaStep ==
  ASSUME OmadaInv, NEW c \in ControllerSetup.Calls, OmadaTables', OmadaSites', ask' = ask, table' = table,
         NEW new \in OmadaRecords, O!Set(c, new),
         OmadaShape(new, ask[c]), OmadaTruth(new, ask[c])
  PROVE  OmadaInv'
<1>1. oCall \in [ControllerSetup.Calls -> OmadaRecords]
  BY OmadaParts DEF OmadaInv
<1>2. oCall' \in [ControllerSetup.Calls -> OmadaRecords] /\ oCall'[c] = new /\ \A o \in ControllerSetup.Calls \ {c} : oCall'[o] = oCall[o]
  BY <1>1 DEF O!Set
<1>3. \A k, a : OmadaShape(k, a)' <=> OmadaShape(k, a)
  BY DEF OmadaShape, OmadaPrefix
<1>4. \A o \in ControllerSetup.Calls : OmadaShape(oCall[o], ask[o])'
  BY <1>2 DEF OmadaInv, OmadaShape, OmadaPrefix
<1>5. \A o \in ControllerSetup.Calls : OmadaTruth(oCall[o], ask[o])'
  BY <1>2 DEF OmadaInv, OmadaTruth, OmadaBound
<1> QED
  BY <1>2, <1>4, <1>5, OmadaPartsNext DEF OmadaInv

\* What a step that leaves one part of the tables alone keeps.
LEMMA OmadaSame ==
  ASSUME OmadaInv, UNCHANGED O!sites PROVE OmadaSites' /\ OmadaSiteTypes'
  BY OmadaParts DEF OmadaInv, OmadaSites, OmadaSiteTypes, OmadaTables, O!sites

LEMMA OmadaSpend == ASSUME O!ConstantsAssumption, OmadaInv, O!Spend \/ oFuel' = oFuel PROVE oFuel' \in 0..ControllerSetup.Budget
  BY OmadaParts DEF OmadaInv, OmadaTables, O!Spend, O!ConstantsAssumption

\* A call that ends before it wrote anything.
LEMMA OmadaRefuses ==
  ASSUME O!ConstantsAssumption, OmadaInv, NEW c \in ControllerSetup.Calls, oCall[c].stage \in {"start", "write"},
         O!End(c, "refused"), O!Spend \/ oFuel' = oFuel, UNCHANGED <<ask, O!rules, O!groups, table, O!sites>>
  PROVE  OmadaInv'
<1> DEFINE to == [oCall[c] EXCEPT !.stage = "end", !.result = "refused"]
<1>1. oCall[c] \in OmadaRecords
  BY OmadaParts DEF OmadaInv
<1>2. to \in OmadaRecords
  BY <1>1 DEF OmadaRecords
<1>3. O!Set(c, to)
  BY DEF O!End
<1>4. /\ to.stage = "end" /\ to.result = "refused" /\ to.named = ControllerSetup.Absent /\ ~ to.wrote
  <2>1. oCall[c].named = ControllerSetup.Absent /\ ~ oCall[c].wrote
    BY DEF OmadaInv, OmadaShape
  <2> QED
    BY <1>1, <2>1 DEF OmadaRecords
<1> HIDE DEF to
<1>5. PICK new \in OmadaRecords : new = to
  BY <1>2
<1>6. OmadaShape(new, ask[c]) /\ OmadaTruth(new, ask[c])
  BY <1>4, <1>5 DEF OmadaShape, OmadaTruth
<1>7. OmadaTables'
  <2>1. oFuel' \in 0..ControllerSetup.Budget
    BY OmadaSpend
  <2>2. OmadaTables
    BY OmadaParts DEF OmadaInv
  <2> QED
    BY <2>1, <2>2 DEF OmadaTables, OmadaRules, OmadaGroup, OmadaTable, OmadaSiteTypes,
                      O!rules, O!groups, O!sites
<1>8. OmadaSites'
  BY OmadaSame
<1>9. O!Set(c, new) /\ ask' = ask /\ table' = table
  BY <1>3, <1>5
<1> QED
  BY <1>5, <1>6, <1>7, <1>8, <1>9, OmadaStep

\* A call that wrote, whether or not it hears of it.
LEMMA OmadaWrote ==
  ASSUME O!ConstantsAssumption, OmadaInv, NEW c \in ControllerSetup.Calls, NEW k \in OmadaRecords, O!Wrote(c, k),
         k.stage = "end" => k.result = "done",
         k.stage = "after" => k.result = "none",
         k.stage \in {"end", "after"}, ask[c].kind \notin O!Lists,
         ask[c].kind = "create" => k.mine \in ControllerSetup.Rules /\ OmadaAlike(k.mine, ask[c].rule),
         k.named = ControllerSetup.Absent,
         OmadaTables', OmadaSites', ask' = ask, table' = table
  PROVE  OmadaInv'
<1>1. CASE O!Set(c, [k EXCEPT !.wrote = TRUE])
  <2> DEFINE to == [k EXCEPT !.wrote = TRUE]
  <2>1. /\ to \in OmadaRecords /\ to.stage = k.stage /\ to.result = k.result /\ to.named = k.named
        /\ to.wrote /\ to.mine = k.mine
    BY DEF OmadaRecords
  <2>2. O!Set(c, to)
    BY <1>1
  <2> HIDE DEF to
  <2>3. PICK new \in OmadaRecords : new = to
    BY <2>1
  <2>4. OmadaShape(new, ask[c]) /\ OmadaTruth(new, ask[c])
    BY <2>1, <2>3 DEF OmadaShape, OmadaTruth
  <2> QED
    BY <2>2, <2>3, <2>4, OmadaStep
<1>2. CASE O!Set(c, [k EXCEPT !.wrote = TRUE, !.lost = TRUE, !.stage = "end", !.result = "failed"])
  <2> DEFINE to == [k EXCEPT !.wrote = TRUE, !.lost = TRUE, !.stage = "end", !.result = "failed"]
  <2>1. /\ to \in OmadaRecords /\ to.stage = "end" /\ to.result = "failed" /\ to.named = k.named
        /\ to.wrote /\ to.lost
    BY DEF OmadaRecords
  <2>2. O!Set(c, to)
    BY <1>2
  <2> HIDE DEF to
  <2>3. PICK new \in OmadaRecords : new = to
    BY <2>1
  <2>4. OmadaShape(new, ask[c]) /\ OmadaTruth(new, ask[c])
    BY <2>1, <2>3 DEF OmadaShape, OmadaTruth
  <2> QED
    BY <2>2, <2>3, <2>4, OmadaStep
<1> QED
  BY <1>1, <1>2 DEF O!Wrote

LEMMA OmadaListRules ==
  ASSUME O!ConstantsAssumption, OmadaInv, NEW c \in ControllerSetup.Calls, O!ListRules(c) PROVE OmadaInv'
<1>1. /\ oCall[c] \in OmadaRecords /\ OmadaTables /\ oCall[c].stage = "start" /\ ask[c].kind = "reorder"
      /\ UNCHANGED <<ask, O!rules, O!groups, table, O!sites>>
  BY OmadaParts DEF OmadaInv, O!ListRules, O!At
<1>2. CASE O!Refused(c)
  BY <1>1, <1>2, OmadaRefuses DEF O!Refused
<1>3. CASE oFuel' = oFuel /\ O!End(c, "refused")
  BY <1>1, <1>3, OmadaRefuses
<1>4. CASE /\ {ask[c].rule, ask[c].before} \subseteq O!Elems(O!Page(acl, ControllerSetup.RulePage))
           /\ O!Set(c, [oCall[c] EXCEPT !.stage = "write", !.order = O!Page(acl, ControllerSetup.RulePage)])
           /\ oFuel' = oFuel
  <2> DEFINE page == O!Page(acl, ControllerSetup.RulePage)
             to == [oCall[c] EXCEPT !.stage = "write", !.order = page]
  <2>1. page \in Seq(ControllerSetup.Rules) /\ O!NoRepeat(page)
    BY <1>1, OmadaPage DEF OmadaTables, OmadaRules, O!ConstantsAssumption
  <2>2. ask[c].rule \in O!Elems(page) /\ ask[c].before \in O!Elems(page)
    BY <1>4
  <2>3. O!Set(c, to)
    BY <1>4
  <2> HIDE DEF page
  <2>4. /\ to \in OmadaRecords /\ to.stage = "write" /\ to.order = page
        /\ to.result = oCall[c].result /\ to.named = oCall[c].named /\ to.wrote = oCall[c].wrote
    BY <1>1, <2>1 DEF OmadaRecords
  <2> HIDE DEF to
  <2>5. PICK new \in OmadaRecords : new = to
    BY <2>4
  <2>6. oCall[c].result = "none" /\ oCall[c].named = ControllerSetup.Absent /\ ~ oCall[c].wrote
    BY <1>1 DEF OmadaInv, OmadaShape
  <2>7. OmadaShape(new, ask[c]) /\ OmadaTruth(new, ask[c])
    BY <1>1, <2>1, <2>2, <2>4, <2>5, <2>6 DEF OmadaShape, OmadaTruth
  <2>8. OmadaTables'
    BY <1>1, <1>4 DEF OmadaTables, OmadaRules, OmadaGroup, OmadaTable, OmadaSiteTypes,
                      O!rules, O!groups, O!sites
  <2> QED
    BY <1>1, <2>3, <2>5, <2>7, <2>8, OmadaSame, OmadaStep
<1> QED
  BY <1>2, <1>3, <1>4 DEF O!ListRules

LEMMA OmadaPostIndexes ==
  ASSUME O!ConstantsAssumption, OmadaInv, NEW c \in ControllerSetup.Calls, O!PostIndexes(c) PROVE OmadaInv'
<1>1. /\ oCall[c] \in OmadaRecords /\ OmadaTables /\ oCall[c].stage = "write" /\ ask[c].kind = "reorder"
      /\ UNCHANGED <<ask, born, O!groups, table, O!sites>>
  BY OmadaParts DEF OmadaInv, O!PostIndexes, O!At
<1> DEFINE order == O!Moved(oCall[c].order, ask[c].rule, ask[c].before)
<1>2. CASE O!Refused(c) /\ acl' = acl
  BY <1>1, <1>2, OmadaRefuses DEF O!Refused, O!rules
<1>3. CASE O!End(c, "refused") /\ acl' = acl /\ oFuel' = oFuel
  BY <1>1, <1>3, OmadaRefuses DEF O!rules
<1>4. CASE /\ O!Elems(order) = O!Elems(acl) /\ acl' = order
           /\ O!Wrote(c, [oCall[c] EXCEPT !.stage = "end", !.result = "done"])
  <2>1. order \in Seq(ControllerSetup.Rules) /\ O!NoRepeat(order)
    <3>1. /\ O!NoRepeat(oCall[c].order) /\ ask[c].rule \in O!Elems(oCall[c].order)
          /\ ask[c].before \in O!Elems(oCall[c].order) /\ oCall[c].order \in Seq(ControllerSetup.Rules)
      BY <1>1 DEF OmadaInv, OmadaShape, OmadaRecords
    <3>2. ask[c].rule # ask[c].before
      BY <1>1, OmadaAsk DEF OmadaTables
    <3> QED
      BY <3>1, <3>2, OmadaMoved
  <2> HIDE DEF order
  <2> DEFINE to == [oCall[c] EXCEPT !.stage = "end", !.result = "done"]
  <2>2. O!Wrote(c, to)
    BY <1>4
  <2>3. to \in OmadaRecords /\ to.stage = "end" /\ to.result = "done" /\ to.named = oCall[c].named
    BY <1>1 DEF OmadaRecords
  <2> HIDE DEF to
  <2>4. PICK k \in OmadaRecords : k = to
    BY <2>3
  <2>5. oCall[c].named = ControllerSetup.Absent
    BY <1>1 DEF OmadaInv, OmadaShape
  <2>6. oFuel' \in 0..ControllerSetup.Budget
    <3>1. O!Spend \/ oFuel' = oFuel
      BY <2>2 DEF O!Wrote
    <3> QED
      BY <3>1, OmadaSpend
  <2>7. OmadaTables'
    BY <1>1, <1>4, <2>1, <2>6 DEF OmadaTables, OmadaRules, OmadaGroup, OmadaTable, OmadaSiteTypes,
                      O!groups, O!sites
  <2>8. OmadaSites'
    BY <1>1, OmadaSame
  <2>9. ask[c].kind \notin O!Lists /\ ask[c].kind # "create"
    BY <1>1 DEF O!Lists
  <2> QED
    BY <1>1, <2>2, <2>3, <2>4, <2>5, <2>7, <2>8, <2>9, OmadaWrote
<1> QED
  BY <1>2, <1>3, <1>4 DEF O!PostIndexes

LEMMA OmadaPostRule ==
  ASSUME O!ConstantsAssumption, OmadaInv, NEW c \in ControllerSetup.Calls, O!PostRule(c) PROVE OmadaInv'
<1>1. /\ oCall[c] \in OmadaRecords /\ OmadaTables /\ oCall[c].stage = "start" /\ ask[c].kind = "create"
      /\ UNCHANGED <<ask, O!groups, table, O!sites>>
  BY OmadaParts DEF OmadaInv, O!PostRule, O!At
<1>2. CASE O!Refused(c) /\ UNCHANGED O!rules
  BY <1>1, <1>2, OmadaRefuses DEF O!Refused
<1>3. ASSUME NEW r \in ControllerSetup.Rules \ born, ControllerSetup.Text[r] = ControllerSetup.Text[ask[c].rule], ControllerSetup.Body[r] = ControllerSetup.Body[ask[c].rule],
             acl' = Append(acl, r), born' = born \cup {r},
             O!Wrote(c, [oCall[c] EXCEPT !.stage = "after", !.mine = r])
      PROVE  OmadaInv'
  <2>1. /\ Append(acl, r) \in Seq(ControllerSetup.Rules) /\ O!NoRepeat(Append(acl, r))
        /\ O!Elems(Append(acl, r)) = O!Elems(acl) \cup {r}
    BY <1>1, OmadaAppend DEF OmadaTables, OmadaRules
  <2>2. OmadaRules'
    BY <1>1, <1>3, <2>1 DEF OmadaTables, OmadaRules
  <2> DEFINE to == [oCall[c] EXCEPT !.stage = "after", !.mine = r]
  <2>3. O!Wrote(c, to)
    BY <1>3
  <2>4. /\ to \in OmadaRecords /\ to.stage = "after" /\ to.result = oCall[c].result
        /\ to.named = oCall[c].named /\ to.mine = r
    BY <1>1 DEF OmadaRecords
  <2> HIDE DEF to
  <2>5. PICK k \in OmadaRecords : k = to
    BY <2>4
  <2>6. oCall[c].named = ControllerSetup.Absent /\ oCall[c].result = "none"
    BY <1>1 DEF OmadaInv, OmadaShape
  <2>7. oFuel' \in 0..ControllerSetup.Budget
    <3>1. O!Spend \/ oFuel' = oFuel
      BY <2>3 DEF O!Wrote
    <3> QED
      BY <3>1, OmadaSpend
  <2>8. OmadaTables'
    BY <1>1, <2>2, <2>7 DEF OmadaTables, OmadaGroup, OmadaTable, OmadaSiteTypes, O!groups, O!sites
  <2>9. OmadaSites'
    BY <1>1, OmadaSame
  <2>10. ask[c].kind \notin O!Lists
    BY <1>1 DEF O!Lists
  <2>11. k.mine \in ControllerSetup.Rules /\ OmadaAlike(k.mine, ask[c].rule)
    BY <1>3, <2>4, <2>5 DEF OmadaAlike
  <2> QED
    BY <1>1, <2>3, <2>4, <2>5, <2>6, <2>8, <2>9, <2>10, <2>11, OmadaWrote
<1> QED
  BY <1>2, <1>3 DEF O!PostRule

LEMMA OmadaCount == \A S : O!Cardinality(S) = Cardinality(S)
  BY DEF O!Cardinality, Cardinality

LEMMA OmadaLeast ==
  ASSUME NEW n \in Nat, NEW some \in SUBSET (1..n), some # {}
  PROVE  \E x \in some : \A y \in some : x <= y
<1> DEFINE Below(i) == {j \in some : j <= i}
           Belows == {Below(i) : i \in some}
           Inside == StrictSubsetOrdering(some)
<1>1. IsFiniteSet(some)
  <2>1. IsFiniteSet(1..n)
    BY FS_Interval
  <2> QED
    BY <2>1, FS_Subset
<1>2. Belows \subseteq FiniteSubsetsOf(some) /\ Belows # {}
  <2>1. \A i \in some : Below(i) \in SUBSET some /\ IsFiniteSet(Below(i))
    BY <1>1, FS_Subset
  <2> QED
    BY <2>1 DEF FiniteSubsetsOf
<1>3. IsWellFoundedOn(Inside, FiniteSubsetsOf(some))
  BY FS_StrictSubsetOrderingWellFounded
<1>4. PICK s \in Belows : \A t \in Belows : ~ (<<t, s>> \in Inside)
  BY <1>2, <1>3, WFMin
<1>5. PICK x \in some : s = Below(x)
  BY <1>4
<1>6. ASSUME NEW y \in some, y < x PROVE FALSE
  <2>1. Below(y) \in Belows /\ Below(y) \in SUBSET some /\ s \in SUBSET some
    BY <1>5
  <2>2. Below(y) \subseteq s /\ x \in s /\ x \notin Below(y)
    <3>1. some \subseteq Int
      OBVIOUS
    <3>2. \A j \in some : j <= y => j <= x
      BY <1>6, <3>1
    <3>3. x <= x /\ ~ (x <= y)
      BY <1>6, <3>1
    <3> QED
      BY <1>5, <3>2, <3>3
  <2> DEFINE e == Below(y)
  <2>3. <<e, s>> \in (SUBSET some) \X (SUBSET some) /\ e \subseteq s /\ e # s
    BY <2>1, <2>2
  <2> HIDE DEF e, Belows
  <2>4. <<e, s>> \in Inside
    BY <2>3 DEF StrictSubsetOrdering
  <2>5. e \in Belows
    BY <2>1 DEF e
  <2> QED
    BY <1>4, <2>4, <2>5
<1> QED
  BY <1>6

\* The rule a create is given has the description; of several it has the fields too, and
\* a single one is the call's own if that was on the page.
LEMMA OmadaNamed ==
  ASSUME O!ConstantsAssumption, NEW list \in Seq(ControllerSetup.Rules), NEW rule, NEW mine \in ControllerSetup.Rules, OmadaAlike(mine, rule)
  PROVE  /\ O!Named(list, rule) \in ControllerSetup.Rules \cup {ControllerSetup.Absent}
         /\ O!Named(list, rule) # ControllerSetup.Absent =>
              /\ ControllerSetup.Text[O!Named(list, rule)] = ControllerSetup.Text[mine]
              /\ mine \in O!Elems(list) => ControllerSetup.Body[O!Named(list, rule)] = ControllerSetup.Body[mine]
<1> DEFINE same == {i \in DOMAIN list : ControllerSetup.Text[list[i]] = ControllerSetup.Text[rule]}
           alike == {i \in same : O!Cardinality(same) = 1 \/ ControllerSetup.Body[list[i]] = ControllerSetup.Body[rule]}
           first == CHOOSE i \in alike : \A j \in alike : i <= j
<1>1. O!Named(list, rule) = IF alike = {} THEN ControllerSetup.Absent ELSE list[first]
  BY DEF O!Named
<1>2. CASE alike = {}
  BY <1>1, <1>2
<1>3. CASE alike # {}
  <2>1. alike \in SUBSET (1..Len(list)) /\ Len(list) \in Nat
    OBVIOUS
  <2>2. \E i \in alike : \A j \in alike : i <= j
    <3> HIDE DEF alike
    <3> QED
      BY <1>3, <2>1, OmadaLeast
  <2>3. first \in alike
    <3> HIDE DEF alike
    <3> QED
      BY <2>2
  <2> HIDE DEF first
  <2>4. first \in DOMAIN list /\ ControllerSetup.Text[list[first]] = ControllerSetup.Text[rule] /\ first \in same
    BY <2>3
  <2>5. mine \in O!Elems(list) => ControllerSetup.Body[list[first]] = ControllerSetup.Body[rule]
    <3>1. CASE ControllerSetup.Body[list[first]] = ControllerSetup.Body[rule]
      BY <3>1
    <3>2. CASE O!Cardinality(same) = 1 /\ mine \in O!Elems(list)
      <4>1. PICK i \in DOMAIN list : list[i] = mine
        BY <3>2 DEF O!Elems
      <4>2. i \in same
        BY <4>1 DEF OmadaAlike
      <4>3. IsFiniteSet(same)
        <5>1. IsFiniteSet(1..Len(list)) /\ same \subseteq 1..Len(list)
          <6>1. IsFiniteSet(1..Len(list))
            BY <2>1, FS_Interval
          <6>2. same \subseteq 1..Len(list)
            OBVIOUS
          <6> QED
            BY <6>1, <6>2
        <5> QED
          BY <5>1, FS_Subset
      <4>4. PICK one : same = {one}
        <5> HIDE DEF same
        <5> QED
          BY <3>2, <4>3, FS_Singleton, OmadaCount
      <4>5. first = i
        <5> HIDE DEF same
        <5> QED
          BY <2>4, <4>2, <4>4
      <4> QED
        BY <4>1, <4>5 DEF OmadaAlike
    <3> QED
      BY <2>3, <3>1, <3>2
  <2>6. list[first] \in ControllerSetup.Rules
    BY <2>4
  <2> HIDE DEF alike, same
  <2> QED
    BY <1>1, <1>3, <2>4, <2>5, <2>6 DEF OmadaAlike
<1> QED
  BY <1>2, <1>3

\* A call that ends with one more read: it wrote before, or reports that it is lost.
LEMMA OmadaCloses ==
  ASSUME O!ConstantsAssumption, OmadaInv, NEW c \in ControllerSetup.Calls, NEW k \in OmadaRecords, O!Set(c, k),
         oCall[c].stage = "after", ask[c].kind \notin O!Lists, k.stage = "end", k.wrote,
         k.result = "done" \/ (k.result = "failed" /\ k.lost),
         k.named # ControllerSetup.Absent =>
           ControllerSetup.Text[k.named] = ControllerSetup.Text[k.mine] /\ (k.listed => ControllerSetup.Body[k.named] = ControllerSetup.Body[k.mine]),
         O!Spend \/ oFuel' = oFuel, UNCHANGED <<ask, O!rules, O!groups, table, O!sites>>
  PROVE  OmadaInv'
<1>1. OmadaTables
  BY OmadaParts DEF OmadaInv
<1>2. OmadaShape(k, ask[c]) /\ OmadaTruth(k, ask[c])
  BY DEF OmadaShape, OmadaTruth
<1>3. OmadaTables'
  <2>1. oFuel' \in 0..ControllerSetup.Budget
    BY OmadaSpend
  <2> QED
    BY <1>1, <2>1 DEF OmadaTables, OmadaRules, OmadaGroup, OmadaTable, OmadaSiteTypes,
                      O!rules, O!groups, O!sites
<1> QED
  BY <1>2, <1>3, OmadaSame, OmadaStep

LEMMA OmadaEnrichCreate ==
  ASSUME O!ConstantsAssumption, OmadaInv, NEW c \in ControllerSetup.Calls, O!EnrichCreate(c) PROVE OmadaInv'
<1>1. /\ oCall[c] \in OmadaRecords /\ OmadaTables /\ oCall[c].stage = "after" /\ ask[c].kind = "create"
      /\ UNCHANGED <<ask, O!rules, O!groups, table, O!sites>>
  BY OmadaParts DEF OmadaInv, O!EnrichCreate, O!At
<1>2. /\ oCall[c].wrote /\ oCall[c].named = ControllerSetup.Absent
      /\ oCall[c].mine \in ControllerSetup.Rules /\ OmadaAlike(oCall[c].mine, ask[c].rule)
  BY <1>1 DEF OmadaInv, OmadaShape
<1>3. ask[c].kind \notin O!Lists
  BY <1>1 DEF O!Lists
<1>4. CASE O!End(c, "done") /\ O!Spend
  <2> DEFINE to == [oCall[c] EXCEPT !.stage = "end", !.result = "done"]
  <2>1. O!Set(c, to)
    BY <1>4 DEF O!End
  <2>2. /\ to \in OmadaRecords /\ to.stage = "end" /\ to.result = "done"
        /\ to.named = oCall[c].named /\ to.wrote = oCall[c].wrote
    BY <1>1 DEF OmadaRecords
  <2> HIDE DEF to
  <2>3. PICK k \in OmadaRecords : k = to
    BY <2>2
  <2> QED
    BY <1>1, <1>2, <1>3, <1>4, <2>1, <2>2, <2>3, OmadaCloses
<1>5. CASE /\ O!Set(c, [oCall[c] EXCEPT !.stage = "end", !.result = "done",
                        !.named = O!Named(O!Page(acl, ControllerSetup.FirstPage), ask[c].rule),
                        !.listed = oCall[c].mine \in O!Elems(O!Page(acl, ControllerSetup.FirstPage))])
           /\ oFuel' = oFuel
  <2> DEFINE list == O!Page(acl, ControllerSetup.FirstPage)
             one == O!Named(list, ask[c].rule)
             shown == oCall[c].mine \in O!Elems(list)
             to == [oCall[c] EXCEPT !.stage = "end", !.result = "done", !.named = one,
                                   !.listed = shown]
  <2>1. O!Set(c, to)
    BY <1>5
  <2>2. list \in Seq(ControllerSetup.Rules)
    BY <1>1, OmadaPage DEF OmadaTables, OmadaRules, O!ConstantsAssumption
  <2> HIDE DEF list
  <2>3. /\ one \in ControllerSetup.Rules \cup {ControllerSetup.Absent}
        /\ one # ControllerSetup.Absent => ControllerSetup.Text[one] = ControllerSetup.Text[oCall[c].mine] /\ (shown => ControllerSetup.Body[one] = ControllerSetup.Body[oCall[c].mine])
    BY <1>2, <2>2, OmadaNamed
  <2>4. shown \in BOOLEAN
    OBVIOUS
  <2> HIDE DEF one, shown
  <2>5. /\ to \in OmadaRecords /\ to.stage = "end" /\ to.result = "done"
        /\ to.named = one /\ to.wrote = oCall[c].wrote /\ to.mine = oCall[c].mine /\ to.listed = shown
    BY <1>1, <2>3, <2>4 DEF OmadaRecords
  <2> HIDE DEF to
  <2>6. PICK k \in OmadaRecords : k = to
    BY <2>5
  <2>7. k.named # ControllerSetup.Absent =>
           ControllerSetup.Text[k.named] = ControllerSetup.Text[k.mine] /\ (k.listed => ControllerSetup.Body[k.named] = ControllerSetup.Body[k.mine])
    BY <2>3, <2>5, <2>6
  <2> QED
    BY <1>1, <1>2, <1>3, <1>5, <2>1, <2>5, <2>6, <2>7, OmadaCloses
<1> QED
  BY <1>4, <1>5 DEF O!EnrichCreate

LEMMA OmadaFindGroup ==
  ASSUME O!ConstantsAssumption, OmadaInv, NEW c \in ControllerSetup.Calls, O!FindGroup(c) PROVE OmadaInv'
<1>1. /\ oCall[c] \in OmadaRecords /\ OmadaTables /\ oCall[c].stage = "start"
      /\ ask[c].kind \in {"add", "remove"} /\ UNCHANGED <<ask, O!rules, O!groups, table, O!sites>>
  BY OmadaParts DEF OmadaInv, O!FindGroup, O!At
<1>2. CASE O!Refused(c)
  BY <1>1, <1>2, OmadaRefuses DEF O!Refused
<1>3. CASE oFuel' = oFuel /\ O!End(c, "refused")
  BY <1>1, <1>3, OmadaRefuses
<1>4. CASE O!Set(c, [oCall[c] EXCEPT !.stage = "write", !.read = group]) /\ oFuel' = oFuel
  <2> DEFINE to == [oCall[c] EXCEPT !.stage = "write", !.read = group]
  <2>1. O!Set(c, to)
    BY <1>4
  <2>2. /\ to \in OmadaRecords /\ to.stage = "write"
        /\ to.result = oCall[c].result /\ to.named = oCall[c].named /\ to.wrote = oCall[c].wrote
    BY <1>1 DEF OmadaRecords, OmadaTables, OmadaGroup
  <2> HIDE DEF to
  <2>3. PICK new \in OmadaRecords : new = to
    BY <2>2
  <2>4. oCall[c].result = "none" /\ oCall[c].named = ControllerSetup.Absent /\ ~ oCall[c].wrote
    BY <1>1 DEF OmadaInv, OmadaShape
  <2>5. OmadaShape(new, ask[c]) /\ OmadaTruth(new, ask[c])
    BY <1>1, <2>2, <2>3, <2>4 DEF OmadaShape, OmadaTruth
  <2>6. OmadaTables'
    BY <1>1, <1>4 DEF OmadaTables, OmadaRules, OmadaGroup, OmadaTable, OmadaSiteTypes,
                      O!rules, O!groups, O!sites
  <2> QED
    BY <1>1, <2>1, <2>3, <2>5, <2>6, OmadaSame, OmadaStep
<1> QED
  BY <1>2, <1>3, <1>4 DEF O!FindGroup

LEMMA OmadaMerged ==
  ASSUME O!ConstantsAssumption, OmadaInv, NEW c \in ControllerSetup.Calls
  PROVE  O!Merged(c) \in O!Members
<1>1. oCall[c].read \in O!Members /\ ask[c] \in O!Asks
  BY OmadaParts, OmadaAsk DEF OmadaInv, OmadaRecords, OmadaTables
<1>2. \A ip \in ControllerSetup.Ips :
        /\ oCall[c].read[ip] \in ControllerSetup.Notes \cup {ControllerSetup.Absent}
        /\ ask[c].note \in ControllerSetup.Notes \cup {ControllerSetup.Absent} /\ ControllerSetup.Blank \in ControllerSetup.Notes
  BY <1>1 DEF O!Members, O!Asks, O!ConstantsAssumption
<1> QED
  BY <1>2 DEF O!Merged, O!Members

LEMMA OmadaPatchGroup ==
  ASSUME O!ConstantsAssumption, OmadaInv, NEW c \in ControllerSetup.Calls, O!PatchGroup(c) PROVE OmadaInv'
<1>1. /\ oCall[c] \in OmadaRecords /\ OmadaTables /\ oCall[c].stage = "write"
      /\ ask[c].kind \in {"add", "remove"} /\ UNCHANGED <<ask, O!rules, exists, table, O!sites>>
  BY OmadaParts DEF OmadaInv, O!PatchGroup, O!At
<1>2. CASE O!Refused(c) /\ group' = group
  BY <1>1, <1>2, OmadaRefuses DEF O!Refused, O!groups
<1>3. CASE O!End(c, "refused") /\ group' = group /\ oFuel' = oFuel
  BY <1>1, <1>3, OmadaRefuses DEF O!groups
<1>4. CASE group' = O!Merged(c) /\ O!Wrote(c, [oCall[c] EXCEPT !.stage = "after"])
  <2> DEFINE to == [oCall[c] EXCEPT !.stage = "after"]
  <2>1. O!Wrote(c, to)
    BY <1>4
  <2>2. /\ to \in OmadaRecords /\ to.stage = "after" /\ to.result = oCall[c].result
        /\ to.named = oCall[c].named
    BY <1>1 DEF OmadaRecords
  <2> HIDE DEF to
  <2>3. PICK k \in OmadaRecords : k = to
    BY <2>2
  <2>4. oCall[c].named = ControllerSetup.Absent /\ oCall[c].result = "none"
    BY <1>1 DEF OmadaInv, OmadaShape
  <2>5. oFuel' \in 0..ControllerSetup.Budget
    <3>1. O!Spend \/ oFuel' = oFuel
      BY <2>1 DEF O!Wrote
    <3> QED
      BY <3>1, OmadaSpend
  <2>6. group' \in O!Members
    BY <1>4, OmadaMerged
  <2>7. OmadaTables'
    BY <1>1, <2>5, <2>6 DEF OmadaTables, OmadaRules, OmadaGroup, OmadaTable, OmadaSiteTypes,
                      O!rules, O!sites
  <2>8. OmadaSites'
    BY <1>1, OmadaSame
  <2>9. ask[c].kind \notin O!Lists /\ ask[c].kind # "create"
    BY <1>1 DEF O!Lists
  <2> QED
    BY <1>1, <2>1, <2>2, <2>3, <2>4, <2>7, <2>8, <2>9, OmadaWrote
<1> QED
  BY <1>2, <1>3, <1>4 DEF O!PatchGroup

LEMMA OmadaRereadGroup ==
  ASSUME O!ConstantsAssumption, OmadaInv, NEW c \in ControllerSetup.Calls, O!RereadGroup(c) PROVE OmadaInv'
<1>1. /\ oCall[c] \in OmadaRecords /\ oCall[c].stage = "after"
      /\ ask[c].kind \in {"add", "remove"} /\ UNCHANGED <<ask, O!rules, O!groups, table, O!sites>>
      /\ O!Spend \/ oFuel' = oFuel
  BY OmadaParts DEF OmadaInv, O!RereadGroup, O!At
<1>2. oCall[c].named = ControllerSetup.Absent /\ oCall[c].wrote /\ ask[c].kind \notin O!Lists
  BY <1>1 DEF OmadaInv, OmadaShape, O!Lists
<1> DEFINE fine == [oCall[c] EXCEPT !.stage = "end", !.result = "done"]
           cut == [oCall[c] EXCEPT !.stage = "end", !.result = "failed", !.lost = TRUE]
<1>3. O!Set(c, fine) \/ O!Set(c, cut)
  BY DEF O!RereadGroup, O!End
<1>4. /\ fine \in OmadaRecords /\ fine.stage = "end" /\ fine.result = "done"
      /\ fine.named = ControllerSetup.Absent /\ fine.wrote
      /\ cut \in OmadaRecords /\ cut.stage = "end" /\ cut.result = "failed"
      /\ cut.named = ControllerSetup.Absent /\ cut.wrote /\ cut.lost
  BY <1>1, <1>2 DEF OmadaRecords
<1> HIDE DEF fine, cut
<1>5. PICK k \in OmadaRecords : (k = fine \/ k = cut) /\ O!Set(c, k)
  BY <1>3, <1>4
<1> QED
  BY <1>1, <1>2, <1>4, <1>5, OmadaCloses

-----------------------------------------------------------------------------
(* Listings.                                                               *)

LEMMA OmadaSizes ==
  ASSUME NEW S, NEW s \in Seq(S)
  PROVE  IsFiniteSet(DOMAIN s) /\ O!Cardinality(DOMAIN s) = Len(s)
<1>1. DOMAIN s = 1..Len(s) /\ Len(s) \in Nat
  OBVIOUS
<1>2. IsFiniteSet(1..Len(s)) /\ O!Cardinality(1..Len(s)) = Len(s)
  BY <1>1, FS_Interval, OmadaCount, SMTT(30)
<1> QED
  BY <1>1, <1>2

\* A page of what matched: complete unless it says that it is truncated.
LEMMA OmadaPageOf ==
  ASSUME O!ConstantsAssumption, NEW c \in ControllerSetup.Calls, ask[c].filtered \in BOOLEAN,
         NEW lines \in Seq(ControllerSetup.Rows), NEW total \in Nat, NEW out \in SUBSET O!Matched(c, lines)
  PROVE  LET cut == O!_truncated(O!Cardinality(out), O!Cardinality(O!Matched(c, lines)), total,
                               ask[c].filtered)
         IN  /\ cut \in BOOLEAN
             /\ Len(lines) = total /\ ~ cut => out = O!Matched(c, lines)
             /\ Len(lines) < total /\ ~ ask[c].filtered => cut
<1> DEFINE matched == O!Matched(c, lines)
           cut == O!_truncated(O!Cardinality(out), O!Cardinality(matched), total, ask[c].filtered)
<1>1. /\ matched \subseteq DOMAIN lines
      /\ ~ ask[c].filtered => matched = DOMAIN lines
  BY DEF O!Matched
<1>2. IsFiniteSet(DOMAIN lines) /\ O!Cardinality(DOMAIN lines) = Len(lines) /\ Len(lines) \in Nat
  BY OmadaSizes
<1>3. cut = IF ask[c].filtered THEN O!Cardinality(out) < O!Cardinality(matched) ELSE O!Cardinality(out) < total
  BY DEF O!_truncated
<1> HIDE DEF matched, cut
<1>4. IsFiniteSet(matched) /\ IsFiniteSet(out) /\ out \subseteq matched
  <2>1. IsFiniteSet(matched) /\ out \subseteq matched
    BY <1>1, <1>2, FS_Subset DEF matched
  <2> QED
    BY <2>1, FS_Subset
<1>5. /\ O!Cardinality(matched) \in Nat /\ O!Cardinality(out) \in Nat
      /\ O!Cardinality(out) <= O!Cardinality(matched)
      /\ O!Cardinality(out) = O!Cardinality(matched) => out = matched
  BY <1>4, FS_Subset, FS_CardinalityType, OmadaCount
<1>6. ~ ask[c].filtered => O!Cardinality(matched) = Len(lines)
  BY <1>1, <1>2
<1> DEFINE fewer == O!Cardinality(out) < O!Cardinality(matched)
           short == O!Cardinality(out) < total
<1>7. fewer \in BOOLEAN /\ short \in BOOLEAN
  OBVIOUS
<1>8. (ask[c].filtered => cut = fewer) /\ (~ ask[c].filtered => cut = short)
  BY <1>3, Zenon
<1>9. cut \in BOOLEAN
  <2> HIDE DEF fewer, short
  <2> QED
    BY <1>7, <1>8, Zenon
<1>10. (ask[c].filtered => (cut <=> fewer)) /\ (~ ask[c].filtered => (cut <=> short))
  <2> HIDE DEF fewer, short
  <2> QED
    BY <1>7, <1>8, <1>9
<1>11. Len(lines) = total /\ ~ cut => out = matched
  <2>1. fewer \/ out = matched
    BY <1>5
  <2>2. Len(lines) = total /\ ~ ask[c].filtered => short \/ out = matched
    BY <1>2, <1>5, <1>6
  <2> HIDE DEF fewer, short
  <2> QED
    BY <1>10, <2>1, <2>2, Zenon
<1>12. Len(lines) < total /\ ~ ask[c].filtered => cut
  <2>1. Len(lines) < total /\ ~ ask[c].filtered => short
    BY <1>2, <1>5, <1>6
  <2> HIDE DEF fewer, short
  <2> QED
    BY <1>10, <2>1, Zenon
<1> QED
  BY <1>9, <1>11, <1>12 DEF matched, cut

LEMMA OmadaAnswer ==
  ASSUME O!ConstantsAssumption, ask \in ControllerSetup.Scenarios, NEW c \in ControllerSetup.Calls, ask[c].kind \in O!Lists,
         NEW lines \in Seq(ControllerSetup.Rows), NEW total \in Nat, NEW answer \in O!Answers(c, lines, total)
  PROVE  /\ answer.out \subseteq O!Matched(c, lines)
         /\ answer.truncated \in BOOLEAN /\ answer.scanCapped \in BOOLEAN
         /\ Len(lines) = total /\ ~ answer.truncated => answer.out = O!Matched(c, lines)
         /\ Len(lines) < total =>
              \/ answer.truncated \/ answer.scanCapped
              \/ /\ ask[c].filtered => ask[c].kind # "list_client_events"
                 /\ ~ ask[c].filtered => ask[c].kind \in {"list_networks", "list_acls"}
<1>1. ask[c].filtered \in BOOLEAN
      /\ (ask[c].kind \in {"list_networks", "list_acls"} => ~ ask[c].filtered)
      /\ (ask[c].kind = "get_device" => ask[c].filtered)
  BY OmadaAsk DEF O!Asks
<1>2. ASSUME NEW one \in O!PageOf(c, lines, total)
      PROVE  /\ one.out \subseteq O!Matched(c, lines)
             /\ one.truncated \in BOOLEAN /\ one.scanCapped \in BOOLEAN
             /\ Len(lines) = total /\ ~ one.truncated => one.out = O!Matched(c, lines)
             /\ Len(lines) < total /\ ~ ask[c].filtered => one.truncated
             /\ DOMAIN one = {"out", "scanCapped", "truncated"}
  <2>1. PICK out \in SUBSET O!Matched(c, lines) :
          one = [out |-> out, scanCapped |-> FALSE,
                 truncated |-> O!_truncated(O!Cardinality(out), O!Cardinality(O!Matched(c, lines)), total,
                                          ask[c].filtered)]
    BY DEF O!PageOf
  <2> DEFINE cut == O!_truncated(O!Cardinality(out), O!Cardinality(O!Matched(c, lines)), total,
                               ask[c].filtered)
  <2>2. /\ cut \in BOOLEAN
        /\ Len(lines) = total /\ ~ cut => out = O!Matched(c, lines)
        /\ Len(lines) < total /\ ~ ask[c].filtered => cut
    BY <1>1, OmadaPageOf
  <2>3. one = [out |-> out, scanCapped |-> FALSE, truncated |-> cut]
    BY <2>1
  <2> HIDE DEF cut
  <2> QED
    BY <2>2, <2>3
<1>3. ASSUME NEW one \in O!AllOf(c, lines)
      PROVE  /\ one.out = O!Matched(c, lines) /\ ~ one.truncated
             /\ one.truncated \in BOOLEAN /\ one.scanCapped \in BOOLEAN
  <2>1. one = [out |-> O!Matched(c, lines), truncated |-> FALSE, scanCapped |-> FALSE]
    BY DEF O!AllOf
  <2> QED
    BY <2>1
<1>4. CASE ask[c].kind \in {"list_known_clients", "list_dhcp_reservations"}
  <2>1. answer \in O!PageOf(c, lines, total)
    BY <1>4 DEF O!Answers, O!list_known_clients, O!list_dhcp_reservations
  <2> QED
    BY <1>1, <1>2, <1>4, <2>1
<1>5. CASE ask[c].kind = "list_client_events"
  <2>1. answer \in {[one EXCEPT !.scanCapped = Len(lines) < total] : one \in O!PageOf(c, lines, total)}
    BY <1>5 DEF O!Answers, O!list_client_events
  <2>2. PICK one \in O!PageOf(c, lines, total) : answer = [one EXCEPT !.scanCapped = Len(lines) < total]
    BY <2>1
  <2>3. DOMAIN one = {"out", "scanCapped", "truncated"}
    BY <1>2
  <2> DEFINE capped == Len(lines) < total
  <2>4. answer.out = one.out /\ answer.truncated = one.truncated /\ answer.scanCapped = capped
    BY <2>2, <2>3
  <2>5. capped \in BOOLEAN /\ (Len(lines) < total => capped)
    OBVIOUS
  <2> HIDE DEF capped
  <2>6. answer.scanCapped \in BOOLEAN /\ (Len(lines) < total => answer.scanCapped)
    BY <2>4, <2>5, Zenon
  <2> QED
    BY <1>2, <2>4, <2>6
<1>6. CASE ask[c].kind \in {"list_networks", "list_acls"}
  <2>1. answer \in O!AllOf(c, lines)
    BY <1>6 DEF O!Answers, O!list_networks, O!list_acls
  <2> QED
    BY <1>1, <1>3, <1>6, <2>1
<1>7. CASE ask[c].kind = "get_device"
  <2>1. answer \in O!AllOf(c, lines)
    BY <1>7 DEF O!Answers, O!get_device
  <2> QED
    BY <1>1, <1>3, <1>7, <2>1
<1> QED
  BY <1>4, <1>5, <1>6, <1>7 DEF O!Lists

LEMMA OmadaNoAnswer ==
  ASSUME NEW c \in ControllerSetup.Calls, ask[c].kind \in O!Lists, NEW lines, NEW total, O!Answers(c, lines, total) = {}
  PROVE  ask[c].kind = "get_device" /\ O!Matched(c, lines) = {}
<1>1. O!PageOf(c, lines, total) # {} /\ O!AllOf(c, lines) # {}
  <2>1. {} \in SUBSET O!Matched(c, lines)
    OBVIOUS
  <2> QED
    BY <2>1 DEF O!PageOf, O!AllOf
<1>2. CASE ask[c].kind \in {"list_known_clients", "list_dhcp_reservations"}
  BY <1>1, <1>2 DEF O!Answers, O!list_known_clients, O!list_dhcp_reservations
<1>3. CASE ask[c].kind = "list_client_events"
  <2>1. O!Answers(c, lines, total) =
          {[one EXCEPT !.scanCapped = Len(lines) < total] : one \in O!PageOf(c, lines, total)}
    BY <1>3 DEF O!Answers, O!list_client_events
  <2> QED
    BY <1>1, <2>1
<1>4. CASE ask[c].kind \in {"list_networks", "list_acls"}
  BY <1>1, <1>4 DEF O!Answers, O!list_networks, O!list_acls
<1>5. CASE ask[c].kind = "get_device"
  BY <1>1, <1>5 DEF O!Answers, O!get_device
<1> QED
  BY <1>2, <1>3, <1>4, <1>5 DEF O!Lists

LEMMA OmadaConcat ==
  ASSUME NEW S, NEW s \in Seq(S), NEW u \in Seq(S)
  PROVE  /\ s \o u \in Seq(S) /\ Len(s \o u) = Len(s) + Len(u)
         /\ \A i \in 1..Len(s) : (s \o u)[i] = s[i]
         /\ \A i \in (Len(s) + 1)..(Len(s) + Len(u)) : (s \o u)[i] = u[i - Len(s)]
  OBVIOUS

LEMMA OmadaCut ==
  ASSUME NEW S, NEW s \in Seq(S), NEW m \in 1..(Len(s) + 1), NEW n \in (m - 1)..Len(s)
  PROVE  /\ SubSeq(s, m, n) \in Seq(S) /\ Len(SubSeq(s, m, n)) = n - m + 1
         /\ \A i \in 1..(n - m + 1) : SubSeq(s, m, n)[i] = s[m + i - 1]
  OBVIOUS

\* What the next page, data, adds to the rows read so far, if they were the first b of t.
OmadaReads(lines, data, t, b, size, end) ==
  /\ lines \o data \in Seq(ControllerSetup.Rows) /\ Len(data) \in Nat
  /\ Len(lines) = b /\ b <= Len(t) /\ (\A i \in DOMAIN lines : lines[i] = t[i]) =>
       /\ Len(lines \o data) = end /\ end \in 0..Len(t)
       /\ \A i \in DOMAIN (lines \o data) : (lines \o data)[i] = t[i]
       /\ Len(data) < size => end = Len(t)
       /\ Len(data) >= size => end = b + size

LEMMA OmadaNextPage ==
  ASSUME NEW b \in Nat, NEW size \in Nat \ {0}, NEW t \in Seq(ControllerSetup.Rows), NEW lines \in Seq(ControllerSetup.Rows),
         NEW start \in Nat, start = b + 1, NEW end \in 0..Len(t),
         end <= b + size, end < b + size => end = Len(t), b <= Len(t) => end >= b
  PROVE  OmadaReads(lines, SubSeq(t, start, end), t, b, size, end)
<1> DEFINE data == SubSeq(t, start, end)
           more == lines \o data
<1>1. Len(t) \in Nat /\ end \in 0..Len(t) /\ end <= b + size
  OBVIOUS
<1>2. b <= Len(t) => end >= b /\ (end < b + size => end = Len(t))
  BY <1>1
<1>3. CASE b <= Len(t)
  <2>1. /\ data \in Seq(ControllerSetup.Rows) /\ Len(data) = end - b
        /\ \A i \in 1..(end - b) : data[i] = t[b + i]
    <3>1. start \in 1..(Len(t) + 1) /\ end \in (start - 1)..Len(t) /\ end - start + 1 = end - b
      BY <1>1, <1>2, <1>3
    <3>2. /\ data \in Seq(ControllerSetup.Rows) /\ Len(data) = end - start + 1
          /\ \A i \in 1..(end - start + 1) : data[i] = t[start + i - 1]
      BY <3>1, OmadaCut, ZenonT(40)
    <3>3. \A i \in 1..(end - b) : start + i - 1 = b + i
      BY <1>1, <1>3
    <3> HIDE DEF data
    <3> QED
      BY <3>1, <3>2, <3>3
  <2> HIDE DEF data
  <2>2. /\ more \in Seq(ControllerSetup.Rows) /\ Len(more) = Len(lines) + Len(data)
        /\ \A i \in 1..Len(lines) : more[i] = lines[i]
    BY <2>1, OmadaConcat, ZenonT(60)
  <2>3. ASSUME Len(lines) = b, \A i \in DOMAIN lines : lines[i] = t[i]
        PROVE  Len(more) = end /\ \A i \in DOMAIN more : more[i] = t[i]
    <3>1. Len(more) = end /\ DOMAIN more = 1..end
      <4>1. Len(more) = end
        BY <1>1, <2>1, <2>2, <2>3
      <4> HIDE DEF more
      <4> QED
        BY <2>2, <4>1
    <3>2. ASSUME NEW i \in 1..end PROVE more[i] = t[i]
      <4>1. CASE i <= b
        <5>1. i \in 1..Len(lines) /\ i \in DOMAIN lines
          BY <1>1, <2>3, <3>2, <4>1
        <5> HIDE DEF more
        <5> QED
          BY <2>2, <2>3, <5>1
      <4>2. CASE i > b
        <5>1. i - b \in 1..(end - b) /\ b + (i - b) = i
          BY <1>1, <3>2, <4>2
        <5>2. data[i - b] = t[i]
          BY <2>1, <5>1
        <5>3. more[i] = data[i - b]
          BY <1>1, <2>1, <2>3, <3>2, <4>2, OmadaConcat
        <5> QED
          BY <5>2, <5>3
      <4>3. i \in Int /\ b \in Int
        BY <1>1
      <4> HIDE DEF more
      <4> QED
        BY <4>1, <4>2, <4>3
    <3> QED
      BY <3>1, <3>2
  <2> HIDE DEF more
  <2>4. Len(data) \in Nat /\ (Len(data) < size => end = Len(t)) /\ (Len(data) >= size => end = b + size)
    <3>1. PICK m \in Int : m = end - b /\ m = Len(data)
      BY <1>1, <2>1
    <3> QED
      BY <1>1, <1>2, <1>3, <3>1
  <2>6. OmadaReads(lines, data, t, b, size, end)
    BY <1>1, <2>2, <2>3, <2>4 DEF OmadaReads, more
  <2> QED
    BY <2>6 DEF data
<1>4. CASE b > Len(t)
  <2>1. end = Len(t)
    BY <1>1, <1>4
  <2>2. data = <<>>
    BY <1>4, <2>1
  <2> HIDE DEF data
  <2>3. data \in Seq(ControllerSetup.Rows) /\ Len(data) = 0
    BY <2>2
  <2>4. more \in Seq(ControllerSetup.Rows)
    BY <2>3
  <2>5. ~ (b <= Len(t))
    BY <1>1, <1>4
  <2> HIDE DEF more
  <2>6. OmadaReads(lines, data, t, b, size, end)
    BY <2>3, <2>4, <2>5 DEF OmadaReads, more
  <2> QED
    BY <2>6 DEF data
<1> QED
  <2>1. b <= Len(t) \/ b > Len(t)
    BY <1>1
  <2> HIDE DEF more, data
  <2> QED
    BY <2>1, <1>3, <1>4

LEMMA OmadaFetchPage ==
  ASSUME O!ConstantsAssumption, OmadaInv, NEW c \in ControllerSetup.Calls, O!FetchPage(c) PROVE OmadaInv'
<1>1. /\ oCall[c] \in OmadaRecords /\ OmadaTables /\ oCall[c].stage = "start" /\ ask[c].kind \in O!Lists
      /\ UNCHANGED <<ask, O!rules, O!groups, table, O!sites>>
  BY OmadaParts DEF OmadaInv, O!FetchPage, O!At
<1>2. CASE O!Refused(c)
  BY <1>1, <1>2, OmadaRefuses DEF O!Refused
<1>3. CASE O!fetch_all(c) /\ oFuel' = oFuel
  <2> DEFINE k == oCall[c]
  <2>1. k \in OmadaRecords
    BY <1>1
  <2>2. /\ k.page \in 1..ControllerSetup.MaxPages /\ ControllerSetup.MaxPages \in Nat \ {0} /\ ControllerSetup.PageSize \in Nat \ {0}
        /\ k.rows \in Seq(ControllerSetup.Rows) /\ table \in Seq(ControllerSetup.Rows) /\ k.stage = "start"
    BY <1>1, <2>1 DEF OmadaRecords, O!ConstantsAssumption, OmadaTables, OmadaTable
  <2>3. PICK b \in Nat : b = (k.page - 1) * ControllerSetup.PageSize
    BY <2>2, SMTT(30)
  <2>4. k.page * ControllerSetup.PageSize = b + ControllerSetup.PageSize
    BY <2>2, <2>3
  <2> DEFINE total == Len(table)
             head == (k.page - 1) * ControllerSetup.PageSize + 1
             stop == IF k.page * ControllerSetup.PageSize < total THEN k.page * ControllerSetup.PageSize ELSE total
             data == SubSeq(table, head, stop)
             more == k.rows \o data
             full == [k EXCEPT !.rows = more, !.page = @ + 1]
             left(shown) == {table[i] : i \in O!Matched(c, table)} \ {more[i] : i \in shown}
             fine(answer) ==
               [k EXCEPT !.stage = "end", !.result = "done", !.rows = more,
                         !.truncated = answer.truncated, !.scanCapped = answer.scanCapped,
                         !.missed = left(answer.out)]
             none == [k EXCEPT !.stage = "end", !.result = "not_found", !.rows = more,
                               !.missed = {table[i] : i \in O!Matched(c, table)}]
             ends == Len(data) < ControllerSetup.PageSize \/ Len(more) >= total \/ k.page = ControllerSetup.MaxPages
  <2>5. /\ ends => \/ \E answer \in O!Answers(c, more, total) : O!Set(c, fine(answer))
                   \/ O!Answers(c, more, total) = {} /\ O!Set(c, none)
        /\ ~ ends => O!Set(c, full)
    BY <1>3 DEF O!fetch_all
  <2>6. /\ more \in Seq(ControllerSetup.Rows)
        /\ Len(k.rows) = b /\ b <= total /\ (\A i \in DOMAIN k.rows : k.rows[i] = table[i]) =>
             /\ Len(more) = stop /\ stop \in 0..total
             /\ \A i \in DOMAIN more : more[i] = table[i]
             /\ Len(data) < ControllerSetup.PageSize => stop = total
             /\ Len(data) >= ControllerSetup.PageSize => stop = b + ControllerSetup.PageSize
        /\ Len(data) \in Nat
    <3>1. head = b + 1 /\ stop = IF b + ControllerSetup.PageSize < total THEN b + ControllerSetup.PageSize ELSE total
      BY <2>3, <2>4
    <3>2. total \in Nat /\ ControllerSetup.PageSize \in Nat
      BY <2>2
    <3> HIDE DEF head, stop, k, total
    <3>3. /\ stop \in 0..total /\ stop <= b + ControllerSetup.PageSize
          /\ stop < b + ControllerSetup.PageSize => stop = total
          /\ b <= total => stop >= b
      BY <3>1, <3>2
    <3>4. head \in Nat /\ k.rows \in Seq(ControllerSetup.Rows) /\ table \in Seq(ControllerSetup.Rows)
      BY <2>2, <3>1
    <3>5. /\ stop \in 0..Len(table)
          /\ stop < b + ControllerSetup.PageSize => stop = Len(table)
          /\ b <= Len(table) => stop >= b
      BY <3>3 DEF total
    <3>6. PICK t \in Seq(ControllerSetup.Rows) : t = table
      BY <3>4
    <3>7. PICK lines \in Seq(ControllerSetup.Rows) : lines = k.rows
      BY <3>4
    <3>8. PICK h \in Nat : h = head
      BY <3>4
    <3>9. PICK e \in 0..Len(t) : e = stop
      BY <3>5, <3>6
    <3> DEFINE d == SubSeq(t, h, e)
    <3>10. OmadaReads(lines, d, t, b, ControllerSetup.PageSize, e)
      <4>1. PICK size \in Nat \ {0} : size = ControllerSetup.PageSize
        BY <2>2
      <4>2. h = b + 1 /\ e <= b + size /\ (e < b + size => e = Len(t)) /\ (b <= Len(t) => e >= b)
        BY <3>1, <3>3, <3>5, <3>6, <3>8, <3>9, <4>1
      <4>3. OmadaReads(lines, d, t, b, size, e)
        BY <4>2, OmadaNextPage
      <4> QED
        BY <4>1, <4>3
    <3>11. data = d /\ more = lines \o d /\ total = Len(t)
      BY <3>6, <3>7, <3>8, <3>9 DEF total
    <3> HIDE DEF d
    <3> QED
      BY <3>6, <3>7, <3>9, <3>10, <3>11 DEF OmadaReads
  <2> HIDE DEF head, stop, data, more
  <2>7. /\ Len(k.rows) = b /\ b <= total /\ \A i \in DOMAIN k.rows : k.rows[i] = table[i]
        \/ ~ k.calm
    BY <1>1, <2>1, <2>3 DEF OmadaInv, OmadaShape, OmadaPrefix, k
  <2>8. k.result = "none" /\ k.named = ControllerSetup.Absent /\ ~ k.wrote
    BY <1>1, <2>1 DEF OmadaInv, OmadaShape, k
  <2>9. total \in Nat /\ Len(more) \in Nat /\ Len(data) \in Nat
    <3>1. Len(more) \in Nat /\ total \in Nat
      BY <2>2, <2>6
    <3> QED
      BY <2>6, <3>1
  <2>10. OmadaTables'
    BY <1>1, <1>3 DEF OmadaTables, OmadaRules, OmadaGroup, OmadaTable, OmadaSiteTypes,
                      O!rules, O!groups, O!sites
  <2>11. OmadaSites' /\ ask' = ask /\ table' = table
    BY <1>1, OmadaSame
  <2> HIDE DEF k
  <2>12. CASE ~ ends
    <3>1. /\ full \in OmadaRecords /\ full.stage = "start" /\ full.result = "none" /\ full.rows = more
          /\ full.named = ControllerSetup.Absent /\ ~ full.wrote /\ full.page = k.page + 1 /\ full.calm = k.calm
      <4>1. k.page + 1 \in 1..ControllerSetup.MaxPages
        BY <2>2, <2>12
      <4> QED
        BY <2>1, <2>2, <2>6, <2>8, <4>1 DEF OmadaRecords
    <3>2. O!Set(c, full)
      BY <2>5, <2>12
    <3>3. k.calm => Len(more) = b + ControllerSetup.PageSize /\ Len(more) <= total
                    /\ \A i \in DOMAIN more : more[i] = table[i]
      BY <2>6, <2>7, <2>9, <2>12, <2>2
    <3>4. (full.page - 1) * ControllerSetup.PageSize = b + ControllerSetup.PageSize
      BY <2>2, <2>4, <3>1
    <3> HIDE DEF full
    <3>5. PICK new \in OmadaRecords : new = full
      BY <3>1
    <3>6. OmadaShape(new, ask[c]) /\ OmadaTruth(new, ask[c])
      BY <3>1, <3>3, <3>4, <3>5 DEF OmadaShape, OmadaTruth, OmadaPrefix
    <3>7. O!Set(c, new)
      BY <3>2, <3>5
    <3> QED
      BY <2>10, <2>11, <3>6, <3>7, OmadaStep
  <2>13. ends /\ k.calm => (Len(more) = total /\ more = table) \/ (Len(more) < total /\ k.page = ControllerSetup.MaxPages)
    <3> SUFFICES ASSUME ends, k.calm
                 PROVE  (Len(more) = total /\ more = table) \/ (Len(more) < total /\ k.page = ControllerSetup.MaxPages)
      OBVIOUS
    <3>1. /\ Len(more) = stop /\ stop \in 0..total /\ \A i \in DOMAIN more : more[i] = table[i]
          /\ Len(data) < ControllerSetup.PageSize => stop = total
      BY <2>6, <2>7
    <3>2. Len(more) = total \/ (Len(more) < total /\ k.page = ControllerSetup.MaxPages)
      BY <2>9, <3>1
    <3>3. Len(more) = total => more = table
      BY <2>2, <2>6, <3>1, SMTT(30)
    <3> QED
      BY <3>2, <3>3
  <2> HIDE DEF ends
  <2>14. ASSUME ends, NEW answer \in O!Answers(c, more, total), O!Set(c, fine(answer)) PROVE OmadaInv'
    <3>1. /\ answer.out \subseteq O!Matched(c, more)
          /\ answer.truncated \in BOOLEAN /\ answer.scanCapped \in BOOLEAN
          /\ Len(more) = total /\ ~ answer.truncated => answer.out = O!Matched(c, more)
          /\ Len(more) < total =>
              \/ answer.truncated \/ answer.scanCapped
              \/ /\ ask[c].filtered => ask[c].kind # "list_client_events"
                 /\ ~ ask[c].filtered => ask[c].kind \in {"list_networks", "list_acls"}
      BY <1>1, <2>6, <2>9, OmadaAnswer DEF OmadaTables
    <3> DEFINE to == fine(answer)
               gone == left(answer.out)
    <3>2. gone \in SUBSET ControllerSetup.Rows
      <4>1. O!Matched(c, table) \subseteq DOMAIN table
        BY DEF O!Matched
      <4> QED
        BY <2>2, <4>1
    <3>3. more = table /\ answer.out = O!Matched(c, more) => gone = {}
      OBVIOUS
    <3>4. O!Set(c, to)
      BY <2>14
    <3> HIDE DEF gone
    <3>5. /\ to \in OmadaRecords /\ to.stage = "end" /\ to.result = "done" /\ to.named = ControllerSetup.Absent
          /\ to.wrote = k.wrote /\ to.truncated = answer.truncated
          /\ to.scanCapped = answer.scanCapped /\ to.missed = gone /\ to.calm = k.calm
          /\ to.page = k.page
      BY <2>1, <2>2, <2>6, <2>8, <3>1, <3>2 DEF OmadaRecords, gone
    <3> HIDE DEF to
    <3>6. PICK new \in OmadaRecords : new = to
      BY <3>5
    <3>7. new.calm => new.truncated \/ new.scanCapped \/ OmadaBound(new, ask[c]) \/ new.missed = {}
      BY <2>13, <2>14, <3>1, <3>3, <3>5, <3>6 DEF OmadaBound
    <3>8. OmadaShape(new, ask[c]) /\ OmadaTruth(new, ask[c])
      BY <1>1, <2>8, <3>5, <3>6, <3>7 DEF OmadaShape, OmadaTruth
    <3>9. O!Set(c, new)
      BY <3>4, <3>6
    <3> QED
      BY <2>10, <2>11, <3>8, <3>9, OmadaStep
  <2>15. CASE ends /\ O!Answers(c, more, total) = {} /\ O!Set(c, none)
    <3>1. ask[c].kind = "get_device" /\ O!Matched(c, more) = {}
      BY <1>1, <2>15, OmadaNoAnswer
    <3>2. ask[c].filtered
      BY <1>1, <3>1, OmadaAsk DEF OmadaTables
    <3> DEFINE gone == {table[i] : i \in O!Matched(c, table)}
    <3>3. gone \in SUBSET ControllerSetup.Rows
      <4>1. O!Matched(c, table) \subseteq DOMAIN table
        BY DEF O!Matched
      <4> QED
        BY <2>2, <4>1
    <3>4. more = table => gone = {}
      BY <3>1
    <3> HIDE DEF gone
    <3>5. O!Set(c, none)
      BY <2>15
    <3>6. /\ none \in OmadaRecords /\ none.stage = "end" /\ none.result = "not_found"
          /\ none.named = ControllerSetup.Absent /\ none.wrote = k.wrote
          /\ none.missed = gone /\ none.calm = k.calm /\ none.page = k.page
      BY <2>1, <2>2, <2>6, <2>8, <3>3 DEF OmadaRecords, gone
    <3> HIDE DEF none
    <3>7. PICK new \in OmadaRecords : new = none
      BY <3>6
    <3>8. new.calm => OmadaBound(new, ask[c]) \/ new.missed = {}
      BY <2>13, <2>15, <3>1, <3>2, <3>4, <3>6, <3>7 DEF OmadaBound
    <3>9. OmadaShape(new, ask[c]) /\ OmadaTruth(new, ask[c])
      BY <1>1, <2>8, <3>6, <3>7, <3>8 DEF OmadaShape, OmadaTruth
    <3>10. O!Set(c, new)
      BY <3>5, <3>7
    <3> QED
      BY <2>10, <2>11, <3>9, <3>10, OmadaStep
  <2> QED
    BY <2>5, <2>12, <2>14, <2>15
<1> QED
  BY <1>2, <1>3 DEF O!FetchPage

-----------------------------------------------------------------------------
(* Sites and people.                                                       *)

LEMMA OmadaKnownSites ==
  ASSUME O!ConstantsAssumption, OmadaInv, NEW c \in ControllerSetup.Calls, O!KnownSites(c) PROVE OmadaInv'
<1>1. /\ oCall[c] \in OmadaRecords /\ OmadaTables /\ oCall[c].stage = "start" /\ ask[c].kind = "site"
      /\ UNCHANGED <<ask, O!rules, O!groups, table, visible>> /\ ask[c].site \in ControllerSetup.Sites
  BY OmadaParts, OmadaAsk DEF OmadaInv, O!KnownSites, O!At, OmadaTables, O!Asks
<1>2. /\ known' \in (SUBSET ControllerSetup.Sites) \cup {ControllerSetup.NoSites} /\ moved' \subseteq ControllerSetup.Sites
      /\ known' # ControllerSetup.NoSites => \A s \in ControllerSetup.Sites \ moved' : s \in known' <=> s \in visible
  <2>1. CASE /\ known' = (IF known # ControllerSetup.NoSites THEN known ELSE visible)
             /\ moved' = (IF known # ControllerSetup.NoSites THEN moved ELSE {})
    BY <1>1, <2>1 DEF OmadaInv, OmadaSites, OmadaTables, OmadaSiteTypes
  <2>2. CASE known = ControllerSetup.NoSites /\ UNCHANGED <<known, moved>>
    BY <1>1, <2>2 DEF OmadaTables, OmadaSiteTypes
  <2> QED
    BY <2>1, <2>2 DEF O!KnownSites
<1>3. OmadaTables' /\ OmadaSites'
  <2>1. oFuel' \in 0..ControllerSetup.Budget
    <3>1. O!Spend \/ oFuel' = oFuel
      BY DEF O!KnownSites
    <3> QED
      BY <3>1, OmadaSpend
  <2> QED
    BY <1>1, <1>2, <2>1 DEF OmadaTables, OmadaRules, OmadaGroup, OmadaTable, OmadaSiteTypes,
                            OmadaSites, O!rules, O!groups
<1> DEFINE calm == known' # ControllerSetup.NoSites /\ ask[c].site \notin moved'
           there == ask[c].site \in visible
           verdict == IF known' # ControllerSetup.NoSites /\ ask[c].site \in known'
                      THEN "permission_denied" ELSE "unknown_site"
           to == [oCall[c] EXCEPT !.stage = "end", !.calm = calm, !.seen = there, !.result = verdict]
<1>4. O!Set(c, to)
  BY DEF O!KnownSites, O!classify_omada_error
<1>5. /\ calm \in BOOLEAN /\ there \in BOOLEAN
      /\ verdict \in {"permission_denied", "unknown_site"}
      /\ calm => (verdict = "permission_denied" <=> there)
  BY <1>1, <1>2
<1> HIDE DEF calm, there, verdict
<1>6. /\ to \in OmadaRecords /\ to.stage = "end" /\ to.result = verdict /\ to.calm = calm
      /\ to.seen = there /\ to.named = oCall[c].named
  BY <1>1, <1>5, ZenonT(40) DEF OmadaRecords
<1> HIDE DEF to
<1>7. PICK new \in OmadaRecords : new = to
  BY <1>6
<1>8. oCall[c].named = ControllerSetup.Absent
  BY <1>1 DEF OmadaInv, OmadaShape
<1>9. /\ new.result \in {"permission_denied", "unknown_site"} /\ new.seen \in BOOLEAN
      /\ new.calm => (new.result = "permission_denied" <=> new.seen)
  BY <1>5, <1>6, <1>7
<1>10. new.calm => (new.result = "permission_denied") = new.seen
  BY <1>9
<1>11. OmadaShape(new, ask[c]) /\ OmadaTruth(new, ask[c])
  BY <1>1, <1>6, <1>7, <1>8, <1>9, <1>10 DEF OmadaShape, OmadaTruth, O!Lists
<1> QED
  BY <1>1, <1>3, <1>4, <1>7, <1>11, OmadaStep

\* No call and no row changes.
LEMMA OmadaAround ==
  ASSUME OmadaInv, OmadaTables', OmadaSites', UNCHANGED <<ask, table, oCall>>
  PROVE  OmadaInv'
<1>1. \A c \in ControllerSetup.Calls : OmadaShape(oCall[c], ask[c])' /\ OmadaTruth(oCall[c], ask[c])'
  BY DEF OmadaInv, OmadaShape, OmadaPrefix, OmadaTruth, OmadaBound
<1> QED
  BY <1>1, OmadaParts, OmadaPartsNext DEF OmadaInv

LEMMA OmadaExpire == ASSUME O!ConstantsAssumption, OmadaInv, O!Expire PROVE OmadaInv'
<1>1. OmadaTables
  BY OmadaParts DEF OmadaInv
<1> QED
  BY <1>1, OmadaAround DEF O!Expire, OmadaTables, OmadaRules, OmadaGroup, OmadaTable, OmadaSiteTypes,
                           OmadaSites, O!rules, O!groups

LEMMA OmadaSiteMoves ==
  ASSUME O!ConstantsAssumption, OmadaInv, NEW s \in ControllerSetup.Sites, O!SiteComesOrGoes(s) PROVE OmadaInv'
<1>1. OmadaTables /\ UNCHANGED <<ask, O!rules, O!groups, table, known, oCall>>
  BY OmadaParts DEF OmadaInv, O!SiteComesOrGoes
<1>2. OmadaSites' /\ OmadaSiteTypes'
  <2>1. visible' = (IF s \in visible THEN visible \ {s} ELSE visible \cup {s})
        /\ moved' = moved \cup {s} /\ known' = known
    BY DEF O!SiteComesOrGoes
  <2> QED
    BY <1>1, <2>1 DEF OmadaInv, OmadaSites, OmadaTables, OmadaSiteTypes
<1>3. oFuel' \in 0..ControllerSetup.Budget
  BY OmadaSpend DEF O!SiteComesOrGoes
<1> QED
  BY <1>1, <1>2, <1>3, OmadaAround DEF OmadaTables, OmadaRules, OmadaGroup, OmadaTable, O!rules, O!groups

LEMMA OmadaRulesByHand == ASSUME O!ConstantsAssumption, OmadaInv, O!RulesByHand PROVE OmadaInv'
<1>1. OmadaTables /\ UNCHANGED <<ask, O!groups, table, O!sites, oCall>>
  BY OmadaParts DEF OmadaInv, O!RulesByHand
<1>2. oFuel' \in 0..ControllerSetup.Budget
  BY OmadaSpend DEF O!RulesByHand
<1>3. OmadaRules
  BY <1>1 DEF OmadaTables
<1>4. OmadaRules'
  <2>1. ASSUME NEW i \in DOMAIN acl, NEW j \in DOMAIN acl, i < j,
               acl' = [acl EXCEPT ![i] = acl[j], ![j] = acl[i]], born' = born
        PROVE  OmadaRules'
    <3>1. i # j
      BY <1>3, <2>1 DEF OmadaRules
    <3>2. acl' \in Seq(ControllerSetup.Rules) /\ O!NoRepeat(acl') /\ O!Elems(acl') = O!Elems(acl)
      <4> DEFINE w == [acl EXCEPT ![i] = acl[j], ![j] = acl[i]]
      <4>1. w \in Seq(ControllerSetup.Rules) /\ O!NoRepeat(w) /\ O!Elems(w) = O!Elems(acl)
        BY <1>3, <3>1, OmadaSwap DEF OmadaRules
      <4>2. acl' = w
        BY <2>1
      <4> HIDE DEF w
      <4> QED
        BY <4>1, <4>2
    <3> QED
      BY <1>3, <2>1, <3>2 DEF OmadaRules
  <2>2. ASSUME NEW r \in ControllerSetup.Rules \ born, acl' = Append(acl, r), born' = born \cup {r}
        PROVE  OmadaRules'
    <3>1. acl' \in Seq(ControllerSetup.Rules) /\ O!NoRepeat(acl') /\ O!Elems(acl') = O!Elems(acl) \cup {r}
      BY <1>3, <2>2, OmadaAppend DEF OmadaRules
    <3> QED
      BY <1>3, <2>2, <3>1 DEF OmadaRules
  <2>3. ASSUME NEW k \in DOMAIN acl, acl' = O!Without(acl, k), born' = born PROVE OmadaRules'
    <3>1. acl' \in Seq(ControllerSetup.Rules) /\ O!NoRepeat(acl') /\ O!Elems(acl') = O!Elems(acl) \ {acl[k]}
      BY <1>3, <2>3, OmadaWithout DEF OmadaRules
    <3> QED
      BY <1>3, <2>3, <3>1 DEF OmadaRules
  <2> QED
    BY <2>1, <2>2, <2>3 DEF O!RulesByHand
<1> QED
  BY <1>1, <1>2, <1>4, OmadaAround, OmadaSame DEF OmadaTables, OmadaGroup, OmadaTable, O!groups

LEMMA OmadaGroupByHand == ASSUME O!ConstantsAssumption, OmadaInv, O!GroupByHand PROVE OmadaInv'
<1>1. OmadaTables /\ UNCHANGED <<ask, O!rules, table, O!sites, oCall>>
  BY OmadaParts DEF OmadaInv, O!GroupByHand
<1>2. oFuel' \in 0..ControllerSetup.Budget
  BY OmadaSpend DEF O!GroupByHand
<1>3. group \in O!Members /\ exists \in BOOLEAN
  BY <1>1 DEF OmadaTables, OmadaGroup
<1>4. OmadaGroup'
  <2>1. ASSUME NEW ip \in ControllerSetup.Ips, NEW note \in ControllerSetup.Notes \cup {ControllerSetup.Absent},
               group' = [group EXCEPT ![ip] = note], UNCHANGED exists
        PROVE  OmadaGroup'
    <3>1. group' \in O!Members
      BY <1>3, <2>1 DEF O!Members
    <3> QED
      BY <1>3, <2>1, <3>1 DEF OmadaGroup
  <2>2. CASE exists' = ~ exists /\ group' = [ip \in ControllerSetup.Ips |-> ControllerSetup.Absent]
    <3>1. group' \in O!Members
      BY <2>2 DEF O!Members
    <3>2. exists' \in BOOLEAN
      BY <1>3, <2>2
    <3> QED
      BY <3>1, <3>2 DEF OmadaGroup
  <2> QED
    BY <2>1, <2>2 DEF O!GroupByHand
<1> QED
  BY <1>1, <1>2, <1>4, OmadaAround, OmadaSame DEF OmadaTables, OmadaRules, OmadaTable, O!rules

\* A listing is disturbed only after its first page.
LEMMA OmadaTableChanges == ASSUME O!ConstantsAssumption, OmadaInv, O!TableChanges PROVE OmadaInv'
<1>1. /\ OmadaTables /\ UNCHANGED <<ask, O!rules, O!groups, O!sites>> /\ oCall \in [ControllerSetup.Calls -> OmadaRecords]
  BY OmadaParts DEF OmadaInv, O!TableChanges
<1>2. oFuel' \in 0..ControllerSetup.Budget
  BY OmadaSpend DEF O!TableChanges
<1>3. table \in Seq(ControllerSetup.Rows) /\ O!NoRepeat(table)
  BY <1>1 DEF OmadaTables, OmadaTable
<1>4. OmadaTable'
  <2>1. ASSUME NEW line \in ControllerSetup.Rows \ O!Elems(table), NEW k \in 1..(Len(table) + 1),
               table' = O!Insert(table, k, line)
        PROVE  OmadaTable'
    BY <1>3, <2>1, OmadaInsert DEF OmadaTable
  <2>2. ASSUME NEW k \in DOMAIN table, table' = O!Without(table, k) PROVE OmadaTable'
    BY <1>3, <2>2, OmadaWithout DEF OmadaTable
  <2> QED
    BY <2>1, <2>2 DEF O!TableChanges
<1>5. OmadaTables'
  BY <1>1, <1>2, <1>4, OmadaSame DEF OmadaTables, OmadaRules, OmadaGroup, O!rules, O!groups
<1>6. ASSUME NEW c \in ControllerSetup.Calls
      PROVE  oCall'[c] \in OmadaRecords /\ OmadaShape(oCall[c], ask[c])' /\ OmadaTruth(oCall[c], ask[c])'
  <2>1. oCall[c] \in OmadaRecords /\ OmadaShape(oCall[c], ask[c]) /\ OmadaTruth(oCall[c], ask[c])
    BY <1>1 DEF OmadaInv
  <2>2. CASE oCall[c].stage = "start" /\ oCall[c].page > 1
    <3> DEFINE to == [oCall[c] EXCEPT !.calm = FALSE]
    <3>1. oCall'[c] = to
      BY <2>2 DEF O!TableChanges
    <3>2. /\ to \in OmadaRecords /\ to.stage = "start" /\ ~ to.calm /\ to.result = oCall[c].result
          /\ to.named = oCall[c].named /\ to.wrote = oCall[c].wrote
      BY <2>1, <2>2 DEF OmadaRecords
    <3> HIDE DEF to
    <3>3. ~ oCall[c].wrote /\ oCall[c].result = "none" /\ oCall[c].named = ControllerSetup.Absent
      BY <2>1, <2>2 DEF OmadaShape
    <3> QED
      BY <3>1, <3>2, <3>3 DEF OmadaShape, OmadaTruth
  <2>3. CASE ~ (oCall[c].stage = "start" /\ oCall[c].page > 1)
    <3>1. oCall'[c] = oCall[c]
      BY <2>3 DEF O!TableChanges
    <3>2. ask' = ask
      BY <1>1
    <3>3. OmadaTruth(oCall[c], ask[c])'
      BY <2>1, <3>1, <3>2 DEF OmadaTruth, OmadaBound
    <3>4. CASE oCall[c].stage = "start" /\ oCall[c].page = 1
      <4>1. oCall[c].rows \in Seq(ControllerSetup.Rows) /\ ControllerSetup.PageSize \in Nat /\ table' \in Seq(ControllerSetup.Rows)
        BY <1>4, <2>1 DEF OmadaRecords, O!ConstantsAssumption, OmadaTable
      <4>2. (1 - 1) * ControllerSetup.PageSize = 0
        BY <4>1
      <4>3. ask[c].kind \in O!Lists /\ oCall[c].calm => Len(oCall[c].rows) = 0
        BY <2>1, <3>4, <4>2 DEF OmadaShape, OmadaPrefix
      <4>4. ask[c].kind \in O!Lists /\ oCall[c].calm => OmadaPrefix(oCall[c])'
        BY <3>1, <3>4, <4>1, <4>2, <4>3 DEF OmadaPrefix
      <4> QED
        BY <2>1, <3>1, <3>2, <3>3, <3>4, <4>4 DEF OmadaShape
    <3>5. CASE oCall[c].stage # "start"
      BY <2>1, <3>1, <3>2, <3>3, <3>5 DEF OmadaShape
    <3>6. oCall[c].page \in 1..ControllerSetup.MaxPages /\ ControllerSetup.MaxPages \in Nat
      BY <2>1 DEF OmadaRecords, O!ConstantsAssumption
    <3> QED
      BY <2>3, <3>4, <3>5, <3>6
  <2> QED
    BY <2>2, <2>3
<1>7. oCall' \in [ControllerSetup.Calls -> OmadaRecords]
  <2>1. oCall' = [c \in ControllerSetup.Calls |-> oCall'[c]]
    BY DEF O!TableChanges
  <2> QED
    BY <1>6, <2>1
<1> QED
  BY <1>1, <1>5, <1>6, <1>7, OmadaPartsNext, OmadaSame DEF OmadaInv

LEMMA OmadaKeeps == ASSUME O!ConstantsAssumption, OmadaInv, [O!Next]_(O!vars) PROVE OmadaInv'
<1>1. CASE O!Next
  <2>1. ASSUME NEW c \in ControllerSetup.Calls,
               \/ O!ListRules(c) \/ O!PostIndexes(c) \/ O!PostRule(c) \/ O!EnrichCreate(c)
               \/ O!FindGroup(c) \/ O!PatchGroup(c) \/ O!RereadGroup(c)
               \/ O!FetchPage(c) \/ O!KnownSites(c)
        PROVE  OmadaInv'
    BY <2>1, OmadaListRules, OmadaPostIndexes, OmadaPostRule, OmadaEnrichCreate, OmadaFindGroup,
       OmadaPatchGroup, OmadaRereadGroup, OmadaFetchPage, OmadaKnownSites
  <2>2. ASSUME O!RulesByHand \/ O!GroupByHand \/ O!TableChanges \/ O!Expire PROVE OmadaInv'
    BY <2>2, OmadaRulesByHand, OmadaGroupByHand, OmadaTableChanges, OmadaExpire
  <2>3. ASSUME NEW s \in ControllerSetup.Sites, O!SiteComesOrGoes(s) PROVE OmadaInv'
    BY <2>3, OmadaSiteMoves
  <2> QED
    BY <1>1, <2>1, <2>2, <2>3 DEF O!Next
<1>2. CASE UNCHANGED O!vars
  <2>1. OmadaTables /\ UNCHANGED <<ask, O!rules, O!groups, table, O!sites, oCall, oFuel>>
    BY <1>2, OmadaParts DEF OmadaInv, O!vars
  <2>2. OmadaTables'
    BY <2>1 DEF OmadaTables, OmadaRules, OmadaGroup, OmadaTable, OmadaSiteTypes, O!rules, O!groups, O!sites
  <2> QED
    BY <2>1, <2>2, OmadaSame, OmadaAround
<1> QED
  BY <1>1, <1>2

LEMMA OmadaReports == ASSUME OmadaInv PROVE O!ReportsTruth
<1>1. \A c \in ControllerSetup.Calls : OmadaTruth(oCall[c], ask[c]) /\ (OmadaBound(oCall[c], ask[c]) <=> O!AtBound(c))
  BY DEF OmadaInv, OmadaBound, O!AtBound
<1> QED
  BY <1>1 DEF OmadaTruth, O!ReportsTruth

\* A reorder that wrote has moved its rule, and no other.
LEMMA OmadaSparesRules ==
  ASSUME O!ConstantsAssumption, OmadaInv, NEW c \in ControllerSetup.Calls, O!PostIndexes(c), oCall'[c].wrote
  PROVE  /\ O!Elems(acl') = O!Elems(acl)
         /\ \E i \in 1..(Len(acl') - 1) : acl'[i] = ask[c].rule /\ acl'[i + 1] = ask[c].before
         /\ \A x, y \in O!Elems(acl) \ {ask[c].rule} :
              O!Precedes(acl', x, y) <=> O!Precedes(oCall[c].order, x, y)
<1>1. /\ oCall[c] \in OmadaRecords /\ ask \in ControllerSetup.Scenarios /\ oCall \in [ControllerSetup.Calls -> OmadaRecords]
      /\ oCall[c].stage = "write" /\ ask[c].kind = "reorder"
  BY OmadaParts DEF OmadaInv, O!PostIndexes, O!At, OmadaTables
<1> DEFINE order == oCall[c].order
           w == O!Moved(order, ask[c].rule, ask[c].before)
<1>2. acl' = w /\ O!Elems(w) = O!Elems(acl)
  <2>1. ~ O!End(c, "refused")
    <3>1. ~ oCall[c].wrote
      BY <1>1 DEF OmadaInv, OmadaShape
    <3>2. O!End(c, "refused") => ~ oCall'[c].wrote
      BY <1>1, <3>1 DEF O!End, O!Set, OmadaRecords
    <3> QED
      BY <3>2
  <2> QED
    BY <2>1 DEF O!PostIndexes, O!Refused
<1>3. /\ O!NoRepeat(order) /\ ask[c].rule \in O!Elems(order)
      /\ ask[c].before \in O!Elems(order) /\ order \in Seq(ControllerSetup.Rules)
  BY <1>1 DEF OmadaInv, OmadaShape, OmadaRecords
<1>4. ask[c].rule # ask[c].before
  BY <1>1, OmadaAsk
<1> HIDE DEF order
<1>5. /\ O!Elems(w) = O!Elems(order)
      /\ \E i \in 1..(Len(w) - 1) : w[i] = ask[c].rule /\ w[i + 1] = ask[c].before
      /\ \A x, y \in O!Elems(order) \ {ask[c].rule} : O!Precedes(w, x, y) <=> O!Precedes(order, x, y)
  <2>1. PICK s \in Seq(ControllerSetup.Rules) : s = order
    BY <1>3
  <2>2. PICK that \in O!Elems(s) : that = ask[c].rule
    BY <1>3, <2>1
  <2>3. PICK spot \in O!Elems(s) : spot = ask[c].before
    BY <1>3, <2>1
  <2>4. O!NoRepeat(s) /\ that # spot
    BY <1>3, <1>4, <2>1, <2>2, <2>3
  <2>5. OmadaShift(O!Moved(s, that, spot), s, that, spot)
    BY <2>4, OmadaMoved
  <2>6. w = O!Moved(s, that, spot)
    BY <2>1, <2>2, <2>3
  <2> HIDE DEF w
  <2>7. OmadaShift(w, order, ask[c].rule, ask[c].before)
    BY <2>1, <2>2, <2>3, <2>5, <2>6
  <2> QED
    BY <2>7 DEF OmadaShift
<1> HIDE DEF w
<1>6. \A x, y \in O!Elems(acl) \ {ask[c].rule} : O!Precedes(w, x, y) <=> O!Precedes(order, x, y)
  BY <1>2, <1>5
<1> QED
  BY <1>2, <1>5, <1>6 DEF order

\* An update of a group writes what it read of the members it was not asked about.
LEMMA OmadaSparesMembers ==
  ASSUME O!ConstantsAssumption, OmadaInv, NEW c \in ControllerSetup.Calls, O!PatchGroup(c), oCall'[c].wrote, NEW ip \in ControllerSetup.Ips
  PROVE  \/ group'[ip] = oCall[c].read[ip]
         \/ ip \in ask[c].members /\
              (group'[ip] = ControllerSetup.Absent <=> ask[c].kind = "remove") /\
              (ask[c].note = ControllerSetup.Absent => oCall[c].read[ip] = ControllerSetup.Absent \/ group'[ip] = ControllerSetup.Absent)
<1>1. /\ oCall[c] \in OmadaRecords /\ oCall \in [ControllerSetup.Calls -> OmadaRecords]
      /\ oCall[c].stage = "write" /\ ask[c].kind \in {"add", "remove"} /\ ControllerSetup.Absent # ControllerSetup.Blank
  BY OmadaParts DEF OmadaInv, O!PatchGroup, O!At, O!ConstantsAssumption
<1>2. group' = O!Merged(c)
  <2>1. ~ O!End(c, "refused")
    <3>1. ~ oCall[c].wrote
      BY <1>1 DEF OmadaInv, OmadaShape
    <3>2. O!End(c, "refused") => ~ oCall'[c].wrote
      BY <1>1, <3>1 DEF O!End, O!Set, OmadaRecords
    <3> QED
      BY <3>2
  <2> QED
    BY <2>1 DEF O!PatchGroup, O!Refused
<1>3. group'[ip] =
        IF ip \notin ask[c].members THEN oCall[c].read[ip]
        ELSE IF ask[c].kind = "remove" THEN ControllerSetup.Absent
        ELSE IF ask[c].note # ControllerSetup.Absent THEN ask[c].note
        ELSE IF oCall[c].read[ip] # ControllerSetup.Absent THEN oCall[c].read[ip] ELSE ControllerSetup.Blank
  BY <1>2 DEF O!Merged
<1> QED
  BY <1>1, <1>3

-----------------------------------------------------------------------------
(* The tools agents see.                                                   *)

ToolPending == {"seed", "drop", "take"}
ToolListing == {"next", "read", "add", "record", "own", "ownRead", "ownAdd"}

ToolKinds == [there : BOOLEAN, on : BOOLEAN, mode : T!Modes]
ToolRows == [id : 0..ToolSetup.MaxId, on : BOOLEAN, seeded : BOOLEAN, chosen : BOOLEAN, hand : BOOLEAN]
ToolOps ==
  [pc : {"idle", "rebind", "list"} \cup ToolPending \cup ToolListing,
   i : SUBSET ToolSetup.Integrations,
   seen : {<<>>} \cup [ToolSetup.Names -> 0..ToolSetup.MaxId] \cup [ToolSetup.Integrations -> ToolKinds],
   todo : (SUBSET ToolSetup.Names) \cup (SUBSET ToolSetup.Integrations),
   expected : SUBSET ToolSetup.Names, tools : SUBSET ToolSetup.Names]

ToolTables ==
  /\ integ \in [ToolSetup.Integrations -> ToolKinds] /\ catalogue \in [ToolSetup.Integrations -> ToolSetup.Catalogues]
  /\ tRow \in [T!Tools -> ToolRows] /\ lastId \in 0..ToolSetup.MaxId
ToolSurfaces ==
  /\ shared \subseteq T!Tools /\ names \subseteq T!Tools
  /\ own \in [ToolSetup.Integrations -> [there : BOOLEAN, tools : SUBSET ToolSetup.Names]]
  /\ tangled \in BOOLEAN /\ tFuel \in 0..ToolSetup.Budget

\* A row shows the operator's choice; one that a seeding has met is not made by hand.
ToolRow(t) ==
  /\ tRow[t].id <= lastId /\ tRow[t].on = tRow[t].chosen
  /\ tRow[t].seeded => ~ tRow[t].hand
  /\ tRow[t].hand => tRow[t].id # 0

\* What becomes of a row in one step: it is deleted, new, or no more made by hand than
\* it was.
ToolRowStep(t) ==
  \/ tRow'[t].id = 0
  \/ tRow'[t].id > lastId
  \/ tRow'[t].id = tRow[t].id /\ (tRow'[t].hand => tRow[t].hand)

\* A row that a seeding is about to delete is gone or was not made by hand.
ToolShape(k) ==
  /\ k.pc \in {"seed", "drop"} =>
       /\ \E x \in ToolSetup.Integrations : k.i = {x}
       /\ k.seen \in [ToolSetup.Names -> 0..ToolSetup.MaxId] /\ k.todo \subseteq ToolSetup.Names
  /\ k.pc = "drop" =>
       \A x \in k.i, n \in k.todo :
         /\ k.seen[n] \in 1..lastId
         /\ tRow[<<x, n>>].id = k.seen[n] => ~ tRow[<<x, n>>].hand
  /\ k.pc \in ToolListing => k.seen \in [ToolSetup.Integrations -> ToolKinds] /\ k.todo \subseteq ToolSetup.Integrations
  /\ k.pc \in ToolListing \ {"next"} => \E x \in ToolSetup.Integrations : k.i = {x}

\* What is forgotten when a refresh takes the last one's names off the shared surface:
\* nothing, as long as refreshes do not overlap.
ToolKnown(k) ==
  /\ k.pc = "rebind" => shared = {}
  /\ k.pc = "list" => shared = {} /\ names = {}
  /\ k.pc \in ToolListing \ {"record"} => shared = names
  /\ k.pc = "record" => shared = names \cup (k.i \X k.tools)

ToolOwn(S) ==
  \A x \in ToolSetup.Integrations \ S : own[x].there /\ T!Active(x) => own[x].tools = T!Enabled(x)
ToolShared(S) == shared = {t \in T!Served : t[1] \notin S}

\* How far a refresh k has got, if no request has changed the tables since it listed the
\* integrations.
ToolStage(k) ==
  k.pc \in ToolListing =>
    /\ k.seen = integ /\ \A x \in k.todo : T!Active(x)
    /\ ToolShared(k.todo \cup (IF k.pc \in {"read", "add"} THEN k.i ELSE {}))
    /\ ToolOwn(k.todo \cup (IF k.pc = "next" THEN {} ELSE k.i))
    /\ k.pc \in {"read", "add", "record"} =>
         \A x \in k.i : T!Active(x) /\ integ[x].mode # "standalone" /\ x \notin k.todo
    /\ k.pc \in {"own", "ownRead", "ownAdd"} => k.i \cap k.todo = {}
    /\ k.pc \in {"add", "record", "ownAdd"} => \A x \in k.i : k.tools = T!Enabled(x)
    /\ k.pc \in {"ownRead", "ownAdd"} => \A x \in k.i : own[x].tools = {}

ToolFollows == ToolShared({}) /\ ToolOwn({})

ToolQuiet == \A h \in ToolSetup.Handlers : tOp[h].pc \notin ToolPending
ToolSync ==
  /\ \A g, h \in ToolSetup.Handlers : tOp[g].pc \in T!Refreshing /\ tOp[h].pc \in T!Refreshing => g = h
  /\ \A h \in ToolSetup.Handlers : tOp[h].pc \in T!Refreshing => ToolKnown(tOp[h])
  /\ (\A h \in ToolSetup.Handlers : tOp[h].pc \notin T!Refreshing) => shared = names
  /\ ToolQuiet => \A h \in ToolSetup.Handlers : tOp[h].pc \in T!Refreshing => ToolStage(tOp[h])
  /\ (\A h \in ToolSetup.Handlers : tOp[h].pc = "idle") => ToolFollows

ToolRight ==
  /\ ToolTables /\ ToolSurfaces /\ tOp \in [ToolSetup.Handlers -> ToolOps] /\ lost = FALSE
  /\ \A t \in T!Tools : ToolRow(t)
  /\ \A h \in ToolSetup.Handlers : ToolShape(tOp[h])

ToolInv == ToolRight /\ (tangled \/ ToolSync)

LEMMA ToolIdle ==
  ASSUME T!ConstantsAssumption
  PROVE
  /\ T!Idle \in ToolOps /\ T!Idle.pc = "idle" /\ ToolShape(T!Idle) /\ ToolShape(T!Idle)'
  /\ [T!Idle EXCEPT !.pc = "take"] \in ToolOps /\ [T!Idle EXCEPT !.pc = "take"].pc = "take"
  /\ ToolShape([T!Idle EXCEPT !.pc = "take"])'
  /\ T!NoRow \in ToolRows /\ T!NoRow.id = 0 /\ ~ T!NoRow.hand /\ ~ T!NoRow.seeded /\ ~ T!NoRow.on
  /\ ~ T!NoRow.chosen
<1>1. /\ T!Idle \in ToolOps /\ T!Idle.pc = "idle"
      /\ [T!Idle EXCEPT !.pc = "take"] \in ToolOps /\ [T!Idle EXCEPT !.pc = "take"].pc = "take"
  BY DEF T!Idle, ToolOps, ToolPending, ToolListing
<1>2. ToolShape(T!Idle) /\ ToolShape(T!Idle)' /\ ToolShape([T!Idle EXCEPT !.pc = "take"])'
  BY <1>1 DEF ToolShape, ToolListing
<1>3. /\ T!NoRow \in ToolRows /\ T!NoRow.id = 0 /\ ~ T!NoRow.hand /\ ~ T!NoRow.seeded /\ ~ T!NoRow.on
      /\ ~ T!NoRow.chosen
  BY DEF T!NoRow, ToolRows, T!ConstantsAssumption
<1> QED
  BY <1>1, <1>2, <1>3

LEMMA ToolStages ==
  /\ T!Refreshing \cap ToolPending = {} /\ T!Refreshing = {"rebind", "list"} \cup ToolListing
  /\ "idle" \notin T!Refreshing \cup ToolPending
  BY DEF T!Refreshing, ToolPending, ToolListing

LEMMA ToolInit == ASSUME T!ConstantsAssumption, T!Init PROVE ToolInv
<1>1. ToolTables /\ lost = FALSE
  <2>1. integ \in [ToolSetup.Integrations -> ToolKinds]
    BY DEF T!Init, ToolKinds, T!Modes
  <2> QED
    BY <2>1, ToolIdle DEF T!Init, ToolTables, T!ConstantsAssumption
<1>2. ToolSurfaces
  <2>1. T!NoSurface \in [there : BOOLEAN, tools : SUBSET ToolSetup.Names]
    BY DEF T!NoSurface
  <2>2. own = [i \in ToolSetup.Integrations |-> T!NoSurface] /\ tFuel = ToolSetup.Budget /\ ToolSetup.Budget \in Nat
    BY DEF T!Init, T!ConstantsAssumption
  <2>3. own \in [ToolSetup.Integrations -> [there : BOOLEAN, tools : SUBSET ToolSetup.Names]] /\ tFuel \in 0..ToolSetup.Budget
    BY <2>1, <2>2
  <2> QED
    BY <2>3 DEF T!Init, ToolSurfaces
<1>3. tOp \in [ToolSetup.Handlers -> ToolOps] /\ \A h \in ToolSetup.Handlers : tOp[h] = T!Idle /\ tOp[h].pc = "idle"
  BY ToolIdle DEF T!Init
<1>4. \A t \in T!Tools : ToolRow(t) /\ tRow[t].id = 0
  <2>1. \A t \in T!Tools : tRow[t] = T!NoRow
    BY DEF T!Init
  <2>2. T!NoRow.on = T!NoRow.chosen /\ T!NoRow.id = 0 /\ ~ T!NoRow.hand
    BY DEF T!NoRow
  <2>3. lastId = 0
    BY DEF T!Init
  <2> QED
    BY <2>1, <2>2, <2>3 DEF ToolRow
<1>5. ToolRight
  BY <1>1, <1>2, <1>3, <1>4, ToolIdle DEF ToolRight
<1>6. ToolFollows
  <2>1. \A x \in ToolSetup.Integrations : T!Enabled(x) = {}
    BY <1>4 DEF T!Enabled, T!Tools
  <2>2. T!Served = {}
    BY <2>1 DEF T!Served, T!Tools
  <2>3. \A x \in ToolSetup.Integrations : ~ own[x].there
    BY DEF T!Init, T!NoSurface
  <2> QED
    BY <2>2, <2>3 DEF T!Init, ToolFollows, ToolShared, ToolOwn
<1>7. ToolSync
  BY <1>3, <1>6, ToolStages DEF T!Init, ToolSync
<1> QED
  BY <1>5, <1>7 DEF ToolInv

-----------------------------------------------------------------------------
(* Rows and requests.                                                      *)

\* A step of h towards new that changes rows as rows may change.
LEMMA ToolMoves ==
  ASSUME ToolRight, NEW h \in ToolSetup.Handlers, NEW new \in ToolOps,
         tOp' \in [ToolSetup.Handlers -> ToolOps], tOp'[h] = new,
         \A g \in ToolSetup.Handlers \ {h} : tOp'[g] = tOp[g] \/ tOp'[g].pc = "take",
         ToolTables', ToolSurfaces', lost' = FALSE, lastId <= lastId',
         \A t \in T!Tools : ToolRow(t)' /\ ToolRowStep(t),
         ToolShape(new)'
  PROVE  ToolRight'
<1>1. /\ tOp \in [ToolSetup.Handlers -> ToolOps] /\ \A g \in ToolSetup.Handlers : ToolShape(tOp[g])
      /\ lastId \in Nat /\ lastId' \in Nat
  BY DEF ToolRight, ToolTables
<1>2. ASSUME NEW g \in ToolSetup.Handlers PROVE ToolShape(tOp[g])'
  <2>1. CASE g = h
    BY <2>1 DEF ToolShape
  <2>2. CASE tOp'[g] = tOp[g]
    <3>1. ASSUME tOp[g].pc = "drop", NEW x \in tOp[g].i, NEW n \in tOp[g].todo
          PROVE  /\ tOp[g].seen[n] \in 1..lastId'
                 /\ tRow'[<<x, n>>].id = tOp[g].seen[n] => ~ tRow'[<<x, n>>].hand
      <4>1. /\ tOp[g].seen[n] \in 1..lastId /\ x \in ToolSetup.Integrations /\ n \in ToolSetup.Names
            /\ tRow[<<x, n>>].id = tOp[g].seen[n] => ~ tRow[<<x, n>>].hand
        BY <1>1, <3>1 DEF ToolShape
      <4>2. tOp[g].seen[n] \in 1..lastId'
        BY <1>1, <4>1
      <4>3. <<x, n>> \in T!Tools
        BY <4>1 DEF T!Tools
      <4>4. ToolRowStep(<<x, n>>)
        BY <4>3
      <4>5. tRow'[<<x, n>>].id \in Nat
        BY <4>3 DEF ToolTables, ToolRows
      <4>6. tRow'[<<x, n>>].id = tOp[g].seen[n] => ~ tRow'[<<x, n>>].hand
        BY <1>1, <4>1, <4>4, <4>5 DEF ToolRowStep
      <4> QED
        BY <4>2, <4>6
    <3> QED
      BY <1>1, <2>2, <3>1 DEF ToolShape
  <2>3. CASE tOp'[g].pc = "take"
    BY <2>3 DEF ToolShape, ToolListing
  <2> QED
    BY <2>1, <2>2, <2>3
<1> QED
  BY <1>2 DEF ToolRight

\* A step that leaves the tables alone.
LEMMA ToolTurns ==
  ASSUME ToolRight, NEW h \in ToolSetup.Handlers, NEW new \in ToolOps, T!Set(h, new), UNCHANGED T!tables,
         ToolSurfaces', lost' = FALSE, ToolShape(new)
  PROVE  ToolRight'
<1>1. /\ tOp' \in [ToolSetup.Handlers -> ToolOps] /\ tOp'[h] = new
      /\ \A g \in ToolSetup.Handlers \ {h} : tOp'[g] = tOp[g]
  BY DEF ToolRight, T!Set
<1>2. ToolTables' /\ lastId <= lastId' /\ \A t \in T!Tools : ToolRow(t)' /\ ToolRowStep(t)
  BY DEF ToolRight, ToolTables, ToolRow, ToolRowStep, T!tables
<1>3. ToolShape(new)'
  BY DEF ToolShape, T!tables
<1> QED
  BY <1>1, <1>2, <1>3, ToolMoves

\* A step that leaves the surfaces alone, and a request that will refresh them.
LEMMA ToolPends ==
  ASSUME ToolInv, UNCHANGED T!surfaces, tangled' = tangled,
         \A g \in ToolSetup.Handlers :
           tOp[g].pc \in T!Refreshing \/ tOp'[g].pc \in T!Refreshing => tOp'[g] = tOp[g],
         \E g \in ToolSetup.Handlers : tOp'[g].pc \in ToolPending
  PROVE  tangled' \/ ToolSync'
<1>1. CASE tangled
  BY <1>1
<1>2. CASE ToolSync
  <2>1. ~ ToolQuiet' /\ ~ \A h \in ToolSetup.Handlers : tOp'[h].pc = "idle"
    BY ToolStages DEF ToolQuiet
  <2>2. \A g \in ToolSetup.Handlers : tOp'[g].pc \in T!Refreshing <=> tOp[g].pc \in T!Refreshing
    BY DEF ToolInv
  <2>3. \A g, h \in ToolSetup.Handlers : tOp'[g].pc \in T!Refreshing /\ tOp'[h].pc \in T!Refreshing => g = h
    BY <1>2, <2>2 DEF ToolSync
  <2>4. \A h \in ToolSetup.Handlers : tOp'[h].pc \in T!Refreshing => ToolKnown(tOp[h])'
    BY <1>2, <2>2 DEF ToolSync, ToolKnown, T!surfaces
  <2>5. (\A h \in ToolSetup.Handlers : tOp'[h].pc \notin T!Refreshing) => shared' = names'
    BY <1>2, <2>2 DEF ToolSync, T!surfaces
  <2> QED
    BY <2>1, <2>3, <2>4, <2>5 DEF ToolSync
<1> QED
  BY <1>1, <1>2 DEF ToolInv

\* A request that changed its rows and goes on to a refresh.
LEMMA ToolAsks ==
  ASSUME T!ConstantsAssumption, ToolInv, NEW h \in ToolSetup.Handlers, tOp[h].pc = "idle", T!Refresh(h), UNCHANGED <<T!surfaces, T!hist>>,
         ToolTables', tFuel' \in 0..ToolSetup.Budget, lastId <= lastId',
         \A t \in T!Tools : ToolRow(t)' /\ ToolRowStep(t)
  PROVE  ToolInv'
<1> DEFINE to == [T!Idle EXCEPT !.pc = "take"]
<1>1. ToolRight /\ tOp \in [ToolSetup.Handlers -> ToolOps] /\ tOp' = [tOp EXCEPT ![h] = to]
  BY DEF ToolInv, ToolRight, T!Refresh, T!Set
<1>2. to \in ToolOps /\ to.pc = "take" /\ ToolShape(to)'
  BY ToolIdle
<1> HIDE DEF to
<1>3. /\ tOp' \in [ToolSetup.Handlers -> ToolOps] /\ tOp'[h] = to
      /\ \A g \in ToolSetup.Handlers \ {h} : tOp'[g] = tOp[g]
  BY <1>1, <1>2
<1>4. ToolSurfaces' /\ lost' = FALSE
  BY <1>1 DEF ToolRight, ToolSurfaces, T!surfaces, T!hist
<1>5. PICK new \in ToolOps : new = to
  BY <1>2
<1>6. tOp'[h] = new /\ ToolShape(new)'
  BY <1>2, <1>3, <1>5 DEF ToolShape
<1>7. ToolRight'
  BY <1>1, <1>3, <1>4, <1>6, ToolMoves
<1>8. tangled' \/ ToolSync'
  <2>1. \A g \in ToolSetup.Handlers :
          tOp[g].pc \in T!Refreshing \/ tOp'[g].pc \in T!Refreshing => tOp'[g] = tOp[g]
    BY <1>2, <1>3, ToolStages DEF ToolPending
  <2>2. \E g \in ToolSetup.Handlers : tOp'[g].pc \in ToolPending
    BY <1>2, <1>3 DEF ToolPending
  <2> QED
    BY <2>1, <2>2, ToolPends DEF T!hist
<1> QED
  BY <1>7, <1>8 DEF ToolInv

LEMMA ToolKept ==
  ASSUME ToolRight, tRow' = tRow, lastId' = lastId, NEW t \in T!Tools
  PROVE  ToolRow(t)' /\ ToolRowStep(t)
  BY DEF ToolRight, ToolRow, ToolRowStep

LEMMA ToolSaves ==
  ASSUME T!ConstantsAssumption, ToolInv, NEW h \in ToolSetup.Handlers, NEW i \in ToolSetup.Integrations,
         T!SaveIntegration(h, i)
  PROVE  ToolInv'
<1>1. /\ ToolRight /\ ToolTables /\ tOp[h].pc = "idle" /\ T!Refresh(h)
      /\ UNCHANGED <<tRow, lastId, T!surfaces, T!hist>> /\ tFuel' = tFuel - 1 /\ tFuel > 0
      /\ tFuel \in 0..ToolSetup.Budget /\ ToolSetup.Budget \in Nat
  BY DEF T!SaveIntegration, T!Begin, T!Spend, ToolInv, ToolRight, ToolSurfaces, T!ConstantsAssumption
<1>2. tFuel' \in 0..ToolSetup.Budget /\ lastId <= lastId' /\ UNCHANGED <<T!surfaces, T!hist>>
  BY <1>1 DEF ToolTables, T!ConstantsAssumption
<1>3. integ' \in [ToolSetup.Integrations -> ToolKinds] /\ catalogue' \in [ToolSetup.Integrations -> ToolSetup.Catalogues]
  <2>1. PICK o \in BOOLEAN, m \in T!Modes, c \in ToolSetup.Catalogues :
          /\ integ' = [integ EXCEPT ![i] = [there |-> TRUE, on |-> o, mode |-> m]]
          /\ catalogue' = [catalogue EXCEPT ![i] = c]
    BY DEF T!SaveIntegration
  <2>2. [there |-> TRUE, on |-> o, mode |-> m] \in ToolKinds
    BY DEF ToolKinds
  <2>3. /\ integ \in [ToolSetup.Integrations -> ToolKinds]
        /\ catalogue \in [ToolSetup.Integrations -> ToolSetup.Catalogues]
    BY <1>1 DEF ToolTables
  <2>4. integ' \in [ToolSetup.Integrations -> ToolKinds]
    BY <2>1, <2>2, <2>3
  <2>5. catalogue' \in [ToolSetup.Integrations -> ToolSetup.Catalogues]
    BY <2>1, <2>3
  <2> QED
    BY <2>4, <2>5
<1>4. ToolTables'
  BY <1>1, <1>3 DEF ToolTables
<1>5. \A t \in T!Tools : ToolRow(t)' /\ ToolRowStep(t)
  BY <1>1, ToolKept
<1> QED
  BY <1>1, <1>2, <1>4, <1>5, ToolAsks

LEMMA ToolDeletes ==
  ASSUME T!ConstantsAssumption, ToolInv, NEW h \in ToolSetup.Handlers, NEW t \in T!Tools, T!DeleteTool(h, t)
  PROVE  ToolInv'
<1>1. /\ ToolRight /\ ToolTables /\ tOp[h].pc = "idle" /\ T!Refresh(h)
      /\ UNCHANGED <<integ, catalogue, lastId, T!surfaces, T!hist>> /\ tFuel' = tFuel - 1 /\ tFuel > 0
      /\ tFuel \in 0..ToolSetup.Budget /\ ToolSetup.Budget \in Nat /\ tRow' = [tRow EXCEPT ![t] = T!NoRow]
      /\ tRow \in [T!Tools -> ToolRows] /\ lastId \in Nat
  BY DEF T!DeleteTool, T!Begin, T!Spend, ToolInv, ToolRight, ToolSurfaces, ToolTables, T!ConstantsAssumption
<1>2. tFuel' \in 0..ToolSetup.Budget /\ lastId <= lastId' /\ UNCHANGED <<T!surfaces, T!hist>>
  BY <1>1
<1>3. /\ tRow' \in [T!Tools -> ToolRows] /\ tRow'[t] = T!NoRow
      /\ \A u \in T!Tools \ {t} : tRow'[u] = tRow[u]
  BY <1>1, ToolIdle
<1>4. ToolTables'
  BY <1>1, <1>3 DEF ToolTables
<1>5. ASSUME NEW u \in T!Tools PROVE ToolRow(u)' /\ ToolRowStep(u)
  <2>1. CASE u = t
    <3>1. T!NoRow.on = T!NoRow.chosen /\ T!NoRow.id = 0 /\ ~ T!NoRow.hand
      BY DEF T!NoRow
    <3> QED
      BY <1>1, <1>3, <2>1, <3>1 DEF ToolRow, ToolRowStep
  <2>2. CASE u # t
    BY <1>1, <1>3, <2>2 DEF ToolRight, ToolRow, ToolRowStep
  <2> QED
    BY <2>1, <2>2
<1> QED
  BY <1>1, <1>2, <1>4, <1>5, ToolAsks

\* A row with a new id.
LEMMA ToolNewRow ==
  ASSUME T!ConstantsAssumption, ToolRight, lastId < ToolSetup.MaxId, NEW b \in BOOLEAN, NEW t \in T!Tools,
         tRow' = [tRow EXCEPT ![t] = T!NewRow(b)], lastId' = lastId + 1
  PROVE  /\ tRow' \in [T!Tools -> ToolRows] /\ lastId' \in 0..ToolSetup.MaxId /\ lastId <= lastId'
         /\ \A u \in T!Tools : ToolRow(u)' /\ ToolRowStep(u)
<1>1. lastId \in Nat /\ ToolSetup.MaxId \in Nat /\ tRow \in [T!Tools -> ToolRows]
  BY DEF ToolRight, ToolTables, T!ConstantsAssumption
<1>2. lastId' \in 0..ToolSetup.MaxId /\ lastId <= lastId' /\ lastId' > lastId
  BY <1>1
<1>3. /\ T!NewRow(b) \in ToolRows /\ T!NewRow(b).id = lastId' /\ T!NewRow(b).on = T!NewRow(b).chosen
      /\ T!NewRow(b).seeded = b /\ T!NewRow(b).hand = ~ b
  BY <1>1, <1>2 DEF T!NewRow, ToolRows
<1>4. tRow' \in [T!Tools -> ToolRows] /\ tRow'[t] = T!NewRow(b) /\ \A u \in T!Tools \ {t} : tRow'[u] = tRow[u]
  BY <1>1, <1>3
<1>5. ASSUME NEW u \in T!Tools PROVE ToolRow(u)' /\ ToolRowStep(u)
  <2>1. CASE u = t
    <3>1. tRow'[u].id = lastId' /\ tRow'[u].on = tRow'[u].chosen /\ (tRow'[u].seeded => ~ tRow'[u].hand)
      BY <1>3, <1>4, <2>1
    <3>2. lastId' <= lastId' /\ lastId' # 0
      BY <1>1, <1>2
    <3> QED
      BY <1>2, <3>1, <3>2 DEF ToolRow, ToolRowStep
  <2>2. CASE u # t
    <3>1. tRow'[u] = tRow[u] /\ ToolRow(u) /\ tRow[u].id \in Nat
      BY <1>1, <1>4, <2>2 DEF ToolRight, ToolRows
    <3> QED
      BY <1>1, <1>2, <3>1 DEF ToolRow, ToolRowStep
  <2> QED
    BY <2>1, <2>2
<1> QED
  BY <1>2, <1>4, <1>5

LEMMA ToolCreates ==
  ASSUME T!ConstantsAssumption, ToolInv, NEW h \in ToolSetup.Handlers, NEW t \in T!Tools, T!CreateTool(h, t)
  PROVE  ToolInv'
<1>1. /\ ToolRight /\ ToolTables /\ tOp[h].pc = "idle" /\ T!Refresh(h)
      /\ UNCHANGED <<integ, catalogue, T!surfaces, T!hist>> /\ tFuel' = tFuel - 1 /\ tFuel > 0
      /\ tFuel \in 0..ToolSetup.Budget /\ ToolSetup.Budget \in Nat /\ tRow' = [tRow EXCEPT ![t] = T!NewRow(FALSE)]
      /\ lastId' = lastId + 1 /\ lastId < ToolSetup.MaxId
  BY DEF T!CreateTool, T!Begin, T!Spend, ToolInv, ToolRight, ToolSurfaces, T!ConstantsAssumption
<1>2. tFuel' \in 0..ToolSetup.Budget
  BY <1>1
<1>3. /\ tRow' \in [T!Tools -> ToolRows] /\ lastId' \in 0..ToolSetup.MaxId /\ lastId <= lastId'
      /\ \A u \in T!Tools : ToolRow(u)' /\ ToolRowStep(u)
  BY <1>1, ToolNewRow
<1>4. ToolTables' /\ UNCHANGED <<T!surfaces, T!hist>>
  BY <1>1, <1>3 DEF ToolTables
<1> QED
  BY <1>1, <1>2, <1>3, <1>4, ToolAsks

LEMMA ToolToggles ==
  ASSUME T!ConstantsAssumption, ToolInv, NEW h \in ToolSetup.Handlers, NEW i \in ToolSetup.Integrations, T!Toggle(h, i)
  PROVE  ToolInv'
<1>1. /\ ToolRight /\ ToolTables /\ tOp[h].pc = "idle" /\ T!Refresh(h)
      /\ UNCHANGED <<integ, catalogue, lastId, T!surfaces, T!hist>> /\ tFuel' = tFuel - 1 /\ tFuel > 0
      /\ tFuel \in 0..ToolSetup.Budget /\ ToolSetup.Budget \in Nat
      /\ tRow \in [T!Tools -> ToolRows] /\ lastId \in Nat
  <2>1. /\ tOp[h].pc = "idle" /\ T!Refresh(h) /\ tFuel' = tFuel - 1 /\ tFuel > 0
        /\ UNCHANGED <<integ, catalogue, lastId, T!surfaces, T!hist>>
    BY DEF T!Toggle, T!Begin, T!Spend
  <2>2. /\ ToolRight /\ ToolTables /\ tFuel \in 0..ToolSetup.Budget /\ ToolSetup.Budget \in Nat
        /\ tRow \in [T!Tools -> ToolRows] /\ lastId \in Nat
    BY DEF ToolInv, ToolRight, ToolSurfaces, ToolTables, T!ConstantsAssumption
  <2> QED
    BY <2>1, <2>2
<1>2. tFuel' \in 0..ToolSetup.Budget /\ lastId <= lastId' /\ UNCHANGED <<T!surfaces, T!hist>>
  BY <1>1
<1>3. PICK ns \in {{n} : n \in ToolSetup.Names} \cup {ToolSetup.Names}, o \in BOOLEAN :
        tRow' = [t \in T!Tools |-> IF t[1] = i /\ t[2] \in ns /\ tRow[t].id # 0
                                 THEN [tRow[t] EXCEPT !.on = o, !.chosen = o] ELSE tRow[t]]
  BY DEF T!Toggle
<1>4. \A t \in T!Tools :
        /\ [tRow[t] EXCEPT !.on = o, !.chosen = o] \in ToolRows
        /\ [tRow[t] EXCEPT !.on = o, !.chosen = o].on
              = [tRow[t] EXCEPT !.on = o, !.chosen = o].chosen
        /\ [tRow[t] EXCEPT !.on = o, !.chosen = o].id = tRow[t].id
        /\ [tRow[t] EXCEPT !.on = o, !.chosen = o].hand = tRow[t].hand
        /\ [tRow[t] EXCEPT !.on = o, !.chosen = o].seeded = tRow[t].seeded
  BY <1>1 DEF ToolRows
<1>5. tRow' \in [T!Tools -> ToolRows]
  BY <1>1, <1>3, <1>4
<1>6. \A t \in T!Tools :
        /\ tRow'[t].id = tRow[t].id /\ tRow'[t].hand = tRow[t].hand
        /\ tRow'[t].seeded = tRow[t].seeded
        /\ tRow'[t].on = tRow'[t].chosen
  BY <1>1, <1>3, <1>4 DEF ToolRight, ToolRow
<1>7. ToolTables'
  BY <1>1, <1>5 DEF ToolTables
<1>8. \A t \in T!Tools : ToolRow(t)' /\ ToolRowStep(t)
  BY <1>1, <1>6 DEF ToolRight, ToolRow, ToolRowStep
<1> QED
  BY <1>1, <1>2, <1>7, <1>8, ToolAsks

LEMMA ToolRemoves ==
  ASSUME T!ConstantsAssumption, ToolInv, NEW h \in ToolSetup.Handlers, NEW i \in ToolSetup.Integrations,
         T!DeleteIntegration(h, i)
  PROVE  ToolInv'
<1> DEFINE to == [T!Idle EXCEPT !.pc = "take"]
           Turned(g) == g = h \/ (tOp[g].i = {i} /\ tOp[g].pc \in {"seed", "stale", "drop"})
<1>1. /\ ToolRight /\ ToolTables /\ tOp[h].pc = "idle" /\ tOp \in [ToolSetup.Handlers -> ToolOps]
      /\ UNCHANGED <<catalogue, lastId, T!surfaces, T!hist>> /\ tFuel' = tFuel - 1 /\ tFuel > 0
      /\ tFuel \in 0..ToolSetup.Budget /\ ToolSetup.Budget \in Nat
      /\ integ' = [integ EXCEPT ![i].there = FALSE]
      /\ tRow' = [t \in T!Tools |-> IF t[1] = i THEN T!NoRow ELSE tRow[t]]
      /\ tRow \in [T!Tools -> ToolRows] /\ lastId \in Nat
      /\ integ \in [ToolSetup.Integrations -> ToolKinds]
  BY DEF T!DeleteIntegration, T!Begin, T!Spend, ToolInv, ToolRight, ToolSurfaces, ToolTables, T!ConstantsAssumption
<1>2. tOp' = [g \in ToolSetup.Handlers |-> IF Turned(g) THEN to ELSE tOp[g]]
  BY DEF T!DeleteIntegration
<1>3. to \in ToolOps /\ to.pc = "take" /\ ToolShape(to)'
  BY ToolIdle
<1>4. /\ \A g \in ToolSetup.Handlers : tOp'[g] = to \/ tOp'[g] = tOp[g]
      /\ \A g \in ToolSetup.Handlers : tOp[g].pc \in T!Refreshing => tOp'[g] = tOp[g]
      /\ tOp'[h] = to /\ tOp' \in [ToolSetup.Handlers -> ToolOps]
  <2>1. \A g \in ToolSetup.Handlers : tOp[g].pc \in T!Refreshing => ~ Turned(g)
    BY <1>1 DEF T!Refreshing
  <2> QED
    BY <1>1, <1>2, <1>3, <2>1
<1> HIDE DEF to, Turned
<1>5. integ' \in [ToolSetup.Integrations -> ToolKinds]
  BY <1>1 DEF ToolKinds
<1>6. /\ tRow' \in [T!Tools -> ToolRows]
      /\ \A t \in T!Tools : tRow'[t] = T!NoRow \/ tRow'[t] = tRow[t]
  BY <1>1, ToolIdle
<1>7. ToolTables'
  BY <1>1, <1>5, <1>6 DEF ToolTables
<1>8. ASSUME NEW u \in T!Tools PROVE ToolRow(u)' /\ ToolRowStep(u)
  <2>1. CASE tRow'[u] = T!NoRow
    <3>1. T!NoRow.on = T!NoRow.chosen /\ T!NoRow.id = 0 /\ ~ T!NoRow.hand
      BY DEF T!NoRow
    <3> QED
      BY <1>1, <2>1, <3>1 DEF ToolRow, ToolRowStep
  <2>2. CASE tRow'[u] = tRow[u]
    BY <1>1, <2>2 DEF ToolRight, ToolRow, ToolRowStep
  <2> QED
    BY <1>6, <2>1, <2>2
<1>9. ToolSurfaces' /\ lost' = FALSE /\ lastId <= lastId'
  <2>1. tFuel' \in 0..ToolSetup.Budget
    BY <1>1
  <2> QED
    BY <1>1, <2>1 DEF ToolRight, ToolSurfaces, T!surfaces, T!hist
<1>10. PICK new \in ToolOps : new = to
  BY <1>3
<1>11. ToolRight'
  <2>1. /\ tOp'[h] = new /\ ToolShape(new)'
        /\ \A g \in ToolSetup.Handlers \ {h} : tOp'[g] = tOp[g] \/ tOp'[g].pc = "take"
    BY <1>3, <1>4, <1>10 DEF ToolShape
  <2> QED
    BY <1>1, <1>4, <1>7, <1>8, <1>9, <2>1, ToolMoves
<1>12. tangled' \/ ToolSync'
  <2>1. \A g \in ToolSetup.Handlers :
          tOp[g].pc \in T!Refreshing \/ tOp'[g].pc \in T!Refreshing => tOp'[g] = tOp[g]
    BY <1>3, <1>4, ToolStages DEF ToolPending
  <2>2. \E g \in ToolSetup.Handlers : tOp'[g].pc \in ToolPending
    BY <1>3, <1>4 DEF ToolPending
  <2>3. UNCHANGED T!surfaces /\ tangled' = tangled
    BY <1>1 DEF T!hist
  <2> QED
    BY <2>1, <2>2, <2>3, ToolPends
<1> QED
  BY <1>11, <1>12 DEF ToolInv

-----------------------------------------------------------------------------
(* Seedings.                                                               *)

\* A step of a request that refreshes nothing yet, towards another such step.
LEMMA ToolGoes ==
  ASSUME T!ConstantsAssumption, ToolInv, NEW h \in ToolSetup.Handlers, tOp[h].pc \notin T!Refreshing,
         NEW new \in ToolOps, T!Set(h, new), new.pc \in ToolPending, ToolShape(new)',
         UNCHANGED <<T!surfaces, T!hist>>, tFuel' \in 0..ToolSetup.Budget,
         ToolTables', lastId <= lastId', \A t \in T!Tools : ToolRow(t)' /\ ToolRowStep(t)
  PROVE  ToolInv'
<1>1. ToolRight /\ tOp \in [ToolSetup.Handlers -> ToolOps] /\ tOp' = [tOp EXCEPT ![h] = new]
  BY DEF ToolInv, ToolRight, T!Set
<1>2. /\ tOp' \in [ToolSetup.Handlers -> ToolOps] /\ tOp'[h] = new
      /\ \A g \in ToolSetup.Handlers \ {h} : tOp'[g] = tOp[g]
  BY <1>1
<1>3. ToolSurfaces' /\ lost' = FALSE
  BY <1>1 DEF ToolRight, ToolSurfaces, T!surfaces, T!hist
<1>4. ToolRight'
  BY <1>1, <1>2, <1>3, ToolMoves
<1>5. tangled' \/ ToolSync'
  <2>1. \A g \in ToolSetup.Handlers :
          tOp[g].pc \in T!Refreshing \/ tOp'[g].pc \in T!Refreshing => tOp'[g] = tOp[g]
    BY <1>2, ToolStages
  <2>2. \E g \in ToolSetup.Handlers : tOp'[g].pc \in ToolPending
    BY <1>2
  <2> QED
    BY <2>1, <2>2, ToolPends DEF T!hist
<1> QED
  BY <1>4, <1>5 DEF ToolInv

\* One that fails: what refreshes do from then on is not followed.
LEMMA ToolFails ==
  ASSUME T!ConstantsAssumption, ToolInv, NEW h \in ToolSetup.Handlers, T!Set(h, T!Idle), UNCHANGED <<T!tables, T!surfaces, lost>>,
         tangled' = TRUE, tFuel' \in 0..ToolSetup.Budget
  PROVE  ToolInv'
<1>1. ToolRight /\ ToolSurfaces' /\ lost' = FALSE
  BY DEF ToolInv, ToolRight, ToolSurfaces, T!surfaces
<1>2. ToolRight'
  BY <1>1, ToolIdle, ToolTurns
<1> QED
  BY <1>2 DEF ToolInv

LEMMA ToolCuts ==
  ASSUME T!ConstantsAssumption, ToolInv, NEW h \in ToolSetup.Handlers, T!Cut(h) PROVE ToolInv'
<1>1. tFuel > 0 /\ tFuel' = tFuel - 1 /\ tFuel \in 0..ToolSetup.Budget /\ ToolSetup.Budget \in Nat
  BY DEF T!Cut, T!Spend, ToolInv, ToolRight, ToolSurfaces, T!ConstantsAssumption
<1>2. tFuel' \in 0..ToolSetup.Budget
  BY <1>1
<1> QED
  BY <1>2, ToolFails DEF T!Cut

\* The ids that the rows of an integration have.
LEMMA ToolIds ==
  ASSUME ToolRight, NEW i \in ToolSetup.Integrations
  PROVE  /\ [n \in ToolSetup.Names |-> tRow[<<i, n>>].id] \in [ToolSetup.Names -> 0..ToolSetup.MaxId]
         /\ \A n \in ToolSetup.Names : tRow[<<i, n>>].id \in 0..lastId /\ <<i, n>> \in T!Tools
<1>1. \A n \in ToolSetup.Names : <<i, n>> \in T!Tools
  BY DEF T!Tools
<1>2. tRow \in [T!Tools -> ToolRows] /\ \A t \in T!Tools : ToolRow(t)
  BY DEF ToolRight, ToolTables
<1>3. \A n \in ToolSetup.Names : tRow[<<i, n>>].id \in 0..ToolSetup.MaxId /\ tRow[<<i, n>>].id <= lastId
  BY <1>1, <1>2 DEF ToolRows, ToolRow
<1>4. lastId \in Nat
  BY DEF ToolRight, ToolTables
<1> QED
  BY <1>1, <1>3, <1>4

LEMMA ToolSeeds ==
  ASSUME T!ConstantsAssumption, ToolInv, NEW h \in ToolSetup.Handlers, NEW i \in ToolSetup.Integrations, T!Seed(h, i)
  PROVE  ToolInv'
<1> DEFINE held == [n \in ToolSetup.Names |-> tRow[<<i, n>>].id]
           to == [T!Idle EXCEPT !.pc = "seed", !.i = {i}, !.todo = catalogue[i],
                              !.expected = catalogue[i], !.seen = held]
<1>1. /\ tOp[h].pc = "idle" /\ T!Set(h, to) /\ UNCHANGED <<T!tables, T!surfaces, T!hist>>
      /\ tFuel > 0 /\ tFuel' = tFuel - 1 /\ tFuel \in 0..ToolSetup.Budget /\ ToolSetup.Budget \in Nat
  BY DEF T!Seed, T!Begin, T!Spend, ToolInv, ToolRight, ToolSurfaces, T!ConstantsAssumption
<1>2. held \in [ToolSetup.Names -> 0..ToolSetup.MaxId]
  BY ToolIds DEF ToolInv
<1> HIDE DEF held
<1>3. catalogue[i] \in SUBSET ToolSetup.Names
  BY DEF ToolInv, ToolRight, ToolTables, T!ConstantsAssumption
<1>4. to \in ToolOps /\ to.pc = "seed" /\ to.i = {i} /\ to.todo = catalogue[i] /\ to.seen = held
  BY <1>2, <1>3 DEF T!Idle, ToolOps, ToolPending
<1> HIDE DEF to
<1>5. PICK new \in ToolOps : new = to
  BY <1>4
<1>6. ToolShape(new)'
  BY <1>2, <1>3, <1>4, <1>5 DEF ToolShape, ToolListing
<1>7. ToolTables' /\ lastId <= lastId' /\ \A t \in T!Tools : ToolRow(t)' /\ ToolRowStep(t)
  BY <1>1 DEF ToolInv, ToolRight, ToolTables, ToolRow, ToolRowStep, T!tables
<1>8. tFuel' \in 0..ToolSetup.Budget /\ tOp[h].pc \notin T!Refreshing /\ T!Set(h, new) /\ new.pc \in ToolPending
  BY <1>1, <1>4, <1>5, ToolStages DEF ToolPending
<1> QED
  BY <1>1, <1>6, <1>7, <1>8, ToolGoes

\* What a seeding does next to the row t whose name it knows.
LEMMA ToolMet ==
  ASSUME ToolRight, NEW t \in T!Tools, tRow' = [tRow EXCEPT ![t] = T!Met(@)] \/ tRow' = tRow, lastId' = lastId
  PROVE  tRow' \in [T!Tools -> ToolRows] /\ \A u \in T!Tools : ToolRow(u)' /\ ToolRowStep(u)
<1>1. tRow \in [T!Tools -> ToolRows] /\ \A u \in T!Tools : ToolRow(u)
  BY DEF ToolRight, ToolTables
<1>2. CASE tRow' = tRow
  BY <1>1, <1>2 DEF ToolRow, ToolRowStep
<1>3. CASE tRow' = [tRow EXCEPT ![t] = T!Met(tRow[t])]
  <2>1. /\ T!Met(tRow[t]) \in ToolRows /\ T!Met(tRow[t]).id = tRow[t].id /\ T!Met(tRow[t]).on = tRow[t].on
        /\ T!Met(tRow[t]).chosen = tRow[t].chosen /\ ~ T!Met(tRow[t]).hand
    BY <1>1 DEF T!Met, ToolRows
  <2>2. tRow' \in [T!Tools -> ToolRows] /\ tRow'[t] = T!Met(tRow[t]) /\ \A u \in T!Tools \ {t} : tRow'[u] = tRow[u]
    BY <1>1, <1>3, <2>1
  <2> QED
    BY <1>1, <2>1, <2>2, <1>3 DEF ToolRow, ToolRowStep
<1> QED
  BY <1>2, <1>3

LEMMA ToolSeedsOne ==
  ASSUME T!ConstantsAssumption, ToolInv, NEW h \in ToolSetup.Handlers, NEW n \in ToolSetup.Names, T!SeedTool(h, n)
  PROVE  ToolInv'
<1>1. /\ ToolRight /\ ToolTables /\ tOp[h] \in ToolOps /\ tOp[h].pc = "seed" /\ ToolShape(tOp[h])
      /\ tFuel \in 0..ToolSetup.Budget /\ lost = FALSE /\ tRow \in [T!Tools -> ToolRows]
      /\ UNCHANGED <<integ, catalogue, T!surfaces, lost, tFuel>> /\ lastId \in Nat
  BY DEF ToolInv, ToolRight, ToolTables, ToolSurfaces, T!SeedTool
<1>2. PICK x \in ToolSetup.Integrations : tOp[h].i = {x}
  BY <1>1 DEF ToolShape
<1>3. (CHOOSE i \in tOp[h].i : TRUE) = x
  BY <1>2
<1> DEFINE t == <<x, n>>
           to == [tOp[h] EXCEPT !.todo = @ \ {n}]
<1>4. t \in T!Tools
  BY DEF T!Tools
<1>5. /\ to \in ToolOps /\ to.pc = "seed" /\ to.i = {x} /\ to.seen = tOp[h].seen
      /\ to.todo = tOp[h].todo \ {n}
  BY <1>1, <1>2 DEF ToolOps, ToolShape
<1>6. \/ /\ tRow' = [tRow EXCEPT ![t] = T!Met(@)] \/ tRow' = tRow
         /\ T!Set(h, to) /\ UNCHANGED <<lastId, tangled>>
      \/ T!Set(h, T!Idle) /\ tangled' = TRUE /\ UNCHANGED <<tRow, lastId>>
      \/ /\ lastId < ToolSetup.MaxId /\ lastId' = lastId + 1
         /\ tRow' = [tRow EXCEPT ![t] = T!NewRow(TRUE)] /\ T!Set(h, to) /\ UNCHANGED tangled
  BY <1>3 DEF T!SeedTool
<1> HIDE DEF t, to
<1>7. PICK new \in ToolOps : new = to
  BY <1>5
<1>8. ToolShape(new)' /\ new.pc \in ToolPending /\ tOp[h].pc \notin T!Refreshing
  BY <1>1, <1>5, <1>7, ToolStages DEF ToolShape, ToolListing, ToolPending
<1>9. CASE T!Set(h, T!Idle) /\ tangled' = TRUE /\ UNCHANGED <<tRow, lastId>>
  BY <1>1, <1>9, ToolFails DEF T!tables
<1>10. ASSUME T!Set(h, to), UNCHANGED tangled, tRow' \in [T!Tools -> ToolRows], lastId' \in 0..ToolSetup.MaxId,
              lastId <= lastId', \A u \in T!Tools : ToolRow(u)' /\ ToolRowStep(u)
       PROVE  ToolInv'
  <2>1. ToolTables' /\ UNCHANGED <<T!surfaces, T!hist>> /\ T!Set(h, new) /\ tFuel' \in 0..ToolSetup.Budget
    BY <1>1, <1>7, <1>10 DEF ToolTables, T!hist
  <2> QED
    BY <1>1, <1>8, <1>10, <2>1, ToolGoes
<1>11. CASE /\ tRow' = [tRow EXCEPT ![t] = T!Met(@)] \/ tRow' = tRow
            /\ T!Set(h, to) /\ UNCHANGED <<lastId, tangled>>
  <2>1. tRow' \in [T!Tools -> ToolRows] /\ \A u \in T!Tools : ToolRow(u)' /\ ToolRowStep(u)
    BY <1>1, <1>4, <1>11, ToolMet
  <2>2. lastId' \in 0..ToolSetup.MaxId /\ lastId <= lastId'
    BY <1>1, <1>11 DEF ToolTables
  <2> QED
    BY <1>10, <1>11, <2>1, <2>2
<1>12. CASE /\ lastId < ToolSetup.MaxId /\ lastId' = lastId + 1
            /\ tRow' = [tRow EXCEPT ![t] = T!NewRow(TRUE)] /\ T!Set(h, to) /\ UNCHANGED tangled
  <2>1. /\ tRow' \in [T!Tools -> ToolRows] /\ lastId' \in 0..ToolSetup.MaxId /\ lastId <= lastId'
        /\ \A u \in T!Tools : ToolRow(u)' /\ ToolRowStep(u)
    BY <1>1, <1>4, <1>12, ToolNewRow
  <2> QED
    BY <1>10, <1>12, <2>1
<1> QED
  BY <1>6, <1>9, <1>11, <1>12

LEMMA ToolFindsStale ==
  ASSUME T!ConstantsAssumption, ToolInv, NEW h \in ToolSetup.Handlers, T!Stale(h) PROVE ToolInv'
<1>1. /\ ToolRight /\ tOp[h] \in ToolOps /\ tOp[h].pc = "seed" /\ ToolShape(tOp[h])
      /\ tFuel \in 0..ToolSetup.Budget /\ UNCHANGED <<T!tables, T!surfaces, T!hist, tFuel>>
      /\ \A u \in T!Tools : ToolRow(u)
  BY DEF ToolInv, ToolRight, ToolSurfaces, T!Stale
<1>2. PICK x \in ToolSetup.Integrations : tOp[h].i = {x}
  BY <1>1 DEF ToolShape
<1>3. (CHOOSE i \in tOp[h].i : TRUE) = x
  BY <1>2
<1> DEFINE held == [n \in ToolSetup.Names |-> tRow[<<x, n>>].id]
           old == {n \in ToolSetup.Names \ tOp[h].expected : tRow[<<x, n>>].id # 0 /\ tRow[<<x, n>>].seeded}
           to == [tOp[h] EXCEPT !.pc = "drop", !.seen = held, !.todo = old]
<1>4. T!Set(h, to)
  <2> DEFINE To(y) ==
        [tOp[h] EXCEPT !.pc = "drop", !.seen = [n \in ToolSetup.Names |-> tRow[<<y, n>>].id],
                      !.todo = {n \in ToolSetup.Names \ tOp[h].expected :
                                  tRow[<<y, n>>].id # 0 /\ tRow[<<y, n>>].seeded}]
  <2>1. T!Set(h, To(CHOOSE i \in tOp[h].i : TRUE))
    BY DEF T!Stale
  <2>2. To(x) = to
    OBVIOUS
  <2> HIDE DEF To, to
  <2> QED
    BY <1>3, <2>1, <2>2
<1>5. /\ held \in [ToolSetup.Names -> 0..ToolSetup.MaxId] /\ old \in SUBSET ToolSetup.Names
      /\ \A n \in old : held[n] \in 1..lastId /\ ~ tRow[<<x, n>>].hand
  <2>1. /\ held \in [ToolSetup.Names -> 0..ToolSetup.MaxId]
        /\ \A n \in ToolSetup.Names : tRow[<<x, n>>].id \in 0..lastId /\ <<x, n>> \in T!Tools
    BY <1>1, ToolIds
  <2>2. \A n \in old : n \in ToolSetup.Names /\ held[n] = tRow[<<x, n>>].id /\ held[n] # 0 /\ tRow[<<x, n>>].seeded
    OBVIOUS
  <2>3. \A n \in old : ~ tRow[<<x, n>>].hand
    BY <1>1, <2>1, <2>2 DEF ToolRow
  <2>4. lastId \in Nat
    BY <1>1 DEF ToolRight, ToolTables
  <2> QED
    BY <2>1, <2>2, <2>3, <2>4
<1> HIDE DEF held, old
<1>6. to \in ToolOps /\ to.pc = "drop" /\ to.i = {x} /\ to.seen = held /\ to.todo = old
  BY <1>1, <1>2, <1>5 DEF ToolOps, ToolPending
<1> HIDE DEF to
<1>7. PICK new \in ToolOps : new = to
  BY <1>6
<1>8. ToolShape(new)'
  BY <1>1, <1>5, <1>6, <1>7 DEF ToolShape, ToolListing, T!tables
<1>9. ToolTables' /\ lastId <= lastId' /\ \A u \in T!Tools : ToolRow(u)' /\ ToolRowStep(u)
  BY <1>1 DEF ToolInv, ToolRight, ToolTables, ToolRow, ToolRowStep, T!tables
<1>10. tFuel' \in 0..ToolSetup.Budget /\ tOp[h].pc \notin T!Refreshing /\ T!Set(h, new) /\ new.pc \in ToolPending
  BY <1>1, <1>4, <1>6, <1>7, ToolStages DEF ToolPending
<1> QED
  BY <1>1, <1>8, <1>9, <1>10, ToolGoes

LEMMA ToolDrops ==
  ASSUME T!ConstantsAssumption, ToolInv, NEW h \in ToolSetup.Handlers, T!Drop(h) PROVE ToolInv'
<1>1. /\ ToolRight /\ ToolTables /\ tOp[h] \in ToolOps /\ tOp[h].pc = "drop" /\ ToolShape(tOp[h])
      /\ tFuel \in 0..ToolSetup.Budget /\ lost = FALSE /\ tRow \in [T!Tools -> ToolRows] /\ lastId \in Nat
      /\ UNCHANGED <<integ, catalogue, lastId, T!surfaces, tangled, tFuel>>
      /\ \A u \in T!Tools : ToolRow(u) /\ tRow[u].id \in Nat
  BY DEF ToolInv, ToolRight, ToolTables, ToolRows, ToolSurfaces, T!Drop
<1>2. tOp[h].pc \notin T!Refreshing /\ tFuel' \in 0..ToolSetup.Budget /\ lastId <= lastId' /\ lastId' \in 0..ToolSetup.MaxId
  BY <1>1, ToolStages DEF ToolPending, ToolTables
<1>3. CASE tOp[h].todo = {}
  <2>1. T!Refresh(h) /\ UNCHANGED <<tRow, lost>>
    BY <1>3 DEF T!Drop
  <2> DEFINE to == [T!Idle EXCEPT !.pc = "take"]
  <2>2. to \in ToolOps /\ to.pc = "take" /\ ToolShape(to)' /\ T!Set(h, to)
    BY <2>1, ToolIdle DEF T!Refresh
  <2> HIDE DEF to
  <2>3. PICK new \in ToolOps : new = to
    BY <2>2
  <2>4. ToolShape(new)' /\ new.pc \in ToolPending /\ T!Set(h, new)
    BY <2>2, <2>3 DEF ToolShape, ToolPending
  <2>5. ToolTables' /\ \A u \in T!Tools : ToolRow(u)' /\ ToolRowStep(u)
    BY <1>1, <2>1, ToolKept DEF ToolTables
  <2>6. UNCHANGED <<T!surfaces, T!hist>>
    BY <1>1, <2>1 DEF T!hist
  <2> QED
    BY <1>2, <2>4, <2>5, <2>6, ToolGoes
<1>4. CASE tOp[h].todo # {}
  <2>1. PICK x \in ToolSetup.Integrations : tOp[h].i = {x}
    BY <1>1 DEF ToolShape
  <2>2. (CHOOSE i \in tOp[h].i : TRUE) = x
    BY <2>1
  <2>3. PICK n \in tOp[h].todo :
          /\ tRow' = IF tRow[<<x, n>>].id = tOp[h].seen[n] THEN [tRow EXCEPT ![<<x, n>>] = T!NoRow] ELSE tRow
          /\ lost' = (lost \/ (tRow[<<x, n>>].id = tOp[h].seen[n] /\ tRow[<<x, n>>].hand))
          /\ T!Set(h, [tOp[h] EXCEPT !.todo = @ \ {n}])
    BY <1>4, <2>2 DEF T!Drop
  <2>4. n \in ToolSetup.Names /\ <<x, n>> \in T!Tools
    BY <1>1, <2>3 DEF ToolShape, T!Tools
  <2>5. lost' = FALSE
    BY <1>1, <2>1, <2>3 DEF ToolShape
  <2>6. /\ tRow' \in [T!Tools -> ToolRows]
        /\ \A u \in T!Tools : tRow'[u] = T!NoRow \/ tRow'[u] = tRow[u]
    BY <1>1, <2>3, <2>4, ToolIdle
  <2>7. ASSUME NEW u \in T!Tools PROVE ToolRow(u)' /\ ToolRowStep(u)
    <3>1. CASE tRow'[u] = T!NoRow
      <4>1. T!NoRow.on = T!NoRow.chosen /\ T!NoRow.id = 0 /\ ~ T!NoRow.hand
        BY DEF T!NoRow
      <4> QED
        BY <1>1, <3>1, <4>1 DEF ToolRow, ToolRowStep
    <3>2. CASE tRow'[u] = tRow[u]
      BY <1>1, <3>2 DEF ToolRow, ToolRowStep
    <3> QED
      BY <2>6, <3>1, <3>2
  <2> DEFINE to == [tOp[h] EXCEPT !.todo = @ \ {n}]
  <2>8. /\ to \in ToolOps /\ to.pc = "drop" /\ to.i = {x} /\ to.seen = tOp[h].seen
        /\ to.todo = tOp[h].todo \ {n} /\ T!Set(h, to)
    BY <1>1, <2>1, <2>3 DEF ToolOps, ToolShape
  <2> HIDE DEF to
  <2>9. PICK new \in ToolOps : new = to
    BY <2>8
  <2>10. \A m \in tOp[h].todo : tRow'[<<x, m>>].id = tOp[h].seen[m] => ~ tRow'[<<x, m>>].hand
    <3> SUFFICES ASSUME NEW m \in tOp[h].todo, tRow'[<<x, m>>].id = tOp[h].seen[m]
                 PROVE  ~ tRow'[<<x, m>>].hand
      OBVIOUS
    <3>1. /\ <<x, m>> \in T!Tools
          /\ tRow[<<x, m>>].id = tOp[h].seen[m] => ~ tRow[<<x, m>>].hand
      BY <1>1, <2>1 DEF ToolShape, T!Tools
    <3> QED
      BY <2>6, <3>1, ToolIdle
  <2>11. ToolShape(new)' /\ new.pc \in ToolPending /\ T!Set(h, new)
    BY <1>1, <2>1, <2>8, <2>9, <2>10 DEF ToolShape, ToolPending, ToolListing
  <2>12. ToolTables' /\ UNCHANGED <<T!surfaces, T!hist>>
    BY <1>1, <2>5, <2>6 DEF ToolTables, T!hist
  <2> QED
    BY <1>2, <2>7, <2>11, <2>12, ToolGoes
<1> QED
  BY <1>3, <1>4

-----------------------------------------------------------------------------
(* Refreshes.                                                              *)

LEMMA ToolSame ==
  ASSUME UNCHANGED T!tables
  PROVE  /\ T!Served' = T!Served
         /\ \A x : T!Active(x)' = T!Active(x) /\ T!Enabled(x)' = T!Enabled(x)
  BY DEF T!tables, T!Served, T!Active, T!Enabled

LEMMA ToolSurfaced ==
  ASSUME UNCHANGED T!tables, NEW S
  PROVE  /\ shared' = shared => (ToolShared(S)' <=> ToolShared(S))
         /\ own' = own => (ToolOwn(S)' <=> ToolOwn(S))
<1>1. /\ T!Served' = T!Served
      /\ \A x : T!Active(x)' = T!Active(x) /\ T!Enabled(x)' = T!Enabled(x)
  BY ToolSame
<1>2. shared' = shared => (ToolShared(S)' <=> ToolShared(S))
  BY <1>1 DEF ToolShared
<1>3. own' = own => (ToolOwn(S)' <=> ToolOwn(S))
  BY <1>1 DEF ToolOwn
<1> QED
  BY <1>2, <1>3

\* A step of the only refresh, or of a request that becomes it.
LEMMA ToolSyncs ==
  ASSUME ToolInv, NEW h \in ToolSetup.Handlers, NEW new \in ToolOps, T!Set(h, new),
         \A g \in ToolSetup.Handlers \ {h} : tOp[g].pc \notin T!Refreshing,
         new.pc \in T!Refreshing \cup {"idle"},
         new.pc \in T!Refreshing => ToolKnown(new)',
         new.pc = "idle" => shared' = names',
         (\A g \in ToolSetup.Handlers \ {h} : tOp[g].pc \notin ToolPending) =>
           /\ new.pc \in T!Refreshing => ToolStage(new)'
           /\ new.pc = "idle" => ToolFollows'
  PROVE  ToolSync'
<1>1. tOp \in [ToolSetup.Handlers -> ToolOps] /\ tOp' = [tOp EXCEPT ![h] = new]
  BY DEF ToolInv, ToolRight, T!Set
<1>2. tOp'[h] = new /\ \A g \in ToolSetup.Handlers \ {h} : tOp'[g] = tOp[g]
  BY <1>1
<1>3. \A g \in ToolSetup.Handlers : tOp'[g].pc \in T!Refreshing => g = h
  BY <1>2
<1>4. \A g \in ToolSetup.Handlers : tOp'[g].pc \in T!Refreshing => ToolKnown(tOp[g])'
  BY <1>2, <1>3 DEF ToolKnown
<1>5. (\A g \in ToolSetup.Handlers : tOp'[g].pc \notin T!Refreshing) => shared' = names'
  BY <1>2
<1>6. ToolQuiet' => \A g \in ToolSetup.Handlers \ {h} : tOp[g].pc \notin ToolPending
  BY <1>2 DEF ToolQuiet
<1>7. ToolQuiet' => \A g \in ToolSetup.Handlers : tOp'[g].pc \in T!Refreshing => ToolStage(tOp[g])'
  BY <1>2, <1>3, <1>6 DEF ToolStage
<1>8. (\A g \in ToolSetup.Handlers : tOp'[g].pc = "idle") => ToolFollows'
  <2> SUFFICES ASSUME \A g \in ToolSetup.Handlers : tOp'[g].pc = "idle" PROVE ToolFollows'
    OBVIOUS
  <2>1. ToolQuiet' /\ new.pc = "idle"
    BY <1>2, ToolStages DEF ToolQuiet
  <2> QED
    BY <1>6, <2>1
<1> QED
  BY <1>3, <1>4, <1>5, <1>7, <1>8 DEF ToolSync

\* A step of a refresh towards new, which keeps what is known of it.
LEMMA ToolRefreshes ==
  ASSUME ToolInv, NEW h \in ToolSetup.Handlers, tOp[h].pc \in T!Refreshing, NEW new \in ToolOps, T!Set(h, new),
         UNCHANGED <<T!tables, T!hist, tFuel>>, ToolSurfaces', ToolShape(new),
         new.pc \in T!Refreshing \cup {"idle"},
         ToolKnown(tOp[h]) =>
           /\ new.pc \in T!Refreshing => ToolKnown(new)'
           /\ new.pc = "idle" => shared' = names',
         ToolKnown(tOp[h]) /\ ToolStage(tOp[h]) =>
           /\ new.pc \in T!Refreshing => ToolStage(new)'
           /\ new.pc = "idle" => ToolFollows'
  PROVE  ToolInv'
<1>1. ToolRight /\ lost' = FALSE /\ tangled' = tangled /\ UNCHANGED T!tables
  BY DEF ToolInv, ToolRight, T!hist
<1>2. ToolRight'
  BY <1>1, ToolTurns
<1>3. CASE tangled
  BY <1>1, <1>2, <1>3 DEF ToolInv
<1>4. CASE ToolSync
  <2>1. ToolKnown(tOp[h]) /\ \A g \in ToolSetup.Handlers \ {h} : tOp[g].pc \notin T!Refreshing
    BY <1>4 DEF ToolSync
  <2>2. (\A g \in ToolSetup.Handlers \ {h} : tOp[g].pc \notin ToolPending) => ToolStage(tOp[h])
    <3>1. tOp[h].pc \notin ToolPending
      BY ToolStages
    <3>2. (\A g \in ToolSetup.Handlers \ {h} : tOp[g].pc \notin ToolPending) => ToolQuiet
      BY <3>1 DEF ToolQuiet
    <3> QED
      BY <1>4, <3>2 DEF ToolSync
  <2>3. ToolSync'
    BY <2>1, <2>2, ToolSyncs
  <2> QED
    BY <1>2, <2>3 DEF ToolInv
<1> QED
  BY <1>3, <1>4 DEF ToolInv

LEMMA ToolTakes ==
  ASSUME T!ConstantsAssumption, ToolInv, NEW h \in ToolSetup.Handlers, T!Take(h) PROVE ToolInv'
<1> DEFINE to == [tOp[h] EXCEPT !.pc = "rebind"]
<1>1. /\ ToolRight /\ tOp[h] \in ToolOps /\ tOp[h].pc = "take" /\ T!Set(h, to)
      /\ UNCHANGED <<T!tables, names, own, lost, tFuel>> /\ shared' = shared \ names
      /\ tangled' = (tangled \/ \E g \in ToolSetup.Handlers : tOp[g].pc \in T!Refreshing)
  BY DEF ToolInv, ToolRight, T!Take, T!Goto
<1>2. to \in ToolOps /\ to.pc = "rebind"
  BY <1>1 DEF ToolOps
<1> HIDE DEF to
<1>3. PICK new \in ToolOps : new = to
  BY <1>2
<1>4. ToolShape(new) /\ T!Set(h, new) /\ new.pc = "rebind"
  BY <1>1, <1>2, <1>3 DEF ToolShape, ToolListing
<1>5. ToolSurfaces' /\ lost' = FALSE /\ UNCHANGED T!tables
  BY <1>1 DEF ToolRight, ToolSurfaces
<1>6. ToolRight'
  BY <1>1, <1>4, <1>5, ToolTurns
<1>7. CASE tangled'
  BY <1>6, <1>7 DEF ToolInv
<1>8. CASE ~ tangled'
  <2>1. (\A g \in ToolSetup.Handlers : tOp[g].pc \notin T!Refreshing) /\ ToolSync
    BY <1>1, <1>8 DEF ToolInv
  <2>2. shared' = {}
    BY <1>1, <2>1 DEF ToolSync
  <2>3. ToolKnown(new)' /\ ToolStage(new)' /\ new.pc \in T!Refreshing /\ new.pc # "idle"
    BY <1>4, <2>2 DEF ToolKnown, ToolStage, ToolListing, T!Refreshing
  <2>4. ToolSync'
    BY <1>4, <2>1, <2>3, ToolSyncs
  <2> QED
    BY <1>6, <2>4 DEF ToolInv
<1> QED
  BY <1>7, <1>8

LEMMA ToolRebinds == ASSUME ToolInv, NEW h \in ToolSetup.Handlers, T!Rebind(h) PROVE ToolInv'
<1> DEFINE to == [tOp[h] EXCEPT !.pc = "list"]
<1>1. /\ ToolRight /\ tOp[h] \in ToolOps /\ tOp[h].pc = "rebind" /\ T!Set(h, to)
      /\ UNCHANGED <<T!tables, shared, own, T!hist, tFuel>> /\ names' = {} /\ UNCHANGED tangled
  BY DEF ToolInv, ToolRight, T!Rebind, T!Goto, T!hist
<1>2. to \in ToolOps /\ to.pc = "list"
  BY <1>1 DEF ToolOps
<1> HIDE DEF to
<1>3. PICK new \in ToolOps : new = to
  BY <1>2
<1>4. ToolShape(new) /\ T!Set(h, new) /\ new.pc = "list"
  BY <1>1, <1>2, <1>3 DEF ToolShape, ToolListing
<1>5. ToolSurfaces'
  BY <1>1 DEF ToolRight, ToolSurfaces
<1>6. ToolKnown(tOp[h]) => ToolKnown(new)'
  BY <1>1, <1>4 DEF ToolKnown, ToolListing
<1>7. ToolStage(new)' /\ new.pc \in T!Refreshing /\ tOp[h].pc \in T!Refreshing /\ new.pc # "idle"
  BY <1>1, <1>4 DEF ToolStage, ToolListing, T!Refreshing
<1> QED
  BY <1>1, <1>4, <1>5, <1>6, <1>7, ToolRefreshes

LEMMA ToolLists == ASSUME ToolInv, NEW h \in ToolSetup.Handlers, T!List(h) PROVE ToolInv'
<1> DEFINE on == {i \in ToolSetup.Integrations : T!Active(i)}
           to == [T!Idle EXCEPT !.pc = "next", !.seen = integ, !.todo = on]
<1>1. /\ ToolRight /\ tOp[h] \in ToolOps /\ tOp[h].pc = "list" /\ T!Set(h, to)
      /\ UNCHANGED <<T!tables, T!surfaces, T!hist, tFuel>> /\ integ \in [ToolSetup.Integrations -> ToolKinds]
  BY DEF ToolInv, ToolRight, ToolTables, T!List
<1>2. on \in SUBSET ToolSetup.Integrations /\ \A x \in ToolSetup.Integrations : x \in on <=> T!Active(x)
  OBVIOUS
<1> HIDE DEF on
<1>3. /\ to \in ToolOps /\ to.pc = "next" /\ to.seen = integ /\ to.todo = on
  BY <1>1, <1>2 DEF ToolOps, T!Idle, ToolListing
<1> HIDE DEF to
<1>4. PICK new \in ToolOps : new = to
  BY <1>3
<1>5. ToolShape(new) /\ T!Set(h, new) /\ new.pc = "next" /\ new.seen = integ /\ new.todo = on
  BY <1>1, <1>2, <1>3, <1>4 DEF ToolShape, ToolListing
<1>6. ToolSurfaces'
  BY <1>1 DEF ToolRight, ToolSurfaces, T!surfaces, T!hist
<1>7. ToolKnown(tOp[h]) => shared = {} /\ ToolKnown(new)'
  BY <1>1, <1>5 DEF ToolKnown, ToolListing, T!surfaces
<1>8. ASSUME shared = {} PROVE ToolStage(new)'
  <2>1. new.seen = integ' /\ \A x \in new.todo : T!Active(x)'
    BY <1>1, <1>2, <1>5, ToolSame DEF T!tables
  <2>2. \A t \in T!Served : t[1] \in new.todo
    <3> SUFFICES ASSUME NEW t \in T!Served PROVE t[1] \in new.todo
      OBVIOUS
    <3>1. t[1] \in ToolSetup.Integrations /\ T!Active(t[1])
      BY DEF T!Served, T!Tools
    <3> QED
      BY <1>2, <1>5, <3>1
  <2>3. {t \in T!Served : t[1] \notin new.todo} = {}
    BY <2>2
  <2>4. ToolShared(new.todo) /\ UNCHANGED <<T!tables, shared, own>>
    BY <1>1, <1>8, <2>3 DEF ToolShared, T!surfaces
  <2>5. ToolOwn(new.todo)
    BY <1>2, <1>5 DEF ToolOwn
  <2>6. ToolShared(new.todo)' /\ ToolOwn(new.todo)'
    BY <2>4, <2>5, ToolSurfaced
  <2>7. new.todo \cup {} = new.todo
    OBVIOUS
  <2>8. /\ ToolShared(new.todo \cup (IF new.pc \in {"read", "add"} THEN new.i ELSE {}))'
        /\ ToolOwn(new.todo \cup (IF new.pc = "next" THEN {} ELSE new.i))'
    BY <1>5, <2>6, <2>7
  <2> QED
    BY <1>5, <2>1, <2>8 DEF ToolStage
<1>9. new.pc \in T!Refreshing /\ tOp[h].pc \in T!Refreshing /\ new.pc # "idle"
  BY <1>1, <1>5 DEF T!Refreshing
<1> QED
  BY <1>1, <1>5, <1>6, <1>7, <1>8, <1>9, ToolRefreshes

LEMMA ToolNext == ASSUME ToolInv, NEW h \in ToolSetup.Handlers, T!NextIntegration(h) PROVE ToolInv'
<1>1. /\ ToolRight /\ tOp[h] \in ToolOps /\ tOp[h].pc = "next" /\ ToolShape(tOp[h])
      /\ UNCHANGED <<T!tables, T!surfaces, T!hist, tFuel>> /\ tOp[h].todo \subseteq ToolSetup.Integrations
  BY DEF ToolInv, ToolRight, ToolShape, ToolListing, T!NextIntegration
<1>2. ToolSurfaces' /\ tOp[h].pc \in T!Refreshing /\ UNCHANGED <<shared, names, own>>
  BY <1>1 DEF ToolRight, ToolSurfaces, T!surfaces, T!hist, T!Refreshing
<1>3. ToolKnown(tOp[h]) => shared = names
  BY <1>1 DEF ToolKnown, ToolListing
<1>4. ToolStage(tOp[h]) =>
        /\ tOp[h].seen = integ /\ \A x \in tOp[h].todo : T!Active(x)
        /\ ToolShared(tOp[h].todo) /\ ToolOwn(tOp[h].todo)
  <2>1. tOp[h].todo \cup {} = tOp[h].todo
    OBVIOUS
  <2> QED
    BY <1>1, <2>1 DEF ToolStage, ToolListing
<1>5. CASE tOp[h].todo = {}
  <2>1. T!Set(h, T!Idle)
    BY <1>5 DEF T!NextIntegration
  <2>2. T!Idle \in ToolOps /\ T!Idle.pc = "idle" /\ ToolShape(T!Idle)
    BY DEF T!Idle, ToolOps, ToolShape, ToolListing
  <2>3. PICK new \in ToolOps : new = T!Idle
    BY <2>2
  <2>4. ToolStage(tOp[h]) => ToolFollows'
    BY <1>1, <1>2, <1>4, <1>5, ToolSame DEF ToolFollows, ToolShared, ToolOwn
  <2>5. ToolShape(new) /\ T!Set(h, new) /\ new.pc = "idle" /\ new.pc \notin T!Refreshing
    BY <2>1, <2>2, <2>3, ToolStages DEF ToolShape
  <2> QED
    BY <1>1, <1>2, <1>3, <2>4, <2>5, ToolRefreshes
<1>6. CASE tOp[h].todo # {}
  <2> DEFINE To(i) == [tOp[h] EXCEPT !.i = {i}, !.todo = @ \ {i},
                                    !.pc = IF tOp[h].seen[i].mode = "standalone" THEN "own" ELSE "read"]
  <2>1. PICK x \in tOp[h].todo : T!Set(h, To(x))
    BY <1>6 DEF T!NextIntegration
  <2> DEFINE at == IF tOp[h].seen[x].mode = "standalone" THEN "own" ELSE "read"
  <2>2. x \in ToolSetup.Integrations /\ at \in {"own", "read"}
    BY <1>1
  <2>3. at = "own" <=> tOp[h].seen[x].mode = "standalone"
    OBVIOUS
  <2>4. To(x) = [tOp[h] EXCEPT !.i = {x}, !.todo = @ \ {x}, !.pc = at]
    OBVIOUS
  <2> HIDE DEF To, at
  <2> DEFINE to == [tOp[h] EXCEPT !.i = {x}, !.todo = @ \ {x}, !.pc = at]
  <2>5. /\ to \in ToolOps /\ to.pc = at /\ to.i = {x} /\ to.todo = tOp[h].todo \ {x}
        /\ to.seen = tOp[h].seen
    BY <1>1, <2>2 DEF ToolOps, ToolListing
  <2> HIDE DEF to
  <2>6. PICK new \in ToolOps : new = to
    BY <2>5
  <2>7. /\ T!Set(h, new) /\ new.pc = at /\ new.i = {x} /\ new.todo = tOp[h].todo \ {x}
        /\ new.seen = tOp[h].seen
    BY <2>1, <2>4, <2>5, <2>6 DEF to
  <2>8. ToolShape(new) /\ new.pc \in T!Refreshing /\ new.pc # "idle"
    BY <1>1, <2>2, <2>7 DEF ToolShape, ToolListing, T!Refreshing
  <2>9. ToolKnown(tOp[h]) => ToolKnown(new)'
    BY <1>2, <1>3, <2>2, <2>7 DEF ToolKnown, ToolListing
  <2>10. ASSUME ToolStage(tOp[h]) PROVE ToolStage(new)'
    <3>1. new.seen = integ' /\ \A y \in new.todo : T!Active(y)'
      BY <1>1, <1>4, <2>7, <2>10, ToolSame DEF T!tables
    <3>2. PICK Z \in SUBSET ToolSetup.Integrations : Z = tOp[h].todo
      BY <1>1
    <3>3. new.todo \cup new.i = Z /\ new.i \cap new.todo = {} /\ x \notin new.todo
      BY <2>7, <3>2
    <3>9. ToolShared(Z) /\ ToolOwn(Z) /\ UNCHANGED <<T!tables, shared, own>>
      BY <1>1, <1>2, <1>4, <2>10, <3>2
    <3>10. ToolShared(Z)' /\ ToolOwn(Z)'
      BY <3>9, ToolSurfaced
    <3>4. at = "own" => ToolShared(new.todo)'
      <4>1. ASSUME at = "own"
            PROVE  {t \in T!Served : t[1] \notin Z} = {t \in T!Served : t[1] \notin new.todo}
        <5>1. integ[x].mode = "standalone"
          BY <1>4, <2>3, <2>10, <4>1
        <5>2. \A t \in T!Served : t[1] # x
          BY <5>1 DEF T!Served
        <5> QED
          BY <2>7, <3>2, <5>2
      <4>2. at = "own" => ToolShared(new.todo)
        BY <3>9, <4>1 DEF ToolShared
      <4> QED
        BY <3>9, <4>2, ToolSurfaced
    <3>5. at = "read" => T!Active(x)' /\ integ'[x].mode # "standalone"
      BY <1>1, <1>4, <2>3, <2>10, ToolSame DEF T!tables
    <3>6. new.todo \cup {} = new.todo
      OBVIOUS
    <3>7. ToolShared(new.todo \cup (IF new.pc \in {"read", "add"} THEN new.i ELSE {}))'
      BY <2>2, <2>7, <3>10, <3>3, <3>4, <3>6
    <3>8. ToolOwn(new.todo \cup (IF new.pc = "next" THEN {} ELSE new.i))'
      BY <2>2, <2>7, <3>10, <3>3
    <3> QED
      BY <2>2, <2>7, <3>1, <3>3, <3>5, <3>7, <3>8 DEF ToolStage
  <2> QED
    BY <1>1, <1>2, <2>7, <2>8, <2>9, <2>10, ToolRefreshes
<1> QED
  BY <1>5, <1>6

\* What the stage of a refresh at the integration x says.
LEMMA ToolStands ==
  ASSUME NEW k \in ToolOps, NEW x, k.i = {x}, k.pc \in ToolListing \ {"next"}, ToolStage(k)
  PROVE  /\ k.seen = integ /\ \A y \in k.todo : T!Active(y)
         /\ ToolOwn(k.todo \cup {x})
         /\ k.pc \in {"read", "add"} => ToolShared(k.todo \cup {x})
         /\ k.pc \notin {"read", "add"} => ToolShared(k.todo)
         /\ k.pc \in {"read", "add", "record"} =>
              T!Active(x) /\ integ[x].mode # "standalone" /\ x \notin k.todo
         /\ k.pc \in {"own", "ownRead", "ownAdd"} => x \notin k.todo
         /\ k.pc \in {"add", "record", "ownAdd"} => k.tools = T!Enabled(x)
         /\ k.pc \in {"ownRead", "ownAdd"} => own[x].tools = {}
<1>1. k.todo \cup {} = k.todo
  OBVIOUS
<1>2. k.pc \notin {"read", "add"} => ToolShared(k.todo)
  BY <1>1 DEF ToolStage
<1>3. k.pc \in {"read", "add"} => ToolShared(k.todo \cup {x})
  BY DEF ToolStage
<1>4. k.pc \in {"own", "ownRead", "ownAdd"} => x \notin k.todo
  BY DEF ToolStage
<1> QED
  BY <1>2, <1>3, <1>4 DEF ToolStage

\* The same of a stage reached by a step that leaves the tables alone.
LEMMA ToolReaches ==
  ASSUME UNCHANGED T!tables, NEW k \in ToolOps, NEW x, k.i = {x}, k.pc \in ToolListing \ {"next"},
         k.seen = integ, \A y \in k.todo : T!Active(y), x \notin k.todo,
         ToolOwn(k.todo \cup {x})',
         k.pc \in {"read", "add"} => ToolShared(k.todo \cup {x})',
         k.pc \notin {"read", "add"} => ToolShared(k.todo)',
         k.pc \in {"read", "add", "record"} => T!Active(x) /\ integ[x].mode # "standalone",
         k.pc \in {"add", "record", "ownAdd"} => k.tools = T!Enabled(x),
         k.pc \in {"ownRead", "ownAdd"} => own'[x].tools = {}
  PROVE  ToolStage(k)'
<1>1. k.todo \cup {} = k.todo
  OBVIOUS
<1>2. k.seen = integ' /\ \A y : T!Active(y)' = T!Active(y) /\ T!Enabled(y)' = T!Enabled(y)
  BY ToolSame DEF T!tables
<1>3. /\ ToolShared(k.todo \cup (IF k.pc \in {"read", "add"} THEN k.i ELSE {}))'
      /\ ToolOwn(k.todo \cup (IF k.pc = "next" THEN {} ELSE k.i))'
  BY <1>1
<1>4. k.pc \in {"read", "add", "record"} =>
        \A y \in k.i : T!Active(y)' /\ integ'[y].mode # "standalone" /\ y \notin k.todo
  BY <1>2
<1>5. k.i \cap k.todo = {} /\ \A y \in k.todo : T!Active(y)'
  BY <1>2
<1>6. k.pc \in {"add", "record", "ownAdd"} => \A y \in k.i : k.tools = T!Enabled(y)'
  BY <1>2
<1>7. k.pc \in {"ownRead", "ownAdd"} => \A y \in k.i : own'[y].tools = {}
  OBVIOUS
<1> QED
  BY <1>2, <1>3, <1>4, <1>5, <1>6, <1>7 DEF ToolStage

\* A refresh that goes on with the integration it is at, or with the next.
LEMMA ToolGoesOn ==
  ASSUME ToolInv, NEW h \in ToolSetup.Handlers, tOp[h].pc \in ToolListing \ {"next"},
         NEW new \in ToolOps, new.pc \in ToolListing, new.i = tOp[h].i, new.seen = tOp[h].seen,
         new.todo = tOp[h].todo
  PROVE  /\ ToolShape(new) /\ new.pc \in T!Refreshing /\ new.pc # "idle"
         /\ tOp[h].pc \in T!Refreshing /\ tOp[h] \in ToolOps /\ ToolRight
         /\ \E x \in ToolSetup.Integrations : tOp[h].i = {x}
         /\ tOp[h].todo \subseteq ToolSetup.Integrations
<1>1. ToolRight /\ tOp[h] \in ToolOps /\ ToolShape(tOp[h])
  BY DEF ToolInv, ToolRight
<1>2. /\ \E x \in ToolSetup.Integrations : tOp[h].i = {x}
      /\ tOp[h].seen \in [ToolSetup.Integrations -> ToolKinds] /\ tOp[h].todo \subseteq ToolSetup.Integrations
  BY <1>1 DEF ToolShape
<1>3. new.pc \notin {"seed", "drop"} /\ new.pc \in T!Refreshing /\ tOp[h].pc \in T!Refreshing
  BY DEF ToolListing, T!Refreshing
<1>4. ToolShape(new) /\ new.pc # "idle"
  BY <1>2, <1>3 DEF ToolShape, ToolListing
<1> QED
  BY <1>1, <1>2, <1>3, <1>4

LEMMA ToolReads == ASSUME ToolInv, NEW h \in ToolSetup.Handlers, T!Read(h) PROVE ToolInv'
<1> DEFINE at == IF tOp[h].pc = "read" THEN "add" ELSE "ownAdd"
           found == UNION {T!Enabled(i) : i \in tOp[h].i}
           to == [tOp[h] EXCEPT !.tools = found, !.pc = at]
<1>1. /\ tOp[h].pc \in {"read", "ownRead"} /\ T!Set(h, to) /\ ToolRight /\ tOp[h] \in ToolOps
      /\ UNCHANGED <<T!tables, T!surfaces, T!hist, tFuel>>
  BY DEF ToolInv, ToolRight, T!Read
<1>2. found \in SUBSET ToolSetup.Names
  BY DEF T!Enabled
<1>3. /\ at \in {"add", "ownAdd"} /\ at = "add" <=> tOp[h].pc = "read"
      /\ at = "ownAdd" <=> tOp[h].pc = "ownRead"
  BY <1>1
<1> HIDE DEF at, found
<1>4. /\ to \in ToolOps /\ to.pc = at /\ to.i = tOp[h].i /\ to.seen = tOp[h].seen
      /\ to.todo = tOp[h].todo /\ to.tools = found
  BY <1>1, <1>2, <1>3 DEF ToolOps, ToolListing
<1> HIDE DEF to
<1>5. PICK new \in ToolOps : new = to
  BY <1>4
<1>6. tOp[h].pc \in ToolListing \ {"next"} /\ new.pc \in ToolListing
  BY <1>1, <1>3, <1>4, <1>5 DEF ToolListing
<1>7. /\ ToolShape(new) /\ new.pc \in T!Refreshing /\ new.pc # "idle" /\ tOp[h].pc \in T!Refreshing
      /\ \E x \in ToolSetup.Integrations : tOp[h].i = {x}
  BY <1>4, <1>5, <1>6, ToolGoesOn
<1>8. PICK x \in ToolSetup.Integrations : tOp[h].i = {x}
  BY <1>7
<1>9. found = T!Enabled(x)
  BY <1>8 DEF found
<1>10. ToolSurfaces' /\ UNCHANGED <<shared, names, own>>
  BY <1>1 DEF ToolRight, ToolSurfaces, T!surfaces, T!hist
<1>11. ToolKnown(tOp[h]) => ToolKnown(new)'
  BY <1>1, <1>3, <1>4, <1>5, <1>10 DEF ToolKnown, ToolListing
<1>12. ASSUME ToolStage(tOp[h]) PROVE ToolStage(new)'
  <2>1. /\ tOp[h].seen = integ /\ \A y \in tOp[h].todo : T!Active(y)
        /\ ToolOwn(tOp[h].todo \cup {x}) /\ x \notin tOp[h].todo
        /\ tOp[h].pc = "read" =>
             /\ ToolShared(tOp[h].todo \cup {x}) /\ T!Active(x) /\ integ[x].mode # "standalone"
        /\ tOp[h].pc = "ownRead" => ToolShared(tOp[h].todo) /\ own[x].tools = {}
    BY <1>1, <1>6, <1>8, <1>12, ToolStands
  <2>2. new.i = {x} /\ new.todo = tOp[h].todo /\ new.seen = tOp[h].seen /\ new.tools = T!Enabled(x)
    BY <1>4, <1>5, <1>8, <1>9
  <2>3. /\ ToolOwn(new.todo \cup {x})' <=> ToolOwn(new.todo \cup {x})
        /\ ToolShared(new.todo \cup {x})' <=> ToolShared(new.todo \cup {x})
        /\ ToolShared(new.todo)' <=> ToolShared(new.todo)
    BY <1>1, <1>10, ToolSurfaced
  <2>4. new.pc = at
    BY <1>4, <1>5
  <2>5. /\ ToolOwn(new.todo \cup {x})'
        /\ new.pc = "add" =>
             /\ ToolShared(new.todo \cup {x})' /\ T!Active(x) /\ integ[x].mode # "standalone"
        /\ new.pc = "ownAdd" => ToolShared(new.todo)' /\ own'[x].tools = {}
    BY <1>3, <1>10, <2>1, <2>2, <2>3, <2>4
  <2> QED
    BY <1>1, <1>3, <1>6, <2>1, <2>2, <2>4, <2>5, ToolReaches
<1> QED
  BY <1>1, <1>4, <1>5, <1>7, <1>10, <1>11, <1>12, ToolRefreshes

LEMMA ToolAdds == ASSUME ToolInv, NEW h \in ToolSetup.Handlers, T!Add(h) PROVE ToolInv'
<1> DEFINE to == [tOp[h] EXCEPT !.pc = "record"]
<1>1. /\ tOp[h].pc = "add" /\ T!Set(h, to) /\ ToolRight /\ tOp[h] \in ToolOps
      /\ UNCHANGED <<T!tables, names, own, T!hist, tFuel>>
      /\ shared' = shared \cup (tOp[h].i \X tOp[h].tools)
  BY DEF ToolInv, ToolRight, T!Add, T!Goto
<1>2. /\ to \in ToolOps /\ to.pc = "record" /\ to.i = tOp[h].i /\ to.seen = tOp[h].seen
      /\ to.todo = tOp[h].todo /\ to.tools = tOp[h].tools
  BY <1>1 DEF ToolOps, ToolListing
<1> HIDE DEF to
<1>3. PICK new \in ToolOps : new = to
  BY <1>2
<1>4. tOp[h].pc \in ToolListing \ {"next"} /\ new.pc \in ToolListing
  BY <1>1, <1>2, <1>3 DEF ToolListing
<1>5. /\ ToolShape(new) /\ new.pc \in T!Refreshing /\ new.pc # "idle" /\ tOp[h].pc \in T!Refreshing
      /\ \E x \in ToolSetup.Integrations : tOp[h].i = {x}
  BY <1>2, <1>3, <1>4, ToolGoesOn
<1>6. PICK x \in ToolSetup.Integrations : tOp[h].i = {x}
  BY <1>5
<1>7. ToolSurfaces'
  <2>1. tOp[h].i \subseteq ToolSetup.Integrations /\ tOp[h].tools \subseteq ToolSetup.Names
    BY <1>1 DEF ToolOps
  <2>2. shared' \subseteq T!Tools
    BY <1>1, <2>1 DEF ToolRight, ToolSurfaces, T!Tools
  <2> QED
    BY <1>1, <2>2 DEF ToolRight, ToolSurfaces, T!hist
<1>8. ToolKnown(tOp[h]) => ToolKnown(new)'
  BY <1>1, <1>2, <1>3 DEF ToolKnown, ToolListing
<1>9. ASSUME ToolStage(tOp[h]) PROVE ToolStage(new)'
  <2>1. /\ tOp[h].seen = integ /\ \A y \in tOp[h].todo : T!Active(y)
        /\ ToolOwn(tOp[h].todo \cup {x}) /\ ToolShared(tOp[h].todo \cup {x})
        /\ T!Active(x) /\ integ[x].mode # "standalone" /\ x \notin tOp[h].todo
        /\ tOp[h].tools = T!Enabled(x)
    BY <1>1, <1>4, <1>6, <1>9, ToolStands
  <2>2. /\ new.i = {x} /\ new.todo = tOp[h].todo /\ new.seen = tOp[h].seen
        /\ new.tools = tOp[h].tools /\ new.pc = "record"
    BY <1>2, <1>3, <1>6
  <2>3. ToolOwn(new.todo \cup {x})'
    BY <1>1, <2>1, <2>2, ToolSurfaced
  <2>4. shared' = {t \in T!Served : t[1] \notin new.todo}
    <3>1. {x} \X T!Enabled(x) = {t \in T!Served : t[1] = x}
      BY <1>6, <2>1 DEF T!Served, T!Tools, T!Enabled
    <3>2. shared = {t \in T!Served : t[1] \notin new.todo /\ t[1] # x} /\ x \notin new.todo
      BY <2>1, <2>2 DEF ToolShared
    <3>3. shared' = shared \cup ({x} \X T!Enabled(x))
      BY <1>1, <1>6, <2>1
    <3> QED
      BY <3>1, <3>2, <3>3
  <2>5. ToolShared(new.todo)'
    BY <1>1, <2>4, ToolSame DEF ToolShared
  <2> QED
    BY <1>1, <1>4, <2>1, <2>2, <2>3, <2>5, ToolReaches
<1> QED
  BY <1>1, <1>2, <1>3, <1>5, <1>7, <1>8, <1>9, ToolRefreshes

LEMMA ToolRecords == ASSUME ToolInv, NEW h \in ToolSetup.Handlers, T!Record(h) PROVE ToolInv'
<1> DEFINE to == [tOp[h] EXCEPT !.pc = "own"]
<1>1. /\ tOp[h].pc = "record" /\ T!Set(h, to) /\ ToolRight /\ tOp[h] \in ToolOps
      /\ UNCHANGED <<T!tables, shared, own, T!hist, tFuel>>
      /\ names' = names \cup (tOp[h].i \X tOp[h].tools)
  BY DEF ToolInv, ToolRight, T!Record, T!Goto
<1>2. /\ to \in ToolOps /\ to.pc = "own" /\ to.i = tOp[h].i /\ to.seen = tOp[h].seen
      /\ to.todo = tOp[h].todo /\ to.tools = tOp[h].tools
  BY <1>1 DEF ToolOps, ToolListing
<1> HIDE DEF to
<1>3. PICK new \in ToolOps : new = to
  BY <1>2
<1>4. tOp[h].pc \in ToolListing \ {"next"} /\ new.pc \in ToolListing
  BY <1>1, <1>2, <1>3 DEF ToolListing
<1>5. /\ ToolShape(new) /\ new.pc \in T!Refreshing /\ new.pc # "idle" /\ tOp[h].pc \in T!Refreshing
      /\ \E x \in ToolSetup.Integrations : tOp[h].i = {x}
  BY <1>2, <1>3, <1>4, ToolGoesOn
<1>6. PICK x \in ToolSetup.Integrations : tOp[h].i = {x}
  BY <1>5
<1>7. ToolSurfaces'
  <2>1. tOp[h].i \subseteq ToolSetup.Integrations /\ tOp[h].tools \subseteq ToolSetup.Names
    BY <1>1 DEF ToolOps
  <2>2. names' \subseteq T!Tools
    BY <1>1, <2>1 DEF ToolRight, ToolSurfaces, T!Tools
  <2> QED
    BY <1>1, <2>2 DEF ToolRight, ToolSurfaces, T!hist
<1>8. ToolKnown(tOp[h]) => ToolKnown(new)'
  BY <1>1, <1>2, <1>3 DEF ToolKnown, ToolListing
<1>9. ASSUME ToolStage(tOp[h]) PROVE ToolStage(new)'
  <2>1. /\ tOp[h].seen = integ /\ \A y \in tOp[h].todo : T!Active(y)
        /\ ToolOwn(tOp[h].todo \cup {x}) /\ ToolShared(tOp[h].todo) /\ x \notin tOp[h].todo
    BY <1>1, <1>4, <1>6, <1>9, ToolStands
  <2>2. new.i = {x} /\ new.todo = tOp[h].todo /\ new.seen = tOp[h].seen /\ new.pc = "own"
    BY <1>2, <1>3, <1>6
  <2>3. ToolOwn(new.todo \cup {x})' /\ ToolShared(new.todo)'
    BY <1>1, <2>1, <2>2, ToolSurfaced
  <2> QED
    BY <1>1, <1>4, <2>1, <2>2, <2>3, ToolReaches
<1> QED
  BY <1>1, <1>2, <1>3, <1>5, <1>7, <1>8, <1>9, ToolRefreshes

\* A refresh that is through with the integration x.
LEMMA ToolLeaves ==
  ASSUME ToolInv, NEW h \in ToolSetup.Handlers, tOp[h].pc \in {"own", "ownAdd"}, NEW x \in ToolSetup.Integrations,
         tOp[h].i = {x}, T!Goto(h, "next"), UNCHANGED <<T!tables, shared, names, T!hist, tFuel>>,
         own' \in [ToolSetup.Integrations -> [there : BOOLEAN, tools : SUBSET ToolSetup.Names]],
         \A y \in ToolSetup.Integrations \ {x} : own'[y] = own[y],
         ToolStage(tOp[h]) => (own'[x].there /\ T!Active(x) => own'[x].tools = T!Enabled(x))
  PROVE  ToolInv'
<1> DEFINE to == [tOp[h] EXCEPT !.pc = "next"]
<1>1. T!Set(h, to) /\ ToolRight /\ tOp[h] \in ToolOps
  BY DEF ToolInv, ToolRight, T!Goto
<1>2. /\ to \in ToolOps /\ to.pc = "next" /\ to.i = tOp[h].i /\ to.seen = tOp[h].seen
      /\ to.todo = tOp[h].todo
  BY <1>1 DEF ToolOps, ToolListing
<1> HIDE DEF to
<1>3. PICK new \in ToolOps : new = to
  BY <1>2
<1>4. tOp[h].pc \in ToolListing \ {"next"} /\ new.pc \in ToolListing
  BY <1>2, <1>3 DEF ToolListing
<1>5. /\ ToolShape(new) /\ new.pc \in T!Refreshing /\ new.pc # "idle" /\ tOp[h].pc \in T!Refreshing
  BY <1>2, <1>3, <1>4, ToolGoesOn
<1>6. ToolSurfaces'
  BY <1>1 DEF ToolRight, ToolSurfaces, T!hist
<1>7. ToolKnown(tOp[h]) => ToolKnown(new)'
  BY <1>1, <1>2, <1>3 DEF ToolKnown, ToolListing
<1>8. ASSUME ToolStage(tOp[h]) PROVE ToolStage(new)'
  <2>1. /\ tOp[h].seen = integ /\ \A y \in tOp[h].todo : T!Active(y)
        /\ ToolOwn(tOp[h].todo \cup {x}) /\ ToolShared(tOp[h].todo)
    BY <1>1, <1>4, <1>8, ToolStands
  <2>2. new.i = {x} /\ new.todo = tOp[h].todo /\ new.seen = tOp[h].seen /\ new.pc = "next"
    BY <1>2, <1>3
  <2>3. ToolShared(new.todo)'
    BY <2>1, <2>2, ToolSurfaced
  <2>4. \A y \in ToolSetup.Integrations \ new.todo : own'[y].there /\ T!Active(y) => own'[y].tools = T!Enabled(y)
    <3> SUFFICES ASSUME NEW y \in ToolSetup.Integrations \ new.todo, own'[y].there, T!Active(y)
                 PROVE  own'[y].tools = T!Enabled(y)
      OBVIOUS
    <3>1. CASE y = x
      BY <1>8, <3>1
    <3>2. CASE y # x
      BY <2>1, <2>2, <3>2 DEF ToolOwn
    <3> QED
      BY <3>1, <3>2
  <2>5. ToolOwn(new.todo)'
    BY <2>4, ToolSame DEF ToolOwn
  <2>6. new.todo \cup {} = new.todo
    OBVIOUS
  <2>7. /\ ToolShared(new.todo \cup (IF new.pc \in {"read", "add"} THEN new.i ELSE {}))'
        /\ ToolOwn(new.todo \cup (IF new.pc = "next" THEN {} ELSE new.i))'
    BY <2>2, <2>3, <2>5, <2>6
  <2>8. new.seen = integ' /\ \A y \in new.todo : T!Active(y)'
    BY <2>1, <2>2, ToolSame DEF T!tables
  <2> QED
    BY <2>2, <2>7, <2>8 DEF ToolStage
<1> QED
  BY <1>1, <1>2, <1>3, <1>5, <1>6, <1>7, <1>8, ToolRefreshes

LEMMA ToolOwnTakes == ASSUME ToolInv, NEW h \in ToolSetup.Handlers, T!OwnTake(h) PROVE ToolInv'
<1> DEFINE to == [tOp[h] EXCEPT !.pc = "ownRead"]
           Taken(i) == IF own[i].there
                       THEN own' = [own EXCEPT ![i].tools = {}] /\ T!Goto(h, "ownRead")
                       ELSE T!Goto(h, "next") /\ UNCHANGED own
<1>1. /\ tOp[h].pc = "own" /\ ToolRight /\ tOp[h] \in ToolOps
      /\ UNCHANGED <<T!tables, shared, names, T!hist, tFuel>>
      /\ Taken(CHOOSE x \in tOp[h].i : TRUE)
      /\ own \in [ToolSetup.Integrations -> [there : BOOLEAN, tools : SUBSET ToolSetup.Names]]
  BY DEF ToolInv, ToolRight, ToolSurfaces, T!OwnTake
<1>2. tOp[h].pc \in ToolListing \ {"next"}
  BY <1>1 DEF ToolListing
<1>3. \E x \in ToolSetup.Integrations : tOp[h].i = {x}
  BY <1>1, <1>2 DEF ToolRight, ToolShape
<1>4. PICK x \in ToolSetup.Integrations : tOp[h].i = {x}
  BY <1>3
<1>5. (CHOOSE i \in tOp[h].i : TRUE) = x
  BY <1>4
<1> HIDE DEF Taken
<1>6. Taken(x)
  BY <1>1, <1>5
<1>7. CASE own[x].there
  <2>1. own' = [own EXCEPT ![x].tools = {}] /\ T!Set(h, to)
    BY <1>6, <1>7 DEF Taken, T!Goto
  <2>2. /\ to \in ToolOps /\ to.pc = "ownRead" /\ to.i = tOp[h].i /\ to.seen = tOp[h].seen
        /\ to.todo = tOp[h].todo
    BY <1>1 DEF ToolOps, ToolListing
  <2> HIDE DEF to
  <2>3. PICK new \in ToolOps : new = to
    BY <2>2
  <2>4. new.pc \in ToolListing
    BY <2>2, <2>3 DEF ToolListing
  <2>5. /\ ToolShape(new) /\ new.pc \in T!Refreshing /\ new.pc # "idle" /\ tOp[h].pc \in T!Refreshing
    BY <1>2, <2>2, <2>3, <2>4, ToolGoesOn
  <2>6. /\ own' \in [ToolSetup.Integrations -> [there : BOOLEAN, tools : SUBSET ToolSetup.Names]]
        /\ own'[x].tools = {} /\ \A y \in ToolSetup.Integrations \ {x} : own'[y] = own[y]
    BY <1>1, <2>1
  <2>7. ToolSurfaces'
    BY <1>1, <2>6 DEF ToolRight, ToolSurfaces, T!hist
  <2>8. ToolKnown(tOp[h]) => ToolKnown(new)'
    BY <1>1, <2>2, <2>3 DEF ToolKnown, ToolListing
  <2>9. ASSUME ToolStage(tOp[h]) PROVE ToolStage(new)'
    <3>1. /\ tOp[h].seen = integ /\ \A y \in tOp[h].todo : T!Active(y)
          /\ ToolOwn(tOp[h].todo \cup {x}) /\ ToolShared(tOp[h].todo) /\ x \notin tOp[h].todo
      BY <1>1, <1>2, <1>4, <2>9, ToolStands
    <3>2. new.i = {x} /\ new.todo = tOp[h].todo /\ new.seen = tOp[h].seen /\ new.pc = "ownRead"
      BY <1>4, <2>2, <2>3
    <3>3. ToolShared(new.todo)'
      BY <1>1, <3>1, <3>2, ToolSurfaced
    <3>4. \A y \in ToolSetup.Integrations \ (new.todo \cup {x}) :
            own'[y].there /\ T!Active(y) => own'[y].tools = T!Enabled(y)
      BY <2>6, <3>1, <3>2 DEF ToolOwn
    <3>5. ToolOwn(new.todo \cup {x})'
      BY <1>1, <3>4, ToolSame DEF ToolOwn
    <3> QED
      BY <1>1, <2>4, <2>6, <3>1, <3>2, <3>3, <3>5, ToolReaches
  <2> QED
    BY <1>1, <2>1, <2>2, <2>3, <2>5, <2>7, <2>8, <2>9, ToolRefreshes
<1>8. CASE ~ own[x].there
  <2>1. T!Goto(h, "next") /\ own' = own
    BY <1>6, <1>8 DEF Taken
  <2>2. ~ own'[x].there
    BY <1>8, <2>1
  <2> QED
    BY <1>1, <1>4, <2>1, <2>2, ToolLeaves
<1> QED
  BY <1>7, <1>8

LEMMA ToolOwnAdds == ASSUME ToolInv, NEW h \in ToolSetup.Handlers, T!OwnAdd(h) PROVE ToolInv'
<1>1. /\ tOp[h].pc = "ownAdd" /\ ToolRight /\ tOp[h] \in ToolOps /\ T!Goto(h, "next")
      /\ UNCHANGED <<T!tables, shared, names, T!hist, tFuel>>
      /\ own' = [i \in ToolSetup.Integrations |-> IF i \in tOp[h].i
                                        THEN [own[i] EXCEPT !.tools = @ \cup tOp[h].tools]
                                        ELSE own[i]]
      /\ own \in [ToolSetup.Integrations -> [there : BOOLEAN, tools : SUBSET ToolSetup.Names]]
  BY DEF ToolInv, ToolRight, ToolSurfaces, T!OwnAdd
<1>2. tOp[h].pc \in ToolListing \ {"next"}
  BY <1>1 DEF ToolListing
<1>3. \E x \in ToolSetup.Integrations : tOp[h].i = {x}
  BY <1>1, <1>2 DEF ToolRight, ToolShape
<1>4. PICK x \in ToolSetup.Integrations : tOp[h].i = {x}
  BY <1>3
<1>5. tOp[h].tools \subseteq ToolSetup.Names
  BY <1>1 DEF ToolOps
<1>6. /\ own'[x] = [own[x] EXCEPT !.tools = @ \cup tOp[h].tools]
      /\ \A y \in ToolSetup.Integrations \ {x} : own'[y] = own[y]
  BY <1>1, <1>4
<1>7. own' \in [ToolSetup.Integrations -> [there : BOOLEAN, tools : SUBSET ToolSetup.Names]]
  BY <1>1, <1>5
<1>8. own'[x].tools = own[x].tools \cup tOp[h].tools
  BY <1>1, <1>6
<1>9. ToolStage(tOp[h]) => own'[x].tools = T!Enabled(x)
  <2>1. ToolStage(tOp[h]) => own[x].tools = {} /\ tOp[h].tools = T!Enabled(x)
    BY <1>1, <1>2, <1>4, ToolStands
  <2> QED
    BY <1>8, <2>1
<1> QED
  BY <1>1, <1>4, <1>6, <1>7, <1>9, ToolLeaves

-----------------------------------------------------------------------------
(* A start.                                                                *)

\* What a start leaves of a row.
LEMMA ToolReseeds ==
  ASSUME T!ConstantsAssumption, ToolRight, lastId < ToolSetup.MaxId, lastId' = lastId + 1,
         NEW t \in T!Tools, NEW wanted \in BOOLEAN
  PROVE  /\ T!Reseeded(t, wanted) \in ToolRows /\ T!Reseeded(t, wanted).id <= lastId'
         /\ T!Reseeded(t, wanted).on = T!Reseeded(t, wanted).chosen
         /\ T!Reseeded(t, wanted).seeded => ~ T!Reseeded(t, wanted).hand
         /\ T!Reseeded(t, wanted).hand => T!Reseeded(t, wanted).id # 0
         /\ tRow[t].hand => T!Reseeded(t, wanted).id # 0
<1>1. /\ tRow[t] \in ToolRows /\ lastId \in Nat /\ ToolSetup.MaxId \in Nat /\ lastId' \in 0..ToolSetup.MaxId
      /\ tRow[t].id <= lastId /\ tRow[t].on = tRow[t].chosen /\ (tRow[t].seeded => ~ tRow[t].hand)
      /\ tRow[t].hand => tRow[t].id # 0
  BY DEF ToolRight, ToolTables, ToolRow, T!ConstantsAssumption
<1>2. CASE wanted /\ tRow[t].id = 0
  <2>1. T!Reseeded(t, wanted) = T!NewRow(TRUE)
    BY <1>2 DEF T!Reseeded
  <2>2. /\ T!NewRow(TRUE) \in ToolRows /\ T!NewRow(TRUE).id = lastId' /\ ~ T!NewRow(TRUE).hand
        /\ T!NewRow(TRUE).on = T!NewRow(TRUE).chosen
    BY <1>1 DEF T!NewRow, ToolRows
  <2>3. lastId' <= lastId' /\ lastId' # 0
    BY <1>1
  <2> QED
    BY <2>1, <2>2, <2>3
<1>3. CASE wanted /\ tRow[t].id # 0
  <2>1. T!Reseeded(t, wanted) = T!Met(tRow[t])
    BY <1>3 DEF T!Reseeded
  <2>2. /\ T!Met(tRow[t]) \in ToolRows /\ T!Met(tRow[t]).id = tRow[t].id /\ ~ T!Met(tRow[t]).hand
        /\ T!Met(tRow[t]).on = tRow[t].on /\ T!Met(tRow[t]).chosen = tRow[t].chosen
    BY <1>1 DEF T!Met, ToolRows
  <2>3. tRow[t].id <= lastId'
    BY <1>1 DEF ToolRows
  <2> QED
    BY <1>1, <1>3, <2>1, <2>2, <2>3
<1>4. CASE ~ wanted /\ tRow[t].seeded
  <2>1. T!Reseeded(t, wanted) = T!NoRow
    BY <1>4 DEF T!Reseeded
  <2>2. 0 <= lastId' /\ ~ tRow[t].hand
    BY <1>1, <1>4
  <2>3. /\ T!NoRow \in ToolRows /\ T!NoRow.id = 0 /\ T!NoRow.on = T!NoRow.chosen /\ ~ T!NoRow.hand
    BY ToolIdle DEF T!NoRow
  <2> QED
    BY <2>1, <2>2, <2>3
<1>5. CASE ~ wanted /\ ~ tRow[t].seeded
  <2>1. T!Reseeded(t, wanted) = tRow[t]
    BY <1>5 DEF T!Reseeded
  <2>2. tRow[t].id <= lastId'
    BY <1>1 DEF ToolRows
  <2> QED
    BY <1>1, <1>5, <2>1, <2>2
<1> QED
  BY <1>2, <1>3, <1>4, <1>5

LEMMA ToolStarts == ASSUME T!ConstantsAssumption, ToolInv, T!Restart PROVE ToolInv'
<1>1. /\ ToolRight /\ tFuel > 0 /\ tFuel' = tFuel - 1 /\ lastId < ToolSetup.MaxId /\ lastId' = lastId + 1
      /\ integ' = integ /\ shared' = T!Served' /\ names' = T!Served' /\ tangled' = FALSE
      /\ tOp' = [h \in ToolSetup.Handlers |-> T!Idle]
      /\ lost' = (lost \/ \E t \in T!Tools : tRow[t].hand /\ tRow'[t].id = 0)
      /\ own' = [i \in ToolSetup.Integrations |-> IF T!Active(i) /\ integ[i].mode # "joined"
                                        THEN [there |-> TRUE, tools |-> T!Enabled(i)']
                                        ELSE T!NoSurface]
  BY DEF ToolInv, T!Restart, T!Spend
<1>2. PICK cats \in [ToolSetup.Integrations -> ToolSetup.Catalogues] :
        /\ catalogue' = cats
        /\ tRow' = [t \in T!Tools |-> T!Reseeded(t, integ[t[1]].there /\ t[2] \in cats[t[1]])]
  BY DEF T!Restart
<1>3. ASSUME NEW t \in T!Tools
      PROVE  tRow'[t] \in ToolRows /\ ToolRow(t)' /\ (tRow[t].hand => tRow'[t].id # 0)
  <2>1. PICK wanted \in BOOLEAN : wanted = (integ[t[1]].there /\ t[2] \in cats[t[1]])
    OBVIOUS
  <2>2. tRow'[t] = T!Reseeded(t, wanted)
    BY <1>2, <2>1
  <2> QED
    BY <1>1, <2>2, ToolReseeds DEF ToolRow
<1>4. ToolTables'
  <2>1. tRow' \in [T!Tools -> ToolRows]
    BY <1>2, <1>3
  <2> QED
    BY <1>1, <1>2, <2>1 DEF ToolRight, ToolTables, T!ConstantsAssumption
<1>5. ToolSurfaces'
  <2>1. T!Served' \subseteq T!Tools /\ \A x \in ToolSetup.Integrations : T!Enabled(x)' \subseteq ToolSetup.Names
    BY DEF T!Served, T!Enabled
  <2>2. \A x \in ToolSetup.Integrations : own'[x] \in [there : BOOLEAN, tools : SUBSET ToolSetup.Names]
    <3>1. T!NoSurface \in [there : BOOLEAN, tools : SUBSET ToolSetup.Names]
      BY DEF T!NoSurface
    <3>2. \A x \in ToolSetup.Integrations :
            [there |-> TRUE, tools |-> T!Enabled(x)'] \in [there : BOOLEAN, tools : SUBSET ToolSetup.Names]
      BY <2>1
    <3> QED
      BY <1>1, <3>1, <3>2
  <2>3. own' \in [ToolSetup.Integrations -> [there : BOOLEAN, tools : SUBSET ToolSetup.Names]]
    BY <1>1, <2>2
  <2>4. tFuel' \in 0..ToolSetup.Budget
    BY <1>1 DEF ToolRight, ToolSurfaces, T!ConstantsAssumption
  <2> QED
    BY <1>1, <2>1, <2>3, <2>4 DEF ToolSurfaces
<1>6. lost' = FALSE
  BY <1>1, <1>3 DEF ToolRight
<1>7. tOp' \in [ToolSetup.Handlers -> ToolOps] /\ \A h \in ToolSetup.Handlers : tOp'[h].pc = "idle" /\ ToolShape(tOp[h])'
  BY <1>1, ToolIdle DEF ToolShape, ToolListing
<1>8. ToolRight'
  BY <1>3, <1>4, <1>5, <1>6, <1>7 DEF ToolRight
<1>9. ToolFollows'
  <2>1. {t \in T!Served : t[1] \notin {}}' = T!Served'
    OBVIOUS
  <2>2. ToolShared({})'
    BY <1>1, <2>1 DEF ToolShared
  <2>3. \A x \in ToolSetup.Integrations : own'[x].there => own'[x].tools = T!Enabled(x)'
    <3> SUFFICES ASSUME NEW x \in ToolSetup.Integrations, own'[x].there PROVE own'[x].tools = T!Enabled(x)'
      OBVIOUS
    <3>1. ~ T!NoSurface.there
      BY DEF T!NoSurface
    <3> QED
      BY <1>1, <3>1
  <2>4. ToolOwn({})'
    BY <2>3 DEF ToolOwn
  <2> QED
    BY <2>2, <2>4 DEF ToolFollows
<1>10. ToolSync'
  BY <1>1, <1>7, <1>9, ToolStages DEF ToolSync
<1> QED
  BY <1>8, <1>10 DEF ToolInv

-----------------------------------------------------------------------------
(* Every step.                                                             *)

LEMMA ToolKeeps == ASSUME T!ConstantsAssumption, ToolInv, [T!Next]_(T!vars) PROVE ToolInv'
<1>1. ASSUME NEW h \in ToolSetup.Handlers, T!Request(h) PROVE ToolInv'
  BY <1>1, ToolSaves, ToolRemoves, ToolToggles, ToolSeeds, ToolCreates, ToolDeletes,
     ToolSeedsOne, ToolFindsStale, ToolDrops DEF T!Request
<1>2. ASSUME NEW h \in ToolSetup.Handlers, T!RefreshStep(h) PROVE ToolInv'
  BY <1>2, ToolTakes, ToolRebinds, ToolLists, ToolNext, ToolReads, ToolAdds, ToolRecords,
     ToolOwnTakes, ToolOwnAdds DEF T!RefreshStep
<1>3. ASSUME NEW h \in ToolSetup.Handlers, T!Cut(h) PROVE ToolInv'
  BY <1>3, ToolCuts
<1>4. CASE T!Restart
  BY <1>4, ToolStarts
<1>5. CASE UNCHANGED T!vars
  <2>1. UNCHANGED <<integ, catalogue, tRow, lastId, shared, names, own, tOp, lost, tangled, tFuel>>
    BY <1>5 DEF T!vars, T!tables, T!surfaces, T!hist
  <2>2. UNCHANGED T!tables
    BY <2>1 DEF T!tables
  <2>3. ToolRight => ToolRight'
    BY <2>1 DEF ToolRight, ToolTables, ToolSurfaces, ToolRow, ToolShape
  <2>4. ToolSync => ToolSync'
    <3>1. ToolFollows => ToolFollows'
      BY <2>1, <2>2, ToolSurfaced DEF ToolFollows
    <3>2. ASSUME NEW h \in ToolSetup.Handlers
          PROVE  (ToolKnown(tOp[h]) => ToolKnown(tOp[h])') /\ (ToolStage(tOp[h]) => ToolStage(tOp[h])')
      <4>1. ToolKnown(tOp[h]) => ToolKnown(tOp[h])'
        BY <2>1 DEF ToolKnown
      <4>2. PICK k : k = tOp[h]
        OBVIOUS
      <4>3. ToolStage(k) => ToolStage(k)'
        <5>1. \A S : (ToolShared(S)' <=> ToolShared(S)) /\ (ToolOwn(S)' <=> ToolOwn(S))
          BY <2>1, <2>2, ToolSurfaced
        <5>2. /\ \A y : T!Active(y)' = T!Active(y) /\ T!Enabled(y)' = T!Enabled(y)
              /\ integ' = integ /\ own' = own
          BY <2>1, <2>2, ToolSame
        <5> QED
          BY <5>1, <5>2 DEF ToolStage
      <4>4. ToolStage(tOp[h]) <=> ToolStage(k)
        BY <4>2
      <4>5. k = tOp'[h]
        BY <2>1, <4>2
      <4>6. ToolStage(k)' => ToolStage(tOp[h])'
        BY <4>5 DEF ToolStage
      <4> QED
        BY <4>1, <4>3, <4>4, <4>6
    <3> QED
      BY <2>1, <3>1, <3>2 DEF ToolSync, ToolQuiet
  <2> QED
    BY <2>1, <2>3, <2>4 DEF ToolInv
<1> QED
  BY <1>1, <1>2, <1>3, <1>4, <1>5 DEF T!Next

LEMMA ToolsFollow == ASSUME ToolInv PROVE T!TypeOK /\ T!SurfaceFollows /\ T!SeedingSpares
<1>1. T!TypeOK
  <2>1. \A h \in ToolSetup.Handlers :
          /\ tOp[h].pc \in {"idle", "seed", "stale", "drop", "take", "rebind", "list", "next",
                           "read", "add", "record", "own", "ownRead", "ownAdd"}
          /\ tOp[h].i \subseteq ToolSetup.Integrations /\ tOp[h].expected \subseteq ToolSetup.Names
    BY DEF ToolInv, ToolRight, ToolOps, ToolPending, ToolListing
  <2> QED
    BY <2>1 DEF T!TypeOK, ToolInv, ToolRight, ToolTables, ToolSurfaces, ToolKinds, ToolRows
<1>2. T!SurfaceFollows
  <2> SUFFICES ASSUME \A h \in ToolSetup.Handlers : tOp[h].pc = "idle", ~ tangled
               PROVE  /\ shared = T!Served
                      /\ \A i \in ToolSetup.Integrations : own[i].there /\ T!Active(i) => own[i].tools = T!Enabled(i)
    BY DEF T!SurfaceFollows
  <2>1. ToolShared({}) /\ ToolOwn({})
    BY DEF ToolInv, ToolSync, ToolFollows
  <2>2. {t \in T!Served : t[1] \notin {}} = T!Served
    OBVIOUS
  <2> QED
    BY <2>1, <2>2 DEF ToolShared, ToolOwn
<1>3. T!SeedingSpares
  BY DEF ToolInv, ToolRight, ToolRow, T!SeedingSpares
<1> QED
  BY <1>1, <1>2, <1>3

-----------------------------------------------------------------------------
(* Calls to a service that authenticates.                                  *)

AuthRecords ==
  [stage : U!Stages, attempt : 0..2, token : AuthSetup.Tokens \cup {AuthSetup.NoToken}, status : U!Statuses,
   outcome : {"ok", "error"}, audited : BOOLEAN]

\* The tables, without the calls.
AuthTables ==
  /\ auth \in {"oauth2", "session"} /\ rejects \in BOOLEAN
  /\ cache \in U!Entries /\ valid \subseteq AuthSetup.Tokens /\ forged \subseteq AuthSetup.Tokens
  /\ executed \in [AuthSetup.Calls -> 0..2] /\ popped \in SUBSET AuthSetup.Calls /\ aFuel \in 0..AuthSetup.Budget

\* What the service carried out, and whether it did, by the stage of a call: nothing
\* before the answer, nothing on an answer that is sent again.
AuthGood(c) ==
  /\ aCall[c].attempt = 0 => aCall[c].stage = "begin"
  /\ aCall[c].stage \in {"csrf", "store"} => aCall[c].token \in AuthSetup.Tokens
  /\ executed[c] # 0 => executed[c] = 1 /\ aCall[c].stage \in {"check", "record", "done"}
  /\ executed[c] # 0 /\ aCall[c].stage = "check" => aCall[c].status \in {"ok", "unreachable"}
  /\ executed[c] # 0 /\ aCall[c].stage = "done" => aCall[c].audited

\* The cache holds no credential the service has dropped.
AuthSound == cache = U!NoEntry \/ cache.token \in valid

\* Until another call empties the cache, a call that was refused finds an entry there.
AuthPending(c) == aCall[c].attempt = 1 /\ (c \in popped \/ cache # U!NoEntry)

\* Of a service that is reached, keeps its credentials and honours them: a call sends a
\* stale credential only the first time, and what it logs in for is good.
AuthCalm(c) ==
  /\ aCall[c].attempt = 2 => AuthSound
  /\ aCall[c].stage \in {"csrf", "store"} => aCall[c].token \in valid
  /\ aCall[c].stage = "send" => aCall[c].token \in valid \/ AuthPending(c)
  /\ aCall[c].stage = "check" =>
       \/ aCall[c].status = "ok"
       \/ /\ AuthPending(c)
          /\ \/ aCall[c].status = "unauthorized"
             \/ aCall[c].status = "expired" /\ auth = "oauth2"
  /\ aCall[c].stage \in {"record", "done"} => c \in popped \/ aCall[c].status = "ok"

AuthQuiet == aFuel = AuthSetup.Budget /\ ~ rejects

AuthInv ==
  /\ AuthTables /\ aCall \in [AuthSetup.Calls -> AuthRecords]
  /\ \A c \in AuthSetup.Calls : AuthGood(c)
  /\ AuthQuiet => forged = {} /\ \A c \in AuthSetup.Calls : AuthCalm(c)

-----------------------------------------------------------------------------
(* Steps.                                                                  *)

LEMMA AuthCount ==
  /\ \A S : U!Cardinality(S) = Cardinality(S)
  /\ \A S : U!IsFiniteSet(S) <=> IsFiniteSet(S)
<1>1. \A S : U!Cardinality(S) = Cardinality(S)
  BY DEF U!Cardinality, Cardinality
<1>2. \A S : U!IsFiniteSet(S) <=> IsFiniteSet(S)
  BY DEF U!IsFiniteSet, IsFiniteSet
<1> QED
  BY <1>1, <1>2

\* A credential is free: fewer are in use than there are.
LEMMA AuthFree ==
  ASSUME U!ConstantsAssumption, aCall \in [AuthSetup.Calls -> AuthRecords]
  PROVE  \E t \in AuthSetup.Tokens : t \notin U!InUse
<1> SUFFICES ASSUME AuthSetup.Tokens \subseteq U!InUse PROVE FALSE
  OBVIOUS
<1> DEFINE held == {aCall[c].token : c \in AuthSetup.Calls}
           f == [c \in AuthSetup.Calls |-> aCall[c].token]
<1>1. f \in Surjection(AuthSetup.Calls, held)
  BY DEF Surjection
<1>2. /\ IsFiniteSet(AuthSetup.Calls) /\ IsFiniteSet(AuthSetup.Tokens)
      /\ Cardinality(AuthSetup.Tokens) > Cardinality(AuthSetup.Calls) + 1
  BY AuthCount DEF U!ConstantsAssumption
<1> HIDE DEF f
<1>3. IsFiniteSet(held) /\ Cardinality(held) <= Cardinality(AuthSetup.Calls)
  BY <1>1, <1>2, FS_Surjection
<1>4. U!InUse = held \cup {cache.token}
  BY DEF U!InUse
<1> HIDE DEF held
<1>5. /\ IsFiniteSet(U!InUse)
      /\ Cardinality(U!InUse) = IF cache.token \in held THEN Cardinality(held) ELSE Cardinality(held) + 1
  BY <1>3, <1>4, FS_AddElement
<1>6. Cardinality(AuthSetup.Tokens) <= Cardinality(U!InUse)
  BY <1>5, FS_Subset
<1>7. Cardinality(AuthSetup.Tokens) \in Nat /\ Cardinality(AuthSetup.Calls) \in Nat /\ Cardinality(held) \in Nat
  BY <1>2, <1>3, FS_CardinalityType
<1> QED
  BY <1>2, <1>3, <1>5, <1>6, <1>7

\* A call takes a step towards new; the others stay.
LEMMA AuthMoves ==
  ASSUME AuthInv, NEW c \in AuthSetup.Calls, NEW new \in AuthRecords, U!Set(c, new), AuthTables',
         rejects' = rejects, auth' = auth, aFuel' = aFuel \/ aFuel' # AuthSetup.Budget,
         \A d \in AuthSetup.Calls \ {c} : executed'[d] = executed[d],
         popped \subseteq popped', aFuel' = aFuel => forged' \subseteq forged,
         aFuel' = aFuel /\ AuthSound => AuthSound',
         \A d \in AuthSetup.Calls \ {c} :
           aFuel' = aFuel /\ aCall[d].token \in valid => aCall[d].token \in valid',
         \A d \in AuthSetup.Calls \ {c} :
           AuthPending(d) /\ aCall[d].stage # "done" => d \in popped' \/ cache' # U!NoEntry,
         AuthGood(c)',
         AuthQuiet /\ aFuel' = aFuel /\ AuthCalm(c) /\ forged = {} => AuthCalm(c)'
  PROVE  AuthInv'
<1>1. /\ aCall \in [AuthSetup.Calls -> AuthRecords] /\ aCall' = [aCall EXCEPT ![c] = new]
      /\ \A d \in AuthSetup.Calls : AuthGood(d)
  BY DEF AuthInv, U!Set
<1>2. /\ aCall' \in [AuthSetup.Calls -> AuthRecords] /\ aCall'[c] = new
      /\ \A d \in AuthSetup.Calls \ {c} : aCall'[d] = aCall[d]
  BY <1>1
<1>3. ASSUME NEW d \in AuthSetup.Calls PROVE AuthGood(d)'
  <2>1. CASE d = c
    BY <2>1
  <2>2. CASE d # c
    <3>1. AuthGood(d) /\ aCall'[d] = aCall[d] /\ executed'[d] = executed[d]
      BY <1>1, <1>2, <2>2
    <3> QED
      BY <3>1 DEF AuthGood
  <2> QED
    BY <2>1, <2>2
<1>4. ASSUME AuthQuiet' PROVE forged' = {} /\ \A d \in AuthSetup.Calls : AuthCalm(d)'
  <2>1. AuthQuiet /\ aFuel' = aFuel /\ forged = {} /\ \A d \in AuthSetup.Calls : AuthCalm(d)
    BY <1>4 DEF AuthQuiet, AuthInv
  <2>2. ASSUME NEW d \in AuthSetup.Calls \ {c} PROVE AuthCalm(d)'
    <3>1. AuthCalm(d) /\ aCall'[d] = aCall[d] /\ (AuthSound => AuthSound')
      BY <1>2, <2>1
    <3>2. aCall[d].token \in valid => aCall[d].token \in valid'
      BY <2>1
    <3>3. AuthPending(d) /\ aCall[d].stage # "done" => AuthPending(d)'
      BY <3>1 DEF AuthPending
    <3>4. d \in popped => d \in popped'
      OBVIOUS
    <3> QED
      BY <3>1, <3>2, <3>3, <3>4 DEF AuthCalm
  <2> QED
    BY <2>1, <2>2
<1> QED
  BY <1>2, <1>3, <1>4 DEF AuthInv

\* The same of a step that touches neither the service nor the cache.
LEMMA AuthTurns ==
  ASSUME AuthInv, NEW c \in AuthSetup.Calls, NEW new \in AuthRecords, U!Set(c, new),
         UNCHANGED <<auth, rejects, cache, valid, forged, executed, popped>>,
         aFuel' \in 0..AuthSetup.Budget, aFuel' = aFuel \/ aFuel' # AuthSetup.Budget,
         AuthGood(c)', AuthQuiet /\ aFuel' = aFuel /\ AuthCalm(c) => AuthCalm(c)'
  PROVE  AuthInv'
<1>1. AuthTables'
  BY DEF AuthInv, AuthTables
<1>2. AuthSound => AuthSound'
  BY DEF AuthSound
<1>3. \A d \in AuthSetup.Calls \ {c} : AuthPending(d) => d \in popped' \/ cache' # U!NoEntry
  BY DEF AuthPending
<1> QED
  BY <1>1, <1>2, <1>3, AuthMoves

LEMMA AuthInit == ASSUME U!ConstantsAssumption, U!Init PROVE AuthInv
<1>1. U!Fresh \in AuthRecords /\ U!Fresh.stage = "begin" /\ U!Fresh.attempt = 0
  BY DEF U!Fresh, AuthRecords, U!Stages, U!Statuses
<1>2. aCall = [c \in AuthSetup.Calls |-> U!Fresh] /\ \A c \in AuthSetup.Calls : executed[c] = 0
  BY DEF U!Init
<1>3. aCall \in [AuthSetup.Calls -> AuthRecords] /\ \A c \in AuthSetup.Calls : AuthGood(c) /\ AuthCalm(c)
  BY <1>1, <1>2 DEF AuthGood, AuthCalm
<1>4. \E t \in AuthSetup.Tokens : TRUE
  BY <1>3, AuthFree
<1>5. cache \in U!Entries /\ valid \subseteq AuthSetup.Tokens
  <2>1. (CHOOSE t \in AuthSetup.Tokens : TRUE) \in AuthSetup.Tokens
    BY <1>4
  <2>2. CASE cache = U!NoEntry /\ valid = {}
    BY <2>2 DEF U!NoEntry, U!Entries
  <2>3. CASE ~ (cache = U!NoEntry /\ valid = {})
    <3>1. PICK x \in {"never", "later", "past"} :
            /\ cache = [token |-> CHOOSE t \in AuthSetup.Tokens : TRUE, expires |-> x]
            /\ valid \in {{}, {CHOOSE t \in AuthSetup.Tokens : TRUE}}
      BY <2>3 DEF U!Init
    <3> QED
      BY <2>1, <3>1 DEF U!Entries
  <2> QED
    BY <2>2, <2>3
<1>6. AuthTables /\ forged = {}
  BY <1>5 DEF U!Init, AuthTables, U!ConstantsAssumption
<1> QED
  BY <1>3, <1>6 DEF AuthInv

LEMMA AuthLooks == ASSUME U!ConstantsAssumption, AuthInv, NEW c \in AuthSetup.Calls, U!Lookup(c) PROVE AuthInv'
<1> DEFINE k == aCall[c]
           nth == IF k.attempt = 0 THEN 1 ELSE k.attempt
           held == IF U!Reusable THEN cache.token ELSE AuthSetup.NoToken
           at == IF U!Reusable THEN "send" ELSE "login"
           to == [k EXCEPT !.attempt = nth, !.token = held, !.stage = at]
<1>1. /\ k \in AuthRecords /\ AuthTables /\ AuthGood(c) /\ k.stage = "begin" /\ U!Set(c, to)
      /\ UNCHANGED <<auth, rejects, cache, valid, forged, executed, popped, aFuel>>
  BY DEF AuthInv, U!Lookup
<1>2. nth \in 1..2 /\ (nth = 2 <=> k.attempt = 2) /\ at \in {"send", "login"}
  BY <1>1 DEF AuthRecords
<1>3. held \in AuthSetup.Tokens \cup {AuthSetup.NoToken} /\ (at = "send" => held = cache.token /\ cache # U!NoEntry)
  <2>1. U!Reusable => cache # U!NoEntry
    BY DEF U!Reusable
  <2>2. cache.token \in AuthSetup.Tokens \cup {AuthSetup.NoToken}
    BY <1>1 DEF AuthTables, U!Entries
  <2>3. CASE U!Reusable
    BY <2>1, <2>2, <2>3
  <2>4. CASE ~ U!Reusable
    BY <2>4
  <2> QED
    BY <2>3, <2>4
<1> HIDE DEF k, nth, held, at
<1>4. /\ to \in AuthRecords /\ to.attempt = nth /\ to.token = held /\ to.stage = at
  <2> DEFINE less == [k EXCEPT !.token = held, !.stage = at]
  <2>1. nth \in 0..2 /\ at \in U!Stages
    BY <1>2 DEF U!Stages
  <2>2. /\ less \in AuthRecords /\ less.token = held /\ less.stage = at
    BY <1>1, <1>3, <2>1 DEF AuthRecords
  <2>3. to = [less EXCEPT !.attempt = nth]
    BY <1>1 DEF AuthRecords
  <2> HIDE DEF less, to
  <2> QED
    BY <2>1, <2>2, <2>3 DEF AuthRecords
<1> HIDE DEF to
<1>5. PICK new \in AuthRecords : new = to
  BY <1>4
<1>6. U!Set(c, new) /\ aCall'[c] = new
  BY <1>1, <1>5 DEF AuthInv, U!Set
<1>7. executed[c] = 0
  BY <1>1 DEF AuthGood, k
<1>8. AuthGood(c)'
  BY <1>1, <1>2, <1>4, <1>5, <1>6, <1>7 DEF AuthGood
<1>9. AuthCalm(c) => AuthCalm(c)'
  <2>1. AuthCalm(c) /\ nth = 2 => AuthSound
    BY <1>2 DEF AuthCalm, k
  <2>2. AuthSound => AuthSound'
    BY <1>1 DEF AuthSound
  <2>3. nth = 1 /\ at = "send" => AuthPending(c)'
    BY <1>1, <1>3, <1>4, <1>5, <1>6 DEF AuthPending
  <2>4. nth = 2 /\ at = "send" /\ AuthSound => new.token \in valid'
    BY <1>1, <1>3, <1>4, <1>5 DEF AuthSound
  <2> QED
    BY <1>2, <1>4, <1>5, <1>6, <2>1, <2>2, <2>3, <2>4 DEF AuthCalm
<1> QED
  BY <1>1, <1>6, <1>8, <1>9, AuthTurns DEF AuthTables

\* A login or the fetch of a CSRF token that fails.
LEMMA AuthFails ==
  ASSUME U!ConstantsAssumption, AuthInv, NEW c \in AuthSetup.Calls, aCall[c].stage \in {"login", "csrf"}, U!Fail(c)
  PROVE  AuthInv'
<1> DEFINE k == aCall[c]
           to == IF k.status = "expired" THEN [k EXCEPT !.stage = "record", !.outcome = "error"]
                 ELSE [k EXCEPT !.stage = "done", !.token = AuthSetup.NoToken]
<1>1. /\ k \in AuthRecords /\ AuthTables /\ AuthGood(c) /\ U!Set(c, to)
      /\ UNCHANGED <<auth, rejects, cache, valid, forged, executed, popped>>
      /\ aFuel > 0 /\ aFuel' = aFuel - 1
  BY DEF AuthInv, U!Fail
<1>2. executed[c] = 0 /\ k.attempt # 0
  BY <1>1 DEF AuthGood
<1>3. aFuel' \in 0..AuthSetup.Budget /\ aFuel' # AuthSetup.Budget /\ aFuel' # aFuel
  BY <1>1 DEF AuthTables, U!ConstantsAssumption
<1>4. to \in AuthRecords /\ to.stage \in {"record", "done"} /\ to.attempt = k.attempt
  BY <1>1 DEF AuthRecords, U!Stages
<1> HIDE DEF k, to
<1>5. PICK new \in AuthRecords : new = to
  BY <1>4
<1>6. U!Set(c, new) /\ aCall'[c] = new
  BY <1>1, <1>5 DEF AuthInv, U!Set
<1>7. AuthGood(c)'
  BY <1>1, <1>2, <1>4, <1>5, <1>6 DEF AuthGood
<1> QED
  BY <1>1, <1>3, <1>6, <1>7, AuthTurns

LEMMA AuthLogsIn == ASSUME U!ConstantsAssumption, AuthInv, NEW c \in AuthSetup.Calls, U!Login(c) PROVE AuthInv'
<1> DEFINE t == CHOOSE t \in AuthSetup.Tokens : t \notin U!InUse
           at == IF auth = "session" THEN "csrf" ELSE "store"
           to == [aCall[c] EXCEPT !.token = t, !.stage = at]
<1>1. /\ aCall \in [AuthSetup.Calls -> AuthRecords] /\ AuthTables /\ AuthGood(c) /\ aCall[c].stage = "login"
  BY DEF AuthInv, U!Login
<1>2. CASE U!Fail(c)
  BY <1>1, <1>2, AuthFails
<1>3. CASE ~ U!Fail(c)
  <2>1. /\ U!Set(c, to) /\ UNCHANGED <<auth, rejects, cache, executed, popped, aFuel>>
        /\ valid' = (valid \cap U!InUse) \cup (IF rejects THEN {} ELSE {t})
        /\ forged' = forged \cap U!InUse
    BY <1>3 DEF U!Login
  <2>2. t \in AuthSetup.Tokens /\ at \in {"csrf", "store"}
    BY <1>1, AuthFree
  <2> HIDE DEF t, at
  <2>3. to \in AuthRecords /\ to.token = t /\ to.stage = at /\ to.attempt = aCall[c].attempt
    BY <1>1, <2>2 DEF AuthRecords, U!Stages
  <2> HIDE DEF to
  <2>4. PICK new \in AuthRecords : new = to
    BY <2>3
  <2>5. U!Set(c, new) /\ aCall'[c] = new
    BY <1>1, <2>1, <2>4 DEF U!Set
  <2>6. AuthTables'
    BY <1>1, <2>1, <2>2 DEF AuthTables
  <2>7. \A d \in AuthSetup.Calls : aCall[d].token \in valid => aCall[d].token \in valid'
    BY <2>1 DEF U!InUse
  <2>8. AuthSound => AuthSound'
    BY <2>1 DEF AuthSound, U!InUse
  <2>9. \A d \in AuthSetup.Calls : AuthPending(d) => d \in popped' \/ cache' # U!NoEntry
    BY <2>1 DEF AuthPending
  <2>10. AuthGood(c)'
    BY <1>1, <2>1, <2>2, <2>3, <2>4, <2>5 DEF AuthGood
  <2>11. AuthQuiet /\ AuthCalm(c) => AuthCalm(c)'
    <3>1. AuthQuiet => t \in valid'
      BY <2>1 DEF AuthQuiet
    <3> QED
      BY <2>2, <2>3, <2>4, <2>5, <2>8, <3>1 DEF AuthCalm
  <2>12. forged' \subseteq forged
    BY <2>1
  <2> QED
    BY <2>1, <2>5, <2>6, <2>7, <2>8, <2>9, <2>10, <2>11, <2>12, AuthMoves
<1> QED
  BY <1>2, <1>3

LEMMA AuthFetchesCsrf == ASSUME U!ConstantsAssumption, AuthInv, NEW c \in AuthSetup.Calls, U!Csrf(c) PROVE AuthInv'
<1> DEFINE to == [aCall[c] EXCEPT !.stage = "store"]
<1>1. /\ aCall \in [AuthSetup.Calls -> AuthRecords] /\ AuthTables /\ AuthGood(c) /\ aCall[c].stage = "csrf"
  BY DEF AuthInv, U!Csrf
<1>2. CASE U!Fail(c)
  BY <1>1, <1>2, AuthFails
<1>3. CASE ~ U!Fail(c)
  <2>1. U!Set(c, to) /\ UNCHANGED <<auth, rejects, cache, valid, forged, executed, popped, aFuel>>
    BY <1>3 DEF U!Csrf, U!Goto
  <2>2. /\ to \in AuthRecords /\ to.token = aCall[c].token /\ to.stage = "store"
        /\ to.attempt = aCall[c].attempt
    BY <1>1 DEF AuthRecords, U!Stages
  <2> HIDE DEF to
  <2>3. PICK new \in AuthRecords : new = to
    BY <2>2
  <2>4. U!Set(c, new) /\ aCall'[c] = new
    BY <1>1, <2>1, <2>3 DEF U!Set
  <2>5. AuthGood(c)'
    BY <1>1, <2>1, <2>2, <2>3, <2>4 DEF AuthGood
  <2>6. AuthCalm(c) => AuthCalm(c)'
    <3>1. AuthSound => AuthSound'
      BY <2>1 DEF AuthSound
    <3> QED
      BY <1>1, <2>1, <2>2, <2>3, <2>4, <3>1 DEF AuthCalm
  <2> QED
    BY <1>1, <2>1, <2>4, <2>5, <2>6, AuthTurns DEF AuthTables
<1> QED
  BY <1>2, <1>3

LEMMA AuthStores == ASSUME U!ConstantsAssumption, AuthInv, NEW c \in AuthSetup.Calls, U!Store(c) PROVE AuthInv'
<1> DEFINE to == [aCall[c] EXCEPT !.stage = "send"]
<1>1. /\ aCall \in [AuthSetup.Calls -> AuthRecords] /\ AuthTables /\ AuthGood(c) /\ aCall[c].stage = "store"
      /\ U!Set(c, to) /\ UNCHANGED <<auth, rejects, valid, forged, executed, popped, aFuel>>
  BY DEF AuthInv, U!Store, U!Goto
<1>2. PICK x \in {"never", "later"} : cache' = [token |-> aCall[c].token, expires |-> x]
  BY DEF U!Store
<1>3. /\ to \in AuthRecords /\ to.token = aCall[c].token /\ to.stage = "send"
      /\ to.attempt = aCall[c].attempt
  BY <1>1 DEF AuthRecords, U!Stages
<1> HIDE DEF to
<1>4. PICK new \in AuthRecords : new = to
  BY <1>3
<1>5. U!Set(c, new) /\ aCall'[c] = new
  BY <1>1, <1>4 DEF U!Set
<1>6. aCall[c].token \in AuthSetup.Tokens /\ cache'.token = aCall[c].token
  BY <1>1, <1>2 DEF AuthGood
<1>7. cache' # U!NoEntry
  BY <1>6 DEF U!NoEntry, U!ConstantsAssumption
<1>8. AuthTables'
  BY <1>1, <1>2, <1>6 DEF AuthTables, U!Entries
<1>9. AuthGood(c)'
  BY <1>1, <1>3, <1>4, <1>5 DEF AuthGood
<1>10. AuthCalm(c) => AuthSound' /\ AuthCalm(c)'
  <2>1. AuthCalm(c) => aCall[c].token \in valid'
    BY <1>1 DEF AuthCalm
  <2>2. AuthCalm(c) => AuthSound'
    BY <1>6, <2>1 DEF AuthSound
  <2> QED
    BY <1>3, <1>4, <1>5, <2>1, <2>2 DEF AuthCalm
<1>11. CASE AuthQuiet
  <2>1. AuthCalm(c)
    BY <1>11 DEF AuthInv
  <2> QED
    BY <1>1, <1>5, <1>7, <1>8, <1>9, <1>10, <2>1, AuthMoves
<1>12. CASE ~ AuthQuiet
  <2>1. ~ AuthQuiet'
    BY <1>1, <1>12 DEF AuthQuiet
  <2>2. aCall' \in [AuthSetup.Calls -> AuthRecords] /\ \A d \in AuthSetup.Calls \ {c} : aCall'[d] = aCall[d]
    BY <1>1, <1>5 DEF U!Set
  <2>3. \A d \in AuthSetup.Calls \ {c} : AuthGood(d)'
    BY <1>1, <2>2 DEF AuthInv, AuthGood
  <2> QED
    BY <1>8, <1>9, <2>1, <2>2, <2>3 DEF AuthInv
<1> QED
  BY <1>11, <1>12

LEMMA AuthSends == ASSUME U!ConstantsAssumption, AuthInv, NEW c \in AuthSetup.Calls, U!Send(c) PROVE AuthInv'
<1> DEFINE To(s) == [aCall[c] EXCEPT !.status = s, !.stage = "check",
                       !.outcome = IF s \in {"ok", "expired"} THEN @ ELSE "error"]
<1>1. /\ aCall \in [AuthSetup.Calls -> AuthRecords] /\ AuthTables /\ AuthGood(c) /\ aCall[c].stage = "send"
      /\ UNCHANGED <<auth, rejects, cache, valid, forged, popped>>
  BY DEF AuthInv, U!Send
<1>2. PICK s \in U!Statuses :
        /\ U!Set(c, To(s)) /\ executed' \in {executed, [executed EXCEPT ![c] = @ + 1]}
        /\ executed' = executed \/ s \in {"ok", "unreachable"}
        /\ aFuel' = aFuel => s \in U!Answers(c)
        /\ aFuel' = aFuel \/ (aFuel > 0 /\ aFuel' = aFuel - 1)
  <2>1. \A s : U!Answered(c, s) <=> U!Set(c, To(s))
    BY DEF U!Answered
  <2>2. CASE \E status \in U!Answers(c) :
               /\ U!Answered(c, status)
               /\ executed' = IF status = "ok" THEN [executed EXCEPT ![c] = @ + 1] ELSE executed
               /\ aFuel' = aFuel
    <3>1. PICK s \in U!Answers(c) :
            /\ U!Answered(c, s) /\ aFuel' = aFuel
            /\ executed' = IF s = "ok" THEN [executed EXCEPT ![c] = @ + 1] ELSE executed
      BY <2>2
    <3>2. s \in U!Statuses
      BY DEF U!Answers, U!Statuses
    <3> QED
      BY <2>1, <3>1, <3>2
  <2>3. CASE /\ aFuel > 0 /\ aFuel' = aFuel - 1 /\ U!Answered(c, "unreachable")
             /\ UNCHANGED executed \/ executed' = [executed EXCEPT ![c] = @ + 1]
    <3>1. "unreachable" \in U!Statuses
      BY DEF U!Statuses
    <3>2. aFuel' # aFuel
      BY <1>1, <2>3 DEF AuthTables
    <3> QED
      BY <2>1, <2>3, <3>1, <3>2
  <2> QED
    BY <2>2, <2>3 DEF U!Send
<1>3. /\ To(s) \in AuthRecords /\ To(s).stage = "check" /\ To(s).status = s
      /\ To(s).attempt = aCall[c].attempt
  BY <1>1 DEF AuthRecords, U!Stages
<1> HIDE DEF To
<1>4. PICK new \in AuthRecords : new = To(s)
  BY <1>3
<1>5. U!Set(c, new) /\ aCall'[c] = new
  BY <1>1, <1>2, <1>4 DEF U!Set
<1>6. executed[c] = 0 /\ aCall[c].attempt # 0
  BY <1>1 DEF AuthGood
<1>7. /\ executed' \in [AuthSetup.Calls -> 0..2] /\ \A d \in AuthSetup.Calls \ {c} : executed'[d] = executed[d]
      /\ executed'[c] \in {0, 1} /\ (executed'[c] # 0 => s \in {"ok", "unreachable"})
  BY <1>1, <1>2, <1>6 DEF AuthTables
<1>8. aFuel' \in 0..AuthSetup.Budget /\ (aFuel' = aFuel \/ aFuel' # AuthSetup.Budget)
  BY <1>1, <1>2 DEF AuthTables, U!ConstantsAssumption
<1>9. AuthTables'
  BY <1>1, <1>7, <1>8 DEF AuthTables
<1>10. AuthGood(c)'
  BY <1>3, <1>4, <1>5, <1>6, <1>7 DEF AuthGood
<1>11. AuthSound => AuthSound'
  BY <1>1 DEF AuthSound
<1>12. \A d \in AuthSetup.Calls : AuthPending(d) => d \in popped' \/ cache' # U!NoEntry
  BY <1>1 DEF AuthPending
<1>13. aFuel' = aFuel /\ AuthCalm(c) /\ forged = {} => AuthCalm(c)'
  <2> SUFFICES ASSUME aFuel' = aFuel, AuthCalm(c), forged = {} PROVE AuthCalm(c)'
    OBVIOUS
  <2>1. s \in U!Answers(c) /\ (aCall[c].attempt = 2 => AuthSound')
    BY <1>2, <1>11 DEF AuthCalm
  <2>2. CASE aCall[c].token \in valid
    <3>1. s = "ok"
      BY <2>1, <2>2 DEF U!Answers
    <3> QED
      BY <1>3, <1>4, <1>5, <2>1, <3>1 DEF AuthCalm
  <2>3. CASE aCall[c].token \notin valid
    <3>1. s \in {"unauthorized"} \cup (IF auth = "oauth2" THEN {"expired"} ELSE {})
      BY <2>1, <2>3 DEF U!Answers
    <3>2. AuthPending(c)
      BY <1>1, <2>3 DEF AuthCalm
    <3>3. AuthPending(c)'
      BY <1>1, <1>3, <1>4, <1>5, <3>2 DEF AuthPending
    <3> QED
      BY <1>1, <1>3, <1>4, <1>5, <2>1, <3>1, <3>3 DEF AuthCalm
  <2> QED
    BY <2>2, <2>3
<1> QED
  BY <1>1, <1>5, <1>7, <1>8, <1>9, <1>10, <1>11, <1>12, <1>13, AuthMoves

LEMMA AuthChecks == ASSUME AuthInv, NEW c \in AuthSetup.Calls, U!Check(c) PROVE AuthInv'
<1> DEFINE at == IF U!Retries(c) THEN "pop" ELSE "record"
           to == [aCall[c] EXCEPT !.stage = at]
<1>1. /\ aCall \in [AuthSetup.Calls -> AuthRecords] /\ AuthTables /\ AuthGood(c) /\ aCall[c].stage = "check"
      /\ U!Set(c, to) /\ UNCHANGED <<auth, rejects, cache, valid, forged, executed, popped, aFuel>>
  BY DEF AuthInv, U!Check, U!Goto
<1>2. /\ at \in {"pop", "record"}
      /\ at = "pop" => aCall[c].attempt = 1 /\ aCall[c].status \notin {"ok", "unreachable"}
      /\ at = "record" => ~ U!Retries(c)
  BY DEF U!Retries
<1> HIDE DEF at
<1>3. /\ to \in AuthRecords /\ to.stage = at /\ to.attempt = aCall[c].attempt
      /\ to.status = aCall[c].status
  BY <1>1, <1>2 DEF AuthRecords, U!Stages
<1> HIDE DEF to
<1>4. PICK new \in AuthRecords : new = to
  BY <1>3
<1>5. U!Set(c, new) /\ aCall'[c] = new
  BY <1>1, <1>4 DEF U!Set
<1>6. AuthGood(c)'
  BY <1>1, <1>2, <1>3, <1>4, <1>5 DEF AuthGood
<1>7. AuthCalm(c) => AuthCalm(c)'
  <2>1. AuthSound => AuthSound'
    BY <1>1 DEF AuthSound
  <2>2. AuthCalm(c) /\ at = "record" => c \in popped \/ aCall[c].status = "ok"
    BY <1>1, <1>2 DEF AuthCalm, AuthPending, U!Retries
  <2> QED
    BY <1>1, <1>2, <1>3, <1>4, <1>5, <2>1, <2>2 DEF AuthCalm
<1> QED
  BY <1>1, <1>5, <1>6, <1>7, AuthTurns DEF AuthTables

LEMMA AuthPops == ASSUME AuthInv, NEW c \in AuthSetup.Calls, U!Pop(c) PROVE AuthInv'
<1> DEFINE to == [aCall[c] EXCEPT !.stage = "begin", !.attempt = 2, !.token = AuthSetup.NoToken]
           others == {d \in AuthSetup.Calls \ {c} : aCall[d].attempt > 0 /\ aCall[d].stage # "done"}
<1>1. /\ aCall \in [AuthSetup.Calls -> AuthRecords] /\ AuthTables /\ AuthGood(c) /\ aCall[c].stage = "pop"
      /\ U!Set(c, to) /\ UNCHANGED <<auth, rejects, valid, forged, executed, aFuel>>
      /\ cache' = U!NoEntry /\ popped' = popped \cup others
  <2>1. aCall \in [AuthSetup.Calls -> AuthRecords] /\ AuthTables /\ AuthGood(c)
    BY DEF AuthInv
  <2> QED
    BY <2>1 DEF U!Pop
<1>2. to \in AuthRecords /\ to.stage = "begin" /\ to.attempt = 2
  <2> DEFINE less == [aCall[c] EXCEPT !.stage = "begin", !.token = AuthSetup.NoToken]
  <2>1. less \in AuthRecords /\ less.stage = "begin"
    BY <1>1 DEF AuthRecords, U!Stages
  <2>2. to = [less EXCEPT !.attempt = 2]
    BY <1>1 DEF AuthRecords
  <2> HIDE DEF less, to
  <2> QED
    BY <2>1, <2>2 DEF AuthRecords
<1> HIDE DEF to
<1>3. PICK new \in AuthRecords : new = to
  BY <1>2
<1>4. U!Set(c, new) /\ aCall'[c] = new
  BY <1>1, <1>3 DEF U!Set
<1>5. AuthTables'
  <2>1. U!NoEntry \in U!Entries
    BY DEF U!NoEntry, U!Entries
  <2> QED
    BY <1>1, <2>1 DEF AuthTables
<1>6. AuthGood(c)'
  BY <1>1, <1>2, <1>3, <1>4 DEF AuthGood
<1>7. AuthSound'
  BY <1>1 DEF AuthSound
<1>8. AuthCalm(c)'
  BY <1>2, <1>3, <1>4, <1>7 DEF AuthCalm
<1>9. \A d \in AuthSetup.Calls \ {c} : AuthPending(d) /\ aCall[d].stage # "done" => d \in popped'
  <2> SUFFICES ASSUME NEW d \in AuthSetup.Calls \ {c}, AuthPending(d), aCall[d].stage # "done"
               PROVE  d \in others
    BY <1>1
  <2>1. aCall[d].attempt > 0
    BY DEF AuthPending
  <2> QED
    BY <2>1
<1> HIDE DEF others
<1> QED
  BY <1>1, <1>4, <1>5, <1>6, <1>7, <1>8, <1>9, AuthMoves

LEMMA AuthRecordsIt == ASSUME AuthInv, NEW c \in AuthSetup.Calls, U!Record(c) PROVE AuthInv'
<1> DEFINE to == [[aCall[c] EXCEPT !.audited = TRUE] EXCEPT !.stage = "done", !.token = AuthSetup.NoToken]
<1>1. /\ aCall \in [AuthSetup.Calls -> AuthRecords] /\ AuthTables /\ AuthGood(c) /\ aCall[c].stage = "record"
      /\ U!Set(c, to) /\ UNCHANGED <<auth, rejects, cache, valid, forged, executed, popped, aFuel>>
  BY DEF AuthInv, U!Record, U!Done
<1>2. /\ to \in AuthRecords /\ to.stage = "done" /\ to.attempt = aCall[c].attempt
      /\ to.status = aCall[c].status /\ to.audited
  BY <1>1 DEF AuthRecords, U!Stages
<1> HIDE DEF to
<1>3. PICK new \in AuthRecords : new = to
  BY <1>2
<1>4. U!Set(c, new) /\ aCall'[c] = new
  BY <1>1, <1>3 DEF U!Set
<1>5. AuthGood(c)'
  BY <1>1, <1>2, <1>3, <1>4 DEF AuthGood
<1>6. AuthCalm(c) => AuthCalm(c)'
  <2>1. AuthSound => AuthSound'
    BY <1>1 DEF AuthSound
  <2> QED
    BY <1>1, <1>2, <1>3, <1>4, <2>1 DEF AuthCalm
<1> QED
  BY <1>1, <1>4, <1>5, <1>6, AuthTurns DEF AuthTables

\* The service and time, as long as no call moves.
LEMMA AuthLeaves ==
  ASSUME U!ConstantsAssumption, AuthInv, U!Revoke \/ U!Forget \/ U!Expire \/ UNCHANGED U!vars PROVE AuthInv'
<1>1. /\ aCall' = aCall /\ executed' = executed /\ auth' = auth /\ rejects' = rejects
      /\ popped' = popped /\ AuthTables
  BY DEF AuthInv, U!Revoke, U!Forget, U!Expire, U!vars
<1>2. \A d \in AuthSetup.Calls : AuthGood(d) => AuthGood(d)'
  BY <1>1 DEF AuthGood
<1>3. CASE U!Revoke \/ U!Forget
  <2>1. /\ aFuel > 0 /\ aFuel' = aFuel - 1 /\ cache' = cache
        /\ valid' \subseteq AuthSetup.Tokens /\ forged' \subseteq AuthSetup.Tokens
    BY <1>1, <1>3 DEF U!Revoke, U!Forget, AuthTables
  <2>2. aFuel' \in 0..AuthSetup.Budget /\ aFuel' # AuthSetup.Budget
    BY <1>1, <2>1 DEF AuthTables, U!ConstantsAssumption
  <2>3. AuthTables' /\ ~ AuthQuiet'
    BY <1>1, <2>1, <2>2 DEF AuthTables, AuthQuiet
  <2> QED
    BY <1>1, <1>2, <2>3 DEF AuthInv
<1>4. CASE U!Expire \/ UNCHANGED U!vars
  <2>1. /\ aFuel' = aFuel /\ valid' = valid /\ forged' = forged /\ cache'.token = cache.token
        /\ cache' \in U!Entries /\ (cache # U!NoEntry => cache' # U!NoEntry)
        /\ cache = U!NoEntry => cache' = U!NoEntry
    <3>1. CASE U!Expire
      <4>1. cache' = [cache EXCEPT !.expires = "past"] /\ cache.expires = "later" /\ cache \in U!Entries
        BY <1>1, <3>1 DEF U!Expire, AuthTables
      <4>2. cache'.expires = "past" /\ cache'.token = cache.token /\ cache' \in U!Entries
        BY <4>1 DEF U!Entries
      <4>3. cache' # U!NoEntry /\ cache # U!NoEntry
        BY <4>1, <4>2 DEF U!NoEntry
      <4> QED
        BY <3>1, <4>2, <4>3 DEF U!Expire
    <3>2. CASE UNCHANGED U!vars
      BY <1>1, <3>2 DEF U!vars, AuthTables
    <3> QED
      BY <1>4, <3>1, <3>2
  <2>2. AuthTables' /\ (AuthSound => AuthSound') /\ (AuthQuiet' => AuthQuiet)
    BY <1>1, <2>1 DEF AuthTables, AuthSound, AuthQuiet
  <2>3. \A d \in AuthSetup.Calls : AuthPending(d) => AuthPending(d)'
    BY <1>1, <2>1 DEF AuthPending
  <2>4. \A d \in AuthSetup.Calls : AuthCalm(d) => AuthCalm(d)'
    BY <1>1, <2>1, <2>2, <2>3 DEF AuthCalm
  <2> QED
    BY <1>1, <1>2, <2>1, <2>2, <2>4 DEF AuthInv
<1> QED
  BY <1>3, <1>4

LEMMA AuthKeeps == ASSUME U!ConstantsAssumption, AuthInv, [U!Next]_(U!vars) PROVE AuthInv'
<1>1. ASSUME NEW c \in AuthSetup.Calls, U!Step(c) PROVE AuthInv'
  BY <1>1, AuthLooks, AuthLogsIn, AuthFetchesCsrf, AuthStores, AuthSends, AuthChecks, AuthPops,
     AuthRecordsIt DEF U!Step
<1> QED
  BY <1>1, AuthLeaves DEF U!Next

LEMMA AuthFollows == ASSUME AuthInv PROVE U!TypeOK /\ U!OnceAndRecorded /\ U!RefusedOnlyIfDisturbed
<1>1. U!TypeOK
  BY DEF AuthInv, AuthTables, AuthRecords, U!TypeOK
<1>2. U!OnceAndRecorded
  <2> SUFFICES ASSUME NEW c \in AuthSetup.Calls
               PROVE  /\ executed[c] <= 1
                      /\ aCall[c].stage = "done" /\ executed[c] > 0 => aCall[c].audited
    BY DEF U!OnceAndRecorded
  <2>1. AuthGood(c) /\ executed[c] \in 0..2
    BY DEF AuthInv, AuthTables
  <2> QED
    BY <2>1 DEF AuthGood
<1>3. U!RefusedOnlyIfDisturbed
  BY DEF AuthInv, AuthQuiet, AuthCalm, U!RefusedOnlyIfDisturbed
<1> QED
  BY <1>1, <1>2, <1>3

-----------------------------------------------------------------------------
(* The composition: a step of the composition is a step of each service or  *)
(* leaves it alone, so the invariant of each holds of all its behaviours.   *)

LEMMA EditsStep == ASSUME EditInv, [Next]_vars PROVE EditInv'
<1>1. [E!Next]_(E!vars)
  BY DEF Next, vars, editVars, E!vars
<1> QED
  BY <1>1, ServicesAssumption, EditKeeps

LEMMA ControllerStep == ASSUME OmadaInv, [Next]_vars PROVE OmadaInv'
<1>1. [O!Next]_(O!vars)
  BY DEF Next, vars, omadaVars, O!vars, O!rules, O!groups, O!sites
<1> QED
  BY <1>1, ServicesAssumption, OmadaKeeps

LEMMA ToolsStep == ASSUME ToolInv, [Next]_vars PROVE ToolInv'
<1>1. [T!Next]_(T!vars)
  BY DEF Next, vars, toolVars, T!vars, T!tables, T!surfaces, T!hist
<1> QED
  BY <1>1, ServicesAssumption, ToolKeeps

LEMMA AuthStep == ASSUME AuthInv, [Next]_vars PROVE AuthInv'
<1>1. [U!Next]_(U!vars)
  BY DEF Next, vars, authVars, U!vars
<1> QED
  BY <1>1, ServicesAssumption, AuthKeeps

-----------------------------------------------------------------------------
(* The theorems.                                                           *)

\* However edits of the tracker and of the controller interleave with each other and with
\* people, an edit removes or overwrites only what it was asked to or had read.
THEOREM EditsSpareTheRest == Spec => KeepsWhatItRead
<1>1. Init => EditInv /\ OmadaInv
  BY ServicesAssumption, EditInit, OmadaInit DEF Init
<1>2. (EditInv /\ OmadaInv) /\ [Next]_vars => (EditInv /\ OmadaInv)'
  BY EditsStep, ControllerStep
<1> DEFINE Tracked ==
             \A c \in EditSetup.Calls :
               E!Write(c) =>
                 /\ kind[c] \in {"patch", "merge"} =>
                      board.config \ board'.config \subseteq board.config \ eCall[c].read
                 /\ board'.id # board.id /\ board.id # 0 => board.id = eCall[c].id
           Controlled ==
             \A c \in ControllerSetup.Calls :
               /\ O!PostIndexes(c) /\ oCall'[c].wrote =>
                    /\ O!Elems(acl') = O!Elems(acl)
                    /\ \E i \in 1..(Len(acl') - 1) :
                         acl'[i] = ask[c].rule /\ acl'[i + 1] = ask[c].before
                    /\ \A x, y \in O!Elems(acl) \ {ask[c].rule} :
                         O!Precedes(acl', x, y) <=> O!Precedes(oCall[c].order, x, y)
               /\ O!PatchGroup(c) /\ oCall'[c].wrote =>
                    \A ip \in ControllerSetup.Ips :
                      \/ group'[ip] = oCall[c].read[ip]
                      \/ ip \in ask[c].members /\
                           (group'[ip] = ControllerSetup.Absent <=> ask[c].kind = "remove") /\
                           (ask[c].note = ControllerSetup.Absent =>
                              oCall[c].read[ip] = ControllerSetup.Absent
                                \/ group'[ip] = ControllerSetup.Absent)
<1>3. EditInv => [Tracked]_(E!vars)
  BY ServicesAssumption, EditSpares
<1>4. OmadaInv => [Controlled]_(O!vars)
  BY ServicesAssumption, OmadaSparesRules, OmadaSparesMembers
<1>5. Spec => [](EditInv /\ OmadaInv)
  BY <1>1, <1>2, PTL DEF Spec
<1>6. Spec => [][Tracked]_(E!vars) /\ [][Controlled]_(O!vars)
  BY <1>3, <1>4, <1>5, PTL
<1> QED
  BY <1>6 DEF KeepsWhatItRead, E!KeepsWhatItRead, O!KeepsWhatItRead

\* Whatever failed or was lost, what these edits and the listings of the controller report
\* is what happened: an error means that nothing was written unless the connection was
\* lost, and a listing that is not marked as cut is complete.
THEOREM ReportsAreTrue == Spec => []ReportsTruth
<1>1. Init => EditInv /\ OmadaInv
  BY ServicesAssumption, EditInit, OmadaInit DEF Init
<1>2. (EditInv /\ OmadaInv) /\ [Next]_vars => (EditInv /\ OmadaInv)'
  BY EditsStep, ControllerStep
<1>3. EditInv /\ OmadaInv => ReportsTruth
  BY EditReports, OmadaReports DEF ReportsTruth
<1> QED
  BY <1>1, <1>2, <1>3, PTL DEF Spec

\* Requests, seedings, refreshes, statements that fail and starts, however they interleave:
\* when no request is running and no refreshes overlapped, agents see the enabled tools of
\* the enabled integrations; no seeding deletes a row made by hand that no catalogue ever
\* named, and every row shows the operator's choice.
THEOREM CatalogueIsKept == Spec => []CatalogueKept
<1>1. Init => ToolInv
  BY ServicesAssumption, ToolInit DEF Init
<1>2. ToolInv /\ [Next]_vars => ToolInv'
  BY ToolsStep
<1>3. ToolInv => CatalogueKept
  BY ToolsFollow DEF CatalogueKept
<1> QED
  BY <1>1, <1>2, <1>3, PTL DEF Spec

\* The retry repeats no effect and every call the service carried out is in the audit
\* trail; with a service that is reached and keeps its credentials a refusal reaches the
\* caller only if another call emptied the cache meanwhile.
THEOREM CallsAreRecorded == Spec => []CallsRecorded
<1>1. Init => AuthInv
  BY ServicesAssumption, AuthInit DEF Init
<1>2. AuthInv /\ [Next]_vars => AuthInv'
  BY AuthStep
<1>3. AuthInv => CallsRecorded
  BY AuthFollows DEF CallsRecorded
<1> QED
  BY <1>1, <1>2, <1>3, PTL DEF Spec

\* Whichever service runs, and whatever is lost, fails or crosses in it, its state stays of
\* its types: tables hold rows of the kinds the code writes, calls are at a stage the
\* code has, counters and clocks stay within their bounds.
THEOREM TypeCorrect == Spec => []TypeOK
<1> DEFINE Agents == EditInv /\ OmadaInv /\ ToolInv /\ AuthInv
           Hosts == A!IInv /\ EnrolInv /\ W!IInv /\ LimitInv
           Desk == WatchInv /\ LearnInv /\ ReleaseInv /\ CommuteInv
           All == which \in Services /\ Agents /\ Hosts /\ Desk
<1>1. Init => All
  <2> SUFFICES ASSUME Init PROVE All
    OBVIOUS
  <2>1. Agents
    BY ServicesAssumption, EditInit, OmadaInit, ToolInit, AuthInit DEF Init
  <2>2. Hosts
    BY ServicesAssumption, A!InitInv, EnrolInit, W!InitInv, LimitInit DEF Init
  <2>3. Desk
    BY ServicesAssumption, WatchInit, LearnInit, ReleaseInit, CommuteInit DEF Init
  <2> QED
    BY <2>1, <2>2, <2>3 DEF Init
<1>2. All /\ [Next]_vars => All'
  <2> SUFFICES ASSUME All, [Next]_vars PROVE All'
    OBVIOUS
  <2>1. which' \in Services
    BY DEF Next, vars
  <2>2. Agents'
    BY EditsStep, ControllerStep, ToolsStep, AuthStep
  <2>3. Hosts'
    BY WindowsStep, EnrolmentStep, FetchStep, LimiterStep
  <2>4. Desk'
    BY GatewayWatchStep, LearningStep, ReleasesStep, CommuteStep
  <2> QED
    BY <2>1, <2>2, <2>3, <2>4
<1>3. All => TypeOK
  <2> SUFFICES ASSUME All PROVE TypeOK
    OBVIOUS
  <2>1. E!TypeOK /\ O!TypeOK /\ T!TypeOK /\ U!TypeOK
    BY ToolsFollow, AuthFollows DEF EditInv, OmadaInv
  <2>2. A!TypeOK /\ N!TypeOK /\ W!TypeOK /\ R!TypeOK
    BY EnrolFollows DEF A!IInv, W!IInv, LimitInv
  <2>3. G!TypeOK /\ L!TypeOK /\ P!TypeOK /\ C!TypeOK
    BY CommuteFollows DEF WatchInv, LearnInv, ReleaseInv
  <2> QED
    BY <2>1, <2>2, <2>3 DEF TypeOK, Services
<1> QED
  BY <1>1, <1>2, <1>3, PTL DEF Spec
=============================================================================
