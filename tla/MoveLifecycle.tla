---------------------------- MODULE MoveLifecycle ----------------------------
(***************************************************************************)
(* One move with its orders, its personally procured moves (PPMs), their   *)
(* advances and the documents of the PPMs, as the service member and the   *)
(* office change them.  The shipments of a move are in ShipmentLifecycle.  *)
(*                                                                         *)
(* Every handler reads rows, changes them in memory and writes them back   *)
(* whole, in one transaction.  What a handler writes is its write set; the *)
(* rows may have changed since it read them.                               *)
(***************************************************************************)
EXTENDS Integers, FiniteSets, Functions

CONSTANTS
  Ppms,        \* ids of PPMs
  Advances,    \* ids of reimbursements
  Documents,   \* ids of documents of PPMs
  Dates,       \* values of OriginalMoveDate
  Plans,       \* the other values the estimates are made of: zips, weight, days
  Requests,    \* requests that may be in progress together
  None

ASSUME MoveAssumption == None \notin Ppms \union Advances \union Dates \union Plans

VARIABLES
  move,      \* moves.status
  orders,    \* orders.status
  ppm,       \* the rows of personally_procured_moves, by id
  advance,   \* the rows of reimbursements: id -> status
  document,  \* the rows of move_documents, by id
  filed,     \* history: <<d, p>> for each document d that has been of PPM p
  reviewed,  \* history: PPMs saved with a shipment summary of theirs that was OK
  req        \* Requests -> the write set of the request

tables == <<move, orders, ppm, advance, document, filed, reviewed>>
vars == <<tables, req>>

PpmStatuses ==
  {"DRAFT", "SUBMITTED", "APPROVED", "PAYMENT_REQUESTED", "COMPLETED", "CANCELED"}
MoveStatuses == {"DRAFT", "SUBMITTED", "APPROVED", "CANCELED"}
AdvanceStatuses == {"DRAFT", "REQUESTED", "APPROVED"}

ASSUME NoneAssumption == None \notin PpmStatuses \union MoveStatuses \union AdvanceStatuses

(* submitted, approved: SubmitDate and ApproveDate are set; estimates: the *)
(* values the incentive and SIT estimates were made of.                    *)
Ppm ==
  [status : PpmStatuses,
   submitted : BOOLEAN,
   approved : BOOLEAN,
   requested : BOOLEAN,                 \* HasRequestedAdvance
   advance : Advances \union {None},    \* AdvanceID
   date : Dates \union {None},
   plan : Plans \union {None},
   estimates : (Dates \X Plans) \union {None}]

Document ==
  [ppm : Ppms,
   type : {"SHIPMENT_SUMMARY", "OTHER"},
   status : {"AWAITING_REVIEW", "OK", "HAS_ISSUE"}]

NoRows == [x \in {} |-> None]

(* destroyed: the advances the transaction deletes; None for no write.     *)
NoWrites ==
  [move |-> None, orders |-> None, ppm |-> NoRows, advance |-> NoRows,
   created |-> NoRows, destroyed |-> {}, document |-> NoRows]

Idle == [at |-> "idle", writes |-> NoWrites]

Init ==
  /\ move = "DRAFT"
  /\ orders = "DRAFT"
  /\ ppm = NoRows
  /\ advance = NoRows
  /\ document = NoRows
  /\ filed = {}
  /\ reviewed = {}
  /\ req = [r \in Requests |-> Idle]
-----------------------------------------------------------------------------
(* Write sets.                                                             *)

Only(x, row) == [y \in {x} |-> row]
With(table, rows) ==
  [x \in DOMAIN table \union DOMAIN rows |-> IF x \in DOMAIN rows THEN rows[x] ELSE table[x]]

(* UPDATE ... WHERE id = ...: a row that is gone stays gone.               *)
Updated(table, rows) == With(table, Restrict(rows, DOMAIN table \cap DOMAIN rows))

Begins(r, writes) ==
  /\ req[r] = Idle
  /\ req' = [req EXCEPT ![r] = [at |-> "saving", writes |-> writes]]
  /\ UNCHANGED tables

(* The PPMs that w writes together with a shipment summary that is OK, and *)
(* that had been of the PPM before.                                        *)
ReviewedBy(w) ==
  {p \in DOMAIN w.ppm : \E d \in DOMAIN w.document :
     /\ <<d, p>> \in filed
     /\ w.document[d].type = "SHIPMENT_SUMMARY"
     /\ w.document[d].status = "OK"}

(* One transaction.                                                        *)
Save(r) ==
  LET w == req[r].writes IN
  /\ req[r].at = "saving"
  /\ move' = IF w.move = None THEN move ELSE w.move
  /\ orders' = IF w.orders = None THEN orders ELSE w.orders
  /\ ppm' = Updated(ppm, w.ppm)
  /\ advance' = Restrict(With(Updated(advance, w.advance), w.created),
                         (DOMAIN advance \union DOMAIN w.created) \ w.destroyed)
  /\ document' = Updated(document, w.document)
  /\ filed' = filed \union {<<d, document'[d].ppm>> : d \in DOMAIN document'}
  /\ reviewed' = reviewed \union ReviewedBy(w)
  /\ req' = [req EXCEPT ![r] = Idle]

(* An error, a panic or the end of the process before the COMMIT.          *)
Fail(r) ==
  /\ req[r] # Idle
  /\ req' = [req EXCEPT ![r] = Idle]
  /\ UNCHANGED tables

(* An id is new when no row, no PPM and no request has it.                 *)
NewAdvances ==
  Advances \ (DOMAIN advance \union {ppm[p].advance : p \in DOMAIN ppm}
    \union UNION {LET w == req[r].writes
                  IN  DOMAIN w.created \union DOMAIN w.advance
                        \union {w.ppm[p].advance : p \in DOMAIN w.ppm} : r \in Requests})

(* The Advance a PPM is fetched with                                       *)
HasAdvance(row) == row.advance \in DOMAIN advance
-----------------------------------------------------------------------------
(* SavePersonallyProcuredMove: the writes for a PPM whose advance, when it *)
(* is requested, is loaded, or is new with a status, or is None.           *)

SavePPM(r, p, row, status) ==
  \/ /\ row.requested
     /\ HasAdvance(row)
     /\ Begins(r, [NoWrites EXCEPT !.ppm = Only(p, row),
                                   !.advance = Only(row.advance, advance[row.advance])])
  \/ /\ row.requested
     /\ ~ HasAdvance(row)
     /\ status # None
     /\ \E a \in NewAdvances :
          Begins(r, [NoWrites EXCEPT !.ppm = Only(p, [row EXCEPT !.advance = a]),
                                     !.created = Only(a, status)])
  \/ /\ row.requested
     /\ ~ HasAdvance(row)
     /\ status = None
     /\ row.advance # None      \* otherwise ErrInvalidPatchGate
     /\ Begins(r, [NoWrites EXCEPT !.ppm = Only(p, row)])
  \/ /\ ~ row.requested
     /\ row.advance = None \/ HasAdvance(row)     \* otherwise "Error finding Advance"
     /\ Begins(r, [NoWrites EXCEPT !.ppm = Only(p, [row EXCEPT !.advance = None]),
                                   !.destroyed = {row.advance} \ {None}])

(* CreatePersonallyProcuredMove, on a move of any status                   *)
CreatePPM(p) ==
  /\ p \notin DOMAIN ppm
  /\ \E a \in NewAdvances \union {None}, date \in Dates \union {None}, plan \in Plans \union {None} :
       /\ ppm' = With(ppm, Only(p,
            [status |-> "DRAFT", submitted |-> FALSE, approved |-> FALSE,
             requested |-> a # None, advance |-> a,
             date |-> date, plan |-> plan, estimates |-> None]))
       /\ advance' = With(advance, [b \in {a} \ {None} |-> "DRAFT"])
  /\ UNCHANGED <<move, orders, document, filed, reviewed, req>>

(* dateForComparison: the value is taken for changed when it is the same.  *)
DateChanged(old, new) == new # None /\ (old = None \/ old = new)

(* stringForComparison and int64ForComparison                              *)
PlanChanged(old, new) == new # None /\ (old = None \/ old # new)

PatchedValue(old, new) == IF new = None THEN old ELSE new

(* ppmNeedsEstimatesRecalculated and updateEstimates                       *)
Estimated(row, date, plan) ==
  LET new == [row EXCEPT !.date = PatchedValue(row.date, date),
                         !.plan = PatchedValue(row.plan, plan)]
  IN  IF /\ new.date # None /\ new.plan # None
         /\ DateChanged(row.date, date) \/ PlanChanged(row.plan, plan)
      THEN [new EXCEPT !.estimates = <<new.date, new.plan>>] ELSE new

(* Faulty: a new advance takes over the status of its PPM.                 *)
StatusOfPPM(row) == row.status

(* A new advance is as far as its PPM is.                                  *)
StatusOfNewAdvance(row) == IF row.status = "DRAFT" THEN "DRAFT" ELSE "REQUESTED"

(* The payload may say whether an advance is requested, and may have one,  *)
(* which also requests it.                                                 *)
PatchPPM(r, p) ==
  \E requested \in BOOLEAN, given \in BOOLEAN,
     date \in Dates \union {None}, plan \in Plans \union {None} :
    SavePPM(r, p, [Estimated(ppm[p], date, plan) EXCEPT !.requested = requested],
            IF requested /\ given THEN StatusOfNewAdvance(ppm[p]) ELSE None)

(* PersonallyProcuredMove.Submit, where it succeeds                        *)
Submittable(row) == row.status = "DRAFT" /\ ~ row.submitted
Submitted(row) == [row EXCEPT !.status = "SUBMITTED", !.submitted = TRUE]

(* The error of Submit is lost; the PPM is saved all the same.             *)
SubmitPPM(r, p) ==
  SavePPM(r, p, IF Submittable(ppm[p]) THEN Submitted(ppm[p]) ELSE ppm[p], None)

RequestPayment(r, p) ==
  /\ ppm[p].status \in {"APPROVED", "PAYMENT_REQUESTED"}
  /\ SavePPM(r, p, [ppm[p] EXCEPT !.status = "PAYMENT_REQUESTED"], None)

(* Faulty: the date is not set.                                            *)
ApproveUndated(r, p) ==
  /\ ppm[p].status \in {"SUBMITTED", "DRAFT"}
  /\ ~ ppm[p].approved
  /\ Begins(r, [NoWrites EXCEPT !.ppm = Only(p, [ppm[p] EXCEPT !.status = "APPROVED"])])

(* The office approves a PPM, a draft too; the row alone is saved.         *)
ApprovePPM(r, p) ==
  /\ ppm[p].status \in {"SUBMITTED", "DRAFT"}
  /\ ~ ppm[p].approved
  /\ Begins(r, [NoWrites EXCEPT !.ppm = Only(p, [ppm[p] EXCEPT !.status = "APPROVED",
                                                               !.approved = TRUE])])

ApproveReimbursement(r, a) ==
  /\ advance[a] = "REQUESTED"
  /\ Begins(r, [NoWrites EXCEPT !.advance = Only(a, "APPROVED")])
-----------------------------------------------------------------------------
(* The move and its orders.                                                *)

LoadedAdvances == {ppm[p].advance : p \in {q \in DOMAIN ppm : HasAdvance(ppm[q])}}

(* SaveMoveDependencies writes the orders, the PPMs and their advances     *)
(* with the move.                                                          *)
Dependencies(status, orderStatus, ppms, advances) ==
  [NoWrites EXCEPT !.move = status, !.orders = orderStatus, !.ppm = ppms,
                   !.advance = advances]

SubmitMove(r) ==
  /\ move = "DRAFT"
  /\ \A p \in DOMAIN ppm : Submittable(ppm[p])
  /\ \A a \in LoadedAdvances : advance[a] = "DRAFT"
  /\ Begins(r, Dependencies("SUBMITTED", orders,
                            [p \in DOMAIN ppm |-> Submitted(ppm[p])],
                            [a \in LoadedAdvances |-> "REQUESTED"]))

(* Faulty: the orders are forgotten.                                       *)
CancelWithoutOrders(r) ==
  /\ move # "CANCELED"
  /\ \A p \in DOMAIN ppm : ppm[p].status \notin {"COMPLETED", "CANCELED"}
  /\ Begins(r, Dependencies("CANCELED", orders,
                            [p \in DOMAIN ppm |-> [ppm[p] EXCEPT !.status = "CANCELED"]],
                            Restrict(advance, LoadedAdvances)))

CancelMove(r) ==
  /\ move # "CANCELED"
  /\ \A p \in DOMAIN ppm : ppm[p].status \notin {"COMPLETED", "CANCELED"}
  /\ orders # "CANCELED"
  /\ Begins(r, Dependencies("CANCELED", "CANCELED",
                            [p \in DOMAIN ppm |-> [ppm[p] EXCEPT !.status = "CANCELED"]],
                            Restrict(advance, LoadedAdvances)))

(* Whether the orders are complete enough is data of the environment.      *)
ApproveMove(r) ==
  /\ move = "SUBMITTED"
  /\ Begins(r, [NoWrites EXCEPT !.move = "APPROVED"])

PatchMove(r) == Begins(r, [NoWrites EXCEPT !.move = move])
UpdateOrders(r) == Begins(r, [NoWrites EXCEPT !.orders = orders])
-----------------------------------------------------------------------------
(* The documents of a PPM.                                                 *)

CreateMoveDocument(d) ==
  /\ d \notin DOMAIN document
  /\ \E p \in DOMAIN ppm, type \in {"SHIPMENT_SUMMARY", "OTHER"} :
       /\ document' = With(document,
                           Only(d, [ppm |-> p, type |-> type, status |-> "AWAITING_REVIEW"]))
       /\ filed' = filed \union {<<d, p>>}
  /\ UNCHANGED <<move, orders, ppm, advance, reviewed, req>>

(* "If the status has already been completed [...] then don't complete it  *)
(* again."                                                                 *)
Completes(row) == row.status \in {"PAYMENT_REQUESTED", "COMPLETED"}

CompletesItsPPM(row) == row.status = "OK" /\ row.type = "SHIPMENT_SUMMARY"

(* Faulty: the PPM that the request gives the document to is processed.    *)
UpdateAndCompleteGiven(r, d) ==
  \E type \in {"SHIPMENT_SUMMARY", "OTHER"}, q \in DOMAIN ppm,
     status \in {document[d].status, "OK", "HAS_ISSUE"} :
    LET new == [document[d] EXCEPT !.type = type, !.status = status, !.ppm = q]
        processed == status # document[d].status /\ CompletesItsPPM(new)
    IN  /\ processed => Completes(ppm[q])
        /\ Begins(r, [NoWrites EXCEPT
             !.document = Only(d, new),
             !.ppm = Only(q, IF processed THEN [ppm[q] EXCEPT !.status = "COMPLETED"]
                             ELSE ppm[q])])

(* A document becomes OK or HAS_ISSUE, or keeps its status; it may become  *)
(* of another type or another PPM's.  A shipment summary that becomes OK   *)
(* completes the PPM the document was read with, which is saved in any     *)
(* case.  The service member may do so as well as the office.              *)
UpdateMoveDocument(r, d) ==
  \E type \in {"SHIPMENT_SUMMARY", "OTHER"}, q \in DOMAIN ppm,
     status \in {document[d].status, "OK", "HAS_ISSUE"} :
    LET new == [document[d] EXCEPT !.type = type, !.status = status, !.ppm = q]
        p == document[d].ppm
        processed == status # document[d].status /\ CompletesItsPPM(new)
    IN  /\ processed => Completes(ppm[p])
        /\ Begins(r, [NoWrites EXCEPT
             !.document = Only(d, new),
             !.ppm = Only(p, IF processed THEN [ppm[p] EXCEPT !.status = "COMPLETED"]
                             ELSE ppm[p])])
-----------------------------------------------------------------------------
PpmStep(r, p) ==
  \/ PatchPPM(r, p)
  \/ SubmitPPM(r, p)
  \/ RequestPayment(r, p)
  \/ ApprovePPM(r, p)

MoveStep(r) ==
  \/ SubmitMove(r)
  \/ CancelMove(r)
  \/ ApproveMove(r)
  \/ PatchMove(r)
  \/ UpdateOrders(r)

Next ==
  \/ \E p \in Ppms : CreatePPM(p)
  \/ \E d \in Documents : CreateMoveDocument(d)
  \/ \E r \in Requests :
       \/ \E p \in DOMAIN ppm : PpmStep(r, p)
       \/ \E a \in DOMAIN advance : ApproveReimbursement(r, a)
       \/ \E d \in DOMAIN document : UpdateMoveDocument(r, d)
       \/ MoveStep(r)
       \/ Save(r)
       \/ Fail(r)

Spec == Init /\ [][Next]_vars
-----------------------------------------------------------------------------
(* Properties.                                                             *)

IsTable(f, ids, rows) == DOMAIN f \subseteq ids /\ \A x \in DOMAIN f : f[x] \in rows

(* The tables and the write sets are well formed.                          *)
TypeOK ==
  /\ move \in MoveStatuses
  /\ orders \in {"DRAFT", "CANCELED"}
  /\ IsTable(ppm, Ppms, Ppm)
  /\ IsTable(advance, Advances, AdvanceStatuses)
  /\ IsTable(document, Documents, Document)
  /\ filed \subseteq Documents \X Ppms
  /\ reviewed \subseteq Ppms
  /\ \A r \in Requests :
       LET w == req[r].writes IN
       /\ req[r].at \in {"idle", "saving"}
       /\ w.move \in MoveStatuses \union {None}
       /\ w.orders \in {"DRAFT", "CANCELED", None}
       /\ IsTable(w.ppm, Ppms, Ppm)
       /\ IsTable(w.advance, Advances, AdvanceStatuses)
       /\ IsTable(w.created, Advances, AdvanceStatuses)
       /\ IsTable(w.document, Documents, Document)
       /\ w.destroyed \subseteq Advances

(* The dates of a PPM agree with its status: none on a draft, the date of  *)
(* its approval on one that was approved, whatever old row is written      *)
(* back.  A draft without the date can be submitted and approved.          *)
RowAgrees(row) ==
  /\ row.status = "DRAFT" => ~ row.submitted /\ ~ row.approved
  /\ row.status = "SUBMITTED" => row.submitted /\ ~ row.approved
  /\ row.status \in {"APPROVED", "PAYMENT_REQUESTED", "COMPLETED"} => row.approved

DatesAgree == \A p \in DOMAIN ppm : RowAgrees(ppm[p])

(* A PPM is completed only by a shipment summary that was saved with       *)
(* status OK and that had been the PPM's own before, whoever saves it:     *)
(* although documents change their type and their PPM, in the same request *)
(* too, and old rows of PPMs are written back.                             *)
CompletedByReview ==
  \A p \in DOMAIN ppm : ppm[p].status = "COMPLETED" => p \in reviewed
=============================================================================
