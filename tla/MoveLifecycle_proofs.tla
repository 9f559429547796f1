------------------------- MODULE MoveLifecycle_proofs -------------------------
(***************************************************************************)
(* What the requests of MoveLifecycle keep, however many overlap and       *)
(* however many PPMs, advances and documents the move has.  The idea: a    *)
(* write set is as good as the tables are.  Whatever a request is about to *)
(* write agrees with itself, and a PPM that it is about to complete was    *)
(* completed by a document of its own, or is by the same write set.        *)
(***************************************************************************)
EXTENDS MCMoveLifecycle, TLAPS

Rows(ids, rows) == UNION {[S -> rows] : S \in SUBSET ids}

Writes ==
  [move : MoveStatuses \union {None},
   orders : {"DRAFT", "CANCELED", None},
   ppm : Rows(Ppms, Ppm),
   advance : Rows(Advances, AdvanceStatuses),
   created : Rows(Advances, AdvanceStatuses),
   destroyed : SUBSET Advances,
   document : Rows(Documents, Document)]

Typed ==
  /\ move \in MoveStatuses
  /\ orders \in {"DRAFT", "CANCELED"}
  /\ ppm \in Rows(Ppms, Ppm)
  /\ advance \in Rows(Advances, AdvanceStatuses)
  /\ document \in Rows(Documents, Document)
  /\ filed \subseteq Documents \X Ppms
  /\ reviewed \subseteq Ppms
  /\ req \in [Requests -> [at : {"idle", "saving"}, writes : Writes]]

(* ReviewedBy, when the documents have been of the PPMs as the pairs say.  *)
ReviewedWith(w, pairs) ==
  {p \in DOMAIN w.ppm : \E d \in DOMAIN w.document :
     /\ <<d, p>> \in pairs
     /\ w.document[d].type = "SHIPMENT_SUMMARY"
     /\ w.document[d].status = "OK"}

(* A row for p that may be written when the PPMs of done were reviewed.    *)
Sound(p, row, done) == RowAgrees(row) /\ (row.status = "COMPLETED" => p \in done)

(* Documents are of PPMs that are there.                                   *)
Referring(documents, there) == \A d \in DOMAIN documents : documents[d].ppm \in there

SoundWrites(w, done, pairs, there) ==
  /\ \A p \in DOMAIN w.ppm :
       Sound(p, w.ppm[p], done \union ReviewedWith(w, pairs))
  /\ Referring(w.document, there)

(* The inductive invariant.                                                *)
Inv ==
  /\ Typed
  /\ \A p \in DOMAIN ppm : Sound(p, ppm[p], reviewed)
  /\ Referring(document, DOMAIN ppm)
  /\ \A d \in DOMAIN document : <<d, document[d].ppm>> \in filed
  /\ \A r \in Requests : SoundWrites(req[r].writes, reviewed, filed, DOMAIN ppm)
-----------------------------------------------------------------------------
(* Tables.                                                                 *)

LEMMA RowsOfTable ==
  ASSUME NEW ids, NEW rows, NEW f \in Rows(ids, rows)
  PROVE  /\ DOMAIN f \subseteq ids
         /\ \A x \in DOMAIN f : f[x] \in rows
BY DEF Rows

LEMMA TableOfRows ==
  ASSUME NEW ids, NEW rows, NEW S, S \subseteq ids, NEW f \in [S -> rows]
  PROVE  f \in Rows(ids, rows)
BY DEF Rows

LEMMA NoRowsType ==
  ASSUME NEW ids, NEW rows
  PROVE  NoRows \in Rows(ids, rows) /\ DOMAIN NoRows = {}
<1>1. NoRows \in [{} -> rows] /\ {} \subseteq ids  BY DEF NoRows
<1> QED  BY <1>1, TableOfRows DEF NoRows

LEMMA OnlyType ==
  ASSUME NEW ids, NEW rows, NEW x \in ids, NEW row \in rows
  PROVE  Only(x, row) \in Rows(ids, rows) /\ DOMAIN Only(x, row) = {x} /\ Only(x, row)[x] = row
<1>1. Only(x, row) \in [{x} -> rows] /\ {x} \subseteq ids  BY DEF Only
<1> QED  BY <1>1, TableOfRows DEF Only

LEMMA WithType ==
  ASSUME NEW ids, NEW rows, NEW f \in Rows(ids, rows), NEW g \in Rows(ids, rows)
  PROVE  /\ With(f, g) \in Rows(ids, rows)
         /\ DOMAIN With(f, g) = DOMAIN f \union DOMAIN g
         /\ \A x \in DOMAIN With(f, g) :
              With(f, g)[x] = IF x \in DOMAIN g THEN g[x] ELSE f[x]
<1>1. With(f, g) \in [DOMAIN f \union DOMAIN g -> rows]
  BY RowsOfTable DEF With
<1>2. DOMAIN f \union DOMAIN g \subseteq ids  BY RowsOfTable
<1> QED  BY <1>1, <1>2, TableOfRows DEF With

LEMMA RestrictType ==
  ASSUME NEW ids, NEW rows, NEW f \in Rows(ids, rows), NEW S, S \subseteq DOMAIN f
  PROVE  /\ Restrict(f, S) \in Rows(ids, rows)
         /\ DOMAIN Restrict(f, S) = S
         /\ \A x \in S : Restrict(f, S)[x] = f[x]
<1>1. Restrict(f, S) \in [S -> rows]  BY RowsOfTable DEF Restrict
<1>2. S \subseteq ids  BY RowsOfTable
<1> QED  BY <1>1, <1>2, TableOfRows DEF Restrict

LEMMA UpdatedType ==
  ASSUME NEW ids, NEW rows, NEW f \in Rows(ids, rows), NEW g \in Rows(ids, rows)
  PROVE  /\ Updated(f, g) \in Rows(ids, rows)
         /\ DOMAIN Updated(f, g) = DOMAIN f
         /\ \A x \in DOMAIN f : Updated(f, g)[x] = IF x \in DOMAIN g THEN g[x] ELSE f[x]
<1> DEFINE S == DOMAIN f \intersect DOMAIN g
<1>1. /\ Restrict(g, S) \in Rows(ids, rows)
      /\ DOMAIN Restrict(g, S) = S
      /\ \A x \in S : Restrict(g, S)[x] = g[x]
  BY RestrictType
<1> HIDE DEF S
<1>2. Updated(f, g) = With(f, Restrict(g, S))  BY DEF Updated, S
<1>3. S \subseteq DOMAIN f /\ (\A x \in DOMAIN f : x \in S <=> x \in DOMAIN g)  BY DEF S
<1> QED  BY <1>1, <1>2, <1>3, WithType

LEMMA NoWritesType ==
  NoWrites \in Writes /\ \A done, pairs, there : SoundWrites(NoWrites, done, pairs, there)
BY NoRowsType DEF NoWrites, Writes, SoundWrites, Referring
-----------------------------------------------------------------------------
(* Requests.                                                               *)

LEMMA BeginsSound ==
  ASSUME Inv, NEW r \in Requests, NEW w \in Writes,
         SoundWrites(w, reviewed, filed, DOMAIN ppm), Begins(r, w)
  PROVE  Inv'
<1>1. UNCHANGED <<move, orders, ppm, advance, document, filed, reviewed>>
  BY DEF Begins, tables
<1>2. req' = [req EXCEPT ![r] = [at |-> "saving", writes |-> w]]  BY DEF Begins
<1>3. Typed'  BY <1>1, <1>2 DEF Inv, Typed
<1>4. ASSUME NEW q \in Requests PROVE SoundWrites(req'[q].writes, reviewed, filed, DOMAIN ppm)
  BY <1>2 DEF Inv, Typed
<1> QED  BY <1>1, <1>3, <1>4 DEF Inv

(* What was sound stays so when more is reviewed and filed.                *)
LEMMA SoundIsStable ==
  ASSUME NEW w, NEW done, NEW more, done \subseteq more,
         NEW pairs, NEW others, pairs \subseteq others, NEW there,
         SoundWrites(w, done, pairs, there)
  PROVE  SoundWrites(w, more, others, there)
<1>1. ReviewedWith(w, pairs) \subseteq ReviewedWith(w, others)  BY DEF ReviewedWith
<1> QED  BY <1>1 DEF SoundWrites, Sound

(* A handler that saves no PPM has nothing to agree with.                  *)
LEMMA NoPpmIsSound ==
  ASSUME NEW w, w.ppm = NoRows, w.document = NoRows, NEW done, NEW pairs, NEW there
  PROVE  SoundWrites(w, done, pairs, there)
BY DEF SoundWrites, Referring, NoRows

(* A handler that saves one PPM.                                           *)
LEMMA OnePpmIsSound ==
  ASSUME NEW w, NEW p \in Ppms, NEW row \in Ppm, w.ppm = Only(p, row),
         NEW done, NEW pairs, Sound(p, row, done \union ReviewedWith(w, pairs)),
         NEW there, Referring(w.document, there)
  PROVE  SoundWrites(w, done, pairs, there)
<1>1. DOMAIN w.ppm = {p} /\ w.ppm[p] = row  BY DEF Only
<1> QED  BY <1>1 DEF SoundWrites

LEMMA SavePPMSound ==
  ASSUME Inv, NEW r \in Requests, NEW p \in Ppms, NEW row \in Ppm,
         Sound(p, row, reviewed),
         NEW status \in AdvanceStatuses \union {None},
         SavePPM(r, p, row, status)
  PROVE  Inv'
<1>1. ASSUME NEW w \in Writes, NEW new \in Ppm, w.ppm = Only(p, new), w.document = NoRows,
             new.status = row.status, new.submitted = row.submitted,
             new.approved = row.approved, Begins(r, w)
      PROVE  Inv'
  <2>1. Sound(p, new, reviewed \union ReviewedWith(w, filed))
    BY <1>1 DEF Sound, RowAgrees
  <2>2. Referring(w.document, DOMAIN ppm)  BY <1>1 DEF Referring, NoRows
  <2> QED  BY <1>1, <2>1, <2>2, OnePpmIsSound, BeginsSound
<1>2. CASE HasAdvance(row) /\ row.requested
  <2> DEFINE w == [NoWrites EXCEPT !.ppm = Only(p, row),
                                   !.advance = Only(row.advance, advance[row.advance])]
  <2>1. row.advance \in Advances /\ advance[row.advance] \in AdvanceStatuses
    BY <1>2, RowsOfTable DEF HasAdvance, Inv, Typed
  <2>2. /\ Only(p, row) \in Rows(Ppms, Ppm)
        /\ Only(row.advance, advance[row.advance]) \in Rows(Advances, AdvanceStatuses)
    BY <2>1, OnlyType
  <2>3. w \in Writes /\ w.ppm = Only(p, row) /\ w.document = NoRows
    BY <2>2, NoWritesType DEF Writes, NoWrites
  <2>4. Begins(r, w)  BY <1>2 DEF SavePPM
  <2> QED  BY <2>3, <2>4, <1>1
<1>3. CASE ~ HasAdvance(row) /\ row.requested /\ status # None
  <2>1. PICK a \in NewAdvances :
          Begins(r, [NoWrites EXCEPT !.ppm = Only(p, [row EXCEPT !.advance = a]),
                                     !.created = Only(a, status)])
    BY <1>3 DEF SavePPM
  <2> DEFINE new == [row EXCEPT !.advance = a]
             w == [NoWrites EXCEPT !.ppm = Only(p, new), !.created = Only(a, status)]
  <2>2. a \in Advances /\ status \in AdvanceStatuses  BY <1>3 DEF NewAdvances
  <2>3. /\ new \in Ppm /\ new.status = row.status /\ new.submitted = row.submitted
        /\ new.approved = row.approved
    BY <2>2 DEF Ppm
  <2> HIDE DEF new
  <2>4. /\ Only(p, new) \in Rows(Ppms, Ppm)
        /\ Only(a, status) \in Rows(Advances, AdvanceStatuses)
    BY <2>2, <2>3, OnlyType
  <2>5. w \in Writes /\ w.ppm = Only(p, new) /\ w.document = NoRows
    BY <2>4, NoWritesType DEF Writes, NoWrites
  <2>6. Begins(r, w)  BY <2>1 DEF new
  <2> QED  BY <2>3, <2>5, <2>6, <1>1
<1>4. CASE ~ HasAdvance(row) /\ row.requested /\ status = None
  <2> DEFINE w == [NoWrites EXCEPT !.ppm = Only(p, row)]
  <2>1. Only(p, row) \in Rows(Ppms, Ppm)  BY OnlyType
  <2>2. w \in Writes /\ w.ppm = Only(p, row) /\ w.document = NoRows
    BY <2>1, NoWritesType DEF Writes, NoWrites
  <2>3. Begins(r, w)  BY <1>4 DEF SavePPM
  <2> QED  BY <2>2, <2>3, <1>1
<1>5. CASE ~ row.requested
  <2> DEFINE new == [row EXCEPT !.advance = None]
             w == [NoWrites EXCEPT !.ppm = Only(p, new),
                                   !.destroyed = {row.advance} \ {None}]
  <2>1. /\ new \in Ppm /\ new.status = row.status /\ new.submitted = row.submitted
        /\ new.approved = row.approved /\ {row.advance} \ {None} \subseteq Advances
    BY DEF Ppm
  <2>2. Begins(r, w)  BY <1>5 DEF SavePPM
  <2> HIDE DEF new
  <2>3. Only(p, new) \in Rows(Ppms, Ppm)  BY <2>1, OnlyType
  <2>4. w \in Writes /\ w.ppm = Only(p, new) /\ w.document = NoRows
    BY <2>1, <2>3, NoWritesType DEF Writes, NoWrites
  <2> QED  BY <2>1, <2>2, <2>4, <1>1
<1> QED  BY <1>2, <1>3, <1>4, <1>5 DEF Ppm

(* One PPM, and nothing else.                                              *)
LEMMA SaveRowSound ==
  ASSUME Inv, NEW r \in Requests, NEW p \in Ppms, NEW row \in Ppm, Sound(p, row, reviewed),
         Begins(r, [NoWrites EXCEPT !.ppm = Only(p, row)])
  PROVE  Inv'
<1> DEFINE w == [NoWrites EXCEPT !.ppm = Only(p, row)]
<1>1. Only(p, row) \in Rows(Ppms, Ppm)  BY OnlyType
<1>2. w \in Writes /\ w.ppm = Only(p, row) /\ w.document = NoRows
  BY <1>1, NoWritesType DEF Writes, NoWrites
<1>3. Sound(p, row, reviewed \union ReviewedWith(w, filed))  BY DEF Sound
<1>4. Referring(w.document, DOMAIN ppm)  BY <1>2 DEF Referring, NoRows
<1> QED  BY <1>2, <1>3, <1>4, OnePpmIsSound, BeginsSound
-----------------------------------------------------------------------------
(* The steps of Next.                                                      *)

LEMMA PpmRow ==
  ASSUME Inv, NEW p \in DOMAIN ppm
  PROVE  /\ p \in Ppms /\ ppm[p] \in Ppm /\ Sound(p, ppm[p], reviewed)
BY RowsOfTable DEF Inv, Typed

LEMMA InitSound == Init => Inv
<1> SUFFICES ASSUME Init PROVE Inv  OBVIOUS
<1>1. Idle \in [at : {"idle", "saving"}, writes : Writes]
  BY NoWritesType DEF Idle
<1>2. Typed  BY <1>1, NoRowsType DEF Init, Typed, MoveStatuses
<1>3. DOMAIN ppm = {} /\ DOMAIN document = {} /\ Referring(document, DOMAIN ppm)
  BY NoRowsType DEF Init, Referring
<1>4. \A r \in Requests : SoundWrites(req[r].writes, reviewed, filed, DOMAIN ppm)
  BY NoWritesType DEF Init, Idle
<1> QED  BY <1>2, <1>3, <1>4 DEF Inv

LEMMA CreateSound ==
  ASSUME Inv, NEW p \in Ppms, CreatePPM(p)
  PROVE  Inv'
<1>1. PICK a \in NewAdvances \union {None}, date \in Dates \union {None},
           plan \in Plans \union {None} :
        /\ ppm' = With(ppm, Only(p,
             [status |-> "DRAFT", submitted |-> FALSE, approved |-> FALSE,
              requested |-> a # None, advance |-> a,
              date |-> date, plan |-> plan, estimates |-> None]))
        /\ advance' = With(advance, [b \in {a} \ {None} |-> "DRAFT"])
  BY DEF CreatePPM
<1> DEFINE row == [status |-> "DRAFT", submitted |-> FALSE, approved |-> FALSE,
                   requested |-> a # None, advance |-> a,
                   date |-> date, plan |-> plan, estimates |-> None]
           drafts == [b \in {a} \ {None} |-> "DRAFT"]
<1>2. row \in Ppm /\ Sound(p, row, reviewed)
  <2>1. a \in Advances \union {None} /\ (a # None) \in BOOLEAN  BY DEF NewAdvances
  <2>2. row \in Ppm  BY <2>1 DEF Ppm, PpmStatuses
  <2> QED  BY <2>2 DEF Sound, RowAgrees
<1>3. drafts \in Rows(Advances, AdvanceStatuses)
  <2>1. drafts \in [{a} \ {None} -> AdvanceStatuses]  BY DEF AdvanceStatuses
  <2>2. {a} \ {None} \subseteq Advances  BY DEF NewAdvances
  <2> QED  BY <2>1, <2>2, TableOfRows
<1>4. ppm' = With(ppm, Only(p, row)) /\ advance' = With(advance, drafts)  BY <1>1
<1> HIDE DEF row, drafts
<1>5. /\ Only(p, row) \in Rows(Ppms, Ppm) /\ DOMAIN Only(p, row) = {p}
      /\ Only(p, row)[p] = row
  BY <1>2, OnlyType
<1>6. /\ ppm' \in Rows(Ppms, Ppm) /\ DOMAIN ppm' = DOMAIN ppm \union {p}
      /\ \A q \in DOMAIN ppm' : ppm'[q] = IF q = p THEN row ELSE ppm[q]
  <2> DEFINE new == Only(p, row)
  <2>1. ppm \in Rows(Ppms, Ppm) /\ new \in Rows(Ppms, Ppm)  BY <1>5 DEF Inv, Typed
  <2>2. ppm' = With(ppm, new) /\ DOMAIN new = {p} /\ new[p] = row  BY <1>4, <1>5
  <2> HIDE DEF new
  <2>3. With(ppm, new) \in Rows(Ppms, Ppm)  BY <2>1, WithType
  <2>4. DOMAIN With(ppm, new) = DOMAIN ppm \union DOMAIN new  BY DEF With
  <2>5. \A q \in DOMAIN ppm \union DOMAIN new :
          With(ppm, new)[q] = IF q \in DOMAIN new THEN new[q] ELSE ppm[q]
    BY DEF With
  <2> QED  BY <2>2, <2>3, <2>4, <2>5
<1>7. advance' \in Rows(Advances, AdvanceStatuses)
  BY <1>3, <1>4, WithType DEF Inv, Typed
<1>8. UNCHANGED <<move, orders, document, filed, reviewed, req>>  BY DEF CreatePPM
<1>9. Typed'  BY <1>6, <1>7, <1>8 DEF Inv, Typed
<1>10. \A q \in DOMAIN ppm' : Sound(q, ppm'[q], reviewed')
  BY <1>2, <1>6, <1>8, PpmRow
<1>11. /\ Referring(document', DOMAIN ppm')
       /\ \A r \in Requests : SoundWrites(req'[r].writes, reviewed', filed', DOMAIN ppm')
  BY <1>6, <1>8 DEF Inv, SoundWrites, Referring
<1>12. \A d \in DOMAIN document' : <<d, document'[d].ppm>> \in filed'  BY <1>8 DEF Inv
<1> QED  BY <1>9, <1>10, <1>11, <1>12 DEF Inv

(* What a PATCH makes of the dates and of the estimates.                   *)
LEMMA EstimatedType ==
  ASSUME NEW row \in Ppm, NEW date \in Dates \union {None}, NEW plan \in Plans \union {None}
  PROVE  /\ Estimated(row, date, plan) \in Ppm
         /\ Estimated(row, date, plan).status = row.status
         /\ Estimated(row, date, plan).submitted = row.submitted
         /\ Estimated(row, date, plan).approved = row.approved
<1> DEFINE new == [row EXCEPT !.date = PatchedValue(row.date, date),
                              !.plan = PatchedValue(row.plan, plan)]
<1>1. /\ new \in Ppm /\ new.status = row.status /\ new.submitted = row.submitted
      /\ new.approved = row.approved
  BY DEF Ppm, PatchedValue
<1>2. Estimated(row, date, plan) \in
        {new} \union (IF new.date # None /\ new.plan # None
                     THEN {[new EXCEPT !.estimates = <<new.date, new.plan>>]} ELSE {})
  BY DEF Estimated
<1> HIDE DEF new
<1> QED  BY <1>1, <1>2 DEF Ppm

LEMMA PpmStepSound ==
  ASSUME Inv, NEW r \in Requests, NEW p \in DOMAIN ppm, PpmStep(r, p)
  PROVE  Inv'
<1>1. p \in Ppms /\ ppm[p] \in Ppm /\ Sound(p, ppm[p], reviewed)  BY PpmRow
<1>2. CASE PatchPPM(r, p)
  <2>1. PICK requested \in BOOLEAN, given \in BOOLEAN,
             date \in Dates \union {None}, plan \in Plans \union {None} :
          SavePPM(r, p, [Estimated(ppm[p], date, plan) EXCEPT !.requested = requested],
                  IF requested /\ given THEN StatusOfNewAdvance(ppm[p]) ELSE None)
    BY <1>2 DEF PatchPPM
  <2> DEFINE row == [Estimated(ppm[p], date, plan) EXCEPT !.requested = requested]
             status == IF requested /\ given THEN StatusOfNewAdvance(ppm[p]) ELSE None
  <2>2. /\ row \in Ppm /\ row.status = ppm[p].status
        /\ row.submitted = ppm[p].submitted /\ row.approved = ppm[p].approved
    BY <1>1, EstimatedType DEF Ppm
  <2>3. status \in AdvanceStatuses \union {None}
    BY DEF StatusOfNewAdvance, AdvanceStatuses
  <2>4. SavePPM(r, p, row, status)  BY <2>1
  <2> HIDE DEF row, status
  <2>5. Sound(p, row, reviewed)  BY <1>1, <2>2 DEF Sound, RowAgrees
  <2> QED  BY <1>1, <2>2, <2>3, <2>4, <2>5, SavePPMSound
<1>3. CASE SubmitPPM(r, p)
  <2> DEFINE row == IF Submittable(ppm[p]) THEN Submitted(ppm[p]) ELSE ppm[p]
  <2>1. row \in Ppm /\ Sound(p, row, reviewed)
    BY <1>1 DEF Submittable, Submitted, Ppm, PpmStatuses, Sound, RowAgrees
  <2>2. SavePPM(r, p, row, None)  BY <1>3 DEF SubmitPPM
  <2> HIDE DEF row
  <2> QED  BY <1>1, <2>1, <2>2, SavePPMSound
<1>4. CASE RequestPayment(r, p)
  <2> DEFINE row == [ppm[p] EXCEPT !.status = "PAYMENT_REQUESTED"]
  <2>1. row \in Ppm /\ Sound(p, row, reviewed)
    BY <1>1, <1>4 DEF RequestPayment, Ppm, PpmStatuses, Sound, RowAgrees
  <2>2. SavePPM(r, p, row, None)  BY <1>4 DEF RequestPayment
  <2> HIDE DEF row
  <2> QED  BY <1>1, <2>1, <2>2, SavePPMSound
<1>5. CASE ApprovePPM(r, p)
  <2> DEFINE row == [ppm[p] EXCEPT !.status = "APPROVED", !.approved = TRUE]
  <2>1. row \in Ppm /\ Sound(p, row, reviewed)
    BY <1>1, <1>5 DEF ApprovePPM, Ppm, PpmStatuses, Sound, RowAgrees
  <2>2. Begins(r, [NoWrites EXCEPT !.ppm = Only(p, row)])  BY <1>5 DEF ApprovePPM
  <2> HIDE DEF row
  <2> QED  BY <1>1, <2>1, <2>2, SaveRowSound
<1> QED  BY <1>2, <1>3, <1>4, <1>5 DEF PpmStep

LEMMA ApproveReimbursementSound ==
  ASSUME Inv, NEW r \in Requests, NEW a \in DOMAIN advance, ApproveReimbursement(r, a)
  PROVE  Inv'
<1> DEFINE w == [NoWrites EXCEPT !.advance = Only(a, "APPROVED")]
<1>1. a \in Advances  BY RowsOfTable DEF Inv, Typed
<1>2. Only(a, "APPROVED") \in Rows(Advances, AdvanceStatuses)
  BY <1>1, OnlyType DEF AdvanceStatuses
<1>3. w \in Writes  BY <1>2, NoWritesType DEF Writes
<1>4. w.ppm = NoRows /\ w.document = NoRows  BY DEF NoWrites
<1>5. Begins(r, w)  BY DEF ApproveReimbursement
<1> HIDE DEF w
<1> QED  BY <1>3, <1>4, <1>5, NoPpmIsSound, BeginsSound

LEMMA LoadedAdvancesType == Inv => LoadedAdvances \subseteq DOMAIN advance
BY DEF LoadedAdvances, HasAdvance

(* All PPMs get one status, with the orders and the advances of the move.  *)
LEMMA DependenciesSound ==
  ASSUME Inv, NEW r \in Requests,
         NEW status \in MoveStatuses, NEW orderStatus \in {"DRAFT", "CANCELED"},
         NEW ppms \in Rows(Ppms, Ppm), NEW advances \in Rows(Advances, AdvanceStatuses),
         \A p \in DOMAIN ppms : RowAgrees(ppms[p]) /\ ppms[p].status # "COMPLETED",
         Begins(r, Dependencies(status, orderStatus, ppms, advances))
  PROVE  Inv'
<1> DEFINE w == Dependencies(status, orderStatus, ppms, advances)
<1>1. w \in Writes /\ w.ppm = ppms /\ w.document = NoRows
  BY NoWritesType DEF Dependencies, Writes, NoWrites
<1> HIDE DEF w
<1>2. SoundWrites(w, reviewed, filed, DOMAIN ppm)  BY <1>1 DEF SoundWrites, Sound, Referring, NoRows
<1>3. Begins(r, w)  BY DEF w
<1> QED  BY <1>1, <1>2, <1>3, BeginsSound

LEMMA MoveStepSound ==
  ASSUME Inv, NEW r \in Requests, MoveStep(r)
  PROVE  Inv'
<1>1. /\ DOMAIN ppm \subseteq Ppms
      /\ \A p \in DOMAIN ppm : ppm[p] \in Ppm /\ Sound(p, ppm[p], reviewed)
  BY RowsOfTable DEF Inv, Typed
<1>2. /\ LoadedAdvances \subseteq DOMAIN advance /\ DOMAIN advance \subseteq Advances
      /\ move \in MoveStatuses /\ orders \in {"DRAFT", "CANCELED"}
      /\ advance \in Rows(Advances, AdvanceStatuses)
  BY LoadedAdvancesType, RowsOfTable DEF Inv, Typed
<1>3. CASE SubmitMove(r)
  <2> DEFINE ppms == [p \in DOMAIN ppm |-> Submitted(ppm[p])]
             advances == [a \in LoadedAdvances |-> "REQUESTED"]
  <2>1. Begins(r, Dependencies("SUBMITTED", orders, ppms, advances))
    BY <1>3 DEF SubmitMove
  <2>2. \A p \in DOMAIN ppm : Submitted(ppm[p]) \in Ppm
    BY <1>1 DEF Submitted, Ppm, PpmStatuses
  <2>3. ppms \in Rows(Ppms, Ppm)
    <3>1. ppms \in [DOMAIN ppm -> Ppm]  BY <2>2
    <3> QED  BY <1>1, <3>1, TableOfRows
  <2>4. \A p \in DOMAIN ppms : RowAgrees(ppms[p]) /\ ppms[p].status # "COMPLETED"
    <3>1. ASSUME NEW p \in DOMAIN ppm
          PROVE  RowAgrees(Submitted(ppm[p])) /\ Submitted(ppm[p]).status # "COMPLETED"
      BY <1>1, <1>3 DEF SubmitMove, Submittable, Submitted, Ppm, Sound, RowAgrees
    <3> QED  BY <3>1
  <2>5. advances \in Rows(Advances, AdvanceStatuses)
    <3>1. advances \in [LoadedAdvances -> AdvanceStatuses]  BY DEF AdvanceStatuses
    <3>2. LoadedAdvances \subseteq Advances  BY <1>2
    <3> QED  BY <3>1, <3>2, TableOfRows
  <2> HIDE DEF ppms, advances
  <2> QED  BY <1>2, <2>1, <2>3, <2>4, <2>5, DependenciesSound DEF MoveStatuses
<1>4. CASE CancelMove(r)
  <2> DEFINE ppms == [p \in DOMAIN ppm |-> [ppm[p] EXCEPT !.status = "CANCELED"]]
             advances == Restrict(advance, LoadedAdvances)
  <2>1. Begins(r, Dependencies("CANCELED", "CANCELED", ppms, advances))
    BY <1>4 DEF CancelMove
  <2>2. ppms \in Rows(Ppms, Ppm)
    <3>1. ppms \in [DOMAIN ppm -> Ppm]  BY <1>1 DEF Ppm, PpmStatuses
    <3> QED  BY <1>1, <3>1, TableOfRows
  <2>3. \A p \in DOMAIN ppms : RowAgrees(ppms[p]) /\ ppms[p].status # "COMPLETED"
    BY <1>1 DEF Ppm, RowAgrees
  <2>4. advances \in Rows(Advances, AdvanceStatuses)  BY <1>2, RestrictType
  <2> HIDE DEF ppms, advances
  <2> QED  BY <2>1, <2>2, <2>3, <2>4, DependenciesSound DEF MoveStatuses
<1>5. CASE ApproveMove(r)
  <2> DEFINE w == [NoWrites EXCEPT !.move = "APPROVED"]
  <2>1. w \in Writes /\ w.ppm = NoRows /\ w.document = NoRows
    BY NoWritesType DEF Writes, MoveStatuses, NoWrites
  <2>2. Begins(r, w)  BY <1>5 DEF ApproveMove
  <2> HIDE DEF w
  <2> QED  BY <2>1, <2>2, NoPpmIsSound, BeginsSound
<1>6. CASE PatchMove(r)
  <2> DEFINE w == [NoWrites EXCEPT !.move = move]
  <2>1. w \in Writes /\ w.ppm = NoRows /\ w.document = NoRows
    BY <1>2, NoWritesType DEF Writes, NoWrites
  <2>2. Begins(r, w)  BY <1>6 DEF PatchMove
  <2> HIDE DEF w
  <2> QED  BY <2>1, <2>2, NoPpmIsSound, BeginsSound
<1>7. CASE UpdateOrders(r)
  <2> DEFINE w == [NoWrites EXCEPT !.orders = orders]
  <2>1. w \in Writes /\ w.ppm = NoRows /\ w.document = NoRows
    BY <1>2, NoWritesType DEF Writes, NoWrites
  <2>2. Begins(r, w)  BY <1>7 DEF UpdateOrders
  <2> HIDE DEF w
  <2> QED  BY <2>1, <2>2, NoPpmIsSound, BeginsSound
<1> QED  BY <1>3, <1>4, <1>5, <1>6, <1>7 DEF MoveStep

LEMMA CreateDocumentSound ==
  ASSUME Inv, NEW d \in Documents, CreateMoveDocument(d)
  PROVE  Inv'
<1>1. PICK p \in DOMAIN ppm, type \in {"SHIPMENT_SUMMARY", "OTHER"} :
        /\ document' = With(document, Only(d, [ppm |-> p, type |-> type,
                                               status |-> "AWAITING_REVIEW"]))
        /\ filed' = filed \union {<<d, p>>}
  BY DEF CreateMoveDocument
<1> DEFINE row == [ppm |-> p, type |-> type, status |-> "AWAITING_REVIEW"]
<1>2. row \in Document  BY PpmRow DEF Document
<1>3. document' = With(document, Only(d, row))  BY <1>1
<1> HIDE DEF row
<1>4. /\ Only(d, row) \in Rows(Documents, Document) /\ DOMAIN Only(d, row) = {d}
      /\ Only(d, row)[d] = row
  BY <1>2, OnlyType
<1>5. document' \in Rows(Documents, Document)  BY <1>3, <1>4, WithType DEF Inv, Typed
<1>6. UNCHANGED <<move, orders, ppm, advance, reviewed, req>>  BY DEF CreateMoveDocument
<1>7. Referring(document', DOMAIN ppm)
  <2>1. row.ppm \in DOMAIN ppm /\ Referring(document, DOMAIN ppm)  BY DEF row, Inv
  <2> QED  BY <1>3, <1>4, <2>1 DEF Referring, With
<1>8. filed' = filed \union {<<d, p>>} /\ row.ppm = p  BY <1>1 DEF row
<1>9. \A e \in DOMAIN document' : <<e, document'[e].ppm>> \in filed'
  <2>1. document \in Rows(Documents, Document)  BY DEF Inv, Typed
  <2>2. /\ DOMAIN document' = DOMAIN document \union {d}
        /\ \A e \in DOMAIN document' : document'[e] = IF e = d THEN row ELSE document[e]
    BY <1>3, <1>4 DEF With
  <2> QED  BY <2>2, <1>8 DEF Inv
<1>10. Typed'
  <2>1. filed' \subseteq Documents \X Ppms  BY <1>8, PpmRow DEF Inv, Typed
  <2> QED  BY <1>5, <1>6, <2>1 DEF Inv, Typed
<1>11. ASSUME NEW r \in Requests
       PROVE  SoundWrites(req[r].writes, reviewed, filed', DOMAIN ppm)
  <2>1. SoundWrites(req[r].writes, reviewed, filed, DOMAIN ppm)  BY DEF Inv
  <2>2. filed \subseteq filed'  BY <1>8
  <2> QED  BY <2>1, <2>2, SoundIsStable
<1> QED  BY <1>6, <1>7, <1>9, <1>10, <1>11 DEF Inv

(* The review of a document.                                               *)
LEMMA UpdateDocumentSound ==
  ASSUME Inv, NEW r \in Requests, NEW d \in DOMAIN document, UpdateMoveDocument(r, d)
  PROVE  Inv'
<1>1. d \in Documents /\ document[d] \in Document  BY RowsOfTable DEF Inv, Typed
<1>2. PICK type \in {"SHIPMENT_SUMMARY", "OTHER"}, q \in DOMAIN ppm,
           status \in {document[d].status, "OK", "HAS_ISSUE"} :
        LET new == [document[d] EXCEPT !.type = type, !.status = status, !.ppm = q]
            p == document[d].ppm
            processed == status # document[d].status /\ CompletesItsPPM(new)
        IN  /\ processed => Completes(ppm[p])
            /\ Begins(r, [NoWrites EXCEPT
                 !.document = Only(d, new),
                 !.ppm = Only(p, IF processed THEN [ppm[p] EXCEPT !.status = "COMPLETED"]
                                 ELSE ppm[p])])
  BY DEF UpdateMoveDocument
<1> DEFINE new == [document[d] EXCEPT !.type = type, !.status = status, !.ppm = q]
           p == document[d].ppm
           processed == status # document[d].status /\ CompletesItsPPM(new)
           row == IF processed THEN [ppm[p] EXCEPT !.status = "COMPLETED"] ELSE ppm[p]
           w == [NoWrites EXCEPT !.document = Only(d, new), !.ppm = Only(p, row)]
<1>3. new \in Document /\ new.ppm = q /\ q \in DOMAIN ppm
  BY <1>1, PpmRow DEF Document
<1>4. p \in DOMAIN ppm  BY DEF Inv, Referring
<1>5. p \in Ppms /\ ppm[p] \in Ppm /\ Sound(p, ppm[p], reviewed)  BY <1>4, PpmRow
<1>6. /\ processed => Completes(ppm[p])
      /\ processed => new.type = "SHIPMENT_SUMMARY" /\ new.status = "OK"
      /\ Begins(r, w)
  BY <1>2 DEF CompletesItsPPM
<1>7. row \in {ppm[p]} \union (IF processed THEN {[ppm[p] EXCEPT !.status = "COMPLETED"]} ELSE {})
  OBVIOUS
<1> HIDE DEF new, p, processed, row
<1>8. row \in Ppm /\ Sound(p, row, IF processed THEN reviewed \union {p} ELSE reviewed)
  BY <1>5, <1>6, <1>7 DEF Completes, Ppm, PpmStatuses, Sound, RowAgrees
<1>9. /\ Only(d, new) \in Rows(Documents, Document) /\ DOMAIN Only(d, new) = {d}
      /\ Only(d, new)[d] = new /\ Only(p, row) \in Rows(Ppms, Ppm)
  BY <1>1, <1>3, <1>5, <1>8, OnlyType
<1>10. w \in Writes /\ w.ppm = Only(p, row) /\ w.document = Only(d, new)
  BY <1>9, NoWritesType DEF Writes
<1> HIDE DEF w
<1>11. Referring(w.document, DOMAIN ppm)  BY <1>3, <1>9, <1>10 DEF Referring
<1>12. processed => p \in ReviewedWith(w, filed)
  <2>1. <<d, p>> \in filed  BY DEF Inv, p
  <2>2. DOMAIN w.ppm = {p}  BY <1>10 DEF Only
  <2> QED  BY <1>6, <1>9, <1>10, <2>1, <2>2 DEF ReviewedWith
<1>13. Sound(p, row, reviewed \union ReviewedWith(w, filed))
  BY <1>8, <1>12 DEF Sound
<1>14. SoundWrites(w, reviewed, filed, DOMAIN ppm)
  BY <1>5, <1>8, <1>10, <1>11, <1>13, OnePpmIsSound
<1> QED  BY <1>6, <1>10, <1>14, BeginsSound
-----------------------------------------------------------------------------
(* The transactions.                                                       *)

LEMMA SaveSound ==
  ASSUME Inv, NEW r \in Requests, Save(r)
  PROVE  Inv'
<1> DEFINE w == req[r].writes
<1>1. /\ req[r] \in [at : {"idle", "saving"}, writes : Writes]
      /\ SoundWrites(w, reviewed, filed, DOMAIN ppm)
  BY DEF Inv, Typed
<1>2. /\ w.move \in MoveStatuses \union {None} /\ w.orders \in {"DRAFT", "CANCELED", None}
      /\ w.ppm \in Rows(Ppms, Ppm) /\ w.advance \in Rows(Advances, AdvanceStatuses)
      /\ w.created \in Rows(Advances, AdvanceStatuses) /\ w.destroyed \subseteq Advances
      /\ w.document \in Rows(Documents, Document)
  BY <1>1 DEF Writes
<1>3. /\ move' = IF w.move = None THEN move ELSE w.move
      /\ orders' = IF w.orders = None THEN orders ELSE w.orders
      /\ ppm' = Updated(ppm, w.ppm)
      /\ advance' = Restrict(With(Updated(advance, w.advance), w.created),
                             (DOMAIN advance \union DOMAIN w.created) \ w.destroyed)
      /\ document' = Updated(document, w.document)
      /\ filed' = filed \union {<<d, document'[d].ppm>> : d \in DOMAIN document'}
      /\ reviewed' = reviewed \union ReviewedWith(w, filed)
      /\ req' = [req EXCEPT ![r] = Idle]
  BY DEF Save, ReviewedBy, ReviewedWith
<1> HIDE DEF w
<1>4. /\ ppm' \in Rows(Ppms, Ppm) /\ DOMAIN ppm' = DOMAIN ppm
      /\ \A p \in DOMAIN ppm : ppm'[p] = IF p \in DOMAIN w.ppm THEN w.ppm[p] ELSE ppm[p]
  <2>1. ppm \in Rows(Ppms, Ppm)  BY DEF Inv, Typed
  <2> QED  BY <2>1, <1>2, <1>3, UpdatedType
<1>5. /\ document' \in Rows(Documents, Document) /\ DOMAIN document' = DOMAIN document
      /\ \A d \in DOMAIN document :
           document'[d] = IF d \in DOMAIN w.document THEN w.document[d] ELSE document[d]
  <2>1. document \in Rows(Documents, Document)  BY DEF Inv, Typed
  <2> QED  BY <2>1, <1>2, <1>3, UpdatedType
<1>6. advance' \in Rows(Advances, AdvanceStatuses)
  <2> DEFINE saved == Updated(advance, w.advance)
             all == With(saved, w.created)
  <2>1. saved \in Rows(Advances, AdvanceStatuses) /\ DOMAIN saved = DOMAIN advance
    BY <1>2, UpdatedType DEF Inv, Typed
  <2> HIDE DEF saved
  <2>2. all \in Rows(Advances, AdvanceStatuses)
    BY <1>2, <2>1, WithType
  <2>3. DOMAIN all = DOMAIN advance \union DOMAIN w.created  BY <2>1 DEF With
  <2>4. advance' = Restrict(all, (DOMAIN advance \union DOMAIN w.created) \ w.destroyed)
    BY <1>3 DEF saved
  <2> HIDE DEF all
  <2> QED  BY <2>2, <2>3, <2>4, RestrictType
<1>7. reviewed \subseteq reviewed' /\ reviewed' \subseteq Ppms
  BY <1>2, <1>3, RowsOfTable DEF Inv, Typed, ReviewedWith
<1>13. /\ filed \subseteq filed' /\ filed' \subseteq Documents \X Ppms
       /\ \A d \in DOMAIN document' : <<d, document'[d].ppm>> \in filed'
  <2>1. ASSUME NEW d \in DOMAIN document' PROVE d \in Documents /\ document'[d].ppm \in Ppms
    <3>1. \A x \in DOMAIN document' : x \in Documents /\ document'[x] \in Document
      BY <1>5, RowsOfTable
    <3> QED  BY <3>1 DEF Document
  <2>2. filed \subseteq Documents \X Ppms  BY DEF Inv, Typed
  <2>3. \A x \in filed' \ filed :
          \E d \in DOMAIN document' : x = <<d, document'[d].ppm>>
    BY <1>3
  <2>4. filed \subseteq filed'  BY <1>3
  <2>5. \A d \in DOMAIN document' : <<d, document'[d].ppm>> \in filed'  BY <1>3
  <2> QED  BY <2>1, <2>2, <2>3, <2>4, <2>5
<1>8. Idle \in [at : {"idle", "saving"}, writes : Writes]
      /\ SoundWrites(Idle.writes, reviewed', filed', DOMAIN ppm)
  BY NoWritesType DEF Idle
<1>9. Typed'
  <2>1. move' \in MoveStatuses /\ orders' \in {"DRAFT", "CANCELED"}
    BY <1>2, <1>3 DEF Inv, Typed
  <2>2. req' \in [Requests -> [at : {"idle", "saving"}, writes : Writes]]
    BY <1>3, <1>8 DEF Inv, Typed
  <2> QED  BY <2>1, <2>2, <1>4, <1>5, <1>6, <1>7, <1>13 DEF Typed
<1>10. \A p \in DOMAIN ppm' : Sound(p, ppm'[p], reviewed')
  <2>1. ASSUME NEW p \in DOMAIN ppm, p \in DOMAIN w.ppm PROVE Sound(p, w.ppm[p], reviewed')
    BY <1>1, <1>3, <2>1 DEF SoundWrites
  <2>2. ASSUME NEW p \in DOMAIN ppm PROVE Sound(p, ppm[p], reviewed')
    BY <1>7 DEF Inv, Sound
  <2> QED  BY <1>4, <2>1, <2>2
<1>11. Referring(document', DOMAIN ppm')
  BY <1>1, <1>4, <1>5 DEF Inv, Referring, SoundWrites
<1>12. ASSUME NEW q \in Requests
       PROVE  SoundWrites(req'[q].writes, reviewed', filed', DOMAIN ppm')
  <2>1. CASE q = r  BY <2>1, <1>3, <1>4, <1>8 DEF Inv, Typed
  <2>2. CASE q # r
    <3>1. req'[q] = req[q]  BY <2>2, <1>3 DEF Inv, Typed
    <3>2. SoundWrites(req[q].writes, reviewed, filed, DOMAIN ppm)  BY DEF Inv
    <3> QED  BY <3>1, <3>2, <1>4, <1>7, <1>13, SoundIsStable
  <2> QED  BY <2>1, <2>2
<1> QED  BY <1>9, <1>10, <1>11, <1>12, <1>13 DEF Inv

LEMMA FailSound ==
  ASSUME Inv, NEW r \in Requests, Fail(r)
  PROVE  Inv'
<1>1. req' = [req EXCEPT ![r] = Idle]  BY DEF Fail
<1>2. UNCHANGED <<move, orders, ppm, advance, document, filed, reviewed>>  BY DEF Fail, tables
<1>3. Idle \in [at : {"idle", "saving"}, writes : Writes]
      /\ SoundWrites(Idle.writes, reviewed, filed, DOMAIN ppm)
  BY NoWritesType DEF Idle
<1>4. Typed'  BY <1>1, <1>2, <1>3 DEF Inv, Typed
<1>5. ASSUME NEW q \in Requests PROVE SoundWrites(req'[q].writes, reviewed, filed, DOMAIN ppm)
  BY <1>1, <1>3 DEF Inv, Typed
<1> QED  BY <1>2, <1>4, <1>5 DEF Inv

LEMMA NextSound == Inv /\ [Next]_vars => Inv'
<1> SUFFICES ASSUME Inv, [Next]_vars PROVE Inv'  OBVIOUS
<1>1. CASE \E p \in Ppms : CreatePPM(p)  BY <1>1, CreateSound
<1>2. CASE \E d \in Documents : CreateMoveDocument(d)  BY <1>2, CreateDocumentSound
<1>3. CASE \E r \in Requests : \E p \in DOMAIN ppm : PpmStep(r, p)  BY <1>3, PpmStepSound
<1>4. CASE \E r \in Requests : \E a \in DOMAIN advance : ApproveReimbursement(r, a)
  BY <1>4, ApproveReimbursementSound
<1>5. CASE \E r \in Requests : \E d \in DOMAIN document : UpdateMoveDocument(r, d)
  BY <1>5, UpdateDocumentSound
<1>6. CASE \E r \in Requests : MoveStep(r)  BY <1>6, MoveStepSound
<1>7. CASE \E r \in Requests : Save(r)  BY <1>7, SaveSound
<1>8. CASE \E r \in Requests : Fail(r)  BY <1>8, FailSound
<1>9. CASE UNCHANGED vars
  <2>1. UNCHANGED <<move, orders, ppm, advance, document, filed, reviewed, req>>
    BY <1>9 DEF vars, tables
  <2> QED  BY <2>1 DEF Inv, Typed
<1> QED  BY <1>1, <1>2, <1>3, <1>4, <1>5, <1>6, <1>7, <1>8, <1>9 DEF Next

LEMMA Invariance == Spec => []Inv
BY InitSound, NextSound, PTL DEF Spec

LEMMA TypedIsTypeOK == Typed => TypeOK
<1> SUFFICES ASSUME Typed PROVE TypeOK  OBVIOUS
<1>1. ASSUME NEW ids, NEW rows, NEW f \in Rows(ids, rows) PROVE IsTable(f, ids, rows)
  BY RowsOfTable DEF IsTable
<1>2. /\ IsTable(ppm, Ppms, Ppm) /\ IsTable(advance, Advances, AdvanceStatuses)
      /\ IsTable(document, Documents, Document)
  BY <1>1 DEF Typed
<1>3. ASSUME NEW r \in Requests
      PROVE  LET w == req[r].writes IN
             /\ req[r].at \in {"idle", "saving"}
             /\ w.move \in MoveStatuses \union {None}
             /\ w.orders \in {"DRAFT", "CANCELED", None}
             /\ IsTable(w.ppm, Ppms, Ppm)
             /\ IsTable(w.advance, Advances, AdvanceStatuses)
             /\ IsTable(w.created, Advances, AdvanceStatuses)
             /\ IsTable(w.document, Documents, Document)
             /\ w.destroyed \subseteq Advances
  <2>1. req[r].at \in {"idle", "saving"} /\ req[r].writes \in Writes  BY DEF Typed
  <2> QED  BY <1>1, <2>1 DEF Writes
<1> QED  BY <1>2, <1>3 DEF Typed, TypeOK

(* Tables and write sets stay well formed, for any PPMs, advances,         *)
(* documents and requests.                                                 *)
THEOREM MoveTypeCorrect == Spec => []TypeOK
BY Invariance, TypedIsTypeOK, PTL DEF Inv

LEMMA InvHasDates == Inv => DatesAgree
BY DEF Inv, Sound, DatesAgree

(* The dates of a PPM agree with its status, whatever old row a late       *)
(* request writes back (pkg/models/personally_procured_move.go).           *)
THEOREM PpmDatesAgree == Spec => []DatesAgree
BY Invariance, InvHasDates, PTL

LEMMA InvHasReviews == Inv => CompletedByReview
BY DEF Inv, Sound, CompletedByReview

(* No PPM is completed but by a shipment summary that was saved with       *)
(* status OK and had been the PPM's own before, whoever saves it and       *)
(* however updates of documents, which may give them to other PPMs,        *)
(* PATCHes and submissions overlap                                         *)
(* (pkg/handlers/internalapi/move_documents.go).                           *)
THEOREM PpmCompletedByReview == Spec => []CompletedByReview
BY Invariance, InvHasReviews, PTL
-----------------------------------------------------------------------------
(* One request at a time.  The tables are then at the commit what they     *)
(* were when the handler read them, so a write set can be described by     *)
(* what it changes in them, and each is one step of the contract.          *)

(* The advances of the PPMs: those referred to are there, requested, and   *)
(* of one PPM each.                                                        *)
Linked ==
  \A p \in DOMAIN ppm :
    ppm[p].advance # None =>
      /\ ppm[p].requested
      /\ HasAdvance(ppm[p])
      /\ \A q \in DOMAIN ppm \ {p} : ppm[q].advance # ppm[p].advance

(* Parts of a write set that change nothing.                               *)
SameMove(w) == w.move \in {None, move} /\ w.orders \in {None, orders}
NoNewAdvances(w) == DOMAIN w.created = {} /\ w.destroyed = {}
SameAdvances(w) ==
  NoNewAdvances(w) /\ \A a \in DOMAIN w.advance : a \in DOMAIN advance /\ w.advance[a] = advance[a]
KeepsAdvance(p, row) ==
  row.advance = ppm[p].advance /\ (row.advance # None => row.requested)

(* The status of PPM p changes, at most.                                   *)
Successors ==
  {<<"DRAFT", "SUBMITTED">>, <<"DRAFT", "APPROVED">>, <<"SUBMITTED", "APPROVED">>,
   <<"APPROVED", "PAYMENT_REQUESTED">>, <<"PAYMENT_REQUESTED", "COMPLETED">>}

Proceeds(w, p) ==
  /\ SameMove(w) /\ SameAdvances(w)
  /\ DOMAIN w.ppm = {p} /\ KeepsAdvance(p, w.ppm[p])
  /\ w.ppm[p].status = ppm[p].status \/ <<ppm[p].status, w.ppm[p].status>> \in Successors

(* PPM p gets an advance, or loses the one it has.                         *)
AddsAdvance(w, p) ==
  /\ SameMove(w) /\ DOMAIN w.advance = {} /\ w.destroyed = {}
  /\ DOMAIN w.ppm = {p} /\ w.ppm[p].status = ppm[p].status /\ w.ppm[p].requested
  /\ ppm[p].advance = None
  /\ w.ppm[p].advance \in Advances \ DOMAIN advance
  /\ DOMAIN w.created = {w.ppm[p].advance}
  /\ w.created[w.ppm[p].advance] = StatusOfNewAdvance(ppm[p])

DropsAdvance(w, p) ==
  /\ SameMove(w) /\ DOMAIN w.advance = {} /\ DOMAIN w.created = {}
  /\ DOMAIN w.ppm = {p} /\ w.ppm[p].status = ppm[p].status /\ w.ppm[p].advance = None
  /\ w.destroyed = {ppm[p].advance} \ {None}

(* No PPM is saved.                                                        *)
SavesMove(w) ==
  /\ DOMAIN w.ppm = {} /\ SameAdvances(w) /\ w.orders \in {None, orders}
  /\ w.move \in {None, move} \/ (move = "SUBMITTED" /\ w.move = "APPROVED")

ApprovesAdvance(w) ==
  /\ SameMove(w) /\ NoNewAdvances(w) /\ DOMAIN w.ppm = {}
  /\ \E a \in DOMAIN advance : /\ advance[a] = "REQUESTED"
                               /\ DOMAIN w.advance = {a} /\ w.advance[a] = "APPROVED"

(* All PPMs are.                                                           *)
SavesAll(w, status) ==
  /\ DOMAIN w.ppm = DOMAIN ppm
  /\ \A p \in DOMAIN ppm : KeepsAdvance(p, w.ppm[p]) /\ w.ppm[p].status = status

Submits(w) ==
  /\ move = "DRAFT" /\ w.move = "SUBMITTED" /\ w.orders = orders
  /\ SavesAll(w, "SUBMITTED") /\ NoNewAdvances(w)
  /\ \A p \in DOMAIN ppm : ppm[p].status = "DRAFT"
  /\ DOMAIN w.advance = LoadedAdvances
  /\ \A a \in LoadedAdvances : advance[a] = "DRAFT" /\ w.advance[a] = "REQUESTED"

Cancels(w) ==
  /\ move # "CANCELED" /\ w.move = "CANCELED"
  /\ orders # "CANCELED" /\ w.orders = "CANCELED"
  /\ SavesAll(w, "CANCELED") /\ SameAdvances(w)
  /\ \A p \in DOMAIN ppm : ppm[p].status \notin {"COMPLETED", "CANCELED"}

Fresh(w) ==
  \/ \E p \in DOMAIN ppm : Proceeds(w, p) \/ AddsAdvance(w, p) \/ DropsAdvance(w, p)
  \/ SavesMove(w) \/ ApprovesAdvance(w) \/ Submits(w) \/ Cancels(w)

(* What Inv lacks when requests do not overlap.                            *)
SerialInv ==
  OneAtATime /\ Linked /\ \A r \in Requests : req[r].at = "saving" => Fresh(req[r].writes)

StepKept == SerialInv' /\ [Contract!ContractNext]_(Contract!contractVars)
-----------------------------------------------------------------------------
(* What the contract sees of a step.                                       *)

(* Both tables are seen, and the ids of the PPMs stay.                     *)
Seen ==
  /\ serial /\ serial'
  /\ DOMAIN ppm \subseteq Ppms /\ DOMAIN ppm' = DOMAIN ppm
  /\ \A p \in DOMAIN ppm : ppm[p].status # None

StatusStays(p) == ppm'[p].status = ppm[p].status
AdvanceStays(p) == AdvanceOf(ppm[p])' = AdvanceOf(ppm[p])

LEMMA ProceedSeen ==
  ASSUME Seen, UNCHANGED <<move, orders>>, NEW p \in DOMAIN ppm,
         \A q \in DOMAIN ppm \ {p} : StatusStays(q),
         <<ppm[p].status, ppm'[p].status>> \in Successors,
         \A q \in DOMAIN ppm : AdvanceStays(q)
  PROVE  Contract!Proceed(p)
<1>1. ppm[p].status \in DOMAIN Contract!After /\ ppm'[p].status \in Contract!After[ppm[p].status]
  BY DEF Successors, Contract!After
<1> QED
  BY <1>1 DEF Seen, StatusStays, AdvanceStays, Contract!Proceed, Contract!Becomes

LEMMA ChangeAdvanceSeen ==
  ASSUME Seen, UNCHANGED <<move, orders>>, NEW p \in DOMAIN ppm,
         \A q \in DOMAIN ppm : StatusStays(q),
         \A q \in DOMAIN ppm \ {p} : AdvanceStays(q),
         NEW status, AdvanceOf(ppm[p])' = status,
         status \in {"DRAFT", "REQUESTED", "APPROVED", None},
         status = "DRAFT" => AdvanceOf(ppm[p]) = None /\ ppm[p].status = "DRAFT",
         status = "REQUESTED" => AdvanceOf(ppm[p]) = None /\ ppm[p].status # "DRAFT",
         status = "APPROVED" => AdvanceOf(ppm[p]) = "REQUESTED"
  PROVE  Contract!ChangeAdvance(p)
BY DEF Seen, StatusStays, AdvanceStays, Contract!ChangeAdvance, Contract!Existing

LEMMA SubmitSeen ==
  ASSUME Seen, move = "DRAFT", move' = "SUBMITTED", UNCHANGED orders,
         \A p \in DOMAIN ppm :
           /\ ppm[p].status = "DRAFT" /\ ppm'[p].status = "SUBMITTED"
           /\ \/ AdvanceOf(ppm[p]) = None /\ AdvanceOf(ppm[p])' = None
              \/ AdvanceOf(ppm[p]) = "DRAFT" /\ AdvanceOf(ppm[p])' = "REQUESTED"
  PROVE  Contract!SubmitMove
<1>1. None # "DRAFT"  BY NoneAssumption DEF PpmStatuses
<1> QED
  BY <1>1 DEF Seen, Contract!SubmitMove, Contract!AllBecome, Contract!Existing

LEMMA CancelSeen ==
  ASSUME Seen, move # "CANCELED", move' = "CANCELED", orders # "CANCELED", orders' = "CANCELED",
         \A p \in DOMAIN ppm :
           /\ ppm[p].status \notin {"COMPLETED", "CANCELED"} /\ ppm'[p].status = "CANCELED"
           /\ AdvanceStays(p)
  PROVE  Contract!CancelMove
BY DEF Seen, AdvanceStays, Contract!CancelMove, Contract!AllBecome, Contract!Existing

LEMMA ApproveSeen ==
  ASSUME Seen, move = "SUBMITTED", move' = "APPROVED", UNCHANGED orders,
         \A p \in DOMAIN ppm : StatusStays(p) /\ AdvanceStays(p)
  PROVE  Contract!ApproveMove
BY DEF Seen, StatusStays, AdvanceStays, Contract!ApproveMove

LEMMA StutterSeen ==
  ASSUME Seen, UNCHANGED <<move, orders>>,
         \A p \in DOMAIN ppm : StatusStays(p) /\ AdvanceStays(p)
  PROVE  UNCHANGED Contract!contractVars
BY DEF Seen, StatusStays, AdvanceStays, Contract!contractVars

LEMMA NothingSeen ==
  ASSUME UNCHANGED <<serial, move, orders, ppm, advance>>
  PROVE  UNCHANGED Contract!contractVars
BY DEF Contract!contractVars, AdvanceOf, HasAdvance

LEMMA NothingSeenUnlessSerial ==
  ASSUME ~ serial, UNCHANGED serial
  PROVE  UNCHANGED Contract!contractVars
BY DEF Contract!contractVars
-----------------------------------------------------------------------------
(* A handler begins when the tables are as it read them.                   *)

LEMMA FreshStays ==
  ASSUME UNCHANGED <<move, orders, ppm, advance>>,
         NEW x \in Requests, NEW w, req'[x].writes = w, Fresh(w)
  PROVE  Fresh(req[x].writes)'
<1>1. UNCHANGED LoadedAdvances  BY DEF LoadedAdvances, HasAdvance
<1>2. SameMove(w) => SameMove(req[x].writes)'  BY DEF SameMove
<1>3. SameAdvances(w) => SameAdvances(req[x].writes)'  BY DEF SameAdvances, NoNewAdvances
<1>4. NoNewAdvances(w) => NoNewAdvances(req[x].writes)'  BY DEF NoNewAdvances
<1>5. \A status : SavesAll(w, status) => SavesAll(req[x].writes, status)'
  BY DEF SavesAll, KeepsAdvance
<1>6. ASSUME NEW p \in DOMAIN ppm, Proceeds(w, p) PROVE Proceeds(req[x].writes, p)'
  BY <1>2, <1>3, <1>6 DEF Proceeds, KeepsAdvance
<1>7. ASSUME NEW p \in DOMAIN ppm, AddsAdvance(w, p) PROVE AddsAdvance(req[x].writes, p)'
  BY <1>2, <1>7 DEF AddsAdvance, StatusOfNewAdvance
<1>8. ASSUME NEW p \in DOMAIN ppm, DropsAdvance(w, p) PROVE DropsAdvance(req[x].writes, p)'
  BY <1>2, <1>8 DEF DropsAdvance
<1>9. SavesMove(w) => SavesMove(req[x].writes)'  BY <1>3 DEF SavesMove
<1>10. ApprovesAdvance(w) => ApprovesAdvance(req[x].writes)'
  BY <1>2, <1>4 DEF ApprovesAdvance
<1>11. Submits(w) => Submits(req[x].writes)'  BY <1>1, <1>4, <1>5 DEF Submits
<1>12. Cancels(w) => Cancels(req[x].writes)'  BY <1>3, <1>5 DEF Cancels
<1> QED  BY <1>6, <1>7, <1>8, <1>9, <1>10, <1>11, <1>12 DEF Fresh

LEMMA LinkedStays ==
  ASSUME UNCHANGED <<ppm, advance>>, Linked
  PROVE  Linked'
BY DEF Linked, HasAdvance

LEMMA SerialBegins ==
  ASSUME Inv, SerialInv, OneAtATime', serial, serial',
         NEW r \in Requests, NEW w, Begins(r, w), Fresh(w)
  PROVE  StepKept
<1>1. /\ UNCHANGED <<move, orders, ppm, advance>>
      /\ req' = [req EXCEPT ![r] = [at |-> "saving", writes |-> w]]
      /\ DOMAIN req = Requests
  BY DEF Begins, tables, Inv, Typed
<1>2. ASSUME NEW x \in Requests, req'[x].at = "saving" PROVE Fresh(req[x].writes)'
  <2>1. CASE x = r
    <3>1. req'[x].writes = w  BY <1>1, <2>1
    <3> QED  BY <1>1, <3>1, FreshStays
  <2>2. CASE x # r
    <3>1. req'[x] = req[x]  BY <1>1, <2>2
    <3>2. Fresh(req[x].writes) /\ req'[x].writes = req[x].writes
      BY <1>2, <3>1 DEF SerialInv
    <3> QED  BY <1>1, <3>2, FreshStays
  <2> QED  BY <2>1, <2>2
<1>3. Linked'  BY <1>1, LinkedStays DEF SerialInv
<1>4. UNCHANGED Contract!contractVars  BY <1>1, NothingSeen
<1> QED  BY <1>2, <1>3, <1>4 DEF SerialInv, StepKept

(* The row a handler makes of PPM p, and the status it gives an advance.   *)
Changes(p, row, status) ==
  /\ row \in Ppm /\ row.advance = ppm[p].advance
  /\ \/ /\ row.status = ppm[p].status
        /\ status \in {None, StatusOfNewAdvance(ppm[p])}
     \/ /\ row.requested = ppm[p].requested /\ status = None
        /\ row.status = ppm[p].status \/ <<ppm[p].status, row.status>> \in Successors

LEMMA SavePPMBegins ==
  ASSUME Inv, SerialInv, NEW r \in Requests, NEW p \in DOMAIN ppm, NEW row, NEW status,
         Changes(p, row, status), SavePPM(r, p, row, status)
  PROVE  \E w : Begins(r, w) /\ Fresh(w)
<1>1. /\ row \in Ppm /\ row.advance = ppm[p].advance /\ p \in Ppms /\ ppm[p] \in Ppm
      /\ ppm[p].advance # None => ppm[p].requested /\ HasAdvance(row)
  BY PpmRow DEF Changes, SerialInv, Linked, HasAdvance
<1>2. DOMAIN NoRows = {}  BY DEF NoRows
<1>3. CASE row.requested /\ HasAdvance(row)
  <2> DEFINE w == [NoWrites EXCEPT !.ppm = Only(p, row),
                                   !.advance = Only(row.advance, advance[row.advance])]
  <2>1. Begins(r, w)  BY <1>3 DEF SavePPM
  <2>2. /\ w.move = None /\ w.orders = None /\ w.ppm = Only(p, row)
        /\ w.advance = Only(row.advance, advance[row.advance])
        /\ w.created = NoRows /\ w.destroyed = {}
    BY DEF NoWrites
  <2> HIDE DEF w
  <2>3. SameMove(w) /\ SameAdvances(w)
    BY <1>2, <1>3, <2>2 DEF SameMove, SameAdvances, NoNewAdvances, Only, HasAdvance
  <2>4. DOMAIN w.ppm = {p} /\ w.ppm[p] = row  BY <2>2 DEF Only
  <2>5. Proceeds(w, p)
    BY <1>1, <1>3, <2>3, <2>4 DEF Changes, Proceeds, KeepsAdvance
  <2> QED  BY <2>1, <2>5 DEF Fresh
<1>4. CASE row.requested /\ ~ HasAdvance(row) /\ status # None
  <2>1. PICK a \in NewAdvances :
          Begins(r, [NoWrites EXCEPT !.ppm = Only(p, [row EXCEPT !.advance = a]),
                                     !.created = Only(a, status)])
    BY <1>4 DEF SavePPM
  <2> DEFINE new == [row EXCEPT !.advance = a]
             w == [NoWrites EXCEPT !.ppm = Only(p, new), !.created = Only(a, status)]
  <2>2. Begins(r, w)  BY <2>1
  <2>3. /\ w.move = None /\ w.orders = None /\ w.ppm = Only(p, new)
        /\ w.advance = NoRows /\ w.created = Only(a, status) /\ w.destroyed = {}
    BY DEF NoWrites
  <2>4. new.advance = a /\ new.requested /\ new.status = row.status
    BY <1>1, <1>4 DEF Ppm
  <2>5. a \in Advances \ DOMAIN advance  BY DEF NewAdvances
  <2> HIDE DEF w, new
  <2>6. /\ DOMAIN w.ppm = {p} /\ w.ppm[p] = new
        /\ DOMAIN w.created = {a} /\ w.created[a] = status
    BY <2>3 DEF Only
  <2>7. /\ status = StatusOfNewAdvance(ppm[p]) /\ row.status = ppm[p].status
        /\ ppm[p].advance = None
    BY <1>1, <1>4 DEF Changes
  <2>8. AddsAdvance(w, p)
    BY <1>2, <2>3, <2>4, <2>5, <2>6, <2>7 DEF AddsAdvance, SameMove
  <2> QED  BY <2>2, <2>8 DEF Fresh
<1>5. CASE row.requested /\ ~ HasAdvance(row) /\ status = None
  <2>1. row.advance # None  BY <1>5 DEF SavePPM
  <2> QED  BY <1>1, <1>5, <2>1
<1>6. CASE ~ row.requested
  <2> DEFINE new == [row EXCEPT !.advance = None]
             w == [NoWrites EXCEPT !.ppm = Only(p, new), !.destroyed = {row.advance} \ {None}]
  <2>1. Begins(r, w)  BY <1>6 DEF SavePPM
  <2>2. /\ w.move = None /\ w.orders = None /\ w.ppm = Only(p, new)
        /\ w.advance = NoRows /\ w.created = NoRows /\ w.destroyed = {row.advance} \ {None}
    BY DEF NoWrites
  <2>3. new.advance = None /\ new.status = row.status  BY <1>1 DEF Ppm
  <2> HIDE DEF w, new
  <2>4. DOMAIN w.ppm = {p} /\ w.ppm[p] = new  BY <2>2 DEF Only
  <2>5. CASE row.status = ppm[p].status
    <3>1. DropsAdvance(w, p)
      BY <1>1, <1>2, <2>2, <2>3, <2>4, <2>5 DEF DropsAdvance, SameMove
    <3> QED  BY <2>1, <3>1 DEF Fresh
  <2>6. CASE row.status # ppm[p].status
    <3>1. /\ row.requested = ppm[p].requested
          /\ <<ppm[p].status, row.status>> \in Successors
      BY <2>6 DEF Changes
    <3>2. ppm[p].advance = None  BY <1>1, <1>6, <3>1
    <3>3. SameMove(w) /\ SameAdvances(w)
      BY <1>1, <1>2, <2>2, <3>2 DEF SameMove, SameAdvances, NoNewAdvances
    <3>4. Proceeds(w, p)
      BY <2>3, <2>4, <3>1, <3>2, <3>3 DEF Proceeds, KeepsAdvance
    <3> QED  BY <2>1, <3>4 DEF Fresh
  <2> QED  BY <2>5, <2>6
<1> QED  BY <1>1, <1>3, <1>4, <1>5, <1>6 DEF Ppm

(* One row written apart from its advance.                                 *)
LEMMA SaveRowBegins ==
  ASSUME Inv, SerialInv, NEW r \in Requests, NEW p \in DOMAIN ppm, NEW row, NEW w, Begins(r, w),
         w.move = None, w.orders = None, w.ppm = Only(p, row),
         w.advance = NoRows, w.created = NoRows, w.destroyed = {},
         row.advance = ppm[p].advance, row.requested = ppm[p].requested,
         row.status = ppm[p].status \/ <<ppm[p].status, row.status>> \in Successors
  PROVE  Fresh(w)
<1>1. DOMAIN NoRows = {}  BY DEF NoRows
<1>2. SameMove(w) /\ SameAdvances(w)  BY <1>1 DEF SameMove, SameAdvances, NoNewAdvances
<1>3. DOMAIN w.ppm = {p} /\ w.ppm[p] = row  BY DEF Only
<1>4. KeepsAdvance(p, w.ppm[p])  BY <1>3 DEF KeepsAdvance, SerialInv, Linked
<1> QED  BY <1>2, <1>3, <1>4 DEF Proceeds, Fresh
LEMMA SerialPpmStep ==
  ASSUME Inv, SerialInv, OneAtATime', serial, serial',
         NEW r \in Requests, NEW p \in DOMAIN ppm, PpmStep(r, p)
  PROVE  StepKept
<1>1. ppm[p] \in Ppm  BY PpmRow
<1>2. ASSUME NEW row, NEW status, Changes(p, row, status), SavePPM(r, p, row, status)
      PROVE  StepKept
  BY <1>2, SavePPMBegins, SerialBegins
<1>3. CASE PatchPPM(r, p)
  <2>1. PICK requested \in BOOLEAN, given \in BOOLEAN,
             date \in Dates \union {None}, plan \in Plans \union {None} :
          SavePPM(r, p, [Estimated(ppm[p], date, plan) EXCEPT !.requested = requested],
                  IF requested /\ given THEN StatusOfNewAdvance(ppm[p]) ELSE None)
    BY <1>3 DEF PatchPPM
  <2> DEFINE old == Estimated(ppm[p], date, plan)
             row == [old EXCEPT !.requested = requested]
             status == IF requested /\ given THEN StatusOfNewAdvance(ppm[p]) ELSE None
  <2>2. old \in Ppm /\ old.status = ppm[p].status  BY <1>1, EstimatedType
  <2>3. old.advance = ppm[p].advance
    BY <1>1 DEF Estimated, Ppm
  <2>4. SavePPM(r, p, row, status)  BY <2>1
  <2>5. status \in {None, StatusOfNewAdvance(ppm[p])}  OBVIOUS
  <2> HIDE DEF status, old
  <2>6. row \in Ppm /\ row.status = old.status /\ row.advance = old.advance
    BY <2>2 DEF Ppm
  <2> HIDE DEF row
  <2>7. Changes(p, row, status)  BY <2>2, <2>3, <2>5, <2>6 DEF Changes
  <2> QED  BY <1>2, <2>4, <2>7
<1>4. CASE SubmitPPM(r, p)
  <2> DEFINE row == IF Submittable(ppm[p]) THEN Submitted(ppm[p]) ELSE ppm[p]
  <2>1. /\ row \in Ppm /\ row.advance = ppm[p].advance /\ row.requested = ppm[p].requested
        /\ \/ row.status = ppm[p].status
           \/ ppm[p].status = "DRAFT" /\ row.status = "SUBMITTED"
    BY <1>1 DEF Submittable, Submitted, Ppm, PpmStatuses
  <2>2. SavePPM(r, p, row, None)  BY <1>4 DEF SubmitPPM
  <2> HIDE DEF row
  <2>3. Changes(p, row, None)  BY <2>1 DEF Changes, Successors
  <2> QED  BY <1>2, <2>2, <2>3
<1>5. CASE RequestPayment(r, p)
  <2> DEFINE row == [ppm[p] EXCEPT !.status = "PAYMENT_REQUESTED"]
  <2>1. /\ row \in Ppm /\ row.advance = ppm[p].advance /\ row.requested = ppm[p].requested
        /\ row.status = "PAYMENT_REQUESTED"
    BY <1>1 DEF Ppm, PpmStatuses
  <2>2. SavePPM(r, p, row, None) /\ ppm[p].status \in {"APPROVED", "PAYMENT_REQUESTED"}
    BY <1>5 DEF RequestPayment
  <2> HIDE DEF row
  <2>3. Changes(p, row, None)  BY <2>1, <2>2 DEF Changes, Successors
  <2> QED  BY <1>2, <2>2, <2>3
<1>6. CASE ApprovePPM(r, p)
  <2> DEFINE row == [ppm[p] EXCEPT !.status = "APPROVED", !.approved = TRUE]
             w == [NoWrites EXCEPT !.ppm = Only(p, row)]
  <2>1. /\ row.advance = ppm[p].advance /\ row.requested = ppm[p].requested
        /\ row.status = "APPROVED"
    BY <1>1 DEF Ppm
  <2>2. Begins(r, w) /\ ppm[p].status \in {"SUBMITTED", "DRAFT"}  BY <1>6 DEF ApprovePPM
  <2> HIDE DEF row
  <2>3. /\ w.move = None /\ w.orders = None /\ w.ppm = Only(p, row)
        /\ w.advance = NoRows /\ w.created = NoRows /\ w.destroyed = {}
    BY DEF NoWrites
  <2>4. <<ppm[p].status, row.status>> \in Successors  BY <2>1, <2>2 DEF Successors
  <2> HIDE DEF w
  <2>5. Fresh(w)  BY <2>1, <2>2, <2>3, <2>4, SaveRowBegins
  <2> QED  BY <2>2, <2>5, SerialBegins
<1> QED  BY <1>3, <1>4, <1>5, <1>6 DEF PpmStep

LEMMA SerialReimbursement ==
  ASSUME Inv, SerialInv, OneAtATime', serial, serial',
         NEW r \in Requests, NEW a \in DOMAIN advance, ApproveReimbursement(r, a)
  PROVE  StepKept
<1> DEFINE w == [NoWrites EXCEPT !.advance = Only(a, "APPROVED")]
<1>1. Begins(r, w) /\ advance[a] = "REQUESTED"  BY DEF ApproveReimbursement
<1>2. /\ w.move = None /\ w.orders = None /\ w.ppm = NoRows
      /\ w.advance = Only(a, "APPROVED") /\ w.created = NoRows /\ w.destroyed = {}
  BY DEF NoWrites
<1> HIDE DEF w
<1>3. /\ DOMAIN w.ppm = {} /\ DOMAIN w.created = {}
      /\ DOMAIN w.advance = {a} /\ w.advance[a] = "APPROVED"
  BY <1>2 DEF NoRows, Only
<1>4. ApprovesAdvance(w)
  BY <1>1, <1>2, <1>3 DEF ApprovesAdvance, SameMove, NoNewAdvances
<1> QED  BY <1>1, <1>4, SerialBegins DEF Fresh

LEMMA SerialMoveStep ==
  ASSUME Inv, SerialInv, OneAtATime', serial, serial', NEW r \in Requests, MoveStep(r)
  PROVE  StepKept
<1>1. \A p \in DOMAIN ppm : ppm[p] \in Ppm  BY PpmRow
<1>2. LoadedAdvances \subseteq DOMAIN advance  BY LoadedAdvancesType
<1>3. DOMAIN NoRows = {}  BY DEF NoRows
<1>4. \A p \in DOMAIN ppm : ppm[p].advance # None => ppm[p].requested
  BY DEF SerialInv, Linked
<1>5. CASE SubmitMove(r)
  <2> DEFINE ppms == [p \in DOMAIN ppm |-> Submitted(ppm[p])]
             advances == [a \in LoadedAdvances |-> "REQUESTED"]
             w == Dependencies("SUBMITTED", orders, ppms, advances)
  <2>1. /\ Begins(r, w) /\ move = "DRAFT"
        /\ \A p \in DOMAIN ppm : ppm[p].status = "DRAFT"
        /\ \A a \in LoadedAdvances : advance[a] = "DRAFT"
    BY <1>5 DEF SubmitMove, Submittable
  <2>2. /\ w.move = "SUBMITTED" /\ w.orders = orders /\ w.ppm = ppms /\ w.advance = advances
        /\ w.created = NoRows /\ w.destroyed = {}
    BY DEF Dependencies, NoWrites
  <2> HIDE DEF w
  <2>3. ASSUME NEW p \in DOMAIN ppm
        PROVE  /\ w.ppm[p].advance = ppm[p].advance /\ w.ppm[p].requested = ppm[p].requested
               /\ w.ppm[p].status = "SUBMITTED"
    <3>1. w.ppm[p] = Submitted(ppm[p])  BY <2>2
    <3>2. ppm[p] \in Ppm  BY <1>1
    <3>3. /\ Submitted(ppm[p]).advance = ppm[p].advance
          /\ Submitted(ppm[p]).requested = ppm[p].requested
          /\ Submitted(ppm[p]).status = "SUBMITTED"
      BY <3>2 DEF Submitted, Ppm
    <3> QED  BY <3>1, <3>3
  <2>4. SavesAll(w, "SUBMITTED")  BY <1>4, <2>2, <2>3 DEF SavesAll, KeepsAdvance
  <2>5. Submits(w)  BY <1>3, <2>1, <2>2, <2>4 DEF Submits, NoNewAdvances
  <2> QED  BY <2>1, <2>5, SerialBegins DEF Fresh
<1>6. CASE CancelMove(r)
  <2> DEFINE ppms == [p \in DOMAIN ppm |-> [ppm[p] EXCEPT !.status = "CANCELED"]]
             advances == Restrict(advance, LoadedAdvances)
             w == Dependencies("CANCELED", "CANCELED", ppms, advances)
  <2>1. /\ Begins(r, w) /\ move # "CANCELED" /\ orders # "CANCELED"
        /\ \A p \in DOMAIN ppm : ppm[p].status \notin {"COMPLETED", "CANCELED"}
    BY <1>6 DEF CancelMove
  <2>2. /\ w.move = "CANCELED" /\ w.orders = "CANCELED" /\ w.ppm = ppms
        /\ w.advance = advances /\ w.created = NoRows /\ w.destroyed = {}
    BY DEF Dependencies, NoWrites
  <2> HIDE DEF w
  <2>3. ASSUME NEW p \in DOMAIN ppm
        PROVE  /\ w.ppm[p].advance = ppm[p].advance /\ w.ppm[p].requested = ppm[p].requested
               /\ w.ppm[p].status = "CANCELED"
    BY <1>1, <2>2 DEF Ppm
  <2>4. SavesAll(w, "CANCELED")  BY <1>4, <2>2, <2>3 DEF SavesAll, KeepsAdvance
  <2>5. SameAdvances(w)
    BY <1>2, <1>3, <2>2 DEF SameAdvances, NoNewAdvances, Restrict
  <2>6. Cancels(w)  BY <2>1, <2>2, <2>4, <2>5 DEF Cancels
  <2> QED  BY <2>1, <2>6, SerialBegins DEF Fresh
<1>7. ASSUME NEW w, Begins(r, w), w.ppm = NoRows, w.advance = NoRows, w.created = NoRows,
             w.destroyed = {}, w.orders \in {None, orders},
             w.move \in {None, move} \/ (move = "SUBMITTED" /\ w.move = "APPROVED")
      PROVE  StepKept
  <2>1. SavesMove(w)  BY <1>3, <1>7 DEF SavesMove, SameAdvances, NoNewAdvances
  <2> QED  BY <1>7, <2>1, SerialBegins DEF Fresh
<1>8. CASE ApproveMove(r)
  <2> DEFINE w == [NoWrites EXCEPT !.move = "APPROVED"]
  <2>1. Begins(r, w) /\ move = "SUBMITTED"  BY <1>8 DEF ApproveMove
  <2>2. /\ w.move = "APPROVED" /\ w.orders = None /\ w.ppm = NoRows /\ w.advance = NoRows
        /\ w.created = NoRows /\ w.destroyed = {}
    BY DEF NoWrites
  <2> HIDE DEF w
  <2> QED  BY <1>7, <2>1, <2>2
<1>9. CASE PatchMove(r)
  <2> DEFINE w == [NoWrites EXCEPT !.move = move]
  <2>1. Begins(r, w)  BY <1>9 DEF PatchMove
  <2>2. /\ w.move = move /\ w.orders = None /\ w.ppm = NoRows /\ w.advance = NoRows
        /\ w.created = NoRows /\ w.destroyed = {}
    BY DEF NoWrites
  <2> HIDE DEF w
  <2> QED  BY <1>7, <2>1, <2>2
<1>10. CASE UpdateOrders(r)
  <2> DEFINE w == [NoWrites EXCEPT !.orders = orders]
  <2>1. Begins(r, w)  BY <1>10 DEF UpdateOrders
  <2>2. /\ w.move = None /\ w.orders = orders /\ w.ppm = NoRows /\ w.advance = NoRows
        /\ w.created = NoRows /\ w.destroyed = {}
    BY DEF NoWrites
  <2> HIDE DEF w
  <2> QED  BY <1>7, <2>1, <2>2
<1> QED  BY <1>5, <1>6, <1>8, <1>9, <1>10 DEF MoveStep

LEMMA SerialReview ==
  ASSUME Inv, SerialInv, OneAtATime', serial, serial',
         NEW r \in Requests, NEW d \in DOMAIN document, UpdateMoveDocument(r, d)
  PROVE  StepKept
<1>1. PICK type \in {"SHIPMENT_SUMMARY", "OTHER"}, q \in DOMAIN ppm,
           status \in {document[d].status, "OK", "HAS_ISSUE"} :
        LET new == [document[d] EXCEPT !.type = type, !.status = status, !.ppm = q]
            p == document[d].ppm
            processed == status # document[d].status /\ CompletesItsPPM(new)
        IN  /\ processed => Completes(ppm[p])
            /\ Begins(r, [NoWrites EXCEPT
                 !.document = Only(d, new),
                 !.ppm = Only(p, IF processed THEN [ppm[p] EXCEPT !.status = "COMPLETED"]
                                 ELSE ppm[p])])
  BY DEF UpdateMoveDocument
<1> DEFINE new == [document[d] EXCEPT !.type = type, !.status = status, !.ppm = q]
           p == document[d].ppm
           processed == status # document[d].status /\ CompletesItsPPM(new)
           row == IF processed THEN [ppm[p] EXCEPT !.status = "COMPLETED"] ELSE ppm[p]
           w == [NoWrites EXCEPT !.document = Only(d, new), !.ppm = Only(p, row)]
<1>2. Begins(r, w) /\ (processed => Completes(ppm[p]))  BY <1>1
<1>3. p \in DOMAIN ppm  BY DEF Inv, Referring
<1>4. ppm[p] \in Ppm  BY <1>3, PpmRow
<1> HIDE DEF new, p
<1>5. /\ row.advance = ppm[p].advance /\ row.requested = ppm[p].requested
      /\ \/ row.status = ppm[p].status
         \/ ppm[p].status \in {"PAYMENT_REQUESTED", "COMPLETED"} /\ row.status = "COMPLETED"
  BY <1>2, <1>4 DEF Completes, Ppm
<1> HIDE DEF row, processed
<1>6. /\ w.move = None /\ w.orders = None /\ w.ppm = Only(p, row)
      /\ w.advance = NoRows /\ w.created = NoRows /\ w.destroyed = {}
  BY DEF NoWrites
<1>7. row.status = ppm[p].status \/ <<ppm[p].status, row.status>> \in Successors
  BY <1>5 DEF Successors
<1> HIDE DEF w
<1>8. Fresh(w)  BY <1>2, <1>3, <1>5, <1>6, <1>7, SaveRowBegins
<1> QED  BY <1>2, <1>8, SerialBegins
-----------------------------------------------------------------------------
(* The transaction finds the tables as the handler did.                    *)

(* What it does to the tables the contract sees.                           *)
Saved(w) ==
  /\ move' = IF w.move = None THEN move ELSE w.move
  /\ orders' = IF w.orders = None THEN orders ELSE w.orders
  /\ DOMAIN ppm' = DOMAIN ppm
  /\ \A p \in DOMAIN ppm : ppm'[p] = IF p \in DOMAIN w.ppm THEN w.ppm[p] ELSE ppm[p]
  /\ DOMAIN advance' = (DOMAIN advance \union DOMAIN w.created) \ w.destroyed
  /\ \A a \in DOMAIN advance' :
       advance'[a] = IF a \in DOMAIN w.created THEN w.created[a]
                     ELSE IF a \in DOMAIN w.advance THEN w.advance[a] ELSE advance[a]

LEMMA SaveSaves ==
  ASSUME Inv, NEW r \in Requests, Save(r)
  PROVE  Saved(req[r].writes)
<1> DEFINE w == req[r].writes
<1>1. /\ w.ppm \in Rows(Ppms, Ppm) /\ w.advance \in Rows(Advances, AdvanceStatuses)
      /\ w.created \in Rows(Advances, AdvanceStatuses)
      /\ ppm \in Rows(Ppms, Ppm) /\ advance \in Rows(Advances, AdvanceStatuses)
  BY DEF Inv, Typed, Writes
<1>2. /\ move' = IF w.move = None THEN move ELSE w.move
      /\ orders' = IF w.orders = None THEN orders ELSE w.orders
      /\ ppm' = Updated(ppm, w.ppm)
      /\ advance' = Restrict(With(Updated(advance, w.advance), w.created),
                             (DOMAIN advance \union DOMAIN w.created) \ w.destroyed)
  BY DEF Save
<1> HIDE DEF w
<1>3. /\ DOMAIN ppm' = DOMAIN ppm
      /\ \A p \in DOMAIN ppm : ppm'[p] = IF p \in DOMAIN w.ppm THEN w.ppm[p] ELSE ppm[p]
  BY <1>1, <1>2, UpdatedType
<1> DEFINE saved == Updated(advance, w.advance)
           all == With(saved, w.created)
           kept == (DOMAIN advance \union DOMAIN w.created) \ w.destroyed
<1>4. /\ saved \in Rows(Advances, AdvanceStatuses) /\ DOMAIN saved = DOMAIN advance
      /\ \A a \in DOMAIN advance :
           saved[a] = IF a \in DOMAIN w.advance THEN w.advance[a] ELSE advance[a]
  BY <1>1, UpdatedType
<1> HIDE DEF saved
<1>5. /\ DOMAIN all = DOMAIN advance \union DOMAIN w.created
      /\ \A a \in DOMAIN all : all[a] = IF a \in DOMAIN w.created THEN w.created[a] ELSE saved[a]
  BY <1>4 DEF With
<1>6. advance' = Restrict(all, kept)  BY <1>2 DEF saved
<1> HIDE DEF all
<1>7. DOMAIN advance' = kept /\ \A a \in kept : advance'[a] = all[a]  BY <1>6 DEF Restrict
<1>8. \A a \in DOMAIN advance' :
        advance'[a] = IF a \in DOMAIN w.created THEN w.created[a]
                      ELSE IF a \in DOMAIN w.advance THEN w.advance[a] ELSE advance[a]
  BY <1>4, <1>5, <1>7
<1>9. Saved(w)  BY <1>2, <1>3, <1>7, <1>8 DEF Saved
<1> QED  BY <1>9 DEF w

Kept == Linked' /\ [Contract!ContractNext]_(Contract!contractVars)

LEMMA SeenOfSave ==
  ASSUME Inv, serial, serial', NEW w, Saved(w)
  PROVE  Seen /\ \A p \in DOMAIN ppm : ppm[p] \in Ppm /\ p \in Ppms
<1>1. \A p \in DOMAIN ppm : ppm[p] \in Ppm /\ p \in Ppms  BY PpmRow
<1>2. \A p \in DOMAIN ppm : ppm[p].status # None  BY <1>1, NoneAssumption DEF Ppm
<1> QED  BY <1>1, <1>2 DEF Saved, Seen

(* An advance that is there stays what it was.                             *)
LEMMA AdvanceKept ==
  ASSUME Linked, NEW p \in DOMAIN ppm, ppm'[p].advance = ppm[p].advance,
         ppm[p].advance # None =>
           ppm[p].advance \in DOMAIN advance' /\ advance'[ppm[p].advance] = advance[ppm[p].advance]
  PROVE  AdvanceStays(p)
BY DEF AdvanceStays, AdvanceOf, HasAdvance, Linked

LEMMA ProceedsKept ==
  ASSUME Inv, Linked, serial, serial', NEW w, Saved(w), NEW p \in DOMAIN ppm, Proceeds(w, p)
  PROVE  Kept
<1>1. Seen  BY SeenOfSave
<1>2. UNCHANGED <<move, orders>>  BY DEF Saved, Proceeds, SameMove
<1>3. /\ DOMAIN advance' = DOMAIN advance
      /\ \A a \in DOMAIN advance : advance'[a] = advance[a]
  BY DEF Saved, Proceeds, SameAdvances, NoNewAdvances
<1>4. /\ DOMAIN ppm' = DOMAIN ppm /\ ppm'[p].advance = ppm[p].advance
      /\ ppm'[p].advance # None => ppm'[p].requested
      /\ \A q \in DOMAIN ppm \ {p} : ppm'[q] = ppm[q]
      /\ ppm'[p].status = ppm[p].status \/ <<ppm[p].status, ppm'[p].status>> \in Successors
  BY DEF Saved, Proceeds, KeepsAdvance
<1>5. \A q \in DOMAIN ppm : ppm'[q].advance = ppm[q].advance  BY <1>4
<1>6. Linked'  BY <1>3, <1>4, <1>5 DEF Linked, HasAdvance
<1>7. \A q \in DOMAIN ppm : AdvanceStays(q)
  BY <1>3, <1>5, AdvanceKept DEF Linked, HasAdvance
<1>8. \A q \in DOMAIN ppm \ {p} : StatusStays(q)  BY <1>4 DEF StatusStays
<1>9. CASE ppm'[p].status = ppm[p].status
  <2>1. \A q \in DOMAIN ppm : StatusStays(q)  BY <1>8, <1>9 DEF StatusStays
  <2> QED  BY <1>1, <1>2, <1>6, <1>7, <2>1, StutterSeen DEF Kept
<1>10. CASE <<ppm[p].status, ppm'[p].status>> \in Successors
  <2>1. Contract!Proceed(p)  BY <1>1, <1>2, <1>7, <1>8, <1>10, ProceedSeen
  <2> QED  BY <1>1, <1>6, <2>1 DEF Kept, Contract!ContractNext, Seen
<1> QED  BY <1>4, <1>9, <1>10

LEMMA AddsAdvanceKept ==
  ASSUME Inv, Linked, serial, serial', NEW w, Saved(w), NEW p \in DOMAIN ppm, AddsAdvance(w, p)
  PROVE  Kept
<1> DEFINE a == w.ppm[p].advance
<1>1. Seen  BY SeenOfSave
<1>2. UNCHANGED <<move, orders>>  BY DEF Saved, AddsAdvance, SameMove
<1>3. /\ a \in Advances \ DOMAIN advance /\ ppm[p].advance = None
      /\ DOMAIN ppm' = DOMAIN ppm /\ ppm'[p].advance = a /\ ppm'[p].requested
      /\ \A q \in DOMAIN ppm \ {p} : ppm'[q] = ppm[q]
      /\ ppm'[p].status = ppm[p].status
  BY DEF Saved, AddsAdvance
<1>4. /\ DOMAIN advance' = DOMAIN advance \union {a}
      /\ advance'[a] = StatusOfNewAdvance(ppm[p])
      /\ \A b \in DOMAIN advance : advance'[b] = advance[b]
  <2>1. /\ DOMAIN w.created = {a} /\ w.destroyed = {} /\ DOMAIN w.advance = {}
        /\ w.created[a] = StatusOfNewAdvance(ppm[p])
    BY DEF AddsAdvance
  <2> HIDE DEF a
  <2> QED  BY <1>3, <2>1 DEF Saved
<1>5. a # None  BY <1>3, MoveAssumption
<1> HIDE DEF a
<1>6. Linked'  BY <1>3, <1>4, <1>5 DEF Linked, HasAdvance
<1>7. \A q \in DOMAIN ppm \ {p} : AdvanceStays(q)
  BY <1>3, <1>4, AdvanceKept DEF Linked, HasAdvance
<1>8. \A q \in DOMAIN ppm : StatusStays(q)  BY <1>3 DEF StatusStays
<1>9. AdvanceOf(ppm[p]) = None /\ AdvanceOf(ppm[p])' = StatusOfNewAdvance(ppm[p])
  BY <1>3, <1>4, <1>5 DEF AdvanceOf, HasAdvance
<1>10. Contract!ChangeAdvance(p)
  <2>1. CASE ppm[p].status = "DRAFT"
    <3>1. AdvanceOf(ppm[p])' = "DRAFT"  BY <1>9, <2>1 DEF StatusOfNewAdvance
    <3> QED  BY <1>1, <1>2, <1>7, <1>8, <1>9, <2>1, <3>1, ChangeAdvanceSeen
  <2>2. CASE ppm[p].status # "DRAFT"
    <3>1. AdvanceOf(ppm[p])' = "REQUESTED"  BY <1>9, <2>2 DEF StatusOfNewAdvance
    <3> QED  BY <1>1, <1>2, <1>7, <1>8, <1>9, <2>2, <3>1, ChangeAdvanceSeen
  <2> QED  BY <2>1, <2>2
<1> QED  BY <1>1, <1>6, <1>10 DEF Kept, Contract!ContractNext, Seen

LEMMA DropsAdvanceKept ==
  ASSUME Inv, Linked, serial, serial', NEW w, Saved(w), NEW p \in DOMAIN ppm, DropsAdvance(w, p)
  PROVE  Kept
<1> DEFINE a == ppm[p].advance
<1>1. Seen  BY SeenOfSave
<1>2. UNCHANGED <<move, orders>>  BY DEF Saved, DropsAdvance, SameMove
<1>3. /\ DOMAIN ppm' = DOMAIN ppm /\ ppm'[p].advance = None
      /\ \A q \in DOMAIN ppm \ {p} : ppm'[q] = ppm[q]
      /\ ppm'[p].status = ppm[p].status
  BY DEF Saved, DropsAdvance
<1>4. /\ DOMAIN advance' = DOMAIN advance \ ({a} \ {None})
      /\ \A b \in DOMAIN advance' : advance'[b] = advance[b]
  BY DEF Saved, DropsAdvance
<1>5. \A q \in DOMAIN ppm \ {p} : ppm[q].advance # None => ppm[q].advance # a
  BY DEF Linked
<1>6. Linked'  BY <1>3, <1>4, <1>5 DEF Linked, HasAdvance
<1>7. \A q \in DOMAIN ppm \ {p} : AdvanceStays(q)
  BY <1>3, <1>4, <1>5, AdvanceKept DEF Linked, HasAdvance
<1>8. \A q \in DOMAIN ppm : StatusStays(q)  BY <1>3 DEF StatusStays
<1>9. AdvanceOf(ppm[p])' = None  BY <1>3 DEF AdvanceOf
<1>10. None \notin {"DRAFT", "REQUESTED", "APPROVED"}
  BY NoneAssumption DEF AdvanceStatuses
<1>11. Contract!ChangeAdvance(p)
  BY <1>1, <1>2, <1>7, <1>8, <1>9, <1>10, ChangeAdvanceSeen
<1> QED  BY <1>1, <1>6, <1>11 DEF Kept, Contract!ContractNext, Seen

LEMMA SavesMoveKept ==
  ASSUME Inv, Linked, serial, serial', NEW w, Saved(w), SavesMove(w)
  PROVE  Kept
<1>1. Seen  BY SeenOfSave
<1>2. /\ UNCHANGED orders
      /\ move' = move \/ (move = "SUBMITTED" /\ move' = "APPROVED")
  BY DEF Saved, SavesMove
<1>3. /\ DOMAIN ppm' = DOMAIN ppm /\ \A q \in DOMAIN ppm : ppm'[q] = ppm[q]
      /\ DOMAIN advance' = DOMAIN advance
      /\ \A a \in DOMAIN advance : advance'[a] = advance[a]
  BY DEF Saved, SavesMove, SameAdvances, NoNewAdvances
<1>4. Linked'  BY <1>3 DEF Linked, HasAdvance
<1>5. \A q \in DOMAIN ppm : AdvanceStays(q)
  BY <1>3, AdvanceKept DEF Linked, HasAdvance
<1>6. \A q \in DOMAIN ppm : StatusStays(q) /\ AdvanceStays(q)  BY <1>3, <1>5 DEF StatusStays
<1>7. CASE move' = move  BY <1>1, <1>2, <1>4, <1>6, <1>7, StutterSeen DEF Kept
<1>8. CASE move = "SUBMITTED" /\ move' = "APPROVED"
  <2>1. Contract!ApproveMove  BY <1>1, <1>2, <1>6, <1>8, ApproveSeen
  <2> QED  BY <1>4, <2>1 DEF Kept, Contract!ContractNext
<1> QED  BY <1>2, <1>7, <1>8

LEMMA ApprovesAdvanceKept ==
  ASSUME Inv, Linked, serial, serial', NEW w, Saved(w), ApprovesAdvance(w)
  PROVE  Kept
<1>1. Seen  BY SeenOfSave
<1>2. UNCHANGED <<move, orders>>  BY DEF Saved, ApprovesAdvance, SameMove
<1>3. PICK a \in DOMAIN advance :
        advance[a] = "REQUESTED" /\ DOMAIN w.advance = {a} /\ w.advance[a] = "APPROVED"
  BY DEF ApprovesAdvance
<1>4. /\ DOMAIN ppm' = DOMAIN ppm /\ \A q \in DOMAIN ppm : ppm'[q] = ppm[q]
  BY DEF Saved, ApprovesAdvance
<1>5. /\ DOMAIN advance' = DOMAIN advance /\ advance'[a] = "APPROVED"
      /\ \A b \in DOMAIN advance \ {a} : advance'[b] = advance[b]
  BY <1>3 DEF Saved, ApprovesAdvance, NoNewAdvances
<1>6. Linked'  BY <1>4, <1>5 DEF Linked, HasAdvance
<1>7. \A q \in DOMAIN ppm : StatusStays(q)  BY <1>4 DEF StatusStays
<1>8. ASSUME NEW q \in DOMAIN ppm, ppm[q].advance # a PROVE AdvanceStays(q)
  BY <1>4, <1>5, <1>8, AdvanceKept DEF Linked, HasAdvance
<1>9. CASE \A q \in DOMAIN ppm : ppm[q].advance # a
  <2>1. \A q \in DOMAIN ppm : StatusStays(q) /\ AdvanceStays(q)  BY <1>7, <1>8, <1>9
  <2> QED  BY <1>1, <1>2, <1>6, <2>1, StutterSeen DEF Kept
<1>10. ASSUME NEW p \in DOMAIN ppm, ppm[p].advance = a PROVE Kept
  <2>1. a # None  BY <1>3, RowsOfTable, MoveAssumption DEF Inv, Typed
  <2>2. \A q \in DOMAIN ppm \ {p} : AdvanceStays(q)  BY <1>8, <1>10, <2>1 DEF Linked
  <2>3. AdvanceOf(ppm[p]) = "REQUESTED" /\ AdvanceOf(ppm[p])' = "APPROVED"
    BY <1>3, <1>4, <1>5, <1>10, <2>1 DEF AdvanceOf, HasAdvance
  <2>4. Contract!ChangeAdvance(p)
    BY <1>1, <1>2, <1>7, <2>2, <2>3, ChangeAdvanceSeen
  <2> QED  BY <1>1, <1>6, <2>4 DEF Kept, Contract!ContractNext, Seen
<1> QED  BY <1>9, <1>10

LEMMA SubmitsKept ==
  ASSUME Inv, Linked, serial, serial', NEW w, Saved(w), Submits(w)
  PROVE  Kept
<1>1. Seen  BY SeenOfSave
<1>2. move = "DRAFT" /\ move' = "SUBMITTED" /\ UNCHANGED orders
  BY NoneAssumption DEF Saved, Submits, MoveStatuses
<1>3. /\ DOMAIN ppm' = DOMAIN ppm
      /\ \A p \in DOMAIN ppm :
           /\ ppm'[p].advance = ppm[p].advance /\ (ppm'[p].advance # None => ppm'[p].requested)
           /\ ppm[p].status = "DRAFT" /\ ppm'[p].status = "SUBMITTED"
  BY DEF Saved, Submits, SavesAll, KeepsAdvance
<1>4. /\ DOMAIN advance' = DOMAIN advance
      /\ \A a \in LoadedAdvances : advance[a] = "DRAFT" /\ advance'[a] = "REQUESTED"
  BY LoadedAdvancesType DEF Saved, Submits, NoNewAdvances
<1>5. Linked'  BY <1>3, <1>4 DEF Linked, HasAdvance
<1>6. ASSUME NEW p \in DOMAIN ppm
      PROVE  \/ AdvanceOf(ppm[p]) = None /\ AdvanceOf(ppm[p])' = None
             \/ AdvanceOf(ppm[p]) = "DRAFT" /\ AdvanceOf(ppm[p])' = "REQUESTED"
  <2>1. CASE ppm[p].advance = None  BY <1>3, <2>1 DEF AdvanceOf
  <2>2. CASE ppm[p].advance # None
    <3>1. ppm[p].advance \in DOMAIN advance /\ ppm[p].advance \in LoadedAdvances
      BY <2>2 DEF Linked, HasAdvance, LoadedAdvances
    <3> QED  BY <1>3, <1>4, <2>2, <3>1 DEF AdvanceOf, HasAdvance
  <2> QED  BY <2>1, <2>2
<1>7. Contract!SubmitMove  BY <1>1, <1>2, <1>3, <1>6, SubmitSeen
<1> QED  BY <1>5, <1>7 DEF Kept, Contract!ContractNext

LEMMA CancelsKept ==
  ASSUME Inv, Linked, serial, serial', NEW w, Saved(w), Cancels(w)
  PROVE  Kept
<1>1. Seen  BY SeenOfSave
<1>2. move # "CANCELED" /\ move' = "CANCELED" /\ orders # "CANCELED" /\ orders' = "CANCELED"
  BY NoneAssumption DEF Saved, Cancels, MoveStatuses
<1>3. /\ DOMAIN ppm' = DOMAIN ppm
      /\ \A p \in DOMAIN ppm :
           /\ ppm'[p].advance = ppm[p].advance /\ (ppm'[p].advance # None => ppm'[p].requested)
           /\ ppm[p].status \notin {"COMPLETED", "CANCELED"} /\ ppm'[p].status = "CANCELED"
  BY DEF Saved, Cancels, SavesAll, KeepsAdvance
<1>4. /\ DOMAIN advance' = DOMAIN advance
      /\ \A a \in DOMAIN advance : advance'[a] = advance[a]
  BY DEF Saved, Cancels, SameAdvances, NoNewAdvances
<1>5. Linked'  BY <1>3, <1>4 DEF Linked, HasAdvance
<1>6. \A p \in DOMAIN ppm : AdvanceStays(p)
  BY <1>3, <1>4, AdvanceKept DEF Linked, HasAdvance
<1>7. Contract!CancelMove  BY <1>1, <1>2, <1>3, <1>6, CancelSeen
<1> QED  BY <1>5, <1>7 DEF Kept, Contract!ContractNext
-----------------------------------------------------------------------------
(* The steps of a behaviour whose requests do not overlap.                 *)

LEMMA SerialEnd ==
  ASSUME Inv, SerialInv, NEW r \in Requests, req[r] # Idle, req' = [req EXCEPT ![r] = Idle]
  PROVE  \A x \in Requests : req'[x].at = "saving" => Fresh(req[x].writes)'
<1>1. ASSUME NEW x \in Requests, x # r PROVE req[x] = Idle
  BY <1>1 DEF SerialInv, OneAtATime, Busy
<1>2. \A x \in Requests : req'[x] = Idle  BY <1>1 DEF Inv, Typed
<1> QED  BY <1>2 DEF Idle

LEMMA SerialTransaction ==
  ASSUME Inv, SerialInv, OneAtATime', serial, serial',
         NEW r \in Requests, Save(r) \/ Fail(r)
  PROVE  StepKept
<1>1. req[r] # Idle /\ req' = [req EXCEPT ![r] = Idle]  BY DEF Save, Fail, Idle
<1>2. \A x \in Requests : req'[x].at = "saving" => Fresh(req[x].writes)'
  BY <1>1, SerialEnd
<1>3. CASE Fail(r)
  <2>1. UNCHANGED <<move, orders, ppm, advance>>  BY <1>3 DEF Fail, tables
  <2>2. Linked' /\ UNCHANGED Contract!contractVars
    BY <2>1, LinkedStays, NothingSeen DEF SerialInv
  <2> QED  BY <1>2, <2>2 DEF SerialInv, StepKept
<1>4. CASE Save(r)
  <2> DEFINE w == req[r].writes
  <2>1. Saved(w)  BY <1>4, SaveSaves
  <2>2. Linked /\ Fresh(w)  BY <1>4 DEF Save, SerialInv
  <2> HIDE DEF w
  <2>3. Kept
    BY <2>1, <2>2, ProceedsKept, AddsAdvanceKept, DropsAdvanceKept, SavesMoveKept,
       ApprovesAdvanceKept, SubmitsKept, CancelsKept
    DEF Fresh
  <2> QED  BY <1>2, <2>3 DEF Kept, SerialInv, StepKept
<1> QED  BY <1>3, <1>4

(* Rows are created when no request is in progress.                        *)
LEMMA SerialCreate ==
  ASSUME Inv, SerialInv, OneAtATime', serial, serial', Busy = {},
         NEW p \in Ppms, CreatePPM(p)
  PROVE  StepKept
<1>1. PICK a \in NewAdvances \union {None}, date \in Dates \union {None},
           plan \in Plans \union {None} :
        /\ ppm' = With(ppm, Only(p,
             [status |-> "DRAFT", submitted |-> FALSE, approved |-> FALSE,
              requested |-> a # None, advance |-> a,
              date |-> date, plan |-> plan, estimates |-> None]))
        /\ advance' = With(advance, [b \in {a} \ {None} |-> "DRAFT"])
  BY DEF CreatePPM
<1> DEFINE row == [status |-> "DRAFT", submitted |-> FALSE, approved |-> FALSE,
                   requested |-> a # None, advance |-> a,
                   date |-> date, plan |-> plan, estimates |-> None]
           drafts == [b \in {a} \ {None} |-> "DRAFT"]
<1>2. ppm' = With(ppm, Only(p, row)) /\ advance' = With(advance, drafts)  BY <1>1
<1>3. row.status = "DRAFT" /\ row.advance = a /\ (row.requested <=> a # None)  OBVIOUS
<1>4. DOMAIN drafts = {a} \ {None} /\ \A b \in DOMAIN drafts : drafts[b] = "DRAFT"  OBVIOUS
<1> HIDE DEF row, drafts
<1>5. p \notin DOMAIN ppm /\ UNCHANGED <<move, orders, req>>  BY DEF CreatePPM
<1>6. DOMAIN Only(p, row) = {p} /\ Only(p, row)[p] = row  BY DEF Only
<1>7. /\ DOMAIN ppm' = DOMAIN ppm \union {p} /\ ppm'[p] = row
      /\ \A q \in DOMAIN ppm : ppm'[q] = ppm[q]
  BY <1>2, <1>5, <1>6 DEF With
<1>8. a \notin DOMAIN advance
  <2>1. DOMAIN advance \subseteq Advances  BY RowsOfTable DEF Inv, Typed
  <2> QED  BY <2>1, MoveAssumption DEF NewAdvances
<1>9. /\ DOMAIN advance' = DOMAIN advance \union ({a} \ {None})
      /\ \A b \in DOMAIN advance : advance'[b] = advance[b]
      /\ a # None => advance'[a] = "DRAFT"
  <2>1. /\ DOMAIN advance' = DOMAIN advance \union DOMAIN drafts
        /\ \A b \in DOMAIN advance \union DOMAIN drafts :
             advance'[b] = IF b \in DOMAIN drafts THEN drafts[b] ELSE advance[b]
    BY <1>2 DEF With
  <2> QED  BY <1>4, <1>8, <2>1
<1>10. Linked'
  <2>1. \A q \in DOMAIN ppm : ppm[q].advance # None => ppm[q].advance # a
    BY <1>8 DEF SerialInv, Linked, HasAdvance
  <2> QED  BY <1>3, <1>5, <1>7, <1>9, <2>1 DEF SerialInv, Linked, HasAdvance
<1>11. \A q \in DOMAIN ppm : StatusStays(q) /\ AdvanceStays(q)
  BY <1>7, <1>9, AdvanceKept DEF SerialInv, Linked, HasAdvance, StatusStays
<1>12. ppm'[p].status = "DRAFT" /\ AdvanceOf(ppm[p])' \in {"DRAFT", None}
       /\ (AdvanceOf(ppm[p])' = "DRAFT" \/ AdvanceOf(ppm[p])' = None)
  BY <1>3, <1>7, <1>9 DEF AdvanceOf, HasAdvance
<1>13. Contract!Create(p)
  BY <1>5, <1>7, <1>11, <1>12
  DEF Contract!Create, Contract!Becomes, StatusStays, AdvanceStays
<1>14. \A x \in Requests : req'[x].at # "saving"  BY <1>5 DEF Busy, Idle
<1> QED  BY <1>10, <1>13, <1>14 DEF SerialInv, StepKept, Contract!ContractNext

LEMMA SerialCreateDocument ==
  ASSUME Inv, SerialInv, OneAtATime', serial, serial', Busy = {},
         NEW d \in Documents, CreateMoveDocument(d)
  PROVE  StepKept
<1>1. UNCHANGED <<move, orders, ppm, advance, req>>  BY DEF CreateMoveDocument
<1>2. \A x \in Requests : req'[x].at # "saving"  BY <1>1 DEF Busy, Idle
<1>3. Linked' /\ UNCHANGED Contract!contractVars
  BY <1>1, LinkedStays, NothingSeen DEF SerialInv
<1> QED  BY <1>2, <1>3 DEF SerialInv, StepKept

(* A step of a behaviour whose requests do not overlap, or of any other.   *)
LEMMA SerialStep ==
  ASSUME Inv, serial => SerialInv, [UnboundedNext]_<<vars, serial>>
  PROVE  /\ serial' => SerialInv'
         /\ [Contract!ContractNext]_(Contract!contractVars)
<1>1. CASE UNCHANGED <<vars, serial>>
  <2>1. UNCHANGED <<move, orders, ppm, advance, req, serial>>  BY <1>1 DEF vars, tables
  <2>2. UNCHANGED Contract!contractVars  BY <2>1, NothingSeen
  <2>3. SerialInv => SerialInv'
    <3> SUFFICES ASSUME SerialInv PROVE SerialInv'  OBVIOUS
    <3>1. OneAtATime' /\ Linked'  BY <2>1, LinkedStays DEF SerialInv, OneAtATime, Busy
    <3>2. ASSUME NEW x \in Requests, req'[x].at = "saving" PROVE Fresh(req[x].writes)'
      <4>1. Fresh(req[x].writes) /\ req'[x].writes = req[x].writes
        BY <2>1, <3>2 DEF SerialInv
      <4> QED  BY <2>1, <4>1, FreshStays
    <3> QED  BY <3>1, <3>2 DEF SerialInv
  <2> QED  BY <2>1, <2>2, <2>3
<1>2. CASE UnboundedNext
  <2>1. Next /\ serial' = serial /\ (serial => OneAtATime' /\ (Busy = {} \/ req' # req))
    BY <1>2 DEF UnboundedNext
  <2>2. CASE ~ serial  BY <2>1, <2>2, NothingSeenUnlessSerial
  <2>3. CASE serial
    <3> SUFFICES StepKept  BY DEF StepKept
    <3>1. CASE \E p \in Ppms : CreatePPM(p)
      <4>1. Busy = {}  BY <2>1, <2>3, <3>1 DEF CreatePPM
      <4> QED  BY <2>1, <2>3, <3>1, <4>1, SerialCreate
    <3>2. CASE \E d \in Documents : CreateMoveDocument(d)
      <4>1. Busy = {}  BY <2>1, <2>3, <3>2 DEF CreateMoveDocument
      <4> QED  BY <2>1, <2>3, <3>2, <4>1, SerialCreateDocument
    <3>3. CASE \E r \in Requests : \E p \in DOMAIN ppm : PpmStep(r, p)
      BY <2>1, <2>3, <3>3, SerialPpmStep
    <3>4. CASE \E r \in Requests : \E a \in DOMAIN advance : ApproveReimbursement(r, a)
      BY <2>1, <2>3, <3>4, SerialReimbursement
    <3>5. CASE \E r \in Requests : \E d \in DOMAIN document : UpdateMoveDocument(r, d)
      BY <2>1, <2>3, <3>5, SerialReview
    <3>6. CASE \E r \in Requests : MoveStep(r)  BY <2>1, <2>3, <3>6, SerialMoveStep
    <3>7. CASE \E r \in Requests : Save(r) \/ Fail(r)
      BY <2>1, <2>3, <3>7, SerialTransaction
    <3> QED  BY <2>1, <3>1, <3>2, <3>3, <3>4, <3>5, <3>6, <3>7 DEF Next
  <2> QED  BY <2>2, <2>3, <2>1
<1> QED  BY <1>1, <1>2

LEMMA SerialInit == UnboundedInit => (serial => SerialInv) /\ Contract!ContractInit
<1> SUFFICES ASSUME UnboundedInit PROVE SerialInv /\ Contract!ContractInit  OBVIOUS
<1>1. /\ DOMAIN ppm = {} /\ move = "DRAFT" /\ orders = "DRAFT"
      /\ \A r \in Requests : req[r] = Idle
  BY NoRowsType DEF UnboundedInit, Init
<1>2. SerialInv  BY <1>1 DEF SerialInv, OneAtATime, Busy, Linked, Idle
<1>3. Contract!ContractInit  BY <1>1 DEF Contract!ContractInit
<1> QED  BY <1>2, <1>3

(* Requests that come one after the other keep the contract of the move,   *)
(* although each writes back every row it read: the submission submits all *)
(* PPMs and requests their advances, the cancellation cancels all PPMs and *)
(* the orders or nothing, a PPM goes on in the order of its statuses, and  *)
(* an advance that is referred to is never lost                            *)
(* (pkg/models/move.go, pkg/models/personally_procured_move.go).           *)
THEOREM SerialRequestsKeepTheMove == UnboundedSpec => KeepsTheMove
<1>1. UnboundedInit => Inv /\ (serial => SerialInv) /\ Contract!ContractInit
  BY SerialInit, InitSound DEF UnboundedInit
<1>2. Inv /\ [UnboundedNext]_<<vars, serial>> => Inv'
  BY NextSound DEF UnboundedNext, vars
<1>3. Inv /\ (serial => SerialInv) /\ [UnboundedNext]_<<vars, serial>> =>
        (serial => SerialInv)' /\ [Contract!ContractNext]_(Contract!contractVars)
  BY SerialStep
<1> QED  BY <1>1, <1>2, <1>3, PTL DEF UnboundedSpec, KeepsTheMove, Contract!ContractSpec

(* The bounds TLC needs leave out behaviours and add none.                 *)
LEMMA BoundsOnlyRestrict == MCSpec => UnboundedSpec
<1>1. MCInit => UnboundedInit  BY DEF MCInit
<1>2. [MCNext]_<<vars, serial, begun>> => [UnboundedNext]_<<vars, serial>>
  BY DEF MCNext
<1> QED  BY <1>1, <1>2, PTL DEF MCSpec, UnboundedSpec
=============================================================================
