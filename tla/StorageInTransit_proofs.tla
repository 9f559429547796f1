------------------------ MODULE StorageInTransit_proofs ------------------------
(***************************************************************************)
(* What the requests of StorageInTransit keep, however many overlap and    *)
(* however many storages (SITs) and days there are.  The idea: the copy of *)
(* a row that a request holds is as good as the row, but for the number    *)
(* that a placement is yet to draw and the charge that a delivery is yet   *)
(* to make; and a number that is held anywhere is held for one SIT.        *)
(***************************************************************************)
EXTENDS MCStorageInTransit, TLAPS

Tables == UNION {[S -> Row] : S \in SUBSET Sits}

Typed ==
  /\ shipment \in {"IN_TRANSIT", "DELIVERED"}
  /\ priced \in BOOLEAN
  /\ row \in Tables
  /\ DOMAIN row \intersect gone = {}
  /\ gone \subseteq Sits
  /\ sequence \in [Days -> Nat]
  /\ charged \subseteq Sits
  /\ uncharged \subseteq Sits
  /\ req \in [Requests -> [at : Steps, rows : Tables,
                           shipment : {"IN_TRANSIT", "DELIVERED", None}]]

(* A row that was read or is to be written: authorized before the shipment *)
(* is placed, and numbered with it.                                        *)
Authorized(sit) ==
  sit.status \in {"APPROVED", "IN_SIT", "RELEASED", "DELIVERED"} => sit.authorized # None

SoundRow(s, sit, charges) ==
  /\ Authorized(sit)
  /\ Taken(sit) => sit.number # None
  /\ Validate(sit)
  /\ sit.status = "DELIVERED" => s \in charges

SoundCopy(at, s, sit, charges) ==
  /\ Authorized(sit)
  /\ at # "numbering" /\ Taken(sit) => sit.number # None
  /\ at = "numbering" => sit.status = "IN_SIT" /\ sit.start \in Days
  /\ at = "delivering" => Validate(sit)
  /\ at # "delivering" /\ sit.status = "DELIVERED" => s \in charges

(* Where a request has a copy of the shipment to save.                     *)
ShipmentSavers == {"saving shipment"} \union Recalculating

SoundRequest(q, charges) ==
  /\ \A s \in DOMAIN q.rows : SoundCopy(q.at, s, q.rows[s], charges)
  /\ q.at = "numbering" => \A s, t \in DOMAIN q.rows : s = t
  /\ q.at \in ShipmentSavers => q.shipment \in {"IN_TRANSIT", "DELIVERED"}

(* The number n belongs to s in the table or in the hands of a request.    *)
Holds(table, requests, s, n) ==
  \/ s \in DOMAIN table /\ table[s].number = n
  \/ \E r \in Requests : s \in DOMAIN requests[r].rows /\ requests[r].rows[s].number = n

(* Numbers are held for one SIT each, and were counted.                    *)
NumbersHeld(table, requests, counts) ==
  \A s \in Sits, n \in Number :
    Holds(table, requests, s, n) =>
      /\ n[2] \in 1..counts[n[1]]
      /\ \A t \in Sits : Holds(table, requests, t, n) => t = s

(* The SITs whose line items were created, deleted since or not.           *)
Accounts == charged \union uncharged

(* The inductive invariant.                                                *)
Inv ==
  /\ Typed
  /\ \A s \in DOMAIN row : SoundRow(s, row[s], Accounts)
  /\ \A r \in Requests : SoundRequest(req[r], Accounts)
  /\ NumbersHeld(row, req, sequence)
-----------------------------------------------------------------------------
(* Tables.                                                                 *)

LEMMA RowsOfTable ==
  ASSUME NEW f \in Tables
  PROVE  DOMAIN f \subseteq Sits /\ \A s \in DOMAIN f : f[s] \in Row
BY DEF Tables

LEMMA TableOfRows ==
  ASSUME NEW S, S \subseteq Sits, NEW f \in [S -> Row]
  PROVE  f \in Tables
BY DEF Tables

LEMMA NoRowsType == NoRows \in Tables /\ DOMAIN NoRows = {}
<1>1. NoRows \in [{} -> Row] /\ {} \subseteq Sits  BY DEF NoRows
<1> QED  BY <1>1, TableOfRows DEF NoRows

LEMMA UpdatedType ==
  ASSUME NEW f \in Tables, NEW g \in Tables
  PROVE  /\ Updated(f, g) \in Tables
         /\ DOMAIN Updated(f, g) = DOMAIN f
         /\ \A s \in DOMAIN f : Updated(f, g)[s] = IF s \in DOMAIN g THEN g[s] ELSE f[s]
<1>1. Updated(f, g) \in [DOMAIN f -> Row]  BY RowsOfTable DEF Updated
<1>2. DOMAIN f \subseteq Sits  BY RowsOfTable
<1> QED  BY <1>1, <1>2, TableOfRows DEF Updated

LEMMA IdleType ==
  /\ Idle \in [at : Steps, rows : Tables, shipment : {"IN_TRANSIT", "DELIVERED", None}]
  /\ DOMAIN Idle.rows = {}
  /\ \A charges : SoundRequest(Idle, charges)
BY NoRowsType DEF Idle, Steps, SoundRequest, ShipmentSavers, Recalculating

LEMMA NotSavers ==
  \A at \in {"idle", "saving", "saving for TSP", "numbering", "fetching shipment", "delivering"} :
    at \notin ShipmentSavers
BY DEF ShipmentSavers, Recalculating

LEMMA DaysAreNumbers == \A d \in Days : d \in Nat /\ d # None
BY StorageAssumption
-----------------------------------------------------------------------------
(* Numbers.                                                                *)

(* Nothing is held that was not held before.                               *)
LEMMA HeldBefore ==
  ASSUME NEW table, NEW requests, NEW counts, NumbersHeld(table, requests, counts),
         NEW newTable, NEW newRequests,
         \A s \in Sits, n \in Number :
           Holds(newTable, newRequests, s, n) => Holds(table, requests, s, n)
  PROVE  NumbersHeld(newTable, newRequests, counts)
BY DEF NumbersHeld

(* One request r changes to q, which holds what it held or what is in the  *)
(* table.                                                                  *)
LEMMA RequestHolds ==
  ASSUME NEW table, NEW requests, DOMAIN requests = Requests, NEW counts,
         NumbersHeld(table, requests, counts),
         NEW r \in Requests, NEW q,
         \A s \in DOMAIN q.rows :
           \/ s \in DOMAIN table /\ q.rows[s].number = table[s].number
           \/ s \in DOMAIN requests[r].rows /\ q.rows[s].number = requests[r].rows[s].number
  PROVE  NumbersHeld(table, [requests EXCEPT ![r] = q], counts)
<1> DEFINE next == [requests EXCEPT ![r] = q]
<1>1. next[r] = q /\ \A x \in Requests \ {r} : next[x] = requests[x]  OBVIOUS
<1> HIDE DEF next
<1>2. ASSUME NEW s \in Sits, NEW n \in Number, Holds(table, next, s, n)
      PROVE  Holds(table, requests, s, n)
  <2>1. CASE s \in DOMAIN table /\ table[s].number = n  BY <2>1 DEF Holds
  <2>2. CASE \E x \in Requests : s \in DOMAIN next[x].rows /\ next[x].rows[s].number = n
    <3>1. PICK x \in Requests : s \in DOMAIN next[x].rows /\ next[x].rows[s].number = n
      BY <2>2
    <3> QED  BY <3>1, <1>1 DEF Holds
  <2> QED  BY <1>2, <2>1, <2>2 DEF Holds
<1>3. NumbersHeld(table, next, counts)  BY <1>2, HeldBefore
<1> QED  BY <1>3 DEF next
-----------------------------------------------------------------------------
(* Requests.                                                               *)

(* What a request holds stays sound while more is charged.                 *)
LEMMA MoreCharged ==
  ASSUME NEW q, NEW charges, SoundRequest(q, charges), NEW more, charges \subseteq more
  PROVE  SoundRequest(q, more)
BY DEF SoundRequest, SoundCopy

(* A request r changes to q and no row of a SIT changes; no SIT that had   *)
(* line items is forgotten.                                                *)
LEMMA RowsStay ==
  ASSUME Inv, UNCHANGED <<row, gone, sequence>>,
         shipment' \in {"IN_TRANSIT", "DELIVERED"}, priced' \in BOOLEAN,
         charged' \subseteq Sits, uncharged' \subseteq Sits, Accounts \subseteq Accounts',
         NEW r \in Requests,
         NEW q \in [at : Steps, rows : Tables, shipment : {"IN_TRANSIT", "DELIVERED", None}],
         req' = [req EXCEPT ![r] = q],
         SoundRequest(q, Accounts),
         \A s \in DOMAIN q.rows :
           \/ s \in DOMAIN row /\ q.rows[s].number = row[s].number
           \/ s \in DOMAIN req[r].rows /\ q.rows[s].number = req[r].rows[s].number
  PROVE  Inv'
<1>1. Typed'
  <2>1. req' \in [Requests -> [at : Steps, rows : Tables,
                               shipment : {"IN_TRANSIT", "DELIVERED", None}]]
    BY DEF Inv, Typed
  <2> QED  BY <2>1 DEF Inv, Typed
<1>2. ASSUME NEW x \in Requests PROVE SoundRequest(req'[x], Accounts')
  <2>1. SoundRequest(req'[x], Accounts)  BY DEF Inv, Typed
  <2> QED  BY <2>1, MoreCharged
<1>3. ASSUME NEW s \in DOMAIN row' PROVE SoundRow(s, row'[s], Accounts')
  <2>1. row' = row /\ SoundRow(s, row[s], Accounts)  BY DEF Inv
  <2> QED  BY <2>1 DEF SoundRow
<1>4. NumbersHeld(row, req', sequence)
  <2>1. DOMAIN req = Requests /\ NumbersHeld(row, req, sequence)  BY DEF Inv, Typed
  <2> QED  BY <2>1, RequestHolds
<1> QED  BY <1>1, <1>2, <1>3, <1>4 DEF Inv

(* A request r changes to q and the tables stay.                           *)
LEMMA RequestSound ==
  ASSUME Inv, UNCHANGED tables, NEW r \in Requests,
         NEW q \in [at : Steps, rows : Tables, shipment : {"IN_TRANSIT", "DELIVERED", None}],
         req' = [req EXCEPT ![r] = q],
         SoundRequest(q, Accounts),
         \A s \in DOMAIN q.rows :
           \/ s \in DOMAIN row /\ q.rows[s].number = row[s].number
           \/ s \in DOMAIN req[r].rows /\ q.rows[s].number = req[r].rows[s].number
  PROVE  Inv'
<1>1. UNCHANGED <<shipment, priced, row, gone, sequence, charged, uncharged>>
  BY DEF tables, sits
<1>2. /\ shipment' \in {"IN_TRANSIT", "DELIVERED"} /\ priced' \in BOOLEAN
      /\ charged' \subseteq Sits /\ uncharged' \subseteq Sits /\ Accounts \subseteq Accounts'
  BY <1>1 DEF Inv, Typed, Accounts
<1> QED  BY <1>1, <1>2, RowsStay

(* A request reads one row and changes the copy.                           *)
LEMMA ChangesSound ==
  ASSUME Inv, NEW r \in Requests, NEW s \in DOMAIN row, NEW at \in Steps \ ShipmentSavers,
         NEW sit \in Row, sit.number = row[s].number, SoundCopy(at, s, sit, Accounts),
         Changes(r, s, at, sit)
  PROVE  Inv'
<1> DEFINE q == [Idle EXCEPT !.at = at, !.rows = [t \in {s} |-> sit]]
<1>1. req' = [req EXCEPT ![r] = q] /\ UNCHANGED tables  BY DEF Changes, Begins
<1>2. [t \in {s} |-> sit] \in Tables
  <2>1. [t \in {s} |-> sit] \in [{s} -> Row]  OBVIOUS
  <2>2. {s} \subseteq Sits  BY RowsOfTable DEF Inv, Typed
  <2> QED  BY <2>1, <2>2, TableOfRows
<1>3. q \in [at : Steps, rows : Tables, shipment : {"IN_TRANSIT", "DELIVERED", None}]
  BY <1>2, IdleType
<1>4. q.at = at /\ DOMAIN q.rows = {s} /\ q.rows[s] = sit  BY DEF Idle
<1> HIDE DEF q
<1>5. SoundRequest(q, Accounts)  BY <1>4 DEF SoundRequest
<1> QED  BY <1>1, <1>3, <1>4, <1>5, RequestSound
-----------------------------------------------------------------------------
(* The services.                                                           *)

LEMMA InitSound == Init => Inv
<1> SUFFICES ASSUME Init PROVE Inv  OBVIOUS
<1>1. row \in Tables /\ DOMAIN row = {}  BY NoRowsType DEF Init
<1>2. Typed  BY <1>1, IdleType DEF Init, Typed
<1>3. \A r \in Requests : SoundRequest(req[r], Accounts)  BY IdleType DEF Init
<1>4. NumbersHeld(row, req, sequence)
  BY <1>1, IdleType DEF Init, NumbersHeld, Holds
<1> QED  BY <1>1, <1>2, <1>3, <1>4 DEF Inv

LEMMA RowOfTable ==
  ASSUME Inv, NEW s \in DOMAIN row
  PROVE  s \in Sits /\ row[s] \in Row /\ SoundRow(s, row[s], Accounts)
BY RowsOfTable DEF Inv, Typed

LEMMA CreateSound ==
  ASSUME Inv, NEW s \in Sits, CreateStorageInTransit(s)
  PROVE  Inv'
<1>1. PICK location \in {"ORIGIN", "DESTINATION"} :
        row' = [t \in DOMAIN row \union {s} |->
                 IF t = s THEN [location |-> location, status |-> "REQUESTED",
                                authorized |-> None, start |-> None, number |-> None]
                 ELSE row[t]]
  BY DEF CreateStorageInTransit
<1> DEFINE new == [location |-> location, status |-> "REQUESTED", authorized |-> None,
                   start |-> None, number |-> None]
<1>2. new \in Row /\ SoundRow(s, new, Accounts) /\ new.number \notin Number
  BY StorageAssumption DEF Row, Statuses, SoundRow, Authorized, Taken, Validate, Number
<1>3. row' = [t \in DOMAIN row \union {s} |-> IF t = s THEN new ELSE row[t]]  BY <1>1
<1> HIDE DEF new
<1>4. s \notin DOMAIN row /\ s \notin gone /\ UNCHANGED <<shipment, priced, gone, sequence, charged, uncharged, req>>
  BY DEF CreateStorageInTransit
<1>5. row' \in Tables
  <2>1. row' \in [DOMAIN row \union {s} -> Row]  BY <1>2, <1>3, RowOfTable
  <2>2. DOMAIN row \union {s} \subseteq Sits  BY RowOfTable
  <2> QED  BY <2>1, <2>2, TableOfRows
<1>6. Typed'  BY <1>3, <1>4, <1>5 DEF Inv, Typed
<1>7. \A t \in DOMAIN row' : SoundRow(t, row'[t], Accounts)  BY <1>2, <1>3, RowOfTable
<1>8. ASSUME NEW t \in Sits, NEW n \in Number, Holds(row', req, t, n)
      PROVE  Holds(row, req, t, n)
  BY <1>2, <1>3, <1>8 DEF Holds
<1>9. NumbersHeld(row', req, sequence)  BY <1>8, HeldBefore DEF Inv
<1> QED  BY <1>4, <1>6, <1>7, <1>9 DEF Inv, Accounts

LEMMA DeleteSound ==
  ASSUME Inv, NEW s \in DOMAIN row, DeleteStorageInTransit(s)
  PROVE  Inv'
<1>1. /\ row' = [t \in DOMAIN row \ {s} |-> row[t]] /\ gone' = gone \union {s}
      /\ UNCHANGED <<shipment, priced, sequence, charged, uncharged, req>>
  BY DEF DeleteStorageInTransit, Restrict
<1>2. row' \in Tables
  <2>1. row' \in [DOMAIN row \ {s} -> Row]  BY <1>1, RowOfTable
  <2>2. DOMAIN row \ {s} \subseteq Sits  BY RowOfTable
  <2> QED  BY <2>1, <2>2, TableOfRows
<1>3. Typed'
  <2>1. gone' \subseteq Sits /\ DOMAIN row' \intersect gone' = {}
    BY <1>1, RowOfTable DEF Inv, Typed
  <2> QED  BY <1>1, <1>2, <2>1 DEF Inv, Typed
<1>4. \A t \in DOMAIN row' : SoundRow(t, row'[t], Accounts)  BY <1>1, RowOfTable
<1>5. ASSUME NEW t \in Sits, NEW n \in Number, Holds(row', req, t, n)
      PROVE  Holds(row, req, t, n)
  BY <1>1, <1>5 DEF Holds
<1>6. NumbersHeld(row', req, sequence)  BY <1>5, HeldBefore DEF Inv
<1> QED  BY <1>1, <1>3, <1>4, <1>6 DEF Inv, Accounts

LEMMA OfficeSound ==
  ASSUME Inv, NEW r \in Requests, NEW s \in DOMAIN row, Office(r, s)
  PROVE  Inv'
<1>1. s \in Sits /\ row[s] \in Row /\ SoundRow(s, row[s], Accounts)  BY RowOfTable
<1>2. CASE ApproveStorageInTransit(r, s)
  <2>1. PICK d \in Days :
          Changes(r, s, "saving", [row[s] EXCEPT !.status = "APPROVED", !.authorized = d])
    BY <1>2 DEF ApproveStorageInTransit
  <2> DEFINE sit == [row[s] EXCEPT !.status = "APPROVED", !.authorized = d]
  <2>2. sit \in Row /\ sit.number = row[s].number /\ SoundCopy("saving", s, sit, Accounts)
    BY <1>1, DaysAreNumbers DEF Row, Statuses, SoundCopy, SoundRow, Authorized, Taken
  <2>3. Changes(r, s, "saving", sit)  BY <2>1
  <2> HIDE DEF sit
  <2> QED  BY <2>2, <2>3, ChangesSound DEF Steps, ShipmentSavers, Recalculating
<1>3. CASE DenyStorageInTransit(r, s)
  <2> DEFINE sit == [row[s] EXCEPT !.status = "DENIED"]
  <2>1. sit \in Row /\ sit.number = row[s].number /\ SoundCopy("saving", s, sit, Accounts)
    BY <1>1 DEF Row, Statuses, SoundCopy, SoundRow, Authorized, Taken
  <2>2. Changes(r, s, "saving", sit)  BY <1>3 DEF DenyStorageInTransit
  <2> HIDE DEF sit
  <2> QED  BY <2>1, <2>2, ChangesSound DEF Steps, ShipmentSavers, Recalculating
<1> QED  BY <1>2, <1>3 DEF Office

LEMMA TSPSound ==
  ASSUME Inv, NEW r \in Requests, NEW s \in DOMAIN row, TSP(r, s)
  PROVE  Inv'
<1>1. s \in Sits /\ row[s] \in Row /\ SoundRow(s, row[s], Accounts)  BY RowOfTable
<1>2. CASE PlaceIntoSITStorageInTransit(r, s)
  <2>1. PICK d \in Days :
          Changes(r, s, "numbering", [row[s] EXCEPT !.status = "IN_SIT", !.start = d])
    BY <1>2 DEF PlaceIntoSITStorageInTransit
  <2> DEFINE sit == [row[s] EXCEPT !.status = "IN_SIT", !.start = d]
  <2>2. row[s].status = "APPROVED"  BY <1>2 DEF PlaceIntoSITStorageInTransit
  <2>3. sit \in Row /\ sit.number = row[s].number /\ SoundCopy("numbering", s, sit, Accounts)
    BY <1>1, <2>2 DEF Row, Statuses, SoundCopy, SoundRow, Authorized, Taken
  <2>4. Changes(r, s, "numbering", sit)  BY <2>1
  <2> HIDE DEF sit
  <2> QED  BY <2>3, <2>4, ChangesSound DEF Steps, ShipmentSavers, Recalculating
<1>3. CASE ReleaseStorageInTransit(r, s)
  <2> DEFINE sit == [row[s] EXCEPT !.status = "RELEASED"]
  <2>1. row[s].status \in {"IN_SIT", "DELIVERED"}  BY <1>3 DEF ReleaseStorageInTransit
  <2>2. sit \in Row /\ sit.number = row[s].number /\ SoundCopy("saving", s, sit, Accounts)
    BY <1>1, <2>1 DEF Row, Statuses, SoundCopy, SoundRow, Authorized, Taken
  <2>3. Changes(r, s, "saving", sit)  BY <1>3 DEF ReleaseStorageInTransit
  <2> HIDE DEF sit
  <2> QED  BY <2>2, <2>3, ChangesSound DEF Steps, ShipmentSavers, Recalculating
<1> QED  BY <1>2, <1>3 DEF TSP

LEMMA PatchSound ==
  ASSUME Inv, NEW r \in Requests, NEW s \in DOMAIN row, PatchStorageInTransit(r, s)
  PROVE  Inv'
<1>1. s \in Sits /\ row[s] \in Row /\ SoundRow(s, row[s], Accounts)  BY RowOfTable
<1>2. PICK location \in {"ORIGIN", "DESTINATION"}, start \in Days \union {None},
           at \in {"saving", "saving for TSP"} :
        Changes(r, s, at, [row[s] EXCEPT !.location = location, !.start = start])
  BY DEF PatchStorageInTransit
<1> DEFINE sit == [row[s] EXCEPT !.location = location, !.start = start]
<1>3. sit \in Row /\ sit.number = row[s].number /\ SoundCopy(at, s, sit, Accounts)
  BY <1>1 DEF Row, SoundCopy, SoundRow, Authorized, Taken
<1>4. Changes(r, s, at, sit)  BY <1>2
<1> HIDE DEF sit
<1> QED  BY <1>3, <1>4, ChangesSound DEF Steps, ShipmentSavers, Recalculating
-----------------------------------------------------------------------------
(* Numbers are drawn.                                                      *)

(* A request r draws the next number of the day d for the one row it has.  *)
LEMMA NewNumberHeld ==
  ASSUME NEW table, NEW requests, DOMAIN requests = Requests,
         NEW counts \in [Days -> Nat], NumbersHeld(table, requests, counts),
         NEW r \in Requests, NEW q, NEW s \in Sits, NEW d \in Days,
         DOMAIN q.rows = {s}, q.rows[s].number = <<d, counts[d] + 1>>
  PROVE  NumbersHeld(table, [requests EXCEPT ![r] = q], [counts EXCEPT ![d] = counts[d] + 1])
<1> DEFINE next == [requests EXCEPT ![r] = q]
           counted == [counts EXCEPT ![d] = counts[d] + 1]
           new == <<d, counts[d] + 1>>
<1>1. next[r] = q /\ \A x \in Requests \ {r} : next[x] = requests[x]  OBVIOUS
<1>2. /\ counts[d] \in Nat /\ counted[d] = counts[d] + 1
      /\ \A e \in Days : counts[e] \in Nat /\ counted[e] \in Nat /\ counts[e] <= counted[e]
  OBVIOUS
<1>3. new \in Number /\ new[1] = d /\ new[2] = counts[d] + 1 /\ q.rows[s].number = new
  <2>1. new \in Days \X Nat  BY <1>2
  <2> QED  BY <2>1 DEF Number
<1> HIDE DEF next, counted, new
<1>4. ASSUME NEW t \in Sits, NEW n \in Number, Holds(table, next, t, n)
      PROVE  Holds(table, requests, t, n) \/ (t = s /\ n = new)
  <2>1. CASE t \in DOMAIN table /\ table[t].number = n  BY <2>1 DEF Holds
  <2>2. CASE \E x \in Requests : t \in DOMAIN next[x].rows /\ next[x].rows[t].number = n
    <3>1. PICK x \in Requests : t \in DOMAIN next[x].rows /\ next[x].rows[t].number = n
      BY <2>2
    <3>2. CASE x = r  BY <3>1, <3>2, <1>1, <1>3
    <3>3. CASE x # r  BY <3>1, <3>3, <1>1 DEF Holds
    <3> QED  BY <3>2, <3>3
  <2> QED  BY <1>4, <2>1, <2>2 DEF Holds
<1>5. ASSUME NEW t \in Sits PROVE ~ Holds(table, requests, t, new)
  <2>1. Holds(table, requests, t, new) => new[2] \in 1..counts[new[1]]
    BY <1>3 DEF NumbersHeld
  <2> QED  BY <2>1, <1>2, <1>3
<1>6. ASSUME NEW t \in Sits, NEW n \in Number, Holds(table, next, t, n)
      PROVE  n[2] \in 1..counted[n[1]]
  <2>1. CASE n = new  BY <2>1, <1>2, <1>3
  <2>2. CASE n # new
    <3>1. n[2] \in 1..counts[n[1]]  BY <1>4, <1>6, <2>2 DEF NumbersHeld
    <3>2. n[1] \in Days  BY DEF Number
    <3> QED  BY <3>1, <3>2, <1>2
  <2> QED  BY <2>1, <2>2
<1>7. ASSUME NEW t \in Sits, NEW n \in Number, Holds(table, next, t, n),
             NEW u \in Sits, Holds(table, next, u, n)
      PROVE  u = t
  <2>1. CASE n = new  BY <2>1, <1>4, <1>5, <1>7
  <2>2. CASE n # new
    <3>1. Holds(table, requests, t, n) /\ Holds(table, requests, u, n)  BY <2>2, <1>4, <1>7
    <3> QED  BY <3>1 DEF NumbersHeld
  <2> QED  BY <2>1, <2>2
<1>8. NumbersHeld(table, next, counted)  BY <1>6, <1>7 DEF NumbersHeld
<1> QED  BY <1>8 DEF next, counted

LEMMA GenerateSound ==
  ASSUME Inv, NEW r \in Requests, GenerateStorageInTransitNumber(r)
  PROVE  Inv'
<1>1. PICK s \in DOMAIN req[r].rows :
        LET d == req[r].rows[s].start
            n == sequence[d] + 1
        IN  /\ sequence' = [sequence EXCEPT ![d] = n]
            /\ req' = [req EXCEPT ![r].at = "saving", ![r].rows[s].number = <<d, n>>]
  BY DEF GenerateStorageInTransitNumber
<1> DEFINE rows == req[r].rows
           d == rows[s].start
           new == <<d, sequence[d] + 1>>
           sit == [rows[s] EXCEPT !.number = new]
           q == [req[r] EXCEPT !.at = "saving", !.rows = [rows EXCEPT ![s] = sit]]
<1>2. /\ req[r] \in [at : Steps, rows : Tables, shipment : {"IN_TRANSIT", "DELIVERED", None}]
      /\ req[r].at = "numbering" /\ SoundRequest(req[r], Accounts)
  BY DEF GenerateStorageInTransitNumber, Inv, Typed
<1>3. /\ rows \in Tables /\ DOMAIN rows = {s} /\ s \in Sits /\ rows[s] \in Row
      /\ rows[s].status = "IN_SIT" /\ d \in Days /\ rows[s].authorized # None
  BY <1>2, RowsOfTable DEF SoundRequest, SoundCopy, Authorized
<1>4. /\ sequence \in [Days -> Nat] /\ new \in Number /\ new # None
  <2>1. sequence \in [Days -> Nat] /\ sequence[d] + 1 \in Nat  BY <1>3 DEF Inv, Typed
  <2>2. new \in Days \X Nat  BY <1>3, <2>1
  <2> QED  BY <2>1, <2>2, StorageAssumption DEF Number
<1>5. /\ sequence' = [sequence EXCEPT ![d] = sequence[d] + 1]
      /\ req' = [req EXCEPT ![r] = q]
      /\ UNCHANGED <<shipment, priced, row, gone, charged, uncharged>>
  BY <1>1, <1>2, <1>3 DEF GenerateStorageInTransitNumber, sits
<1>6. sit \in Row /\ sit.number = new /\ sit.status = "IN_SIT" /\ sit.authorized # None
  BY <1>3, <1>4 DEF Row
<1> HIDE DEF sit
<1>7. /\ q \in [at : Steps, rows : Tables, shipment : {"IN_TRANSIT", "DELIVERED", None}]
      /\ q.at = "saving" /\ DOMAIN q.rows = {s} /\ q.rows[s] = sit
  <2>1. [rows EXCEPT ![s] = sit] \in [{s} -> Row]  BY <1>3, <1>6, RowsOfTable DEF Tables
  <2>2. [rows EXCEPT ![s] = sit] \in Tables  BY <1>3, <2>1, TableOfRows
  <2> QED  BY <1>2, <1>3, <2>2 DEF Steps
<1>8. SoundRequest(q, Accounts)
  BY <1>4, <1>6, <1>7, NotSavers DEF SoundRequest, SoundCopy, Authorized
<1> HIDE DEF q
<1>9. Typed'
  <2>1. sequence' \in [Days -> Nat]  BY <1>3, <1>4, <1>5
  <2> QED  BY <1>5, <1>7, <2>1 DEF Inv, Typed
<1>10. ASSUME NEW x \in Requests PROVE SoundRequest(req'[x], Accounts)
  BY <1>5, <1>8 DEF Inv, Typed
<1>11. NumbersHeld(row, req', sequence')
  <2>1. DOMAIN req = Requests /\ NumbersHeld(row, req, sequence)  BY DEF Inv, Typed
  <2> QED  BY <2>1, <1>3, <1>4, <1>5, <1>6, <1>7, NewNumberHeld
<1> QED  BY <1>5, <1>9, <1>10, <1>11 DEF Inv, Accounts

-----------------------------------------------------------------------------
(* Transactions.                                                           *)

(* The table is written from the copies of r, and the request goes on      *)
(* with the rows it has or with none.                                      *)
LEMMA WritesHold ==
  ASSUME Inv, NEW r \in Requests, NEW q,
         q.rows = req[r].rows \/ DOMAIN q.rows = {},
         row' = Updated(row, req[r].rows), req' = [req EXCEPT ![r] = q]
  PROVE  NumbersHeld(row', req', sequence)
<1>1. req'[r] = q /\ \A x \in Requests \ {r} : req'[x] = req[x]
  BY DEF Inv, Typed
<1>2. ASSUME NEW s \in Sits, NEW n \in Number, Holds(row', req', s, n)
      PROVE  Holds(row, req, s, n)
  <2>1. CASE s \in DOMAIN row' /\ row'[s].number = n
    BY <2>1 DEF Holds, Updated
  <2>2. CASE \E x \in Requests : s \in DOMAIN req'[x].rows /\ req'[x].rows[s].number = n
    <3>1. PICK x \in Requests : s \in DOMAIN req'[x].rows /\ req'[x].rows[s].number = n
      BY <2>2
    <3>2. CASE x = r  BY <3>1, <3>2, <1>1 DEF Holds
    <3>3. CASE x # r  BY <3>1, <3>3, <1>1 DEF Holds
    <3> QED  BY <3>2, <3>3
  <2> QED  BY <1>2, <2>1, <2>2 DEF Holds
<1> QED  BY <1>2, HeldBefore DEF Inv

LEMMA SaveSound ==
  ASSUME Inv, NEW r \in Requests, SaveStorageInTransit(r)
  PROVE  Inv'
<1> DEFINE rows == req[r].rows
           q == IF req[r].at = "saving" THEN Idle
                ELSE [req[r] EXCEPT !.at = "fetching shipment"]
<1>1. /\ req[r].at \in {"saving", "saving for TSP"}
      /\ \A s \in DOMAIN rows : Validate(rows[s])
      /\ row' = Updated(row, rows)
      /\ req' = [req EXCEPT ![r] = q]
      /\ UNCHANGED <<shipment, priced, gone, sequence, charged, uncharged>>
  BY DEF SaveStorageInTransit, Ends, Continues, Inv, Typed
<1>2. /\ req[r] \in [at : Steps, rows : Tables, shipment : {"IN_TRANSIT", "DELIVERED", None}]
      /\ SoundRequest(req[r], Accounts) /\ row \in Tables /\ rows \in Tables
  BY DEF Inv, Typed
<1>3. /\ row' \in Tables /\ DOMAIN row' = DOMAIN row
      /\ \A s \in DOMAIN row : row'[s] = IF s \in DOMAIN rows THEN rows[s] ELSE row[s]
  <2> HIDE DEF rows
  <2>1. row \in Tables /\ rows \in Tables  BY <1>2
  <2>2. row' = Updated(row, rows)  BY <1>1
  <2> QED  BY <2>1, <2>2, UpdatedType
<1>4. /\ q \in [at : Steps, rows : Tables, shipment : {"IN_TRANSIT", "DELIVERED", None}]
      /\ SoundRequest(q, Accounts)
      /\ q.rows = req[r].rows \/ DOMAIN q.rows = {}
  <2>1. CASE req[r].at = "saving"  BY <2>1, IdleType
  <2>2. CASE req[r].at = "saving for TSP"
    BY <1>2, <2>2, NotSavers DEF Steps, SoundRequest, SoundCopy
  <2> QED  BY <1>1, <2>1, <2>2
<1>5. \A s \in DOMAIN row' : SoundRow(s, row'[s], Accounts)
  <2>1. ASSUME NEW s \in DOMAIN rows PROVE SoundRow(s, rows[s], Accounts)
    <3>1. SoundCopy(req[r].at, s, rows[s], Accounts)  BY <1>2 DEF SoundRequest
    <3> QED  BY <1>1, <3>1 DEF SoundCopy, SoundRow
  <2> QED  BY <1>3, <2>1 DEF Inv
<1> HIDE DEF q
<1>6. Typed'  BY <1>1, <1>3, <1>4 DEF Inv, Typed
<1>7. ASSUME NEW x \in Requests PROVE SoundRequest(req'[x], Accounts)
  BY <1>1, <1>4 DEF Inv, Typed
<1>8. NumbersHeld(row', req', sequence)  BY <1>1, <1>4, WritesHold
<1> QED  BY <1>1, <1>5, <1>6, <1>7, <1>8 DEF Inv, Accounts

LEMMA FetchShipmentSound ==
  ASSUME Inv, NEW r \in Requests, FetchShipment(r)
  PROVE  Inv'
<1> DEFINE q == [Idle EXCEPT !.at = "saving shipment", !.shipment = shipment]
<1>1. req' = [req EXCEPT ![r] = q] /\ UNCHANGED tables  BY DEF FetchShipment
<1>2. /\ q \in [at : Steps, rows : Tables, shipment : {"IN_TRANSIT", "DELIVERED", None}]
      /\ DOMAIN q.rows = {}
  BY IdleType DEF Inv, Typed, Steps
<1>3. q.at = "saving shipment" /\ q.shipment = shipment  BY DEF Idle
<1> HIDE DEF q
<1>4. SoundRequest(q, Accounts)  BY <1>2, <1>3 DEF SoundRequest, Inv, Typed
<1> QED  BY <1>1, <1>2, <1>4, RequestSound

LEMMA SaveShipmentSound ==
  ASSUME Inv, NEW r \in Requests, SaveShipment(r)
  PROVE  Inv'
<1>1. /\ req' = [req EXCEPT ![r] = Idle] /\ shipment' = req[r].shipment
      /\ UNCHANGED <<priced, row, gone, sequence, charged, uncharged>>
  BY DEF SaveShipment, Ends, sits
<1>2. shipment' \in {"IN_TRANSIT", "DELIVERED"}
  BY <1>1 DEF SaveShipment, SoundRequest, ShipmentSavers, Inv
<1>3. /\ priced' \in BOOLEAN
      /\ charged' \subseteq Sits /\ uncharged' \subseteq Sits /\ Accounts \subseteq Accounts'
  BY <1>1 DEF Inv, Typed, Accounts
<1> QED  BY <1>1, <1>2, <1>3, IdleType, RowsStay

LEMMA DeliverSound ==
  ASSUME Inv, NEW r \in Requests, DeliverShipment(r)
  PROVE  Inv'
<1> DEFINE rows == [s \in DOMAIN row |-> Delivered(row[s])]
           q == [Idle EXCEPT !.at = "delivering", !.rows = rows]
<1>1. req' = [req EXCEPT ![r] = q] /\ UNCHANGED tables  BY DEF DeliverShipment, Begins
<1>2. ASSUME NEW s \in DOMAIN row
      PROVE  /\ Delivered(row[s]) \in Row
             /\ Delivered(row[s]).number = row[s].number
             /\ SoundCopy("delivering", s, Delivered(row[s]), Accounts)
  BY RowOfTable
  DEF Row, Statuses, Delivered, SoundCopy, SoundRow, Authorized, Taken, Validate
<1>3. rows \in Tables
  <2>1. rows \in [DOMAIN row -> Row]  BY <1>2
  <2>2. DOMAIN row \subseteq Sits  BY RowOfTable
  <2> QED  BY <2>1, <2>2, TableOfRows
<1>4. DOMAIN rows = DOMAIN row /\ \A s \in DOMAIN row : rows[s] = Delivered(row[s])
  OBVIOUS
<1> HIDE DEF rows
<1>5. /\ q \in [at : Steps, rows : Tables, shipment : {"IN_TRANSIT", "DELIVERED", None}]
      /\ q.at = "delivering" /\ q.rows = rows
  BY <1>3, IdleType DEF Steps, Idle
<1> HIDE DEF q
<1>6. SoundRequest(q, Accounts)  BY <1>2, <1>4, <1>5, NotSavers DEF SoundRequest
<1> QED  BY <1>1, <1>2, <1>4, <1>5, <1>6, RequestSound

LEMMA CommitSound ==
  ASSUME Inv, NEW r \in Requests, CommitDelivery(r)
  PROVE  Inv'
<1> DEFINE rows == req[r].rows
<1>1. /\ req[r].at = "delivering" /\ shipment' = "DELIVERED" /\ priced' = TRUE
      /\ row' = Updated(row, rows)
      /\ charged' = charged \union {s \in DOMAIN row' :
                                     row'[s].status \in {"DELIVERED", "RELEASED"}}
      /\ uncharged' = uncharged \ {s \in DOMAIN row' :
                                     row'[s].status \in {"DELIVERED", "RELEASED"}}
      /\ req' = [req EXCEPT ![r] = Idle] /\ UNCHANGED <<gone, sequence>>
  BY DEF CommitDelivery, Ends, Charge, CreateStorageInTransitLineItems
<1>2. /\ row \in Tables /\ rows \in Tables /\ SoundRequest(req[r], Accounts)
      /\ DOMAIN req = Requests
  BY DEF Inv, Typed
<1>3. /\ row' \in Tables /\ DOMAIN row' = DOMAIN row
      /\ \A s \in DOMAIN row : row'[s] = IF s \in DOMAIN rows THEN rows[s] ELSE row[s]
  <2> HIDE DEF rows
  <2>1. row \in Tables /\ rows \in Tables  BY <1>2
  <2>2. row' = Updated(row, rows)  BY <1>1
  <2> QED  BY <2>1, <2>2, UpdatedType
<1>4. /\ charged' \subseteq Sits /\ uncharged' \subseteq Sits
      /\ Accounts \subseteq Accounts'
  <2>1. DOMAIN row' \subseteq Sits  BY <1>3, RowOfTable
  <2> QED  BY <1>1, <2>1 DEF Inv, Typed, Accounts
<1>5. \A s \in DOMAIN row' : SoundRow(s, row'[s], Accounts')
  <2> SUFFICES ASSUME NEW s \in DOMAIN row' PROVE SoundRow(s, row'[s], Accounts')  OBVIOUS
  <2>1. row'[s].status = "DELIVERED" => s \in Accounts'  BY <1>1 DEF Accounts
  <2>2. CASE s \in DOMAIN rows
    <3>1. row'[s] = rows[s] /\ SoundCopy("delivering", s, rows[s], Accounts)
      BY <1>1, <1>2, <1>3, <2>2 DEF SoundRequest
    <3> QED  BY <2>1, <3>1 DEF SoundCopy, SoundRow
  <2>3. CASE s \notin DOMAIN rows
    <3>1. row'[s] = row[s] /\ SoundRow(s, row[s], Accounts)  BY <1>3, <2>3, RowOfTable
    <3> QED  BY <2>1, <3>1 DEF SoundRow
  <2> QED  BY <2>2, <2>3
<1>6. Typed'  BY <1>1, <1>3, <1>4, IdleType DEF Inv, Typed
<1>7. ASSUME NEW x \in Requests PROVE SoundRequest(req'[x], Accounts')
  <2>1. CASE x = r  BY <1>1, <1>2, <2>1, IdleType
  <2>2. CASE x # r
    <3>1. req'[x] = req[x] /\ SoundRequest(req[x], Accounts)  BY <1>1, <2>2 DEF Inv
    <3> QED  BY <3>1, <1>4, MoreCharged
  <2> QED  BY <2>1, <2>2
<1>8. NumbersHeld(row', req', sequence)  BY <1>1, IdleType, WritesHold
<1> QED  BY <1>1, <1>5, <1>6, <1>7, <1>8 DEF Inv

LEMMA FailSound ==
  ASSUME Inv, NEW r \in Requests, Fail(r)
  PROVE  Inv'
<1>1. req' = [req EXCEPT ![r] = Idle] /\ UNCHANGED tables  BY DEF Fail, Ends
<1> QED  BY <1>1, IdleType, RequestSound
-----------------------------------------------------------------------------
(* The recalculation.                                                      *)

(* It goes on with the copies it has or with some of them.                 *)
LEMMA RecalculationGoesOn ==
  ASSUME NEW q, NEW charges, SoundRequest(q, charges), q.at \in Recalculating,
         NEW next, next.at \in Recalculating, next.shipment = q.shipment,
         DOMAIN next.rows \subseteq DOMAIN q.rows,
         \A s \in DOMAIN next.rows : next.rows[s] = q.rows[s]
  PROVE  SoundRequest(next, charges)
BY DEF SoundRequest, SoundCopy, ShipmentSavers, Recalculating

LEMMA RecalculateSound ==
  ASSUME Inv, NEW r \in Requests, Recalculate(r)
  PROVE  Inv'
<1> DEFINE q == [Idle EXCEPT !.at = "recalculating", !.shipment = shipment]
<1>1. req' = [req EXCEPT ![r] = q] /\ UNCHANGED tables  BY DEF Recalculate
<1>2. /\ q \in [at : Steps, rows : Tables, shipment : {"IN_TRANSIT", "DELIVERED", None}]
      /\ DOMAIN q.rows = {}
  BY IdleType DEF Inv, Typed, Steps, Recalculating
<1>3. q.shipment \in {"IN_TRANSIT", "DELIVERED"}  BY DEF Idle, Inv, Typed
<1>4. q.at = "recalculating"  BY DEF Idle
<1> HIDE DEF q
<1>5. SoundRequest(q, Accounts)  BY <1>2, <1>3, <1>4 DEF SoundRequest
<1> QED  BY <1>1, <1>2, <1>5, RequestSound

(* Its steps from one of these places to the next.                         *)
LEMMA RecalculationStepSound ==
  ASSUME Inv, NEW r \in Requests, req[r].at \in Recalculating, NEW at \in Recalculating,
         req' = [req EXCEPT ![r].at = at],
         UNCHANGED <<row, gone, sequence>>,
         shipment' \in {shipment, req[r].shipment}, priced' \in BOOLEAN,
         charged' \subseteq Sits, uncharged' \subseteq Sits, Accounts \subseteq Accounts'
  PROVE  Inv'
<1> DEFINE q == [req[r] EXCEPT !.at = at]
<1>1. /\ req[r] \in [at : Steps, rows : Tables, shipment : {"IN_TRANSIT", "DELIVERED", None}]
      /\ SoundRequest(req[r], Accounts) /\ shipment \in {"IN_TRANSIT", "DELIVERED"}
      /\ req' = [req EXCEPT ![r] = q]
  BY DEF Inv, Typed
<1>2. req[r].shipment \in {"IN_TRANSIT", "DELIVERED"}
  BY <1>1 DEF SoundRequest, ShipmentSavers
<1>3. at \in Steps  BY DEF Steps
<1>4. /\ q \in [at : Steps, rows : Tables, shipment : {"IN_TRANSIT", "DELIVERED", None}]
      /\ q.at = at /\ q.rows = req[r].rows /\ q.shipment = req[r].shipment
  BY <1>1, <1>3
<1> HIDE DEF q
<1>5. SoundRequest(q, Accounts)  BY <1>1, <1>4, RecalculationGoesOn
<1> QED  BY <1>1, <1>2, <1>4, <1>5, RowsStay

LEMMA SaveRecalculatedSound ==
  ASSUME Inv, NEW r \in Requests, SaveRecalculated(r)
  PROVE  Inv'
<1>1. PICK at \in Recalculating :
        req[r].at \in Recalculating /\ req' = [req EXCEPT ![r].at = at]
  BY DEF SaveRecalculated, Continues, Recalculating
<1>2. /\ shipment' = req[r].shipment
      /\ UNCHANGED <<priced, row, gone, sequence, charged, uncharged>>
  BY DEF SaveRecalculated, sits
<1>3. /\ priced' \in BOOLEAN /\ charged' \subseteq Sits /\ uncharged' \subseteq Sits
      /\ Accounts \subseteq Accounts'
  BY <1>2 DEF Inv, Typed, Accounts
<1> QED  BY <1>1, <1>2, <1>3, RecalculationStepSound

LEMMA DeleteBaseShipmentLineItemsSound ==
  ASSUME Inv, NEW r \in Requests, DeleteBaseShipmentLineItems(r)
  PROVE  Inv'
<1>1. /\ req[r].at = "deleting base items" /\ req' = [req EXCEPT ![r].at = "resaving"]
      /\ UNCHANGED <<shipment, row, gone, sequence, charged, uncharged>>
  BY DEF DeleteBaseShipmentLineItems, Continues, sits
<1>2. priced' \in BOOLEAN  BY DEF DeleteBaseShipmentLineItems, Inv, Typed
<1>3. charged' \subseteq Sits /\ uncharged' \subseteq Sits /\ Accounts \subseteq Accounts'
  BY <1>1 DEF Inv, Typed, Accounts
<1>4. "deleting base items" \in Recalculating /\ "resaving" \in Recalculating
  BY DEF Recalculating
<1> QED  BY <1>1, <1>2, <1>3, <1>4, RecalculationStepSound

LEMMA DeleteStorageInTransitLineItemsSound ==
  ASSUME Inv, NEW r \in Requests, DeleteStorageInTransitLineItems(r)
  PROVE  Inv'
<1>1. /\ req[r].at = "deleting SIT items" /\ req' = [req EXCEPT ![r].at = "saving again"]
      /\ UNCHANGED <<shipment, priced, row, gone, sequence>>
  BY DEF DeleteStorageInTransitLineItems, Continues, sits
<1>2. PICK S \in SUBSET charged : charged' = charged \ S /\ uncharged' = uncharged \union S
  BY DEF DeleteStorageInTransitLineItems
<1>3. charged' \subseteq Sits /\ uncharged' \subseteq Sits /\ Accounts \subseteq Accounts'
  BY <1>2 DEF Inv, Typed, Accounts
<1>4. priced' \in BOOLEAN  BY <1>1 DEF Inv, Typed
<1>5. "deleting SIT items" \in Recalculating /\ "saving again" \in Recalculating
  BY DEF Recalculating
<1> QED  BY <1>1, <1>3, <1>4, <1>5, RecalculationStepSound

LEMMA PartOfTable ==
  ASSUME NEW f \in Tables, NEW S \in SUBSET DOMAIN f
  PROVE  /\ Restrict(f, S) \in Tables /\ DOMAIN Restrict(f, S) = S
         /\ \A s \in S : Restrict(f, S)[s] = f[s]
<1>1. Restrict(f, S) \in [S -> Row]  BY RowsOfTable DEF Restrict
<1>2. S \subseteq Sits  BY RowsOfTable
<1> QED  BY <1>1, <1>2, TableOfRows DEF Restrict

LEMMA FetchSITsSound ==
  ASSUME Inv, NEW r \in Requests, FetchStorageInTransitsOnShipment(r)
  PROVE  Inv'
<1> DEFINE S == CreateStorageInTransitLineItems(row)
           q == [req[r] EXCEPT !.at = "charging", !.rows = Restrict(row, S)]
<1>1. /\ req[r] \in [at : Steps, rows : Tables, shipment : {"IN_TRANSIT", "DELIVERED", None}]
      /\ req[r].at = "listing" /\ SoundRequest(req[r], Accounts) /\ row \in Tables
  BY DEF FetchStorageInTransitsOnShipment, Inv, Typed
<1>2. req' = [req EXCEPT ![r] = q] /\ UNCHANGED tables
  BY DEF FetchStorageInTransitsOnShipment, Inv, Typed
<1>3. S \in SUBSET DOMAIN row  BY DEF CreateStorageInTransitLineItems
<1> HIDE DEF S
<1>4. /\ Restrict(row, S) \in Tables /\ DOMAIN Restrict(row, S) = S
      /\ \A s \in S : Restrict(row, S)[s] = row[s]
  BY <1>1, <1>3, PartOfTable
<1>5. "charging" \in Steps /\ "listing" \in ShipmentSavers
  BY DEF Steps, Recalculating, ShipmentSavers
<1>6. /\ q \in [at : Steps, rows : Tables, shipment : {"IN_TRANSIT", "DELIVERED", None}]
      /\ q.at = "charging" /\ q.rows = Restrict(row, S) /\ q.shipment = req[r].shipment
  BY <1>1, <1>4, <1>5
<1> HIDE DEF q
<1>7. q.shipment \in {"IN_TRANSIT", "DELIVERED"}  BY <1>1, <1>5, <1>6 DEF SoundRequest
<1>8. ASSUME NEW s \in DOMAIN q.rows
      PROVE  /\ s \in DOMAIN row /\ q.rows[s] = row[s]
             /\ SoundCopy("charging", s, q.rows[s], Accounts)
  <2>1. s \in DOMAIN row /\ q.rows[s] = row[s]  BY <1>3, <1>4, <1>6
  <2>2. SoundRow(s, row[s], Accounts)  BY <2>1 DEF Inv
  <2> QED  BY <2>1, <2>2 DEF SoundCopy, SoundRow
<1>9. SoundRequest(q, Accounts)  BY <1>6, <1>7, <1>8 DEF SoundRequest
<1> QED  BY <1>2, <1>6, <1>8, <1>9, RequestSound

LEMMA ChargeStorageInTransitSound ==
  ASSUME Inv, NEW r \in Requests, ChargeStorageInTransit(r)
  PROVE  Inv'
<1>1. PICK s \in DOMAIN req[r].rows :
        /\ charged' = charged \union {s} /\ uncharged' = uncharged \ {s}
        /\ req' = [req EXCEPT ![r].rows = Restrict(req[r].rows, DOMAIN req[r].rows \ {s})]
  BY DEF ChargeStorageInTransit, Charge
<1> DEFINE S == DOMAIN req[r].rows \ {s}
           q == [req[r] EXCEPT !.rows = Restrict(req[r].rows, S)]
<1>2. /\ req[r] \in [at : Steps, rows : Tables, shipment : {"IN_TRANSIT", "DELIVERED", None}]
      /\ req[r].at = "charging" /\ SoundRequest(req[r], Accounts)
      /\ req' = [req EXCEPT ![r] = q] /\ UNCHANGED <<shipment, priced, row, gone, sequence>>
  BY <1>1 DEF ChargeStorageInTransit, sits, Inv, Typed
<1>3. req[r].rows \in Tables /\ S \in SUBSET DOMAIN req[r].rows /\ s \in Sits
  BY <1>2, RowsOfTable
<1> HIDE DEF S
<1>4. /\ Restrict(req[r].rows, S) \in Tables /\ DOMAIN Restrict(req[r].rows, S) = S
      /\ \A t \in S : Restrict(req[r].rows, S)[t] = req[r].rows[t]
  BY <1>3, PartOfTable
<1>5. /\ q \in [at : Steps, rows : Tables, shipment : {"IN_TRANSIT", "DELIVERED", None}]
      /\ q.at = "charging" /\ q.shipment = req[r].shipment
      /\ q.rows = Restrict(req[r].rows, S)
  BY <1>2, <1>4
<1> HIDE DEF q
<1>6. "charging" \in Recalculating  BY DEF Recalculating
<1>7. SoundRequest(q, Accounts)
  BY <1>2, <1>3, <1>4, <1>5, <1>6, RecalculationGoesOn
<1>8. /\ shipment' \in {"IN_TRANSIT", "DELIVERED"} /\ priced' \in BOOLEAN
      /\ charged' \subseteq Sits /\ uncharged' \subseteq Sits /\ Accounts \subseteq Accounts'
  BY <1>1, <1>2, <1>3 DEF Inv, Typed, Accounts
<1>9. \A t \in DOMAIN q.rows :
        t \in DOMAIN req[r].rows /\ q.rows[t].number = req[r].rows[t].number
  BY <1>3, <1>4, <1>5
<1> QED  BY <1>2, <1>5, <1>7, <1>8, <1>9, RowsStay

LEMMA SavePricingSound ==
  ASSUME Inv, NEW r \in Requests, SaveShipmentAndPricingInfo(r)
  PROVE  Inv'
<1>1. /\ req[r].at = "charging" /\ req' = [req EXCEPT ![r] = Idle]
      /\ shipment' = req[r].shipment /\ priced' = TRUE
      /\ UNCHANGED <<row, gone, sequence, charged, uncharged>>
  BY DEF SaveShipmentAndPricingInfo, Ends, sits
<1>2. "charging" \in ShipmentSavers  BY DEF ShipmentSavers, Recalculating
<1>3. shipment' \in {"IN_TRANSIT", "DELIVERED"}
  BY <1>1, <1>2 DEF SoundRequest, Inv
<1>4. charged' \subseteq Sits /\ uncharged' \subseteq Sits /\ Accounts \subseteq Accounts'
  BY <1>1 DEF Inv, Typed, Accounts
<1>5. priced' \in BOOLEAN  BY <1>1
<1> QED  BY <1>1, <1>3, <1>4, <1>5, IdleType, RowsStay

LEMMA RecalculationSound ==
  ASSUME Inv, NEW r \in Requests, Recalculation(r)
  PROVE  Inv'
BY RecalculateSound, SaveRecalculatedSound, DeleteBaseShipmentLineItemsSound,
   DeleteStorageInTransitLineItemsSound, FetchSITsSound, ChargeStorageInTransitSound,
   SavePricingSound
DEF Recalculation
-----------------------------------------------------------------------------
(* The specification.                                                      *)

LEMMA NextSound == Inv /\ [Next]_vars => Inv'
<1> SUFFICES ASSUME Inv, [Next]_vars PROVE Inv'  OBVIOUS
<1>1. CASE \E s \in Sits : CreateStorageInTransit(s)  BY <1>1, CreateSound
<1>2. CASE \E s \in DOMAIN row : DeleteStorageInTransit(s)  BY <1>2, DeleteSound
<1>3. CASE \E r \in Requests, s \in DOMAIN row :
             Office(r, s) \/ TSP(r, s) \/ PatchStorageInTransit(r, s)
  BY <1>3, OfficeSound, TSPSound, PatchSound
<1>4. CASE \E r \in Requests : GenerateStorageInTransitNumber(r)  BY <1>4, GenerateSound
<1>5. CASE \E r \in Requests : SaveStorageInTransit(r)  BY <1>5, SaveSound
<1>6. CASE \E r \in Requests : FetchShipment(r)  BY <1>6, FetchShipmentSound
<1>7. CASE \E r \in Requests : SaveShipment(r)  BY <1>7, SaveShipmentSound
<1>8. CASE \E r \in Requests : DeliverShipment(r)  BY <1>8, DeliverSound
<1>9. CASE \E r \in Requests : CommitDelivery(r)  BY <1>9, CommitSound
<1>10. CASE \E r \in Requests : Fail(r)  BY <1>10, FailSound
<1>11. CASE \E r \in Requests : Recalculation(r)  BY <1>11, RecalculationSound
<1>12. CASE UNCHANGED vars
  <2>1. UNCHANGED <<shipment, priced, row, gone, sequence, charged, uncharged, req>>
    BY <1>12 DEF vars, tables, sits
  <2> QED  BY <2>1 DEF Inv, Typed, Accounts
<1> QED  BY <1>1, <1>2, <1>3, <1>4, <1>5, <1>6, <1>7, <1>8, <1>9, <1>10, <1>11, <1>12
   DEF Next

LEMMA Invariance == Spec => []Inv
BY InitSound, NextSound, PTL DEF Spec

LEMMA TypedIsTypeOK == Typed => TypeOK
<1> SUFFICES ASSUME Typed PROVE TypeOK  OBVIOUS
<1>1. DOMAIN row \subseteq Sits \ gone /\ \A s \in DOMAIN row : row[s] \in Row
  BY RowsOfTable DEF Typed
<1>2. ASSUME NEW r \in Requests
      PROVE  /\ req[r].at \in Steps
             /\ req[r].shipment \in {"IN_TRANSIT", "DELIVERED", None}
             /\ DOMAIN Copies(r) \subseteq Sits
             /\ \A s \in DOMAIN Copies(r) : Copies(r)[s] \in Row
  <2>1. req[r] \in [at : Steps, rows : Tables, shipment : {"IN_TRANSIT", "DELIVERED", None}]
    BY DEF Typed
  <2>2. req[r].rows \in Tables  BY <2>1
  <2> QED  BY <2>1, <2>2, RowsOfTable DEF Copies
<1> QED  BY <1>1, <1>2 DEF Typed, TypeOK

(* The tables and the copies that requests hold are well formed: a row is  *)
(* not written back under the id of a SIT that was deleted.                *)
THEOREM StorageTypeCorrect == Spec => []TypeOK
BY Invariance, TypedIsTypeOK, PTL DEF Inv

(* PlaceIntoSITStorageInTransit saves the number, the status and the start *)
(* in one row, and no other service takes the number or the authorization  *)
(* of a SIT away: a SIT that was placed into is authorized, numbered and   *)
(* starts on the authorized day or later.                                  *)
THEOREM StoragesTakenAreNumbered == Spec => []TakenIsNumbered
<1>1. Inv => TakenIsNumbered
  BY DEF Inv, SoundRow, Authorized, Taken, TakenIsNumbered
<1> QED  BY <1>1, Invariance, PTL

LEMMA InvNumbers == Inv => NumbersDiffer
<1> SUFFICES ASSUME Inv, NEW s \in DOMAIN row, row[s].number # None
             PROVE  /\ row[s].number[2] \in 1..sequence[row[s].number[1]]
                    /\ \A t \in DOMAIN row \ {s} : row[s].number # row[t].number
  BY DEF NumbersDiffer
<1> DEFINE n == row[s].number
<1>1. s \in Sits /\ n \in Number  BY RowOfTable DEF Row
<1>2. Holds(row, req, s, n)  BY DEF Holds
<1>3. /\ n[2] \in 1..sequence[n[1]]
      /\ \A t \in Sits : Holds(row, req, t, n) => t = s
  BY <1>1, <1>2 DEF Inv, NumbersHeld
<1>4. ASSUME NEW t \in DOMAIN row, row[t].number = n PROVE t = s
  <2>1. t \in Sits /\ Holds(row, req, t, n)  BY <1>4, RowOfTable DEF Holds
  <2> QED  BY <2>1, <1>3
<1> QED  BY <1>3, <1>4

(* GenerateStorageInTransitNumber counts and returns the number in one     *)
(* statement: no two SITs have the same number, however many placements    *)
(* overlap and fail, and no number is ahead of the counter of its day.     *)
THEOREM StorageNumbersDiffer == Spec => []NumbersDiffer
BY InvNumbers, Invariance, PTL

(* DeliverShipment prices, within its transaction, the SITs it has just    *)
(* written back, and no copy that another request read before can deliver  *)
(* a SIT: a SIT that counts as delivered has its line items, unless a      *)
(* recalculation has deleted them and created none since.                  *)
THEOREM StoragesDeliveredAreCharged == Spec => []DeliveredIsCharged
<1>1. Inv => DeliveredIsCharged  BY DEF Inv, SoundRow, Accounts, DeliveredIsCharged
<1> QED  BY <1>1, Invariance, PTL
-----------------------------------------------------------------------------
(* One request at a time.  The copy a request holds is then the row but    *)
(* for the transition it is about to make; only rows that are created or   *)
(* deleted come between, and those it does not write.                      *)

(* The transitions of a row.                                               *)
Decides(old, new) ==
  /\ old.status # "DELIVERED" /\ new.status \in {"APPROVED", "DENIED"}
  /\ new.location = old.location /\ new.number = old.number

Places(old, new) ==
  old.status = "APPROVED" /\ new.status = "IN_SIT" /\ new.location = old.location

Releases(old, new) ==
  /\ old.status \in {"IN_SIT", "DELIVERED"} /\ old.location = "ORIGIN"
  /\ new.status = "RELEASED" /\ new.location = old.location /\ new.number = old.number

Patches(old, new) == new.status = old.status /\ new.number = old.number

Unused(n) == \A t \in DOMAIN row : row[t].number # n

FreshCopy(at, old, new) ==
  \/ at \in {"saving", "saving for TSP"} /\ Patches(old, new)
  \/ at = "saving" /\ (Decides(old, new) \/ Releases(old, new))
  \/ at = "saving" /\ Places(old, new) /\ Unused(new.number)
  \/ at = "numbering" /\ Places(old, new)

Fresh(q) ==
  /\ DOMAIN q.rows \subseteq DOMAIN row \union gone
  /\ q.at \in {"saving", "saving for TSP", "numbering"} =>
       \E s \in Sits : /\ DOMAIN q.rows = {s}
                       /\ s \in DOMAIN row => FreshCopy(q.at, row[s], q.rows[s])
  /\ q.at = "delivering" =>
       /\ shipment = "IN_TRANSIT"
       /\ \A s \in DOMAIN row :
            IF s \in DOMAIN q.rows THEN q.rows[s] = Delivered(row[s])
            ELSE row[s] = Delivered(row[s])
  /\ q.at \in ShipmentSavers => q.shipment = shipment

(* What Inv lacks when requests do not overlap.                            *)
SerialInv == OneAtATime /\ \A r \in Requests : Fresh(req[r])

LEMMA IdleIsFresh == Fresh(Idle)
BY NoRowsType, NotSavers DEF Fresh, Idle

(* Between two tables, both seen by the contract, one row changes.         *)
OneRowChanges(s) ==
  /\ serial /\ serial'
  /\ s \in DOMAIN row /\ DOMAIN row' = DOMAIN row /\ DOMAIN row \subseteq Sits
  /\ \A t \in DOMAIN row \ {s} : row'[t] = row[t]
  /\ row[s].status # None
  /\ UNCHANGED shipment

LEMMA DecideSeen ==
  ASSUME NEW s \in Sits, OneRowChanges(s), Decides(row[s], row'[s])
  PROVE  Contract!Decide(s)
BY DEF OneRowChanges, Decides, Seen, Contract!Decide, Contract!Becomes

LEMMA ReleaseSeen ==
  ASSUME NEW s \in Sits, OneRowChanges(s), Releases(row[s], row'[s])
  PROVE  Contract!Release(s)
BY DEF OneRowChanges, Releases, Seen, Contract!Release, Contract!Becomes

LEMMA PlaceSeen ==
  ASSUME NEW s \in Sits, OneRowChanges(s), Places(row[s], row'[s]),
         Unused(row'[s].number), row'[s].number # None
  PROVE  Contract!Place(s)
BY DEF OneRowChanges, Places, Unused, Seen, Contract!Place, Contract!Becomes

LEMMA PatchSeen ==
  ASSUME NEW s \in Sits, OneRowChanges(s), Patches(row[s], row'[s])
  PROVE  Contract!Move(s)
BY DEF OneRowChanges, Patches, Seen, Contract!Move

LEMMA NothingSeen ==
  ASSUME UNCHANGED <<row, shipment, serial>>
  PROVE  UNCHANGED Contract!contractVars
BY DEF Contract!contractVars, Seen

(* Whatever happens where nothing is seen.                                 *)
LEMMA NothingSeenUnlessSerial ==
  ASSUME ~ serial, UNCHANGED serial
  PROVE  UNCHANGED Contract!contractVars
BY DEF Contract!contractVars, Seen
-----------------------------------------------------------------------------
(* The steps of serial requests.                                           *)

StepKept == SerialInv' /\ [Contract!ContractNext]_(Contract!contractVars)

LEMMA RowsAreSits ==
  ASSUME Inv
  PROVE  /\ DOMAIN row \subseteq Sits
         /\ \A s \in DOMAIN row : row[s] \in Row /\ row[s].status # None
BY RowOfTable, NoneAssumption DEF Row

(* A request begins or goes on, and writes nothing that the contract sees. *)
LEMMA SerialQuiet ==
  ASSUME Inv, SerialInv, OneAtATime', serial, serial', UNCHANGED <<row, gone, shipment>>,
         NEW r \in Requests, NEW q, req' = [req EXCEPT ![r] = q], Fresh(q)
  PROVE  StepKept
<1>1. \A x \in Requests : req'[x] = IF x = r THEN q ELSE req[x]  BY DEF Inv, Typed
<1>2. \A x \in Requests : Fresh(req'[x])  BY <1>1 DEF SerialInv
<1>3. \A x \in Requests : Fresh(req[x])'  BY <1>2 DEF Fresh, FreshCopy, Unused
<1>4. UNCHANGED Contract!contractVars  BY NothingSeen
<1> QED  BY <1>3, <1>4 DEF SerialInv, StepKept

LEMMA SerialTask ==
  ASSUME Inv, SerialInv, OneAtATime', serial, serial', UNCHANGED tables,
         NEW r \in Requests, NEW q, req' = [req EXCEPT ![r] = q], Fresh(q)
  PROVE  StepKept
<1>1. UNCHANGED <<row, gone, shipment>>  BY DEF tables, sits
<1> QED  BY <1>1, SerialQuiet

(* A request begins to change one row.                                     *)
LEMMA SerialChange ==
  ASSUME Inv, SerialInv, OneAtATime', serial, serial',
         NEW r \in Requests, NEW s \in DOMAIN row, NEW at, NEW sit,
         FreshCopy(at, row[s], sit), Changes(r, s, at, sit)
  PROVE  StepKept
<1> DEFINE q == [Idle EXCEPT !.at = at, !.rows = [t \in {s} |-> sit]]
<1>1. req' = [req EXCEPT ![r] = q] /\ UNCHANGED tables  BY DEF Changes, Begins
<1>2. q.at = at /\ DOMAIN q.rows = {s} /\ q.rows[s] = sit  BY DEF Idle
<1> HIDE DEF q
<1>3. s \in Sits  BY RowsAreSits
<1>4. at \in {"saving", "saving for TSP", "numbering"}  BY DEF FreshCopy
<1>5. Fresh(q)  BY <1>2, <1>3, <1>4, NotSavers DEF Fresh
<1> QED  BY <1>1, <1>5, SerialTask

LEMMA SerialOffice ==
  ASSUME Inv, SerialInv, OneAtATime', serial, serial',
         NEW r \in Requests, NEW s \in DOMAIN row,
         Office(r, s) \/ TSP(r, s) \/ PatchStorageInTransit(r, s)
  PROVE  StepKept
<1>1. row[s] \in Row  BY RowsAreSits
<1>2. CASE ApproveStorageInTransit(r, s)
  <2>1. PICK d \in Days :
          Changes(r, s, "saving", [row[s] EXCEPT !.status = "APPROVED", !.authorized = d])
    BY <1>2 DEF ApproveStorageInTransit
  <2> DEFINE sit == [row[s] EXCEPT !.status = "APPROVED", !.authorized = d]
  <2>2. Decides(row[s], sit)  BY <1>1, <1>2 DEF ApproveStorageInTransit, Decides, Row
  <2>3. Changes(r, s, "saving", sit)  BY <2>1
  <2>4. FreshCopy("saving", row[s], sit)  BY <2>2 DEF FreshCopy
  <2> HIDE DEF sit
  <2> QED  BY <2>3, <2>4, SerialChange
<1>3. CASE DenyStorageInTransit(r, s)
  <2> DEFINE sit == [row[s] EXCEPT !.status = "DENIED"]
  <2>1. Decides(row[s], sit)  BY <1>1, <1>3 DEF DenyStorageInTransit, Decides, Row
  <2>2. Changes(r, s, "saving", sit)  BY <1>3 DEF DenyStorageInTransit
  <2>3. FreshCopy("saving", row[s], sit)  BY <2>1 DEF FreshCopy
  <2> HIDE DEF sit
  <2> QED  BY <2>2, <2>3, SerialChange
<1>4. CASE PlaceIntoSITStorageInTransit(r, s)
  <2>1. PICK d \in Days :
          Changes(r, s, "numbering", [row[s] EXCEPT !.status = "IN_SIT", !.start = d])
    BY <1>4 DEF PlaceIntoSITStorageInTransit
  <2> DEFINE sit == [row[s] EXCEPT !.status = "IN_SIT", !.start = d]
  <2>2. Places(row[s], sit)  BY <1>1, <1>4 DEF PlaceIntoSITStorageInTransit, Places, Row
  <2>3. Changes(r, s, "numbering", sit)  BY <2>1
  <2>4. FreshCopy("numbering", row[s], sit)  BY <2>2 DEF FreshCopy
  <2> HIDE DEF sit
  <2> QED  BY <2>3, <2>4, SerialChange
<1>5. CASE ReleaseStorageInTransit(r, s)
  <2> DEFINE sit == [row[s] EXCEPT !.status = "RELEASED"]
  <2>1. Releases(row[s], sit)  BY <1>1, <1>5 DEF ReleaseStorageInTransit, Releases, Row
  <2>2. Changes(r, s, "saving", sit)  BY <1>5 DEF ReleaseStorageInTransit
  <2>3. FreshCopy("saving", row[s], sit)  BY <2>1 DEF FreshCopy
  <2> HIDE DEF sit
  <2> QED  BY <2>2, <2>3, SerialChange
<1>6. CASE PatchStorageInTransit(r, s)
  <2>1. PICK location \in {"ORIGIN", "DESTINATION"}, start \in Days \union {None},
             at \in {"saving", "saving for TSP"} :
          Changes(r, s, at, [row[s] EXCEPT !.location = location, !.start = start])
    BY <1>6 DEF PatchStorageInTransit
  <2> DEFINE sit == [row[s] EXCEPT !.location = location, !.start = start]
  <2>2. Patches(row[s], sit)  BY <1>1 DEF Patches, Row
  <2>3. Changes(r, s, at, sit)  BY <2>1
  <2>4. FreshCopy(at, row[s], sit)  BY <2>2 DEF FreshCopy
  <2> HIDE DEF sit
  <2> QED  BY <2>3, <2>4, SerialChange
<1> QED  BY <1>2, <1>3, <1>4, <1>5, <1>6 DEF Office, TSP

(* A row comes into being; no copy is of it.                               *)
LEMMA SerialCreate ==
  ASSUME Inv, SerialInv, OneAtATime', serial, serial',
         NEW s \in Sits, CreateStorageInTransit(s)
  PROVE  StepKept
<1>1. PICK location \in {"ORIGIN", "DESTINATION"} :
        row' = [t \in DOMAIN row \union {s} |->
                 IF t = s THEN [location |-> location, status |-> "REQUESTED",
                                authorized |-> None, start |-> None, number |-> None]
                 ELSE row[t]]
  BY DEF CreateStorageInTransit
<1>2. s \notin DOMAIN row /\ s \notin gone /\ UNCHANGED <<shipment, gone, req>>
  BY DEF CreateStorageInTransit
<1>3. /\ DOMAIN row' = DOMAIN row \union {s}
      /\ \A t \in DOMAIN row : row'[t] = row[t]
      /\ row'[s].status = "REQUESTED" /\ row'[s].number = None
      /\ Delivered(row'[s]) = row'[s]
  BY <1>1, <1>2 DEF Delivered
<1>4. ASSUME NEW r \in Requests PROVE Fresh(req[r])'
  <2>1. Fresh(req[r]) /\ SoundRequest(req[r], Accounts)  BY DEF SerialInv, Inv
  <2>2. s \notin DOMAIN req[r].rows  BY <1>2, <2>1 DEF Fresh
  <2>3. ASSUME NEW u \in DOMAIN row, DOMAIN req[r].rows = {u},
               FreshCopy(req[r].at, row[u], req[r].rows[u])
        PROVE  FreshCopy(req[r].at, row[u], req[r].rows[u])'
    <3>1. req[r].at = "saving" /\ Places(row[u], req[r].rows[u]) => req[r].rows[u].number # None
      BY <2>1, <2>3 DEF Places, SoundRequest, SoundCopy, Taken
    <3> QED  BY <1>2, <1>3, <2>3, <3>1 DEF FreshCopy, Unused
  <2>4. DOMAIN req'[r].rows \subseteq DOMAIN row' \union gone'  BY <1>2, <1>3, <2>1 DEF Fresh
  <2>5. req'[r].at \in {"saving", "saving for TSP", "numbering"} =>
          \E u \in Sits : /\ DOMAIN req'[r].rows = {u}
                          /\ u \in DOMAIN row' => FreshCopy(req[r].at, row[u], req[r].rows[u])'
    BY <1>2, <1>3, <2>1, <2>2, <2>3 DEF Fresh
  <2>6. req'[r].at = "delivering" =>
          /\ shipment' = "IN_TRANSIT"
          /\ \A u \in DOMAIN row' :
               IF u \in DOMAIN req'[r].rows THEN req'[r].rows[u] = Delivered(row'[u])
               ELSE row'[u] = Delivered(row'[u])
    BY <1>2, <1>3, <2>1, <2>2 DEF Fresh
  <2> QED  BY <1>2, <2>1, <2>4, <2>5, <2>6 DEF Fresh
<1>5. Contract!Request(s)
  BY <1>2, <1>3, RowsAreSits DEF Seen, Contract!Request, Contract!Becomes
<1> QED  BY <1>4, <1>5 DEF SerialInv, StepKept, Contract!ContractNext

(* A row goes; a copy of it is not written.                                *)
LEMMA SerialDelete ==
  ASSUME Inv, SerialInv, OneAtATime', serial, serial',
         NEW s \in DOMAIN row, DeleteStorageInTransit(s)
  PROVE  StepKept
<1>1. /\ row' = [t \in DOMAIN row \ {s} |-> row[t]] /\ gone' = gone \union {s}
      /\ UNCHANGED <<shipment, req>>
  BY DEF DeleteStorageInTransit, Restrict
<1>2. DOMAIN row' = DOMAIN row \ {s} /\ \A t \in DOMAIN row' : row'[t] = row[t]
  BY <1>1
<1>3. ASSUME NEW r \in Requests PROVE Fresh(req[r])'
  <2>1. Fresh(req[r])  BY DEF SerialInv
  <2>2. ASSUME NEW u \in DOMAIN row', FreshCopy(req[r].at, row[u], req[r].rows[u])
        PROVE  FreshCopy(req[r].at, row[u], req[r].rows[u])'
    BY <1>1, <1>2, <2>2 DEF FreshCopy, Unused
  <2> QED  BY <1>1, <1>2, <2>1, <2>2 DEF Fresh
<1>4. Contract!Remove(s)
  BY <1>1, <1>2, RowsAreSits DEF Seen, Contract!Remove, Contract!Becomes
<1>5. s \in Sits  BY RowsAreSits
<1> QED  BY <1>3, <1>4, <1>5 DEF SerialInv, StepKept, Contract!ContractNext

LEMMA SerialGenerate ==
  ASSUME Inv, SerialInv, OneAtATime', serial, serial',
         NEW r \in Requests, GenerateStorageInTransitNumber(r)
  PROVE  StepKept
<1>1. PICK s \in DOMAIN req[r].rows :
        LET d == req[r].rows[s].start
            n == sequence[d] + 1
        IN  req' = [req EXCEPT ![r].at = "saving", ![r].rows[s].number = <<d, n>>]
  BY DEF GenerateStorageInTransitNumber
<1> DEFINE rows == req[r].rows
           d == rows[s].start
           new == <<d, sequence[d] + 1>>
           sit == [rows[s] EXCEPT !.number = new]
           q == [req[r] EXCEPT !.at = "saving", !.rows = [rows EXCEPT ![s] = sit]]
<1>2. /\ req[r] \in [at : Steps, rows : Tables, shipment : {"IN_TRANSIT", "DELIVERED", None}]
      /\ req[r].at = "numbering" /\ SoundRequest(req[r], Accounts) /\ Fresh(req[r])
  BY DEF GenerateStorageInTransitNumber, Inv, Typed, SerialInv
<1>3. DOMAIN rows = {s} /\ s \in Sits /\ rows[s] \in Row /\ d \in Days
  BY <1>2, RowsOfTable DEF SoundRequest, SoundCopy
<1>4. sequence[d] \in Nat  BY <1>3 DEF Inv, Typed
<1>5. req' = [req EXCEPT ![r] = q] /\ UNCHANGED <<row, gone, shipment>>
  BY <1>1, <1>2, <1>3 DEF GenerateStorageInTransitNumber, sits
<1>6. Unused(new)
  <2>1. ASSUME NEW t \in DOMAIN row, row[t].number = new PROVE FALSE
    <3>1. new # None /\ new[1] = d /\ new[2] = sequence[d] + 1
      BY <1>3, <1>4, StorageAssumption
    <3>2. new[2] \in 1..sequence[new[1]]  BY <2>1, <3>1, InvNumbers DEF NumbersDiffer
    <3> QED  BY <1>4, <3>1, <3>2
  <2> QED  BY <2>1 DEF Unused
<1>7. sit.number = new /\ sit.status = rows[s].status /\ sit.location = rows[s].location
  BY <1>3 DEF Row
<1> HIDE DEF sit, new
<1>8. q.at = "saving" /\ DOMAIN q.rows = {s} /\ q.rows[s] = sit
  BY <1>2, <1>3
<1> HIDE DEF q
<1>9. s \in DOMAIN row => FreshCopy("saving", row[s], sit)
  BY <1>2, <1>3, <1>6, <1>7 DEF Fresh, FreshCopy, Places
<1>10. Fresh(q)  BY <1>2, <1>3, <1>8, <1>9, NotSavers DEF Fresh
<1>11. \A x \in Requests : Fresh(req'[x])
  BY <1>5, <1>10 DEF SerialInv, Inv, Typed
<1>12. \A x \in Requests : Fresh(req[x])'  BY <1>5, <1>11 DEF Fresh, FreshCopy, Unused
<1>13. UNCHANGED Contract!contractVars  BY <1>5, NothingSeen
<1> QED  BY <1>12, <1>13 DEF SerialInv, StepKept

(* The request is the only one, and when it ends there is none.            *)
LEMMA OthersIdle ==
  ASSUME Inv, SerialInv, NEW r \in Requests, req[r].at # "idle"
  PROVE  \A x \in Requests \ {r} : req[x] = Idle
BY DEF SerialInv, OneAtATime, Busy, Idle

LEMMA SerialEnd ==
  ASSUME Inv, SerialInv, NEW r \in Requests, req[r].at # "idle", NEW q,
         req' = [req EXCEPT ![r] = q], DOMAIN q.rows \subseteq DOMAIN row' \union gone',
         q.at \notin {"saving", "saving for TSP", "numbering", "delivering"}, q.at \notin ShipmentSavers
  PROVE  \A x \in Requests : Fresh(req[x])'
<1>1. \A x \in Requests : req'[x] = IF x = r THEN q ELSE Idle
  BY OthersIdle DEF Inv, Typed
<1>2. Idle.at = "idle" /\ DOMAIN Idle.rows = {}  BY NoRowsType DEF Idle
<1> QED  BY <1>1, <1>2, NotSavers DEF Fresh

LEMMA SerialSave ==
  ASSUME Inv, SerialInv, OneAtATime', serial, serial',
         NEW r \in Requests, SaveStorageInTransit(r)
  PROVE  StepKept
<1> DEFINE rows == req[r].rows
           q == IF req[r].at = "saving" THEN Idle
                ELSE [req[r] EXCEPT !.at = "fetching shipment"]
<1>1. /\ req[r].at \in {"saving", "saving for TSP"}
      /\ row' = Updated(row, rows)
      /\ req' = [req EXCEPT ![r] = q]
      /\ UNCHANGED <<shipment, gone>>
  BY DEF SaveStorageInTransit, Ends, Continues, Inv, Typed
<1>2. /\ req[r] \in [at : Steps, rows : Tables, shipment : {"IN_TRANSIT", "DELIVERED", None}]
      /\ row \in Tables /\ rows \in Tables /\ Fresh(req[r]) /\ SoundRequest(req[r], Accounts)
  BY DEF Inv, Typed, SerialInv
<1>3. /\ DOMAIN row' = DOMAIN row
      /\ \A s \in DOMAIN row : row'[s] = IF s \in DOMAIN rows THEN rows[s] ELSE row[s]
  <2> HIDE DEF rows
  <2>1. row \in Tables /\ rows \in Tables  BY <1>2
  <2>2. row' = Updated(row, rows)  BY <1>1
  <2> QED  BY <2>1, <2>2, UpdatedType
<1>4. /\ q.at \in {"idle", "fetching shipment"}
      /\ DOMAIN q.rows \subseteq DOMAIN row' \union gone'
  <2>1. CASE req[r].at = "saving"  BY <2>1, NoRowsType DEF Idle
  <2>2. CASE req[r].at = "saving for TSP"  BY <1>1, <1>2, <1>3, <2>2 DEF Fresh
  <2> QED  BY <1>1, <2>1, <2>2
<1> HIDE DEF q
<1>5. \A x \in Requests : Fresh(req[x])'  BY <1>1, <1>4, NotSavers, SerialEnd
<1>6. PICK s \in Sits : DOMAIN rows = {s} /\ (s \in DOMAIN row => FreshCopy(req[r].at, row[s], rows[s]))
  BY <1>1, <1>2 DEF Fresh
<1>7. CASE s \notin DOMAIN row
  <2>1. row' = row  BY <1>1, <1>2, <1>6, <1>7 DEF Updated, Tables
  <2>2. UNCHANGED Contract!contractVars  BY <1>1, <2>1, NothingSeen
  <2> QED  BY <1>5, <2>2 DEF SerialInv, StepKept
<1>8. CASE s \in DOMAIN row
  <2>1. OneRowChanges(s) /\ row'[s] = rows[s]
    BY <1>1, <1>3, <1>6, <1>8, RowsAreSits DEF OneRowChanges
  <2>2. FreshCopy(req[r].at, row[s], row'[s])  BY <1>6, <1>8, <2>1
  <2>3. row'[s].status = "IN_SIT" => row'[s].number # None
    BY <1>1, <1>2, <1>6, <2>1 DEF SoundRequest, SoundCopy, Taken
  <2>4. Contract!Decide(s) \/ Contract!Place(s) \/ Contract!Release(s) \/ Contract!Move(s)
    BY <1>1, <2>1, <2>2, <2>3, DecideSeen, ReleaseSeen, PlaceSeen, PatchSeen
    DEF FreshCopy, Places
  <2> QED  BY <1>5, <2>4 DEF SerialInv, StepKept, Contract!ContractNext
<1> QED  BY <1>7, <1>8

(* The delivery ends the storages at the destination, all at once.         *)
LEMMA SerialCommit ==
  ASSUME Inv, SerialInv, OneAtATime', serial, serial',
         NEW r \in Requests, CommitDelivery(r)
  PROVE  StepKept
<1> DEFINE rows == req[r].rows
<1>1. /\ req[r].at = "delivering" /\ shipment' = "DELIVERED"
      /\ row' = Updated(row, rows)
      /\ req' = [req EXCEPT ![r] = Idle] /\ UNCHANGED gone
  BY DEF CommitDelivery, Ends
<1>2. row \in Tables /\ rows \in Tables /\ Fresh(req[r])
  BY DEF Inv, Typed, SerialInv
<1>3. /\ DOMAIN row' = DOMAIN row
      /\ \A s \in DOMAIN row : row'[s] = IF s \in DOMAIN rows THEN rows[s] ELSE row[s]
  <2> HIDE DEF rows
  <2>1. row \in Tables /\ rows \in Tables  BY <1>2
  <2>2. row' = Updated(row, rows)  BY <1>1
  <2> QED  BY <2>1, <2>2, UpdatedType
<1>4. shipment = "IN_TRANSIT" /\ \A s \in DOMAIN row : row'[s] = Delivered(row[s])
  BY <1>1, <1>2, <1>3 DEF Fresh
<1>5. \A s \in DOMAIN row :
        /\ row'[s].status = IF row[s].status = "IN_SIT" /\ row[s].location = "DESTINATION"
                            THEN "DELIVERED" ELSE row[s].status
        /\ row'[s].location = row[s].location
        /\ row'[s].number = row[s].number
  BY <1>4, RowsAreSits DEF Delivered, Row
<1>6. Contract!Deliver
  BY <1>1, <1>3, <1>4, <1>5 DEF Seen, Contract!Deliver
<1>7. \A x \in Requests : Fresh(req[x])'
  <2>1. Idle.at = "idle" /\ DOMAIN Idle.rows = {}  BY NoRowsType DEF Idle
  <2> QED  BY <1>1, <2>1, NotSavers, SerialEnd
<1> QED  BY <1>6, <1>7 DEF SerialInv, StepKept, Contract!ContractNext

LEMMA SerialRequest ==
  ASSUME Inv, SerialInv, OneAtATime', serial, serial', NEW r \in Requests,
         FetchShipment(r) \/ SaveShipment(r) \/ DeliverShipment(r) \/ Fail(r)
  PROVE  StepKept
<1>1. CASE FetchShipment(r)
  <2> DEFINE q == [Idle EXCEPT !.at = "saving shipment", !.shipment = shipment]
  <2>1. Fresh(q)  BY NoRowsType DEF Fresh, Idle
  <2> QED  BY <1>1, <2>1, SerialTask DEF FetchShipment
<1>2. CASE SaveShipment(r)
  <2>1. /\ req[r].at = "saving shipment" /\ req' = [req EXCEPT ![r] = Idle]
        /\ shipment' = req[r].shipment /\ UNCHANGED <<row, gone>>
    BY <1>2 DEF SaveShipment, Ends, sits
  <2>2. shipment' = shipment  BY <2>1 DEF SerialInv, Fresh, ShipmentSavers
  <2>3. UNCHANGED Contract!contractVars  BY <2>1, <2>2, NothingSeen
  <2>4. Idle.at = "idle" /\ DOMAIN Idle.rows = {}  BY NoRowsType DEF Idle
  <2>5. \A x \in Requests : Fresh(req[x])'  BY <2>1, <2>4, NotSavers, SerialEnd
  <2> QED  BY <2>3, <2>5 DEF SerialInv, StepKept
<1>3. CASE DeliverShipment(r)
  <2> DEFINE rows == [s \in DOMAIN row |-> Delivered(row[s])]
             q == [Idle EXCEPT !.at = "delivering", !.rows = rows]
  <2>1. shipment = "IN_TRANSIT" /\ req' = [req EXCEPT ![r] = q] /\ UNCHANGED tables
    BY <1>3 DEF DeliverShipment, Begins
  <2>2. q.at = "delivering" /\ q.rows = rows  BY DEF Idle
  <2>3. Fresh(q)  BY <2>1, <2>2, NotSavers DEF Fresh
  <2> HIDE DEF q
  <2> QED  BY <2>1, <2>3, SerialTask
<1>4. CASE Fail(r)
  BY <1>4, IdleIsFresh, SerialTask DEF Fail, Ends
<1> QED  BY <1>1, <1>2, <1>3, <1>4

(* A recalculation goes on, and the shipment it saves is as it is.         *)
LEMMA SerialGoesOn ==
  ASSUME Inv, SerialInv, OneAtATime', serial, serial', NEW r \in Requests,
         req[r].at \in Recalculating, NEW at \in Recalculating,
         NEW rows, DOMAIN rows \subseteq DOMAIN row \union gone,
         req' = [req EXCEPT ![r] = [req[r] EXCEPT !.at = at, !.rows = rows]],
         UNCHANGED <<row, gone>>, shipment' \in {shipment, req[r].shipment}
  PROVE  StepKept
<1> DEFINE q == [req[r] EXCEPT !.at = at, !.rows = rows]
<1>1. /\ req[r] \in [at : Steps, rows : Tables, shipment : {"IN_TRANSIT", "DELIVERED", None}]
      /\ Fresh(req[r])
  BY DEF Inv, Typed, SerialInv
<1>2. req[r].shipment = shipment  BY <1>1 DEF Fresh, ShipmentSavers
<1>3. q.at = at /\ q.rows = rows /\ q.shipment = req[r].shipment  BY <1>1
<1>4. req' = [req EXCEPT ![r] = q]  OBVIOUS
<1> HIDE DEF q
<1>5. Fresh(q)  BY <1>2, <1>3 DEF Fresh, Recalculating
<1>6. UNCHANGED <<row, gone, shipment>>  BY <1>2
<1> QED  BY <1>4, <1>5, <1>6, SerialQuiet

LEMMA SerialRecalculation ==
  ASSUME Inv, SerialInv, OneAtATime', serial, serial', NEW r \in Requests, Recalculation(r)
  PROVE  StepKept
<1>1. CASE Recalculate(r)
  <2> DEFINE q == [Idle EXCEPT !.at = "recalculating", !.shipment = shipment]
  <2>1. q.at = "recalculating" /\ q.shipment = shipment /\ DOMAIN q.rows = {}
    BY NoRowsType DEF Idle
  <2>2. req' = [req EXCEPT ![r] = q] /\ UNCHANGED tables  BY <1>1 DEF Recalculate
  <2> HIDE DEF q
  <2>3. Fresh(q)  BY <2>1 DEF Fresh
  <2> QED  BY <2>2, <2>3, SerialTask
<1>2. CASE SaveRecalculated(r) \/ DeleteBaseShipmentLineItems(r)
           \/ DeleteStorageInTransitLineItems(r)
  <2>1. PICK at \in Recalculating :
          req[r].at \in Recalculating /\ req' = [req EXCEPT ![r].at = at]
    BY <1>2
    DEF SaveRecalculated, DeleteBaseShipmentLineItems, DeleteStorageInTransitLineItems,
        Continues, Recalculating
  <2>2. UNCHANGED <<row, gone>> /\ shipment' \in {shipment, req[r].shipment}
    BY <1>2
    DEF SaveRecalculated, DeleteBaseShipmentLineItems, DeleteStorageInTransitLineItems, sits
  <2>3. req' = [req EXCEPT ![r] = [req[r] EXCEPT !.at = at, !.rows = req[r].rows]]
    BY <2>1 DEF Inv, Typed
  <2>4. DOMAIN req[r].rows \subseteq DOMAIN row \union gone  BY DEF SerialInv, Fresh
  <2> QED  BY <2>1, <2>2, <2>3, <2>4, SerialGoesOn
<1>3. CASE FetchStorageInTransitsOnShipment(r)
  <2> DEFINE S == CreateStorageInTransitLineItems(row)
  <2>1. /\ req[r].at = "listing"
        /\ req' = [req EXCEPT ![r] = [req[r] EXCEPT !.at = "charging", !.rows = Restrict(row, S)]]
        /\ UNCHANGED <<row, gone, shipment>>
    BY <1>3 DEF FetchStorageInTransitsOnShipment, tables, sits, Inv, Typed
  <2>2. DOMAIN Restrict(row, S) \subseteq DOMAIN row
    BY DEF CreateStorageInTransitLineItems, Restrict
  <2>3. "listing" \in Recalculating /\ "charging" \in Recalculating  BY DEF Recalculating
  <2> QED  BY <2>1, <2>2, <2>3, SerialGoesOn
<1>4. CASE ChargeStorageInTransit(r)
  <2>1. PICK s \in DOMAIN req[r].rows :
          req' = [req EXCEPT ![r].rows = Restrict(req[r].rows, DOMAIN req[r].rows \ {s})]
    BY <1>4 DEF ChargeStorageInTransit
  <2> DEFINE rows == Restrict(req[r].rows, DOMAIN req[r].rows \ {s})
  <2>2. /\ req[r].at = "charging"
        /\ req' = [req EXCEPT ![r] = [req[r] EXCEPT !.at = "charging", !.rows = rows]]
        /\ UNCHANGED <<row, gone, shipment>>
    BY <1>4, <2>1 DEF ChargeStorageInTransit, sits, Inv, Typed
  <2>3. DOMAIN rows \subseteq DOMAIN row \union gone  BY DEF Restrict, SerialInv, Fresh
  <2>4. "charging" \in Recalculating  BY DEF Recalculating
  <2> HIDE DEF rows
  <2> QED  BY <2>2, <2>3, <2>4, SerialGoesOn
<1>5. CASE SaveShipmentAndPricingInfo(r)
  <2>1. /\ req[r].at = "charging" /\ req' = [req EXCEPT ![r] = Idle]
        /\ shipment' = req[r].shipment /\ UNCHANGED <<row, gone>>
    BY <1>5 DEF SaveShipmentAndPricingInfo, Ends, sits
  <2>2. shipment' = shipment  BY <2>1 DEF SerialInv, Fresh, ShipmentSavers, Recalculating
  <2> QED  BY <2>1, <2>2, IdleIsFresh, SerialQuiet
<1> QED  BY <1>1, <1>2, <1>3, <1>4, <1>5 DEF Recalculation

(* A step of a behaviour whose requests do not overlap, or of any other.   *)
LEMMA SerialStep ==
  ASSUME Inv, serial => SerialInv, [UnboundedNext]_<<vars, serial>>
  PROVE  /\ serial' => SerialInv'
         /\ [Contract!ContractNext]_(Contract!contractVars)
<1>1. CASE UNCHANGED <<vars, serial>>
  <2>1. UNCHANGED <<row, gone, shipment, req, serial>>  BY <1>1 DEF vars, tables, sits
  <2>2. UNCHANGED Contract!contractVars  BY <2>1, NothingSeen
  <2> QED  BY <2>1, <2>2 DEF SerialInv, OneAtATime, Busy, Fresh, FreshCopy, Unused
<1>2. CASE UnboundedNext
  <2>1. Next /\ serial' = serial /\ (serial => OneAtATime')
    BY <1>2 DEF UnboundedNext
  <2>2. CASE ~ serial  BY <2>1, <2>2, NothingSeenUnlessSerial
  <2>3. CASE serial
    <3>1. StepKept
      BY <2>1, <2>3, SerialOffice, SerialCreate, SerialDelete, SerialGenerate, SerialSave,
         SerialCommit, SerialRequest, SerialRecalculation
      DEF Next
    <3> QED  BY <3>1 DEF StepKept
  <2> QED  BY <2>2, <2>3
<1> QED  BY <1>1, <1>2

LEMMA SerialInit == UnboundedInit => (serial => SerialInv) /\ Contract!ContractInit
<1> SUFFICES ASSUME UnboundedInit PROVE SerialInv /\ Contract!ContractInit  OBVIOUS
<1>1. DOMAIN row = {} /\ shipment = "IN_TRANSIT" /\ \A r \in Requests : req[r] = Idle
  BY NoRowsType DEF UnboundedInit, Init
<1>2. SerialInv  BY <1>1, IdleIsFresh DEF SerialInv, OneAtATime, Busy
<1>3. Contract!ContractInit  BY <1>1 DEF Contract!ContractInit, Seen
<1> QED  BY <1>2, <1>3

(* Requests that come one after the other keep the contract of a storage:  *)
(* it is decided on, placed into under a number never given, released and  *)
(* delivered in the order the services check, and the delivery of the      *)
(* shipment ends all the storages at the destination together, although    *)
(* the delivery reads them in one transaction and writes them in another.  *)
THEOREM SerialRequestsKeepTheStorages == UnboundedSpec => KeepsTheStorages
<1>1. UnboundedInit => Inv /\ (serial => SerialInv) /\ Contract!ContractInit
  BY SerialInit, InitSound DEF UnboundedInit
<1>2. Inv /\ [UnboundedNext]_<<vars, serial>> => Inv'
  BY NextSound DEF UnboundedNext, vars
<1>3. Inv /\ (serial => SerialInv) /\ [UnboundedNext]_<<vars, serial>> =>
        (serial => SerialInv)' /\ [Contract!ContractNext]_(Contract!contractVars)
  BY SerialStep
<1> QED  BY <1>1, <1>2, <1>3, PTL DEF UnboundedSpec, KeepsTheStorages, Contract!ContractSpec

(* The bounds TLC needs leave out behaviours and add none.                 *)
LEMMA BoundsOnlyRestrict == MCSpec => UnboundedSpec
<1>1. MCInit => UnboundedInit  BY DEF MCInit
<1>2. [MCNext]_<<vars, serial, oneDay, begun>> => [UnboundedNext]_<<vars, serial>>
  BY DEF MCNext
<1> QED  BY <1>1, <1>2, PTL DEF MCSpec, UnboundedSpec
=============================================================================
