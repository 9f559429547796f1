# A TLA+ model of the MilMove back end

MilMove (`pkg/`, `cmd/`) lets members of the armed forces arrange a move of
their household goods. A service member submits a move; the *award queue* gives
its shipment to a transportation service provider (TSP); the TSP accepts,
surveys, picks up and delivers it; an office user approves, prices and invoices
it. The back end is a Go server over PostgreSQL: a request is a goroutine, all
state that lasts is in the database, several servers and a batch program write
it at once.

The hard part of this system is not any one request but what happens between
its statements. Almost every handler **reads a row, checks and changes it in
memory, and then writes all of its columns back**. Transactions run at READ
COMMITTED, reads take no locks, no version is compared on writing. The award
queue takes an advisory lock, and the claim of an access code locks its row; they are
the exceptions. The models are about what holds all the same, and about what
does not.

## Modules

| module | models | proofs |
|---|---|---|
| `QualityBands` | the arithmetic of the award queue: sizes of the bands, choice of the next band | in `AwardQueue_proofs` |
| `OfferBook` | abstract: what the award queue promises the rest of the system | |
| `AwardQueue` | `pkg/awardqueue`, and the queries it makes | `AwardQueue_proofs` |
| `ShipmentContract` | abstract: the state machine of a shipment | |
| `ShipmentLifecycle` | the handlers that write a shipment, as overlapping requests | `ShipmentLifecycle_proofs` |
| `InvoiceContract` | abstract: what billing promises about an invoice | |
| `Billing` | line items, pricing, recalculation and invoices of a shipment, as overlapping requests | `Billing_proofs` |
| `StorageContract` | abstract: the state machine of a storage in transit | |
| `StorageInTransit` | the storages of a shipment and their numbers, as overlapping requests | `StorageInTransit_proofs` |
| `MoveContract` | abstract: the statuses of a move, its orders, PPMs and advances together | |
| `MoveLifecycle` | the handlers that write a move, its PPMs, advances and documents, as overlapping requests | `MoveLifecycle_proofs` |
| `FuelPrices` | the task that keeps the table of fuel prices, and the lookup in it | `FuelPrices_proofs` |
| `Accounts` | signing in, the session in the cookie, service members, access codes | `Accounts_proofs` |
| `RateEngine` | the amounts of a PPM and of a shipment, as operators over any tariff | `RateEngine_proofs` |

The modules that begin with `MC` give the constants their values for TLC, and
some of them bound the behaviours. The abstract modules and the detailed ones are
composed by `INSTANCE ... WITH`: `AwardQueue` with `OfferBook`, `ShipmentLifecycle`
with `ShipmentContract`, `Billing` with `InvoiceContract`, `StorageInTransit` with
`StorageContract`, `MoveLifecycle` with `MoveContract`. Definitions that begin with
"Faulty:" are variants of the definition after them, with an error the property they
are used for must notice; they are part of no specification.

## Inventory

### Award queue

*State*: `transportation_service_provider_performances` (a row, "TSPP", per TSP,
traffic distribution list and rate cycle, with quality band and offer count),
`shipment_offers`, `shipments.status`, the advisory lock.
*Operations*: `AwardQueue.Run`: take the lock, band every group that has an
unbanded TSPP, list the unoffered shipments, offer each to one TSP after another
(an *administrative* offer where the TSP has a blackout) until one takes it or
the first comes round again; commit. *Started by* the submission of a move (a
goroutine) and by `bin/tsp-award-queue`.
*Hard*: overlapping runs; a run that fails half-way; enrolments, blackouts and
pickup dates that change while a run works on what it has read; loops whose end
depends on the offer counts left by earlier runs.
*Correct when*: a shipment is given away once; statuses, offers and counts
agree; offers go round evenly; runs end; what can be awarded is awarded.

### Shipments and their offers

*State*: the row of `shipments`, its `shipment_offers`, base line items, bill of
lading, GBL number tracker.
*Operations*: submit (with the move), award, accept, approve, transport, deliver
and price, patch (member, office and TSP), pre-move survey, touch (after a change
of the orders), create the bill of lading.
*Hard*: every pair of them may overlap; a late write takes back what was done
since its read; delivery writes several tables; the acceptance of an offer writes
two.
*Correct when*: the status only moves along the state machine, and each
transition brings with it what belongs to it: GBL number, accepted TSP, line
items.

### Moves, orders, PPMs, reimbursements

*State*: `moves.status` (DRAFT, SUBMITTED, APPROVED, CANCELED), `orders.status`,
the status of a personally procured move (DRAFT to COMPLETED or CANCELED) and of
its advance (`reimbursements`: DRAFT, REQUESTED, APPROVED, REJECTED, PAID).
*Operations*: submit, approve, cancel, request payment, complete, review the
advance, patch. Canceling a move cancels its PPMs and orders and leaves its
shipments alone. *Hard*: several state machines that must move together, saved
one after the other; stale writes.
*Correct when*: without overlap, the statuses change together; with overlap, each
row agrees with itself, and a PPM is completed only by a shipment summary of its
own that is saved OK.

### Pricing, line items and invoices

*State*: `shipment_line_items` (SUBMITTED, CONDITIONALLY_APPROVED, APPROVED;
price; invoice), `invoices` (DRAFT, IN_PROCESS, SUBMITTED, SUBMISSION_FAILURE,
UPDATE_FAILURE), `invoice_number_trackers`.
*Operations*: price on delivery; recalculate (delete and create again, started by
a GET); add, update, approve and delete accessorials; create an invoice, send it
to GEX over HTTP with a time limit, record the outcome, store the document.
*Hard*: check-then-act between the two tables; an answer of GEX that is lost; a
restart between deletion and creation, or between sending and recording.
*Correct when*: a shipment is never billed twice, a line item is bound to an
invoice only if it was on its bill, the base line items are there once each, an
approved line item of a delivered shipment has a price.

### Storage in transit

*State*: `storage_in_transits` (REQUESTED, APPROVED, DENIED, IN_SIT, RELEASED,
DELIVERED), a number tracker per day. *Operations*: create, approve, deny, place,
release, deliver (with the shipment), patch, delete; a recalculation deletes their
line items and creates them again. *Hard*: transitions that are
allowed from nearly every status; a patch that writes the shipment as well.
*Correct when*: a storage that the shipment was put in is authorized and has a
number of its own; one that is delivered is charged, and only a recalculation may
take the charge away.

### Fuel prices

*State*: `fuel_eia_diesel_prices`, a row per month, valid from the 15th to the
14th. *Operations*: find the months of the last year without a row, ask the EIA,
save them; the rate engine looks a book date up. *Started by* the scheduled task
`save-fuel-price-data`. *Hard*: calendar arithmetic at the ends of months; a run
that sees midnight; runs that overlap or stop half-way.
*Correct when*: every book date the engine may ask for has exactly one rate.

### Accounts

*State*: `users`, the records of office, TSP and admin users (found by e-mail and
linked on the way), `service_members`, `access_codes`; the cookies of a browser,
which hold the whole session. *Operations*: sign in by way of login.gov, sign
out, create a service member, claim a code. *Hard*: statements of a sign-in that
fail one by one; responses that arrive late and carry an old session; two tabs.
*Correct when*: a session names only what is in the database; a claimed code
stays with its claimant.

### Rate engine

No state. *Operations*: the charges of the tariff, discounts, rounding, prorating
below 1000 pounds, storage. *Hard*: amounts that are rounded apart must still
add up, and stay below the maximum that was promised.

### Everything else

Uploads, electronic orders, the calendar of move dates, the route planner,
notifications, paperwork, EDI, external clients, queues of the office, command
line tools and the React front end are listed in `PROJECT.json` with the reason
why they are not modelled. Mostly they have no state of their own, or are
formatting or calls of external services.

## AwardQueue

### Correspondence

| model | code |
|---|---|
| `shipment`, `perf`, `offers`, `enrolled` | committed rows; band 0 is NULL |
| `lock` | `pg_advisory_xact_lock(awardQueueLockID)` |
| `txPerf`, `txOffers`, `txAwarded` | what the open transaction of a run has written |
| `groups`, `listed`, `attempt` | the local variables of its loops |
| `SubmitMove`, `PatchShipment`, `ChangeEnrolment` | the world outside the runs |
| `StartRun`, `AcquireLock`, `AssignBands`, `ListShipments`, `BeginAttempt`, `GiveUp`, `OfferAdministrative`, `OfferForReal`, `Commit` | the statements of a run, in order |
| `Rollback` | an error of the database (it fails every later statement of the transaction), or the end of the process |

A run sees committed rows and its own writes (READ COMMITTED). Queries with
ORDER BY return any of the rows that may come first; queries without return the
rows in any order. `ShipmentWithinBlackoutDates` compares the *actual* pickup
date, as the code does, and a shipment without one is never within a blackout.

Left out: the performance period (a shipment is booked on the day it is
submitted, within the current period), and the two clients of `GetShipments`
that only read. A PATCH is one step; that a PATCH may write an older status back
is the subject of `ShipmentLifecycle`, and `AwardedIffOffered` would not survive
it. `OffersPerQualityBand` is a constant of the model, since the code keeps it in
a table; it is 1 for every band there.

### Runs

| run | instance | result |
|---|---|---|
| `AwardQueue_safety` | 2 runs overlapping, 2 TSPs whose enrolment may change, pickup dates patched in between, one rollback | holds |
| `AwardQueue_fair` | one run at a time, 3 shipments, 5 TSPs in one group and one in another, 3 days with and without blackouts | holds |
| `AwardQueue_live` | 2 runs overlapping, 2 shipments, 3 TSPs in two groups, in one of which all have a blackout on the day, fixed enrolments, one rollback, fairness | holds |

*Bounds.* `MaxOffers` bounds the rows of `shipment_offers` (8 or 16: more than
the offers that all shipments of the instance can cause, so nothing is cut off
but repetitions). `MaxRollbacks` bounds failing runs: after one, the tables are
as before and nothing new can happen but another. Two runs are enough to overlap,
and the lock is symmetric in the others. Five TSPs in a group are one more than
there are bands, so that bands have different sizes.

*Why the fair run fixes the enrolments.* Balance among the TSPs, "all were tried"
and "nobody is offered a shipment twice" are consequences of offer counts that
never differ by more than one within a group. A TSP that is enrolled again brings
an old count with it: the loop comes back to the first TSP before it has tried the
others (`pkg/awardqueue/awardqueue.go:90`) and gives the shipment up. `BandOneLeads`
fails then as well, against the premise of the comment at
`pkg/models/transportation_service_provider_performance.go:172`. In
`AwardQueue_safety` enrolments do change; its invariants do not depend on the
counts. Scores are distinct in the fair run because ties are broken anew by each
query.

*Why the live run fixes them.* With fixed enrolments an attempt ends because it meets
a TSP that can take the shipment, or because the first one comes round again
(`BackAtFirst`, `GiveUp`); the shipment of the group whose TSPs are all within a
blackout takes the second way in every run. `EveryRunEnds` is claimed for that case
only. Where enrolments change the code does not keep it: if the first TSP is
un-enrolled while `attemptShipmentOffer` loops and the others all have a blackout,
`firstTSPid` never comes round (`pkg/awardqueue/awardqueue.go:86-144`), and the run goes
on making administrative offers, with the lock in its hands, until somebody enrols
again or the blackouts are lifted. `AwardQueue` has these steps; `MaxOffers` cuts them
off in `AwardQueue_safety`, which claims no liveness.

*Blackouts.* The comparison with the actual pickup date means that a shipment
which is merely requested for a day is offered for real within a blackout of that
day. The model does it too, so that no property speaks of blackouts kept.

*The lowest score.* `mps` is called the lowest score a TSP can have and still be
assigned shipments, but the query asks for a score above it: `Bandable` has the
code's strict comparison, and a TSPP with that score never gets a band.

*Fairness.* `WF` of the steps of a run: a goroutine that is not blocked goes on.
`SF` of taking the lock: PostgreSQL queues the waiters. `WF` of starting runs:
the README of the repository says that `bin/tsp-award-queue` is run as a
background job. Rollbacks are not fair, and finitely many.

### Proofs

`AwardQueue_proofs` proves, for any sets of shipments, TSPPs and runs and any
bounds:

* `TypeCorrect`, `AtMostOneRealOffer`, `StatusAgreesWithOffers`,
  `NoLostOfferCount`: the four invariants of `AwardQueue_safety`;
* `AwardQueueKeepsTheBook`: `Spec` implements `OfferBook`; commit is the batch,
  submission is submission, everything else stutters;
* `LoopsFillTheBands`: the nested loops of
  `assignPerformanceBandsForTSPPerformanceGroup` give every rank one band.

The invariants are not inductive by themselves, because the work of a run is
outside the tables until it commits. `Inv` adds: only the holder of the lock is
past waiting (`HolderWorks`); a run has written nothing before it has listed
(`NothingBeforeListing`); what is on its list is still SUBMITTED and offered to
nobody in the tables *and* in the transaction (`ListedIsCurrent`); its new
offers are for shipments that the tables do not offer (`NewOffersAreFirst`); and
the same statements as the invariants within the transaction (`AwardedInRun`,
`OneRealOfferInRun`). Commit then carries them over. For the offer counts,
`RunCountIsLedger` says that `txPerf` counts the rows of both tables.

Assumed: `AwardQueueAssumption` (types of the constants, finitely many TSPPs) and
`OffersPerQualityBandAssumption` (positive numbers).

The six invariants of `AwardQueue_fair` are proved under a hypothesis that the
theorems name, for any number of runs that overlap and fail:

* `BetterScoresBetterBands` and `BandsHaveTheirSizes` where `Volatile` is empty, that
  is, where enrolments do not change. Every group is banded as a whole
  (`Arrangement`): a run finds all of its TSPPs or none of them banded, and
  `RanksFillTheBands` counts those that the loops put into a band, whatever the order
  of equal scores.
* `AllAreTriedBeforeGivingUp`, `OffersAreNotRepeated`, `OffersAreBalanced` and
  `BandOneIsAhead` where `SteadyMarket` holds: besides, `OffersPerQualityBand` is 1 for
  every band, as in the code, the scores of a group differ, and the groups of a list
  share no day, as its rate cycles do not. The instance of `AwardQueue_fair` is one.

The second argument is that offers go round in the order of the scores, although the
code has four bands with a queue each and compares quotients to choose the band. In
the tables and in every open transaction a better score has as many offers or one
more (`OffersInOrder`). Then `SelectNextTSPPerformance` picks the first of the bands
with the fewest offers (`SelectsTheFewest`), the query in that band the best score
with the fewest (`NextHasItsTurn`), and an offer to it hands the turn to the next
lower score of the group, or from the lowest to the best (`TurnMovesOn`), which keeps
`OffersInOrder`. An attempt has therefore tried exactly the scores from its first TSPP
down to the one before its next (`Round`, `InRound`): when it is back at the first,
everybody. An offer that is rolled back takes its count with it, so the order survives
failures.

## ShipmentLifecycle

### Correspondence

One shipment. Each handler is two actions: one that reads the row with the
handler's checks and keeps in `req[r]` what it is about to write, and one that is
the transaction of its writes.

| model | code |
|---|---|
| `row` | status, submit_date, gbl_number and approve_date of `shipments` |
| `offers`, `baseItems`, `gbls`, `gblSequence` | the rows that go with it |
| `abandoned` | history: a recalculation deleted the base line items and failed, and none were created since |
| `rowLock` | the lock that an UPDATE keeps until its transaction ends, where a transaction reads something else after it (delivery) |
| `SubmitMove` / `SaveMoveDependencies` | `SubmitMoveHandler` |
| `PatchMove` / `SaveMove` | `PatchMoveHandler` |
| `PatchShipment`, `PatchShipmentByTSP`, `CompletePmSurvey`, `TouchAllShipments`, `ApproveHHG`, `TransportShipment` / `SaveShipment` | the handlers that save the row and nothing else |
| `ListUnoffered`, `AwardShipment`, `GiveUp` / `CommitAward`, `CommitGivenUp`, `CommitUnawarded` | a run of the award queue, seen from the shipment |
| `AcceptShipment` / `SaveShipmentAndOffer` | `AcceptShipmentForTSP` |
| `DeliverShipment` / `UpdateDelivered`, `FetchShipmentLineItemsByItemID`, `CommitDelivery` | `DeliverAndPriceShipment`, one transaction of three steps |
| `Recalculate` / `SaveRecalculated`, `DeleteBaseShipmentLineItems`, `SaveRecalculated` twice, then the pricing steps of a delivery | `RecalculateShipmentLineItems` and the `PriceShipment` it ends in: the deletion, three saves of the shipment and `SaveShipmentAndPricingInfo` each commit by themselves |
| `CreateGovBillOfLading` / `CreateMoveDocument` | `CreateGovBillOfLadingHandler` |
| `Fail` | an error, or the end of the process: rollback |

The reads of one handler are one step: they come before its first write, and a
change between two of them is a change before or after both for the columns
that are modelled. The status of a move after SUBMITTED is not distinguished.
Two more requests save the row as `PatchShipment` does and are not listed
apart: the patch of a storage in transit by a TSP, and the save of a move document
with its shipment.

A recalculation begins when the shipment it reads is DELIVERED; whether its dates call
for one is left open. It deletes the base line items it has read, by id. `baseItems`
counts how often they are there and does not tell ids apart, so
`DeleteBaseShipmentLineItems` deletes what there is or nothing. That is more than the
code can do: it may delete items which another recalculation has created since the read.
`SaveShipment` inside that deletion uses a connection of its own and is therefore
committed before it. What the recalculation does to the single line items is in
`Billing`, what it does to those of storages in `StorageInTransit`.

### Runs

| run | instance | result |
|---|---|---|
| `ShipmentLifecycle_races` | 3 requests in progress, 2 TSPs, 2 offers | `RowAgrees`, `AcceptedTSPFound`, `OneRealOffer`, `DeliveredIsPriced`, `PricedOnce` hold; `KeepsTheContract` holds where requests do not overlap |

`MCShipmentLifecycle` adds the variable `serial`, which is chosen at the start: in
half of the behaviours a request begins only when no other is in progress, and
these implement `ShipmentContract`, whose `Reprice` is a recalculation that takes the
base line items away or brings them back. The run has some 1.6 million states.

Four things go wrong when requests overlap, and no property claims them: two TSPs,
one of them with an administrative offer, both have their offer accepted (which
`pkg/models/shipment.go:956` says should never be); a PATCH that read the shipment
before it was accepted takes the acceptance back; two requests for the bill of
lading find none and create one each; two submissions of one move use up a GBL
number each, and the later write wins.

So: with one request at a time the handlers are right, and the contract is
exactly what they keep. When they overlap, the contract is lost (a status may go
back, two TSPs may accept), but statements about one row survive, since every
row that is written was a row some handler wrote whole, and so do statements
about the row and the offers, which only grow. Three statements survive for another
reason: `OneRealOffer`, since `FetchUnofferedShipments` looks at the offers and
not just at the status; `PricedOnce`, since the UPDATE of a delivery or of the last
transaction of a recalculation locks the row before the line items are looked for; and
`DeliveredIsPriced`, which says that nothing but a recalculation leaves a DELIVERED
shipment without its base line items, and only until that recalculation ends. One that
fails or is stopped after its deletion leaves the shipment so (`abandoned`) until
another prices it, which `ShipmentLifecycle` reaches and the code does not prevent.

*Bounds.* Two TSPs: the one with the real offer and one passed over. Two
offers: a run that passes a TSP over, or gives up and lets a later run offer again, or
comes back to one it has asked before.
Three requests in progress: the longest races found need two, and the third can
only write an older row. `MaxGBLs` bounds the bills of lading and GBL numbers;
2 is one more than there should be. Requests and TSPs are symmetric.

### Proofs

`ShipmentLifecycle_proofs` proves the invariants of `ShipmentLifecycle_races` for
any number of requests and TSPs. The strengthening says what a request in
progress guarantees until it writes (`Sound`): the row it holds agrees with
itself; if it requires an accepted TSP there is one already; a request that is
about to create line items holds the lock of the row, and no line items exist;
a run of the award queue that goes on has found no offers, and nobody else can
add any (`OneRun`). Offers are never deleted, which is what makes `Sound` stable. Base
line items are, by recalculations: a row that counts as delivered, in the table or in a
request, has them, or they were deleted and the request that did so is on its way to
create them (`deleted`), or it has failed and nobody has created them since
(`abandoned`).

`SerialRequestsKeepTheContract` proves that `MCSpec` implements `ShipmentContract`
where requests do not overlap: every write is one step of the contract or none. With
requests that overlap this is false, as a row read long ago sets the status back. The
invariant is therefore about what a request holds while it is alone: the row it
holds is the row in the table but for the transition it is about to make (`Fresh`).
As a request that ends leaves none in progress, no write can spoil another's row. The
row alone does not say which offers there are, so `SerialInv` adds that a shipment
with an accepted offer has a status that requires one.

Assumed: `LifecycleAssumption` (`NoTSP` and `None` are not TSPs or requests,
bounds are numbers).

## Billing

### Correspondence

One shipment from the time it is in transit. As in `ShipmentLifecycle`, a handler
is a sequence of actions that are connected by `req[r]`: what it has read, with
the changes it has made in memory.

| model | code |
|---|---|
| `item`, `invoice`, `invoiceSequence` | the rows of `shipment_line_items` and `invoices`, the number tracker |
| `received` | what GEX has: external |
| `CreateShipmentLineItem` | one transaction |
| `ApproveShipmentLineItem` / `SaveLineItem` | `ApproveShipmentLineItemHandler` |
| `UpdateShipmentLineItem` / `SaveUpdate`, `SaveLineItem` | `UpdateShipmentLineItemHandler`, which saves the row twice |
| `DeleteShipmentLineItem` / `DestroyLineItem` | `DeleteShipmentLineItemHandler` |
| `DeliverShipment` / `CommitDelivery` | `DeliverAndPriceShipment`, one transaction |
| `FetchLineItemsByShipmentID`, `ProcessRecalculateShipment` / `DeleteBaseShipmentLineItems`, `DeleteStorageInTransitLineItems`, `CreateStorageInTransitLineItems` (once per item), `PriceAdditionalRequests`, `SaveShipmentAndPricingInfo` | a recalculation, which commits after each of these |
| `FetchShipmentForInvoice`, `CreateInvoiceNumber`, `CreateInvoice`, then `GexAccepts`, `AnswerLost` or `NotSent`, then `UpdateInvoiceSubmitted` or `UpdateRolledBack`, then `StoreInvoice` or `UpdateInvoiceFailed` | `ShipmentInvoiceHandler` |
| `Fail` | an error, a panic or the end of the process: transactions that have committed stay |

An amount is set or not. Whether a shipment is in the range of dates to be
recalculated is left open. `UpdateRolledBack` has two outcomes because
`UpdateInvoiceSubmitted` returns the error of its statements and not the one of
the COMMIT: after that one the handler goes on as if the invoice were submitted,
and storing the document saves it as SUBMITTED, with no line item bound.

Reading the line items and reading the other invoices are one step of
`FetchShipmentForInvoice`. Nothing is lost: an item that changes between the two
may as well change after both, and if an invoice is bound in between the check
refuses the request. An id that neither a row nor a request nor a bill knows may
be given again; no step can tell it from a new one, and recalculations need not
be bounded.

Left out: 185A and 185B, which are on the list of SIT codes although they require
approval, and which nothing prices; a change of the tariff item by an update.

### Runs

| run | instance | result |
|---|---|---|
| `Billing_pricing` | 2 requests, 2 base codes, a SIT item, an accessorial, 5 ids, no invoice | `BaseItemsComplete` holds |
| `Billing_invoices` | 2 requests, a base item, a SIT item and an accessorial, 2 ids, 2 invoices | `BoundIsBilled` holds, implements `InvoiceContract` |
| `Billing_two_invoices` | a base item, a SIT item and 35A, 2 ids, 2 invoices | `LimitedToOneInvoice` is violated |

`BaseItemsComplete` holds for a reason that is easy to lose: the items are created
in one transaction, which looks for each of them after the UPDATE of the shipment
has locked its row, and they are deleted in one transaction too. The items of
SITs have neither, and overlapping recalculations do create them twice.

`InvoiceContract` is what is left of "bill each line item once": an invoice is
settled once, SUBMITTED only when GEX has its bill, and an item is bound only to
an invoice that is SUBMITTED and lists it, whatever old rows are written back. It
does not say that there is one invoice (`Billing_two_invoices`), nor that an item
stays bound: a row that was read before the invoice was sent is written back
without it, and the item is billable again. Nor does an invoice have to be
settled: after a restart it stays IN_PROCESS, and the shipment is not invoiced any
more.

A line item that is approved while its shipment is being delivered stays without
a price: the approval saw a shipment that was not delivered, the delivery a line
item that was not approved. The shipment can then never be invoiced:
`MakeL1Segment` dereferences the missing amount after the invoice was created, so
that the invoice stays IN_PROCESS, and every later request is refused because of
it. In the model `Sends` is the guard that stands for it.

*Bounds.* Five ids allow two sets of base items, which is how a race would show;
two invoices allow one retry, or two that overlap. Two requests are enough for
every race that was found; more of them write older rows. Two ids are enough for
the three codes of the invoice run, because an id may be given again. The third
party service 35A has two amounts and its rows twice as many values: it is part of
the run that ends with a violation, and runs with it that must finish would be too
large. The runs check
no deadlock: once everything is invoiced nothing more may happen.

### Proofs

`Billing_proofs` proves `TypeOK`, `BaseItemsComplete` and `BoundIsBilled`, and that
`Spec` implements `InvoiceContract` (`BillingKeepsTheInvoices`), for any number of
requests, ids, codes and invoices. For the base items the strengthening says
that they are in the table once each or not at all (`Whole`) and alike, all bound or
none (`Alike`); that the rows in a request's hands have all of those now in the table
or none (`Recalls`), and none when they are to be written or deleted as they are
(`Writing`); a pricing looks for base items only as it saves its own, and a
recalculation deletes all it read. So they are made, read, bound and deleted together.
For the invoices it says what a request works on: an invoice of
its own, IN_PROCESS and in no other request's hands, with a bill that it alone may
send; and what the rows in the hands of requests are worth: an old copy of a line item
is bound, if at all, to an invoice that is SUBMITTED and has it on its bill. An invoice
that is SUBMITTED stays so and its bill is final, so a copy does not get worse
while it waits to be written. An id that a bill or a request knows is never given to
another code, so a row that comes back is the item it was.

Assumed: `BillingAssumption` (types of the constants).

## StorageInTransit

### Correspondence

The storages (SITs) of one shipment, from the time it is in transit.

| model | code |
|---|---|
| `row`, `gone` | the rows of `storage_in_transits` by id, and the ids of deleted ones |
| `sequence` | `storage_in_transit_number_trackers` |
| `charged` | the SITs that have line items |
| `uncharged` | history: the SITs whose line items a recalculation deleted, and which got none since |
| `CreateStorageInTransit`, `DeleteStorageInTransit` | one statement each |
| `ApproveStorageInTransit`, `DenyStorageInTransit`, `ReleaseStorageInTransit` / `SaveStorageInTransit` | the services of these names |
| `PlaceIntoSITStorageInTransit` / `GenerateStorageInTransitNumber` / `SaveStorageInTransit` | a placement, which draws its number in a statement of its own |
| `PatchStorageInTransit` / `SaveStorageInTransit` / `FetchShipment` / `SaveShipment` | a PATCH; the last two are for TSPs only |
| `DeliverShipment` / `CommitDelivery` | the part of `DeliverAndPriceShipment` that concerns SITs |
| `Recalculate` / `SaveRecalculated`, `DeleteBaseShipmentLineItems`, `SaveRecalculated`, `DeleteStorageInTransitLineItems`, `SaveRecalculated`, `FetchStorageInTransitsOnShipment`, `ChargeStorageInTransit` (once per SIT), `SaveShipmentAndPricingInfo` | a recalculation, each step committed by itself |
| `Fail` | an error, a panic (a PATCH without an out date), the end of the process |

Left out: addresses, notes, the warehouse, the out date itself, and the check that
the TSP is the shipment's.

A recalculation deletes the line items it read at its beginning, by id. The model does
not keep these ids: it deletes the items of any of the charged SITs, which includes what
the code deletes. `charged` does not count either: the items of SITs are created without
a look for those that are there, so that recalculations which overlap create them twice,
which is the subject of `Billing`.

### Run

`StorageInTransit`: 2 SITs, 2 requests, 2 days. `MCStorageInTransit` bounds the
requests of a behaviour to `MaxBegun` = 5, and each behaviour is either of two SITs
that use one day or of one SIT that uses both; half of the behaviours are serial.
Five requests are enough to approve, place and deliver with one stale write before
and one after. `MaxSequence` = 2 numbers per day are two placements, which is what
it takes for a number to be given twice.

`TakenIsNumbered`, `NumbersDiffer` and `DeliveredIsCharged` hold with requests that
overlap, `KeepsTheStorages` where they do not. A row is written whole, so a copy
that has the status also has the number; the number is drawn by an upsert, so it is
different even if the placement fails; and the delivery reads the SITs again, after
its own writes, to charge them. `DeliveredIsCharged` says that this charge is never
forgotten and goes only by a recalculation (`uncharged`). Between its deletions and its
creations a recalculation leaves delivered SITs without line items, for good if it fails
there, or if it reads a SIT as IN_SIT again because an old copy was written back: the
code does so, and the property excepts just these.

What goes wrong is not claimed: a SIT at the destination that is placed while the
shipment is delivered, or afterwards, stays IN_SIT and is never charged, as nothing
looks at it again; a PATCH of a TSP that read the shipment before its delivery
takes the delivery back, and pricing it again is refused while its base line items are
there; a SIT that the shipment
is in may be approved anew and placed again under another number.

### Proofs

`StorageInTransit_proofs` proves `TypeOK`, `TakenIsNumbered`, `NumbersDiffer` and
`DeliveredIsCharged` for any number of storages, requests, days and numbers. None of
them is inductive, as a request writes back what it read long ago. `Inv` says what
the copies in the hands of requests are worth. A copy is as good as the row
(`SoundCopy`): authorized if it is approved or later, numbered if the shipment was
placed into it, charged if it is delivered, or charged once and uncharged by a
recalculation since (`Accounts`, which only grows). A copy that is yet to be numbered, and
one that a delivery has changed and not yet priced, are excepted in just that, and
the next step of their request makes up for it. `NumbersHeld` is the other half: a
number in the table or in any copy is held for one storage only and is not ahead of
the counter of its day, so the next number is held by none.

`SerialRequestsKeepTheStorages` proves that `UnboundedSpec`, which is the
specification of the run without its bounds (`BoundsOnlyRestrict`), implements
`StorageContract` where requests do not overlap. A copy is then the row in the table but for what its
request does to it (`Fresh`): a decision, a placement with a number nobody holds, a
release, a PATCH, or, for the delivery, all rows as the delivery leaves them.
Storages may still be created and deleted while a request is in progress; a
copy whose row is gone is written nowhere. A recalculation that is alone saves the
shipment as it is, and changes no row of a storage.

Assumed: `StorageAssumption` (days and bounds are numbers, `None` is neither a day
nor a number) and `NoneAssumption` (`None` is no status).

## MoveLifecycle

### Correspondence

One move. A request reads rows and computes its *write set*, and `Save` is its
transaction.

| model | code |
|---|---|
| `move`, `orders` | `moves.status`, `orders.status` |
| `ppm`, `advance`, `document` | the rows of `personally_procured_moves`, `reimbursements`, `move_documents` |
| `filed` | history: which documents have been which PPM's |
| `reviewed` | history: PPMs that were saved together with a shipment summary that is OK and had been theirs before |
| `SubmitMove`, `CancelMove`, `ApproveMove`, `PatchMove` | the methods of `Move`, and the handlers that save with `SaveMoveDependencies` or the row alone |
| `UpdateOrders` | the PATCH of the orders; the shipments it saves are in `ShipmentLifecycle` (`TouchAllShipments`) |
| `CreatePPM`, `PatchPPM`, `SubmitPPM`, `RequestPayment`, `ApprovePPM` | the handlers of PPMs; `SavePPM` is `SavePersonallyProcuredMove` with its cases of an advance created, saved, kept or destroyed |
| `ApproveReimbursement` | the review of an advance. `Reject` and `Pay` have no caller |
| `CreateMoveDocument`, `UpdateMoveDocument` | the documents of PPMs |
| `Fail` | an error, a panic or the end of the process |

Whether the orders are complete enough to approve a move is left to chance.
`dateForComparison` takes a date for changed when it is the same; `DateChanged` does
so too. `UpdateMoveDocument` is anybody's who may see the move:
`UpdateMoveDocumentHandler` does not ask for an office user, and in
`pkg/handlers/internalapi/move_documents_test.go:335` a service member saves a summary
as OK and so completes the PPM.

### Run

`MoveLifecycle`: 2 PPMs, 2 advances, 1 document, 2 requests, 4 requests in a behaviour,
half of the behaviours serial. `MaxAdvanced` = 1: where requests overlap one PPM at a
time has an advance, old or new, as no property of these behaviours relates the advances
of two PPMs; the serial behaviours, which `KeepsTheMove` is about, may have one for each.
`Dates` and `Plans` are empty: they decide no status, only the estimates, and nothing can
be promised of these with `DateChanged` as it is. Four requests are approval, request of
payment, the update of the document, and one more that is stale or moves the document.
Requests, advances and PPMs are symmetric.

`DatesAgree` and `CompletedByReview` hold with requests that overlap; `KeepsTheMove` where
they do not. The document may be given to the other PPM, in the request that saves it OK,
before it, or while such a request is in progress. `CompletedByReview` is about which PPM
is completed then: the one whose document it was when it was read, and never one that the
same request names for the first time. It says nothing of who saved the summary, and it
does not exclude that the summary has gone to another PPM in between.

What goes wrong is not claimed: a PPM that is submitted by itself leaves its advance
DRAFT, and is refused when its move is submitted, so that the move never can be; a
move with a PPM that is COMPLETED or CANCELED cannot be canceled; a PATCH of a PPM that
was read before its submission, approval or completion takes it back; canceling a move
leaves its shipments as they are, for the award queue to give away; a PPM written
back late refers to an advance that is gone.

### Proofs

`MoveLifecycle_proofs` proves `TypeOK`, `DatesAgree` and `CompletedByReview` for any
number of PPMs, advances, documents, dates and requests. `Inv` extends them to the
write sets of the requests in progress: a PPM in a write set agrees with itself, and
if it is COMPLETED it was reviewed before or the same write set has a shipment
summary that is OK and that had been its own (`ReviewedWith`). Neither history shrinks,
so a write set stays
sound until it is saved, whatever is saved before it. The PPM of every document is on
file (in `filed`), so the PPM an update reads its document with may be completed by it.
Documents refer to PPMs that are there (`Referring`), which is what lets an update find
the PPM it completes.

`SerialRequestsKeepTheMove` proves that `UnboundedSpec`, the specification of the run
without the bound on requests, implements `MoveContract` where requests do not
overlap. A write set is then one of seven kinds, described by what it
changes in the tables (`Fresh`): one PPM proceeds, gets an advance or loses it, the
move alone is saved, an advance is approved, or all PPMs are submitted or canceled.
One more invariant is needed, which overlapping requests break: the advance a PPM
refers to is there, requested, and no other PPM's (`Linked`). Without it, a PPM
whose advance is gone would be given another.

Assumed: `MoveAssumption` (`None` is not an id, a date or a plan) and
`NoneAssumption` (`None` is no status).

## FuelPrices

### Correspondence

| model | code |
|---|---|
| `rows` | the months whose price is in `fuel_eia_diesel_prices`; the dates of a row follow from its month |
| `Find`, `FindFails` | `findMissingRecordMonths` with `FetchMostRecentFuelPrices` |
| `Fetch` | `getMissingRecordsPrices`; the EIA is external: it has a price from the day of publication on, and on that day it may or may not |
| `Store` | one turn of the loop of `StoreFuelPrices`; `Overlaps` is the exclusion constraint |
| `FuelFail` | an error, or the end of the process |
| `Midnight` | the clock, which the code reads anew in each step |
| `AddMonths`, `FirstMondayOrNonHolidayAfter` | `time.Time.AddDate`; `getFirstMondayOrNonHolidayAfter` |
| `RatesFor` | the query of `fuelSurchargeComputation` |

The calendar is the Gregorian one and months are counted as the code does, including
the overflow of `AddDate` (a month before 31 March is 3 March). A query that fails is
taken for a complete table, because the length of its result is looked at before its
error: the run then reports success (`"unread"`).

### Runs

| run | instance | result |
|---|---|---|
| `FuelPrices` | 2 jobs, 12 midnights, at most 1 gap in the past year, from 5 dates | `EveryBookDateHasItsRate`, `OnlyMissingMonthsAreSaved` hold |
| `FuelPrices_month_ends` | 1 job, from 29 March 2019 | `EveryRunCatchesUp` is violated |

The five dates lead over the end of January, of a short and of a long February, over
Labor Day (the publication moves to a Tuesday) and over the new year. Twelve
midnights from the 27th or the 30th reach past the 9th. One gap is enough: months
are found and saved one by one.

`EveryBookDateHasItsRate` is claimed for runs from the 9th to the 27th: before, the
price of the month may not be out; from the 29th on, months are skipped.
`OnlyMissingMonthsAreSaved` is claimed for a run that is alone from its beginning to its
end and begins before the 29th, also when a midnight at the end of a month falls into it.
Of runs that overlap it says nothing: two of them find the same months missing, and the
constraint refuses what the later one saves, which is not wrong. `EveryRunCatchesUp` is what the comment at
`pkg/services/fuelprice/diesel_fuel_price_storer.go:75` says of any day. On 29 March 2019
the list of months has March twice and February never. A run that has March missing
then fetches March twice, the constraint refuses the second row, and the run ends with an
error, February not looked for. The next run on that day finds March in the table and
nothing else that it wants: it ends without an error and without February, and that is
the violation. The next day that is not at the end of a month makes up for it.

### Proofs

`FuelPrices_proofs` proves the three invariants of the run `FuelPrices` for any number
of jobs, dates, holidays and midnights. The months a run has in hand are functions
over the positions of its list, with gaps where a month is in the table, so that no
fact about the list needs induction. For `EveryBookDateHasItsRate`: a run between the
9th and the 27th stays in its month; all the months it wants are published; stepping
back by months does not overflow, so it wants the last twelve, once each; a row of the
same month of last year does not hide one, because it was published before the window
that `FetchMostRecentFuelPrices` looks at; and the rows of the table never overlap, so
there is one rate and not two. For `OnlyMissingMonthsAreSaved`: a run that has been
alone since it began is the only one to save, so what it found missing is missing until
it saves it, and before the 29th no month is on its list twice.

Assumed: at most twelve months, as the code checks (`NumMonthsAssumption`); the dates
at which the clock starts are dates and the bound on the midnights is a number
(`FirstDaysAssumption`, `MaxDaysAssumption`); `None` is not a month (`NoneAssumption`);
and a first Monday and the day after it are never both holidays
(`HolidaysAssumption`), which is true of the calendar in `pkg/dates` and without which
a price would come out later than the 9th.

## Accounts

### Correspondence

| model | code |
|---|---|
| `users`, `members`, `record`, `holder` | rows of `users`, `service_members`, `admin_users` or `office_users`, `access_codes` |
| `codeLock` | the lock of `SELECT ... FOR UPDATE` |
| `jar`, `login` | a browser's cookies: the session of each application, the state of the last sign-in |
| `tab` | requests and responses on their way, with the session they carry |
| `Redirect`, `FollowRedirect`, `Callback`, `Decline`, `FetchUserIdentity` | `RedirectHandler`, the way to login.gov (external) and back, `CallbackHandler` |
| `AuthorizeKnownUser`, `AuthorizeUnknownUser`, `CreateUser`, `LinkRecord`, `LinkAdminRecord` | the functions of these names, statement by statement |
| `View`, `Logout` | any other request, whose response writes the session back; the sign-out |
| `BeginServiceMember` / `CreateServiceMember` | `CreateServiceMemberHandler` |
| `BeginClaim` / `FetchAccessCodeForUpdate` / `ClaimAccessCode` | `ClaimAccessCodeHandler` |
| `Arrive`, `Lose`, `Expire` | a response that arrives, is lost, a cookie that runs out |
| `Error` | an error of login.gov or the database; committed statements stay |
| `AddRecord` | a migration |

"office" stands for the TSP application too. A person has one browser. The
column `users.disabled` (that of the records is there), DPS users and the sign-in for
development are left out. Two peculiarities are
translated as they are: the validation errors of a known administrator are compared
with `nil`, which they never are, so that the record is linked and the answer is an
error; and a record that is not linked yet is linked without a look at whether it is
disabled, if the user is known already.

### Run

`Accounts`: two people, two tabs, one access code, the applications "mil" and
"admin"; any number of failures. Two tabs are enough to overlap two sign-ins, two
claims, or a sign-out and a late response; the two people are there for the one
code. The "office" application differs from "admin" by linking without the error,
which new administrators do as well. 4.6 million states.

`CookieIsBacked` and `CodesAreKept` hold. The first does although nothing is atomic:
the session is written last, and users, members and links are never taken back. It
does not say that a session is current: a late response brings back a session that
was signed out.

### Proofs

`Accounts_proofs` proves the three invariants for any people, tabs, codes and records.
Users, service members and links only grow, so what a request has found stays true
however late its response arrives: a session in a cookie, in a request or in a
response is backed (`CookieIsBacked` is that for the cookies). A claim holds the lock
of the code's row from the read that found no holder to its write, so no code has its
holder changed.

Assumed: `AppsAssumption` (the applications are those of the code) and
`NoneAssumption` (`None` is nobody's name).

## RateEngine

Operators, no state: `ComputePPM`, `FuelSurcharge`, `StorageEstimate` and what they
are made of, over any tariff whose entries are natural numbers. The code multiplies
`float64` and rounds to cents; the module multiplies exactly and rounds the same way
(`Nearest` is `math.Round` of a quotient that is not negative), so that it differs
where a binary fraction falls on the other side of half a cent. Two things are
translated that one may not expect: `Scale` leaves the fuel surcharge alone, and
`StorageEstimate` is not prorated below 1000 pounds. There is nothing to run;
`RateEngine_proofs` proves, for every tariff:

* `DiscountIsPartOfTheCharge`: a discount leaves between nothing and the whole;
* `StorageFeeWithinMaximum`: up to 90 days the fee of a PPM for storage is at most
  the maximum reported with it;
* `StorageEstimateWithinMaximum`: so is the estimate, from 1000 pounds on;
* `PartsAddUp`: total and parts, each prorated and rounded for itself, differ by at
  most three cents;
* `LightMovesCostNoMore`: below 1000 pounds a PPM costs at most what it does at 1000.

The argument is monotonicity: rounding is monotonic and errs by half a unit, for the
denominators 100, 1000 and 10000 the code uses, and products of natural numbers are
monotonic. No constants, no assumptions.

## What is checked only by TLC

* Liveness (`EventuallyAwarded`, `EveryRunEnds`): temporal reasoning with
  fairness is out of the prover's reach.

Every other property of the runs that pass is a theorem. The two properties that the
code violates, `LimitedToOneInvoice` and `EveryRunCatchesUp`, have their
counterexamples from TLC.

## What is not modelled

Deletion of shipments and offers (no handler deletes them), `Shipment.Reject` and
`ShipmentOffer.Reject` (no caller), authorisation, payloads and formatting. A
failing notification makes `SubmitMoveHandler` return before it starts the award
queue; in `AwardQueue` a run may start or not after any submission, which covers
it, and liveness rests on the background job alone. `CreateGovBillOfLadingHandler`
discards the error of its query for existing bills; the outcome is the one of the
race. The creation of orders and their move in two transactions, and of a shipment
on a move that is submitted already (it stays DRAFT), come before the initial states
of the models. The amounts of expense documents are left out, and with them the
total that `pkg/handlers/internalapi/move_documents.go:247` resets to 0.

Most lines of the implementation are not control: of some 93 thousand, 42 thousand
are the table of zip codes in `pkg/route/zip_locale.go`, and most of the others
generate test data, format payloads, forms and EDI segments, configure the server,
call services outside, or read. `PROJECT.json` lists them with the reason for each.

## Plan

What is left: modules for uploads, for the revisions of electronic orders and for the
calendar of move dates.
