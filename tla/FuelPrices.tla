----------------------------- MODULE FuelPrices -----------------------------
(***************************************************************************)
(* The table fuel_eia_diesel_prices and the task save-fuel-price-data that *)
(* fills it (pkg/services/fuelprice): find the months of the last year     *)
(* without a price, ask the EIA for each of them, save them one by one.    *)
(* The rate engine takes from the table the one rate whose period holds    *)
(* the book date of a shipment, and panics when there is none              *)
(* (pkg/rateengine/linehaul.go, fuelSurchargeComputation).                 *)
(*                                                                         *)
(* A month is counted from January of the year 0; a date is a pair of a    *)
(* month and a day.  A row of the table is the month its price was         *)
(* published in, which determines its columns but for the price.           *)
(***************************************************************************)
EXTENDS Integers, FiniteSets, FiniteSetsExt

CONSTANTS
  Jobs,       \* the processes that may run the task
  None,       \* the empty date string: no data for the month yet
  numMonths,  \* how many months the task looks back
  FirstDays,  \* the dates the model may start on
  MaxDays,    \* how many midnights pass
  MaxGaps,    \* how many earlier months may be without a price at the start
  Holidays    \* the federal holidays among the dates of the model

VARIABLES
  today,      \* the date on the clock
  rows,       \* the months whose price is in fuel_eia_diesel_prices
  jobs,       \* the runs of the task
  midnights   \* how many midnights have passed

fuelVars == <<today, rows, jobs, midnights>>

-----------------------------------------------------------------------------
(* The Gregorian calendar and time.Time.AddDate.                           *)

Leap(y) == /\ y % 4 = 0
           /\ y % 100 # 0 \/ y % 400 = 0

DaysIn(m) == CASE m % 12 \in {3, 5, 8, 10} -> 30
               [] m % 12 = 1 -> IF Leap(m \div 12) THEN 29 ELSE 28
               [] OTHER -> 31

(* The days from 1 January of the year 1, a Monday, to the first of m.     *)
DaysBefore(m) ==
  LET y == m \div 12
      z == y - 1
      short == <<0, 31, 59, 90, 120, 151, 181, 212, 243, 273, 304, 334>>
  IN  (365 * z) + (z \div 4) - (z \div 100) + (z \div 400) + short[(m % 12) + 1]
        + (IF (m % 12) > 1 /\ Leap(y) THEN 1 ELSE 0)

Weekday(m, d) == (DaysBefore(m) + d - 1) % 7        \* Monday is 0

Before(x, y) == \/ x[1] < y[1]
                \/ x[1] = y[1] /\ x[2] < y[2]

(* AddDate adds to the month and lets a day that the month does not have   *)
(* run over into the next one: a month before 31 March is 3 March.         *)
AddMonths(x, k) ==
  LET m == x[1] + k
  IN  IF x[2] <= DaysIn(m) THEN <<m, x[2]>> ELSE <<m + 1, x[2] - DaysIn(m)>>

NextDay(x) == IF x[2] < DaysIn(x[1]) THEN <<x[1], x[2] + 1>> ELSE <<x[1] + 1, 1>>

(* getFirstMondayOrNonHolidayAfter: the EIA dates its first weekly price   *)
(* of a month on that day.                                                 *)
FirstMondayOrNonHolidayAfter(m) ==
  LET monday == ((7 - Weekday(m, 1)) % 7) + 1
      works(d) == /\ Weekday(m, d) < 5
                  /\ <<m, d>> \notin Holidays
  IN  <<m, Min({d \in monday .. monday + 6 : works(d)})>>

Months == UNION {(x[1] - 14) .. (x[1] + MaxDays) : x \in FirstDays}

(* findMissingRecordMonths refuses more than 12.                           *)
ASSUME NumMonthsAssumption == numMonths \in 0 .. 12

ASSUME NoneAssumption == None \notin Int

ASSUME MaxDaysAssumption == MaxDays \in Nat

ASSUME FirstDaysAssumption ==
  \A x \in FirstDays : x \in Int \X Int /\ x[2] \in 1 .. DaysIn(x[1])

(* No two federal holidays are the first Monday of a month and the day     *)
(* after it.                                                               *)
ASSUME HolidaysAssumption ==
  \A m \in Months, d \in 1 .. 7 :
    Weekday(m, d) = 0 => <<m, d>> \notin Holidays \/ <<m, d + 1>> \notin Holidays

PublicationDate == [m \in Months |-> FirstMondayOrNonHolidayAfter(m)]

RateStart(m) == <<m, 15>>
RateEnd(m) == <<m + 1, 14>>

(* The constraint no_overlapping_rates refuses the row of m.               *)
Overlaps(m) ==
  \E r \in rows : ~ Before(RateEnd(r), RateStart(m)) /\ ~ Before(RateEnd(m), RateStart(r))

(* What fuelSurchargeComputation finds for a book date.                    *)
RatesFor(x) == {r \in rows : ~ Before(x, RateStart(r)) /\ ~ Before(RateEnd(r), x)}

-----------------------------------------------------------------------------
(* The slices missingMonths and fuelValuesByMonth keep the positions of    *)
(* the months wanted: functions over the positions that are left.          *)
Idle == [pc |-> "idle", day |-> None, missing |-> <<>>, values |-> <<>>, alone |-> TRUE]

InProgress(j) == jobs[j].pc \in {"found", "storing"}

(* At the start the months of the year before are there but for some.      *)
FuelInit ==
  /\ today \in FirstDays
  /\ \E gaps \in SUBSET (today[1] - 12 .. today[1] - 1) :
       /\ Cardinality(gaps) <= MaxGaps
       /\ rows = (today[1] - 13 .. today[1] - 1) \ gaps
  /\ jobs = [j \in Jobs |-> Idle]
  /\ midnights = 0

(* Faulty: the window is a month short.                                    *)
MonthsInShortWindow ==
  {r % 12 : r \in {r \in rows : /\ ~ Before(PublicationDate[r], AddMonths(today, 1 - numMonths))
                                /\ ~ Before(today, PublicationDate[r])}}

(* FetchMostRecentFuelPrices, as months of the year.                       *)
MonthsInDB ==
  {r % 12 : r \in {r \in rows : /\ ~ Before(PublicationDate[r], AddMonths(today, -numMonths))
                                /\ ~ Before(today, PublicationDate[r])}}

Wanted(i) == AddMonths(today, 1 - i)[1] % 12

(* findMissingRecordMonths: the months of the year, this one first.        *)
MissingMonths ==
  LET present == MonthsInDB
  IN  [i \in {i \in 1 .. numMonths : Wanted(i) \notin present} |-> Wanted(i)]

(* Faulty: every month is taken to be of this year.                        *)
MonthOfThisYear(n) == today[1] - (today[1] % 12) + n

(* getMissingRecordsPrices takes a month of the year later than this one   *)
(* for one of last year.                                                   *)
LatestMonth(n) == today[1] - ((today[1] - n) % 12)

(* On the day of publication the price may be out or not.                  *)
Published(m, out) == \/ Before(PublicationDate[m], today)
                     \/ PublicationDate[m] = today /\ out

(* Faulty: a month in the answer is taken to have data.                    *)
PriceUnseen(m, out) == m

(* The answer for a month: its first price, or an empty date string.       *)
Price(m, out) == IF Published(m, out) THEN m ELSE None

-----------------------------------------------------------------------------
Ends(j, how) == [jobs EXCEPT ![j].pc = how, ![j].missing = <<>>, ![j].values = <<>>]

(* StoreFuelPrices looks for missing months.  Two runs that overlap are    *)
(* told apart from a run that is alone.                                    *)
Find(j) ==
  LET others == {k \in Jobs \ {j} : InProgress(k)}
      missing == MissingMonths
  IN  /\ ~ InProgress(j)
      /\ jobs' = [k \in Jobs |->
           IF k = j
             THEN [pc |-> IF missing = <<>> THEN "stored" ELSE "found",
                   day |-> today, missing |-> missing, values |-> <<>>,
                   alone |-> others = {}]
             ELSE [jobs[k] EXCEPT !.alone = @ /\ k \notin others]]
      /\ UNCHANGED <<today, rows, midnights>>

(* The query fails: no month is found missing, which the run takes for a   *)
(* table that is complete before it looks at the error.                    *)
FindFails(j) ==
  /\ ~ InProgress(j)
  /\ jobs' = [jobs EXCEPT ![j] = [Idle EXCEPT !.pc = "unread"]]
  /\ UNCHANGED <<today, rows, midnights>>

(* getMissingRecordsPrices: one request for each month.  A price of this   *)
(* month that should be out and is not ends the run.                       *)
Fetch(j) ==
  /\ jobs[j].pc = "found"
  /\ \E out \in BOOLEAN :
       LET months == [i \in DOMAIN jobs[j].missing |-> LatestMonth(jobs[j].missing[i])]
           late == \E i \in DOMAIN months : /\ months[i] = today[1]
                                            /\ ~ Published(months[i], out)
                                            /\ ~ Before(today, PublicationDate[today[1]])
       IN  jobs' = IF late THEN Ends(j, "failed")
                   ELSE [jobs EXCEPT ![j].pc = "storing", ![j].missing = <<>>,
                           ![j].values = [i \in DOMAIN months |-> Price(months[i], out)]]
  /\ UNCHANGED <<today, rows, midnights>>

(* One month is saved, in a transaction of its own.  A month without data  *)
(* ends the run, with those behind it left for another day.                *)
Store(j) ==
  /\ jobs[j].pc = "storing"
  /\ \E first \in DOMAIN jobs[j].values :
       LET month == jobs[j].values[first]
           behind == DOMAIN jobs[j].values \ {first}
           saved == month # None /\ ~ Overlaps(month)
       IN  /\ \A i \in behind : first < i
           /\ rows' = IF saved THEN rows \union {month} ELSE rows
           /\ jobs' = IF saved /\ behind # {}
                        THEN [jobs EXCEPT ![j].values = [i \in behind |-> jobs[j].values[i]]]
                      ELSE Ends(j, IF saved \/ month = None THEN "stored" ELSE "refused")
  /\ UNCHANGED <<today, midnights>>

(* A request or a statement fails, or the process is killed.               *)
FuelFail(j) ==
  /\ InProgress(j)
  /\ jobs' = Ends(j, "failed")
  /\ UNCHANGED <<today, rows, midnights>>

(* A run takes seconds: it sees one midnight at most.                      *)
Midnight ==
  /\ midnights < MaxDays
  /\ \A j \in Jobs : InProgress(j) => jobs[j].day = today
  /\ today' = NextDay(today)
  /\ midnights' = midnights + 1
  /\ jobs' = [j \in Jobs |-> IF InProgress(j) THEN jobs[j] ELSE Idle]
  /\ UNCHANGED rows

FuelNext ==
  \/ \E j \in Jobs : Find(j) \/ FindFails(j) \/ Fetch(j) \/ Store(j) \/ FuelFail(j)
  \/ Midnight

FuelSpec == FuelInit /\ [][FuelNext]_fuelVars

-----------------------------------------------------------------------------
(* The table holds prices that were published, and a run has only months   *)
(* in hand that the EIA has published too.                                 *)
FuelTypeOK ==
  /\ midnights \in 0 .. MaxDays
  /\ \A r \in rows : /\ r <= today[1]
                     /\ r = today[1] => ~ Before(today, PublicationDate[r])
  /\ \A j \in Jobs :
       /\ jobs[j].pc \in {"idle", "found", "storing", "stored", "unread", "refused", "failed"}
       /\ \A i \in DOMAIN jobs[j].missing : jobs[j].missing[i] \in 0 .. 11
       /\ \A i \in DOMAIN jobs[j].values :
            jobs[j].values[i] = None \/ ~ Before(today, PublicationDate[jobs[j].values[i]])
       /\ jobs[j].pc = "found" => jobs[j].missing # <<>>
       /\ jobs[j].pc = "storing" => jobs[j].values # <<>>

(* Once the month has its publications behind it and before it runs into   *)
(* days that other months do not have.                                     *)
Midmonth(x) == x[2] \in 9 .. 27

(* After a run of StoreFuelPrices that ended well between the 9th and the  *)
(* 27th, the rate engine finds exactly one rate for every book date of the *)
(* year up to the 14th of next month, and it is the one published last     *)
(* before the period of the book date began.  The ends of each period and  *)
(* the turn of the month within it stand for all its book dates.           *)
EveryBookDateHasItsRate ==
  \A j \in Jobs :
    (jobs[j].pc = "stored" /\ Midmonth(jobs[j].day)) =>
      \A m \in jobs[j].day[1] - numMonths + 1 .. jobs[j].day[1] :
        \A x \in {<<m, 15>>, <<m, DaysIn(m)>>, <<m + 1, 1>>, <<m + 1, 14>>} : RatesFor(x) = {m}

(* A run that is alone, and begins before the 29th, never has a price      *)
(* refused: what it finds missing is missing, and no month comes up twice. *)
OnlyMissingMonthsAreSaved ==
  \A j \in Jobs :
    jobs[j].pc = "refused" => ~ jobs[j].alone \/ jobs[j].day[2] > 28

(* What the comment of StoreFuelPrices says: the months we do not have     *)
(* prices for are added, whatever the day.                                 *)
EveryRunCatchesUp ==
  \A j \in Jobs :
    (jobs[j].pc = "stored" /\ jobs[j].day[2] > 8) =>
      (jobs[j].day[1] - numMonths + 1 .. jobs[j].day[1]) \subseteq rows
=============================================================================
