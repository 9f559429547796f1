-------------------------- MODULE FuelPrices_proofs --------------------------
(***************************************************************************)
(* What holds of the fuel prices whatever the number of months looked      *)
(* back, the day the task starts on, the months that are missing then, the *)
(* holidays and the number of runs.                                        *)
(*                                                                         *)
(* The argument follows the months a run has in hand.  A run that begins   *)
(* between the 9th and the 27th takes a month for present only if its row  *)
(* is there: the row of the same month a year ago is before the window.    *)
(* It stays within the month it began in, so it asks for the months it     *)
(* missed, and all of them are published.  A run that is alone is the only *)
(* one that saves, so what it missed stays missing until it saves it.      *)
(***************************************************************************)
EXTENDS FuelPrices, TLAPS

-----------------------------------------------------------------------------
(* The arithmetic of months and weeks.                                     *)

LEMMA MonthOfYear == \A m \in Int : m % 12 \in 0 .. 11
BY SMT

LEMMA SameMonth ==
  \A a, b \in Int : a % 12 = b % 12 /\ a - b < 12 /\ b - a < 12 => a = b
BY SMT

LEMMA LatestOfYear ==
  \A t, m \in Int : m \in t - 11 .. t => t - ((t - (m % 12)) % 12) = m
BY SMT

LEMMA LatestIsLate ==
  \A t \in Int, n \in 0 .. 11 :
    LET m == t - ((t - n) % 12)
    IN  m \in t - 11 .. t /\ m % 12 = n
BY SMT

LEMMA FirstMonday ==
  \A w \in Int :
    LET monday == ((7 - (w % 7)) % 7) + 1
    IN  /\ monday \in 1 .. 7
        /\ (w + monday - 1) % 7 = 0
        /\ (w + monday) % 7 = 1
BY SMT

LEMMA DaysOfMonth == \A m \in Int : DaysIn(m) \in 28 .. 31
BY SMT DEF DaysIn

LEMMA DaysBeforeType == \A m \in Int : DaysBefore(m) \in Int
<1> SUFFICES ASSUME NEW m \in Int PROVE DaysBefore(m) \in Int
    OBVIOUS
<1> DEFINE y == m \div 12
           z == y - 1
           short == <<0, 31, 59, 90, 120, 151, 181, 212, 243, 273, 304, 334>>
<1>1. y \in Int /\ z \in Int
      BY SMT
<1>2. z \div 4 \in Int /\ z \div 100 \in Int /\ z \div 400 \in Int
      BY <1>1, SMT
<1>3. (m % 12) + 1 \in 1 .. 12
      BY SMT
<1>4. short[(m % 12) + 1] \in Int
      <2>1. \A i \in 1 .. 12 : short[i] \in Int
            BY SMT
      <2>. QED
            BY <1>3, <2>1
<1>. QED
    BY <1>1, <1>2, <1>4, SMT DEF DaysBefore

LEMMA MonthsType == Months \subseteq Int
BY FirstDaysAssumption, MaxDaysAssumption, SMT DEF Months

(* The first price of a month is published on one of its first eight days. *)
LEMMA PublishedEarly ==
  ASSUME NEW m \in Months
  PROVE  \E d \in 1 .. 8 : PublicationDate[m] = <<m, d>>
<1> DEFINE w == DaysBefore(m)
           monday == ((7 - Weekday(m, 1)) % 7) + 1
           works(d) == /\ Weekday(m, d) < 5
                       /\ <<m, d>> \notin Holidays
           open == {d \in monday .. monday + 6 : works(d)}
<1>1. m \in Int /\ w \in Int
      BY MonthsType, DaysBeforeType
<1>2. Weekday(m, 1) = w % 7
      BY <1>1, SMT DEF Weekday
<1>3. monday \in 1 .. 7 /\ (w + monday - 1) % 7 = 0 /\ (w + monday) % 7 = 1
      <2>. HIDE DEF w
      <2>. QED BY <1>1, <1>2, FirstMonday, SMT
<1>4. Weekday(m, monday) = 0 /\ Weekday(m, monday + 1) = 1
      <2>. HIDE DEF monday
      <2>1. w + (monday + 1) - 1 = w + monday
            BY <1>1, <1>3, SMT
      <2>. QED BY <1>1, <1>3, <2>1 DEF Weekday
<1>5. works(monday) \/ works(monday + 1)
      <2>1. <<m, monday>> \notin Holidays \/ <<m, monday + 1>> \notin Holidays
            BY <1>3, <1>4, HolidaysAssumption
      <2>. QED BY <2>1, <1>4, SMT
<1>6. \E d \in open : d \in 1 .. 8 /\ \A e \in open : d <= e
      <2>. HIDE DEF works
      <2>1. CASE works(monday)
            <3>1. monday \in open /\ \A e \in open : monday <= e
                  <4>. HIDE DEF monday
                  <4>. QED BY <1>3, <2>1, SMT
            <3>. QED BY <3>1, <1>3, SMT
      <2>2. CASE ~ works(monday) /\ works(monday + 1)
            <3>1. monday + 1 \in open /\ \A e \in open : monday + 1 <= e
                  <4>. HIDE DEF monday
                  <4>. QED BY <1>3, <2>2, SMT
            <3>. QED BY <3>1, <1>3, SMT
      <2>. QED BY <2>1, <2>2, <1>5
<1>7. Min(open) \in 1 .. 8
      <2>. HIDE DEF open
      <2>1. PICK d \in open : d \in 1 .. 8 /\ \A e \in open : d <= e
            BY <1>6
      <2>2. open \subseteq Int
            <3>. USE DEF open
            <3>. QED BY <1>3, SMT
      <2>3. /\ Min(open) \in open
            /\ \A e \in open : Min(open) <= e
            BY <2>1 DEF Min
      <2>4. Min(open) \in Int /\ d \in Int /\ Min(open) <= d /\ d <= Min(open)
            BY <2>1, <2>2, <2>3
      <2>5. Min(open) = d
            <3>. HIDE DEF open
            <3>1. \A a, b \in Int : a <= b /\ b <= a => a = b
                  BY SMT
            <3>. QED BY <3>1, <2>4, Zenon
      <2>. QED BY <2>1, <2>5
<1>8. PublicationDate[m] = <<m, Min(open)>>
      <2>1. PublicationDate[m] = FirstMondayOrNonHolidayAfter(m)
            BY DEF PublicationDate
      <2>2. FirstMondayOrNonHolidayAfter(m) = <<m, Min(open)>>
            BY DEF FirstMondayOrNonHolidayAfter
      <2>. QED BY <2>1, <2>2
<1>. QED
    BY <1>7, <1>8

-----------------------------------------------------------------------------
(* The invariant.                                                          *)

Date(x) == /\ x \in Int \X Int
           /\ x[2] \in 1 .. DaysIn(x[1])

Slices == UNION {[P -> Int \union {None}] : P \in SUBSET (1 .. 12)}

Job == [pc : {"idle", "found", "storing", "stored", "unread", "refused", "failed"},
        day : (Int \X Int) \union {None},
        missing : Slices,
        values : Slices,
        alone : BOOLEAN]

(* The clock stays within the months whose publications are known.         *)
Clock ==
  /\ midnights \in 0 .. MaxDays
  /\ Date(today)
  /\ \E x \in FirstDays : today[1] \in x[1] .. x[1] + midnights

PublishedRows ==
  /\ rows \subseteq Months
  /\ \A r \in rows : /\ r <= today[1]
                     /\ r = today[1] => ~ Before(today, PublicationDate[r])

Typed == jobs \in [Jobs -> Job]

Busy(r) == r.pc \in {"found", "storing"}

(* A run that began on its own is the only one that saves.                 *)
OnlyOne ==
  \A j \in Jobs :
    Busy(jobs[j]) /\ jobs[j].alone => \A k \in Jobs \ {j} : ~ Busy(jobs[k])

(* A run knows the day it began on, and ends on it or on the next.         *)
Dated(r, t) ==
  /\ r.pc \in {"found", "storing", "stored", "refused"} => Date(r.day)
  /\ Busy(r) => t = r.day \/ t = NextDay(r.day)

(* A run in progress has months in hand, and only those with a price that  *)
(* is out when it has asked.                                               *)
InHand(r, t) ==
  /\ \A i \in DOMAIN r.missing : r.missing[i] \in 0 .. 11
  /\ \A i \in DOMAIN r.values :
       r.values[i] = None \/ /\ r.values[i] \in Months
                             /\ ~ Before(t, PublicationDate[r.values[i]])
  /\ r.pc = "found" => DOMAIN r.missing # {}
  /\ r.pc = "storing" => DOMAIN r.values # {}

Window(x) == x[1] - numMonths + 1 .. x[1]

(* Every month of the window is in the table or in hand.                   *)
Complete(r, rs) ==
  r.pc \in {"found", "storing", "stored"} /\ Midmonth(r.day) =>
    /\ r.pc = "found" =>
         \A m \in Window(r.day) : m \in rs \/ \E i \in DOMAIN r.missing : r.missing[i] = m % 12
    /\ r.pc = "storing" =>
         /\ \A m \in Window(r.day) : m \in rs \/ \E i \in DOMAIN r.values : r.values[i] = m
         /\ \A i \in DOMAIN r.values : r.values[i] # None
    /\ r.pc = "stored" => Window(r.day) \subseteq rs

(* What a run that is alone has in hand is not in the table.               *)
Fresh(r, rs) ==
  r.pc \in {"found", "storing", "refused"} /\ r.alone /\ r.day[2] <= 28 =>
    /\ r.pc = "found" =>
         /\ \A m \in rs : m <= r.day[1]
         /\ \A i \in DOMAIN r.missing : /\ r.missing[i] = (r.day[1] + 1 - i) % 12
                                        /\ r.day[1] + 1 - i \notin rs
    /\ r.pc = "storing" =>
         \A i \in DOMAIN r.values :
           r.values[i] # None => /\ r.values[i] \notin rs
                                 /\ \A k \in DOMAIN r.values \ {i} : r.values[k] # r.values[i]
    /\ r.pc # "refused"

Sound(r, t, rs) ==
  /\ Dated(r, t)
  /\ InHand(r, t)
  /\ Complete(r, rs)
  /\ Fresh(r, rs)

Inv ==
  /\ Clock
  /\ PublishedRows
  /\ Typed
  /\ OnlyOne
  /\ \A j \in Jobs : Sound(jobs[j], today, rows)

-----------------------------------------------------------------------------
(* The calendar.                                                           *)

LEMMA TheNextDay ==
  ASSUME NEW x, Date(x)
  PROVE  /\ Date(NextDay(x))
         /\ NextDay(x)[1] \in x[1] .. x[1] + 1
         /\ NextDay(x)[1] = x[1] => NextDay(x)[2] = x[2] + 1
         /\ x[2] <= 27 => NextDay(x)[1] = x[1]
         /\ \A p \in Int \X Int : ~ Before(x, p) => ~ Before(NextDay(x), p)
<1>1. PICK m \in Int, d \in Int : x = <<m, d>>
      BY DEF Date
<1>2. DaysIn(m) \in 28 .. 31 /\ DaysIn(m + 1) \in 28 .. 31 /\ d \in 1 .. DaysIn(m)
      BY <1>1, DaysOfMonth, SMT DEF Date
<1>3. CASE d < DaysIn(m)
      <2>1. NextDay(x) = <<m, d + 1>>
            BY <1>1, <1>3 DEF NextDay
      <2>2. Date(<<m, d + 1>>)
            BY <1>1, <1>2, <1>3, SMT DEF Date
      <2>3. \A p \in Int \X Int : ~ Before(<<m, d>>, p) => ~ Before(<<m, d + 1>>, p)
            BY <1>1, SMT DEF Before
      <2>. QED BY <1>1, <2>1, <2>2, <2>3, SMT
<1>4. CASE ~ d < DaysIn(m)
      <2>1. NextDay(x) = <<m + 1, 1>> /\ ~ d <= 27
            BY <1>1, <1>2, <1>4, SMT DEF NextDay
      <2>2. Date(<<m + 1, 1>>)
            BY <1>1, <1>2, SMT DEF Date
      <2>3. \A p \in Int \X Int : ~ Before(<<m, d>>, p) => ~ Before(<<m + 1, 1>>, p)
            BY <1>1, SMT DEF Before
      <2>. QED BY <1>1, <2>1, <2>2, <2>3, SMT
<1>. QED
    BY <1>3, <1>4

(* Up to the 28th, every month has the day.                                *)
LEMMA MonthsBack ==
  ASSUME NEW x, Date(x), x[2] <= 28, NEW k \in Int
  PROVE  AddMonths(x, k) = <<x[1] + k, x[2]>>
<1>1. x[2] <= DaysIn(x[1] + k)
      BY DaysOfMonth, SMT DEF Date
<1>. QED
    BY <1>1 DEF AddMonths

LEMMA AddMonthsType ==
  ASSUME NEW x, Date(x), NEW k \in Int
  PROVE  AddMonths(x, k) \in Int \X Int
<1>1. x[1] \in Int /\ x[2] \in Int /\ DaysIn(x[1] + k) \in Int
      BY DaysOfMonth, SMT DEF Date
<1>. QED
    BY <1>1, SMT DEF AddMonths

LEMMA NearMonths ==
  ASSUME Clock
  PROVE  today[1] - 12 .. today[1] \subseteq Months
<1>1. PICK x \in FirstDays : today[1] \in x[1] .. x[1] + midnights
      BY DEF Clock
<1>2. x[1] \in Int /\ midnights \in 0 .. MaxDays /\ MaxDays \in Int /\ today[1] \in Int
      BY <1>1, FirstDaysAssumption, MaxDaysAssumption, SMT DEF Clock, Date
<1>3. today[1] - 12 .. today[1] \subseteq (x[1] - 14) .. (x[1] + MaxDays)
      BY <1>1, <1>2, SMT
<1>. QED
    BY <1>3 DEF Months

-----------------------------------------------------------------------------
(* What the rows say.                                                      *)

(* The constraint refuses exactly a month that is there already.           *)
LEMMA OverlapsItself ==
  ASSUME rows \subseteq Months, NEW m \in Months
  PROVE  Overlaps(m) <=> m \in rows
<1>1. m \in Int /\ rows \subseteq Int
      BY MonthsType
<1>2. \A r \in Int :
        (~ Before(RateEnd(r), RateStart(m)) /\ ~ Before(RateEnd(m), RateStart(r))) <=> r = m
      BY <1>1, SMT DEF Before, RateEnd, RateStart
<1>. QED
    BY <1>1, <1>2 DEF Overlaps

(* The rates of a book date are the row of one month.                      *)
LEMMA RatesOfDay ==
  ASSUME rows \subseteq Months, NEW m \in Int, NEW d \in 1 .. 31
  PROVE  RatesFor(<<m, d>>) = rows \intersect {IF d >= 15 THEN m ELSE m - 1}
<1>1. rows \subseteq Int
      BY MonthsType
<1>2. \A r \in Int :
        (~ Before(<<m, d>>, RateStart(r)) /\ ~ Before(RateEnd(r), <<m, d>>))
          <=> r = IF d >= 15 THEN m ELSE m - 1
      BY SMT DEF Before, RateEnd, RateStart
<1>. QED
    BY <1>1, <1>2 DEF RatesFor

LEMMA WantedMonth ==
  ASSUME Date(today), NEW i \in 1 .. 12
  PROVE  /\ Wanted(i) \in 0 .. 11
         /\ today[2] <= 28 => Wanted(i) = (today[1] + 1 - i) % 12
<1>1. 1 - i \in Int /\ today[1] \in Int
      BY SMT DEF Date
<1>2. AddMonths(today, 1 - i)[1] \in Int
      BY <1>1, AddMonthsType
<1>3. Wanted(i) \in 0 .. 11
      BY <1>2, MonthOfYear DEF Wanted
<1>4. ASSUME today[2] <= 28 PROVE Wanted(i) = (today[1] + 1 - i) % 12
      <2>1. AddMonths(today, 1 - i) = <<today[1] + (1 - i), today[2]>>
            BY <1>1, <1>4, MonthsBack
      <2>2. today[1] + (1 - i) = today[1] + 1 - i
            BY <1>1, SMT
      <2>. QED BY <2>1, <2>2 DEF Wanted
<1>. QED
    BY <1>3, <1>4

(* A run that begins after the publications of a month misses no month.    *)
LEMMA NoneIsOverlooked ==
  ASSUME Clock, PublishedRows, Midmonth(today),
         NEW m \in Window(today), m \notin rows
  PROVE  \E i \in DOMAIN MissingMonths : MissingMonths[i] = m % 12
<1>1. /\ today[1] \in Int /\ today[2] \in 9 .. 27 /\ Date(today)
      /\ numMonths \in 0 .. 12
      BY NumMonthsAssumption, SMT DEF Clock, Date, Midmonth
<1>2. m \in Int /\ today[1] + 1 - m \in 1 .. numMonths /\ today[1] + 1 - m \in 1 .. 12
      BY <1>1, SMT DEF Window
<1>3. Wanted(today[1] + 1 - m) = m % 12
      <2>1. today[1] + 1 - (today[1] + 1 - m) = m
            <3>1. \A t, n \in Int : t + 1 - (t + 1 - n) = n
                  BY SMT
            <3>. QED BY <1>1, <1>2, <3>1, Zenon
      <2>2. today[2] <= 28
            BY <1>1, SMT
      <2>. QED BY <1>1, <1>2, <2>1, <2>2, WantedMonth
<1>4. m % 12 \notin MonthsInDB
      <2> SUFFICES ASSUME m % 12 \in MonthsInDB PROVE FALSE
          OBVIOUS
      <2>1. PICK r \in rows : /\ r % 12 = m % 12
                              /\ ~ Before(PublicationDate[r], AddMonths(today, -numMonths))
                              /\ ~ Before(today, PublicationDate[r])
            BY DEF MonthsInDB
      <2>2. PICK d \in 1 .. 8 : PublicationDate[r] = <<r, d>>
            BY PublishedEarly DEF PublishedRows
      <2>3. AddMonths(today, -numMonths) = <<today[1] - numMonths, today[2]>>
            <3>1. -numMonths \in Int /\ today[2] <= 28
                  BY <1>1, SMT
            <3>2. AddMonths(today, -numMonths) = <<today[1] + (-numMonths), today[2]>>
                  BY <1>1, <3>1, MonthsBack
            <3>3. today[1] + (-numMonths) = today[1] - numMonths
                  BY <1>1, SMT
            <3>. QED BY <3>2, <3>3
      <2>4. r \in Int
            BY MonthsType DEF PublishedRows
      <2>5. r \in today[1] - numMonths + 1 .. today[1]
            BY <1>1, <2>1, <2>2, <2>3, <2>4, SMT DEF Before
      <2>6. m - r < 12 /\ r - m < 12
            BY <1>1, <2>4, <2>5, SMT DEF Window
      <2>7. r = m
            BY <1>2, <2>1, <2>4, <2>6, SameMonth
      <2>. QED BY <2>7
<1>. QED
    BY <1>2, <1>3, <1>4 DEF MissingMonths

(* What a run finds missing before the 29th is missing.                    *)
LEMMA MissingIsMissing ==
  ASSUME Clock, PublishedRows, today[2] <= 28,
         NEW i \in DOMAIN MissingMonths
  PROVE  /\ MissingMonths[i] = (today[1] + 1 - i) % 12
         /\ today[1] + 1 - i \notin rows
<1>1. today[1] \in Int /\ today[2] \in Int /\ numMonths \in 0 .. 12 /\ Date(today)
      BY NumMonthsAssumption, SMT DEF Clock, Date
<1>2. i \in 1 .. numMonths /\ i \in 1 .. 12 /\ Wanted(i) \notin MonthsInDB
      BY <1>1, SMT DEF MissingMonths
<1>3. Wanted(i) = (today[1] + 1 - i) % 12 /\ MissingMonths[i] = Wanted(i)
      BY <1>1, <1>2, WantedMonth DEF MissingMonths
<1> DEFINE m == today[1] + 1 - i
<1>4. m \in Int /\ m > today[1] - numMonths /\ m <= today[1]
      BY <1>1, <1>2, SMT
<1>5. ASSUME m \in rows PROVE FALSE
      <2>1. PICK d \in 1 .. 8 : PublicationDate[m] = <<m, d>>
            BY <1>5, PublishedEarly DEF PublishedRows
      <2>2. AddMonths(today, -numMonths) = <<today[1] - numMonths, today[2]>>
            <3>1. -numMonths \in Int
                  BY <1>1, SMT
            <3>2. AddMonths(today, -numMonths) = <<today[1] + (-numMonths), today[2]>>
                  BY <1>1, <3>1, MonthsBack
            <3>3. today[1] + (-numMonths) = today[1] - numMonths
                  BY <1>1, SMT
            <3>. QED BY <3>2, <3>3
      <2>3. ~ Before(PublicationDate[m], AddMonths(today, -numMonths))
            <3>. HIDE DEF m
            <3>. QED BY <1>1, <1>4, <2>1, <2>2, SMT DEF Before
      <2>4. ~ Before(today, PublicationDate[m])
            <3>. HIDE DEF m
            <3>1. CASE m = today[1]
                  BY <1>5, <3>1 DEF PublishedRows
            <3>2. CASE m < today[1]
                  BY <1>1, <1>4, <2>1, <3>2, SMT DEF Before
            <3>. QED BY <1>1, <1>4, <3>1, <3>2, SMT
      <2>5. m % 12 \in MonthsInDB
            BY <1>5, <2>3, <2>4 DEF MonthsInDB
      <2>. QED BY <1>2, <1>3, <2>5
<1>. QED
    BY <1>3, <1>5

-----------------------------------------------------------------------------
(* What the EIA answers.                                                   *)

LEMMA LatestMonthIs ==
  ASSUME Date(today)
  PROVE  /\ \A n \in 0 .. 11 : /\ LatestMonth(n) \in today[1] - 11 .. today[1]
                               /\ LatestMonth(n) \in Int
                               /\ LatestMonth(n) % 12 = n
         /\ \A m \in today[1] - 11 .. today[1] : LatestMonth(m % 12) = m
<1>1. today[1] \in Int
      BY SMT DEF Date
<1>2. \A n \in 0 .. 11 : /\ LatestMonth(n) \in today[1] - 11 .. today[1]
                         /\ LatestMonth(n) % 12 = n
      BY <1>1, LatestIsLate DEF LatestMonth
<1>3. \A m \in today[1] - 11 .. today[1] : m \in Int
      BY <1>1, SMT
<1>4. \A m \in today[1] - 11 .. today[1] : LatestMonth(m % 12) = m
      BY <1>1, <1>3, LatestOfYear DEF LatestMonth
<1>. QED
    BY <1>2, <1>3, <1>4

LEMMA PriceIsOut ==
  ASSUME Clock, NEW m \in Months, NEW out \in BOOLEAN
  PROVE  /\ Price(m, out) \in {m, None}
         /\ Price(m, out) # None => Price(m, out) = m /\ ~ Before(today, PublicationDate[m])
         /\ today[2] > 8 /\ m <= today[1] => Price(m, out) = m
<1>1. PICK d \in 1 .. 8 : PublicationDate[m] = <<m, d>>
      BY PublishedEarly
<1>2. m \in Int /\ today \in Int \X Int
      BY MonthsType DEF Clock, Date
<1>3. Published(m, out) => ~ Before(today, PublicationDate[m])
      BY <1>1, <1>2, SMT DEF Published, Before
<1>4. today[2] > 8 /\ m <= today[1] => Published(m, out)
      BY <1>1, <1>2, SMT DEF Published, Before
<1>. QED
    BY <1>3, <1>4 DEF Price

(* A run that began between the 9th and the 27th gets a price for every    *)
(* month it asks for, and asks for every month that it missed.             *)
LEMMA AllAreFetched ==
  ASSUME Clock, NEW r, r.pc = "found", NEW out \in BOOLEAN, NEW rs,
         Dated(r, today), InHand(r, today), Complete(r, rs), Midmonth(r.day)
  PROVE  /\ \A m \in Window(r.day) :
              m \in rs \/ \E i \in DOMAIN r.missing : Price(LatestMonth(r.missing[i]), out) = m
         /\ \A i \in DOMAIN r.missing : Price(LatestMonth(r.missing[i]), out) # None
<1>1. /\ Date(r.day)
      /\ today = r.day \/ today = NextDay(r.day)
      BY DEF Dated, Busy
<1>2. r.day[1] \in Int /\ r.day[2] \in 9 .. 27
      BY <1>1, SMT DEF Date, Midmonth
<1>3. /\ Date(today)
      /\ today[1] = r.day[1]
      /\ today[2] \in Int /\ today[2] > 8
      <2>1. CASE today = r.day
            BY <1>1, <1>2, <2>1, SMT
      <2>2. CASE today = NextDay(r.day)
            <3>1. /\ NextDay(r.day)[1] = r.day[1]
                  /\ NextDay(r.day)[2] = r.day[2] + 1
                  BY <1>1, <1>2, TheNextDay, SMT
            <3>. QED BY <1>2, <2>2, <3>1, SMT DEF Clock
      <2>. QED BY <1>1, <2>1, <2>2
<1>4. \A m \in today[1] - 11 .. today[1] : Price(m, out) = m /\ m \in Int
      <2>1. \A m \in today[1] - 11 .. today[1] : m \in today[1] - 12 .. today[1] /\ m <= today[1] /\ m \in Int
            BY <1>2, <1>3, SMT
      <2>. QED BY <1>3, <2>1, NearMonths, PriceIsOut
<1>5. \A i \in DOMAIN r.missing : Price(LatestMonth(r.missing[i]), out) # None
      BY <1>3, <1>4, LatestMonthIs, NoneAssumption DEF InHand
<1>6. ASSUME NEW m \in Window(r.day), m \notin rs
      PROVE  \E i \in DOMAIN r.missing : Price(LatestMonth(r.missing[i]), out) = m
      <2>1. PICK i \in DOMAIN r.missing : r.missing[i] = m % 12
            BY <1>6 DEF Complete
      <2>2. m \in today[1] - 11 .. today[1]
            BY <1>2, <1>3, NumMonthsAssumption, SMT DEF Window
      <2>3. LatestMonth(r.missing[i]) = m
            BY <1>3, <2>1, <2>2, LatestMonthIs
      <2>. QED BY <1>4, <2>2, <2>3
<1>. QED
    BY <1>5, <1>6

(* A run that began before the 29th, and has seen midnight or not, asks    *)
(* for months that are not in the table, each of them once.                *)
LEMMA NoneIsFetchedTwice ==
  ASSUME Clock, PublishedRows, NEW r, r.pc = "found", NEW out \in BOOLEAN,
         Dated(r, today), InHand(r, today), Fresh(r, rows), r.alone, r.day[2] <= 28,
         DOMAIN r.missing \subseteq 1 .. 12
  PROVE  \A i \in DOMAIN r.missing :
           Price(LatestMonth(r.missing[i]), out) # None =>
             /\ Price(LatestMonth(r.missing[i]), out) \notin rows
             /\ \A k \in DOMAIN r.missing \ {i} :
                  Price(LatestMonth(r.missing[k]), out) # Price(LatestMonth(r.missing[i]), out)
<1>1. /\ Date(r.day)
      /\ today = r.day \/ today = NextDay(r.day)
      /\ Date(today)
      BY DEF Dated, Busy, Clock
<1>2. r.day[1] \in Int /\ today[1] \in Int /\ today[1] \in r.day[1] .. r.day[1] + 1
      <2>1. r.day[1] \in Int /\ today[1] \in Int
            BY <1>1, SMT DEF Date
      <2>2. NextDay(r.day)[1] \in r.day[1] .. r.day[1] + 1
            BY <1>1, TheNextDay
      <2>. QED BY <1>1, <2>1, <2>2, SMT
<1>3. ASSUME NEW i \in DOMAIN r.missing
      PROVE  /\ LatestMonth(r.missing[i]) \in Months \ rows
             /\ LatestMonth(r.missing[i]) % 12 = r.missing[i]
      <2>1. /\ r.missing[i] \in 0 .. 11
            /\ r.missing[i] = (r.day[1] + 1 - i) % 12
            /\ r.day[1] + 1 - i \notin rows
            /\ \A m \in rows : m <= r.day[1]
            /\ i \in 1 .. 12
            BY DEF InHand, Fresh
      <2>2. LatestMonth(r.missing[i]) \in Months /\ LatestMonth(r.missing[i]) % 12 = r.missing[i]
            <3>1. /\ LatestMonth(r.missing[i]) \in today[1] - 11 .. today[1]
                  /\ LatestMonth(r.missing[i]) % 12 = r.missing[i]
                  BY <1>1, <2>1, LatestMonthIs
            <3>2. today[1] - 11 .. today[1] \subseteq today[1] - 12 .. today[1]
                  BY <1>2, SMT
            <3>. QED BY <3>1, <3>2, NearMonths
      <2>3. LatestMonth(r.missing[i]) \notin rows
            <3> DEFINE n == LatestMonth(r.missing[i])
                       m == r.day[1] + 1 - i
            <3>1. m \in Int /\ m \in r.day[1] - 11 .. r.day[1]
                  <4>1. \A a \in Int, b \in 1 .. 12 : a + 1 - b \in Int /\ a + 1 - b \in a - 11 .. a
                        BY SMT
                  <4>. QED BY <1>2, <2>1, <4>1
            <3>2. n \in Int /\ n \in today[1] - 11 .. today[1] /\ n % 12 = m % 12
                  BY <1>1, <2>1, LatestMonthIs
            <3>3. n = m \/ n > r.day[1]
                  <4>1. ASSUME n <= r.day[1] PROVE n = m
                        <5>1. n - m < 12 /\ m - n < 12
                              <6>. HIDE DEF n, m
                              <6>. QED BY <1>2, <3>1, <3>2, <4>1, SMT
                        <5>. QED BY <3>1, <3>2, <5>1, SameMonth
                  <4>. HIDE DEF n, m
                  <4>. QED BY <1>2, <3>1, <3>2, <4>1, SMT
            <3>4. m \notin rows
                  BY <2>1
            <3>5. ASSUME n \in rows PROVE FALSE
                  <4>1. n <= r.day[1]
                        BY <2>1, <3>5
                  <4>2. n = m
                        <5>. HIDE DEF n, m
                        <5>. QED BY <1>2, <3>2, <3>3, <4>1, SMT
                  <4>. HIDE DEF n, m
                  <4>. QED BY <3>4, <3>5, <4>2
            <3>. QED BY <3>5
      <2>. QED BY <2>2, <2>3
<1>4. ASSUME NEW i \in DOMAIN r.missing, NEW k \in DOMAIN r.missing, i # k
      PROVE  LatestMonth(r.missing[k]) # LatestMonth(r.missing[i])
      <2>1. /\ r.missing[i] = (r.day[1] + 1 - i) % 12
            /\ r.missing[k] = (r.day[1] + 1 - k) % 12
            /\ i \in 1 .. 12 /\ k \in 1 .. 12
            BY DEF Fresh
      <2>2. \A a \in Int, b, c \in 1 .. 12 :
              (a + 1 - b) % 12 = (a + 1 - c) % 12 => b = c
            BY SMT
      <2>3. r.missing[i] # r.missing[k]
            BY <1>2, <1>4, <2>1, <2>2
      <2>. QED BY <1>3, <2>3
<1>. QED
    BY <1>3, <1>4, PriceIsOut

-----------------------------------------------------------------------------
(* What a step leaves of a run.                                            *)

LEMMA NoMonths == DOMAIN <<>> = {} /\ <<>> \in Slices
<1>1. DOMAIN <<>> = {}
      BY SMT
<1>2. <<>> \in [{} -> Int \union {None}]
      BY SMT
<1>3. {} \in SUBSET (1 .. 12)
      OBVIOUS
<1>. QED
    BY <1>1, <1>2, <1>3 DEF Slices

LEMMA SliceDomain ==
  ASSUME NEW s \in Slices
  PROVE  /\ DOMAIN s \subseteq 1 .. 12
         /\ \A i \in DOMAIN s : s[i] \in Int \union {None}
         /\ s = [i \in DOMAIN s |-> s[i]]
BY DEF Slices

LEMMA AnySlice ==
  ASSUME NEW P \in SUBSET (1 .. 12), NEW f, f \in [P -> Int \union {None}]
  PROVE  f \in Slices
BY DEF Slices

LEMMA IdleIsAJob == Idle \in Job
BY NoMonths DEF Idle, Job

(* A run that has nothing in hand and promises nothing.                    *)
LEMMA OutOfWork ==
  ASSUME NEW r, NEW t, NEW rs, r.pc \in {"idle", "unread", "failed"},
         r.missing = <<>>, r.values = <<>>
  PROVE  Sound(r, t, rs)
BY NoMonths DEF Sound, Dated, Busy, InHand, Complete, Fresh

(* Another run begins.                                                     *)
LEMMA Overtaken ==
  ASSUME NEW r, NEW q, NEW t, NEW rs, Sound(r, t, rs),
         q.pc = r.pc, q.day = r.day, q.missing = r.missing, q.values = r.values,
         q.alone => r.alone
  PROVE  Sound(q, t, rs)
<1>1. Dated(q, t)
      BY DEF Sound, Dated, Busy
<1>2. InHand(q, t)
      BY DEF Sound, InHand
<1>3. Complete(q, rs)
      BY DEF Sound, Complete
<1>4. Fresh(q, rs)
      BY DEF Sound, Fresh
<1>. QED
    BY <1>1, <1>2, <1>3, <1>4 DEF Sound

(* Another run saves a month: no run in progress was alone.                *)
LEMMA RowsGrow ==
  ASSUME NEW r, NEW t, NEW rs, NEW ss, Sound(r, t, rs), rs \subseteq ss,
         Busy(r) => ~ r.alone
  PROVE  Sound(r, t, ss)
<1>1. Dated(r, t) /\ InHand(r, t)
      BY DEF Sound
<1>2. Complete(r, ss)
      BY DEF Sound, Complete
<1>3. Fresh(r, ss)
      BY DEF Sound, Fresh, Busy
<1>. QED
    BY <1>1, <1>2, <1>3 DEF Sound

(* Midnight during a run.                                                  *)
LEMMA OverMidnight ==
  ASSUME NEW r, NEW t, NEW rs, Sound(r, t, rs), Busy(r), r.day = t, Date(t)
  PROVE  Sound(r, NextDay(t), rs)
<1>1. Dated(r, NextDay(t))
      BY DEF Sound, Dated
<1>2. InHand(r, NextDay(t))
      <2>1. \A m \in Months : ~ Before(t, PublicationDate[m]) => ~ Before(NextDay(t), PublicationDate[m])
            <3>1. \A m \in Months : PublicationDate[m] \in Int \X Int
                  <4> SUFFICES ASSUME NEW m \in Months PROVE PublicationDate[m] \in Int \X Int
                      OBVIOUS
                  <4>1. PICK d \in 1 .. 8 : PublicationDate[m] = <<m, d>>
                        BY PublishedEarly
                  <4>2. m \in Int /\ d \in Int
                        BY MonthsType, SMT
                  <4>. QED BY <4>1, <4>2
            <3>. QED BY <3>1, TheNextDay
      <2>. QED BY <2>1 DEF Sound, InHand
<1>. QED
    BY <1>1, <1>2 DEF Sound

-----------------------------------------------------------------------------
(* The steps.                                                              *)

LEMMA InitInv == FuelInit => Inv
<1> SUFFICES ASSUME FuelInit PROVE Inv
    OBVIOUS
<1>1. Clock
      <2>1. today[1] \in Int /\ today \in FirstDays /\ Date(today)
            BY FirstDaysAssumption DEF FuelInit, Date
      <2>2. today[1] \in today[1] .. today[1] + 0 /\ 0 \in 0 .. MaxDays
            BY <2>1, MaxDaysAssumption, SMT
      <2>. QED BY <2>1, <2>2 DEF FuelInit, Clock
<1>2. PublishedRows
      <2>1. today[1] \in Int /\ today \in FirstDays
            BY FirstDaysAssumption DEF FuelInit
      <2>2. rows \subseteq today[1] - 13 .. today[1] - 1
            BY DEF FuelInit
      <2>3. today[1] - 13 .. today[1] - 1 \subseteq (today[1] - 14) .. (today[1] + MaxDays)
            BY <2>1, MaxDaysAssumption, SMT
      <2>4. rows \subseteq Months
            BY <2>1, <2>2, <2>3 DEF Months
      <2>5. \A r \in today[1] - 13 .. today[1] - 1 : r <= today[1] /\ r # today[1]
            BY <2>1, SMT
      <2>. QED BY <2>2, <2>4, <2>5 DEF PublishedRows
<1>3. Typed /\ OnlyOne
      BY IdleIsAJob DEF FuelInit, Typed, OnlyOne, Busy, Idle
<1>4. ASSUME NEW j \in Jobs PROVE Sound(jobs[j], today, rows)
      BY OutOfWork DEF FuelInit, Idle
<1>. QED
    BY <1>1, <1>2, <1>3, <1>4 DEF Inv

LEMMA FindInv ==
  ASSUME Inv, NEW j \in Jobs, Find(j)
  PROVE  Inv'
<1> DEFINE others == {k \in Jobs \ {j} : InProgress(k)}
           missing == MissingMonths
           mine == [pc |-> IF missing = <<>> THEN "stored" ELSE "found",
                    day |-> today, missing |-> missing, values |-> <<>>,
                    alone |-> others = {}]
<1>1. /\ ~ Busy(jobs[j])
      /\ jobs'[j] = mine
      /\ \A k \in Jobs \ {j} : jobs'[k] = [jobs[k] EXCEPT !.alone = @ /\ k \notin others]
      /\ jobs' = [k \in Jobs |-> IF k = j THEN mine
                                 ELSE [jobs[k] EXCEPT !.alone = @ /\ k \notin others]]
      /\ UNCHANGED <<today, rows, midnights>>
      BY DEF Find, InProgress, Busy
<1>2. Clock /\ PublishedRows /\ Typed /\ OnlyOne /\ Date(today)
      BY DEF Inv, Clock
<1>3. Clock' /\ PublishedRows'
      BY <1>1, <1>2 DEF Clock, PublishedRows, Date
<1>4. missing \in Slices
      <2> DEFINE P == {i \in 1 .. numMonths : Wanted(i) \notin MonthsInDB}
      <2>1. P \subseteq 1 .. 12
            BY NumMonthsAssumption, SMT
      <2>2. \A i \in P : Wanted(i) \in Int
            <3>1. \A i \in P : Wanted(i) \in 0 .. 11
                  BY <1>2, <2>1, WantedMonth
            <3>. QED BY <3>1, SMT
      <2>3. missing = [i \in P |-> Wanted(i)]
            BY DEF MissingMonths
      <2>4. missing \in [P -> Int \union {None}]
            <3>. HIDE DEF P, missing
            <3>. QED BY <2>2, <2>3
      <2>. HIDE DEF P, missing
      <2>. QED BY <2>1, <2>4, AnySlice
<1>5. mine \in Job
      <2>1. today \in Int \X Int
            BY <1>2 DEF Date
      <2>. HIDE DEF missing
      <2>. QED BY <1>4, <2>1, NoMonths DEF Job
<1>6. ASSUME NEW k \in Jobs \ {j}
      PROVE  /\ jobs'[k] \in Job
             /\ jobs'[k].pc = jobs[k].pc /\ jobs'[k].day = jobs[k].day
             /\ jobs'[k].missing = jobs[k].missing /\ jobs'[k].values = jobs[k].values
             /\ jobs'[k].alone = (jobs[k].alone /\ k \notin others)
      <2>1. jobs[k] \in Job
            BY <1>2 DEF Typed
      <2>. HIDE DEF mine, others, missing
      <2>2. jobs'[k] = [jobs[k] EXCEPT !.alone = jobs[k].alone /\ k \notin others]
            BY <1>1
      <2>. DEFINE old == jobs[k]
                  new == jobs'[k]
                  alone == jobs[k].alone /\ k \notin others
      <2>3. old \in Job /\ new = [old EXCEPT !.alone = alone] /\ alone \in BOOLEAN
            BY <2>1, <2>2
      <2>. HIDE DEF old, new, alone
      <2>4. /\ new \in Job
            /\ new.pc = old.pc /\ new.day = old.day
            /\ new.missing = old.missing /\ new.values = old.values
            /\ new.alone = alone
            BY <2>3 DEF Job
      <2>. QED BY <2>4 DEF old, new, alone
<1>7. Typed'
      <2>1. \A k \in Jobs : jobs'[k] \in Job
            BY <1>1, <1>5, <1>6
      <2>. HIDE DEF mine, others, missing
      <2>. QED BY <1>1, <2>1 DEF Typed
<1>8. OnlyOne'
      <2> SUFFICES ASSUME NEW a \in Jobs, Busy(jobs'[a]), jobs'[a].alone, NEW b \in Jobs \ {a}
                   PROVE  ~ Busy(jobs'[b])
          BY DEF OnlyOne
      <2>1. CASE a = j
            <3>1. others = {}
                  BY <1>1, <2>1
            <3>2. ~ Busy(jobs[b])
                  BY <2>1, <3>1 DEF InProgress, Busy
            <3>. QED BY <1>6, <2>1, <3>2 DEF Busy
      <2>2. CASE a # j
            <3>1. Busy(jobs[a]) /\ a \notin others
                  BY <1>6, <2>2 DEF Busy
            <3>. QED BY <2>2, <3>1 DEF Busy, InProgress
      <2>. QED BY <2>1, <2>2
<1>9. Sound(mine, today, rows)
      <2>1. Dated(mine, today)
            BY <1>2 DEF Dated
      <2>2. InHand(mine, today)
            <3>1. \A i \in DOMAIN missing : missing[i] \in 0 .. 11
                  <4>1. \A i \in DOMAIN missing : i \in 1 .. 12 /\ missing[i] = Wanted(i)
                        BY NumMonthsAssumption, SMT DEF MissingMonths
                  <4>. QED BY <1>2, <4>1, WantedMonth
            <3>2. DOMAIN missing = {} => missing = <<>>
                  <4>1. missing = [i \in DOMAIN missing |-> missing[i]]
                        BY <1>4, SliceDomain
                  <4>. HIDE DEF missing
                  <4>. QED BY <4>1
            <3>. HIDE DEF missing
            <3>. QED BY <3>1, <3>2, NoMonths DEF InHand
      <2>3. Complete(mine, rows)
            <3> SUFFICES ASSUME Midmonth(today), NEW m \in Window(today), m \notin rows
                         PROVE  missing # <<>> /\ \E i \in DOMAIN missing : missing[i] = m % 12
                BY DEF Complete
            <3>1. \E i \in DOMAIN missing : missing[i] = m % 12
                  BY <1>2, NoneIsOverlooked
            <3>. HIDE DEF missing
            <3>. QED BY <3>1, NoMonths
      <2>4. Fresh(mine, rows)
            <3> SUFFICES ASSUME today[2] <= 28
                         PROVE  /\ \A m \in rows : m <= today[1]
                                /\ \A i \in DOMAIN missing :
                                     /\ missing[i] = (today[1] + 1 - i) % 12
                                     /\ today[1] + 1 - i \notin rows
                BY DEF Fresh
            <3>. QED BY <1>2, MissingIsMissing DEF PublishedRows
      <2>. HIDE DEF mine
      <2>. QED BY <2>1, <2>2, <2>3, <2>4 DEF Sound
<1>10. ASSUME NEW k \in Jobs PROVE Sound(jobs'[k], today', rows')
      <2>. HIDE DEF mine, others
      <2>1. CASE k = j
            BY <1>1, <1>9, <2>1
      <2>2. CASE k # j
            <3>1. Sound(jobs[k], today, rows)
                  BY DEF Inv
            <3>2. Sound(jobs'[k], today, rows)
                  BY <1>6, <2>2, <3>1, Overtaken
            <3>. QED BY <1>1, <3>2
      <2>. QED BY <2>1, <2>2
<1>. QED
    BY <1>3, <1>7, <1>8, <1>10 DEF Inv

LEMMA EndsJob ==
  ASSUME Typed, NEW j \in Jobs, NEW how \in {"stored", "refused", "failed"}
  PROVE  /\ Ends(j, how) \in [Jobs -> Job]
         /\ Ends(j, how)[j].pc = how
         /\ Ends(j, how)[j].day = jobs[j].day
         /\ Ends(j, how)[j].missing = <<>>
         /\ Ends(j, how)[j].values = <<>>
         /\ Ends(j, how)[j].alone = jobs[j].alone
         /\ \A k \in Jobs \ {j} : Ends(j, how)[k] = jobs[k]
<1>1. jobs[j] \in Job
      BY DEF Typed
<1> DEFINE q == [jobs[j] EXCEPT !.pc = how, !.missing = <<>>, !.values = <<>>]
<1>2. q \in Job /\ q.pc = how /\ q.day = jobs[j].day /\ q.missing = <<>> /\ q.values = <<>>
      /\ q.alone = jobs[j].alone
      BY <1>1, NoMonths DEF Job
<1>3. Ends(j, how) = [jobs EXCEPT ![j] = q]
      BY DEF Ends, Typed
<1> HIDE DEF q
<1>. QED
    BY <1>2, <1>3 DEF Typed

(* A run that ends leaves the others as they were, and the only one only.  *)
LEMMA StillOnlyOne ==
  ASSUME OnlyOne, NEW j \in Jobs,
         Busy(jobs'[j]) => Busy(jobs[j]),
         jobs'[j].alone = jobs[j].alone \/ ~ Busy(jobs'[j]),
         \A k \in Jobs \ {j} : jobs'[k] = jobs[k]
  PROVE  OnlyOne'
BY DEF OnlyOne

LEMMA FindFailsInv ==
  ASSUME Inv, NEW j \in Jobs, FindFails(j)
  PROVE  Inv'
<1> DEFINE q == [Idle EXCEPT !.pc = "unread"]
<1>1. jobs' = [jobs EXCEPT ![j] = q] /\ UNCHANGED <<today, rows, midnights>>
      BY DEF FindFails
<1>2. q \in Job /\ q.pc = "unread" /\ q.missing = <<>> /\ q.values = <<>>
      BY NoMonths DEF Idle, Job
<1> HIDE DEF q
<1>3. jobs'[j] = q /\ \A k \in Jobs \ {j} : jobs'[k] = jobs[k]
      BY <1>1 DEF Inv, Typed
<1>4. Clock' /\ PublishedRows'
      BY <1>1 DEF Inv, Clock, PublishedRows, Date
<1>5. Typed'
      BY <1>1, <1>2 DEF Inv, Typed
<1>6. OnlyOne'
      <2>1. ~ Busy(jobs'[j])
            BY <1>2, <1>3 DEF Busy
      <2>. QED BY <1>3, <2>1, StillOnlyOne DEF Inv
<1>7. ASSUME NEW k \in Jobs PROVE Sound(jobs'[k], today', rows')
      <2>1. CASE k = j
            BY <1>2, <1>3, <2>1, OutOfWork
      <2>2. CASE k # j
            BY <1>1, <1>3, <2>2 DEF Inv
      <2>. QED BY <2>1, <2>2
<1>. QED
    BY <1>4, <1>5, <1>6, <1>7 DEF Inv

LEMMA FuelFailInv ==
  ASSUME Inv, NEW j \in Jobs, FuelFail(j)
  PROVE  Inv'
<1>1. jobs' = Ends(j, "failed") /\ UNCHANGED <<today, rows, midnights>>
      BY DEF FuelFail
<1>2. /\ jobs' \in [Jobs -> Job]
      /\ jobs'[j].pc = "failed" /\ jobs'[j].missing = <<>> /\ jobs'[j].values = <<>>
      /\ \A k \in Jobs \ {j} : jobs'[k] = jobs[k]
      BY <1>1, EndsJob DEF Inv
<1>3. Clock' /\ PublishedRows'
      BY <1>1 DEF Inv, Clock, PublishedRows, Date
<1>4. OnlyOne'
      <2>1. ~ Busy(jobs'[j])
            BY <1>2 DEF Busy
      <2>. QED BY <1>2, <2>1, StillOnlyOne DEF Inv
<1>5. ASSUME NEW k \in Jobs PROVE Sound(jobs'[k], today', rows')
      <2>1. CASE k = j
            BY <1>2, <2>1, OutOfWork
      <2>2. CASE k # j
            BY <1>1, <1>2, <2>2 DEF Inv
      <2>. QED BY <2>1, <2>2
<1>. QED
    BY <1>2, <1>3, <1>4, <1>5 DEF Inv, Typed

LEMMA MidnightInv ==
  ASSUME Inv, Midnight
  PROVE  Inv'
<1>1. /\ midnights < MaxDays
      /\ \A j \in Jobs : Busy(jobs[j]) => jobs[j].day = today
      /\ today' = NextDay(today)
      /\ midnights' = midnights + 1
      /\ jobs' = [j \in Jobs |-> IF Busy(jobs[j]) THEN jobs[j] ELSE Idle]
      /\ rows' = rows
      BY DEF Midnight, InProgress, Busy
<1>2. Clock /\ PublishedRows /\ Typed /\ OnlyOne /\ Date(today)
      BY DEF Inv, Clock
<1>3. /\ Date(today')
      /\ today'[1] \in today[1] .. today[1] + 1
      /\ \A p \in Int \X Int : ~ Before(today, p) => ~ Before(today', p)
      BY <1>1, <1>2, TheNextDay
<1>4. Clock'
      <2>1. PICK x \in FirstDays : today[1] \in x[1] .. x[1] + midnights
            BY <1>2 DEF Clock
      <2>2. x[1] \in Int /\ midnights \in 0 .. MaxDays /\ today[1] \in Int
            BY <1>2, FirstDaysAssumption, SMT DEF Clock, Date
      <2>3. today'[1] \in x[1] .. x[1] + midnights' /\ midnights' \in 0 .. MaxDays
            BY <1>1, <1>3, <2>1, <2>2, MaxDaysAssumption, SMT
      <2>. QED BY <1>3, <2>3 DEF Clock
<1>5. PublishedRows'
      <2>1. ASSUME NEW r \in rows
            PROVE  /\ r <= today'[1]
                   /\ r = today'[1] => ~ Before(today', PublicationDate[r])
            <3>1. r \in Int /\ r <= today[1] /\ today[1] \in Int /\ r \in Months
                  BY <1>2, MonthsType, SMT DEF PublishedRows, Date
            <3>2. r <= today'[1]
                  BY <1>3, <3>1, SMT
            <3>3. ~ Before(today, PublicationDate[r])
                  <4>1. PICK d \in 1 .. 8 : PublicationDate[r] = <<r, d>>
                        BY <3>1, PublishedEarly
                  <4>2. CASE r < today[1]
                        BY <3>1, <4>1, <4>2, SMT DEF Before
                  <4>3. CASE r = today[1]
                        BY <1>2, <4>3 DEF PublishedRows
                  <4>. QED BY <3>1, <4>2, <4>3, SMT
            <3>4. PublicationDate[r] \in Int \X Int
                  <4>1. PICK d \in 1 .. 8 : PublicationDate[r] = <<r, d>>
                        BY <3>1, PublishedEarly
                  <4>2. d \in Int
                        BY SMT
                  <4>. QED BY <3>1, <4>1, <4>2
            <3>. QED BY <1>3, <3>2, <3>3, <3>4
      <2>. QED BY <1>1, <1>2, <2>1 DEF PublishedRows
<1>6. \A k \in Jobs : /\ Busy(jobs'[k]) => Busy(jobs[k]) /\ jobs'[k] = jobs[k]
                      /\ ~ Busy(jobs[k]) => jobs'[k] = Idle
                      /\ Busy(jobs[k]) => jobs'[k] = jobs[k]
      BY <1>1 DEF Busy, Idle
<1>7. Typed' /\ OnlyOne'
      BY <1>1, <1>2, <1>6, IdleIsAJob DEF Typed, OnlyOne
<1>8. ASSUME NEW k \in Jobs PROVE Sound(jobs'[k], today', rows')
      <2>1. CASE Busy(jobs[k])
            <3>1. Sound(jobs[k], today, rows) /\ jobs[k].day = today
                  BY <1>1, <2>1 DEF Inv
            <3>2. Sound(jobs[k], NextDay(today), rows)
                  BY <1>2, <2>1, <3>1, OverMidnight
            <3>. QED BY <1>1, <1>6, <2>1, <3>2
      <2>2. CASE ~ Busy(jobs[k])
            <3>1. jobs'[k] = Idle
                  BY <1>6, <2>2
            <3>. QED BY <3>1, OutOfWork DEF Idle
      <2>. QED BY <2>1, <2>2
<1>. QED
    BY <1>4, <1>5, <1>7, <1>8 DEF Inv

LEMMA FetchInv ==
  ASSUME Inv, NEW j \in Jobs, Fetch(j)
  PROVE  Inv'
<1> DEFINE r == jobs[j]
           months == [i \in DOMAIN r.missing |-> LatestMonth(r.missing[i])]
           prices(out) == [i \in DOMAIN r.missing |-> Price(LatestMonth(r.missing[i]), out)]
           given(out) == [r EXCEPT !.pc = "storing", !.missing = <<>>, !.values = prices(out)]
<1>1. /\ r.pc = "found" /\ UNCHANGED <<today, rows, midnights>>
      /\ \E out \in BOOLEAN :
           jobs' = Ends(j, "failed") \/
           jobs' = [jobs EXCEPT ![j].pc = "storing", ![j].missing = <<>>,
                      ![j].values = [i \in DOMAIN months |-> Price(months[i], out)]]
      BY DEF Fetch
<1>2. PICK out \in BOOLEAN :
        jobs' = Ends(j, "failed") \/
        jobs' = [jobs EXCEPT ![j].pc = "storing", ![j].missing = <<>>,
                   ![j].values = [i \in DOMAIN months |-> Price(months[i], out)]]
      BY <1>1
<1>3. /\ Clock /\ PublishedRows /\ Typed /\ OnlyOne /\ Date(today)
      /\ r \in Job /\ Sound(r, today, rows)
      BY DEF Inv, Clock, Typed
<1>4. Clock' /\ PublishedRows'
      BY <1>1, <1>3 DEF Clock, PublishedRows, Date
<1>5. CASE jobs' = Ends(j, "failed")
      <2>1. /\ jobs' \in [Jobs -> Job]
            /\ jobs'[j].pc = "failed" /\ jobs'[j].missing = <<>> /\ jobs'[j].values = <<>>
            /\ \A k \in Jobs \ {j} : jobs'[k] = jobs[k]
            BY <1>3, <1>5, EndsJob
      <2>2. OnlyOne'
            <3>1. ~ Busy(jobs'[j])
                  BY <2>1 DEF Busy
            <3>. QED BY <1>3, <2>1, <3>1, StillOnlyOne
      <2>3. ASSUME NEW k \in Jobs PROVE Sound(jobs'[k], today', rows')
            <3>1. CASE k = j
                  BY <2>1, <3>1, OutOfWork
            <3>2. CASE k # j
                  BY <1>1, <2>1, <3>2 DEF Inv
            <3>. QED BY <3>1, <3>2
      <2>. QED BY <1>4, <2>1, <2>2, <2>3 DEF Inv, Typed
<1>6. CASE jobs' = [jobs EXCEPT ![j].pc = "storing", ![j].missing = <<>>,
                      ![j].values = [i \in DOMAIN months |-> Price(months[i], out)]]
      <2>1. [i \in DOMAIN months |-> Price(months[i], out)] = prices(out)
            OBVIOUS
      <2>2. jobs' = [jobs EXCEPT ![j] = given(out)]
            <3>. HIDE DEF months, prices
            <3>. QED BY <1>6, <2>1
      <2>3. DOMAIN r.missing \subseteq 1 .. 12
            BY <1>3, SliceDomain DEF Job
      <2>4. \A i \in DOMAIN r.missing : LatestMonth(r.missing[i]) \in Months
            <3>1. \A i \in DOMAIN r.missing : LatestMonth(r.missing[i]) \in today[1] - 11 .. today[1]
                  BY <1>3, LatestMonthIs DEF Sound, InHand
            <3>2. today[1] - 11 .. today[1] \subseteq today[1] - 12 .. today[1]
                  <4>1. today[1] \in Int
                        BY <1>3, SMT DEF Date
                  <4>. QED BY <4>1, SMT
            <3>. QED BY <1>3, <3>1, <3>2, NearMonths
      <2>5. \A i \in DOMAIN r.missing :
              \/ Price(LatestMonth(r.missing[i]), out) = None
              \/ /\ Price(LatestMonth(r.missing[i]), out) \in Months
                 /\ ~ Before(today, PublicationDate[Price(LatestMonth(r.missing[i]), out)])
            BY <1>3, <2>4, PriceIsOut
      <2>6. prices(out) \in Slices
            <3>1. prices(out) \in [DOMAIN r.missing -> Int \union {None}]
                  BY <2>5, MonthsType
            <3>. HIDE DEF prices
            <3>. QED BY <2>3, <3>1, AnySlice
      <2> DEFINE q == given(out)
      <2>7. /\ q \in Job /\ q.pc = "storing" /\ q.day = r.day /\ q.missing = <<>>
            /\ q.values = prices(out) /\ q.alone = r.alone
            <3>. HIDE DEF prices
            <3>. QED BY <1>3, <2>6, NoMonths DEF Job
      <2>8. DOMAIN prices(out) = DOMAIN r.missing
            OBVIOUS
      <2> HIDE DEF q
      <2>9. jobs'[j] = q /\ \A k \in Jobs \ {j} : jobs'[k] = jobs[k]
            BY <1>3, <2>2 DEF q, Typed
      <2>10. Typed'
            <3>1. jobs' = [jobs EXCEPT ![j] = q]
                  BY <2>2 DEF q
            <3>. QED BY <1>3, <2>7, <3>1 DEF Typed
      <2>11. OnlyOne'
            <3>1. Busy(jobs[j])
                  BY <1>1 DEF Busy
            <3>. QED BY <1>3, <2>7, <2>9, <3>1, StillOnlyOne
      <2>12. Dated(q, today)
            BY <1>1, <1>3, <2>7 DEF Sound, Dated, Busy
      <2>13. InHand(q, today)
            <3>1. DOMAIN r.missing # {}
                  BY <1>1, <1>3 DEF Sound, InHand
            <3>. QED BY <2>5, <2>7, <2>8, <3>1, NoMonths DEF InHand
      <2>14. Complete(q, rows)
            <3> SUFFICES ASSUME Midmonth(r.day)
                         PROVE  /\ \A m \in Window(r.day) :
                                     m \in rows \/ \E i \in DOMAIN q.values : q.values[i] = m
                                /\ \A i \in DOMAIN q.values : q.values[i] # None
                BY <2>7 DEF Complete
            <3>1. /\ \A m \in Window(r.day) :
                       m \in rows \/ \E i \in DOMAIN r.missing : Price(LatestMonth(r.missing[i]), out) = m
                  /\ \A i \in DOMAIN r.missing : Price(LatestMonth(r.missing[i]), out) # None
                  BY <1>1, <1>3, AllAreFetched DEF Sound
            <3>. QED BY <2>7, <2>8, <3>1
      <2>15. Fresh(q, rows)
            <3> SUFFICES ASSUME r.alone, r.day[2] <= 28
                         PROVE  \A i \in DOMAIN q.values :
                                  q.values[i] # None =>
                                    /\ q.values[i] \notin rows
                                    /\ \A k \in DOMAIN q.values \ {i} : q.values[k] # q.values[i]
                BY <2>7 DEF Fresh
            <3>1. \A i \in DOMAIN r.missing :
                    Price(LatestMonth(r.missing[i]), out) # None =>
                      /\ Price(LatestMonth(r.missing[i]), out) \notin rows
                      /\ \A k \in DOMAIN r.missing \ {i} :
                           Price(LatestMonth(r.missing[k]), out) # Price(LatestMonth(r.missing[i]), out)
                  BY <1>1, <1>3, <2>3, NoneIsFetchedTwice DEF Sound
            <3>. QED BY <2>7, <2>8, <3>1
      <2>16. ASSUME NEW k \in Jobs PROVE Sound(jobs'[k], today', rows')
            <3>1. CASE k = j
                  BY <1>1, <2>9, <2>12, <2>13, <2>14, <2>15, <3>1 DEF Sound
            <3>2. CASE k # j
                  BY <1>1, <2>9, <3>2 DEF Inv
            <3>. QED BY <3>1, <3>2
      <2>. QED BY <1>4, <2>10, <2>11, <2>16 DEF Inv
<1>. QED
    BY <1>2, <1>5, <1>6

LEMMA StoreInv ==
  ASSUME Inv, NEW j \in Jobs, Store(j)
  PROVE  Inv'
<1> DEFINE r == jobs[j]
<1>1. r.pc = "storing" /\ UNCHANGED <<today, midnights>> /\ Busy(r)
      BY DEF Store, Busy
<1>2. /\ Clock /\ PublishedRows /\ Typed /\ OnlyOne /\ Date(today)
      /\ r \in Job /\ Sound(r, today, rows)
      BY DEF Inv, Clock, Typed
<1>3. PICK first \in DOMAIN r.values :
        LET month == r.values[first]
            behind == DOMAIN r.values \ {first}
            saved == month # None /\ ~ Overlaps(month)
        IN  /\ rows' = IF saved THEN rows \union {month} ELSE rows
            /\ jobs' = IF saved /\ behind # {}
                         THEN [jobs EXCEPT ![j].values = [i \in behind |-> jobs[j].values[i]]]
                       ELSE Ends(j, IF saved \/ month = None THEN "stored" ELSE "refused")
      BY DEF Store
<1> DEFINE month == r.values[first]
           behind == DOMAIN r.values \ {first}
           saved == month # None /\ month \notin rows
<1>4. month = None \/ (month \in Months /\ ~ Before(today, PublicationDate[month]))
      BY <1>2 DEF Sound, InHand
<1>5. month # None => (Overlaps(month) <=> month \in rows)
      BY <1>2, <1>4, OverlapsItself DEF PublishedRows
<1>6. /\ rows' = IF saved THEN rows \union {month} ELSE rows
      /\ jobs' = IF saved /\ behind # {}
                   THEN [jobs EXCEPT ![j].values = [i \in behind |-> jobs[j].values[i]]]
                 ELSE Ends(j, IF saved \/ month = None THEN "stored" ELSE "refused")
      BY <1>3, <1>5
<1>7. Clock'
      BY <1>1, <1>2 DEF Clock, Date
<1>8. PublishedRows'
      <2>1. CASE saved
            <3>1. PICK d \in 1 .. 8 : PublicationDate[month] = <<month, d>>
                  BY <1>4, <2>1, PublishedEarly
            <3>2. month \in Int /\ today[1] \in Int
                  <4>1. month \in Months
                        BY <1>4, <2>1
                  <4>2. today[1] \in Int
                        BY <1>2, SMT DEF Date
                  <4>. HIDE DEF month
                  <4>. QED BY <4>1, <4>2, MonthsType
            <3> HIDE DEF month
            <3>3. month <= today[1]
                  BY <1>4, <2>1, <3>1, <3>2, SMT DEF Before
            <3>. QED BY <1>1, <1>2, <1>4, <1>6, <2>1, <3>3 DEF PublishedRows
      <2>2. CASE ~ saved
            BY <1>1, <1>2, <1>6, <2>2 DEF PublishedRows
      <2>. QED BY <2>1, <2>2
<1>9. ASSUME NEW k \in Jobs \ {j}, jobs'[k] = jobs[k]
      PROVE  Sound(jobs'[k], today', rows')
      <2>1. Busy(jobs[k]) => ~ jobs[k].alone
            BY <1>1, <1>2 DEF OnlyOne
      <2>2. Sound(jobs[k], today, rows) /\ rows \subseteq rows'
            BY <1>6 DEF Inv
      <2>. QED BY <1>1, <1>9, <2>1, <2>2, RowsGrow
<1>10. CASE saved /\ behind # {}
      <2> DEFINE left == [i \in behind |-> r.values[i]]
                 q == [r EXCEPT !.values = left]
      <2>1. behind \subseteq 1 .. 12 /\ left \in [behind -> Int \union {None}]
            BY <1>2, SliceDomain DEF Job
      <2>2. left \in Slices
            <3>. HIDE DEF left, behind
            <3>. QED BY <2>1, AnySlice
      <2>3. DOMAIN left = behind /\ \A i \in behind : left[i] = r.values[i]
            OBVIOUS
      <2>4. jobs' = [jobs EXCEPT ![j] = q]
            <3>1. jobs' = [jobs EXCEPT ![j].values = left]
                  BY <1>6, <1>10
            <3>. HIDE DEF left
            <3>. QED BY <3>1
      <2>5. /\ q \in Job /\ q.pc = "storing" /\ q.day = r.day /\ q.missing = r.missing
            /\ q.values = left /\ q.alone = r.alone
            <3>. HIDE DEF left
            <3>. QED BY <1>1, <1>2, <2>2 DEF Job
      <2> HIDE DEF q, left
      <2>6. jobs'[j] = q /\ \A k \in Jobs \ {j} : jobs'[k] = jobs[k]
            BY <1>2, <2>4 DEF Typed
      <2>7. Typed'
            BY <1>2, <2>4, <2>5 DEF Typed
      <2>8. OnlyOne'
            BY <1>1, <1>2, <2>5, <2>6, StillOnlyOne
      <2>9. Dated(q, today)
            BY <1>2, <1>1, <2>5 DEF Sound, Dated, Busy
      <2>10. InHand(q, today)
            BY <1>2, <1>10, <2>3, <2>5 DEF Sound, InHand
      <2>11. rows' = rows \union {month}
            BY <1>6, <1>10
      <2>12. Complete(q, rows')
            <3> SUFFICES ASSUME Midmonth(r.day)
                         PROVE  /\ \A m \in Window(r.day) : m \in rows' \/ \E i \in behind : left[i] = m
                                /\ \A i \in behind : left[i] # None
                BY <2>3, <2>5 DEF Complete
            <3>1. /\ \A m \in Window(r.day) : m \in rows \/ \E i \in DOMAIN r.values : r.values[i] = m
                  /\ \A i \in DOMAIN r.values : r.values[i] # None
                  BY <1>1, <1>2 DEF Sound, Complete
            <3>. QED BY <2>3, <2>11, <3>1
      <2>13. Fresh(q, rows')
            <3> SUFFICES ASSUME r.alone, r.day[2] <= 28
                         PROVE  \A i \in behind :
                                  left[i] # None => /\ left[i] \notin rows'
                                                    /\ \A k \in behind \ {i} : left[k] # left[i]
                BY <2>3, <2>5 DEF Fresh
            <3>1. \A i \in DOMAIN r.values :
                    r.values[i] # None =>
                      /\ r.values[i] \notin rows
                      /\ \A k \in DOMAIN r.values \ {i} : r.values[k] # r.values[i]
                  BY <1>1, <1>2 DEF Sound, Fresh
            <3>. QED BY <2>3, <2>11, <3>1
      <2>14. ASSUME NEW k \in Jobs PROVE Sound(jobs'[k], today', rows')
            <3>1. CASE k = j
                  BY <1>1, <2>6, <2>9, <2>10, <2>12, <2>13, <3>1 DEF Sound
            <3>2. CASE k # j
                  BY <1>9, <2>6, <3>2
            <3>. QED BY <3>1, <3>2
      <2>. QED BY <1>7, <1>8, <2>7, <2>8, <2>14 DEF Inv
<1>11. CASE ~ (saved /\ behind # {})
      <2> DEFINE how == IF saved \/ month = None THEN "stored" ELSE "refused"
      <2>1. jobs' = Ends(j, how) /\ how \in {"stored", "refused"}
            BY <1>6, <1>11
      <2>2. how = "stored" => (saved /\ behind = {}) \/ month = None
            BY <1>11
      <2>3. how = "refused" => month # None /\ month \in rows
            OBVIOUS
      <2>4. saved => rows' = rows \union {month}
            BY <1>6
      <2> HIDE DEF how
      <2>5. /\ jobs' \in [Jobs -> Job]
            /\ jobs'[j].pc = how /\ jobs'[j].day = r.day
            /\ jobs'[j].missing = <<>> /\ jobs'[j].values = <<>> /\ jobs'[j].alone = r.alone
            /\ \A k \in Jobs \ {j} : jobs'[k] = jobs[k]
            BY <1>2, <2>1, EndsJob
      <2>6. OnlyOne'
            <3>1. ~ Busy(jobs'[j])
                  BY <2>1, <2>5 DEF Busy
            <3>. QED BY <1>2, <2>5, <3>1, StillOnlyOne
      <2>7. Dated(jobs'[j], today)
            BY <1>1, <1>2, <2>1, <2>5 DEF Sound, Dated, Busy
      <2>8. InHand(jobs'[j], today)
            BY <2>1, <2>5, NoMonths DEF InHand
      <2>9. Complete(jobs'[j], rows')
            <3> SUFFICES ASSUME Midmonth(r.day), how = "stored" PROVE Window(r.day) \subseteq rows'
                BY <2>1, <2>5 DEF Complete
            <3>1. /\ \A m \in Window(r.day) : m \in rows \/ \E i \in DOMAIN r.values : r.values[i] = m
                  /\ \A i \in DOMAIN r.values : r.values[i] # None
                  BY <1>1, <1>2 DEF Sound, Complete
            <3>2. saved /\ behind = {}
                  BY <2>2, <3>1
            <3>. QED BY <2>4, <3>1, <3>2
      <2>10. Fresh(jobs'[j], rows')
            <3> SUFFICES ASSUME r.alone, r.day[2] <= 28, how = "refused" PROVE FALSE
                BY <2>1, <2>5 DEF Fresh
            <3>1. \A i \in DOMAIN r.values : r.values[i] # None => r.values[i] \notin rows
                  BY <1>1, <1>2 DEF Sound, Fresh
            <3>. QED BY <2>3, <3>1
      <2>11. ASSUME NEW k \in Jobs PROVE Sound(jobs'[k], today', rows')
            <3>1. CASE k = j
                  BY <1>1, <2>7, <2>8, <2>9, <2>10, <3>1 DEF Sound
            <3>2. CASE k # j
                  BY <1>9, <2>5, <3>2
            <3>. QED BY <3>1, <3>2
      <2>. QED BY <1>7, <1>8, <2>5, <2>6, <2>11 DEF Inv, Typed
<1>. QED
    BY <1>10, <1>11

LEMMA StutterInv ==
  ASSUME Inv, UNCHANGED fuelVars
  PROVE  Inv'
BY DEF Inv, fuelVars, Clock, PublishedRows, Typed, OnlyOne, Date

-----------------------------------------------------------------------------
(* The theorems.                                                           *)

(* The invariant holds in every state of the task.                         *)
THEOREM Invariance == FuelSpec => []Inv
<1>1. Inv /\ [FuelNext]_fuelVars => Inv'
      <2> SUFFICES ASSUME Inv, [FuelNext]_fuelVars PROVE Inv'
          OBVIOUS
      <2>1. ASSUME NEW j \in Jobs, Find(j) PROVE Inv'
            BY <2>1, FindInv
      <2>2. ASSUME NEW j \in Jobs, FindFails(j) PROVE Inv'
            BY <2>2, FindFailsInv
      <2>3. ASSUME NEW j \in Jobs, Fetch(j) PROVE Inv'
            BY <2>3, FetchInv
      <2>4. ASSUME NEW j \in Jobs, Store(j) PROVE Inv'
            BY <2>4, StoreInv
      <2>5. ASSUME NEW j \in Jobs, FuelFail(j) PROVE Inv'
            BY <2>5, FuelFailInv
      <2>6. CASE Midnight
            BY <2>6, MidnightInv
      <2>7. CASE UNCHANGED fuelVars
            BY <2>7, StutterInv
      <2>. QED BY <2>1, <2>2, <2>3, <2>4, <2>5, <2>6, <2>7 DEF FuelNext
<1>. QED
    BY InitInv, <1>1, PTL DEF FuelSpec

(* Types, and: the table has only prices that are out, and a run saves     *)
(* only such prices.                                                       *)
THEOREM FuelPricesTypeCorrect == FuelSpec => []FuelTypeOK
<1>1. Inv => FuelTypeOK
      <2> SUFFICES ASSUME Inv PROVE FuelTypeOK
          OBVIOUS
      <2>1. ASSUME NEW j \in Jobs
            PROVE  /\ jobs[j].pc \in {"idle", "found", "storing", "stored", "unread", "refused", "failed"}
                   /\ \A i \in DOMAIN jobs[j].missing : jobs[j].missing[i] \in 0 .. 11
                   /\ \A i \in DOMAIN jobs[j].values :
                        jobs[j].values[i] = None \/ ~ Before(today, PublicationDate[jobs[j].values[i]])
                   /\ jobs[j].pc = "found" => jobs[j].missing # <<>>
                   /\ jobs[j].pc = "storing" => jobs[j].values # <<>>
            <3>1. jobs[j] \in Job /\ InHand(jobs[j], today)
                  BY DEF Inv, Typed, Sound
            <3>. QED BY <3>1, NoMonths DEF Job, InHand
      <2>. QED BY <2>1 DEF Inv, Clock, PublishedRows, FuelTypeOK
<1>. QED
    BY Invariance, <1>1, PTL

(* The rate engine finds exactly one rate for every book date of the year  *)
(* after a run that began between the 9th and the 27th and ended well,     *)
(* whatever other runs, failures and midnights did in between.             *)
THEOREM BookDatesHaveTheirRate == FuelSpec => []EveryBookDateHasItsRate
<1>1. Inv => EveryBookDateHasItsRate
      <2> SUFFICES ASSUME Inv, NEW j \in Jobs, jobs[j].pc = "stored", Midmonth(jobs[j].day),
                          NEW m \in Window(jobs[j].day)
                   PROVE  \A x \in {<<m, 15>>, <<m, DaysIn(m)>>, <<m + 1, 1>>, <<m + 1, 14>>} :
                            RatesFor(x) = {m}
          BY DEF EveryBookDateHasItsRate, Window
      <2>1. Date(jobs[j].day) /\ m \in rows /\ rows \subseteq Months
            BY DEF Inv, Sound, Dated, Complete, PublishedRows
      <2>2. m \in Int /\ m + 1 \in Int /\ (m + 1) - 1 = m
            <3>1. m \in Int
                  BY <2>1, MonthsType
            <3>. QED BY <3>1, SMT
      <2>3. DaysIn(m) \in 28 .. 31
            BY <2>2, DaysOfMonth
      <2>4. \A d \in 1 .. 31 : /\ d >= 15 => RatesFor(<<m, d>>) = {m}
                               /\ ~ d >= 15 => RatesFor(<<m + 1, d>>) = {m}
            <3> SUFFICES ASSUME NEW d \in 1 .. 31
                         PROVE  /\ d >= 15 => RatesFor(<<m, d>>) = {m}
                                /\ ~ d >= 15 => RatesFor(<<m + 1, d>>) = {m}
                OBVIOUS
            <3>1. RatesFor(<<m, d>>) = rows \intersect {IF d >= 15 THEN m ELSE m - 1}
                  BY <2>1, <2>2, RatesOfDay
            <3>2. RatesFor(<<m + 1, d>>) = rows \intersect {IF d >= 15 THEN m + 1 ELSE (m + 1) - 1}
                  BY <2>1, <2>2, RatesOfDay
            <3>3. rows \intersect {m} = {m}
                  BY <2>1
            <3>. QED BY <2>2, <3>1, <3>2, <3>3, Zenon
      <2>5. /\ 15 \in 1 .. 31 /\ 15 >= 15
            /\ DaysIn(m) \in 1 .. 31 /\ DaysIn(m) >= 15
            /\ 1 \in 1 .. 31 /\ ~ 1 >= 15
            /\ 14 \in 1 .. 31 /\ ~ 14 >= 15
            BY <2>3, SMT
      <2>. QED BY <2>4, <2>5
<1>. QED
    BY Invariance, <1>1, PTL

(* A run that is alone and begins before the 29th never has a price        *)
(* refused by the constraint no_overlapping_rates.                         *)
THEOREM NothingIsSavedTwice == FuelSpec => []OnlyMissingMonthsAreSaved
<1>1. Inv => OnlyMissingMonthsAreSaved
      <2> SUFFICES ASSUME Inv, NEW j \in Jobs, jobs[j].pc = "refused", jobs[j].alone
                   PROVE  jobs[j].day[2] > 28
          BY DEF OnlyMissingMonthsAreSaved
      <2>1. Date(jobs[j].day) /\ ~ jobs[j].day[2] <= 28
            BY DEF Inv, Sound, Dated, Fresh
      <2>. QED BY <2>1, DaysOfMonth, SMT DEF Date
<1>. QED
    BY Invariance, <1>1, PTL
=============================================================================
