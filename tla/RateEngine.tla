----------------------------- MODULE RateEngine -----------------------------
(***************************************************************************)
(* What a move costs (pkg/rateengine): linehaul, the services at both ends,*)
(* packing, and storage in transit, from the tariff 400NG, less the        *)
(* discounts of the TSP, for less than 1000 pounds in proportion.          *)
(*                                                                         *)
(* Pure operators over natural numbers.  The code multiplies float64 and   *)
(* rounds each amount to the nearest cent; here the products are exact.    *)
(***************************************************************************)
EXTENDS Integers

MaxSITDays == 90
Whole == 10000          \* a discount is given in hundredths of a percent

Discounts == 0 .. Whole

(* The lines of the tariff that a route, a date and a weight select.       *)
Area == [linehaulFactor : Nat, serviceCharge : Nat, fullUnpack : Nat,
         sit185A : Nat, sit185B : Nat]
Tariffs == [origin : Area, destination : Area,
            baseLinehaul : [Nat \X Nat -> Nat], shorthaul : [Nat -> Nat],
            fullPack : [Nat -> Nat], item210A : [Nat -> Nat], item225A : [Nat -> Nat]]

-----------------------------------------------------------------------------
(* math.Round of the quotient n / d.                                       *)
Nearest(n, d) == ((2 * n) + d) \div (2 * d)

ToCWT(pounds) == Nearest(pounds, 100)

(* DiscountRate.Apply: what remains of the charge.                         *)
Apply(discount, cents) == Nearest(cents * (Whole - discount), Whole)

(* Cents.MultiplyFloat64 with a number of thousandths.                     *)
Scaled(cents, thousandths) == Nearest(cents * thousandths, 1000)

Shorthaul(tariff, miles, cwt) == IF miles >= 800 THEN 0 ELSE tariff.shorthaul[miles * cwt]

LinehaulChargeTotal(tariff, weight, miles) ==
  tariff.baseLinehaul[<<miles, weight>>]
    + (tariff.origin.linehaulFactor * ToCWT(weight))
    + (tariff.destination.linehaulFactor * ToCWT(weight))
    + Shorthaul(tariff, miles, ToCWT(weight))

(* serviceFeeCents, fullPackCents and fullUnpackCents; the rate for        *)
(* unpacking is in millicents.                                             *)
ServiceFee(area, cwt) == area.serviceCharge * cwt
FullPack(tariff, cwt) == tariff.fullPack[cwt] * cwt
FullUnpack(tariff, cwt) == Nearest(cwt * tariff.destination.fullUnpack, 1000)

(* SitCharge: the first day, the days after it, and two flat rates; the    *)
(* two parts are discounted apart.                                         *)
SITPart(tariff, cwt, days) ==
  IF days = 0 THEN 0
  ELSE (tariff.destination.sit185A * cwt)
         + (tariff.destination.sit185B * (days - 1) * cwt)
         + tariff.item210A[cwt]

SITLinehaulPart(tariff, cwt, days) == IF days = 0 THEN 0 ELSE tariff.item225A[cwt]

SITFee(tariff, cwt, days, lh, sit) ==
  Apply(sit, SITPart(tariff, cwt, days)) + Apply(lh, SITLinehaulPart(tariff, cwt, days))

-----------------------------------------------------------------------------
(* "Weights below 1000lbs are prorated to the 1000lb rate".                *)
Billed(weight) == IF weight < 1000 THEN 1000 ELSE weight
ProrateFactor(weight) == IF weight < 1000 THEN weight ELSE 1000

(* The amounts of ComputePPM and ComputeShipment before Scale.             *)
Unscaled(tariff, weight, miles, days, lh, sit) ==
  LET cwt == ToCWT(weight)
      linehaul == Apply(lh, LinehaulChargeTotal(tariff, weight, miles))
      origin == Apply(lh, ServiceFee(tariff.origin, cwt))
      destination == Apply(lh, ServiceFee(tariff.destination, cwt))
      pack == Apply(lh, FullPack(tariff, cwt))
      unpack == Apply(lh, FullUnpack(tariff, cwt))
  IN  [linehaul |-> linehaul, origin |-> origin, destination |-> destination,
       pack |-> pack, unpack |-> unpack,
       sitFee |-> SITFee(tariff, cwt, days, lh, sit),
       sitMax |-> SITFee(tariff, cwt, MaxSITDays, lh, sit),
       gcc |-> linehaul + origin + destination + pack + unpack]

(* CostComputation.Scale: each amount is rounded for itself, the total too.*)
Scale(cost, factor) ==
  [linehaul |-> Scaled(cost.linehaul, factor), origin |-> Scaled(cost.origin, factor),
   destination |-> Scaled(cost.destination, factor), pack |-> Scaled(cost.pack, factor),
   unpack |-> Scaled(cost.unpack, factor), sitFee |-> Scaled(cost.sitFee, factor),
   sitMax |-> Scaled(cost.sitMax, factor), gcc |-> Scaled(cost.gcc, factor)]

ComputePPM(tariff, weight, miles, days, lh, sit) ==
  Scale(Unscaled(tariff, Billed(weight), miles, days, lh, sit), ProrateFactor(weight))

(* The surcharge of a shipment is a percentage of the discounted linehaul. *)
(* Scale leaves it alone.                                                  *)
FuelSurcharge(tariff, weight, miles, lh, percentage) ==
  Nearest(Apply(lh, LinehaulChargeTotal(tariff, Billed(weight), miles)) * percentage, 100)

(* The storage estimate of a PPM charges for the weight as it is.          *)
StorageEstimate(tariff, weight, days, lh, sit) == SITFee(tariff, ToCWT(weight), days, lh, sit)
=============================================================================
