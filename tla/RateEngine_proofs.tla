-------------------------- MODULE RateEngine_proofs --------------------------
(* Proofs about the amounts of RateEngine, for every tariff.               *)
EXTENDS RateEngine, TLAPS

(* The amounts are whole numbers of cents and rounding errs by at most     *)
(* half a cent, for the three denominators the code divides by.            *)
LEMMA NearestIsNearest ==
  ASSUME NEW n \in Nat, NEW d \in {100, 1000, Whole}
  PROVE  /\ Nearest(n, d) \in Nat
         /\ 2 * d * Nearest(n, d) <= (2 * n) + d
         /\ (2 * n) - d < 2 * d * Nearest(n, d)
<1>1. CASE d = 100  BY <1>1 DEF Nearest
<1>2. CASE d = 1000  BY <1>2 DEF Nearest
<1>3. CASE d = Whole  BY <1>3 DEF Nearest, Whole
<1> QED  BY <1>1, <1>2, <1>3

(* A larger amount is never rounded to fewer cents.                        *)
LEMMA NearestIsMonotonic ==
  ASSUME NEW d \in {100, 1000, Whole}, NEW m \in Nat, NEW n \in Nat, m <= n
  PROVE  Nearest(m, d) <= Nearest(n, d)
<1>1. CASE d = 100  BY <1>1 DEF Nearest
<1>2. CASE d = 1000  BY <1>2 DEF Nearest
<1>3. CASE d = Whole  BY <1>3 DEF Nearest, Whole
<1> QED  BY <1>1, <1>2, <1>3

LEMMA ProductIsMonotonic ==
  ASSUME NEW a \in Nat, NEW b \in Nat, NEW c \in Nat, a <= b
  PROVE  /\ a * c \in Nat /\ b * c \in Nat
         /\ a * c <= b * c /\ c * a <= c * b
  BY SMT

LEMMA ProductIsNatural ==
  ASSUME NEW a \in Nat, NEW b \in Nat
  PROVE  a * b \in Nat
  BY SMT

(* A discount leaves between nothing and the whole of a charge, and does   *)
(* not change which of two charges is higher.                              *)
LEMMA ApplyIsMonotonic ==
  ASSUME NEW x \in Nat, NEW y \in Nat, x <= y, NEW discount \in Discounts
  PROVE  Apply(discount, x) \in Nat /\ Apply(discount, x) <= Apply(discount, y)
<1> DEFINE rest == Whole - discount
<1>1. rest \in Nat  BY DEF Discounts, Whole
<1> HIDE DEF rest
<1>2. x * rest \in Nat /\ y * rest \in Nat /\ x * rest <= y * rest
  BY <1>1, ProductIsMonotonic
<1>3. Nearest(x * rest, Whole) \in Nat /\ Nearest(x * rest, Whole) <= Nearest(y * rest, Whole)
  BY <1>2, NearestIsNearest, NearestIsMonotonic
<1> QED  BY <1>3 DEF Apply, rest

THEOREM DiscountIsPartOfTheCharge ==
  ASSUME NEW c \in Nat, NEW discount \in Discounts
  PROVE  Apply(discount, c) \in 0 .. c
<1> DEFINE rest == Whole - discount
<1>1. rest \in Nat /\ rest <= Whole /\ Whole \in Nat  BY DEF Discounts, Whole
<1> HIDE DEF rest
<1>2. c * rest \in Nat /\ c * Whole \in Nat /\ c * rest <= c * Whole
  BY <1>1, ProductIsMonotonic, ProductIsNatural
<1>3. Nearest(c * rest, Whole) \in Nat /\ Nearest(c * rest, Whole) <= Nearest(c * Whole, Whole)
  BY <1>2, NearestIsNearest, NearestIsMonotonic
<1>4. Nearest(c * Whole, Whole) = c
  BY DEF Nearest, Whole
<1> QED  BY <1>3, <1>4 DEF Apply, rest

(* Prorating does the same.                                                *)
LEMMA ScaledIsMonotonic ==
  ASSUME NEW x \in Nat, NEW y \in Nat, x <= y, NEW factor \in Nat,
         factor <= 1000
  PROVE  /\ Scaled(x, factor) \in Nat
         /\ Scaled(x, factor) <= Scaled(y, factor)
         /\ Scaled(x, factor) <= x
<1> DEFINE a == x * factor
           b == y * factor
           c == x * 1000
<1>1. a \in Nat /\ b \in Nat /\ c \in Nat /\ a <= b /\ a <= c
  BY ProductIsMonotonic
<1>2. Nearest(c, 1000) = x  BY DEF Nearest
<1> HIDE DEF a, b, c
<1>3. /\ Nearest(a, 1000) \in Nat
      /\ Nearest(a, 1000) <= Nearest(b, 1000)
      /\ Nearest(a, 1000) <= Nearest(c, 1000)
  BY <1>1, NearestIsNearest, NearestIsMonotonic
<1> QED  BY <1>2, <1>3 DEF Scaled, a, b

LEMMA WeightIsNatural ==
  ASSUME NEW w \in Nat
  PROVE  /\ ToCWT(w) \in Nat
         /\ Billed(w) \in Nat
         /\ ProrateFactor(w) \in Nat /\ ProrateFactor(w) <= 1000
  BY NearestIsNearest DEF ToCWT, Billed, ProrateFactor

(* The two parts of the charge for storage grow with the days.             *)
LEMMA SITPartsGrow ==
  ASSUME NEW tariff \in Tariffs, NEW cwt \in Nat, NEW i \in Nat, NEW j \in Nat, i <= j
  PROVE  /\ SITPart(tariff, cwt, i) \in Nat /\ SITLinehaulPart(tariff, cwt, i) \in Nat
         /\ SITPart(tariff, cwt, i) <= SITPart(tariff, cwt, j)
         /\ SITLinehaulPart(tariff, cwt, i) <= SITLinehaulPart(tariff, cwt, j)
<1> DEFINE first == tariff.destination.sit185A
           further == tariff.destination.sit185B
<1>1. /\ first \in Nat /\ further \in Nat
      /\ tariff.item210A[cwt] \in Nat /\ tariff.item225A[cwt] \in Nat
  BY DEF Tariffs, Area
<1> HIDE DEF first, further
<1>2. CASE i = 0 /\ j = 0
  BY <1>2 DEF SITPart, SITLinehaulPart
<1>3. CASE j # 0
  <2> DEFINE days(k) == further * (k - 1) * cwt
  <2>1. first * cwt \in Nat  BY <1>1, ProductIsNatural
  <2>2. days(j) \in Nat
    <3>1. further * (j - 1) \in Nat  BY <1>1, <1>3, ProductIsNatural
    <3> QED  BY <3>1, ProductIsNatural
  <2>3. i # 0 => days(i) \in Nat /\ days(i) <= days(j)
    <3> SUFFICES ASSUME i # 0 PROVE days(i) \in Nat /\ days(i) <= days(j)
      OBVIOUS
    <3>1. i - 1 \in Nat /\ j - 1 \in Nat /\ i - 1 <= j - 1  BY <1>3
    <3>2. /\ further * (i - 1) \in Nat /\ further * (j - 1) \in Nat
          /\ further * (i - 1) <= further * (j - 1)
      BY <3>1, <1>1, ProductIsMonotonic, ProductIsNatural
    <3> QED  BY <3>2, ProductIsMonotonic
  <2>4. SITPart(tariff, cwt, j) = (first * cwt) + days(j) + tariff.item210A[cwt]
    BY <1>3 DEF SITPart, first, further
  <2>5. SITPart(tariff, cwt, i) = IF i = 0 THEN 0
                                  ELSE (first * cwt) + days(i) + tariff.item210A[cwt]
    BY DEF SITPart, first, further
  <2>6. /\ SITLinehaulPart(tariff, cwt, j) = tariff.item225A[cwt]
        /\ SITLinehaulPart(tariff, cwt, i) = IF i = 0 THEN 0 ELSE tariff.item225A[cwt]
    BY <1>3 DEF SITLinehaulPart
  <2> HIDE DEF days
  <2> QED  BY <1>1, <2>1, <2>2, <2>3, <2>4, <2>5, <2>6
<1> QED  BY <1>2, <1>3

LEMMA SITFeeGrows ==
  ASSUME NEW tariff \in Tariffs, NEW cwt \in Nat, NEW i \in Nat, NEW j \in Nat, i <= j,
         NEW lh \in Discounts, NEW sit \in Discounts
  PROVE  /\ SITFee(tariff, cwt, i, lh, sit) \in Nat
         /\ SITFee(tariff, cwt, i, lh, sit) <= SITFee(tariff, cwt, j, lh, sit)
<1>1. /\ SITPart(tariff, cwt, i) \in Nat /\ SITPart(tariff, cwt, j) \in Nat
      /\ SITLinehaulPart(tariff, cwt, i) \in Nat /\ SITLinehaulPart(tariff, cwt, j) \in Nat
      /\ SITPart(tariff, cwt, i) <= SITPart(tariff, cwt, j)
      /\ SITLinehaulPart(tariff, cwt, i) <= SITLinehaulPart(tariff, cwt, j)
  BY SITPartsGrow
<1>2. /\ Apply(sit, SITPart(tariff, cwt, i)) \in Nat
      /\ Apply(sit, SITPart(tariff, cwt, j)) \in Nat
      /\ Apply(sit, SITPart(tariff, cwt, i)) <= Apply(sit, SITPart(tariff, cwt, j))
  BY <1>1, ApplyIsMonotonic
<1>3. /\ Apply(lh, SITLinehaulPart(tariff, cwt, i)) \in Nat
      /\ Apply(lh, SITLinehaulPart(tariff, cwt, j)) \in Nat
      /\ Apply(lh, SITLinehaulPart(tariff, cwt, i)) <= Apply(lh, SITLinehaulPart(tariff, cwt, j))
  BY <1>1, ApplyIsMonotonic
<1> QED  BY <1>2, <1>3 DEF SITFee

(* The charges are natural numbers.                                        *)
LEMMA ChargesAreNatural ==
  ASSUME NEW tariff \in Tariffs, NEW w \in Nat, NEW miles \in Nat
  PROVE  /\ LinehaulChargeTotal(tariff, w, miles) \in Nat
         /\ ServiceFee(tariff.origin, ToCWT(w)) \in Nat
         /\ ServiceFee(tariff.destination, ToCWT(w)) \in Nat
         /\ FullPack(tariff, ToCWT(w)) \in Nat
         /\ FullUnpack(tariff, ToCWT(w)) \in Nat
<1> DEFINE cwt == ToCWT(w)
<1>1. cwt \in Nat  BY WeightIsNatural
<1> HIDE DEF cwt
<1>2. /\ tariff.origin.linehaulFactor \in Nat /\ tariff.destination.linehaulFactor \in Nat
      /\ tariff.origin.serviceCharge \in Nat /\ tariff.destination.serviceCharge \in Nat
      /\ tariff.destination.fullUnpack \in Nat /\ tariff.fullPack[cwt] \in Nat
      /\ tariff.baseLinehaul[<<miles, w>>] \in Nat
  BY <1>1 DEF Tariffs, Area
<1>3. Shorthaul(tariff, miles, cwt) \in Nat
  <2>1. miles * cwt \in Nat  BY <1>1, ProductIsNatural
  <2> QED  BY <2>1 DEF Shorthaul, Tariffs
<1>4. /\ tariff.origin.linehaulFactor * cwt \in Nat
      /\ tariff.destination.linehaulFactor * cwt \in Nat
  BY <1>1, <1>2, ProductIsNatural
<1>5. LinehaulChargeTotal(tariff, w, miles) \in Nat
  BY <1>2, <1>3, <1>4 DEF LinehaulChargeTotal, cwt
<1>6. /\ ServiceFee(tariff.origin, cwt) \in Nat
      /\ ServiceFee(tariff.destination, cwt) \in Nat
      /\ FullPack(tariff, cwt) \in Nat
  BY <1>1, <1>2, ProductIsNatural DEF ServiceFee, FullPack
<1>7. FullUnpack(tariff, cwt) \in Nat
  <2> DEFINE n == cwt * tariff.destination.fullUnpack
  <2>1. n \in Nat  BY <1>1, <1>2, ProductIsNatural
  <2> HIDE DEF n
  <2>2. Nearest(n, 1000) \in Nat  BY <2>1, NearestIsNearest
  <2> QED  BY <2>2 DEF FullUnpack, n
<1> QED  BY <1>5, <1>6, <1>7 DEF cwt

(* The storage fee of a PPM never exceeds the maximum that is reported     *)
(* with it, for a stay of up to MaxSITDays: both are discounted in two     *)
(* parts, rounded and prorated, each for itself.                           *)
THEOREM StorageFeeWithinMaximum ==
  ASSUME NEW tariff \in Tariffs, NEW w \in Nat, NEW miles \in Nat,
         NEW days \in 0 .. MaxSITDays, NEW lh \in Discounts, NEW sit \in Discounts
  PROVE  ComputePPM(tariff, w, miles, days, lh, sit).sitFee
           <= ComputePPM(tariff, w, miles, days, lh, sit).sitMax
<1> DEFINE cwt == ToCWT(Billed(w))
           f == ProrateFactor(w)
           fee == SITFee(tariff, cwt, days, lh, sit)
           most == SITFee(tariff, cwt, MaxSITDays, lh, sit)
<1>1. /\ ComputePPM(tariff, w, miles, days, lh, sit).sitFee = Scaled(fee, f)
      /\ ComputePPM(tariff, w, miles, days, lh, sit).sitMax = Scaled(most, f)
  BY DEF ComputePPM, Unscaled, Scale
<1>2. cwt \in Nat /\ f \in Nat /\ f <= 1000  BY WeightIsNatural
<1>3. days \in Nat /\ MaxSITDays \in Nat /\ days <= MaxSITDays  BY DEF MaxSITDays
<1> HIDE DEF cwt, f
<1>4. fee \in Nat /\ fee <= most  BY <1>2, <1>3, SITFeeGrows
<1>5. most \in Nat  BY <1>2, <1>3, SITFeeGrows DEF MaxSITDays
<1> HIDE DEF fee, most
<1>6. Scaled(fee, f) <= Scaled(most, f)  BY <1>2, <1>4, <1>5, ScaledIsMonotonic
<1> QED  BY <1>1, <1>6

(* What a PPM of 1000 pounds or more is promised for its storage stays     *)
(* within that maximum too, although updateEstimates charges for it apart. *)
THEOREM StorageEstimateWithinMaximum ==
  ASSUME NEW tariff \in Tariffs, NEW w \in Nat, w >= 1000, NEW miles \in Nat,
         NEW days \in 0 .. MaxSITDays, NEW lh \in Discounts, NEW sit \in Discounts
  PROVE  StorageEstimate(tariff, w, days, lh, sit)
           <= ComputePPM(tariff, w, miles, days, lh, sit).sitMax
<1> DEFINE cwt == ToCWT(w)
           fee == SITFee(tariff, cwt, days, lh, sit)
           most == SITFee(tariff, cwt, MaxSITDays, lh, sit)
<1>1. Billed(w) = w /\ ProrateFactor(w) = 1000  BY DEF Billed, ProrateFactor
<1>2. ComputePPM(tariff, w, miles, days, lh, sit).sitMax = Scaled(most, 1000)
  BY <1>1 DEF ComputePPM, Unscaled, Scale
<1>3. StorageEstimate(tariff, w, days, lh, sit) = fee  BY DEF StorageEstimate
<1>4. cwt \in Nat  BY WeightIsNatural
<1>5. days \in Nat /\ MaxSITDays \in Nat /\ days <= MaxSITDays  BY DEF MaxSITDays
<1> HIDE DEF cwt
<1>6. fee <= most  BY <1>4, <1>5, SITFeeGrows
<1>7. most \in Nat  BY <1>4, <1>5, SITFeeGrows DEF MaxSITDays
<1> HIDE DEF fee, most
<1>8. Scaled(most, 1000) = most  BY <1>7 DEF Scaled, Nearest
<1> QED  BY <1>2, <1>3, <1>6, <1>8

(* The discounted charges are natural numbers, and the total is their sum. *)
AddsUp(u) == /\ u.linehaul \in Nat /\ u.origin \in Nat /\ u.destination \in Nat
             /\ u.pack \in Nat /\ u.unpack \in Nat /\ u.gcc \in Nat
             /\ u.gcc = u.linehaul + u.origin + u.destination + u.pack + u.unpack

LEMMA UnscaledAddsUp ==
  ASSUME NEW tariff \in Tariffs, NEW w \in Nat, NEW miles \in Nat, NEW days \in Nat,
         NEW lh \in Discounts, NEW sit \in Discounts
  PROVE  AddsUp(Unscaled(tariff, w, miles, days, lh, sit))
<1> DEFINE cwt == ToCWT(w)
           u == Unscaled(tariff, w, miles, days, lh, sit)
<1>1. /\ u.linehaul = Apply(lh, LinehaulChargeTotal(tariff, w, miles))
      /\ u.origin = Apply(lh, ServiceFee(tariff.origin, cwt))
      /\ u.destination = Apply(lh, ServiceFee(tariff.destination, cwt))
      /\ u.pack = Apply(lh, FullPack(tariff, cwt))
      /\ u.unpack = Apply(lh, FullUnpack(tariff, cwt))
  BY DEF Unscaled
<1>2. u.gcc = u.linehaul + u.origin + u.destination + u.pack + u.unpack
  BY DEF Unscaled
<1> HIDE DEF u
<1>3. ASSUME NEW x \in Nat PROVE Apply(lh, x) \in Nat
  BY DiscountIsPartOfTheCharge
<1>4. /\ u.linehaul \in Nat /\ u.origin \in Nat /\ u.destination \in Nat
      /\ u.pack \in Nat /\ u.unpack \in Nat
  BY <1>1, <1>3, ChargesAreNatural
<1>5. AddsUp(u)  BY <1>2, <1>4 DEF AddsUp
<1> QED  BY <1>5 DEF u

(* The rounded part of an amount is within half a cent of the exact one.   *)
Near(x, f) == /\ x * f \in Nat /\ Scaled(x, f) \in Nat
              /\ 2000 * Scaled(x, f) <= (2 * (x * f)) + 1000
              /\ (2 * (x * f)) - 1000 < 2000 * Scaled(x, f)

LEMMA ScaledIsNearest ==
  ASSUME NEW x \in Nat, NEW f \in Nat
  PROVE  Near(x, f)
<1> DEFINE n == x * f
<1>1. n \in Nat  BY ProductIsNatural
<1> HIDE DEF n
<1>2. /\ Nearest(n, 1000) \in Nat
      /\ 2 * 1000 * Nearest(n, 1000) <= (2 * n) + 1000
      /\ (2 * n) - 1000 < 2 * 1000 * Nearest(n, 1000)
  BY <1>1, NearestIsNearest
<1> QED  BY <1>1, <1>2 DEF Near, Scaled, n

LEMMA FiveRoundings ==
  ASSUME NEW a \in Nat, NEW b \in Nat, NEW c \in Nat, NEW d \in Nat, NEW e \in Nat,
         NEW p \in Nat, NEW q \in Nat, NEW r \in Nat, NEW s \in Nat, NEW t \in Nat,
         NEW total \in Nat,
         2000 * p <= (2 * a) + 1000, (2 * a) - 1000 < 2000 * p,
         2000 * q <= (2 * b) + 1000, (2 * b) - 1000 < 2000 * q,
         2000 * r <= (2 * c) + 1000, (2 * c) - 1000 < 2000 * r,
         2000 * s <= (2 * d) + 1000, (2 * d) - 1000 < 2000 * s,
         2000 * t <= (2 * e) + 1000, (2 * e) - 1000 < 2000 * t,
         2000 * total <= (2 * (a + b + c + d + e)) + 1000,
         (2 * (a + b + c + d + e)) - 1000 < 2000 * total
  PROVE  total - (p + q + r + s + t) \in -3 .. 3
  BY SMTT(30)

LEMMA FiveProducts ==
  ASSUME NEW a \in Nat, NEW b \in Nat, NEW c \in Nat, NEW d \in Nat, NEW e \in Nat,
         NEW f \in Nat
  PROVE  (a + b + c + d + e) * f = (a * f) + (b * f) + (c * f) + (d * f) + (e * f)
  BY SMT

(* Prorating rounds the total and its parts apart: they still add up to    *)
(* within three cents, whatever the weight.                                *)
THEOREM PartsAddUp ==
  ASSUME NEW tariff \in Tariffs, NEW w \in Nat, NEW miles \in Nat, NEW days \in Nat,
         NEW lh \in Discounts, NEW sit \in Discounts
  PROVE  LET c == ComputePPM(tariff, w, miles, days, lh, sit)
         IN  c.gcc - (c.linehaul + c.origin + c.destination + c.pack + c.unpack) \in -3 .. 3
<1> DEFINE b == Billed(w)
           u == Unscaled(tariff, b, miles, days, lh, sit)
           f == ProrateFactor(w)
           c == ComputePPM(tariff, w, miles, days, lh, sit)
<1>1. b \in Nat /\ f \in Nat  BY WeightIsNatural
<1>2. /\ c.linehaul = Scaled(u.linehaul, f) /\ c.origin = Scaled(u.origin, f)
      /\ c.destination = Scaled(u.destination, f) /\ c.pack = Scaled(u.pack, f)
      /\ c.unpack = Scaled(u.unpack, f) /\ c.gcc = Scaled(u.gcc, f)
  BY DEF ComputePPM, Scale
<1>3. /\ u.linehaul \in Nat /\ u.origin \in Nat /\ u.destination \in Nat
      /\ u.pack \in Nat /\ u.unpack \in Nat /\ u.gcc \in Nat
      /\ u.gcc = u.linehaul + u.origin + u.destination + u.pack + u.unpack
  <2> HIDE DEF b
  <2>1. AddsUp(u)  BY <1>1, UnscaledAddsUp
  <2> HIDE DEF u
  <2> QED  BY <2>1 DEF AddsUp
<1> HIDE DEF u, c
<1> DEFINE v1 == u.linehaul
           v2 == u.origin
           v3 == u.destination
           v4 == u.pack
           v5 == u.unpack
           v0 == u.gcc
<1>4. /\ v1 \in Nat /\ v2 \in Nat /\ v3 \in Nat /\ v4 \in Nat /\ v5 \in Nat /\ v0 \in Nat
      /\ v0 = v1 + v2 + v3 + v4 + v5
  BY <1>3
<1> HIDE DEF f, v0, v1, v2, v3, v4, v5
<1>5. v0 * f = (v1 * f) + (v2 * f) + (v3 * f) + (v4 * f) + (v5 * f)
  BY <1>1, <1>4, FiveProducts
<1>6. /\ Near(v1, f) /\ Near(v2, f) /\ Near(v3, f) /\ Near(v4, f) /\ Near(v5, f)
      /\ Near(v0, f)
  BY <1>1, <1>4, ScaledIsNearest
<1>7. Scaled(v0, f) - (Scaled(v1, f) + Scaled(v2, f) + Scaled(v3, f) + Scaled(v4, f)
                         + Scaled(v5, f)) \in -3 .. 3
  <2> DEFINE n0 == v0 * f
             n1 == v1 * f
             n2 == v2 * f
             n3 == v3 * f
             n4 == v4 * f
             n5 == v5 * f
             s0 == Scaled(v0, f)
             s1 == Scaled(v1, f)
             s2 == Scaled(v2, f)
             s3 == Scaled(v3, f)
             s4 == Scaled(v4, f)
             s5 == Scaled(v5, f)
  <2>1. /\ n1 \in Nat /\ s1 \in Nat /\ 2000 * s1 <= (2 * n1) + 1000 /\ (2 * n1) - 1000 < 2000 * s1
    BY <1>6 DEF Near
  <2>2. /\ n2 \in Nat /\ s2 \in Nat /\ 2000 * s2 <= (2 * n2) + 1000 /\ (2 * n2) - 1000 < 2000 * s2
    BY <1>6 DEF Near
  <2>3. /\ n3 \in Nat /\ s3 \in Nat /\ 2000 * s3 <= (2 * n3) + 1000 /\ (2 * n3) - 1000 < 2000 * s3
    BY <1>6 DEF Near
  <2>4. /\ n4 \in Nat /\ s4 \in Nat /\ 2000 * s4 <= (2 * n4) + 1000 /\ (2 * n4) - 1000 < 2000 * s4
    BY <1>6 DEF Near
  <2>5. /\ n5 \in Nat /\ s5 \in Nat /\ 2000 * s5 <= (2 * n5) + 1000 /\ (2 * n5) - 1000 < 2000 * s5
    BY <1>6 DEF Near
  <2>6. /\ n0 \in Nat /\ s0 \in Nat /\ 2000 * s0 <= (2 * n0) + 1000 /\ (2 * n0) - 1000 < 2000 * s0
        /\ n0 = n1 + n2 + n3 + n4 + n5
    BY <1>5, <1>6 DEF Near
  <2> HIDE DEF n0, n1, n2, n3, n4, n5, s0, s1, s2, s3, s4, s5
  <2>7. s0 - (s1 + s2 + s3 + s4 + s5) \in -3 .. 3
    BY <2>1, <2>2, <2>3, <2>4, <2>5, <2>6, FiveRoundings
  <2> QED  BY <2>7 DEF s0, s1, s2, s3, s4, s5
<1>8. c.gcc - (c.linehaul + c.origin + c.destination + c.pack + c.unpack) \in -3 .. 3
  BY <1>2, <1>7 DEF v0, v1, v2, v3, v4, v5
<1> QED  BY <1>8 DEF c

(* A PPM under 1000 pounds costs at most what it costs at 1000 pounds.     *)
THEOREM LightMovesCostNoMore ==
  ASSUME NEW tariff \in Tariffs, NEW w \in 0 .. 999, NEW miles \in Nat, NEW days \in Nat,
         NEW lh \in Discounts, NEW sit \in Discounts
  PROVE  /\ ComputePPM(tariff, w, miles, days, lh, sit).gcc
              <= ComputePPM(tariff, 1000, miles, days, lh, sit).gcc
         /\ ComputePPM(tariff, w, miles, days, lh, sit).sitMax
              <= ComputePPM(tariff, 1000, miles, days, lh, sit).sitMax
<1> DEFINE u == Unscaled(tariff, 1000, miles, days, lh, sit)
           f == ProrateFactor(w)
           g == u.gcc
           most == u.sitMax
<1>1. /\ Billed(w) = 1000 /\ Billed(1000) = 1000
      /\ f \in Nat /\ f <= 1000 /\ ProrateFactor(1000) = 1000
  BY DEF Billed, ProrateFactor
<1>2. g \in Nat  BY UnscaledAddsUp DEF AddsUp
<1>3. most \in Nat
  <2>1. ToCWT(1000) \in Nat /\ MaxSITDays \in Nat  BY WeightIsNatural DEF MaxSITDays
  <2>2. SITFee(tariff, ToCWT(1000), MaxSITDays, lh, sit) \in Nat
    BY <2>1, SITFeeGrows DEF MaxSITDays
  <2> QED  BY <2>2 DEF Unscaled
<1>4. /\ ComputePPM(tariff, w, miles, days, lh, sit).gcc = Scaled(g, f)
      /\ ComputePPM(tariff, w, miles, days, lh, sit).sitMax = Scaled(most, f)
      /\ ComputePPM(tariff, 1000, miles, days, lh, sit).gcc = Scaled(g, 1000)
      /\ ComputePPM(tariff, 1000, miles, days, lh, sit).sitMax = Scaled(most, 1000)
  BY <1>1 DEF ComputePPM, Scale
<1> HIDE DEF u, f, g, most
<1>5. Scaled(g, 1000) = g /\ Scaled(most, 1000) = most
  BY <1>2, <1>3 DEF Scaled, Nearest
<1>6. g <= g /\ most <= most  BY <1>2, <1>3
<1>7. Scaled(g, f) <= g  BY <1>1, <1>2, <1>6, ScaledIsMonotonic
<1>8. Scaled(most, f) <= most  BY <1>1, <1>3, <1>6, ScaledIsMonotonic
<1> QED  BY <1>4, <1>5, <1>7, <1>8
=============================================================================
