---------------------------- MODULE MCFuelPrices ----------------------------
(* The turns of five months: from January into a short February, from a    *)
(* short and from a long February, over Labor Day, over the new year.      *)
EXTENDS FuelPrices, TLC

January(y) == 12 * y

MCFirstDays == {<<January(2019), 30>>, <<January(2019) + 1, 27>>, <<January(2019) + 7, 30>>,
                <<January(2019) + 11, 30>>, <<January(2020) + 1, 27>>}

MCMonthEnd == {<<January(2019) + 2, 29>>}

(* Labor Day is the first Monday of September; the new year of 2018 began  *)
(* on a Monday.                                                            *)
MCHolidays == {<<January(2018), 1>>, <<January(2018) + 8, 3>>, <<January(2019) + 8, 2>>,
               <<January(2019), 1>>, <<January(2020), 1>>}

Symmetry == Permutations(Jobs)
=============================================================================
