SPECIFICATION FuelSpec
CONSTANTS
  Jobs = {j1, j2}
  None = None
  numMonths = 12
  MaxDays = 12
  MaxGaps = 1
  FirstDays <- MCFirstDays
  Holidays <- MCHolidays
SYMMETRY Symmetry
INVARIANTS
  FuelTypeOK
  EveryBookDateHasItsRate
  OnlyMissingMonthsAreSaved
