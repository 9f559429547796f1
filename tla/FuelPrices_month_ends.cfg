SPECIFICATION FuelSpec
CONSTANTS
  Jobs = {j1}
  None = None
  numMonths = 12
  MaxDays = 3
  MaxGaps = 1
  FirstDays <- MCMonthEnd
  Holidays <- MCHolidays
INVARIANTS
  EveryRunCatchesUp
