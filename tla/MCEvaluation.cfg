\* From a week across the turn of the year to the midnight at which a day, a
\* week and a month begin.
CONSTANTS
  Products = {"a100", "h100", "t4"}
  GPUTypeOf <- ThreeTypes
  FamilyOf <- TheirFamilies
  Flags <- ManyFlags
  Instants <- SomeInstants
  Starts <- AtNewYear
  HoursLimits = {8, 25, None}
  DollarsLimits = {1, None}
  None = None
SPECIFICATION Spec
INVARIANTS
  TypeOK
  PeriodIsCurrent
  NothingEarlierCharged
  NothingMissed
  PricedByMostSpecific
  Judged
PROPERTIES
  JudgedAtOnce
