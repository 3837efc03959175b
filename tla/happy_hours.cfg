SPECIFICATION Spec
CONSTANTS
  Null = Null
  DayLength = 4
  Bonus = 10
  Schedules <- OneOrTwoWindows
  ForcedHours <- OnePeriodOrNone
INVARIANT HappyExactlyInside
