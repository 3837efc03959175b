SPECIFICATION Spec
CONSTANTS
  Null = Null
  Regular = regular
  Alcohol = alcohol
  Dear = dear
  Tobacco = tobacco
  Product <- Products
  MaxQuantity = 2
  Offers <- AllOffers
INVARIANT FullOnlyWhenEarned
INVARIANT TextsTrue
INVARIANT BarExplained
INVARIANT TitlesTellTruth
INVARIANT CompleteRowsAnswered
PROPERTY ProgressNeverGoesBack
PROPERTY HappyHoursNeverLower
