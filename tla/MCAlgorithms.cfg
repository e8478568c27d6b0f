SPECIFICATION CasesSpec
CONSTANTS
  MaxUint = 255
  PRECISION = 5
  ADDITIONAL_FEED_PRECISION = 2
  LIQUIDATION_THRESHOLD = 5
  LIQUIDATION_PRECISION = 10
  LIQUIDATION_BONUS = 1
  Prices <- Quotes
  Quantities <- Sizes
  WordBits = 8
  BASE_TX_COST = 2
  Samples = {1, 2, 4, 5}
INVARIANTS RoundTrips BonusHolds NegativesFail HealthCompares CastsAreExact ReportsAreFair MigrationsResume TableLeadsOut
