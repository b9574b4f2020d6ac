CONSTANTS
  a = a
  b = b
  cron = cron
  Tickers = {a, b}
  Markets <- MCMarkets
  Jobs = {cron}
  JobKinds = {"nightly", "catch_up", "enforce", "backfill"}
  Window = 2
  History = 2
  MaxDay = 4
  none = none
  NotEnforced = {none}
SPECIFICATION FairSpec
PROPERTIES
  AppendsKeepRows
  EligibilityHolds
  NightsHealTheStore
