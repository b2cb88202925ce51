SPECIFICATION FairSpec
CONSTANTS
  Accounts = {1, 2, 3}
  Period <- Periods
  Limit = 2
  MaxAttempts = 2
  MaxFailures = 1
INVARIANTS TypeOK
PROPERTIES DueAccountsAreReached
