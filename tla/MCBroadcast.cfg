CONSTANTS
  Rows = {a1, a2}
  ChatIds = {c1, c2}
  Kinds = {"new", "returning", "lead", "bot_user", "digest"}
  AlertBudget = 30
  DigestBudget = 60
  AttemptBudget = 20
  Attempts = 3
  Backoff = 2
  Latencies = {5}
  RetryAfters = {3, 40}
  MaxChanges = 1
SPECIFICATION FairSpec
INVARIANTS
  CopiesExplained
  EveryRowHandled
PROPERTY
  Ends
CHECK_DEADLOCK FALSE
