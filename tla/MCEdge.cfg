CONSTANTS
  Public = {"p", "q"}
  Country <- MCCountry
  Secrets = {"old", "new"}
  Credentials <- MCCredentials
  Bodies <- MCBodies
  Deployments <- MCDeployments
  MaxText = 4
  MaxSeconds = 3
  Mixes = {{"track"}, {"login"}}
  Limit <- MCLimit
  Window = 1
  Lifetime = 1
  LastTick = 3
  MaxChecking = 1
  MaxTokens = 1
  MaxStarts = 1
SPECIFICATION Spec
INVARIANTS
  TypeOK
  StoredAsSent
  LimitKept
  AdmittedByLogin
CHECK_DEADLOCK FALSE
