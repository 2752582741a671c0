SPECIFICATION FairSearchSpec
CONSTANTS
  exa = exa
  tavily = tavily
  t = t
  n = n
  fresh = fresh
  noT = noT
  Searches = {"s1"}
  Checkers = {"h1"}
  People = {"u1"}
  Providers = {exa, tavily}
  Searched = {tavily}
  Keys = {t, n, fresh, noT}
  ProviderOf <- Of
  Junk <- NoKey
  HandKeys <- ByHand
  Verdicts <- Probes
  FirstPools <- Seeded
  FirstEngines <- AtFirst
  MaxTries = 2
  MaxRuns = 1
  MaxCrashes = 1
INVARIANTS
  SearchTypeOK
  EngineKeysRest
PROPERTIES
  PoolStands
  QuotaReturns
  ImplementsBook
