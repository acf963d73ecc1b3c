CONSTANTS
  catalog = catalog
  runbook = runbook
  webhooks = webhooks
  declines = declines
  policy = policy
  Chunks = {catalog, runbook, webhooks, declines, policy}
  About <- MCAbout
  Calls <- MCCalls
  TopK = 2
  MaxScore = 2
SPECIFICATION Spec
INVARIANTS
  SufficientMeansCovered
  GivesUpOnlyWhenOut
PROPERTIES
  ImplementsSearch
