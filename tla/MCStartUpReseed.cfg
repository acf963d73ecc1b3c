CONSTANTS
  c1 = c1
  c2 = c2
  operator = operator
  Containers = {c1, c2}
  Operator = operator
  Commands = {"none"}
  Configs <- MCConfigs
  Databases <- MCDatabases
  Documents = {"refunds", "webhooks"}
  Corpora <- MCCorpora
  MaxFaults = 0
  MaxTransfers = 1
SPECIFICATION Spec
PROPERTIES
  SeedsOnlyAnEmptyDatabase
