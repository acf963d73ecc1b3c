CONSTANTS
  c1 = c1
  c2 = c2
  operator = operator
  Containers = {c1, c2}
  Operator = operator
  Commands = {"none", "alembic upgrade", "payops-seed", "payops-ingest"}
  Configs <- MCConfigs
  Databases <- MCDatabases
  Documents = {"refunds", "webhooks"}
  Corpora <- MCCorpora
  MaxFaults = 1
  MaxTransfers = 1
SPECIFICATION Spec
INVARIANTS
  VersionIsTrue
  ServesAPreparedDatabase
PROPERTIES
  TransfersSurviveRestarts
  ContainersServe
