SPECIFICATION FairSpec
CONSTANTS
  w1 = w1
  w2 = w2
  w3 = w3
  doc = doc
  metric = metric
  Workers = {w1, w2, w3}
  Evidence = {doc, metric}
  NoOwner = NoOwner
  NoRow = NoRow
  NoItem = NoItem
  Cases <- AllCases
INVARIANTS
  AuditFollowsTheRun
  CitationsLostOnlyToDeletion
  RowsBelongToTheirRun
  LostOnlyToSharedEvidence
PROPERTIES
  ImplementsArchive
  EveryRequestEnds
