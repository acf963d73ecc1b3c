SPECIFICATION FairSpec
CONSTANTS
  ann = ann
  bob = bob
  w1 = w1
  w2 = w2
  w3 = w3
  Users = {ann, bob}
  Workers = {w1, w2, w3}
  NoWorker = NoWorker
  Cases <- AllCases
INVARIANTS
  OnlyLoginsOutliveAChange
  SuspensionSignsOut
  StartUpLeavesAnAdmin
PROPERTIES
  OneAtATimeLeavesAnAdmin
  ColumnsChangeOnRequest
  LinksOpenOnce
  EveryRequestEnds
