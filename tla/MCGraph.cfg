CONSTANTS
  m1 = m1
  m2 = m2
  NoMerchant = NoMerchant
  Merchants = {m1, m2}
  Questions <- MCQuestions
  MaxIterations = 4
  RecursionLimit = 25
SPECIFICATION FairSpec
INVARIANTS
  ReportIsHonest
  CitationsResolve
  WriterObeysVerifier
  GivesUpForAReason
  TasksKeepTheirMerchant
  StepsFollowVisits
PROPERTIES
  ImplementsInquiry
  EveryInvestigationEnds
