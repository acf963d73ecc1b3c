CONSTANTS
  Backend = "postgresql"
  Workers = {w1, w2}
  NoWorker = NoWorker
  A = A
  B = B
  Ghost = Ghost
  w1 = w1
  w2 = w2
  Accounts = {A, B}
  UnknownIds = {Ghost}
  Starting <- MCStarting
  Requests <- Varied
SPECIFICATION FairSpec
INVARIANTS
  AllOrNothing
  ReplyIsTrue
PROPERTIES
  OnlyTransfersMoveMoney
  ImplementsBank
  EveryRequestEnds
