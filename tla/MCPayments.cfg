CONSTANTS
  none = none
  None = none
  Plans <- MCPlans
  DrawHours = {1, 2}
  DrawMethods = {"card", "upi"}
  Amounts = {5}
  UpiSpike <- MCSpike
  WebhookDelay <- MCDelay
  Fixtures <- MCFixtures
  Keys = {"k", "l"}
  Deliveries <- MCDeliveries
  MaxDeliveries = 3
  FINDING_LIMIT = 2
  Windows <- MCAllWindows
  Orders <- MCOrders
SPECIFICATION Spec
INVARIANTS
  GeneratedDataIsClean
  BreakdownsAddUp
  ScoreIsExplained
  FindingsAreRight
CHECK_DEADLOCK FALSE
