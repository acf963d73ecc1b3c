SPECIFICATION FairSpec
CONSTANTS
  r1 = r1
  r2 = r2
  r3 = r3
  Requests <- MCRequests
  Mixes <- MCMixes
  Capacity = 3
  Threads = 2
INVARIANT ConnectionsComeBack
PROPERTY EveryRequestEnds
