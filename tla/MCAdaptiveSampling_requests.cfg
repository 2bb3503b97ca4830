SPECIFICATION FairSpec
CONSTANTS
  t1 = t1
  t2 = t2
  NumRequests = 3
  Threads <- TwoThreads
  First = t1
  NumBrokers = 2
  ChunkSize = 1
  EvaluationLimit = 1
  StencilSize <- MCStencil
  MaxSent <- MCSent
  MaxSpeculative <- MCSpeculative
  Faults = {"leave", "broker", "model"}
INVARIANTS
  TypeOK
  EvaluationsCounted
  LimitKept
  SpeculationBounded
  StencilsTracked
PROPERTIES
  ImplementsService
  RequestsAnswered
  ThreadsEnd
CHECK_DEADLOCK FALSE
