SPECIFICATION FairSpec
CONSTANTS
  urgent = urgent
  normal = normal
  wide = wide
  spec1 = spec1
  spec2 = spec2
  bad = bad
  r1 = r1
  r2 = r2
  g1 = g1
  Packages = {urgent, wide, spec1, bad}
  Priority <- MCPriority
  ResourceAmount <- MCAmount
  ResourceType <- MCTypeMixed
  Resources = {r1, r2, g1}
  Types <- TwoTypes
  Inventory <- MixedInventory
  IsSpeculative = FALSE
  Threshold = 2
  MaxEvaluations = 1
  Faults = {"disconnect", "create", "execute", "timeout", "endPredicate", "filter"}
INVARIANTS
  TypeOK
  NothingLostOrDuplicated
  ResourcesConserved
  EvaluationsBounded
  AnswersCarryValues
PROPERTIES
  NoPriorityInversion
  ImplementsService
  ArrivalsAnswered
  LoopEnds
