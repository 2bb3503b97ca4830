SPECIFICATION FairSpec
CONSTANTS
  urgent = urgent
  normal = normal
  wide = wide
  spec1 = spec1
  spec2 = spec2
  bad = bad
  r1 = r1
  r2 = r2
  g1 = g1
  Packages = {normal}
  Priority <- MCPriority
  ResourceAmount <- MCAmount
  ResourceType <- MCTypeCPU
  Resources = {r1, r2, g1}
  Types <- OneType
  Inventory <- TwoCPUs
  IsSpeculative = FALSE
  Threshold = 2
  MaxEvaluations = 1
  Faults = {"disconnect"}
PROPERTIES
  ExceptionsKill
