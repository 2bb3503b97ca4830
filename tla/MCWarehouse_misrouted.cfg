SPECIFICATION Spec
CONSTANTS
  NumClients = 3
  MaxSent <- OneEach
  Leavers <- FirstLeaves
INVARIANTS
  AnswersReachOwner
