SPECIFICATION Spec
CONSTANTS
  NumClients = 3
  MaxSent <- OneEach
  Leavers <- FirstAndLastLeave
PROPERTIES
  RemovesTerminated
