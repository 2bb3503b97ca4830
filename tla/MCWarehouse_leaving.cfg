SPECIFICATION FairSpec
CONSTANTS
  NumClients = 3
  MaxSent <- SecondSendsTwo
  Leavers <- AnyoneLeaves
INVARIANTS
  TypeOK
  EachObjectOnce
  InOrderOfSending
  NobodyForgotten
  UnshiftedAnswersReachOwner
PROPERTIES
  SentIsReceived
  ShutsDown
