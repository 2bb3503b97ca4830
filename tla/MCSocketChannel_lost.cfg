SPECIFICATION Spec
CONSTANTS
  s1 = s1
  s2 = s2
  m1 = m1
  m2 = m2
  m3 = m3
  Senders = {s1, s2}
  Messages = {m1, m2, m3}
  Program <- OneEach
  Size <- Sizes
  HeaderLength = 2
  BufferSize = 3
  Leavers <- SenderLeaves
INVARIANTS
  AllReturnedBeforeTermination
