-------------------------- MODULE SmallPartsProofs --------------------------
(* What SmallParts guarantees for every number of clients, messages,        *)
(* brokers, packages, ranks and threads.                                    *)
EXTENDS SmallParts, QueueLemmas, SequenceTheorems, FiniteSetTheorems, WellFoundedInduction, TLAPS

-----------------------------------------------------------------------------
(* The order in which the warehouse goes through its communicators *)

(* A set of natural numbers that is not empty has a smallest element.      *)
LEMMA MinFacts ==
    ASSUME NEW S \in SUBSET Nat, S # {}
    PROVE  Min(S) \in S
<1>1. PICK x \in S : \A y \in S : ~(<<y, x>> \in OpToRel(<, Nat))
  BY NatLessThanWellFounded, WFMin
<1>2. ASSUME NEW y \in S, y < x PROVE FALSE
  <2>1. <<y, x>> \in Nat \X Nat /\ <<y, x>>[1] < <<y, x>>[2]
    BY <1>2
  <2>2. <<y, x>> \in OpToRel(<, Nat)
    BY <2>1, Zenon DEF OpToRel
  <2>3. QED
    BY <1>1, <2>2
<1>3. x \in Nat /\ S \subseteq Nat /\ \A y \in S : x <= y
  BY <1>2
<1>4. QED
  BY <1>3 DEF Min

(* The communicator after c is one of the warehouse, if there are any.     *)
LEMMA FollowingFacts ==
    ASSUME NEW those \in SUBSET Clients, NEW c \in Nat
    PROVE  Following(c, those) \in those \cup {0}
<1> DEFINE later == {d \in those : d > c}
<1>1. those \subseteq Nat
  BY MPIChannelAssumption DEF Clients
<1>2. CASE those = {}
  BY <1>2 DEF Following
<1>3. CASE those # {} /\ later # {}
  BY <1>1, <1>3, MinFacts DEF Following
<1>4. CASE those # {} /\ later = {}
  BY <1>1, <1>4, MinFacts DEF Following
<1>5. QED
  BY <1>2, <1>3, <1>4

-----------------------------------------------------------------------------
(* Messages, from the client to the warehouse *)

(* What a thread in receiveSerialized has received belongs to a            *)
(* communicator of the warehouse, and outside it has received nothing.     *)
ReceivingOne ==
    /\ iterator \in registered \cup {0}
    /\ receiverAt \in {"receive", "terminate", "return"} => iterator \in registered
    /\ receiverAt \in {"next", "terminate", "ended"} => returnValue = <<>>

MPIInvariant == MPITypeOK /\ ReceivingOne /\ MessagesAccounted

(* The numbers of the messages a client has sent.                          *)
Sent(n) == [i \in 1 .. n |-> i]
LEMMA SentNext ==
    ASSUME NEW n \in Nat
    PROVE  Sent(n) \in Seq(Nat) /\ Sent(n + 1) = Append(Sent(n), n + 1)
<1>1. Sent(n) \in Seq(Nat) /\ Sent(n + 1) \in Seq(Nat)
      /\ Len(Sent(n)) = n /\ Len(Sent(n + 1)) = n + 1
  BY DEF Sent
<1>2. QED
  BY <1>1 DEF Sent

LEMMA MPIInvariantInit == MPIInit => MPIInvariant
<1> SUFFICES ASSUME MPIInit PROVE MPIInvariant
  OBVIOUS
<1>1. 1 \in Clients /\ 1 \in Nat /\ Clients \subseteq Nat
  BY MPIChannelAssumption DEF Clients
<1>2. MPITypeOK
  <2>1. /\ {sendRequests, incomplete} \subseteq [Clients -> SUBSET Nat]
        /\ \A c \in Clients : sendRequests[c] \cup incomplete[c] = {}
    BY DEF MPIInit
  <2>2. <<>> \in Seq(Nat) /\ {inTransit, gathered} \subseteq [Clients -> Seq(Nat)]
    BY DEF MPIInit
  <2>3. /\ numberSent \in [Clients -> Nat]
        /\ \A c \in Clients : numberSent[c] <= MaxMessages[c]
    BY MPIChannelAssumption DEF MPIInit, Clients
  <2>4. iterator \in 0 .. NumClients
    BY <1>1, MPIChannelAssumption DEF MPIInit, Clients
  <2>5. QED
    BY <2>1, <2>2, <2>3, <2>4 DEF MPIInit, MPITypeOK
<1>3. ReceivingOne
  BY <1>1 DEF MPIInit, ReceivingOne
<1>4. \A c \in Clients :
          <<>> \o BeingReceived(c) \o <<>> = [i \in 1 .. 0 |-> i]
  BY DEF MPIInit, BeingReceived
<1>5. MessagesAccounted
  BY <1>4 DEF MPIInit, MessagesAccounted
<1>6. QED
  BY <1>2, <1>3, <1>5 DEF MPIInvariant

(* Three sequences of numbers may be concatenated from either end.         *)
LEMMA ConcatThree ==
    ASSUME NEW a \in Seq(Nat), NEW b \in Seq(Nat), NEW c \in Seq(Nat)
    PROVE  (a \o b) \o c = a \o (b \o c)
BY ConcatAssociative

(* A concatenation of three stays the same when an element goes from the    *)
(* front of the third to the end of the second.                            *)
LEMMA MoveOne ==
    ASSUME NEW a \in Seq(Nat), NEW b \in Seq(Nat), NEW d \in Seq(Nat), d # <<>>
    PROVE  a \o Append(b, Head(d)) \o Tail(d) = a \o b \o d
<1>1. Head(d) \in Nat /\ Tail(d) \in Seq(Nat) /\ <<Head(d)>> \in Seq(Nat)
      /\ d = <<Head(d)>> \o Tail(d)
  <2>1. Head(d) \in Nat /\ Tail(d) \in Seq(Nat) /\ Len(Tail(d)) = Len(d) - 1
        /\ Len(d) \in Nat /\ \A i \in 1 .. Len(Tail(d)) : Tail(d)[i] = d[i + 1]
        /\ Head(d) = d[1]
    BY HeadTailProperties
  <2> DEFINE e == <<Head(d)>> \o Tail(d)
  <2>2. <<Head(d)>> \in Seq(Nat) /\ Len(<<Head(d)>>) = 1 /\ <<Head(d)>>[1] = d[1]
    BY <2>1
  <2>3. /\ e \in Seq(Nat) /\ Len(e) = 1 + Len(Tail(d))
        /\ \A i \in 1 .. 1 + Len(Tail(d)) :
               e[i] = IF i <= 1 THEN <<Head(d)>>[i] ELSE Tail(d)[i - 1]
    BY <2>1, <2>2, ConcatProperties
  <2> HIDE DEF e
  <2>4. ASSUME NEW i \in 1 .. Len(d) PROVE e[i] = d[i]
    <3>1. CASE i = 1
      BY <2>1, <2>2, <2>3, <3>1
    <3>2. CASE i # 1
      <4>1. i - 1 \in 1 .. Len(Tail(d)) /\ i = (i - 1) + 1
        BY <2>1, <3>2
      <4>2. Tail(d)[i - 1] = d[i]
        BY <2>1, <4>1
      <4>3. QED
        BY <2>1, <2>3, <3>2, <4>2
    <3>3. QED
      BY <3>1, <3>2
  <2>5. e = d
    BY <2>1, <2>3, <2>4, SeqEqual
  <2>6. QED
    BY <2>1, <2>2, <2>5 DEF e
<1>2. Append(b, Head(d)) = b \o <<Head(d)>>
  BY <1>1, AppendIsConcat
<1>3. a \o b \in Seq(Nat)
  BY ConcatProperties
<1>4. a \o (b \o <<Head(d)>>) = (a \o b) \o <<Head(d)>>
  BY <1>1, ConcatThree
<1>5. ((a \o b) \o <<Head(d)>>) \o Tail(d) = (a \o b) \o (<<Head(d)>> \o Tail(d))
  BY <1>1, <1>3, ConcatThree
<1>6. a \o Append(b, Head(d)) = (a \o b) \o <<Head(d)>>
  BY <1>2, <1>4, Zenon
<1>7. <<Head(d)>> \o Tail(d) = d
  BY <1>1
<1>8. QED
  BY <1>5, <1>6, <1>7, Zenon

(* What is appended to the second of two sequences is behind both.         *)
LEMMA AppendBehind ==
    ASSUME NEW a \in Seq(Nat), NEW b \in Seq(Nat), NEW e \in Nat
    PROVE  a \o Append(b, e) = Append(a \o b, e)
<1>1. <<e>> \in Seq(Nat) /\ a \o b \in Seq(Nat)
  BY ConcatProperties
<1>2. Append(b, e) = b \o <<e>> /\ Append(a \o b, e) = (a \o b) \o <<e>>
  BY <1>1, AppendIsConcat
<1>3. (a \o b) \o <<e>> = a \o (b \o <<e>>)
  BY <1>1, ConcatThree
<1>4. QED
  BY <1>2, <1>3

(* Every step keeps the types.                                             *)
LEMMA MPITypeStep == MPIInvariant /\ [MPINext]_mpiVars => MPITypeOK'
<1> SUFFICES ASSUME MPIInvariant, [MPINext]_mpiVars PROVE MPITypeOK'
  OBVIOUS
<1> USE MPIChannelAssumption
<1>0. MPITypeOK /\ ReceivingOne
  BY DEF MPIInvariant
<1>1. ASSUME NEW c \in Clients, Send(c) PROVE MPITypeOK'
  <2> DEFINE m == numberSent[c] + 1
  <2>1. m \in Nat /\ m <= MaxMessages[c] /\ 1 .. numberSent[c] \subseteq 1 .. m /\ m \in 1 .. m
    BY <1>0, <1>1 DEF MPITypeOK, Send, Clients
  <2>2. PICK open \in {incomplete[c], incomplete[c] \cup {m}} :
          /\ incomplete' = [incomplete EXCEPT ![c] = open]
          /\ sendRequests' = [sendRequests EXCEPT ![c] = Outstanding(@ \cup {m}, open)]
    BY <1>1 DEF Send
  <2>3. /\ open \in SUBSET (1 .. m)
        /\ Outstanding(sendRequests[c] \cup {m}, open) \in SUBSET (1 .. m)
    BY <1>0, <2>1, <2>2 DEF MPITypeOK, Outstanding
  <2>4. /\ numberSent' = [numberSent EXCEPT ![c] = m]
        /\ inTransit' = [inTransit EXCEPT ![c] = Append(@, m)]
        /\ UNCHANGED <<clientAt, termination, mpiMutex, receiving, shipped>>
    BY <1>1 DEF Send
  <2>5. /\ numberSent' \in [Clients -> Nat]
        /\ \A d \in Clients : numberSent'[d] <= MaxMessages[d]
    BY <1>0, <2>1, <2>4 DEF MPITypeOK
  <2>6. {sendRequests', incomplete'} \subseteq [Clients -> SUBSET Nat]
    <3>1. 1 .. m \subseteq Nat
      BY <2>1
    <3>2. open \in SUBSET Nat /\ Outstanding(sendRequests[c] \cup {m}, open) \in SUBSET Nat
      BY <2>3, <3>1
    <3> DEFINE outstanding == Outstanding(sendRequests[c] \cup {m}, open)
    <3>3. /\ sendRequests' = [sendRequests EXCEPT ![c] = outstanding]
          /\ incomplete' = [incomplete EXCEPT ![c] = open]
      BY <2>2
    <3>4. sendRequests \in [Clients -> SUBSET Nat] /\ incomplete \in [Clients -> SUBSET Nat]
      BY <1>0 DEF MPITypeOK
    <3> HIDE DEF outstanding, m
    <3>5. outstanding \in SUBSET Nat /\ open \in SUBSET Nat
      BY <3>2 DEF outstanding
    <3>6. sendRequests' \in [Clients -> SUBSET Nat]
      BY ONLY <3>3, <3>4, <3>5
    <3>7. incomplete' \in [Clients -> SUBSET Nat]
      BY ONLY <3>3, <3>4, <3>5
    <3>8. QED
      BY <3>6, <3>7
  <2>7. \A d \in Clients : sendRequests'[d] \cup incomplete'[d] \subseteq 1 .. numberSent'[d]
    BY <1>0, <2>1, <2>2, <2>3, <2>4 DEF MPITypeOK
  <2>8. inTransit' \in [Clients -> Seq(Nat)]
    BY <1>0, <2>1, <2>4 DEF MPITypeOK
  <2>9. QED
    BY <1>0, <2>4, <2>5, <2>6, <2>7, <2>8 DEF MPITypeOK, receiving
<1>2. ASSUME NEW c \in Clients, Complete(c) PROVE MPITypeOK'
  BY <1>0, <1>2 DEF MPITypeOK, Complete, client, receiving
<1>3. ASSUME NEW c \in Clients, Close(c) PROVE MPITypeOK'
  BY <1>0, <1>3 DEF MPITypeOK, Close, network, receiving
<1>4. ASSUME NEW c \in Clients, Terminate(c) PROVE MPITypeOK'
  BY <1>0, <1>4 DEF MPITypeOK, Terminate, receiving
<1>5. CASE LockToReceive
  BY <1>0, <1>5 DEF MPITypeOK, LockToReceive, client, network
<1>6. CASE ReceiveMessage
  <2>1. iterator \in Clients /\ inTransit[iterator] \in Seq(Nat) /\ inTransit[iterator] # <<>>
    BY <1>0, <1>6 DEF MPITypeOK, ReceivingOne, ReceiveMessage, ReceiverIs
  <2>2. Head(inTransit[iterator]) \in Nat /\ Tail(inTransit[iterator]) \in Seq(Nat)
    BY <2>1, HeadTailProperties
  <2>3. /\ inTransit' \in [Clients -> Seq(Nat)]
        /\ returnValue' \in Seq(Nat)
    BY <1>0, <1>6, <2>1, <2>2 DEF MPITypeOK, ReceiveMessage
  <2>4. /\ incomplete' \in [Clients -> SUBSET Nat]
        /\ \A c \in Clients : incomplete'[c] \subseteq incomplete[c]
    BY <1>0, <1>6, <2>1 DEF MPITypeOK, ReceiveMessage
  <2>5. QED
    BY <1>0, <1>6, <2>3, <2>4 DEF MPITypeOK, ReceiveMessage, client
<1>7. CASE ReceiveNoMessage
  BY <1>0, <1>7 DEF MPITypeOK, ReceiveNoMessage, client, network
<1>8. CASE ReceiveNoTermination
  BY <1>0, <1>8 DEF MPITypeOK, ReceiveNoTermination, client, network
<1>9. CASE ReceiveTerminationNotice
  <2>0. /\ registered' \in SUBSET Clients /\ iterator \in Nat
        /\ iterator' = Following(iterator, registered')
    BY <1>0, <1>9 DEF MPITypeOK, ReceiveTerminationNotice
  <2>1. iterator' \in 0 .. NumClients
    <3>1. iterator' \in Clients \cup {0}
      BY <2>0, FollowingFacts
    <3>2. QED
      BY <3>1 DEF Clients
  <2>2. QED
    BY <1>0, <1>9, <2>1 DEF MPITypeOK, ReceiveTerminationNotice, client
<1>10. CASE ReturnReceived
  <2>0. /\ registered \in SUBSET Clients /\ iterator \in Nat /\ iterator \in Clients
        /\ iterator' = Following(iterator, registered)
    BY <1>0, <1>10 DEF MPITypeOK, ReceivingOne, ReturnReceived, ReceiverIs
  <2>1. iterator' \in 0 .. NumClients
    <3>1. iterator' \in Clients \cup {0}
      BY <2>0, FollowingFacts
    <3>2. QED
      BY <3>1 DEF Clients
  <2>2. gathered' \in [Clients -> Seq(Nat)] /\ returnValue' \in Seq(Nat)
    <3>1. gathered[iterator] \in Seq(Nat) /\ returnValue \in Seq(Nat)
      BY <1>0, <2>0 DEF MPITypeOK
    <3> DEFINE all == gathered[iterator] \o returnValue
    <3>2. all \in Seq(Nat)
      BY <3>1, ConcatProperties
    <3>3. gathered' = [gathered EXCEPT ![iterator] = all] /\ returnValue' = <<>>
      BY <1>10 DEF ReturnReceived
    <3> HIDE DEF all
    <3>4. QED
      BY <1>0, <2>0, <3>2, <3>3 DEF MPITypeOK
  <2>3. QED
    BY <1>0, <1>10, <2>1, <2>2 DEF MPITypeOK, ReturnReceived, client, network, Unlock
<1>11. CASE Destroy
  BY <1>0, <1>11 DEF MPITypeOK, Destroy, client, network
<1>12. CASE LockToShip
  BY <1>0, <1>12 DEF MPITypeOK, LockToShip, client, network, receiving
<1>13. CASE UnlockShipped
  BY <1>0, <1>13 DEF MPITypeOK, UnlockShipped, client, network, receiving
<1>14. CASE UNCHANGED mpiVars
  BY <1>0, <1>14 DEF MPITypeOK, mpiVars, client, network, receiving
<1>15. QED
  BY <1>1, <1>2, <1>3, <1>4, <1>5, <1>6, <1>7, <1>8, <1>9, <1>10, <1>11, <1>12, <1>13, <1>14
  DEF MPINext, Receiver, Shipper, ClientStep

(* The iterator stays with the communicators of the warehouse.             *)
LEMMA ReceivingOneStep == MPIInvariant /\ [MPINext]_mpiVars => ReceivingOne'
<1> SUFFICES ASSUME MPIInvariant, [MPINext]_mpiVars PROVE ReceivingOne'
  OBVIOUS
<1>0. MPITypeOK /\ ReceivingOne
  BY DEF MPIInvariant
<1>1. iterator \in Nat /\ registered \in SUBSET Clients
  BY <1>0 DEF MPITypeOK
<1>2. CASE UNCHANGED receiving
  BY <1>0, <1>2 DEF ReceivingOne, receiving
<1>3. CASE LockToReceive
  BY <1>0, <1>3 DEF ReceivingOne, LockToReceive, ReceiverIs
<1>4. CASE ReceiveMessage
  BY <1>0, <1>4 DEF ReceivingOne, ReceiveMessage, ReceiverIs
<1>5. CASE ReceiveNoMessage
  BY <1>0, <1>5 DEF ReceivingOne, ReceiveNoMessage, ReceiverIs
<1>6. CASE ReceiveNoTermination
  BY <1>0, <1>6 DEF ReceivingOne, ReceiveNoTermination, ReceiverIs
<1>7. CASE ReceiveTerminationNotice
  <2>1. registered' \in SUBSET Clients /\ iterator' = Following(iterator, registered')
    BY <1>1, <1>7 DEF ReceiveTerminationNotice
  <2>2. iterator' \in registered' \cup {0}
    BY <1>1, <2>1, FollowingFacts
  <2>3. QED
    BY <1>0, <1>7, <2>2 DEF ReceivingOne, ReceiveTerminationNotice, ReceiverIs
<1>8. CASE ReturnReceived
  BY <1>0, <1>1, <1>8, FollowingFacts DEF ReceivingOne, ReturnReceived
<1>9. CASE Destroy
  BY <1>0, <1>9 DEF ReceivingOne, Destroy, ReceiverIs
<1>10. QED
  BY <1>2, <1>3, <1>4, <1>5, <1>6, <1>7, <1>8, <1>9
  DEF MPINext, Receiver, Shipper, ClientStep, Send, Complete, Close, Terminate,
      LockToShip, UnlockShipped, mpiVars

(* No step loses, doubles or reorders a message of a client whose          *)
(* communicator is in the warehouse, and no client frees one too early.    *)
LEMMA MessagesStep == MPIInvariant /\ [MPINext]_mpiVars => MessagesAccounted'
<1> SUFFICES ASSUME MPIInvariant, [MPINext]_mpiVars PROVE MessagesAccounted'
  OBVIOUS
<1> DEFINE InOrder(c) ==
             gathered[c] \o BeingReceived(c) \o inTransit[c] = Sent(numberSent[c])
           Kept(c) == incomplete[c] \subseteq sendRequests[c]
<1>0. /\ MPITypeOK /\ ReceivingOne
      /\ \A c \in registered : c \in Clients /\ InOrder(c)
      /\ \A c \in Clients : Kept(c)
      /\ \A c : BeingReceived(c) \in Seq(Nat)
  <2>1. MPITypeOK /\ ReceivingOne /\ MessagesAccounted
    BY DEF MPIInvariant
  <2>2. \A c : BeingReceived(c) \in Seq(Nat)
    BY <2>1 DEF MPITypeOK, BeingReceived
  <2>3. registered \subseteq Clients
    BY <2>1 DEF MPITypeOK
  <2>4. QED
    BY <2>1, <2>2, <2>3 DEF MessagesAccounted, Sent
<1>00. SUFFICES /\ \A c \in registered' : InOrder(c)'
                /\ \A c \in Clients : Kept(c)'
  BY DEF MessagesAccounted, Sent
<1>1. ASSUME NEW c \in Clients, Send(c)
      PROVE  (\A d \in registered' : InOrder(d)') /\ \A d \in Clients : Kept(d)'
  <2> DEFINE m == numberSent[c] + 1
  <2>1. /\ numberSent' = [numberSent EXCEPT ![c] = m]
        /\ inTransit' = [inTransit EXCEPT ![c] = Append(@, m)]
        /\ UNCHANGED <<iterator, registered, returnValue, gathered>>
    BY <1>1 DEF Send, receiving
  <2>2. \A d \in Clients : Kept(d)'
    BY <1>0, <1>1 DEF Send, Outstanding, MPITypeOK
  <2>3. ASSUME NEW d \in registered', d # c PROVE InOrder(d)'
    BY <1>0, <2>1, <2>3 DEF BeingReceived, MPITypeOK
  <2>4. ASSUME c \in registered' PROVE InOrder(c)'
    <3>1. /\ numberSent[c] \in Nat /\ m \in Nat /\ inTransit[c] \in Seq(Nat)
          /\ gathered[c] \in Seq(Nat) /\ BeingReceived(c) \in Seq(Nat)
      BY <1>0 DEF MPITypeOK
    <3>2. /\ gathered'[c] = gathered[c] /\ BeingReceived(c)' = BeingReceived(c)
          /\ inTransit'[c] = Append(inTransit[c], m) /\ numberSent'[c] = m
      BY <1>0, <2>1 DEF BeingReceived, MPITypeOK
    <3> DEFINE before == gathered[c] \o BeingReceived(c)
    <3>3. before \in Seq(Nat)
      BY <3>1, ConcatProperties
    <3>4. before \o Append(inTransit[c], m) = Append(before \o inTransit[c], m)
      BY <3>1, <3>3, AppendBehind
    <3>5. before \o inTransit[c] = Sent(numberSent[c])
      BY <1>0, <2>1, <2>4
    <3>6. Append(Sent(numberSent[c]), m) = Sent(m)
      BY <3>1, SentNext
    <3>7. QED
      BY <3>2, <3>4, <3>5, <3>6
  <2>5. QED
    BY <2>2, <2>3, <2>4
<1>2. CASE ReceiveMessage
  <2> DEFINE d == inTransit[iterator]
  <2>1. iterator \in registered /\ iterator \in Clients /\ d # <<>> /\ d \in Seq(Nat)
        /\ gathered[iterator] \in Seq(Nat) /\ returnValue \in Seq(Nat)
    BY <1>0, <1>2 DEF ReceiveMessage, ReceivingOne, ReceiverIs, MPITypeOK
  <2>2. /\ returnValue' = Append(returnValue, Head(d))
        /\ inTransit' = [inTransit EXCEPT ![iterator] = Tail(d)]
        /\ incomplete' = [incomplete EXCEPT ![iterator] = @ \ {Head(d)}]
        /\ UNCHANGED <<numberSent, sendRequests, iterator, registered, gathered>>
    BY <1>2 DEF ReceiveMessage, client
  <2>3. \A c \in Clients : Kept(c)'
    BY <1>0, <2>2 DEF MPITypeOK
  <2>4. InOrder(iterator)'
    <3>1. gathered[iterator] \o Append(returnValue, Head(d)) \o Tail(d)
              = gathered[iterator] \o returnValue \o d
      BY <2>1, MoveOne
    <3>2. /\ BeingReceived(iterator) = returnValue
          /\ BeingReceived(iterator)' = Append(returnValue, Head(d))
          /\ inTransit'[iterator] = Tail(d)
      BY <1>0, <2>1, <2>2 DEF BeingReceived, MPITypeOK
    <3>3. gathered[iterator] \o returnValue \o d = Sent(numberSent[iterator])
      BY <1>0, <2>1, <3>2
    <3>4. QED
      BY <2>2, <3>1, <3>2, <3>3
  <2>5. ASSUME NEW c \in registered', c # iterator PROVE InOrder(c)'
    BY <1>0, <2>2, <2>5 DEF BeingReceived, MPITypeOK
  <2>6. QED
    BY <2>2, <2>3, <2>4, <2>5
<1>3. CASE ReceiveTerminationNotice
  <2>1. /\ returnValue = <<>> /\ registered' \subseteq registered
        /\ UNCHANGED <<numberSent, sendRequests, inTransit, incomplete, returnValue, gathered>>
    BY <1>0, <1>3 DEF ReceiveTerminationNotice, ReceivingOne, ReceiverIs, client
  <2>2. \A c : BeingReceived(c) = <<>> /\ BeingReceived(c)' = <<>>
    BY <2>1 DEF BeingReceived
  <2>3. QED
    BY <1>0, <2>1, <2>2
<1>4. CASE ReturnReceived
  <2>1. iterator \in registered /\ iterator \in Clients
        /\ gathered[iterator] \in Seq(Nat) /\ returnValue \in Seq(Nat)
    BY <1>0, <1>4 DEF ReturnReceived, ReceivingOne, ReceiverIs, MPITypeOK
  <2>2. /\ gathered' = [gathered EXCEPT ![iterator] = @ \o returnValue]
        /\ returnValue' = <<>>
        /\ UNCHANGED <<numberSent, sendRequests, inTransit, incomplete, registered>>
    BY <1>4 DEF ReturnReceived, client, network
  <2>3. \A c : BeingReceived(c)' = <<>>
    BY <2>2 DEF BeingReceived
  <2>4. ASSUME NEW c \in registered'
        PROVE  gathered'[c] \o BeingReceived(c)' = gathered[c] \o BeingReceived(c)
    <3>1. c \in Clients /\ gathered[c] \in Seq(Nat)
      BY <1>0, <2>2, <2>4 DEF MPITypeOK
    <3>2. CASE c = iterator
      <4>1. gathered'[c] = gathered[c] \o returnValue /\ BeingReceived(c) = returnValue
        BY <1>0, <2>1, <2>2, <3>2 DEF BeingReceived, MPITypeOK
      <4>2. gathered[c] \o returnValue \in Seq(Nat)
        BY <2>1, <3>1, ConcatProperties
      <4>3. (gathered[c] \o returnValue) \o <<>> = gathered[c] \o returnValue
        BY <4>2, ConcatEmptySeq
      <4>4. QED
        BY <2>3, <4>1, <4>3
    <3>3. CASE c # iterator
      BY <1>0, <2>2, <2>3, <3>1, <3>3 DEF BeingReceived, MPITypeOK
    <3>4. QED
      BY <3>2, <3>3
  <2>5. QED
    BY <1>0, <2>2, <2>4
<1>5. ASSUME NEW c \in Clients, Complete(c) \/ Close(c) \/ Terminate(c)
      PROVE  (\A d \in registered' : InOrder(d)') /\ \A d \in Clients : Kept(d)'
  <2>1. UNCHANGED <<numberSent, inTransit, iterator, registered, returnValue, gathered>>
    BY <1>5 DEF Complete, Close, Terminate, client, network, receiving
  <2>2. \A d \in Clients : Kept(d)'
    BY <1>0, <1>5 DEF Complete, Close, Terminate, client, network, MPITypeOK
  <2>3. QED
    BY <1>0, <2>1, <2>2 DEF BeingReceived
<1>6. CASE /\ UNCHANGED <<numberSent, sendRequests, inTransit, incomplete>>
           /\ UNCHANGED <<iterator, registered, returnValue, gathered>>
  BY <1>0, <1>6 DEF BeingReceived
<1>7. QED
  BY <1>1, <1>2, <1>3, <1>4, <1>5, <1>6
  DEF MPINext, Receiver, Shipper, ClientStep, LockToReceive, ReceiveNoMessage,
      ReceiveNoTermination, Destroy, LockToShip, UnlockShipped, mpiVars, client,
      network, receiving

-----------------------------------------------------------------------------
(* Whichever part behaves, that of the MPI communicators does so as         *)
(* MPIChannel says or not at all.                                          *)
LEMMA MPIInvariantInductive ==
    /\ Init => MPIInvariant
    /\ MPIInvariant /\ [Next]_vars => MPIInvariant'
<1>1. Init => MPIInvariant
  BY MPIInvariantInit DEF Init
<1>2. [Next]_vars => [MPINext]_mpiVars
  BY DEF Next, vars
<1>3. MPIInvariant /\ [MPINext]_mpiVars => MPIInvariant'
  BY MPITypeStep, ReceivingOneStep, MessagesStep DEF MPIInvariant
<1>4. QED
  BY <1>1, <1>2, <1>3

(* For any number of clients and of messages: what a client whose           *)
(* communicator is in the warehouse has sent with MPICommunicator is there, *)
(* once and in order, and it keeps the memory of a send that is not         *)
(* complete.                                                               *)
THEOREM MessagesAreAccountedFor == Spec => []MessagesAccounted
<1>1. MPIInvariant => MessagesAccounted
  BY DEF MPIInvariant
<1>2. QED
  BY <1>1, MPIInvariantInductive, PTL DEF Spec

-----------------------------------------------------------------------------
(* The predicted work of the brokers *)

(* A package of any norm has a bin.                                        *)
LEMMA BinInRange ==
    ASSUME NEW norm \in Nat
    PROVE  ComputeBin(norm) \in 0 .. LastBin
<1>1. (norm - MinArgument) \div BinDelta \in Int
  BY PerformanceAssumption
<1>2. QED
  BY <1>1, PerformanceAssumption DEF ComputeBin, LastBin

(* A bin's prediction is a time that was measured, or 0.                   *)
LEMMA PredictionBounded ==
    ASSUME PerformanceTypeOK, NEW bin \in 0 .. LastBin
    PROVE  PredictedTime(bin) \in 0 .. LongestTime
<1>1. measured[bin] \in {<<>>} \cup {<<t>> : t \in 0 .. LongestTime}
  BY DEF PerformanceTypeOK
<1>2. CASE measured[bin] = <<>>
  BY <1>2, PerformanceAssumption DEF PredictedTime
<1>3. CASE \E t \in 0 .. LongestTime : measured[bin] = <<t>>
  <2>1. PICK t \in 0 .. LongestTime : measured[bin] = <<t>>
    BY <1>3
  <2>2. measured[bin] # <<>> /\ measured[bin][1] = t
    BY <2>1
  <2>3. QED
    BY <2>2 DEF PredictedTime
<1>4. QED
  BY <1>1, <1>2, <1>3

(* Scheduling a package and learning of a time keep the types and the      *)
(* balance: the broker that gets more had the least.                       *)
PerformanceInvariant == PerformanceTypeOK /\ WorkBalanced
LEMMA PerformanceStep ==
    PerformanceInvariant /\ [PerformanceNext]_performanceVars => PerformanceInvariant'
<1> SUFFICES ASSUME PerformanceInvariant, [PerformanceNext]_performanceVars
             PROVE  PerformanceInvariant'
  OBVIOUS
<1> USE PerformanceAssumption
<1>0. PerformanceTypeOK /\ WorkBalanced
  BY DEF PerformanceInvariant
<1>1. CASE SchedulePackage
  <2> DEFINE bin == ComputeBin(PackageNorm[scheduled + 1])
             time == PredictedTime(bin)
  <2>1. /\ scheduled \in Nat /\ scheduled < Len(PackageNorm)
        /\ scheduled' = scheduled + 1 /\ scheduled + 1 \in 1 .. Len(PackageNorm)
        /\ underEvaluation' = underEvaluation \cup {scheduled + 1}
        /\ measured' = measured
    BY <1>0, <1>1 DEF PerformanceTypeOK, SchedulePackage
  <2>2. bin \in 0 .. LastBin
    <3>1. PackageNorm[scheduled + 1] \in Nat
      BY <2>1
    <3>2. QED
      BY <3>1, BinInRange
  <2>3. time \in 0 .. LongestTime
    BY <1>0, <2>2, PredictionBounded
  <2>4. scheduled' \in 0 .. Len(PackageNorm) /\ underEvaluation' \subseteq 1 .. scheduled'
    BY <1>0, <2>1 DEF PerformanceTypeOK
  <2>5. roundRobinIndex' \in PerformanceBrokers
    BY <1>0, <1>1 DEF PerformanceTypeOK, SchedulePackage, PerformanceBrokers
  <2>6. CASE accumulatedTime' = accumulatedTime
    BY <1>0, <2>1, <2>4, <2>5, <2>6 DEF PerformanceInvariant, PerformanceTypeOK, WorkBalanced
  <2>7. ASSUME NEW b \in PerformanceBrokers, LeastWork(b),
               accumulatedTime' = [accumulatedTime EXCEPT ![b] = @ + time]
        PROVE  PerformanceInvariant'
    <3> HIDE DEF time
    <3>1. accumulatedTime \in [PerformanceBrokers -> Nat]
      BY <1>0 DEF PerformanceTypeOK
    <3>2. accumulatedTime' \in [PerformanceBrokers -> Nat]
      BY <2>3, <2>7, <3>1
    <3>3. ASSUME NEW c \in PerformanceBrokers, NEW d \in PerformanceBrokers
          PROVE  accumulatedTime'[c] - accumulatedTime'[d] <= LongestTime
      <4>1. accumulatedTime[c] - accumulatedTime[d] <= LongestTime
        BY <1>0 DEF WorkBalanced
      <4>2. accumulatedTime[b] <= accumulatedTime[d]
        BY <2>7 DEF LeastWork
      <4>3. QED
        BY <2>3, <2>7, <3>1, <4>1, <4>2
    <3>4. PerformanceTypeOK'
      BY <1>0, <2>1, <2>4, <2>5, <3>2 DEF PerformanceTypeOK
    <3>5. WorkBalanced'
      BY <3>3 DEF WorkBalanced
    <3>6. QED
      BY <3>4, <3>5 DEF PerformanceInvariant
  <2>8. QED
    BY <1>1, <2>6, <2>7 DEF SchedulePackage
<1>2. CASE UpdateTimes
  <2>1. PICK p \in underEvaluation, wallClockTime \in 0 .. LongestTime :
          /\ underEvaluation' = underEvaluation \ {p}
          /\ \/ measured' = [measured EXCEPT ![ComputeBin(PackageNorm[p])] = <<wallClockTime>>]
             \/ measured' = measured
          /\ UNCHANGED <<roundRobinIndex, accumulatedTime, scheduled>>
    BY <1>2 DEF UpdateTimes
  <2>2. measured' \in [0 .. LastBin -> {<<>>} \cup {<<t>> : t \in 0 .. LongestTime}]
    <3>1. <<wallClockTime>> \in {<<>>} \cup {<<t>> : t \in 0 .. LongestTime}
      OBVIOUS
    <3> DEFINE records == {<<>>} \cup {<<t>> : t \in 0 .. LongestTime}
               bin == ComputeBin(PackageNorm[p])
    <3>2. measured \in [0 .. LastBin -> records]
      BY <1>0 DEF PerformanceTypeOK
    <3>3. measured' = [measured EXCEPT ![bin] = <<wallClockTime>>] \/ measured' = measured
      BY <2>1
    <3> HIDE DEF records, bin
    <3>4. <<wallClockTime>> \in records
      BY <3>1 DEF records
    <3>5. measured' \in [0 .. LastBin -> records]
      BY ONLY <3>2, <3>3, <3>4
    <3>6. QED
      BY <3>5 DEF records
  <2>3. QED
    BY <1>0, <2>1, <2>2 DEF PerformanceInvariant, PerformanceTypeOK, WorkBalanced
<1>3. CASE UNCHANGED performanceVars
  BY <1>0, <1>3 DEF PerformanceInvariant, PerformanceTypeOK, WorkBalanced, performanceVars
<1>4. QED
  BY <1>1, <1>2, <1>3 DEF PerformanceNext

(* It holds at the start, and whichever part behaves.                      *)
LEMMA PerformanceInductive ==
    /\ Init => PerformanceInvariant
    /\ PerformanceInvariant /\ [Next]_vars => PerformanceInvariant'
<1>1. Init => PerformanceInvariant
  <2> SUFFICES ASSUME Init PROVE PerformanceInvariant
    OBVIOUS
  <2>1. PerformanceInit
    BY DEF Init
  <2>2. 0 \in PerformanceBrokers /\ 0 \in 0 .. Len(PackageNorm)
    BY PerformanceAssumption DEF PerformanceBrokers
  <2>3. QED
    BY <2>1, <2>2, PerformanceAssumption
    DEF PerformanceInit, PerformanceInvariant, PerformanceTypeOK, WorkBalanced
<1>2. PerformanceInvariant /\ [Next]_vars => PerformanceInvariant'
  <2>1. [Next]_vars => [PerformanceNext]_performanceVars
    BY DEF Next, vars
  <2>2. QED
    BY <2>1, PerformanceStep
<1>3. QED
  BY <1>1, <1>2

(* No broker is ever given more predicted work than another one by more    *)
(* than the longest evaluation, for any number of brokers and packages     *)
(* (AdaptiveSamplingPerformanceScheduler::schedule and update).            *)
THEOREM WorkIsBalanced == Spec => []WorkBalanced
<1>1. PerformanceInvariant => WorkBalanced
  BY DEF PerformanceInvariant
<1>2. QED
  BY <1>1, PerformanceInductive, PTL DEF Spec

-----------------------------------------------------------------------------
(* The database of adaptive sampling and its locks *)

(* Whoever changes the database is alone in it: in the Kriging database by  *)
(* the lock for readers and writers, in that of Pyas because only one       *)
(* thread is past the mutex at all.                                        *)
PastLock(t) == callAt[t] \in {"locked", "inside", "switched", "resumed"}
WriterAlone ==
    \A t, u \in DBThreads : t \in Inside /\ u \in Inside /\ writes[t] => t = u
OneLock ==
    CASE database = "Kriging" ->
           /\ \A t \in DBThreads : callAt[t] \in {"out", "waiting", "inside"}
           /\ gilHolder = "none"
      [] database = "Pyas" ->
           /\ \A t, u \in DBThreads : PastLock(t) /\ PastLock(u) => t = u
           /\ \A t \in DBThreads : PastLock(t) => lockHolder = "taken"

(* In the Python object there is at most one thread that has the lock of    *)
(* the interpreter; statistics are not printed in the middle of it.        *)
GILHeld ==
    database = "Pyas" =>
        /\ gilHolder = "database" <=>
               \E t \in DBThreads : callAt[t] \in {"inside", "resumed"}
        /\ gilHolder = "statistics" <=> printed = "printing"

DatabaseInvariant == DatabaseTypeOK /\ WriterAlone /\ OneLock /\ GILHeld

LEMMA DatabaseInductive ==
    /\ Init => DatabaseInvariant
    /\ DatabaseInvariant /\ [Next]_vars => DatabaseInvariant'
<1>1. ASSUME DatabaseInit PROVE DatabaseInvariant
  BY <1>1 DEF DatabaseInit, DatabaseInvariant, DatabaseTypeOK, WriterAlone, OneLock, GILHeld,
              PastLock, Inside
<1>2. [Next]_vars => [DatabaseNext]_databaseVars
  BY DEF Next, vars
<1>3. ASSUME DatabaseInvariant, [DatabaseNext]_databaseVars PROVE DatabaseInvariant'
  <2> USE DEF DatabaseInvariant, DatabaseTypeOK
  <2>1. ASSUME NEW t \in DBThreads, CallDatabase(t) PROVE DatabaseInvariant'
    BY <1>3, <2>1 DEF CallDatabase, CallIs, CallGoto, locks, WriterAlone, OneLock, GILHeld,
                      PastLock, Inside
  <2>2. ASSUME NEW t \in DBThreads, CallFails(t) PROVE DatabaseInvariant'
    BY <1>3, <2>2 DEF CallFails, access, locks, WriterAlone, OneLock, GILHeld, PastLock, Inside
  <2>3. ASSUME NEW t \in DBThreads, LockToRead(t) PROVE DatabaseInvariant'
    BY <1>3, <2>3 DEF LockToRead, NoWriterWaits, CallIs, CallGoto, locks, WriterAlone, OneLock,
                      GILHeld, PastLock, Inside
  <2>4. ASSUME NEW t \in DBThreads, LockToWrite(t) PROVE DatabaseInvariant'
    BY <1>3, <2>4 DEF LockToWrite, CallIs, CallGoto, locks, WriterAlone, OneLock,
                      GILHeld, PastLock, Inside
  <2>5. ASSUME NEW t \in DBThreads, UnlockDatabase(t) PROVE DatabaseInvariant'
    BY <1>3, <2>5 DEF UnlockDatabase, CallIs, CallGoto, locks, WriterAlone, OneLock,
                      GILHeld, PastLock, Inside
  <2>6. ASSUME NEW t \in DBThreads, LockPyas(t) PROVE DatabaseInvariant'
    BY <1>3, <2>6 DEF LockPyas, LockFree, CallIs, CallGoto, WriterAlone, OneLock,
                      GILHeld, PastLock, Inside
  <2>7. ASSUME NEW t \in DBThreads, EnsureGIL(t) PROVE DatabaseInvariant'
    BY <1>3, <2>7 DEF EnsureGIL, GILFree, CallIs, CallGoto, WriterAlone, OneLock,
                      GILHeld, PastLock, Inside
  <2>8. ASSUME NEW t \in DBThreads, SwitchGIL(t) PROVE DatabaseInvariant'
    BY <1>3, <2>8 DEF SwitchGIL, CallIs, CallGoto, WriterAlone, OneLock,
                      GILHeld, PastLock, Inside
  <2>9. ASSUME NEW t \in DBThreads, UnlockPyas(t) PROVE DatabaseInvariant'
    BY <1>3, <2>9 DEF UnlockPyas, CallIs, CallGoto, WriterAlone, OneLock,
                      GILHeld, PastLock, Inside
  <2>10. CASE BeginStatistics
    BY <1>3, <2>10 DEF BeginStatistics, GILFree, access, WriterAlone, OneLock,
                       GILHeld, PastLock, Inside
  <2>11. CASE EndStatistics
    BY <1>3, <2>11 DEF EndStatistics, access, WriterAlone, OneLock, GILHeld, PastLock, Inside
  <2>12. CASE UNCHANGED databaseVars
    BY <1>3, <2>12 DEF databaseVars, access, locks, WriterAlone, OneLock, GILHeld,
                       PastLock, Inside
  <2>13. QED
    BY <1>3, <2>1, <2>2, <2>3, <2>4, <2>5, <2>6, <2>7, <2>8, <2>9, <2>10, <2>11, <2>12
    DEF DatabaseNext, CallStep
<1>4. QED
  BY <1>1, <1>2, <1>3 DEF Init

(* For any number of sampling threads: none is in the interpolation         *)
(* database while the value processing thread changes it, and with Pyas     *)
(* nobody runs Python, be it to print statistics, without the lock of the   *)
(* interpreter (the locks of both databases' .cc files).                   *)
THEOREM DatabaseIsExclusive == Spec => [](~Conflict /\ GILHeld)
<1>1. DatabaseInvariant => ~Conflict /\ GILHeld
  BY DEF DatabaseInvariant, WriterAlone, Conflict, Inside
<1>2. QED
  BY <1>1, DatabaseInductive, PTL DEF Spec

-----------------------------------------------------------------------------
(* The start of adaptive sampling *)

(* How far the handshake of a rank with the module is.  One that has not    *)
(* been looked at may have sent its first filter, the one that is being     *)
(* looked at waits for the acknowledgement or has sent the filter that is   *)
(* awaited, and one that has been looked at sends packages only.           *)
NotYet(r) ==
    /\ toLauncher[r] = <<>>
    /\ \/ launcherAt[r] = "input" /\ toFactory[r] = <<>>
       \/ launcherAt[r] = "inputAck" /\ toFactory[r] = <<"input">>
HalfWay(r) ==
    \/ launcherAt[r] = "inputAck" /\ toFactory[r] = <<>> /\ toLauncher[r] = <<"ack">>
    \/ launcherAt[r] = "output" /\ toFactory[r] = <<>> /\ toLauncher[r] = <<>>
    \/ launcherAt[r] = "outputAck" /\ toFactory[r] = <<"output">> /\ toLauncher[r] = <<>>
Through(r) ==
    /\ \/ launcherAt[r] = "outputAck" /\ toFactory[r] = <<>> /\ toLauncher[r] = <<"ack">>
       \/ launcherAt[r] = "ready" /\ toLauncher[r] = <<>>
    /\ \A i \in DOMAIN toFactory[r] : toFactory[r][i] = "package"

IsThrough(r) == factoryAt \in {"brokers", "runs"} \/ r < filterFrom
IsHalfWay(r) == ~IsThrough(r) /\ r = filterFrom /\ factoryAt = "output"
Progress(r) ==
    IF IsThrough(r) THEN Through(r) ELSE IF IsHalfWay(r) THEN HalfWay(r) ELSE NotYet(r)
Handshake == \A r \in StartRanks : Progress(r)

(* The packages of a rank are on their way or taken.                       *)
PackagesArrive ==
    \A r \in StartRanks :
        /\ launcherAt[r] # "ready" => packagesSent[r] = 0 /\ packagesTaken[r] = 0
        /\ launcherAt[r] = "ready" =>
               packagesTaken[r] + Len(toFactory[r]) = packagesSent[r]

(* The filters the module has are those of the ranks it has looked at.     *)
FiltersAreOfOne ==
    IF factoryAt = "output" THEN filters.input = filterFrom
    ELSE filters.input = filters.output
         /\ (factoryAt \in {"brokers", "runs"} => filters.input = NumStartRanks)

StartInvariant == StartTypeOK /\ Handshake /\ PackagesArrive /\ FiltersAreOfOne

(* What the module finds on the connection it looks at is of the kind it    *)
(* expects, and it runs with the two filters of one rank.                  *)
HandshakeUnderstood ==
    /\ factoryAt \in {"input", "output"} => Waiting(factoryAt)
    /\ factoryAt = "runs" =>
        /\ filters.input # 0 /\ filters.input = filters.output
        /\ \A r \in StartRanks : \A i \in DOMAIN toFactory[r] : toFactory[r][i] = "package"

LEMMA ProgressStays ==
    ASSUME NEW r, launcherAt'[r] = launcherAt[r], toFactory'[r] = toFactory[r],
           toLauncher'[r] = toLauncher[r], IsThrough(r)' <=> IsThrough(r),
           IsHalfWay(r)' <=> IsHalfWay(r), Progress(r)
    PROVE  Progress(r)'
  BY DEF Progress, Through, HalfWay, NotYet

LEMMA StartInductive ==
    /\ Init => StartInvariant
    /\ StartInvariant /\ [Next]_vars => StartInvariant'
<1> USE StartAssumption DEF StartRanks
<1>1. ASSUME StartInit PROVE StartInvariant
  <2>1. StartTypeOK
    BY <1>1 DEF StartInit, StartTypeOK
  <2>2. Handshake
    BY <1>1 DEF StartInit, Handshake, Progress, IsThrough, IsHalfWay, NotYet
  <2>3. PackagesArrive /\ FiltersAreOfOne
    BY <1>1 DEF StartInit, PackagesArrive, FiltersAreOfOne
  <2>4. QED
    BY <2>1, <2>2, <2>3 DEF StartInvariant
<1>2. [Next]_vars => [StartNext]_startVars
  BY DEF Next, vars
<1>3. ASSUME StartInvariant, [StartNext]_startVars PROVE StartInvariant'
  <2> USE DEF StartInvariant
  <2> DEFINE Kinds == {"input", "output", "package"}
  <2>0. /\ <<>> \in Seq({"ack"}) /\ <<>> \in Seq(Kinds) /\ Len(<<>>) = 0
        /\ DOMAIN <<>> = {}
    BY EmptySeq
  <2>1. ASSUME NEW r \in StartRanks, SendFilter(r) PROVE StartInvariant'
    <3>0. /\ launcherAt[r] \in {"input", "output"}
          /\ launcherAt' = [launcherAt EXCEPT ![r] =
                 IF launcherAt[r] = "input" THEN "inputAck" ELSE "outputAck"]
          /\ toFactory' = [toFactory EXCEPT ![r] = Append(@, launcherAt[r])]
          /\ UNCHANGED <<packagesSent, factoryAt, filterFrom, filters, packagesTaken, toLauncher>>
      BY <2>1 DEF SendFilter, SendToFactory, LauncherGoto
    <3>1. toFactory[r] = <<>> /\ toLauncher[r] = <<>> /\ ~IsThrough(r)
          /\ (launcherAt[r] = "output" <=> IsHalfWay(r))
      BY <1>3, <3>0 DEF Handshake, Progress, NotYet, HalfWay, Through
    <3>2. toFactory'[r] = <<launcherAt[r]>> /\ <<launcherAt[r]>> \in Seq(Kinds)
      BY <1>3, <3>0, <3>1 DEF StartTypeOK
    <3>3. StartTypeOK'
      BY <1>3, <3>0, <3>2 DEF StartTypeOK
    <3>4. Progress(r)'
      BY <1>3, <3>0, <3>1, <3>2 DEF Progress, IsThrough, IsHalfWay, NotYet, HalfWay, StartTypeOK
    <3>5. ASSUME NEW q \in StartRanks PROVE Progress(q)'
      BY <1>3, <3>0, <3>4, <3>5, ProgressStays DEF Handshake, IsThrough, IsHalfWay, StartTypeOK
    <3>6. PackagesArrive'
      BY <1>3, <3>0 DEF PackagesArrive, StartTypeOK
    <3>7. QED
      BY <1>3, <3>0, <3>3, <3>5, <3>6 DEF Handshake, FiltersAreOfOne
  <2>2. ASSUME NEW r \in StartRanks, ReceiveAck(r) PROVE StartInvariant'
    <3>0. /\ launcherAt[r] \in {"inputAck", "outputAck"} /\ toLauncher[r] # <<>>
          /\ launcherAt' = [launcherAt EXCEPT ![r] =
                 IF launcherAt[r] = "inputAck" THEN "output" ELSE "ready"]
          /\ toLauncher' = [toLauncher EXCEPT ![r] = <<>>]
          /\ UNCHANGED <<packagesSent, factoryAt, filterFrom, filters, packagesTaken, toFactory>>
      BY <2>2 DEF ReceiveAck, Acknowledged, LauncherGoto
    <3>1. /\ toFactory[r] = <<>>
          /\ launcherAt[r] = "inputAck" => IsHalfWay(r)
          /\ launcherAt[r] = "outputAck" => IsThrough(r)
          /\ ~(IsHalfWay(r) /\ IsThrough(r))
      BY <1>3, <3>0 DEF Handshake, Progress, NotYet, HalfWay, Through, IsHalfWay
    <3>3. StartTypeOK'
      BY <1>3, <2>0, <3>0 DEF StartTypeOK
    <3>4. Progress(r)'
      BY <1>3, <2>0, <3>0, <3>1
      DEF Progress, IsThrough, IsHalfWay, Through, HalfWay, StartTypeOK
    <3>5. ASSUME NEW q \in StartRanks PROVE Progress(q)'
      BY <1>3, <3>0, <3>4, <3>5, ProgressStays DEF Handshake, IsThrough, IsHalfWay, StartTypeOK
    <3>6. PackagesArrive'
      <4>1. packagesSent[r] = 0 /\ packagesTaken[r] = 0 /\ Len(toFactory[r]) = 0
        BY <1>3, <2>0, <3>0, <3>1 DEF PackagesArrive
      <4>2. \A q \in StartRanks \ {r} : launcherAt'[q] = launcherAt[q]
        BY <1>3, <3>0 DEF StartTypeOK
      <4>3. QED
        BY <1>3, <3>0, <4>1, <4>2 DEF PackagesArrive
    <3>7. QED
      BY <1>3, <3>0, <3>3, <3>5, <3>6 DEF Handshake, FiltersAreOfOne
  <2>3. ASSUME NEW r \in StartRanks, SendFirstPackage(r) PROVE StartInvariant'
    <3> DEFINE longer == Append(toFactory[r], "package")
    <3>0. /\ launcherAt[r] = "ready" /\ packagesSent[r] < FirstPackages
          /\ toFactory' = [toFactory EXCEPT ![r] = longer]
          /\ packagesSent' = [packagesSent EXCEPT ![r] = @ + 1]
          /\ UNCHANGED <<launcherAt, factoryAt, filterFrom, filters, packagesTaken, toLauncher>>
      BY <2>3 DEF SendFirstPackage, SendToFactory
    <3>1. toFactory[r] \in Seq(Kinds)
      BY <1>3 DEF StartTypeOK
    <3>2. /\ longer \in Seq(Kinds) /\ Len(longer) = Len(toFactory[r]) + 1
          /\ Len(toFactory[r]) \in Nat
          /\ (\A i \in DOMAIN toFactory[r] : toFactory[r][i] = "package") =>
                 \A i \in DOMAIN longer : longer[i] = "package"
      BY <3>1
    <3> HIDE DEF longer
    <3>3. StartTypeOK'
      <4>1. packagesSent' \in [StartRanks -> 0 .. FirstPackages]
        <5>1. packagesSent \in [StartRanks -> 0 .. FirstPackages]
          BY <1>3 DEF StartTypeOK
        <5>2. packagesSent[r] + 1 \in 0 .. FirstPackages
          BY <3>0, <5>1
        <5>3. QED
          BY <3>0, <5>1, <5>2
      <4>2. toFactory' \in [StartRanks -> Seq(Kinds)]
        BY <1>3, <3>0, <3>2 DEF StartTypeOK
      <4>3. QED
        BY <1>3, <3>0, <4>1, <4>2 DEF StartTypeOK
    <3>4. IsThrough(r) /\ Through(r)
      BY <1>3, <3>0 DEF Handshake, Progress, NotYet, HalfWay
    <3>5. Progress(r)'
      BY <1>3, <3>0, <3>2, <3>4 DEF Progress, IsThrough, Through, StartTypeOK
    <3>6. ASSUME NEW q \in StartRanks PROVE Progress(q)'
      BY <1>3, <3>0, <3>5, <3>6, ProgressStays DEF Handshake, IsThrough, IsHalfWay, StartTypeOK
    <3>7. PackagesArrive'
      <4>1. ASSUME NEW q \in StartRanks, launcherAt'[q] = "ready"
            PROVE  packagesTaken'[q] + Len(toFactory'[q]) = packagesSent'[q]
        <5>1. packagesTaken[q] + Len(toFactory[q]) = packagesSent[q]
              /\ packagesTaken[q] \in Nat /\ packagesSent[q] \in Nat
          BY <1>3, <3>0, <4>1 DEF PackagesArrive, StartTypeOK
        <5>2. CASE q = r
          <6>1. /\ packagesSent'[q] = packagesSent[q] + 1 /\ packagesTaken'[q] = packagesTaken[q]
                /\ toFactory'[q] = longer
            BY <1>3, <3>0, <5>2 DEF StartTypeOK
          <6>2. Len(toFactory'[q]) = Len(toFactory[q]) + 1 /\ Len(toFactory[q]) \in Nat
            BY <3>2, <5>2, <6>1
          <6>3. QED
            BY <5>1, <6>1, <6>2
        <5>3. CASE q # r
          BY <1>3, <3>0, <5>1, <5>3 DEF StartTypeOK
        <5>4. QED
          BY <5>2, <5>3
      <4>2. QED
        BY <1>3, <3>0, <4>1 DEF PackagesArrive, StartTypeOK
    <3>8. QED
      BY <1>3, <3>0, <3>3, <3>6, <3>7 DEF Handshake, FiltersAreOfOne
  <2>4. CASE ReceiveFilter
    <3> DEFINE f == filterFrom
    <3>0. /\ factoryAt \in {"input", "output"}
          /\ toFactory[f] # <<>>
          /\ toFactory' = [toFactory EXCEPT ![f] = <<>>]
          /\ toLauncher' = [toLauncher EXCEPT ![f] = Append(@, "ack")]
          /\ filters' = [filters EXCEPT ![factoryAt] = f]
          /\ UNCHANGED <<launcherAt, packagesSent, packagesTaken>>
      BY <2>4 DEF ReceiveFilter
    <3>1. /\ factoryAt = "input" => factoryAt' = "output" /\ filterFrom' = f
          /\ factoryAt = "output" =>
                 \/ f < NumStartRanks /\ factoryAt' = "input" /\ filterFrom' = f + 1
                 \/ f = NumStartRanks /\ factoryAt' = "brokers" /\ filterFrom' = f
      BY <1>3, <2>4 DEF ReceiveFilter, StartTypeOK
    <3>2. f \in 1 .. NumStartRanks /\ f \in StartRanks /\ f \in Nat
      BY <1>3 DEF StartTypeOK
    <3>3. /\ ~IsThrough(f) /\ toLauncher[f] = <<>>
          /\ factoryAt = "input" => launcherAt[f] = "inputAck"
          /\ factoryAt = "output" => launcherAt[f] = "outputAck"
      BY <1>3, <3>0, <3>2 DEF Handshake, Progress, IsThrough, IsHalfWay, NotYet, HalfWay
    <3>4. Append(toLauncher[f], "ack") = <<"ack">> /\ <<"ack">> \in Seq({"ack"})
      BY <3>3
    <3>5. /\ toFactory'[f] = <<>> /\ toLauncher'[f] = <<"ack">> /\ launcherAt' = launcherAt
          /\ \A q \in StartRanks \ {f} :
                 toFactory'[q] = toFactory[q] /\ toLauncher'[q] = toLauncher[q]
      BY <1>3, <3>0, <3>2, <3>4 DEF StartTypeOK
    <3>6. StartTypeOK'
      <4>1. toFactory' \in [StartRanks -> Seq(Kinds)] /\ toLauncher' \in [StartRanks -> Seq({"ack"})]
        BY <1>3, <2>0, <3>0, <3>2, <3>4 DEF StartTypeOK
      <4>2. filterFrom' \in StartRanks /\ factoryAt' \in {"input", "output", "brokers", "runs"}
        BY <3>0, <3>1, <3>2
      <4>3. filters' \in [{"input", "output"} -> 0 .. NumStartRanks]
        BY <1>3, <3>0, <3>2 DEF StartTypeOK
      <4>4. QED
        BY <1>3, <3>0, <4>1, <4>2, <4>3 DEF StartTypeOK
    <3>7. ASSUME NEW q \in StartRanks PROVE Progress(q)'
      <4>1. CASE q = f /\ factoryAt = "input"
        <5>1. IsHalfWay(q)' /\ ~IsThrough(q)'
          BY <3>1, <3>2, <4>1 DEF IsHalfWay, IsThrough
        <5>2. QED
          BY <3>3, <3>5, <4>1, <5>1 DEF Progress, HalfWay
      <4>2. CASE q = f /\ factoryAt = "output"
        <5>1. IsThrough(q)'
          BY <3>1, <3>2, <4>2 DEF IsThrough
        <5>2. QED
          BY <2>0, <3>3, <3>5, <4>2, <5>1 DEF Progress, Through
      <4>3. CASE q # f
        <5>1. (IsThrough(q)' <=> IsThrough(q)) /\ ~IsHalfWay(q)
          BY <3>0, <3>1, <3>2, <4>3 DEF IsThrough, IsHalfWay
        <5>2. ~IsHalfWay(q)'
          BY <3>0, <3>1, <3>2, <4>3 DEF IsThrough, IsHalfWay
        <5>3. QED
          BY <1>3, <3>5, <4>3, <5>1, <5>2, ProgressStays DEF Handshake
      <4>4. QED
        BY <3>0, <4>1, <4>2, <4>3
    <3>8. PackagesArrive'
      <4>1. launcherAt[f] # "ready"
        BY <3>0, <3>3
      <4>2. QED
        BY <1>3, <3>0, <3>5, <4>1 DEF PackagesArrive
    <3>9. FiltersAreOfOne'
      BY <1>3, <3>0, <3>1, <3>2 DEF FiltersAreOfOne, StartTypeOK
    <3>10. QED
      BY <3>6, <3>7, <3>8, <3>9 DEF Handshake
  <2>5. CASE LaunchBrokers
    <3>1. /\ factoryAt = "brokers" /\ factoryAt' = "runs"
          /\ UNCHANGED <<launcherAt, packagesSent, filterFrom, filters, packagesTaken>>
          /\ UNCHANGED <<toFactory, toLauncher>>
      BY <2>5 DEF LaunchBrokers
    <3>2. Handshake'
      BY <1>3, <3>1, ProgressStays DEF Handshake, IsThrough, IsHalfWay
    <3>3. QED
      BY <1>3, <3>1, <3>2 DEF StartTypeOK, PackagesArrive, FiltersAreOfOne
  <2>6. ASSUME NEW r \in StartRanks, ReceiveFirstPackages(r) PROVE StartInvariant'
    <3>0. /\ factoryAt = "runs" /\ toFactory[r] # <<>>
          /\ packagesTaken' = [packagesTaken EXCEPT ![r] = @ + Len(toFactory[r])]
          /\ toFactory' = [toFactory EXCEPT ![r] = <<>>]
          /\ UNCHANGED <<launcherAt, packagesSent, factoryAt, filterFrom, filters, toLauncher>>
      BY <2>6 DEF ReceiveFirstPackages
    <3>1. Through(r) /\ IsThrough(r) /\ launcherAt[r] = "ready"
      BY <1>3, <3>0 DEF Handshake, Progress, IsThrough, Through
    <3>2. /\ toFactory[r] \in Seq(Kinds) /\ Len(toFactory[r]) \in Nat
          /\ packagesTaken[r] \in Nat /\ packagesSent[r] \in 0 .. FirstPackages
      BY <1>3 DEF StartTypeOK
    <3>3. packagesTaken[r] + Len(toFactory[r]) = packagesSent[r]
      BY <1>3, <3>1 DEF PackagesArrive
    <3>4. StartTypeOK'
      BY <1>3, <2>0, <3>0, <3>2, <3>3 DEF StartTypeOK
    <3>5. Progress(r)'
      BY <1>3, <2>0, <3>0, <3>1 DEF Progress, Through, IsThrough, StartTypeOK
    <3>6. ASSUME NEW q \in StartRanks PROVE Progress(q)'
      BY <1>3, <3>0, <3>5, <3>6, ProgressStays DEF Handshake, IsThrough, IsHalfWay, StartTypeOK
    <3>7. PackagesArrive'
      BY <1>3, <2>0, <3>0, <3>1, <3>2, <3>3 DEF PackagesArrive, StartTypeOK
    <3>8. QED
      BY <1>3, <3>0, <3>4, <3>6, <3>7 DEF Handshake, FiltersAreOfOne
  <2>7. CASE UNCHANGED startVars
    BY <1>3, <2>7, ProgressStays
    DEF startVars, StartTypeOK, Handshake, IsThrough, IsHalfWay, PackagesArrive, FiltersAreOfOne
  <2>8. QED
    BY <1>3, <2>1, <2>2, <2>3, <2>4, <2>5, <2>6, <2>7
    DEF StartNext, FactoryStep, LauncherStep
<1>4. QED
  BY <1>1, <1>2, <1>3 DEF Init

(* For any number of ranks and packages: AdaptiveSamplingFactory::build     *)
(* reads each message of AdaptiveSamplingLauncher::launch for what it is,   *)
(* although the ranks send when they like, no package is read for a filter, *)
(* and the module runs with both filters of one rank.                      *)
THEOREM HandshakeIsUnderstood == Spec => []HandshakeUnderstood
<1>1. ASSUME StartInvariant PROVE HandshakeUnderstood
  <2>1. StartTypeOK /\ Handshake /\ FiltersAreOfOne
    BY <1>1 DEF StartInvariant
  <2>2. ASSUME factoryAt \in {"input", "output"} PROVE Waiting(factoryAt)
    <3>1. filterFrom \in StartRanks /\ filterFrom \in Nat
      BY <2>1, StartAssumption DEF StartTypeOK, StartRanks
    <3>2. ~IsThrough(filterFrom) /\ (factoryAt = "output" <=> IsHalfWay(filterFrom))
      BY <2>2, <3>1 DEF IsThrough, IsHalfWay
    <3>3. toFactory[filterFrom] \in {<<>>, <<factoryAt>>}
      BY <2>1, <2>2, <3>1, <3>2 DEF Handshake, Progress, HalfWay, NotYet
    <3>4. QED
      BY <3>3 DEF Waiting
  <2>3. ASSUME factoryAt = "runs"
        PROVE  /\ filters.input # 0 /\ filters.input = filters.output
               /\ \A r \in StartRanks : \A i \in DOMAIN toFactory[r] : toFactory[r][i] = "package"
    BY <2>1, <2>3, StartAssumption DEF FiltersAreOfOne, Handshake, Progress, IsThrough, Through
  <2>4. QED
    BY <2>2, <2>3 DEF HandshakeUnderstood
<1>2. QED
  BY <1>1, StartInductive, PTL DEF Spec

-----------------------------------------------------------------------------
(* Sublists *)

(* The place of an element among those that are selected.                   *)
Rank(places, i) == Cardinality({j \in places : j <= i})
LEMMA RankFacts ==
    ASSUME NEW n \in Nat, NEW places \in SUBSET (1 .. n)
    PROVE  /\ IsFiniteSet(places) /\ Cardinality(places) \in Nat
           /\ \A i \in places : Rank(places, i) \in 1 .. Cardinality(places)
           /\ \A i, j \in places : Rank(places, i) = Rank(places, j) => i = j
           /\ \A k \in 1 .. Cardinality(places) : \E i \in places : Rank(places, i) = k
<1> DEFINE upto(i) == {j \in places : j <= i}
           N == Cardinality(places)
<1>1. IsFiniteSet(places) /\ N \in Nat
  <2>1. IsFiniteSet(1 .. n)
    BY FS_Interval
  <2>2. IsFiniteSet(places)
    BY <2>1, FS_Subset
  <2>3. QED
    BY <2>2, FS_CardinalityType
<1>2. ASSUME NEW i \in places
      PROVE  IsFiniteSet(upto(i)) /\ Cardinality(upto(i)) \in 1 .. N
  <2>1. IsFiniteSet(upto(i)) /\ Cardinality(upto(i)) <= N
    BY <1>1, FS_Subset
  <2>2. i \in upto(i)
    OBVIOUS
  <2>3. Cardinality(upto(i)) # 0
    BY <2>1, <2>2, FS_EmptySet
  <2>4. QED
    BY <1>1, <2>1, <2>3, FS_CardinalityType
<1>3. ASSUME NEW i \in places, NEW j \in places, Rank(places, i) = Rank(places, j), i < j
      PROVE  FALSE
  <2>1. upto(i) \in SUBSET upto(j) /\ j \in upto(j) /\ j \notin upto(i)
    <3>1. i \in Int /\ j \in Int /\ places \subseteq Int
      OBVIOUS
    <3>2. ASSUME NEW k \in upto(i) PROVE k \in upto(j)
      <4>1. k \in places /\ k \in Int /\ k <= i
        BY <3>1
      <4>2. k <= j
        BY <1>3, <3>1, <4>1
      <4>3. QED
        BY <4>1, <4>2
    <3>3. j <= j /\ ~(j <= i)
      BY <1>3, <3>1
    <3>4. QED
      BY <3>2, <3>3
  <2>2. upto(i) = upto(j)
    BY <1>2, <1>3, <2>1, FS_Subset DEF Rank
  <2>3. QED
    BY <2>1, <2>2
<1>4. \A i, j \in places : Rank(places, i) = Rank(places, j) => i = j
  BY <1>3
<1> DEFINE rank == [i \in places |-> Rank(places, i)]
<1>5. rank \in Injection(places, 1 .. N)
  BY <1>2, <1>4 DEF Rank, Injection, IsInjective
<1>6. IsFiniteSet(1 .. N) /\ Cardinality(1 .. N) = N
  BY <1>1, FS_Interval
<1>7. rank \in Surjection(places, 1 .. N)
  BY <1>5, <1>6, FS_Injection
<1>8. QED
  BY <1>1, <1>2, <1>4, <1>7 DEF Rank, Surjection

(* Selecting takes each of the elements once.                               *)
LEMMA SelectedFacts ==
    ASSUME NEW S, NEW s \in Seq(S), NEW places \in SUBSET DOMAIN s
    PROVE  /\ IsFiniteSet(places) /\ Cardinality(places) \in Nat
           /\ \E g \in Bijection(1 .. Cardinality(places), places) :
                  Selected(s, places) = [k \in 1 .. Cardinality(places) |-> s[g[k]]]
           /\ Selected(s, places) \in Seq(S)
<1> DEFINE N == Cardinality(places)
           place(k) == CHOOSE i \in places : Rank(places, i) = k
           g == [k \in 1 .. N |-> place(k)]
<1>1. DOMAIN s = 1 .. Len(s) /\ Len(s) \in Nat
  OBVIOUS
<1>2. /\ IsFiniteSet(places) /\ N \in Nat
      /\ \A i \in places : Rank(places, i) \in 1 .. N
      /\ \A i, j \in places : Rank(places, i) = Rank(places, j) => i = j
      /\ \A k \in 1 .. N : \E i \in places : Rank(places, i) = k
  BY <1>1, RankFacts
<1>3. \A k \in 1 .. N : place(k) \in places /\ Rank(places, place(k)) = k
  BY <1>2
<1>4. \A i \in places : place(Rank(places, i)) = i
  BY <1>2, <1>3
<1>5. g \in Bijection(1 .. N, places)
  <2> HIDE DEF place
  <2>1. g \in [1 .. N -> places]
    BY <1>3
  <2>2. \A k, l \in 1 .. N : g[k] = g[l] => k = l
    BY <1>3
  <2>3. \A i \in places : \E k \in 1 .. N : g[k] = i
    BY <1>2, <1>4
  <2> HIDE DEF g
  <2>4. QED
    BY <2>1, <2>2, <2>3 DEF Bijection, Injection, Surjection, IsInjective
<1>6. Selected(s, places) = [k \in 1 .. N |-> s[g[k]]]
  BY DEF Selected, Rank
<1>7. Selected(s, places) \in Seq(S)
  <2>1. \A k \in 1 .. N : g[k] \in DOMAIN s
    BY <1>3
  <2>2. \A k \in 1 .. N : s[g[k]] \in S
    BY <2>1
  <2> HIDE DEF g
  <2>3. QED
    BY <1>2, <1>6, <2>2
<1>8. QED
  BY <1>2, <1>5, <1>6, <1>7

-----------------------------------------------------------------------------
(* Load queries *)

(* Where the query of a broker is, if it has not been answered: on its way  *)
(* to the broker or back, never both.  The scheduler has sent one to each   *)
(* broker when it begins to receive, and has counted those that have come.  *)
HasQuery(ms) == \E i \in DOMAIN ms : ms[i].kind = "query"
Queried(b) == HasQuery(toBroker[b]) \/ HasQuery(toModule[b])
QueriedBrokers == {b \in LoadBrokers : Queried(b)}
QueriesCounted ==
    ~misread =>
        /\ \A b \in LoadBrokers : ~(HasQuery(toBroker[b]) /\ HasQuery(toModule[b]))
        /\ schedulerAt = "query" =>
               numberResponses = 0 /\ QueriedBrokers = 0 .. broker - 1
        /\ schedulerAt = "receive" =>
               numberResponses + Cardinality(QueriedBrokers) = NumLoadBrokers
        /\ schedulerAt \in {"idle", "assign"} => QueriedBrokers = {}
        /\ schedulerAt = "assign" => numberResponses = NumLoadBrokers

(* A package is on the pile, with the scheduler, on its way, with a broker, *)
(* or back.                                                                *)
Carries(ms, p) ==
    \E i \in DOMAIN ms : ms[i].kind = "package" /\ ms[i].package = p
WithBroker(p) ==
    \E b \in LoadBrokers :
        p \in evaluating[b] \/ Carries(toBroker[b], p) \/ Carries(toModule[b], p)
PackagesKept ==
    ~misread =>
        \A p \in DOMAIN Amounts :
            \/ \E i \in DOMAIN toSchedule : toSchedule[i] = p
            \/ \E i \in DOMAIN modelPackages : modelPackages[i] = p
            \/ WithBroker(p) \/ p \in values
Assigning ==
    IF schedulerAt = "idle" THEN modelPackages = <<>> ELSE Len(assigned) <= Len(modelPackages)

LoadInvariant == LoadTypeOK /\ QueriesCounted /\ PackagesKept /\ Assigning

-----------------------------------------------------------------------------
(* What messages are made of *)

LEMMA LoadMessageFacts ==
    /\ \A p \in DOMAIN Amounts : PackageMessage(p) \in LoadMessages
                                 /\ PackageMessage(p).kind = "package"
                                 /\ PackageMessage(p).package = p
    /\ \A load \in Loads \cup {NoLoad} : LoadMessage(load) \in LoadMessages
                                 /\ LoadMessage(load).kind = "query"
    /\ \A m \in LoadMessages : /\ m.kind \in {"package", "query"}
                               /\ m.kind = "package" => m.package \in DOMAIN Amounts
                               /\ m.kind = "query" => m.load \in Loads \cup {NoLoad}
  BY DEF PackageMessage, LoadMessage, LoadMessages

(* Putting messages behind others, or one.                                 *)
LEMMA MessagesBehind ==
    ASSUME NEW q \in Seq(LoadMessages), NEW new \in Seq(LoadMessages)
    PROVE  /\ q \o new \in Seq(LoadMessages)
           /\ HasQuery(q \o new) <=> HasQuery(q) \/ HasQuery(new)
           /\ \A p : Carries(q \o new, p) <=> Carries(q, p) \/ Carries(new, p)
<1>1. /\ q \o new \in Seq(LoadMessages)
      /\ Len(q \o new) = Len(q) + Len(new) /\ Len(q) \in Nat /\ Len(new) \in Nat
      /\ DOMAIN q = 1 .. Len(q) /\ DOMAIN new = 1 .. Len(new)
      /\ DOMAIN (q \o new) = 1 .. Len(q) + Len(new)
      /\ \A i \in 1 .. Len(q) : (q \o new)[i] = q[i]
      /\ \A i \in 1 .. Len(new) : (q \o new)[Len(q) + i] = new[i]
  BY ConcatProperties
<1> DEFINE both == q \o new
<1> HIDE DEF both
<1>2. \A i \in DOMAIN both : i \in DOMAIN q \/ \E j \in DOMAIN new : i = Len(q) + j
  <2>1. ASSUME NEW i \in DOMAIN both, i \notin DOMAIN q
        PROVE  i - Len(q) \in DOMAIN new /\ i = Len(q) + (i - Len(q))
    BY <1>1, <2>1 DEF both
  <2>2. QED
    BY <2>1
<1>3. \A i \in DOMAIN q : i \in DOMAIN both /\ both[i] = q[i]
  BY <1>1 DEF both
<1>4. \A j \in DOMAIN new : Len(q) + j \in DOMAIN both /\ both[Len(q) + j] = new[j]
  BY <1>1 DEF both
<1>5. HasQuery(both) <=> HasQuery(q) \/ HasQuery(new)
  BY <1>2, <1>3, <1>4 DEF HasQuery
<1>6. \A p : Carries(both, p) <=> Carries(q, p) \/ Carries(new, p)
  BY <1>2, <1>3, <1>4 DEF Carries
<1>7. QED
  BY <1>1, <1>5, <1>6 DEF both

LEMMA OneMessageBehind ==
    ASSUME NEW q \in Seq(LoadMessages), NEW m \in LoadMessages, m.kind = "query"
    PROVE  /\ Append(q, m) \in Seq(LoadMessages)
           /\ HasQuery(Append(q, m))
           /\ \A p : Carries(Append(q, m), p) <=> Carries(q, p)
<1>1. /\ Append(q, m) \in Seq(LoadMessages) /\ Len(q) \in Nat /\ DOMAIN q = 1 .. Len(q)
      /\ DOMAIN Append(q, m) = 1 .. Len(q) + 1
      /\ \A i \in 1 .. Len(q) : Append(q, m)[i] = q[i]
      /\ Append(q, m)[Len(q) + 1] = m
  BY AppendProperties
<1> DEFINE all == Append(q, m)
<1> HIDE DEF all
<1>2. /\ Len(q) + 1 \in DOMAIN all /\ all[Len(q) + 1] = m
      /\ \A i \in DOMAIN q : i \in DOMAIN all /\ all[i] = q[i]
      /\ \A i \in DOMAIN all : i \in DOMAIN q \/ i = Len(q) + 1
  BY <1>1 DEF all
<1>3. HasQuery(all)
  BY <1>2 DEF HasQuery
<1>4. \A p : Carries(all, p) <=> Carries(q, p)
  <2>1. "query" # "package"
    OBVIOUS
  <2>2. ASSUME NEW p, NEW i \in DOMAIN all, all[i].kind = "package", all[i].package = p
        PROVE  Carries(q, p)
    <3>1. i \in DOMAIN q
      BY <1>2, <2>1, <2>2
    <3>2. q[i].kind = "package" /\ q[i].package = p
      BY <1>2, <2>2, <3>1
    <3>3. QED
      BY <3>1, <3>2 DEF Carries
  <2>3. ASSUME NEW p, NEW i \in DOMAIN q, q[i].kind = "package", q[i].package = p
        PROVE  Carries(all, p)
    <3>1. i \in DOMAIN all /\ all[i] = q[i]
      BY <1>2
    <3>2. QED
      BY <2>3, <3>1 DEF Carries
  <2>4. QED
    BY <2>2, <2>3 DEF Carries
<1>5. QED
  BY <1>1, <1>3, <1>4 DEF all

(* Taking messages of one kind.                                            *)
LEMMA AllOfOneKind ==
    ASSUME NEW q \in Seq(LoadMessages)
    PROVE  /\ AllAre("package", q) <=> ~HasQuery(q)
           /\ AllAre("query", q) => (q # <<>> <=> HasQuery(q)) /\ \A p : ~Carries(q, p)
           /\ q = <<>> => ~HasQuery(q) /\ \A p : ~Carries(q, p)
           /\ AllAre("package", q) =>
                  /\ {m.package : m \in ToSet(q)} \subseteq DOMAIN Amounts
                  /\ \A p : Carries(q, p) => p \in {m.package : m \in ToSet(q)}
<1>1. \A i \in DOMAIN q : q[i] \in LoadMessages
  BY ElementOfSeq
<1>2. DOMAIN q = 1 .. Len(q) /\ Len(q) \in Nat /\ (q # <<>> <=> 1 \in DOMAIN q)
  BY EmptySeq
<1>3. "query" # "package"
  OBVIOUS
<1>4. AllAre("package", q) <=> ~HasQuery(q)
  BY <1>1, <1>3, LoadMessageFacts DEF AllAre, HasQuery
<1>5. AllAre("query", q) => (q # <<>> <=> HasQuery(q)) /\ \A p : ~Carries(q, p)
  BY <1>2, <1>3 DEF AllAre, HasQuery, Carries
<1>6. q = <<>> => ~HasQuery(q) /\ \A p : ~Carries(q, p)
  BY <1>2 DEF HasQuery, Carries
<1>7. ASSUME AllAre("package", q)
      PROVE  /\ {m.package : m \in ToSet(q)} \subseteq DOMAIN Amounts
             /\ \A p : Carries(q, p) => p \in {m.package : m \in ToSet(q)}
  <2>1. ToSet(q) = {q[i] : i \in DOMAIN q}
    BY DEF ToSet
  <2>2. \A i \in DOMAIN q : q[i].package \in DOMAIN Amounts
    BY <1>1, <1>7, LoadMessageFacts DEF AllAre
  <2>3. QED
    BY <2>1, <2>2 DEF Carries
<1>8. QED
  BY <1>4, <1>5, <1>6, <1>7

(* A list of packages as messages.                                         *)
LEMMA PackagesAsMessages ==
    ASSUME NEW ps \in Seq(DOMAIN Amounts)
    PROVE  /\ [i \in DOMAIN ps |-> PackageMessage(ps[i])] \in Seq(LoadMessages)
           /\ ~HasQuery([i \in DOMAIN ps |-> PackageMessage(ps[i])])
           /\ \A i \in DOMAIN ps : Carries([j \in DOMAIN ps |-> PackageMessage(ps[j])], ps[i])
<1>1. DOMAIN ps = 1 .. Len(ps) /\ Len(ps) \in Nat /\ \A i \in DOMAIN ps : ps[i] \in DOMAIN Amounts
  BY ElementOfSeq
<1> DEFINE ms == [i \in DOMAIN ps |-> PackageMessage(ps[i])]
<1>2. \A i \in DOMAIN ps : ms[i] \in LoadMessages /\ ms[i].kind = "package" /\ ms[i].package = ps[i]
  BY <1>1, LoadMessageFacts
<1>3. DOMAIN ms = DOMAIN ps
  OBVIOUS
<1> HIDE DEF ms
<1>4. ms \in [1 .. Len(ps) -> LoadMessages]
  <2>1. ms = [i \in DOMAIN ps |-> ms[i]]
    BY DEF ms
  <2>2. QED
    BY <1>1, <1>2, <2>1
<1>5. ms \in Seq(LoadMessages)
  BY <1>1, <1>4
<1>6. ~HasQuery(ms)
  BY <1>2, <1>3 DEF HasQuery
<1>7. \A i \in DOMAIN ps : Carries(ms, ps[i])
  BY <1>2, <1>3 DEF Carries
<1>8. QED
  BY <1>5, <1>6, <1>7 DEF ms

-----------------------------------------------------------------------------
(* The scheduler and its brokers *)

(* The types, one by one.                                                  *)
LEMMA LoadTypes ==
    LoadTypeOK <=>
    /\ schedulerAt \in {"idle", "query", "receive", "assign"}
    /\ toSchedule \in Seq(DOMAIN Amounts) /\ modelPackages \in Seq(DOMAIN Amounts)
    /\ broker \in 0 .. NumLoadBrokers /\ numberResponses \in 0 .. NumLoadBrokers
    /\ responses \in [LoadBrokers -> [free : Nat, queued : Nat, total : Nat]]
    /\ assigned \in Seq(LoadBrokers)
    /\ toBroker \in [LoadBrokers -> Seq(LoadMessages)]
    /\ toModule \in [LoadBrokers -> Seq(LoadMessages)]
    /\ serving \in [LoadBrokers -> {"package", "ship", "query"}]
    /\ evaluating \in [LoadBrokers -> SUBSET DOMAIN Amounts]
    /\ values \subseteq DOMAIN Amounts /\ misread \in BOOLEAN
  BY DEF LoadTypeOK

LEMMA LoadTypesNext ==
    LoadTypeOK' <=>
    /\ schedulerAt' \in {"idle", "query", "receive", "assign"}
    /\ toSchedule' \in Seq(DOMAIN Amounts) /\ modelPackages' \in Seq(DOMAIN Amounts)
    /\ broker' \in 0 .. NumLoadBrokers /\ numberResponses' \in 0 .. NumLoadBrokers
    /\ responses' \in [LoadBrokers -> [free : Nat, queued : Nat, total : Nat]]
    /\ assigned' \in Seq(LoadBrokers)
    /\ toBroker' \in [LoadBrokers -> Seq(LoadMessages)]
    /\ toModule' \in [LoadBrokers -> Seq(LoadMessages)]
    /\ serving' \in [LoadBrokers -> {"package", "ship", "query"}]
    /\ evaluating' \in [LoadBrokers -> SUBSET DOMAIN Amounts]
    /\ values' \subseteq DOMAIN Amounts /\ misread' \in BOOLEAN
  BY DEF LoadTypeOK

(* A run begins with everything still on the pile.                         *)
LEMMA LoadInvariantInit == LoadInit => LoadInvariant
<1> SUFFICES ASSUME LoadInit PROVE LoadInvariant
  OBVIOUS
<1> USE LoadAssumption
<1>1. /\ Amounts \in Seq(Nat) /\ DOMAIN Amounts = 1 .. Len(Amounts) /\ Len(Amounts) \in Nat
      /\ NumLoadBrokers \in Nat /\ <<>> \in Seq(LoadMessages) /\ <<>> \in Seq(LoadBrokers)
      /\ <<>> \in Seq(DOMAIN Amounts) /\ NoLoad \in [free : Nat, queued : Nat, total : Nat]
  BY EmptySeq DEF NoLoad
<1>2. toSchedule \in Seq(DOMAIN Amounts)
  <2>1. toSchedule \in [1 .. Len(Amounts) -> DOMAIN Amounts]
    BY <1>1 DEF LoadInit
  <2>2. QED
    BY <1>1, <2>1
<1>3. LoadTypeOK
  <2>1. /\ toBroker \in [LoadBrokers -> Seq(LoadMessages)]
        /\ toModule \in [LoadBrokers -> Seq(LoadMessages)]
        /\ serving \in [LoadBrokers -> {"package", "ship", "query"}]
        /\ evaluating \in [LoadBrokers -> SUBSET DOMAIN Amounts]
        /\ responses \in [LoadBrokers -> [free : Nat, queued : Nat, total : Nat]]
    BY <1>1 DEF LoadInit
  <2>2. /\ schedulerAt = "idle" /\ modelPackages = <<>> /\ assigned = <<>>
        /\ broker = 0 /\ numberResponses = 0 /\ values = {} /\ misread = FALSE
    BY DEF LoadInit
  <2>3. /\ schedulerAt \in {"idle", "query", "receive", "assign"}
        /\ modelPackages \in Seq(DOMAIN Amounts) /\ assigned \in Seq(LoadBrokers)
    BY <1>1, <2>2
  <2>4. /\ broker \in 0 .. NumLoadBrokers /\ numberResponses \in 0 .. NumLoadBrokers
        /\ values \subseteq DOMAIN Amounts /\ misread \in BOOLEAN
    <3>1. 0 \in 0 .. NumLoadBrokers
      BY <1>1
    <3>2. broker \in 0 .. NumLoadBrokers
      BY <2>2, <3>1
    <3>3. numberResponses \in 0 .. NumLoadBrokers
      BY <2>2, <3>1
    <3>4. values \subseteq DOMAIN Amounts /\ misread \in BOOLEAN
      BY <2>2
    <3>5. QED
      BY <3>2, <3>3, <3>4
  <2>5. QED
    BY <1>2, <2>1, <2>3, <2>4, LoadTypes
<1>4. QueriedBrokers = {}
  <2>1. ~HasQuery(<<>>)
    BY DEF HasQuery
  <2>2. QED
    BY <2>1 DEF QueriedBrokers, Queried, LoadInit
<1>5. QueriesCounted
  BY <1>4 DEF LoadInit, QueriesCounted, QueriedBrokers, Queried
<1>6. PackagesKept
  BY DEF LoadInit, PackagesKept
<1>7. Assigning
  BY DEF LoadInit, Assigning
<1>8. QED
  BY <1>3, <1>5, <1>6, <1>7 DEF LoadInvariant

(* A call of schedule begins with packages from the front of the pile.     *)
LEMMA StartScheduleStep == LoadInvariant /\ StartSchedule => LoadInvariant'
<1> SUFFICES ASSUME LoadInvariant, StartSchedule PROVE LoadInvariant'
  OBVIOUS
<1>0. LoadTypeOK /\ QueriesCounted /\ PackagesKept /\ Assigning
  BY DEF LoadInvariant
<1>1. PICK n \in 1 .. Len(toSchedule) :
        /\ modelPackages' = SubSeq(toSchedule, 1, n)
        /\ toSchedule' = SubSeq(toSchedule, n + 1, Len(toSchedule))
  BY DEF StartSchedule
<1>2. /\ ~misread /\ schedulerAt = "idle"
      /\ schedulerAt' = "query" /\ broker' = 0 /\ numberResponses' = 0 /\ assigned' = <<>>
      /\ UNCHANGED <<responses, toBroker, toModule, serving, evaluating, values, misread>>
  BY DEF StartSchedule, SchedulerIs, FirstBroker, messages
<1>3. toSchedule \in Seq(DOMAIN Amounts) /\ Len(toSchedule) \in Nat
      /\ DOMAIN toSchedule = 1 .. Len(toSchedule)
  BY <1>0, LoadTypes
<1>4. modelPackages' \in Seq(DOMAIN Amounts) /\ toSchedule' \in Seq(DOMAIN Amounts)
  BY <1>1, <1>3
<1>5. LoadTypeOK'
  <2>1. <<>> \in Seq(LoadBrokers) /\ NumLoadBrokers \in Nat
    BY EmptySeq, LoadAssumption
  <2>2. QED
    BY <1>0, <1>2, <1>4, <2>1, LoadTypes, LoadTypesNext
<1>6. QueriesCounted'
  <2>1. QueriedBrokers = {} /\ QueriedBrokers' = QueriedBrokers
    BY <1>0, <1>2 DEF QueriesCounted, QueriedBrokers, Queried
  <2>2. QED
    BY <1>0, <1>2, <2>1 DEF QueriesCounted
<1>7. PackagesKept'
  <2>1. ASSUME NEW p, NEW i \in DOMAIN toSchedule, toSchedule[i] = p
        PROVE  \/ \E j \in DOMAIN toSchedule' : toSchedule'[j] = p
               \/ \E j \in DOMAIN modelPackages' : modelPackages'[j] = p
    <3>1. CASE i <= n
      <4>1. i \in DOMAIN modelPackages' /\ modelPackages'[i] = toSchedule[i]
        BY <1>1, <1>3, <3>1
      <4>2. QED
        BY <2>1, <4>1
    <3>2. CASE i > n
      <4>1. i - n \in DOMAIN toSchedule' /\ toSchedule'[i - n] = toSchedule[i]
        BY <1>1, <1>3, <3>2
      <4>2. QED
        BY <2>1, <4>1
    <3>3. QED
      BY <1>3, <3>1, <3>2
  <2>2. modelPackages = <<>>
    BY <1>0, <1>2 DEF Assigning
  <2>3. QED
    BY <1>0, <1>2, <2>1, <2>2 DEF PackagesKept, WithBroker
<1>8. Assigning'
  BY <1>2, <1>4 DEF Assigning
<1>9. QED
  BY <1>5, <1>6, <1>7, <1>8 DEF LoadInvariant

(* A query goes to the next broker, to which none was on its way.          *)
LEMMA SendQueryStep == LoadInvariant /\ SendQuery => LoadInvariant'
<1> SUFFICES ASSUME LoadInvariant, SendQuery PROVE LoadInvariant'
  OBVIOUS
<1> DEFINE more == Append(toBroker[broker], LoadMessage(NoLoad))
<1>0. LoadTypeOK /\ QueriesCounted /\ PackagesKept /\ Assigning
  BY DEF LoadInvariant
<1>1. /\ ~misread /\ schedulerAt = "query" /\ broker \in LoadBrokers
      /\ toBroker' = [toBroker EXCEPT ![broker] = more]
      /\ broker' = broker + 1
      /\ UNCHANGED <<schedulerAt, toSchedule, modelPackages, responses, numberResponses, assigned>>
      /\ UNCHANGED <<toModule, serving, evaluating, values, misread>>
  BY DEF SendQuery, SchedulerIs
<1>2. toBroker \in [LoadBrokers -> Seq(LoadMessages)] /\ toBroker[broker] \in Seq(LoadMessages)
  BY <1>0, <1>1, LoadTypes
<1>3. /\ more \in Seq(LoadMessages) /\ HasQuery(more)
      /\ \A p : Carries(more, p) <=> Carries(toBroker[broker], p)
  <2>1. LoadMessage(NoLoad) \in LoadMessages /\ LoadMessage(NoLoad).kind = "query"
    BY LoadMessageFacts
  <2>2. QED
    BY <1>2, <2>1, OneMessageBehind
<1> HIDE DEF more
<1>4. toBroker'[broker] = more /\ \A b \in LoadBrokers \ {broker} : toBroker'[b] = toBroker[b]
  BY <1>1, <1>2
<1>5. broker \in 0 .. NumLoadBrokers - 1 /\ NumLoadBrokers \in Nat
  BY <1>1, LoadAssumption DEF LoadBrokers
<1>6. LoadTypeOK'
  <2>1. toBroker' \in [LoadBrokers -> Seq(LoadMessages)]
    BY <1>1, <1>2, <1>3
  <2>2. QED
    BY <1>0, <1>1, <1>5, <2>1, LoadTypes, LoadTypesNext
<1>7. QueriesCounted'
  <2>1. QueriedBrokers = 0 .. broker - 1 /\ numberResponses = 0
    BY <1>0, <1>1 DEF QueriesCounted
  <2>2. ~Queried(broker)
    BY <1>1, <1>5, <2>1 DEF QueriedBrokers
  <2>3. \A b \in LoadBrokers : Queried(b)' <=> Queried(b) \/ b = broker
    BY <1>1, <1>3, <1>4 DEF Queried
  <2>4. QueriedBrokers' = QueriedBrokers \cup {broker}
    BY <1>1, <2>3 DEF QueriedBrokers
  <2>5. QueriedBrokers' = 0 .. broker' - 1
    BY <1>1, <1>5, <2>1, <2>4
  <2>6. \A b \in LoadBrokers : ~(HasQuery(toBroker'[b]) /\ HasQuery(toModule'[b]))
    BY <1>0, <1>1, <1>4, <2>2 DEF QueriesCounted, Queried
  <2>7. QED
    BY <1>1, <2>1, <2>5, <2>6 DEF QueriesCounted
<1>8. PackagesKept'
  <2>1. \A b \in LoadBrokers, p \in DOMAIN Amounts : Carries(toBroker[b], p) => Carries(toBroker'[b], p)
    BY <1>3, <1>4
  <2>2. \A p \in DOMAIN Amounts : WithBroker(p) => WithBroker(p)'
    BY <1>1, <2>1 DEF WithBroker
  <2>3. QED
    BY <1>0, <1>1, <2>2 DEF PackagesKept
<1>9. QED
  BY <1>0, <1>1, <1>6, <1>7, <1>8 DEF LoadInvariant, Assigning

(* At the end of a pass all brokers have been asked, or some have answered. *)
LEMMA NextPassStep == LoadInvariant /\ NextPass => LoadInvariant'
<1> SUFFICES ASSUME LoadInvariant, NextPass PROVE LoadInvariant'
  OBVIOUS
<1>0. LoadTypeOK /\ QueriesCounted /\ PackagesKept /\ Assigning
  BY DEF LoadInvariant
<1>1. /\ ~misread /\ schedulerAt \in {"query", "receive"} /\ broker = NumLoadBrokers
      /\ IF schedulerAt = "receive" /\ numberResponses = NumLoadBrokers
         THEN schedulerAt' = "assign" /\ broker' = broker
         ELSE schedulerAt' = "receive" /\ broker' = 0
      /\ UNCHANGED <<toSchedule, modelPackages, responses, numberResponses, assigned>>
      /\ UNCHANGED <<toBroker, toModule, serving, evaluating, values, misread>>
  BY DEF NextPass, SchedulerIs, messages
<1>2. NumLoadBrokers \in Nat /\ LoadBrokers = 0 .. NumLoadBrokers - 1
  BY LoadAssumption DEF LoadBrokers
<1>3. LoadTypeOK'
  <2>1. /\ schedulerAt' \in {"idle", "query", "receive", "assign"}
        /\ broker' \in 0 .. NumLoadBrokers
    BY <1>1, <1>2
  <2>2. QED
    BY <1>0, <1>1, <2>1, LoadTypes, LoadTypesNext
<1>4. IsFiniteSet(QueriedBrokers) /\ QueriedBrokers' = QueriedBrokers
  <2>1. IsFiniteSet(LoadBrokers)
    BY <1>2, FS_Interval
  <2>2. QueriedBrokers \in SUBSET LoadBrokers
    BY DEF QueriedBrokers
  <2>3. QED
    BY <1>1, <2>1, <2>2, FS_Subset DEF QueriedBrokers, Queried
<1>5. QueriesCounted'
  <2>1. CASE schedulerAt = "query"
    <3>1. QueriedBrokers = LoadBrokers /\ numberResponses = 0
      BY <1>0, <1>1, <1>2, <2>1 DEF QueriesCounted
    <3>2. Cardinality(QueriedBrokers) = NumLoadBrokers
      BY <1>2, <3>1, FS_Interval
    <3>3. QED
      BY <1>0, <1>1, <1>2, <1>4, <2>1, <3>1, <3>2 DEF QueriesCounted
  <2>2. CASE schedulerAt = "receive" /\ numberResponses # NumLoadBrokers
    BY <1>0, <1>1, <1>4, <2>2 DEF QueriesCounted
  <2>3. CASE schedulerAt = "receive" /\ numberResponses = NumLoadBrokers
    <3>1. numberResponses + Cardinality(QueriedBrokers) = NumLoadBrokers
      BY <1>0, <1>1, <2>3 DEF QueriesCounted
    <3>2. Cardinality(QueriedBrokers) \in Nat
      BY <1>4, FS_CardinalityType
    <3>3. QueriedBrokers = {}
      BY <1>2, <1>4, <2>3, <3>1, <3>2, FS_EmptySet
    <3>4. QED
      BY <1>0, <1>1, <1>4, <2>3, <3>3 DEF QueriesCounted
  <2>4. QED
    BY <1>1, <2>1, <2>2, <2>3
<1>6. PackagesKept' /\ Assigning'
  BY <1>0, <1>1 DEF PackagesKept, WithBroker, Assigning
<1>7. QED
  BY <1>3, <1>5, <1>6 DEF LoadInvariant

(* What has come from a broker is its answer, which is counted once, or is  *)
(* taken for one.                                                          *)
LEMMA ReceiveLoadStep == LoadInvariant /\ ReceiveLoad => LoadInvariant'
<1> SUFFICES ASSUME LoadInvariant, ReceiveLoad PROVE LoadInvariant'
  OBVIOUS
<1> DEFINE received == toModule[broker]
<1>0. LoadTypeOK /\ QueriesCounted /\ PackagesKept /\ Assigning
  BY DEF LoadInvariant
<1>1. /\ ~misread /\ schedulerAt = "receive" /\ broker \in LoadBrokers
      /\ toModule' = [toModule EXCEPT ![broker] = <<>>]
      /\ broker' = broker + 1
      /\ UNCHANGED <<schedulerAt, toSchedule, modelPackages, assigned>>
      /\ UNCHANGED <<toBroker, serving, evaluating, values>>
      /\ IF received # <<>> /\ AllAre("query", received)
         THEN /\ responses' = [responses EXCEPT ![broker] = Last(received).load]
              /\ numberResponses' = numberResponses + 1
              /\ UNCHANGED misread
         ELSE /\ misread' = (received # <<>>)
              /\ UNCHANGED <<responses, numberResponses>>
  BY DEF ReceiveLoad, SchedulerIs
<1>2. /\ toModule \in [LoadBrokers -> Seq(LoadMessages)] /\ received \in Seq(LoadMessages)
      /\ <<>> \in Seq(LoadMessages) /\ ~HasQuery(<<>>)
  BY <1>0, <1>1, LoadTypes, EmptySeq, AllOfOneKind
<1>3. toModule' \in [LoadBrokers -> Seq(LoadMessages)]
      /\ toModule'[broker] = <<>> /\ \A b \in LoadBrokers \ {broker} : toModule'[b] = toModule[b]
  BY <1>1, <1>2
<1>4. NumLoadBrokers \in Nat /\ LoadBrokers = 0 .. NumLoadBrokers - 1
      /\ broker + 1 \in 0 .. NumLoadBrokers
  BY <1>1, LoadAssumption DEF LoadBrokers
<1>5. IsFiniteSet(QueriedBrokers) /\ Cardinality(QueriedBrokers) \in Nat
  <2>1. IsFiniteSet(LoadBrokers)
    BY <1>4, FS_Interval
  <2>2. QueriedBrokers \in SUBSET LoadBrokers
    BY DEF QueriedBrokers
  <2>3. QED
    BY <2>1, <2>2, FS_Subset, FS_CardinalityType
<1>6. CASE received # <<>> /\ AllAre("query", received)
  <2>1. HasQuery(received) /\ \A p : ~Carries(received, p)
    BY <1>2, <1>6, AllOfOneKind
  <2>2. ~HasQuery(toBroker[broker])
    BY <1>0, <1>1, <2>1 DEF QueriesCounted
  <2>3. QueriedBrokers' = QueriedBrokers \ {broker} /\ broker \in QueriedBrokers
    BY <1>1, <1>2, <1>3, <2>1, <2>2 DEF QueriedBrokers, Queried
  <2>4. Cardinality(QueriedBrokers') = Cardinality(QueriedBrokers) - 1
    BY <1>5, <2>3, FS_RemoveElement
  <2>5. numberResponses + Cardinality(QueriedBrokers) = NumLoadBrokers
    BY <1>0, <1>1 DEF QueriesCounted
  <2>6. Cardinality(QueriedBrokers') \in Nat
    BY <1>5, <2>3, FS_RemoveElement, FS_CardinalityType
  <2>7. numberResponses' \in 0 .. NumLoadBrokers
        /\ numberResponses' + Cardinality(QueriedBrokers') = NumLoadBrokers
    <3>1. numberResponses \in Nat /\ numberResponses' = numberResponses + 1
      BY <1>0, <1>1, <1>6, LoadTypes, <1>4
    <3>2. QED
      BY <1>4, <1>5, <2>4, <2>5, <2>6, <3>1
  <2>8. LoadTypeOK'
    <3>1. Last(received).load \in [free : Nat, queued : Nat, total : Nat]
      <4>1. Last(received) = received[Len(received)] /\ Len(received) \in DOMAIN received
        BY <1>2, <1>6, EmptySeq DEF Last
      <4>2. Last(received) \in LoadMessages /\ Last(received).kind = "query"
        BY <1>2, <1>6, <4>1, ElementOfSeq DEF AllAre
      <4>3. Last(received).load \in Loads \cup {NoLoad}
        BY <4>2, LoadMessageFacts
      <4>4. QED
        BY <4>3, LoadAssumption DEF NoLoad
    <3>2. responses' \in [LoadBrokers -> [free : Nat, queued : Nat, total : Nat]]
      <4>1. responses \in [LoadBrokers -> [free : Nat, queued : Nat, total : Nat]]
        BY <1>0, LoadTypes
      <4>2. responses' = [responses EXCEPT ![broker] = Last(received).load]
        BY <1>1, <1>6
      <4>3. QED
        BY <1>1, <3>1, <4>1, <4>2
    <3>3. misread' = misread
      BY <1>1, <1>6
    <3>4. QED
      BY <1>0, <1>1, <1>3, <1>4, <2>7, <3>2, <3>3, LoadTypes, LoadTypesNext
  <2>9. QueriesCounted'
    <3>1. \A b \in LoadBrokers : ~(HasQuery(toBroker'[b]) /\ HasQuery(toModule'[b]))
      BY <1>0, <1>1, <1>2, <1>3 DEF QueriesCounted
    <3>2. QED
      BY <1>1, <2>7, <3>1 DEF QueriesCounted
  <2>10. PackagesKept'
    <3>1. \A b \in LoadBrokers, p \in DOMAIN Amounts : Carries(toModule[b], p) => Carries(toModule'[b], p)
      BY <1>3, <2>1
    <3>2. \A p \in DOMAIN Amounts : WithBroker(p) => WithBroker(p)'
      BY <1>1, <3>1 DEF WithBroker
    <3>3. QED
      BY <1>0, <1>1, <3>2 DEF PackagesKept
  <2>11. QED
    BY <1>0, <1>1, <2>8, <2>9, <2>10 DEF LoadInvariant, Assigning
<1>7. CASE ~(received # <<>> /\ AllAre("query", received))
  <2>1. /\ misread' = (received # <<>>) /\ responses' = responses
        /\ numberResponses' = numberResponses
    BY <1>1, <1>7
  <2>2. LoadTypeOK'
    BY <1>0, <1>1, <1>3, <1>4, <2>1, LoadTypes, LoadTypesNext
  <2>3. ASSUME ~misread' PROVE toModule' = toModule
    BY <1>1, <1>2, <2>1, <2>3
  <2>4. QueriesCounted'
    BY <1>0, <1>1, <2>1, <2>3 DEF QueriesCounted, QueriedBrokers, Queried
  <2>5. PackagesKept'
    BY <1>0, <1>1, <2>1, <2>3 DEF PackagesKept, WithBroker
  <2>6. QED
    BY <1>0, <1>1, <2>2, <2>4, <2>5 DEF LoadInvariant, Assigning
<1>8. QED
  BY <1>6, <1>7

(* The next package gets one of the brokers.                               *)
LEMMA AssignStep == LoadInvariant /\ Assign => LoadInvariant'
<1> SUFFICES ASSUME LoadInvariant, Assign PROVE LoadInvariant'
  OBVIOUS
<1>0. LoadTypeOK /\ QueriesCounted /\ PackagesKept /\ Assigning
  BY DEF LoadInvariant
<1> DEFINE p == modelPackages[Len(assigned) + 1]
           Amount == Amounts[p]
<1>1. /\ ~misread /\ schedulerAt = "assign" /\ Len(assigned) < Len(modelPackages)
      /\ UNCHANGED <<schedulerAt, toSchedule, modelPackages, broker, numberResponses>>
      /\ UNCHANGED <<toBroker, toModule, serving, evaluating, values, misread>>
  BY DEF Assign, SchedulerIs, messages
<1>2. PICK b \in Winners :
        /\ assigned' = Append(assigned, b)
        /\ responses' = [responses EXCEPT ![b] = Loaded(@, Amount)]
  BY DEF Assign
<1>3. /\ assigned \in Seq(LoadBrokers) /\ Len(assigned) \in Nat
      /\ modelPackages \in Seq(DOMAIN Amounts) /\ Len(modelPackages) \in Nat
      /\ responses \in [LoadBrokers -> [free : Nat, queued : Nat, total : Nat]]
      /\ b \in LoadBrokers
  BY <1>0, <1>2, LoadTypes DEF Winners
<1>4. Amount \in Nat
  <2>1. Len(assigned) + 1 \in DOMAIN modelPackages
    BY <1>1, <1>3
  <2>2. p \in DOMAIN Amounts
    BY <1>3, <2>1, ElementOfSeq
  <2>3. QED
    BY <2>2, LoadAssumption, ElementOfSeq
<1> HIDE DEF Amount
<1>5. Loaded(responses[b], Amount) \in [free : Nat, queued : Nat, total : Nat]
  <2>1. ASSUME NEW load \in [free : Nat, queued : Nat, total : Nat]
        PROVE  Loaded(load, Amount) \in [free : Nat, queued : Nat, total : Nat]
    <3>1. load.free \in Nat /\ load.queued \in Nat /\ load.total \in Nat
      OBVIOUS
    <3> DEFINE free == IF load.free > Amount THEN load.free - Amount ELSE 0
    <3>2. free \in Nat /\ load.queued + 1 \in Nat
      BY <1>4, <3>1
    <3>3. Loaded(load, Amount) = [load EXCEPT !.queued = load.queued + 1, !.free = free]
      BY DEF Loaded
    <3> HIDE DEF free
    <3>4. QED
      BY <3>2, <3>3
  <2>2. QED
    BY <1>3, <2>1
<1>6. responses' \in [LoadBrokers -> [free : Nat, queued : Nat, total : Nat]]
  BY <1>2, <1>3, <1>5
<1>7. assigned' \in Seq(LoadBrokers) /\ Len(assigned') = Len(assigned) + 1
  BY <1>2, <1>3
<1>8. LoadTypeOK'
  BY <1>0, <1>1, <1>6, <1>7, LoadTypes, LoadTypesNext
<1>9. QueriesCounted' /\ PackagesKept'
  BY <1>0, <1>1 DEF QueriesCounted, QueriedBrokers, Queried, PackagesKept, WithBroker
<1>10. Assigning'
  BY <1>1, <1>3, <1>7 DEF Assigning
<1>11. QED
  BY <1>8, <1>9, <1>10 DEF LoadInvariant

(* Each package goes to the broker it has been assigned to.                *)
LEMMA SendPackagesStep == LoadInvariant /\ SendPackages => LoadInvariant'
<1> SUFFICES ASSUME LoadInvariant, SendPackages PROVE LoadInvariant'
  OBVIOUS
<1> DEFINE mine(b) == {i \in DOMAIN modelPackages : assigned[i] = b}
           those(b) == PackagesFor(b)
           new(b) == [i \in DOMAIN those(b) |-> PackageMessage(those(b)[i])]
<1>0. LoadTypeOK /\ QueriesCounted /\ PackagesKept /\ Assigning
  BY DEF LoadInvariant
<1>1. /\ ~misread /\ schedulerAt = "assign" /\ Len(assigned) = Len(modelPackages)
      /\ toBroker' = [b \in LoadBrokers |-> toBroker[b] \o new(b)]
      /\ schedulerAt' = "idle" /\ modelPackages' = <<>>
      /\ UNCHANGED <<toSchedule, broker, responses, numberResponses, assigned>>
      /\ UNCHANGED <<toModule, serving, evaluating, values, misread>>
  BY DEF SendPackages, SchedulerIs
<1>2. /\ modelPackages \in Seq(DOMAIN Amounts) /\ assigned \in Seq(LoadBrokers)
      /\ toBroker \in [LoadBrokers -> Seq(LoadMessages)]
      /\ DOMAIN modelPackages = 1 .. Len(modelPackages) /\ DOMAIN assigned = 1 .. Len(assigned)
  BY <1>0, LoadTypes
<1>3. ASSUME NEW b \in LoadBrokers
      PROVE  /\ those(b) \in Seq(DOMAIN Amounts)
             /\ \A i \in mine(b) : \E k \in DOMAIN those(b) : those(b)[k] = modelPackages[i]
  <2> DEFINE N == Cardinality(mine(b))
  <2>1. /\ mine(b) \in SUBSET DOMAIN modelPackages
        /\ those(b) = Selected(modelPackages, mine(b))
    BY DEF PackagesFor
  <2> HIDE DEF mine, those
  <2>2. /\ \E g \in Bijection(1 .. N, mine(b)) : those(b) = [k \in 1 .. N |-> modelPackages[g[k]]]
        /\ those(b) \in Seq(DOMAIN Amounts)
    <3>1. ASSUME NEW places \in SUBSET DOMAIN modelPackages
          PROVE  /\ \E g \in Bijection(1 .. Cardinality(places), places) :
                        Selected(modelPackages, places)
                        = [k \in 1 .. Cardinality(places) |-> modelPackages[g[k]]]
                 /\ Selected(modelPackages, places) \in Seq(DOMAIN Amounts)
      BY <1>2, SelectedFacts
    <3>2. QED
      BY <2>1, <3>1
  <2>3. PICK g \in Bijection(1 .. N, mine(b)) : those(b) = [k \in 1 .. N |-> modelPackages[g[k]]]
    BY <2>2
  <2>4. \A i \in mine(b) : \E k \in 1 .. N : g[k] = i
    BY <2>3 DEF Bijection, Surjection
  <2>5. QED
    BY <2>2, <2>3, <2>4
<1>4. ASSUME NEW b \in LoadBrokers
      PROVE  /\ toBroker'[b] \in Seq(LoadMessages)
             /\ HasQuery(toBroker'[b]) <=> HasQuery(toBroker[b])
             /\ \A p : Carries(toBroker[b], p) => Carries(toBroker'[b], p)
             /\ \A i \in mine(b) : Carries(toBroker'[b], modelPackages[i])
  <2>1. /\ new(b) \in Seq(LoadMessages) /\ ~HasQuery(new(b))
        /\ \A k \in DOMAIN those(b) : Carries(new(b), those(b)[k])
    BY <1>3, PackagesAsMessages
  <2>2. toBroker[b] \in Seq(LoadMessages) /\ toBroker'[b] = toBroker[b] \o new(b)
    BY <1>1, <1>2
  <2>3. \A i \in mine(b) : Carries(new(b), modelPackages[i])
    BY <1>3, <2>1
  <2> HIDE DEF new, mine
  <2>4. QED
    BY <2>1, <2>2, <2>3, MessagesBehind
<1>5. toBroker' \in [LoadBrokers -> Seq(LoadMessages)]
  BY <1>1, <1>4
<1>6. LoadTypeOK'
  BY <1>0, <1>1, <1>5, EmptySeq, LoadTypes, LoadTypesNext
<1>7. QueriesCounted'
  <2>1. QueriedBrokers' = QueriedBrokers /\ QueriedBrokers = {}
    BY <1>0, <1>1, <1>4 DEF QueriedBrokers, Queried, QueriesCounted
  <2>2. QED
    BY <1>0, <1>1, <1>4, <2>1 DEF QueriesCounted
<1>8. PackagesKept'
  <2>1. ASSUME NEW p \in DOMAIN Amounts, NEW i \in DOMAIN modelPackages, modelPackages[i] = p
        PROVE  WithBroker(p)'
    <3>1. assigned[i] \in LoadBrokers /\ i \in mine(assigned[i])
      BY <1>1, <1>2, ElementOfSeq
    <3>2. PICK b \in LoadBrokers : i \in mine(b)
      BY <3>1
    <3>3. Carries(toBroker'[b], p)
      BY <1>4, <2>1, <3>2
    <3>4. QED
      BY <3>3 DEF WithBroker
  <2>2. ASSUME NEW p PROVE WithBroker(p) => WithBroker(p)'
    BY <1>1, <1>4 DEF WithBroker
  <2>3. QED
    BY <1>0, <1>1, <2>1, <2>2 DEF PackagesKept
<1>9. Assigning'
  BY <1>1 DEF Assigning
<1>10. QED
  BY <1>6, <1>7, <1>8, <1>9 DEF LoadInvariant

(* A broker takes what has come for packages, and a query among it ends     *)
(* what is known.                                                          *)
LEMMA ReceivePackagesOfStep ==
    ASSUME LoadInvariant, NEW b \in LoadBrokers, ReceivePackagesOf(b)
    PROVE  LoadInvariant'
<1>0. LoadTypeOK /\ QueriesCounted /\ PackagesKept /\ Assigning
  BY DEF LoadInvariant
<1> DEFINE packages == {m.package : m \in ToSet(toBroker[b])}
<1>1. /\ ~misread
      /\ toBroker' = [toBroker EXCEPT ![b] = <<>>]
      /\ serving' = [serving EXCEPT ![b] = "ship"]
      /\ UNCHANGED <<schedulerAt, toSchedule, modelPackages, broker, responses>>
      /\ UNCHANGED <<numberResponses, assigned, toModule, values>>
      /\ IF AllAre("package", toBroker[b])
         THEN /\ evaluating' = [evaluating EXCEPT ![b] = @ \cup packages]
              /\ UNCHANGED misread
         ELSE misread' = TRUE /\ UNCHANGED evaluating
  BY DEF ReceivePackagesOf, BrokerIs, BrokerGoto, schedulerVars
<1>2. /\ toBroker \in [LoadBrokers -> Seq(LoadMessages)] /\ toBroker[b] \in Seq(LoadMessages)
      /\ serving \in [LoadBrokers -> {"package", "ship", "query"}]
      /\ evaluating \in [LoadBrokers -> SUBSET DOMAIN Amounts]
      /\ <<>> \in Seq(LoadMessages) /\ ~HasQuery(<<>>)
  BY <1>0, LoadTypes, EmptySeq, AllOfOneKind
<1>3. /\ toBroker' \in [LoadBrokers -> Seq(LoadMessages)]
      /\ toBroker'[b] = <<>> /\ \A c \in LoadBrokers \ {b} : toBroker'[c] = toBroker[c]
      /\ serving' \in [LoadBrokers -> {"package", "ship", "query"}]
  BY <1>1, <1>2
<1>4. CASE AllAre("package", toBroker[b])
  <2>1. /\ ~HasQuery(toBroker[b]) /\ packages \subseteq DOMAIN Amounts
        /\ \A p : Carries(toBroker[b], p) => p \in packages
    BY <1>2, <1>4, AllOfOneKind
  <2>2. misread' = misread /\ evaluating' = [evaluating EXCEPT ![b] = @ \cup packages]
    BY <1>1, <1>4
  <2> HIDE DEF packages
  <2>3. /\ evaluating' \in [LoadBrokers -> SUBSET DOMAIN Amounts]
        /\ evaluating'[b] = evaluating[b] \cup packages
        /\ \A c \in LoadBrokers \ {b} : evaluating'[c] = evaluating[c]
    BY <1>2, <2>1, <2>2
  <2>4. LoadTypeOK'
    BY <1>0, <1>1, <1>3, <2>2, <2>3, LoadTypes, LoadTypesNext
  <2>5. \A c \in LoadBrokers : HasQuery(toBroker'[c]) <=> HasQuery(toBroker[c])
    BY <1>2, <1>3, <2>1
  <2>6. QueriesCounted'
    <3>1. QueriedBrokers' = QueriedBrokers
      BY <1>1, <2>5 DEF QueriedBrokers, Queried
    <3>2. QED
      BY <1>0, <1>1, <2>2, <2>5, <3>1 DEF QueriesCounted
  <2>7. PackagesKept'
    <3>1. ASSUME NEW p, WithBroker(p) PROVE WithBroker(p)'
      BY <1>1, <1>3, <2>1, <2>3, <3>1 DEF WithBroker
    <3>2. QED
      BY <1>0, <1>1, <2>2, <3>1 DEF PackagesKept
  <2>8. QED
    BY <1>0, <1>1, <2>4, <2>6, <2>7 DEF LoadInvariant, Assigning
<1>5. CASE ~AllAre("package", toBroker[b])
  <2>1. misread' = TRUE /\ evaluating' = evaluating
    BY <1>1, <1>5
  <2>2. LoadTypeOK'
    BY <1>0, <1>1, <1>3, <2>1, LoadTypes, LoadTypesNext
  <2>3. QED
    BY <1>0, <1>1, <2>1, <2>2 DEF LoadInvariant, Assigning, QueriesCounted, PackagesKept
<1>6. QED
  BY <1>4, <1>5

(* It sends back some of what it has.                                      *)
LEMMA ShipResultsStep ==
    ASSUME LoadInvariant, NEW b \in LoadBrokers, ShipResults(b)
    PROVE  LoadInvariant'
<1>0. LoadTypeOK /\ QueriesCounted /\ PackagesKept /\ Assigning
  BY DEF LoadInvariant
<1>1. PICK done \in SUBSET evaluating[b] :
        /\ evaluating' = [evaluating EXCEPT ![b] = @ \ done]
        /\ toModule' = [toModule EXCEPT ![b] =
               @ \o [i \in 1 .. Cardinality(done) |-> PackageMessage(SetToSeq(done)[i])]]
  BY DEF ShipResults
<1>2. /\ ~misread
      /\ serving' = [serving EXCEPT ![b] = "query"]
      /\ UNCHANGED <<schedulerAt, toSchedule, modelPackages, broker, responses>>
      /\ UNCHANGED <<numberResponses, assigned, toBroker, values, misread>>
  BY DEF ShipResults, BrokerIs, BrokerGoto, schedulerVars
<1>3. /\ toModule \in [LoadBrokers -> Seq(LoadMessages)] /\ toModule[b] \in Seq(LoadMessages)
      /\ serving \in [LoadBrokers -> {"package", "ship", "query"}]
      /\ evaluating \in [LoadBrokers -> SUBSET DOMAIN Amounts]
      /\ evaluating[b] \subseteq DOMAIN Amounts
  BY <1>0, LoadTypes
<1> DEFINE order == SetToSeq(done)
           new == [i \in 1 .. Cardinality(done) |-> PackageMessage(order[i])]
<1>4. /\ order \in Seq(DOMAIN Amounts) /\ DOMAIN order = 1 .. Cardinality(done)
      /\ \A p \in done : \E i \in DOMAIN order : order[i] = p
  <2>1. IsFiniteSet(done)
    <3>1. DOMAIN Amounts = 1 .. Len(Amounts) /\ Len(Amounts) \in Nat
      BY LoadAssumption
    <3>2. IsFiniteSet(DOMAIN Amounts) /\ done \in SUBSET DOMAIN Amounts
      BY <1>3, <3>1, FS_Interval
    <3>3. QED
      BY <3>2, FS_Subset
  <2>2. /\ Cardinality(done) \in Nat
        /\ \E f \in [1 .. Cardinality(done) -> done] : IsInjective(f)
    BY <2>1, FS_CardinalityType DEF ExistsBijection, Bijection, Injection
  <2>3. order \in [1 .. Cardinality(done) -> done] /\ IsInjective(order)
    BY <2>2 DEF SetToSeq
  <2> HIDE DEF order
  <2>4. order \in Injection(1 .. Cardinality(done), done)
    BY <2>3 DEF Injection
  <2>5. IsFiniteSet(1 .. Cardinality(done)) /\ Cardinality(1 .. Cardinality(done)) = Cardinality(done)
    BY <2>2, FS_Interval
  <2>6. order \in Surjection(1 .. Cardinality(done), done)
    BY <2>1, <2>4, <2>5, FS_Injection
  <2>7. \A p \in done : \E i \in DOMAIN order : order[i] = p
    BY <2>3, <2>6 DEF Surjection
  <2>8. order \in Seq(DOMAIN Amounts)
    <3>1. done \subseteq DOMAIN Amounts
      BY <1>3
    <3>2. order \in [1 .. Cardinality(done) -> DOMAIN Amounts]
      BY <2>3, <3>1
    <3>3. QED
      BY <2>2, <3>2
  <2>9. QED
    BY <2>3, <2>7, <2>8
<1>5. /\ toModule' = [toModule EXCEPT ![b] = @ \o new]
      /\ new = [i \in DOMAIN order |-> PackageMessage(order[i])]
  BY <1>1, <1>4
<1> HIDE DEF new, order
<1>6. /\ new \in Seq(LoadMessages) /\ ~HasQuery(new)
      /\ \A p \in done : Carries(new, p)
  BY <1>4, <1>5, PackagesAsMessages
<1>7. /\ toModule[b] \o new \in Seq(LoadMessages)
      /\ HasQuery(toModule[b] \o new) <=> HasQuery(toModule[b])
      /\ \A p : Carries(toModule[b] \o new, p) <=> Carries(toModule[b], p) \/ Carries(new, p)
  BY <1>3, <1>6, MessagesBehind
<1>8. /\ toModule' \in [LoadBrokers -> Seq(LoadMessages)]
      /\ toModule'[b] = toModule[b] \o new
      /\ \A c \in LoadBrokers \ {b} : toModule'[c] = toModule[c]
  BY <1>3, <1>5, <1>7
<1>9. /\ evaluating' \in [LoadBrokers -> SUBSET DOMAIN Amounts]
      /\ evaluating'[b] = evaluating[b] \ done
      /\ \A c \in LoadBrokers \ {b} : evaluating'[c] = evaluating[c]
  BY <1>1, <1>3
<1>10. LoadTypeOK'
  <2>1. serving' \in [LoadBrokers -> {"package", "ship", "query"}]
    BY <1>2, <1>3
  <2>2. QED
    BY <1>0, <1>2, <1>8, <1>9, <2>1, LoadTypes, LoadTypesNext
<1>11. QueriesCounted'
  <2>1. \A c \in LoadBrokers : HasQuery(toModule'[c]) <=> HasQuery(toModule[c])
    BY <1>7, <1>8
  <2>2. QueriedBrokers' = QueriedBrokers
    BY <1>2, <2>1 DEF QueriedBrokers, Queried
  <2>3. QED
    BY <1>0, <1>2, <2>1, <2>2 DEF QueriesCounted
<1>12. PackagesKept'
  <2>1. ASSUME NEW p, WithBroker(p) PROVE WithBroker(p)'
    BY <1>2, <1>6, <1>7, <1>8, <1>9, <2>1 DEF WithBroker
  <2>2. QED
    BY <1>0, <1>2, <2>1 DEF PackagesKept
<1>13. QED
  BY <1>0, <1>2, <1>10, <1>11, <1>12 DEF LoadInvariant, Assigning

(* It answers what has come as queries.                                    *)
LEMMA AnswerQueriesStep ==
    ASSUME LoadInvariant, NEW b \in LoadBrokers, AnswerQueries(b)
    PROVE  LoadInvariant'
<1>0. LoadTypeOK /\ QueriesCounted /\ PackagesKept /\ Assigning
  BY DEF LoadInvariant
<1>1. /\ ~misread
      /\ toBroker' = [toBroker EXCEPT ![b] = <<>>]
      /\ serving' = [serving EXCEPT ![b] = "package"]
      /\ UNCHANGED <<schedulerAt, toSchedule, modelPackages, broker, responses>>
      /\ UNCHANGED <<numberResponses, assigned, evaluating, values>>
      /\ \/ /\ AllAre("query", toBroker[b]) /\ misread' = misread
            /\ \E load \in Loads : toModule' =
                   [toModule EXCEPT ![b] = @ \o Executed(toBroker[b], load)]
         \/ misread' = TRUE /\ toModule' = toModule
  BY DEF AnswerQueries, BrokerIs, BrokerGoto, schedulerVars
<1>2. /\ toBroker \in [LoadBrokers -> Seq(LoadMessages)] /\ toBroker[b] \in Seq(LoadMessages)
      /\ toModule \in [LoadBrokers -> Seq(LoadMessages)] /\ toModule[b] \in Seq(LoadMessages)
      /\ serving \in [LoadBrokers -> {"package", "ship", "query"}]
      /\ <<>> \in Seq(LoadMessages) /\ ~HasQuery(<<>>)
  BY <1>0, LoadTypes, EmptySeq, AllOfOneKind
<1>3. /\ toBroker' \in [LoadBrokers -> Seq(LoadMessages)]
      /\ toBroker'[b] = <<>> /\ \A c \in LoadBrokers \ {b} : toBroker'[c] = toBroker[c]
      /\ serving' \in [LoadBrokers -> {"package", "ship", "query"}]
  BY <1>1, <1>2
<1>4. ASSUME AllAre("query", toBroker[b]), misread' = misread,
             NEW load \in Loads,
             toModule' = [toModule EXCEPT ![b] = @ \o Executed(toBroker[b], load)]
      PROVE  LoadInvariant'
  <2> DEFINE new == Executed(toBroker[b], load)
  <2>1. /\ new \in Seq(LoadMessages)
        /\ HasQuery(new) <=> HasQuery(toBroker[b])
    <3>1. LoadMessage(load) \in LoadMessages /\ LoadMessage(load).kind = "query"
      BY LoadMessageFacts
    <3>2. DOMAIN toBroker[b] = 1 .. Len(toBroker[b]) /\ Len(toBroker[b]) \in Nat
      BY <1>2
    <3>3. new = [i \in DOMAIN toBroker[b] |-> LoadMessage(load)]
      BY DEF Executed
    <3>4. new \in Seq(LoadMessages)
      BY <3>1, <3>2, <3>3
    <3>5. HasQuery(new) <=> HasQuery(toBroker[b])
      BY <1>4, <3>1, <3>3 DEF HasQuery, AllAre
    <3>6. QED
      BY <3>4, <3>5
  <2>2. toModule' = [toModule EXCEPT ![b] = @ \o new]
    BY <1>4
  <2> HIDE DEF new
  <2>3. /\ toModule[b] \o new \in Seq(LoadMessages)
        /\ HasQuery(toModule[b] \o new) <=> HasQuery(toModule[b]) \/ HasQuery(toBroker[b])
        /\ \A p : Carries(toModule[b], p) => Carries(toModule[b] \o new, p)
    BY <1>2, <2>1, MessagesBehind
  <2>4. /\ toModule' \in [LoadBrokers -> Seq(LoadMessages)]
        /\ toModule'[b] = toModule[b] \o new
        /\ \A c \in LoadBrokers \ {b} : toModule'[c] = toModule[c]
    BY <1>2, <2>2, <2>3
  <2>5. LoadTypeOK'
    BY <1>0, <1>1, <1>3, <1>4, <2>4, LoadTypes, LoadTypesNext
  <2>6. QueriesCounted'
    <3>1. \A c \in LoadBrokers : Queried(c)' <=> Queried(c)
      BY <1>2, <1>3, <2>3, <2>4 DEF Queried
    <3>2. QueriedBrokers' = QueriedBrokers
      BY <3>1 DEF QueriedBrokers
    <3>3. \A c \in LoadBrokers : ~(HasQuery(toBroker'[c]) /\ HasQuery(toModule'[c]))
      BY <1>0, <1>1, <1>2, <1>3, <2>4 DEF QueriesCounted
    <3>4. QED
      BY <1>0, <1>1, <1>4, <3>2, <3>3 DEF QueriesCounted
  <2>7. PackagesKept'
    <3>1. \A p : ~Carries(toBroker[b], p)
      BY <1>2, <1>4, AllOfOneKind
    <3>2. ASSUME NEW p, WithBroker(p) PROVE WithBroker(p)'
      BY <1>1, <1>3, <2>3, <2>4, <3>1, <3>2 DEF WithBroker
    <3>3. QED
      BY <1>0, <1>1, <1>4, <3>2 DEF PackagesKept
  <2>8. QED
    BY <1>0, <1>1, <2>5, <2>6, <2>7 DEF LoadInvariant, Assigning
<1>5. CASE misread' = TRUE /\ toModule' = toModule
  <2>1. LoadTypeOK'
    BY <1>0, <1>1, <1>3, <1>5, LoadTypes, LoadTypesNext
  <2>2. QED
    BY <1>0, <1>1, <1>5, <2>1 DEF LoadInvariant, Assigning, QueriesCounted, PackagesKept
<1>6. QED
  BY <1>1, <1>4, <1>5

(* The value processing thread takes what has come for packages.           *)
LEMMA ReceiveValuesStep ==
    ASSUME LoadInvariant, NEW b \in LoadBrokers, ReceiveValues(b)
    PROVE  LoadInvariant'
<1>0. LoadTypeOK /\ QueriesCounted /\ PackagesKept /\ Assigning
  BY DEF LoadInvariant
<1> DEFINE packages == {m.package : m \in ToSet(toModule[b])}
<1>1. /\ ~misread
      /\ toModule' = [toModule EXCEPT ![b] = <<>>]
      /\ UNCHANGED <<schedulerAt, toSchedule, modelPackages, broker, responses>>
      /\ UNCHANGED <<numberResponses, assigned, toBroker, serving, evaluating>>
      /\ IF AllAre("package", toModule[b])
         THEN /\ values' = values \cup packages
              /\ UNCHANGED misread
         ELSE misread' = TRUE /\ UNCHANGED values
  BY DEF ReceiveValues, schedulerVars
<1>2. /\ toModule \in [LoadBrokers -> Seq(LoadMessages)] /\ toModule[b] \in Seq(LoadMessages)
      /\ values \subseteq DOMAIN Amounts
      /\ <<>> \in Seq(LoadMessages) /\ ~HasQuery(<<>>)
  BY <1>0, LoadTypes, EmptySeq, AllOfOneKind
<1>3. /\ toModule' \in [LoadBrokers -> Seq(LoadMessages)]
      /\ toModule'[b] = <<>> /\ \A c \in LoadBrokers \ {b} : toModule'[c] = toModule[c]
  BY <1>1, <1>2
<1>4. CASE AllAre("package", toModule[b])
  <2>1. /\ ~HasQuery(toModule[b]) /\ packages \subseteq DOMAIN Amounts
        /\ \A p : Carries(toModule[b], p) => p \in packages
    BY <1>2, <1>4, AllOfOneKind
  <2>2. misread' = misread /\ values' = values \cup packages
    BY <1>1, <1>4
  <2> HIDE DEF packages
  <2>3. LoadTypeOK'
    BY <1>0, <1>1, <1>2, <1>3, <2>1, <2>2, LoadTypes, LoadTypesNext
  <2>4. \A c \in LoadBrokers : HasQuery(toModule'[c]) <=> HasQuery(toModule[c])
    BY <1>2, <1>3, <2>1
  <2>5. QueriesCounted'
    <3>1. QueriedBrokers' = QueriedBrokers
      BY <1>1, <2>4 DEF QueriedBrokers, Queried
    <3>2. QED
      BY <1>0, <1>1, <2>2, <2>4, <3>1 DEF QueriesCounted
  <2>6. PackagesKept'
    <3>1. ASSUME NEW p, WithBroker(p) PROVE WithBroker(p)' \/ p \in values'
      BY <1>1, <1>3, <2>1, <2>2, <3>1 DEF WithBroker
    <3>2. QED
      BY <1>0, <1>1, <2>2, <3>1 DEF PackagesKept
  <2>7. QED
    BY <1>0, <1>1, <2>3, <2>5, <2>6 DEF LoadInvariant, Assigning
<1>5. CASE ~AllAre("package", toModule[b])
  <2>1. misread' = TRUE /\ values' = values
    BY <1>1, <1>5
  <2>2. LoadTypeOK'
    BY <1>0, <1>1, <1>3, <2>1, LoadTypes, LoadTypesNext
  <2>3. QED
    BY <1>0, <1>1, <2>1, <2>2 DEF LoadInvariant, Assigning, QueriesCounted, PackagesKept
<1>6. QED
  BY <1>4, <1>5

LEMMA LoadInductive ==
    /\ Init => LoadInvariant
    /\ LoadInvariant /\ [Next]_vars => LoadInvariant'
<1>1. Init => LoadInvariant
  BY LoadInvariantInit DEF Init
<1>2. [Next]_vars => [LoadNext]_loadVars
  BY DEF Next, vars
<1>3. ASSUME LoadInvariant, LoadNext PROVE LoadInvariant'
  BY <1>3, StartScheduleStep, SendQueryStep, NextPassStep, ReceiveLoadStep, AssignStep,
     SendPackagesStep, ReceivePackagesOfStep, ShipResultsStep, AnswerQueriesStep,
     ReceiveValuesStep
  DEF LoadNext, ScheduleStep, BrokerStep
<1>4. ASSUME LoadInvariant, UNCHANGED loadVars PROVE LoadInvariant'
  BY <1>4 DEF loadVars, schedulerVars, messages, LoadInvariant, LoadTypeOK, QueriesCounted,
              QueriedBrokers, Queried, PackagesKept, WithBroker, Assigning
<1>5. QED
  BY <1>1, <1>2, <1>3, <1>4

(* For any number of brokers and packages, unless a message has been taken  *)
(* for one of another kind: AdaptiveSamplingLoadScheduler::schedule decides *)
(* when each broker has answered its query, and not before, and no answer   *)
(* is left for the next call; and no package is lost between the pile, the  *)
(* brokers and the values.                                                 *)
LoadsAreComplete ==
    ~misread =>
        /\ schedulerAt = "assign" => numberResponses = NumLoadBrokers
        /\ schedulerAt \in {"idle", "assign"} => \A b \in LoadBrokers : ~Queried(b)
THEOREM LoadsAreKnown == Spec => [](LoadsAreComplete /\ PackagesKept)
<1>1. LoadInvariant => LoadsAreComplete /\ PackagesKept
  BY DEF LoadInvariant, QueriesCounted, QueriedBrokers, LoadsAreComplete
<1>2. QED
  BY <1>1, LoadInductive, PTL DEF Spec

-----------------------------------------------------------------------------
(* The broker over a batch system *)

(* The packages and the directories of some commands, and whether no two of *)
(* them share one.                                                         *)
DirectoriesOf(cs) == [i \in DOMAIN cs |-> cs[i].directory]
Holding(cs) == {cs[i].package : i \in DOMAIN cs}
Filed(cs) == {cs[i].directory : i \in DOMAIN cs}
Distinct(cs) ==
    \A i, j \in DOMAIN cs :
        cs[i].package = cs[j].package \/ cs[i].directory = cs[j].directory => i = j

(* A package that was received is in one place: the one of a command that   *)
(* is queued, running or completed, or among those to ship or shipped.     *)
UnderWay == Holding(queued) \cup Holding(running) \cup Holding(completed)
EachPackageOnce ==
    /\ Distinct(queued) /\ Distinct(running) /\ Distinct(completed)
    /\ IsInjective(results) /\ IsInjective(returned)
    /\ Holding(queued) \cap Holding(running) = {}
    /\ (Holding(queued) \cup Holding(running)) \cap Holding(completed) = {}
    /\ UnderWay \cap Range(results) = {}
    /\ (UnderWay \cup Range(results)) \cap Range(returned) = {}
    /\ UnderWay \cup Range(results) \cup Range(returned) = 1 .. numberReceived

(* The directories that exist are those of the commands, and those of the   *)
(* last NumberToKeep that have completed.                                  *)
DirectoriesKept ==
    /\ IsInjective(completedDirectories) /\ Len(completedDirectories) <= NumberToKeep
    /\ Filed(queued) \cap Filed(running) = {}
    /\ (Filed(queued) \cup Filed(running)) \cap Filed(completed) = {}
    /\ (Filed(queued) \cup Filed(running) \cup Filed(completed))
           \cap Range(completedDirectories) = {}
    /\ directories = Filed(queued) \cup Filed(running) \cup Filed(completed)
                         \cup Range(completedDirectories)

(* The batch system has exactly those running commands that have no output  *)
(* yet, and no command has output before it runs.                          *)
JobsWatched ==
    /\ jobs = {c \in Range(running) : c.directory \notin pbsOutput}
    /\ Filed(queued) \cap pbsOutput = {}

(* How often packages have been evaluated.                                 *)
AttemptsCounted ==
    /\ \A p \in UnderWay : evaluations[p] <= Retries
    /\ \A p \in BatchPackages : p > numberReceived => evaluations[p] = 0

(* Between passes there is nothing completed, and nothing to ship.         *)
Stages ==
    /\ completed # <<>> => \/ brokerAt \in {"filter", "failed"}
                           \/ brokerAt = "submit" /\ submitter = "completions"
    /\ results # <<>> => \/ brokerAt \in {"ship", "failed"}
                         \/ brokerAt = "submit" /\ submitter = "retries"

BatchInvariant ==
    BatchTypeOK /\ EachPackageOnce /\ DirectoriesKept /\ JobsWatched /\ AttemptsCounted /\ Stages

-----------------------------------------------------------------------------
(* What operations on lists of commands do to packages and directories *)

(* Elements of a list of commands, in any order.                           *)
Moved(ds, cs, places) ==
    \E n \in Nat : \E f \in Bijection(1 .. n, places) : ds = [k \in 1 .. n |-> cs[f[k]]]
LEMMA CommandsMoved ==
    ASSUME NEW cs \in Seq(CommandType), NEW places \in SUBSET DOMAIN cs,
           NEW ds, Moved(ds, cs, places)
    PROVE  /\ ds \in Seq(CommandType)
           /\ Range(ds) = {cs[i] : i \in places}
           /\ Holding(ds) = {cs[i].package : i \in places}
           /\ Filed(ds) = {cs[i].directory : i \in places}
           /\ Distinct(cs) => Distinct(ds)
<1>a. PICK n \in Nat : \E f \in Bijection(1 .. n, places) : ds = [k \in 1 .. n |-> cs[f[k]]]
  BY DEF Moved
<1>0. PICK f \in Bijection(1 .. n, places) : ds = [k \in 1 .. n |-> cs[f[k]]]
  BY <1>a
<1>1. /\ DOMAIN ds = 1 .. n /\ \A k \in 1 .. n : ds[k] = cs[f[k]]
      /\ \A k \in 1 .. n : f[k] \in places
      /\ \A k, l \in 1 .. n : f[k] = f[l] => k = l
      /\ \A i \in places : \E k \in 1 .. n : f[k] = i
  BY <1>0 DEF Bijection, Injection, Surjection, IsInjective
<1>2. ds \in Seq(CommandType)
  <2>1. \A i \in DOMAIN cs : cs[i] \in CommandType
    OBVIOUS
  <2>2. \A k \in 1 .. n : ds[k] \in CommandType
    BY <1>1, <2>1
  <2>3. ds \in [1 .. n -> CommandType]
    BY <1>0, <1>1, <2>2
  <2>4. QED
    BY <2>3
<1>3. \A i \in places : \E k \in DOMAIN ds : ds[k] = cs[i]
  BY <1>1
<1>4. \A k \in DOMAIN ds : \E i \in places : ds[k] = cs[i]
  BY <1>1
<1>5. Range(ds) = {cs[i] : i \in places}
  BY <1>3, <1>4 DEF Range
<1>6. Holding(ds) = {cs[i].package : i \in places}
  BY <1>3, <1>4 DEF Holding
<1>7. Filed(ds) = {cs[i].directory : i \in places}
  BY <1>3, <1>4 DEF Filed
<1>8. ASSUME Distinct(cs), NEW k \in DOMAIN ds, NEW l \in DOMAIN ds,
             ds[k].package = ds[l].package \/ ds[k].directory = ds[l].directory
      PROVE  k = l
  <2>1. f[k] \in DOMAIN cs /\ f[l] \in DOMAIN cs /\ ds[k] = cs[f[k]] /\ ds[l] = cs[f[l]]
    BY <1>1
  <2>2. f[k] = f[l]
    BY <1>8, <2>1 DEF Distinct
  <2>3. QED
    BY <1>1, <2>2
<1>9. Distinct(cs) => Distinct(ds)
  BY <1>8 DEF Distinct
<1>10. QED
  BY <1>2, <1>5, <1>6, <1>7, <1>9

(* The packages, and the directories, as lists of their own.               *)
LEMMA CommandsHeld ==
    ASSUME NEW cs \in Seq(CommandType)
    PROVE  /\ DOMAIN cs = 1 .. Len(cs) /\ Len(cs) \in Nat
           /\ \A i \in DOMAIN cs : cs[i] \in CommandType /\ cs[i].package \in BatchPackages
                                   /\ cs[i].directory \in Nat
           /\ PackagesOf(cs) \in Seq(BatchPackages) /\ DirectoriesOf(cs) \in Seq(Nat)
           /\ Range(PackagesOf(cs)) = Holding(cs) /\ Range(DirectoriesOf(cs)) = Filed(cs)
           /\ Len(DirectoriesOf(cs)) = Len(cs)
           /\ Distinct(cs) => IsInjective(PackagesOf(cs)) /\ IsInjective(DirectoriesOf(cs))
<1>1. /\ DOMAIN cs = 1 .. Len(cs) /\ Len(cs) \in Nat
      /\ \A i \in DOMAIN cs : cs[i] \in CommandType
  OBVIOUS
<1>2. \A i \in DOMAIN cs : cs[i].package \in BatchPackages /\ cs[i].directory \in Nat
  BY <1>1 DEF CommandType
<1>3. PackagesOf(cs) \in Seq(BatchPackages) /\ DirectoriesOf(cs) \in Seq(Nat)
  <2>1. /\ PackagesOf(cs) \in [1 .. Len(cs) -> BatchPackages]
        /\ DirectoriesOf(cs) \in [1 .. Len(cs) -> Nat]
    BY <1>1, <1>2 DEF PackagesOf, DirectoriesOf
  <2>2. QED
    BY <1>1, <2>1
<1>4. Range(PackagesOf(cs)) = Holding(cs)
  BY DEF Range, PackagesOf, Holding
<1>5. Range(DirectoriesOf(cs)) = Filed(cs)
  BY DEF Range, DirectoriesOf, Filed
<1>6. Len(DirectoriesOf(cs)) = Len(cs)
  BY <1>1 DEF DirectoriesOf
<1>7. Distinct(cs) => IsInjective(PackagesOf(cs))
  BY DEF Distinct, IsInjective, PackagesOf
<1>8. Distinct(cs) => IsInjective(DirectoriesOf(cs))
  BY DEF Distinct, IsInjective, DirectoriesOf
<1>9. QED
  BY <1>1, <1>2, <1>3, <1>4, <1>5, <1>6, <1>7, <1>8

(* One list of commands behind another that shares nothing with it.        *)
LEMMA CommandsJoined ==
    ASSUME NEW cs \in Seq(CommandType), NEW ds \in Seq(CommandType)
    PROVE  /\ cs \o ds \in Seq(CommandType)
           /\ Range(cs \o ds) = Range(cs) \cup Range(ds)
           /\ Holding(cs \o ds) = Holding(cs) \cup Holding(ds)
           /\ Filed(cs \o ds) = Filed(cs) \cup Filed(ds)
           /\ /\ Distinct(cs) /\ Distinct(ds)
              /\ Holding(cs) \cap Holding(ds) = {} /\ Filed(cs) \cap Filed(ds) = {}
              => Distinct(cs \o ds)
<1> DEFINE all == cs \o ds
           m == Len(cs)
           n == Len(ds)
<1>1. /\ m \in Nat /\ n \in Nat /\ DOMAIN cs = 1 .. m /\ DOMAIN ds = 1 .. n
      /\ DOMAIN all = 1 .. m + n
      /\ \A i \in 1 .. m + n : all[i] = IF i <= m THEN cs[i] ELSE ds[i - m]
  BY ConcatProperties, LenProperties
<1>2. all \in Seq(CommandType) /\ Range(all) = Range(cs) \cup Range(ds)
  BY ConcatFacts
<1> HIDE DEF all, m, n
<1>3. \A i \in DOMAIN cs : i \in DOMAIN all /\ all[i] = cs[i]
  BY <1>1
<1>4. ASSUME NEW i \in DOMAIN ds PROVE m + i \in DOMAIN all /\ all[m + i] = ds[i]
  <2>1. m + i \in 1 .. m + n /\ ~ (m + i <= m) /\ (m + i) - m = i
    BY <1>1
  <2>2. QED
    BY <1>1, <2>1
<1>5. \A i \in DOMAIN all : \/ i \in DOMAIN cs /\ all[i] = cs[i]
                            \/ i - m \in DOMAIN ds /\ all[i] = ds[i - m]
  BY <1>1
<1>6. Holding(all) = Holding(cs) \cup Holding(ds)
  <2>1. ASSUME NEW p \in Holding(all) PROVE p \in Holding(cs) \cup Holding(ds)
    BY <1>5 DEF Holding
  <2>2. ASSUME NEW p \in Holding(cs) PROVE p \in Holding(all)
    BY <1>3 DEF Holding
  <2>3. ASSUME NEW p \in Holding(ds) PROVE p \in Holding(all)
    BY <1>4 DEF Holding
  <2>4. QED
    BY <2>1, <2>2, <2>3
<1>7. Filed(all) = Filed(cs) \cup Filed(ds)
  <2>1. ASSUME NEW d \in Filed(all) PROVE d \in Filed(cs) \cup Filed(ds)
    BY <1>5 DEF Filed
  <2>2. ASSUME NEW d \in Filed(cs) PROVE d \in Filed(all)
    BY <1>3 DEF Filed
  <2>3. ASSUME NEW d \in Filed(ds) PROVE d \in Filed(all)
    BY <1>4 DEF Filed
  <2>4. QED
    BY <2>1, <2>2, <2>3
<1>8. ASSUME Distinct(cs), Distinct(ds),
             Holding(cs) \cap Holding(ds) = {}, Filed(cs) \cap Filed(ds) = {},
             NEW i \in DOMAIN all, NEW j \in DOMAIN all,
             all[i].package = all[j].package \/ all[i].directory = all[j].directory
      PROVE  i = j
  <2>1. ASSUME NEW c \in DOMAIN cs, NEW d \in DOMAIN ds
        PROVE  cs[c].package # ds[d].package /\ cs[c].directory # ds[d].directory
    BY <1>8 DEF Holding, Filed
  <2>2. CASE i \in DOMAIN cs /\ j \in DOMAIN cs
    BY <1>3, <1>8, <2>2 DEF Distinct
  <2>3. CASE i \in DOMAIN cs /\ j \notin DOMAIN cs
    BY <1>3, <1>5, <1>8, <2>1, <2>3
  <2>4. CASE i \notin DOMAIN cs /\ j \in DOMAIN cs
    BY <1>3, <1>5, <1>8, <2>1, <2>4
  <2>5. CASE i \notin DOMAIN cs /\ j \notin DOMAIN cs
    <3>1. /\ i - m \in DOMAIN ds /\ all[i] = ds[i - m]
          /\ j - m \in DOMAIN ds /\ all[j] = ds[j - m]
      BY <1>5, <2>5
    <3>2. i - m = j - m
      BY <1>8, <3>1 DEF Distinct
    <3>3. QED
      BY <1>1, <3>2
  <2>6. QED
    BY <2>2, <2>3, <2>4, <2>5
<1>9. QED
  BY <1>2, <1>6, <1>7, <1>8 DEF all, Distinct

(* A stable sort rearranges.                                               *)
LEMMA SortedFacts ==
    ASSUME NEW cs \in Seq(CommandType), NEW ds \in HigherFirst(cs)
    PROVE  /\ ds \in Seq(CommandType)
           /\ Holding(ds) = Holding(cs) /\ Filed(ds) = Filed(cs)
           /\ Distinct(cs) => Distinct(ds)
<1>1. PICK f \in Bijection(DOMAIN cs, DOMAIN cs) : ds = [i \in DOMAIN cs |-> cs[f[i]]]
  BY DEF HigherFirst
<1>2. DOMAIN cs = 1 .. Len(cs) /\ Len(cs) \in Nat
  OBVIOUS
<1>3. Moved(ds, cs, DOMAIN cs)
  BY <1>1, <1>2 DEF Moved
<1>4. QED
  BY <1>3, CommandsMoved DEF Holding, Filed

(* Taking one command out of a list.                                       *)
LEMMA OneTakenOut ==
    ASSUME NEW cs \in Seq(CommandType), NEW i \in 1 .. Len(cs)
    PROVE  Len(RemoveAt(cs, i)) = Len(cs) - 1 /\ Moved(RemoveAt(cs, i), cs, DOMAIN cs \ {i})
<1> DEFINE n == Len(cs) - 1
           f == [k \in 1 .. n |-> IF k < i THEN k ELSE k + 1]
           ds == RemoveAt(cs, i)
<1>1. Len(cs) \in Nat /\ n \in Nat /\ DOMAIN cs = 1 .. Len(cs) /\ i \in Nat
  OBVIOUS
<1>2. /\ ds \in Seq(CommandType) /\ Len(ds) = n
      /\ \A k \in 1 .. n : ds[k] = IF k < i THEN cs[k] ELSE cs[k + 1]
  BY RemoveAtFacts
<1>3. f \in Bijection(1 .. n, DOMAIN cs \ {i})
  <2>1. f \in [1 .. n -> DOMAIN cs \ {i}]
    BY <1>1
  <2>2. \A k, l \in 1 .. n : f[k] = f[l] => k = l
    BY <1>1
  <2>3. ASSUME NEW j \in DOMAIN cs \ {i} PROVE \E k \in 1 .. n : f[k] = j
    <3>1. CASE j < i
      BY <1>1, <3>1
    <3>2. CASE j > i
      <4>1. j - 1 \in 1 .. n /\ ~(j - 1 < i) /\ (j - 1) + 1 = j
        BY <1>1, <3>2
      <4>2. f[j - 1] = j
        BY <4>1
      <4>3. QED
        BY <4>1, <4>2
    <3>3. QED
      BY <1>1, <3>1, <3>2
  <2> HIDE DEF f
  <2>4. QED
    BY <2>1, <2>2, <2>3 DEF Bijection, Injection, Surjection, IsInjective
<1>4. ds = [k \in 1 .. n |-> cs[f[k]]]
  <2>1. ds = [k \in 1 .. n |-> ds[k]]
    BY <1>1, <1>2
  <2>2. \A k \in 1 .. n : ds[k] = cs[f[k]]
    BY <1>1, <1>2
  <2> HIDE DEF ds, f
  <2>3. QED
    BY <2>1, <2>2
<1>5. QED
  BY <1>1, <1>2, <1>3, <1>4 DEF Moved

(* Selecting some.                                                         *)
LEMMA SomeSelected ==
    ASSUME NEW cs \in Seq(CommandType), NEW places \in SUBSET DOMAIN cs
    PROVE  Moved(Selected(cs, places), cs, places)
  BY SelectedFacts DEF Moved

(* What scheduling does: commands for the packages, in new directories.    *)
LEMMA NewCommandsFacts ==
    ASSUME commandCounter \in Nat, NEW packages \in Seq(BatchPackages), IsInjective(packages)
    PROVE  /\ NewCommands(packages) \in Seq(CommandType)
           /\ Len(NewCommands(packages)) = Len(packages)
           /\ Holding(NewCommands(packages)) = Range(packages)
           /\ Filed(NewCommands(packages))
                  \subseteq commandCounter .. commandCounter + Len(packages) - 1
           /\ Distinct(NewCommands(packages))
<1> DEFINE new == NewCommands(packages)
<1>1. /\ Len(packages) \in Nat /\ DOMAIN packages = 1 .. Len(packages)
      /\ \A i \in DOMAIN packages : packages[i] \in BatchPackages
  OBVIOUS
<1>2. /\ DOMAIN new = 1 .. Len(packages)
      /\ \A i \in 1 .. Len(packages) :
             /\ new[i] = [package |-> packages[i], directory |-> commandCounter + i - 1]
             /\ new[i].package = packages[i] /\ new[i].directory = commandCounter + i - 1
  BY <1>1 DEF NewCommands
<1>3. new \in Seq(CommandType) /\ Len(new) = Len(packages)
  <2>1. \A i \in 1 .. Len(packages) : new[i] \in CommandType
    BY <1>1, <1>2 DEF CommandType
  <2>2. new \in [1 .. Len(packages) -> CommandType]
    <3>1. new = [i \in 1 .. Len(packages) |-> new[i]]
      BY <1>1, <1>2 DEF NewCommands
    <3> HIDE DEF new
    <3>2. QED
      BY <2>1, <3>1
  <2>3. QED
    BY <1>1, <2>2
<1> HIDE DEF new
<1>4. Holding(new) = Range(packages)
  BY <1>1, <1>2 DEF Holding, Range
<1>5. Filed(new) \subseteq commandCounter .. commandCounter + Len(packages) - 1
  BY <1>1, <1>2 DEF Filed
<1>6. Distinct(new)
  BY <1>1, <1>2 DEF Distinct, IsInjective
<1>7. QED
  BY <1>3, <1>4, <1>5, <1>6 DEF new

LEMMA ScheduleFacts ==
    ASSUME commandCounter \in Nat, queued \in Seq(CommandType), Distinct(queued),
           Filed(queued) \subseteq 0 .. commandCounter - 1,
           NEW packages \in Seq(BatchPackages), IsInjective(packages),
           Holding(queued) \cap Range(packages) = {},
           NEW existing, Schedule(packages, existing)
    PROVE  /\ queued' \in Seq(CommandType) /\ Distinct(queued')
           /\ Holding(queued') = Holding(queued) \cup Range(packages)
           /\ commandCounter' \in Nat /\ commandCounter' >= commandCounter
           /\ \E fresh \in SUBSET (commandCounter .. commandCounter' - 1) :
                  /\ Filed(queued') = Filed(queued) \cup fresh
                  /\ directories' = existing \cup fresh
<1> DEFINE new == NewCommands(packages)
           n == Len(packages)
<1>1. /\ IF new = <<>> THEN queued' = queued ELSE queued' \in HigherFirst(queued \o new)
      /\ commandCounter' = commandCounter + Len(new)
      /\ directories' = existing \cup {new[i].directory : i \in DOMAIN new}
  BY DEF Schedule
<1>2. /\ new \in Seq(CommandType) /\ Len(new) = n /\ Holding(new) = Range(packages)
      /\ Filed(new) \subseteq commandCounter .. commandCounter + n - 1 /\ Distinct(new)
      /\ n \in Nat
  BY NewCommandsFacts
<1> HIDE DEF new, n
<1>3. /\ commandCounter' = commandCounter + n /\ commandCounter' \in Nat
      /\ commandCounter' >= commandCounter
  BY <1>1, <1>2
<1>4. Filed(new) \in SUBSET (commandCounter .. commandCounter' - 1)
  BY <1>2, <1>3
<1>5. directories' = existing \cup Filed(new)
  BY <1>1 DEF Filed
<1>6. Filed(queued) \cap Filed(new) = {} /\ Holding(queued) \cap Holding(new) = {}
  BY <1>2
<1>7. /\ queued' \in Seq(CommandType) /\ Distinct(queued')
      /\ Holding(queued') = Holding(queued) \cup Holding(new)
      /\ Filed(queued') = Filed(queued) \cup Filed(new)
  <2>1. CASE new = <<>>
    <3>1. Holding(new) = {} /\ Filed(new) = {}
      BY <2>1 DEF Holding, Filed
    <3>2. QED
      BY <1>1, <2>1, <3>1
  <2>2. CASE new # <<>>
    <3>1. /\ queued \o new \in Seq(CommandType) /\ Distinct(queued \o new)
          /\ Holding(queued \o new) = Holding(queued) \cup Holding(new)
          /\ Filed(queued \o new) = Filed(queued) \cup Filed(new)
      BY <1>2, <1>6, CommandsJoined
    <3>2. queued' \in HigherFirst(queued \o new)
      BY <1>1, <2>2
    <3>3. QED
      BY <3>1, <3>2, SortedFacts
  <2>3. QED
    BY <2>1, <2>2
<1>8. QED
  BY <1>2, <1>3, <1>4, <1>5, <1>7

-----------------------------------------------------------------------------
(* The steps of the broker over a batch system *)

LEMMA BatchTypes ==
    BatchTypeOK <=>
    /\ brokerAt \in {"receive", "submit", "monitor", "filter", "ship", "failed"}
    /\ submitter \in {"arrivals", "completions", "retries"}
    /\ iter \in 1 .. EndOf(queued)
    /\ numberReceived \in 0 .. NumPackages /\ commandCounter \in Nat
    /\ queued \in Seq(CommandType) /\ running \in Seq(CommandType)
    /\ completed \in Seq(CommandType)
    /\ results \in Seq(BatchPackages) /\ returned \in Seq(BatchPackages)
    /\ evaluations \in [BatchPackages -> 0 .. Retries + 1]
    /\ jobs \subseteq CommandType /\ pbsOutput \subseteq directories
    /\ directories \subseteq 0 .. commandCounter - 1
    /\ completedDirectories \in Seq(directories)
  BY DEF BatchTypeOK

LEMMA BatchTypesNext ==
    BatchTypeOK' <=>
    /\ brokerAt' \in {"receive", "submit", "monitor", "filter", "ship", "failed"}
    /\ submitter' \in {"arrivals", "completions", "retries"}
    /\ iter' \in 1 .. EndOf(queued')
    /\ numberReceived' \in 0 .. NumPackages /\ commandCounter' \in Nat
    /\ queued' \in Seq(CommandType) /\ running' \in Seq(CommandType)
    /\ completed' \in Seq(CommandType)
    /\ results' \in Seq(BatchPackages) /\ returned' \in Seq(BatchPackages)
    /\ evaluations' \in [BatchPackages -> 0 .. Retries + 1]
    /\ jobs' \subseteq CommandType /\ pbsOutput' \subseteq directories'
    /\ directories' \subseteq 0 .. commandCounter' - 1
    /\ completedDirectories' \in Seq(directories')
  BY DEF BatchTypeOK

(* A run begins with nothing.                                              *)
LEMMA BatchInvariantInit == BatchInit => BatchInvariant
<1> SUFFICES ASSUME BatchInit PROVE BatchInvariant
  OBVIOUS
<1>1. /\ brokerAt = "receive" /\ submitter = "arrivals" /\ iter = 1
      /\ numberReceived = 0 /\ commandCounter = 0
      /\ queued = <<>> /\ running = <<>> /\ completed = <<>> /\ results = <<>> /\ returned = <<>>
      /\ evaluations = [p \in BatchPackages |-> 0]
      /\ jobs = {} /\ pbsOutput = {} /\ directories = {} /\ completedDirectories = <<>>
  BY DEF BatchInit
<1>2. /\ <<>> \in Seq(CommandType) /\ <<>> \in Seq(BatchPackages) /\ <<>> \in Seq(directories)
      /\ Len(<<>>) = 0
  BY EmptySeq
<1>3. /\ Holding(<<>>) = {} /\ Filed(<<>>) = {} /\ Distinct(<<>>)
      /\ Range(<<>>) = {} /\ IsInjective(<<>>)
  BY DEF Holding, Filed, Distinct, Range, IsInjective
<1>4. BatchTypeOK
  <2>1. evaluations \in [BatchPackages -> 0 .. Retries + 1]
    BY <1>1, BatchAssumption
  <2>2. iter \in 1 .. EndOf(queued) /\ numberReceived \in 0 .. NumPackages
    BY <1>1, <1>2, BatchAssumption DEF EndOf
  <2>3. QED
    BY <1>1, <1>2, <2>1, <2>2, BatchTypes
<1>5. EachPackageOnce
  BY <1>1, <1>3 DEF EachPackageOnce, UnderWay
<1>6. DirectoriesKept
  BY <1>1, <1>2, <1>3, BatchAssumption DEF DirectoriesKept
<1>7. JobsWatched
  BY <1>1, <1>3 DEF JobsWatched
<1>8. AttemptsCounted
  BY <1>1, <1>3 DEF AttemptsCounted, UnderWay
<1>9. Stages
  BY <1>1 DEF Stages
<1>10. QED
  BY <1>4, <1>5, <1>6, <1>7, <1>8, <1>9 DEF BatchInvariant

(* What goes on in the loop moves nothing.                                 *)
LEMMA LoopStep ==
    ASSUME BatchInvariant, UNCHANGED <<commands, outcomes, batchSystem, files>>,
           brokerAt' \in {"receive", "submit", "monitor", "filter", "ship", "failed"},
           submitter' \in {"arrivals", "completions", "retries"},
           iter' \in 1 .. EndOf(queued), Stages'
    PROVE  BatchInvariant'
<1>1. /\ BatchTypeOK /\ EachPackageOnce /\ DirectoriesKept /\ JobsWatched /\ AttemptsCounted
      /\ UNCHANGED <<numberReceived, commandCounter, queued, running>>
      /\ UNCHANGED <<completed, evaluations, results, returned>>
      /\ UNCHANGED <<jobs, pbsOutput, directories, completedDirectories>>
  BY DEF BatchInvariant, commands, outcomes, batchSystem, files
<1>2. BatchTypeOK'
  BY <1>1, BatchTypes, BatchTypesNext
<1>3. EachPackageOnce' /\ DirectoriesKept'
  BY <1>1 DEF EachPackageOnce, UnderWay, DirectoriesKept
<1>4. JobsWatched' /\ AttemptsCounted'
  BY <1>1 DEF JobsWatched, AttemptsCounted, UnderWay
<1>5. QED
  BY <1>2, <1>3, <1>4 DEF BatchInvariant

(* The loop ends with an error, or goes on after the queue.                *)
LEMMA EndingSteps ==
    BatchInvariant /\ (CreateFails \/ SubmitFails \/ GiveUp \/ EndSubmit) => BatchInvariant'
<1> SUFFICES ASSUME BatchInvariant, CreateFails \/ SubmitFails \/ GiveUp \/ EndSubmit
             PROVE  BatchInvariant'
  OBVIOUS
<1>1. /\ brokerAt \in {"receive", "submit", "monitor", "filter", "ship", "failed"}
      /\ submitter \in {"arrivals", "completions", "retries"}
      /\ iter \in 1 .. EndOf(queued) /\ Stages
  BY BatchTypes DEF BatchInvariant
<1>2. /\ UNCHANGED <<submitter, iter>>
      /\ UNCHANGED <<commands, outcomes, batchSystem, files>>
  BY DEF CreateFails, SubmitFails, GiveUp, EndSubmit
<1>3. UNCHANGED <<completed, results>>
  BY <1>2 DEF outcomes
<1>4. CASE CreateFails \/ SubmitFails \/ GiveUp
  <2>1. brokerAt' = "failed"
    BY <1>4 DEF CreateFails, SubmitFails, GiveUp
  <2>2. Stages'
    BY <2>1 DEF Stages
  <2>3. QED
    BY <1>1, <1>2, <2>1, <2>2, LoopStep
<1>5. CASE EndSubmit
  <2>1. /\ brokerAt = "submit"
        /\ brokerAt' = CASE submitter = "arrivals" -> "monitor"
                         [] submitter = "completions" -> "filter"
                         [] submitter = "retries" -> "ship"
    BY <1>5 DEF EndSubmit, At
  <2>2. /\ submitter = "arrivals" => brokerAt' = "monitor"
        /\ submitter = "completions" => brokerAt' = "filter"
        /\ submitter = "retries" => brokerAt' = "ship"
    BY <2>1
  <2>3. Stages'
    BY <1>1, <1>2, <1>3, <2>1, <2>2 DEF Stages
  <2>4. QED
    BY <1>1, <1>2, <2>2, <2>3, LoopStep
<1>6. QED
  BY <1>4, <1>5

(* A job ends, and leaves its output in the directory of its command.      *)
LEMMA EndJobStep == BatchInvariant /\ EndJob => BatchInvariant'
<1> SUFFICES ASSUME BatchInvariant, EndJob PROVE BatchInvariant'
  OBVIOUS
<1>0. /\ BatchTypeOK /\ EachPackageOnce /\ DirectoriesKept /\ JobsWatched /\ AttemptsCounted
      /\ Stages
  BY DEF BatchInvariant
<1>1. PICK job \in jobs :
          /\ jobs' = jobs \ {job}
          /\ pbsOutput' = pbsOutput \cup ({job.directory} \cap directories)
  BY DEF EndJob
<1>2. /\ UNCHANGED <<brokerAt, submitter, iter>>
      /\ UNCHANGED <<numberReceived, commandCounter, queued, running>>
      /\ UNCHANGED <<completed, evaluations, results, returned>>
      /\ UNCHANGED <<directories, completedDirectories>>
  BY DEF EndJob, loop, commands, outcomes, files
<1>3. running \in Seq(CommandType) /\ Distinct(running)
  BY <1>0, BatchTypes DEF EachPackageOnce
<1>4. job \in Range(running) /\ job.directory \in Filed(running)
  <2>1. job \in Range(running)
    BY <1>0, <1>1 DEF JobsWatched
  <2>2. PICK i \in DOMAIN running : running[i] = job
    BY <2>1 DEF Range
  <2>3. QED
    BY <2>1, <2>2 DEF Filed
<1>5. job.directory \in directories /\ job.directory \notin Filed(queued)
  BY <1>0, <1>4 DEF DirectoriesKept
<1>6. pbsOutput' = pbsOutput \cup {job.directory}
  BY <1>1, <1>5
<1>7. \A c \in Range(running) : c.directory = job.directory => c = job
  <2>1. ASSUME NEW c \in Range(running), c.directory = job.directory PROVE c = job
    <3>1. PICK i \in DOMAIN running : running[i] = c
      BY <2>1 DEF Range
    <3>2. PICK j \in DOMAIN running : running[j] = job
      BY <1>4 DEF Range
    <3>3. i = j
      BY <1>3, <2>1, <3>1, <3>2 DEF Distinct
    <3>4. QED
      BY <3>1, <3>2, <3>3
  <2>2. QED
    BY <2>1
<1>8. JobsWatched'
  <2>1. ASSUME NEW c PROVE c \in jobs' <=> c \in Range(running) /\ c.directory \notin pbsOutput'
    BY <1>0, <1>1, <1>6, <1>7 DEF JobsWatched
  <2>2. jobs' = {c \in Range(running') : c.directory \notin pbsOutput'}
    BY <1>2, <2>1
  <2>3. Filed(queued') \cap pbsOutput' = {}
    BY <1>0, <1>2, <1>5, <1>6 DEF JobsWatched
  <2>4. QED
    BY <2>2, <2>3 DEF JobsWatched
<1>9. BatchTypeOK'
  BY <1>0, <1>1, <1>2, <1>5, <1>6, BatchTypes, BatchTypesNext
<1>10. EachPackageOnce' /\ DirectoriesKept'
  BY <1>0, <1>2 DEF EachPackageOnce, UnderWay, DirectoriesKept
<1>11. AttemptsCounted' /\ Stages'
  BY <1>0, <1>2 DEF AttemptsCounted, UnderWay, Stages
<1>12. QED
  BY <1>8, <1>9, <1>10, <1>11 DEF BatchInvariant

(* What has been received goes into the queue.                             *)
LEMMA ReceivePackagesStep == BatchInvariant /\ ReceivePackages => BatchInvariant'
<1> SUFFICES ASSUME BatchInvariant, ReceivePackages PROVE BatchInvariant'
  OBVIOUS
<1>0. /\ BatchTypeOK /\ EachPackageOnce /\ DirectoriesKept /\ JobsWatched /\ AttemptsCounted
      /\ Stages
  BY DEF BatchInvariant
<1>1. PICK n \in 0 .. NumPackages - numberReceived :
          /\ numberReceived' = numberReceived + n
          /\ Schedule([i \in 1 .. n |-> numberReceived + i], directories)
  BY DEF ReceivePackages
<1>2. /\ brokerAt = "receive" /\ brokerAt' = "submit" /\ submitter' = "arrivals" /\ iter' = 1
      /\ UNCHANGED <<running, completed, evaluations, results, returned>>
      /\ UNCHANGED <<jobs, pbsOutput, completedDirectories>>
  BY DEF ReceivePackages, At, outcomes, batchSystem
<1>3. /\ NumPackages \in Nat /\ numberReceived \in 0 .. NumPackages /\ commandCounter \in Nat
      /\ queued \in Seq(CommandType) /\ Distinct(queued)
      /\ directories \subseteq 0 .. commandCounter - 1
  BY <1>0, BatchTypes, BatchAssumption DEF EachPackageOnce
<1> DEFINE packages == [i \in 1 .. n |-> numberReceived + i]
<1>4. /\ packages \in Seq(BatchPackages) /\ IsInjective(packages)
      /\ Range(packages) = numberReceived + 1 .. numberReceived + n
  <2>1. packages \in [1 .. n -> BatchPackages] /\ n \in Nat
    BY <1>3 DEF BatchPackages
  <2>2. packages \in Seq(BatchPackages)
    BY <2>1
  <2>3. IsInjective(packages)
    BY <1>3 DEF IsInjective
  <2>4. ASSUME NEW p \in numberReceived + 1 .. numberReceived + n
        PROVE  p \in Range(packages)
    <3>1. p - numberReceived \in 1 .. n /\ numberReceived + (p - numberReceived) = p
      BY <1>3
    <3>2. packages[p - numberReceived] = p
      BY <3>1
    <3>3. QED
      BY <3>1, <3>2 DEF Range
  <2>5. \A i \in 1 .. n : packages[i] \in numberReceived + 1 .. numberReceived + n
    BY <1>3
  <2>6. QED
    BY <2>2, <2>3, <2>4, <2>5 DEF Range
<1> HIDE DEF packages
<1>5. Schedule(packages, directories)
  BY <1>1 DEF packages
<1>6. /\ UnderWay \cup Range(results) \cup Range(returned) = 1 .. numberReceived
      /\ Holding(queued) \subseteq UnderWay
  BY <1>0 DEF EachPackageOnce, UnderWay
<1>7. Holding(queued) \cap Range(packages) = {}
  BY <1>3, <1>4, <1>6
<1>8. Filed(queued) \subseteq 0 .. commandCounter - 1
  BY <1>0, <1>3 DEF DirectoriesKept
<1>9. /\ queued' \in Seq(CommandType) /\ Distinct(queued')
      /\ Holding(queued') = Holding(queued) \cup Range(packages)
      /\ commandCounter' \in Nat /\ commandCounter' >= commandCounter
      /\ \E fresh \in SUBSET (commandCounter .. commandCounter' - 1) :
             /\ Filed(queued') = Filed(queued) \cup fresh
             /\ directories' = directories \cup fresh
  BY <1>3, <1>4, <1>5, <1>7, <1>8, ScheduleFacts
<1>10. PICK fresh \in SUBSET (commandCounter .. commandCounter' - 1) :
           /\ Filed(queued') = Filed(queued) \cup fresh
           /\ directories' = directories \cup fresh
  BY <1>9
<1>11. fresh \cap directories = {}
  BY <1>3, <1>10
<1>12. BatchTypeOK'
  <2>1. iter' \in 1 .. EndOf(queued') /\ numberReceived' \in 0 .. NumPackages
    BY <1>1, <1>2, <1>3, <1>9, LenProperties DEF EndOf
  <2>2. ASSUME NEW d \in directories' PROVE d \in 0 .. commandCounter' - 1
    <3> DEFINE after == commandCounter'
    <3>1. after \in Nat /\ after >= commandCounter /\ commandCounter \in Nat
      BY <1>3, <1>9
    <3>2. d \in directories \/ d \in fresh
      BY <1>10
    <3>3. d \in 0 .. commandCounter - 1 \/ d \in commandCounter .. after - 1
      BY <1>3, <1>10, <3>2
    <3> HIDE DEF after
    <3>4. d \in 0 .. after - 1
      BY <3>1, <3>3
    <3>5. QED
      BY <3>4 DEF after
  <2>3. completedDirectories' \in Seq(directories') /\ pbsOutput' \subseteq directories'
    <3>1. completedDirectories \in Seq(directories) /\ pbsOutput \subseteq directories
      BY <1>0, BatchTypes
    <3>2. Seq(directories) \subseteq Seq(directories')
      BY <1>10
    <3>3. QED
      BY <1>2, <1>10, <3>1, <3>2
  <2>4. QED
    BY <1>0, <1>2, <1>9, <2>1, <2>2, <2>3, BatchTypes, BatchTypesNext
<1>13. EachPackageOnce'
  <2>1. Range(packages) \cap (UnderWay \cup Range(results) \cup Range(returned)) = {}
    BY <1>3, <1>4, <1>6
  <2>2. 1 .. numberReceived' = (1 .. numberReceived) \cup Range(packages)
    BY <1>1, <1>3, <1>4
  <2>3. QED
    BY <1>0, <1>2, <1>9, <2>1, <2>2 DEF EachPackageOnce, UnderWay
<1>14. DirectoriesKept'
  BY <1>0, <1>2, <1>10, <1>11 DEF DirectoriesKept
<1>15. JobsWatched'
  <2>1. pbsOutput \subseteq directories
    BY <1>0, BatchTypes
  <2>2. QED
    BY <1>0, <1>2, <1>10, <1>11, <2>1 DEF JobsWatched
<1>16. AttemptsCounted'
  <2>1. \A p \in Range(packages) : evaluations[p] = 0
    BY <1>0, <1>3, <1>4 DEF AttemptsCounted, BatchPackages
  <2>2. UnderWay' = UnderWay \cup Range(packages)
    BY <1>2, <1>9 DEF UnderWay
  <2>3. \A p \in UnderWay' : evaluations'[p] <= Retries
    BY <1>0, <1>2, <2>1, <2>2, BatchAssumption DEF AttemptsCounted
  <2>4. \A p \in BatchPackages : p > numberReceived' => evaluations'[p] = 0
    BY <1>0, <1>1, <1>2, <1>3 DEF AttemptsCounted, BatchPackages
  <2>5. QED
    BY <2>3, <2>4 DEF AttemptsCounted
<1>17. Stages'
  BY <1>0, <1>2 DEF Stages
<1>18. QED
  BY <1>12, <1>13, <1>14, <1>15, <1>16, <1>17 DEF BatchInvariant

(* A command goes from the queue to the batch system.                      *)
LEMMA SubmitCommandStep == BatchInvariant /\ SubmitCommand => BatchInvariant'
<1> SUFFICES ASSUME BatchInvariant, SubmitCommand PROVE BatchInvariant'
  OBVIOUS
<1> DEFINE c == queued[iter]
<1>0. /\ BatchTypeOK /\ EachPackageOnce /\ DirectoriesKept /\ JobsWatched /\ AttemptsCounted
      /\ Stages
  BY DEF BatchInvariant
<1>1. /\ brokerAt = "submit" /\ iter # EndOf(queued)
      /\ running' = Append(running, c) /\ jobs' = jobs \cup {c}
      /\ queued' = RemoveAt(queued, iter)
      /\ iter' = IncrementedAt(iter, queued')
      /\ UNCHANGED <<brokerAt, submitter, numberReceived, commandCounter>>
      /\ UNCHANGED <<completed, evaluations, results, returned>>
      /\ UNCHANGED <<pbsOutput, directories, completedDirectories>>
  BY DEF SubmitCommand, At, outcomes, files
<1>2. /\ queued \in Seq(CommandType) /\ Distinct(queued) /\ Len(queued) \in Nat
      /\ running \in Seq(CommandType) /\ Distinct(running)
      /\ iter \in 1 .. Len(queued) /\ DOMAIN queued = 1 .. Len(queued)
      /\ c \in CommandType
  <2>1. /\ queued \in Seq(CommandType) /\ running \in Seq(CommandType)
        /\ iter \in 1 .. Len(queued) + 1
    BY <1>0, BatchTypes DEF EndOf
  <2>2. iter \in 1 .. Len(queued) /\ DOMAIN queued = 1 .. Len(queued) /\ Len(queued) \in Nat
    BY <1>1, <2>1 DEF EndOf
  <2>3. QED
    BY <1>0, <2>1, <2>2, ElementOfSeq DEF EachPackageOnce
<1>3. /\ queued' \in Seq(CommandType) /\ Distinct(queued') /\ Len(queued') = Len(queued) - 1
      /\ Holding(queued') = {queued[i].package : i \in DOMAIN queued \ {iter}}
      /\ Filed(queued') = {queued[i].directory : i \in DOMAIN queued \ {iter}}
  <2>1. Len(queued') = Len(queued) - 1 /\ Moved(queued', queued, DOMAIN queued \ {iter})
    BY <1>1, <1>2, OneTakenOut
  <2>2. DOMAIN queued \ {iter} \in SUBSET DOMAIN queued
    OBVIOUS
  <2>3. QED
    BY <1>2, <2>1, <2>2, CommandsMoved
<1>4. /\ Holding(queued) = Holding(queued') \cup {c.package} /\ c.package \notin Holding(queued')
      /\ Filed(queued) = Filed(queued') \cup {c.directory} /\ c.directory \notin Filed(queued')
  <2>1. iter \in DOMAIN queued
    BY <1>2
  <2>2. Holding(queued) = Holding(queued') \cup {c.package}
    BY <1>3, <2>1 DEF Holding
  <2>3. Filed(queued) = Filed(queued') \cup {c.directory}
    BY <1>3, <2>1 DEF Filed
  <2>4. c.package \notin Holding(queued') /\ c.directory \notin Filed(queued')
    BY <1>2, <1>3, <2>1 DEF Distinct
  <2>5. QED
    BY <2>2, <2>3, <2>4
<1> HIDE DEF c
<1>5. /\ <<c>> \in Seq(CommandType) /\ Distinct(<<c>>)
      /\ Range(<<c>>) = {c} /\ Holding(<<c>>) = {c.package} /\ Filed(<<c>>) = {c.directory}
  BY <1>2 DEF Distinct, Range, Holding, Filed
<1>6. running' = running \o <<c>>
  BY <1>1, <1>2
<1>7. /\ running' \in Seq(CommandType) /\ Distinct(running')
      /\ Range(running') = Range(running) \cup {c}
      /\ Holding(running') = Holding(running) \cup {c.package}
      /\ Filed(running') = Filed(running) \cup {c.directory}
  <2>1. Holding(running) \cap {c.package} = {} /\ Filed(running) \cap {c.directory} = {}
    BY <1>0, <1>4 DEF EachPackageOnce, DirectoriesKept
  <2>2. QED
    BY <1>2, <1>5, <1>6, <2>1, CommandsJoined
<1>8. BatchTypeOK'
  <2>1. iter' \in 1 .. EndOf(queued')
    BY <1>1, <1>2, <1>3 DEF EndOf, IncrementedAt
  <2>2. jobs' \subseteq CommandType
    BY <1>0, <1>1, <1>2, BatchTypes
  <2>3. QED
    BY <1>0, <1>1, <1>3, <1>7, <2>1, <2>2, BatchTypes, BatchTypesNext
<1>9. EachPackageOnce'
  BY <1>0, <1>1, <1>3, <1>4, <1>7 DEF EachPackageOnce, UnderWay
<1>10. DirectoriesKept'
  BY <1>0, <1>1, <1>3, <1>4, <1>7 DEF DirectoriesKept
<1>11. JobsWatched'
  <2>1. c.directory \notin pbsOutput
    BY <1>0, <1>4 DEF JobsWatched
  <2>2. jobs' = {d \in Range(running') : d.directory \notin pbsOutput'}
    BY <1>0, <1>1, <1>7, <2>1 DEF JobsWatched
  <2>3. Filed(queued') \cap pbsOutput' = {}
    BY <1>0, <1>1, <1>4 DEF JobsWatched
  <2>4. QED
    BY <2>2, <2>3 DEF JobsWatched
<1>12. AttemptsCounted'
  <2>1. UnderWay' = UnderWay
    BY <1>1, <1>4, <1>7 DEF UnderWay
  <2>2. QED
    BY <1>0, <1>1, <2>1 DEF AttemptsCounted
<1>13. Stages'
  BY <1>0, <1>1 DEF Stages
<1>14. QED
  BY <1>8, <1>9, <1>10, <1>11, <1>12, <1>13 DEF BatchInvariant

(* The commands that have completed leave the running queue, and no other. *)
LEMMA MonitorStep == BatchInvariant /\ Monitor => BatchInvariant'
<1> SUFFICES ASSUME BatchInvariant, Monitor PROVE BatchInvariant'
  OBVIOUS
<1> DEFINE done == CompletedPlaces
           rest == DOMAIN running \ CompletedPlaces
<1>0. /\ BatchTypeOK /\ EachPackageOnce /\ DirectoriesKept /\ JobsWatched /\ AttemptsCounted
      /\ Stages
  BY DEF BatchInvariant
<1>1. /\ brokerAt = "monitor"
      /\ completed' = Selected(running, done) /\ running' = Selected(running, rest)
      /\ IF completed' = <<>>
         THEN brokerAt' = "filter" /\ UNCHANGED <<submitter, iter>>
         ELSE brokerAt' = "submit" /\ submitter' = "completions" /\ iter' = 1
      /\ UNCHANGED <<numberReceived, commandCounter, queued, evaluations, results, returned>>
      /\ UNCHANGED <<jobs, pbsOutput, directories, completedDirectories>>
  BY DEF Monitor, At, batchSystem, files
<1>2. completed = <<>> /\ results = <<>>
  BY <1>0, <1>1 DEF Stages
<1>3. /\ running \in Seq(CommandType) /\ Distinct(running)
      /\ done \in SUBSET DOMAIN running /\ rest \in SUBSET DOMAIN running
      /\ done \cup rest = DOMAIN running /\ done \cap rest = {}
      /\ \A i \in DOMAIN running : i \in done <=> running[i].directory \in pbsOutput
  BY <1>0, BatchTypes DEF EachPackageOnce, CompletedPlaces
<1> HIDE DEF done, rest
<1>4. /\ completed' \in Seq(CommandType) /\ Distinct(completed')
      /\ Holding(completed') = {running[i].package : i \in done}
      /\ Filed(completed') = {running[i].directory : i \in done}
  <2>1. Moved(completed', running, done)
    BY <1>1, <1>3, SomeSelected
  <2>2. QED
    BY <1>3, <2>1, CommandsMoved
<1>5. /\ running' \in Seq(CommandType) /\ Distinct(running')
      /\ Range(running') = {running[i] : i \in rest}
      /\ Holding(running') = {running[i].package : i \in rest}
      /\ Filed(running') = {running[i].directory : i \in rest}
  <2>1. Moved(running', running, rest)
    BY <1>1, <1>3, SomeSelected
  <2>2. QED
    BY <1>3, <2>1, CommandsMoved
<1>6. /\ Holding(running) = Holding(running') \cup Holding(completed')
      /\ Holding(running') \cap Holding(completed') = {}
  <2>1. Holding(running) = Holding(running') \cup Holding(completed')
    BY <1>3, <1>4, <1>5 DEF Holding
  <2>2. Holding(running') \cap Holding(completed') = {}
    BY <1>3, <1>4, <1>5 DEF Distinct
  <2>3. QED
    BY <2>1, <2>2
<1>7. /\ Filed(running) = Filed(running') \cup Filed(completed')
      /\ Filed(running') \cap Filed(completed') = {}
  <2>1. Filed(running) = Filed(running') \cup Filed(completed')
    BY <1>3, <1>4, <1>5 DEF Filed
  <2>2. Filed(running') \cap Filed(completed') = {}
    BY <1>3, <1>4, <1>5 DEF Distinct
  <2>3. QED
    BY <2>1, <2>2
<1>8. Holding(completed) = {} /\ Filed(completed) = {}
  BY <1>2 DEF Holding, Filed
<1>9. BatchTypeOK'
  <2>1. iter' \in 1 .. EndOf(queued') /\ submitter' \in {"arrivals", "completions", "retries"}
        /\ brokerAt' \in {"filter", "submit"}
    <3>1. queued \in Seq(CommandType) /\ iter \in 1 .. EndOf(queued)
          /\ submitter \in {"arrivals", "completions", "retries"}
      BY <1>0, BatchTypes
    <3>2. 1 \in 1 .. EndOf(queued)
      BY <3>1 DEF EndOf
    <3>3. QED
      BY <1>1, <3>1, <3>2
  <2>2. QED
    BY <1>0, <1>1, <1>4, <1>5, <2>1, BatchTypes, BatchTypesNext
<1>10. EachPackageOnce'
  BY <1>0, <1>1, <1>4, <1>5, <1>6, <1>8 DEF EachPackageOnce, UnderWay
<1>11. DirectoriesKept'
  BY <1>0, <1>1, <1>4, <1>5, <1>7, <1>8 DEF DirectoriesKept
<1>12. JobsWatched'
  <2>1. ASSUME NEW c
        PROVE  c \in Range(running) /\ c.directory \notin pbsOutput
               <=> c \in Range(running') /\ c.directory \notin pbsOutput
    BY <1>3, <1>5 DEF Range
  <2>2. jobs' = {c \in Range(running') : c.directory \notin pbsOutput'}
    BY <1>0, <1>1, <2>1 DEF JobsWatched
  <2>3. QED
    BY <1>0, <1>1, <2>2 DEF JobsWatched
<1>13. AttemptsCounted'
  <2>1. UnderWay' = UnderWay
    BY <1>1, <1>6, <1>8 DEF UnderWay
  <2>2. QED
    BY <1>0, <1>1, <2>1 DEF AttemptsCounted
<1>14. Stages'
  BY <1>1, <1>2 DEF Stages
<1>15. QED
  BY <1>9, <1>10, <1>11, <1>12, <1>13, <1>14 DEF BatchInvariant

(* What has been evaluated is shipped.                                     *)
LEMMA ShipStep == BatchInvariant /\ Ship => BatchInvariant'
<1> SUFFICES ASSUME BatchInvariant, Ship PROVE BatchInvariant'
  OBVIOUS
<1>0. /\ BatchTypeOK /\ EachPackageOnce /\ DirectoriesKept /\ JobsWatched /\ AttemptsCounted
      /\ Stages
  BY DEF BatchInvariant
<1>1. /\ brokerAt = "ship" /\ brokerAt' = "receive"
      /\ returned' = returned \o results /\ results' = <<>>
      /\ UNCHANGED <<submitter, iter, numberReceived, commandCounter, queued, running>>
      /\ UNCHANGED <<completed, evaluations, jobs, pbsOutput, directories, completedDirectories>>
  BY DEF Ship, At, commands, batchSystem, files
<1>2. results \in Seq(BatchPackages) /\ returned \in Seq(BatchPackages)
  BY <1>0, BatchTypes
<1>3. /\ returned' \in Seq(BatchPackages) /\ IsInjective(returned')
      /\ Range(returned') = Range(returned) \cup Range(results)
  <2>1. IsInjective(returned) /\ IsInjective(results) /\ Range(returned) \cap Range(results) = {}
    BY <1>0 DEF EachPackageOnce
  <2>2. QED
    BY <1>1, <1>2, <2>1, ConcatFacts
<1>4. results' \in Seq(BatchPackages) /\ Range(results') = {} /\ IsInjective(results')
  BY <1>1, EmptySeq DEF Range, IsInjective
<1>5. completed = <<>>
  BY <1>0, <1>1 DEF Stages
<1>6. BatchTypeOK'
  BY <1>0, <1>1, <1>3, <1>4, BatchTypes, BatchTypesNext
<1>7. EachPackageOnce'
  BY <1>0, <1>1, <1>3, <1>4 DEF EachPackageOnce, UnderWay
<1>8. DirectoriesKept' /\ JobsWatched'
  BY <1>0, <1>1 DEF DirectoriesKept, JobsWatched
<1>9. AttemptsCounted'
  BY <1>0, <1>1 DEF AttemptsCounted, UnderWay
<1>10. Stages'
  BY <1>1, <1>5 DEF Stages
<1>11. QED
  BY <1>6, <1>7, <1>8, <1>9, <1>10 DEF BatchInvariant

(* The cleanup policy takes the directories of the commands that have       *)
(* completed, and lets go of those at the front of the list.               *)
LEMMA CleanupFacts ==
    ASSUME BatchInvariant
    PROVE  /\ Cleanup.kept \in Seq(directories) /\ IsInjective(Cleanup.kept)
           /\ Len(Cleanup.kept) <= NumberToKeep
           /\ Range(Cleanup.kept) \cap Cleanup.removed = {}
           /\ Range(Cleanup.kept) \cup Cleanup.removed
                  = Range(completedDirectories) \cup Filed(completed)
<1> DEFINE new == [i \in DOMAIN completed |-> completed[i].directory]
           all == completedDirectories \o new
           n == Len(all) - NumberToKeep
<1>1. /\ completed \in Seq(CommandType) /\ Distinct(completed)
      /\ completedDirectories \in Seq(directories) /\ IsInjective(completedDirectories)
      /\ Filed(completed) \subseteq directories
      /\ Filed(completed) \cap Range(completedDirectories) = {}
  BY BatchTypes DEF BatchInvariant, EachPackageOnce, DirectoriesKept
<1>2. /\ new \in Seq(Nat) /\ Range(new) = Filed(completed) /\ IsInjective(new)
  BY <1>1, CommandsHeld DEF DirectoriesOf
<1> HIDE DEF new
<1>3. new \in Seq(directories)
  <2>1. \A i \in DOMAIN new : new[i] \in directories
    BY <1>1, <1>2 DEF Range
  <2>2. new \in [1 .. Len(new) -> directories] /\ Len(new) \in Nat
    BY <1>2, <2>1
  <2>3. QED
    BY <2>2
<1>4. /\ all \in Seq(directories) /\ IsInjective(all)
      /\ Range(all) = Range(completedDirectories) \cup Filed(completed)
  BY <1>1, <1>2, <1>3, ConcatFacts
<1>5. Cleanup = IF n > 0
                THEN [kept |-> SubSeq(all, n + 1, Len(all)), removed |-> ToSet(SubSeq(all, 1, n))]
                ELSE [kept |-> all, removed |-> {}]
  BY DEF Cleanup, new
<1> HIDE DEF all
<1>6. Len(all) \in Nat /\ NumberToKeep \in Nat /\ DOMAIN all = 1 .. Len(all)
  BY <1>4, BatchAssumption
<1>7. CASE ~(n > 0)
  <2>1. Cleanup.kept = all /\ Cleanup.removed = {}
    BY <1>5, <1>7
  <2>2. Len(all) <= NumberToKeep
    BY <1>6, <1>7
  <2>3. QED
    BY <1>4, <2>1, <2>2
<1>8. CASE n > 0
  <2> DEFINE kept == SubSeq(all, n + 1, Len(all))
             gone == SubSeq(all, 1, n)
  <2>1. Cleanup.kept = kept /\ Cleanup.removed = ToSet(gone)
    BY <1>5, <1>8
  <2>2. n \in 1 .. Len(all)
    BY <1>6, <1>8
  <2>3. /\ kept \in Seq(directories) /\ Len(kept) = NumberToKeep
        /\ \A i \in 1 .. NumberToKeep : kept[i] = all[n + i]
    <3>1. /\ Len(all) - (n + 1) + 1 = NumberToKeep
          /\ \A i \in 1 .. NumberToKeep : (n + 1) + i - 1 = n + i /\ n + i \in 1 .. Len(all)
      BY <1>6, <2>2
    <3>2. kept = [i \in 1 .. NumberToKeep |-> all[n + i]]
      BY <1>4, <1>6, <2>2, <3>1
    <3>3. \A i \in 1 .. NumberToKeep : all[n + i] \in directories
      BY <1>4, <1>6, <3>1
    <3> HIDE DEF kept, n
    <3>4. kept \in [1 .. NumberToKeep -> directories]
      BY <3>2, <3>3
    <3>5. kept \in Seq(directories) /\ Len(kept) = NumberToKeep
      BY <1>6, <3>4
    <3>6. QED
      BY <3>2, <3>5
  <2>4. /\ Range(gone) = ToSet(gone)
        /\ \A i \in 1 .. n : gone[i] = all[i]
        /\ DOMAIN gone = 1 .. n
    BY <1>4, <1>6, <2>2 DEF Range, ToSet
  <2>5. DOMAIN kept = 1 .. NumberToKeep
    BY <1>6, <2>3
  <2> HIDE DEF kept, gone
  <2>6. ASSUME NEW i \in 1 .. NumberToKeep PROVE n + i \in DOMAIN all /\ ~(n + i <= n)
    BY <1>6, <2>2
  <2>7. ASSUME NEW j \in DOMAIN all, ~(j <= n)
        PROVE  j - n \in 1 .. NumberToKeep /\ n + (j - n) = j
    BY <1>6, <2>2, <2>7
  <2>8. IsInjective(kept)
    <3>1. SUFFICES ASSUME NEW i \in 1 .. NumberToKeep, NEW j \in 1 .. NumberToKeep,
                          kept[i] = kept[j]
                   PROVE  i = j
      BY <2>5 DEF IsInjective
    <3>2. n + i = n + j
      BY <1>4, <2>3, <2>6, <3>1 DEF IsInjective
    <3>3. QED
      BY <2>2, <3>2
  <2>9. Range(kept) \cap ToSet(gone) = {}
    <3>1. SUFFICES ASSUME NEW d \in Range(kept), d \in ToSet(gone) PROVE FALSE
      OBVIOUS
    <3>2. PICK i \in 1 .. NumberToKeep : d = all[n + i]
      BY <2>3, <2>5 DEF Range
    <3>3. PICK j \in 1 .. n : d = all[j]
      BY <2>4, <3>1 DEF Range
    <3>4. n + i \in DOMAIN all /\ j \in DOMAIN all /\ all[n + i] = all[j]
      BY <1>6, <2>2, <2>6, <3>2, <3>3
    <3> HIDE DEF n
    <3>5. n + i = j
      BY <1>4, <3>4 DEF IsInjective
    <3>6. QED
      BY <2>2, <2>6, <3>5
  <2>10. Range(kept) \cup ToSet(gone) = Range(all)
    <3>1. ASSUME NEW d \in Range(kept) PROVE d \in Range(all)
      BY <2>3, <2>5, <2>6 DEF Range
    <3>2. ASSUME NEW d \in ToSet(gone) PROVE d \in Range(all)
      BY <1>6, <2>2, <2>4 DEF Range
    <3>3. ASSUME NEW j \in DOMAIN all PROVE all[j] \in Range(kept) \cup ToSet(gone)
      <4>1. CASE j <= n
        BY <1>6, <2>2, <2>4, <4>1 DEF Range
      <4>2. CASE ~(j <= n)
        <5>1. kept[j - n] = all[j] /\ j - n \in DOMAIN kept
          BY <2>3, <2>5, <2>7, <4>2
        <5>2. QED
          BY <5>1 DEF Range
      <4>3. QED
        BY <4>1, <4>2
    <3>4. QED
      BY <3>1, <3>2, <3>3 DEF Range
  <2>11. QED
    BY <1>4, <1>6, <2>1, <2>3, <2>8, <2>9, <2>10
<1>9. QED
  BY <1>7, <1>8

(* The packages of commands that have failed go back into the queue, and    *)
(* the others on to be shipped.                                            *)
LEMMA FilterCompletedStep == BatchInvariant /\ FilterCompleted => BatchInvariant'
<1> SUFFICES ASSUME BatchInvariant, FilterCompleted PROVE BatchInvariant'
  OBVIOUS
<1>0. /\ BatchTypeOK /\ EachPackageOnce /\ DirectoriesKept /\ JobsWatched /\ AttemptsCounted
      /\ Stages
  BY DEF BatchInvariant
<1> DEFINE again(bad) == PackagesOf(Selected(completed, bad))
           kept == Cleanup.kept
           gone == Cleanup.removed
<1>1. PICK bad \in SUBSET DOMAIN completed :
          /\ \A i \in bad : evaluations[completed[i].package] + 1 <= Retries
          /\ results' = PackagesOf(Selected(completed, DOMAIN completed \ bad))
          /\ Schedule(again(bad), directories \ gone)
          /\ brokerAt' = IF again(bad) = <<>> THEN "ship" ELSE "submit"
  BY DEF FilterCompleted
<1>2. /\ brokerAt = "filter" /\ completed' = <<>> /\ submitter' = "retries" /\ iter' = 1
      /\ evaluations' = [p \in BatchPackages |->
             IF \E i \in DOMAIN completed : completed[i].package = p
             THEN evaluations[p] + 1 ELSE evaluations[p]]
      /\ completedDirectories' = kept /\ pbsOutput' = pbsOutput \ gone
      /\ UNCHANGED <<numberReceived, running, returned, jobs>>
  BY DEF FilterCompleted, At
<1>3. /\ kept \in Seq(directories) /\ IsInjective(kept) /\ Len(kept) <= NumberToKeep
      /\ Range(kept) \cap gone = {}
      /\ Range(kept) \cup gone = Range(completedDirectories) \cup Filed(completed)
  BY CleanupFacts
<1> HIDE DEF kept, gone
<1>4. results = <<>>
  BY <1>0, <1>2 DEF Stages
<1>5. /\ completed \in Seq(CommandType) /\ Distinct(completed)
      /\ queued \in Seq(CommandType) /\ Distinct(queued)
      /\ commandCounter \in Nat /\ directories \subseteq 0 .. commandCounter - 1
      /\ numberReceived \in 0 .. NumPackages
      /\ evaluations \in [BatchPackages -> 0 .. Retries + 1]
      /\ pbsOutput \subseteq directories
  BY <1>0, BatchTypes DEF EachPackageOnce
<1> DEFINE good == DOMAIN completed \ bad
           failed == again(bad)
           passed == PackagesOf(Selected(completed, good))
<1>6. /\ failed \in Seq(BatchPackages) /\ IsInjective(failed)
      /\ Range(failed) = {completed[i].package : i \in bad}
  <2>1. Moved(Selected(completed, bad), completed, bad)
    BY <1>5, SomeSelected
  <2>2. /\ Selected(completed, bad) \in Seq(CommandType) /\ Distinct(Selected(completed, bad))
        /\ Holding(Selected(completed, bad)) = {completed[i].package : i \in bad}
    BY <1>5, <2>1, CommandsMoved
  <2>3. QED
    BY <2>2, CommandsHeld
<1>7. /\ passed \in Seq(BatchPackages) /\ IsInjective(passed)
      /\ Range(passed) = {completed[i].package : i \in good}
  <2>1. good \in SUBSET DOMAIN completed
    OBVIOUS
  <2> HIDE DEF good
  <2>2. Moved(Selected(completed, good), completed, good)
    BY <1>5, <2>1, SomeSelected
  <2>3. /\ Selected(completed, good) \in Seq(CommandType) /\ Distinct(Selected(completed, good))
        /\ Holding(Selected(completed, good)) = {completed[i].package : i \in good}
    BY <1>5, <2>1, <2>2, CommandsMoved
  <2>4. QED
    BY <2>3, CommandsHeld
<1>8. /\ results' = passed /\ Schedule(failed, directories \ gone)
      /\ brokerAt' = IF failed = <<>> THEN "ship" ELSE "submit"
  BY <1>1
<1>9. /\ Holding(completed) = Range(failed) \cup Range(passed)
      /\ Range(failed) \cap Range(passed) = {}
  <2>1. Holding(completed) = Range(failed) \cup Range(passed)
    BY <1>6, <1>7 DEF Holding
  <2> HIDE DEF failed, passed
  <2>2. ASSUME NEW p \in Range(failed), p \in Range(passed) PROVE FALSE
    <3>1. PICK i \in bad : p = completed[i].package
      BY <1>6
    <3>2. PICK j \in good : p = completed[j].package
      BY <1>7, <2>2
    <3>3. i \in DOMAIN completed /\ j \in DOMAIN completed /\ i # j
      OBVIOUS
    <3>4. QED
      BY <1>5, <3>1, <3>2, <3>3 DEF Distinct
  <2>3. Range(failed) \cap Range(passed) = {}
    BY <2>2
  <2>4. QED
    BY <2>1, <2>3
<1> HIDE DEF passed, failed, good
<1>10. Holding(queued) \cap Range(failed) = {}
  BY <1>0, <1>9 DEF EachPackageOnce
<1>11. Filed(queued) \subseteq 0 .. commandCounter - 1
  BY <1>0, <1>5 DEF DirectoriesKept
<1>12. /\ queued' \in Seq(CommandType) /\ Distinct(queued')
       /\ Holding(queued') = Holding(queued) \cup Range(failed)
       /\ commandCounter' \in Nat /\ commandCounter' >= commandCounter
       /\ \E fresh \in SUBSET (commandCounter .. commandCounter' - 1) :
              /\ Filed(queued') = Filed(queued) \cup fresh
              /\ directories' = (directories \ gone) \cup fresh
  BY <1>5, <1>6, <1>8, <1>10, <1>11, ScheduleFacts
<1>13. PICK fresh \in SUBSET (commandCounter .. commandCounter' - 1) :
           /\ Filed(queued') = Filed(queued) \cup fresh
           /\ directories' = (directories \ gone) \cup fresh
  BY <1>12
<1>14. fresh \cap directories = {}
  BY <1>5, <1>13
<1>15. gone \subseteq directories /\ Range(kept) \subseteq directories
  BY <1>0, <1>3 DEF DirectoriesKept
<1>16. Holding(completed') = {} /\ Filed(completed') = {} /\ Distinct(completed')
  BY <1>2 DEF Holding, Filed, Distinct
<1>17. Range(results) = {} /\ completed' \in Seq(CommandType)
  BY <1>2, <1>4, EmptySeq DEF Range
<1>18. ASSUME NEW p \in Holding(completed)
       PROVE  /\ p \in BatchPackages /\ evaluations[p] <= Retries
              /\ evaluations'[p] = evaluations[p] + 1
              /\ p \in Range(failed) => evaluations'[p] <= Retries
  <2>1. PICK i \in DOMAIN completed : completed[i].package = p
    BY DEF Holding
  <2>2. p \in BatchPackages
    BY <1>5, <2>1, CommandsHeld
  <2>3. evaluations[p] <= Retries
    BY <1>0 DEF AttemptsCounted, UnderWay
  <2>4. evaluations'[p] = evaluations[p] + 1
    BY <1>2, <2>1, <2>2
  <2>5. ASSUME p \in Range(failed) PROVE evaluations'[p] <= Retries
    <3>1. PICK j \in bad : completed[j].package = p
      BY <1>6, <2>5
    <3>2. QED
      BY <1>1, <2>4, <3>1
  <2>6. QED
    BY <2>2, <2>3, <2>4, <2>5
<1>19. \A p \in BatchPackages : p \notin Holding(completed) => evaluations'[p] = evaluations[p]
  BY <1>2 DEF Holding
<1>20. BatchTypeOK'
  <2>1. ASSUME NEW d \in directories' PROVE d \in 0 .. commandCounter' - 1
    <3> DEFINE after == commandCounter'
    <3>1. after \in Nat /\ after >= commandCounter /\ commandCounter \in Nat
      BY <1>5, <1>12
    <3>2. d \in directories \/ d \in fresh
      BY <1>13
    <3>3. d \in 0 .. commandCounter - 1 \/ d \in commandCounter .. after - 1
      BY <1>5, <1>13, <3>2
    <3> HIDE DEF after
    <3>4. d \in 0 .. after - 1
      BY <3>1, <3>3
    <3>5. QED
      BY <3>4 DEF after
  <2>2. completedDirectories' \in Seq(directories')
    <3>1. Range(kept) \subseteq directories'
      BY <1>3, <1>13, <1>15
    <3>2. \A i \in 1 .. Len(kept) : kept[i] \in directories'
      BY <1>3, <3>1, LenProperties DEF Range
    <3>3. kept \in [1 .. Len(kept) -> directories'] /\ Len(kept) \in Nat
      BY <1>3, <3>2, LenProperties
    <3>4. QED
      BY <1>2, <3>3
  <2>3. pbsOutput' \subseteq directories'
    BY <1>2, <1>5, <1>13
  <2>4. evaluations' \in [BatchPackages -> 0 .. Retries + 1]
    <3>1. \A p \in BatchPackages : evaluations'[p] \in 0 .. Retries + 1
      BY <1>5, <1>18, <1>19, BatchAssumption
    <3>2. evaluations' = [p \in BatchPackages |-> evaluations'[p]]
      BY <1>2
    <3>3. QED
      BY <3>1, <3>2
  <2>5. iter' \in 1 .. EndOf(queued') /\ brokerAt' \in {"ship", "submit"}
    BY <1>2, <1>8, <1>12, LenProperties DEF EndOf
  <2>6. QED
    BY <1>0, <1>2, <1>7, <1>8, <1>12, <1>17, <2>1, <2>2, <2>3, <2>4, <2>5,
       BatchTypes, BatchTypesNext
<1>21. EachPackageOnce'
  BY <1>0, <1>2, <1>7, <1>8, <1>9, <1>10, <1>12, <1>16, <1>17 DEF EachPackageOnce, UnderWay
<1>22. DirectoriesKept'
  BY <1>0, <1>2, <1>3, <1>13, <1>14, <1>15, <1>16 DEF DirectoriesKept
<1>23. JobsWatched'
  <2>1. gone \cap Filed(running) = {} /\ gone \cap Filed(queued) = {}
    BY <1>0, <1>3 DEF DirectoriesKept
  <2>2. \A c \in Range(running) : c.directory \in pbsOutput' <=> c.directory \in pbsOutput
    <3>1. \A c \in Range(running) : c.directory \in Filed(running)
      BY DEF Range, Filed
    <3>2. QED
      BY <1>2, <2>1, <3>1
  <2>3. jobs' = {c \in Range(running') : c.directory \notin pbsOutput'}
    BY <1>0, <1>2, <2>2 DEF JobsWatched
  <2>4. Filed(queued') \cap pbsOutput' = {}
    BY <1>0, <1>2, <1>5, <1>13, <1>14 DEF JobsWatched
  <2>5. QED
    BY <2>3, <2>4 DEF JobsWatched
<1>24. AttemptsCounted'
  <2>1. ASSUME NEW p \in UnderWay' PROVE evaluations'[p] <= Retries
    <3>1. p \in Range(failed) \/ p \in Holding(queued) \/ p \in Holding(running)
      BY <1>2, <1>12, <1>16 DEF UnderWay
    <3>2. CASE p \in Range(failed)
      BY <1>9, <1>18, <3>2
    <3>3. CASE p \in Holding(queued) \/ p \in Holding(running)
      <4>1. p \notin Holding(completed) /\ p \in UnderWay
        BY <1>0, <3>3 DEF EachPackageOnce, UnderWay
      <4>2. p \in BatchPackages
        <5>1. p \in 1 .. numberReceived
          BY <1>0, <4>1 DEF EachPackageOnce
        <5>2. QED
          BY <1>5, <5>1, BatchAssumption DEF BatchPackages
      <4>3. QED
        BY <1>0, <1>19, <4>1, <4>2 DEF AttemptsCounted
    <3>4. QED
      BY <3>1, <3>2, <3>3
  <2>2. ASSUME NEW p \in BatchPackages, p > numberReceived' PROVE evaluations'[p] = 0
    <3>1. p \notin 1 .. numberReceived
      BY <1>2, <1>5, <2>2
    <3>2. p \notin Holding(completed)
      BY <1>0, <3>1 DEF EachPackageOnce, UnderWay
    <3>3. QED
      BY <1>0, <1>2, <1>19, <2>2, <3>2 DEF AttemptsCounted
  <2>3. QED
    BY <2>1, <2>2 DEF AttemptsCounted
<1>25. Stages'
  BY <1>2, <1>8 DEF Stages
<1>26. QED
  BY <1>20, <1>21, <1>22, <1>23, <1>24, <1>25 DEF BatchInvariant

LEMMA BatchInductive ==
    /\ Init => BatchInvariant
    /\ BatchInvariant /\ [Next]_vars => BatchInvariant'
<1>1. Init => BatchInvariant
  BY BatchInvariantInit DEF Init
<1>2. [Next]_vars => [BatchNext]_batchVars
  BY DEF Next, vars
<1>3. ASSUME BatchInvariant, UNCHANGED batchVars PROVE BatchInvariant'
  <2>1. /\ UNCHANGED <<commands, outcomes, batchSystem, files>>
        /\ UNCHANGED <<brokerAt, submitter, iter, completed, results>>
    BY <1>3 DEF batchVars, loop, outcomes
  <2>2. /\ brokerAt \in {"receive", "submit", "monitor", "filter", "ship", "failed"}
        /\ submitter \in {"arrivals", "completions", "retries"}
        /\ iter \in 1 .. EndOf(queued) /\ Stages
    BY <1>3, BatchTypes DEF BatchInvariant
  <2>3. Stages'
    BY <2>1, <2>2 DEF Stages
  <2>4. QED
    BY <1>3, <2>1, <2>2, <2>3, LoopStep
<1>4. ASSUME BatchInvariant, BatchNext PROVE BatchInvariant'
  BY <1>4, ReceivePackagesStep, EndingSteps, SubmitCommandStep, MonitorStep, FilterCompletedStep,
     ShipStep, EndJobStep DEF BatchNext, BatchStep
<1>5. QED
  BY <1>1, <1>2, <1>3, <1>4

(* Every package the broker over a batch system has received is in one      *)
(* place, and shipped at most once, however often it is evaluated and       *)
(* whatever fails; a command's directory exists until the command has       *)
(* completed, and its job is in the batch system or has left its output     *)
(* there, so that it will be seen to have completed.                        *)
THEOREM BatchLosesNothing == Spec => [](EachPackageOnce /\ DirectoriesKept /\ JobsWatched)
<1>1. BatchInvariant => EachPackageOnce /\ DirectoriesKept /\ JobsWatched
  BY DEF BatchInvariant
<1>2. QED
  BY <1>1, BatchInductive, PTL DEF Spec

-----------------------------------------------------------------------------
(* The numbers of connections *)

LEMMA Division ==
    ASSUME NEW a \in Nat, NEW b \in Nat \ {0}
    PROVE  /\ a \div b \in Nat /\ a % b \in 0 .. b - 1
           /\ a = b * (a \div b) + (a % b)
<1>1. a \div b \in Nat
  OBVIOUS
<1>2. a % b \in 0 .. b - 1
  OBVIOUS
<1>3. a = b * (a \div b) + (a % b)
  OBVIOUS
<1>4. QED
  BY <1>1, <1>2, <1>3

LEMMA DivisionByOne == \A a \in Nat : a \div 1 = a /\ a % 1 = 0
  OBVIOUS

(* An amount below a multiple has a quotient below the factor.             *)
LEMMA QuotientBelow ==
    ASSUME NEW a \in Nat, NEW b \in Nat \ {0}, NEW c \in Nat, a < b * c
    PROVE  a \div b \in 0 .. c - 1
<1>1. a \div b \in Nat /\ b * (a \div b) <= a
  BY Division
<1> DEFINE q == a \div b
<1> HIDE DEF q
<1>2. ASSUME q >= c PROVE FALSE
  <2>1. b * q >= b * c
    BY <1>1, <1>2 DEF q
  <2>2. QED
    BY <1>1, <2>1 DEF q
<1>3. QED
  BY <1>1, <1>2 DEF q

(* A remainder that is in range is the remainder.                          *)
LEMMA QuotientOf ==
    ASSUME NEW b \in Nat \ {0}, NEW q \in Nat, NEW i \in 0 .. b - 1
    PROVE  (b * q + i) \div b = q
  OBVIOUS

-----------------------------------------------------------------------------
(* The launch of modules *)

(* What is launched, and the connections its processes know of.            *)
LaunchGiven ==
    /\ size \in Nat \ {0} /\ modules \in Nat \ {0}
    /\ transport \in {"UnixSocket", "TCPIPSocket", "MPI"}
Addresses == {NoAddress} \cup (Modules \X Nat)
AddressTypeOK ==
    /\ address \in [Ranks -> Addresses] /\ mailbox \in [Ranks -> Seq(Addresses)]
    /\ backlog \in [Modules -> Seq(Seq(Ranks))]
    /\ boundFile \subseteq Modules \X Nat

(* An address that a rank has, gets or finds in the file system is that of  *)
(* a socket a module has bound.                                            *)
Exists(a) == a # NoAddress => a[2] \in DOMAIN backlog[a[1]]
AddressesExist ==
    /\ \A r \in Ranks : Exists(address[r])
    /\ \A r \in Ranks : \A i \in DOMAIN mailbox[r] : Exists(mailbox[r][i])
    /\ \A a \in boundFile : Exists(a)

(* How far the ranks and modules are.                                      *)
OverSockets(r) == rankAt[r] \in {"launch", "read", "connect", "unlink", "connected"}
LaunchStages ==
    /\ \A r \in Ranks : rankAt[r] = "start" => launched[r] = 0
    /\ \A r \in Ranks : rankAt[r] \notin {"start", "failed"} => Even
    /\ \A r \in Ranks : OverSockets(r) => transport # "MPI" /\ launched[r] <= NumberToLaunch(r)
    /\ \A r \in Ranks : rankAt[r] = "read" => launched[r] < NumberToLaunch(r)
    /\ \A r \in Ranks :
           rankAt[r] \in {"connect", "unlink", "connected"} /\ NumberToLaunch(r) # 0
               => launched[r] < NumberToLaunch(r)
    /\ \A r \in Ranks : rankAt[r] \in {"spawn", "create"} => transport = "MPI"
    /\ \A m \in Modules : moduleAt[m] \in {"bound", "listen"} => backlog[m] # <<>>

(* What MPI has spawned.                                                   *)
Spawned ==
    transport = "MPI" =>
        /\ \A m \in Modules : moduleAt[m] \in {"absent", "running"}
        /\ \A r \in Ranks : rankAt[r] \in {"create", "done"} =>
               \A m \in Modules :
                   moduleAt[m] = "running" /\ moduleRanks[m] = CommunicatorRanks(m)
        /\ \A r \in Ranks : rankAt[r] = "done" =>
               communicators[r] = [i \in 1 .. PerLauncher |-> IntercommunicatorRank(r, i - 1)]

LaunchInvariant ==
    /\ LaunchGiven /\ LaunchTypeOK /\ AddressTypeOK /\ AddressesExist /\ LaunchStages /\ Spawned

(* Both sides of the connections that MPI makes agree: a rank that has      *)
(* returned has as many communicators to a module as the module has for it. *)
SidesAgree ==
    transport = "MPI" =>
        \A r \in Ranks, m \in Modules : rankAt[r] = "done" =>
            /\ moduleAt[m] = "running" /\ communicators[r] # <<>>
            /\ Occurrences(m, communicators[r]) = Occurrences(r, moduleRanks[m])

-----------------------------------------------------------------------------
(* Who is connected to whom *)

LEMMA MaxOfTwo ==
    ASSUME NEW a \in Nat, NEW b \in Nat
    PROVE  Max({a, b}) = IF a >= b THEN a ELSE b
<1>1. \A x \in {a, b} : (\A y \in {a, b} : x >= y) <=> x = IF a >= b THEN a ELSE b
  OBVIOUS
<1>2. (IF a >= b THEN a ELSE b) \in {a, b}
  OBVIOUS
<1>3. QED
  BY <1>1, <1>2 DEF Max

(* A number that is divided without remainder is a multiple.               *)
LEMMA Multiple ==
    ASSUME NEW a \in Nat \ {0}, NEW b \in Nat \ {0}, a % b = 0
    PROVE  a \div b \in Nat \ {0} /\ a = b * (a \div b)
<1>1. a \div b \in Nat /\ a = b * (a \div b) + (a % b)
  BY Division
<1> DEFINE q == a \div b
<1> HIDE DEF q
<1>2. q \in Nat /\ a = b * q
  BY <1>1 DEF q
<1>3. q # 0
  BY <1>2
<1>4. QED
  BY <1>2, <1>3 DEF q

LEMMA ItselfDivided == \A a \in Nat \ {0} : a \div a = 1
  OBVIOUS

(* One side of each connection has one of them: there are q ranks to a      *)
(* module, or q modules to a rank.                                         *)
LEMMA ConnectionNumbers ==
    ASSUME LaunchGiven, Even
    PROVE  \E q \in Nat \ {0} :
               \/ /\ modules = size * q /\ PerModule = 1 /\ PerLauncher = q /\ Ratio = 1
                  /\ \A r \in Ranks : NumberToLaunch(r) = q
               \/ /\ size = modules * q /\ PerModule = q /\ PerLauncher = 1 /\ Ratio = q
                  /\ \A r \in Ranks : NumberToLaunch(r) = IF r % q = 0 THEN 1 ELSE 0
<1>1. size \in Nat \ {0} /\ modules \in Nat \ {0}
  BY DEF LaunchGiven
<1>2. TotalConnections = IF size >= modules THEN size ELSE modules
  BY <1>1, MaxOfTwo DEF TotalConnections
<1>3. CASE modules >= size
  <2>1. TotalConnections = modules
    BY <1>1, <1>2, <1>3
  <2>2. modules % size = 0
    BY <2>1 DEF Even
  <2>3. modules \div size \in Nat \ {0} /\ modules = size * (modules \div size)
    BY <1>1, <2>2, Multiple
  <2>4. PerModule = 1 /\ PerLauncher = modules \div size
    BY <1>1, <2>1, ItselfDivided DEF PerModule, PerLauncher
  <2>5. Ratio = 1 /\ \A r \in Ranks : NumberToLaunch(r) = modules \div size
    BY <1>3 DEF Ratio, NumberToLaunch
  <2>6. QED
    BY <2>3, <2>4, <2>5
<1>4. CASE ~(modules >= size)
  <2>1. TotalConnections = size
    BY <1>1, <1>2, <1>4
  <2>2. size % modules = 0
    BY <2>1 DEF Even
  <2>3. size \div modules \in Nat \ {0} /\ size = modules * (size \div modules)
    BY <1>1, <2>2, Multiple
  <2>4. PerLauncher = 1 /\ PerModule = size \div modules
    BY <1>1, <2>1, ItselfDivided DEF PerModule, PerLauncher
  <2>5. /\ Ratio = size \div modules
        /\ \A r \in Ranks : NumberToLaunch(r) = IF r % Ratio = 0 THEN 1 ELSE 0
    BY <1>4 DEF Ratio, NumberToLaunch
  <2>6. QED
    BY <2>3, <2>4, <2>5
<1>5. QED
  BY <1>3, <1>4

(* A place in the list of one rank or module is a number of the other.      *)
LEMMA PlaceBelow ==
    ASSUME NEW a \in Nat, NEW b \in Nat, NEW q \in Nat \ {0}, a < b, NEW i \in 0 .. q - 1
    PROVE  q * a + i \in 0 .. b * q - 1
<1>1. q * a + q <= b * q
  <2>1. a + 1 <= b
    OBVIOUS
  <2>2. q * (a + 1) <= q * b
    BY <2>1
  <2>3. QED
    BY <2>2
<1>2. q * a \in Nat /\ b * q \in Nat
  OBVIOUS
<1> DEFINE x == q * a
           y == b * q
<1> HIDE DEF x, y
<1>3. x + i \in 0 .. y - 1
  BY <1>1, <1>2 DEF x, y
<1>4. QED
  BY <1>3 DEF x, y

(* Each side's lists name the other side.                                  *)
LEMMA ConnectionsNamed ==
    ASSUME LaunchGiven, Even
    PROVE  /\ PerModule \in Nat \ {0} /\ PerLauncher \in Nat \ {0}
           /\ \A m \in Modules :
                  CommunicatorRanks(m) \in Seq(Ranks) /\ CommunicatorRanks(m) # <<>>
           /\ \A r \in Ranks : NumberToLaunch(r) \in 0 .. modules
           /\ \A r \in Ranks : \A i \in 0 .. NumberToLaunch(r) - 1 : ModuleId(r, i) \in Modules
           /\ \A r \in Ranks : \A i \in 0 .. PerLauncher - 1 :
                  IntercommunicatorRank(r, i) \in Modules
<1>0. /\ size \in Nat \ {0} /\ modules \in Nat \ {0}
      /\ Ranks = 0 .. size - 1 /\ Modules = 0 .. modules - 1
  BY DEF LaunchGiven, Ranks, Modules
<1>1. PICK q \in Nat \ {0} :
          \/ /\ modules = size * q /\ PerModule = 1 /\ PerLauncher = q /\ Ratio = 1
             /\ \A r \in Ranks : NumberToLaunch(r) = q
          \/ /\ size = modules * q /\ PerModule = q /\ PerLauncher = 1 /\ Ratio = q
             /\ \A r \in Ranks : NumberToLaunch(r) = IF r % q = 0 THEN 1 ELSE 0
  BY ConnectionNumbers
<1>2. PerModule \in Nat \ {0} /\ PerLauncher \in Nat \ {0}
  BY <1>1
<1>3. ASSUME NEW m \in Modules,
             \A j \in 0 .. PerModule - 1 : GenerateRank(m, j) \in Ranks
      PROVE  CommunicatorRanks(m) \in Seq(Ranks) /\ CommunicatorRanks(m) # <<>>
  <2>1. \A j \in 1 .. PerModule : GenerateRank(m, j - 1) \in Ranks
    BY <1>2, <1>3
  <2>2. CommunicatorRanks(m) \in [1 .. PerModule -> Ranks]
    BY <2>1 DEF CommunicatorRanks
  <2>3. CommunicatorRanks(m) \in Seq(Ranks) /\ Len(CommunicatorRanks(m)) = PerModule
    BY <1>2, <2>2
  <2>4. QED
    BY <1>2, <2>3
<1>4. CASE /\ modules = size * q /\ PerModule = 1 /\ PerLauncher = q /\ Ratio = 1
           /\ \A r \in Ranks : NumberToLaunch(r) = q
  <2>1. ASSUME NEW m \in Modules, NEW j \in 0 .. PerModule - 1 PROVE GenerateRank(m, j) \in Ranks
    <3>1. m \in Nat /\ m < q * size /\ j = 0
      BY <1>0, <1>4
    <3>2. m \div q \in 0 .. size - 1
      BY <1>0, <3>1, QuotientBelow
    <3>3. GenerateRank(m, j) = (m \div q) + 0
      BY <1>4, <3>1 DEF GenerateRank
    <3>4. QED
      BY <1>0, <3>2, <3>3
  <2>2. ASSUME NEW r \in Ranks, NEW i \in 0 .. q - 1
        PROVE  q * r + i \in Modules
    <3>1. r \in Nat /\ r < size /\ size \in Nat
      BY <1>0
    <3>2. QED
      BY <1>0, <1>4, <3>1, PlaceBelow
  <2>3. ASSUME NEW r \in Ranks, NEW i \in 0 .. NumberToLaunch(r) - 1
        PROVE  ModuleId(r, i) \in Modules
    <3>1. r \in Nat /\ r \div 1 = r /\ i \in 0 .. q - 1
      BY <1>0, <1>4, DivisionByOne
    <3>2. ModuleId(r, i) = r * q + i
      BY <1>4, <3>1 DEF ModuleId
    <3>3. r * q = q * r
      BY <3>1
    <3>4. q * r + i \in Modules
      BY <2>2, <3>1
    <3>5. QED
      BY <3>2, <3>3, <3>4
  <2>4. ASSUME NEW r \in Ranks, NEW i \in 0 .. PerLauncher - 1
        PROVE  IntercommunicatorRank(r, i) \in Modules
    <3>1. r \in Nat /\ i \in 0 .. q - 1 /\ r * q + i \in Nat
      BY <1>0, <1>4
    <3>2. IntercommunicatorRank(r, i) = r * q + i
      BY <1>4, <3>1, DivisionByOne DEF IntercommunicatorRank
    <3>3. QED
      BY <2>2, <3>1, <3>2
  <2>5. \A r \in Ranks : NumberToLaunch(r) \in 0 .. modules
    <3>1. q <= size * q
      BY <1>0
    <3>2. QED
      BY <1>4, <3>1
  <2>6. QED
    BY <1>2, <1>3, <2>1, <2>3, <2>4, <2>5
<1>5. CASE /\ size = modules * q /\ PerModule = q /\ PerLauncher = 1 /\ Ratio = q
           /\ \A r \in Ranks : NumberToLaunch(r) = IF r % q = 0 THEN 1 ELSE 0
  <2>1. ASSUME NEW m \in Modules, NEW j \in 0 .. PerModule - 1 PROVE GenerateRank(m, j) \in Ranks
    <3>1. m \in Nat /\ m < modules /\ j \in 0 .. q - 1 /\ q * m \in Nat
      BY <1>0, <1>5
    <3>2. GenerateRank(m, j) = q * m + j
      BY <1>5, <3>1, DivisionByOne DEF GenerateRank
    <3>3. QED
      BY <1>0, <1>5, <3>1, <3>2, PlaceBelow
  <2>2. ASSUME NEW r \in Ranks PROVE r \div q \in Modules
    <3>1. r \in Nat /\ r < q * modules
      BY <1>0, <1>5
    <3>2. QED
      BY <1>0, <3>1, QuotientBelow
  <2>3. ASSUME NEW r \in Ranks, NEW i \in 0 .. NumberToLaunch(r) - 1
        PROVE  ModuleId(r, i) \in Modules
    <3>1. NumberToLaunch(r) = 1 /\ i = 0
      BY <1>5
    <3>a. r \in Nat
      BY <1>0
    <3>2. r \in Nat /\ r \div q \in Nat
      BY <3>a, Division
    <3>3. ModuleId(r, i) = r \div q
      BY <1>5, <3>1, <3>2 DEF ModuleId
    <3>4. QED
      BY <2>2, <3>3
  <2>4. ASSUME NEW r \in Ranks, NEW i \in 0 .. PerLauncher - 1
        PROVE  IntercommunicatorRank(r, i) \in Modules
    <3>1. r \in Nat /\ i = 0
      BY <1>0, <1>5
    <3>2. IntercommunicatorRank(r, i) = r \div q
      BY <1>5, <3>1 DEF IntercommunicatorRank
    <3>3. QED
      BY <2>2, <3>2
  <2>5. \A r \in Ranks : NumberToLaunch(r) \in 0 .. modules
    BY <1>0, <1>5
  <2>6. QED
    BY <1>2, <1>3, <2>1, <2>3, <2>4, <2>5
<1>6. QED
  BY <1>1, <1>4, <1>5

(* One of q places in a row of numbers has the number x, if x is in the row. *)
LEMMA PlaceOf ==
    ASSUME NEW q \in Nat \ {0}, NEW x \in Nat, NEW y \in Nat
    PROVE  Cardinality({i \in 1 .. q : y * q + (i - 1) = x})
           = Cardinality({j \in 1 .. 1 : x \div q = y})
<1> DEFINE A == {i \in 1 .. q : y * q + (i - 1) = x}
           B == {j \in 1 .. 1 : x \div q = y}
<1>0. Cardinality({}) = 0 /\ \A z : Cardinality({z}) = 1
  BY FS_EmptySet, FS_Singleton
<1>1. /\ x \div q \in Nat /\ x % q \in 0 .. q - 1
      /\ x = q * (x \div q) + (x % q) /\ y * q \in Nat /\ y * q = q * y
  <2>1. x \div q \in Nat /\ x % q \in 0 .. q - 1 /\ x = q * (x \div q) + (x % q)
    BY Division
  <2>2. y * q \in Nat /\ y * q = q * y
    OBVIOUS
  <2>3. QED
    BY <2>1, <2>2
<1>2. CASE x \div q = y
  <2>1. y * q + (x % q) = x
    BY <1>1, <1>2
  <2>2. A = {(x % q) + 1}
    <3>1. ASSUME NEW i \in 1 .. q PROVE y * q + (i - 1) = x <=> i = (x % q) + 1
      BY <1>1, <2>1
    <3>2. (x % q) + 1 \in 1 .. q
      BY <1>1
    <3>3. QED
      BY <3>1, <3>2
  <2>3. B = {1}
    BY <1>2
  <2>4. QED
    BY <1>0, <2>2, <2>3
<1>3. CASE x \div q # y
  <2>1. B = {}
    BY <1>3
  <2>2. ASSUME NEW i \in A PROVE FALSE
    <3>1. i - 1 \in 0 .. q - 1 /\ q * y + (i - 1) = x
      BY <1>1
    <3>2. (q * y + (i - 1)) \div q = y
      BY <3>1, QuotientOf
    <3>3. QED
      BY <1>3, <3>1, <3>2
  <2>3. A = {}
    BY <2>2
  <2>4. QED
    BY <2>1, <2>3
<1>4. QED
  BY <1>2, <1>3

(* The two formulas for the ranks of connections are those of one relation. *)
LEMMA FormulasAgree ==
    ASSUME LaunchGiven, Even, NEW r \in Ranks, NEW m \in Modules
    PROVE  Occurrences(m, [i \in 1 .. PerLauncher |-> IntercommunicatorRank(r, i - 1)])
           = Occurrences(r, CommunicatorRanks(m))
<1> DEFINE A == {i \in 1 .. PerLauncher : IntercommunicatorRank(r, i - 1) = m}
           B == {j \in 1 .. PerModule : GenerateRank(m, j - 1) = r}
<1>1. r \in Nat /\ m \in Nat
  BY DEF LaunchGiven, Ranks, Modules
<1>2. /\ Occurrences(m, [i \in 1 .. PerLauncher |-> IntercommunicatorRank(r, i - 1)])
         = Cardinality(A)
      /\ Occurrences(r, CommunicatorRanks(m)) = Cardinality(B)
  <2>1. {k \in DOMAIN [i \in 1 .. PerLauncher |-> IntercommunicatorRank(r, i - 1)] :
             [i \in 1 .. PerLauncher |-> IntercommunicatorRank(r, i - 1)][k] = m} = A
    OBVIOUS
  <2>2. {j \in DOMAIN CommunicatorRanks(m) : CommunicatorRanks(m)[j] = r} = B
    BY DEF CommunicatorRanks
  <2>3. QED
    BY <2>1, <2>2 DEF Occurrences
<1>3. PICK q \in Nat \ {0} :
          \/ PerModule = 1 /\ PerLauncher = q
          \/ PerModule = q /\ PerLauncher = 1
  BY ConnectionNumbers
<1>4. CASE PerModule = 1 /\ PerLauncher = q
  <2>1. A = {i \in 1 .. q : r * q + (i - 1) = m}
    <3>1. ASSUME NEW i \in 1 .. q
          PROVE  IntercommunicatorRank(r, i - 1) = r * q + (i - 1)
      <4>1. r * q + (i - 1) \in Nat
        <5>1. r * q \in Nat /\ i - 1 \in Nat
          BY <1>1
        <5>2. QED
          BY <5>1
      <4>2. QED
        BY <1>4, <4>1, DivisionByOne DEF IntercommunicatorRank
    <3>2. QED
      BY <1>4, <3>1
  <2>2. B = {j \in 1 .. 1 : m \div q = r}
    <3>1. m \div q \in Nat
      BY <1>1, Division
    <3>2. ASSUME NEW j \in 1 .. 1 PROVE GenerateRank(m, j - 1) = m \div q
      <4>1. j - 1 = 0 /\ 1 * m = m
        BY <1>1
      <4>2. GenerateRank(m, j - 1) = (m \div q) + 0
        BY <1>4, <4>1 DEF GenerateRank
      <4>3. QED
        BY <3>1, <4>2
    <3>3. QED
      BY <1>4, <3>2
  <2>3. Cardinality({i \in 1 .. q : r * q + (i - 1) = m})
        = Cardinality({j \in 1 .. 1 : m \div q = r})
    BY <1>1, PlaceOf
  <2> HIDE DEF A, B
  <2>4. QED
    BY <1>2, <2>1, <2>2, <2>3
<1>5. CASE PerModule = q /\ PerLauncher = 1
  <2>1. A = {i \in 1 .. 1 : r \div q = m}
    <3>1. ASSUME NEW i \in 1 .. 1 PROVE IntercommunicatorRank(r, i - 1) = r \div q
      <4>1. r * 1 + (i - 1) = r
        BY <1>1
      <4>2. QED
        BY <1>5, <4>1 DEF IntercommunicatorRank
    <3>2. QED
      BY <1>5, <3>1
  <2>2. B = {j \in 1 .. q : m * q + (j - 1) = r}
    <3>1. ASSUME NEW j \in 1 .. q PROVE GenerateRank(m, j - 1) = m * q + (j - 1)
      <4>1. q * m = m * q /\ q * m \in Nat
        BY <1>1
      <4>2. (q * m) \div 1 = q * m
        BY <4>1, DivisionByOne
      <4>3. QED
        BY <1>5, <4>1, <4>2 DEF GenerateRank
    <3>2. QED
      BY <1>5, <3>1
  <2>3. Cardinality({i \in 1 .. q : m * q + (i - 1) = r})
        = Cardinality({j \in 1 .. 1 : r \div q = m})
    BY <1>1, PlaceOf
  <2> HIDE DEF A, B
  <2>4. QED
    BY <1>2, <2>1, <2>2, <2>3
<1>6. QED
  BY <1>3, <1>4, <1>5

-----------------------------------------------------------------------------
(* The steps of launching *)

(* What is launched stays the same.                                        *)
LEMMA GivenKept ==
    ASSUME LaunchGiven, UNCHANGED given
    PROVE  /\ LaunchGiven' /\ transport' = transport
           /\ Ranks' = Ranks /\ Modules' = Modules /\ Addresses' = Addresses
           /\ Even' <=> Even
           /\ PerLauncher' = PerLauncher
           /\ \A r : NumberToLaunch(r)' = NumberToLaunch(r)
           /\ \A m : CommunicatorRanks(m)' = CommunicatorRanks(m)
           /\ \A r, i : IntercommunicatorRank(r, i)' = IntercommunicatorRank(r, i)
<1>1. size' = size /\ modules' = modules /\ transport' = transport /\ sharedWorld' = sharedWorld
  BY DEF given
<1>2. LaunchGiven' /\ Ranks' = Ranks /\ Modules' = Modules /\ Addresses' = Addresses
  BY <1>1 DEF LaunchGiven, Ranks, Modules, Addresses, NoAddress
<1>3. TotalConnections' = TotalConnections
  BY <1>1 DEF TotalConnections
<1>4. (Even' <=> Even) /\ PerLauncher' = PerLauncher /\ PerModule' = PerModule
  BY <1>1, <1>3 DEF Even, PerLauncher, PerModule
<1>5. \A r : NumberToLaunch(r)' = NumberToLaunch(r)
  BY <1>1 DEF NumberToLaunch, Ratio
<1>6. \A m : CommunicatorRanks(m)' = CommunicatorRanks(m)
  BY <1>4 DEF CommunicatorRanks, GenerateRank
<1>7. \A r, i : IntercommunicatorRank(r, i)' = IntercommunicatorRank(r, i)
  BY <1>4 DEF IntercommunicatorRank
<1>8. QED
  BY <1>1, <1>2, <1>4, <1>5, <1>6, <1>7

RankPlaces == {"start", "launch", "read", "connect", "unlink",
               "connected", "spawn", "create", "done", "failed"}
ModulePlaces == {"absent", "bind", "bound", "listen", "running", "failed"}

LEMMA LaunchTypes ==
    LaunchTypeOK /\ AddressTypeOK <=>
    /\ rankAt \in [Ranks -> RankPlaces] /\ launched \in [Ranks -> 0 .. modules]
    /\ communicators \in [Ranks -> Seq(Modules)]
    /\ moduleAt \in [Modules -> ModulePlaces]
    /\ moduleRanks \in [Modules -> Seq(Ranks)] /\ accepted \in [Modules -> Seq(Ranks)]
    /\ Cardinality(boundFile) <= 1
    /\ address \in [Ranks -> Addresses] /\ mailbox \in [Ranks -> Seq(Addresses)]
    /\ backlog \in [Modules -> Seq(Seq(Ranks))] /\ boundFile \subseteq Modules \X Nat
  BY DEF LaunchTypeOK, AddressTypeOK, RankPlaces, ModulePlaces

LEMMA LaunchTypesNext ==
    ASSUME LaunchGiven, UNCHANGED given
    PROVE  LaunchTypeOK' /\ AddressTypeOK' <=>
           /\ rankAt' \in [Ranks -> RankPlaces] /\ launched' \in [Ranks -> 0 .. modules]
           /\ communicators' \in [Ranks -> Seq(Modules)]
           /\ moduleAt' \in [Modules -> ModulePlaces]
           /\ moduleRanks' \in [Modules -> Seq(Ranks)] /\ accepted' \in [Modules -> Seq(Ranks)]
           /\ Cardinality(boundFile') <= 1
           /\ address' \in [Ranks -> Addresses] /\ mailbox' \in [Ranks -> Seq(Addresses)]
           /\ backlog' \in [Modules -> Seq(Seq(Ranks))] /\ boundFile' \subseteq Modules \X Nat
<1>1. Ranks' = Ranks /\ Modules' = Modules /\ Addresses' = Addresses /\ modules' = modules
  BY GivenKept DEF given
<1>2. QED
  BY <1>1 DEF LaunchTypeOK, AddressTypeOK, RankPlaces, ModulePlaces

(* Sockets stay bound.                                                     *)
LEMMA AddressesKept ==
    ASSUME LaunchInvariant, NEW a \in Addresses, Exists(a), UNCHANGED given,
           \A m \in Modules : DOMAIN backlog[m] \subseteq DOMAIN backlog'[m]
    PROVE  Exists(a)'
<1>1. a = NoAddress \/ a[1] \in Modules
  BY DEF Addresses
<1>2. QED
  BY <1>1 DEF Exists, NoAddress

(* A step that binds no socket and passes on no address.                   *)
LEMMA SameAddresses ==
    ASSUME LaunchInvariant, UNCHANGED <<given, address, mailbox, backlog, boundFile>>
    PROVE  AddressesExist'
<1>1. LaunchGiven /\ AddressesExist
  BY DEF LaunchInvariant
<1>2. Ranks' = Ranks
  BY <1>1, GivenKept
<1>3. \A a : Exists(a)' <=> Exists(a)
  BY DEF Exists, NoAddress
<1>4. QED
  BY <1>1, <1>2, <1>3 DEF AddressesExist

(* How a step of a rank, or of a module, keeps to the stages.              *)
LEMMA StagesNext ==
    ASSUME LaunchInvariant, UNCHANGED given
    PROVE  LaunchStages' <=>
           /\ \A r \in Ranks : rankAt'[r] = "start" => launched'[r] = 0
           /\ \A r \in Ranks : rankAt'[r] \notin {"start", "failed"} => Even
           /\ \A r \in Ranks :
                  rankAt'[r] \in {"launch", "read", "connect", "unlink", "connected"}
                      => transport # "MPI" /\ launched'[r] <= NumberToLaunch(r)
           /\ \A r \in Ranks : rankAt'[r] = "read" => launched'[r] < NumberToLaunch(r)
           /\ \A r \in Ranks :
                  rankAt'[r] \in {"connect", "unlink", "connected"} /\ NumberToLaunch(r) # 0
                      => launched'[r] < NumberToLaunch(r)
           /\ \A r \in Ranks : rankAt'[r] \in {"spawn", "create"} => transport = "MPI"
           /\ \A m \in Modules : moduleAt'[m] \in {"bound", "listen"} => backlog'[m] # <<>>
<1>1. LaunchGiven
  BY DEF LaunchInvariant
<1>2. /\ Ranks' = Ranks /\ Modules' = Modules /\ transport' = transport
      /\ Even' <=> Even
      /\ \A r : NumberToLaunch(r)' = NumberToLaunch(r)
  BY <1>1, GivenKept
<1>3. QED
  BY <1>2 DEF LaunchStages, OverSockets

LEMMA NothingSpawned ==
    ASSUME LaunchInvariant, UNCHANGED given, transport # "MPI"
    PROVE  Spawned'
  BY DEF Spawned, given

(* A rank looks at what it is to launch.                                   *)
LEMMA StartLaunchStep ==
    ASSUME LaunchInvariant, NEW r \in Ranks, StartLaunch(r) PROVE LaunchInvariant'
<1>0. /\ LaunchGiven /\ LaunchTypeOK /\ AddressTypeOK /\ LaunchStages /\ Spawned
  BY DEF LaunchInvariant
<1>1. /\ rankAt[r] = "start"
      /\ rankAt' = [rankAt EXCEPT ![r] = IF ~Even THEN "failed"
                                         ELSE IF transport = "MPI" THEN "spawn" ELSE "launch"]
      /\ UNCHANGED <<launched, address, communicators, mailbox>>
      /\ UNCHANGED <<moduleAt, moduleRanks, backlog, accepted, boundFile>> /\ UNCHANGED given
  BY DEF StartLaunch, RankIs, RankGoto, sides
<1>2. rankAt \in [Ranks -> RankPlaces] /\ launched \in [Ranks -> 0 .. modules]
  BY <1>0, LaunchTypes
<1>3. LaunchTypeOK' /\ AddressTypeOK' /\ LaunchGiven'
  <2>1. rankAt' \in [Ranks -> RankPlaces]
    BY <1>1, <1>2 DEF RankPlaces
  <2>2. QED
    BY <1>0, <1>1, <2>1, LaunchTypes, LaunchTypesNext, GivenKept
<1>4. AddressesExist'
  BY <1>1, SameAddresses
<1>5. LaunchStages'
  <2>1. launched[r] = 0
    BY <1>0, <1>1 DEF LaunchStages
  <2>2. Even => NumberToLaunch(r) \in Nat
    BY <1>0, ConnectionsNamed
  <2>3. QED
    BY <1>0, <1>1, <1>2, <2>1, <2>2, StagesNext DEF LaunchStages, OverSockets
<1>6. Spawned'
  <2>1. rankAt'[r] \notin {"create", "done"}
    BY <1>1, <1>2
  <2>2. QED
    BY <1>0, <1>1, <1>2, <2>1, GivenKept DEF Spawned
<1>7. QED
  BY <1>3, <1>4, <1>5, <1>6 DEF LaunchInvariant

(* What the steps of a rank over sockets have in common that concern no     *)
(* module.                                                                 *)
LEMMA SocketRankMoves ==
    ASSUME LaunchInvariant, NEW r \in Ranks, OverSockets(r),
           NEW place \in {"launch", "read", "connect", "unlink", "connected", "done", "failed"},
           NEW count \in 0 .. modules,
           rankAt' = [rankAt EXCEPT ![r] = place],
           launched' = [launched EXCEPT ![r] = count],
           UNCHANGED given,
           place \notin {"done", "failed"} => count <= NumberToLaunch(r),
           place = "read" => count < NumberToLaunch(r),
           place \in {"connect", "unlink", "connected"} /\ NumberToLaunch(r) # 0
               => count < NumberToLaunch(r),
           \A m \in Modules : moduleAt'[m] \in {"bound", "listen"} => backlog'[m] # <<>>
    PROVE  /\ rankAt' \in [Ranks -> RankPlaces] /\ launched' \in [Ranks -> 0 .. modules]
           /\ LaunchStages' /\ Spawned'
<1>1. /\ LaunchGiven /\ LaunchStages /\ transport # "MPI" /\ Even
      /\ rankAt \in [Ranks -> RankPlaces] /\ launched \in [Ranks -> 0 .. modules]
  BY LaunchTypes DEF LaunchInvariant, LaunchStages, OverSockets
<1>2. rankAt' \in [Ranks -> RankPlaces]
  BY <1>1 DEF RankPlaces
<1>3. launched' \in [Ranks -> 0 .. modules]
  BY <1>1
<1>4. rankAt'[r] = place /\ launched'[r] = count
  BY <1>1
<1>5. \A q \in Ranks : q # r => rankAt'[q] = rankAt[q] /\ launched'[q] = launched[q]
  BY <1>1
<1>6. LaunchStages'
  BY <1>1, <1>4, <1>5, StagesNext DEF LaunchStages, OverSockets
<1>7. QED
  BY <1>1, <1>2, <1>3, <1>6, NothingSpawned

(* A rank starts its next module.                                          *)
LEMMA LaunchNextModuleStep ==
    ASSUME LaunchInvariant, NEW r \in Ranks, LaunchNextModule(r) PROVE LaunchInvariant'
<1> DEFINE m == ModuleId(r, launched[r])
<1>0. /\ LaunchGiven /\ LaunchTypeOK /\ AddressTypeOK /\ LaunchStages /\ Spawned
  BY DEF LaunchInvariant
<1>1. /\ rankAt[r] = "launch" /\ launched[r] < NumberToLaunch(r)
      /\ moduleAt' = [moduleAt EXCEPT ![m] = "bind"]
      /\ moduleRanks' = [moduleRanks EXCEPT ![m] = CommunicatorRanks(launched[r])]
      /\ rankAt' = [rankAt EXCEPT ![r] = "read"]
      /\ UNCHANGED <<launched, address, communicators, mailbox>>
      /\ UNCHANGED <<backlog, accepted, boundFile>> /\ UNCHANGED given
  BY DEF LaunchNextModule, RankIs, RankGoto
<1>2. /\ launched \in [Ranks -> 0 .. modules] /\ launched[r] \in Nat
      /\ moduleAt \in [Modules -> ModulePlaces] /\ moduleRanks \in [Modules -> Seq(Ranks)]
      /\ modules \in Nat
  BY <1>0, LaunchTypes DEF LaunchGiven
<1>3. Even /\ OverSockets(r)
  BY <1>0, <1>1 DEF LaunchStages, OverSockets
<1>4. /\ NumberToLaunch(r) \in 0 .. modules
      /\ \A i \in 0 .. NumberToLaunch(r) - 1 : ModuleId(r, i) \in Modules
      /\ \A k \in Modules : CommunicatorRanks(k) \in Seq(Ranks)
  BY <1>0, <1>3, ConnectionsNamed
<1>5. m \in Modules /\ CommunicatorRanks(launched[r]) \in Seq(Ranks)
  <2>1. launched[r] \in 0 .. NumberToLaunch(r) - 1
    BY <1>1, <1>2, <1>4
  <2>2. launched[r] \in Modules
    BY <1>2, <1>4, <2>1 DEF Modules
  <2>3. QED
    BY <1>4, <2>1, <2>2
<1> HIDE DEF m
<1>6. moduleAt' \in [Modules -> ModulePlaces] /\ moduleRanks' \in [Modules -> Seq(Ranks)]
  BY <1>1, <1>2, <1>5 DEF ModulePlaces
<1>7. \A k \in Modules : moduleAt'[k] \in {"bound", "listen"} => backlog'[k] # <<>>
  BY <1>0, <1>1, <1>2, <1>5 DEF LaunchStages
<1>8. launched' = [launched EXCEPT ![r] = launched[r]] /\ launched[r] \in 0 .. modules
  BY <1>1, <1>2
<1>9. /\ rankAt' \in [Ranks -> RankPlaces] /\ launched' \in [Ranks -> 0 .. modules]
      /\ LaunchStages' /\ Spawned'
  <2>1. launched[r] <= NumberToLaunch(r)
    BY <1>1, <1>2, <1>4
  <2>2. QED
    BY <1>1, <1>3, <1>7, <1>8, <2>1, SocketRankMoves
<1>10. LaunchTypeOK' /\ AddressTypeOK' /\ LaunchGiven'
  BY <1>0, <1>1, <1>6, <1>9, LaunchTypes, LaunchTypesNext, GivenKept
<1>11. AddressesExist'
  BY <1>1, SameAddresses
<1>12. QED
  BY <1>9, <1>10, <1>11 DEF LaunchInvariant

(* A rank goes on, or fails, and nothing else happens.                     *)
LEMMA RankOnly ==
    ASSUME LaunchInvariant, NEW r \in Ranks, OverSockets(r),
           NEW place \in {"launch", "connected", "done", "failed"},
           NEW count \in 0 .. modules,
           rankAt' = [rankAt EXCEPT ![r] = place],
           launched' = [launched EXCEPT ![r] = count],
           UNCHANGED <<address, communicators, mailbox>>, UNCHANGED given,
           UNCHANGED <<moduleAt, moduleRanks, backlog, accepted>>,
           boundFile' = boundFile \/ boundFile' = {},
           place \notin {"done", "failed"} => count <= NumberToLaunch(r),
           place = "connected" /\ NumberToLaunch(r) # 0 => count < NumberToLaunch(r)
    PROVE  LaunchInvariant'
<1>0. /\ LaunchGiven /\ LaunchTypeOK /\ AddressTypeOK /\ LaunchStages /\ AddressesExist
  BY DEF LaunchInvariant
<1>1. \A m \in Modules : moduleAt'[m] \in {"bound", "listen"} => backlog'[m] # <<>>
  BY <1>0 DEF LaunchStages
<1>2. /\ rankAt' \in [Ranks -> RankPlaces] /\ launched' \in [Ranks -> 0 .. modules]
      /\ LaunchStages' /\ Spawned'
  BY <1>1, SocketRankMoves
<1>3. boundFile' \subseteq boundFile /\ Cardinality(boundFile') <= 1
  <2>1. Cardinality(boundFile) <= 1
    BY <1>0, LaunchTypes
  <2>2. Cardinality({}) = 0
    BY FS_EmptySet
  <2>3. QED
    BY <2>1, <2>2
<1>4. LaunchTypeOK' /\ AddressTypeOK' /\ LaunchGiven'
  BY <1>0, <1>2, <1>3, LaunchTypes, LaunchTypesNext, GivenKept
<1>5. AddressesExist'
  <2>1. Ranks' = Ranks /\ \A a : Exists(a)' <=> Exists(a)
    BY <1>0, GivenKept DEF Exists, NoAddress
  <2>2. QED
    BY <1>0, <1>3, <2>1 DEF AddressesExist
<1>6. QED
  BY <1>2, <1>4, <1>5 DEF LaunchInvariant

LEMMA ConnectRefusedStep ==
    ASSUME LaunchInvariant, NEW r \in Ranks, ConnectRefused(r) PROVE LaunchInvariant'
<1>1. /\ rankAt[r] = "connect" /\ rankAt' = [rankAt EXCEPT ![r] = "failed"]
      /\ UNCHANGED <<launched, address, communicators, mailbox>> /\ UNCHANGED given
      /\ UNCHANGED <<moduleAt, moduleRanks, backlog, accepted, boundFile>>
  BY DEF ConnectRefused, RankIs, RankGoto, sides
<1>2. launched \in [Ranks -> 0 .. modules]
  BY LaunchTypes DEF LaunchInvariant
<1>3. launched' = [launched EXCEPT ![r] = launched[r]] /\ launched[r] \in 0 .. modules
  BY <1>1, <1>2
<1>4. QED
  BY <1>1, <1>3, RankOnly DEF OverSockets

(* The Unix file goes.                                                     *)
LEMMA UnlinkStep ==
    ASSUME LaunchInvariant, NEW r \in Ranks, Unlink(r) PROVE LaunchInvariant'
<1> DEFINE place == IF boundFile = {} THEN "failed" ELSE "connected"
<1>1. /\ rankAt[r] = "unlink" /\ rankAt' = [rankAt EXCEPT ![r] = place] /\ boundFile' = {}
      /\ UNCHANGED <<launched, address, communicators, mailbox>> /\ UNCHANGED given
      /\ UNCHANGED <<moduleAt, moduleRanks, backlog, accepted>>
  BY DEF Unlink, RankIs, RankGoto
<1>2. launched \in [Ranks -> 0 .. modules] /\ OverSockets(r)
  BY <1>1, LaunchTypes DEF LaunchInvariant, OverSockets
<1>3. launched' = [launched EXCEPT ![r] = launched[r]] /\ launched[r] \in 0 .. modules
  BY <1>1, <1>2
<1>4. /\ launched[r] <= NumberToLaunch(r)
      /\ NumberToLaunch(r) # 0 => launched[r] < NumberToLaunch(r)
  BY <1>1, <1>2 DEF LaunchInvariant, LaunchStages
<1>5. place \in {"launch", "connected", "done", "failed"}
  OBVIOUS
<1> HIDE DEF place
<1>6. QED
  BY <1>1, <1>2, <1>3, <1>4, <1>5, RankOnly

(* The next module, if there is one.                                       *)
LEMMA AddCommunicatorStep ==
    ASSUME LaunchInvariant, NEW r \in Ranks, AddCommunicator(r) PROVE LaunchInvariant'
<1>1. /\ rankAt[r] = "connected"
      /\ IF NumberToLaunch(r) = 0
         THEN rankAt' = [rankAt EXCEPT ![r] = "done"] /\ UNCHANGED launched
         ELSE rankAt' = [rankAt EXCEPT ![r] = "launch"]
              /\ launched' = [launched EXCEPT ![r] = @ + 1]
      /\ UNCHANGED <<address, communicators, mailbox>> /\ UNCHANGED given
      /\ UNCHANGED <<moduleAt, moduleRanks, backlog, accepted, boundFile>>
  BY DEF AddCommunicator, RankIs, RankGoto, sides
<1>2. launched \in [Ranks -> 0 .. modules] /\ OverSockets(r) /\ LaunchGiven /\ Even
  BY <1>1, LaunchTypes DEF LaunchInvariant, OverSockets, LaunchStages
<1>3. launched[r] \in 0 .. modules /\ modules \in Nat /\ NumberToLaunch(r) \in 0 .. modules
  BY <1>2, ConnectionsNamed DEF LaunchGiven
<1>4. NumberToLaunch(r) # 0 => launched[r] < NumberToLaunch(r)
  BY <1>1, <1>2 DEF LaunchInvariant, LaunchStages
<1>5. CASE NumberToLaunch(r) = 0
  <2>1. rankAt' = [rankAt EXCEPT ![r] = "done"] /\ launched' = [launched EXCEPT ![r] = launched[r]]
    BY <1>1, <1>2, <1>5
  <2>2. QED
    BY <1>1, <1>2, <1>3, <2>1, RankOnly
<1>6. CASE NumberToLaunch(r) # 0
  <2>1. /\ rankAt' = [rankAt EXCEPT ![r] = "launch"]
        /\ launched' = [launched EXCEPT ![r] = launched[r] + 1]
    BY <1>1, <1>6
  <2>2. launched[r] + 1 \in 0 .. modules /\ launched[r] + 1 <= NumberToLaunch(r)
    BY <1>3, <1>4, <1>6
  <2>3. QED
    BY <1>1, <1>2, <2>1, <2>2, RankOnly
<1>7. QED
  BY <1>5, <1>6

LEMMA FinishStep ==
    ASSUME LaunchInvariant, NEW r \in Ranks, FinishLaunching(r) \/ RefuseFanIn(r)
    PROVE  LaunchInvariant'
<1>1. /\ rankAt[r] = "launch"
      /\ \E place \in {"done", "failed"} : rankAt' = [rankAt EXCEPT ![r] = place]
      /\ UNCHANGED <<launched, address, communicators, mailbox>> /\ UNCHANGED given
      /\ UNCHANGED <<moduleAt, moduleRanks, backlog, accepted, boundFile>>
  BY DEF FinishLaunching, RefuseFanIn, AllLaunched, RankIs, RankGoto, sides
<1>2. PICK place \in {"done", "failed"} : rankAt' = [rankAt EXCEPT ![r] = place]
  BY <1>1
<1>3. launched \in [Ranks -> 0 .. modules]
  BY LaunchTypes DEF LaunchInvariant
<1>4. launched' = [launched EXCEPT ![r] = launched[r]] /\ launched[r] \in 0 .. modules
  BY <1>1, <1>3
<1>5. QED
  BY <1>1, <1>2, <1>4, RankOnly DEF OverSockets

(* A rank reads the first address of its module.                           *)
LEMMA ReadAddressStep ==
    ASSUME LaunchInvariant, NEW r \in Ranks, ReadAddress(r) PROVE LaunchInvariant'
<1> DEFINE m == ModuleId(r, launched[r])
<1>0. /\ LaunchGiven /\ LaunchTypeOK /\ AddressTypeOK /\ LaunchStages /\ AddressesExist
  BY DEF LaunchInvariant
<1>1. /\ rankAt[r] = "read"
      /\ \/ /\ backlog[m] # <<>>
            /\ address' = [address EXCEPT ![r] = <<m, 1>>]
            /\ rankAt' = [rankAt EXCEPT ![r] = "connect"]
         \/ rankAt' = [rankAt EXCEPT ![r] = "failed"] /\ UNCHANGED address
      /\ UNCHANGED <<launched, communicators, mailbox>> /\ UNCHANGED given
      /\ UNCHANGED <<moduleAt, moduleRanks, backlog, accepted, boundFile>>
  BY DEF ReadAddress, RankIs, RankGoto, sides
<1>2. /\ launched \in [Ranks -> 0 .. modules] /\ OverSockets(r) /\ Even
      /\ launched[r] < NumberToLaunch(r) /\ modules \in Nat
      /\ address \in [Ranks -> Addresses]
      /\ backlog \in [Modules -> Seq(Seq(Ranks))]
  BY <1>0, <1>1, LaunchTypes DEF OverSockets, LaunchStages, LaunchGiven
<1>3. launched' = [launched EXCEPT ![r] = launched[r]] /\ launched[r] \in 0 .. modules
  BY <1>1, <1>2
<1>4. CASE rankAt' = [rankAt EXCEPT ![r] = "failed"] /\ UNCHANGED address
  BY <1>1, <1>2, <1>3, <1>4, RankOnly
<1>5. CASE /\ backlog[m] # <<>> /\ address' = [address EXCEPT ![r] = <<m, 1>>]
           /\ rankAt' = [rankAt EXCEPT ![r] = "connect"]
  <2>1. m \in Modules
    <3>1. /\ NumberToLaunch(r) \in 0 .. modules
          /\ \A i \in 0 .. NumberToLaunch(r) - 1 : ModuleId(r, i) \in Modules
      BY <1>0, <1>2, ConnectionsNamed
    <3>2. launched[r] \in 0 .. NumberToLaunch(r) - 1
      BY <1>2, <1>3, <3>1
    <3>3. QED
      BY <3>1, <3>2
  <2> HIDE DEF m
  <2>2. <<m, 1>> \in Modules \X Nat /\ 1 \in DOMAIN backlog[m]
    <3>1. backlog[m] \in Seq(Seq(Ranks))
      BY <1>2, <2>1
    <3>2. QED
      BY <1>5, <2>1, <3>1
  <2>3. address' \in [Ranks -> Addresses]
    BY <1>2, <1>5, <2>2 DEF Addresses
  <2>4. \A k \in Modules : moduleAt'[k] \in {"bound", "listen"} => backlog'[k] # <<>>
    BY <1>0, <1>1 DEF LaunchStages
  <2>5. launched[r] <= NumberToLaunch(r)
    <3>1. NumberToLaunch(r) \in 0 .. modules
      BY <1>0, <1>2, ConnectionsNamed
    <3>2. QED
      BY <1>2, <1>3, <3>1
  <2>6. /\ rankAt' \in [Ranks -> RankPlaces] /\ launched' \in [Ranks -> 0 .. modules]
        /\ LaunchStages' /\ Spawned'
    BY <1>1, <1>2, <1>3, <1>5, <2>4, <2>5, SocketRankMoves
  <2>7. LaunchTypeOK' /\ AddressTypeOK' /\ LaunchGiven'
    BY <1>0, <1>1, <2>3, <2>6, LaunchTypes, LaunchTypesNext, GivenKept
  <2>8. AddressesExist'
    <3>1. Ranks' = Ranks /\ \A a : Exists(a)' <=> Exists(a)
      BY <1>0, <1>1, GivenKept DEF Exists, NoAddress
    <3>2. Exists(<<m, 1>>)
      BY <2>2 DEF Exists
    <3>3. \A q \in Ranks : Exists(address'[q])
      BY <1>0, <1>2, <1>5, <3>2 DEF AddressesExist
    <3>4. QED
      BY <1>0, <1>1, <3>1, <3>3 DEF AddressesExist
  <2>9. QED
    BY <2>6, <2>7, <2>8 DEF LaunchInvariant
<1>6. QED
  BY <1>1, <1>4, <1>5

(* A rank connects to a socket that a module has bound.                    *)
LEMMA ConnectStep ==
    ASSUME LaunchInvariant, NEW r \in Ranks, Connect(r) PROVE LaunchInvariant'
<1> DEFINE place == IF transport = "UnixSocket" THEN "unlink" ELSE "connected"
<1>0. /\ LaunchGiven /\ LaunchTypeOK /\ AddressTypeOK /\ LaunchStages /\ AddressesExist
  BY DEF LaunchInvariant
<1>1. PICK t \in Target(r) :
          /\ backlog' = [backlog EXCEPT ![t[1]][t[2]] = Append(@, r)]
          /\ communicators' = [communicators EXCEPT ![r] = Append(@, t[1])]
  BY DEF Connect
<1>2. /\ rankAt[r] = "connect" /\ rankAt' = [rankAt EXCEPT ![r] = place]
      /\ UNCHANGED <<launched, address, mailbox, moduleAt, moduleRanks, accepted, boundFile>>
      /\ UNCHANGED given
  BY DEF Connect, RankIs, RankGoto
<1>3. /\ launched \in [Ranks -> 0 .. modules] /\ OverSockets(r)
      /\ address \in [Ranks -> Addresses] /\ boundFile \subseteq Modules \X Nat
      /\ backlog \in [Modules -> Seq(Seq(Ranks))] /\ communicators \in [Ranks -> Seq(Modules)]
      /\ mailbox \in [Ranks -> Seq(Addresses)]
  BY <1>0, <1>2, LaunchTypes DEF OverSockets
<1>4. t \in Modules \X Nat /\ t # NoAddress /\ Exists(t)
  <2>1. CASE t \in boundFile
    <3>1. t \in Modules \X Nat /\ Exists(t)
      BY <1>0, <1>3, <2>1 DEF AddressesExist
    <3>2. t = <<t[1], t[2]>>
      BY <3>1
    <3>3. \A x, y : <<x, y>> # <<>>
      OBVIOUS
    <3>4. QED
      BY <3>1, <3>2, <3>3 DEF NoAddress
  <2>2. CASE t \in {address[r]} \ {NoAddress}
    BY <1>0, <1>3, <2>2 DEF AddressesExist, Addresses
  <2>3. QED
    BY <1>1, <2>1, <2>2 DEF Target
<1> DEFINE m == t[1]
           k == t[2]
<1>5. m \in Modules /\ backlog[m] \in Seq(Seq(Ranks)) /\ k \in DOMAIN backlog[m]
  BY <1>3, <1>4 DEF Exists
<1>6. /\ backlog' = [backlog EXCEPT ![m] = [backlog[m] EXCEPT ![k] = Append(backlog[m][k], r)]]
      /\ communicators' = [communicators EXCEPT ![r] = Append(communicators[r], m)]
  BY <1>1
<1> HIDE DEF m, k, place
<1>7. /\ [backlog[m] EXCEPT ![k] = Append(backlog[m][k], r)] \in Seq(Seq(Ranks))
      /\ DOMAIN [backlog[m] EXCEPT ![k] = Append(backlog[m][k], r)] = DOMAIN backlog[m]
  <2>1. backlog[m][k] \in Seq(Ranks)
    BY <1>5, ElementOfSeq
  <2>2. Append(backlog[m][k], r) \in Seq(Ranks)
    BY <2>1
  <2> DEFINE new == Append(backlog[m][k], r)
  <2> HIDE DEF new
  <2>3. new \in Seq(Ranks)
    BY <2>2 DEF new
  <2>4. [backlog[m] EXCEPT ![k] = new] \in Seq(Seq(Ranks))
    BY <1>5, <2>3
  <2>5. DOMAIN [backlog[m] EXCEPT ![k] = new] = DOMAIN backlog[m]
    OBVIOUS
  <2>6. QED
    BY <2>4, <2>5 DEF new
<1>8. /\ backlog' \in [Modules -> Seq(Seq(Ranks))]
      /\ \A l \in Modules : DOMAIN backlog'[l] = DOMAIN backlog[l]
  BY <1>3, <1>5, <1>6, <1>7
<1>9. communicators' \in [Ranks -> Seq(Modules)]
  BY <1>3, <1>5, <1>6
<1>10. \A l \in Modules : moduleAt'[l] \in {"bound", "listen"} => backlog'[l] # <<>>
  <2>1. ASSUME NEW l \in Modules, backlog[l] # <<>> PROVE backlog'[l] # <<>>
    <3>1. backlog[l] \in Seq(Seq(Ranks)) /\ backlog'[l] \in Seq(Seq(Ranks))
      BY <1>3, <1>8
    <3>2. 1 \in DOMAIN backlog[l]
      BY <2>1, <3>1
    <3>3. 1 \in DOMAIN backlog'[l]
      BY <1>8, <3>2
    <3>4. DOMAIN <<>> = {}
      OBVIOUS
    <3>5. QED
      BY <3>3, <3>4
  <2>2. QED
    BY <1>0, <1>2, <2>1 DEF LaunchStages
<1>11. launched' = [launched EXCEPT ![r] = launched[r]] /\ launched[r] \in 0 .. modules
  BY <1>2, <1>3
<1>12. /\ launched[r] <= NumberToLaunch(r)
       /\ NumberToLaunch(r) # 0 => launched[r] < NumberToLaunch(r)
       /\ place \in {"unlink", "connected"}
  BY <1>0, <1>2, <1>3 DEF LaunchStages, place
<1>13. /\ rankAt' \in [Ranks -> RankPlaces] /\ launched' \in [Ranks -> 0 .. modules]
       /\ LaunchStages' /\ Spawned'
  BY <1>2, <1>3, <1>10, <1>11, <1>12, SocketRankMoves
<1>14. LaunchTypeOK' /\ AddressTypeOK' /\ LaunchGiven'
  BY <1>0, <1>2, <1>8, <1>9, <1>13, LaunchTypes, LaunchTypesNext, GivenKept
<1>15. AddressesExist'
  <2>1. \A a \in Addresses : Exists(a) => Exists(a)'
    BY <1>2, <1>8, AddressesKept
  <2>2. Ranks' = Ranks
    BY <1>0, <1>2, GivenKept
  <2>3. \A a \in boundFile : a \in Addresses
    BY <1>3 DEF Addresses
  <2>4. \A q \in Ranks : \A i \in DOMAIN mailbox[q] : mailbox[q][i] \in Addresses
    BY <1>3, ElementOfSeq
  <2>5. QED
    BY <1>0, <1>2, <1>3, <2>1, <2>2, <2>3, <2>4 DEF AddressesExist
<1>16. QED
  BY <1>13, <1>14, <1>15 DEF LaunchInvariant

(* A rank that has launched a module tells its group where it is.          *)
LEMMA SendAddressStep ==
    ASSUME LaunchInvariant, NEW r \in Ranks, SendAddress(r) PROVE LaunchInvariant'
<1>0. /\ LaunchGiven /\ LaunchTypeOK /\ AddressTypeOK /\ LaunchStages /\ AddressesExist
  BY DEF LaunchInvariant
<1>1. /\ rankAt[r] = "launch" /\ rankAt' = [rankAt EXCEPT ![r] = "done"]
      /\ mailbox' = [q \in Ranks |->
             IF q \in r + 1 .. r + Ratio - 1 THEN Append(mailbox[q], AddressToSend(r))
             ELSE mailbox[q]]
      /\ UNCHANGED <<launched, address, communicators>> /\ UNCHANGED given
      /\ UNCHANGED <<moduleAt, moduleRanks, backlog, accepted, boundFile>>
  BY DEF SendAddress, AllLaunched, RankIs, RankGoto, sides
<1>2. /\ launched \in [Ranks -> 0 .. modules] /\ OverSockets(r)
      /\ address \in [Ranks -> Addresses] /\ mailbox \in [Ranks -> Seq(Addresses)]
  BY <1>0, <1>1, LaunchTypes DEF OverSockets
<1>3. launched' = [launched EXCEPT ![r] = launched[r]] /\ launched[r] \in 0 .. modules
  BY <1>1, <1>2
<1>4. AddressToSend(r) \in Addresses /\ Exists(AddressToSend(r))
  <2>1. NoAddress \in Addresses /\ Exists(NoAddress)
    BY DEF Addresses, Exists
  <2>2. address[r] \in Addresses /\ Exists(address[r])
    BY <1>0, <1>2 DEF AddressesExist
  <2>3. QED
    BY <2>1, <2>2 DEF AddressToSend
<1> DEFINE a == AddressToSend(r)
<1> HIDE DEF a
<1>5. ASSUME NEW q \in Ranks
      PROVE  /\ mailbox'[q] \in Seq(Addresses)
             /\ \A i \in DOMAIN mailbox'[q] : Exists(mailbox'[q][i])
  <2>1. /\ mailbox[q] \in Seq(Addresses) /\ \A i \in DOMAIN mailbox[q] : Exists(mailbox[q][i])
        /\ a \in Addresses /\ Exists(a)
    BY <1>0, <1>2, <1>4 DEF AddressesExist, a
  <2>2. mailbox'[q] = Append(mailbox[q], a) \/ mailbox'[q] = mailbox[q]
    BY <1>1 DEF a
  <2>3. /\ Append(mailbox[q], a) \in Seq(Addresses)
        /\ \A i \in DOMAIN Append(mailbox[q], a) :
               \/ i \in DOMAIN mailbox[q] /\ Append(mailbox[q], a)[i] = mailbox[q][i]
               \/ Append(mailbox[q], a)[i] = a
    BY <2>1
  <2>4. QED
    BY <2>1, <2>2, <2>3
<1>6. mailbox' \in [Ranks -> Seq(Addresses)]
  <2>1. mailbox' = [q \in Ranks |-> mailbox'[q]]
    BY <1>1
  <2>2. QED
    BY <1>5, <2>1
<1>7. \A l \in Modules : moduleAt'[l] \in {"bound", "listen"} => backlog'[l] # <<>>
  BY <1>0, <1>1 DEF LaunchStages
<1>8. /\ rankAt' \in [Ranks -> RankPlaces] /\ launched' \in [Ranks -> 0 .. modules]
      /\ LaunchStages' /\ Spawned'
  BY <1>1, <1>2, <1>3, <1>7, SocketRankMoves
<1>9. LaunchTypeOK' /\ AddressTypeOK' /\ LaunchGiven'
  BY <1>0, <1>1, <1>6, <1>8, LaunchTypes, LaunchTypesNext, GivenKept
<1>10. AddressesExist'
  <2>1. Ranks' = Ranks /\ \A b : Exists(b)' <=> Exists(b)
    BY <1>0, <1>1, GivenKept DEF Exists, NoAddress
  <2>2. QED
    BY <1>0, <1>1, <1>5, <2>1 DEF AddressesExist
<1>11. QED
  BY <1>8, <1>9, <1>10 DEF LaunchInvariant

(* A rank of the group is told.                                            *)
LEMMA ReceiveAddressStep ==
    ASSUME LaunchInvariant, NEW r \in Ranks, ReceiveAddress(r) PROVE LaunchInvariant'
<1>0. /\ LaunchGiven /\ LaunchTypeOK /\ AddressTypeOK /\ LaunchStages /\ AddressesExist
  BY DEF LaunchInvariant
<1>1. /\ rankAt[r] = "launch" /\ rankAt' = [rankAt EXCEPT ![r] = "connect"]
      /\ NumberToLaunch(r) = 0 /\ launched[r] = NumberToLaunch(r) /\ mailbox[r] # <<>>
      /\ address' = [address EXCEPT ![r] = Head(mailbox[r])]
      /\ mailbox' = [mailbox EXCEPT ![r] = Tail(@)]
      /\ UNCHANGED <<launched, communicators>> /\ UNCHANGED given
      /\ UNCHANGED <<moduleAt, moduleRanks, backlog, accepted, boundFile>>
  BY DEF ReceiveAddress, AllLaunched, RankIs, RankGoto, sides
<1>2. /\ launched \in [Ranks -> 0 .. modules] /\ OverSockets(r)
      /\ address \in [Ranks -> Addresses] /\ mailbox \in [Ranks -> Seq(Addresses)]
  BY <1>0, <1>1, LaunchTypes DEF OverSockets
<1>3. launched' = [launched EXCEPT ![r] = launched[r]] /\ launched[r] \in 0 .. modules
  BY <1>1, <1>2
<1> DEFINE box == mailbox[r]
<1>4. /\ box \in Seq(Addresses) /\ box # <<>> /\ \A i \in DOMAIN box : Exists(box[i])
  BY <1>0, <1>1, <1>2 DEF AddressesExist
<1> HIDE DEF box
<1>5. /\ Head(box) \in Addresses /\ Exists(Head(box)) /\ Tail(box) \in Seq(Addresses)
      /\ \A i \in DOMAIN Tail(box) : Exists(Tail(box)[i])
  <2>1. /\ Tail(box) \in Seq(Addresses) /\ Len(Tail(box)) = Len(box) - 1 /\ Len(box) \in Nat \ {0}
        /\ \A i \in 1 .. Len(Tail(box)) : Tail(box)[i] = box[i + 1]
        /\ Head(box) = box[1] /\ Head(box) \in Addresses
    BY <1>4, HeadTailProperties, EmptySeq
  <2>2. DOMAIN box = 1 .. Len(box) /\ DOMAIN Tail(box) = 1 .. Len(box) - 1
    BY <1>4, <2>1, LenProperties
  <2>3. QED
    BY <1>4, <2>1, <2>2
<1>6. /\ address' = [address EXCEPT ![r] = Head(box)] /\ mailbox' = [mailbox EXCEPT ![r] = Tail(box)]
  BY <1>1 DEF box
<1>7. address' \in [Ranks -> Addresses] /\ mailbox' \in [Ranks -> Seq(Addresses)]
  BY <1>2, <1>5, <1>6
<1>8. \A l \in Modules : moduleAt'[l] \in {"bound", "listen"} => backlog'[l] # <<>>
  BY <1>0, <1>1 DEF LaunchStages
<1>9. /\ rankAt' \in [Ranks -> RankPlaces] /\ launched' \in [Ranks -> 0 .. modules]
      /\ LaunchStages' /\ Spawned'
  <2>1. launched[r] <= NumberToLaunch(r) /\ ~(NumberToLaunch(r) # 0)
    BY <1>1
  <2>2. QED
    BY <1>1, <1>2, <1>3, <1>8, <2>1, SocketRankMoves
<1>10. LaunchTypeOK' /\ AddressTypeOK' /\ LaunchGiven'
  BY <1>0, <1>1, <1>7, <1>9, LaunchTypes, LaunchTypesNext, GivenKept
<1>11. AddressesExist'
  <2>1. Ranks' = Ranks /\ \A b : Exists(b)' <=> Exists(b)
    BY <1>0, <1>1, GivenKept DEF Exists, NoAddress
  <2>2. \A q \in Ranks : Exists(address'[q])
    BY <1>0, <1>2, <1>5, <1>6 DEF AddressesExist
  <2>3. \A q \in Ranks : \A i \in DOMAIN mailbox'[q] : Exists(mailbox'[q][i])
    BY <1>0, <1>2, <1>5, <1>6 DEF AddressesExist
  <2>4. QED
    BY <1>0, <1>1, <2>1, <2>2, <2>3 DEF AddressesExist
<1>12. QED
  BY <1>9, <1>10, <1>11 DEF LaunchInvariant

(* All ranks spawn the modules together.                                   *)
LEMMA SpawnModulesStep == LaunchInvariant /\ SpawnModules => LaunchInvariant'
<1> SUFFICES ASSUME LaunchInvariant, SpawnModules PROVE LaunchInvariant'
  OBVIOUS
<1>0. /\ LaunchGiven /\ LaunchTypeOK /\ AddressTypeOK /\ LaunchStages /\ AddressesExist /\ Spawned
  BY DEF LaunchInvariant
<1>1. /\ \A r \in Ranks : rankAt[r] = "spawn"
      /\ rankAt' = [r \in Ranks |-> "create"]
      /\ moduleAt' = [m \in Modules |-> "running"]
      /\ moduleRanks' = [m \in Modules |-> CommunicatorRanks(m)]
      /\ UNCHANGED <<launched, address, communicators, mailbox>> /\ UNCHANGED given
      /\ UNCHANGED <<backlog, accepted, boundFile>>
  BY DEF SpawnModules, RankIs
<1>2. 0 \in Ranks
  BY <1>0 DEF LaunchGiven, Ranks
<1>3. Even /\ transport = "MPI"
  BY <1>0, <1>1, <1>2 DEF LaunchStages
<1>4. \A m \in Modules : CommunicatorRanks(m) \in Seq(Ranks)
  BY <1>0, <1>3, ConnectionsNamed
<1>5. LaunchTypeOK' /\ AddressTypeOK' /\ LaunchGiven'
  <2>1. rankAt' \in [Ranks -> RankPlaces] /\ moduleAt' \in [Modules -> ModulePlaces]
    BY <1>1 DEF RankPlaces, ModulePlaces
  <2>2. moduleRanks' \in [Modules -> Seq(Ranks)]
    BY <1>1, <1>4
  <2>3. QED
    BY <1>0, <1>1, <2>1, <2>2, LaunchTypes, LaunchTypesNext, GivenKept
<1>6. AddressesExist'
  BY <1>1, SameAddresses
<1>7. LaunchStages'
  BY <1>1, <1>3, StagesNext
<1>8. Spawned'
  <2>1. /\ Ranks' = Ranks /\ Modules' = Modules /\ transport' = transport
        /\ \A m : CommunicatorRanks(m)' = CommunicatorRanks(m)
    BY <1>0, <1>1, GivenKept
  <2>2. QED
    BY <1>1, <2>1 DEF Spawned
<1>9. QED
  BY <1>5, <1>6, <1>7, <1>8 DEF LaunchInvariant

(* A rank makes its communicators from what MPI has spawned.               *)
LEMMA CreateCommunicatorsStep ==
    ASSUME LaunchInvariant, NEW r \in Ranks, CreateCommunicators(r) PROVE LaunchInvariant'
<1> DEFINE list == [i \in 1 .. PerLauncher |-> IntercommunicatorRank(r, i - 1)]
<1>0. /\ LaunchGiven /\ LaunchTypeOK /\ AddressTypeOK /\ LaunchStages /\ AddressesExist /\ Spawned
  BY DEF LaunchInvariant
<1>1. /\ rankAt[r] = "create" /\ rankAt' = [rankAt EXCEPT ![r] = "done"]
      /\ communicators' = [communicators EXCEPT ![r] = list]
      /\ UNCHANGED <<launched, address, mailbox>> /\ UNCHANGED given
      /\ UNCHANGED <<moduleAt, moduleRanks, backlog, accepted, boundFile>>
  BY DEF CreateCommunicators, RankIs, RankGoto, sides
<1>2. Even /\ transport = "MPI"
  BY <1>0, <1>1 DEF LaunchStages
<1>3. list \in Seq(Modules)
  <2>1. /\ PerLauncher \in Nat
        /\ \A i \in 0 .. PerLauncher - 1 : IntercommunicatorRank(r, i) \in Modules
    BY <1>0, <1>2, ConnectionsNamed
  <2>2. \A i \in 1 .. PerLauncher : IntercommunicatorRank(r, i - 1) \in Modules
    BY <2>1
  <2>3. list \in [1 .. PerLauncher -> Modules]
    BY <2>2
  <2>4. QED
    BY <2>1, <2>3
<1>4. /\ rankAt \in [Ranks -> RankPlaces] /\ communicators \in [Ranks -> Seq(Modules)]
      /\ launched \in [Ranks -> 0 .. modules]
  BY <1>0, LaunchTypes
<1>5. /\ Ranks' = Ranks /\ Modules' = Modules /\ transport' = transport
      /\ PerLauncher' = PerLauncher
      /\ \A m : CommunicatorRanks(m)' = CommunicatorRanks(m)
      /\ \A q, i : IntercommunicatorRank(q, i)' = IntercommunicatorRank(q, i)
  BY <1>0, <1>1, GivenKept
<1>6. Spawned'
  <2>1. \A q \in Ranks : rankAt'[q] = "done" =>
            communicators'[q] = [i \in 1 .. PerLauncher |-> IntercommunicatorRank(q, i - 1)]
    BY <1>0, <1>1, <1>2, <1>4 DEF Spawned
  <2>2. \A q \in Ranks : rankAt'[q] \in {"create", "done"} => rankAt[q] \in {"create", "done"}
    BY <1>1, <1>4
  <2>3. \A m \in Modules : moduleAt'[m] \in {"absent", "running"}
    BY <1>0, <1>1, <1>2 DEF Spawned
  <2>4. ASSUME NEW q \in Ranks, rankAt'[q] \in {"create", "done"}, NEW m \in Modules
        PROVE  moduleAt'[m] = "running" /\ moduleRanks'[m] = CommunicatorRanks(m)
    BY <1>0, <1>1, <1>2, <2>2, <2>4 DEF Spawned
  <2>5. QED
    BY <1>5, <2>1, <2>3, <2>4 DEF Spawned
<1> HIDE DEF list
<1>7. LaunchTypeOK' /\ AddressTypeOK' /\ LaunchGiven'
  <2>1. rankAt' \in [Ranks -> RankPlaces] /\ communicators' \in [Ranks -> Seq(Modules)]
    BY <1>1, <1>3, <1>4 DEF RankPlaces
  <2>2. QED
    BY <1>0, <1>1, <2>1, LaunchTypes, LaunchTypesNext, GivenKept
<1>8. AddressesExist'
  BY <1>1, SameAddresses
<1>9. LaunchStages'
  BY <1>0, <1>1, <1>2, <1>4, StagesNext DEF LaunchStages, OverSockets
<1>10. QED
  BY <1>6, <1>7, <1>8, <1>9 DEF LaunchInvariant

-----------------------------------------------------------------------------
(* The steps of a module *)

(* What the steps of a module over sockets have in common.                 *)
LEMMA ModuleMoves ==
    ASSUME LaunchInvariant, NEW m \in Modules, moduleAt[m] \in {"bind", "bound", "listen"},
           NEW place \in {"bind", "bound", "listen", "running", "failed"},
           moduleAt' = [moduleAt EXCEPT ![m] = place],
           UNCHANGED given, UNCHANGED ranks, UNCHANGED moduleRanks,
           accepted' \in [Modules -> Seq(Ranks)],
           backlog' \in [Modules -> Seq(Seq(Ranks))],
           \A l \in Modules : DOMAIN backlog[l] \subseteq DOMAIN backlog'[l],
           place \in {"bound", "listen"} => backlog'[m] # <<>>,
           boundFile' \subseteq Modules \X Nat, Cardinality(boundFile') <= 1,
           \A a \in boundFile' : Exists(a)'
    PROVE  LaunchInvariant'
<1>0. /\ LaunchGiven /\ LaunchTypeOK /\ AddressTypeOK /\ LaunchStages /\ AddressesExist /\ Spawned
  BY DEF LaunchInvariant
<1>1. UNCHANGED <<rankAt, launched, address, communicators, mailbox>>
  BY DEF ranks
<1>2. transport # "MPI"
  BY <1>0 DEF Spawned
<1>3. /\ moduleAt \in [Modules -> ModulePlaces] /\ backlog \in [Modules -> Seq(Seq(Ranks))]
      /\ address \in [Ranks -> Addresses] /\ mailbox \in [Ranks -> Seq(Addresses)]
  BY <1>0, LaunchTypes
<1>4. LaunchTypeOK' /\ AddressTypeOK' /\ LaunchGiven'
  <2>1. moduleAt' \in [Modules -> ModulePlaces]
    BY <1>3 DEF ModulePlaces
  <2>2. QED
    BY <1>0, <1>1, <2>1, LaunchTypes, LaunchTypesNext, GivenKept
<1>5. ASSUME NEW l \in Modules, backlog[l] # <<>> PROVE backlog'[l] # <<>>
  <2>1. backlog[l] \in Seq(Seq(Ranks)) /\ DOMAIN <<>> = {}
    BY <1>3
  <2>2. 1 \in DOMAIN backlog[l]
    BY <1>5, <2>1
  <2>3. 1 \in DOMAIN backlog'[l]
    BY <2>2
  <2>4. QED
    BY <2>1, <2>3
<1>6. LaunchStages'
  <2>1. \A l \in Modules : moduleAt'[l] \in {"bound", "listen"} => backlog'[l] # <<>>
    BY <1>0, <1>3, <1>5 DEF LaunchStages
  <2>2. QED
    BY <1>0, <1>1, <2>1, StagesNext DEF LaunchStages, OverSockets
<1>7. Spawned'
  BY <1>2, NothingSpawned
<1>8. AddressesExist'
  <2>1. \A a \in Addresses : Exists(a) => Exists(a)'
    BY AddressesKept
  <2>2. Ranks' = Ranks
    BY <1>0, GivenKept
  <2>3. \A r \in Ranks : \A i \in DOMAIN mailbox[r] : mailbox[r][i] \in Addresses
    BY <1>3, ElementOfSeq
  <2>4. QED
    BY <1>0, <1>1, <1>3, <2>1, <2>2, <2>3 DEF AddressesExist
<1>9. QED
  BY <1>4, <1>6, <1>7, <1>8 DEF LaunchInvariant

(* A step in which sockets, connections and the file are left alone.       *)
LEMMA ModuleOnly ==
    ASSUME LaunchInvariant, NEW m \in Modules, moduleAt[m] \in {"bind", "bound"},
           NEW place \in {"listen", "failed"},
           moduleAt' = [moduleAt EXCEPT ![m] = place],
           moduleAt[m] = "bind" => place = "failed",
           UNCHANGED given, UNCHANGED ranks,
           UNCHANGED <<moduleRanks, backlog, accepted, boundFile>>
    PROVE  LaunchInvariant'
<1>1. /\ accepted \in [Modules -> Seq(Ranks)] /\ backlog \in [Modules -> Seq(Seq(Ranks))]
      /\ boundFile \subseteq Modules \X Nat /\ Cardinality(boundFile) <= 1
  BY LaunchTypes DEF LaunchInvariant
<1>2. \A a \in boundFile : Exists(a)'
  BY DEF LaunchInvariant, AddressesExist, Exists, NoAddress
<1>3. place \in {"bound", "listen"} => backlog'[m] # <<>>
  BY DEF LaunchInvariant, LaunchStages
<1>4. QED
  BY <1>1, <1>2, <1>3, ModuleMoves

LEMMA ListenStep ==
    ASSUME LaunchInvariant, NEW m \in Modules, BindFails(m) \/ Listen(m) PROVE LaunchInvariant'
<1>1. CASE BindFails(m)
  BY <1>1, ModuleOnly DEF BindFails, ModuleIs, ModuleGoto
<1>2. CASE Listen(m)
  BY <1>2, ModuleOnly DEF Listen, ModuleIs, ModuleGoto
<1>3. QED
  BY <1>1, <1>2

(* A module binds its next socket.                                         *)
LEMMA BindStep ==
    ASSUME LaunchInvariant, NEW m \in Modules, Bind(m) PROVE LaunchInvariant'
<1>1. /\ moduleAt[m] = "bind" /\ moduleAt' = [moduleAt EXCEPT ![m] = "bound"]
      /\ backlog' = [backlog EXCEPT ![m] = Append(backlog[m], <<>>)]
      /\ boundFile' = {<<m, Len(backlog'[m])>>} \/ boundFile' = {}
      /\ UNCHANGED given /\ UNCHANGED ranks /\ UNCHANGED moduleRanks /\ UNCHANGED accepted
  BY DEF Bind, ModuleIs, ModuleGoto
<1>2. backlog \in [Modules -> Seq(Seq(Ranks))] /\ accepted \in [Modules -> Seq(Ranks)]
  BY LaunchTypes DEF LaunchInvariant
<1> DEFINE old == backlog[m]
           new == Append(old, <<>>)
<1>3. old \in Seq(Seq(Ranks)) /\ <<>> \in Seq(Ranks)
  BY <1>2, EmptySeq
<1> HIDE DEF old
<1>4. /\ new \in Seq(Seq(Ranks)) /\ Len(new) = Len(old) + 1 /\ Len(old) \in Nat
      /\ DOMAIN old = 1 .. Len(old) /\ DOMAIN new = 1 .. Len(old) + 1
  <2>1. new \in Seq(Seq(Ranks)) /\ Len(new) = Len(old) + 1 /\ Len(old) \in Nat
    BY <1>3
  <2>2. DOMAIN old = 1 .. Len(old) /\ DOMAIN new = 1 .. Len(new)
    BY <1>3, <2>1, LenProperties
  <2>3. QED
    BY <2>1, <2>2
<1>5. backlog' = [backlog EXCEPT ![m] = new]
  BY <1>1 DEF old
<1> HIDE DEF new
<1>6. backlog' \in [Modules -> Seq(Seq(Ranks))] /\ backlog'[m] = new
  BY <1>2, <1>4, <1>5
<1>7. \A l \in Modules : DOMAIN backlog[l] \subseteq DOMAIN backlog'[l]
  <2>1. DOMAIN old \subseteq DOMAIN new
    BY <1>4
  <2>2. QED
    BY <1>2, <1>5, <2>1 DEF old
<1>8. /\ boundFile' \subseteq Modules \X Nat /\ Cardinality(boundFile') <= 1
      /\ \A a \in boundFile' : Exists(a)'
  <2>1. Cardinality({}) = 0 /\ \A z : Cardinality({z}) = 1
    BY FS_EmptySet, FS_Singleton
  <2>2. Len(new) \in Nat /\ Len(new) \in DOMAIN new
    BY <1>4
  <2>3. CASE boundFile' = {}
    BY <2>1, <2>3
  <2>4. CASE boundFile' = {<<m, Len(backlog'[m])>>}
    <3>1. boundFile' = {<<m, Len(new)>>}
      BY <1>6, <2>4
    <3>2. ASSUME NEW a \in boundFile' PROVE Exists(a)'
      <4>1. a[1] = m /\ a[2] = Len(new)
        BY <3>1
      <4>2. a[2] \in DOMAIN backlog'[a[1]]
        BY <1>6, <2>2, <4>1
      <4>3. QED
        BY <4>2 DEF Exists
    <3>3. boundFile' \subseteq Modules \X Nat
      BY <2>2, <3>1
    <3>4. Cardinality(boundFile') = 1
      BY <2>1, <3>1
    <3>5. QED
      BY <3>2, <3>3, <3>4
  <2>5. QED
    BY <1>1, <2>3, <2>4
<1>9. new # <<>>
  <2>1. 1 \in DOMAIN new /\ DOMAIN <<>> = {}
    BY <1>4
  <2>2. QED
    BY <2>1
<1>10. accepted' \in [Modules -> Seq(Ranks)]
  BY <1>1, <1>2
<1>11. QED
  BY <1>1, <1>6, <1>7, <1>8, <1>9, <1>10, ModuleMoves

(* A module accepts a connection to its newest socket.                     *)
LEMMA AcceptStep ==
    ASSUME LaunchInvariant, NEW m \in Modules, Accept(m) PROVE LaunchInvariant'
<1> DEFINE old == backlog[m]
           k == Len(old)
           waiting == old[k]
<1>1. /\ moduleAt[m] = "listen" /\ waiting # <<>>
      /\ \E place \in {"running", "bind"} : moduleAt' = [moduleAt EXCEPT ![m] = place]
      /\ accepted' = [accepted EXCEPT ![m] = Append(accepted[m], Head(waiting))]
      /\ backlog' = [backlog EXCEPT ![m] = [old EXCEPT ![k] = Tail(waiting)]]
      /\ UNCHANGED given /\ UNCHANGED ranks /\ UNCHANGED moduleRanks /\ UNCHANGED boundFile
  BY DEF Accept, ModuleIs, ModuleGoto
<1>2. /\ backlog \in [Modules -> Seq(Seq(Ranks))] /\ accepted \in [Modules -> Seq(Ranks)]
      /\ boundFile \subseteq Modules \X Nat /\ Cardinality(boundFile) <= 1
  BY LaunchTypes DEF LaunchInvariant
<1>3. old \in Seq(Seq(Ranks)) /\ old # <<>>
  BY <1>1, <1>2 DEF LaunchInvariant, LaunchStages
<1> HIDE DEF old
<1>4. k \in DOMAIN old /\ waiting \in Seq(Ranks)
  <2>1. k \in Nat /\ k # 0 /\ DOMAIN old = 1 .. k
    BY <1>3, LenProperties, EmptySeq
  <2>2. k \in DOMAIN old
    BY <2>1
  <2>3. QED
    BY <1>3, <2>2, ElementOfSeq
<1> HIDE DEF k, waiting
<1>5. Head(waiting) \in Ranks /\ Tail(waiting) \in Seq(Ranks)
  BY <1>1, <1>4, HeadTailProperties
<1>6. accepted' \in [Modules -> Seq(Ranks)]
  <2>1. Append(accepted[m], Head(waiting)) \in Seq(Ranks)
    BY <1>2, <1>5
  <2>2. QED
    BY <1>1, <1>2, <2>1
<1> DEFINE rest == Tail(waiting)
           new == [old EXCEPT ![k] = rest]
<1>7. rest \in Seq(Ranks) /\ backlog' = [backlog EXCEPT ![m] = new]
  BY <1>1, <1>5
<1> HIDE DEF rest
<1>8. new \in Seq(Seq(Ranks)) /\ DOMAIN new = DOMAIN old
  BY <1>3, <1>4, <1>7
<1> HIDE DEF new
<1>9. /\ backlog' \in [Modules -> Seq(Seq(Ranks))]
      /\ \A l \in Modules : DOMAIN backlog'[l] = DOMAIN backlog[l]
  BY <1>2, <1>7, <1>8 DEF old
<1>10. \A a \in boundFile' : Exists(a)'
  <2>1. \A a \in boundFile : a \in Addresses /\ Exists(a)
    BY <1>2 DEF LaunchInvariant, AddressesExist, Addresses
  <2>2. QED
    BY <1>1, <1>9, <2>1, AddressesKept
<1>11. PICK place \in {"running", "bind"} : moduleAt' = [moduleAt EXCEPT ![m] = place]
  BY <1>1
<1>12. QED
  BY <1>1, <1>2, <1>6, <1>9, <1>10, <1>11, ModuleMoves

-----------------------------------------------------------------------------
(* The launch as a whole *)

(* The invariant holds at the start, and no step breaks it.                *)
LEMMA LaunchInductive ==
    /\ Init => LaunchInvariant
    /\ LaunchInvariant /\ [Next]_vars => LaunchInvariant'
<1>1. ASSUME LaunchInit PROVE LaunchInvariant
  <2>1. LaunchGiven
    BY <1>1, LaunchingAssumption DEF LaunchInit, LaunchGiven
  <2>2. LaunchTypeOK /\ AddressTypeOK
    <3>1. 0 \in 0 .. modules
      BY <2>1 DEF LaunchGiven
    <3>2. /\ \A S : <<>> \in Seq(S)
          /\ Cardinality({}) <= 1
      BY EmptySeq, FS_EmptySet
    <3>3. /\ rankAt \in [Ranks -> RankPlaces] /\ launched \in [Ranks -> 0 .. modules]
          /\ moduleAt \in [Modules -> ModulePlaces] /\ address \in [Ranks -> Addresses]
      BY <1>1, <3>1 DEF LaunchInit, RankPlaces, ModulePlaces, Addresses
    <3>4. /\ communicators \in [Ranks -> Seq(Modules)] /\ mailbox \in [Ranks -> Seq(Addresses)]
          /\ moduleRanks \in [Modules -> Seq(Ranks)] /\ accepted \in [Modules -> Seq(Ranks)]
          /\ backlog \in [Modules -> Seq(Seq(Ranks))]
      BY <1>1, <3>2 DEF LaunchInit
    <3>5. Cardinality(boundFile) <= 1 /\ boundFile \subseteq Modules \X Nat
      BY <1>1, <3>2 DEF LaunchInit
    <3>6. QED
      BY <3>3, <3>4, <3>5, LaunchTypes
  <2>3. AddressesExist
    BY <1>1 DEF LaunchInit, AddressesExist, Exists
  <2>4. LaunchStages /\ Spawned
    BY <1>1 DEF LaunchInit, LaunchStages, OverSockets, Spawned
  <2>5. QED
    BY <2>1, <2>2, <2>3, <2>4 DEF LaunchInvariant
<1>2. ASSUME LaunchInvariant, LaunchNext PROVE LaunchInvariant'
  <2>1. ASSUME NEW r \in Ranks, RankStep(r) PROVE LaunchInvariant'
    BY <1>2, <2>1, StartLaunchStep, LaunchNextModuleStep, ReadAddressStep, ConnectStep,
       ConnectRefusedStep, UnlinkStep, AddCommunicatorStep, FinishStep, SendAddressStep,
       ReceiveAddressStep, CreateCommunicatorsStep DEF RankStep
  <2>2. ASSUME NEW m \in Modules, ModuleStep(m) PROVE LaunchInvariant'
    BY <1>2, <2>2, BindStep, ListenStep, AcceptStep DEF ModuleStep
  <2>3. QED
    BY <1>2, <2>1, <2>2, SpawnModulesStep DEF LaunchNext
<1>3. ASSUME LaunchInvariant, UNCHANGED launchVars PROVE LaunchInvariant'
  <2>1. /\ UNCHANGED given
        /\ UNCHANGED <<rankAt, launched, address, communicators, mailbox>>
        /\ UNCHANGED <<moduleAt, moduleRanks, backlog, accepted, boundFile>>
    BY <1>3 DEF launchVars, ranks, sides
  <2>2. LaunchGiven /\ LaunchTypeOK /\ AddressTypeOK /\ LaunchStages /\ Spawned
    BY <1>3 DEF LaunchInvariant
  <2>3. LaunchGiven' /\ LaunchTypeOK' /\ AddressTypeOK'
    BY <2>1, <2>2, LaunchTypes, LaunchTypesNext, GivenKept
  <2>4. AddressesExist'
    BY <1>3, <2>1, SameAddresses
  <2>5. LaunchStages'
    BY <1>3, <2>1, <2>2, StagesNext DEF LaunchStages, OverSockets
  <2>6. Spawned'
    BY <2>1, <2>2, GivenKept DEF Spawned
  <2>7. QED
    BY <2>3, <2>4, <2>5, <2>6 DEF LaunchInvariant
<1>4. [Next]_vars => [LaunchNext]_launchVars
  BY DEF Next, vars
<1>5. QED
  BY <1>1, <1>2, <1>3, <1>4 DEF Init

LEMMA InvariantImpliesAgreement == LaunchInvariant => SidesAgree
<1> SUFFICES ASSUME LaunchInvariant, transport = "MPI",
                    NEW r \in Ranks, NEW m \in Modules, rankAt[r] = "done"
             PROVE  /\ moduleAt[m] = "running" /\ communicators[r] # <<>>
                    /\ Occurrences(m, communicators[r]) = Occurrences(r, moduleRanks[m])
  BY DEF SidesAgree
<1>1. LaunchGiven /\ Even
  BY DEF LaunchInvariant, LaunchStages
<1>2. /\ moduleAt[m] = "running" /\ moduleRanks[m] = CommunicatorRanks(m)
      /\ communicators[r] = [i \in 1 .. PerLauncher |-> IntercommunicatorRank(r, i - 1)]
  BY DEF LaunchInvariant, Spawned
<1>3. communicators[r] # <<>>
  <2>1. PerLauncher \in Nat \ {0}
    BY <1>1, ConnectionsNamed
  <2>2. 1 \in DOMAIN communicators[r] /\ DOMAIN <<>> = {}
    BY <1>2, <2>1
  <2>3. QED
    BY <2>2
<1>4. QED
  BY <1>1, <1>2, <1>3, FormulasAgree

(* The two sides of what MPI spawns agree, whatever the numbers of ranks    *)
(* and modules: launchModule gives a rank as many communicators to a module *)
(* as the module was given for that rank, and at least one in all.         *)
THEOREM LaunchedSidesAgree == Spec => []SidesAgree
  BY LaunchInductive, InvariantImpliesAgreement, PTL DEF Spec

-----------------------------------------------------------------------------
(* All parts *)

(* Every part keeps its type, whichever of them behaves: each keeps the     *)
(* invariant that was proved of it, and the type is one part of that.      *)
THEOREM PartsTypeCorrect == Spec => []PartsTypeOK
<1> DEFINE Together ==
        /\ LaunchInvariant /\ MPIInvariant /\ BatchInvariant /\ LoadInvariant
        /\ StartInvariant /\ DatabaseInvariant /\ PerformanceInvariant
<1>1. Init => Together
  BY LaunchInductive, MPIInvariantInductive, BatchInductive, LoadInductive, StartInductive,
     DatabaseInductive, PerformanceInductive
<1>2. Together /\ [Next]_vars => Together'
  BY LaunchInductive, MPIInvariantInductive, BatchInductive, LoadInductive,
     StartInductive, DatabaseInductive, PerformanceInductive
<1>3. Together => PartsTypeOK
  BY DEF LaunchInvariant, MPIInvariant, BatchInvariant, LoadInvariant, StartInvariant,
         DatabaseInvariant, PerformanceInvariant, PartsTypeOK
<1> HIDE DEF Together
<1>4. QED
  BY <1>1, <1>2, <1>3, PTL DEF Spec
=============================================================================
