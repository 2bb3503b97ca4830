----------------------------- MODULE MPIChannel -----------------------------
(***************************************************************************)
(* comm/MPICommunicator.cc: a process that owns a warehouse of MPI          *)
(* communicators to several clients.  One of its threads receives from them *)
(* in turn, as Warehouse::receive does; another one ships.  All calls of    *)
(* MPI in a process are made under one mutex.  A client sends without       *)
(* blocking, keeps what it sends until the send is complete, and announces  *)
(* its end with a message that has a tag of its own.                        *)
(*                                                                         *)
(* MPI keeps messages with one tag in order, and completes a send at any    *)
(* time, at the latest when it is received.  Some definitions follow a      *)
(* variant with a slip in it: no behaviour uses it.                         *)
(***************************************************************************)
EXTENDS Integers, Sequences, FiniteSets, SequencesExt, FiniteSetsExt, Functions

CONSTANTS
    NumClients,     \* clients of the process
    MaxMessages     \* bound: client -> messages it sends

ASSUME MPIChannelAssumption ==
    /\ NumClients \in Nat \ {0}
    /\ MaxMessages \in [1 .. NumClients -> Nat]

VARIABLES
    \* a client
    clientAt,       \* "open", in its destructor ("wait"), or "closed"
    numberSent,     \* messages it has sent
    sendRequests,   \* d_sendRequests
    \* MPI
    inTransit,      \* messages with sendReceiveTag that were not received
    incomplete,     \* messages whose send is not complete
    termination,    \* clients whose message with terminationTag is waiting
    \* the process
    mpiMutex,       \* the thread that holds it, or "none"
    receiverAt,     \* where the receiving thread is
    iterator,       \* the communicator it is at
    registered,     \* the communicators of the warehouse
    returnValue,    \* what this call of receiveSerialized has received
    gathered,       \* client -> what the warehouse has returned from it
    shipped         \* whether the shipping thread has done its work

client == <<clientAt, numberSent, sendRequests>>
network == <<inTransit, incomplete, termination>>
receiving == <<receiverAt, iterator, registered, returnValue, gathered>>
mpiVars == <<client, network, mpiMutex, receiving, shipped>>

Clients == 1 .. NumClients

MPIInit ==
    /\ clientAt = [c \in Clients |-> "open"]
    /\ numberSent = [c \in Clients |-> 0]
    /\ sendRequests = [c \in Clients |-> {}]
    /\ inTransit = [c \in Clients |-> <<>>]
    /\ incomplete = [c \in Clients |-> {}]
    /\ termination = {}
    /\ mpiMutex = "none"
    /\ receiverAt = "next" /\ iterator = 1
    /\ registered = Clients
    /\ returnValue = <<>>
    /\ gathered = [c \in Clients |-> <<>>]
    /\ shipped = FALSE

-----------------------------------------------------------------------------
(* A client.  Its own mutex has no other user.                              *)

(* sendSerialized: the message and its request are kept, then every request *)
(* that is complete is erased.                                              *)
Untested(requests, open) == {}
Outstanding(requests, open) == requests \cap open
Send(c) ==
    /\ clientAt[c] = "open" /\ numberSent[c] < MaxMessages[c]
    /\ LET m == numberSent[c] + 1 IN
        /\ numberSent' = [numberSent EXCEPT ![c] = m]
        /\ inTransit' = [inTransit EXCEPT ![c] = Append(@, m)]
        /\ \E open \in {incomplete[c], incomplete[c] \cup {m}} :
            /\ incomplete' = [incomplete EXCEPT ![c] = open]
            /\ sendRequests' = [sendRequests EXCEPT ![c] = Outstanding(@ \cup {m}, open)]
    /\ UNCHANGED <<clientAt, termination, mpiMutex, receiving, shipped>>

Complete(c) ==
    /\ \E m \in incomplete[c] : incomplete' = [incomplete EXCEPT ![c] = @ \ {m}]
    /\ UNCHANGED <<client, inTransit, termination, mpiMutex, receiving, shipped>>

(* The destructor waits for the requests and sends the termination notice.  *)
Close(c) ==
    /\ clientAt[c] = "open"
    /\ clientAt' = [clientAt EXCEPT ![c] = "wait"]
    /\ UNCHANGED <<numberSent, sendRequests, network, mpiMutex, receiving, shipped>>

Terminate(c) ==
    /\ clientAt[c] = "wait" /\ sendRequests[c] \cap incomplete[c] = {}
    /\ clientAt' = [clientAt EXCEPT ![c] = "closed"]
    /\ sendRequests' = [sendRequests EXCEPT ![c] = {}]
    /\ termination' = termination \cup {c}
    /\ UNCHANGED <<numberSent, inTransit, incomplete, mpiMutex, receiving, shipped>>

-----------------------------------------------------------------------------
(* The receiving thread: Warehouse::receive over receiveSerialized.         *)

Holds(thread) == mpiMutex = thread
ReceiverIs(place) == receiverAt = place

(* The communicator to receive from after c; none if the warehouse is empty. *)
Following(c, those) ==
    LET later == {d \in those : d > c} IN
    CASE those = {} -> 0 [] later # {} -> Min(later) [] OTHER -> Min(those)

LockToReceive ==
    /\ ReceiverIs("next") /\ iterator # 0 /\ mpiMutex = "none"
    /\ mpiMutex' = "receiver"
    /\ receiverAt' = "receive"
    /\ UNCHANGED <<client, network, iterator, registered, returnValue, gathered, shipped>>

ReceiveMessage ==
    /\ ReceiverIs("receive") /\ inTransit[iterator] # <<>>
    /\ returnValue' = Append(returnValue, Head(inTransit[iterator]))
    /\ inTransit' = [inTransit EXCEPT ![iterator] = Tail(@)]
    /\ incomplete' = [incomplete EXCEPT ![iterator] = @ \ {Head(inTransit[iterator])}]
    /\ UNCHANGED <<client, termination, mpiMutex, receiverAt, iterator, registered>>
    /\ UNCHANGED <<gathered, shipped>>

(* No more messages; without any, the termination tag is probed next.       *)
ReceiveNoMessage ==
    /\ ReceiverIs("receive") /\ inTransit[iterator] = <<>>
    /\ receiverAt' = IF returnValue = <<>> THEN "terminate" ELSE "return"
    /\ UNCHANGED <<client, network, mpiMutex, iterator, registered, returnValue, gathered, shipped>>

ReceiveNoTermination ==
    /\ ReceiverIs("terminate") /\ iterator \notin termination
    /\ receiverAt' = "return"
    /\ UNCHANGED <<client, network, mpiMutex, iterator, registered, returnValue, gathered, shipped>>

(* The exception leaves receiveSerialized without unlocking, and the        *)
(* warehouse goes on with the communicators that are left.                  *)
ReceiveTerminationNotice ==
    /\ ReceiverIs("terminate") /\ iterator \in termination
    /\ termination' = termination \ {iterator}
    /\ registered' = registered \ {iterator}
    /\ iterator' = Following(iterator, registered')
    /\ receiverAt' = "next"
    /\ UNCHANGED <<client, inTransit, incomplete, mpiMutex, returnValue, gathered, shipped>>

KeepLocked == mpiMutex
Unlock == "none"
ReturnReceived ==
    /\ ReceiverIs("return")
    /\ mpiMutex' = Unlock
    /\ gathered' = [gathered EXCEPT ![iterator] = @ \o returnValue]
    /\ returnValue' = <<>>
    /\ iterator' = Following(iterator, registered)
    /\ receiverAt' = "next"
    /\ UNCHANGED <<client, network, registered, shipped>>

(* The owner ends, because no communicator is left or because of an error   *)
(* elsewhere, and destroys them all; each destructor takes the mutex.       *)
Destroy ==
    /\ ReceiverIs("next") /\ mpiMutex = "none"
    /\ receiverAt' = "ended"
    /\ UNCHANGED <<client, network, mpiMutex, iterator, registered, returnValue, gathered, shipped>>

-----------------------------------------------------------------------------
(* The shipping thread: sendSerialized, all of it under the mutex.          *)
LockToShip ==
    /\ ~shipped /\ mpiMutex = "none"
    /\ mpiMutex' = "shipper"
    /\ UNCHANGED <<client, network, receiving, shipped>>
UnlockShipped ==
    /\ Holds("shipper")
    /\ mpiMutex' = "none"
    /\ shipped' = TRUE
    /\ UNCHANGED <<client, network, receiving>>

Receiver ==
    \/ LockToReceive \/ ReceiveMessage \/ ReceiveNoMessage
    \/ ReceiveNoTermination \/ ReceiveTerminationNotice \/ ReturnReceived \/ Destroy
Shipper == LockToShip \/ UnlockShipped
ClientStep(c) == Send(c) \/ Close(c) \/ Terminate(c)

MPINext ==
    \/ Receiver \/ Shipper
    \/ \E c \in Clients : ClientStep(c) \/ Complete(c)
-----------------------------------------------------------------------------
(* Properties *)

MPITypeOK ==
    /\ clientAt \in [Clients -> {"open", "wait", "closed"}]
    /\ numberSent \in [Clients -> Nat]
    /\ \A c \in Clients : numberSent[c] <= MaxMessages[c]
    /\ {sendRequests, incomplete} \subseteq [Clients -> SUBSET Nat]
    /\ \A c \in Clients : sendRequests[c] \cup incomplete[c] \subseteq 1 .. numberSent[c]
    /\ {inTransit, gathered} \subseteq [Clients -> Seq(Nat)]
    /\ returnValue \in Seq(Nat)
    /\ termination \cup registered \subseteq Clients
    /\ mpiMutex \in {"none", "receiver", "shipper"}
    /\ receiverAt \in {"next", "receive", "terminate", "return", "ended"}
    /\ iterator \in 0 .. NumClients
    /\ shipped \in BOOLEAN

(* What a client whose communicator is still in the warehouse has sent was  *)
(* returned, is being received or is on its way, in the order of sending;   *)
(* and a client keeps the memory of every send that is not complete.        *)
BeingReceived(c) == IF iterator = c THEN returnValue ELSE <<>>
MessagesAccounted ==
    /\ \A c \in registered :
           gathered[c] \o BeingReceived(c) \o inTransit[c] = [i \in 1 .. numberSent[c] |-> i]
    /\ \A c \in Clients : incomplete[c] \subseteq sendRequests[c]

(* Both threads get the mutex they share: what is sent is received, and the *)
(* shipping thread gets done although the other has the mutex again and     *)
(* again.  This ends with the first termination notice, whose exception     *)
(* keeps the mutex for good.                                                *)
TerminationReceived == registered # Clients
MessagesReceived ==
    LET over == TerminationReceived \/ ReceiverIs("ended") IN
    /\ \A c \in Clients : \A n \in 1 .. MaxMessages[c] :
           numberSent[c] >= n ~> Len(gathered[c]) >= n \/ over
    /\ Holds("receiver") ~> shipped \/ over
=============================================================================
