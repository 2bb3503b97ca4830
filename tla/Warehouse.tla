------------------------------ MODULE Warehouse ------------------------------
(***************************************************************************)
(* warehouse/Warehouse_t.cc: the communicators of several clients behind   *)
(* one receive() and one ship().  receive() stamps each object with the    *)
(* index its communicator has in d_communicators, ship() uses the stamp to *)
(* find the way back, and receive() erases the communicator of a client    *)
(* that has gone.  The owner of the warehouse (a broker, or an adaptive    *)
(* sampling module) keeps what it receives as long as it likes.            *)
(*                                                                         *)
(* One action is one iteration of receive's loop or of ship's, so clients  *)
(* send and leave between any two.  An object is the pair of its client    *)
(* and its number; indices start at 1 here and at 0 in the code.  Some     *)
(* actions follow a variant with a slip in it, which no behaviour uses.    *)
(***************************************************************************)
EXTENDS Naturals, Sequences, FiniteSets, Functions, SequencesExt

CONSTANTS
    NumClients,   \* communicators the warehouse is constructed with
    MaxSent,      \* bound: client -> objects it sends
    Leavers       \* the clients that may disconnect

Clients == 1 .. NumClients

ASSUME ClientsAssumption ==
    NumClients \in Nat \ {0} /\ MaxSent \in [Clients -> Nat] /\ Leavers \subseteq Clients

VARIABLES
    \* the clients
    sent,      \* client -> number of objects sent
    inbox,     \* client -> numbers of the objects waiting on its communicator
    open,      \* client -> its end of the connection is open
    answers,   \* client -> the objects that were sent back to it
    \* d_communicators: the vector's storage, and how much of it is in use
    slots, size,
    \* receive(): communicatorId, iter and receivedObjects
    pc, communicatorId, iter, receivedObjects,
    \* the objects the owner of the warehouse has
    held

peers == <<sent, inbox, open, answers>>
vector == <<slots, size>>
pass == <<communicatorId, iter, receivedObjects>>
vars == <<peers, vector, pc, pass, held>>

Init ==
    /\ sent = [c \in Clients |-> 0]
    /\ inbox = [c \in Clients |-> <<>>]
    /\ open = [c \in Clients |-> TRUE]
    /\ answers = [c \in Clients |-> <<>>]
    /\ slots = [i \in Clients |-> i] /\ size = NumClients
    /\ pc = "idle" /\ communicatorId = 1 /\ iter = 1 /\ receivedObjects = <<>>
    /\ held = <<>>

-----------------------------------------------------------------------------
(* The clients *)

Send(c) ==
    /\ open[c] /\ sent[c] < MaxSent[c]
    /\ sent' = [sent EXCEPT ![c] = @ + 1]
    /\ inbox' = [inbox EXCEPT ![c] = Append(@, sent'[c])]
    /\ UNCHANGED <<open, answers, vector, pc, pass, held>>

Leave(c) ==
    /\ c \in Leavers /\ open[c]
    /\ open' = [open EXCEPT ![c] = FALSE]
    /\ UNCHANGED <<sent, inbox, answers, vector, pc, pass, held>>

-----------------------------------------------------------------------------
(* receive() *)

(* Without a communicator the owner is told that all connections are gone, *)
(* and stops.                                                              *)
Shutdown ==
    /\ pc = "idle" /\ size = 0
    /\ pc' = "shut"
    /\ UNCHANGED <<peers, vector, pass, held>>

BeginReceiveAtSecond ==
    /\ pc = "idle" /\ size > 0
    /\ pc' = "pass"
    /\ communicatorId' = 2 /\ iter' = 1
    /\ UNCHANGED <<peers, vector, receivedObjects, held>>
BeginReceiveKeepingIter ==
    /\ pc = "idle" /\ size > 0
    /\ pc' = "pass"
    /\ communicatorId' = 1 /\ UNCHANGED iter
    /\ UNCHANGED <<peers, vector, receivedObjects, held>>
BeginReceive ==
    /\ pc = "idle" /\ size > 0
    /\ pc' = "pass"
    /\ communicatorId' = 1 /\ iter' = 1
    /\ UNCHANGED <<peers, vector, receivedObjects, held>>

(* The next communicator has objects: all that waits is stamped and taken. *)
ReceiveObjectsStampingNext ==
    LET c == slots[communicatorId] IN
    /\ pc = "pass" /\ communicatorId <= size
    /\ inbox[c] # <<>>
    /\ receivedObjects' = receivedObjects \o
          [i \in DOMAIN inbox[c] |-> [owner |-> c, number |-> inbox[c][i], stamp |-> (communicatorId % size) + 1]]
    /\ inbox' = [inbox EXCEPT ![c] = <<>>]
    /\ communicatorId' = communicatorId + 1 /\ iter' = iter + 1
    /\ UNCHANGED <<sent, open, answers, vector, pc, held>>
ReceiveObjectsInFront ==
    LET c == slots[communicatorId] IN
    /\ pc = "pass" /\ communicatorId <= size
    /\ inbox[c] # <<>>
    /\ receivedObjects' = receivedObjects \o
          [i \in DOMAIN inbox[c] |-> [owner |-> c, number |-> Reverse(inbox[c])[i], stamp |-> communicatorId]]
    /\ inbox' = [inbox EXCEPT ![c] = <<>>]
    /\ communicatorId' = communicatorId + 1 /\ iter' = iter + 1
    /\ UNCHANGED <<sent, open, answers, vector, pc, held>>
ReceiveObjects ==
    LET c == slots[communicatorId] IN
    /\ pc = "pass" /\ communicatorId <= size
    /\ inbox[c] # <<>>
    /\ receivedObjects' = receivedObjects \o
          [i \in DOMAIN inbox[c] |-> [owner |-> c, number |-> inbox[c][i], stamp |-> communicatorId]]
    /\ inbox' = [inbox EXCEPT ![c] = <<>>]
    /\ communicatorId' = communicatorId + 1 /\ iter' = iter + 1
    /\ UNCHANGED <<sent, open, answers, vector, pc, held>>

(* It has none.  The communicator unlocks its bucket, and looks then       *)
(* whether the connection is still up.                                     *)
ReceiveNothing ==
    /\ pc = "pass" /\ communicatorId <= size
    /\ inbox[slots[communicatorId]] = <<>>
    /\ pc' = "check"
    /\ UNCHANGED <<peers, vector, pass, held>>

StillConnected ==
    /\ pc = "check" /\ open[slots[communicatorId]]
    /\ pc' = "pass"
    /\ communicatorId' = communicatorId + 1 /\ iter' = iter + 1
    /\ UNCHANGED <<peers, vector, receivedObjects, held>>

(* std::vector::erase(iter): the elements behind it move one down, and the *)
(* storage they leave keeps what was in it.                                *)
Erase(i) ==
    /\ slots' = [j \in Clients |-> IF i <= j /\ j < size THEN slots[j + 1] ELSE slots[j]]
    /\ size' = size - 1

(* The client has gone: what iter is at is erased.  The index advances all *)
(* the same, and what arrived since ReceiveNothing is lost.                *)
RemoveCommunicatorWithoutErase ==
    /\ pc = "check" /\ ~open[slots[communicatorId]]
    /\ pc' = "pass"
    /\ communicatorId' = communicatorId + 1 /\ iter' = iter + 1
    /\ UNCHANGED <<peers, vector, receivedObjects, held>>
RemoveSilentCommunicator ==
    /\ pc = "check"
    /\ Erase(iter)
    /\ pc' = "pass"
    /\ communicatorId' = communicatorId + 1
    /\ UNCHANGED <<peers, iter, receivedObjects, held>>
RemoveCommunicator ==
    /\ pc = "check" /\ ~open[slots[communicatorId]]
    /\ Erase(iter)
    /\ pc' = "pass"
    /\ communicatorId' = communicatorId + 1
    /\ UNCHANGED <<peers, iter, receivedObjects, held>>

EndReceiveReplacing ==
    /\ pc = "pass" /\ communicatorId > size
    /\ held' = receivedObjects
    /\ receivedObjects' = <<>>
    /\ pc' = "idle"
    /\ UNCHANGED <<peers, vector, communicatorId, iter>>
EndReceive ==
    /\ pc = "pass" /\ communicatorId > size
    /\ held' = held \o receivedObjects
    /\ receivedObjects' = <<>>
    /\ pc' = "idle"
    /\ UNCHANGED <<peers, vector, communicatorId, iter>>

-----------------------------------------------------------------------------
(* ship() *)

(* The owner is done with an object, and it is sent on the communicator at *)
(* the index it was stamped with.  ship() does not look at size: past it,  *)
(* it may find the communicator that was there before.                     *)
Ship(i) ==
    LET o == held[i] IN
    /\ pc = "idle" /\ i \in DOMAIN held
    /\ open[slots[o.stamp]]
    /\ answers' = [answers EXCEPT ![slots[o.stamp]] = Append(@, [owner |-> o.owner, number |-> o.number])]
    /\ held' = RemoveAt(held, i)
    /\ UNCHANGED <<sent, inbox, open, vector, pc, pass>>

(* ... the client has gone and the send throws, or past size there is no   *)
(* communicator to be found: the owner dies.                               *)
ShipFails(i) ==
    LET o == held[i] IN
    /\ pc = "idle" /\ i \in DOMAIN held
    /\ ~open[slots[o.stamp]] \/ o.stamp > size
    /\ pc' = "dead"
    /\ UNCHANGED <<peers, vector, pass, held>>

(* An owner that has stopped stays as it is.                               *)
Rest == pc \in {"shut", "dead"} /\ UNCHANGED vars

-----------------------------------------------------------------------------
Receive ==
    \/ Shutdown \/ BeginReceive
    \/ ReceiveObjects \/ ReceiveNothing \/ StillConnected \/ RemoveCommunicator
    \/ EndReceive

Next ==
    \/ \E c \in Clients : Send(c) \/ Leave(c)
    \/ Receive
    \/ \E i \in DOMAIN held : Ship(i) \/ ShipFails(i)
    \/ Rest

Spec == Init /\ [][Next]_vars

(* The owner calls receive() again and again.                              *)
FairSpec == Spec /\ WF_vars(Receive)

-----------------------------------------------------------------------------
(* Properties *)

Numbers == Nat \ {0}
Objects == [owner : Clients, number : Numbers]
Stamped == [owner : Clients, number : Numbers, stamp : Clients]

(* Every variable keeps its type, no stamp or index leaves the vector's    *)
(* storage, and the iterator never overtakes the index.                    *)
TypeOK ==
    /\ sent \in [Clients -> Nat] /\ (\A c \in Clients : sent[c] <= MaxSent[c])
    /\ inbox \in [Clients -> Seq(Numbers)]
    /\ open \in [Clients -> BOOLEAN]
    /\ answers \in [Clients -> Seq(Objects)]
    /\ slots \in [Clients -> Clients] /\ size \in 0 .. NumClients
    /\ pc \in {"idle", "pass", "check", "shut", "dead"}
    /\ communicatorId \in 1 .. NumClients + 1
    /\ iter \in 1 .. communicatorId
    /\ receivedObjects \in Seq(Stamped)
    /\ held \in Seq(Stamped)

(* The objects the warehouse and its owner have, in the order in which     *)
(* they got them, and the numbers of those of a client.                    *)
InHand == held \o receivedObjects
NumbersOf(c, objects) == {o.number : o \in {o \in Range(objects) : o.owner = c}}
Answered(c) == UNION {NumbersOf(c, answers[d]) : d \in Clients}

(* The owner gets the objects of one client in the order they were sent,   *)
(* and before those that still wait on the client's communicator.          *)
InOrder(objects) ==
    \A i, j \in DOMAIN objects :
        i < j /\ objects[i].owner = objects[j].owner => objects[i].number < objects[j].number
InOrderOfSending ==
    /\ InOrder(InHand)
    /\ \A c \in Clients : \A i \in DOMAIN inbox[c] :
           /\ \A n \in NumbersOf(c, InHand) : n < inbox[c][i]
           /\ \A j \in DOMAIN inbox[c] : i < j => inbox[c][i] < inbox[c][j]

(* Each object a client has sent is on its way, with the owner, or was     *)
(* sent back, to somebody, exactly once: erasing communicators in the      *)
(* middle of a pass neither drops a batch nor receives one twice.          *)
EachObjectOnce ==
    /\ \A i, j \in DOMAIN InHand :
           InHand[i].owner = InHand[j].owner /\ InHand[i].number = InHand[j].number => i = j
    /\ \A c \in Clients :
           /\ IsInjective(inbox[c])
           /\ Range(inbox[c]) \cap NumbersOf(c, InHand) = {}
           /\ Answered(c) \cap (Range(inbox[c]) \cup NumbersOf(c, InHand)) = {}
           /\ Answered(c) \cup Range(inbox[c]) \cup NumbersOf(c, InHand) = 1 .. sent[c]

(* The clients that have gone.                                             *)
Gone == {c \in Clients : ~open[c]}

(* When one client has left every other one still has its communicator.    *)
NobodyForgotten ==
    Cardinality(Gone) <= 1 => \A c \in Clients \ Gone : \E i \in 1 .. size : slots[i] = c

(* While nobody but the last client has left, what comes back to a client  *)
(* is what it sent itself.                                                 *)
UnshiftedAnswersReachOwner ==
    Gone \subseteq {NumClients} =>
        \A c \in Clients : \A o \in Range(answers[c]) : o.owner = c

(* base/ModelPackage.h:93: the communicator id is for routing the package, *)
(* so that what comes back to a client is what it sent itself.             *)
AnswersReachOwner ==
    \A c \in Clients : \A o \in Range(answers[c]) : o.owner = c

(* What a client that stays has sent is received, even when erasing        *)
(* another's communicator makes the pass jump over the next one.           *)
SentIsReceived ==
    \A c \in Clients :
        inbox[c] # <<>> ~>
            inbox[c] = <<>> \/ c \in Gone \/ Cardinality(Gone) > 1 \/ pc \in {"shut", "dead"}

(* Once all clients have gone the owner is told so.                        *)
ShutsDown == Gone = Clients ~> pc \in {"shut", "dead"}

(* Warehouse_t.cc:120: if a connection is terminated its communicator is   *)
(* removed, and no other.                                                  *)
RemovesTerminated ==
    [][\A c \in Clients :
          (\E i \in 1 .. size : slots[i] = c) /\ ~(\E i \in 1 .. size' : slots'[i] = c)
             => ~open[c]]_vars

=============================================================================
