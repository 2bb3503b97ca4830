---------------------------- MODULE SocketChannel ----------------------------
(***************************************************************************)
(* comm/SocketCommunicator.cc: one direction of a connection.  The threads *)
(* of one process send objects, each behind a header with its size, in as  *)
(* many pieces as the socket takes.  In the other process a receive thread *)
(* moves the pieces it finds on the socket to the bucket, and the reader   *)
(* cuts complete objects off the front of the bucket.  Three locks keep    *)
(* them apart: d_sendLock, d_bucketLock and d_isConnectedLock.             *)
(*                                                                         *)
(* A unit of the stream is <<m, k>>, the k-th unit of message m: first its *)
(* header, then its data.  The stream is reliable and in order until one   *)
(* end closes; what the sender has sent by then still arrives.  Some       *)
(* operators follow a variant with a slip in it, which no behaviour uses.  *)
(***************************************************************************)
EXTENDS Naturals, Sequences, Functions, SequencesExt

CONSTANTS
    Senders,       \* threads that send on the communicator
    Messages,      \* the objects they send
    Program,       \* sender -> the sequence of objects it sends
    Size,          \* object -> size of its data
    HeaderLength,  \* size of a header (8 characters)
    BufferSize,    \* receiveBufferSize, the most that one recv returns
    Leavers        \* the ends that may close: "sender", "receiver"

ASSUME SendersAssumption ==
    /\ Program \in [Senders -> Seq(Messages)]
    /\ \A s \in Senders : IsInjective(Program[s])
    /\ \A s, t \in Senders : s # t => Range(Program[s]) \cap Range(Program[t]) = {}
ASSUME SizesAssumption ==
    /\ Size \in [Messages -> Nat \ {0}]
    /\ HeaderLength \in Nat \ {0} /\ BufferSize \in Nat \ {0}
ASSUME LeaversAssumption == Leavers \subseteq {"sender", "receiver"}

VARIABLES
    \* the sending process
    at,           \* sender -> position in its program
    spc,          \* sender -> "ready", "sending" or "threw"
    sentSize,     \* sender -> units of the current object that are sent
    sendLock,     \* the senders that hold d_sendLock
    open,         \* this end of the connection is open
    log,          \* history: the objects in the order they were begun
    \* the socket
    wire,         \* units sent and not yet received
    \* the receive thread
    tpc,          \* "recv", "append" or "ended"
    receiveBuffer,
    isConnected,  \* d_isConnected
    \* the reader
    bucket,       \* d_bucket
    rpc,          \* "idle", "parse" (holding d_bucketLock), "check", "terminated", "left"
    headerStart,  \* units of the bucket that are read
    returnValue,
    delivered     \* what the reader's calls have returned so far

sending   == <<at, spc, sentSize, sendLock, log>>
receiving == <<tpc, receiveBuffer, isConnected>>
reading   == <<rpc, headerStart, returnValue, delivered>>
vars == <<sending, open, wire, receiving, bucket, reading>>

Object(m) == [k \in 1 .. Size[m] |-> <<m, HeaderLength + k>>]
Header(m) == [k \in 1 .. HeaderLength |-> <<m, k>>]
Frame(m)  == Header(m) \o Object(m)

Init ==
    /\ at = [s \in Senders |-> 1]
    /\ spc = [s \in Senders |-> "ready"]
    /\ sentSize = [s \in Senders |-> 0]
    /\ sendLock = {} /\ open = TRUE /\ log = <<>>
    /\ wire = <<>>
    /\ tpc = "recv" /\ receiveBuffer = <<>> /\ isConnected = TRUE
    /\ bucket = <<>>
    /\ rpc = "idle" /\ headerStart = 0 /\ returnValue = <<>> /\ delivered = <<>>

-----------------------------------------------------------------------------
(* sendSerialized(), called by any thread of the sending process *)

Current(s) == Program[s][at[s]]

LockWithoutWaiting(s) ==
    /\ open /\ spc[s] = "ready" /\ at[s] <= Len(Program[s])
    /\ sendLock' = sendLock \cup {s}
    /\ spc' = [spc EXCEPT ![s] = "sending"]
    /\ sentSize' = [sentSize EXCEPT ![s] = 0]
    /\ log' = Append(log, Current(s))
    /\ UNCHANGED <<at, open, wire, receiving, bucket, reading>>
Lock(s) ==
    /\ open /\ spc[s] = "ready" /\ at[s] <= Len(Program[s])
    /\ sendLock = {}
    /\ sendLock' = {s}
    /\ spc' = [spc EXCEPT ![s] = "sending"]
    /\ sentSize' = [sentSize EXCEPT ![s] = 0]
    /\ log' = Append(log, Current(s))
    /\ UNCHANGED <<at, open, wire, receiving, bucket, reading>>

(* send() takes as much of the rest as it likes, but something.            *)
SendPart(s) ==
    /\ open /\ spc[s] = "sending"
    /\ \E n \in 1 .. Len(Frame(Current(s))) - sentSize[s] :
        /\ wire' = wire \o SubSeq(Frame(Current(s)), sentSize[s] + 1, sentSize[s] + n)
        /\ sentSize' = [sentSize EXCEPT ![s] = @ + n]
    /\ UNCHANGED <<at, spc, sendLock, log, open, receiving, bucket, reading>>

(* The other end has closed: send() fails, and the exception leaves        *)
(* d_sendLock locked.                                                      *)
SendFails(s) ==
    /\ open /\ spc[s] = "sending"
    /\ sentSize[s] < Len(Frame(Current(s)))
    /\ rpc = "left"
    /\ spc' = [spc EXCEPT ![s] = "threw"]
    /\ UNCHANGED <<at, sentSize, sendLock, log, open, wire, receiving, bucket, reading>>

UnlockNever(s) ==
    /\ open /\ spc[s] = "sending"
    /\ sentSize[s] = Len(Frame(Current(s)))
    /\ spc' = [spc EXCEPT ![s] = "ready"]
    /\ at' = [at EXCEPT ![s] = @ + 1]
    /\ UNCHANGED <<sentSize, sendLock, log, open, wire, receiving, bucket, reading>>
Unlock(s) ==
    /\ open /\ spc[s] = "sending"
    /\ sentSize[s] = Len(Frame(Current(s)))
    /\ sendLock' = sendLock \ {s}
    /\ spc' = [spc EXCEPT ![s] = "ready"]
    /\ at' = [at EXCEPT ![s] = @ + 1]
    /\ UNCHANGED <<sentSize, log, open, wire, receiving, bucket, reading>>

(* The sending process ends, perhaps in the middle of an object.           *)
SenderCloses ==
    /\ "sender" \in Leavers /\ open
    /\ open' = FALSE
    /\ UNCHANGED <<sending, wire, receiving, bucket, reading>>

-----------------------------------------------------------------------------
(* receiveThread() *)

Receive ==
    /\ tpc = "recv" /\ wire # <<>> /\ rpc # "left"
    /\ \E n \in 1 .. Len(wire) :
        /\ n <= BufferSize
        /\ receiveBuffer' = SubSeq(wire, 1, n)
        /\ wire' = SubSeq(wire, n + 1, Len(wire))
    /\ tpc' = "append"
    /\ UNCHANGED <<sending, open, isConnected, bucket, reading>>

(* The buffer goes to the end of the bucket, under d_bucketLock.           *)
AppendBuffer ==
    /\ tpc = "append" /\ rpc \notin {"parse", "left"}
    /\ bucket' = bucket \o receiveBuffer
    /\ receiveBuffer' = <<>>
    /\ tpc' = "recv"
    /\ UNCHANGED <<sending, open, wire, isConnected, reading>>

(* recv() finds the connection closed, and the thread ends.                *)
EndThreadSilently ==
    /\ tpc = "recv" /\ wire = <<>> /\ ~open /\ rpc # "left"
    /\ tpc' = "ended"
    /\ UNCHANGED <<sending, open, wire, receiveBuffer, isConnected, bucket, reading>>
EndThread ==
    /\ tpc = "recv" /\ wire = <<>> /\ ~open /\ rpc # "left"
    /\ isConnected' = FALSE
    /\ tpc' = "ended"
    /\ UNCHANGED <<sending, open, wire, receiveBuffer, bucket, reading>>

-----------------------------------------------------------------------------
(* receiveSerialized(), called by one thread of the receiving process *)

BeginReceive ==
    /\ rpc = "idle"
    /\ rpc' = "parse" /\ headerStart' = 0 /\ returnValue' = <<>>
    /\ UNCHANGED <<sending, open, wire, receiving, bucket, delivered>>

(* The size in the header at headerStart; no number can be read from what  *)
(* is not a header.                                                        *)
headerEnd == headerStart + HeaderLength
DataSize ==
    LET header == SubSeq(bucket, headerStart + 1, headerEnd) IN
    IF \E m \in Messages : header = Header(m)
      THEN Size[CHOOSE m \in Messages : header = Header(m)]
      ELSE 0

(* A full header, and all of its data, are in the bucket.                  *)
HasObjectAndMore ==
    Len(bucket) > headerEnd /\ Len(bucket) > headerEnd + DataSize
HasObject ==
    Len(bucket) > headerEnd /\ Len(bucket) >= headerEnd + DataSize

TakeObject ==
    /\ rpc = "parse" /\ HasObject
    /\ returnValue' = Append(returnValue, SubSeq(bucket, headerEnd + 1, headerEnd + DataSize))
    /\ headerStart' = headerEnd + DataSize
    /\ UNCHANGED <<sending, open, wire, receiving, bucket, rpc, delivered>>

(* What is read is erased from the bucket, and the bucket is unlocked.     *)
EndReceive ==
    /\ rpc = "parse" /\ ~HasObject
    /\ bucket' = SubSeq(bucket, headerStart + 1, Len(bucket))
    /\ IF returnValue = <<>>
        THEN rpc' = "check" /\ UNCHANGED delivered
        ELSE rpc' = "idle" /\ delivered' = delivered \o returnValue
    /\ headerStart' = 0 /\ returnValue' = <<>>
    /\ UNCHANGED <<sending, open, wire, receiving>>

(* Nothing was read: is the connection still up?                           *)
ReturnNothing ==
    /\ rpc = "check" /\ isConnected
    /\ rpc' = "idle"
    /\ UNCHANGED <<sending, open, wire, receiving, bucket, headerStart, returnValue, delivered>>

(* It is not: a ConnectionTerminationException, after which the owner does *)
(* not call again.                                                         *)
Terminate ==
    /\ rpc = "check" /\ ~isConnected
    /\ rpc' = "terminated"
    /\ UNCHANGED <<sending, open, wire, receiving, bucket, headerStart, returnValue, delivered>>

(* The receiving process ends.                                             *)
ReceiverLeaves ==
    /\ "receiver" \in Leavers /\ rpc # "left"
    /\ rpc' = "left"
    /\ UNCHANGED <<sending, open, wire, receiving, bucket, headerStart, returnValue, delivered>>

-----------------------------------------------------------------------------
SendSerialized(s) == Lock(s) \/ SendPart(s) \/ SendFails(s) \/ Unlock(s)
ReceiveThread == Receive \/ AppendBuffer \/ EndThread
ReceiveSerialized ==
    BeginReceive \/ TakeObject \/ EndReceive \/ ReturnNothing \/ Terminate

(* Nobody has anything left to do, or everybody has gone or waits.         *)
Rest == rpc \in {"terminated", "left"} /\ UNCHANGED vars

Next ==
    \/ \E s \in Senders : SendSerialized(s)
    \/ SenderCloses \/ ReceiverLeaves
    \/ ReceiveThread
    \/ ReceiveSerialized
    \/ Rest

Spec == Init /\ [][Next]_vars

(* Threads keep running, and the reader calls again and again.  It gives   *)
(* d_bucketLock back before each new call and is away from it for the rest *)
(* of its own loop, so a receive thread that waits for the lock gets it.   *)
FairSpec ==
    /\ Spec
    /\ \A s \in Senders : WF_vars(SendSerialized(s))
    /\ WF_vars(ReceiveThread) /\ SF_vars(AppendBuffer)
    /\ WF_vars(ReceiveSerialized)

-----------------------------------------------------------------------------
(* Properties *)

Unit == Messages \X (Nat \ {0})

(* Every variable keeps its type, the lock has at most one holder, the     *)
(* thread's buffer is empty except between a recv and the append, and what *)
(* is read of the bucket is in the bucket.                                 *)
TypeOK ==
    /\ \A s \in Senders : at[s] \in 1 .. Len(Program[s]) + 1
    /\ spc \in [Senders -> {"ready", "sending", "threw"}]
    /\ sentSize \in [Senders -> Nat]
    /\ sendLock = {s \in Senders : spc[s] # "ready"}
    /\ \A s, t \in sendLock : s = t
    /\ open \in BOOLEAN /\ log \in Seq(Messages)
    /\ wire \in Seq(Unit) /\ bucket \in Seq(Unit)
    /\ tpc \in {"recv", "append", "ended"} /\ isConnected \in BOOLEAN
    /\ receiveBuffer \in Seq(Unit) /\ (receiveBuffer # <<>> <=> tpc = "append")
    /\ rpc \in {"idle", "parse", "check", "terminated", "left"}
    /\ headerStart \in 0 .. Len(bucket)
    /\ returnValue \in Seq(Seq(Unit)) /\ delivered \in Seq(Seq(Unit))

(* The reader gets the very objects that were sent, whole, in the order in *)
(* which their senders got the lock, whatever the pieces in which they     *)
(* came and wherever a sender stopped: objects of two threads never mix.   *)
DeliveredInOrder ==
    IsPrefix(delivered \o returnValue, [i \in DOMAIN log |-> Object(log[i])])

(* An object that was sent completely is returned to the reader, with no   *)
(* help from later traffic, unless the reader is told of the end first.    *)
Completed(m) == \E s \in Senders : \E i \in 1 .. at[s] - 1 : Program[s][i] = m
CompletedIsDelivered ==
    \A m \in Messages :
        Completed(m) ~> Object(m) \in Range(delivered) \/ rpc \in {"terminated", "left"}

(* The reader is told when the sender has gone, though the thread that     *)
(* finds out has ended, and though half an object may be in the bucket.    *)
ClosingIsNoticed == ~open ~> rpc \in {"terminated", "left"}

(* While the receiver is there a send returns, also when several threads   *)
(* want to send at once.                                                   *)
SendsReturn ==
    \A s \in Senders : \A i \in DOMAIN Program[s] :
        at[s] = i ~> at[s] > i \/ ~open \/ rpc = "left"

(* SocketCommunicator.cc:775: all possible objects are returned before the *)
(* exception is thrown.                                                    *)
AllReturnedBeforeTermination ==
    rpc = "terminated" => \A m \in Messages : Completed(m) => Object(m) \in Range(delivered)

=============================================================================
