------------------------- MODULE SocketChannelProofs -------------------------
(* What SocketChannel guarantees for every number of senders, objects and  *)
(* sizes, and every way in which the stream is cut to pieces.              *)
EXTENDS SocketChannel, Integers, SequenceTheorems, TLAPS

-----------------------------------------------------------------------------
(* Frames and streams *)

FrameLength(m) == HeaderLength + Size[m]

(* A function on 1 .. n is a sequence of length n.                         *)
LEMMA FunctionIsSequence ==
    ASSUME NEW S, NEW n \in Nat, NEW f \in [1 .. n -> S]
    PROVE  f \in Seq(S) /\ Len(f) = n
BY SeqDef

(* A frame is its header followed by its data, unit by unit.               *)
LEMMA FrameFacts ==
    ASSUME NEW m \in Messages
    PROVE  /\ Size[m] \in Nat \ {0} /\ HeaderLength \in Nat \ {0}
           /\ FrameLength(m) \in Nat \ {0}
           /\ Header(m) \in Seq(Unit) /\ Len(Header(m)) = HeaderLength
           /\ Object(m) \in Seq(Unit) /\ Len(Object(m)) = Size[m]
           /\ Frame(m) \in Seq(Unit) /\ Len(Frame(m)) = FrameLength(m)
           /\ \A k \in 1 .. FrameLength(m) : Frame(m)[k] = <<m, k>>
<1>1. Size[m] \in Nat \ {0} /\ HeaderLength \in Nat \ {0} /\ FrameLength(m) \in Nat \ {0}
  BY SizesAssumption DEF FrameLength
<1>2. Header(m) \in Seq(Unit) /\ Len(Header(m)) = HeaderLength
      /\ \A k \in 1 .. HeaderLength : Header(m)[k] = <<m, k>>
  <2>1. \A k \in 1 .. HeaderLength : <<m, k>> \in Unit
    BY <1>1 DEF Unit
  <2>2. Header(m) \in [1 .. HeaderLength -> Unit]
    BY <2>1 DEF Header
  <2>3. Header(m) \in Seq(Unit) /\ Len(Header(m)) = HeaderLength
    BY <1>1, <2>2, FunctionIsSequence
  <2>4. QED
    BY <2>3 DEF Header
<1>3. Object(m) \in Seq(Unit) /\ Len(Object(m)) = Size[m]
      /\ \A k \in 1 .. Size[m] : Object(m)[k] = <<m, HeaderLength + k>>
  <2>1. \A k \in 1 .. Size[m] : <<m, HeaderLength + k>> \in Unit
    BY <1>1 DEF Unit
  <2>2. Object(m) \in [1 .. Size[m] -> Unit]
    BY <2>1 DEF Object
  <2>3. Object(m) \in Seq(Unit) /\ Len(Object(m)) = Size[m]
    BY <1>1, <2>2, FunctionIsSequence
  <2>4. QED
    BY <2>3 DEF Object
<1>4. /\ Frame(m) \in Seq(Unit) /\ Len(Frame(m)) = HeaderLength + Size[m]
      /\ \A k \in 1 .. HeaderLength + Size[m] :
             Frame(m)[k] = IF k <= HeaderLength THEN Header(m)[k] ELSE Object(m)[k - HeaderLength]
  <2> DEFINE h == Header(m)
             o == Object(m)
  <2>1. h \in Seq(Unit) /\ o \in Seq(Unit) /\ Len(h) = HeaderLength /\ Len(o) = Size[m]
    BY <1>2, <1>3
  <2> HIDE DEF h, o
  <2>2. /\ h \o o \in Seq(Unit) /\ Len(h \o o) = Len(h) + Len(o)
        /\ \A k \in 1 .. Len(h) + Len(o) :
              (h \o o)[k] = IF k <= Len(h) THEN h[k] ELSE o[k - Len(h)]
    BY <2>1, ConcatProperties
  <2>3. QED
    BY <2>1, <2>2 DEF Frame, h, o
<1>5. ASSUME NEW k \in 1 .. FrameLength(m) PROVE Frame(m)[k] = <<m, k>>
  <2>1. CASE k <= HeaderLength
    BY <1>1, <1>2, <1>4, <2>1 DEF FrameLength
  <2>2. CASE k > HeaderLength
    <3>1. k - HeaderLength \in 1 .. Size[m] /\ HeaderLength + (k - HeaderLength) = k
      BY <1>1, <2>2 DEF FrameLength
    <3>2. Frame(m)[k] = Object(m)[k - HeaderLength]
      BY <1>1, <1>4, <2>2 DEF FrameLength
    <3>3. QED
      BY <1>3, <3>1, <3>2
  <2>3. QED
    BY <1>1, <2>1, <2>2 DEF FrameLength
<1>6. QED
  BY <1>1, <1>2, <1>3, <1>4, <1>5 DEF FrameLength

(* Where the frames of the objects in l begin in the stream.               *)
Layout(l, start) ==
    /\ start \in [1 .. Len(l) + 1 -> Nat]
    /\ \A j \in 1 .. Len(l) : start[j + 1] = start[j] + FrameLength(l[j])
    /\ \A i \in 1 .. Len(l), j \in 1 .. Len(l) + 1 :
           i < j => start[i] + FrameLength(l[i]) <= start[j]

(* s is the part of the stream of l behind the first n units.              *)
OnStream(l, start, s, n) ==
    \A i \in 1 .. Len(s), j \in 1 .. Len(l), k \in Nat :
        k \in 1 .. FrameLength(l[j]) /\ n + i = start[j] + k => s[i] = <<l[j], k>>

(* What is read of a socket, or cut off a bucket, is part of the stream.   *)
LEMMA PartOfStream ==
    ASSUME NEW l, NEW start, NEW s \in Seq(Unit), NEW n \in Int,
           OnStream(l, start, s, n),
           NEW a \in 1 .. Len(s) + 1, NEW b \in 0 .. Len(s), a <= b + 1,
           NEW c \in Int, c = n + a - 1
    PROVE  /\ SubSeq(s, a, b) \in Seq(Unit)
           /\ Len(SubSeq(s, a, b)) = b - a + 1
           /\ OnStream(l, start, SubSeq(s, a, b), c)
<1> DEFINE t == SubSeq(s, a, b)
<1>1. Len(s) \in Nat /\ \A i \in 1 .. Len(s) : s[i] \in Unit
  BY ElementOfSeq, LenProperties
<1>2. /\ t \in Seq(Unit) /\ Len(t) = (IF a <= b THEN b - a + 1 ELSE 0)
      /\ \A i \in 1 .. b - a + 1 : t[i] = s[a + i - 1]
  BY <1>1, SubSeqProperties
<1> HIDE DEF t
<1>3. Len(t) = b - a + 1
  BY <1>1, <1>2
<1>4. ASSUME NEW i \in 1 .. Len(t), NEW j \in 1 .. Len(l), NEW k \in Nat,
             k \in 1 .. FrameLength(l[j]), c + i = start[j] + k
      PROVE  t[i] = <<l[j], k>>
  <2>1. a + i - 1 \in 1 .. Len(s) /\ n + (a + i - 1) = start[j] + k /\ i \in 1 .. b - a + 1
    <3>1. a + i - 1 \in 1 .. Len(s)
      BY <1>1, <1>3
    <3>2. n + (a + i - 1) = c + i
      BY <1>1, <1>3
    <3>3. QED
      BY <1>3, <1>4, <3>1, <3>2
  <2>2. s[a + i - 1] = <<l[j], k>>
    BY <1>4, <2>1 DEF OnStream
  <2>3. QED
    BY <1>2, <2>1, <2>2
<1>5. QED
  BY <1>2, <1>3, <1>4 DEF t, OnStream

(* Two parts that follow each other make one.                              *)
LEMMA PartsOfStream ==
    ASSUME NEW l, NEW start, NEW s \in Seq(Unit), NEW t \in Seq(Unit), NEW n \in Int,
           OnStream(l, start, s, n), OnStream(l, start, t, n + Len(s))
    PROVE  /\ s \o t \in Seq(Unit) /\ Len(s \o t) = Len(s) + Len(t)
           /\ OnStream(l, start, s \o t, n)
<1> DEFINE u == s \o t
<1>1. /\ u \in Seq(Unit) /\ Len(u) = Len(s) + Len(t)
      /\ \A i \in 1 .. Len(s) + Len(t) : u[i] = IF i <= Len(s) THEN s[i] ELSE t[i - Len(s)]
  BY ConcatProperties
<1>2. Len(s) \in Nat /\ Len(t) \in Nat
  BY LenProperties
<1> HIDE DEF u
<1>3. ASSUME NEW i \in 1 .. Len(u), NEW j \in 1 .. Len(l), NEW k \in Nat,
             k \in 1 .. FrameLength(l[j]), n + i = start[j] + k
      PROVE  u[i] = <<l[j], k>>
  <2>1. CASE i <= Len(s)
    BY <1>1, <1>2, <1>3, <2>1 DEF OnStream
  <2>2. CASE i > Len(s)
    <3>1. i - Len(s) \in 1 .. Len(t) /\ (n + Len(s)) + (i - Len(s)) = start[j] + k
      BY <1>1, <1>2, <1>3, <2>2
    <3>2. t[i - Len(s)] = <<l[j], k>>
      BY <1>3, <3>1 DEF OnStream
    <3>3. QED
      BY <1>1, <1>2, <2>2, <3>2
  <2>3. QED
    BY <1>1, <1>2, <2>1, <2>2
<1>4. QED
  BY <1>1, <1>3 DEF u, OnStream

-----------------------------------------------------------------------------
(* The inductive invariant *)

(* The objects the reader has found, the units it has taken off the front  *)
(* of the bucket in all, with start for where frames begin, and the units  *)
(* that were sent in all.                                                  *)
Found == Len(delivered) + Len(returnValue)
BucketAt(start) == start[Found + 1] - headerStart
BufferAt(start) == BucketAt(start) + Len(bucket)
WireAt(start)   == BufferAt(start) + Len(receiveBuffer)
SentInAll(start) == WireAt(start) + Len(wire)

(* What is in the bucket, in the buffer and on the wire is the stream of   *)
(* the frames of log, in this order, from the first object on that the     *)
(* reader has not found, and as far as the holder of the lock has sent.    *)
Streaming(start) ==
    /\ Layout(log, start)
    /\ Found <= Len(log)
    /\ OnStream(log, start, bucket, BucketAt(start))
    /\ OnStream(log, start, receiveBuffer, BufferAt(start))
    /\ OnStream(log, start, wire, WireAt(start))
    /\ sendLock = {} => SentInAll(start) = start[Len(log) + 1]
    /\ \A s \in sendLock : SentInAll(start) = start[Len(log)] + sentSize[s]
StreamInOrder == \E start : Streaming(start)

(* The holder of the lock sends the last object that was begun.            *)
HolderSendsLast ==
    \A s \in sendLock :
        /\ at[s] <= Len(Program[s])
        /\ log # <<>> /\ log[Len(log)] = Current(s)
        /\ sentSize[s] <= FrameLength(Current(s))

(* The reader has found the objects in the order of log.                   *)
FoundInOrder ==
    /\ \A i \in 1 .. Len(delivered) : delivered[i] = Object(log[i])
    /\ \A i \in 1 .. Len(returnValue) : returnValue[i] = Object(log[Len(delivered) + i])

(* Between two calls nothing of the bucket is read.                        *)
NothingHalfRead ==
    rpc \in {"idle", "check", "terminated"} => headerStart = 0 /\ returnValue = <<>>

ChannelInvariant ==
    /\ TypeOK /\ at \in [Senders -> Nat]
    /\ HolderSendsLast /\ NothingHalfRead /\ FoundInOrder /\ StreamInOrder

(* What the invariant says of lengths and positions, once.                 *)
LEMMA Positions ==
    ASSUME TypeOK, NEW start, Streaming(start)
    PROVE  /\ Len(delivered) \in Nat /\ Len(returnValue) \in Nat /\ Found \in Nat
           /\ Len(log) \in Nat /\ Found + 1 \in 1 .. Len(log) + 1
           /\ Len(bucket) \in Nat /\ Len(receiveBuffer) \in Nat /\ Len(wire) \in Nat
           /\ headerStart \in Nat
           /\ \A j \in 1 .. Len(log) + 1 : start[j] \in Nat
           /\ BucketAt(start) \in Int /\ BufferAt(start) \in Int
           /\ WireAt(start) \in Int /\ SentInAll(start) \in Int
<1>1. Len(delivered) \in Nat /\ Len(returnValue) \in Nat /\ Len(log) \in Nat
      /\ Len(bucket) \in Nat /\ Len(receiveBuffer) \in Nat /\ Len(wire) \in Nat
  BY LenProperties DEF TypeOK
<1>2. Found \in Nat /\ Found + 1 \in 1 .. Len(log) + 1 /\ headerStart \in Nat
  BY <1>1 DEF Found, Streaming, TypeOK
<1>3. \A j \in 1 .. Len(log) + 1 : start[j] \in Nat
  BY DEF Streaming, Layout
<1>4. BucketAt(start) \in Int
  BY <1>2, <1>3 DEF BucketAt
<1>5. BufferAt(start) \in Int
  BY <1>1, <1>4 DEF BufferAt
<1>6. WireAt(start) \in Int
  BY <1>1, <1>5 DEF WireAt
<1>7. SentInAll(start) \in Int
  BY <1>1, <1>6 DEF SentInAll
<1>8. QED
  BY <1>1, <1>2, <1>3, <1>4, <1>5, <1>6, <1>7

(* A new frame begins where the last one ends, and what was on the stream  *)
(* before stays where it is.                                               *)
LEMMA LayoutAppend ==
    ASSUME NEW l \in Seq(Messages), NEW m \in Messages, NEW start, Layout(l, start)
    PROVE  \E next :
              /\ Layout(Append(l, m), next)
              /\ \A j \in 1 .. Len(l) + 1 : next[j] = start[j]
              /\ \A s, n : /\ OnStream(l, start, s, n) /\ Len(s) \in Nat /\ n \in Int
                           /\ n + Len(s) <= start[Len(l) + 1]
                           => OnStream(Append(l, m), next, s, n)
<1> DEFINE L == Len(l)
           k == Append(l, m)
           next == [j \in 1 .. L + 2 |->
                       IF j <= L + 1 THEN start[j] ELSE start[L + 1] + FrameLength(m)]
<1>1. L \in Nat /\ k \in Seq(Messages) /\ Len(k) = L + 1 /\ k[L + 1] = m
      /\ \A j \in 1 .. L : k[j] = l[j] /\ l[j] \in Messages
  BY AppendProperties, LenProperties, ElementOfSeq
<1>2. FrameLength(m) \in Nat \ {0} /\ \A j \in 1 .. L : FrameLength(l[j]) \in Nat \ {0}
  BY <1>1, FrameFacts
<1>3. /\ start \in [1 .. L + 1 -> Nat]
      /\ \A j \in 1 .. L : start[j + 1] = start[j] + FrameLength(l[j])
      /\ \A i \in 1 .. L, j \in 1 .. L + 1 : i < j => start[i] + FrameLength(l[i]) <= start[j]
  BY DEF Layout
<1>4. /\ next \in [1 .. L + 2 -> Nat]
      /\ \A j \in 1 .. L + 1 : next[j] = start[j]
      /\ next[L + 2] = start[L + 1] + FrameLength(m)
  BY <1>1, <1>2, <1>3
<1> HIDE DEF L, k, next
<1>5. ASSUME NEW j \in 1 .. L + 1 PROVE next[j + 1] = next[j] + FrameLength(k[j])
  <2>1. CASE j = L + 1
    BY <1>1, <1>4, <2>1
  <2>2. CASE j # L + 1
    <3>1. j \in 1 .. L /\ j + 1 \in 1 .. L + 1
      BY <1>1, <2>2
    <3>2. QED
      BY <1>1, <1>3, <1>4, <3>1
  <2>3. QED
    BY <2>1, <2>2
<1>6. ASSUME NEW i \in 1 .. L + 1, NEW j \in 1 .. L + 2, i < j
      PROVE  next[i] + FrameLength(k[i]) <= next[j]
  <2>1. CASE i = L + 1
    <3>1. j = L + 2
      BY <1>1, <1>6, <2>1
    <3>2. QED
      BY <1>1, <1>2, <1>3, <1>4, <2>1, <3>1
  <2>2. CASE i # L + 1 /\ j # L + 2
    <3>1. i \in 1 .. L /\ j \in 1 .. L + 1
      BY <1>1, <2>2
    <3>2. QED
      BY <1>1, <1>3, <1>4, <1>6, <3>1
  <2>3. CASE i # L + 1 /\ j = L + 2
    <3>1. i \in 1 .. L /\ L + 1 \in 1 .. L + 1 /\ i < L + 1
      BY <1>1, <2>3
    <3>2. start[i] + FrameLength(l[i]) <= start[L + 1]
      BY <1>3, <3>1
    <3>3. start[i] \in Nat /\ start[L + 1] \in Nat /\ FrameLength(l[i]) \in Nat
      BY <1>2, <1>3, <3>1
    <3>4. next[i] = start[i] /\ k[i] = l[i] /\ next[j] = start[L + 1] + FrameLength(m)
      BY <1>1, <1>4, <2>3, <3>1
    <3>5. QED
      BY <1>2, <3>2, <3>3, <3>4
  <2>4. QED
    BY <2>1, <2>2, <2>3
<1>7. Layout(k, next)
  BY <1>1, <1>4, <1>5, <1>6 DEF Layout
<1>8. ASSUME NEW s, NEW n, OnStream(l, start, s, n), Len(s) \in Nat, n \in Int,
             n + Len(s) <= start[L + 1]
      PROVE  OnStream(k, next, s, n)
  <2>1. SUFFICES ASSUME NEW i \in 1 .. Len(s), NEW j \in 1 .. Len(k), NEW c \in Nat,
                        c \in 1 .. FrameLength(k[j]), n + i = next[j] + c
                 PROVE  s[i] = <<k[j], c>>
    BY DEF OnStream
  <2>2. CASE j = L + 1
    <3>1. next[j] = start[L + 1] /\ start[L + 1] \in Nat
      BY <1>1, <1>3, <1>4, <2>2
    <3>2. n + i <= start[L + 1] /\ c > 0
      BY <1>8, <2>1, <3>1
    <3>3. QED
      BY <1>8, <2>1, <3>1, <3>2
  <2>3. CASE j # L + 1
    <3>1. j \in 1 .. L
      BY <1>1, <2>3
    <3>2. k[j] = l[j] /\ next[j] = start[j]
      BY <1>1, <1>4, <3>1
    <3>3. QED
      BY <1>8, <2>1, <3>1, <3>2 DEF OnStream, L
  <2>4. QED
    BY <2>2, <2>3
<1>9. QED
  BY <1>4, <1>7, <1>8 DEF L, k

(* A frame is on the stream where the layout has it.                       *)
LEMMA FrameOnStream ==
    ASSUME NEW l \in Seq(Messages), NEW start, Layout(l, start), NEW f \in 1 .. Len(l)
    PROVE  OnStream(l, start, Frame(l[f]), start[f])
<1>1. Len(l) \in Nat /\ \A j \in 1 .. Len(l) : l[j] \in Messages /\ FrameLength(l[j]) \in Nat \ {0}
  BY LenProperties, ElementOfSeq, FrameFacts
<1>2. /\ \A j \in 1 .. Len(l) + 1 : start[j] \in Nat
      /\ \A i \in 1 .. Len(l), j \in 1 .. Len(l) + 1 :
             i < j => start[i] + FrameLength(l[i]) <= start[j]
  BY DEF Layout
<1>3. Len(Frame(l[f])) = FrameLength(l[f])
      /\ \A k \in 1 .. FrameLength(l[f]) : Frame(l[f])[k] = <<l[f], k>>
  BY <1>1, FrameFacts
<1>4. SUFFICES ASSUME NEW i \in 1 .. FrameLength(l[f]), NEW j \in 1 .. Len(l), NEW k \in Nat,
                      k \in 1 .. FrameLength(l[j]), start[f] + i = start[j] + k
               PROVE  Frame(l[f])[i] = <<l[j], k>>
  BY <1>3 DEF OnStream
<1>5. start[f] \in Nat /\ start[j] \in Nat /\ FrameLength(l[f]) \in Nat /\ FrameLength(l[j]) \in Nat
  BY <1>1, <1>2
<1>6. CASE j = f
  BY <1>3, <1>4, <1>5, <1>6
<1>7. CASE j < f
  <2>1. start[j] + FrameLength(l[j]) <= start[f]
    BY <1>1, <1>2, <1>7
  <2>2. QED
    BY <1>4, <1>5, <2>1
<1>8. CASE j > f
  <2>1. start[f] + FrameLength(l[f]) <= start[j]
    BY <1>1, <1>2, <1>8
  <2>2. QED
    BY <1>4, <1>5, <2>1
<1>9. QED
  BY <1>1, <1>6, <1>7, <1>8

-----------------------------------------------------------------------------
(* Initially, and the steps of the senders *)

LEMMA ChannelInit == Init => ChannelInvariant
<1> SUFFICES ASSUME Init PROVE ChannelInvariant
  OBVIOUS
<1> USE DEF Init
<1>1. \A s \in Senders : Len(Program[s]) \in Nat
  BY SendersAssumption, LenProperties
<1>2. TypeOK /\ at \in [Senders -> Nat]
  BY <1>1 DEF TypeOK
<1>3. HolderSendsLast /\ NothingHalfRead /\ FoundInOrder
  BY DEF HolderSendsLast, NothingHalfRead, FoundInOrder
<1>4. StreamInOrder
  <2> DEFINE start == [j \in 1 .. 1 |-> 0]
  <2>1. start \in [1 .. Len(log) + 1 -> Nat] /\ Len(log) = 0 /\ start[1] = 0
    OBVIOUS
  <2> HIDE DEF start
  <2>2. Layout(log, start)
    BY <2>1 DEF Layout
  <2>3. /\ OnStream(log, start, bucket, BucketAt(start))
        /\ OnStream(log, start, receiveBuffer, BufferAt(start))
        /\ OnStream(log, start, wire, WireAt(start))
    BY DEF OnStream
  <2>4. Found = 0 /\ BucketAt(start) = 0 /\ BufferAt(start) = 0 /\ WireAt(start) = 0
        /\ SentInAll(start) = 0
    BY <2>1 DEF Found, BucketAt, BufferAt, WireAt, SentInAll
  <2>5. Streaming(start)
    BY <2>1, <2>2, <2>3, <2>4 DEF Streaming
  <2>6. QED
    BY <2>5 DEF StreamInOrder
<1>5. QED
  BY <1>2, <1>3, <1>4 DEF ChannelInvariant

(* A sender that gets the lock begins a frame where the last one ended.    *)
LEMMA LockStep ==
    ASSUME ChannelInvariant, NEW s \in Senders, Lock(s) PROVE ChannelInvariant'
<1> USE DEF ChannelInvariant, sending, receiving, reading
<1>1. /\ spc[s] = "ready" /\ at[s] <= Len(Program[s]) /\ sendLock = {} /\ sendLock' = {s}
      /\ spc' = [spc EXCEPT ![s] = "sending"] /\ sentSize' = [sentSize EXCEPT ![s] = 0]
      /\ log' = Append(log, Current(s)) /\ at' = at
      /\ open' = open /\ wire' = wire /\ tpc' = tpc /\ receiveBuffer' = receiveBuffer
      /\ isConnected' = isConnected /\ bucket' = bucket /\ rpc' = rpc
      /\ headerStart' = headerStart /\ returnValue' = returnValue /\ delivered' = delivered
  BY DEF Lock
<1>2. Current(s) \in Messages /\ Current(s)' = Current(s) /\ Len(Program[s]) \in Nat
  <2>1. Program[s] \in Seq(Messages) /\ at[s] \in 1 .. Len(Program[s]) + 1
    BY SendersAssumption DEF TypeOK
  <2>2. Len(Program[s]) \in Nat
    BY <2>1, LenProperties
  <2>3. at[s] \in 1 .. Len(Program[s])
    BY <1>1, <2>1, <2>2
  <2>4. Program[s][at[s]] \in Messages
    BY <2>1, <2>3, ElementOfSeq
  <2>5. QED
    BY <1>1, <2>2, <2>4 DEF Current
<1>3. /\ log \in Seq(Messages) /\ log' \in Seq(Messages) /\ Len(log) \in Nat
      /\ Len(log') = Len(log) + 1 /\ log'[Len(log')] = Current(s)
      /\ log' # <<>> /\ \A i \in 1 .. Len(log) : log'[i] = log[i]
  <2>1. log \in Seq(Messages)
    BY DEF TypeOK
  <2>2. /\ Append(log, Current(s)) \in Seq(Messages) /\ Append(log, Current(s)) # <<>>
        /\ Len(Append(log, Current(s))) = Len(log) + 1
        /\ \A i \in 1 .. Len(log) : Append(log, Current(s))[i] = log[i]
        /\ Append(log, Current(s))[Len(log) + 1] = Current(s)
    BY <1>2, <2>1, AppendProperties
  <2>3. QED
    BY <1>1, <2>1, <2>2, LenProperties
<1>4. TypeOK'
  <2>1. sendLock' = {t \in Senders : spc'[t] # "ready"}
    BY <1>1 DEF TypeOK
  <2>2. spc' \in [Senders -> {"ready", "sending", "threw"}] /\ sentSize' \in [Senders -> Nat]
    BY <1>1 DEF TypeOK
  <2>3. \A t, u \in sendLock' : t = u
    BY <1>1
  <2>4. QED
    BY <1>1, <1>3, <2>1, <2>2, <2>3 DEF TypeOK
<1>5. HolderSendsLast'
  <2>1. sentSize'[s] = 0 /\ FrameLength(Current(s)) \in Nat
    BY <1>1, <1>2, FrameFacts DEF TypeOK
  <2>2. QED
    BY <1>1, <1>2, <1>3, <2>1 DEF HolderSendsLast, FrameLength
<1>6. PICK start : Streaming(start)
  BY DEF StreamInOrder
<1> HIDE DEF ChannelInvariant, sending, receiving, reading
<1>0. TypeOK /\ FoundInOrder /\ NothingHalfRead /\ at \in [Senders -> Nat]
  BY DEF ChannelInvariant
<1>7. FoundInOrder'
  <2>1. Len(delivered) \in Nat /\ Len(returnValue) \in Nat /\ Found <= Len(log)
    BY <1>0, <1>6, Positions DEF Streaming
  <2>2. /\ \A i \in 1 .. Len(delivered) : log'[i] = log[i]
        /\ \A i \in 1 .. Len(returnValue) : log'[Len(delivered) + i] = log[Len(delivered) + i]
    BY <1>3, <2>1 DEF Found
  <2>3. QED
    BY <1>0, <1>1, <2>2 DEF FoundInOrder
<1>8. StreamInOrder'
  <2>1. PICK next :
            /\ Layout(log', next)
            /\ \A j \in 1 .. Len(log) + 1 : next[j] = start[j]
            /\ \A u, n : /\ OnStream(log, start, u, n) /\ Len(u) \in Nat /\ n \in Int
                         /\ n + Len(u) <= start[Len(log) + 1]
                         => OnStream(log', next, u, n)
    BY <1>1, <1>2, <1>3, <1>6, LayoutAppend DEF Streaming
  <2>2. Found' = Found /\ Found + 1 \in 1 .. Len(log) + 1
    BY <1>0, <1>1, <1>6, Positions DEF Found
  <2>3. BucketAt(next)' = BucketAt(start) /\ BufferAt(next)' = BufferAt(start)
        /\ WireAt(next)' = WireAt(start) /\ SentInAll(next)' = SentInAll(start)
    BY <1>1, <2>1, <2>2 DEF BucketAt, BufferAt, WireAt, SentInAll
  <2>4. SentInAll(start) = start[Len(log) + 1]
    BY <1>1, <1>6 DEF Streaming
  <2>5. /\ BucketAt(start) + Len(bucket) <= start[Len(log) + 1]
        /\ BufferAt(start) + Len(receiveBuffer) <= start[Len(log) + 1]
        /\ WireAt(start) + Len(wire) <= start[Len(log) + 1]
    <3>1. /\ BucketAt(start) \in Int /\ Len(bucket) \in Nat
          /\ Len(receiveBuffer) \in Nat /\ Len(wire) \in Nat
      BY <1>0, <1>6, Positions
    <3>2. start[Len(log) + 1] = BucketAt(start) + Len(bucket) + Len(receiveBuffer) + Len(wire)
      BY <2>4 DEF BufferAt, WireAt, SentInAll
    <3>3. QED
      BY <3>1, <3>2 DEF BufferAt, WireAt
  <2>6. /\ OnStream(log', next, bucket, BucketAt(start))
        /\ OnStream(log', next, receiveBuffer, BufferAt(start))
        /\ OnStream(log', next, wire, WireAt(start))
    BY <1>0, <1>6, <2>1, <2>5, Positions DEF Streaming
  <2>7. sentSize'[s] = 0 /\ next[Len(log')] = start[Len(log) + 1]
        /\ start[Len(log) + 1] \in Nat
    <3>1. sentSize'[s] = 0
      BY <1>0, <1>1 DEF TypeOK
    <3>2. QED
      BY <3>1, <1>0, <1>3, <1>6, <2>1, Positions
  <2>8. Found' <= Len(log')
    <3>1. Found \in Nat
      BY <1>0, <1>6, Positions
    <3>2. QED
      BY <1>3, <2>2, <3>1
  <2>9. Streaming(next)'
    BY <1>1, <2>1, <2>3, <2>4, <2>6, <2>7, <2>8 DEF Streaming
  <2>10. QED
    BY <2>9 DEF StreamInOrder
<1>9. QED
  BY <1>0, <1>1, <1>4, <1>5, <1>7, <1>8 DEF ChannelInvariant, NothingHalfRead

(* A piece of a frame follows on the wire what was sent of it before.      *)
LEMMA SendPartStep ==
    ASSUME ChannelInvariant, NEW s \in Senders, SendPart(s) PROVE ChannelInvariant'
<1>0. TypeOK /\ FoundInOrder /\ NothingHalfRead /\ at \in [Senders -> Nat] /\ HolderSendsLast
  BY DEF ChannelInvariant
<1>1. PICK n \in 1 .. Len(Frame(Current(s))) - sentSize[s] :
        /\ wire' = wire \o SubSeq(Frame(Current(s)), sentSize[s] + 1, sentSize[s] + n)
        /\ sentSize' = [sentSize EXCEPT ![s] = @ + n]
  BY DEF SendPart
<1>2. /\ spc[s] = "sending" /\ at' = at /\ spc' = spc /\ sendLock' = sendLock /\ log' = log
      /\ open' = open /\ tpc' = tpc /\ receiveBuffer' = receiveBuffer
      /\ isConnected' = isConnected /\ bucket' = bucket /\ rpc' = rpc
      /\ headerStart' = headerStart /\ returnValue' = returnValue /\ delivered' = delivered
  BY DEF SendPart, receiving, reading
<1>3. PICK start : Streaming(start)
  BY DEF ChannelInvariant, StreamInOrder
<1>4. s \in sendLock /\ (\A t \in sendLock : t = s) /\ sentSize[s] \in Nat
  BY <1>0, <1>2 DEF TypeOK
<1>5. /\ log \in Seq(Messages) /\ Len(log) \in 1 .. Len(log) /\ log[Len(log)] = Current(s)
      /\ sentSize[s] <= FrameLength(Current(s))
  <2>1. log \in Seq(Messages) /\ log # <<>> /\ log[Len(log)] = Current(s)
    BY <1>0, <1>4 DEF TypeOK, HolderSendsLast
  <2>2. QED
    BY <1>0, <1>4, <2>1, EmptySeq DEF HolderSendsLast
<1>5a. start[Len(log)] \in Int
  <2>1. \A j \in 1 .. Len(log) + 1 : start[j] \in Nat
    BY <1>0, <1>3, Positions
  <2>2. Len(log) \in 1 .. Len(log) + 1
    BY <1>5
  <2>3. QED
    BY <2>1, <2>2
<1>6. /\ Current(s) \in Messages /\ Frame(Current(s)) \in Seq(Unit)
      /\ Len(Frame(Current(s))) = FrameLength(Current(s))
      /\ FrameLength(Current(s)) \in Nat
  <2>1. Current(s) \in Messages
    BY <1>5, ElementOfSeq
  <2>2. QED
    BY <2>1, FrameFacts
<1> DEFINE f == Frame(Current(s))
           c == sentSize[s]
           piece == SubSeq(f, c + 1, c + n)
<1>7. OnStream(log, start, f, start[Len(log)])
  BY <1>3, <1>5, FrameOnStream DEF Streaming
<1>8. piece \in Seq(Unit) /\ Len(piece) = n /\ OnStream(log, start, piece, start[Len(log)] + c)
  <2>1. start[Len(log)] \in Int
    BY <1>5a
  <2> HIDE DEF f, c
  <2>2. f \in Seq(Unit) /\ Len(f) \in Nat /\ c \in Nat /\ n \in 1 .. Len(f) - c
    BY <1>1, <1>4, <1>6 DEF f, c
  <2>3. c + 1 \in 1 .. Len(f) + 1 /\ c + n \in 0 .. Len(f) /\ c + 1 <= (c + n) + 1
    BY <2>2
  <2> DEFINE p == start[Len(log)]
  <2>4. p \in Int /\ OnStream(log, start, f, p)
    BY <1>7, <2>1
  <2> HIDE DEF p
  <2>5. p + c \in Int /\ p + c = p + (c + 1) - 1
    BY <2>2, <2>4
  <2>6. piece \in Seq(Unit) /\ Len(piece) = (c + n) - (c + 1) + 1
        /\ OnStream(log, start, piece, p + c)
    <3> DEFINE a == c + 1
               b == c + n
               o == p + c
    <3>1. a \in 1 .. Len(f) + 1 /\ b \in 0 .. Len(f) /\ a <= b + 1
          /\ o \in Int /\ o = p + a - 1
      BY <2>3, <2>5
    <3> HIDE DEF a, b, o
    <3>2. SubSeq(f, a, b) \in Seq(Unit) /\ Len(SubSeq(f, a, b)) = b - a + 1
          /\ OnStream(log, start, SubSeq(f, a, b), o)
      BY <2>2, <2>4, <3>1, PartOfStream
    <3>3. QED
      BY <3>2 DEF a, b, o
  <2>7. (c + n) - (c + 1) + 1 = n
    BY <2>2
  <2>8. QED
    BY <2>6, <2>7 DEF p
<1>9. SentInAll(start) = start[Len(log)] + c
  BY <1>3, <1>4 DEF Streaming
<1>10. /\ wire' \in Seq(Unit) /\ Len(wire') = Len(wire) + n
       /\ OnStream(log, start, wire', WireAt(start))
  <2>1. wire \in Seq(Unit) /\ WireAt(start) \in Int
    BY <1>0, <1>3, Positions DEF TypeOK
  <2>2. OnStream(log, start, wire, WireAt(start))
        /\ WireAt(start) + Len(wire) = start[Len(log)] + c
    BY <1>3, <1>9 DEF Streaming, SentInAll
  <2> HIDE DEF piece, c
  <2>3. OnStream(log, start, piece, WireAt(start) + Len(wire))
    BY <1>8, <2>2
  <2>4. /\ wire \o piece \in Seq(Unit) /\ Len(wire \o piece) = Len(wire) + Len(piece)
        /\ OnStream(log, start, wire \o piece, WireAt(start))
    BY <1>8, <2>1, <2>2, <2>3, PartsOfStream
  <2>5. wire' = wire \o piece
    BY <1>1 DEF piece, c, f
  <2>6. QED
    BY <1>8, <2>4, <2>5
<1>11. sentSize' \in [Senders -> Nat] /\ sentSize'[s] = c + n
       /\ c + n <= FrameLength(Current(s))
  <2>1. sentSize' \in [Senders -> Nat] /\ sentSize'[s] = c + n
    <3>1. sentSize \in [Senders -> Nat]
      BY <1>0 DEF TypeOK
    <3>2. n \in Nat
      BY <1>4, <1>6
    <3>3. QED
      BY <1>1, <3>1, <3>2
  <2>2. QED
    BY <1>1, <1>4, <1>6, <2>1
<1>12. TypeOK'
  BY <1>0, <1>2, <1>10, <1>11 DEF TypeOK
<1>13. HolderSendsLast' /\ FoundInOrder' /\ NothingHalfRead'
  <2>1. Current(s)' = Current(s)
    BY <1>2 DEF Current
  <2>2. HolderSendsLast'
    BY <1>0, <1>2, <1>4, <1>11, <2>1 DEF HolderSendsLast
  <2>3. QED
    BY <1>0, <1>2, <2>2 DEF FoundInOrder, NothingHalfRead
<1>14. Streaming(start)'
  <2>1. Found' = Found /\ BucketAt(start)' = BucketAt(start)
        /\ BufferAt(start)' = BufferAt(start) /\ WireAt(start)' = WireAt(start)
    BY <1>2 DEF Found, BucketAt, BufferAt, WireAt
  <2>2. SentInAll(start)' = SentInAll(start) + n
    <3>1. WireAt(start) \in Int /\ Len(wire) \in Int
      BY <1>0, <1>3, Positions
    <3>2. QED
      BY <1>10, <2>1, <3>1 DEF SentInAll
  <2>3. SentInAll(start)' = start[Len(log)] + (c + n)
    <3>1. start[Len(log)] \in Int
      BY <1>5a
    <3>2. QED
      BY <1>4, <1>9, <2>2, <3>1
  <2>4. QED
    BY <1>2, <1>3, <1>4, <1>10, <1>11, <2>1, <2>3 DEF Streaming
<1>15. QED
  BY <1>0, <1>2, <1>12, <1>13, <1>14 DEF ChannelInvariant, StreamInOrder

(* A frame that is sent ends where the next one will begin.                *)
LEMMA UnlockStep ==
    ASSUME ChannelInvariant, NEW s \in Senders, Unlock(s) PROVE ChannelInvariant'
<1>0. TypeOK /\ FoundInOrder /\ NothingHalfRead /\ at \in [Senders -> Nat] /\ HolderSendsLast
  BY DEF ChannelInvariant
<1>1. /\ spc[s] = "sending" /\ sentSize[s] = Len(Frame(Current(s)))
      /\ sendLock' = sendLock \ {s} /\ spc' = [spc EXCEPT ![s] = "ready"]
      /\ at' = [at EXCEPT ![s] = @ + 1]
      /\ sentSize' = sentSize /\ log' = log /\ open' = open /\ wire' = wire
      /\ tpc' = tpc /\ receiveBuffer' = receiveBuffer
      /\ isConnected' = isConnected /\ bucket' = bucket /\ rpc' = rpc
      /\ headerStart' = headerStart /\ returnValue' = returnValue /\ delivered' = delivered
  BY DEF Unlock, receiving, reading
<1>2. PICK start : Streaming(start)
  BY DEF ChannelInvariant, StreamInOrder
<1>3. s \in sendLock /\ (\A t \in sendLock : t = s) /\ sendLock' = {}
  BY <1>0, <1>1 DEF TypeOK
<1>4. TypeOK' /\ at' \in [Senders -> Nat]
  <2>1. at' \in [Senders -> Nat] /\ \A t \in Senders : at'[t] = IF t = s THEN at[s] + 1 ELSE at[t]
    BY <1>0, <1>1
  <2>2. at[s] <= Len(Program[s]) /\ Len(Program[s]) \in Nat
    BY <1>0, <1>3, SendersAssumption, LenProperties DEF HolderSendsLast
  <2>3. \A t \in Senders : at'[t] \in 1 .. Len(Program[t]) + 1
    <3>1. \A t \in Senders : at[t] \in 1 .. Len(Program[t]) + 1
      BY <1>0 DEF TypeOK
    <3>2. at'[s] \in 1 .. Len(Program[s]) + 1
      BY <2>1, <2>2, <3>1
    <3>3. QED
      BY <2>1, <3>1, <3>2
  <2>4. spc' \in [Senders -> {"ready", "sending", "threw"}]
        /\ sendLock' = {t \in Senders : spc'[t] # "ready"}
    BY <1>0, <1>1 DEF TypeOK
  <2>5. QED
    BY <1>0, <1>1, <1>3, <2>1, <2>3, <2>4 DEF TypeOK
<1>5. HolderSendsLast' /\ FoundInOrder' /\ NothingHalfRead'
  BY <1>0, <1>1, <1>3 DEF HolderSendsLast, FoundInOrder, NothingHalfRead
<1>6. SentInAll(start) = start[Len(log) + 1]
  <2>1. /\ log \in Seq(Messages) /\ Len(log) \in 1 .. Len(log) /\ log[Len(log)] = Current(s)
    <3>1. log \in Seq(Messages) /\ log # <<>> /\ log[Len(log)] = Current(s)
      BY <1>0, <1>3 DEF TypeOK, HolderSendsLast
    <3>2. QED
      BY <3>1, EmptySeq
  <2>2. Current(s) \in Messages
    BY <2>1, ElementOfSeq
  <2>3. sentSize[s] = FrameLength(log[Len(log)])
    BY <1>1, <2>1, <2>2, FrameFacts
  <2>4. start[Len(log) + 1] = start[Len(log)] + FrameLength(log[Len(log)])
    BY <1>2, <2>1 DEF Streaming, Layout
  <2>5. QED
    BY <1>2, <1>3, <2>3, <2>4 DEF Streaming
<1>7. Streaming(start)'
  <2>1. Found' = Found /\ BucketAt(start)' = BucketAt(start)
        /\ BufferAt(start)' = BufferAt(start) /\ WireAt(start)' = WireAt(start)
        /\ SentInAll(start)' = SentInAll(start)
    BY <1>1 DEF Found, BucketAt, BufferAt, WireAt, SentInAll
  <2>2. QED
    BY <1>1, <1>2, <1>3, <1>6, <2>1 DEF Streaming
<1>8. QED
  BY <1>4, <1>5, <1>7 DEF ChannelInvariant, StreamInOrder

(* A send that fails leaves the lock and what was sent as they are.        *)
LEMMA SendFailsStep ==
    ASSUME ChannelInvariant, NEW s \in Senders, SendFails(s) PROVE ChannelInvariant'
<1>0. TypeOK /\ FoundInOrder /\ NothingHalfRead /\ at \in [Senders -> Nat] /\ HolderSendsLast
  BY DEF ChannelInvariant
<1>1. /\ spc[s] = "sending" /\ spc' = [spc EXCEPT ![s] = "threw"]
      /\ sendLock' = sendLock /\ at' = at
      /\ sentSize' = sentSize /\ log' = log /\ open' = open /\ wire' = wire
      /\ tpc' = tpc /\ receiveBuffer' = receiveBuffer
      /\ isConnected' = isConnected /\ bucket' = bucket /\ rpc' = rpc
      /\ headerStart' = headerStart /\ returnValue' = returnValue /\ delivered' = delivered
  BY DEF SendFails, receiving, reading
<1>2. PICK start : Streaming(start)
  BY DEF ChannelInvariant, StreamInOrder
<1>3. TypeOK'
  BY <1>0, <1>1 DEF TypeOK
<1>4. HolderSendsLast' /\ FoundInOrder' /\ NothingHalfRead'
  BY <1>0, <1>1 DEF HolderSendsLast, FoundInOrder, NothingHalfRead, Current
<1>5. Streaming(start)'
  <2>1. Found' = Found /\ BucketAt(start)' = BucketAt(start)
        /\ BufferAt(start)' = BufferAt(start) /\ WireAt(start)' = WireAt(start)
        /\ SentInAll(start)' = SentInAll(start)
    BY <1>1 DEF Found, BucketAt, BufferAt, WireAt, SentInAll
  <2>2. QED
    BY <1>1, <1>2, <2>1 DEF Streaming
<1>6. QED
  BY <1>0, <1>1, <1>3, <1>4, <1>5 DEF ChannelInvariant, StreamInOrder

-----------------------------------------------------------------------------
(* The steps of the receive thread *)

(* recv moves the first units of the wire to the empty buffer.             *)
LEMMA ReceiveStep ==
    ASSUME ChannelInvariant, Receive PROVE ChannelInvariant'
<1>0. TypeOK /\ FoundInOrder /\ NothingHalfRead /\ at \in [Senders -> Nat] /\ HolderSendsLast
  BY DEF ChannelInvariant
<1>1. PICK n \in 1 .. Len(wire) :
        /\ receiveBuffer' = SubSeq(wire, 1, n)
        /\ wire' = SubSeq(wire, n + 1, Len(wire))
  BY DEF Receive
<1>2. /\ tpc = "recv" /\ tpc' = "append"
      /\ spc' = spc /\ sendLock' = sendLock /\ at' = at
      /\ sentSize' = sentSize /\ log' = log /\ open' = open
      /\ isConnected' = isConnected /\ bucket' = bucket /\ rpc' = rpc
      /\ headerStart' = headerStart /\ returnValue' = returnValue /\ delivered' = delivered
  BY DEF Receive, sending, reading
<1>3. PICK start : Streaming(start)
  BY DEF ChannelInvariant, StreamInOrder
<1>4. receiveBuffer = <<>> /\ Len(receiveBuffer) = 0 /\ wire \in Seq(Unit) /\ Len(wire) \in Nat
  BY <1>0, <1>2, LenProperties DEF TypeOK
<1>5. WireAt(start) \in Int /\ BufferAt(start) \in Int /\ WireAt(start) = BufferAt(start)
      /\ OnStream(log, start, wire, WireAt(start))
  <2>1. WireAt(start) \in Int /\ BufferAt(start) \in Int
    BY <1>0, <1>3, Positions
  <2>2. QED
    BY <1>3, <1>4, <2>1 DEF WireAt, Streaming
<1> DEFINE w == WireAt(start)
<1>6. w \in Int /\ OnStream(log, start, wire, w)
  BY <1>5
<1> HIDE DEF w
<1>7. /\ receiveBuffer' \in Seq(Unit) /\ Len(receiveBuffer') = n
      /\ OnStream(log, start, receiveBuffer', w)
  <2>1. /\ SubSeq(wire, 1, n) \in Seq(Unit) /\ Len(SubSeq(wire, 1, n)) = n - 1 + 1
        /\ OnStream(log, start, SubSeq(wire, 1, n), w)
    <3> DEFINE a == 1
               b == n
    <3>1. a \in 1 .. Len(wire) + 1 /\ b \in 0 .. Len(wire) /\ a <= b + 1 /\ w = w + a - 1
      BY <1>4, <1>6
    <3>2. wire \in Seq(Unit) /\ w \in Int /\ OnStream(log, start, wire, w)
      BY <1>4, <1>6
    <3> HIDE DEF a, b
    <3>3. SubSeq(wire, a, b) \in Seq(Unit) /\ Len(SubSeq(wire, a, b)) = b - a + 1
          /\ OnStream(log, start, SubSeq(wire, a, b), w)
      BY ONLY <3>1, <3>2, PartOfStream
    <3>4. QED
      BY <3>3 DEF a, b
  <2>2. n - 1 + 1 = n
    BY <1>4
  <2>3. QED
    BY <1>1, <2>1, <2>2
<1>8. /\ wire' \in Seq(Unit) /\ Len(wire') = Len(wire) - n
      /\ OnStream(log, start, wire', w + n)
  <2>1. n + 1 \in 1 .. Len(wire) + 1 /\ Len(wire) \in 0 .. Len(wire) /\ n + 1 <= Len(wire) + 1
    BY <1>4
  <2>2. /\ SubSeq(wire, n + 1, Len(wire)) \in Seq(Unit)
        /\ Len(SubSeq(wire, n + 1, Len(wire))) = Len(wire) - (n + 1) + 1
        /\ OnStream(log, start, SubSeq(wire, n + 1, Len(wire)), w + n)
    <3> DEFINE a == n + 1
               o == w + n
    <3>1. a \in 1 .. Len(wire) + 1 /\ a <= Len(wire) + 1 /\ o \in Int /\ o = w + a - 1
      BY <1>4, <1>6
    <3> HIDE DEF a, o
    <3>2. SubSeq(wire, a, Len(wire)) \in Seq(Unit)
          /\ Len(SubSeq(wire, a, Len(wire))) = Len(wire) - a + 1
          /\ OnStream(log, start, SubSeq(wire, a, Len(wire)), o)
      BY <1>4, <1>6, <2>1, <3>1, PartOfStream
    <3>3. QED
      BY <3>2 DEF a, o
  <2>3. Len(wire) - (n + 1) + 1 = Len(wire) - n
    BY <1>4, <1>6
  <2>4. QED
    BY <1>1, <2>2, <2>3
<1>9. TypeOK'
  <2>1. receiveBuffer' # <<>>
    BY <1>7
  <2>2. QED
    BY <1>0, <1>2, <1>7, <1>8, <2>1 DEF TypeOK
<1>10. HolderSendsLast' /\ FoundInOrder' /\ NothingHalfRead'
  BY <1>0, <1>2 DEF HolderSendsLast, FoundInOrder, NothingHalfRead, Current
<1>11. Streaming(start)'
  <2>1. Found' = Found /\ BucketAt(start)' = BucketAt(start) /\ BufferAt(start)' = BufferAt(start)
    BY <1>2 DEF Found, BucketAt, BufferAt
  <2>2. BufferAt(start) = w /\ WireAt(start)' = w + n
    BY <1>5, <1>7, <2>1 DEF WireAt, w
  <2>3. SentInAll(start)' = SentInAll(start)
    <3>1. SentInAll(start) = w + Len(wire) /\ SentInAll(start)' = (w + n) + (Len(wire) - n)
      BY <1>8, <2>2 DEF SentInAll, w
    <3>2. QED
      BY <1>4, <1>6, <3>1
  <2>4. QED
    BY <1>2, <1>3, <1>7, <1>8, <2>1, <2>2, <2>3 DEF Streaming
<1>12. QED
  BY <1>0, <1>2, <1>9, <1>10, <1>11 DEF ChannelInvariant, StreamInOrder

(* The buffer goes behind what is in the bucket.                           *)
LEMMA AppendBufferStep ==
    ASSUME ChannelInvariant, AppendBuffer PROVE ChannelInvariant'
<1>0. TypeOK /\ FoundInOrder /\ NothingHalfRead /\ at \in [Senders -> Nat] /\ HolderSendsLast
  BY DEF ChannelInvariant
<1>1. /\ tpc' = "recv" /\ bucket' = bucket \o receiveBuffer /\ receiveBuffer' = <<>>
      /\ spc' = spc /\ sendLock' = sendLock /\ at' = at
      /\ sentSize' = sentSize /\ log' = log /\ open' = open /\ wire' = wire
      /\ isConnected' = isConnected /\ rpc' = rpc
      /\ headerStart' = headerStart /\ returnValue' = returnValue /\ delivered' = delivered
  BY DEF AppendBuffer, sending, reading
<1>2. PICK start : Streaming(start)
  BY DEF ChannelInvariant, StreamInOrder
<1>3. bucket \in Seq(Unit) /\ receiveBuffer \in Seq(Unit)
      /\ Len(bucket) \in Nat /\ Len(receiveBuffer) \in Nat
  BY <1>0, LenProperties DEF TypeOK
<1> DEFINE b == BucketAt(start)
<1>4. b \in Int /\ OnStream(log, start, bucket, b)
      /\ OnStream(log, start, receiveBuffer, b + Len(bucket))
  BY <1>0, <1>2, Positions DEF Streaming, BufferAt
<1> HIDE DEF b
<1>5. bucket' \in Seq(Unit) /\ Len(bucket') = Len(bucket) + Len(receiveBuffer)
      /\ OnStream(log, start, bucket', b)
  BY <1>1, <1>3, <1>4, PartsOfStream
<1>6. TypeOK'
  <2>1. headerStart' \in 0 .. Len(bucket')
    BY <1>0, <1>1, <1>3, <1>5 DEF TypeOK
  <2>2. QED
    BY <1>0, <1>1, <1>5, <2>1 DEF TypeOK
<1>7. HolderSendsLast' /\ FoundInOrder' /\ NothingHalfRead'
  BY <1>0, <1>1 DEF HolderSendsLast, FoundInOrder, NothingHalfRead, Current
<1>8. Streaming(start)'
  <2>1. Found' = Found /\ BucketAt(start)' = b
    BY <1>1 DEF Found, BucketAt, b
  <2>2. BufferAt(start)' = b + (Len(bucket) + Len(receiveBuffer))
    BY <1>5, <2>1 DEF BufferAt
  <2>3. WireAt(start) = (b + Len(bucket)) + Len(receiveBuffer)
    BY DEF WireAt, BufferAt, b
  <2>4. WireAt(start)' = WireAt(start)
    <3>1. WireAt(start)' = (b + (Len(bucket) + Len(receiveBuffer))) + 0
      BY <1>1, <2>2 DEF WireAt
    <3>2. QED
      BY <1>3, <1>4, <2>3, <3>1
  <2>5. SentInAll(start)' = SentInAll(start)
    BY <1>1, <2>4 DEF SentInAll
  <2>6. OnStream(log, start, <<>>, BufferAt(start)')
    BY DEF OnStream
  <2>7. QED
    BY <1>1, <1>2, <1>5, <2>1, <2>4, <2>5, <2>6 DEF Streaming
<1>9. QED
  BY <1>0, <1>1, <1>6, <1>7, <1>8 DEF ChannelInvariant, StreamInOrder

(* The steps that move no unit: the ends close, the receive thread ends,   *)
(* the reader begins a call, or finds nothing and leaves.                  *)
LEMMA QuietStep ==
    ASSUME ChannelInvariant, sending' = sending, wire' = wire, bucket' = bucket,
           receiveBuffer' = receiveBuffer, headerStart' = headerStart,
           returnValue' = returnValue, delivered' = delivered,
           open' \in BOOLEAN, isConnected' \in BOOLEAN,
           tpc' \in {"recv", "append", "ended"}, tpc' = "append" <=> tpc = "append",
           rpc' \in {"idle", "parse", "check", "terminated", "left"},
           NothingHalfRead'
    PROVE  ChannelInvariant'
<1>0. TypeOK /\ FoundInOrder /\ at \in [Senders -> Nat] /\ HolderSendsLast
  BY DEF ChannelInvariant
<1>1. /\ spc' = spc /\ sendLock' = sendLock /\ at' = at
      /\ sentSize' = sentSize /\ log' = log
  BY DEF sending
<1>2. PICK start : Streaming(start)
  BY DEF ChannelInvariant, StreamInOrder
<1>3. TypeOK'
  BY <1>0, <1>1 DEF TypeOK
<1>4. HolderSendsLast' /\ FoundInOrder'
  BY <1>0, <1>1 DEF HolderSendsLast, FoundInOrder, Current
<1>5. Streaming(start)'
  <2>1. Found' = Found /\ BucketAt(start)' = BucketAt(start)
        /\ BufferAt(start)' = BufferAt(start) /\ WireAt(start)' = WireAt(start)
        /\ SentInAll(start)' = SentInAll(start)
    BY <1>1 DEF Found, BucketAt, BufferAt, WireAt, SentInAll
  <2>2. QED
    BY <1>1, <1>2, <2>1 DEF Streaming
<1>6. QED
  BY <1>0, <1>1, <1>3, <1>4, <1>5 DEF ChannelInvariant, StreamInOrder

-----------------------------------------------------------------------------
(* The steps of the reader *)

(* A header tells whose it is.                                             *)
LEMMA HeaderFacts ==
    ASSUME NEW m \in Messages
    PROVE  \A l \in Messages : Header(l) = Header(m) => l = m
<1> SUFFICES ASSUME NEW l \in Messages, Header(l) = Header(m) PROVE l = m
  OBVIOUS
<1>1. 1 \in 1 .. HeaderLength
  BY SizesAssumption
<1>2. Header(l)[1] = <<l, 1>> /\ Header(m)[1] = <<m, 1>>
  BY <1>1 DEF Header
<1>3. QED
  BY <1>2

(* Where the bucket holds a full header and its data, the header is the    *)
(* one of the first object that was not found, and the data are its.       *)
LEMMA NextIsNextOfLog ==
    ASSUME TypeOK, NEW start, Streaming(start), HasObject,
           sendLock # {} => HolderSendsLast
    PROVE  /\ Found + 1 \in 1 .. Len(log) /\ log[Found + 1] \in Messages
           /\ DataSize = Size[log[Found + 1]]
           /\ SubSeq(bucket, headerEnd + 1, headerEnd + DataSize) = Object(log[Found + 1])
           /\ headerEnd + DataSize \in 0 .. Len(bucket)
           /\ headerEnd + DataSize = headerStart + FrameLength(log[Found + 1])
<1>1. /\ Found \in Nat /\ Len(log) \in Nat /\ Found + 1 \in 1 .. Len(log) + 1
      /\ Len(bucket) \in Nat /\ Len(receiveBuffer) \in Nat /\ Len(wire) \in Nat
      /\ headerStart \in Nat /\ BucketAt(start) \in Int
      /\ \A j \in 1 .. Len(log) + 1 : start[j] \in Nat
  BY Positions
<1>2. log \in Seq(Messages) /\ bucket \in Seq(Unit)
      /\ HeaderLength \in Nat \ {0} /\ \A m \in Messages : Size[m] \in Nat \ {0}
  BY SizesAssumption DEF TypeOK
<1>3. BucketAt(start) = start[Found + 1] - headerStart
  BY DEF BucketAt
<1>4. Len(bucket) > headerStart + HeaderLength
  BY DEF HasObject, headerEnd
<1>5. Found + 1 \in 1 .. Len(log)
  <2>1. SUFFICES ASSUME Found = Len(log) PROVE FALSE
    BY <1>1
  <2>2. SentInAll(start) = start[Found + 1] - headerStart + Len(bucket) + Len(receiveBuffer) + Len(wire)
    BY DEF SentInAll, WireAt, BufferAt, BucketAt
  <2>3. SentInAll(start) > start[Len(log) + 1]
    <3>1. Len(log) + 1 \in 1 .. Len(log) + 1 /\ Found + 1 = Len(log) + 1
      BY <1>1, <2>1
    <3>2. start[Len(log) + 1] \in Nat /\ start[Found + 1] = start[Len(log) + 1]
      BY <1>1, <3>1
    <3>3. Len(bucket) - headerStart > 0
      BY <1>1, <1>2, <1>4
    <3>4. QED
      BY <1>1, <2>2, <3>2, <3>3
  <2>4. sendLock # {}
    BY <1>1, <2>3 DEF Streaming
  <2>5. PICK s \in sendLock : SentInAll(start) = start[Len(log)] + sentSize[s]
    BY <2>4 DEF Streaming
  <2>6. log # <<>> /\ log[Len(log)] = Current(s) /\ sentSize[s] <= FrameLength(log[Len(log)])
    BY <2>4, <2>5 DEF HolderSendsLast
  <2>7. Len(log) \in 1 .. Len(log)
    BY <1>2, <2>6, EmptySeq
  <2>8. start[Len(log) + 1] = start[Len(log)] + FrameLength(log[Len(log)])
    BY <2>7 DEF Streaming, Layout
  <2>9. start[Len(log)] \in Nat /\ start[Len(log) + 1] \in Nat /\ sentSize[s] \in Nat
        /\ FrameLength(log[Len(log)]) \in Nat
    <3>1. s \in Senders
      BY <2>5 DEF TypeOK
    <3>2. log[Len(log)] \in Messages
      BY <1>2, <2>7, ElementOfSeq
    <3>3. FrameLength(log[Len(log)]) \in Nat
      BY <3>2, FrameFacts
    <3>4. sentSize[s] \in Nat
      BY <3>1 DEF TypeOK
    <3>5. start[Len(log)] \in Nat /\ start[Len(log) + 1] \in Nat
      <4>1. Len(log) \in 1 .. Len(log) + 1 /\ Len(log) + 1 \in 1 .. Len(log) + 1
        BY <1>1, <2>7
      <4>2. QED
        BY <1>1, <4>1
    <3>6. QED
      BY <3>3, <3>4, <3>5
  <2>10. QED
    BY <2>3, <2>5, <2>6, <2>8, <2>9
<1> DEFINE m == log[Found + 1]
<1>6. m \in Messages
  BY <1>2, <1>5, ElementOfSeq
<1>7. Size[m] \in Nat \ {0} /\ FrameLength(m) = HeaderLength + Size[m]
  BY <1>2, <1>6 DEF FrameLength
<1>8. ASSUME NEW k \in 1 .. FrameLength(m), headerStart + k <= Len(bucket)
      PROVE  bucket[headerStart + k] = <<m, k>>
  <2>1. headerStart + k \in 1 .. Len(bucket) /\ k \in Nat
    BY <1>1, <1>2, <1>7, <1>8
  <2>2. BucketAt(start) + (headerStart + k) = start[Found + 1] + k
    BY <1>1, <1>3, <2>1
  <2>3. QED
    BY <1>5, <1>8, <2>1, <2>2 DEF Streaming, OnStream
<1> HIDE DEF m
<1>9. \A i \in 1 .. Len(bucket) : bucket[i] \in Unit
  BY <1>2, ElementOfSeq
<1>10. SubSeq(bucket, headerStart + 1, headerEnd) = Header(m)
  <2> DEFINE h == SubSeq(bucket, headerStart + 1, headerStart + HeaderLength)
  <2>1. \A i \in headerStart + 1 .. headerStart + HeaderLength : bucket[i] \in Unit
    BY <1>1, <1>2, <1>4, <1>9
  <2>2. /\ h \in Seq(Unit) /\ Len(h) = HeaderLength
        /\ \A i \in 1 .. HeaderLength : h[i] = bucket[headerStart + i]
    <3>1. headerStart + 1 \in Int /\ headerStart + HeaderLength \in Int
          /\ headerStart + 1 <= headerStart + HeaderLength
          /\ (headerStart + HeaderLength) - (headerStart + 1) + 1 = HeaderLength
          /\ \A i \in 1 .. HeaderLength : (headerStart + 1) + i - 1 = headerStart + i
      BY <1>1, <1>2
    <3>2. /\ h \in Seq(Unit)
          /\ Len(h) = IF headerStart + 1 <= headerStart + HeaderLength
                        THEN (headerStart + HeaderLength) - (headerStart + 1) + 1 ELSE 0
          /\ \A i \in 1 .. (headerStart + HeaderLength) - (headerStart + 1) + 1 :
                h[i] = bucket[(headerStart + 1) + i - 1]
      BY <2>1, <3>1, SubSeqProperties
    <3>3. QED
      BY <3>1, <3>2
  <2> HIDE DEF h
  <2>3. \A i \in 1 .. HeaderLength : h[i] = <<m, i>>
    <3>1. SUFFICES ASSUME NEW i \in 1 .. HeaderLength PROVE h[i] = <<m, i>>
      OBVIOUS
    <3>2. i \in 1 .. FrameLength(m) /\ headerStart + i <= Len(bucket)
      BY <1>1, <1>2, <1>4, <1>7
    <3>3. QED
      BY <1>8, <2>2, <3>2
  <2>4. Header(m) \in Seq(Unit) /\ Len(Header(m)) = HeaderLength
        /\ \A i \in 1 .. HeaderLength : Header(m)[i] = <<m, i>>
    BY <1>6, FrameFacts DEF Header
  <2>5. h = Header(m)
    BY <2>2, <2>3, <2>4, SeqEqual
  <2>6. QED
    BY <2>5 DEF h, headerEnd
<1>11. DataSize = Size[m]
  <2>1. (CHOOSE l \in Messages : Header(m) = Header(l)) = m
    BY <1>6, HeaderFacts
  <2>2. QED
    BY <1>6, <1>10, <2>1 DEF DataSize
<1>12. /\ headerEnd + DataSize = headerStart + FrameLength(m)
       /\ headerEnd + DataSize \in 0 .. Len(bucket)
  <2>1. Len(bucket) >= headerEnd + DataSize
    BY DEF HasObject
  <2>2. headerEnd + DataSize = (headerStart + HeaderLength) + Size[m]
    BY <1>11 DEF headerEnd
  <2>3. QED
    BY <1>1, <1>2, <1>7, <2>1, <2>2
<1>13. SubSeq(bucket, headerEnd + 1, headerEnd + DataSize) = Object(m)
  <2> DEFINE a == headerStart + HeaderLength
             o == SubSeq(bucket, a + 1, a + Size[m])
  <2>1. a \in Nat /\ a + Size[m] <= Len(bucket) /\ a + Size[m] = headerStart + FrameLength(m)
    BY <1>1, <1>2, <1>7, <1>11, <1>12 DEF headerEnd
  <2>2. \A i \in 1 .. Size[m] : bucket[a + i] = <<m, HeaderLength + i>>
    <3>1. SUFFICES ASSUME NEW i \in 1 .. Size[m] PROVE bucket[a + i] = <<m, HeaderLength + i>>
      OBVIOUS
    <3>2. HeaderLength + i \in 1 .. FrameLength(m) /\ headerStart + (HeaderLength + i) <= Len(bucket)
          /\ headerStart + (HeaderLength + i) = a + i
      BY <1>1, <1>2, <1>7, <2>1
    <3>3. QED
      BY <1>8, <3>2
  <2> HIDE DEF a
  <2>3. \A i \in a + 1 .. a + Size[m] : bucket[i] \in Unit
    BY <1>1, <1>7, <1>9, <2>1
  <2>4. /\ o \in Seq(Unit) /\ Len(o) = Size[m]
        /\ \A i \in 1 .. Size[m] : o[i] = bucket[a + i]
    <3>1. a + 1 \in Int /\ a + Size[m] \in Int /\ a + 1 <= a + Size[m]
          /\ (a + Size[m]) - (a + 1) + 1 = Size[m]
          /\ \A i \in 1 .. Size[m] : (a + 1) + i - 1 = a + i
      BY <1>7, <2>1
    <3>2. /\ o \in Seq(Unit)
          /\ Len(o) = IF a + 1 <= a + Size[m] THEN (a + Size[m]) - (a + 1) + 1 ELSE 0
          /\ \A i \in 1 .. (a + Size[m]) - (a + 1) + 1 : o[i] = bucket[(a + 1) + i - 1]
      BY <2>3, <3>1, SubSeqProperties
    <3>3. QED
      BY <3>1, <3>2
  <2>5. Object(m) \in Seq(Unit) /\ Len(Object(m)) = Size[m]
        /\ \A i \in 1 .. Size[m] : Object(m)[i] = <<m, HeaderLength + i>>
    BY <1>6, FrameFacts DEF Object
  <2> HIDE DEF o
  <2>6. o = Object(m)
    BY <2>2, <2>4, <2>5, SeqEqual
  <2>7. QED
    BY <1>11, <2>6 DEF o, a, headerEnd
<1>14. QED
  BY <1>5, <1>6, <1>11, <1>12, <1>13 DEF m

(* An object that is found is the next one of log.                         *)
LEMMA TakeObjectStep ==
    ASSUME ChannelInvariant, TakeObject PROVE ChannelInvariant'
<1>0. TypeOK /\ FoundInOrder /\ NothingHalfRead /\ at \in [Senders -> Nat] /\ HolderSendsLast
  BY DEF ChannelInvariant
<1>1. /\ rpc = "parse" /\ HasObject
      /\ returnValue' = Append(returnValue, SubSeq(bucket, headerEnd + 1, headerEnd + DataSize))
      /\ headerStart' = headerEnd + DataSize
      /\ spc' = spc /\ sendLock' = sendLock /\ at' = at
      /\ sentSize' = sentSize /\ log' = log /\ open' = open /\ wire' = wire
      /\ tpc' = tpc /\ receiveBuffer' = receiveBuffer
      /\ isConnected' = isConnected /\ bucket' = bucket /\ rpc' = rpc /\ delivered' = delivered
  BY DEF TakeObject, sending, receiving
<1>2. PICK start : Streaming(start)
  BY DEF ChannelInvariant, StreamInOrder
<1> DEFINE m == log[Found + 1]
<1>3. /\ Found + 1 \in 1 .. Len(log) /\ m \in Messages
      /\ returnValue' = Append(returnValue, Object(m))
      /\ headerStart' = headerStart + FrameLength(m)
      /\ headerStart' \in 0 .. Len(bucket)
  BY <1>0, <1>1, <1>2, NextIsNextOfLog
<1>4. Object(m) \in Seq(Unit) /\ FrameLength(m) \in Nat
  BY <1>3, FrameFacts
<1> HIDE DEF m
<1>5. /\ Len(delivered) \in Nat /\ Len(returnValue) \in Nat /\ Len(log) \in Nat
      /\ headerStart \in Nat
      /\ \A j \in 1 .. Len(log) + 1 : start[j] \in Nat
  BY <1>0, <1>2, Positions
<1>6. /\ returnValue' \in Seq(Seq(Unit)) /\ Len(returnValue') = Len(returnValue) + 1
      /\ \A i \in 1 .. Len(returnValue) : returnValue'[i] = returnValue[i]
      /\ returnValue'[Len(returnValue) + 1] = Object(m)
  <2>1. returnValue \in Seq(Seq(Unit))
    BY <1>0 DEF TypeOK
  <2>2. QED
    BY <1>3, <1>4, <2>1, AppendProperties
<1>7. TypeOK'
  BY <1>0, <1>1, <1>3, <1>6 DEF TypeOK
<1>8. FoundInOrder'
  <2>1. ASSUME NEW i \in 1 .. Len(returnValue')
        PROVE  returnValue'[i] = Object(log[Len(delivered) + i])
    <3>1. CASE i = Len(returnValue) + 1
      <4>1. Len(delivered) + i = Found + 1
        BY <1>5, <3>1 DEF Found
      <4>2. QED
        BY <1>6, <3>1, <4>1 DEF m
    <3>2. CASE i # Len(returnValue) + 1
      <4>1. i \in 1 .. Len(returnValue)
        BY <1>5, <1>6, <3>2
      <4>2. QED
        BY <1>0, <1>6, <4>1 DEF FoundInOrder
    <3>3. QED
      BY <3>1, <3>2
  <2>2. QED
    BY <1>0, <1>1, <2>1 DEF FoundInOrder
<1>9. HolderSendsLast' /\ NothingHalfRead'
  BY <1>0, <1>1 DEF HolderSendsLast, NothingHalfRead, Current
<1>10. Streaming(start)'
  <2>1. Found \in Nat /\ Found' = Found + 1
    BY <1>1, <1>5, <1>6 DEF Found
  <2>2. start[(Found + 1) + 1] = start[Found + 1] + FrameLength(m)
    BY <1>2, <1>3 DEF Streaming, Layout, m
  <2>3. BucketAt(start)' = BucketAt(start)
    <3>1. start[Found + 1] \in Nat
      BY <1>3, <1>5
    <3>2. BucketAt(start)' = start[(Found + 1) + 1] - (headerStart + FrameLength(m))
      BY <1>3, <2>1 DEF BucketAt
    <3>3. BucketAt(start) = start[Found + 1] - headerStart
      BY DEF BucketAt
    <3>4. QED
      BY <1>4, <1>5, <2>2, <3>1, <3>2, <3>3
  <2>4. /\ BufferAt(start)' = BufferAt(start) /\ WireAt(start)' = WireAt(start)
        /\ SentInAll(start)' = SentInAll(start)
    BY <1>1, <2>3 DEF BufferAt, WireAt, SentInAll
  <2>5. Found' <= Len(log)'
    BY <1>1, <1>3, <2>1
  <2>6. QED
    BY <1>1, <1>2, <2>3, <2>4, <2>5 DEF Streaming
<1>11. QED
  BY <1>0, <1>1, <1>7, <1>8, <1>9, <1>10 DEF ChannelInvariant, StreamInOrder

(* What was read is cut off, and what was found is returned.               *)
LEMMA EndReceiveStep ==
    ASSUME ChannelInvariant, EndReceive PROVE ChannelInvariant'
<1>0. TypeOK /\ FoundInOrder /\ NothingHalfRead /\ at \in [Senders -> Nat] /\ HolderSendsLast
  BY DEF ChannelInvariant
<1>1. /\ bucket' = SubSeq(bucket, headerStart + 1, Len(bucket))
      /\ headerStart' = 0 /\ returnValue' = <<>>
      /\ spc' = spc /\ sendLock' = sendLock /\ at' = at
      /\ sentSize' = sentSize /\ log' = log /\ open' = open /\ wire' = wire
      /\ tpc' = tpc /\ receiveBuffer' = receiveBuffer /\ isConnected' = isConnected
  BY DEF EndReceive, sending, receiving
<1>2. \/ returnValue = <<>> /\ rpc' = "check" /\ delivered' = delivered
      \/ returnValue # <<>> /\ rpc' = "idle" /\ delivered' = delivered \o returnValue
  BY DEF EndReceive
<1>3. PICK start : Streaming(start)
  BY DEF ChannelInvariant, StreamInOrder
<1>4. /\ Len(delivered) \in Nat /\ Len(returnValue) \in Nat /\ Len(log) \in Nat
      /\ headerStart \in 0 .. Len(bucket) /\ Len(bucket) \in Nat
      /\ Found + 1 \in 1 .. Len(log) + 1
      /\ BucketAt(start) \in Int /\ start[Found + 1] \in Nat
      /\ delivered \in Seq(Seq(Unit)) /\ returnValue \in Seq(Seq(Unit))
  <2>1. headerStart \in 0 .. Len(bucket)
        /\ delivered \in Seq(Seq(Unit)) /\ returnValue \in Seq(Seq(Unit))
    BY <1>0 DEF TypeOK
  <2>2. QED
    BY <1>0, <1>3, <2>1, Positions
<1>5. /\ delivered' \in Seq(Seq(Unit)) /\ Len(delivered') = Len(delivered) + Len(returnValue)
      /\ \A i \in 1 .. Len(delivered) + Len(returnValue) :
             delivered'[i] = IF i <= Len(delivered) THEN delivered[i]
                                                    ELSE returnValue[i - Len(delivered)]
  <2> DEFINE all == delivered \o returnValue
  <2>1. /\ all \in Seq(Seq(Unit)) /\ Len(all) = Len(delivered) + Len(returnValue)
        /\ \A i \in 1 .. Len(delivered) + Len(returnValue) :
               all[i] = IF i <= Len(delivered) THEN delivered[i]
                                               ELSE returnValue[i - Len(delivered)]
    BY <1>4, ConcatProperties
  <2> HIDE DEF all
  <2>2. CASE returnValue # <<>>
    BY <1>2, <2>1, <2>2 DEF all
  <2>3. CASE returnValue = <<>>
    <3>1. delivered' = delivered /\ Len(returnValue) = 0
      BY <1>2, <2>3
    <3>2. \A i \in 1 .. Len(delivered) : i <= Len(delivered)
      OBVIOUS
    <3>3. QED
      BY <1>4, <3>1, <3>2
  <2>4. QED
    BY <2>2, <2>3
<1>6. FoundInOrder'
  <2>1. ASSUME NEW i \in 1 .. Len(delivered') PROVE delivered'[i] = Object(log[i])
    <3>1. CASE i <= Len(delivered)
      <4>1. i \in 1 .. Len(delivered) /\ i \in 1 .. Len(delivered) + Len(returnValue)
        BY <1>4, <1>5, <3>1
      <4>2. delivered'[i] = delivered[i]
        BY <1>5, <3>1, <4>1
      <4>3. delivered[i] = Object(log[i])
        BY <1>0, <4>1 DEF FoundInOrder
      <4>4. QED
        BY <4>2, <4>3
    <3>2. CASE i > Len(delivered)
      <4>1. /\ i \in 1 .. Len(delivered) + Len(returnValue) /\ ~(i <= Len(delivered))
            /\ i - Len(delivered) \in 1 .. Len(returnValue)
            /\ Len(delivered) + (i - Len(delivered)) = i
        <5>1. /\ i \in 1 .. Len(delivered) + Len(returnValue)
              /\ Len(delivered) \in Nat /\ Len(returnValue) \in Nat
          BY <1>4, <1>5
        <5>2. QED
          BY <3>2, <5>1
      <4>2. returnValue[i - Len(delivered)] = Object(log[i])
        BY <1>0, <4>1 DEF FoundInOrder
      <4>3. delivered'[i] = returnValue[i - Len(delivered)]
        BY <1>5, <4>1
      <4>4. QED
        BY <4>2, <4>3
    <3>3. QED
      BY <1>4, <1>5, <3>1, <3>2
  <2>2. QED
    BY <1>1, <2>1 DEF FoundInOrder
<1>7. Found' = Found
  <2>1. Found' = Len(delivered') + 0
    BY <1>1 DEF Found
  <2>2. QED
    BY <1>4, <1>5, <2>1 DEF Found
<1>8. /\ bucket' \in Seq(Unit) /\ Len(bucket') = Len(bucket) - headerStart
      /\ OnStream(log, start, bucket', start[Found + 1])
  <2> DEFINE a == headerStart + 1
             n == BucketAt(start)
             o == start[Found + 1]
  <2>1. bucket \in Seq(Unit) /\ n \in Int /\ OnStream(log, start, bucket, n)
    BY <1>0, <1>3, <1>4 DEF TypeOK, Streaming
  <2>2. a \in 1 .. Len(bucket) + 1 /\ Len(bucket) \in 0 .. Len(bucket) /\ a <= Len(bucket) + 1
        /\ o \in Int /\ o = n + a - 1
    BY <1>4 DEF BucketAt
  <2>3. bucket' = SubSeq(bucket, a, Len(bucket))
    BY <1>1
  <2>4. Len(bucket) - a + 1 = Len(bucket) - headerStart
    BY <1>4
  <2> HIDE DEF a, n, o
  <2>5. /\ bucket' \in Seq(Unit) /\ Len(bucket') = Len(bucket) - a + 1
        /\ OnStream(log, start, bucket', o)
    BY <2>1, <2>2, <2>3, PartOfStream
  <2>6. QED
    BY <2>4, <2>5 DEF o
<1>9. TypeOK'
  <2>1. headerStart' \in 0 .. Len(bucket')
    BY <1>1, <1>4, <1>8
  <2>2. returnValue' \in Seq(Seq(Unit))
    BY <1>1
  <2>3. rpc' \in {"idle", "check"}
    BY <1>2
  <2>4. QED
    BY <1>0, <1>1, <1>5, <1>8, <2>1, <2>2, <2>3 DEF TypeOK
<1>10. HolderSendsLast' /\ NothingHalfRead'
  BY <1>0, <1>1 DEF HolderSendsLast, NothingHalfRead, Current
<1>11. Streaming(start)'
  <2>1. BucketAt(start)' = start[Found + 1]
    <3>1. BucketAt(start)' = start[Found + 1] - 0
      BY <1>1, <1>7 DEF BucketAt
    <3>2. QED
      BY <1>4, <3>1
  <2>2. BufferAt(start)' = BufferAt(start)
    <3>1. BufferAt(start)' = start[Found + 1] + (Len(bucket) - headerStart)
      BY <1>8, <2>1 DEF BufferAt
    <3>2. BufferAt(start) = (start[Found + 1] - headerStart) + Len(bucket)
      BY DEF BufferAt, BucketAt
    <3>3. QED
      BY <1>4, <3>1, <3>2
  <2>3. WireAt(start)' = WireAt(start) /\ SentInAll(start)' = SentInAll(start)
    BY <1>1, <2>2 DEF WireAt, SentInAll
  <2>4. QED
    BY <1>1, <1>3, <1>7, <1>8, <2>1, <2>2, <2>3 DEF Streaming
<1>12. QED
  BY <1>0, <1>1, <1>6, <1>9, <1>10, <1>11 DEF ChannelInvariant, StreamInOrder

-----------------------------------------------------------------------------
(* All steps together *)

LEMMA ChannelNext == ChannelInvariant /\ [Next]_vars => ChannelInvariant'
<1> SUFFICES ASSUME ChannelInvariant, [Next]_vars PROVE ChannelInvariant'
  OBVIOUS
<1>0. TypeOK /\ NothingHalfRead
  BY DEF ChannelInvariant
<1>1. ASSUME NEW s \in Senders, SendSerialized(s) PROVE ChannelInvariant'
  BY <1>1, LockStep, SendPartStep, SendFailsStep, UnlockStep DEF SendSerialized
<1>2. CASE SenderCloses
  BY <1>0, <1>2, QuietStep DEF SenderCloses, sending, receiving, reading, TypeOK, NothingHalfRead
<1>3. CASE ReceiverLeaves
  BY <1>0, <1>3, QuietStep DEF ReceiverLeaves, sending, receiving, reading, TypeOK, NothingHalfRead
<1>4. CASE ReceiveThread
  <2>1. CASE Receive
    BY <2>1, ReceiveStep
  <2>2. CASE AppendBuffer
    BY <2>2, AppendBufferStep
  <2>3. CASE EndThread
    BY <1>0, <2>3, QuietStep DEF EndThread, sending, receiving, reading, TypeOK, NothingHalfRead
  <2>4. QED
    BY <1>4, <2>1, <2>2, <2>3 DEF ReceiveThread
<1>5. CASE ReceiveSerialized
  <2>1. CASE BeginReceive
    <3>1. headerStart' = headerStart /\ returnValue' = returnValue
      BY <1>0, <2>1 DEF BeginReceive, NothingHalfRead
    <3>2. QED
      BY <1>0, <2>1, <3>1, QuietStep
         DEF BeginReceive, sending, receiving, reading, TypeOK, NothingHalfRead
  <2>2. CASE TakeObject
    BY <2>2, TakeObjectStep
  <2>3. CASE EndReceive
    BY <2>3, EndReceiveStep
  <2>4. CASE ReturnNothing
    BY <1>0, <2>4, QuietStep
       DEF ReturnNothing, sending, receiving, reading, TypeOK, NothingHalfRead
  <2>5. CASE Terminate
    BY <1>0, <2>5, QuietStep
       DEF Terminate, sending, receiving, reading, TypeOK, NothingHalfRead
  <2>6. QED
    BY <1>5, <2>1, <2>2, <2>3, <2>4, <2>5 DEF ReceiveSerialized
<1>6. CASE UNCHANGED vars
  BY <1>0, <1>6, QuietStep DEF vars, sending, receiving, reading, TypeOK, NothingHalfRead
<1>7. QED
  BY <1>1, <1>2, <1>3, <1>4, <1>5, <1>6 DEF Next, Rest

LEMMA ChannelAlways == Spec => []ChannelInvariant
<1>1. Init => ChannelInvariant
  BY ChannelInit
<1>2. ChannelInvariant /\ [Next]_vars => ChannelInvariant'
  BY ChannelNext
<1>3. QED
  BY <1>1, <1>2, PTL DEF Spec

-----------------------------------------------------------------------------
(* The theorems *)

(* Every variable keeps its type, d_sendLock has at most one holder, and   *)
(* the reader never reads past the end of the bucket.                      *)
THEOREM ChannelTypeCorrect == Spec => []TypeOK
<1>1. ChannelInvariant => TypeOK
  BY DEF ChannelInvariant
<1>2. QED
  BY <1>1, ChannelAlways, PTL

(* The reader gets the very objects that were sent, whole, in the order in *)
(* which the senders got d_sendLock, however many senders there are,       *)
(* whatever the sizes, and wherever send and recv cut the stream.          *)
THEOREM ObjectsAreDeliveredInOrder == Spec => []DeliveredInOrder
<1>1. ASSUME ChannelInvariant PROVE DeliveredInOrder
  <2>0. TypeOK /\ FoundInOrder
    BY <1>1 DEF ChannelInvariant
  <2>1. PICK start : Streaming(start)
    BY <1>1 DEF ChannelInvariant, StreamInOrder
  <2> DEFINE got == delivered \o returnValue
             objects == [i \in DOMAIN log |-> Object(log[i])]
  <2>2. /\ Len(delivered) \in Nat /\ Len(returnValue) \in Nat /\ Len(log) \in Nat
        /\ delivered \in Seq(Seq(Unit)) /\ returnValue \in Seq(Seq(Unit))
        /\ log \in Seq(Messages) /\ DOMAIN log = 1 .. Len(log)
        /\ Len(delivered) + Len(returnValue) <= Len(log)
    BY <2>0, <2>1, Positions, LenProperties DEF TypeOK, Streaming, Found
  <2>3. /\ got \in Seq(Seq(Unit)) /\ Len(got) = Len(delivered) + Len(returnValue)
        /\ \A i \in 1 .. Len(delivered) + Len(returnValue) :
              got[i] = IF i <= Len(delivered) THEN delivered[i] ELSE returnValue[i - Len(delivered)]
    BY <2>2, ConcatProperties
  <2>4. objects \in Seq(Seq(Unit)) /\ Len(objects) = Len(log)
        /\ \A i \in 1 .. Len(log) : objects[i] = Object(log[i])
    <3>1. \A i \in 1 .. Len(log) : Object(log[i]) \in Seq(Unit)
      BY <2>2, ElementOfSeq, FrameFacts
    <3>2. objects \in [1 .. Len(log) -> Seq(Unit)]
      BY <2>2, <3>1
    <3>3. \A i \in 1 .. Len(log) : objects[i] = Object(log[i])
      BY <2>2
    <3> HIDE DEF objects
    <3>4. QED
      BY <2>2, <3>2, <3>3, FunctionIsSequence
  <2> HIDE DEF got, objects
  <2>5. ASSUME NEW i \in 1 .. Len(got) PROVE got[i] = objects[i]
    <3>1. i \in 1 .. Len(log)
      BY <2>2, <2>3
    <3>2. CASE i <= Len(delivered)
      <4>1. i \in 1 .. Len(delivered)
        BY <2>2, <3>1, <3>2
      <4>2. QED
        BY <2>0, <2>3, <2>4, <3>1, <3>2, <4>1 DEF FoundInOrder
    <3>3. CASE ~ (i <= Len(delivered))
      <4>1. i - Len(delivered) \in 1 .. Len(returnValue) /\ Len(delivered) + (i - Len(delivered)) = i
        BY <2>2, <2>3, <3>3
      <4>2. returnValue[i - Len(delivered)] = Object(log[i])
        BY <2>0, <4>1 DEF FoundInOrder
      <4>3. QED
        BY <2>3, <2>4, <3>1, <3>3, <4>2
    <3>4. QED
      BY <3>2, <3>3
  <2>6. Len(got) \in Nat /\ Len(got) <= Len(objects)
    BY <2>2, <2>3, <2>4
  <2>7. SubSeq(got, 1, Len(got)) = SubSeq(objects, 1, Len(got))
    <3>1. \A i \in 1 .. Len(got) : got[i] \in Seq(Unit) /\ objects[i] \in Seq(Unit)
      BY <2>3, <2>5, ElementOfSeq
    <3> DEFINE a == SubSeq(got, 1, Len(got))
               b == SubSeq(objects, 1, Len(got))
               n == Len(got)
    <3>2. n \in Nat /\ (n - 1 + 1 = n) /\ (IF 1 <= n THEN n - 1 + 1 ELSE 0) = n
          /\ \A i \in 1 .. n : 1 + i - 1 = i
      BY <2>6
    <3>3. /\ a \in Seq(Seq(Unit)) /\ Len(a) = (IF 1 <= n THEN n - 1 + 1 ELSE 0)
          /\ \A i \in 1 .. n - 1 + 1 : a[i] = got[1 + i - 1]
      BY <2>6, <3>1, SubSeqProperties
    <3>4. /\ b \in Seq(Seq(Unit)) /\ Len(b) = (IF 1 <= n THEN n - 1 + 1 ELSE 0)
          /\ \A i \in 1 .. n - 1 + 1 : b[i] = objects[1 + i - 1]
      BY <2>6, <3>1, SubSeqProperties
    <3>5. \A i \in 1 .. n : got[i] = objects[i]
      BY <2>5
    <3> HIDE DEF a, b, n
    <3>6. Len(a) = n /\ Len(b) = n /\ \A i \in 1 .. n : a[i] = b[i]
      BY <3>2, <3>3, <3>4, <3>5
    <3>7. a = b
      BY <3>3, <3>4, <3>6, SeqEqual
    <3>8. QED
      BY <3>7 DEF a, b
  <2>8. QED
    BY <2>6, <2>7 DEF DeliveredInOrder, IsPrefix, got, objects
<1>2. QED
  BY <1>1, ChannelAlways, PTL
=============================================================================
