--------------------------- MODULE WarehouseProofs ---------------------------
(* What Warehouse guarantees for every number of clients and of objects,   *)
(* whoever leaves and when.                                                *)
EXTENDS Warehouse, QueueLemmas, FiniteSetTheorems

-----------------------------------------------------------------------------
(* The inductive invariant *)

(* receive() is at a communicator that is there.                           *)
CheckedIsThere == pc = "check" => communicatorId <= size

(* What the communicators that are left are those of.  Until one has been  *)
(* erased the iterator is where the index is; the first one that is erased *)
(* is that of a client that has gone; the second one is of another.        *)
AllThere == \A i \in Clients : slots[i] = i
OneErased ==
    \E g \in Gone : \A i \in 1 .. size : slots[i] = IF i < g THEN i ELSE i + 1
TwoGone == \E g, h \in Gone : g # h
ErasedHaveGone ==
    /\ size = NumClients =>
           AllThere /\ (pc \in {"pass", "check"} => iter = communicatorId)
    /\ size = NumClients - 1 => OneErased
    /\ size < NumClients - 1 => TwoGone

(* While nobody but the last client has gone no communicator has moved.    *)
StampedRight(objects) == \A o \in Range(objects) : o.stamp = o.owner
Unshifted ==
    Gone \subseteq {NumClients} =>
        /\ AllThere
        /\ size >= NumClients - 1
        /\ StampedRight(held) /\ StampedRight(receivedObjects)
        /\ \A c \in Clients : \A o \in Range(answers[c]) : o.owner = c

(* The objects of each client are in order within each place and from one  *)
(* place to the next.                                                      *)
Before(objects, later) ==
    \A o \in Range(objects), p \in Range(later) : o.owner = p.owner => o.number < p.number
PlacesInOrder ==
    /\ InOrder(held) /\ InOrder(receivedObjects) /\ Before(held, receivedObjects)
    /\ \A c \in Clients : \A i \in DOMAIN inbox[c] :
           /\ \A n \in NumbersOf(c, held) \cup NumbersOf(c, receivedObjects) : n < inbox[c][i]
           /\ \A j \in DOMAIN inbox[c] : i < j => inbox[c][i] < inbox[c][j]

(* What has not been answered is in one of the places.                     *)
Unanswered(c) ==
    NumbersOf(c, held) \cup NumbersOf(c, receivedObjects) \cup Range(inbox[c])
AllAccounted ==
    \A c \in Clients :
        /\ Answered(c) \cap Unanswered(c) = {}
        /\ Answered(c) \cup Unanswered(c) = 1 .. sent[c]

WarehouseInvariant ==
    /\ TypeOK /\ CheckedIsThere
    /\ ErasedHaveGone /\ Unshifted
    /\ PlacesInOrder /\ AllAccounted

-----------------------------------------------------------------------------
(* Objects in order *)

(* In order, no two objects of a client have the same number.              *)
LEMMA InOrderDistinct ==
    ASSUME NEW s \in Seq(Stamped), InOrder(s), NEW i \in DOMAIN s, NEW j \in DOMAIN s,
           s[i].owner = s[j].owner, s[i].number = s[j].number
    PROVE  i = j
<1>1. DOMAIN s = 1 .. Len(s) /\ Len(s) \in Nat
  BY LenProperties
<1>2. s[i] \in Stamped /\ s[j] \in Stamped
  BY <1>1, ElementOfSeq
<1>3. s[i].number \in Nat /\ s[j].number \in Nat
  BY <1>2 DEF Stamped, Numbers
<1>4. i \in Nat /\ j \in Nat
  BY <1>1
<1>5. CASE i < j
  BY <1>3, <1>5 DEF InOrder
<1>6. CASE j < i
  BY <1>3, <1>6 DEF InOrder
<1>7. QED
  BY <1>4, <1>5, <1>6

(* One sequence behind another.                                            *)
LEMMA NumbersOfConcat ==
    ASSUME NEW s \in Seq(Stamped), NEW t \in Seq(Stamped), NEW c
    PROVE  NumbersOf(c, s \o t) = NumbersOf(c, s) \cup NumbersOf(c, t)
<1>1. Range(s \o t) = Range(s) \cup Range(t)
  BY ConcatFacts
<1>2. QED
  BY <1>1 DEF NumbersOf

LEMMA InOrderConcat ==
    ASSUME NEW s \in Seq(Stamped), NEW t \in Seq(Stamped),
           InOrder(s), InOrder(t), Before(s, t)
    PROVE  InOrder(s \o t)
<1> DEFINE u == s \o t
           m == Len(s)
           n == Len(t)
<1>1. /\ u \in Seq(Stamped) /\ Len(u) = m + n
      /\ \A i \in 1 .. m + n : u[i] = IF i <= m THEN s[i] ELSE t[i - m]
      /\ DOMAIN u = 1 .. m + n
  BY ConcatProperties, LenProperties
<1>2. m \in Nat /\ n \in Nat /\ DOMAIN s = 1 .. m /\ DOMAIN t = 1 .. n
  BY LenProperties
<1> HIDE DEF u, m, n
<1>3. SUFFICES ASSUME NEW i \in DOMAIN u, NEW j \in DOMAIN u, i < j, u[i].owner = u[j].owner
               PROVE  u[i].number < u[j].number
  BY DEF InOrder, u
<1>4. CASE j <= m
  <2>1. i \in DOMAIN s /\ j \in DOMAIN s /\ u[i] = s[i] /\ u[j] = s[j]
    BY <1>1, <1>2, <1>3, <1>4
  <2>2. QED
    BY <1>3, <2>1 DEF InOrder
<1>5. CASE i > m
  <2>1. i - m \in DOMAIN t /\ j - m \in DOMAIN t /\ u[i] = t[i - m] /\ u[j] = t[j - m]
        /\ i - m < j - m
    BY <1>1, <1>2, <1>3, <1>5
  <2>2. QED
    BY <1>3, <2>1 DEF InOrder
<1>6. CASE i <= m /\ j > m
  <2>1. i \in DOMAIN s /\ j - m \in DOMAIN t /\ u[i] = s[i] /\ u[j] = t[j - m]
    BY <1>1, <1>2, <1>3, <1>6
  <2>2. u[i] \in Range(s) /\ u[j] \in Range(t)
    BY <2>1 DEF Range
  <2>3. QED
    BY <1>3, <2>2 DEF Before
<1>7. QED
  BY <1>1, <1>2, <1>4, <1>5, <1>6

(* An object that is taken out leaves the others in order.                 *)
LEMMA InOrderRemove ==
    ASSUME NEW s \in Seq(Stamped), InOrder(s), NEW i \in 1 .. Len(s)
    PROVE  /\ RemoveAt(s, i) \in Seq(Stamped) /\ InOrder(RemoveAt(s, i))
           /\ Range(RemoveAt(s, i)) = Range(s) \ {s[i]}
           /\ s[i] \in Stamped /\ s[i] \in Range(s)
           /\ \A c : NumbersOf(c, RemoveAt(s, i)) =
                        IF c = s[i].owner THEN NumbersOf(c, s) \ {s[i].number} ELSE NumbersOf(c, s)
<1> DEFINE t == RemoveAt(s, i)
<1>1. DOMAIN s = 1 .. Len(s) /\ Len(s) \in Nat
  BY LenProperties
<1>2. IsInjective(s)
  BY InOrderDistinct DEF IsInjective
<1>3. /\ t \in Seq(Stamped) /\ Len(t) = Len(s) - 1 /\ s[i] \in Stamped /\ s[i] \in Range(s)
      /\ \A j \in 1 .. Len(s) - 1 : t[j] = IF j < i THEN s[j] ELSE s[j + 1]
      /\ Range(t) = Range(s) \ {s[i]}
  BY <1>2, RemoveAtFacts
<1>4. DOMAIN t = 1 .. Len(s) - 1
  BY <1>3, LenProperties
<1> HIDE DEF t
<1>5. InOrder(t)
  <2> DEFINE Old(j) == IF j < i THEN j ELSE j + 1
  <2>1. \A j \in DOMAIN t : Old(j) \in DOMAIN s /\ t[j] = s[Old(j)]
    BY <1>1, <1>3, <1>4
  <2>2. \A j, k \in DOMAIN t : j < k => Old(j) < Old(k)
    BY <1>1, <1>4
  <2> HIDE DEF Old
  <2>3. QED
    BY <2>1, <2>2 DEF InOrder
<1>6. ASSUME NEW c
      PROVE  NumbersOf(c, t) = IF c = s[i].owner THEN NumbersOf(c, s) \ {s[i].number}
                                                 ELSE NumbersOf(c, s)
  <2>1. CASE c # s[i].owner
    BY <1>3, <2>1 DEF NumbersOf
  <2>2. CASE c = s[i].owner
    <3>1. \A o \in Range(s) : o.owner = c /\ o.number = s[i].number => o = s[i]
      <4>1. SUFFICES ASSUME NEW j \in DOMAIN s, s[j].owner = c, s[j].number = s[i].number
                     PROVE  s[j] = s[i]
        BY DEF Range
      <4>2. QED
        BY <1>1, <2>2, <4>1, InOrderDistinct
    <3>2. QED
      BY <1>3, <2>2, <3>1 DEF NumbersOf
  <2>3. QED
    BY <2>1, <2>2
<1>7. QED
  BY <1>3, <1>5, <1>6 DEF t

(* What receive() takes from a communicator: all that waits, stamped.      *)
Batch(c, id) == [i \in DOMAIN inbox[c] |-> [owner |-> c, number |-> inbox[c][i], stamp |-> id]]

LEMMA BatchFacts ==
    ASSUME TypeOK, NEW c \in Clients, NEW id \in Clients
    PROVE  /\ Batch(c, id) \in Seq(Stamped)
           /\ \A o \in Range(Batch(c, id)) :
                  o.owner = c /\ o.stamp = id /\ o.number \in Range(inbox[c])
           /\ \A d : NumbersOf(d, Batch(c, id)) = IF d = c THEN Range(inbox[c]) ELSE {}
           /\ (\A i, j \in DOMAIN inbox[c] : i < j => inbox[c][i] < inbox[c][j])
                  => InOrder(Batch(c, id))
<1> DEFINE q == inbox[c]
           b == Batch(c, id)
<1>1. q \in Seq(Numbers) /\ DOMAIN q = 1 .. Len(q) /\ Len(q) \in Nat
      /\ \A i \in 1 .. Len(q) : q[i] \in Numbers
  <2>1. q \in Seq(Numbers)
    BY DEF TypeOK
  <2>2. QED
    BY <2>1, LenProperties, ElementOfSeq
<1>2. /\ DOMAIN b = DOMAIN q
      /\ \A i \in DOMAIN q : b[i] = [owner |-> c, number |-> q[i], stamp |-> id]
  BY DEF Batch
<1>3. b \in Seq(Stamped)
  <2>1. \A i \in 1 .. Len(q) : [owner |-> c, number |-> q[i], stamp |-> id] \in Stamped
    BY <1>1 DEF Stamped
  <2>2. b \in [1 .. Len(q) -> Stamped]
    BY <1>1, <2>1 DEF Batch
  <2>3. QED
    BY <1>1, <2>2, SeqDef
<1> HIDE DEF q, b
<1>4. \A i \in DOMAIN q : b[i].owner = c /\ b[i].number = q[i] /\ b[i].stamp = id
  BY <1>2
<1>5. \A o \in Range(b) : o.owner = c /\ o.stamp = id /\ o.number \in Range(q)
  BY <1>2, <1>4 DEF Range
<1>6. ASSUME NEW d PROVE NumbersOf(d, b) = IF d = c THEN Range(q) ELSE {}
  <2>1. \A n \in Range(q) : \E o \in Range(b) : o.owner = c /\ o.number = n
    BY <1>2, <1>4 DEF Range
  <2>2. QED
    BY <1>5, <2>1 DEF NumbersOf
<1>7. (\A i, j \in DOMAIN q : i < j => q[i] < q[j]) => InOrder(b)
  BY <1>2, <1>4 DEF InOrder
<1>8. QED
  BY <1>3, <1>5, <1>6, <1>7 DEF q, b

-----------------------------------------------------------------------------
(* Initially, and the steps of the clients *)

LEMMA WarehouseInit == Init => WarehouseInvariant
<1> SUFFICES ASSUME Init PROVE WarehouseInvariant
  OBVIOUS
<1> USE DEF Init
<1>0. NumClients \in Nat \ {0} /\ Clients = 1 .. NumClients
  BY ClientsAssumption DEF Clients
<1>1. TypeOK
  <2>1. MaxSent \in [Clients -> Nat]
    BY ClientsAssumption
  <2>2. /\ <<>> \in Seq(Numbers) /\ <<>> \in Seq(Objects) /\ <<>> \in Seq(Stamped)
    OBVIOUS
  <2>3. inbox \in [Clients -> Seq(Numbers)] /\ answers \in [Clients -> Seq(Objects)]
    BY <2>2
  <2>4. slots \in [Clients -> Clients] /\ size \in 0 .. NumClients
    BY <1>0
  <2>5. sent \in [Clients -> Nat] /\ \A c \in Clients : sent[c] <= MaxSent[c]
    BY <2>1
  <2>6. communicatorId \in 1 .. NumClients + 1 /\ iter \in 1 .. communicatorId
    BY <1>0
  <2>7. QED
    BY <2>2, <2>3, <2>4, <2>5, <2>6 DEF TypeOK
<1>2. CheckedIsThere /\ ErasedHaveGone /\ AllThere
  BY <1>0 DEF CheckedIsThere, ErasedHaveGone, AllThere
<1>3. Range(held) = {} /\ Range(receivedObjects) = {}
      /\ \A c \in Clients : Range(answers[c]) = {} /\ Range(inbox[c]) = {}
  BY DEF Range
<1>4. \A c : NumbersOf(c, held) = {} /\ NumbersOf(c, receivedObjects) = {} /\ Answered(c) = {}
  BY <1>3 DEF NumbersOf, Answered
<1>5. Unshifted
  BY <1>0, <1>2, <1>3 DEF Unshifted, StampedRight
<1>6. PlacesInOrder
  BY <1>3, <1>4 DEF PlacesInOrder, InOrder, Before
<1>7. AllAccounted
  BY <1>3, <1>4 DEF AllAccounted, Unanswered
<1>8. QED
  BY <1>1, <1>2, <1>5, <1>6, <1>7 DEF WarehouseInvariant

(* A client sends an object: it has the greatest number.                   *)
LEMMA SendStep ==
    ASSUME WarehouseInvariant, NEW c \in Clients, Send(c) PROVE WarehouseInvariant'
<1>0. TypeOK /\ CheckedIsThere /\ ErasedHaveGone /\ Unshifted /\ PlacesInOrder /\ AllAccounted
  BY DEF WarehouseInvariant
<1>1. /\ sent[c] < MaxSent[c]
      /\ sent' = [sent EXCEPT ![c] = @ + 1]
      /\ inbox' = [inbox EXCEPT ![c] = Append(@, sent'[c])]
      /\ open' = open /\ answers' = answers /\ slots' = slots /\ size' = size /\ pc' = pc
      /\ communicatorId' = communicatorId /\ iter' = iter
      /\ receivedObjects' = receivedObjects /\ held' = held
  BY DEF Send, vector, pass
<1>2. /\ sent \in [Clients -> Nat] /\ MaxSent \in [Clients -> Nat]
      /\ inbox \in [Clients -> Seq(Numbers)]
  BY <1>0, ClientsAssumption DEF TypeOK
<1> DEFINE n == sent[c] + 1
           q == inbox[c]
<1>3. n \in Numbers /\ n \in Nat /\ sent[c] \in Nat /\ n <= MaxSent[c] /\ q \in Seq(Numbers)
  BY <1>1, <1>2 DEF Numbers
<1>4. /\ sent' \in [Clients -> Nat] /\ sent'[c] = n
      /\ \A d \in Clients : d # c => sent'[d] = sent[d]
  BY <1>1, <1>2, <1>3
<1> HIDE DEF n
<1>5. inbox'[c] = Append(q, n) /\ \A d \in Clients : d # c => inbox'[d] = inbox[d]
  BY <1>1, <1>2, <1>4
<1>6. inbox' \in [Clients -> Seq(Numbers)]
  <2>1. Append(q, n) \in Seq(Numbers)
    BY <1>3, AppendProperties
  <2>2. QED
    BY <1>1, <1>2, <1>4, <2>1
<1> HIDE DEF q
<1>7. /\ Range(Append(q, n)) = Range(q) \cup {n}
      /\ Len(q) \in Nat /\ DOMAIN q = 1 .. Len(q) /\ DOMAIN Append(q, n) = 1 .. Len(q) + 1
      /\ \A i \in 1 .. Len(q) : Append(q, n)[i] = q[i]
      /\ Append(q, n)[Len(q) + 1] = n
  <2>1. Append(q, n) \in Seq(Numbers) /\ Len(Append(q, n)) = Len(q) + 1
        /\ Len(q) \in Nat /\ DOMAIN q = 1 .. Len(q)
        /\ \A i \in 1 .. Len(q) : Append(q, n)[i] = q[i]
        /\ Append(q, n)[Len(q) + 1] = n
    BY <1>3, AppendProperties, LenProperties
  <2>2. DOMAIN Append(q, n) = 1 .. Len(q) + 1
    BY <2>1, LenProperties
  <2>3. QED
    BY <1>3, <2>1, <2>2, AppendFacts
<1>8. Gone' = Gone /\ \A d : Answered(d)' = Answered(d)
  BY <1>1 DEF Gone, Answered, NumbersOf
<1>9. \A m \in NumbersOf(c, held) \cup NumbersOf(c, receivedObjects) \cup Range(q) \cup Answered(c) :
         m \in 1 .. sent[c]
  BY <1>0 DEF AllAccounted, Unanswered, q
<1>10. TypeOK'
  <2>1. \A d \in Clients : sent'[d] <= MaxSent[d]
    BY <1>0, <1>3, <1>4 DEF TypeOK
  <2>2. QED
    BY <1>0, <1>1, <1>4, <1>6, <2>1 DEF TypeOK
<1>11. CheckedIsThere' /\ ErasedHaveGone' /\ Unshifted'
  BY <1>0, <1>1, <1>8
     DEF CheckedIsThere, ErasedHaveGone, AllThere, OneErased, TwoGone, Unshifted, StampedRight
<1>12. PlacesInOrder'
  <2>1. ASSUME NEW d \in Clients, NEW i \in DOMAIN inbox'[d]
        PROVE  /\ \A m \in NumbersOf(d, held) \cup NumbersOf(d, receivedObjects) : m < inbox'[d][i]
               /\ \A j \in DOMAIN inbox'[d] : i < j => inbox'[d][i] < inbox'[d][j]
    <3>1. CASE d # c
      BY <1>0, <1>5, <2>1, <3>1 DEF PlacesInOrder
    <3>2. CASE d = c
      <4>1. CASE i = Len(q) + 1
        BY <1>3, <1>5, <1>7, <1>9, <2>1, <3>2, <4>1 DEF n
      <4>2. CASE i # Len(q) + 1
        <5>1. i \in DOMAIN q /\ inbox'[d][i] = q[i] /\ q[i] \in Range(q)
          BY <1>5, <1>7, <2>1, <3>2, <4>2 DEF Range
        <5>2. \A m \in NumbersOf(d, held) \cup NumbersOf(d, receivedObjects) : m < q[i]
          BY <1>0, <3>2, <5>1 DEF PlacesInOrder, q
        <5>3. ASSUME NEW j \in DOMAIN inbox'[d], i < j PROVE inbox'[d][i] < inbox'[d][j]
          <6>1. CASE j = Len(q) + 1
            BY <1>3, <1>5, <1>7, <1>9, <3>2, <5>1, <6>1 DEF n
          <6>2. CASE j # Len(q) + 1
            <7>1. j \in DOMAIN q /\ inbox'[d][j] = q[j]
              BY <1>5, <1>7, <3>2, <5>3, <6>2
            <7>2. QED
              BY <1>0, <3>2, <5>1, <5>3, <7>1 DEF PlacesInOrder, q
          <6>3. QED
            BY <6>1, <6>2
        <5>4. QED
          BY <5>1, <5>2, <5>3
      <4>3. QED
        BY <4>1, <4>2
    <3>3. QED
      BY <3>1, <3>2
  <2>2. QED
    BY <1>0, <1>1, <2>1 DEF PlacesInOrder
<1>13. AllAccounted'
  <2>1. ASSUME NEW d \in Clients
        PROVE  /\ Answered(d) \cap Unanswered(d)' = {}
               /\ Answered(d) \cup Unanswered(d)' = 1 .. sent'[d]
    <3>1. CASE d # c
      BY <1>0, <1>1, <1>4, <1>5, <3>1 DEF AllAccounted, Unanswered
    <3>2. CASE d = c
      <4>1. Unanswered(d)' = Unanswered(d) \cup {n}
        BY <1>1, <1>5, <1>7, <3>2 DEF Unanswered, q
      <4>2. 1 .. n = (1 .. sent[c]) \cup {n} /\ n \notin 1 .. sent[c]
        BY <1>3 DEF n
      <4>3. QED
        BY <1>0, <1>4, <1>9, <3>2, <4>1, <4>2 DEF AllAccounted
    <3>3. QED
      BY <3>1, <3>2
  <2>2. QED
    BY <1>8, <2>1 DEF AllAccounted
<1>14. QED
  BY <1>10, <1>11, <1>12, <1>13 DEF WarehouseInvariant

(* A step that moves no object keeps them in order and accounted for.      *)
LEMMA NoObjectMoves ==
    ASSUME PlacesInOrder, AllAccounted, held' = held, receivedObjects' = receivedObjects,
           inbox' = inbox, sent' = sent, answers' = answers
    PROVE  PlacesInOrder' /\ AllAccounted'
<1>1. PlacesInOrder'
  BY DEF PlacesInOrder
<1>2. \A c : Unanswered(c)' = Unanswered(c)
  BY DEF Unanswered
<1>3. \A c : Answered(c)' = Answered(c)
  BY DEF Answered
<1>4. AllAccounted'
  BY <1>2, <1>3 DEF AllAccounted
<1>5. QED
  BY <1>1, <1>4

(* A client that leaves is one more that has gone.                         *)
LEMMA LeaveStep ==
    ASSUME WarehouseInvariant, NEW c \in Clients, Leave(c) PROVE WarehouseInvariant'
<1>0. TypeOK /\ CheckedIsThere /\ ErasedHaveGone /\ Unshifted /\ PlacesInOrder /\ AllAccounted
  BY DEF WarehouseInvariant
<1>1. /\ open' = [open EXCEPT ![c] = FALSE]
      /\ sent' = sent /\ inbox' = inbox /\ answers' = answers /\ slots' = slots /\ size' = size
      /\ pc' = pc /\ communicatorId' = communicatorId /\ iter' = iter
      /\ receivedObjects' = receivedObjects /\ held' = held
  BY DEF Leave, vector, pass
<1>2. Gone \subseteq Gone'
  BY <1>0, <1>1 DEF Gone, TypeOK
<1>3. TypeOK' /\ CheckedIsThere'
  BY <1>0, <1>1 DEF TypeOK, CheckedIsThere
<1>4. ErasedHaveGone'
  BY <1>0, <1>1, <1>2 DEF ErasedHaveGone, AllThere, OneErased, TwoGone
<1>5. Unshifted'
  BY <1>0, <1>1, <1>2 DEF Unshifted, AllThere, StampedRight
<1>6. PlacesInOrder' /\ AllAccounted'
  BY <1>0, <1>1, NoObjectMoves
<1>7. QED
  BY <1>3, <1>4, <1>5, <1>6 DEF WarehouseInvariant

-----------------------------------------------------------------------------
(* The steps of receive() *)

(* The steps that change only where receive() is.                          *)
LEMMA LookStep ==
    ASSUME WarehouseInvariant, UNCHANGED <<peers, vector, receivedObjects, held>>,
           pc' \in {"idle", "pass", "check", "shut", "dead"},
           communicatorId' \in 1 .. NumClients + 1, iter' \in 1 .. communicatorId',
           CheckedIsThere',
           size = NumClients /\ pc' \in {"pass", "check"} => iter' = communicatorId'
    PROVE  WarehouseInvariant'
<1>0. TypeOK /\ ErasedHaveGone /\ Unshifted /\ PlacesInOrder /\ AllAccounted
  BY DEF WarehouseInvariant
<1>1. /\ open' = open /\ sent' = sent /\ inbox' = inbox /\ answers' = answers
      /\ slots' = slots /\ size' = size /\ receivedObjects' = receivedObjects /\ held' = held
  BY DEF peers, vector
<1>2. TypeOK'
  BY <1>0, <1>1 DEF TypeOK
<1>3. ErasedHaveGone' /\ Unshifted'
  BY <1>0, <1>1 DEF ErasedHaveGone, AllThere, OneErased, TwoGone, Gone, Unshifted, StampedRight
<1>4. PlacesInOrder' /\ AllAccounted'
  BY <1>0, <1>1, NoObjectMoves
<1>5. QED
  BY <1>2, <1>3, <1>4 DEF WarehouseInvariant

(* All that waits at a communicator goes behind what was received.         *)
LEMMA ReceiveObjectsStep ==
    ASSUME WarehouseInvariant, ReceiveObjects PROVE WarehouseInvariant'
<1>0. TypeOK /\ CheckedIsThere /\ ErasedHaveGone /\ Unshifted /\ PlacesInOrder /\ AllAccounted
  BY DEF WarehouseInvariant
<1> DEFINE c == slots[communicatorId]
           b == Batch(c, communicatorId)
<1>1. /\ pc = "pass" /\ communicatorId <= size
      /\ receivedObjects' = receivedObjects \o b
      /\ inbox' = [inbox EXCEPT ![c] = <<>>]
      /\ communicatorId' = communicatorId + 1 /\ iter' = iter + 1
      /\ sent' = sent /\ open' = open /\ answers' = answers /\ slots' = slots /\ size' = size
      /\ pc' = pc /\ held' = held
  BY DEF ReceiveObjects, vector, Batch
<1>2. /\ communicatorId \in Clients /\ c \in Clients
      /\ communicatorId' \in 1 .. NumClients + 1 /\ iter' \in 1 .. communicatorId'
  <2>1. NumClients \in Nat /\ communicatorId \in 1 .. NumClients + 1 /\ iter \in 1 .. communicatorId
        /\ size \in 0 .. NumClients /\ slots \in [Clients -> Clients]
    BY <1>0, ClientsAssumption DEF TypeOK
  <2>2. QED
    BY <1>1, <2>1 DEF Clients
<1>3. /\ receivedObjects \in Seq(Stamped) /\ held \in Seq(Stamped)
      /\ inbox \in [Clients -> Seq(Numbers)]
  BY <1>0 DEF TypeOK
<1>4. /\ b \in Seq(Stamped)
      /\ \A o \in Range(b) : o.owner = c /\ o.stamp = communicatorId /\ o.number \in Range(inbox[c])
      /\ \A d : NumbersOf(d, b) = IF d = c THEN Range(inbox[c]) ELSE {}
      /\ InOrder(b)
  <2>1. \A i, j \in DOMAIN inbox[c] : i < j => inbox[c][i] < inbox[c][j]
    BY <1>0, <1>2 DEF PlacesInOrder
  <2>2. QED
    BY <1>0, <1>2, <2>1, BatchFacts
<1>5. /\ \A d \in Clients : inbox'[d] = IF d = c THEN <<>> ELSE inbox[d]
      /\ inbox' \in [Clients -> Seq(Numbers)]
  BY <1>1, <1>2, <1>3
<1> HIDE DEF c, b
<1>6. /\ receivedObjects' \in Seq(Stamped)
      /\ Range(receivedObjects') = Range(receivedObjects) \cup Range(b)
      /\ \A d : NumbersOf(d, receivedObjects') = NumbersOf(d, receivedObjects) \cup NumbersOf(d, b)
  BY <1>1, <1>3, <1>4, ConcatFacts, NumbersOfConcat
<1>7. TypeOK' /\ CheckedIsThere'
  BY <1>0, <1>1, <1>2, <1>5, <1>6 DEF TypeOK, CheckedIsThere
<1>8. ErasedHaveGone'
  <2>1. size = NumClients => iter' = communicatorId'
    BY <1>0, <1>1 DEF ErasedHaveGone
  <2>2. Gone' = Gone
    BY <1>1 DEF Gone
  <2>3. QED
    BY <1>0, <1>1, <2>1, <2>2 DEF ErasedHaveGone, AllThere, OneErased, TwoGone
<1>9. Unshifted'
  <2>1. ASSUME Gone \subseteq {NumClients} PROVE StampedRight(receivedObjects')
    <3>1. c = communicatorId
      BY <1>0, <1>2, <2>1 DEF Unshifted, AllThere, c
    <3>2. QED
      BY <1>0, <1>4, <1>6, <2>1, <3>1 DEF Unshifted, StampedRight
  <2>2. Gone' = Gone
    BY <1>1 DEF Gone
  <2>3. QED
    BY <1>0, <1>1, <2>1, <2>2 DEF Unshifted, AllThere, StampedRight
<1>10. PlacesInOrder'
  <2>1. \A o \in Range(held) \cup Range(receivedObjects), p \in Range(b) :
            o.owner = p.owner => o.number < p.number
    <3>1. SUFFICES ASSUME NEW o \in Range(held) \cup Range(receivedObjects), NEW p \in Range(b),
                          o.owner = p.owner
                   PROVE  o.number < p.number
      OBVIOUS
    <3>2. o.owner = c /\ p.number \in Range(inbox[c])
      BY <1>4, <3>1
    <3>3. o.number \in NumbersOf(c, held) \cup NumbersOf(c, receivedObjects)
      BY <3>2 DEF NumbersOf
    <3>4. PICK i \in DOMAIN inbox[c] : p.number = inbox[c][i]
      BY <3>2 DEF Range
    <3>5. QED
      BY <1>0, <1>2, <3>3, <3>4 DEF PlacesInOrder
  <2>2. InOrder(receivedObjects')
    BY <1>0, <1>1, <1>3, <1>4, <2>1, InOrderConcat DEF PlacesInOrder, Before
  <2>3. Before(held, receivedObjects')
    BY <1>0, <1>6, <2>1 DEF PlacesInOrder, Before
  <2>4. ASSUME NEW d \in Clients, NEW i \in DOMAIN inbox'[d]
        PROVE  /\ \A n \in NumbersOf(d, held) \cup NumbersOf(d, receivedObjects') : n < inbox'[d][i]
               /\ \A j \in DOMAIN inbox'[d] : i < j => inbox'[d][i] < inbox'[d][j]
    <3>1. d # c
      BY <1>5, <2>4
    <3>2. inbox'[d] = inbox[d] /\ NumbersOf(d, receivedObjects') = NumbersOf(d, receivedObjects)
      BY <1>4, <1>5, <1>6, <3>1
    <3>3. QED
      BY <1>0, <2>4, <3>2 DEF PlacesInOrder
  <2>5. QED
    BY <1>0, <1>1, <2>2, <2>3, <2>4 DEF PlacesInOrder
<1>11. AllAccounted'
  <2>1. ASSUME NEW d \in Clients PROVE Unanswered(d)' = Unanswered(d) /\ Answered(d)' = Answered(d)
    <3>1. Answered(d)' = Answered(d)
      BY <1>1 DEF Answered, NumbersOf
    <3>2. CASE d # c
      BY <1>1, <1>4, <1>5, <1>6, <2>1, <3>1, <3>2 DEF Unanswered
    <3>3. CASE d = c
      <4>1. Range(inbox'[d]) = {}
        BY <1>5, <2>1, <3>3 DEF Range
      <4>2. NumbersOf(d, receivedObjects') = NumbersOf(d, receivedObjects) \cup Range(inbox[d])
        BY <1>4, <1>6, <3>3
      <4>3. NumbersOf(d, held') = NumbersOf(d, held)
        BY <1>1
      <4>4. QED
        BY <3>1, <4>1, <4>2, <4>3 DEF Unanswered
    <3>4. QED
      BY <3>2, <3>3
  <2>2. QED
    BY <1>0, <1>1, <2>1 DEF AllAccounted
<1>12. QED
  BY <1>7, <1>8, <1>9, <1>10, <1>11 DEF WarehouseInvariant

(* A communicator is erased: the first one that is, is where the iterator  *)
(* and the index are; the second one belongs to a client that has gone     *)
(* after the first.                                                        *)
LEMMA RemoveCommunicatorStep ==
    ASSUME WarehouseInvariant, RemoveCommunicator PROVE WarehouseInvariant'
<1>0. TypeOK /\ CheckedIsThere /\ ErasedHaveGone /\ Unshifted /\ PlacesInOrder /\ AllAccounted
  BY DEF WarehouseInvariant
<1> DEFINE c == slots[communicatorId]
<1>1. /\ pc = "check" /\ ~open[c] /\ pc' = "pass"
      /\ slots' = [j \in Clients |-> IF iter <= j /\ j < size THEN slots[j + 1] ELSE slots[j]]
      /\ size' = size - 1
      /\ communicatorId' = communicatorId + 1 /\ iter' = iter
      /\ sent' = sent /\ inbox' = inbox /\ open' = open /\ answers' = answers
      /\ receivedObjects' = receivedObjects /\ held' = held
  BY DEF RemoveCommunicator, Erase, peers
<1>2. /\ NumClients \in Nat /\ Clients = 1 .. NumClients
      /\ size \in 1 .. NumClients /\ communicatorId \in 1 .. size
      /\ iter \in 1 .. communicatorId
      /\ slots \in [Clients -> Clients]
  <2>1. /\ NumClients \in Nat /\ communicatorId \in 1 .. NumClients + 1
        /\ iter \in 1 .. communicatorId
        /\ size \in 0 .. NumClients /\ slots \in [Clients -> Clients] /\ communicatorId <= size
    BY <1>0, <1>1, ClientsAssumption DEF TypeOK, CheckedIsThere
  <2>2. QED
    BY <2>1 DEF Clients
<1>3. communicatorId \in Clients /\ c \in Clients /\ c \in Gone /\ Gone' = Gone
  BY <1>1, <1>2 DEF Gone
<1> HIDE DEF c
<1>4. TypeOK'
  <2>1. \A j \in Clients : (IF iter <= j /\ j < size THEN slots[j + 1] ELSE slots[j]) \in Clients
    BY <1>2
  <2>2. slots' \in [Clients -> Clients]
    BY <1>1, <2>1
  <2>3. size' \in 0 .. NumClients /\ communicatorId' \in 1 .. NumClients + 1
        /\ iter' \in 1 .. communicatorId'
    BY <1>1, <1>2
  <2>4. QED
    BY <1>0, <1>1, <2>2, <2>3 DEF TypeOK
<1>5. CheckedIsThere'
  BY <1>1 DEF CheckedIsThere
<1>6. ErasedHaveGone'
  <2>1. size' # NumClients
    BY <1>1, <1>2
  <2>2. CASE size = NumClients
    <3>1. AllThere /\ iter = communicatorId
      BY <1>0, <1>1, <2>2 DEF ErasedHaveGone
    <3>2. c = iter
      BY <1>3, <3>1 DEF AllThere, c
    <3>3. \A i \in 1 .. size' : slots'[i] = IF i < c THEN i ELSE i + 1
      BY <1>1, <1>2, <2>2, <3>1, <3>2 DEF AllThere
    <3>4. OneErased'
      BY <1>3, <3>3 DEF OneErased
    <3>5. size' = NumClients - 1
      BY <1>1, <2>2
    <3>6. QED
      BY <1>2, <3>4, <3>5 DEF ErasedHaveGone
  <2>3. CASE size = NumClients - 1
    <3>1. PICK g \in Gone : \A i \in 1 .. size : slots[i] = IF i < g THEN i ELSE i + 1
      BY <1>0, <2>3 DEF ErasedHaveGone, OneErased
    <3>2. g \in Nat
      BY <1>2 DEF Gone
    <3>3. c # g
      BY <1>2, <3>1, <3>2 DEF c
    <3>4. TwoGone'
      BY <1>3, <3>3 DEF TwoGone
    <3>5. size' < NumClients - 1 /\ size' # NumClients - 1
      BY <1>1, <1>2, <2>3
    <3>6. QED
      BY <2>1, <3>4, <3>5 DEF ErasedHaveGone
  <2>4. CASE size < NumClients - 1
    <3>1. TwoGone'
      BY <1>0, <1>3, <2>4 DEF ErasedHaveGone, TwoGone
    <3>2. size' # NumClients - 1
      BY <1>1, <1>2, <2>4
    <3>3. QED
      BY <2>1, <3>1, <3>2 DEF ErasedHaveGone
  <2>5. QED
    BY <1>2, <2>2, <2>3, <2>4
<1>7. Unshifted'
  <2>1. SUFFICES ASSUME Gone \subseteq {NumClients}
                 PROVE  AllThere' /\ size' >= NumClients - 1
    BY <1>0, <1>1, <1>3 DEF Unshifted, StampedRight
  <2>2. AllThere
    BY <1>0, <2>1 DEF Unshifted
  <2>3. c = NumClients /\ communicatorId = NumClients
    BY <1>2, <1>3, <2>1, <2>2 DEF AllThere, c
  <2>4. size = NumClients
    BY <1>2, <2>3
  <2>5. iter = NumClients
    BY <1>0, <1>1, <2>3, <2>4 DEF ErasedHaveGone
  <2>6. \A j \in Clients : slots'[j] = slots[j]
    BY <1>1, <1>2, <2>4, <2>5
  <2>7. QED
    BY <1>1, <1>2, <2>2, <2>4, <2>6 DEF AllThere
<1>8. PlacesInOrder' /\ AllAccounted'
  BY <1>0, <1>1, NoObjectMoves
<1>9. QED
  BY <1>4, <1>5, <1>6, <1>7, <1>8 DEF WarehouseInvariant

(* What the call has received goes behind what the owner has.              *)
LEMMA EndReceiveStep ==
    ASSUME WarehouseInvariant, EndReceive PROVE WarehouseInvariant'
<1>0. TypeOK /\ CheckedIsThere /\ ErasedHaveGone /\ Unshifted /\ PlacesInOrder /\ AllAccounted
  BY DEF WarehouseInvariant
<1>1. /\ held' = held \o receivedObjects /\ receivedObjects' = <<>> /\ pc' = "idle"
      /\ sent' = sent /\ inbox' = inbox /\ open' = open /\ answers' = answers
      /\ slots' = slots /\ size' = size /\ communicatorId' = communicatorId /\ iter' = iter
  BY DEF EndReceive, peers, vector
<1>2. receivedObjects \in Seq(Stamped) /\ held \in Seq(Stamped)
  BY <1>0 DEF TypeOK
<1>3. /\ held' \in Seq(Stamped) /\ Range(held') = Range(held) \cup Range(receivedObjects)
      /\ \A d : NumbersOf(d, held') = NumbersOf(d, held) \cup NumbersOf(d, receivedObjects)
      /\ InOrder(held')
  BY <1>0, <1>1, <1>2, ConcatFacts, NumbersOfConcat, InOrderConcat DEF PlacesInOrder
<1>4. Range(receivedObjects') = {} /\ \A d : NumbersOf(d, receivedObjects') = {}
      /\ InOrder(receivedObjects') /\ receivedObjects' \in Seq(Stamped)
  <2>1. Range(receivedObjects') = {}
    BY <1>1 DEF Range
  <2>2. QED
    BY <1>1, <2>1 DEF NumbersOf, InOrder
<1>5. TypeOK' /\ CheckedIsThere'
  BY <1>0, <1>1, <1>3, <1>4 DEF TypeOK, CheckedIsThere
<1>6. Gone' = Gone
  BY <1>1 DEF Gone
<1>7. ErasedHaveGone'
  BY <1>0, <1>1, <1>6 DEF ErasedHaveGone, AllThere, OneErased, TwoGone
<1>8. Unshifted'
  BY <1>0, <1>1, <1>3, <1>4, <1>6 DEF Unshifted, AllThere, StampedRight
<1>9. PlacesInOrder'
  <2>1. Before(held, receivedObjects)'
    BY <1>4 DEF Before
  <2>2. QED
    BY <1>0, <1>1, <1>3, <1>4, <2>1 DEF PlacesInOrder
<1>10. AllAccounted'
  <2>1. \A d \in Clients : Unanswered(d)' = Unanswered(d) /\ Answered(d)' = Answered(d)
    BY <1>1, <1>3, <1>4 DEF Unanswered, Answered, NumbersOf
  <2>2. QED
    BY <1>0, <1>1, <2>1 DEF AllAccounted
<1>11. QED
  BY <1>5, <1>7, <1>8, <1>9, <1>10 DEF WarehouseInvariant

-----------------------------------------------------------------------------
(* The steps of ship() *)

(* An object that is shipped goes from the owner to the answers of the     *)
(* client that its stamp stands for now.                                   *)
LEMMA ShipStep ==
    ASSUME WarehouseInvariant, NEW i \in DOMAIN held, Ship(i) PROVE WarehouseInvariant'
<1>0. TypeOK /\ CheckedIsThere /\ ErasedHaveGone /\ Unshifted /\ PlacesInOrder /\ AllAccounted
  BY DEF WarehouseInvariant
<1> DEFINE o == held[i]
           d == slots[o.stamp]
           p == [owner |-> o.owner, number |-> o.number]
<1>1. /\ answers' = [answers EXCEPT ![d] = Append(@, p)]
      /\ held' = RemoveAt(held, i)
      /\ sent' = sent /\ inbox' = inbox /\ open' = open /\ slots' = slots /\ size' = size
      /\ pc' = pc /\ communicatorId' = communicatorId /\ iter' = iter
      /\ receivedObjects' = receivedObjects
  BY DEF Ship, vector, pass
<1>2. held \in Seq(Stamped) /\ InOrder(held) /\ i \in 1 .. Len(held)
      /\ slots \in [Clients -> Clients] /\ answers \in [Clients -> Seq(Objects)]
  <2>1. held \in Seq(Stamped)
    BY <1>0 DEF TypeOK
  <2>2. QED
    BY <1>0, <2>1, LenProperties DEF TypeOK, PlacesInOrder
<1>3. /\ held' \in Seq(Stamped) /\ InOrder(held')
      /\ Range(held') = Range(held) \ {o} /\ o \in Stamped /\ o \in Range(held)
      /\ \A c : NumbersOf(c, held') =
                   IF c = o.owner THEN NumbersOf(c, held) \ {o.number} ELSE NumbersOf(c, held)
  BY <1>1, <1>2, InOrderRemove
<1> HIDE DEF o
<1>4. o.owner \in Clients /\ o.number \in Numbers /\ o.stamp \in Clients /\ d \in Clients
      /\ p \in Objects /\ p.owner = o.owner /\ p.number = o.number
  BY <1>2, <1>3 DEF Stamped, Objects
<1> HIDE DEF d, p
<1>5. /\ answers' \in [Clients -> Seq(Objects)]
      /\ \A c \in Clients : Range(answers'[c]) =
             IF c = d THEN Range(answers[c]) \cup {p} ELSE Range(answers[c])
  <2>1. answers[d] \in Seq(Objects)
    BY <1>2, <1>4
  <2>2. Append(answers[d], p) \in Seq(Objects)
        /\ Range(Append(answers[d], p)) = Range(answers[d]) \cup {p}
    BY <1>4, <2>1, AppendFacts
  <2>3. \A c \in Clients : answers'[c] = IF c = d THEN Append(answers[d], p) ELSE answers[c]
    BY <1>1, <1>2, <1>4
  <2>4. answers' \in [Clients -> Seq(Objects)]
    BY <1>1, <1>2, <1>4, <2>2
  <2>5. QED
    BY <2>2, <2>3, <2>4
<1>6. TypeOK' /\ CheckedIsThere'
  BY <1>0, <1>1, <1>3, <1>5 DEF TypeOK, CheckedIsThere
<1>7. Gone' = Gone
  BY <1>1 DEF Gone
<1>8. ErasedHaveGone'
  BY <1>0, <1>1, <1>7 DEF ErasedHaveGone, AllThere, OneErased, TwoGone
<1>9. Unshifted'
  <2>1. ASSUME Gone \subseteq {NumClients}, NEW c \in Clients, NEW r \in Range(answers'[c])
        PROVE  r.owner = c
    <3>1. CASE r \in Range(answers[c])
      BY <1>0, <2>1, <3>1 DEF Unshifted
    <3>2. CASE r = p /\ c = d
      <4>1. o.stamp = o.owner /\ slots[o.stamp] = o.stamp
        BY <1>0, <1>3, <1>4, <2>1 DEF Unshifted, StampedRight, AllThere
      <4>2. QED
        BY <1>4, <3>2, <4>1 DEF d
    <3>3. QED
      BY <1>5, <2>1, <3>1, <3>2
  <2>2. QED
    BY <1>0, <1>1, <1>3, <1>7, <2>1 DEF Unshifted, AllThere, StampedRight
<1>10. PlacesInOrder'
  <2>1. Before(held', receivedObjects)
    BY <1>0, <1>3 DEF PlacesInOrder, Before
  <2>2. \A c : NumbersOf(c, held') \subseteq NumbersOf(c, held)
    BY <1>3
  <2>3. QED
    BY <1>0, <1>1, <1>3, <2>1, <2>2 DEF PlacesInOrder
<1>11. AllAccounted'
  <2>1. ASSUME NEW c \in Clients
        PROVE  Answered(c)' = IF c = o.owner THEN Answered(c) \cup {o.number} ELSE Answered(c)
    <3>1. \A e \in Clients : NumbersOf(c, answers'[e]) =
              IF e = d /\ c = o.owner THEN NumbersOf(c, answers[e]) \cup {o.number}
                                      ELSE NumbersOf(c, answers[e])
      <4>1. SUFFICES ASSUME NEW e \in Clients
                     PROVE  NumbersOf(c, answers'[e]) =
                              IF e = d /\ c = o.owner THEN NumbersOf(c, answers[e]) \cup {o.number}
                                                      ELSE NumbersOf(c, answers[e])
        OBVIOUS
      <4>2. CASE e = d
        <5>1. Range(answers'[e]) = Range(answers[e]) \cup {p}
          BY <1>5, <4>1, <4>2
        <5>2. QED
          BY <1>4, <4>2, <5>1 DEF NumbersOf
      <4>3. CASE e # d
        BY <1>5, <4>1, <4>3 DEF NumbersOf
      <4>4. QED
        BY <4>2, <4>3
    <3>2. QED
      BY <1>4, <3>1 DEF Answered
  <2>2. o.number \in NumbersOf(o.owner, held)
    BY <1>3 DEF NumbersOf
  <2>3. o.number \notin NumbersOf(o.owner, receivedObjects)
    <3>1. SUFFICES ASSUME NEW r \in Range(receivedObjects), r.owner = o.owner, r.number = o.number
                   PROVE  FALSE
      BY DEF NumbersOf
    <3>2. o.number < o.number
      BY <1>0, <1>3, <3>1 DEF PlacesInOrder, Before
    <3>3. QED
      BY <1>4, <3>2 DEF Numbers
  <2>4. o.number \notin Range(inbox[o.owner])
    <3>1. SUFFICES ASSUME NEW j \in DOMAIN inbox[o.owner], inbox[o.owner][j] = o.number
                   PROVE  FALSE
      BY DEF Range
    <3>2. o.number < o.number
      BY <1>0, <1>4, <2>2, <3>1 DEF PlacesInOrder
    <3>3. QED
      BY <1>4, <3>2 DEF Numbers
  <2>5. ASSUME NEW c \in Clients
        PROVE  Unanswered(c)' = IF c = o.owner THEN Unanswered(c) \ {o.number} ELSE Unanswered(c)
    <3>1. /\ NumbersOf(c, held)' = NumbersOf(c, held')
          /\ NumbersOf(c, receivedObjects)' = NumbersOf(c, receivedObjects)
          /\ Range(inbox[c])' = Range(inbox[c])
      BY <1>1 DEF NumbersOf
    <3>2. CASE c = o.owner
      BY <1>3, <2>3, <2>4, <3>1, <3>2 DEF Unanswered
    <3>3. CASE c # o.owner
      BY <1>3, <3>1, <3>3 DEF Unanswered
    <3>4. QED
      BY <3>2, <3>3
  <2>6. \A c \in Clients : c = o.owner => o.number \in Unanswered(c)
    BY <2>2 DEF Unanswered
  <2>7. ASSUME NEW c \in Clients
        PROVE  Answered(c)' \cap Unanswered(c)' = {}
               /\ Answered(c)' \cup Unanswered(c)' = 1 .. sent[c]
    <3>1. Answered(c) \cap Unanswered(c) = {} /\ Answered(c) \cup Unanswered(c) = 1 .. sent[c]
      BY <1>0 DEF AllAccounted
    <3>2. CASE c = o.owner
      BY <2>1, <2>5, <2>6, <3>1, <3>2
    <3>3. CASE c # o.owner
      BY <2>1, <2>5, <3>1, <3>3
    <3>4. QED
      BY <3>2, <3>3
  <2>8. QED
    BY <1>1, <2>7 DEF AllAccounted
<1>12. QED
  BY <1>6, <1>8, <1>9, <1>10, <1>11 DEF WarehouseInvariant

-----------------------------------------------------------------------------
(* All steps together *)

LEMMA WarehouseNext == WarehouseInvariant /\ [Next]_vars => WarehouseInvariant'
<1> SUFFICES ASSUME WarehouseInvariant, [Next]_vars PROVE WarehouseInvariant'
  OBVIOUS
<1>0. TypeOK /\ CheckedIsThere /\ ErasedHaveGone
  BY DEF WarehouseInvariant
<1>00. /\ NumClients \in Nat \ {0} /\ communicatorId \in 1 .. NumClients + 1
       /\ iter \in 1 .. communicatorId /\ size \in 0 .. NumClients
       /\ pc \in {"idle", "pass", "check", "shut", "dead"}
  BY <1>0, ClientsAssumption DEF TypeOK
<1>1. ASSUME NEW c \in Clients, Send(c) \/ Leave(c) PROVE WarehouseInvariant'
  BY <1>1, SendStep, LeaveStep
<1>2. CASE Receive
  <2>1. CASE Shutdown
    BY <1>00, <2>1, LookStep DEF Shutdown, pass, CheckedIsThere
  <2>2. CASE BeginReceive
    <3>1. communicatorId' = 1 /\ iter' = 1 /\ pc' = "pass"
          /\ UNCHANGED <<peers, vector, receivedObjects, held>>
      BY <2>2 DEF BeginReceive
    <3>2. 1 \in 1 .. NumClients + 1 /\ 1 \in 1 .. 1
      BY <1>00
    <3>3. QED
      BY <3>1, <3>2, LookStep DEF CheckedIsThere
  <2>3. CASE ReceiveObjects
    BY <2>3, ReceiveObjectsStep
  <2>4. CASE ReceiveNothing
    <3>1. pc = "pass" /\ communicatorId <= size /\ pc' = "check"
          /\ communicatorId' = communicatorId /\ iter' = iter /\ size' = size
          /\ UNCHANGED <<peers, vector, receivedObjects, held>>
      BY <2>4 DEF ReceiveNothing, pass, vector
    <3>2. CheckedIsThere' /\ (size = NumClients => iter' = communicatorId')
      BY <1>0, <3>1 DEF CheckedIsThere, ErasedHaveGone
    <3>3. QED
      BY <1>00, <3>1, <3>2, LookStep
  <2>5. CASE StillConnected
    <3>1. pc = "check" /\ pc' = "pass"
          /\ communicatorId' = communicatorId + 1 /\ iter' = iter + 1
          /\ UNCHANGED <<peers, vector, receivedObjects, held>>
      BY <2>5 DEF StillConnected
    <3>2. CheckedIsThere' /\ (size = NumClients => iter' = communicatorId')
      BY <1>0, <3>1 DEF CheckedIsThere, ErasedHaveGone
    <3>3. communicatorId' \in 1 .. NumClients + 1 /\ iter' \in 1 .. communicatorId'
      BY <1>0, <1>00, <3>1 DEF CheckedIsThere
    <3>4. QED
      BY <3>1, <3>2, <3>3, LookStep
  <2>6. CASE RemoveCommunicator
    BY <2>6, RemoveCommunicatorStep
  <2>7. CASE EndReceive
    BY <2>7, EndReceiveStep
  <2>8. QED
    BY <1>2, <2>1, <2>2, <2>3, <2>4, <2>5, <2>6, <2>7 DEF Receive
<1>3. ASSUME NEW i \in DOMAIN held, Ship(i) PROVE WarehouseInvariant'
  BY <1>3, ShipStep
<1>4. ASSUME NEW i \in DOMAIN held, ShipFails(i) PROVE WarehouseInvariant'
  <2>1. pc' = "dead" /\ communicatorId' = communicatorId /\ iter' = iter
        /\ UNCHANGED <<peers, vector, receivedObjects, held>>
    BY <1>4 DEF ShipFails, pass
  <2>2. QED
    BY <1>00, <2>1, LookStep DEF CheckedIsThere
<1>5. CASE UNCHANGED vars
  <2>1. pc' = pc /\ communicatorId' = communicatorId /\ iter' = iter /\ size' = size
        /\ UNCHANGED <<peers, vector, receivedObjects, held>>
    BY <1>5 DEF vars, pass, vector
  <2>2. QED
    BY <1>0, <1>00, <2>1, LookStep DEF CheckedIsThere, ErasedHaveGone
<1>6. QED
  BY <1>1, <1>2, <1>3, <1>4, <1>5 DEF Next, Rest

LEMMA WarehouseAlways == Spec => []WarehouseInvariant
<1>1. Init => WarehouseInvariant
  BY WarehouseInit
<1>2. WarehouseInvariant /\ [Next]_vars => WarehouseInvariant'
  BY WarehouseNext
<1>3. QED
  BY <1>1, <1>2, PTL DEF Spec

-----------------------------------------------------------------------------
(* The theorems *)

(* Every variable keeps its type: no index or stamp leaves the storage of  *)
(* d_communicators, though communicators are erased in the middle of a     *)
(* pass, and the iterator never overtakes the index.                       *)
THEOREM WarehouseTypeCorrect == Spec => []TypeOK
<1>1. WarehouseInvariant => TypeOK
  BY DEF WarehouseInvariant
<1>2. QED
  BY <1>1, WarehouseAlways, PTL

(* The owner gets the objects of a client in the order they were sent.     *)
THEOREM ObjectsStayInOrder == Spec => []InOrderOfSending
<1>1. ASSUME WarehouseInvariant PROVE InOrderOfSending
  <2>1. held \in Seq(Stamped) /\ receivedObjects \in Seq(Stamped) /\ PlacesInOrder
    BY <1>1 DEF WarehouseInvariant, TypeOK
  <2>2. InOrder(InHand)
    BY <2>1, InOrderConcat DEF PlacesInOrder, InHand
  <2>3. \A c : NumbersOf(c, InHand) = NumbersOf(c, held) \cup NumbersOf(c, receivedObjects)
    BY <2>1, NumbersOfConcat DEF InHand
  <2>4. QED
    BY <2>1, <2>2, <2>3 DEF PlacesInOrder, InOrderOfSending
<1>2. QED
  BY <1>1, WarehouseAlways, PTL

(* Each object a client has sent is waiting, with the owner, or answered,  *)
(* exactly once, whichever communicators were erased.                      *)
THEOREM ObjectsAreNeitherLostNorDoubled == Spec => []EachObjectOnce
<1>1. ASSUME WarehouseInvariant PROVE EachObjectOnce
  <2>1. held \in Seq(Stamped) /\ receivedObjects \in Seq(Stamped) /\ inbox \in [Clients -> Seq(Numbers)]
        /\ PlacesInOrder /\ AllAccounted
    BY <1>1 DEF WarehouseInvariant, TypeOK
  <2>2. InOrder(InHand) /\ InHand \in Seq(Stamped)
    BY <2>1, InOrderConcat, ConcatFacts DEF PlacesInOrder, InHand
  <2>3. \A c : NumbersOf(c, InHand) = NumbersOf(c, held) \cup NumbersOf(c, receivedObjects)
    BY <2>1, NumbersOfConcat DEF InHand
  <2>4. \A i, j \in DOMAIN InHand :
           InHand[i].owner = InHand[j].owner /\ InHand[i].number = InHand[j].number => i = j
    BY <2>2, InOrderDistinct
  <2>5. ASSUME NEW c \in Clients
        PROVE  /\ IsInjective(inbox[c])
               /\ Range(inbox[c]) \cap NumbersOf(c, InHand) = {}
               /\ Answered(c) \cap (Range(inbox[c]) \cup NumbersOf(c, InHand)) = {}
               /\ Answered(c) \cup Range(inbox[c]) \cup NumbersOf(c, InHand) = 1 .. sent[c]
    <3>1. inbox[c] \in Seq(Numbers) /\ DOMAIN inbox[c] \subseteq Nat
          /\ \A i \in DOMAIN inbox[c] : inbox[c][i] \in Nat
      <4>1. inbox[c] \in Seq(Numbers)
        BY <2>1
      <4>2. DOMAIN inbox[c] = 1 .. Len(inbox[c]) /\ Len(inbox[c]) \in Nat
            /\ \A i \in 1 .. Len(inbox[c]) : inbox[c][i] \in Numbers
        BY <4>1, LenProperties, ElementOfSeq
      <4>3. QED
        BY <4>1, <4>2 DEF Numbers
    <3>2. \A i, j \in DOMAIN inbox[c] : i < j => inbox[c][i] < inbox[c][j]
      BY <2>1 DEF PlacesInOrder
    <3>3. IsInjective(inbox[c])
      <4>1. ASSUME NEW i \in DOMAIN inbox[c], NEW j \in DOMAIN inbox[c], inbox[c][i] = inbox[c][j]
            PROVE  i = j
        <5>1. i \in Nat /\ j \in Nat /\ inbox[c][i] \in Nat /\ inbox[c][j] \in Nat
          BY <3>1
        <5>2. ~ (i < j) /\ ~ (j < i)
          BY <3>2, <4>1, <5>1
        <5>3. QED
          BY <5>1, <5>2
      <4>2. QED
        BY <4>1 DEF IsInjective
    <3>4. Range(inbox[c]) \cap NumbersOf(c, InHand) = {}
      <4>1. SUFFICES ASSUME NEW i \in DOMAIN inbox[c], inbox[c][i] \in NumbersOf(c, InHand)
                     PROVE  FALSE
        BY DEF Range
      <4>2. inbox[c][i] < inbox[c][i]
        BY <2>1, <2>3, <4>1 DEF PlacesInOrder
      <4>3. QED
        BY <3>1, <4>2
    <3>5. Unanswered(c) = Range(inbox[c]) \cup NumbersOf(c, InHand)
      BY <2>3 DEF Unanswered
    <3>6. Answered(c) \cap Unanswered(c) = {} /\ Answered(c) \cup Unanswered(c) = 1 .. sent[c]
      BY <2>1 DEF AllAccounted
    <3>7. QED
      BY <3>3, <3>4, <3>5, <3>6
  <2>6. QED
    BY <2>4, <2>5 DEF EachObjectOnce
<1>2. QED
  BY <1>1, WarehouseAlways, PTL

(* While at most one client has gone, receive() still asks every other one.*)
THEOREM NobodyIsForgotten == Spec => []NobodyForgotten
<1>1. ASSUME WarehouseInvariant PROVE NobodyForgotten
  <2>1. SUFFICES ASSUME Cardinality(Gone) <= 1, NEW c \in Clients \ Gone
                 PROVE  \E i \in 1 .. size : slots[i] = c
    BY DEF NobodyForgotten
  <2>2. /\ NumClients \in Nat \ {0} /\ Clients = 1 .. NumClients
        /\ size \in 0 .. NumClients /\ ErasedHaveGone
    BY <1>1, ClientsAssumption DEF WarehouseInvariant, TypeOK, Clients
  <2>3. CASE size = NumClients
    BY <2>2, <2>3 DEF ErasedHaveGone, AllThere
  <2>4. CASE size = NumClients - 1
    <3>1. PICK g \in Gone : \A i \in 1 .. size : slots[i] = IF i < g THEN i ELSE i + 1
      BY <2>2, <2>4 DEF ErasedHaveGone, OneErased
    <3>2. g \in 1 .. NumClients /\ c \in 1 .. NumClients /\ c # g
      BY <2>1, <2>2, <3>1 DEF Gone
    <3>3. CASE c < g
      <4>1. c \in 1 .. size /\ slots[c] = c
        BY <2>2, <2>4, <3>1, <3>2, <3>3
      <4>2. QED
        BY <4>1
    <3>4. CASE c > g
      <4>1. c - 1 \in 1 .. size /\ slots[c - 1] = c
        BY <2>2, <2>4, <3>1, <3>2, <3>4
      <4>2. QED
        BY <4>1
    <3>5. QED
      BY <3>2, <3>3, <3>4
  <2>5. CASE size < NumClients - 1
    <3>1. PICK g \in Gone, h \in Gone : g # h
      BY <2>2, <2>5 DEF ErasedHaveGone, TwoGone
    <3>2. IsFiniteSet(Gone)
      <4>1. IsFiniteSet(Clients)
        BY <2>2, FS_Interval
      <4>2. Gone \in SUBSET Clients
        BY DEF Gone
      <4>3. QED
        BY <4>1, <4>2, FS_Subset
    <3>3. Cardinality({g, h}) = 2
      <4>1. IsFiniteSet({g}) /\ Cardinality({g}) = 1
        BY FS_Singleton
      <4>2. Cardinality({g} \cup {h}) = 1 + 1
        BY <3>1, <4>1, FS_AddElement
      <4>3. {g} \cup {h} = {g, h}
        OBVIOUS
      <4>4. QED
        BY <4>2, <4>3
    <3>4. {g, h} \in SUBSET Gone
      BY <3>1
    <3>5. Cardinality({g, h}) <= Cardinality(Gone) /\ Cardinality(Gone) \in Nat
      BY <3>2, <3>4, FS_Subset, FS_CardinalityType
    <3>6. QED
      BY <2>1, <3>3, <3>5
  <2>6. QED
    BY <2>2, <2>3, <2>4, <2>5
<1>2. QED
  BY <1>1, WarehouseAlways, PTL

(* While nobody but the last client has left, what comes back to a client  *)
(* is what it sent: no index has moved under a stamp.                      *)
THEOREM UnshiftedAnswersAreOwn == Spec => []UnshiftedAnswersReachOwner
<1>1. WarehouseInvariant => UnshiftedAnswersReachOwner
  BY DEF WarehouseInvariant, Unshifted, UnshiftedAnswersReachOwner
<1>2. QED
  BY <1>1, WarehouseAlways, PTL
=============================================================================
