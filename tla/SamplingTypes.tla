---------------------------- MODULE SamplingTypes ----------------------------
(* The types of AdaptiveSampling, and what each thread has in its hands     *)
(* where it is, kept by every step; with the lemmas on sequences and        *)
(* packages that AdaptiveSamplingProofs needs as well.                      *)
EXTENDS AdaptiveSampling, QueueLemmas, FiniteSetTheorems

-----------------------------------------------------------------------------
(* The invariant *)

(* What each thread has in its hands where it is.                          *)
SamplersInStep ==
    \A t \in Threads :
        /\ spc[t] \in {"take", "countSpeculative", "done"} => work[t] = <<>>
        /\ spc[t] = "ship" => work[t] # <<>> /\ work[t][1].value = "value"
        /\ spc[t] = "countSpeculative" => t = First
        /\ spc[t] # "countSpeculative" => uncounted[t] = 0
ValuesInStep ==
    /\ vpc \in {"receive", "speculate", "done"} => batch = <<>> /\ completed = 0
    /\ vpc \in {"receive", "done"} => completedSpeculative = 0
    /\ IF vpc \in {"push", "ship"} THEN Len(current) = 1 ELSE current = <<>>
    /\ vpc # "push" => extra = <<>>

(* Two packages that are the same but for the value they have got.         *)
Same(p, q) == p.id = q.id /\ p.kind = q.kind /\ p.n = q.n

-----------------------------------------------------------------------------
(* Sequences and sets *)

(* The first n elements of a sequence, and the others.                     *)
LEMMA SplitFacts ==
    ASSUME NEW S, NEW s \in Seq(S), NEW n \in 0 .. Len(s)
    PROVE  /\ SubSeq(s, 1, n) \in Seq(S) /\ SubSeq(s, n + 1, Len(s)) \in Seq(S)
           /\ Range(s) = Range(SubSeq(s, 1, n)) \cup Range(SubSeq(s, n + 1, Len(s)))
           /\ IsInjective(s) => /\ IsInjective(SubSeq(s, 1, n))
                                /\ IsInjective(SubSeq(s, n + 1, Len(s)))
                                /\ Range(SubSeq(s, 1, n)) \cap Range(SubSeq(s, n + 1, Len(s))) = {}
<1> DEFINE t == SubSeq(s, 1, n)
           u == SubSeq(s, n + 1, Len(s))
<1>1. /\ DOMAIN s = 1 .. Len(s) /\ Len(s) \in Nat /\ n \in Nat /\ n <= Len(s)
      /\ \A j \in 1 .. Len(s) : s[j] \in S
  BY LenProperties, ElementOfSeq
<1>2. t \in Seq(S) /\ Len(t) = n /\ \A j \in 1 .. n : t[j] = s[j]
  BY <1>1, SubSeqProperties
<1>3. u \in Seq(S) /\ Len(u) = Len(s) - n /\ \A j \in 1 .. Len(s) - n : u[j] = s[n + j]
  <2>1. PICK m \in Int : m = n + 1
    BY <1>1
  <2>2. \A i \in m .. Len(s) : s[i] \in S
    BY <1>1, <2>1
  <2>3. /\ SubSeq(s, m, Len(s)) \in Seq(S)
        /\ Len(SubSeq(s, m, Len(s))) = IF m <= Len(s) THEN Len(s) - m + 1 ELSE 0
        /\ \A j \in 1 .. Len(s) - m + 1 : SubSeq(s, m, Len(s))[j] = s[m + j - 1]
    BY <1>1, <2>2, SubSeqProperties
  <2>4. u = SubSeq(s, m, Len(s))
    BY <2>1
  <2> HIDE DEF u
  <2>5. u \in Seq(S) /\ Len(u) = Len(s) - n
    <3>1. Len(s) \in Nat /\ n \in Nat /\ n <= Len(s)
      BY <1>1
    <3>2. CASE m <= Len(s)
      <4>1. Len(s) - m + 1 = Len(s) - n
        BY <2>1, <3>1
      <4>2. QED
        BY <2>3, <2>4, <3>2, <4>1
    <3>3. CASE ~(m <= Len(s))
      <4>1. 0 = Len(s) - n
        BY <2>1, <3>1, <3>3
      <4>2. QED
        BY <2>3, <2>4, <3>3, <4>1
    <3>4. QED
      BY <3>2, <3>3
  <2>6. ASSUME NEW j \in 1 .. Len(s) - n PROVE u[j] = s[n + j]
    <3>1. j \in 1 .. Len(s) - m + 1 /\ m + j - 1 = n + j
      BY <1>1, <2>1
    <3>2. QED
      BY <2>3, <2>4, <3>1
  <2>7. QED
    BY <2>5, <2>6
<1>4. DOMAIN t = 1 .. n /\ DOMAIN u = 1 .. Len(s) - n
  BY <1>2, <1>3, LenProperties
<1> HIDE DEF t, u
<1>5. \A x \in Range(t) \cup Range(u) : x \in Range(s)
  <2>1. \A j \in DOMAIN t : j \in DOMAIN s /\ t[j] = s[j]
    BY <1>1, <1>2, <1>4
  <2>2. \A j \in DOMAIN u : n + j \in DOMAIN s /\ u[j] = s[n + j]
    BY <1>1, <1>3, <1>4
  <2>3. QED
    BY <2>1, <2>2 DEF Range
<1>6. ASSUME NEW i \in DOMAIN s PROVE s[i] \in Range(t) \cup Range(u)
  <2>1. CASE i <= n
    BY <1>1, <1>2, <1>4, <2>1 DEF Range
  <2>2. CASE i > n
    <3>1. i - n \in DOMAIN u /\ u[i - n] = s[i]
      BY <1>1, <1>3, <1>4, <2>2
    <3>2. QED
      BY <3>1 DEF Range
  <2>3. QED
    BY <1>1, <2>1, <2>2
<1>7. Range(s) = Range(t) \cup Range(u)
  BY <1>5, <1>6 DEF Range
<1>8. ASSUME IsInjective(s)
      PROVE  IsInjective(t) /\ IsInjective(u) /\ Range(t) \cap Range(u) = {}
  <2>1. \A i, j \in DOMAIN t : t[i] = t[j] => i = j
    BY <1>1, <1>2, <1>4, <1>8 DEF IsInjective
  <2>2. \A i, j \in DOMAIN u : u[i] = u[j] => i = j
    <3>1. \A i \in DOMAIN u : n + i \in DOMAIN s /\ u[i] = s[n + i] /\ i \in Nat
      BY <1>1, <1>3, <1>4
    <3>2. QED
      BY <1>1, <1>8, <3>1 DEF IsInjective
  <2>3. \A i \in DOMAIN t, j \in DOMAIN u : t[i] # u[j]
    <3>1. \A i \in DOMAIN u : n + i \in DOMAIN s /\ u[i] = s[n + i] /\ n + i > n
      BY <1>1, <1>3, <1>4
    <3>2. \A i \in DOMAIN t : i \in DOMAIN s /\ t[i] = s[i] /\ i <= n
      BY <1>1, <1>2, <1>4
    <3>3. QED
      BY <1>1, <1>8, <3>1, <3>2 DEF IsInjective
  <2>4. QED
    BY <2>1, <2>2, <2>3 DEF IsInjective, Range
<1>9. QED
  BY <1>2, <1>3, <1>7, <1>8 DEF t, u

(* Replacing the first element of a sequence.                              *)
LEMMA ReplaceFirst ==
    ASSUME NEW S, NEW s \in Seq(S), s # <<>>, NEW e \in S
    PROVE  /\ [s EXCEPT ![1] = e] \in Seq(S) /\ [s EXCEPT ![1] = e] # <<>>
           /\ [s EXCEPT ![1] = e][1] = e
           /\ Tail([s EXCEPT ![1] = e]) = Tail(s)
           /\ Range([s EXCEPT ![1] = e]) = {e} \cup Range(Tail(s))
           /\ Range(s) = {s[1]} \cup Range(Tail(s))
           /\ IsInjective(s) => s[1] \notin Range(Tail(s))
           /\ IsInjective(s) /\ e \notin Range(Tail(s)) => IsInjective([s EXCEPT ![1] = e])
<1> DEFINE t == [s EXCEPT ![1] = e]
           r == Tail(s)
<1>1. /\ Len(s) \in Nat \ {0} /\ DOMAIN s = 1 .. Len(s) /\ \A i \in DOMAIN s : s[i] \in S
      /\ r \in Seq(S) /\ Len(r) = Len(s) - 1 /\ \A i \in 1 .. Len(r) : r[i] = s[i + 1]
  BY HeadTailProperties, EmptySeq, LenProperties, ElementOfSeq
<1>2. DOMAIN r = 1 .. Len(s) - 1
  BY <1>1, LenProperties
<1>3. /\ t \in Seq(S) /\ Len(t) = Len(s) /\ t[1] = e
      /\ \A i \in 2 .. Len(s) : t[i] = s[i]
  <2>1. t \in [1 .. Len(s) -> S]
    BY <1>1
  <2>2. QED
    BY <1>1, <2>1
<1>4. DOMAIN t = 1 .. Len(s) /\ t # <<>>
  BY <1>1, <1>3, EmptySeq, LenProperties
<1>5. /\ Tail(t) \in Seq(S) /\ Len(Tail(t)) = Len(s) - 1
      /\ \A i \in 1 .. Len(s) - 1 : Tail(t)[i] = t[i + 1]
  BY <1>1, <1>3, <1>4, HeadTailProperties
<1> HIDE DEF t, r
<1>6. Tail(t) = r
  <2>1. \A i \in 1 .. Len(s) - 1 : Tail(t)[i] = r[i]
    <3>1. \A i \in 1 .. Len(s) - 1 : i + 1 \in 2 .. Len(s)
      BY <1>1
    <3>2. QED
      BY <1>1, <1>3, <1>5, <3>1
  <2>2. QED
    BY <1>1, <1>5, <2>1, SeqEqual
<1>7. \A i \in 2 .. Len(s) : s[i] \in Range(r) /\ \E j \in DOMAIN r : i = j + 1 /\ r[j] = s[i]
  <2>1. \A i \in 2 .. Len(s) : i - 1 \in DOMAIN r /\ i = (i - 1) + 1 /\ r[i - 1] = s[i]
    BY <1>1, <1>2
  <2>2. QED
    BY <2>1 DEF Range
<1>8. \A x \in Range(r) : \E i \in 2 .. Len(s) : x = s[i]
  <2>1. \A j \in DOMAIN r : j + 1 \in 2 .. Len(s) /\ r[j] = s[j + 1]
    BY <1>1, <1>2
  <2>2. QED
    BY <2>1 DEF Range
<1>9. Range(t) = {e} \cup Range(r)
  <2>1. \A x \in Range(t) : x \in {e} \cup Range(r)
    BY <1>1, <1>3, <1>4, <1>7 DEF Range
  <2>2. \A x \in {e} \cup Range(r) : x \in Range(t)
    BY <1>1, <1>3, <1>4, <1>8 DEF Range
  <2>3. QED
    BY <2>1, <2>2
<1>10. Range(s) = {s[1]} \cup Range(r)
  <2>1. \A x \in Range(s) : x \in {s[1]} \cup Range(r)
    BY <1>1, <1>7 DEF Range
  <2>2. \A x \in {s[1]} \cup Range(r) : x \in Range(s)
    BY <1>1, <1>8 DEF Range
  <2>3. QED
    BY <2>1, <2>2
<1>11. ASSUME IsInjective(s) PROVE s[1] \notin Range(r)
  BY <1>1, <1>8, <1>11 DEF IsInjective
<1>12. ASSUME IsInjective(s), e \notin Range(r) PROVE IsInjective(t)
  BY <1>1, <1>3, <1>4, <1>7, <1>12 DEF IsInjective
<1>13. QED
  BY <1>3, <1>4, <1>6, <1>9, <1>10, <1>11, <1>12 DEF t, r

(* A sequence of different elements has as many as it is long.             *)
LEMMA RangeCardinality ==
    ASSUME NEW S, NEW s \in Seq(S)
    PROVE  /\ IsFiniteSet(Range(s))
           /\ IsInjective(s) => Cardinality(Range(s)) = Len(s)
<1>1. Len(s) \in Nat /\ DOMAIN s = 1 .. Len(s) /\ s \in [1 .. Len(s) -> Range(s)]
  BY LenProperties DEF Range
<1>2. IsFiniteSet(1 .. Len(s)) /\ Cardinality(1 .. Len(s)) = Len(s)
  BY <1>1, FS_Interval
<1>3. s \in Surjection(1 .. Len(s), Range(s))
  BY <1>1 DEF Surjection, Range
<1>4. IsFiniteSet(Range(s))
  BY <1>2, <1>3, FS_Surjection
<1>5. ASSUME IsInjective(s) PROVE Cardinality(Range(s)) = Len(s)
  <2>1. s \in Injection(1 .. Len(s), Range(s))
    BY <1>1, <1>5 DEF Injection, IsInjective
  <2>2. s \in Bijection(1 .. Len(s), Range(s))
    BY <1>3, <2>1 DEF Bijection
  <2>3. QED
    BY <1>2, <2>2, FS_Bijection DEF ExistsBijection
<1>6. QED
  BY <1>4, <1>5

(* New packages with the numbers, or the ids, from k + 1 to k + n.          *)
Numbered(id, kind, k, n) == [i \in 1 .. n |-> Package(id, kind, k + i)]
RequestsFrom(k, n) == [i \in 1 .. n |-> Package(k + i, "request", 0)]
LEMMA NumberedFacts ==
    ASSUME NEW id, NEW kind, NEW k \in Nat, NEW n \in Nat,
           \A i \in k + 1 .. k + n : Package(id, kind, i) \in PackageType
    PROVE  /\ Numbered(id, kind, k, n) \in Seq(PackageType) /\ Len(Numbered(id, kind, k, n)) = n
           /\ IsInjective(Numbered(id, kind, k, n))
           /\ \A p \in Range(Numbered(id, kind, k, n)) :
                  /\ p.id = id /\ p.kind = kind /\ p.value = "none"
                  /\ p.n \in k + 1 .. k + n
<1> DEFINE s == [i \in 1 .. n |-> Package(id, kind, k + i)]
<1>1. \A i \in 1 .. n : k + i \in k + 1 .. k + n
  OBVIOUS
<1>2. s \in [1 .. n -> PackageType] /\ DOMAIN s = 1 .. n
  BY <1>1
<1>3. s \in Seq(PackageType) /\ Len(s) = n
  BY <1>2
<1>4. \A i \in 1 .. n : /\ s[i].id = id /\ s[i].kind = kind /\ s[i].value = "none"
                        /\ s[i].n = k + i
  BY DEF Package
<1> HIDE DEF s
<1>5. IsInjective(s)
  BY <1>2, <1>4 DEF IsInjective
<1>6. ASSUME NEW p \in Range(s)
      PROVE  /\ p.id = id /\ p.kind = kind /\ p.value = "none"
             /\ p.n \in k + 1 .. k + n
  <2>1. PICK i \in 1 .. n : p = s[i]
    BY <1>2 DEF Range
  <2>2. QED
    BY <1>1, <1>4, <2>1
<1>7. QED
  BY <1>3, <1>5, <1>6 DEF Numbered, s
LEMMA RequestsFromFacts ==
    ASSUME NEW k \in Nat, NEW n \in Nat,
           \A i \in k + 1 .. k + n : Package(i, "request", 0) \in PackageType
    PROVE  /\ RequestsFrom(k, n) \in Seq(PackageType) /\ Len(RequestsFrom(k, n)) = n
           /\ IsInjective(RequestsFrom(k, n))
           /\ \A p \in Range(RequestsFrom(k, n)) :
                  /\ p.id \in k + 1 .. k + n /\ p.kind = "request"
                  /\ p.n = 0 /\ p.value = "none"
<1> DEFINE s == [i \in 1 .. n |-> Package(k + i, "request", 0)]
<1>1. \A i \in 1 .. n : k + i \in k + 1 .. k + n
  OBVIOUS
<1>2. s \in [1 .. n -> PackageType] /\ DOMAIN s = 1 .. n
  BY <1>1
<1>3. s \in Seq(PackageType) /\ Len(s) = n
  BY <1>2
<1>4. \A i \in 1 .. n : /\ s[i].id = k + i /\ s[i].kind = "request" /\ s[i].n = 0
                        /\ s[i].value = "none"
  BY DEF Package
<1> HIDE DEF s
<1>5. IsInjective(s)
  BY <1>2, <1>4 DEF IsInjective
<1>6. ASSUME NEW p \in Range(s)
      PROVE  /\ p.id \in k + 1 .. k + n /\ p.kind = "request"
             /\ p.n = 0 /\ p.value = "none"
  <2>1. PICK i \in 1 .. n : p = s[i]
    BY <1>2 DEF Range
  <2>2. QED
    BY <1>1, <1>4, <2>1
<1>7. QED
  BY <1>3, <1>5, <1>6 DEF RequestsFrom, s

-----------------------------------------------------------------------------
(* Types *)

(* The packages there may be do not change: what may go wrong is chosen at  *)
(* the start.                                                               *)
LEMMA SamePackages ==
    ASSUME Next
    PROVE  fault' = fault /\ PackageType' = PackageType
<1> USE DEF algorithm, receiver, samplers, counters, sender, outcome, brokers, round, values
<1>1. fault' = fault
  <2>1. CASE SendRequest \/ Leave
    BY <2>1 DEF SendRequest, Leave
  <2>2. ASSUME NEW b \in Brokers, Evaluate(b) \/ BrokerEnds(b) PROVE fault' = fault
    BY <2>2 DEF Evaluate, BrokerEnds
  <2>3. CASE Receiving
    BY <2>3 DEF Receiving, ReceiveRequests, ReceiveTermination
  <2>4. CASE Sending
    BY <2>4 DEF Sending, SendPile, EndEvaluation
  <2>5. CASE ValueProcessing
    <3>1. CASE ReceiveResults \/ ReceiveNoResults \/ ReceiveKills
      BY <3>1 DEF ReceiveResults, ReceiveNoResults, ReceiveKills
    <3>2. CASE KeepSpeculative \/ InsertResult \/ StartStencil \/ PushSamples \/ ShipResult
      BY <3>2 DEF KeepSpeculative, InsertResult, StartStencil, PushSamples, ShipResult
    <3>3. CASE GatherSample \/ AddNewModel \/ CountResults \/ HandleSpeculative
      BY <3>3 DEF GatherSample, AddNewModel, CountResults, HandleSpeculative
    <3>4. CASE EndValueProcessing
      BY <3>4 DEF EndValueProcessing
    <3>5. QED
      BY <2>5, <3>1, <3>2, <3>3, <3>4 DEF ValueProcessing
  <2>6. ASSUME NEW t \in Threads, Sampling(t) PROVE fault' = fault
    BY <2>6 DEF Sampling, TakeWork, Interpolate, ShipInterpolated, PileUp, CountEvaluation,
                HoldBack, Generate, CountSpeculative, GenerateNothing, EndSampling
  <2>7. QED
    BY <2>1, <2>2, <2>3, <2>4, <2>5, <2>6 DEF Next
<1>2. QED
  BY <1>1 DEF PackageType

(* New packages.                                                            *)
LEMMA PackageFacts ==
    ASSUME fault \in Faults
    PROVE  /\ \A r \in Requests : Package(r, "request", 0) \in PackageType
           /\ \A r \in Requests : \A i \in 1 .. StencilSize[r] :
                  Package(r, "sample", i) \in PackageType
           /\ \A n \in 1 .. MaxSpeculative[fault] :
                  Package(0, "speculative", n) \in PackageType
           /\ \A p \in PackageType :
                  /\ p.id \in 0 .. NumRequests /\ p.kind \in Kinds /\ p.n \in Nat
                  /\ p.value \in {"none", "value", "empty"}
                  /\ IsRegular(p) <=> p.kind \in {"request", "sample"}
                  /\ IsRegular(p) <=> p.id \in Requests
                  /\ p.kind = "request" => p.n = 0
                  /\ \A v \in {"none", "value", "empty"} :
                         /\ [p EXCEPT !.value = v] \in PackageType
                         /\ Same(p, [p EXCEPT !.value = v])
                         /\ [p EXCEPT !.value = v].value = v
<1>1. NumRequests \in Nat /\ StencilSize \in [Requests -> Nat] /\ MaxSpeculative[fault] \in Nat
  BY SamplingAssumption DEF Requests
<1>2. \A r \in Requests : Package(r, "request", 0) \in PackageType
  BY <1>1 DEF Package, PackageType, Requests, Kinds
<1>3. \A r \in Requests : \A i \in 1 .. StencilSize[r] : Package(r, "sample", i) \in PackageType
  BY <1>1 DEF Package, PackageType, Requests, Kinds
<1>4. \A n \in 1 .. MaxSpeculative[fault] : Package(0, "speculative", n) \in PackageType
  BY <1>1 DEF Package, PackageType, Requests, Kinds
<1>5. ASSUME NEW p \in PackageType
      PROVE  /\ p.id \in 0 .. NumRequests /\ p.kind \in Kinds /\ p.n \in Nat
             /\ p.value \in {"none", "value", "empty"}
             /\ IsRegular(p) <=> p.kind \in {"request", "sample"}
             /\ IsRegular(p) <=> p.id \in Requests
             /\ p.kind = "request" => p.n = 0
  BY <1>1 DEF PackageType, Kinds, Requests, IsRegular
<1>6. ASSUME NEW p \in PackageType, NEW v \in {"none", "value", "empty"}
      PROVE  /\ [p EXCEPT !.value = v] \in PackageType
             /\ Same(p, [p EXCEPT !.value = v])
             /\ [p EXCEPT !.value = v].value = v
  BY DEF PackageType, Same
<1>7. QED
  BY <1>2, <1>3, <1>4, <1>5, <1>6

(* What a step does not touch keeps its type.                               *)
LEMMA TypesUntouched ==
    ASSUME TypeOK, Next
    PROVE  /\ fault \in Faults /\ fault' \in Faults
           /\ UNCHANGED algorithm => AlgorithmTypeOK'
           /\ UNCHANGED receiver /\ sent' \in {sent, sent + 1} => ReceiverTypeOK'
           /\ UNCHANGED samplers => SamplersTypeOK'
           /\ UNCHANGED <<pile, counters, hasModel, generated>> => SharedTypeOK'
           /\ UNCHANGED <<sender, brokers>> => BrokersTypeOK'
           /\ UNCHANGED values => ValuesTypeOK'
<1>1. fault \in Faults /\ fault' = fault /\ PackageType' = PackageType
  BY SamePackages DEF TypeOK
<1>2. ASSUME UNCHANGED algorithm PROVE AlgorithmTypeOK'
  BY <1>1, <1>2 DEF TypeOK, AlgorithmTypeOK, algorithm
<1>3. ASSUME UNCHANGED receiver, sent' \in {sent, sent + 1} PROVE ReceiverTypeOK'
  BY <1>1, <1>3, SamplingAssumption
     DEF TypeOK, AlgorithmTypeOK, ReceiverTypeOK, receiver
<1>4. ASSUME UNCHANGED samplers PROVE SamplersTypeOK'
  BY <1>1, <1>4 DEF TypeOK, SamplersTypeOK, samplers
<1>5. ASSUME UNCHANGED <<pile, counters, hasModel, generated>> PROVE SharedTypeOK'
  BY <1>1, <1>5 DEF TypeOK, SharedTypeOK, counters
<1>6. ASSUME UNCHANGED <<sender, brokers>> PROVE BrokersTypeOK'
  BY <1>1, <1>6 DEF TypeOK, BrokersTypeOK, sender, brokers
<1>7. ASSUME UNCHANGED values PROVE ValuesTypeOK'
  BY <1>1, <1>7 DEF TypeOK, ValuesTypeOK, values, round
<1>8. QED
  BY <1>1, <1>2, <1>3, <1>4, <1>5, <1>6, <1>7

(* What the packages a thread works on are.                                 *)
LEMMA WorkFacts ==
    ASSUME TypeOK, NEW t \in Threads, work[t] # <<>>
    PROVE  /\ work[t] \in Seq(PackageType)
           /\ Head(work[t]) \in PackageType /\ Tail(work[t]) \in Seq(PackageType)
           /\ Head(work[t]) = work[t][1]
<1>1. work[t] \in Seq(PackageType)
  BY DEF TypeOK, SamplersTypeOK
<1>2. QED
  BY <1>1, TailFacts
LEMMA ResultFacts ==
    ASSUME TypeOK, Processing
    PROVE  /\ Result \in PackageType /\ Tail(batch) \in Seq(PackageType)
           /\ batch # <<>> /\ Result = Head(batch) /\ Result \in Range(batch)
           /\ vpc = "process"
  BY TailFacts DEF TypeOK, ValuesTypeOK, Processing, Result
LEMMA CurrentFacts ==
    ASSUME TypeOK, ValuesInStep, vpc \in {"push", "ship"}
    PROVE  /\ Head(current) \in PackageType
           /\ Range(current) = {Head(current)} /\ current # <<>>
<1>1. current \in Seq(PackageType) /\ Len(current) = 1
  BY DEF TypeOK, ValuesTypeOK, ValuesInStep
<1>2. DOMAIN current = {1} /\ current[1] \in PackageType /\ Head(current) = current[1]
  BY <1>1
<1>3. Range(current) = {current[1]}
  BY <1>2 DEF Range
<1>4. QED
  BY <1>1, <1>2, <1>3

(* A chunk is a part of the receive pile.                                   *)
LEMMA ChunkTaken ==
    ASSUME TypeOK, NEW t \in Threads, TakeWork(t)
    PROVE  \E n \in 0 .. Len(receivePile) :
              /\ work' = [work EXCEPT ![t] = Taken(t, n)]
              /\ receivePile' = SubSeq(receivePile, n + 1, Len(receivePile))
<1> DEFINE n == Min({ChunkSize, Len(receivePile)})
<1>1. ChunkSize \in Nat /\ Len(receivePile) \in Nat
  BY SamplingAssumption DEF TypeOK, ReceiverTypeOK
<1>2. n \in 0 .. Len(receivePile)
  BY <1>1 DEF Min
<1>3. QED
  BY <1>2 DEF TakeWork

(* The broker after the last is the first.                                  *)
LEMMA NextInTurn ==
    ASSUME NEW b \in Brokers
    PROVE  (b + 1) % NumBrokers \in Brokers
<1>1. NumBrokers \in Nat \ {0} /\ b + 1 \in Nat
  BY SamplingAssumption DEF Brokers
<1>2. QED
  BY <1>1 DEF Brokers

(* The samples around a request.                                            *)
LEMMA SamplesFacts ==
    ASSUME fault \in Faults, NEW r \in Requests
    PROVE  /\ Samples(r) \in Seq(PackageType) /\ IsInjective(Samples(r))
           /\ Len(Samples(r)) = StencilSize[r]
           /\ \A p \in Range(Samples(r)) : p.id = r /\ p.kind = "sample" /\ p.value = "none"
<1> DEFINE n == StencilSize[r]
           k == 0
<1>1. n \in Nat /\ k \in Nat
  BY SamplingAssumption DEF Requests
<1>2. Samples(r) = Numbered(r, "sample", k, n)
  <2>1. \A i \in 1 .. n : k + i = i
    BY <1>1
  <2>2. QED
    BY <2>1 DEF Samples, Numbered
<1>3. \A i \in k + 1 .. k + n : Package(r, "sample", i) \in PackageType
  <2>1. \A i \in k + 1 .. k + n : i \in 1 .. n
    BY <1>1
  <2>2. QED
    BY <2>1, PackageFacts
<1> HIDE DEF n, k
<1>4. /\ Samples(r) \in Seq(PackageType) /\ Len(Samples(r)) = n /\ IsInjective(Samples(r))
      /\ \A p \in Range(Samples(r)) : p.id = r /\ p.kind = "sample" /\ p.value = "none"
  <2> DEFINE s == Numbered(r, "sample", k, n)
  <2>1. s \in Seq(PackageType) /\ IsInjective(s)
    BY <1>1, <1>3, NumberedFacts
  <2>2. Len(s) = n
    BY <1>1 DEF Numbered
  <2>3. \A p \in Range(s) : p.id = r /\ p.kind = "sample" /\ p.value = "none"
    BY <1>1, <1>3, NumberedFacts
  <2>4. QED
    BY <1>2, <2>1, <2>2, <2>3
<1>5. QED
  BY <1>4 DEF n

(* What is shipped is on its way to the algorithm.                          *)
LEMMA ShippedTypes ==
    ASSUME TypeOK, NEW p \in PackageType, Ship(p), UNCHANGED <<sent, left>>,
           PackageType' = PackageType
    PROVE  AlgorithmTypeOK' /\ process' \in {"running", "died"}
<1>1. Append(answers, p) \in Seq(PackageType)
  BY AppendFacts DEF TypeOK, AlgorithmTypeOK
<1>2. answers' \in Seq(PackageType) /\ undelivered' \subseteq PackageType
  BY <1>1 DEF Ship, TypeOK, AlgorithmTypeOK
<1>3. QED
  BY <1>2 DEF Ship, TypeOK, AlgorithmTypeOK

(* Every step keeps the types.                                              *)
LEMMA TypeKept ==
    ASSUME TypeOK, SamplersInStep, ValuesInStep, Next
    PROVE  TypeOK'
<1>p. fault' = fault /\ PackageType' = PackageType
  BY SamePackages
<1>1. ASSUME SendRequest PROVE TypeOK'
  <2>1. UNCHANGED <<receiver, samplers, <<pile, counters, hasModel, generated>>, <<sender, brokers>>, values, process>> /\ sent' = sent + 1
    BY <1>1 DEF SendRequest, vars, algorithm, receiver, samplers, counters, sender, outcome, brokers, round, values
  <2>2. AlgorithmTypeOK'
    <3>1. sent + 1 \in 0 .. NumRequests
      BY <1>1, <1>p, SamplingAssumption DEF SendRequest, TypeOK, AlgorithmTypeOK
    <3>2. QED
      BY <1>p, <1>1, <2>1, <3>1 DEF SendRequest, TypeOK, AlgorithmTypeOK
  <2>3. QED
    BY TypesUntouched, <1>1, <2>1, <2>2 DEF TypeOK
<1>2. ASSUME Leave PROVE TypeOK'
  <2>1. UNCHANGED <<receiver, samplers, <<pile, counters, hasModel, generated>>, <<sender, brokers>>, values, process>> /\ sent' = sent
    BY <1>2 DEF Leave, vars, algorithm, receiver, samplers, counters, sender, outcome, brokers, round, values
  <2>2. AlgorithmTypeOK'
    BY <1>p, <1>2, <2>1 DEF Leave, TypeOK, AlgorithmTypeOK, algorithm
  <2>3. QED
    BY TypesUntouched, <1>2, <2>1, <2>2 DEF TypeOK
<1>3. ASSUME NEW b \in Brokers, Evaluate(b) PROVE TypeOK'
  <2>1. UNCHANGED <<algorithm, receiver, samplers, <<pile, counters, hasModel, generated>>, values, process>> /\ sent' = sent
    BY <1>3 DEF Evaluate, vars, algorithm, receiver, samplers, counters, sender, outcome, brokers, round, values
  <2>2. BrokersTypeOK'
    <3>1. PICK p \in atBroker[b], v \in {"value", "empty"} :
              /\ atBroker' = [atBroker EXCEPT ![b] = @ \ {p}]
              /\ results' = [results EXCEPT ![b] = Append(@, [p EXCEPT !.value = v])]
      BY <1>3 DEF Evaluate
    <3>2. p \in PackageType /\ [p EXCEPT !.value = v] \in PackageType
      BY PackageFacts, TypesUntouched DEF TypeOK, BrokersTypeOK
    <3>3. Append(results[b], [p EXCEPT !.value = v]) \in Seq(PackageType)
      BY <3>2, AppendFacts DEF TypeOK, BrokersTypeOK
    <3>4. results' \in [Brokers -> Seq(PackageType)]
      BY <3>1, <3>3 DEF TypeOK, BrokersTypeOK
    <3>5. atBroker' \in [Brokers -> SUBSET PackageType]
      BY <3>1 DEF TypeOK, BrokersTypeOK
    <3>6. UNCHANGED <<epc, nextBroker, dead>>
      BY <1>3 DEF Evaluate, sender
    <3>7. QED
      BY <1>p, <3>4, <3>5, <3>6 DEF TypeOK, BrokersTypeOK
  <2>3. QED
    BY TypesUntouched, <1>3, <2>1, <2>2 DEF TypeOK
<1>4. ASSUME NEW b \in Brokers, BrokerEnds(b) PROVE TypeOK'
  <2>1. UNCHANGED <<algorithm, receiver, samplers, <<pile, counters, hasModel, generated>>, values, process>> /\ sent' = sent
    BY <1>4 DEF BrokerEnds, vars, algorithm, receiver, samplers, counters, sender, outcome, brokers, round, values
  <2>2. BrokersTypeOK'
    BY <1>p, <1>4, <2>1 DEF BrokerEnds, TypeOK, BrokersTypeOK, sender, brokers
  <2>3. QED
    BY TypesUntouched, <1>4, <2>1, <2>2 DEF TypeOK
<1>5. ASSUME ReceiveRequests PROVE TypeOK'
  <2>1. UNCHANGED <<algorithm, samplers, <<pile, counters, hasModel, generated>>, <<sender, brokers>>, values, process>> /\ sent' = sent
    BY <1>5 DEF ReceiveRequests, vars, algorithm, receiver, samplers, counters, sender, outcome, brokers, round, values
  <2>2. ReceiverTypeOK'
    <3>1. PICK k \in received + 1 .. sent :
              /\ receivePile' = receivePile \o RequestsFrom(received, k - received)
              /\ received' = k
      BY <1>5 DEF ReceiveRequests, RequestsFrom
    <3>2. received \in Nat /\ sent \in 0 .. NumRequests /\ NumRequests \in Nat /\ k - received \in Nat
      BY SamplingAssumption DEF TypeOK, AlgorithmTypeOK, ReceiverTypeOK
    <3>3. \A i \in received + 1 .. received + (k - received) :
              Package(i, "request", 0) \in PackageType
      <4>1. \A i \in received + 1 .. received + (k - received) : i \in Requests
        BY <3>2 DEF Requests
      <4>2. QED
        BY <4>1, PackageFacts, TypesUntouched
    <3>4. RequestsFrom(received, k - received) \in Seq(PackageType)
      BY <3>2, <3>3, RequestsFromFacts
    <3>5. receivePile' \in Seq(PackageType)
      BY <3>1, <3>4, ConcatFacts DEF TypeOK, ReceiverTypeOK
    <3>6. received' \in 0 .. sent' /\ isConnected' = isConnected
      BY <1>5, <2>1, <3>1, <3>2 DEF ReceiveRequests
    <3>7. QED
      BY <1>p, <3>5, <3>6 DEF TypeOK, ReceiverTypeOK
  <2>3. QED
    BY TypesUntouched, <1>5, <2>1, <2>2 DEF TypeOK
<1>6. ASSUME ReceiveTermination PROVE TypeOK'
  <2>1. UNCHANGED <<algorithm, samplers, <<pile, counters, hasModel, generated>>, <<sender, brokers>>, values, process>> /\ sent' = sent
    BY <1>6 DEF ReceiveTermination, vars, algorithm, receiver, samplers, counters, sender, outcome, brokers, round, values
  <2>2. ReceiverTypeOK'
    BY <1>p, <1>6, <2>1 DEF ReceiveTermination, TypeOK, ReceiverTypeOK, receiver, AlgorithmTypeOK
  <2>3. QED
    BY TypesUntouched, <1>6, <2>1, <2>2 DEF TypeOK
<1>7. ASSUME EndEvaluation PROVE TypeOK'
  <2>1. UNCHANGED <<algorithm, receiver, samplers, <<pile, counters, hasModel, generated>>, values, process>> /\ sent' = sent
    BY <1>7 DEF EndEvaluation, vars, algorithm, receiver, samplers, counters, sender, outcome, brokers, round, values
  <2>2. BrokersTypeOK'
    BY <1>p, <1>7, <2>1 DEF EndEvaluation, TypeOK, BrokersTypeOK, sender, brokers
  <2>3. QED
    BY TypesUntouched, <1>7, <2>1, <2>2 DEF TypeOK
<1>8. ASSUME SendPile PROVE TypeOK'
  <2>1. UNCHANGED <<algorithm, receiver, samplers, values>> /\ sent' = sent
    BY <1>8 DEF SendPile, vars, algorithm, receiver, samplers, counters, sender, outcome, brokers, round, values
  <2>2. SharedTypeOK'
    BY <1>p, <1>8, <2>1 DEF SendPile, TypeOK, SharedTypeOK, counters
  <2>3. BrokersTypeOK'
    <3>1. atBroker' = [b \in Brokers |-> atBroker[b] \cup {pile[i] : i \in {i \in DOMAIN pile : Turn(i - 1) = b}}]
      BY <1>8 DEF SendPile
    <3>2. \A i \in DOMAIN pile : pile[i] \in PackageType
      BY ElementOfSeq, LenProperties DEF TypeOK, SharedTypeOK
    <3>3. atBroker' \in [Brokers -> SUBSET PackageType]
      BY <3>1, <3>2 DEF TypeOK, BrokersTypeOK
    <3>4. nextBroker' \in Brokers
      <4>1. NumBrokers \in Nat \ {0} /\ nextBroker + Len(pile) \in Nat
        BY SamplingAssumption, LenProperties DEF TypeOK, BrokersTypeOK, SharedTypeOK, Brokers
      <4>2. (nextBroker + Len(pile)) % NumBrokers \in 0 .. NumBrokers - 1
        BY <4>1
      <4>3. QED
        BY <1>8, <4>2 DEF SendPile, Turn, Brokers
    <3>5. UNCHANGED <<epc, results, dead>>
      BY <1>8 DEF SendPile
    <3>6. QED
      BY <1>p, <3>3, <3>4, <3>5 DEF TypeOK, BrokersTypeOK
  <2>4. process' \in {"running", "died"}
    BY <1>8 DEF SendPile, TypeOK
  <2>5. QED
    BY TypesUntouched, <1>8, <2>1, <2>2, <2>3, <2>4 DEF TypeOK
<1>9. ASSUME ReceiveResults PROVE TypeOK'
  <2>1. UNCHANGED <<algorithm, receiver, samplers, <<pile, counters, hasModel, generated>>, process>> /\ sent' = sent
    BY <1>9 DEF ReceiveResults, vars, algorithm, receiver, samplers, counters, sender, outcome, brokers, round, values
  <2>2. BrokersTypeOK'
    <3>1. /\ results' = [results EXCEPT ![vb] = <<>>]
          /\ UNCHANGED <<epc, nextBroker, atBroker, dead>>
      BY <1>9 DEF ReceiveResults, sender
    <3>2. results' \in [Brokers -> Seq(PackageType)]
      BY <3>1, EmptySeq DEF TypeOK, BrokersTypeOK
    <3>3. QED
      BY <1>p, <3>1, <3>2 DEF TypeOK, BrokersTypeOK
  <2>3. ValuesTypeOK'
    <3>1. /\ batch' = results[vb] /\ vpc' = "process"
          /\ UNCHANGED <<vb, current, extra, additional, speculative, completed, completedSpeculative>>
      BY <1>9 DEF ReceiveResults
    <3>2. batch' \in Seq(PackageType)
      BY <3>1 DEF TypeOK, BrokersTypeOK, ValuesTypeOK
    <3>3. QED
      BY <1>p, <3>1, <3>2 DEF TypeOK, ValuesTypeOK
  <2>4. QED
    BY TypesUntouched, <1>9, <2>1, <2>2, <2>3 DEF TypeOK
<1>10. ASSUME ReceiveNoResults PROVE TypeOK'
  <2>1. UNCHANGED <<algorithm, receiver, samplers, <<pile, counters, hasModel, generated>>, <<sender, brokers>>, process>> /\ sent' = sent
    BY <1>10 DEF ReceiveNoResults, vars, algorithm, receiver, samplers, counters, sender, outcome, brokers, round, values
  <2>2. ValuesTypeOK'
    <3>1. /\ vb' = (vb + 1) % NumBrokers
          /\ UNCHANGED <<vpc, batch, current, extra, additional, speculative, completed, completedSpeculative>>
      BY <1>10 DEF ReceiveNoResults, NextBroker
    <3>2. vb' \in Brokers
      BY <3>1, NextInTurn DEF TypeOK, ValuesTypeOK
    <3>3. QED
      BY <1>p, <3>1, <3>2 DEF TypeOK, ValuesTypeOK
  <2>3. QED
    BY TypesUntouched, <1>10, <2>1, <2>2 DEF TypeOK
<1>11. ASSUME ReceiveKills PROVE TypeOK'
  <2>1. UNCHANGED <<algorithm, receiver, samplers, <<pile, counters, hasModel, generated>>, <<sender, brokers>>, values>> /\ sent' = sent
    BY <1>11 DEF ReceiveKills, vars, algorithm, receiver, samplers, counters, sender, outcome, brokers, round, values
  <2>2. process' \in {"running", "died"}
    BY <1>11 DEF ReceiveKills, TypeOK
  <2>3. QED
    BY TypesUntouched, <1>11, <2>1, <2>2 DEF TypeOK
<1>12. ASSUME KeepSpeculative PROVE TypeOK'
  <2>1. UNCHANGED <<algorithm, receiver, samplers, <<pile, counters, hasModel, generated>>, <<sender, brokers>>, process>> /\ sent' = sent
    BY <1>12 DEF KeepSpeculative, vars, algorithm, receiver, samplers, counters, sender, outcome, brokers, round, values
  <2>2. ValuesTypeOK'
    <3>1. /\ speculative' = speculative \cup {Result} /\ completedSpeculative' = completedSpeculative + 1
          /\ batch' = Tail(batch)
          /\ UNCHANGED <<vpc, vb, current, extra, additional, completed>>
      BY <1>12 DEF KeepSpeculative
    <3>2. Result \in PackageType /\ Tail(batch) \in Seq(PackageType)
      BY <1>12, ResultFacts DEF KeepSpeculative
    <3>3. QED
      BY <1>p, <3>1, <3>2 DEF TypeOK, ValuesTypeOK
  <2>3. QED
    BY TypesUntouched, <1>12, <2>1, <2>2 DEF TypeOK
<1>13. ASSUME InsertResult PROVE TypeOK'
  <2>1. UNCHANGED <<algorithm, receiver, samplers, <<pile, counters, hasModel, generated>>, <<sender, brokers>>, process>> /\ sent' = sent
    BY <1>13 DEF InsertResult, vars, algorithm, receiver, samplers, counters, sender, outcome, brokers, round, values
  <2>2. ValuesTypeOK'
    <3>1. /\ completed' = completed + 1 /\ batch' = Tail(batch) /\ current' = <<Result>> /\ vpc' = "ship"
          /\ UNCHANGED <<vb, extra, additional, speculative, completedSpeculative>>
      BY <1>13 DEF InsertResult, ForAlgorithm
    <3>2. Result \in PackageType /\ Tail(batch) \in Seq(PackageType)
      BY <1>13, ResultFacts DEF InsertResult, ForAlgorithm
    <3>3. QED
      BY <1>p, <3>1, <3>2 DEF TypeOK, ValuesTypeOK
  <2>3. QED
    BY TypesUntouched, <1>13, <2>1, <2>2 DEF TypeOK
<1>14. ASSUME StartStencil PROVE TypeOK'
  <2>1. UNCHANGED <<algorithm, receiver, samplers, <<sender, brokers>>, process>> /\ sent' = sent
    BY <1>14 DEF StartStencil, vars, algorithm, receiver, samplers, counters, sender, outcome, brokers, round, values
  <2>2. SharedTypeOK'
    BY <1>p, <1>14, <2>1 DEF StartStencil, TypeOK, SharedTypeOK, counters
  <2>3. ValuesTypeOK'
    <3>1. /\ completed' = completed + 1 /\ batch' = Tail(batch) /\ current' = <<Result>> /\ vpc' = "push"
          /\ extra' = Samples(Result.id)
          /\ additional' = [id \in DOMAIN additional \cup {Result.id} |->
                 IF id \in DOMAIN additional THEN additional[id] ELSE StencilAround(Result)]
          /\ UNCHANGED <<vb, speculative, completedSpeculative>>
      BY <1>14 DEF StartStencil, ForAlgorithm
    <3>2. /\ Result \in PackageType /\ Result.id \in Requests
          /\ Tail(batch) \in Seq(PackageType) /\ <<Result>> \in Seq(PackageType)
      <4>1. Processing /\ IsRegular(Result)
        BY <1>14 DEF StartStencil, ForAlgorithm
      <4>2. Result \in PackageType /\ Tail(batch) \in Seq(PackageType)
        BY <4>1, ResultFacts
      <4>3. Result.id \in Requests
        BY <4>1, <4>2, PackageFacts, TypesUntouched
      <4>4. <<Result>> \in Seq(PackageType)
        BY <4>2
      <4>5. QED
        BY <4>2, <4>3, <4>4
    <3>3. Samples(Result.id) \in Seq(PackageType)
      BY <3>2, SamplesFacts, TypesUntouched
    <3>4. StencilAround(Result) \in [needed : Nat, members : Seq(PackageType)]
      BY <3>2, SamplingAssumption DEF StencilAround, Requests
    <3>5. /\ DOMAIN additional' = DOMAIN additional \cup {Result.id}
          /\ additional' \in [DOMAIN additional' -> [needed : Nat, members : Seq(PackageType)]]
      BY <3>1, <3>4 DEF TypeOK, ValuesTypeOK
    <3>6. DOMAIN additional' \subseteq Requests
      BY <3>2, <3>5 DEF TypeOK, ValuesTypeOK
    <3>7. QED
      BY <1>p, <3>1, <3>2, <3>3, <3>5, <3>6 DEF TypeOK, ValuesTypeOK
  <2>4. QED
    BY TypesUntouched, <1>14, <2>1, <2>2, <2>3 DEF TypeOK
<1>15. ASSUME PushSamples PROVE TypeOK'
  <2>1. UNCHANGED <<algorithm, receiver, samplers, <<sender, brokers>>, process>> /\ sent' = sent
    BY <1>15 DEF PushSamples, vars, algorithm, receiver, samplers, counters, sender, outcome, brokers, round, values
  <2>2. SharedTypeOK'
    <3>1. /\ pile' = extra \o pile
          /\ UNCHANGED <<numberEvaluations, numberSpeculative, hasModel, generated>>
      BY <1>15 DEF PushSamples, counters
    <3>2. pile' \in Seq(PackageType)
      BY <3>1, ConcatFacts DEF TypeOK, SharedTypeOK, ValuesTypeOK
    <3>3. QED
      BY <1>p, <3>1, <3>2 DEF TypeOK, SharedTypeOK
  <2>3. ValuesTypeOK'
    BY <1>p, <1>15, <2>1 DEF PushSamples, TypeOK, ValuesTypeOK, values, round, NextBroker
  <2>4. QED
    BY TypesUntouched, <1>15, <2>1, <2>2, <2>3 DEF TypeOK
<1>16. ASSUME ShipResult PROVE TypeOK'
  <2>1. UNCHANGED <<receiver, samplers, <<pile, counters, hasModel, generated>>, <<sender, brokers>>>> /\ sent' = sent
    BY <1>16 DEF ShipResult, vars, algorithm, receiver, samplers, counters, sender, outcome, brokers, round, values
  <2>2. AlgorithmTypeOK'
    <3>1. Head(current) \in PackageType
      BY <1>16, CurrentFacts DEF ShipResult
    <3>2. QED
      BY <1>p, <1>16, <3>1, ShippedTypes DEF ShipResult
  <2>3. ValuesTypeOK'
    BY <1>p, <1>16, <2>1 DEF ShipResult, TypeOK, ValuesTypeOK, values, round, NextBroker
  <2>4. process' \in {"running", "died"}
    <3>1. Head(current) \in PackageType
      BY <1>16, CurrentFacts DEF ShipResult
    <3>2. QED
      BY <1>p, <1>16, <3>1, ShippedTypes DEF ShipResult
  <2>5. QED
    BY TypesUntouched, <1>16, <2>1, <2>2, <2>3, <2>4 DEF TypeOK
<1>17. ASSUME GatherSample PROVE TypeOK'
  <2>1. UNCHANGED <<algorithm, receiver, samplers, <<pile, counters, hasModel, generated>>, <<sender, brokers>>, process>> /\ sent' = sent
    BY <1>17 DEF GatherSample, vars, algorithm, receiver, samplers, counters, sender, outcome, brokers, round, values
  <2>2. ValuesTypeOK'
    <3>1. /\ completed' = completed + 1 /\ batch' = Tail(batch)
          /\ additional' = [additional EXCEPT ![Result.id].members = Gathered]
          /\ Result.id \in DOMAIN additional
          /\ UNCHANGED <<vpc, vb, current, extra, speculative, completedSpeculative>>
      BY <1>17 DEF GatherSample, ForStencil, IsForAlgorithm
    <3>2. Result \in PackageType /\ Tail(batch) \in Seq(PackageType)
      BY <1>17, ResultFacts DEF GatherSample, ForStencil
    <3>3. additional[Result.id].members \in Seq(PackageType)
      BY <3>1 DEF TypeOK, ValuesTypeOK
    <3>4. Gathered \in Seq(PackageType)
      BY <3>2, <3>3, AppendFacts DEF Gathered
    <3>5. /\ DOMAIN additional' = DOMAIN additional
          /\ additional' \in [DOMAIN additional -> [needed : Nat, members : Seq(PackageType)]]
      BY <3>1, <3>4 DEF TypeOK, ValuesTypeOK
    <3>6. QED
      BY <1>p, <3>1, <3>2, <3>5 DEF TypeOK, ValuesTypeOK
  <2>3. QED
    BY TypesUntouched, <1>17, <2>1, <2>2 DEF TypeOK
<1>18. ASSUME AddNewModel PROVE TypeOK'
  <2>1. UNCHANGED <<algorithm, receiver, samplers, <<sender, brokers>>>> /\ sent' = sent
    BY <1>18 DEF AddNewModel, vars, algorithm, receiver, samplers, counters, sender, outcome, brokers, round, values
  <2>2. SharedTypeOK'
    BY <1>p, <1>18, <2>1 DEF AddNewModel, TypeOK, SharedTypeOK, counters
  <2>3. ValuesTypeOK'
    <3>1. /\ completed' = completed + 1 /\ batch' = Tail(batch)
          /\ additional' = [id \in DOMAIN additional \ {Result.id} |-> additional[id]]
          /\ UNCHANGED <<vpc, vb, current, extra, speculative, completedSpeculative>>
      BY <1>18 DEF AddNewModel, ForStencil, Restrict
    <3>2. Tail(batch) \in Seq(PackageType)
      BY <1>18, ResultFacts DEF AddNewModel, ForStencil
    <3>3. /\ DOMAIN additional' = DOMAIN additional \ {Result.id}
          /\ additional' \in [DOMAIN additional' -> [needed : Nat, members : Seq(PackageType)]]
      BY <3>1 DEF TypeOK, ValuesTypeOK
    <3>4. DOMAIN additional' \subseteq Requests
      BY <3>3 DEF TypeOK, ValuesTypeOK
    <3>5. QED
      BY <1>p, <3>1, <3>2, <3>3, <3>4 DEF TypeOK, ValuesTypeOK
  <2>4. process' \in {"running", "died"}
    BY <1>18 DEF AddNewModel, TypeOK
  <2>5. QED
    BY TypesUntouched, <1>18, <2>1, <2>2, <2>3, <2>4 DEF TypeOK
<1>19. ASSUME CountResults PROVE TypeOK'
  <2>1. UNCHANGED <<algorithm, receiver, samplers, <<sender, brokers>>, process>> /\ sent' = sent
    BY <1>19 DEF CountResults, vars, algorithm, receiver, samplers, counters, sender, outcome, brokers, round, values
  <2>2. SharedTypeOK'
    BY <1>p, <1>19, <2>1 DEF CountResults, TypeOK, SharedTypeOK, counters
  <2>3. ValuesTypeOK'
    BY <1>p, <1>19, <2>1 DEF CountResults, TypeOK, ValuesTypeOK, values, round, NextBroker
  <2>4. QED
    BY TypesUntouched, <1>19, <2>1, <2>2, <2>3 DEF TypeOK
<1>20. ASSUME HandleSpeculative PROVE TypeOK'
  <2>1. UNCHANGED <<algorithm, receiver, samplers, <<sender, brokers>>, process>> /\ sent' = sent
    BY <1>20 DEF HandleSpeculative, vars, algorithm, receiver, samplers, counters, sender, outcome, brokers, round, values
  <2>2. SharedTypeOK'
    BY <1>p, <1>20, <2>1 DEF HandleSpeculative, TypeOK, SharedTypeOK, counters
  <2>3. ValuesTypeOK'
    <3>1. /\ completedSpeculative' = 0 /\ vb' = (vb + 1) % NumBrokers /\ vpc' = "receive"
          /\ UNCHANGED <<batch, current, extra, additional, completed>>
      BY <1>20 DEF HandleSpeculative, NextBroker
    <3>2. vb' \in Brokers
      BY <3>1, NextInTurn DEF TypeOK, ValuesTypeOK
    <3>3. speculative' \subseteq speculative
      BY <1>20 DEF HandleSpeculative
    <3>4. QED
      BY <1>p, <3>1, <3>2, <3>3 DEF TypeOK, ValuesTypeOK
  <2>4. QED
    BY TypesUntouched, <1>20, <2>1, <2>2, <2>3 DEF TypeOK
<1>21. ASSUME EndValueProcessing PROVE TypeOK'
  <2>1. UNCHANGED <<algorithm, receiver, samplers, <<pile, counters, hasModel, generated>>, <<sender, brokers>>, process>> /\ sent' = sent
    BY <1>21 DEF EndValueProcessing, vars, algorithm, receiver, samplers, counters, sender, outcome, brokers, round, values
  <2>2. ValuesTypeOK'
    BY <1>p, <1>21, <2>1 DEF EndValueProcessing, TypeOK, ValuesTypeOK, values, round, NextBroker
  <2>3. QED
    BY TypesUntouched, <1>21, <2>1, <2>2 DEF TypeOK
<1>22. ASSUME NEW t \in Threads, TakeWork(t) PROVE TypeOK'
  <2>1. UNCHANGED <<algorithm, <<pile, counters, hasModel, generated>>, <<sender, brokers>>, values, process>> /\ sent' = sent
    BY <1>22 DEF TakeWork, vars, algorithm, receiver, samplers, counters, sender, outcome, brokers, round, values
  <2>2. ReceiverTypeOK'
    <3>1. PICK n \in 0 .. Len(receivePile) :
              /\ work' = [work EXCEPT ![t] = Taken(t, n)]
              /\ receivePile' = SubSeq(receivePile, n + 1, Len(receivePile))
      BY <1>22, ChunkTaken
    <3>2. receivePile' \in Seq(PackageType)
      BY <3>1, SplitFacts DEF TypeOK, ReceiverTypeOK
    <3>3. UNCHANGED <<isConnected, received>>
      BY <1>22 DEF TakeWork
    <3>4. QED
      BY <1>p, <2>1, <3>2, <3>3 DEF TypeOK, ReceiverTypeOK
  <2>3. SamplersTypeOK'
    <3>1. PICK n \in 0 .. Len(receivePile) :
              /\ work' = [work EXCEPT ![t] = Taken(t, n)]
              /\ receivePile' = SubSeq(receivePile, n + 1, Len(receivePile))
      BY <1>22, ChunkTaken
    <3>2. Taken(t, n) \in Seq(PackageType)
      BY SplitFacts, ConcatFacts DEF TypeOK, ReceiverTypeOK, SamplersTypeOK, Taken
    <3>3. work' \in [Threads -> Seq(PackageType)]
      BY <3>1, <3>2 DEF TypeOK, SamplersTypeOK
    <3>4. held' \in [Threads -> Seq(PackageType)]
      BY <1>22, EmptySeq DEF TakeWork, TypeOK, SamplersTypeOK
    <3>5. hasTemplate' \in [Threads -> BOOLEAN]
      BY <1>22 DEF TakeWork, TypeOK, SamplersTypeOK
    <3>6. spc' = [spc EXCEPT ![t] = "work"] /\ uncounted' = uncounted
      BY <1>22 DEF TakeWork, Goto
    <3>7. QED
      BY <1>p, <3>3, <3>4, <3>5, <3>6 DEF TypeOK, SamplersTypeOK
  <2>4. QED
    BY TypesUntouched, <1>22, <2>1, <2>2, <2>3 DEF TypeOK
<1>23. ASSUME NEW t \in Threads, Interpolate(t) PROVE TypeOK'
  <2>1. UNCHANGED <<algorithm, receiver, <<pile, counters, hasModel, generated>>, <<sender, brokers>>, values, process>> /\ sent' = sent
    BY <1>23 DEF Interpolate, vars, algorithm, receiver, samplers, counters, sender, outcome, brokers, round, values
  <2>2. SamplersTypeOK'
    <3>1. /\ work[t] # <<>> /\ work' = [work EXCEPT ![t][1].value = "value"]
          /\ spc' = [spc EXCEPT ![t] = "ship"] /\ UNCHANGED <<held, hasTemplate, uncounted>>
      BY <1>23 DEF Interpolate, Goto
    <3>2. work[t] \in Seq(PackageType) /\ work[t][1] \in PackageType
      BY <3>1, TailFacts DEF TypeOK, SamplersTypeOK
    <3>3. [work[t][1] EXCEPT !.value = "value"] \in PackageType
      BY <3>2, PackageFacts, TypesUntouched
    <3>4. [work[t] EXCEPT ![1] = [work[t][1] EXCEPT !.value = "value"]] \in Seq(PackageType)
      BY <3>1, <3>2, <3>3, ReplaceFirst
    <3>5. work' = [work EXCEPT ![t] = [work[t] EXCEPT ![1] = [work[t][1] EXCEPT !.value = "value"]]]
      BY <3>1
    <3>6. work' \in [Threads -> Seq(PackageType)]
      BY <3>4, <3>5 DEF TypeOK, SamplersTypeOK
    <3>7. QED
      BY <1>p, <3>1, <3>6 DEF TypeOK, SamplersTypeOK
  <2>3. QED
    BY TypesUntouched, <1>23, <2>1, <2>2 DEF TypeOK
<1>24. ASSUME NEW t \in Threads, ShipInterpolated(t) PROVE TypeOK'
  <2>1. UNCHANGED <<receiver, <<pile, counters, hasModel, generated>>, <<sender, brokers>>, values>> /\ sent' = sent
    BY <1>24 DEF ShipInterpolated, vars, algorithm, receiver, samplers, counters, sender, outcome, brokers, round, values
  <2>2. AlgorithmTypeOK'
    <3>1. Head(work[t]) \in PackageType
      BY <1>24, WorkFacts DEF ShipInterpolated, At, SamplersInStep
    <3>2. QED
      BY <1>p, <1>24, <2>1, <3>1, ShippedTypes DEF ShipInterpolated
  <2>3. SamplersTypeOK'
    <3>1. /\ work' = [work EXCEPT ![t] = Tail(@)]
          /\ spc' = [spc EXCEPT ![t] = After(t, Tail(work[t]))]
          /\ UNCHANGED <<held, hasTemplate, uncounted>>
      BY <1>24 DEF ShipInterpolated, Goto
    <3>2. Tail(work[t]) \in Seq(PackageType)
      BY <1>24, WorkFacts DEF ShipInterpolated, At, SamplersInStep
    <3>3. work' \in [Threads -> Seq(PackageType)]
      BY <3>1, <3>2 DEF TypeOK, SamplersTypeOK
    <3>4. After(t, Tail(work[t])) \in {"take", "work"}
      BY DEF After
    <3>5. QED
      BY <1>p, <3>1, <3>3, <3>4 DEF TypeOK, SamplersTypeOK
  <2>4. process' \in {"running", "died"}
    <3>1. Head(work[t]) \in PackageType
      BY <1>24, WorkFacts DEF ShipInterpolated, At, SamplersInStep
    <3>2. QED
      BY <1>p, <1>24, <2>1, <3>1, ShippedTypes DEF ShipInterpolated
  <2>5. QED
    BY TypesUntouched, <1>24, <2>1, <2>2, <2>3, <2>4 DEF TypeOK
<1>25. ASSUME NEW t \in Threads, PileUp(t) PROVE TypeOK'
  <2>1. UNCHANGED <<algorithm, receiver, <<sender, brokers>>, values, process>> /\ sent' = sent
    BY <1>25 DEF PileUp, vars, algorithm, receiver, samplers, counters, sender, outcome, brokers, round, values
  <2>2. SamplersTypeOK'
    BY <1>p, <1>25, <2>1 DEF PileUp, TypeOK, SamplersTypeOK, samplers, At, Goto
  <2>3. SharedTypeOK'
    <3>1. /\ work[t] # <<>> /\ pile' = Append(pile, Head(work[t]))
          /\ UNCHANGED <<numberEvaluations, numberSpeculative, hasModel, generated>>
      BY <1>25 DEF PileUp, counters
    <3>2. pile' \in Seq(PackageType)
      BY <3>1, WorkFacts, AppendFacts DEF TypeOK, SharedTypeOK
    <3>3. QED
      BY <1>p, <3>1, <3>2 DEF TypeOK, SharedTypeOK
  <2>4. QED
    BY TypesUntouched, <1>25, <2>1, <2>2, <2>3 DEF TypeOK
<1>26. ASSUME NEW t \in Threads, CountEvaluation(t) PROVE TypeOK'
  <2>1. UNCHANGED <<algorithm, receiver, <<sender, brokers>>, values, process>> /\ sent' = sent
    BY <1>26 DEF CountEvaluation, vars, algorithm, receiver, samplers, counters, sender, outcome, brokers, round, values
  <2>2. SamplersTypeOK'
    <3>1. After(t, work[t]) \in {"take", "work"}
      BY DEF After
    <3>2. QED
      BY <1>p, <1>26, <3>1 DEF CountEvaluation, Goto, TypeOK, SamplersTypeOK
  <2>3. SharedTypeOK'
    BY <1>p, <1>26, <2>1 DEF CountEvaluation, TypeOK, SharedTypeOK, counters
  <2>4. QED
    BY TypesUntouched, <1>26, <2>1, <2>2, <2>3 DEF TypeOK
<1>27. ASSUME NEW t \in Threads, HoldBack(t) PROVE TypeOK'
  <2>1. UNCHANGED <<algorithm, receiver, <<pile, counters, hasModel, generated>>, <<sender, brokers>>, values, process>> /\ sent' = sent
    BY <1>27 DEF HoldBack, vars, algorithm, receiver, samplers, counters, sender, outcome, brokers, round, values
  <2>2. SamplersTypeOK'
    <3>1. /\ work[t] # <<>> /\ held' = [held EXCEPT ![t] = Append(@, Head(work[t]))]
          /\ work' = [work EXCEPT ![t] = Tail(@)]
          /\ spc' = [spc EXCEPT ![t] = After(t, Tail(work[t]))]
          /\ UNCHANGED <<hasTemplate, uncounted>>
      BY <1>27 DEF HoldBack, Goto
    <3>2. Head(work[t]) \in PackageType /\ Tail(work[t]) \in Seq(PackageType)
      BY <3>1, WorkFacts
    <3>3. work' \in [Threads -> Seq(PackageType)]
      BY <3>1, <3>2 DEF TypeOK, SamplersTypeOK
    <3>4. Append(held[t], Head(work[t])) \in Seq(PackageType)
      BY <3>2, AppendFacts DEF TypeOK, SamplersTypeOK
    <3>5. held' \in [Threads -> Seq(PackageType)]
      BY <3>1, <3>4 DEF TypeOK, SamplersTypeOK
    <3>6. After(t, Tail(work[t])) \in {"take", "work"}
      BY DEF After
    <3>7. QED
      BY <1>p, <3>1, <3>3, <3>5, <3>6 DEF TypeOK, SamplersTypeOK
  <2>3. QED
    BY TypesUntouched, <1>27, <2>1, <2>2 DEF TypeOK
<1>28. ASSUME NEW t \in Threads, Generate(t) PROVE TypeOK'
  <2>1. UNCHANGED <<algorithm, receiver, <<sender, brokers>>, values, process>> /\ sent' = sent
    BY <1>28 DEF Generate, vars, algorithm, receiver, samplers, counters, sender, outcome, brokers, round, values
  <2>2. SamplersTypeOK'
    BY <1>p, <1>28, <2>1 DEF Generate, TypeOK, SamplersTypeOK, samplers, At, Goto
  <2>3. SharedTypeOK'
    <3>1. PICK n \in 1 .. Room :
              /\ generated + n <= MaxSpeculative[fault]
              /\ pile' = pile \o Numbered(0, "speculative", generated, n)
              /\ generated' = generated + n
      BY <1>28 DEF Generate, Numbered
    <3>2. MaxSpeculative[fault] \in Nat /\ generated \in Nat /\ n \in Nat /\ n >= 1
      <4>1. Room \in Int
        BY SamplingAssumption DEF TypeOK, SharedTypeOK, Room
      <4>2. QED
        BY <4>1, SamplingAssumption DEF TypeOK, SharedTypeOK
    <3>3. \A i \in generated + 1 .. generated + n : Package(0, "speculative", i) \in PackageType
      <4>1. \A i \in generated + 1 .. generated + n : i \in 1 .. MaxSpeculative[fault]
        BY <3>1, <3>2
      <4>2. QED
        BY <4>1, PackageFacts, TypesUntouched
    <3>4. Numbered(0, "speculative", generated, n) \in Seq(PackageType)
      BY <3>2, <3>3, NumberedFacts
    <3>5. pile' \in Seq(PackageType)
      BY <3>1, <3>4, ConcatFacts DEF TypeOK, SharedTypeOK
    <3>6. generated' \in 0 .. MaxSpeculative[fault']
      BY <1>p, <3>1, <3>2
    <3>7. UNCHANGED <<numberEvaluations, numberSpeculative, hasModel>>
      BY <1>28 DEF Generate, counters
    <3>8. QED
      BY <1>p, <3>5, <3>6, <3>7 DEF TypeOK, SharedTypeOK
  <2>4. QED
    BY TypesUntouched, <1>28, <2>1, <2>2, <2>3 DEF TypeOK
<1>29. ASSUME NEW t \in Threads, CountSpeculative(t) PROVE TypeOK'
  <2>1. UNCHANGED <<algorithm, receiver, <<sender, brokers>>, values, process>> /\ sent' = sent
    BY <1>29 DEF CountSpeculative, vars, algorithm, receiver, samplers, counters, sender, outcome, brokers, round, values
  <2>2. SamplersTypeOK'
    BY <1>p, <1>29, <2>1 DEF CountSpeculative, TypeOK, SamplersTypeOK, samplers, At, Goto
  <2>3. SharedTypeOK'
    BY <1>p, <1>29, <2>1 DEF CountSpeculative, TypeOK, SharedTypeOK, counters
  <2>4. QED
    BY TypesUntouched, <1>29, <2>1, <2>2, <2>3 DEF TypeOK
<1>30. ASSUME NEW t \in Threads, GenerateNothing(t) PROVE TypeOK'
  <2>1. UNCHANGED <<algorithm, receiver, <<pile, counters, hasModel, generated>>, <<sender, brokers>>, values, process>> /\ sent' = sent
    BY <1>30 DEF GenerateNothing, vars, algorithm, receiver, samplers, counters, sender, outcome, brokers, round, values
  <2>2. SamplersTypeOK'
    BY <1>p, <1>30, <2>1 DEF GenerateNothing, TypeOK, SamplersTypeOK, samplers, At, Goto
  <2>3. QED
    BY TypesUntouched, <1>30, <2>1, <2>2 DEF TypeOK
<1>31. ASSUME NEW t \in Threads, EndSampling(t) PROVE TypeOK'
  <2>1. UNCHANGED <<algorithm, receiver, <<pile, counters, hasModel, generated>>, <<sender, brokers>>, values, process>> /\ sent' = sent
    BY <1>31 DEF EndSampling, vars, algorithm, receiver, samplers, counters, sender, outcome, brokers, round, values
  <2>2. SamplersTypeOK'
    BY <1>p, <1>31, <2>1 DEF EndSampling, TypeOK, SamplersTypeOK, samplers, At, Goto
  <2>3. QED
    BY TypesUntouched, <1>31, <2>1, <2>2 DEF TypeOK
<1>q. QED
  BY <1>1, <1>2, <1>3, <1>4, <1>5, <1>6, <1>7, <1>8, <1>9, <1>10, <1>11, <1>12, <1>13, <1>14, <1>15, <1>16, <1>17, <1>18, <1>19, <1>20, <1>21, <1>22, <1>23, <1>24, <1>25, <1>26, <1>27, <1>28, <1>29, <1>30, <1>31 DEF Next, Receiving, Sending, ValueProcessing, Sampling

-----------------------------------------------------------------------------
(* What a thread has in its hands where it is *)

(* Only the sampling threads and the value processing thread change their   *)
(* own variables.                                                           *)
LEMMA OwnVariables ==
    ASSUME Next
    PROVE  /\ UNCHANGED samplers \/ \E t \in Threads : Sampling(t)
           /\ UNCHANGED values \/ ValueProcessing
<1> USE DEF algorithm, receiver, counters, sender, outcome, brokers
<1>1. CASE SendRequest \/ Leave
  BY <1>1 DEF SendRequest, Leave
<1>2. ASSUME NEW b \in Brokers, Evaluate(b) \/ BrokerEnds(b)
      PROVE  UNCHANGED <<samplers, values>>
  BY <1>2 DEF Evaluate, BrokerEnds
<1>3. CASE Receiving
  BY <1>3 DEF Receiving, ReceiveRequests, ReceiveTermination
<1>4. CASE Sending
  BY <1>4 DEF Sending, SendPile, EndEvaluation
<1>5. ASSUME ValueProcessing PROVE UNCHANGED samplers
  <2>1. CASE ReceiveResults \/ ReceiveNoResults \/ ReceiveKills
    BY <2>1 DEF ReceiveResults, ReceiveNoResults, ReceiveKills
  <2>2. CASE KeepSpeculative \/ InsertResult \/ StartStencil \/ PushSamples \/ ShipResult
    BY <2>2 DEF KeepSpeculative, InsertResult, StartStencil, PushSamples, ShipResult
  <2>3. CASE GatherSample \/ AddNewModel \/ CountResults \/ HandleSpeculative
    BY <2>3 DEF GatherSample, AddNewModel, CountResults, HandleSpeculative
  <2>4. CASE EndValueProcessing
    BY <2>4 DEF EndValueProcessing
  <2>5. QED
    BY <1>5, <2>1, <2>2, <2>3, <2>4 DEF ValueProcessing
<1>6. ASSUME NEW t \in Threads, Sampling(t) PROVE UNCHANGED values
  BY <1>6 DEF Sampling, TakeWork, Interpolate, ShipInterpolated, PileUp, CountEvaluation,
              HoldBack, Generate, CountSpeculative, GenerateNothing, EndSampling
<1>7. QED
  BY <1>1, <1>2, <1>3, <1>4, <1>5, <1>6 DEF Next

(* A thread of another one's step stays where it is.                        *)
HandsOf(t) ==
    /\ spc[t] \in {"take", "countSpeculative", "done"} => work[t] = <<>>
    /\ spc[t] = "ship" => work[t] # <<>> /\ work[t][1].value = "value"
    /\ spc[t] = "countSpeculative" => t = First
    /\ spc[t] # "countSpeculative" => uncounted[t] = 0
LEMMA SamplersInStepKept ==
    ASSUME TypeOK, SamplersInStep, Next
    PROVE  SamplersInStep'
<1>1. CASE UNCHANGED samplers
  BY <1>1 DEF samplers, SamplersInStep
<1>2. ASSUME NEW t \in Threads, Sampling(t) PROVE SamplersInStep'
  <2>1. SUFFICES /\ HandsOf(t)'
                 /\ \A u \in Threads \ {t} : /\ spc'[u] = spc[u] /\ work'[u] = work[u]
                                             /\ uncounted'[u] = uncounted[u]
    BY <2>1 DEF SamplersInStep, HandsOf
  <2> USE DEF TypeOK, SamplersTypeOK, SamplersInStep, HandsOf, At, Goto, samplers
  <2>2. CASE TakeWork(t)
    BY <2>2 DEF TakeWork
  <2>3. CASE Interpolate(t)
    <3>1. work[t] \in Seq(PackageType) /\ work[t] # <<>> /\ work[t][1] \in PackageType
      BY <2>3, WorkFacts DEF Interpolate
    <3>2. [work[t][1] EXCEPT !.value = "value"].value = "value"
      BY <3>1, PackageFacts
    <3>3. /\ [work[t] EXCEPT ![1] = [work[t][1] EXCEPT !.value = "value"]][1].value = "value"
          /\ [work[t] EXCEPT ![1] = [work[t][1] EXCEPT !.value = "value"]] # <<>>
      BY <3>1, <3>2, PackageFacts, ReplaceFirst
    <3>4. work' = [work EXCEPT ![t] = [work[t] EXCEPT ![1] = [work[t][1] EXCEPT !.value = "value"]]]
      BY <2>3 DEF Interpolate
    <3>5. QED
      BY <2>3, <3>3, <3>4 DEF Interpolate
  <2>4. CASE ShipInterpolated(t)
    BY <2>4 DEF ShipInterpolated, After
  <2>5. CASE PileUp(t)
    BY <2>5 DEF PileUp
  <2>6. CASE CountEvaluation(t)
    BY <2>6 DEF CountEvaluation, After
  <2>7. CASE HoldBack(t)
    BY <2>7 DEF HoldBack, After
  <2>8. CASE Generate(t)
    BY <2>8 DEF Generate, HasGenerator
  <2>9. CASE CountSpeculative(t)
    BY <2>9 DEF CountSpeculative
  <2>10. CASE GenerateNothing(t)
    BY <2>10 DEF GenerateNothing
  <2>11. CASE EndSampling(t)
    BY <2>11 DEF EndSampling
  <2>12. QED
    BY <1>2, <2>2, <2>3, <2>4, <2>5, <2>6, <2>7, <2>8, <2>9, <2>10, <2>11 DEF Sampling
<1>3. QED
  BY <1>1, <1>2, OwnVariables

LEMMA ValuesInStepKept ==
    ASSUME TypeOK, ValuesInStep, Next
    PROVE  ValuesInStep'
<1> USE DEF TypeOK, ValuesTypeOK, ValuesInStep, values, round
<1>1. CASE UNCHANGED values
  BY <1>1
<1>2. CASE ValueProcessing
  <2>1. CASE ReceiveResults
    BY <2>1 DEF ReceiveResults
  <2>2. CASE ReceiveNoResults
    BY <2>2 DEF ReceiveNoResults
  <2>3. CASE ReceiveKills
    BY <2>3 DEF ReceiveKills
  <2>4. CASE KeepSpeculative
    BY <2>4 DEF KeepSpeculative, Processing
  <2>5. CASE InsertResult
    BY <2>5 DEF InsertResult, ForAlgorithm, Processing
  <2>6. CASE StartStencil
    BY <2>6 DEF StartStencil, ForAlgorithm, Processing
  <2>7. CASE PushSamples
    BY <2>7 DEF PushSamples
  <2>8. CASE ShipResult
    BY <2>8 DEF ShipResult
  <2>9. CASE GatherSample
    BY <2>9 DEF GatherSample, ForStencil, Processing
  <2>10. CASE AddNewModel
    BY <2>10 DEF AddNewModel, ForStencil, Processing
  <2>11. CASE CountResults
    BY <2>11 DEF CountResults
  <2>12. CASE HandleSpeculative
    BY <2>12 DEF HandleSpeculative
  <2>13. CASE EndValueProcessing
    BY <2>13 DEF EndValueProcessing
  <2>14. QED
    BY <1>2, <2>1, <2>2, <2>3, <2>4, <2>5, <2>6, <2>7, <2>8, <2>9, <2>10, <2>11, <2>12, <2>13
       DEF ValueProcessing
<1>3. QED
  BY <1>1, <1>2, OwnVariables

-----------------------------------------------------------------------------
(* The theorem *)

TypesAndPlaces == TypeOK /\ SamplersInStep /\ ValuesInStep
LEMMA InitTypes == Init => TypesAndPlaces
<1> SUFFICES ASSUME Init PROVE TypesAndPlaces
  OBVIOUS
<1>1. /\ NumRequests \in Nat /\ NumBrokers \in Nat \ {0} /\ MaxSpeculative[fault] \in Nat
      /\ fault \in Faults
  BY SamplingAssumption DEF Init
<1>2. <<>> \in Seq(PackageType) /\ 0 \in Brokers
  BY <1>1, EmptySeq DEF Brokers
<1>3. AlgorithmTypeOK /\ ReceiverTypeOK
  <2>1. 0 \in 0 .. NumRequests /\ 0 \in 0 .. 0
    BY <1>1
  <2>2. sent \in 0 .. NumRequests /\ received \in 0 .. sent
    BY <2>1, Zenon DEF Init
  <2>3. /\ left \in BOOLEAN /\ answers \in Seq(PackageType) /\ undelivered \subseteq PackageType
        /\ isConnected \in BOOLEAN /\ receivePile \in Seq(PackageType)
    BY <1>2 DEF Init
  <2>4. QED
    BY <2>2, <2>3 DEF AlgorithmTypeOK, ReceiverTypeOK
<1>4. SamplersTypeOK
  BY <1>2 DEF Init, SamplersTypeOK
<1>5. SharedTypeOK
  <2>1. 0 \in 0 .. MaxSpeculative[fault] /\ 0 \in Int
    BY <1>1
  <2>2. /\ pile \in Seq(PackageType) /\ numberEvaluations \in Int /\ numberSpeculative \in Int
        /\ hasModel \in BOOLEAN
    BY <1>2, <2>1 DEF Init
  <2>3. generated \in 0 .. MaxSpeculative[fault]
    BY <2>1, Zenon DEF Init
  <2>4. QED
    BY <2>2, <2>3 DEF SharedTypeOK
<1>6. BrokersTypeOK
  BY <1>2 DEF Init, BrokersTypeOK
<1>7. ValuesTypeOK
  <2>1. DOMAIN additional = {} /\ additional = [id \in {} |-> 0]
    BY DEF Init
  <2>2. QED
    BY <1>2, <2>1 DEF Init, ValuesTypeOK
<1>8. SamplersInStep /\ ValuesInStep
  BY DEF Init, SamplersInStep, ValuesInStep
<1>9. QED
  BY <1>1, <1>3, <1>4, <1>5, <1>6, <1>7, <1>8 DEF TypesAndPlaces, TypeOK, Init
LEMMA TypesKept ==
    TypesAndPlaces /\ [Next]_vars => TypesAndPlaces'
<1> SUFFICES ASSUME TypesAndPlaces, [Next]_vars PROVE TypesAndPlaces'
  OBVIOUS
<1>1. CASE Next
  BY <1>1, TypeKept, SamplersInStepKept, ValuesInStepKept DEF TypesAndPlaces
<1>2. CASE UNCHANGED vars
  <2>1. PackageType' = PackageType
    BY <1>2 DEF PackageType, vars, outcome
  <2>2. TypeOK'
    BY <1>2, <2>1 DEF TypesAndPlaces, TypeOK, AlgorithmTypeOK, ReceiverTypeOK, SamplersTypeOK,
          SharedTypeOK, BrokersTypeOK, ValuesTypeOK, vars, algorithm, receiver, samplers,
          counters, sender, outcome, brokers, round, values
  <2>3. SamplersInStep' /\ ValuesInStep'
    BY <1>2 DEF TypesAndPlaces, SamplersInStep, ValuesInStep, vars, samplers, round, values
  <2>4. QED
    BY <2>2, <2>3 DEF TypesAndPlaces
<1>3. QED
  BY <1>1, <1>2

(* Every variable of the module keeps its type: a package has one of the    *)
(* ids that requests are given or that of a speculative evaluation, samples *)
(* stay within the stencil, and a thread is only where its code is.         *)
THEOREM SamplingTypeCorrect == Spec => []TypeOK
<1>1. Init => TypesAndPlaces
  BY InitTypes
<1>2. TypesAndPlaces /\ [Next]_vars => TypesAndPlaces'
  BY TypesKept
<1>3. TypesAndPlaces => TypeOK
  BY DEF TypesAndPlaces
<1>4. QED
  BY <1>1, <1>2, <1>3, PTL DEF Spec
=============================================================================
