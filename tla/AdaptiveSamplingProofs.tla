----------------------- MODULE AdaptiveSamplingProofs -----------------------
(* What AdaptiveSampling guarantees for every number of requests, sampling *)
(* threads and brokers, every limit and size of stencils, whatever fails.   *)
EXTENDS SamplingTypes

-----------------------------------------------------------------------------
(* The inductive invariant *)

(* Where a request is before it is piled up, and after its result is there. *)
Waiting ==
    Range(receivePile) \cup (UNION {Range(work[t]) : t \in Threads})
    \cup (UNION {Range(held[t]) : t \in Threads})
Shipping == Range(current) \cup Range(answers) \cup undelivered

(* What is known of a package from where it is.                            *)
Unvalued(S) == \A p \in S : p.value = "none"
HaveValues(S) == \A p \in S : p.value # "none" /\ (IsRegular(p) => p.value = "value")
WaitingAreNew ==
    /\ \A p \in Waiting : p.kind = "request" /\ p.id <= received
    /\ Unvalued(Range(receivePile))
    /\ \A t \in Threads :
        /\ Unvalued(Range(held[t]))
        /\ spc[t] # "ship" => Unvalued(Range(work[t]))
        /\ spc[t] = "ship" => Unvalued(Range(Tail(work[t])))
ShippingAreValued ==
    \A p \in Shipping : p.kind = "request" /\ p.id <= received /\ p.value = "value"
EvaluatedAreValued ==
    /\ Unvalued(Range(pile)) /\ \A b \in Brokers : Unvalued(atBroker[b])
    /\ HaveValues(Range(batch)) /\ \A b \in Brokers : HaveValues(Range(results[b]))
    /\ \A p \in Evaluating :
        /\ p.kind = "request" => p.id <= received
        /\ p.kind = "speculative" => p.n <= generated

(* A package is in one place, and there once.                               *)
Hands(t) == Range(work[t]) \cup Range(held[t])
WaitingOnce ==
    /\ IsInjective(receivePile)
    /\ \A t \in Threads :
        /\ IsInjective(work[t]) /\ IsInjective(held[t])
        /\ Range(work[t]) \cap Range(held[t]) = {}
        /\ Range(receivePile) \cap Hands(t) = {}
        /\ \A u \in Threads \ {t} : Hands(t) \cap Hands(u) = {}
EvaluatingOnce ==
    /\ IsInjective(pile) /\ IsInjective(batch)
    /\ \A b \in Brokers :
        /\ IsInjective(results[b])
        /\ Range(pile) \cap atBroker[b] = {}
        /\ Range(batch) \cap Range(results[b]) = {}
        /\ \A c \in Brokers \ {b} :
            /\ atBroker[b] \cap atBroker[c] = {}
            /\ Range(results[b]) \cap Range(results[c]) = {}
ShippingOnce ==
    /\ IsInjective(answers)
    /\ Range(current) \cap Range(answers) = {}
    /\ undelivered \cap (Range(current) \cup Range(answers)) = {}
OneOfEach(S) == \A p, q \in S : Same(p, q) => p = q
Places == Waiting \cup Evaluating \cup Range(extra) \cup Shipping
OneValue ==
    /\ OneOfEach(Places)
    /\ Waiting \cap Evaluating = {} /\ Shipping \cap (Waiting \cup Evaluating) = {}

(* The stencils that are being evaluated.                                   *)
StencilsOpen ==
    /\ IsInjective(extra)
    /\ \A p \in Range(extra) :
        /\ p.kind = "sample" /\ p.id \in DOMAIN additional /\ p \notin Evaluating
        /\ p.value = "none"
    /\ \A id \in DOMAIN additional :
        LET members == additional[id].members IN
        /\ members # <<>> /\ members[1] \in Shipping
        /\ \A p \in Range(members) :
            \A q \in Waiting \cup Evaluating \cup Range(extra) : ~Same(p, q)
        /\ \A p \in Waiting \cup Evaluating : p.kind = "request" => p.id # id

(* The counter of speculative evaluations.                                  *)
SpeculationCounted ==
    /\ numberSpeculative + uncounted[First]
           = Cardinality(SpeculativeEvaluating) + completedSpeculative
    /\ numberSpeculative + uncounted[First] <= EvaluationLimit

WaitingWell == WaitingAreNew /\ WaitingOnce
EvaluatingWell == EvaluatedAreValued /\ EvaluatingOnce
ShippingWell == ShippingAreValued /\ ShippingOnce
PackagesPlaced == WaitingWell /\ EvaluatingWell /\ ShippingWell /\ OneValue
StencilsWell == StencilsOpen /\ StencilsTracked
EvaluationsWell ==
    /\ IsFiniteSet(Evaluating)
    /\ EvaluationsCounted /\ LimitKept /\ SpeculationCounted
PackagesWell == PackagesPlaced /\ StencilsWell /\ EvaluationsWell
SamplingInvariant == TypesAndPlaces /\ PackagesWell

-----------------------------------------------------------------------------
(* From the pile to the value processing thread *)

(* Where a package may be evaluated, one by one.                            *)
LEMMA EvaluatingMembers ==
    /\ \A p : p \in Evaluating <=>
           \/ p \in Range(pile) \/ p \in Range(batch)
           \/ \E b \in Brokers : p \in atBroker[b] \/ p \in Range(results[b])
    /\ \A p : p \in Evaluating' <=>
           \/ p \in Range(pile') \/ p \in Range(batch')
           \/ \E b \in Brokers : p \in atBroker'[b] \/ p \in Range(results'[b])
<1>1. ASSUME NEW p
      PROVE  p \in Evaluating <=>
                 \/ p \in Range(pile) \/ p \in Range(batch)
                 \/ \E b \in Brokers : p \in atBroker[b] \/ p \in Range(results[b])
  <2>1. p \in UNION {atBroker[b] : b \in Brokers} <=> \E b \in Brokers : p \in atBroker[b]
    OBVIOUS
  <2>2. /\ p \in UNION {Range(results[b]) : b \in Brokers}
            <=> \E b \in Brokers : p \in Range(results[b])
    OBVIOUS
  <2>3. Evaluating = Range(pile)
            \cup (UNION {atBroker[b] : b \in Brokers})
            \cup (UNION {Range(results[b]) : b \in Brokers})
            \cup Range(batch)
    BY DEF Evaluating
  <2> DEFINE u == UNION {atBroker[b] : b \in Brokers}
             v == UNION {Range(results[b]) : b \in Brokers}
  <2>4. Evaluating = Range(pile) \cup u \cup v \cup Range(batch)
    BY <2>3
  <2>5. /\ p \in u <=> \E b \in Brokers : p \in atBroker[b]
        /\ p \in v <=> \E b \in Brokers : p \in Range(results[b])
    BY <2>1, <2>2
  <2> HIDE DEF u, v
  <2>6. QED
    BY <2>4, <2>5
<1>2. ASSUME NEW p
      PROVE  p \in Evaluating' <=>
                 \/ p \in Range(pile') \/ p \in Range(batch')
                 \/ \E b \in Brokers : p \in atBroker'[b] \/ p \in Range(results'[b])
  <2>1. p \in UNION {atBroker'[b] : b \in Brokers} <=> \E b \in Brokers : p \in atBroker'[b]
    OBVIOUS
  <2>2. /\ p \in UNION {Range(results'[b]) : b \in Brokers}
            <=> \E b \in Brokers : p \in Range(results'[b])
    OBVIOUS
  <2>3. Evaluating' = Range(pile')
            \cup (UNION {atBroker'[b] : b \in Brokers})
            \cup (UNION {Range(results'[b]) : b \in Brokers})
            \cup Range(batch')
    BY DEF Evaluating
  <2> DEFINE u == UNION {atBroker'[b] : b \in Brokers}
             v == UNION {Range(results'[b]) : b \in Brokers}
  <2>4. Evaluating' = Range(pile') \cup u \cup v \cup Range(batch')
    BY <2>3
  <2>5. /\ p \in u <=> \E b \in Brokers : p \in atBroker'[b]
        /\ p \in v <=> \E b \in Brokers : p \in Range(results'[b])
    BY <2>1, <2>2
  <2> HIDE DEF u, v
  <2>6. QED
    BY <2>4, <2>5
<1>3. QED
  BY <1>1, <1>2
LEMMA EvaluatingTyped ==
    ASSUME TypeOK
    PROVE  Evaluating \subseteq PackageType
<1>1. Range(pile) \subseteq PackageType /\ Range(batch) \subseteq PackageType
  BY RangeOfSeq DEF TypeOK, SharedTypeOK, ValuesTypeOK
<1>2. \A b \in Brokers : atBroker[b] \subseteq PackageType /\ Range(results[b]) \subseteq PackageType
  BY RangeOfSeq DEF TypeOK, BrokersTypeOK
<1>3. QED
  BY <1>1, <1>2, EvaluatingMembers

LEMMA EvaluatingUntouched ==
    ASSUME EvaluatingWell, UNCHANGED <<pile, atBroker, results, batch>>,
           received <= received', generated <= generated', TypeOK,
           received' \in Nat, generated' \in Nat
    PROVE  EvaluatingWell' /\ Evaluating' = Evaluating
<1>1. Evaluating' = Evaluating
  BY EvaluatingMembers
<1>2. EvaluatingOnce'
  BY DEF EvaluatingWell, EvaluatingOnce
<1>3. \A p \in Evaluating : p.id \in Nat /\ p.n \in Nat
  <2>1. \A p \in PackageType : p.id \in 0 .. NumRequests /\ p.n \in Nat
    BY PackageFacts DEF TypeOK
  <2>2. \A i \in 0 .. NumRequests : i \in Nat
    BY SamplingAssumption
  <2>3. QED
    BY <2>1, <2>2, EvaluatingTyped
<1>4. received \in Nat /\ generated \in Nat
  BY SamplingAssumption DEF TypeOK, ReceiverTypeOK, SharedTypeOK, AlgorithmTypeOK
<1>5. \A p \in Evaluating : /\ p.kind = "request" => p.id <= received'
                            /\ p.kind = "speculative" => p.n <= generated'
  BY <1>3, <1>4 DEF EvaluatingWell, EvaluatedAreValued
<1>6. EvaluatedAreValued'
  BY <1>1, <1>5 DEF EvaluatingWell, EvaluatedAreValued, Unvalued
<1>7. QED
  BY <1>1, <1>2, <1>6 DEF EvaluatingWell

(* New packages on the pile.                                                *)
LEMMA PileGrows ==
    ASSUME EvaluatingWell, UNCHANGED <<atBroker, results, batch>>,
           NEW N, N \cap Evaluating = {}, Unvalued(N),
           IsInjective(pile'), Range(pile') = Range(pile) \cup N,
           \A p \in Evaluating \cup N : /\ p.kind = "request" => p.id <= received'
                                        /\ p.kind = "speculative" => p.n <= generated'
    PROVE  EvaluatingWell' /\ Evaluating' = Evaluating \cup N
<1>1. Evaluating' = Evaluating \cup N
  BY EvaluatingMembers
<1>2. EvaluatingOnce'
  <2>1. \A b \in Brokers : Range(pile') \cap atBroker[b] = {}
    BY EvaluatingMembers DEF EvaluatingWell, EvaluatingOnce
  <2>2. QED
    BY <2>1 DEF EvaluatingWell, EvaluatingOnce
<1>3. EvaluatedAreValued'
  BY <1>1 DEF EvaluatingWell, EvaluatedAreValued, Unvalued
<1>4. QED
  BY <1>1, <1>2, <1>3 DEF EvaluatingWell

(* The pile goes to the brokers.                                            *)
LEMMA SendPileMoves ==
    ASSUME TypeOK, EvaluatingWell, SendPile
    PROVE  EvaluatingWell' /\ Evaluating' = Evaluating
<1> DEFINE to(b) == {pile[i] : i \in {i \in DOMAIN pile : Turn(i - 1) = b}}
<1>1. /\ atBroker' = [b \in Brokers |-> atBroker[b] \cup to(b)]
      /\ pile' = <<>> /\ UNCHANGED <<results, batch, received, generated>>
  BY DEF SendPile, receiver, values, round
<1>2. /\ \A b \in Brokers : atBroker'[b] = atBroker[b] \cup to(b)
      /\ Range(pile') = {} /\ IsInjective(pile')
  BY <1>1 DEF Range, IsInjective
<1>3. \A p \in Range(pile) : \E b \in Brokers : p \in to(b)
  <2>1. \A i \in DOMAIN pile : Turn(i - 1) \in Brokers
    <3>1. NumBrokers \in Nat \ {0} /\ nextBroker \in Nat /\ DOMAIN pile = 1 .. Len(pile) /\ Len(pile) \in Nat
      BY SamplingAssumption, LenProperties DEF TypeOK, BrokersTypeOK, SharedTypeOK, Brokers
    <3>2. \A i \in DOMAIN pile : nextBroker + (i - 1) \in Nat
      BY <3>1
    <3>3. \A k \in Nat : k % NumBrokers \in 0 .. NumBrokers - 1
      BY <3>1
    <3>4. QED
      BY <3>2, <3>3 DEF Turn, Brokers
  <2>2. QED
    BY <2>1 DEF Range
<1>4. \A b \in Brokers : to(b) \subseteq Range(pile)
  BY DEF Range
<1>5. \A b, c \in Brokers : b # c => to(b) \cap to(c) = {}
  BY DEF EvaluatingWell, EvaluatingOnce, IsInjective
<1> HIDE DEF to
<1>6. Evaluating' = Evaluating
  <2>1. \A p \in Evaluating : p \in Evaluating'
    BY <1>1, <1>2, <1>3, EvaluatingMembers
  <2>2. \A p \in Evaluating' : p \in Evaluating
    BY <1>1, <1>2, <1>4, EvaluatingMembers
  <2>3. QED
    BY <2>1, <2>2
<1>7. EvaluatingOnce'
  <2>1. \A b \in Brokers : Range(pile) \cap atBroker[b] = {}
    BY DEF EvaluatingWell, EvaluatingOnce
  <2>2. \A b, c \in Brokers : b # c => atBroker'[b] \cap atBroker'[c] = {}
    BY <1>2, <1>4, <1>5, <2>1 DEF EvaluatingWell, EvaluatingOnce
  <2>3. QED
    BY <1>1, <1>2, <2>2 DEF EvaluatingWell, EvaluatingOnce
<1>8. EvaluatedAreValued'
  <2>1. Unvalued(Range(pile')) /\ \A b \in Brokers : Unvalued(atBroker'[b])
    BY <1>2, <1>4 DEF EvaluatingWell, EvaluatedAreValued, Unvalued
  <2>2. QED
    BY <1>1, <1>6, <2>1 DEF EvaluatingWell, EvaluatedAreValued
<1>9. QED
  BY <1>6, <1>7, <1>8 DEF EvaluatingWell

(* A broker gives one of its packages a value.                              *)
LEMMA EvaluateMoves ==
    ASSUME TypeOK, EvaluatingWell, OneValue, NEW b \in Brokers, Evaluate(b)
    PROVE  \E p \in Evaluating, q \in PackageType :
              /\ Same(p, q) /\ q \notin Evaluating /\ (IsRegular(q) => q.value = "value")
              /\ p.value = "none"
              /\ EvaluatingWell' /\ Evaluating' = (Evaluating \ {p}) \cup {q}
<1>1. PICK p \in atBroker[b], v \in {"value", "empty"} :
          /\ IsRegular(p) => v = "value"
          /\ atBroker' = [atBroker EXCEPT ![b] = @ \ {p}]
          /\ results' = [results EXCEPT ![b] = Append(@, [p EXCEPT !.value = v])]
  BY DEF Evaluate
<1> DEFINE q == [p EXCEPT !.value = v]
<1>2. p \in PackageType /\ p \in Evaluating /\ p.value = "none"
  BY EvaluatingTyped, EvaluatingMembers DEF EvaluatingWell, EvaluatedAreValued, Unvalued
<1>3. /\ q \in PackageType /\ Same(p, q) /\ q.value = v /\ q.value # "none"
      /\ IsRegular(q) => q.value = "value"
  <2>1. v \in {"none", "value", "empty"} /\ v # "none" /\ fault \in Faults
    BY DEF TypeOK
  <2>2. q \in PackageType /\ Same(p, q) /\ q.value = v
    <3>1. \A x \in PackageType : \A w \in {"none", "value", "empty"} :
              /\ [x EXCEPT !.value = w] \in PackageType /\ Same(x, [x EXCEPT !.value = w])
              /\ [x EXCEPT !.value = w].value = w
      BY DEF PackageType, Same
    <3>2. QED
      BY <1>2, <2>1, <3>1
  <2>3. IsRegular(q) => IsRegular(p)
    BY <2>2 DEF Same, IsRegular
  <2>4. QED
    BY <1>1, <2>1, <2>2, <2>3
<1>4. q \notin Evaluating
  BY <1>2, <1>3 DEF OneValue, OneOfEach, Places
<1> HIDE DEF q
<1>5. /\ \A c \in Brokers : atBroker'[c] = IF c = b THEN atBroker[c] \ {p} ELSE atBroker[c]
      /\ \A c \in Brokers : results'[c] = IF c = b THEN Append(results[c], q) ELSE results[c]
      /\ UNCHANGED <<pile, batch, received, generated>>
  BY <1>1 DEF TypeOK, BrokersTypeOK, Evaluate, receiver, values, round, q
<1>6. /\ Range(Append(results[b], q)) = Range(results[b]) \cup {q}
      /\ IsInjective(Append(results[b], q))
  <2>1. results[b] \in Seq(PackageType) /\ IsInjective(results[b]) /\ q \notin Range(results[b])
    BY <1>4, EvaluatingMembers DEF TypeOK, BrokersTypeOK, EvaluatingWell, EvaluatingOnce
  <2>2. QED
    BY <1>3, <2>1, AppendFacts
<1>7. \A c \in Brokers : /\ Range(results'[c]) = IF c = b THEN Range(results[c]) \cup {q} ELSE Range(results[c])
                         /\ IsInjective(results'[c])
  BY <1>5, <1>6 DEF EvaluatingWell, EvaluatingOnce
<1>8. Evaluating' = (Evaluating \ {p}) \cup {q}
  <2>1. p \notin Range(pile) /\ p \notin Range(batch)
        /\ \A c \in Brokers : (c # b => p \notin atBroker[c]) /\ p \notin Range(results[c])
    <3>1. p \notin Range(pile) /\ \A c \in Brokers : c # b => p \notin atBroker[c]
      BY DEF EvaluatingWell, EvaluatingOnce
    <3>2. p \notin Range(batch)
      BY <1>2 DEF EvaluatingWell, EvaluatedAreValued, HaveValues
    <3>3. \A c \in Brokers : p \notin Range(results[c])
      BY <1>2 DEF EvaluatingWell, EvaluatedAreValued, HaveValues
    <3>4. QED
      BY <3>1, <3>2, <3>3
  <2>2. \A x : x \in Evaluating' => x \in (Evaluating \ {p}) \cup {q}
    <3>1. \A x : \A c \in Brokers :
              /\ x \in atBroker'[c] => x \in atBroker[c] /\ x # p
              /\ x \in Range(results'[c]) => x = q \/ (x \in Range(results[c]) /\ x # p)
      <4>1. \A c \in Brokers : /\ c = b => atBroker'[c] = atBroker[c] \ {p}
                               /\ c # b => atBroker'[c] = atBroker[c] /\ p \notin atBroker[c]
        BY <1>5, <2>1
      <4>2. \A c \in Brokers : /\ p \notin Range(results[c])
                               /\ Range(results'[c]) \subseteq Range(results[c]) \cup {q}
        BY <1>7, <2>1
      <4>3. QED
        BY <4>1, <4>2
    <3>2. QED
      BY <1>5, <2>1, <3>1, EvaluatingMembers
  <2>3. \A x : x \in (Evaluating \ {p}) \cup {q} => x \in Evaluating'
    BY <1>5, <1>7, <2>1, EvaluatingMembers
  <2>4. QED
    BY <2>2, <2>3
<1>9. EvaluatingOnce'
  <2>1. \A c \in Brokers : q \notin Range(results[c]) /\ q \notin Range(batch)
    BY <1>4, EvaluatingMembers
  <2>2. \A c \in Brokers :
            /\ IsInjective(results'[c])
            /\ Range(pile') \cap atBroker'[c] = {} /\ Range(batch') \cap Range(results'[c]) = {}
    <3>1. \A c \in Brokers :
              Range(pile) \cap atBroker[c] = {} /\ Range(batch) \cap Range(results[c]) = {}
      BY DEF EvaluatingWell, EvaluatingOnce
    <3>2. \A c \in Brokers : atBroker'[c] \subseteq atBroker[c]
                             /\ Range(results'[c]) \subseteq Range(results[c]) \cup {q}
      BY <1>5, <1>7
    <3>3. pile' = pile /\ batch' = batch /\ \A c \in Brokers : IsInjective(results'[c])
      BY <1>5, <1>7
    <3>4. QED
      BY <2>1, <3>1, <3>2, <3>3
  <2>3. \A c, d \in Brokers : c # d => /\ atBroker'[c] \cap atBroker'[d] = {}
                                      /\ Range(results'[c]) \cap Range(results'[d]) = {}
    <3>1. \A c, d \in Brokers : c # d => /\ atBroker[c] \cap atBroker[d] = {}
                                        /\ Range(results[c]) \cap Range(results[d]) = {}
      BY DEF EvaluatingWell, EvaluatingOnce
    <3>2. QED
      <4>1. \A c \in Brokers : atBroker'[c] \subseteq atBroker[c]
        BY <1>5
      <4>2. \A c \in Brokers : /\ c = b => Range(results'[c]) = Range(results[c]) \cup {q}
                               /\ c # b => Range(results'[c]) = Range(results[c])
        BY <1>7
      <4>3. QED
        BY <2>1, <3>1, <4>1, <4>2
  <2>4. IsInjective(pile') /\ IsInjective(batch')
    BY <1>5 DEF EvaluatingWell, EvaluatingOnce
  <2>5. QED
    BY <2>2, <2>3, <2>4 DEF EvaluatingOnce
<1>10. EvaluatedAreValued'
  <2>1. Unvalued(Range(pile')) /\ \A c \in Brokers : Unvalued(atBroker'[c])
    BY <1>5 DEF EvaluatingWell, EvaluatedAreValued, Unvalued
  <2>2. /\ HaveValues(Range(batch'))
        /\ \A c \in Brokers : HaveValues(Range(results'[c]))
    BY <1>3, <1>5, <1>7 DEF EvaluatingWell, EvaluatedAreValued, HaveValues
  <2>3. \A x \in Evaluating' : /\ x.kind = "request" => x.id <= received
                               /\ x.kind = "speculative" => x.n <= generated
    BY <1>2, <1>3, <1>8 DEF EvaluatingWell, EvaluatedAreValued, Same
  <2>4. QED
    BY <1>5, <2>1, <2>2, <2>3 DEF EvaluatedAreValued
<1>11. QED
  BY <1>2, <1>3, <1>4, <1>8, <1>9, <1>10 DEF EvaluatingWell

(* The results of a broker are taken.                                       *)
LEMMA ReceiveResultsMoves ==
    ASSUME TypeOK, EvaluatingWell, ValuesInStep, ReceiveResults
    PROVE  EvaluatingWell' /\ Evaluating' = Evaluating
<1>1. /\ results' = [results EXCEPT ![vb] = <<>>] /\ batch' = results[vb] /\ batch = <<>>
      /\ UNCHANGED <<pile, atBroker, received, generated>> /\ vb \in Brokers
  BY DEF ReceiveResults, receiver, ValuesInStep, TypeOK, ValuesTypeOK
<1>2. \A c \in Brokers : results'[c] = IF c = vb THEN <<>> ELSE results[c]
  BY <1>1 DEF TypeOK, BrokersTypeOK
<1>3. /\ Range(<<>>) = {} /\ IsInjective(<<>>)
  BY DEF Range, IsInjective
<1>4. /\ \A c \in Brokers : /\ Range(results'[c]) = IF c = vb THEN {} ELSE Range(results[c])
                            /\ IsInjective(results'[c])
      /\ Range(batch) = {} /\ Range(batch') = Range(results[vb]) /\ IsInjective(batch')
  <2>1. \A c \in Brokers : IsInjective(results[c])
    BY DEF EvaluatingWell, EvaluatingOnce
  <2>2. \A c \in Brokers : c = vb => Range(results'[c]) = {} /\ IsInjective(results'[c])
    BY <1>2, <1>3
  <2>3. \A c \in Brokers : c # vb => results'[c] = results[c]
    BY <1>2
  <2>4. Range(batch) = {} /\ Range(batch') = Range(results[vb]) /\ IsInjective(batch')
    BY <1>1, <1>3, <2>1
  <2>5. QED
    BY <2>1, <2>2, <2>3, <2>4
<1>5. Evaluating' = Evaluating
  <2>1. \A x : x \in Evaluating' => x \in Evaluating
    BY <1>1, <1>4, EvaluatingMembers
  <2>2. \A x : x \in Evaluating => x \in Evaluating'
    BY <1>1, <1>4, EvaluatingMembers
  <2>3. QED
    BY <2>1, <2>2
<1>6. EvaluatingOnce'
  <2>1. \A c, d \in Brokers : c # d => /\ atBroker[c] \cap atBroker[d] = {}
                                      /\ Range(results[c]) \cap Range(results[d]) = {}
    BY DEF EvaluatingWell, EvaluatingOnce
  <2>2. \A c, d \in Brokers : c # d => Range(results'[c]) \cap Range(results'[d]) = {}
    BY <1>4, <2>1
  <2>3. \A c \in Brokers : Range(batch') \cap Range(results'[c]) = {}
    BY <1>1, <1>4, <2>1
  <2>4. IsInjective(pile) /\ \A c \in Brokers : Range(pile) \cap atBroker[c] = {}
    BY DEF EvaluatingWell, EvaluatingOnce
  <2>5. QED
    BY <1>1, <1>4, <2>1, <2>2, <2>3, <2>4 DEF EvaluatingOnce
<1>7. EvaluatedAreValued'
  <2>1. /\ HaveValues(Range(batch'))
        /\ \A c \in Brokers : HaveValues(Range(results'[c]))
    BY <1>1, <1>4 DEF EvaluatingWell, EvaluatedAreValued, HaveValues
  <2>2. QED
    BY <1>1, <1>5, <2>1 DEF EvaluatingWell, EvaluatedAreValued, Unvalued
<1>8. QED
  BY <1>5, <1>6, <1>7 DEF EvaluatingWell

(* The first result of the batch is taken.                                  *)
LEMMA ResultMoves ==
    ASSUME TypeOK, EvaluatingWell, Processing, batch' = Tail(batch),
           UNCHANGED <<pile, atBroker, results, received, generated>>
    PROVE  /\ Result \in Evaluating /\ Result \in PackageType
           /\ Result.value # "none" /\ (IsRegular(Result) => Result.value = "value")
           /\ EvaluatingWell' /\ Evaluating' = Evaluating \ {Result}
<1>1. /\ batch \in Seq(PackageType) /\ IsInjective(batch) /\ Result \in Range(batch)
      /\ Result \in PackageType /\ batch # <<>> /\ Result = Head(batch)
  BY ResultFacts DEF EvaluatingWell, EvaluatingOnce, TypeOK, ValuesTypeOK
<1>2. IsInjective(batch') /\ Range(batch') = Range(batch) \ {Result}
  BY <1>1, TailFacts
<1>3. Result \in Evaluating /\ Result.value # "none" /\ (IsRegular(Result) => Result.value = "value")
  BY <1>1, EvaluatingMembers DEF EvaluatingWell, EvaluatedAreValued, HaveValues
<1>4. Evaluating' = Evaluating \ {Result}
  <2>1. Result \notin Range(pile)
        /\ \A c \in Brokers : Result \notin atBroker[c] /\ Result \notin Range(results[c])
    BY <1>1, <1>3 DEF EvaluatingWell, EvaluatingOnce, EvaluatedAreValued, Unvalued, HaveValues
  <2>2. \A x : x \in Evaluating' => x \in Evaluating \ {Result}
    BY <1>2, <2>1, EvaluatingMembers
  <2>3. \A x : x \in Evaluating \ {Result} => x \in Evaluating'
    BY <1>2, EvaluatingMembers
  <2>4. QED
    BY <2>2, <2>3
<1>5. EvaluatingOnce'
  BY <1>2 DEF EvaluatingWell, EvaluatingOnce
<1>6. EvaluatedAreValued'
  BY <1>2, <1>4 DEF EvaluatingWell, EvaluatedAreValued, Unvalued, HaveValues
<1>7. QED
  BY <1>1, <1>3, <1>4, <1>5, <1>6 DEF EvaluatingWell

-----------------------------------------------------------------------------
(* From the receive pile to the hands of the sampling threads *)

(* Where a request may wait, one by one.                                    *)
LEMMA WaitingMembers ==
    /\ \A p : p \in Waiting <=>
           p \in Range(receivePile) \/ \E t \in Threads : p \in Hands(t)
    /\ \A p : p \in Waiting' <=>
           p \in Range(receivePile') \/ \E t \in Threads : p \in Hands(t)'
<1>1. ASSUME NEW p
      PROVE  p \in Waiting <=> p \in Range(receivePile) \/ \E t \in Threads : p \in Hands(t)
  <2>1. p \in UNION {Range(work[t]) : t \in Threads} <=> \E t \in Threads : p \in Range(work[t])
    OBVIOUS
  <2>2. p \in UNION {Range(held[t]) : t \in Threads} <=> \E t \in Threads : p \in Range(held[t])
    OBVIOUS
  <2>3. p \in Waiting <=> \/ p \in Range(receivePile)
                          \/ p \in UNION {Range(work[t]) : t \in Threads}
                          \/ p \in UNION {Range(held[t]) : t \in Threads}
    BY Zenon DEF Waiting
  <2>4. QED
    BY <2>1, <2>2, <2>3, Zenon DEF Hands
<1>2. ASSUME NEW p
      PROVE  p \in Waiting' <=> p \in Range(receivePile') \/ \E t \in Threads : p \in Hands(t)'
  <2>1. p \in UNION {Range(work'[t]) : t \in Threads} <=> \E t \in Threads : p \in Range(work'[t])
    OBVIOUS
  <2>2. p \in UNION {Range(held'[t]) : t \in Threads} <=> \E t \in Threads : p \in Range(held'[t])
    OBVIOUS
  <2>3. p \in Waiting' <=> \/ p \in Range(receivePile')
                           \/ p \in UNION {Range(work'[t]) : t \in Threads}
                           \/ p \in UNION {Range(held'[t]) : t \in Threads}
    BY Zenon DEF Waiting
  <2>4. QED
    BY <2>1, <2>2, <2>3, Zenon DEF Hands
<1>3. QED
  BY <1>1, <1>2
LEMMA WaitingTyped ==
    ASSUME TypeOK
    PROVE  Waiting \subseteq PackageType
<1>1. Range(receivePile) \subseteq PackageType
  BY RangeOfSeq DEF TypeOK, ReceiverTypeOK
<1>2. \A t \in Threads : Range(work[t]) \subseteq PackageType /\ Range(held[t]) \subseteq PackageType
  BY RangeOfSeq DEF TypeOK, SamplersTypeOK
<1>3. QED
  BY <1>1, <1>2, WaitingMembers DEF Hands

(* New requests on the receive pile.                                        *)
LEMMA ReceiveRequestsMoves ==
    ASSUME TypeOK, WaitingWell, ReceiveRequests
    PROVE  \E N \in SUBSET PackageType :
              /\ \A p \in N : p.kind = "request" /\ p.id > received /\ p.value = "none"
              /\ OneOfEach(N)
              /\ WaitingWell' /\ Waiting' = Waiting \cup N
<1>1. PICK k \in received + 1 .. sent :
          /\ receivePile' = receivePile \o RequestsFrom(received, k - received)
          /\ received' = k
  BY DEF ReceiveRequests, RequestsFrom
<1> DEFINE new == RequestsFrom(received, k - received)
           N == Range(new)
<1>2. received \in Nat /\ sent \in 0 .. NumRequests /\ NumRequests \in Nat /\ k - received \in Nat
  BY SamplingAssumption DEF TypeOK, AlgorithmTypeOK, ReceiverTypeOK
<1>3. \A i \in received + 1 .. received + (k - received) :
          Package(i, "request", 0) \in PackageType
  <2>1. \A i \in received + 1 .. received + (k - received) : i \in Requests
    BY <1>2 DEF Requests
  <2>2. QED
    BY <2>1, PackageFacts DEF TypeOK
<1>4. /\ new \in Seq(PackageType) /\ IsInjective(new)
      /\ \A p \in N : /\ p.id \in received + 1 .. received + (k - received)
                      /\ p.kind = "request" /\ p.n = 0 /\ p.value = "none"
  BY <1>2, <1>3, RequestsFromFacts
<1>5. N \subseteq PackageType
  BY <1>4, RangeOfSeq
<1> HIDE DEF new, N
<1>6. \A p \in N : /\ p.kind = "request" /\ p.id > received /\ p.value = "none"
                   /\ p.id <= received' /\ p.n = 0
  BY <1>1, <1>2, <1>4
<1>7. OneOfEach(N)
  <2>1. \A p \in PackageType : p = [id |-> p.id, kind |-> p.kind, n |-> p.n, value |-> p.value]
    BY DEF PackageType
  <2>2. ASSUME NEW p \in N, NEW q \in N, Same(p, q) PROVE p = q
    <3>1. p.id = q.id /\ p.kind = q.kind /\ p.n = q.n /\ p.value = q.value
      BY <1>6, <2>2 DEF Same
    <3>2. QED
      BY <1>5, <2>1, <3>1
  <2>3. QED
    BY <2>2 DEF OneOfEach
<1>8. UNCHANGED <<work, held, spc>>
  BY DEF ReceiveRequests, samplers
<1>9. \A p \in Waiting : p \notin N /\ p.kind = "request" /\ p.id <= received'
  <2>1. \A p \in Waiting : p \in PackageType /\ p.kind = "request" /\ p.id <= received
    BY WaitingTyped DEF WaitingWell, WaitingAreNew
  <2>2. \A p \in PackageType : p.id \in 0 .. NumRequests
    BY PackageFacts DEF TypeOK
  <2>3. \A p \in Waiting : p.id \in Nat /\ p.id <= received /\ p.kind = "request"
    BY <1>2, <2>1, <2>2
  <2>4. QED
    BY <1>1, <1>2, <1>6, <2>3
<1>10. /\ Range(receivePile') = Range(receivePile) \cup N
       /\ IsInjective(receivePile')
  <2>1. receivePile \in Seq(PackageType) /\ IsInjective(receivePile)
    BY DEF TypeOK, ReceiverTypeOK, WaitingWell, WaitingOnce
  <2>2. receivePile' = receivePile \o new
    BY <1>1 DEF new
  <2>3. Range(receivePile) \cap Range(new) = {}
    BY <1>9, WaitingMembers DEF N
  <2>4. QED
    BY <1>4, <2>1, <2>2, <2>3, ConcatFacts DEF N
<1>11. Waiting' = Waiting \cup N
  BY <1>8, <1>10, WaitingMembers DEF Hands
<1>12. WaitingOnce'
  <2>1. \A t \in Threads : Range(receivePile') \cap Hands(t) = {}
    BY <1>9, <1>10, WaitingMembers DEF WaitingWell, WaitingOnce
  <2>2. QED
    BY <1>8, <1>10, <2>1 DEF WaitingWell, WaitingOnce, Hands
<1>13. WaitingAreNew'
  BY <1>6, <1>8, <1>9, <1>10, <1>11 DEF WaitingWell, WaitingAreNew, Unvalued
<1>14. QED
  BY <1>5, <1>6, <1>7, <1>11, <1>12, <1>13 DEF WaitingWell

(* A thread takes requests from the receive pile, loses some or gets new    *)
(* ones in their place.                                                     *)
LEMMA HandsMove ==
    ASSUME TypeOK, WaitingWell, NEW t \in Threads, NEW A, NEW D,
           received' = received,
           \A u \in Threads \ {t} :
               work'[u] = work[u] /\ held'[u] = held[u] /\ spc'[u] = spc[u],
           IsInjective(receivePile'), IsInjective(work'[t]), IsInjective(held'[t]),
           Range(receivePile') \subseteq Range(receivePile),
           Range(receivePile') \cap Hands(t)' = {},
           Range(work'[t]) \cap Range(held'[t]) = {},
           Range(receivePile') \cup Hands(t)'
               = ((Range(receivePile) \cup Hands(t)) \ D) \cup A,
           D \subseteq Hands(t), A \cap Waiting = {},
           \A p \in A : p.kind = "request" /\ p.id <= received,
           Unvalued(Range(held'[t])),
           spc'[t] # "ship" => Unvalued(Range(work'[t])),
           spc'[t] = "ship" => Unvalued(Range(Tail(work'[t])))
    PROVE  WaitingWell' /\ Waiting' = (Waiting \ D) \cup A
<1>1. \A u \in Threads \ {t} : Hands(u)' = Hands(u)
  BY DEF Hands
<1>2. \A u \in Threads \ {t} : /\ Hands(t) \cap Hands(u) = {}
                               /\ Range(receivePile) \cap Hands(u) = {}
                               /\ A \cap Hands(u) = {}
  BY WaitingMembers DEF WaitingWell, WaitingOnce
<1>3. Waiting' = (Waiting \ D) \cup A
  <2>1. \A p : p \in Waiting' <=>
            \/ p \in Range(receivePile') \cup Hands(t)'
            \/ \E u \in Threads \ {t} : p \in Hands(u)
    BY <1>1, WaitingMembers
  <2>2. \A p : p \in Waiting <=>
            \/ p \in Range(receivePile) \cup Hands(t)
            \/ \E u \in Threads \ {t} : p \in Hands(u)
    BY WaitingMembers
  <2>3. \A u \in Threads \ {t} : D \cap Hands(u) = {}
    BY <1>2
  <2>4. QED
    BY <2>1, <2>2, <2>3
<1>4. WaitingAreNew'
  <2>1. \A p \in Waiting' : p.kind = "request" /\ p.id <= received'
    BY <1>3 DEF WaitingWell, WaitingAreNew
  <2>2. Unvalued(Range(receivePile'))
    BY DEF WaitingWell, WaitingAreNew, Unvalued
  <2>3. \A u \in Threads \ {t} :
            /\ Unvalued(Range(held'[u]))
            /\ spc'[u] # "ship" => Unvalued(Range(work'[u]))
            /\ spc'[u] = "ship" => Unvalued(Range(Tail(work'[u])))
    BY DEF WaitingWell, WaitingAreNew
  <2>4. QED
    BY <2>1, <2>2, <2>3 DEF WaitingAreNew, Unvalued
<1>5. WaitingOnce'
  <2>1. \A u \in Threads \ {t} : Hands(t)' \cap Hands(u)' = {}
    BY <1>1, <1>2
  <2>2. \A u \in Threads \ {t} : Range(receivePile') \cap Hands(u)' = {}
    BY <1>1, <1>2
  <2>3. \A u \in Threads \ {t} :
            /\ IsInjective(work'[u]) /\ IsInjective(held'[u])
            /\ Range(work'[u]) \cap Range(held'[u]) = {}
    BY DEF WaitingWell, WaitingOnce
  <2>4. \A u \in Threads \ {t}, v \in Threads \ {t} : u # v => Hands(u)' \cap Hands(v)' = {}
    BY <1>1 DEF WaitingWell, WaitingOnce
  <2>5. QED
    BY <2>1, <2>2, <2>3, <2>4 DEF WaitingOnce
<1>6. QED
  BY <1>3, <1>4, <1>5 DEF WaitingWell

LEMMA TakeWorkMoves ==
    ASSUME TypeOK, SamplersInStep, WaitingWell, NEW t \in Threads, TakeWork(t)
    PROVE  WaitingWell' /\ Waiting' = Waiting
<1>1. PICK n \in 0 .. Len(receivePile) :
          /\ work' = [work EXCEPT ![t] = Taken(t, n)]
          /\ receivePile' = SubSeq(receivePile, n + 1, Len(receivePile))
  BY ChunkTaken
<1> DEFINE chunk == SubSeq(receivePile, 1, n)
<1>2. /\ spc[t] = "take" /\ spc' = [spc EXCEPT ![t] = "work"] /\ held' = [held EXCEPT ![t] = <<>>]
      /\ received' = received
  BY DEF TakeWork, At, Goto
<1>3. /\ work'[t] = chunk \o held[t] /\ held'[t] = <<>> /\ spc'[t] = "work" /\ work[t] = <<>>
      /\ \A u \in Threads \ {t} : work'[u] = work[u] /\ held'[u] = held[u] /\ spc'[u] = spc[u]
  BY <1>1, <1>2 DEF TypeOK, SamplersTypeOK, SamplersInStep, Taken
<1>4. Range(<<>>) = {} /\ IsInjective(<<>>)
  BY DEF Range, IsInjective
<1>5. /\ receivePile \in Seq(PackageType) /\ held[t] \in Seq(PackageType)
      /\ IsInjective(receivePile) /\ IsInjective(held[t])
      /\ Range(receivePile) \cap Range(held[t]) = {}
      /\ Unvalued(Range(receivePile)) /\ Unvalued(Range(held[t]))
  BY DEF TypeOK, ReceiverTypeOK, SamplersTypeOK, WaitingWell, WaitingOnce, WaitingAreNew, Hands
<1>6. /\ chunk \in Seq(PackageType) /\ IsInjective(chunk)
      /\ IsInjective(receivePile') /\ Range(receivePile) = Range(chunk) \cup Range(receivePile')
      /\ Range(chunk) \cap Range(receivePile') = {}
  BY <1>1, <1>5, SplitFacts
<1> HIDE DEF chunk
<1>7. /\ Range(work'[t]) = Range(chunk) \cup Range(held[t])
      /\ IsInjective(work'[t])
  <2>1. Range(chunk) \cap Range(held[t]) = {}
    BY <1>5, <1>6
  <2>2. QED
    BY <1>3, <1>5, <1>6, <2>1, ConcatFacts
<1>8. Hands(t) = Range(held[t]) /\ Hands(t)' = Range(chunk) \cup Range(held[t])
  BY <1>3, <1>4, <1>7 DEF Hands
<1>9. Unvalued(Range(held'[t])) /\ Unvalued(Range(work'[t]))
  BY <1>3, <1>4, <1>5, <1>6, <1>7 DEF Unvalued
<1> DEFINE A == {}
           D == {}
<1>10. /\ Range(receivePile') \subseteq Range(receivePile)
       /\ Range(receivePile') \cap Hands(t)' = {}
       /\ Range(work'[t]) \cap Range(held'[t]) = {} /\ IsInjective(held'[t])
       /\ Range(receivePile') \cup Hands(t)' = ((Range(receivePile) \cup Hands(t)) \ D) \cup A
       /\ D \subseteq Hands(t) /\ A \cap Waiting = {}
       /\ \A p \in A : p.kind = "request" /\ p.id <= received
  BY <1>3, <1>4, <1>5, <1>6, <1>8
<1>11. Waiting = (Waiting \ D) \cup A
  OBVIOUS
<1> HIDE DEF A, D
<1>12. QED
  BY <1>2, <1>3, <1>6, <1>7, <1>9, <1>10, <1>11, HandsMove

LEMMA HoldBackMoves ==
    ASSUME TypeOK, SamplersInStep, WaitingWell, NEW t \in Threads, HoldBack(t)
    PROVE  WaitingWell' /\ Waiting' = Waiting
<1> DEFINE p == Head(work[t])
<1>1. /\ spc[t] = "work" /\ work[t] # <<>>
      /\ spc' = [spc EXCEPT ![t] = After(t, Tail(work[t]))]
      /\ held' = [held EXCEPT ![t] = Append(@, Head(work[t]))]
      /\ work' = [work EXCEPT ![t] = Tail(@)]
      /\ UNCHANGED <<received, receivePile>>
  BY DEF HoldBack, At, Goto, receiver
<1>2. After(t, Tail(work[t])) # "ship"
  BY DEF After
<1>3. /\ work'[t] = Tail(work[t]) /\ held'[t] = Append(held[t], p) /\ spc'[t] # "ship"
      /\ \A u \in Threads \ {t} : work'[u] = work[u] /\ held'[u] = held[u] /\ spc'[u] = spc[u]
  BY <1>1, <1>2 DEF TypeOK, SamplersTypeOK
<1>4. /\ work[t] \in Seq(PackageType) /\ held[t] \in Seq(PackageType)
      /\ IsInjective(work[t]) /\ IsInjective(held[t]) /\ IsInjective(receivePile)
      /\ Range(work[t]) \cap Range(held[t]) = {}
      /\ Range(receivePile) \cap Hands(t) = {}
      /\ Unvalued(Range(work[t])) /\ Unvalued(Range(held[t]))
  BY <1>1 DEF TypeOK, SamplersTypeOK, WaitingWell, WaitingOnce, WaitingAreNew
<1>5. /\ p \in Range(work[t]) /\ p \in PackageType
      /\ IsInjective(work'[t]) /\ Range(work'[t]) = Range(work[t]) \ {p}
  BY <1>1, <1>3, <1>4, TailFacts
<1> HIDE DEF p
<1>6. IsInjective(held'[t]) /\ Range(held'[t]) = Range(held[t]) \cup {p}
  <2>1. p \notin Range(held[t])
    BY <1>4, <1>5
  <2>2. QED
    BY <1>3, <1>4, <1>5, <2>1, AppendFacts
<1>7. Hands(t)' = Hands(t)
  BY <1>5, <1>6 DEF Hands
<1>8. Unvalued(Range(work'[t])) /\ Unvalued(Range(held'[t]))
  BY <1>4, <1>5, <1>6 DEF Unvalued
<1> DEFINE A == {}
           D == {}
<1>9. /\ Range(receivePile') \subseteq Range(receivePile)
      /\ Range(receivePile') \cap Hands(t)' = {} /\ IsInjective(receivePile')
      /\ Range(work'[t]) \cap Range(held'[t]) = {}
      /\ Range(receivePile') \cup Hands(t)' = ((Range(receivePile) \cup Hands(t)) \ D) \cup A
      /\ D \subseteq Hands(t) /\ A \cap Waiting = {}
      /\ \A x \in A : x.kind = "request" /\ x.id <= received
  BY <1>1, <1>4, <1>5, <1>6, <1>7
<1>10. Waiting = (Waiting \ D) \cup A
  OBVIOUS
<1> HIDE DEF A, D
<1>11. QED
  BY <1>1, <1>3, <1>5, <1>6, <1>8, <1>9, <1>10, HandsMove

(* The first package in a thread's work goes.                               *)
LEMMA WorkShrinks ==
    ASSUME TypeOK, SamplersInStep, WaitingWell, NEW t \in Threads, work[t] # <<>>,
           NEW place, place # "ship", spc' = [spc EXCEPT ![t] = place],
           work' = [work EXCEPT ![t] = Tail(@)],
           UNCHANGED <<received, receivePile, held>>
    PROVE  /\ Head(work[t]) \in Waiting /\ Head(work[t]) \in PackageType
           /\ WaitingWell' /\ Waiting' = Waiting \ {Head(work[t])}
<1> DEFINE p == Head(work[t])
<1>1. /\ work'[t] = Tail(work[t]) /\ held'[t] = held[t] /\ spc'[t] # "ship"
      /\ \A u \in Threads \ {t} : work'[u] = work[u] /\ held'[u] = held[u] /\ spc'[u] = spc[u]
  BY DEF TypeOK, SamplersTypeOK
<1>2. /\ work[t] \in Seq(PackageType)
      /\ IsInjective(work[t]) /\ IsInjective(held[t]) /\ IsInjective(receivePile)
      /\ Range(work[t]) \cap Range(held[t]) = {}
      /\ Range(receivePile) \cap Hands(t) = {}
      /\ Unvalued(Range(Tail(work[t]))) \/ Unvalued(Range(work[t]))
      /\ Unvalued(Range(held[t]))
  BY DEF TypeOK, SamplersTypeOK, WaitingWell, WaitingOnce, WaitingAreNew
<1>3. /\ p \in Range(work[t]) /\ p \in PackageType
      /\ IsInjective(work'[t]) /\ Range(work'[t]) = Range(work[t]) \ {p}
  BY <1>1, <1>2, TailFacts
<1> HIDE DEF p
<1>4. Unvalued(Range(work'[t]))
  BY <1>1, <1>2, <1>3 DEF Unvalued
<1>5. Hands(t)' = Hands(t) \ {p} /\ p \in Hands(t)
  BY <1>1, <1>2, <1>3 DEF Hands
<1> DEFINE A == {}
           D == {p}
<1>6. /\ Range(receivePile') \subseteq Range(receivePile)
      /\ Range(receivePile') \cap Hands(t)' = {} /\ IsInjective(receivePile')
      /\ Range(work'[t]) \cap Range(held'[t]) = {} /\ IsInjective(held'[t])
      /\ Range(receivePile') \cup Hands(t)' = ((Range(receivePile) \cup Hands(t)) \ D) \cup A
      /\ D \subseteq Hands(t) /\ A \cap Waiting = {}
      /\ \A x \in A : x.kind = "request" /\ x.id <= received
  BY <1>1, <1>2, <1>3, <1>5
<1>7. Waiting \ {p} = (Waiting \ D) \cup A /\ Unvalued(Range(held'[t])) /\ received' = received
  BY <1>1, <1>2
<1> HIDE DEF A, D
<1>8. WaitingWell' /\ Waiting' = (Waiting \ D) \cup A
  BY <1>1, <1>3, <1>4, <1>6, <1>7, HandsMove
<1>9. p \in Waiting
  BY <1>5, WaitingMembers
<1>10. QED
  BY <1>3, <1>7, <1>8, <1>9 DEF p

(* A request gets its value from the database.                              *)
LEMMA InterpolateMoves ==
    ASSUME TypeOK, SamplersInStep, WaitingWell, OneValue, NEW t \in Threads, Interpolate(t)
    PROVE  \E p \in Waiting, q \in PackageType :
              /\ Same(p, q) /\ q \notin Places /\ q.value = "value" /\ p.value = "none"
              /\ WaitingWell' /\ Waiting' = (Waiting \ {p}) \cup {q}
<1> DEFINE p == work[t][1]
           q == [work[t][1] EXCEPT !.value = "value"]
<1>1. /\ spc[t] = "work" /\ work[t] # <<>> /\ spc' = [spc EXCEPT ![t] = "ship"]
      /\ work' = [work EXCEPT ![t][1].value = "value"]
      /\ UNCHANGED <<received, receivePile, held>>
  BY DEF Interpolate, At, Goto, receiver
<1>2. /\ work'[t] = [work[t] EXCEPT ![1] = q] /\ held'[t] = held[t] /\ spc'[t] = "ship"
      /\ \A u \in Threads \ {t} : work'[u] = work[u] /\ held'[u] = held[u] /\ spc'[u] = spc[u]
  BY <1>1 DEF TypeOK, SamplersTypeOK
<1>3. /\ work[t] \in Seq(PackageType)
      /\ IsInjective(work[t]) /\ IsInjective(held[t]) /\ IsInjective(receivePile)
      /\ Range(work[t]) \cap Range(held[t]) = {}
      /\ Range(receivePile) \cap Hands(t) = {}
      /\ Unvalued(Range(work[t])) /\ Unvalued(Range(held[t]))
  BY <1>1 DEF TypeOK, SamplersTypeOK, WaitingWell, WaitingOnce, WaitingAreNew
<1>4. /\ p \in PackageType /\ p \in Range(work[t])
  BY <1>1, <1>3, TailFacts
<1>5. q \in PackageType /\ Same(p, q) /\ q.value = "value"
  BY <1>4 DEF PackageType, Same
<1> HIDE DEF q
<1>6. /\ Tail(work'[t]) = Tail(work[t])
      /\ Range(work'[t]) = {q} \cup Range(Tail(work[t]))
      /\ Range(work[t]) = {p} \cup Range(Tail(work[t]))
      /\ p \notin Range(Tail(work[t]))
      /\ q \notin Range(Tail(work[t])) => IsInjective(work'[t])
  <2>1. PICK s \in Seq(PackageType) : s = work[t]
    BY <1>3
  <2>2. /\ Tail([s EXCEPT ![1] = q]) = Tail(s)
        /\ Range([s EXCEPT ![1] = q]) = {q} \cup Range(Tail(s))
        /\ Range(s) = {s[1]} \cup Range(Tail(s))
        /\ s[1] \notin Range(Tail(s))
        /\ q \notin Range(Tail(s)) => IsInjective([s EXCEPT ![1] = q])
    <3>1. s # <<>> /\ IsInjective(s)
      BY <1>1, <1>3, <2>1
    <3>2. QED
      BY <1>5, <3>1, ReplaceFirst
  <2>3. work'[t] = [s EXCEPT ![1] = q] /\ p = s[1]
    BY <1>2, <2>1
  <2>4. QED
    BY <2>1, <2>2, <2>3
<1> HIDE DEF p
<1>7. p.value = "none" /\ p \in Hands(t) /\ p \in Waiting
  BY <1>3, <1>4, WaitingMembers DEF Unvalued, Hands
<1>8. q \notin Places
  BY <1>5, <1>7 DEF OneValue, OneOfEach, Places
<1>9. q \notin Waiting /\ q \notin Hands(t) /\ q \notin Range(receivePile)
  BY <1>8, WaitingMembers DEF Places
<1>10. Hands(t)' = (Hands(t) \ {p}) \cup {q} /\ IsInjective(work'[t])
  BY <1>2, <1>3, <1>6, <1>9 DEF Hands
<1> DEFINE A == {q}
           D == {p}
<1>11. Unvalued(Range(Tail(work'[t]))) /\ Unvalued(Range(held'[t]))
  BY <1>2, <1>3, <1>6 DEF Unvalued
<1>12. \A x \in A : x.kind = "request" /\ x.id <= received
  BY <1>5, <1>7 DEF Same, WaitingWell, WaitingAreNew
<1>13. /\ Range(receivePile') \subseteq Range(receivePile)
       /\ Range(receivePile') \cap Hands(t)' = {} /\ IsInjective(receivePile')
       /\ Range(work'[t]) \cap Range(held'[t]) = {} /\ IsInjective(held'[t])
       /\ Range(receivePile') \cup Hands(t)' = ((Range(receivePile) \cup Hands(t)) \ D) \cup A
       /\ D \subseteq Hands(t) /\ A \cap Waiting = {}
  <2>1. Range(receivePile') = Range(receivePile) /\ IsInjective(receivePile')
    BY <1>1, <1>3
  <2>2. Range(work'[t]) \cap Range(held'[t]) = {} /\ IsInjective(held'[t])
    BY <1>2, <1>3, <1>6, <1>9 DEF Hands
  <2>3. p \notin Range(receivePile)
    BY <1>3, <1>7
  <2>4. QED
    BY <1>3, <1>7, <1>9, <1>10, <2>1, <2>2, <2>3
<1> HIDE DEF A, D
<1>14. WaitingWell' /\ Waiting' = (Waiting \ D) \cup A
  BY <1>1, <1>2, <1>10, <1>11, <1>12, <1>13, HandsMove
<1>15. QED
  BY <1>5, <1>7, <1>8, <1>14 DEF A, D

-----------------------------------------------------------------------------
(* To the algorithm *)

(* What is shipped and was not before.                                      *)
LEMMA ShipMoves ==
    ASSUME TypeOK, ShippingWell, NEW p \in PackageType, Ship(p), received' = received,
           p.kind = "request", p.id <= received, p.value = "value",
           p \notin Range(answers) \cup undelivered, Range(current') = Range(current) \ {p}
    PROVE  ShippingWell' /\ Shipping' = Shipping \cup {p}
<1>1. answers \in Seq(PackageType) /\ IsInjective(answers)
  BY DEF TypeOK, AlgorithmTypeOK, ShippingWell, ShippingOnce
<1>2. /\ Range(Append(answers, p)) = Range(answers) \cup {p}
      /\ IsInjective(Append(answers, p))
  BY <1>1, AppendFacts
<1>3. /\ IsInjective(answers')
      /\ \/ Range(answers') = Range(answers) \cup {p} /\ undelivered' = undelivered
         \/ Range(answers') = Range(answers) /\ undelivered' = undelivered \cup {p}
  BY <1>1, <1>2 DEF Ship
<1>4. Shipping' = Shipping \cup {p}
  BY <1>3 DEF Shipping
<1>5. ShippingOnce'
  BY <1>3 DEF ShippingWell, ShippingOnce
<1>6. ShippingAreValued'
  BY <1>4 DEF ShippingWell, ShippingAreValued
<1>7. QED
  BY <1>4, <1>5, <1>6 DEF ShippingWell

(* A result to be shipped next.                                             *)
LEMMA CurrentMoves ==
    ASSUME TypeOK, ValuesInStep, ShippingWell, NEW p \in PackageType,
           vpc = "process", current' = <<p>>, UNCHANGED <<answers, undelivered, received>>,
           p.kind = "request", p.id <= received, p.value = "value", p \notin Shipping
    PROVE  ShippingWell' /\ Shipping' = Shipping \cup {p}
<1>1. Range(current') = {p} /\ Range(current) = {}
  BY DEF Range, ValuesInStep
<1>2. Shipping' = Shipping \cup {p}
  BY <1>1 DEF Shipping
<1>3. ShippingOnce'
  BY <1>1 DEF ShippingWell, ShippingOnce, Shipping
<1>4. ShippingAreValued'
  BY <1>2 DEF ShippingWell, ShippingAreValued
<1>5. QED
  BY <1>2, <1>3, <1>4 DEF ShippingWell
LEMMA ShipResultMoves ==
    ASSUME TypeOK, ValuesInStep, ShippingWell, ShipResult
    PROVE  ShippingWell' /\ Shipping' = Shipping
<1> DEFINE p == Head(current)
<1>1. /\ vpc = "ship" /\ Ship(p) /\ current' = <<>> /\ received' = received
  BY DEF ShipResult, receiver
<1>2. p \in PackageType /\ Range(current) = {p}
  BY <1>1, CurrentFacts
<1> HIDE DEF p
<1>3. Range(current') = Range(current) \ {p}
  BY <1>1, <1>2 DEF Range
<1>4. /\ p \in Shipping /\ p \notin Range(answers) \cup undelivered
      /\ p.kind = "request" /\ p.id <= received /\ p.value = "value"
  BY <1>2 DEF ShippingWell, ShippingOnce, ShippingAreValued, Shipping
<1>5. ShippingWell' /\ Shipping' = Shipping \cup {p}
  BY <1>1, <1>2, <1>3, <1>4, ShipMoves
<1>6. QED
  BY <1>4, <1>5
LEMMA ShippingTyped ==
    ASSUME TypeOK
    PROVE  Shipping \subseteq PackageType
BY RangeOfSeq DEF TypeOK, AlgorithmTypeOK, ValuesTypeOK, Shipping

(* Where nothing is taken or put, nothing changes.                          *)
LEMMA WaitingUntouched ==
    ASSUME WaitingWell, UNCHANGED <<received, receivePile, work, held>>,
           \A t \in Threads : spc'[t] # spc[t] =>
               spc[t] # "ship" /\ spc'[t] # "ship"
    PROVE  WaitingWell' /\ Waiting' = Waiting
<1>1. Waiting' = Waiting
  BY DEF Waiting
<1>2. WaitingOnce'
  BY DEF WaitingWell, WaitingOnce, Hands
<1>3. WaitingAreNew'
  BY <1>1 DEF WaitingWell, WaitingAreNew
<1>4. QED
  BY <1>1, <1>2, <1>3 DEF WaitingWell
LEMMA ShippingUntouched ==
    ASSUME TypeOK, ShippingWell, UNCHANGED <<answers, undelivered, current>>,
           received <= received', received' \in Nat
    PROVE  ShippingWell' /\ Shipping' = Shipping
<1>1. Shipping' = Shipping
  BY DEF Shipping
<1>2. ShippingOnce'
  BY DEF ShippingWell, ShippingOnce
<1>3. ShippingAreValued'
  <2>1. \A p \in PackageType : p.id \in 0 .. NumRequests
    BY PackageFacts DEF TypeOK
  <2>2. \A i \in 0 .. NumRequests : i \in Nat
    BY SamplingAssumption
  <2>3. \A p \in Shipping : p.id \in Nat
    BY <2>1, <2>2, ShippingTyped
  <2>4. received \in Nat
    BY SamplingAssumption DEF TypeOK, AlgorithmTypeOK, ReceiverTypeOK
  <2>5. QED
    BY <1>1, <2>3, <2>4 DEF ShippingWell, ShippingAreValued
<1>4. QED
  BY <1>1, <1>2, <1>3 DEF ShippingWell

-----------------------------------------------------------------------------
(* One package each *)

LEMMA OneOfEachFacts ==
    ASSUME NEW S, NEW T, OneOfEach(S)
    PROVE  /\ T \subseteq S => OneOfEach(T)
           /\ \A p \in S : \A q : Same(p, q) => OneOfEach((S \ {p}) \cup {q})
           /\ OneOfEach(T) /\ (\A p \in S, q \in T : ~Same(p, q)) => OneOfEach(S \cup T)
<1>1. T \subseteq S => OneOfEach(T)
  BY DEF OneOfEach
<1>2. ASSUME NEW p \in S, NEW q, Same(p, q)
      PROVE  OneOfEach((S \ {p}) \cup {q})
  <2>1. \A x \in S : Same(x, q) \/ Same(q, x) => x = p
    BY <1>2 DEF OneOfEach, Same
  <2>2. QED
    BY <2>1 DEF OneOfEach
<1>3. ASSUME OneOfEach(T), \A p \in S, q \in T : ~Same(p, q)
      PROVE  OneOfEach(S \cup T)
  <2>1. \A p \in S, q \in T : ~Same(q, p)
    BY <1>3 DEF Same
  <2>2. QED
    BY <1>3, <2>1 DEF OneOfEach
<1>4. QED
  BY <1>1, <1>2, <1>3

(* A step that tells the packages under evaluation nothing but for their    *)
(* places and values.                                                       *)
LEMMA SamplesUnderwayKept ==
    ASSUME NEW id,
           \A p : p.kind = "sample" =>
               (p \in Evaluating' \cup Range(extra') <=> p \in Evaluating \cup Range(extra))
    PROVE  SamplesUnderway(id)' = SamplesUnderway(id)
BY DEF SamplesUnderway

(* The stencils do not notice a step that leaves the map alone, and brings  *)
(* no new package of a stencil.                                             *)
LEMMA StencilsAside ==
    ASSUME StencilsWell, additional' = additional, Shipping \subseteq Shipping',
           IsInjective(extra'), Range(extra') \subseteq Range(extra),
           Range(extra') \cap Evaluating' = {},
           \A q \in Waiting' \cup Evaluating' :
               \/ q.id \notin DOMAIN additional
               \/ \E p \in Waiting \cup Evaluating \cup Range(extra) : Same(p, q),
           \A p \in Evaluating' : p.kind = "sample" => p.id \in DOMAIN additional,
           \A id \in DOMAIN additional :
               Cardinality(SamplesUnderway(id)') = Cardinality(SamplesUnderway(id))
    PROVE  StencilsWell'
<1>1. \A p \in Range(extra') :
          /\ p.kind = "sample" /\ p.id \in DOMAIN additional /\ p \notin Evaluating'
          /\ p.value = "none"
  BY DEF StencilsWell, StencilsOpen
<1>2. ASSUME NEW id \in DOMAIN additional
      PROVE  LET members == additional[id].members IN
             /\ members # <<>> /\ members[1] \in Shipping'
             /\ \A p \in Range(members) :
                 \A q \in Waiting' \cup Evaluating' \cup Range(extra') : ~Same(p, q)
             /\ \A p \in Waiting' \cup Evaluating' : p.kind = "request" => p.id # id
  <2> DEFINE members == additional[id].members
  <2>1. /\ members # <<>> /\ members[1] \in Shipping
        /\ \A p \in Range(members) :
            \A q \in Waiting \cup Evaluating \cup Range(extra) : ~Same(p, q)
        /\ \A p \in Waiting \cup Evaluating : p.kind = "request" => p.id # id
    BY <1>2 DEF StencilsWell, StencilsOpen
  <2>2. \A p \in Range(members) : p.id = id
    BY <1>2 DEF StencilsWell, StencilsTracked
  <2>3. \A p \in Range(extra) : p.kind = "sample"
    BY DEF StencilsWell, StencilsOpen
  <2> HIDE DEF members
  <2>4. ASSUME NEW p \in Range(members), NEW q \in Waiting' \cup Evaluating' \cup Range(extra'),
               Same(p, q)
        PROVE  FALSE
    <3>1. q.id = id
      BY <2>2, <2>4 DEF Same
    <3>2. PICK x \in Waiting \cup Evaluating \cup Range(extra) : x = q \/ Same(x, q)
      BY <1>2, <3>1
    <3>3. Same(p, x)
      BY <2>4, <3>2 DEF Same
    <3>4. QED
      BY <2>1, <3>3
  <2>5. ASSUME NEW q \in Waiting' \cup Evaluating', q.kind = "request", q.id = id
        PROVE  FALSE
    <3>1. PICK x \in Waiting \cup Evaluating \cup Range(extra) : Same(x, q)
      BY <1>2, <2>5
    <3>2. x.kind = "request" /\ x.id = id /\ x \notin Range(extra)
      BY <2>3, <2>5, <3>1 DEF Same
    <3>3. QED
      BY <2>1, <3>2
  <2>6. QED
    BY <2>1, <2>4, <2>5 DEF members
<1>3. StencilsOpen'
  BY <1>1, <1>2 DEF StencilsOpen
<1>4. StencilsTracked'
  BY DEF StencilsWell, StencilsTracked
<1>5. QED
  BY <1>3, <1>4 DEF StencilsWell

(* Nothing is put anywhere else.                                            *)
placed == <<received, generated, receivePile, work, held, pile, atBroker, results, batch,
            current, answers, undelivered, extra, additional>>
LEMMA PlacesUntouched ==
    ASSUME TypeOK, PackagesPlaced, StencilsWell, UNCHANGED placed,
           \A t \in Threads : spc'[t] # spc[t] => spc[t] # "ship" /\ spc'[t] # "ship"
    PROVE  PackagesPlaced' /\ StencilsWell' /\ Evaluating' = Evaluating
<1>1. received \in Nat /\ generated \in Nat /\ received <= received /\ generated <= generated
  BY SamplingAssumption DEF TypeOK, AlgorithmTypeOK, ReceiverTypeOK, SharedTypeOK
<1>2. WaitingWell' /\ Waiting' = Waiting
  BY WaitingUntouched DEF placed, PackagesPlaced
<1>3. EvaluatingWell' /\ Evaluating' = Evaluating
  BY <1>1, EvaluatingUntouched DEF placed, PackagesPlaced
<1>4. ShippingWell' /\ Shipping' = Shipping
  BY <1>1, ShippingUntouched DEF placed, PackagesPlaced
<1>5. OneValue'
  BY <1>2, <1>3, <1>4 DEF placed, PackagesPlaced, OneValue, Places
<1>6. \A id : SamplesUnderway(id)' = SamplesUnderway(id)
  BY <1>3 DEF placed, SamplesUnderway
<1>7. StencilsWell'
  <2>1. StencilsOpen'
    BY <1>2, <1>3, <1>4 DEF placed, StencilsWell, StencilsOpen
  <2>2. StencilsTracked'
    BY <1>3, <1>6 DEF placed, StencilsWell, StencilsTracked
  <2>3. QED
    BY <2>1, <2>2 DEF StencilsWell
<1>8. QED
  BY <1>2, <1>3, <1>4, <1>5, <1>7 DEF PackagesPlaced

-----------------------------------------------------------------------------
(* Counting *)

LEMMA CountingElements ==
    ASSUME NEW S, IsFiniteSet(S)
    PROVE  /\ Cardinality(S) \in Nat
           /\ \A p \in S : /\ IsFiniteSet(S \ {p})
                           /\ Cardinality(S \ {p}) = Cardinality(S) - 1
           /\ \A q : q \notin S => /\ IsFiniteSet(S \cup {q})
                                   /\ Cardinality(S \cup {q}) = Cardinality(S) + 1
           /\ \A p \in S : \A q : q \notin S => /\ IsFiniteSet((S \ {p}) \cup {q})
                                                /\ Cardinality((S \ {p}) \cup {q}) = Cardinality(S)
<1>1. Cardinality(S) \in Nat
  BY FS_CardinalityType
<1>2. ASSUME NEW p \in S
      PROVE  IsFiniteSet(S \ {p}) /\ Cardinality(S \ {p}) = Cardinality(S) - 1
  BY FS_RemoveElement
<1>3. ASSUME NEW q, q \notin S
      PROVE  IsFiniteSet(S \cup {q}) /\ Cardinality(S \cup {q}) = Cardinality(S) + 1
  BY <1>3, FS_AddElement
<1>4. ASSUME NEW p \in S, NEW q, q \notin S
      PROVE  IsFiniteSet((S \ {p}) \cup {q}) /\ Cardinality((S \ {p}) \cup {q}) = Cardinality(S)
  <2> DEFINE T == S \ {p}
  <2>1. IsFiniteSet(T) /\ Cardinality(T) = Cardinality(S) - 1 /\ q \notin T
    BY <1>2, <1>4
  <2> HIDE DEF T
  <2>2. IsFiniteSet(T \cup {q}) /\ Cardinality(T \cup {q}) = Cardinality(T) + 1
    BY <2>1, FS_AddElement
  <2>3. QED
    BY <1>1, <2>1, <2>2 DEF T
<1>5. QED
  BY <1>1, <1>2, <1>3, <1>4

(* The threads that have piled up a package and not counted it.             *)
CountingThreads == {t \in Threads : spc[t] = "count"}
LEMMA CountingThreadsFacts ==
    ASSUME TypeOK
    PROVE  /\ IsFiniteSet(CountingThreads) /\ Cardinality(CountingThreads) \in Nat
           /\ \A t \in Threads : spc[t] # "count" =>
                  Cardinality(CountingThreads) <= Cardinality(Threads) - 1
           /\ spc' = spc => CountingThreads' = CountingThreads
           /\ \A t \in Threads : \A place : spc' = [spc EXCEPT ![t] = place] =>
                  /\ spc[t] # "count" /\ place # "count" => CountingThreads' = CountingThreads
                  /\ spc[t] # "count" /\ place = "count" =>
                         /\ t \notin CountingThreads
                         /\ CountingThreads' = CountingThreads \cup {t}
                  /\ spc[t] = "count" /\ place # "count" =>
                         /\ t \in CountingThreads
                         /\ CountingThreads' = CountingThreads \ {t}
<1>1. IsFiniteSet(Threads) /\ CountingThreads \subseteq Threads
  BY SamplingAssumption DEF CountingThreads
<1>2. IsFiniteSet(CountingThreads) /\ Cardinality(CountingThreads) \in Nat
  BY <1>1, FS_Subset, FS_CardinalityType
<1>3. ASSUME NEW t \in Threads, spc[t] # "count"
      PROVE  Cardinality(CountingThreads) <= Cardinality(Threads) - 1
  <2>1. IsFiniteSet(Threads \ {t}) /\ Cardinality(Threads \ {t}) = Cardinality(Threads) - 1
    BY <1>1, CountingElements
  <2>2. CountingThreads \subseteq Threads \ {t}
    BY <1>3 DEF CountingThreads
  <2>3. QED
    BY <2>1, <2>2, FS_Subset
<1>4. spc' = spc => CountingThreads' = CountingThreads
  BY DEF CountingThreads
<1>5. ASSUME NEW t \in Threads, NEW place, spc' = [spc EXCEPT ![t] = place]
      PROVE  /\ spc[t] # "count" /\ place # "count" => CountingThreads' = CountingThreads
             /\ spc[t] # "count" /\ place = "count" =>
                    /\ t \notin CountingThreads
                    /\ CountingThreads' = CountingThreads \cup {t}
             /\ spc[t] = "count" /\ place # "count" =>
                    /\ t \in CountingThreads
                    /\ CountingThreads' = CountingThreads \ {t}
  <2>1. spc'[t] = place /\ \A u \in Threads \ {t} : spc'[u] = spc[u]
    BY <1>5 DEF TypeOK, SamplersTypeOK
  <2>2. QED
    BY <2>1 DEF CountingThreads
<1>6. QED
  BY <1>2, <1>3, <1>4, <1>5

(* The numbers the counters are compared with.                              *)
RequestsEvaluating == {p \in Evaluating : p.kind = "request"}
NumberRegular == Cardinality(RegularEvaluating)
NumberOfSpeculative == Cardinality(SpeculativeEvaluating)
NumberOfRequests == Cardinality(RequestsEvaluating)
LEMMA NumberFacts ==
    ASSUME IsFiniteSet(Evaluating)
    PROVE  /\ IsFiniteSet(RegularEvaluating) /\ NumberRegular \in Nat
           /\ IsFiniteSet(SpeculativeEvaluating) /\ NumberOfSpeculative \in Nat
           /\ IsFiniteSet(RequestsEvaluating) /\ NumberOfRequests \in Nat
           /\ NumberOfRequests <= NumberRegular
           /\ \A id : /\ IsFiniteSet(SamplesUnderway(id) \cap Evaluating)
<1>1. /\ RegularEvaluating \subseteq Evaluating /\ SpeculativeEvaluating \subseteq Evaluating
      /\ RequestsEvaluating \subseteq Evaluating /\ RequestsEvaluating \subseteq RegularEvaluating
      /\ \A id : SamplesUnderway(id) \cap Evaluating \subseteq Evaluating
  BY DEF RegularEvaluating, SpeculativeEvaluating, RequestsEvaluating, IsRegular
<1>2. \A S \in SUBSET Evaluating : IsFiniteSet(S)
  BY FS_Subset
<1>3. NumberOfRequests <= NumberRegular
  <2>1. IsFiniteSet(RegularEvaluating)
    BY <1>1, <1>2
  <2>2. QED
    BY <1>1, <2>1, FS_Subset DEF NumberOfRequests, NumberRegular
<1>4. QED
  BY <1>1, <1>2, <1>3, FS_CardinalityType DEF NumberRegular, NumberOfSpeculative, NumberOfRequests
LEMMA NumbersKept ==
    ASSUME Evaluating' = Evaluating
    PROVE  /\ RegularEvaluating' = RegularEvaluating /\ NumberRegular' = NumberRegular
           /\ SpeculativeEvaluating' = SpeculativeEvaluating
           /\ NumberOfSpeculative' = NumberOfSpeculative
           /\ RequestsEvaluating' = RequestsEvaluating /\ NumberOfRequests' = NumberOfRequests
BY DEF RegularEvaluating, SpeculativeEvaluating, RequestsEvaluating,
       NumberRegular, NumberOfSpeculative, NumberOfRequests

(* A package gets a value.                                                  *)
LEMMA NumbersAfterEvaluation ==
    ASSUME IsFiniteSet(Evaluating), NEW p \in Evaluating, NEW q, q \notin Evaluating,
           Same(p, q), Evaluating' = (Evaluating \ {p}) \cup {q}
    PROVE  /\ IsFiniteSet(Evaluating')
           /\ NumberRegular' = NumberRegular /\ NumberOfSpeculative' = NumberOfSpeculative
           /\ NumberOfRequests' = NumberOfRequests
<1>1. IsFiniteSet(Evaluating')
  BY CountingElements
<1>2. \/ /\ p \in RegularEvaluating /\ q \notin RegularEvaluating
         /\ RegularEvaluating' = (RegularEvaluating \ {p}) \cup {q}
      \/ RegularEvaluating' = RegularEvaluating
  BY DEF RegularEvaluating, IsRegular, Same
<1>3. \/ /\ p \in SpeculativeEvaluating /\ q \notin SpeculativeEvaluating
         /\ SpeculativeEvaluating' = (SpeculativeEvaluating \ {p}) \cup {q}
      \/ SpeculativeEvaluating' = SpeculativeEvaluating
  BY DEF SpeculativeEvaluating, IsRegular, Same
<1>4. \/ /\ p \in RequestsEvaluating /\ q \notin RequestsEvaluating
         /\ RequestsEvaluating' = (RequestsEvaluating \ {p}) \cup {q}
      \/ RequestsEvaluating' = RequestsEvaluating
  BY DEF RequestsEvaluating, Same
<1>5. NumberRegular' = NumberRegular
  <2>1. IsFiniteSet(RegularEvaluating)
    BY NumberFacts
  <2>2. \A x \in RegularEvaluating : \A y : y \notin RegularEvaluating =>
            Cardinality((RegularEvaluating \ {x}) \cup {y}) = Cardinality(RegularEvaluating)
    BY <2>1, CountingElements
  <2>3. QED
    BY <1>2, <2>2 DEF NumberRegular
<1>6. NumberOfSpeculative' = NumberOfSpeculative
  <2>1. IsFiniteSet(SpeculativeEvaluating)
    BY NumberFacts
  <2>2. \A x \in SpeculativeEvaluating : \A y : y \notin SpeculativeEvaluating =>
            Cardinality((SpeculativeEvaluating \ {x}) \cup {y}) = Cardinality(SpeculativeEvaluating)
    BY <2>1, CountingElements
  <2>3. QED
    BY <1>3, <2>2 DEF NumberOfSpeculative
<1>7. NumberOfRequests' = NumberOfRequests
  <2>1. IsFiniteSet(RequestsEvaluating)
    BY NumberFacts
  <2>2. \A x \in RequestsEvaluating : \A y : y \notin RequestsEvaluating =>
            Cardinality((RequestsEvaluating \ {x}) \cup {y}) = Cardinality(RequestsEvaluating)
    BY <2>1, CountingElements
  <2>3. QED
    BY <1>4, <2>2 DEF NumberOfRequests
<1>8. QED
  BY <1>1, <1>5, <1>6, <1>7

(* The value processing thread has a result.                                *)
LEMMA NumbersAfterResult ==
    ASSUME IsFiniteSet(Evaluating), NEW p \in Evaluating, Evaluating' = Evaluating \ {p}
    PROVE  /\ IsFiniteSet(Evaluating')
           /\ IsRegular(p) => /\ NumberRegular' = NumberRegular - 1
                              /\ NumberOfSpeculative' = NumberOfSpeculative
           /\ ~IsRegular(p) => /\ NumberRegular' = NumberRegular
                               /\ NumberOfSpeculative' = NumberOfSpeculative - 1
           /\ NumberOfRequests' \in Nat /\ NumberOfRequests' <= NumberOfRequests
<1>1. IsFiniteSet(Evaluating')
  BY CountingElements
<1>2. IsRegular(p) => /\ p \in RegularEvaluating /\ RegularEvaluating' = RegularEvaluating \ {p}
                      /\ SpeculativeEvaluating' = SpeculativeEvaluating
  BY DEF RegularEvaluating, SpeculativeEvaluating
<1>3. ~IsRegular(p) => /\ p \in SpeculativeEvaluating
                       /\ SpeculativeEvaluating' = SpeculativeEvaluating \ {p}
                       /\ RegularEvaluating' = RegularEvaluating
  BY DEF RegularEvaluating, SpeculativeEvaluating
<1>4. RequestsEvaluating' \subseteq RequestsEvaluating
  BY DEF RequestsEvaluating
<1>5. IsFiniteSet(RequestsEvaluating') /\ NumberOfRequests' <= NumberOfRequests
  BY <1>4, NumberFacts, FS_Subset DEF NumberOfRequests
<1>6. NumberOfRequests' \in Nat
  BY <1>5, FS_CardinalityType DEF NumberOfRequests
<1>7. ASSUME IsRegular(p)
      PROVE  NumberRegular' = NumberRegular - 1 /\ NumberOfSpeculative' = NumberOfSpeculative
  BY <1>2, <1>7, NumberFacts, CountingElements DEF NumberRegular, NumberOfSpeculative
<1>8. ASSUME ~IsRegular(p)
      PROVE  NumberRegular' = NumberRegular /\ NumberOfSpeculative' = NumberOfSpeculative - 1
  BY <1>3, <1>8, NumberFacts, CountingElements DEF NumberRegular, NumberOfSpeculative
<1>9. QED
  BY <1>1, <1>5, <1>6, <1>7, <1>8

(* New packages are piled up.                                               *)
LEMMA NumbersAfterPile ==
    ASSUME IsFiniteSet(Evaluating), NEW N, IsFiniteSet(N), N \cap Evaluating = {},
           Evaluating' = Evaluating \cup N
    PROVE  /\ IsFiniteSet(Evaluating')
           /\ (\A p \in N : IsRegular(p)) =>
                  /\ NumberRegular' = NumberRegular + Cardinality(N)
                  /\ NumberOfSpeculative' = NumberOfSpeculative
           /\ (\A p \in N : ~IsRegular(p)) =>
                  /\ NumberRegular' = NumberRegular
                  /\ NumberOfSpeculative' = NumberOfSpeculative + Cardinality(N)
           /\ (\A p \in N : p.kind # "request") => NumberOfRequests' = NumberOfRequests
           /\ NumberOfRequests' \in Nat /\ NumberOfRequests' <= NumberRegular'
<1>1. \A S \in SUBSET Evaluating :
          /\ IsFiniteSet(S) => Cardinality(S \cup N) = Cardinality(S) + Cardinality(N)
  <2>1. ASSUME NEW S \in SUBSET Evaluating, IsFiniteSet(S)
        PROVE  Cardinality(S \cup N) = Cardinality(S) + Cardinality(N)
    <3>1. S \cap N = {}
      OBVIOUS
    <3>2. Cardinality(S \cup N) = Cardinality(S) + Cardinality(N) - Cardinality(S \cap N)
      BY <2>1, FS_Union
    <3>3. Cardinality(S \cap N) = 0 /\ Cardinality(S) \in Nat /\ Cardinality(N) \in Nat
      BY <2>1, <3>1, FS_EmptySet, FS_CardinalityType
    <3>4. QED
      BY <3>2, <3>3
  <2>2. QED
    BY <2>1
<1>2. IsFiniteSet(Evaluating')
  BY FS_Union
<1>3. /\ RegularEvaluating \subseteq Evaluating /\ SpeculativeEvaluating \subseteq Evaluating
  BY DEF RegularEvaluating, SpeculativeEvaluating
<1>4. ASSUME \A p \in N : IsRegular(p)
      PROVE  /\ NumberRegular' = NumberRegular + Cardinality(N)
             /\ NumberOfSpeculative' = NumberOfSpeculative
  <2>1. RegularEvaluating' = RegularEvaluating \cup N /\ SpeculativeEvaluating' = SpeculativeEvaluating
    BY <1>4 DEF RegularEvaluating, SpeculativeEvaluating
  <2>2. QED
    BY <1>1, <1>3, <2>1, NumberFacts DEF NumberRegular, NumberOfSpeculative
<1>5. ASSUME \A p \in N : ~IsRegular(p)
      PROVE  /\ NumberRegular' = NumberRegular
             /\ NumberOfSpeculative' = NumberOfSpeculative + Cardinality(N)
  <2>1. SpeculativeEvaluating' = SpeculativeEvaluating \cup N /\ RegularEvaluating' = RegularEvaluating
    BY <1>5 DEF RegularEvaluating, SpeculativeEvaluating
  <2>2. QED
    BY <1>1, <1>3, <2>1, NumberFacts DEF NumberRegular, NumberOfSpeculative
<1>6. ASSUME \A p \in N : p.kind # "request" PROVE NumberOfRequests' = NumberOfRequests
  <2>1. RequestsEvaluating' = RequestsEvaluating
    BY <1>6 DEF RequestsEvaluating
  <2>2. QED
    BY <2>1 DEF NumberOfRequests
<1>7. NumberOfRequests' \in Nat /\ NumberOfRequests' <= NumberRegular'
  <2>1. /\ RequestsEvaluating' \subseteq RegularEvaluating' /\ RegularEvaluating' \subseteq Evaluating'
    BY DEF RequestsEvaluating, RegularEvaluating, IsRegular
  <2>2. IsFiniteSet(RegularEvaluating')
    BY <1>2, <2>1, FS_Subset
  <2>3. IsFiniteSet(RequestsEvaluating') /\ NumberOfRequests' <= NumberRegular'
    BY <2>1, <2>2, FS_Subset DEF NumberOfRequests, NumberRegular
  <2>4. QED
    BY <2>3, FS_CardinalityType DEF NumberOfRequests
<1>8. QED
  BY <1>2, <1>4, <1>5, <1>6, <1>7

(* What the counter of evaluations says, and that of the speculative ones.  *)
Balance == (numberEvaluations + Cardinality(CountingThreads)) - (completed + Len(extra))
SpeculativeBalance == (numberSpeculative + uncounted[First]) - completedSpeculative
LEMMA BalanceFacts ==
    ASSUME TypesAndPlaces
    PROVE  /\ numberEvaluations \in Int /\ numberSpeculative \in Int
           /\ uncounted[First] \in Nat /\ completed \in Nat /\ completedSpeculative \in Nat
           /\ Len(extra) \in Nat /\ Cardinality(CountingThreads) \in Nat
           /\ EvaluationLimit \in Nat /\ Cardinality(Threads) \in Nat
           /\ Balance \in Int /\ SpeculativeBalance \in Int
<1>1. /\ numberEvaluations \in Int /\ numberSpeculative \in Int
      /\ uncounted[First] \in Nat /\ completed \in Nat /\ completedSpeculative \in Nat
      /\ Len(extra) \in Nat /\ EvaluationLimit \in Nat
  BY SamplingAssumption DEF TypesAndPlaces, TypeOK, SharedTypeOK, SamplersTypeOK, ValuesTypeOK
<1>2. Cardinality(CountingThreads) \in Nat /\ Cardinality(Threads) \in Nat
  BY CountingThreadsFacts, SamplingAssumption, FS_CardinalityType DEF TypesAndPlaces
<1>3. QED
  BY <1>1, <1>2 DEF Balance, SpeculativeBalance
LEMMA BalanceFactsAfter ==
    ASSUME TypesAndPlaces'
    PROVE  /\ numberEvaluations' \in Int /\ numberSpeculative' \in Int
           /\ uncounted'[First] \in Nat /\ completed' \in Nat /\ completedSpeculative' \in Nat
           /\ Len(extra') \in Nat /\ Cardinality(CountingThreads') \in Nat
           /\ Balance' \in Int /\ SpeculativeBalance' \in Int
<1>1. /\ numberEvaluations' \in Int /\ numberSpeculative' \in Int
      /\ uncounted'[First] \in Nat /\ completed' \in Nat /\ completedSpeculative' \in Nat
      /\ Len(extra') \in Nat
  BY SamplingAssumption DEF TypesAndPlaces, TypeOK, SharedTypeOK, SamplersTypeOK, ValuesTypeOK
<1>2. CountingThreads' \subseteq Threads
  BY DEF CountingThreads
<1>3. Cardinality(CountingThreads') \in Nat
  BY <1>2, SamplingAssumption, FS_Subset, FS_CardinalityType
<1>4. QED
  BY <1>1, <1>3 DEF Balance, SpeculativeBalance

(* When they say what there is before a step, and the step adds as much to  *)
(* the one as to the other, they do afterwards.                             *)
LEMMA CountersInStep ==
    ASSUME TypesAndPlaces, TypesAndPlaces', EvaluationsWell, IsFiniteSet(Evaluating'),
           Balance' - Balance = NumberRegular' - NumberRegular,
           SpeculativeBalance' - SpeculativeBalance = NumberOfSpeculative' - NumberOfSpeculative,
           numberSpeculative' + uncounted'[First] <= EvaluationLimit,
           NumberOfRequests' <= EvaluationLimit + Cardinality(Threads) - 1
    PROVE  EvaluationsWell'
<1>1. /\ NumberRegular \in Nat /\ NumberOfSpeculative \in Nat
  BY NumberFacts DEF EvaluationsWell
<1>2. NumberRegular' \in Nat /\ NumberOfSpeculative' \in Nat
  <2>1. RegularEvaluating' \subseteq Evaluating' /\ SpeculativeEvaluating' \subseteq Evaluating'
    BY DEF RegularEvaluating, SpeculativeEvaluating
  <2>2. QED
    BY <2>1, FS_Subset, FS_CardinalityType DEF NumberRegular, NumberOfSpeculative
<1>3. Balance = NumberRegular /\ SpeculativeBalance = NumberOfSpeculative
  <2>1. /\ numberEvaluations + Cardinality(CountingThreads) = NumberRegular + completed + Len(extra)
        /\ numberSpeculative + uncounted[First] = NumberOfSpeculative + completedSpeculative
    BY DEF EvaluationsWell, EvaluationsCounted, SpeculationCounted, NumberRegular,
           NumberOfSpeculative, CountingThreads
  <2>2. QED
    <3>1. /\ numberEvaluations \in Int /\ Cardinality(CountingThreads) \in Nat
          /\ completed \in Nat /\ Len(extra) \in Nat
      BY BalanceFacts
    <3>2. /\ numberSpeculative \in Int /\ uncounted[First] \in Nat
          /\ completedSpeculative \in Nat
      BY BalanceFacts
    <3>3. Balance = NumberRegular
      BY <1>1, <2>1, <3>1 DEF Balance
    <3>4. SpeculativeBalance = NumberOfSpeculative
      BY <1>1, <2>1, <3>2 DEF SpeculativeBalance
    <3>5. QED
      BY <3>3, <3>4
<1>4. Balance' = NumberRegular' /\ SpeculativeBalance' = NumberOfSpeculative'
  <2>1. Balance' \in Int /\ SpeculativeBalance' \in Int
    BY BalanceFactsAfter
  <2>2. Balance' = NumberRegular'
    BY <1>1, <1>2, <1>3, <2>1
  <2>3. SpeculativeBalance' = NumberOfSpeculative'
    BY <1>1, <1>2, <1>3, <2>1
  <2>4. QED
    BY <2>2, <2>3
<1>5. numberEvaluations' + Cardinality(CountingThreads') = NumberRegular' + completed' + Len(extra')
  <2>1. /\ numberEvaluations' \in Int /\ completed' \in Nat
        /\ Len(extra') \in Nat /\ Cardinality(CountingThreads') \in Nat
    BY BalanceFactsAfter
  <2>2. (numberEvaluations' + Cardinality(CountingThreads')) - (completed' + Len(extra'))
            = NumberRegular'
    BY <1>4 DEF Balance
  <2> DEFINE a == numberEvaluations'
             b == Cardinality(CountingThreads')
             c == completed'
             d == NumberRegular'
             e == Len(extra')
  <2>3. a \in Int /\ b \in Int /\ c \in Int /\ d \in Int /\ e \in Int /\ (a + b) - (c + e) = d
    BY <1>2, <2>1, <2>2
  <2> HIDE DEF a, b, c, d, e
  <2>4. a + b = d + c + e
    BY <2>3
  <2>5. QED
    BY <2>4 DEF a, b, c, d, e
<1>6. numberSpeculative' + uncounted'[First] = NumberOfSpeculative' + completedSpeculative'
  BY <1>2, <1>4, BalanceFactsAfter DEF SpeculativeBalance
<1>7. EvaluationsCounted' /\ SpeculationCounted'
  BY <1>5, <1>6 DEF EvaluationsCounted, SpeculationCounted, NumberRegular, NumberOfSpeculative,
                    CountingThreads
<1>8. LimitKept'
  BY DEF LimitKept, NumberOfRequests, RequestsEvaluating
<1>9. QED
  BY <1>7, <1>8 DEF EvaluationsWell

(* No counter is touched, and nothing is piled up or finished.              *)
counted == <<numberEvaluations, numberSpeculative, uncounted, completed, completedSpeculative, extra>>
LEMMA CountersUntouched ==
    ASSUME TypesAndPlaces, EvaluationsWell, UNCHANGED counted
    PROVE  /\ CountingThreads' = CountingThreads =>
                  Balance' = Balance
           /\ SpeculativeBalance' = SpeculativeBalance
           /\ numberSpeculative' + uncounted'[First] <= EvaluationLimit
BY DEF counted, Balance, SpeculativeBalance, EvaluationsWell, SpeculationCounted

(* Nothing is evaluated that was not, and the counters agree.               *)
LEMMA EvaluationsAside ==
    ASSUME TypesAndPlaces, TypesAndPlaces', EvaluationsWell, Evaluating' = Evaluating,
           Balance' = Balance, SpeculativeBalance' = SpeculativeBalance,
           numberSpeculative' + uncounted'[First] <= EvaluationLimit
    PROVE  EvaluationsWell'
<1>1. /\ NumberRegular' = NumberRegular /\ NumberOfSpeculative' = NumberOfSpeculative
      /\ NumberOfRequests' = NumberOfRequests
  BY NumbersKept
<1>2. IsFiniteSet(Evaluating') /\ NumberRegular \in Nat /\ NumberOfSpeculative \in Nat
  BY NumberFacts DEF EvaluationsWell
<1>3. NumberOfRequests' <= EvaluationLimit + Cardinality(Threads) - 1
  BY <1>1 DEF EvaluationsWell, LimitKept, NumberOfRequests, RequestsEvaluating
<1>4. /\ Balance' - Balance = NumberRegular' - NumberRegular
      /\ SpeculativeBalance' - SpeculativeBalance = NumberOfSpeculative' - NumberOfSpeculative
  BY <1>1, <1>2, BalanceFacts
<1>5. QED
  BY <1>2, <1>3, <1>4, CountersInStep

(* A step that moves nothing.                                               *)
LEMMA NothingMoves ==
    ASSUME SamplingInvariant, TypesAndPlaces', UNCHANGED placed,
           \A t \in Threads : spc'[t] # spc[t] => spc[t] # "ship" /\ spc'[t] # "ship",
           Balance' = Balance, SpeculativeBalance' = SpeculativeBalance,
           numberSpeculative' + uncounted'[First] <= EvaluationLimit
    PROVE  PackagesWell'
<1>1. PackagesPlaced' /\ StencilsWell' /\ Evaluating' = Evaluating
  BY PlacesUntouched DEF SamplingInvariant, PackagesWell, TypesAndPlaces
<1>2. EvaluationsWell'
  BY <1>1, EvaluationsAside DEF SamplingInvariant, PackagesWell
<1>3. QED
  BY <1>1, <1>2 DEF PackagesWell

-----------------------------------------------------------------------------
(* The steps that move nothing *)

LEMMA NothingCounted ==
    ASSUME SamplingInvariant, TypesAndPlaces', UNCHANGED placed, UNCHANGED counted,
           CountingThreads' = CountingThreads,
           \A t \in Threads : spc'[t] # spc[t] => spc[t] # "ship" /\ spc'[t] # "ship"
    PROVE  PackagesWell'
<1>1. /\ Balance' = Balance /\ SpeculativeBalance' = SpeculativeBalance
      /\ numberSpeculative' + uncounted'[First] <= EvaluationLimit
  BY CountersUntouched DEF SamplingInvariant, PackagesWell
<1>2. QED
  BY <1>1, NothingMoves
LEMMA OutsideKept ==
    ASSUME SamplingInvariant, TypesAndPlaces',
           \/ SendRequest \/ Leave \/ ReceiveTermination \/ EndEvaluation
           \/ ReceiveNoResults \/ ReceiveKills \/ EndValueProcessing
           \/ \E b \in Brokers : BrokerEnds(b)
    PROVE  PackagesWell'
<1> USE DEF algorithm, receiver, samplers, counters, sender, outcome, brokers, round, values
<1>1. UNCHANGED placed /\ UNCHANGED counted /\ spc' = spc
  <2>1. CASE SendRequest
    BY <2>1 DEF SendRequest, placed, counted
  <2>2. CASE Leave
    BY <2>2 DEF Leave, placed, counted
  <2>3. CASE ReceiveTermination
    BY <2>3 DEF ReceiveTermination, placed, counted
  <2>4. CASE EndEvaluation
    BY <2>4 DEF EndEvaluation, placed, counted
  <2>5. CASE ReceiveNoResults
    BY <2>5 DEF ReceiveNoResults, placed, counted
  <2>6. CASE ReceiveKills
    BY <2>6 DEF ReceiveKills, placed, counted
  <2>7. CASE EndValueProcessing
    BY <2>7 DEF EndValueProcessing, placed, counted
  <2>8. CASE \E b \in Brokers : BrokerEnds(b)
    BY <2>8 DEF BrokerEnds, placed, counted
  <2>9. QED
    BY <2>1, <2>2, <2>3, <2>4, <2>5, <2>6, <2>7, <2>8
<1>2. CountingThreads' = CountingThreads
  BY <1>1 DEF CountingThreads
<1>3. QED
  BY <1>1, <1>2, NothingCounted
LEMMA ThreadsWaitKept ==
    ASSUME SamplingInvariant, TypesAndPlaces', NEW t \in Threads,
           GenerateNothing(t) \/ EndSampling(t)
    PROVE  PackagesWell'
<1> USE DEF algorithm, receiver, counters, sender, outcome, brokers, round, values
<1>1. TypeOK
  BY DEF SamplingInvariant, TypesAndPlaces
<1>2. \E place \in {"take", "done"} :
          /\ spc[t] \in {"take", "work"} /\ spc' = [spc EXCEPT ![t] = place]
          /\ UNCHANGED placed /\ UNCHANGED counted
  <2>1. CASE GenerateNothing(t)
    BY <2>1 DEF GenerateNothing, At, Goto, placed, counted
  <2>2. CASE EndSampling(t)
    BY <2>2 DEF EndSampling, At, Goto, placed, counted
  <2>3. QED
    BY <2>1, <2>2
<1>3. PICK place \in {"take", "done"} :
          /\ spc[t] \in {"take", "work"} /\ spc' = [spc EXCEPT ![t] = place]
          /\ UNCHANGED placed /\ UNCHANGED counted
  BY <1>2
<1>4. CountingThreads' = CountingThreads
  BY <1>1, <1>3, CountingThreadsFacts
<1>5. \A u \in Threads : spc'[u] # spc[u] => spc[u] # "ship" /\ spc'[u] # "ship"
  BY <1>1, <1>3 DEF TypeOK, SamplersTypeOK
<1>6. QED
  BY <1>3, <1>4, <1>5, NothingCounted

(* What a thread has piled up it counts.                                    *)
LEMMA CountEvaluationKept ==
    ASSUME SamplingInvariant, TypesAndPlaces', NEW t \in Threads, CountEvaluation(t)
    PROVE  PackagesWell'
<1>1. TypeOK /\ EvaluationsWell /\ TypesAndPlaces
  BY DEF SamplingInvariant, PackagesWell, TypesAndPlaces
<1> DEFINE place == After(t, work[t])
<1>2. /\ spc[t] = "count" /\ spc' = [spc EXCEPT ![t] = place]
      /\ numberEvaluations' = numberEvaluations + 1
      /\ UNCHANGED placed
      /\ UNCHANGED <<numberSpeculative, uncounted, completed, completedSpeculative, extra>>
  BY DEF CountEvaluation, At, Goto, placed, algorithm, receiver, brokers, values, round
<1>3. place \in {"take", "work"}
  BY DEF After
<1> HIDE DEF place
<1>4. t \in CountingThreads /\ CountingThreads' = CountingThreads \ {t}
  BY <1>1, <1>2, <1>3, CountingThreadsFacts
<1>5. Cardinality(CountingThreads') = Cardinality(CountingThreads) - 1
  BY <1>1, <1>4, CountingThreadsFacts, CountingElements
<1>6. Balance' = Balance
  BY <1>1, <1>2, <1>5, BalanceFacts DEF Balance
<1>7. /\ SpeculativeBalance' = SpeculativeBalance
      /\ numberSpeculative' + uncounted'[First] <= EvaluationLimit
  BY <1>1, <1>2 DEF SpeculativeBalance, EvaluationsWell, SpeculationCounted
<1>8. \A u \in Threads : spc'[u] # spc[u] => spc[u] # "ship" /\ spc'[u] # "ship"
  BY <1>1, <1>2, <1>3 DEF TypeOK, SamplersTypeOK
<1>9. QED
  BY <1>2, <1>6, <1>7, <1>8, NothingMoves
LEMMA CountSpeculativeKept ==
    ASSUME SamplingInvariant, TypesAndPlaces', NEW t \in Threads, CountSpeculative(t)
    PROVE  PackagesWell'
<1>1. TypeOK /\ EvaluationsWell /\ TypesAndPlaces
  BY DEF SamplingInvariant, PackagesWell, TypesAndPlaces
<1>2. /\ spc[t] = "countSpeculative" /\ spc' = [spc EXCEPT ![t] = "take"]
      /\ numberSpeculative' = numberSpeculative + uncounted[t]
      /\ uncounted' = [uncounted EXCEPT ![t] = 0]
      /\ UNCHANGED placed
      /\ UNCHANGED <<numberEvaluations, completed, completedSpeculative, extra>>
  BY DEF CountSpeculative, At, Goto, placed, algorithm, receiver, brokers, values, round
<1>3. t = First /\ uncounted[First] \in Nat /\ uncounted'[First] = 0
  BY <1>1, <1>2 DEF TypesAndPlaces, SamplersInStep, TypeOK, SamplersTypeOK
<1>4. CountingThreads' = CountingThreads
  BY <1>1, <1>2, CountingThreadsFacts
<1>5. Balance' = Balance
  BY <1>2, <1>4 DEF Balance
<1>6. numberSpeculative' + uncounted'[First] = numberSpeculative + uncounted[First]
  BY <1>1, <1>2, <1>3, BalanceFacts
<1>7. /\ SpeculativeBalance' = SpeculativeBalance
      /\ numberSpeculative' + uncounted'[First] <= EvaluationLimit
  <2>1. numberSpeculative + uncounted[First] <= EvaluationLimit
    BY <1>1 DEF EvaluationsWell, SpeculationCounted
  <2>2. completedSpeculative' = completedSpeculative
    BY <1>2
  <2>3. QED
    <3>1. SpeculativeBalance' = SpeculativeBalance
      BY <1>6, <2>2 DEF SpeculativeBalance
    <3>2. numberSpeculative' + uncounted'[First] <= EvaluationLimit
      BY <1>6, <2>1, Zenon
    <3>3. QED
      BY <3>1, <3>2
<1>8. \A u \in Threads : spc'[u] # spc[u] => spc[u] # "ship" /\ spc'[u] # "ship"
  BY <1>1, <1>2 DEF TypeOK, SamplersTypeOK
<1>9. QED
  BY <1>2, <1>5, <1>7, <1>8, NothingMoves

(* What the batch brought is taken off the counters.                        *)
LEMMA CountResultsKept ==
    ASSUME SamplingInvariant, TypesAndPlaces', CountResults
    PROVE  PackagesWell'
<1>1. EvaluationsWell /\ TypesAndPlaces
  BY DEF SamplingInvariant, PackagesWell
<1>2. /\ numberEvaluations' = numberEvaluations - completed /\ completed' = 0
      /\ spc' = spc /\ UNCHANGED placed
      /\ UNCHANGED <<numberSpeculative, uncounted, completedSpeculative, extra>>
  BY DEF CountResults, RegularResults, placed, algorithm, receiver, samplers, brokers
<1>3. CountingThreads' = CountingThreads
  BY <1>2 DEF CountingThreads
<1>4. Balance' = Balance
  BY <1>1, <1>2, <1>3, BalanceFacts DEF Balance
<1>5. /\ SpeculativeBalance' = SpeculativeBalance
      /\ numberSpeculative' + uncounted'[First] <= EvaluationLimit
  BY <1>1, <1>2 DEF SpeculativeBalance, EvaluationsWell, SpeculationCounted
<1>6. QED
  BY <1>2, <1>4, <1>5, NothingMoves
LEMMA HandleSpeculativeKept ==
    ASSUME SamplingInvariant, TypesAndPlaces', HandleSpeculative
    PROVE  PackagesWell'
<1>1. EvaluationsWell /\ TypesAndPlaces
  BY DEF SamplingInvariant, PackagesWell
<1>2. /\ numberSpeculative' = numberSpeculative - completedSpeculative /\ completedSpeculative' = 0
      /\ spc' = spc /\ UNCHANGED placed
      /\ UNCHANGED <<numberEvaluations, uncounted, completed, extra>>
  BY DEF HandleSpeculative, placed, algorithm, receiver, samplers, brokers
<1>3. CountingThreads' = CountingThreads
  BY <1>2 DEF CountingThreads
<1>4. Balance' = Balance
  BY <1>2, <1>3 DEF Balance
<1>5. /\ numberSpeculative \in Int /\ uncounted[First] \in Nat /\ completedSpeculative \in Nat
      /\ EvaluationLimit \in Nat
  BY <1>1, BalanceFacts
<1>6. SpeculativeBalance' = SpeculativeBalance
  BY <1>2, <1>5 DEF SpeculativeBalance
<1>7. numberSpeculative' + uncounted'[First] <= EvaluationLimit
  BY <1>1, <1>2, <1>5 DEF EvaluationsWell, SpeculationCounted
<1>8. QED
  BY <1>2, <1>4, <1>6, <1>7, NothingMoves

-----------------------------------------------------------------------------
(* The steps of the receive thread and the sampling threads *)

(* What the parts of the invariant are.                                     *)
LEMMA InvariantParts ==
    ASSUME SamplingInvariant
    PROVE  /\ TypesAndPlaces /\ TypeOK /\ SamplersInStep /\ ValuesInStep
           /\ PackagesPlaced /\ WaitingWell /\ EvaluatingWell /\ ShippingWell /\ OneValue
           /\ StencilsWell /\ EvaluationsWell /\ IsFiniteSet(Evaluating)
BY DEF SamplingInvariant, TypesAndPlaces, PackagesWell, PackagesPlaced, EvaluationsWell

(* An id in the map is that of a request that was received.                 *)
LEMMA OpenStencils ==
    ASSUME SamplingInvariant, NEW id \in DOMAIN additional
    PROVE  /\ id \in Requests /\ id <= received
           /\ \A p \in Range(additional[id].members) : p.id = id
<1>1. id \in Requests
  BY DEF SamplingInvariant, TypesAndPlaces, TypeOK, ValuesTypeOK
<1>2. \A p \in Range(additional[id].members) : p.id = id
  BY DEF SamplingInvariant, PackagesWell, StencilsWell, StencilsTracked
<1>3. additional[id].members # <<>> /\ additional[id].members[1] \in Shipping
  BY DEF SamplingInvariant, PackagesWell, StencilsWell, StencilsOpen
<1>4. additional[id].members \in Seq(PackageType)
  BY DEF SamplingInvariant, TypesAndPlaces, TypeOK, ValuesTypeOK
<1>5. additional[id].members[1] \in Range(additional[id].members)
  BY <1>3, <1>4, TailFacts
<1>6. \A p \in Shipping : p.id <= received
  BY InvariantParts DEF ShippingWell, ShippingAreValued
<1>7. QED
  BY <1>1, <1>2, <1>3, <1>5, <1>6

(* Requests that arrive are new everywhere.                                 *)
LEMMA ReceiveRequestsKept ==
    ASSUME SamplingInvariant, TypesAndPlaces', ReceiveRequests
    PROVE  PackagesWell'
<1>1. /\ UNCHANGED <<generated, pile, atBroker, results, batch, current, answers, undelivered,
                     extra, additional>>
      /\ UNCHANGED counted /\ spc' = spc
  BY DEF ReceiveRequests, algorithm, samplers, counters, brokers, values, round, counted
<1>2. received \in Nat /\ generated \in Nat /\ received' \in Nat /\ received <= received'
  <2>1. received \in Nat /\ generated \in Nat /\ sent \in Nat
    BY InvariantParts, SamplingAssumption DEF TypeOK, AlgorithmTypeOK, ReceiverTypeOK, SharedTypeOK
  <2>2. QED
    BY <2>1 DEF ReceiveRequests
<1>3. PICK N \in SUBSET PackageType :
          /\ \A p \in N : p.kind = "request" /\ p.id > received /\ p.value = "none"
          /\ OneOfEach(N)
          /\ WaitingWell' /\ Waiting' = Waiting \cup N
  BY InvariantParts, ReceiveRequestsMoves
<1>4. EvaluatingWell' /\ Evaluating' = Evaluating
  BY <1>1, <1>2, InvariantParts, EvaluatingUntouched
<1>5. ShippingWell' /\ Shipping' = Shipping
  BY <1>1, <1>2, InvariantParts, ShippingUntouched
<1>6. \A p \in Places : p.kind = "request" => p.id \in Nat /\ p.id <= received
  <2>1. \A p \in Waiting \cup Shipping : p.id <= received /\ p \in PackageType
    BY InvariantParts, WaitingTyped, ShippingTyped
       DEF WaitingWell, WaitingAreNew, ShippingWell, ShippingAreValued
  <2>2. \A p \in Evaluating : p \in PackageType /\ (p.kind = "request" => p.id <= received)
    BY InvariantParts, EvaluatingTyped DEF EvaluatingWell, EvaluatedAreValued
  <2>3. \A p \in Range(extra) : p.kind = "sample"
    BY InvariantParts DEF StencilsWell, StencilsOpen
  <2>4. \A p \in PackageType : p.id \in 0 .. NumRequests
    BY InvariantParts, PackageFacts DEF TypeOK
  <2>5. \A i \in 0 .. NumRequests : i \in Nat
    BY SamplingAssumption
  <2>6. QED
    BY <2>1, <2>2, <2>3, <2>4, <2>5 DEF Places
<1>7. \A p \in Places, q \in N : ~Same(p, q)
  <2>1. \A i \in Nat : ~(i <= received /\ i > received)
    BY <1>2
  <2>2. QED
    BY <1>3, <1>6, <2>1 DEF Same
<1>8. OneValue'
  <2>1. Places' = Places \cup N
    BY <1>1, <1>3, <1>4, <1>5 DEF Places
  <2>2. OneOfEach(Places \cup N)
    <3>1. OneOfEach(Places)
      BY InvariantParts DEF OneValue
    <3>2. QED
      BY <1>3, <1>7, <3>1, OneOfEachFacts
  <2>3. \A p \in Places : p \notin N
    BY <1>7 DEF Same
  <2>4. OneOfEach(Places')
    BY <2>1, <2>2
  <2>5. /\ Waiting' \cap Evaluating' = {} /\ Shipping' \cap (Waiting' \cup Evaluating') = {}
    BY <1>3, <1>4, <1>5, <2>3, InvariantParts DEF OneValue, Places
  <2>6. QED
    BY <2>4, <2>5 DEF OneValue, OneOfEach
<1>9. StencilsWell'
  <2>1. \A q \in Waiting' \cup Evaluating' :
            \/ q.id \notin DOMAIN additional
            \/ \E p \in Waiting \cup Evaluating \cup Range(extra) : Same(p, q)
    <3>1. \A q \in N : q.id \notin DOMAIN additional
      <4>1. \A id \in DOMAIN additional : id \in Nat /\ id <= received
        BY OpenStencils DEF Requests
      <4>2. QED
        BY <1>2, <1>3, <4>1
    <3>2. QED
      BY <1>3, <1>4, <3>1 DEF Same
  <2>2. \A id : SamplesUnderway(id)' = SamplesUnderway(id)
    BY <1>1, <1>4 DEF SamplesUnderway
  <2>3. /\ IsInjective(extra') /\ Range(extra') \subseteq Range(extra)
        /\ Range(extra') \cap Evaluating' = {}
        /\ \A p \in Evaluating' : p.kind = "sample" => p.id \in DOMAIN additional
    BY <1>1, <1>4, InvariantParts DEF StencilsWell, StencilsOpen, StencilsTracked
  <2>4. QED
    BY <1>1, <1>5, <2>1, <2>2, <2>3, InvariantParts, StencilsAside
<1>10. EvaluationsWell'
  <2>1. CountingThreads' = CountingThreads
    BY <1>1 DEF CountingThreads
  <2>2. QED
    BY <1>1, <1>4, <2>1, InvariantParts, CountersUntouched, EvaluationsAside
<1>11. QED
  BY <1>3, <1>4, <1>5, <1>8, <1>9, <1>10 DEF PackagesWell, PackagesPlaced

(* What stays where it is in a step that receives and generates nothing.    *)
LEMMA WaitingStays ==
    ASSUME SamplingInvariant, UNCHANGED <<received, receivePile, work, held, spc>>
    PROVE  WaitingWell' /\ Waiting' = Waiting
BY InvariantParts, WaitingUntouched
LEMMA EvaluatingStays ==
    ASSUME SamplingInvariant,
           UNCHANGED <<received, generated, pile, atBroker, results, batch>>
    PROVE  EvaluatingWell' /\ Evaluating' = Evaluating
<1>1. received \in Nat /\ generated \in Nat /\ received <= received /\ generated <= generated
  BY InvariantParts, SamplingAssumption DEF TypeOK, AlgorithmTypeOK, ReceiverTypeOK, SharedTypeOK
<1>2. QED
  BY <1>1, InvariantParts, EvaluatingUntouched
LEMMA ShippingStays ==
    ASSUME SamplingInvariant, UNCHANGED <<received, answers, undelivered, current>>
    PROVE  ShippingWell' /\ Shipping' = Shipping
<1>1. received \in Nat /\ received <= received
  BY InvariantParts, SamplingAssumption DEF TypeOK, AlgorithmTypeOK, ReceiverTypeOK, SharedTypeOK
<1>2. QED
  BY <1>1, InvariantParts, ShippingUntouched

(* Packages only move among the places where they wait, are evaluated, or   *)
(* are shipped.                                                             *)
LEMMA PackagesStay ==
    ASSUME SamplingInvariant, TypesAndPlaces', WaitingWell', EvaluatingWell', ShippingWell',
           Waiting' = Waiting, Evaluating' = Evaluating, Shipping' = Shipping,
           additional' = additional, UNCHANGED counted, CountingThreads' = CountingThreads
    PROVE  PackagesWell'
<1>1. extra' = extra
  BY DEF counted
<1>2. OneValue'
  BY <1>1, InvariantParts DEF OneValue, Places
<1>3. StencilsWell'
  <2>1. \A id : SamplesUnderway(id)' = SamplesUnderway(id)
    BY <1>1 DEF SamplesUnderway
  <2>2. StencilsOpen' /\ StencilsTracked'
    BY <1>1, <2>1, InvariantParts DEF StencilsWell, StencilsOpen, StencilsTracked
  <2>3. QED
    BY <2>2 DEF StencilsWell
<1>4. EvaluationsWell'
  BY InvariantParts, CountersUntouched, EvaluationsAside
<1>5. QED
  BY <1>2, <1>3, <1>4 DEF PackagesWell, PackagesPlaced
LEMMA TakeWorkKept ==
    ASSUME SamplingInvariant, TypesAndPlaces', NEW t \in Threads, TakeWork(t)
    PROVE  PackagesWell'
<1>1. /\ UNCHANGED <<received, generated, pile, atBroker, results, batch>>
      /\ UNCHANGED <<answers, undelivered, current, additional>> /\ UNCHANGED counted
      /\ spc[t] = "take" /\ spc' = [spc EXCEPT ![t] = "work"]
  BY DEF TakeWork, At, Goto, algorithm, counters, brokers, values, round, counted
<1>2. CountingThreads' = CountingThreads
  BY <1>1, InvariantParts, CountingThreadsFacts
<1>3. WaitingWell' /\ Waiting' = Waiting
  BY InvariantParts, TakeWorkMoves
<1>4. /\ EvaluatingWell' /\ Evaluating' = Evaluating
      /\ ShippingWell' /\ Shipping' = Shipping
  BY <1>1, EvaluatingStays, ShippingStays
<1>5. QED
  BY <1>1, <1>2, <1>3, <1>4, PackagesStay
LEMMA HoldBackKept ==
    ASSUME SamplingInvariant, TypesAndPlaces', NEW t \in Threads, HoldBack(t)
    PROVE  PackagesWell'
<1> DEFINE place == After(t, Tail(work[t]))
<1>1. /\ UNCHANGED <<received, generated, pile, atBroker, results, batch>>
      /\ UNCHANGED <<answers, undelivered, current, additional>> /\ UNCHANGED counted
      /\ spc[t] = "work" /\ spc' = [spc EXCEPT ![t] = place]
  BY DEF HoldBack, At, Goto, algorithm, receiver, counters, brokers, values, round, counted
<1>2. place # "count"
  BY DEF After
<1> HIDE DEF place
<1>3. CountingThreads' = CountingThreads
  BY <1>1, <1>2, InvariantParts, CountingThreadsFacts
<1>4. WaitingWell' /\ Waiting' = Waiting
  BY InvariantParts, HoldBackMoves
<1>5. /\ EvaluatingWell' /\ Evaluating' = Evaluating
      /\ ShippingWell' /\ Shipping' = Shipping
  BY <1>1, EvaluatingStays, ShippingStays
<1>6. QED
  BY <1>1, <1>3, <1>4, <1>5, PackagesStay

(* The database gives a request its value.                                  *)
LEMMA InterpolateKept ==
    ASSUME SamplingInvariant, TypesAndPlaces', NEW t \in Threads, Interpolate(t)
    PROVE  PackagesWell'
<1>1. /\ UNCHANGED <<received, generated, pile, atBroker, results, batch>>
      /\ UNCHANGED <<answers, undelivered, current, additional>> /\ UNCHANGED counted
      /\ spc[t] = "work" /\ spc' = [spc EXCEPT ![t] = "ship"] /\ extra' = extra
  BY DEF Interpolate, At, Goto, algorithm, receiver, counters, brokers, values, round, counted
<1>2. CountingThreads' = CountingThreads
  BY <1>1, InvariantParts, CountingThreadsFacts
<1>3. PICK p \in Waiting, q \in PackageType :
          /\ Same(p, q) /\ q \notin Places /\ q.value = "value" /\ p.value = "none"
          /\ WaitingWell' /\ Waiting' = (Waiting \ {p}) \cup {q}
  BY InvariantParts, InterpolateMoves
<1>4. /\ EvaluatingWell' /\ Evaluating' = Evaluating
      /\ ShippingWell' /\ Shipping' = Shipping
  BY <1>1, EvaluatingStays, ShippingStays
<1>5. OneValue'
  <2>1. p \notin Evaluating /\ p \notin Shipping /\ p \notin Range(extra)
    <3>1. p.kind = "request" /\ \A x \in Range(extra) : x.kind = "sample"
      BY InvariantParts DEF WaitingWell, WaitingAreNew, StencilsWell, StencilsOpen
    <3>2. QED
      BY <3>1, InvariantParts DEF OneValue
  <2>2. Places' = (Places \ {p}) \cup {q}
    BY <1>1, <1>3, <1>4, <2>1 DEF Places
  <2>3. p \in Places /\ OneOfEach(Places)
    BY InvariantParts DEF OneValue, Places
  <2>4. OneOfEach(Places')
    BY <1>3, <2>2, <2>3, OneOfEachFacts
  <2>5. /\ Waiting' \cap Evaluating' = {} /\ Shipping' \cap (Waiting' \cup Evaluating') = {}
    BY <1>3, <1>4, InvariantParts DEF OneValue, Places
  <2>6. QED
    BY <2>4, <2>5 DEF OneValue, OneOfEach
<1>6. StencilsWell'
  <2>1. \A x \in Waiting' \cup Evaluating' :
            \/ x.id \notin DOMAIN additional
            \/ \E y \in Waiting \cup Evaluating \cup Range(extra) : Same(y, x)
    BY <1>3, <1>4 DEF Same
  <2>2. \A id : SamplesUnderway(id)' = SamplesUnderway(id)
    BY <1>1, <1>4 DEF SamplesUnderway
  <2>3. /\ IsInjective(extra') /\ Range(extra') \subseteq Range(extra)
        /\ Range(extra') \cap Evaluating' = {}
        /\ \A x \in Evaluating' : x.kind = "sample" => x.id \in DOMAIN additional
    BY <1>1, <1>4, InvariantParts DEF StencilsWell, StencilsOpen, StencilsTracked
  <2>4. QED
    BY <1>1, <1>4, <2>1, <2>2, <2>3, InvariantParts, StencilsAside
<1>7. EvaluationsWell'
  BY <1>1, <1>2, <1>4, InvariantParts, CountersUntouched, EvaluationsAside
<1>8. QED
  BY <1>3, <1>4, <1>5, <1>6, <1>7 DEF PackagesWell, PackagesPlaced

(* What has its value is shipped.                                           *)
LEMMA ShipInterpolatedKept ==
    ASSUME SamplingInvariant, TypesAndPlaces', NEW t \in Threads, ShipInterpolated(t)
    PROVE  PackagesWell'
<1> DEFINE place == After(t, Tail(work[t]))
           p == Head(work[t])
<1>1. /\ UNCHANGED <<received, generated, receivePile, held, pile, atBroker, results, batch>>
      /\ UNCHANGED <<current, additional>> /\ UNCHANGED counted
      /\ spc[t] = "ship" /\ spc' = [spc EXCEPT ![t] = place] /\ extra' = extra
      /\ work' = [work EXCEPT ![t] = Tail(@)] /\ Ship(p)
  BY DEF ShipInterpolated, At, Goto, algorithm, receiver, counters, brokers, values, round, counted
<1>2. place # "count" /\ place # "ship"
  BY DEF After
<1> HIDE DEF place
<1>3. CountingThreads' = CountingThreads
  BY <1>1, <1>2, InvariantParts, CountingThreadsFacts
<1>4. work[t] # <<>> /\ p.value = "value"
  <2>1. work[t] # <<>> /\ work[t][1].value = "value"
    BY <1>1, InvariantParts DEF SamplersInStep
  <2>2. p = work[t][1]
    BY <2>1, InvariantParts, WorkFacts
  <2>3. QED
    BY <2>1, <2>2
<1>5. /\ p \in Waiting /\ p \in PackageType
      /\ WaitingWell' /\ Waiting' = Waiting \ {p}
  BY <1>1, <1>2, <1>4, InvariantParts, WorkShrinks
<1> HIDE DEF p
<1>6. p.kind = "request" /\ p.id <= received /\ p \notin Shipping
  BY <1>5, InvariantParts DEF WaitingWell, WaitingAreNew, OneValue
<1>7. ShippingWell' /\ Shipping' = Shipping \cup {p}
  <2>1. p \notin Range(answers) \cup undelivered /\ Range(current') = Range(current) \ {p}
    BY <1>1, <1>6 DEF Shipping
  <2>2. QED
    BY <1>1, <1>4, <1>5, <1>6, <2>1, InvariantParts, ShipMoves
<1>8. EvaluatingWell' /\ Evaluating' = Evaluating
  BY <1>1, EvaluatingStays
<1>9. OneValue'
  <2>1. Places' \subseteq Places
    BY <1>1, <1>5, <1>7, <1>8 DEF Places
  <2>2. OneOfEach(Places')
    BY <2>1, InvariantParts, OneOfEachFacts DEF OneValue
  <2>3. /\ Waiting' \cap Evaluating' = {} /\ Shipping' \cap (Waiting' \cup Evaluating') = {}
    BY <1>5, <1>7, <1>8, InvariantParts DEF OneValue
  <2>4. QED
    BY <2>2, <2>3 DEF OneValue, OneOfEach
<1>10. StencilsWell'
  <2>1. \A x \in Waiting' \cup Evaluating' :
            \/ x.id \notin DOMAIN additional
            \/ \E y \in Waiting \cup Evaluating \cup Range(extra) : Same(y, x)
    BY <1>5, <1>8 DEF Same
  <2>2. \A id : SamplesUnderway(id)' = SamplesUnderway(id)
    BY <1>1, <1>8 DEF SamplesUnderway
  <2>3. /\ IsInjective(extra') /\ Range(extra') \subseteq Range(extra)
        /\ Range(extra') \cap Evaluating' = {} /\ Shipping \subseteq Shipping'
        /\ \A x \in Evaluating' : x.kind = "sample" => x.id \in DOMAIN additional
    BY <1>1, <1>7, <1>8, InvariantParts DEF StencilsWell, StencilsOpen, StencilsTracked
  <2>4. QED
    BY <1>1, <2>1, <2>2, <2>3, InvariantParts, StencilsAside
<1>11. EvaluationsWell'
  BY <1>1, <1>3, <1>8, InvariantParts, CountersUntouched, EvaluationsAside
<1>12. QED
  BY <1>5, <1>7, <1>8, <1>9, <1>10, <1>11 DEF PackagesWell, PackagesPlaced

(* A request goes on the pile; there was room below the limit for it, and   *)
(* every other thread may have piled up one that it has not counted.        *)
LEMMA PileUpKept ==
    ASSUME SamplingInvariant, TypesAndPlaces', NEW t \in Threads, PileUp(t)
    PROVE  PackagesWell'
<1> DEFINE p == Head(work[t])
           N == {p}
<1>1. /\ UNCHANGED <<received, generated, receivePile, held, atBroker, results, batch>>
      /\ UNCHANGED <<answers, undelivered, current, additional>> /\ UNCHANGED counted
      /\ spc[t] = "work" /\ spc' = [spc EXCEPT ![t] = "count"] /\ extra' = extra
      /\ work[t] # <<>> /\ work' = [work EXCEPT ![t] = Tail(@)]
      /\ pile' = Append(pile, p) /\ numberEvaluations < EvaluationLimit
  BY DEF PileUp, BelowLimit, At, Goto, algorithm, receiver, counters, brokers, values, round, counted
<1>2. /\ t \notin CountingThreads /\ CountingThreads' = CountingThreads \cup {t}
  BY <1>1, InvariantParts, CountingThreadsFacts
<1>3. p.value = "none"
  <2>1. p \in Range(work[t])
    BY <1>1, InvariantParts, TailFacts DEF TypeOK, SamplersTypeOK
  <2>2. Unvalued(Range(work[t]))
    BY <1>1, InvariantParts DEF WaitingWell, WaitingAreNew
  <2>3. QED
    BY <2>1, <2>2 DEF Unvalued
<1>4. /\ p \in Waiting /\ p \in PackageType
      /\ WaitingWell' /\ Waiting' = Waiting \ {p}
  BY <1>1, InvariantParts, WorkShrinks
<1> HIDE DEF p
<1>5. p.kind = "request" /\ p.id <= received /\ p \notin Evaluating /\ p \notin Shipping
  BY <1>4, InvariantParts DEF WaitingWell, WaitingAreNew, OneValue
<1>6. EvaluatingWell' /\ Evaluating' = Evaluating \cup N
  <2>1. pile \in Seq(PackageType) /\ IsInjective(pile) /\ p \notin Range(pile)
    BY <1>5, InvariantParts, EvaluatingMembers DEF TypeOK, SharedTypeOK, EvaluatingWell, EvaluatingOnce
  <2>2. IsInjective(pile') /\ Range(pile') = Range(pile) \cup N
    BY <1>1, <1>4, <2>1, AppendFacts
  <2>3. N \cap Evaluating = {} /\ Unvalued(N)
    BY <1>3, <1>5 DEF Unvalued
  <2>4. \A x \in Evaluating \cup N : /\ x.kind = "request" => x.id <= received'
                                     /\ x.kind = "speculative" => x.n <= generated'
    BY <1>1, <1>5, InvariantParts DEF EvaluatingWell, EvaluatedAreValued
  <2> HIDE DEF N
  <2>5. QED
    BY <1>1, <2>2, <2>3, <2>4, InvariantParts, PileGrows
<1>7. ShippingWell' /\ Shipping' = Shipping
  BY <1>1, ShippingStays
<1>8. OneValue'
  <2>1. Places' \subseteq Places
    BY <1>1, <1>4, <1>6, <1>7 DEF Places
  <2>2. OneOfEach(Places')
    BY <2>1, InvariantParts, OneOfEachFacts DEF OneValue
  <2>3. /\ Waiting' \cap Evaluating' = {} /\ Shipping' \cap (Waiting' \cup Evaluating') = {}
    BY <1>4, <1>5, <1>6, <1>7, InvariantParts DEF OneValue
  <2>4. QED
    BY <2>2, <2>3 DEF OneValue, OneOfEach
<1>9. StencilsWell'
  <2>1. \A x \in Waiting' \cup Evaluating' :
            \/ x.id \notin DOMAIN additional
            \/ \E y \in Waiting \cup Evaluating \cup Range(extra) : Same(y, x)
    BY <1>4, <1>6 DEF Same
  <2>2. \A id : SamplesUnderway(id)' = SamplesUnderway(id)
    BY <1>1, <1>5, <1>6 DEF SamplesUnderway
  <2>3. /\ IsInjective(extra') /\ Range(extra') \subseteq Range(extra)
        /\ Range(extra') \cap Evaluating' = {}
        /\ \A x \in Evaluating' : x.kind = "sample" => x.id \in DOMAIN additional
    BY <1>1, <1>5, <1>6, InvariantParts DEF StencilsWell, StencilsOpen, StencilsTracked
  <2>4. QED
    BY <1>1, <1>7, <2>1, <2>2, <2>3, InvariantParts, StencilsAside
<1>10. EvaluationsWell'
  <2>1. IsFiniteSet(N) /\ Cardinality(N) = 1
    BY FS_Singleton
  <2>2. N \cap Evaluating = {} /\ \A x \in N : IsRegular(x)
    BY <1>5 DEF IsRegular
  <2> HIDE DEF N
  <2>3. /\ IsFiniteSet(Evaluating') /\ NumberRegular' = NumberRegular + 1
        /\ NumberOfSpeculative' = NumberOfSpeculative /\ NumberOfRequests' <= NumberRegular'
        /\ NumberOfRequests' \in Nat
    BY <1>6, <2>1, <2>2, InvariantParts, NumbersAfterPile
  <2>4. Cardinality(CountingThreads') = Cardinality(CountingThreads) + 1
    BY <1>2, InvariantParts, CountingThreadsFacts, CountingElements
  <2>5. /\ numberEvaluations' = numberEvaluations /\ completed' = completed
        /\ Len(extra') = Len(extra)
    BY <1>1 DEF counted
  <2>6. NumberRegular \in Nat /\ NumberOfSpeculative \in Nat
    BY InvariantParts, NumberFacts
  <2>7. Balance' - Balance = NumberRegular' - NumberRegular
    BY <2>3, <2>4, <2>5, <2>6, InvariantParts, BalanceFacts DEF Balance
  <2>8. /\ SpeculativeBalance' - SpeculativeBalance = NumberOfSpeculative' - NumberOfSpeculative
        /\ numberSpeculative' + uncounted'[First] <= EvaluationLimit
    BY <1>1, <2>3, <2>6, InvariantParts, CountersUntouched, BalanceFacts
  <2>9. NumberOfRequests' <= EvaluationLimit + Cardinality(Threads) - 1
    <3>1. Cardinality(CountingThreads) <= Cardinality(Threads) - 1
      BY <1>1, InvariantParts, CountingThreadsFacts
    <3>2. numberEvaluations + Cardinality(CountingThreads) = NumberRegular + completed + Len(extra)
      BY InvariantParts DEF EvaluationsWell, EvaluationsCounted, NumberRegular, CountingThreads
    <3>3. /\ numberEvaluations \in Int /\ completed \in Nat /\ Len(extra) \in Nat
          /\ Cardinality(CountingThreads) \in Nat
          /\ EvaluationLimit \in Nat /\ Cardinality(Threads) \in Nat
      BY InvariantParts, BalanceFacts
    <3>4. NumberRegular + 1 <= EvaluationLimit + Cardinality(Threads) - 1
      BY <1>1, <2>6, <3>1, <3>2, <3>3
    <3>5. QED
      BY <2>3, <2>6, <3>3, <3>4
  <2>10. QED
    BY <2>3, <2>7, <2>8, <2>9, InvariantParts, CountersInStep
<1>11. QED
  BY <1>4, <1>6, <1>7, <1>8, <1>9, <1>10 DEF PackagesWell, PackagesPlaced

(* New speculative evaluations, no more than the limit has room for.        *)
LEMMA GenerateKept ==
    ASSUME SamplingInvariant, TypesAndPlaces', NEW t \in Threads, Generate(t)
    PROVE  PackagesWell'
<1>1. PICK n \in 1 .. Room :
          /\ generated + n <= MaxSpeculative[fault]
          /\ pile' = pile \o Numbered(0, "speculative", generated, n)
          /\ generated' = generated + n
          /\ uncounted' = [uncounted EXCEPT ![t] = n]
  BY DEF Generate, Numbered
<1>2. /\ UNCHANGED <<received, receivePile, work, held, atBroker, results, batch>>
      /\ UNCHANGED <<answers, undelivered, current, additional, extra, numberEvaluations>>
      /\ UNCHANGED <<numberSpeculative, completed, completedSpeculative>>
      /\ spc[t] = "work" /\ spc' = [spc EXCEPT ![t] = "countSpeculative"] /\ t = First
  BY DEF Generate, HasGenerator, At, Goto, algorithm, receiver, counters, brokers, values, round
<1>3. CountingThreads' = CountingThreads
  BY <1>2, InvariantParts, CountingThreadsFacts
<1>4. /\ numberSpeculative \in Int /\ generated \in Nat /\ n \in Nat /\ n >= 1
      /\ MaxSpeculative[fault] \in Nat /\ received \in Nat /\ EvaluationLimit \in Nat
      /\ n <= EvaluationLimit - numberSpeculative
  <2>1. /\ numberSpeculative \in Int /\ generated \in Nat /\ MaxSpeculative[fault] \in Nat
        /\ received \in Nat /\ EvaluationLimit \in Nat
    <3>1. received \in Nat /\ generated \in Nat /\ sent \in Nat
      BY InvariantParts, SamplingAssumption DEF TypeOK, AlgorithmTypeOK, ReceiverTypeOK, SharedTypeOK
    <3>2. MaxSpeculative[fault] \in Nat
      BY InvariantParts, SamplingAssumption DEF TypeOK
    <3>3. numberSpeculative \in Int /\ EvaluationLimit \in Nat
      BY InvariantParts, BalanceFacts
    <3>4. QED
      BY <3>1, <3>2, <3>3
  <2>2. Room \in Int /\ Room = EvaluationLimit - numberSpeculative
    BY <2>1 DEF Room
  <2>3. QED
    BY <2>1, <2>2
<1> DEFINE new == Numbered(0, "speculative", generated, n)
           N == Range(new)
<1>5. /\ new \in Seq(PackageType) /\ IsInjective(new)
      /\ \A p \in N : /\ p.id = 0 /\ p.kind = "speculative" /\ p.value = "none"
                      /\ p.n \in generated + 1 .. generated + n
  <2>1. \A i \in generated + 1 .. generated + n : Package(0, "speculative", i) \in PackageType
    <3>1. \A i \in generated + 1 .. generated + n : i \in 1 .. MaxSpeculative[fault]
      BY <1>1, <1>4
    <3>2. QED
      BY <3>1, InvariantParts, PackageFacts DEF TypeOK
  <2>2. QED
    BY <1>4, <2>1, NumberedFacts
<1>6. Len(new) = n
  BY <1>4 DEF Numbered
<1>7. N \subseteq PackageType
  BY <1>5, RangeOfSeq
<1>8. IsFiniteSet(N) /\ Cardinality(N) = n
  BY <1>5, <1>6, RangeCardinality
<1>9. pile' = pile \o new
  BY <1>1
<1> HIDE DEF new, N
<1>10. \A p \in N : /\ p.id = 0 /\ p.kind = "speculative" /\ p.value = "none"
                    /\ p.n > generated /\ p.n <= generated' /\ p.n \in Nat
  BY <1>1, <1>4, <1>5
<1>11. \A p \in Places : p.kind = "speculative" => p.n \in Nat /\ p.n <= generated
  <2>1. \A p \in Waiting \cup Shipping \cup Range(extra) : p.kind \in {"request", "sample"}
    BY InvariantParts DEF WaitingWell, WaitingAreNew, ShippingWell, ShippingAreValued,
                          StencilsWell, StencilsOpen
  <2>2. \A p \in Evaluating : p \in PackageType /\ (p.kind = "speculative" => p.n <= generated)
    BY InvariantParts, EvaluatingTyped DEF EvaluatingWell, EvaluatedAreValued
  <2>3. \A p \in PackageType : p.n \in Nat
    BY InvariantParts, PackageFacts DEF TypeOK
  <2>4. QED
    BY <2>1, <2>2, <2>3 DEF Places
<1>12. \A p \in Places, q \in N : ~Same(p, q)
  <2>1. \A i \in Nat : ~(i <= generated /\ i > generated)
    BY <1>4
  <2>2. QED
    BY <1>10, <1>11, <2>1 DEF Same
<1>13. N \cap Places = {}
  BY <1>12 DEF Same
<1>14. OneOfEach(N)
  <2>1. \A p \in PackageType : p = [id |-> p.id, kind |-> p.kind, n |-> p.n, value |-> p.value]
    BY DEF PackageType
  <2>2. ASSUME NEW p \in N, NEW q \in N, Same(p, q) PROVE p = q
    <3>1. p.id = q.id /\ p.kind = q.kind /\ p.n = q.n /\ p.value = q.value
      BY <1>10, <2>2 DEF Same
    <3>2. QED
      BY <1>7, <2>1, <3>1
  <2>3. QED
    BY <2>2 DEF OneOfEach
<1>15. EvaluatingWell' /\ Evaluating' = Evaluating \cup N
  <2>1. pile \in Seq(PackageType) /\ IsInjective(pile) /\ Range(pile) \cap N = {}
    BY <1>13, InvariantParts, EvaluatingMembers
       DEF TypeOK, SharedTypeOK, EvaluatingWell, EvaluatingOnce, Places
  <2>2. IsInjective(pile') /\ Range(pile') = Range(pile) \cup N
    BY <1>5, <1>9, <2>1, ConcatFacts DEF N
  <2>3. N \cap Evaluating = {} /\ Unvalued(N)
    BY <1>10, <1>13 DEF Unvalued, Places
  <2>4. \A x \in Evaluating \cup N : /\ x.kind = "request" => x.id <= received'
                                     /\ x.kind = "speculative" => x.n <= generated'
    <3>1. \A x \in Evaluating : /\ x.kind = "request" => x.id <= received
                                /\ x.kind = "speculative" => x.n \in Nat /\ x.n <= generated
      BY <1>11, InvariantParts DEF EvaluatingWell, EvaluatedAreValued, Places
    <3>2. QED
      BY <1>1, <1>2, <1>4, <1>10, <3>1
  <2>5. QED
    BY <1>2, <2>2, <2>3, <2>4, InvariantParts, PileGrows
<1>16. WaitingWell' /\ Waiting' = Waiting
  <2>1. \A u \in Threads : spc'[u] # spc[u] => spc[u] # "ship" /\ spc'[u] # "ship"
    BY <1>2, InvariantParts DEF TypeOK, SamplersTypeOK
  <2>2. QED
    BY <1>2, <2>1, InvariantParts, WaitingUntouched
<1>17. ShippingWell' /\ Shipping' = Shipping
  BY <1>2, ShippingStays
<1>18. OneValue'
  <2>1. Places' = Places \cup N
    BY <1>2, <1>15, <1>16, <1>17 DEF Places
  <2>2. OneOfEach(Places \cup N)
    <3>1. OneOfEach(Places)
      BY InvariantParts DEF OneValue
    <3>2. QED
      BY <1>12, <1>14, <3>1, OneOfEachFacts
  <2>3. OneOfEach(Places')
    BY <2>1, <2>2
  <2>4. /\ Waiting' \cap Evaluating' = {} /\ Shipping' \cap (Waiting' \cup Evaluating') = {}
    BY <1>13, <1>15, <1>16, <1>17, InvariantParts DEF OneValue, Places
  <2>5. QED
    BY <2>3, <2>4 DEF OneValue, OneOfEach
<1>19. StencilsWell'
  <2>1. \A x \in Waiting' \cup Evaluating' :
            \/ x.id \notin DOMAIN additional
            \/ \E y \in Waiting \cup Evaluating \cup Range(extra) : Same(y, x)
    <3>1. 0 \notin DOMAIN additional
      BY InvariantParts DEF TypeOK, ValuesTypeOK, Requests
    <3>2. QED
      BY <1>10, <1>15, <1>16, <3>1 DEF Same
  <2>2. \A id : SamplesUnderway(id)' = SamplesUnderway(id)
    BY <1>2, <1>10, <1>15 DEF SamplesUnderway
  <2>3. /\ IsInjective(extra') /\ Range(extra') \subseteq Range(extra)
        /\ Range(extra') \cap Evaluating' = {}
        /\ \A x \in Evaluating' : x.kind = "sample" => x.id \in DOMAIN additional
    <3>1. Range(extra) \cap N = {}
      BY <1>13 DEF Places
    <3>2. QED
      BY <1>2, <1>10, <1>15, <3>1, InvariantParts DEF StencilsWell, StencilsOpen, StencilsTracked
  <2>4. QED
    BY <1>2, <1>17, <2>1, <2>2, <2>3, InvariantParts, StencilsAside
<1>20. EvaluationsWell'
  <2>1. N \cap Evaluating = {} /\ \A x \in N : ~IsRegular(x) /\ x.kind # "request"
    BY <1>10, <1>13 DEF IsRegular, Places
  <2>2. /\ IsFiniteSet(Evaluating') /\ NumberRegular' = NumberRegular
        /\ NumberOfSpeculative' = NumberOfSpeculative + n
        /\ NumberOfRequests' = NumberOfRequests
    BY <1>8, <1>15, <2>1, InvariantParts, NumbersAfterPile
  <2>3. uncounted[First] = 0 /\ uncounted'[First] = n
    BY <1>1, <1>2, InvariantParts DEF TypeOK, SamplersTypeOK, SamplersInStep
  <2>4. NumberRegular \in Nat /\ NumberOfSpeculative \in Nat
    BY InvariantParts, NumberFacts
  <2>5. Balance' - Balance = NumberRegular' - NumberRegular
    <3>1. Balance' = Balance
      BY <1>2, <1>3 DEF Balance
    <3>2. QED
      BY <2>2, <2>4, <3>1, InvariantParts, BalanceFacts
  <2>6. SpeculativeBalance' - SpeculativeBalance = NumberOfSpeculative' - NumberOfSpeculative
    <3>1. completedSpeculative \in Nat /\ completedSpeculative' = completedSpeculative
          /\ numberSpeculative' = numberSpeculative
      BY <1>2, InvariantParts, BalanceFacts
    <3>2. QED
      BY <1>4, <2>2, <2>3, <2>4, <3>1 DEF SpeculativeBalance
  <2>7. numberSpeculative' + uncounted'[First] <= EvaluationLimit
    BY <1>2, <1>4, <2>3
  <2>8. NumberOfRequests' <= EvaluationLimit + Cardinality(Threads) - 1
    BY <2>2, InvariantParts DEF EvaluationsWell, LimitKept, NumberOfRequests, RequestsEvaluating
  <2>9. QED
    BY <2>2, <2>5, <2>6, <2>7, <2>8, InvariantParts, CountersInStep
<1>21. QED
  BY <1>15, <1>16, <1>17, <1>18, <1>19, <1>20 DEF PackagesWell, PackagesPlaced

-----------------------------------------------------------------------------
(* The steps of the evaluation thread and the brokers *)

LEMMA SendPileKept ==
    ASSUME SamplingInvariant, TypesAndPlaces', SendPile
    PROVE  PackagesWell'
<1>1. /\ UNCHANGED <<received, receivePile, work, held, spc, answers, undelivered, current>>
      /\ UNCHANGED additional /\ UNCHANGED counted
  BY DEF SendPile, algorithm, receiver, samplers, counters, values, round, counted
<1>2. CountingThreads' = CountingThreads
  BY <1>1 DEF CountingThreads
<1>3. EvaluatingWell' /\ Evaluating' = Evaluating
  BY InvariantParts, SendPileMoves
<1>4. /\ WaitingWell' /\ Waiting' = Waiting
      /\ ShippingWell' /\ Shipping' = Shipping
  BY <1>1, WaitingStays, ShippingStays
<1>5. QED
  BY <1>1, <1>2, <1>3, <1>4, PackagesStay

(* There are finitely many samples of a stencil.                            *)
LEMMA SamplesFinite ==
    ASSUME SamplingInvariant, NEW id
    PROVE  IsFiniteSet(SamplesUnderway(id))
<1>1. IsFiniteSet(Range(extra))
  BY InvariantParts, RangeCardinality DEF TypeOK, ValuesTypeOK
<1>2. IsFiniteSet(Evaluating)
  BY InvariantParts
<1> DEFINE S == Evaluating \cup Range(extra)
<1>3. IsFiniteSet(S)
  BY <1>1, <1>2, FS_Union
<1>4. SamplesUnderway(id) \subseteq S
  BY DEF SamplesUnderway
<1> HIDE DEF S
<1>5. QED
  BY <1>3, <1>4, FS_Subset

(* A broker gives a package its value.                                      *)
LEMMA EvaluateKept ==
    ASSUME SamplingInvariant, TypesAndPlaces', NEW b \in Brokers, Evaluate(b)
    PROVE  PackagesWell'
<1>1. /\ UNCHANGED <<received, receivePile, work, held, spc, answers, undelivered, current>>
      /\ UNCHANGED <<additional, extra>> /\ UNCHANGED counted
  BY DEF Evaluate, algorithm, receiver, samplers, counters, values, round, counted
<1>2. PICK p \in Evaluating, q \in PackageType :
          /\ Same(p, q) /\ q \notin Evaluating
          /\ EvaluatingWell' /\ Evaluating' = (Evaluating \ {p}) \cup {q}
  BY InvariantParts, EvaluateMoves
<1>3. /\ WaitingWell' /\ Waiting' = Waiting
      /\ ShippingWell' /\ Shipping' = Shipping
  BY <1>1, WaitingStays, ShippingStays
<1>4. q \notin Places
  <2>1. p \in Places /\ OneOfEach(Places)
    BY InvariantParts DEF OneValue, Places
  <2>2. QED
    BY <1>2, <2>1 DEF OneOfEach
<1>5. p \notin Waiting /\ p \notin Shipping /\ p \notin Range(extra)
  BY InvariantParts DEF OneValue, StencilsWell, StencilsOpen
<1>6. OneValue'
  <2>1. Places' = (Places \ {p}) \cup {q}
    BY <1>1, <1>2, <1>3, <1>5 DEF Places
  <2>2. p \in Places /\ OneOfEach(Places)
    BY InvariantParts DEF OneValue, Places
  <2>3. OneOfEach(Places')
    BY <1>2, <2>1, <2>2, OneOfEachFacts
  <2>4. /\ Waiting' \cap Evaluating' = {} /\ Shipping' \cap (Waiting' \cup Evaluating') = {}
    BY <1>2, <1>3, <1>4, InvariantParts DEF OneValue, Places
  <2>5. QED
    BY <2>3, <2>4 DEF OneValue, OneOfEach
<1>7. StencilsWell'
  <2>1. \A x \in Waiting' \cup Evaluating' :
            \/ x.id \notin DOMAIN additional
            \/ \E y \in Waiting \cup Evaluating \cup Range(extra) : Same(y, x)
    BY <1>2, <1>3 DEF Same
  <2>2. ASSUME NEW id \in DOMAIN additional
        PROVE  Cardinality(SamplesUnderway(id)') = Cardinality(SamplesUnderway(id))
    <3>1. IsFiniteSet(SamplesUnderway(id))
      BY SamplesFinite
    <3>2. CASE p.kind = "sample" /\ p.id = id
      <4>1. p \in SamplesUnderway(id) /\ q \notin SamplesUnderway(id)
        BY <1>2, <1>4, <3>2 DEF SamplesUnderway, Places
      <4>2. SamplesUnderway(id)' = (SamplesUnderway(id) \ {p}) \cup {q}
        BY <1>1, <1>2, <1>5, <3>2 DEF SamplesUnderway, Same
      <4>3. \A x \in SamplesUnderway(id) : \A y : y \notin SamplesUnderway(id) =>
                Cardinality((SamplesUnderway(id) \ {x}) \cup {y}) = Cardinality(SamplesUnderway(id))
        BY <3>1, CountingElements
      <4>4. QED
        BY <4>1, <4>2, <4>3
    <3>3. CASE ~(p.kind = "sample" /\ p.id = id)
      <4>1. SamplesUnderway(id)' = SamplesUnderway(id)
        BY <1>1, <1>2, <3>3 DEF SamplesUnderway, Same
      <4>2. QED
        BY <4>1
    <3>4. QED
      BY <3>2, <3>3
  <2>3. /\ IsInjective(extra') /\ Range(extra') \subseteq Range(extra)
        /\ Range(extra') \cap Evaluating' = {}
        /\ \A x \in Evaluating' : x.kind = "sample" => x.id \in DOMAIN additional
    <3>1. q \notin Range(extra)
      BY <1>4 DEF Places
    <3>2. q.kind = "sample" => q.id \in DOMAIN additional
      BY <1>2, InvariantParts DEF StencilsWell, StencilsTracked, Same
    <3>3. QED
      BY <1>1, <1>2, <3>1, <3>2, InvariantParts DEF StencilsWell, StencilsOpen, StencilsTracked
  <2>4. QED
    BY <1>1, <1>3, <2>1, <2>2, <2>3, InvariantParts, StencilsAside
<1>8. EvaluationsWell'
  <2>1. /\ IsFiniteSet(Evaluating')
        /\ NumberRegular' = NumberRegular /\ NumberOfSpeculative' = NumberOfSpeculative
        /\ NumberOfRequests' = NumberOfRequests
    BY <1>2, InvariantParts, NumbersAfterEvaluation
  <2>2. CountingThreads' = CountingThreads
    BY <1>1 DEF CountingThreads
  <2>3. /\ Balance' = Balance /\ SpeculativeBalance' = SpeculativeBalance
        /\ numberSpeculative' + uncounted'[First] <= EvaluationLimit
    BY <1>1, <2>2, InvariantParts, CountersUntouched
  <2>4. NumberRegular \in Nat /\ NumberOfSpeculative \in Nat
    BY InvariantParts, NumberFacts
  <2>5. /\ Balance' - Balance = NumberRegular' - NumberRegular
        /\ SpeculativeBalance' - SpeculativeBalance = NumberOfSpeculative' - NumberOfSpeculative
    BY <2>1, <2>3, <2>4, InvariantParts, BalanceFacts
  <2>6. NumberOfRequests' <= EvaluationLimit + Cardinality(Threads) - 1
    BY <2>1, InvariantParts DEF EvaluationsWell, LimitKept, NumberOfRequests, RequestsEvaluating
  <2>7. QED
    BY <2>1, <2>3, <2>5, <2>6, InvariantParts, CountersInStep
<1>9. QED
  BY <1>2, <1>3, <1>6, <1>7, <1>8 DEF PackagesWell, PackagesPlaced

-----------------------------------------------------------------------------
(* The steps of the value processing thread *)

LEMMA ReceiveResultsKept ==
    ASSUME SamplingInvariant, TypesAndPlaces', ReceiveResults
    PROVE  PackagesWell'
<1>1. /\ UNCHANGED <<received, receivePile, work, held, spc, answers, undelivered, current>>
      /\ UNCHANGED additional /\ UNCHANGED counted
  BY DEF ReceiveResults, algorithm, receiver, samplers, counters, counted
<1>2. CountingThreads' = CountingThreads
  BY <1>1 DEF CountingThreads
<1>3. EvaluatingWell' /\ Evaluating' = Evaluating
  BY InvariantParts, ReceiveResultsMoves
<1>4. /\ WaitingWell' /\ Waiting' = Waiting
      /\ ShippingWell' /\ Shipping' = Shipping
  BY <1>1, WaitingStays, ShippingStays
<1>5. QED
  BY <1>1, <1>2, <1>3, <1>4, PackagesStay
LEMMA ShipResultKept ==
    ASSUME SamplingInvariant, TypesAndPlaces', ShipResult
    PROVE  PackagesWell'
<1>1. /\ UNCHANGED <<received, generated, receivePile, work, held, spc, pile, atBroker, results>>
      /\ UNCHANGED <<batch, additional>> /\ UNCHANGED counted
  BY DEF ShipResult, receiver, samplers, counters, brokers, round, counted
<1>2. CountingThreads' = CountingThreads
  BY <1>1 DEF CountingThreads
<1>3. ShippingWell' /\ Shipping' = Shipping
  BY InvariantParts, ShipResultMoves
<1>4. /\ WaitingWell' /\ Waiting' = Waiting
      /\ EvaluatingWell' /\ Evaluating' = Evaluating
  BY <1>1, WaitingStays, EvaluatingStays
<1>5. QED
  BY <1>1, <1>2, <1>3, <1>4, PackagesStay

(* A regular result is counted as completed when it is taken.               *)
LEMMA RegularResultCounted ==
    ASSUME SamplingInvariant, TypesAndPlaces', Processing, IsRegular(Result),
           Evaluating' = Evaluating \ {Result}, Result \in Evaluating,
           Balance' = Balance - 1, UNCHANGED <<numberSpeculative, uncounted, completedSpeculative>>
    PROVE  EvaluationsWell'
<1>1. /\ IsFiniteSet(Evaluating')
      /\ NumberRegular' = NumberRegular - 1 /\ NumberOfSpeculative' = NumberOfSpeculative
      /\ NumberOfRequests' \in Nat /\ NumberOfRequests' <= NumberOfRequests
  <2> DEFINE p == Result
  <2>1. p \in Evaluating /\ IsRegular(p) /\ Evaluating' = Evaluating \ {p}
    OBVIOUS
  <2> HIDE DEF p
  <2>2. QED
    BY <2>1, InvariantParts, NumbersAfterResult
<1>2. /\ NumberRegular \in Nat /\ NumberOfSpeculative \in Nat /\ NumberOfRequests \in Nat
  BY InvariantParts, NumberFacts
<1>3. Balance \in Int /\ EvaluationLimit \in Nat /\ Cardinality(Threads) \in Nat
  BY InvariantParts, BalanceFacts
<1>4. Balance' - Balance = NumberRegular' - NumberRegular
  BY <1>1, <1>2, <1>3
<1>5. /\ SpeculativeBalance' = SpeculativeBalance
      /\ numberSpeculative' + uncounted'[First] <= EvaluationLimit
  BY InvariantParts DEF SpeculativeBalance, EvaluationsWell, SpeculationCounted
<1>6. SpeculativeBalance' - SpeculativeBalance = NumberOfSpeculative' - NumberOfSpeculative
  BY <1>1, <1>2, <1>5, InvariantParts, BalanceFacts
<1>7. NumberOfRequests <= EvaluationLimit + Cardinality(Threads) - 1
  BY InvariantParts DEF EvaluationsWell, LimitKept, NumberOfRequests, RequestsEvaluating
<1>8. NumberOfRequests' <= EvaluationLimit + Cardinality(Threads) - 1
  BY <1>1, <1>2, <1>3, <1>7
<1>9. QED
  BY <1>1, <1>4, <1>5, <1>6, <1>8, InvariantParts, CountersInStep

(* A speculative result is kept.                                            *)
LEMMA KeepSpeculativeKept ==
    ASSUME SamplingInvariant, TypesAndPlaces', KeepSpeculative
    PROVE  PackagesWell'
<1>1. /\ UNCHANGED <<received, generated, receivePile, work, held, spc, pile, atBroker, results>>
      /\ UNCHANGED <<answers, undelivered, current, additional, extra>>
      /\ UNCHANGED <<numberEvaluations, numberSpeculative, uncounted, completed>>
      /\ Processing /\ ~IsRegular(Result) /\ batch' = Tail(batch)
      /\ completedSpeculative' = completedSpeculative + 1
  BY DEF KeepSpeculative, algorithm, receiver, samplers, counters, brokers
<1>2. /\ Result \in Evaluating
      /\ EvaluatingWell' /\ Evaluating' = Evaluating \ {Result}
  BY <1>1, InvariantParts, ResultMoves
<1> DEFINE p == Result
<1>3. p \in Evaluating /\ Evaluating' = Evaluating \ {p} /\ ~IsRegular(p)
  BY <1>1, <1>2
<1> HIDE DEF p
<1>4. /\ WaitingWell' /\ Waiting' = Waiting
      /\ ShippingWell' /\ Shipping' = Shipping
  BY <1>1, WaitingStays, ShippingStays
<1>5. OneValue'
  <2>1. Places' \subseteq Places
    BY <1>1, <1>3, <1>4 DEF Places
  <2>2. OneOfEach(Places')
    BY <2>1, InvariantParts, OneOfEachFacts DEF OneValue
  <2>3. /\ Waiting' \cap Evaluating' = {} /\ Shipping' \cap (Waiting' \cup Evaluating') = {}
    BY <1>3, <1>4, InvariantParts DEF OneValue
  <2>4. QED
    BY <2>2, <2>3 DEF OneValue, OneOfEach
<1>6. StencilsWell'
  <2>1. \A x \in Waiting' \cup Evaluating' :
            \/ x.id \notin DOMAIN additional
            \/ \E y \in Waiting \cup Evaluating \cup Range(extra) : Same(y, x)
    BY <1>3, <1>4 DEF Same
  <2>2. \A id : SamplesUnderway(id)' = SamplesUnderway(id)
    BY <1>1, <1>3 DEF SamplesUnderway, IsRegular
  <2>3. /\ IsInjective(extra') /\ Range(extra') \subseteq Range(extra)
        /\ Range(extra') \cap Evaluating' = {}
        /\ \A x \in Evaluating' : x.kind = "sample" => x.id \in DOMAIN additional
    BY <1>1, <1>3, InvariantParts DEF StencilsWell, StencilsOpen, StencilsTracked
  <2>4. QED
    BY <1>1, <1>4, <2>1, <2>2, <2>3, InvariantParts, StencilsAside
<1>7. EvaluationsWell'
  <2>1. /\ IsFiniteSet(Evaluating')
        /\ NumberRegular' = NumberRegular /\ NumberOfSpeculative' = NumberOfSpeculative - 1
        /\ NumberOfRequests' \in Nat /\ NumberOfRequests' <= NumberOfRequests
    BY <1>3, InvariantParts, NumbersAfterResult
  <2>2. /\ NumberRegular \in Nat /\ NumberOfSpeculative \in Nat /\ NumberOfRequests \in Nat
    BY InvariantParts, NumberFacts
  <2>3. /\ EvaluationLimit \in Nat /\ Cardinality(Threads) \in Nat /\ Balance \in Int
        /\ numberSpeculative \in Int /\ uncounted[First] \in Nat /\ completedSpeculative \in Nat
    BY InvariantParts, BalanceFacts
  <2>4. Balance' - Balance = NumberRegular' - NumberRegular
    <3>1. Balance' = Balance
      BY <1>1 DEF Balance, CountingThreads
    <3>2. QED
      BY <2>1, <2>2, <2>3, <3>1
  <2>5. SpeculativeBalance' - SpeculativeBalance = NumberOfSpeculative' - NumberOfSpeculative
    <3>1. SpeculativeBalance' = (numberSpeculative + uncounted[First]) - (completedSpeculative + 1)
      BY <1>1 DEF SpeculativeBalance
    <3>2. QED
      BY <2>1, <2>2, <2>3, <3>1 DEF SpeculativeBalance
  <2>6. numberSpeculative' + uncounted'[First] <= EvaluationLimit
    BY <1>1, InvariantParts DEF EvaluationsWell, SpeculationCounted
  <2>7. NumberOfRequests <= EvaluationLimit + Cardinality(Threads) - 1
    BY InvariantParts DEF EvaluationsWell, LimitKept, NumberOfRequests, RequestsEvaluating
  <2>8. NumberOfRequests' <= EvaluationLimit + Cardinality(Threads) - 1
    BY <2>1, <2>2, <2>3, <2>7
  <2>9. QED
    BY <2>1, <2>4, <2>5, <2>6, <2>8, InvariantParts, CountersInStep
<1>8. QED
  BY <1>2, <1>4, <1>5, <1>6, <1>7 DEF PackagesWell, PackagesPlaced

(* A result whose id is not in the map is that of a request.                *)
LEMMA ForAlgorithmMoves ==
    ASSUME SamplingInvariant, ForAlgorithm,
           UNCHANGED <<received, generated, receivePile, work, held, spc, pile, atBroker, results>>,
           UNCHANGED <<answers, undelivered>>
    PROVE  /\ Result \in Evaluating /\ Result \in PackageType
           /\ Result.kind = "request" /\ Result.id \notin DOMAIN additional
           /\ Result \notin Shipping
           /\ WaitingWell' /\ Waiting' = Waiting
           /\ EvaluatingWell' /\ Evaluating' = Evaluating \ {Result}
           /\ ShippingWell' /\ Shipping' = Shipping \cup {Result}
<1> DEFINE p == Result
<1>1. /\ Processing /\ batch' = Tail(batch) /\ current' = <<p>> /\ vpc = "process"
      /\ IsRegular(p) /\ p.id \notin DOMAIN additional
  BY DEF ForAlgorithm, IsForAlgorithm, Processing
<1>2. /\ p \in Evaluating /\ p \in PackageType /\ (IsRegular(p) => p.value = "value")
      /\ EvaluatingWell' /\ Evaluating' = Evaluating \ {p}
  BY <1>1, InvariantParts, ResultMoves
<1> HIDE DEF p
<1>3. p.kind = "request"
  <2>1. p.kind \in {"request", "sample"}
    BY <1>1, <1>2, InvariantParts, PackageFacts DEF TypeOK
  <2>2. QED
    BY <1>1, <1>2, <2>1, InvariantParts DEF StencilsWell, StencilsTracked
<1>4. p.id <= received /\ p.value = "value" /\ p \notin Shipping
  BY <1>1, <1>2, <1>3, InvariantParts DEF EvaluatingWell, EvaluatedAreValued, OneValue
<1>5. ShippingWell' /\ Shipping' = Shipping \cup {p}
  BY <1>1, <1>2, <1>3, <1>4, InvariantParts, CurrentMoves
<1>6. WaitingWell' /\ Waiting' = Waiting
  BY WaitingStays
<1>7. QED
  BY <1>1, <1>2, <1>3, <1>4, <1>5, <1>6 DEF p

(* It is the result of a request, to be shipped next.                       *)
LEMMA InsertResultKept ==
    ASSUME SamplingInvariant, TypesAndPlaces', InsertResult
    PROVE  PackagesWell'
<1>1. /\ UNCHANGED <<received, generated, receivePile, work, held, spc, pile, atBroker, results>>
      /\ UNCHANGED <<answers, undelivered>> /\ UNCHANGED <<additional, extra>>
      /\ UNCHANGED <<numberEvaluations, numberSpeculative, uncounted, completedSpeculative>>
      /\ ForAlgorithm /\ Processing /\ IsRegular(Result) /\ completed' = completed + 1
  BY DEF InsertResult, ForAlgorithm, algorithm, receiver, samplers, counters, brokers
<1> DEFINE p == Result
<1>2. /\ p \in Evaluating /\ p.kind = "request" /\ p \notin Shipping
      /\ WaitingWell' /\ Waiting' = Waiting
      /\ EvaluatingWell' /\ Evaluating' = Evaluating \ {p}
      /\ ShippingWell' /\ Shipping' = Shipping \cup {p}
  BY <1>1, ForAlgorithmMoves
<1>3. EvaluationsWell'
  <2>1. Balance' = Balance - 1
    <3>1. Balance' = (numberEvaluations + Cardinality(CountingThreads)) - (completed + 1 + Len(extra))
      BY <1>1 DEF Balance, CountingThreads
    <3>2. QED
      BY <3>1, InvariantParts, BalanceFacts DEF Balance
  <2>2. QED
    BY <1>1, <1>2, <2>1, RegularResultCounted
<1> HIDE DEF p
<1>4. OneValue'
  <2>1. Places' \subseteq Places
    BY <1>1, <1>2 DEF Places
  <2>2. OneOfEach(Places')
    BY <2>1, InvariantParts, OneOfEachFacts DEF OneValue
  <2>3. /\ Waiting' \cap Evaluating' = {} /\ Shipping' \cap (Waiting' \cup Evaluating') = {}
    BY <1>2, InvariantParts DEF OneValue
  <2>4. QED
    BY <2>2, <2>3 DEF OneValue, OneOfEach
<1>5. StencilsWell'
  <2>1. \A x \in Waiting' \cup Evaluating' :
            \/ x.id \notin DOMAIN additional
            \/ \E y \in Waiting \cup Evaluating \cup Range(extra) : Same(y, x)
    BY <1>2 DEF Same
  <2>2. \A id : SamplesUnderway(id)' = SamplesUnderway(id)
    BY <1>1, <1>2 DEF SamplesUnderway
  <2>3. /\ IsInjective(extra') /\ Range(extra') \subseteq Range(extra)
        /\ Range(extra') \cap Evaluating' = {} /\ Shipping \subseteq Shipping'
        /\ \A x \in Evaluating' : x.kind = "sample" => x.id \in DOMAIN additional
    BY <1>1, <1>2, InvariantParts DEF StencilsWell, StencilsOpen, StencilsTracked
  <2>4. QED
    BY <1>1, <2>1, <2>2, <2>3, InvariantParts, StencilsAside
<1>6. QED
  BY <1>2, <1>3, <1>4, <1>5 DEF PackagesWell, PackagesPlaced

(* The samples of a stencil go on the pile.                                 *)
LEMMA PushSamplesKept ==
    ASSUME SamplingInvariant, TypesAndPlaces', PushSamples
    PROVE  PackagesWell'
<1> DEFINE N == Range(extra)
<1>1. /\ UNCHANGED <<received, generated, receivePile, work, held, spc, atBroker, results, batch>>
      /\ UNCHANGED <<answers, undelivered, current, additional>>
      /\ UNCHANGED <<numberEvaluations, numberSpeculative, uncounted>>
      /\ UNCHANGED <<completed, completedSpeculative>>
      /\ pile' = extra \o pile /\ extra' = <<>>
  BY DEF PushSamples, algorithm, receiver, samplers, counters, brokers, round
<1>2. /\ extra \in Seq(PackageType) /\ IsInjective(extra) /\ N \subseteq PackageType
      /\ \A p \in N : /\ p.kind = "sample" /\ p.id \in DOMAIN additional /\ p \notin Evaluating
                      /\ p.value = "none"
  BY InvariantParts, RangeOfSeq DEF TypeOK, ValuesTypeOK, StencilsWell, StencilsOpen
<1>3. IsFiniteSet(N) /\ Cardinality(N) = Len(extra)
  BY <1>2, RangeCardinality
<1>4. /\ WaitingWell' /\ Waiting' = Waiting
      /\ ShippingWell' /\ Shipping' = Shipping
  BY <1>1, WaitingStays, ShippingStays
<1>5. Range(extra') = {} /\ IsInjective(extra') /\ Len(extra') = 0
  BY <1>1 DEF Range, IsInjective
<1>6. pile \in Seq(PackageType) /\ IsInjective(pile) /\ Range(pile) \cap N = {}
  BY <1>2, InvariantParts, EvaluatingMembers DEF TypeOK, SharedTypeOK, EvaluatingWell, EvaluatingOnce
<1>7. IsInjective(pile') /\ Range(pile') = Range(pile) \cup N
  <2>1. Range(extra) \cap Range(pile) = {}
    BY <1>6
  <2>2. QED
    BY <1>1, <1>2, <1>6, <2>1, ConcatFacts
<1> HIDE DEF N
<1>8. EvaluatingWell' /\ Evaluating' = Evaluating \cup N
  <2>1. N \cap Evaluating = {} /\ Unvalued(N)
    BY <1>2 DEF Unvalued
  <2>2. \A x \in Evaluating \cup N : /\ x.kind = "request" => x.id <= received'
                                     /\ x.kind = "speculative" => x.n <= generated'
    BY <1>1, <1>2, InvariantParts DEF EvaluatingWell, EvaluatedAreValued
  <2>3. QED
    BY <1>1, <1>7, <2>1, <2>2, InvariantParts, PileGrows
<1>9. OneValue'
  <2>1. Places' \subseteq Places
    BY <1>4, <1>5, <1>8 DEF Places, N
  <2>2. OneOfEach(Places')
    BY <2>1, InvariantParts, OneOfEachFacts DEF OneValue
  <2>3. \A p \in Waiting \cup Shipping : p.kind = "request"
    BY InvariantParts DEF WaitingWell, WaitingAreNew, ShippingWell, ShippingAreValued
  <2>4. /\ Waiting' \cap Evaluating' = {} /\ Shipping' \cap (Waiting' \cup Evaluating') = {}
    BY <1>2, <1>4, <1>8, <2>3, InvariantParts DEF OneValue
  <2>5. QED
    BY <2>2, <2>4 DEF OneValue, OneOfEach
<1>10. StencilsWell'
  <2>1. \A x \in Waiting' \cup Evaluating' :
            \/ x.id \notin DOMAIN additional
            \/ \E y \in Waiting \cup Evaluating \cup Range(extra) : Same(y, x)
    BY <1>4, <1>8 DEF Same, N
  <2>2. \A id : SamplesUnderway(id)' = SamplesUnderway(id)
    BY <1>5, <1>8 DEF SamplesUnderway, N
  <2>3. /\ IsInjective(extra') /\ Range(extra') \subseteq Range(extra)
        /\ Range(extra') \cap Evaluating' = {} /\ Shipping \subseteq Shipping'
        /\ \A x \in Evaluating' : x.kind = "sample" => x.id \in DOMAIN additional
    BY <1>2, <1>4, <1>5, <1>8, InvariantParts DEF StencilsWell, StencilsTracked
  <2>4. QED
    BY <1>1, <2>1, <2>2, <2>3, InvariantParts, StencilsAside
<1>11. EvaluationsWell'
  <2>1. N \cap Evaluating = {} /\ \A x \in N : IsRegular(x) /\ x.kind # "request"
    BY <1>2 DEF IsRegular
  <2>2. /\ IsFiniteSet(Evaluating') /\ NumberRegular' = NumberRegular + Cardinality(N)
        /\ NumberOfSpeculative' = NumberOfSpeculative /\ NumberOfRequests' = NumberOfRequests
    BY <1>3, <1>8, <2>1, InvariantParts, NumbersAfterPile
  <2>3. NumberRegular \in Nat /\ NumberOfSpeculative \in Nat
    BY InvariantParts, NumberFacts
  <2>4. Balance' - Balance = NumberRegular' - NumberRegular
    <3>1. Balance' = (numberEvaluations + Cardinality(CountingThreads)) - (completed + 0)
      BY <1>1, <1>5 DEF Balance, CountingThreads
    <3>2. /\ numberEvaluations \in Int /\ completed \in Nat
          /\ Len(extra) \in Nat /\ Cardinality(CountingThreads) \in Nat
      BY InvariantParts, BalanceFacts
    <3>3. Balance = (numberEvaluations + Cardinality(CountingThreads)) - (completed + Len(extra))
      BY DEF Balance
    <3>4. QED
      BY <1>3, <2>2, <2>3, <3>1, <3>2, <3>3
  <2>5. /\ SpeculativeBalance' = SpeculativeBalance
        /\ numberSpeculative' + uncounted'[First] <= EvaluationLimit
    BY <1>1, InvariantParts DEF SpeculativeBalance, EvaluationsWell, SpeculationCounted
  <2>6. SpeculativeBalance' - SpeculativeBalance = NumberOfSpeculative' - NumberOfSpeculative
    BY <2>2, <2>3, <2>5, InvariantParts, BalanceFacts
  <2>7. NumberOfRequests' <= EvaluationLimit + Cardinality(Threads) - 1
    BY <2>2, InvariantParts DEF EvaluationsWell, LimitKept, NumberOfRequests, RequestsEvaluating
  <2>8. QED
    BY <2>2, <2>4, <2>5, <2>6, <2>7, InvariantParts, CountersInStep
<1>12. QED
  BY <1>4, <1>8, <1>9, <1>10, <1>11 DEF PackagesWell, PackagesPlaced

(* It could not be inserted: a stencil is opened around it.                 *)
LEMMA StartStencilKept ==
    ASSUME SamplingInvariant, TypesAndPlaces', StartStencil
    PROVE  PackagesWell'
<1> DEFINE p == Result
           r == Result.id
           N == Range(Samples(r))
<1>1. /\ UNCHANGED <<received, generated, receivePile, work, held, spc, pile, atBroker, results>>
      /\ UNCHANGED <<answers, undelivered>>
      /\ UNCHANGED <<numberSpeculative, uncounted, completedSpeculative>>
      /\ ForAlgorithm /\ Processing /\ IsRegular(Result) /\ completed' = completed + 1
      /\ extra' = Samples(r) /\ numberEvaluations' = numberEvaluations + StencilSize[r]
      /\ additional' = [id \in DOMAIN additional \cup {r} |->
             IF id \in DOMAIN additional THEN additional[id] ELSE StencilAround(Result)]
  BY DEF StartStencil, ForAlgorithm, algorithm, receiver, samplers, counters, brokers
<1>2. /\ p \in Evaluating /\ p.kind = "request" /\ p \notin Shipping /\ p \in PackageType
      /\ r \notin DOMAIN additional
      /\ WaitingWell' /\ Waiting' = Waiting
      /\ EvaluatingWell' /\ Evaluating' = Evaluating \ {p}
      /\ ShippingWell' /\ Shipping' = Shipping \cup {p}
  BY <1>1, ForAlgorithmMoves
<1>3. r \in Requests /\ p.id = r /\ p.n = 0 /\ StencilSize[r] \in Nat
  <2>1. r \in Requests /\ p.n = 0
    BY <1>1, <1>2, InvariantParts, PackageFacts DEF TypeOK
  <2>2. QED
    BY <2>1, SamplingAssumption DEF Requests
<1>4. Range(extra) = {} /\ Len(extra) = 0
  <2>1. extra = <<>>
    BY <1>1, InvariantParts DEF Processing, ValuesInStep
  <2>2. QED
    BY <2>1 DEF Range
<1>5. /\ extra' \in Seq(PackageType) /\ IsInjective(extra') /\ Range(extra') = N
      /\ Len(extra') = StencilSize[r] /\ N \subseteq PackageType
      /\ \A q \in N : q.id = r /\ q.kind = "sample" /\ q.value = "none"
  <2>1. Samples(r) \in Seq(PackageType) /\ IsInjective(Samples(r)) /\ Len(Samples(r)) = StencilSize[r]
        /\ \A q \in Range(Samples(r)) : q.id = r /\ q.kind = "sample" /\ q.value = "none"
    BY <1>3, InvariantParts, SamplesFacts DEF TypeOK
  <2>2. QED
    BY <1>1, <2>1, RangeOfSeq
<1>6. IsFiniteSet(N) /\ Cardinality(N) = StencilSize[r]
  BY <1>5, RangeCardinality
<1>7. EvaluationsWell'
  <2>1. Balance' = Balance - 1
    <3>1. Balance' = (numberEvaluations + StencilSize[r] + Cardinality(CountingThreads))
                         - (completed + 1 + StencilSize[r])
      BY <1>1, <1>5 DEF Balance, CountingThreads
    <3>2. Balance = (numberEvaluations + Cardinality(CountingThreads)) - (completed + 0)
      BY <1>4 DEF Balance
    <3>3. /\ numberEvaluations \in Int /\ Cardinality(CountingThreads) \in Nat /\ completed \in Nat
      BY InvariantParts, BalanceFacts
    <3>4. QED
      BY <1>3, <3>1, <3>2, <3>3
  <2>2. QED
    BY <1>1, <1>2, <2>1, RegularResultCounted
<1>8. /\ DOMAIN additional' = DOMAIN additional \cup {r}
      /\ \A id \in DOMAIN additional : additional'[id] = additional[id] /\ id # r
      /\ additional'[r] = [needed |-> StencilSize[r] + 1, members |-> <<p>>]
  BY <1>1, <1>2 DEF StencilAround
<1> HIDE DEF p, r, N
<1>9. \A q \in Places : q.kind = "sample" => q.id # r
  <2>1. \A q \in Waiting \cup Shipping : q.kind = "request"
    BY InvariantParts DEF WaitingWell, WaitingAreNew, ShippingWell, ShippingAreValued
  <2>2. \A q \in Evaluating : q.kind = "sample" => q.id \in DOMAIN additional
    BY InvariantParts DEF StencilsWell, StencilsTracked
  <2>3. QED
    BY <1>2, <1>4, <2>1, <2>2 DEF Places
<1>10. \A x \in Places, q \in N : ~Same(x, q)
  BY <1>5, <1>9 DEF Same
<1>11. OneValue'
  <2>1. OneOfEach(N)
    <3>1. \A q \in PackageType : q = [id |-> q.id, kind |-> q.kind, n |-> q.n, value |-> q.value]
      BY DEF PackageType
    <3>2. ASSUME NEW x \in N, NEW y \in N, Same(x, y) PROVE x = y
      <4>1. x.id = y.id /\ x.kind = y.kind /\ x.n = y.n /\ x.value = y.value
        BY <1>5, <3>2 DEF Same
      <4>2. QED
        BY <1>5, <3>1, <4>1
    <3>3. QED
      BY <3>2 DEF OneOfEach
  <2>2. Places' \subseteq Places \cup N
    BY <1>2, <1>5 DEF Places
  <2>3. OneOfEach(Places \cup N)
    <3>1. OneOfEach(Places)
      BY InvariantParts DEF OneValue
    <3>2. QED
      BY <1>10, <2>1, <3>1, OneOfEachFacts
  <2>4. OneOfEach(Places')
    BY <2>2, <2>3, OneOfEachFacts
  <2>5. /\ Waiting' \cap Evaluating' = {} /\ Shipping' \cap (Waiting' \cup Evaluating') = {}
    BY <1>2, InvariantParts DEF OneValue
  <2>6. QED
    BY <2>4, <2>5 DEF OneValue, OneOfEach
<1>12. \A q \in Waiting' \cup Evaluating' : ~Same(p, q)
  <2>1. p \in Places /\ p \notin Waiting' \cup Evaluating'
    BY <1>2, InvariantParts DEF OneValue, Places
  <2>2. Waiting' \cup Evaluating' \subseteq Places /\ OneOfEach(Places)
    BY <1>2, InvariantParts DEF OneValue, Places
  <2>3. QED
    BY <2>1, <2>2 DEF OneOfEach
<1>13. StencilsOpen'
  <2>1. \A q \in Range(extra') :
            /\ q.kind = "sample" /\ q.id \in DOMAIN additional' /\ q \notin Evaluating'
            /\ q.value = "none"
    <3>1. \A q \in N : q \notin Evaluating'
      BY <1>2, <1>10 DEF Places, Same
    <3>2. QED
      BY <1>5, <1>8, <3>1
  <2>2. ASSUME NEW id \in DOMAIN additional
        PROVE  /\ additional'[id].members # <<>> /\ additional'[id].members[1] \in Shipping'
               /\ \A x \in Range(additional'[id].members) :
                   \A q \in Waiting' \cup Evaluating' \cup Range(extra') : ~Same(x, q)
               /\ \A q \in Waiting' \cup Evaluating' : q.kind = "request" => q.id # id
    <3>1. /\ additional[id].members # <<>> /\ additional[id].members[1] \in Shipping
          /\ \A x \in Range(additional[id].members) :
              \A q \in Waiting \cup Evaluating \cup Range(extra) : ~Same(x, q)
          /\ \A q \in Waiting \cup Evaluating : q.kind = "request" => q.id # id
      BY InvariantParts DEF StencilsWell, StencilsOpen
    <3>2. \A x \in Range(additional[id].members), q \in N : ~Same(x, q)
      BY <1>5, <1>8, OpenStencils DEF Same
    <3>3. additional'[id] = additional[id]
      BY <1>8
    <3>4. QED
      BY <1>2, <1>5, <3>1, <3>2, <3>3
  <2>3. /\ additional'[r].members # <<>> /\ additional'[r].members[1] \in Shipping'
        /\ \A x \in Range(additional'[r].members) :
            \A q \in Waiting' \cup Evaluating' \cup Range(extra') : ~Same(x, q)
        /\ \A q \in Waiting' \cup Evaluating' : q.kind = "request" => q.id # r
    <3>1. additional'[r].members = <<p>>
      BY <1>8
    <3>2. Range(<<p>>) = {p} /\ <<p>> # <<>> /\ <<p>>[1] = p
      BY DEF Range
    <3>3. \A q \in N : ~Same(p, q)
      BY <1>2, <1>5 DEF Same
    <3>4. \A q \in Waiting' \cup Evaluating' : q.kind = "request" => q.id # r
      <4>1. \A q \in Waiting' \cup Evaluating' : q \in PackageType
        BY <1>2, InvariantParts, WaitingTyped, EvaluatingTyped
      <4>2. \A q \in PackageType : q.kind = "request" => q.n = 0
        BY InvariantParts, PackageFacts DEF TypeOK
      <4>3. QED
        BY <1>2, <1>3, <1>12, <4>1, <4>2 DEF Same
    <3>5. QED
      BY <1>2, <1>5, <1>12, <3>1, <3>2, <3>3, <3>4
  <2>4. QED
    BY <1>5, <1>8, <2>1, <2>2, <2>3 DEF StencilsOpen
<1>14. StencilsTracked'
  <2>1. \A q \in Evaluating' : q.kind = "sample" => q.id \in DOMAIN additional'
    BY <1>2, <1>8, InvariantParts DEF StencilsWell, StencilsTracked
  <2>2. ASSUME NEW id \in DOMAIN additional
        PROVE  /\ Len(additional'[id].members) + Cardinality(SamplesUnderway(id)')
                      = additional'[id].needed
               /\ IsInjective(additional'[id].members)
               /\ \A q \in Range(additional'[id].members) : q.id = id
               /\ additional'[id].members[1].kind = "request"
    <3>1. SamplesUnderway(id)' = SamplesUnderway(id)
      BY <1>2, <1>4, <1>5, <1>8 DEF SamplesUnderway
    <3>2. additional'[id] = additional[id]
      BY <1>8
    <3>3. QED
      BY <3>1, <3>2, InvariantParts DEF StencilsWell, StencilsTracked
  <2>3. ASSUME NEW id, id = r
        PROVE  /\ Len(additional'[id].members) + Cardinality(SamplesUnderway(id)')
                      = additional'[id].needed
               /\ IsInjective(additional'[id].members)
               /\ \A q \in Range(additional'[id].members) : q.id = id
               /\ additional'[id].members[1].kind = "request"
    <3>1. SamplesUnderway(id)' = N
      BY <1>2, <1>5, <1>9, <2>3 DEF SamplesUnderway, Places
    <3>2. additional'[id].members = <<p>> /\ additional'[id].needed = StencilSize[r] + 1
      BY <1>8, <2>3
    <3>3. Range(<<p>>) = {p} /\ IsInjective(<<p>>) /\ Len(<<p>>) = 1 /\ <<p>>[1] = p
      BY DEF Range, IsInjective
    <3>4. Len(<<p>>) + Cardinality(N) = StencilSize[r] + 1
      BY <1>3, <1>6, <3>3
    <3>5. QED
      BY <1>2, <1>3, <2>3, <3>1, <3>2, <3>3, <3>4
  <2>4. QED
    BY <1>8, <2>1, <2>2, <2>3 DEF StencilsTracked
<1>15. QED
  BY <1>2, <1>7, <1>11, <1>13, <1>14 DEF PackagesWell, PackagesPlaced, StencilsWell

(* A result whose id is in the map is a sample of that stencil.             *)
LEMMA ForStencilMoves ==
    ASSUME SamplingInvariant, TypesAndPlaces', ForStencil,
           UNCHANGED <<received, generated, receivePile, work, held, spc, pile, atBroker, results>>,
           UNCHANGED <<answers, undelivered, current, extra, numberEvaluations>>,
           UNCHANGED <<numberSpeculative, uncounted, completedSpeculative>>
    PROVE  /\ Result \in Evaluating /\ Result \in PackageType
           /\ Result.kind = "sample" /\ Result.id \in DOMAIN additional
           /\ WaitingWell' /\ Waiting' = Waiting
           /\ EvaluatingWell' /\ Evaluating' = Evaluating \ {Result}
           /\ ShippingWell' /\ Shipping' = Shipping
           /\ OneValue' /\ EvaluationsWell' /\ Range(extra) = {}
           /\ \A x \in Waiting' \cup Evaluating' : ~Same(Result, x)
<1> DEFINE p == Result
<1>1. /\ Processing /\ batch' = Tail(batch) /\ vpc = "process" /\ completed' = completed + 1
      /\ IsRegular(p) /\ p.id \in DOMAIN additional
  BY DEF ForStencil, IsForAlgorithm, Processing
<1>2. /\ p \in Evaluating /\ p \in PackageType
      /\ EvaluatingWell' /\ Evaluating' = Evaluating \ {p}
  BY <1>1, InvariantParts, ResultMoves
<1>3. EvaluationsWell'
  <2>1. Balance' = Balance - 1
    <3>1. Balance' = (numberEvaluations + Cardinality(CountingThreads)) - (completed + 1 + Len(extra))
      BY <1>1 DEF Balance, CountingThreads
    <3>2. QED
      BY <3>1, InvariantParts, BalanceFacts DEF Balance
  <2>2. QED
    BY <1>1, <1>2, <2>1, RegularResultCounted
<1> HIDE DEF p
<1>4. p.kind = "sample"
  <2>1. p.kind \in {"request", "sample"}
    BY <1>1, <1>2, InvariantParts, PackageFacts DEF TypeOK
  <2>2. QED
    BY <1>1, <1>2, <2>1, InvariantParts DEF StencilsWell, StencilsOpen
<1>5. /\ WaitingWell' /\ Waiting' = Waiting
      /\ ShippingWell' /\ Shipping' = Shipping
  BY WaitingStays, ShippingStays
<1>6. OneValue'
  <2>1. Places' \subseteq Places
    BY <1>2, <1>5 DEF Places
  <2>2. OneOfEach(Places')
    BY <2>1, InvariantParts, OneOfEachFacts DEF OneValue
  <2>3. /\ Waiting' \cap Evaluating' = {} /\ Shipping' \cap (Waiting' \cup Evaluating') = {}
    BY <1>2, <1>5, InvariantParts DEF OneValue
  <2>4. QED
    BY <2>2, <2>3 DEF OneValue, OneOfEach
<1>7. Range(extra) = {}
  <2>1. extra = <<>>
    BY <1>1, InvariantParts DEF ValuesInStep
  <2>2. QED
    BY <2>1 DEF Range
<1>8. \A x \in Waiting' \cup Evaluating' : ~Same(p, x)
  <2>1. p \in Places /\ p \notin Waiting' \cup Evaluating'
    BY <1>2, <1>5, InvariantParts DEF OneValue, Places
  <2>2. Waiting' \cup Evaluating' \subseteq Places /\ OneOfEach(Places)
    BY <1>2, <1>5, InvariantParts DEF OneValue, Places
  <2>3. QED
    BY <2>1, <2>2 DEF OneOfEach
<1>9. QED
  BY <1>1, <1>2, <1>3, <1>4, <1>5, <1>6, <1>7, <1>8 DEF p

(* The other stencils do not notice.                                        *)
LEMMA OtherStencils ==
    ASSUME SamplingInvariant, NEW p \in Evaluating, Evaluating' = Evaluating \ {p},
           p.kind = "sample", Waiting' = Waiting, Shipping' = Shipping, extra' = extra,
           NEW id \in DOMAIN additional, id # p.id, additional'[id] = additional[id]
    PROVE  /\ additional'[id].members # <<>> /\ additional'[id].members[1] \in Shipping'
           /\ \A x \in Range(additional'[id].members) :
               \A q \in Waiting' \cup Evaluating' \cup Range(extra') : ~Same(x, q)
           /\ \A q \in Waiting' \cup Evaluating' : q.kind = "request" => q.id # id
           /\ Len(additional'[id].members) + Cardinality(SamplesUnderway(id)')
                  = additional'[id].needed
           /\ IsInjective(additional'[id].members)
           /\ \A q \in Range(additional'[id].members) : q.id = id
           /\ additional'[id].members[1].kind = "request"
<1>1. /\ additional[id].members # <<>> /\ additional[id].members[1] \in Shipping
      /\ \A x \in Range(additional[id].members) :
          \A q \in Waiting \cup Evaluating \cup Range(extra) : ~Same(x, q)
      /\ \A q \in Waiting \cup Evaluating : q.kind = "request" => q.id # id
  BY InvariantParts DEF StencilsWell, StencilsOpen
<1>2. SamplesUnderway(id)' = SamplesUnderway(id)
  BY DEF SamplesUnderway
<1>3. /\ Len(additional[id].members) + Cardinality(SamplesUnderway(id)) = additional[id].needed
      /\ IsInjective(additional[id].members)
      /\ \A q \in Range(additional[id].members) : q.id = id
      /\ additional[id].members[1].kind = "request"
  BY InvariantParts DEF StencilsWell, StencilsTracked
<1>4. QED
  BY <1>1, <1>2, <1>3

(* A sample joins its stencil.                                              *)
LEMMA GatherSampleKept ==
    ASSUME SamplingInvariant, TypesAndPlaces', GatherSample
    PROVE  PackagesWell'
<1>1. /\ UNCHANGED <<received, generated, receivePile, work, held, spc, pile, atBroker, results>>
      /\ UNCHANGED <<answers, undelivered, current, extra, numberEvaluations>>
      /\ UNCHANGED <<numberSpeculative, uncounted, completedSpeculative>>
      /\ ForStencil
      /\ additional' = [additional EXCEPT ![Result.id].members
                            = Append(additional[Result.id].members, Result)]
  BY DEF GatherSample, Gathered, algorithm, receiver, samplers, counters, brokers
<1>2. PICK p \in PackageType, r \in DOMAIN additional : p = Result /\ r = p.id
  BY <1>1, ForStencilMoves
<1>3. /\ p \in Evaluating /\ p.kind = "sample"
      /\ WaitingWell' /\ Waiting' = Waiting
      /\ EvaluatingWell' /\ Evaluating' = Evaluating \ {p}
      /\ ShippingWell' /\ Shipping' = Shipping
      /\ OneValue' /\ EvaluationsWell' /\ Range(extra) = {}
      /\ \A x \in Waiting' \cup Evaluating' : ~Same(p, x)
  BY <1>1, <1>2, ForStencilMoves
<1> DEFINE members == additional[r].members
<1>4. /\ members \in Seq(PackageType) /\ additional[r].needed \in Nat
      /\ members # <<>> /\ members[1] \in Shipping
      /\ \A x \in Range(members) : x.id = r
      /\ \A x \in Range(members) : \A q \in Waiting \cup Evaluating : ~Same(x, q)
      /\ \A q \in Waiting \cup Evaluating : q.kind = "request" => q.id # r
      /\ Len(members) + Cardinality(SamplesUnderway(r)) = additional[r].needed
      /\ IsInjective(members) /\ members[1].kind = "request"
  BY InvariantParts DEF TypeOK, ValuesTypeOK, StencilsWell, StencilsOpen, StencilsTracked
<1>5. /\ DOMAIN additional' = DOMAIN additional
      /\ \A id \in DOMAIN additional : id # r => additional'[id] = additional[id]
      /\ additional'[r].members = Append(members, p)
      /\ additional'[r].needed = additional[r].needed
  BY <1>1, <1>2, InvariantParts DEF TypeOK, ValuesTypeOK
<1> HIDE DEF members
<1>6. /\ Range(Append(members, p)) = Range(members) \cup {p}
      /\ IsInjective(Append(members, p))
      /\ Len(Append(members, p)) = Len(members) + 1
      /\ Append(members, p) # <<>> /\ Append(members, p)[1] = members[1]
      /\ Len(members) \in Nat
  <2>1. p \notin Range(members)
    BY <1>3, <1>4 DEF Same
  <2>2. Range(Append(members, p)) = Range(members) \cup {p} /\ IsInjective(Append(members, p))
    BY <1>4, <2>1, AppendFacts
  <2>3. /\ Len(Append(members, p)) = Len(members) + 1 /\ Len(members) \in Nat /\ Len(members) >= 1
        /\ Append(members, p)[1] = members[1]
    BY <1>4
  <2>4. Append(members, p) # <<>>
    BY <1>4
  <2>5. QED
    BY <2>2, <2>3, <2>4
<1>7. StencilsOpen'
  <2>1. \A x \in Range(extra') :
            /\ x.kind = "sample" /\ x.id \in DOMAIN additional' /\ x \notin Evaluating'
            /\ x.value = "none"
    BY <1>1, <1>3
  <2>2. ASSUME NEW id \in DOMAIN additional
        PROVE  /\ additional'[id].members # <<>> /\ additional'[id].members[1] \in Shipping'
               /\ \A x \in Range(additional'[id].members) :
                   \A q \in Waiting' \cup Evaluating' \cup Range(extra') : ~Same(x, q)
               /\ \A q \in Waiting' \cup Evaluating' : q.kind = "request" => q.id # id
    <3>1. ASSUME id = r
          PROVE  /\ additional'[id].members # <<>> /\ additional'[id].members[1] \in Shipping'
                 /\ \A x \in Range(additional'[id].members) :
                     \A q \in Waiting' \cup Evaluating' \cup Range(extra') : ~Same(x, q)
                 /\ \A q \in Waiting' \cup Evaluating' : q.kind = "request" => q.id # id
      <4>1. additional'[id].members = Append(members, p) /\ extra' = extra
        BY <1>1, <1>5, <3>1
      <4>2. ASSUME NEW x \in Range(members) \cup {p}, NEW q \in Waiting' \cup Evaluating'
            PROVE  ~Same(x, q)
        BY <1>3, <1>4
      <4>3. \A q \in Waiting' \cup Evaluating' : q.kind = "request" => q.id # id
        BY <1>3, <1>4, <3>1
      <4>4. Append(members, p) # <<>> /\ Append(members, p)[1] \in Shipping'
        BY <1>3, <1>4, <1>6
      <4>5. QED
        BY <1>3, <1>6, <4>1, <4>2, <4>3, <4>4
    <3>2. ASSUME id # r
          PROVE  /\ additional'[id].members # <<>> /\ additional'[id].members[1] \in Shipping'
                 /\ \A x \in Range(additional'[id].members) :
                     \A q \in Waiting' \cup Evaluating' \cup Range(extra') : ~Same(x, q)
                 /\ \A q \in Waiting' \cup Evaluating' : q.kind = "request" => q.id # id
      <4>1. extra' = extra /\ id # p.id /\ additional'[id] = additional[id]
        BY <1>1, <1>2, <1>5, <3>2
      <4>2. QED
        BY <1>3, <4>1, OtherStencils
    <3>3. QED
      BY <3>1, <3>2
  <2>3. IsInjective(extra')
    BY <1>1, InvariantParts DEF StencilsWell, StencilsOpen
  <2>4. QED
    BY <1>5, <2>1, <2>2, <2>3 DEF StencilsOpen
<1>8. StencilsTracked'
  <2>1. \A q \in Evaluating' : q.kind = "sample" => q.id \in DOMAIN additional'
    BY <1>3, <1>5, InvariantParts DEF StencilsWell, StencilsTracked
  <2>2. ASSUME NEW id \in DOMAIN additional
        PROVE  /\ Len(additional'[id].members) + Cardinality(SamplesUnderway(id)')
                      = additional'[id].needed
               /\ IsInjective(additional'[id].members)
               /\ \A q \in Range(additional'[id].members) : q.id = id
               /\ additional'[id].members[1].kind = "request"
    <3>1. ASSUME id = r
          PROVE  /\ Len(additional'[id].members) + Cardinality(SamplesUnderway(id)')
                        = additional'[id].needed
                 /\ IsInjective(additional'[id].members)
                 /\ \A q \in Range(additional'[id].members) : q.id = id
                 /\ additional'[id].members[1].kind = "request"
      <4>1. p \in SamplesUnderway(r) /\ SamplesUnderway(id)' = SamplesUnderway(r) \ {p}
        BY <1>1, <1>2, <1>3, <3>1 DEF SamplesUnderway
      <4>2. /\ Cardinality(SamplesUnderway(id)') = Cardinality(SamplesUnderway(r)) - 1
            /\ Cardinality(SamplesUnderway(r)) \in Nat
        <5>1. IsFiniteSet(SamplesUnderway(r))
          BY SamplesFinite
        <5>2. QED
          BY <4>1, <5>1, CountingElements
      <4>3. Len(Append(members, p)) + Cardinality(SamplesUnderway(id)') = additional[r].needed
        BY <1>4, <1>6, <4>2
      <4>4. \A q \in Range(Append(members, p)) : q.id = r
        BY <1>2, <1>4, <1>6
      <4>5. QED
        BY <1>4, <1>5, <1>6, <3>1, <4>3, <4>4
    <3>2. ASSUME id # r
          PROVE  /\ Len(additional'[id].members) + Cardinality(SamplesUnderway(id)')
                        = additional'[id].needed
                 /\ IsInjective(additional'[id].members)
                 /\ \A q \in Range(additional'[id].members) : q.id = id
                 /\ additional'[id].members[1].kind = "request"
      <4>1. extra' = extra /\ id # p.id /\ additional'[id] = additional[id]
        BY <1>1, <1>2, <1>5, <3>2
      <4>2. QED
        BY <1>3, <4>1, OtherStencils
    <3>3. QED
      BY <3>1, <3>2
  <2>3. QED
    BY <1>5, <2>1, <2>2 DEF StencilsTracked
<1>9. QED
  BY <1>3, <1>7, <1>8 DEF PackagesWell, PackagesPlaced, StencilsWell

(* The last sample of a stencil was the only one still on its way.          *)
LEMMA AddNewModelKept ==
    ASSUME SamplingInvariant, TypesAndPlaces', AddNewModel
    PROVE  PackagesWell'
<1>1. /\ UNCHANGED <<received, generated, receivePile, work, held, spc, pile, atBroker, results>>
      /\ UNCHANGED <<answers, undelivered, current, extra, numberEvaluations>>
      /\ UNCHANGED <<numberSpeculative, uncounted, completedSpeculative>>
      /\ ForStencil
      /\ Len(Append(additional[Result.id].members, Result)) = additional[Result.id].needed
      /\ additional' = [id \in DOMAIN additional \ {Result.id} |-> additional[id]]
  BY DEF AddNewModel, Gathered, Restrict, algorithm, receiver, samplers, counters, brokers
<1>2. PICK p \in PackageType, r \in DOMAIN additional : p = Result /\ r = p.id
  BY <1>1, ForStencilMoves
<1>3. /\ p \in Evaluating /\ p.kind = "sample"
      /\ WaitingWell' /\ Waiting' = Waiting
      /\ EvaluatingWell' /\ Evaluating' = Evaluating \ {p}
      /\ ShippingWell' /\ Shipping' = Shipping
      /\ OneValue' /\ EvaluationsWell' /\ Range(extra) = {}
  BY <1>1, <1>2, ForStencilMoves
<1> DEFINE members == additional[r].members
<1>4. /\ members \in Seq(PackageType)
      /\ Len(members) + Cardinality(SamplesUnderway(r)) = additional[r].needed
      /\ Len(Append(members, p)) = additional[r].needed
  BY <1>1, <1>2, InvariantParts DEF TypeOK, ValuesTypeOK, StencilsWell, StencilsTracked
<1>5. /\ DOMAIN additional' = DOMAIN additional \ {r}
      /\ \A id \in DOMAIN additional' : additional'[id] = additional[id]
  BY <1>1, <1>2
<1> HIDE DEF members
<1>6. SamplesUnderway(r) = {p}
  <2>1. IsFiniteSet(SamplesUnderway(r)) /\ p \in SamplesUnderway(r)
    BY <1>2, <1>3, SamplesFinite DEF SamplesUnderway
  <2>2. Cardinality(SamplesUnderway(r)) = 1
    <3>1. Len(Append(members, p)) = Len(members) + 1 /\ Len(members) \in Nat
      BY <1>4
    <3>2. Cardinality(SamplesUnderway(r)) \in Nat
      BY <2>1, FS_CardinalityType
    <3>3. QED
      BY <1>4, <3>1, <3>2
  <2>3. Cardinality(SamplesUnderway(r) \ {p}) = 0 /\ IsFiniteSet(SamplesUnderway(r) \ {p})
    BY <2>1, <2>2, CountingElements
  <2>4. SamplesUnderway(r) \ {p} = {}
    BY <2>3, FS_EmptySet
  <2>5. QED
    BY <2>1, <2>4
<1>7. \A q \in Evaluating' : q.kind = "sample" => q.id \in DOMAIN additional'
  <2>1. \A q \in Evaluating' : q.kind = "sample" => q.id # r
    BY <1>3, <1>6 DEF SamplesUnderway
  <2>2. QED
    BY <1>3, <1>5, <2>1, InvariantParts DEF StencilsWell, StencilsTracked
<1>8. ASSUME NEW id \in DOMAIN additional'
      PROVE  /\ additional'[id].members # <<>> /\ additional'[id].members[1] \in Shipping'
             /\ \A x \in Range(additional'[id].members) :
                 \A q \in Waiting' \cup Evaluating' \cup Range(extra') : ~Same(x, q)
             /\ \A q \in Waiting' \cup Evaluating' : q.kind = "request" => q.id # id
             /\ Len(additional'[id].members) + Cardinality(SamplesUnderway(id)')
                    = additional'[id].needed
             /\ IsInjective(additional'[id].members)
             /\ \A q \in Range(additional'[id].members) : q.id = id
             /\ additional'[id].members[1].kind = "request"
  <2>1. extra' = extra /\ id # p.id /\ additional'[id] = additional[id] /\ id \in DOMAIN additional
    BY <1>1, <1>2, <1>5
  <2>2. QED
    BY <1>3, <2>1, OtherStencils
<1>9. StencilsOpen'
  <2>1. Range(extra') = {} /\ IsInjective(extra')
    BY <1>1, <1>3, InvariantParts DEF StencilsWell, StencilsOpen
  <2>2. QED
    BY <1>8, <2>1 DEF StencilsOpen
<1>10. StencilsTracked'
  BY <1>7, <1>8 DEF StencilsTracked
<1>11. QED
  BY <1>3, <1>9, <1>10 DEF PackagesWell, PackagesPlaced, StencilsWell

-----------------------------------------------------------------------------
(* The theorems *)

LEMMA InitInvariant == Init => SamplingInvariant
<1> SUFFICES ASSUME Init PROVE SamplingInvariant
  OBVIOUS
<1>1. /\ Range(<<>>) = {} /\ IsInjective(<<>>) /\ Len(<<>>) = 0
      /\ IsFiniteSet({}) /\ Cardinality({}) = 0
  BY FS_EmptySet DEF Range, IsInjective
<1>2. /\ Range(receivePile) = {} /\ Range(pile) = {} /\ Range(batch) = {} /\ Range(extra) = {}
      /\ Range(current) = {} /\ Range(answers) = {} /\ undelivered = {}
      /\ IsInjective(receivePile) /\ IsInjective(pile) /\ IsInjective(batch)
      /\ IsInjective(extra) /\ IsInjective(answers)
      /\ \A t \in Threads : /\ Range(work[t]) = {} /\ Range(held[t]) = {}
                            /\ IsInjective(work[t]) /\ IsInjective(held[t])
                            /\ spc[t] = "take"
      /\ \A b \in Brokers : /\ atBroker[b] = {} /\ Range(results[b]) = {}
                            /\ IsInjective(results[b])
  BY <1>1 DEF Init
<1>3. Waiting = {} /\ Evaluating = {} /\ Shipping = {} /\ Places = {}
  <2>1. Waiting = {}
    BY <1>2, WaitingMembers DEF Hands
  <2>2. Evaluating = {}
    BY <1>2, EvaluatingMembers
  <2>3. QED
    BY <1>2, <2>1, <2>2 DEF Shipping, Places
<1>4. PackagesPlaced
  <2>1. WaitingWell
    BY <1>2, <1>3 DEF WaitingWell, WaitingAreNew, WaitingOnce, Unvalued, Hands
  <2>2. EvaluatingWell
    BY <1>2, <1>3 DEF EvaluatingWell, EvaluatedAreValued, EvaluatingOnce, Unvalued, HaveValues
  <2>3. ShippingWell
    BY <1>2, <1>3 DEF ShippingWell, ShippingAreValued, ShippingOnce
  <2>4. OneValue
    BY <1>3 DEF OneValue, OneOfEach
  <2>5. QED
    BY <2>1, <2>2, <2>3, <2>4 DEF PackagesPlaced
<1>5. StencilsWell
  <2>1. DOMAIN additional = {}
    BY DEF Init
  <2>2. QED
    BY <1>2, <1>3, <2>1 DEF StencilsWell, StencilsOpen, StencilsTracked
<1>6. EvaluationsWell
  <2>1. /\ RegularEvaluating = {} /\ SpeculativeEvaluating = {}
        /\ {p \in Evaluating : p.kind = "request"} = {}
        /\ {t \in Threads : spc[t] = "count"} = {}
    BY <1>2, <1>3 DEF RegularEvaluating, SpeculativeEvaluating
  <2>2. /\ numberEvaluations = 0 /\ numberSpeculative = 0 /\ uncounted[First] = 0
        /\ completed = 0 /\ completedSpeculative = 0 /\ Len(extra) = 0
    BY <1>1, SamplingAssumption DEF Init
  <2>3. EvaluationsCounted
    <3>1. /\ Cardinality(RegularEvaluating) = 0
          /\ Cardinality({t \in Threads : spc[t] = "count"}) = 0
      BY <1>1, <2>1
    <3>2. QED
      BY <2>2, <3>1 DEF EvaluationsCounted
  <2>4. LimitKept
    <3>1. Cardinality(Threads) \in Nat /\ Threads # {} /\ IsFiniteSet(Threads) /\ EvaluationLimit \in Nat
      BY SamplingAssumption, FS_CardinalityType
    <3>2. Cardinality(Threads) # 0
      BY <3>1, FS_EmptySet
    <3>3. 0 <= EvaluationLimit + Cardinality(Threads) - 1
      BY <3>1, <3>2
    <3>4. QED
      BY <1>1, <2>1, <3>3 DEF LimitKept
  <2>5. SpeculationCounted
    BY <1>1, <2>1, <2>2, SamplingAssumption DEF SpeculationCounted
  <2>6. QED
    BY <1>1, <1>3, <2>3, <2>4, <2>5 DEF EvaluationsWell
<1>7. QED
  BY <1>4, <1>5, <1>6, InitTypes DEF SamplingInvariant, PackagesWell

LEMMA NextInvariant == SamplingInvariant /\ [Next]_vars => SamplingInvariant'
<1> SUFFICES ASSUME SamplingInvariant, [Next]_vars PROVE SamplingInvariant'
  OBVIOUS
<1>1. TypesAndPlaces'
  BY InvariantParts, TypesKept
<1>2. ASSUME SendRequest \/ Leave PROVE PackagesWell'
  BY <1>1, <1>2, OutsideKept
<1>3. ASSUME NEW b \in Brokers, Evaluate(b) \/ BrokerEnds(b) PROVE PackagesWell'
  BY <1>1, <1>3, EvaluateKept, OutsideKept
<1>4. ASSUME Receiving PROVE PackagesWell'
  BY <1>1, <1>4, ReceiveRequestsKept, OutsideKept DEF Receiving
<1>5. ASSUME Sending PROVE PackagesWell'
  BY <1>1, <1>5, SendPileKept, OutsideKept DEF Sending
<1>6. ASSUME ValueProcessing PROVE PackagesWell'
  <2>1. ASSUME ReceiveResults \/ ReceiveNoResults \/ ReceiveKills PROVE PackagesWell'
    BY <1>1, <2>1, ReceiveResultsKept, OutsideKept
  <2>2. ASSUME KeepSpeculative \/ InsertResult \/ StartStencil PROVE PackagesWell'
    BY <1>1, <2>2, KeepSpeculativeKept, InsertResultKept, StartStencilKept
  <2>3. ASSUME PushSamples \/ ShipResult PROVE PackagesWell'
    BY <1>1, <2>3, PushSamplesKept, ShipResultKept
  <2>4. ASSUME GatherSample \/ AddNewModel PROVE PackagesWell'
    BY <1>1, <2>4, GatherSampleKept, AddNewModelKept
  <2>5. ASSUME CountResults \/ HandleSpeculative \/ EndValueProcessing PROVE PackagesWell'
    BY <1>1, <2>5, CountResultsKept, HandleSpeculativeKept, OutsideKept
  <2>6. QED
    BY <1>6, <2>1, <2>2, <2>3, <2>4, <2>5 DEF ValueProcessing
<1>7. ASSUME NEW t \in Threads, Sampling(t) PROVE PackagesWell'
  <2>1. ASSUME TakeWork(t) \/ Interpolate(t) \/ ShipInterpolated(t) PROVE PackagesWell'
    BY <1>1, <2>1, TakeWorkKept, InterpolateKept, ShipInterpolatedKept
  <2>2. ASSUME PileUp(t) \/ CountEvaluation(t) \/ HoldBack(t) PROVE PackagesWell'
    BY <1>1, <2>2, PileUpKept, CountEvaluationKept, HoldBackKept
  <2>3. ASSUME Generate(t) \/ CountSpeculative(t) PROVE PackagesWell'
    BY <1>1, <2>3, GenerateKept, CountSpeculativeKept
  <2>4. ASSUME GenerateNothing(t) \/ EndSampling(t) PROVE PackagesWell'
    BY <1>1, <2>4, ThreadsWaitKept
  <2>5. QED
    BY <1>7, <2>1, <2>2, <2>3, <2>4 DEF Sampling
<1>8. ASSUME UNCHANGED vars PROVE PackagesWell'
  <2>1. UNCHANGED placed /\ UNCHANGED counted /\ spc' = spc
    BY <1>8 DEF vars, placed, counted, algorithm, receiver, samplers, counters, brokers, values, round
  <2>2. CountingThreads' = CountingThreads
    BY <2>1 DEF CountingThreads
  <2>3. QED
    BY <1>1, <2>1, <2>2, NothingCounted
<1>9. PackagesWell'
  BY <1>2, <1>3, <1>4, <1>5, <1>6, <1>7, <1>8 DEF Next
<1>10. QED
  BY <1>1, <1>9 DEF SamplingInvariant

(* The invariant gives what is proved below.                                *)
LEMMA InvariantGives ==
    SamplingInvariant =>
        EvaluationsCounted /\ LimitKept /\ SpeculationBounded /\ StencilsTracked
<1> SUFFICES ASSUME SamplingInvariant
             PROVE  EvaluationsCounted /\ LimitKept /\ SpeculationBounded /\ StencilsTracked
  OBVIOUS
<1>1. EvaluationsCounted /\ LimitKept /\ StencilsTracked
  BY InvariantParts DEF EvaluationsWell, StencilsWell
<1>2. SpeculationBounded
  <2>1. /\ numberSpeculative + uncounted[First] = NumberOfSpeculative + completedSpeculative
        /\ numberSpeculative + uncounted[First] <= EvaluationLimit
    BY InvariantParts DEF EvaluationsWell, SpeculationCounted, NumberOfSpeculative
  <2>2. NumberOfSpeculative \in Nat
    BY InvariantParts, NumberFacts
  <2>3. /\ numberSpeculative \in Int /\ uncounted[First] \in Nat
        /\ completedSpeculative \in Nat /\ EvaluationLimit \in Nat
    BY InvariantParts, BalanceFacts
  <2>4. NumberOfSpeculative <= EvaluationLimit
    BY <2>1, <2>2, <2>3
  <2>5. EvaluationLimit - numberSpeculative >= 0
    BY <2>1, <2>3
  <2>6. QED
    BY <2>4, <2>5 DEF SpeculationBounded, Room, NumberOfSpeculative
<1>3. QED
  BY <1>1, <1>2
LEMMA InvariantHolds == Spec => []SamplingInvariant
BY InitInvariant, NextInvariant, PTL DEF Spec

(* The counter of evaluations never drifts from what is being evaluated,    *)
(* however the threads that add to it, and the one that takes from it, are  *)
(* interleaved with those that move the packages.                           *)
THEOREM EvaluationsAreCounted == Spec => []EvaluationsCounted
BY InvariantHolds, InvariantGives, PTL

(* The limit read without its lock is exceeded by at most one request for   *)
(* every sampling thread but one.                                           *)
THEOREM LimitIsKept == Spec => []LimitKept
BY InvariantHolds, InvariantGives, PTL

(* Speculation stays within its limit, and generate is never asked for a    *)
(* negative number of points.                                               *)
THEOREM SpeculationIsBounded == Spec => []SpeculationBounded
BY InvariantHolds, InvariantGives, PTL

(* The map of stencils waits for exactly the samples on their way, so none  *)
(* is shipped to the algorithm and every stencil can be completed.          *)
THEOREM StencilsAreTracked == Spec => []StencilsTracked
BY InvariantHolds, InvariantGives, PTL
-----------------------------------------------------------------------------
(* What the algorithm can notice *)

(* The packages that are a request, or the result of one, wherever they are *)
(* between the receive thread and the answers.                              *)
UnderWay == Waiting \cup Evaluating \cup Shipping
IsValued(p) == p.kind = "request" /\ p.value = "value"

(* The service's result of a request is where its package is, since the     *)
(* centre of a stencil has been shipped.                                    *)
LEMMA HasValueMeans ==
    SamplingInvariant => \A r : HasValue(r) <=> \E p \in UnderWay : p.id = r /\ IsValued(p)
<1> SUFFICES ASSUME SamplingInvariant, NEW r
             PROVE  HasValue(r) <=> \E p \in UnderWay : p.id = r /\ IsValued(p)
  OBVIOUS
<1>1. ASSUME NEW p \in Everywhere, p.id = r, IsValued(p)
      PROVE  \E q \in UnderWay : q.id = r /\ IsValued(q)
  <2>1. CASE p \in Evaluating \/ p \in Shipping
    BY <1>1, <2>1 DEF UnderWay
  <2>2. ASSUME NEW t \in Threads, p \in Range(work[t])
        PROVE  p \in Waiting
    BY <2>2, WaitingMembers DEF Hands
  <2>3. ASSUME NEW id \in DOMAIN additional, p \in Range(additional[id].members)
        PROVE  \E q \in UnderWay : q.id = r /\ IsValued(q)
    <3> DEFINE q == additional[id].members[1]
    <3>0. q \in Range(additional[id].members)
      <4>1. additional[id].members # <<>> /\ additional[id].members \in Seq(PackageType)
        BY InvariantParts DEF StencilsWell, StencilsOpen, TypeOK, ValuesTypeOK
      <4>2. QED
        BY <4>1, EmptySeq DEF Range
    <3>1. q \in Shipping /\ q.kind = "request" /\ p.id = id
      BY <2>3, InvariantParts DEF StencilsWell, StencilsOpen, StencilsTracked
    <3>2. q.value = "value"
      BY <3>1, InvariantParts DEF ShippingWell, ShippingAreValued
    <3>3. q.id = id
      BY <3>0, <3>1, InvariantParts DEF StencilsWell, StencilsTracked
    <3>4. QED
      BY <1>1, <3>1, <3>2, <3>3 DEF UnderWay, IsValued
  <2>4. \/ p \in Evaluating \/ p \in Shipping
        \/ \E t \in Threads : p \in Range(work[t])
        \/ \E id \in DOMAIN additional : p \in Range(additional[id].members)
    BY DEF Everywhere, Shipping
  <2>5. QED
    BY <1>1, <2>1, <2>2, <2>3, <2>4 DEF UnderWay
<1>2. ASSUME NEW p \in UnderWay, p.id = r, IsValued(p)
      PROVE  p \in Everywhere
  <2>1. CASE p \in Evaluating \/ p \in Shipping
    BY <2>1 DEF Everywhere, Shipping
  <2>2. CASE p \in Waiting
    <3>1. p.value = "value"
      BY <1>2 DEF IsValued
    <3>2. p \notin Range(receivePile) /\ \A t \in Threads : p \notin Range(held[t])
      BY <3>1, InvariantParts DEF WaitingWell, WaitingAreNew, Unvalued
    <3>3. PICK t \in Threads : p \in Range(work[t])
      BY <2>2, <3>2, WaitingMembers DEF Hands
    <3>4. QED
      BY <3>3 DEF Everywhere
  <2>3. QED
    BY <1>2, <2>1, <2>2 DEF UnderWay
<1>3. QED
  BY <1>1, <1>2 DEF HasValue, IsValued

LEMMA HasValueMeansNext ==
    SamplingInvariant' => \A r : HasValue(r)' <=> \E p \in UnderWay' : p.id = r /\ IsValued(p)
<1>1. (SamplingInvariant => \A r : HasValue(r) <=> \E p \in UnderWay : p.id = r /\ IsValued(p))'
  BY HasValueMeans, PTL
<1>2. QED
  BY <1>1

(* A request and its result are one package, wherever it is.                *)
LEMMA OneRequest ==
    ASSUME SamplingInvariant, NEW p \in UnderWay, NEW q \in UnderWay,
           p.kind = "request", q.kind = "request", p.id = q.id
    PROVE  p = q
<1>1. p \in PackageType /\ q \in PackageType
  BY InvariantParts, WaitingTyped, EvaluatingTyped, ShippingTyped DEF UnderWay
<1>2. p.n = 0 /\ q.n = 0
  BY <1>1, InvariantParts, PackageFacts DEF TypeOK
<1>3. Same(p, q)
  BY <1>2 DEF Same
<1>4. QED
  BY <1>3, InvariantParts DEF OneValue, OneOfEach, Places, UnderWay

(* A request is answered at most once, and nothing else is.                 *)
Status(r) ==
    IF Answered(r) THEN "answered"
    ELSE IF r > sent \/ r = 0 THEN "unsubmitted" ELSE "submitted"
LEMMA StatusMeans ==
    SamplingInvariant =>
        /\ ServiceStatus = [r \in 0 .. NumRequests |-> Status(r)]
        /\ \A r : Answered(r) <=> \E p \in Range(answers) : p.id = r
        /\ \A r : Answered(r) => r \in 1 .. sent
<1> SUFFICES ASSUME SamplingInvariant
             PROVE  /\ ServiceStatus = [r \in 0 .. NumRequests |-> Status(r)]
                    /\ \A r : Answered(r) <=> \E p \in Range(answers) : p.id = r
                    /\ \A r : Answered(r) => r \in 1 .. sent
  OBVIOUS
<1>1. \A r : Answered(r) <=> \E p \in Range(answers) : p.id = r
  BY DEF Answered, Range
<1>2. ASSUME NEW p \in Range(answers)
      PROVE  p \in UnderWay /\ p.kind = "request" /\ p.id \in 1 .. sent
  <2>1. p \in Shipping
    BY DEF Shipping
  <2>2. p \in PackageType /\ p.kind = "request" /\ p.id <= received
    BY <2>1, InvariantParts, ShippingTyped DEF ShippingWell, ShippingAreValued
  <2>3. p.id \in Requests /\ received \in 0 .. sent /\ sent \in 0 .. NumRequests
    BY <2>2, InvariantParts, PackageFacts DEF TypeOK, AlgorithmTypeOK, ReceiverTypeOK, IsRegular
  <2>4. QED
    BY <2>1, <2>2, <2>3, SamplingAssumption DEF UnderWay, Requests
<1>3. \A r : Answered(r) => r \in 1 .. sent
  BY <1>1, <1>2
<1>4. ASSUME NEW r \in 0 .. NumRequests, AnswersTo(r) # {}
      PROVE  r # 0 /\ Cardinality(AnswersTo(r)) = 1
  <2>1. PICK i \in AnswersTo(r) : TRUE
    BY <1>4
  <2>2. ASSUME NEW j \in AnswersTo(r) PROVE j = i
    <3>1. i \in DOMAIN answers /\ j \in DOMAIN answers /\ answers[i].id = r /\ answers[j].id = r
      BY <2>1, <2>2 DEF AnswersTo
    <3>2. answers[i] = answers[j]
      BY <1>2, <3>1, OneRequest DEF Range
    <3>3. QED
      BY <3>1, <3>2, InvariantParts DEF ShippingWell, ShippingOnce, IsInjective
  <2>3. AnswersTo(r) = {i}
    BY <2>1, <2>2
  <2>4. Answered(r)
    BY <2>1 DEF AnswersTo, Answered
  <2>5. r # 0
    BY <1>3, <2>4
  <2>6. QED
    BY <2>3, <2>5, FS_Singleton
<1>5. ASSUME NEW r \in 0 .. NumRequests PROVE ServiceStatus[r] = Status(r)
  <2>1. Answered(r) <=> AnswersTo(r) # {}
    BY DEF Answered, AnswersTo
  <2>2. AnswersTo(r) # {} => ~(r = 0 \/ Cardinality(AnswersTo(r)) > 1)
    BY <1>4
  <2>3. CASE Answered(r)
    <3>1. ~(r > sent) /\ r # 0
      BY <1>3, <2>3, InvariantParts DEF TypeOK, AlgorithmTypeOK
    <3>2. QED
      BY <2>1, <2>2, <2>3, <3>1 DEF ServiceStatus, Status
  <2>4. CASE ~Answered(r)
    BY <2>1, <2>4 DEF ServiceStatus, Status
  <2>5. QED
    BY <2>3, <2>4
<1>6. ServiceStatus = [r \in 0 .. NumRequests |-> Status(r)]
  <2>1. ServiceStatus = [r \in 0 .. NumRequests |-> ServiceStatus[r]]
    BY DEF ServiceStatus
  <2>2. QED
    BY <1>5, <2>1
<1>7. QED
  BY <1>1, <1>3, <1>6

LEMMA StatusMeansNext ==
    SamplingInvariant' =>
        /\ ServiceStatus' = [r \in 0 .. NumRequests |-> Status(r)']
        /\ \A r : Answered(r)' <=> \E p \in Range(answers') : p.id = r
<1>1. (SamplingInvariant =>
         /\ ServiceStatus = [r \in 0 .. NumRequests |-> Status(r)]
         /\ \A r : Answered(r) <=> \E p \in Range(answers) : p.id = r
         /\ \A r : Answered(r) => r \in 1 .. sent)'
  BY StatusMeans, PTL
<1>2. QED
  BY <1>1

-----------------------------------------------------------------------------
(* Steps of the service *)

(* A step that leaves the requests as they are is none of the service, or   *)
(* its end.                                                                 *)
LEMMA QuietStep ==
    ASSUME SamplingInvariant, SamplingInvariant', UNCHANGED <<sent, answers>>,
           \A p : IsValued(p) => (p \in UnderWay' <=> p \in UnderWay),
           process' = process \/ (process = "running" /\ process' = "died")
    PROVE  Service!Next \/ UNCHANGED Service!vars
<1>1. ServiceStatus' = ServiceStatus
  BY DEF ServiceStatus, AnswersTo
<1>2. \A r : HasValue(r)' <=> HasValue(r)
  <2>1. \A r : HasValue(r)' <=> \E p \in UnderWay' : p.id = r /\ IsValued(p)
    BY HasValueMeansNext
  <2>2. \A r : HasValue(r) <=> \E p \in UnderWay : p.id = r /\ IsValued(p)
    BY HasValueMeans
  <2>3. QED
    BY <2>1, <2>2
<1>3. /\ UNCHANGED [r \in 0 .. NumRequests |-> IF HasValue(r) THEN 1 ELSE 0]
      /\ UNCHANGED [r \in 0 .. NumRequests |-> IF HasValue(r) THEN "value" ELSE "none"]
  BY <1>2
<1>4. CASE process' = process
  BY <1>1, <1>3, <1>4 DEF Service!vars, Running
<1>5. CASE process = "running" /\ process' = "died"
  BY <1>1, <1>3, <1>5 DEF Service!Next, Service!Stop, Running
<1>6. QED
  BY <1>4, <1>5

(* A request that gets its value is the one attempt at it.                  *)
LEMMA AttemptStep ==
    ASSUME SamplingInvariant, SamplingInvariant', Running, UNCHANGED <<sent, answers, process>>,
           NEW p \in Waiting \cup Evaluating, NEW q, Same(p, q),
           p.kind = "request", p.value = "none", q.value = "value",
           UnderWay' = (UnderWay \ {p}) \cup {q}
    PROVE  Service!Next
<1> DEFINE r == p.id
<1>1. p \in UnderWay /\ q.id = r /\ IsValued(q) /\ ~IsValued(p)
  BY DEF UnderWay, Same, IsValued
<1>2. r \in 0 .. NumRequests /\ r \in 1 .. sent
  <2>1. p \in PackageType /\ r <= received
    BY InvariantParts, WaitingTyped, EvaluatingTyped
       DEF WaitingWell, WaitingAreNew, EvaluatingWell, EvaluatedAreValued
  <2>2. r \in Requests /\ received \in 0 .. sent /\ sent \in 0 .. NumRequests
    BY <2>1, InvariantParts, PackageFacts DEF TypeOK, AlgorithmTypeOK, ReceiverTypeOK, IsRegular
  <2>3. QED
    BY <2>1, <2>2, SamplingAssumption DEF Requests
<1>3. \A x \in UnderWay : x.kind = "request" /\ x.id = r => x = p
  BY <1>1, OneRequest
<1>4. ~HasValue(r)
  BY <1>1, <1>3, HasValueMeans DEF IsValued
<1>5. ~Answered(r)
  <2>1. ASSUME NEW x \in Range(answers), x.id = r PROVE FALSE
    <3>1. x \in Shipping /\ x \in UnderWay
      BY DEF Shipping, UnderWay
    <3>2. x.kind = "request" /\ x.value = "value"
      BY <3>1, InvariantParts DEF ShippingWell, ShippingAreValued
    <3>3. QED
      BY <1>3, <2>1, <3>1, <3>2
  <2>2. QED
    BY <2>1, StatusMeans
<1>6. \A s : HasValue(s)' <=> HasValue(s) \/ s = r
  <2>1. \A s : HasValue(s)' <=> \E x \in UnderWay' : x.id = s /\ IsValued(x)
    BY HasValueMeansNext
  <2>2. \A s : HasValue(s) <=> \E x \in UnderWay : x.id = s /\ IsValued(x)
    BY HasValueMeans
  <2>3. QED
    BY <1>1, <2>1, <2>2
<1>7. ServiceStatus' = ServiceStatus
  BY DEF ServiceStatus, AnswersTo
<1>8. ServiceStatus[r] = "submitted"
  <2>1. Status(r) = "submitted"
    BY <1>2, <1>5, InvariantParts DEF Status, TypeOK, AlgorithmTypeOK
  <2>2. QED
    BY <1>2, <2>1, StatusMeans
<1> HIDE DEF r
<1> DEFINE attempts == [s \in 0 .. NumRequests |-> IF HasValue(s) THEN 1 ELSE 0]
           result == [s \in 0 .. NumRequests |-> IF HasValue(s) THEN "value" ELSE "none"]
<1>9. /\ attempts[r] = 0 /\ attempts' = [attempts EXCEPT ![r] = @ + 1]
      /\ result[r] = "none" /\ result' = [result EXCEPT ![r] = "value"]
  <2>1. attempts[r] = 0 /\ result[r] = "none"
    BY <1>2, <1>4
  <2>2. /\ attempts' = [s \in 0 .. NumRequests |-> IF HasValue(s) \/ s = r THEN 1 ELSE 0]
        /\ result' = [s \in 0 .. NumRequests |-> IF HasValue(s) \/ s = r THEN "value" ELSE "none"]
    BY <1>6
  <2>3. [attempts EXCEPT ![r] = @ + 1]
            = [s \in 0 .. NumRequests |-> IF HasValue(s) \/ s = r THEN 1 ELSE 0]
    <3>1. attempts[r] + 1 = 1
      BY <2>1
    <3>2. [attempts EXCEPT ![r] = @ + 1] = [attempts EXCEPT ![r] = 1]
      BY <3>1
    <3>3. [attempts EXCEPT ![r] = 1]
              = [s \in 0 .. NumRequests |-> IF HasValue(s) \/ s = r THEN 1 ELSE 0]
      BY <1>2, <1>4
    <3>4. QED
      BY <3>2, <3>3
  <2>4. [result EXCEPT ![r] = "value"]
            = [s \in 0 .. NumRequests |-> IF HasValue(s) \/ s = r THEN "value" ELSE "none"]
    BY <1>2, <1>4
  <2>5. QED
    BY <2>1, <2>2, <2>3, <2>4
<1> HIDE DEF attempts, result
<1>10. Running' = Running
  BY DEF Running
<1>11. Service!Attempt(r)
  BY <1>7, <1>8, <1>9, <1>10 DEF Service!Attempt, attempts, result
<1>12. QED
  BY <1>2, <1>11 DEF Service!Next

(* A request that is shipped to the algorithm is delivered.                 *)
LEMMA DeliverStep ==
    ASSUME SamplingInvariant, SamplingInvariant', Running, UNCHANGED <<sent, process>>,
           NEW p \in UnderWay, IsValued(p), p \notin Range(answers),
           answers' = Append(answers, p), UnderWay' = UnderWay
    PROVE  Service!Next
<1> DEFINE r == p.id
<1>1. p \in PackageType /\ p.kind = "request" /\ p.id \in 1 .. sent
  <2>1. p \in PackageType /\ p.kind = "request" /\ p.id <= received
    BY InvariantParts, WaitingTyped, EvaluatingTyped, ShippingTyped
       DEF UnderWay, IsValued, WaitingWell, WaitingAreNew, EvaluatingWell, EvaluatedAreValued,
           ShippingWell, ShippingAreValued
  <2>2. r \in Requests /\ received \in 0 .. sent /\ sent \in 0 .. NumRequests
    BY <2>1, InvariantParts, PackageFacts DEF TypeOK, AlgorithmTypeOK, ReceiverTypeOK, IsRegular
  <2>3. QED
    BY <2>1, <2>2, SamplingAssumption DEF Requests
<1>2. r \in 0 .. NumRequests /\ r \in 1 .. sent /\ sent \in Nat
  BY <1>1, InvariantParts, SamplingAssumption DEF TypeOK, AlgorithmTypeOK
<1>3. ~Answered(r)
  <2>1. ASSUME NEW x \in Range(answers), x.id = r PROVE FALSE
    <3>1. x \in Shipping /\ x \in UnderWay
      BY DEF Shipping, UnderWay
    <3>2. x.kind = "request"
      BY <3>1, InvariantParts DEF ShippingWell, ShippingAreValued
    <3>3. x = p
      BY <1>1, <2>1, <3>1, <3>2, OneRequest
    <3>4. QED
      BY <3>3
  <2>2. QED
    BY <2>1, StatusMeans
<1>4. Range(answers') = Range(answers) \cup {p}
  BY <1>1, InvariantParts, AppendFacts DEF TypeOK, AlgorithmTypeOK
<1>5. \A s : Answered(s)' <=> Answered(s) \/ s = r
  <2>1. \A s : Answered(s)' <=> \E x \in Range(answers') : x.id = s
    BY StatusMeansNext
  <2>2. \A s : Answered(s) <=> \E x \in Range(answers) : x.id = s
    BY StatusMeans
  <2>3. QED
    BY <1>4, <2>1, <2>2
<1> HIDE DEF r
<1>6. ServiceStatus = [s \in 0 .. NumRequests |-> Status(s)]
      /\ ServiceStatus' = [s \in 0 .. NumRequests |-> Status(s)']
  BY StatusMeans, StatusMeansNext
<1>7. Status(r) = "submitted" /\ Status(r)' = "answered"
      /\ \A s : s # r => Status(s)' = Status(s)
  BY <1>2, <1>3, <1>5 DEF Status
<1>8. ServiceStatus[r] = "submitted" /\ ServiceStatus' = [ServiceStatus EXCEPT ![r] = "answered"]
  BY <1>2, <1>6, <1>7
<1>9. \A s : HasValue(s)' <=> HasValue(s)
  <2>1. \A s : HasValue(s)' <=> \E x \in UnderWay' : x.id = s /\ IsValued(x)
    BY HasValueMeansNext
  <2>2. \A s : HasValue(s) <=> \E x \in UnderWay : x.id = s /\ IsValued(x)
    BY HasValueMeans
  <2>3. QED
    BY <2>1, <2>2
<1>10. HasValue(r)
  BY HasValueMeans DEF r
<1> DEFINE attempts == [s \in 0 .. NumRequests |-> IF HasValue(s) THEN 1 ELSE 0]
           result == [s \in 0 .. NumRequests |-> IF HasValue(s) THEN "value" ELSE "none"]
<1>11. attempts' = attempts /\ result' = result /\ result[r] = "value"
  BY <1>2, <1>9, <1>10
<1> HIDE DEF attempts, result
<1>12. Running' = Running
  BY DEF Running
<1>13. Service!Deliver(r)
  BY <1>8, <1>11, <1>12 DEF Service!Deliver, attempts, result
<1>14. QED
  BY <1>2, <1>13 DEF Service!Next

(* A request that is sent is submitted.                                     *)
LEMMA SubmitStep ==
    ASSUME SamplingInvariant, SamplingInvariant', SendRequest
    PROVE  Service!Next
<1>0. PICK r : r = sent + 1
  OBVIOUS
<1>1. /\ sent' = r /\ UNCHANGED <<answers, undelivered, receiver, samplers, pile, brokers, values, process>>
      /\ sent < MaxSent[fault]
  BY <1>0 DEF SendRequest, outcome
<1>2. r \in 1 .. NumRequests /\ sent \in Nat
  <2>1. sent \in 0 .. NumRequests /\ MaxSent[fault] \in 0 .. NumRequests
    BY InvariantParts, SamplingAssumption DEF TypeOK, AlgorithmTypeOK
  <2>2. QED
    BY <1>0, <1>1, <2>1, SamplingAssumption
<1>3. UnderWay' = UnderWay
  BY <1>1 DEF UnderWay, Waiting, Evaluating, Shipping, receiver, samplers, brokers, values, round
<1>4. \A s : HasValue(s)' <=> HasValue(s)
  <2>1. \A s : HasValue(s)' <=> \E x \in UnderWay' : x.id = s /\ IsValued(x)
    BY HasValueMeansNext
  <2>2. \A s : HasValue(s) <=> \E x \in UnderWay : x.id = s /\ IsValued(x)
    BY HasValueMeans
  <2>3. QED
    BY <1>3, <2>1, <2>2
<1>5. \A s : Answered(s)' <=> Answered(s)
  BY <1>1 DEF Answered
<1>6. ~Answered(r)
  BY <1>0, <1>2, StatusMeans
<1>7. ServiceStatus = [s \in 0 .. NumRequests |-> Status(s)]
      /\ ServiceStatus' = [s \in 0 .. NumRequests |-> Status(s)']
  BY StatusMeans, StatusMeansNext
<1>8. Status(r) = "unsubmitted" /\ Status(r)' = "submitted"
      /\ \A s \in 0 .. NumRequests : s # r => Status(s)' = Status(s)
  <2>1. \A s \in 0 .. NumRequests : s # r => (s > sent' <=> s > sent)
    BY <1>0, <1>1, <1>2, SamplingAssumption
  <2>2. r > sent /\ ~(r > sent') /\ r # 0
    BY <1>0, <1>1, <1>2
  <2>3. \A s : Status(s)' = IF Answered(s)' THEN "answered"
                           ELSE IF s > sent' \/ s = 0 THEN "unsubmitted" ELSE "submitted"
    BY DEF Status
  <2>4. QED
    BY <1>5, <1>6, <2>1, <2>2, <2>3 DEF Status
<1>9. ServiceStatus[r] = "unsubmitted" /\ ServiceStatus' = [ServiceStatus EXCEPT ![r] = "submitted"]
  <2>1. r \in 0 .. NumRequests
    BY <1>2, SamplingAssumption
  <2>2. QED
    BY <1>7, <1>8, <2>1
<1> DEFINE attempts == [s \in 0 .. NumRequests |-> IF HasValue(s) THEN 1 ELSE 0]
           result == [s \in 0 .. NumRequests |-> IF HasValue(s) THEN "value" ELSE "none"]
<1>10. attempts' = attempts /\ result' = result
  BY <1>4
<1> HIDE DEF attempts, result
<1>11. Running' = Running
  BY <1>1 DEF Running
<1>12. Service!Submit(r)
  BY <1>9, <1>10, <1>11 DEF Service!Submit, attempts, result
<1>13. QED
  BY <1>2, <1>12 DEF Service!Next

(* Only a thread that is about to ship holds a request with a value.        *)
Valued ==
    (UNION {Range(work[t]) : t \in {u \in Threads : spc[u] = "ship"}})
    \cup (UNION {Range(results[b]) : b \in Brokers}) \cup Range(batch) \cup Shipping
LEMMA ValuedAre ==
    SamplingInvariant => \A p : IsValued(p) => (p \in UnderWay <=> p \in Valued)
<1> SUFFICES ASSUME SamplingInvariant, NEW p, IsValued(p) PROVE p \in UnderWay <=> p \in Valued
  OBVIOUS
<1>1. p.value = "value"
  BY DEF IsValued
<1>2. p \in Waiting <=> \E t \in Threads : spc[t] = "ship" /\ p \in Range(work[t])
  <2>1. /\ p \notin Range(receivePile)
        /\ \A t \in Threads : p \notin Range(held[t])
        /\ \A t \in Threads : p \in Range(work[t]) => spc[t] = "ship"
    BY <1>1, InvariantParts DEF WaitingWell, WaitingAreNew, Unvalued
  <2>2. QED
    BY <2>1, WaitingMembers DEF Hands
<1>3. p \in Evaluating <=> p \in Range(batch) \/ \E b \in Brokers : p \in Range(results[b])
  <2>1. p \notin Range(pile) /\ \A b \in Brokers : p \notin atBroker[b]
    BY <1>1, InvariantParts DEF EvaluatingWell, EvaluatedAreValued, Unvalued
  <2>2. QED
    BY <2>1, EvaluatingMembers
<1>4. p \in UNION {Range(work[t]) : t \in {u \in Threads : spc[u] = "ship"}}
          <=> \E t \in Threads : spc[t] = "ship" /\ p \in Range(work[t])
  OBVIOUS
<1>5. p \in UNION {Range(results[b]) : b \in Brokers} <=> \E b \in Brokers : p \in Range(results[b])
  OBVIOUS
<1>6. QED
  BY <1>2, <1>3, <1>4, <1>5 DEF UnderWay, Valued

(* A step that leaves these places alone is none of the service.            *)
LEMMA PlainStep ==
    ASSUME SamplingInvariant, SamplingInvariant',
           UNCHANGED <<sent, answers, undelivered, current, results, batch>>,
           \A t \in Threads : spc[t] = "ship" \/ spc'[t] = "ship" =>
               spc'[t] = spc[t] /\ work'[t] = work[t],
           process' = process \/ (process = "running" /\ process' = "died")
    PROVE  Service!Next \/ UNCHANGED Service!vars
<1>1. Valued' = Valued
  <2>1. Shipping' = Shipping
    BY DEF Shipping
  <2>2. {u \in Threads : spc'[u] = "ship"} = {u \in Threads : spc[u] = "ship"}
    OBVIOUS
  <2>3. UNION {Range(work'[t]) : t \in {u \in Threads : spc'[u] = "ship"}}
            = UNION {Range(work[t]) : t \in {u \in Threads : spc[u] = "ship"}}
    BY <2>2
  <2>4. QED
    BY <2>1, <2>3 DEF Valued
<1>2. \A p : IsValued(p) => (p \in UnderWay <=> p \in Valued)
  BY ValuedAre
<1>3. \A p : IsValued(p) => (p \in UnderWay' <=> p \in Valued')
  <2>1. (SamplingInvariant => \A p : IsValued(p) => (p \in UnderWay <=> p \in Valued))'
    BY ValuedAre, PTL
  <2>2. QED
    BY <2>1 DEF IsValued
<1>4. QED
  BY <1>1, <1>2, <1>3, QuietStep

(* Unless the algorithm has left, what is shipped is delivered to it.       *)
LEMMA ShippedStep ==
    ASSUME SamplingInvariant, SamplingInvariant', Running, UNCHANGED sent,
           NEW p \in UnderWay, IsValued(p), p \notin Range(answers), Ship(p),
           UnderWay' = UnderWay
    PROVE  Service!Next \/ UNCHANGED Service!vars
<1>1. CASE ~left
  BY <1>1, DeliverStep DEF Ship
<1>2. CASE left
  BY <1>2, QuietStep DEF Ship, Running
<1>3. QED
  BY <1>1, <1>2

LEMMA OutsideSteps ==
    ASSUME SamplingInvariant, SamplingInvariant',
           \/ SendRequest \/ Leave \/ \E b \in Brokers : BrokerEnds(b)
           \/ Receiving \/ Sending \/ UNCHANGED vars
    PROVE  Service!Next \/ UNCHANGED Service!vars
<1>1. CASE SendRequest
  BY <1>1, SubmitStep
<1>2. CASE UNCHANGED vars
  <2>1. /\ UNCHANGED <<sent, answers, undelivered, current, results, batch>>
        /\ UNCHANGED <<spc, work, process>>
    BY <1>2 DEF vars, algorithm, samplers, brokers, values, round, outcome
  <2>2. QED
    BY <2>1, PlainStep
<1>3. CASE Leave \/ (\E b \in Brokers : BrokerEnds(b)) \/ Receiving
  <2>1. /\ UNCHANGED <<sent, answers, undelivered, current, results, batch>>
        /\ UNCHANGED <<spc, work, process>>
    BY <1>3 DEF Leave, BrokerEnds, Receiving, ReceiveRequests, ReceiveTermination,
                algorithm, samplers, brokers, values, round, outcome
  <2>2. QED
    BY <2>1, PlainStep
<1>4. CASE Sending
  <2>1. /\ UNCHANGED <<sent, answers, undelivered, current, results, batch>>
        /\ UNCHANGED <<spc, work>> /\ process = "running" /\ process' \in {"running", "died"}
    <3>1. CASE SendPile
      BY <3>1 DEF SendPile, Running, algorithm, samplers, values, round
    <3>2. CASE EndEvaluation
      BY <3>2 DEF EndEvaluation, Running, algorithm, samplers, brokers, values, round, outcome
    <3>3. QED
      BY <1>4, <3>1, <3>2 DEF Sending
  <2>2. QED
    BY <2>1, PlainStep
<1>5. QED
  BY <1>1, <1>2, <1>3, <1>4

(* The broker's evaluation of a request is the attempt at it; those of the  *)
(* samples and the speculative evaluations are nothing to the algorithm.    *)
LEMMA EvaluateStep ==
    ASSUME SamplingInvariant, SamplingInvariant', NEW b \in Brokers, Evaluate(b)
    PROVE  Service!Next \/ UNCHANGED Service!vars
<1>1. /\ UNCHANGED <<received, receivePile, work, held, spc, answers, undelivered, current>>
      /\ UNCHANGED <<sent, process>> /\ Running
  BY DEF Evaluate, algorithm, receiver, samplers, values, outcome
<1>2. PICK p \in Evaluating, q \in PackageType :
          /\ Same(p, q) /\ q \notin Evaluating /\ (IsRegular(q) => q.value = "value")
          /\ p.value = "none" /\ Evaluating' = (Evaluating \ {p}) \cup {q}
  BY InvariantParts, EvaluateMoves
<1>3. Waiting' = Waiting /\ Shipping' = Shipping
  BY <1>1, WaitingStays, ShippingStays
<1>4. p \notin Waiting /\ p \notin Shipping
  BY InvariantParts DEF OneValue
<1>5. UnderWay' = (UnderWay \ {p}) \cup {q}
  BY <1>2, <1>3, <1>4 DEF UnderWay
<1>6. CASE p.kind = "request"
  <2>1. q.value = "value"
    BY <1>2, <1>6 DEF Same, IsRegular
  <2>2. QED
    BY <1>1, <1>2, <1>5, <1>6, <2>1, AttemptStep
<1>7. CASE p.kind # "request"
  <2>1. ~IsValued(p) /\ ~IsValued(q)
    BY <1>2, <1>7 DEF IsValued, Same
  <2>2. \A x : IsValued(x) => (x \in UnderWay' <=> x \in UnderWay)
    BY <1>5, <2>1
  <2>3. QED
    BY <1>1, <2>2, QuietStep
<1>8. QED
  BY <1>6, <1>7

LEMMA SamplingSteps ==
    ASSUME SamplingInvariant, SamplingInvariant', NEW t \in Threads, Sampling(t)
    PROVE  Service!Next \/ UNCHANGED Service!vars
<1>1. CASE Interpolate(t)
  <2>1. /\ UNCHANGED <<received, generated, pile, atBroker, results, batch>>
        /\ UNCHANGED <<answers, undelivered, current, sent, process>> /\ Running
    BY <1>1 DEF Interpolate, At, algorithm, receiver, brokers, values, round, outcome
  <2>2. PICK p \in Waiting, q \in PackageType :
            /\ Same(p, q) /\ q.value = "value" /\ p.value = "none"
            /\ Waiting' = (Waiting \ {p}) \cup {q}
    BY <1>1, InvariantParts, InterpolateMoves
  <2>3. Evaluating' = Evaluating /\ Shipping' = Shipping
    BY <2>1, EvaluatingStays, ShippingStays
  <2>4. p \notin Evaluating /\ p \notin Shipping /\ p.kind = "request"
    BY InvariantParts DEF OneValue, WaitingWell, WaitingAreNew
  <2>5. UnderWay' = (UnderWay \ {p}) \cup {q}
    BY <2>2, <2>3, <2>4 DEF UnderWay
  <2>6. QED
    BY <2>1, <2>2, <2>4, <2>5, AttemptStep
<1>2. CASE ShipInterpolated(t)
  <2> DEFINE p == Head(work[t])
             place == After(t, Tail(work[t]))
  <2>1. /\ UNCHANGED <<received, generated, receivePile, held, pile, atBroker, results, batch>>
        /\ UNCHANGED <<current, sent>> /\ Running
        /\ spc[t] = "ship" /\ spc' = [spc EXCEPT ![t] = place]
        /\ work' = [work EXCEPT ![t] = Tail(@)] /\ Ship(p)
    BY <1>2 DEF ShipInterpolated, At, Goto, receiver, brokers, values, round
  <2>2. place # "ship"
    BY DEF After
  <2> HIDE DEF place
  <2>3. work[t] # <<>> /\ p.value = "value"
    <3>1. work[t] # <<>> /\ work[t][1].value = "value"
      BY <2>1, InvariantParts DEF SamplersInStep
    <3>2. p = work[t][1]
      BY <3>1, InvariantParts, WorkFacts
    <3>3. QED
      BY <3>1, <3>2
  <2>4. /\ p \in Waiting /\ p \in PackageType /\ Waiting' = Waiting \ {p}
    BY <2>1, <2>2, <2>3, InvariantParts, WorkShrinks
  <2> HIDE DEF p
  <2>5. p.kind = "request" /\ p.id <= received /\ p \notin Shipping
    BY <2>4, InvariantParts DEF WaitingWell, WaitingAreNew, OneValue
  <2>6. Shipping' = Shipping \cup {p}
    <3>1. p \notin Range(answers) \cup undelivered /\ Range(current') = Range(current) \ {p}
      BY <2>1, <2>5 DEF Shipping
    <3>2. QED
      BY <2>1, <2>3, <2>4, <2>5, <3>1, InvariantParts, ShipMoves
  <2>7. Evaluating' = Evaluating
    BY <2>1, EvaluatingStays
  <2>8. UnderWay' = UnderWay /\ p \in UnderWay /\ IsValued(p) /\ p \notin Range(answers)
    BY <2>3, <2>4, <2>5, <2>6, <2>7 DEF UnderWay, IsValued, Shipping
  <2>9. QED
    BY <2>1, <2>8, ShippedStep
<1>3. CASE TakeWork(t) \/ PileUp(t) \/ CountEvaluation(t) \/ HoldBack(t)
           \/ Generate(t) \/ CountSpeculative(t) \/ GenerateNothing(t) \/ EndSampling(t)
  <2>1. UNCHANGED <<sent, answers, undelivered, current, results, batch, process>>
    BY <1>3 DEF TakeWork, PileUp, CountEvaluation, HoldBack, Generate, CountSpeculative,
                GenerateNothing, EndSampling, algorithm, brokers, values, round, outcome
  <2>2. /\ spc[t] # "ship"
        /\ \E place : place # "ship" /\ spc' = [spc EXCEPT ![t] = place]
    BY <1>3 DEF TakeWork, PileUp, CountEvaluation, HoldBack, Generate, CountSpeculative,
                GenerateNothing, EndSampling, At, Goto, After
  <2>3. work' = work \/ \E w : work' = [work EXCEPT ![t] = w]
    <3>1. CASE TakeWork(t)
      BY <3>1 DEF TakeWork
    <3>2. CASE PileUp(t) \/ HoldBack(t)
      BY <3>2 DEF PileUp, HoldBack
    <3>3. CASE CountEvaluation(t) \/ Generate(t) \/ CountSpeculative(t)
               \/ GenerateNothing(t) \/ EndSampling(t)
      BY <3>3 DEF CountEvaluation, Generate, CountSpeculative, GenerateNothing, EndSampling
    <3>4. QED
      BY <1>3, <3>1, <3>2, <3>3
  <2>4. \A u \in Threads : spc[u] = "ship" \/ spc'[u] = "ship" =>
            spc'[u] = spc[u] /\ work'[u] = work[u]
    BY <2>2, <2>3, InvariantParts DEF TypeOK, SamplersTypeOK
  <2>5. QED
    BY <2>1, <2>4, PlainStep
<1>4. QED
  BY <1>1, <1>2, <1>3 DEF Sampling

LEMMA ValueSteps ==
    ASSUME SamplingInvariant, SamplingInvariant', ValueProcessing
    PROVE  Service!Next \/ UNCHANGED Service!vars
<1>1. CASE ReceiveResults
  <2>1. /\ UNCHANGED <<received, receivePile, work, held, spc, answers, undelivered, current>>
        /\ UNCHANGED <<sent, process>>
    BY <1>1 DEF ReceiveResults, algorithm, receiver, samplers, outcome
  <2>2. UnderWay' = UnderWay
    BY <1>1, <2>1, InvariantParts, ReceiveResultsMoves, WaitingStays, ShippingStays DEF UnderWay
  <2>3. QED
    BY <2>1, <2>2, QuietStep
<1>2. CASE KeepSpeculative \/ GatherSample \/ AddNewModel
  <2>1. /\ UNCHANGED <<received, generated, receivePile, work, held, spc, pile, atBroker, results>>
        /\ UNCHANGED <<answers, undelivered, current, sent>>
        /\ Processing /\ batch' = Tail(batch)
        /\ process = "running" /\ process' \in {"running", "died"}
    <3>1. CASE KeepSpeculative
      BY <3>1 DEF KeepSpeculative, Processing, Running, algorithm, receiver, samplers, brokers, outcome
    <3>2. CASE GatherSample
      BY <3>2 DEF GatherSample, ForStencil, Processing, Running, algorithm, receiver, samplers,
                  brokers, outcome
    <3>3. CASE AddNewModel
      BY <3>3 DEF AddNewModel, ForStencil, Processing, Running, algorithm, receiver, samplers, brokers
    <3>4. QED
      BY <1>2, <3>1, <3>2, <3>3
  <2>2. Result \in Evaluating /\ Evaluating' = Evaluating \ {Result}
    BY <2>1, InvariantParts, ResultMoves
  <2>3. Result.kind # "request"
    <3>1. CASE ~IsRegular(Result)
      BY <3>1 DEF IsRegular
    <3>2. CASE Result.id \in DOMAIN additional
      BY <2>2, <3>2, InvariantParts DEF StencilsWell, StencilsOpen
    <3>3. QED
      BY <1>2, <3>1, <3>2 DEF KeepSpeculative, GatherSample, AddNewModel, ForStencil, IsForAlgorithm
  <2>4. Waiting' = Waiting /\ Shipping' = Shipping
    BY <2>1, WaitingStays, ShippingStays
  <2>5. \A p : IsValued(p) => (p \in UnderWay' <=> p \in UnderWay)
    BY <2>2, <2>3, <2>4 DEF UnderWay, IsValued
  <2>6. QED
    BY <2>1, <2>5, QuietStep
<1>3. CASE InsertResult \/ StartStencil
  <2>1. /\ UNCHANGED <<received, generated, receivePile, work, held, spc, pile, atBroker, results>>
        /\ UNCHANGED <<answers, undelivered>> /\ UNCHANGED <<sent, process>> /\ ForAlgorithm
    <3>1. CASE InsertResult
      BY <3>1 DEF InsertResult, algorithm, receiver, samplers, brokers, outcome
    <3>2. CASE StartStencil
      BY <3>2 DEF StartStencil, algorithm, receiver, samplers, brokers, outcome
    <3>3. QED
      BY <1>3, <3>1, <3>2
  <2>2. /\ Result \in Evaluating /\ Waiting' = Waiting
        /\ Evaluating' = Evaluating \ {Result} /\ Shipping' = Shipping \cup {Result}
    BY <2>1, ForAlgorithmMoves
  <2>3. UnderWay' = UnderWay
    BY <2>2 DEF UnderWay
  <2>4. QED
    BY <2>1, <2>3, QuietStep
<1>4. CASE ShipResult
  <2>1. /\ UNCHANGED <<received, generated, receivePile, work, held, spc, pile, atBroker, results>>
        /\ UNCHANGED <<batch, sent>> /\ Running /\ vpc = "ship" /\ Ship(Head(current))
    BY <1>4 DEF ShipResult, receiver, samplers, brokers, round
  <2>2. PICK p \in PackageType : p = Head(current) /\ Range(current) = {p}
    BY <2>1, InvariantParts, CurrentFacts
  <2>3. p \in Shipping /\ p \notin Range(answers) /\ p.kind = "request" /\ p.value = "value"
    BY <2>2, InvariantParts DEF ShippingWell, ShippingOnce, ShippingAreValued, Shipping
  <2>4. Waiting' = Waiting /\ Evaluating' = Evaluating /\ Shipping' = Shipping
    BY <1>4, <2>1, InvariantParts, WaitingStays, EvaluatingStays, ShipResultMoves
  <2>5. UnderWay' = UnderWay /\ p \in UnderWay /\ IsValued(p) /\ Ship(p)
    BY <2>1, <2>2, <2>3, <2>4 DEF UnderWay, IsValued
  <2>6. QED
    BY <2>1, <2>3, <2>5, ShippedStep
<1>5. CASE \/ ReceiveNoResults \/ ReceiveKills \/ PushSamples
           \/ CountResults \/ HandleSpeculative \/ EndValueProcessing
  <2>1. /\ UNCHANGED <<sent, answers, undelivered, current, results, batch, spc, work>>
        /\ process = "running" /\ process' \in {"running", "died"}
    <3>1. CASE ReceiveNoResults
      BY <3>1 DEF ReceiveNoResults, Running, algorithm, samplers, brokers, outcome
    <3>2. CASE ReceiveKills
      BY <3>2 DEF ReceiveKills, Running, algorithm, samplers, brokers, values, round
    <3>3. CASE PushSamples
      BY <3>3 DEF PushSamples, Running, algorithm, samplers, brokers, round, outcome
    <3>4. CASE CountResults
      BY <3>4 DEF CountResults, Running, algorithm, samplers, brokers, outcome
    <3>5. CASE HandleSpeculative
      BY <3>5 DEF HandleSpeculative, Running, algorithm, samplers, brokers, outcome
    <3>6. CASE EndValueProcessing
      BY <3>6 DEF EndValueProcessing, Running, algorithm, samplers, brokers, round, outcome
    <3>7. QED
      BY <1>5, <3>1, <3>2, <3>3, <3>4, <3>5, <3>6
  <2>2. QED
    BY <2>1, PlainStep
<1>6. QED
  BY <1>1, <1>2, <1>3, <1>4, <1>5 DEF ValueProcessing

LEMMA ServiceBegins == Init => Service!Init
<1> SUFFICES ASSUME Init PROVE Service!Init
  OBVIOUS
<1>1. SamplingInvariant
  BY InitInvariant
<1>2. Range(<<>>) = {}
  BY DEF Range
<1>3. Valued = {}
  BY <1>2 DEF Init, Valued, Shipping
<1>4. \A r : ~HasValue(r)
  BY <1>1, <1>3, HasValueMeans, ValuedAre
<1>5. \A r : ~Answered(r)
  BY DEF Init, Answered
<1>6. \A r \in 0 .. NumRequests : Status(r) = "unsubmitted"
  BY <1>5, SamplingAssumption DEF Init, Status
<1>7. ServiceStatus = [r \in 0 .. NumRequests |-> "unsubmitted"]
  BY <1>1, <1>6, StatusMeans
<1>8. Running
  BY DEF Init, Running
<1>9. QED
  BY <1>4, <1>7, <1>8 DEF Service!Init

LEMMA ServiceSteps ==
    SamplingInvariant /\ SamplingInvariant' /\ [Next]_vars => [Service!Next]_(Service!vars)
<1> SUFFICES ASSUME SamplingInvariant, SamplingInvariant', [Next]_vars
             PROVE  Service!Next \/ UNCHANGED Service!vars
  OBVIOUS
<1>1. CASE \/ SendRequest \/ Leave \/ (\E b \in Brokers : BrokerEnds(b))
           \/ Receiving \/ Sending \/ UNCHANGED vars
  BY <1>1, OutsideSteps
<1>2. ASSUME NEW b \in Brokers, Evaluate(b) PROVE Service!Next \/ UNCHANGED Service!vars
  BY <1>2, EvaluateStep
<1>3. CASE ValueProcessing
  BY <1>3, ValueSteps
<1>4. ASSUME NEW t \in Threads, Sampling(t) PROVE Service!Next \/ UNCHANGED Service!vars
  BY <1>4, SamplingSteps
<1>5. QED
  BY <1>1, <1>2, <1>3, <1>4 DEF Next

(* The threads, with their stencils, limits and speculation, promise the    *)
(* algorithm what a broker promises: whatever fails around them, a request  *)
(* is answered at most once, with the value of the one attempt at it, and   *)
(* nothing else is answered.                                                *)
THEOREM SamplingImplementsService == Spec => ImplementsService
<1>1. SamplingInvariant /\ [Next]_vars => [Service!Next]_(Service!vars)
  BY NextInvariant, ServiceSteps
<1>2. QED
  BY <1>1, InitInvariant, NextInvariant, ServiceBegins, PTL DEF Spec, ImplementsService, Service!Spec
=============================================================================
