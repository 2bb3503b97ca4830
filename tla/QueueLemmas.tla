---------------------------- MODULE QueueLemmas -----------------------------
(* What base/Queue.h's operations (add at the end, erase at a position)    *)
(* and reading a sequence from the front do to the elements of a sequence. *)
EXTENDS Integers, Sequences, Functions, SequencesExt, SequenceTheorems, TLAPS

(* Queue::add puts one element behind the others.                          *)
LEMMA AppendFacts ==
    ASSUME NEW S, NEW s \in Seq(S), NEW e \in S
    PROVE  /\ Append(s, e) \in Seq(S)
           /\ Range(Append(s, e)) = Range(s) \cup {e}
           /\ IsInjective(s) /\ e \notin Range(s) => IsInjective(Append(s, e))
<1> DEFINE t == Append(s, e)
<1>1. /\ t \in Seq(S) /\ Len(t) = Len(s) + 1
      /\ \A i \in 1 .. Len(s) : t[i] = s[i]
      /\ t[Len(s) + 1] = e
  OBVIOUS
<1>2. DOMAIN s = 1 .. Len(s) /\ DOMAIN t = 1 .. Len(s) + 1 /\ Len(s) \in Nat
  BY <1>1, LenProperties
<1> HIDE DEF t
<1>3. Range(t) = Range(s) \cup {e}
  BY <1>1, <1>2 DEF Range
<1>4. ASSUME IsInjective(s), e \notin Range(s) PROVE IsInjective(t)
  BY <1>1, <1>2, <1>4 DEF Range, IsInjective
<1>5. QED
  BY <1>1, <1>3, <1>4 DEF t

(* Taking the first element leaves the others.                             *)
LEMMA TailFacts ==
    ASSUME NEW S, NEW s \in Seq(S), s # <<>>
    PROVE  /\ Tail(s) \in Seq(S)
           /\ Head(s) \in S /\ Head(s) \in Range(s)
           /\ Head(s) = s[1]
           /\ IsInjective(s) => /\ IsInjective(Tail(s))
                                /\ Range(Tail(s)) = Range(s) \ {Head(s)}
<1> DEFINE t == Tail(s)
<1>1. /\ t \in Seq(S) /\ Len(t) = Len(s) - 1 /\ Len(s) \in Nat \ {0}
      /\ \A i \in 1 .. Len(t) : t[i] = s[i + 1]
      /\ Head(s) = s[1] /\ Head(s) \in S
  BY HeadTailProperties, EmptySeq
<1>2. DOMAIN s = 1 .. Len(s) /\ DOMAIN t = 1 .. Len(s) - 1
  BY <1>1, LenProperties
<1> HIDE DEF t
<1>3. Head(s) \in Range(s)
  BY <1>1, <1>2 DEF Range
<1>4. ASSUME IsInjective(s) PROVE IsInjective(t)
  BY <1>1, <1>2, <1>4 DEF IsInjective
<1>5. ASSUME IsInjective(s) PROVE Range(t) = Range(s) \ {s[1]}
  <2>1. \A x \in Range(t) : x \in Range(s) /\ x # s[1]
    BY <1>1, <1>2, <1>5 DEF IsInjective, Range
  <2>2. ASSUME NEW x \in Range(s), x # s[1] PROVE x \in Range(t)
    <3>1. PICK i \in 2 .. Len(s) : s[i] = x
      BY <1>1, <1>2, <2>2 DEF Range
    <3>2. i - 1 \in DOMAIN t /\ t[i - 1] = x
      BY <1>1, <1>2, <3>1
    <3>3. QED
      BY <3>2 DEF Range
  <2>3. QED
    BY <2>1, <2>2
<1>6. QED
  BY <1>1, <1>3, <1>4, <1>5 DEF t

(* Queue::pop erases the element at a position and no other.               *)
LEMMA RemoveAtFacts ==
    ASSUME NEW S, NEW s \in Seq(S), NEW i \in 1 .. Len(s)
    PROVE  /\ RemoveAt(s, i) \in Seq(S)
           /\ Len(RemoveAt(s, i)) = Len(s) - 1
           /\ \A j \in 1 .. Len(s) - 1 :
                RemoveAt(s, i)[j] = IF j < i THEN s[j] ELSE s[j + 1]
           /\ s[i] \in S /\ s[i] \in Range(s)
           /\ IsInjective(s) => /\ IsInjective(RemoveAt(s, i))
                                /\ Range(RemoveAt(s, i)) = Range(s) \ {s[i]}
<1> DEFINE a == SubSeq(s, 1, i - 1)
           b == SubSeq(s, i + 1, Len(s))
           t == RemoveAt(s, i)
<1>1. /\ DOMAIN s = 1 .. Len(s) /\ Len(s) \in Nat
      /\ \A j \in 1 .. Len(s) : s[j] \in S
  BY LenProperties, ElementOfSeq
<1>2. /\ a \in Seq(S) /\ Len(a) = i - 1
      /\ \A j \in 1 .. i - 1 : a[j] = s[j]
  BY <1>1, SubSeqProperties
<1>3. /\ b \in Seq(S) /\ Len(b) = Len(s) - i
      /\ \A j \in 1 .. Len(s) - i : b[j] = s[i + j]
  <2>1. /\ i + 1 \in Int /\ Len(s) \in Int
        /\ \A j \in i + 1 .. Len(s) : s[j] \in S
    BY <1>1
  <2>2. /\ b \in Seq(S) /\ Len(b) = IF i + 1 <= Len(s) THEN Len(s) - (i + 1) + 1 ELSE 0
        /\ \A j \in 1 .. Len(s) - (i + 1) + 1 : b[j] = s[(i + 1) + j - 1]
    BY <2>1, SubSeqProperties
  <2> HIDE DEF b
  <2>3. Len(s) - (i + 1) + 1 = Len(s) - i
    BY <1>1
  <2>4. Len(b) = Len(s) - i
    <3>1. CASE i + 1 <= Len(s)
      BY <2>2, <2>3, <3>1
    <3>2. CASE ~ (i + 1 <= Len(s))
      <4>1. Len(s) \in Int /\ i \in Int /\ i <= Len(s)
        BY <1>1
      <4>2. Len(s) - i = 0
        BY <4>1, <3>2
      <4>3. QED
        BY <2>2, <3>2, <4>2
    <3>3. QED
      BY <3>1, <3>2
  <2>5. ASSUME NEW j \in 1 .. Len(s) - i PROVE b[j] = s[i + j]
    <3>1. (i + 1) + j - 1 = i + j
      BY <1>1
    <3>2. b[j] = s[(i + 1) + j - 1]
      BY <2>2, <2>3
    <3>3. QED
      BY <3>1, <3>2
  <2>6. QED
    BY <2>2, <2>4, <2>5
<1>4. t = a \o b
  BY DEF RemoveAt
<1> HIDE DEF a, b, t
<1>5. /\ t \in Seq(S) /\ Len(t) = Len(s) - 1
      /\ \A j \in 1 .. Len(s) - 1 : t[j] = IF j < i THEN s[j] ELSE s[j + 1]
  <2>1. /\ t \in Seq(S) /\ Len(t) = Len(a) + Len(b)
        /\ \A j \in 1 .. Len(a) + Len(b) :
              t[j] = IF j <= Len(a) THEN a[j] ELSE b[j - Len(a)]
    BY <1>2, <1>3, <1>4, ConcatProperties
  <2>2. Len(t) = Len(s) - 1
    BY <2>1, <1>1, <1>2, <1>3
  <2>3. ASSUME NEW j \in 1 .. Len(s) - 1
        PROVE  t[j] = IF j < i THEN s[j] ELSE s[j + 1]
    <3>1. Len(a) + Len(b) = Len(s) - 1 /\ Len(a) = i - 1
      BY <1>1, <1>2, <1>3
    <3>2. t[j] = IF j <= i - 1 THEN a[j] ELSE b[j - (i - 1)]
      BY <2>1, <3>1
    <3>3. CASE j < i
      <4>1. j \in 1 .. i - 1
        BY <1>1, <3>3
      <4>2. QED
        BY <1>2, <3>2, <3>3, <4>1
    <3>4. CASE j >= i
      <4>1. j - (i - 1) \in 1 .. Len(s) - i /\ i + (j - (i - 1)) = j + 1
        BY <1>1, <3>4
      <4>2. b[j - (i - 1)] = s[j + 1]
        BY <1>3, <4>1
      <4>3. ~ (j <= i - 1) /\ ~ (j < i)
        BY <3>4
      <4>4. QED
        BY <3>2, <4>2, <4>3
    <3>5. QED
      BY <3>3, <3>4
  <2>4. QED
    BY <2>1, <2>2, <2>3
<1>6. DOMAIN t = 1 .. Len(s) - 1
  BY <1>5, LenProperties
<1>7. ASSUME IsInjective(s) PROVE IsInjective(t)
  <2> DEFINE Old(j) == IF j < i THEN j ELSE j + 1
  <2>1. \A j \in DOMAIN t : Old(j) \in DOMAIN s /\ t[j] = s[Old(j)]
    BY <1>1, <1>5, <1>6
  <2>2. \A j, k \in DOMAIN t : Old(j) = Old(k) => j = k
    BY <1>1, <1>6
  <2> HIDE DEF Old
  <2>3. QED
    BY <1>7, <2>1, <2>2 DEF IsInjective
<1>8. ASSUME IsInjective(s) PROVE Range(t) = Range(s) \ {s[i]}
  <2>1. ASSUME NEW x \in Range(t) PROVE x \in Range(s) /\ x # s[i]
    <3>1. PICK j \in 1 .. Len(s) - 1 : t[j] = x
      BY <1>6 DEF Range
    <3>2. PICK k \in 1 .. Len(s) : x = s[k] /\ k # i
      BY <1>1, <1>5, <3>1
    <3>3. QED
      BY <1>1, <1>8, <3>2 DEF IsInjective, Range
  <2>2. ASSUME NEW x \in Range(s), x # s[i] PROVE x \in Range(t)
    <3>1. PICK j \in 1 .. Len(s) : s[j] = x /\ j # i
      BY <1>1, <2>2 DEF Range
    <3>2. CASE j < i
      <4>1. j \in DOMAIN t /\ t[j] = x
        BY <1>1, <1>5, <1>6, <3>1, <3>2
      <4>2. QED
        BY <4>1 DEF Range
    <3>3. CASE j > i
      <4>1. j - 1 \in DOMAIN t /\ t[j - 1] = x
        BY <1>1, <1>5, <1>6, <3>1, <3>3
      <4>2. QED
        BY <4>1 DEF Range
    <3>4. QED
      BY <3>1, <3>2, <3>3
  <2>3. QED
    BY <2>1, <2>2
<1>9. QED
  BY <1>1, <1>5, <1>7, <1>8 DEF t, Range

(* A suffix read from a position: advancing the position by one is Tail,   *)
(* and what is appended to the sequence is appended to the suffix.         *)
LEMMA SuffixFacts ==
    ASSUME NEW S, NEW s \in Seq(S), NEW c \in 1 .. Len(s) + 1
    PROVE  /\ SubSeq(s, c, Len(s)) \in Seq(S)
           /\ Len(SubSeq(s, c, Len(s))) = Len(s) - c + 1
           /\ \A e \in S : SubSeq(Append(s, e), c, Len(Append(s, e)))
                            = Append(SubSeq(s, c, Len(s)), e)
           /\ c <= Len(s) =>
                /\ SubSeq(s, c, Len(s)) # <<>>
                /\ Head(SubSeq(s, c, Len(s))) = s[c]
                /\ SubSeq(s, c + 1, Len(s)) = Tail(SubSeq(s, c, Len(s)))
           /\ c > Len(s) => SubSeq(s, c, Len(s)) = <<>>
<1>1. /\ DOMAIN s = 1 .. Len(s) /\ Len(s) \in Nat
      /\ \A j \in 1 .. Len(s) : s[j] \in S
  BY LenProperties, ElementOfSeq
<1> DEFINE t == SubSeq(s, c, Len(s))
<1>2. /\ t \in Seq(S) /\ Len(t) = Len(s) - c + 1
      /\ \A j \in 1 .. Len(s) - c + 1 : t[j] = s[c + j - 1]
  BY <1>1, SubSeqProperties
<1>3. ASSUME NEW e \in S PROVE SubSeq(Append(s, e), c, Len(Append(s, e))) = Append(t, e)
  <2> DEFINE u == Append(s, e)
             v == SubSeq(u, c, Len(u))
  <2>1. /\ u \in Seq(S) /\ Len(u) = Len(s) + 1 /\ u[Len(s) + 1] = e
        /\ \A j \in 1 .. Len(s) : u[j] = s[j]
    OBVIOUS
  <2>2. \A j \in 1 .. Len(u) : u[j] \in S
    BY <2>1, ElementOfSeq
  <2> HIDE DEF u
  <2>3. /\ v \in Seq(S) /\ Len(v) = Len(s) - c + 2
        /\ \A j \in 1 .. Len(s) - c + 2 : v[j] = u[c + j - 1]
    BY <1>1, <2>1, <2>2, SubSeqProperties
  <2> HIDE DEF v, t
  <2>4. /\ Append(t, e) \in Seq(S) /\ Len(Append(t, e)) = Len(s) - c + 2
        /\ \A j \in 1 .. Len(s) - c + 1 : Append(t, e)[j] = t[j]
        /\ Append(t, e)[Len(s) - c + 2] = e
    BY <1>1, <1>2
  <2>5. ASSUME NEW j \in 1 .. Len(v) PROVE v[j] = Append(t, e)[j]
    <3>1. j \in 1 .. Len(s) - c + 2 /\ v[j] = u[c + j - 1]
      BY <1>1, <2>3
    <3>2. CASE j = Len(s) - c + 2
      <4>1. c + j - 1 = Len(s) + 1
        BY <1>1, <3>2
      <4>2. QED
        BY <2>1, <2>4, <3>1, <3>2, <4>1
    <3>3. CASE j # Len(s) - c + 2
      <4>1. j \in 1 .. Len(s) - c + 1 /\ c + j - 1 \in 1 .. Len(s)
        BY <1>1, <3>1, <3>3
      <4>2. QED
        BY <1>2, <2>1, <2>4, <3>1, <4>1
    <3>4. QED
      BY <3>2, <3>3
  <2>6. v = Append(t, e)
    BY <2>3, <2>4, <2>5, SeqEqual
  <2>7. QED
    BY <2>6 DEF u, v
<1>4. ASSUME c <= Len(s)
      PROVE  t # <<>> /\ Head(t) = s[c] /\ SubSeq(s, c + 1, Len(s)) = Tail(t)
  <2>1. Head(t) = s[c] /\ Tail(t) = SubSeq(s, c + 1, Len(s))
    BY <1>1, <1>4, HeadTailOfSubSeq
  <2>2. Len(t) # 0
    BY <1>1, <1>2, <1>4
  <2>3. QED
    BY <2>1, <2>2, EmptySeq
<1>5. ASSUME c > Len(s) PROVE t = <<>>
  BY <1>1, <1>5, SubSeqEmpty
<1>6. QED
  BY <1>2, <1>3, <1>4, <1>5

(* Queueing one sequence behind another.                                   *)
LEMMA ConcatFacts ==
    ASSUME NEW S, NEW s \in Seq(S), NEW u \in Seq(S)
    PROVE  /\ s \o u \in Seq(S)
           /\ Range(s \o u) = Range(s) \cup Range(u)
           /\ IsInjective(s) /\ IsInjective(u) /\ Range(s) \cap Range(u) = {}
                => IsInjective(s \o u)
<1> DEFINE t == s \o u
           m == Len(s)
           n == Len(u)
<1>1. /\ t \in Seq(S) /\ Len(t) = m + n
      /\ \A i \in 1 .. m + n : t[i] = IF i <= m THEN s[i] ELSE u[i - m]
      /\ DOMAIN t = 1 .. m + n
  BY ConcatProperties, LenProperties
<1>2. /\ m \in Nat /\ n \in Nat
      /\ DOMAIN s = 1 .. m /\ DOMAIN u = 1 .. n
  BY LenProperties
<1> HIDE DEF t, m, n
<1>3. \A i \in 1 .. m : i \in DOMAIN t /\ t[i] = s[i]
  BY <1>1, <1>2
<1>4. ASSUME NEW i \in 1 .. n PROVE m + i \in DOMAIN t /\ t[m + i] = u[i]
  <2>1. m + i \in 1 .. m + n /\ ~ (m + i <= m) /\ (m + i) - m = i
    BY <1>2
  <2>2. QED
    BY <1>1, <2>1
<1>5. ASSUME NEW i \in DOMAIN t
      PROVE  \/ i \in DOMAIN s /\ t[i] = s[i]
             \/ i - m \in DOMAIN u /\ t[i] = u[i - m] /\ i \notin DOMAIN s
  BY <1>1, <1>2
<1>6. Range(t) = Range(s) \cup Range(u)
  <2>1. ASSUME NEW x \in Range(t) PROVE x \in Range(s) \cup Range(u)
    BY <1>5 DEF Range
  <2>2. ASSUME NEW x \in Range(s) PROVE x \in Range(t)
    BY <1>2, <1>3 DEF Range
  <2>3. ASSUME NEW x \in Range(u) PROVE x \in Range(t)
    BY <1>2, <1>4 DEF Range
  <2>4. QED
    BY <2>1, <2>2, <2>3
<1>7. ASSUME IsInjective(s), IsInjective(u), Range(s) \cap Range(u) = {}
      PROVE  IsInjective(t)
  <2>1. SUFFICES ASSUME NEW i \in DOMAIN t, NEW j \in DOMAIN t, t[i] = t[j]
                 PROVE  i = j
    BY DEF IsInjective
  <2>2. CASE i \in DOMAIN s /\ j \in DOMAIN s
    BY <1>5, <1>7, <1>2, <1>3, <2>1, <2>2 DEF IsInjective
  <2>3. CASE i \notin DOMAIN s /\ j \notin DOMAIN s
    <3>1. i - m \in DOMAIN u /\ j - m \in DOMAIN u /\ u[i - m] = u[j - m]
      BY <1>5, <2>1, <2>3
    <3>2. i - m = j - m
      BY <1>7, <3>1 DEF IsInjective
    <3>3. QED
      BY <1>1, <1>2, <3>2
  <2>4. ASSUME NEW k \in DOMAIN t, NEW l \in DOMAIN t, k \in DOMAIN s, l \notin DOMAIN s
        PROVE  t[k] # t[l]
    <3>1. t[k] \in Range(s)
      BY <1>2, <1>3, <2>4 DEF Range
    <3>2. t[l] \in Range(u)
      BY <1>5, <2>4 DEF Range
    <3>3. QED
      BY <1>7, <3>1, <3>2
  <2>5. QED
    BY <2>1, <2>2, <2>3, <2>4
<1>8. QED
  BY <1>1, <1>6, <1>7 DEF t

(* Queue::sort rearranges the elements of the queue.                       *)
LEMMA RearrangeFacts ==
    ASSUME NEW S, NEW s \in Seq(S), NEW f \in Bijection(DOMAIN s, DOMAIN s)
    PROVE  /\ [i \in DOMAIN s |-> s[f[i]]] \in Seq(S)
           /\ Range([i \in DOMAIN s |-> s[f[i]]]) = Range(s)
           /\ IsInjective(s) => IsInjective([i \in DOMAIN s |-> s[f[i]]])
<1> DEFINE t == [i \in DOMAIN s |-> s[f[i]]]
<1>1. /\ DOMAIN s = 1 .. Len(s) /\ Len(s) \in Nat
      /\ \A i \in DOMAIN s : s[i] \in S
  BY LenProperties, ElementOfSeq
<1>2. /\ f \in [DOMAIN s -> DOMAIN s]
      /\ \A i, j \in DOMAIN s : f[i] = f[j] => i = j
      /\ \A j \in DOMAIN s : \E i \in DOMAIN s : f[i] = j
  BY DEF Bijection, Injection, Surjection, IsInjective
<1>3. t \in [1 .. Len(s) -> S]
  BY <1>1, <1>2
<1>4. t \in Seq(S)
  BY <1>1, <1>3, SeqDef
<1>5. Range(t) = Range(s)
  <2>1. ASSUME NEW i \in DOMAIN s PROVE \E j \in DOMAIN s : t[j] = s[i]
    BY <1>2
  <2>2. ASSUME NEW j \in DOMAIN s PROVE \E i \in DOMAIN s : s[i] = t[j]
    BY <1>2
  <2>3. DOMAIN t = DOMAIN s
    OBVIOUS
  <2> HIDE DEF t
  <2>4. QED
    BY <2>1, <2>2, <2>3 DEF Range
<1>6. ASSUME IsInjective(s) PROVE IsInjective(t)
  BY <1>2, <1>6 DEF IsInjective
<1>7. QED
  BY <1>4, <1>5, <1>6
=============================================================================
