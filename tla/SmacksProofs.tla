---------------------------- MODULE SmacksProofs ----------------------------
(* Theorems about Smacks for every limit of unacknowledged stanzas and every *)
(* number of stanzas and of lost connections.  What is received is right     *)
(* whenever the application sends; what is sent is right until it sends a    *)
(* stanza before the answer to a resume or an enable.                        *)
EXTENDS Smacks, Integers, SequenceTheorems, TLAPS

USE SmacksAssumption

-----------------------------------------------------------------------------
(* Queues.  Complete says that the stanzas of a queue are those after lo up *)
(* to hi, each once and in order; AcksIn that its acknowledgements rise from *)
(* lo to hi; Numbers that a list holds the last numbers up to top.           *)

Within(q, type, lo, hi) == \A i \in 1..Len(q) : q[i].type = type => q[i].n \in lo..hi

Rising(q) ==
    \A i, j \in 1..Len(q) :
        i < j /\ q[i].type = "stanza" /\ q[j].type = "stanza" => q[i].n < q[j].n

Covers(q, lo, hi) ==
    \A m \in lo + 1 .. hi : \E i \in 1..Len(q) : q[i].type = "stanza" /\ q[i].n = m

Complete(q, lo, hi) == Within(q, "stanza", lo + 1, hi) /\ Rising(q) /\ Covers(q, lo, hi)

Climbing(q) ==
    \A i, j \in 1..Len(q) : i < j /\ q[i].type = "a" /\ q[j].type = "a" => q[i].n <= q[j].n

AcksIn(q, lo, hi) == Within(q, "a", lo, hi) /\ Climbing(q)

Numbers(q, top) == \A k \in 1..Len(q) : q[k] = top - Len(q) + k

LEMMA TailAt ==
  ASSUME NEW S, NEW q \in Seq(S), q # <<>>
  PROVE  /\ Tail(q) \in Seq(S) /\ Len(Tail(q)) = Len(q) - 1 /\ Len(q) \in Nat \ {0}
         /\ Head(q) = q[1] /\ \A i \in 1..Len(Tail(q)) : Tail(q)[i] = q[i + 1]
  BY HeadTailProperties, EmptySeq, LenProperties

LEMMA ConcatAt ==
  ASSUME NEW S, NEW q \in Seq(S), NEW t \in Seq(S)
  PROVE  /\ q \o t \in Seq(S) /\ Len(q) \in Nat /\ Len(t) \in Nat /\ Len(q \o t) = Len(q) + Len(t)
         /\ \A i \in 1..Len(q) : i \in 1..Len(q \o t) /\ (q \o t)[i] = q[i]
         /\ \A i \in 1..Len(t) : i + Len(q) \in 1..Len(q \o t) /\ (q \o t)[i + Len(q)] = t[i]
         /\ \A i \in 1..Len(q \o t) :
              \/ i \in 1..Len(q) /\ (q \o t)[i] = q[i]
              \/ i > Len(q) /\ i - Len(q) \in 1..Len(t) /\ (q \o t)[i] = t[i - Len(q)]
  <1> DEFINE c == q \o t
  <1>1. /\ Len(q) \in Nat /\ Len(t) \in Nat /\ c \in Seq(S) /\ Len(c) = Len(q) + Len(t)
        /\ \A i \in 1..Len(q) + Len(t) : c[i] = IF i <= Len(q) THEN q[i] ELSE t[i - Len(q)]
    BY ConcatProperties, LenProperties
  <1> HIDE DEF c
  <1>2. \A i \in 1..Len(q) : i \in 1..Len(c) /\ c[i] = q[i]
    BY <1>1
  <1>3. ASSUME NEW i \in 1..Len(t) PROVE i + Len(q) \in 1..Len(c) /\ c[i + Len(q)] = t[i]
    <2>1. i + Len(q) \in 1..Len(q) + Len(t) /\ ~(i + Len(q) <= Len(q)) /\ i + Len(q) - Len(q) = i
      BY <1>1
    <2>2. QED
      BY <1>1, <2>1
  <1>4. \A i \in 1..Len(c) :
              \/ i \in 1..Len(q) /\ c[i] = q[i]
              \/ i > Len(q) /\ i - Len(q) \in 1..Len(t) /\ c[i] = t[i - Len(q)]
    BY <1>1
  <1>5. QED
    BY <1>1, <1>2, <1>3, <1>4 DEF c

LEMMA WithinTail ==
  ASSUME NEW S, NEW q \in Seq(S), q # <<>>, NEW type, NEW lo \in Int, NEW hi \in Int,
         Within(q, type, lo, hi)
  PROVE  Within(Tail(q), type, lo, hi) /\ (Head(q).type = type => Head(q).n \in lo..hi)
  <1>1. \A i \in 1..Len(Tail(q)) : i + 1 \in 1..Len(q) /\ Tail(q)[i] = q[i + 1]
    BY TailAt
  <1>2. 1 \in 1..Len(q) /\ Head(q) = q[1]
    BY TailAt
  <1>3. QED
    BY <1>1, <1>2 DEF Within

LEMMA WithinConcat ==
  ASSUME NEW S, NEW q \in Seq(S), NEW t \in Seq(S), NEW type,
         NEW lo \in Int, NEW mid \in Int, NEW low \in Int, NEW hi \in Int,
         lo <= low, mid <= hi, Within(q, type, lo, mid), Within(t, type, low, hi)
  PROVE  Within(q \o t, type, lo, hi)
  <1>1. SUFFICES ASSUME NEW i \in 1..Len(q \o t), (q \o t)[i].type = type
                 PROVE  (q \o t)[i].n \in lo..hi
    BY DEF Within
  <1>2. CASE i \in 1..Len(q) /\ (q \o t)[i] = q[i]
    <2>1. q[i].n \in lo..mid
      BY <1>1, <1>2 DEF Within
    <2>2. QED
      BY <1>2, <2>1
  <1>3. CASE i - Len(q) \in 1..Len(t) /\ (q \o t)[i] = t[i - Len(q)]
    <2>1. t[i - Len(q)].n \in low..hi
      BY <1>1, <1>3 DEF Within
    <2>2. QED
      BY <1>3, <2>1
  <1>4. QED
    BY <1>2, <1>3, ConcatAt

LEMMA RisingTail ==
  ASSUME NEW S, NEW q \in Seq(S), q # <<>>, Rising(q)
  PROVE  /\ Rising(Tail(q))
         /\ \A i \in 1..Len(Tail(q)) :
              Head(q).type = "stanza" /\ Tail(q)[i].type = "stanza" => Head(q).n < Tail(q)[i].n
  <1>1. Len(Tail(q)) \in Nat /\ Len(q) = Len(Tail(q)) + 1
    BY TailAt, LenProperties
  <1>2. 1 \in 1..Len(q) /\ Head(q) = q[1]
    BY <1>1, TailAt
  <1>3. ASSUME NEW i \in 1..Len(Tail(q)) PROVE i + 1 \in 1..Len(q) /\ 1 < i + 1 /\ Tail(q)[i] = q[i + 1]
    BY <1>1, TailAt
  <1>4. ASSUME NEW i \in 1..Len(Tail(q)), NEW j \in 1..Len(Tail(q)), i < j,
               Tail(q)[i].type = "stanza", Tail(q)[j].type = "stanza"
        PROVE  Tail(q)[i].n < Tail(q)[j].n
    <2>1. i + 1 < j + 1
      BY <1>1, <1>4
    <2>2. q[i + 1].n < q[j + 1].n
      BY <1>3, <1>4, <2>1 DEF Rising
    <2>3. QED
      BY <1>3, <2>2
  <1>5. ASSUME NEW i \in 1..Len(Tail(q)), Head(q).type = "stanza", Tail(q)[i].type = "stanza"
        PROVE  Head(q).n < Tail(q)[i].n
    <2>1. q[1].n < q[i + 1].n
      BY <1>2, <1>3, <1>5 DEF Rising
    <2>2. QED
      BY <1>2, <1>3, <2>1
  <1>6. QED
    BY <1>4, <1>5 DEF Rising

LEMMA CompleteTail ==
  ASSUME NEW S, NEW q \in Seq(S), q # <<>>, NEW lo \in Int, NEW hi \in Int, Complete(q, lo, hi)
  PROVE  /\ Head(q).type # "stanza" => Complete(Tail(q), lo, hi)
         /\ Head(q).type = "stanza" =>
              Head(q).n = lo + 1 /\ lo + 1 <= hi /\ Complete(Tail(q), lo + 1, hi)
  <1> DEFINE t == Tail(q)
  <1>1. /\ Within(t, "stanza", lo + 1, hi) /\ (Head(q).type = "stanza" => Head(q).n \in lo + 1 .. hi)
        /\ Rising(t) /\ \A i \in 1..Len(t) :
              Head(q).type = "stanza" /\ t[i].type = "stanza" => Head(q).n < t[i].n
    BY WithinTail, RisingTail DEF Complete
  <1>2. \A i \in 1..Len(q) : (i = 1 /\ q[i] = Head(q)) \/ (i - 1 \in 1..Len(t) /\ q[i] = t[i - 1])
    <2>1. /\ Len(t) = Len(q) - 1 /\ Len(q) \in Nat \ {0} /\ Head(q) = q[1]
          /\ \A i \in 1..Len(t) : t[i] = q[i + 1]
      BY TailAt
    <2>2. ASSUME NEW i \in 1..Len(q), i # 1 PROVE i - 1 \in 1..Len(t) /\ q[i] = t[i - 1]
      <3>1. i - 1 \in 1..Len(t) /\ i - 1 + 1 = i
        BY <2>1, <2>2
      <3>2. QED
        BY <2>1, <3>1
    <2>3. QED
      BY <2>1, <2>2
  <1>3. ASSUME NEW m \in lo + 1 .. hi
        PROVE  \/ Head(q).type = "stanza" /\ Head(q).n = m
               \/ \E i \in 1..Len(t) : t[i].type = "stanza" /\ t[i].n = m
    <2>1. PICK i \in 1..Len(q) : q[i].type = "stanza" /\ q[i].n = m
      BY DEF Complete, Covers
    <2>2. QED
      BY <1>2, <2>1
  <1> HIDE DEF t
  <1>4. CASE Head(q).type # "stanza"
    BY <1>1, <1>3, <1>4 DEF Complete, Covers, t
  <1>5. CASE Head(q).type = "stanza"
    <2>1. Head(q).n \in lo + 1 .. hi /\ lo + 1 \in lo + 1 .. hi
      BY <1>1, <1>5
    <2>2. Head(q).n = lo + 1
      <3>1. SUFFICES ASSUME Head(q).n # lo + 1 PROVE FALSE
        OBVIOUS
      <3>2. PICK i \in 1..Len(t) : t[i].type = "stanza" /\ t[i].n = lo + 1
        BY <1>3, <2>1, <3>1
      <3>3. Head(q).n < lo + 1
        BY <1>1, <1>5, <3>2
      <3>4. QED
        BY <2>1, <3>3
    <2>3. Within(t, "stanza", lo + 1 + 1, hi)
      <3>1. ASSUME NEW i \in 1..Len(t), t[i].type = "stanza" PROVE t[i].n \in lo + 1 + 1 .. hi
        <4>1. t[i].n \in lo + 1 .. hi /\ lo + 1 < t[i].n
          BY <1>1, <1>5, <2>2, <3>1 DEF Within
        <4>2. QED
          BY <4>1
      <3>2. QED
        BY <3>1 DEF Within
    <2>4. Covers(t, lo + 1, hi)
      <3>1. ASSUME NEW m \in lo + 1 + 1 .. hi
            PROVE  \E i \in 1..Len(t) : t[i].type = "stanza" /\ t[i].n = m
        <4>1. m \in lo + 1 .. hi /\ m # lo + 1
          OBVIOUS
        <4>2. QED
          BY <1>3, <2>2, <4>1
      <3>2. QED
        BY <3>1 DEF Covers
    <2>5. lo + 1 <= hi
      BY <2>1
    <2>6. QED
      BY <1>1, <1>5, <2>2, <2>3, <2>4, <2>5 DEF Complete, t
  <1>6. QED
    BY <1>4, <1>5

LEMMA CompleteConcat ==
  ASSUME NEW S, NEW q \in Seq(S), NEW t \in Seq(S), NEW lo \in Int, NEW mid \in Int, NEW hi \in Int,
         lo <= mid, mid <= hi, Complete(q, lo, mid), Complete(t, mid, hi)
  PROVE  Complete(q \o t, lo, hi)
  <1> DEFINE c == q \o t
  <1>1. Within(c, "stanza", lo + 1, hi)
    <2>1. lo + 1 <= mid + 1 /\ lo + 1 \in Int /\ mid + 1 \in Int
      OBVIOUS
    <2>2. QED
      BY <2>1, WithinConcat DEF Complete
  <1>2. /\ Len(q) \in Nat /\ \A i \in 1..Len(q) : i \in 1..Len(c) /\ c[i] = q[i]
        /\ \A i \in 1..Len(t) : i + Len(q) \in 1..Len(c) /\ c[i + Len(q)] = t[i]
        /\ \A i \in 1..Len(c) : \/ i \in 1..Len(q) /\ c[i] = q[i]
                                \/ i > Len(q) /\ i - Len(q) \in 1..Len(t) /\ c[i] = t[i - Len(q)]
    BY ConcatAt
  <1> HIDE DEF c
  <1>3. ASSUME NEW i \in 1..Len(c), NEW j \in 1..Len(c), i < j,
               c[i].type = "stanza", c[j].type = "stanza"
        PROVE  c[i].n < c[j].n
    <2>1. CASE j \in 1..Len(q)
      <3>1. i \in 1..Len(q)
        BY <1>2, <1>3, <2>1
      <3>2. c[i] = q[i] /\ c[j] = q[j]
        BY <1>2, <2>1, <3>1
      <3>3. QED
        BY <1>3, <2>1, <3>1, <3>2 DEF Complete, Rising
    <2>2. CASE i > Len(q) /\ j > Len(q)
      <3>1. i - Len(q) \in 1..Len(t) /\ j - Len(q) \in 1..Len(t)
            /\ c[i] = t[i - Len(q)] /\ c[j] = t[j - Len(q)]
        <4>1. i \notin 1..Len(q) /\ j \notin 1..Len(q)
          BY <1>2, <2>2
        <4>2. QED
          BY <1>2, <4>1
      <3>2. i - Len(q) < j - Len(q)
        BY <1>2, <1>3
      <3>3. QED
        BY <1>3, <3>1, <3>2 DEF Complete, Rising
    <2>3. CASE i \in 1..Len(q) /\ j > Len(q)
      <3>1. c[i] = q[i] /\ j - Len(q) \in 1..Len(t) /\ c[j] = t[j - Len(q)]
        BY <1>2, <2>3
      <3>2. q[i].n \in lo + 1 .. mid /\ t[j - Len(q)].n \in mid + 1 .. hi
        BY <1>3, <2>3, <3>1 DEF Complete, Within
      <3>3. \A x \in lo + 1 .. mid, y \in mid + 1 .. hi : x < y
        OBVIOUS
      <3>4. QED
        BY <3>1, <3>2, <3>3
    <2>4. QED
      BY <1>2, <2>1, <2>2, <2>3
  <1>4. ASSUME NEW m \in lo + 1 .. hi
        PROVE  \E i \in 1..Len(c) : c[i].type = "stanza" /\ c[i].n = m
    <2>1. CASE m \in lo + 1 .. mid
      <3>1. PICK i \in 1..Len(q) : q[i].type = "stanza" /\ q[i].n = m
        BY <2>1 DEF Complete, Covers
      <3>2. QED
        BY <1>2, <3>1
    <2>2. CASE m \in mid + 1 .. hi
      <3>1. PICK i \in 1..Len(t) : t[i].type = "stanza" /\ t[i].n = m
        BY <2>2 DEF Complete, Covers
      <3>2. QED
        BY <1>2, <3>1
    <2>3. QED
      BY <2>1, <2>2
  <1>5. QED
    BY <1>1, <1>3, <1>4 DEF Complete, Rising, Covers, c

LEMMA AcksTail ==
  ASSUME NEW S, NEW q \in Seq(S), q # <<>>, NEW lo \in Int, NEW hi \in Int, AcksIn(q, lo, hi)
  PROVE  /\ AcksIn(Tail(q), lo, hi)
         /\ Head(q).type = "a" => Head(q).n \in lo..hi /\ AcksIn(Tail(q), Head(q).n, hi)
  <1>1. Within(Tail(q), "a", lo, hi) /\ (Head(q).type = "a" => Head(q).n \in lo..hi)
    BY WithinTail DEF AcksIn
  <1>2. Len(Tail(q)) \in Nat /\ Len(q) = Len(Tail(q)) + 1 /\ 1 \in 1..Len(q) /\ Head(q) = q[1]
    BY TailAt, LenProperties
  <1>3. ASSUME NEW i \in 1..Len(Tail(q)) PROVE i + 1 \in 1..Len(q) /\ 1 < i + 1 /\ Tail(q)[i] = q[i + 1]
    BY <1>2, TailAt
  <1>4. ASSUME NEW i \in 1..Len(Tail(q)), NEW j \in 1..Len(Tail(q)), i < j,
               Tail(q)[i].type = "a", Tail(q)[j].type = "a"
        PROVE  Tail(q)[i].n <= Tail(q)[j].n
    <2>1. i + 1 < j + 1
      BY <1>2, <1>4
    <2>2. q[i + 1].n <= q[j + 1].n
      BY <1>3, <1>4, <2>1 DEF AcksIn, Climbing
    <2>3. QED
      BY <1>3, <2>2
  <1>5. ASSUME NEW i \in 1..Len(Tail(q)), Head(q).type = "a", Tail(q)[i].type = "a"
        PROVE  Tail(q)[i].n \in Head(q).n .. hi
    <2>1. q[1].n <= q[i + 1].n
      BY <1>2, <1>3, <1>5 DEF AcksIn, Climbing
    <2>2. Tail(q)[i].n \in lo..hi /\ Head(q).n \in lo..hi
      BY <1>1, <1>5 DEF Within
    <2>3. QED
      BY <1>2, <1>3, <2>1, <2>2
  <1>6. QED
    BY <1>1, <1>4, <1>5 DEF AcksIn, Within, Climbing

LEMMA AcksConcat ==
  ASSUME NEW S, NEW q \in Seq(S), NEW t \in Seq(S), NEW lo \in Int, NEW mid \in Int, NEW hi \in Int,
         lo <= mid, mid <= hi, AcksIn(q, lo, mid), AcksIn(t, mid, hi)
  PROVE  AcksIn(q \o t, lo, hi)
  <1> DEFINE c == q \o t
  <1>1. Within(c, "a", lo, hi)
    BY WithinConcat DEF AcksIn
  <1>2. /\ Len(q) \in Nat
        /\ \A i \in 1..Len(c) : \/ i \in 1..Len(q) /\ c[i] = q[i]
                                \/ i > Len(q) /\ i - Len(q) \in 1..Len(t) /\ c[i] = t[i - Len(q)]
    BY ConcatAt
  <1> HIDE DEF c
  <1>3. ASSUME NEW i \in 1..Len(c), NEW j \in 1..Len(c), i < j, c[i].type = "a", c[j].type = "a"
        PROVE  c[i].n <= c[j].n
    <2>1. CASE j \in 1..Len(q)
      <3>1. i \in 1..Len(q)
        BY <1>2, <1>3, <2>1
      <3>2. c[i] = q[i] /\ c[j] = q[j]
        BY <1>2, <2>1, <3>1
      <3>3. QED
        BY <1>3, <2>1, <3>1, <3>2 DEF AcksIn, Climbing
    <2>2. CASE i > Len(q) /\ j > Len(q)
      <3>1. i - Len(q) \in 1..Len(t) /\ j - Len(q) \in 1..Len(t)
            /\ c[i] = t[i - Len(q)] /\ c[j] = t[j - Len(q)]
        BY <1>2, <2>2
      <3>2. i - Len(q) < j - Len(q)
        BY <1>2, <1>3
      <3>3. QED
        BY <1>3, <3>1, <3>2 DEF AcksIn, Climbing
    <2>3. CASE i \in 1..Len(q) /\ j > Len(q)
      <3>1. c[i] = q[i] /\ j - Len(q) \in 1..Len(t) /\ c[j] = t[j - Len(q)]
        BY <1>2, <2>3
      <3>2. q[i].n \in lo .. mid /\ t[j - Len(q)].n \in mid .. hi
        BY <1>3, <2>3, <3>1 DEF AcksIn, Within
      <3>3. \A x \in lo .. mid, y \in mid .. hi : x <= y
        OBVIOUS
      <3>4. QED
        BY <3>1, <3>2, <3>3
    <2>4. QED
      BY <1>2, <2>1, <2>2, <2>3
  <1>4. QED
    BY <1>1, <1>3 DEF AcksIn, Climbing, c

LEMMA NumbersFrom ==
  ASSUME NEW S, NEW q \in Seq(S), NEW top \in Int, Numbers(q, top), NEW k \in 0..Len(q)
  PROVE  /\ From(q, k) \in Seq(S) /\ Len(From(q, k)) = Len(q) - k
         /\ \A i \in 1..Len(q) - k : From(q, k)[i] = q[k + i]
         /\ Numbers(From(q, k), top)
  <1>1. Len(q) \in Nat /\ \A i \in k + 1 .. Len(q) : q[i] \in S
    BY ElementOfSeq, LenProperties
  <1>2. /\ From(q, k) \in Seq(S)
        /\ Len(From(q, k)) = IF k + 1 <= Len(q) THEN Len(q) - (k + 1) + 1 ELSE 0
        /\ \A i \in 1 .. Len(q) - (k + 1) + 1 : From(q, k)[i] = q[k + 1 + i - 1]
    BY <1>1, SubSeqProperties DEF From
  <1>3. Len(From(q, k)) = Len(q) - k /\ \A i \in 1..Len(q) - k : From(q, k)[i] = q[k + i]
    <2>1. Len(From(q, k)) = Len(q) - k
      BY <1>1, <1>2
    <2>2. ASSUME NEW i \in 1..Len(q) - k PROVE From(q, k)[i] = q[k + i]
      <3>1. i \in 1 .. Len(q) - (k + 1) + 1 /\ k + 1 + i - 1 = k + i
        BY <1>1
      <3>2. QED
        BY <1>2, <3>1
    <2>3. QED
      BY <2>1, <2>2
  <1>4. ASSUME NEW i \in 1..Len(From(q, k))
        PROVE  From(q, k)[i] = top - Len(From(q, k)) + i
    <2>1. i \in 1..Len(q) - k /\ k + i \in 1..Len(q)
      BY <1>1, <1>3
    <2>2. q[k + i] = top - Len(q) + (k + i)
      BY <2>1 DEF Numbers
    <2>3. top - Len(q) + (k + i) = top - (Len(q) - k) + i
      BY <1>1, <2>1
    <2>4. QED
      BY <1>3, <2>1, <2>2, <2>3
  <1>5. QED
    BY <1>2, <1>3, <1>4 DEF Numbers

LEMMA NumbersAppend ==
  ASSUME NEW S, NEW q \in Seq(S), NEW top \in Int, Numbers(q, top), top + 1 \in S
  PROVE  /\ q \o <<top + 1>> \in Seq(S) /\ Len(q \o <<top + 1>>) = Len(q) + 1
         /\ \A i \in 1..Len(q) : (q \o <<top + 1>>)[i] = q[i]
         /\ Numbers(q \o <<top + 1>>, top + 1)
  <1> DEFINE c == q \o <<top + 1>>
  <1>1. <<top + 1>> \in Seq(S) /\ Len(<<top + 1>>) = 1 /\ Len(q) \in Nat
    BY LenProperties
  <1>2. /\ c \in Seq(S) /\ Len(c) = Len(q) + 1
        /\ \A i \in 1..Len(q) + 1 : c[i] = IF i <= Len(q) THEN q[i] ELSE <<top + 1>>[i - Len(q)]
    BY <1>1, ConcatProperties
  <1> HIDE DEF c
  <1>3. c[Len(q) + 1] = top + 1
    BY <1>1, <1>2
  <1>4. QED
    BY <1>1, <1>2, <1>3 DEF Numbers, c

LEMMA TailConcat ==
  ASSUME NEW S, NEW q \in Seq(S), q # <<>>, NEW t \in Seq(S)
  PROVE  q \o t # <<>> /\ Head(q \o t) = Head(q) /\ Tail(q \o t) = Tail(q) \o t
  <1> DEFINE c == q \o t
             d == Tail(q) \o t
  <1>1. /\ c \in Seq(S) /\ Len(q) \in Nat \ {0} /\ Len(t) \in Nat /\ Len(c) = Len(q) + Len(t)
        /\ \A i \in 1..Len(q) + Len(t) : c[i] = IF i <= Len(q) THEN q[i] ELSE t[i - Len(q)]
    BY ConcatProperties, LenProperties, EmptySeq
  <1>2. /\ Tail(q) \in Seq(S) /\ Len(Tail(q)) = Len(q) - 1 /\ Head(q) = q[1]
        /\ \A i \in 1..Len(Tail(q)) : Tail(q)[i] = q[i + 1]
    BY TailAt
  <1>3. /\ d \in Seq(S) /\ Len(d) = Len(Tail(q)) + Len(t)
        /\ \A i \in 1..Len(Tail(q)) + Len(t) :
             d[i] = IF i <= Len(Tail(q)) THEN Tail(q)[i] ELSE t[i - Len(Tail(q))]
    BY <1>2, ConcatProperties
  <1>4. c # <<>>
    BY <1>1, EmptySeq
  <1>5. /\ Tail(c) \in Seq(S) /\ Len(Tail(c)) = Len(c) - 1 /\ Head(c) = c[1]
        /\ \A i \in 1..Len(Tail(c)) : Tail(c)[i] = c[i + 1]
    BY <1>1, <1>4, TailAt
  <1> HIDE DEF c, d
  <1>6. Head(c) = Head(q)
    BY <1>1, <1>2, <1>5
  <1>7. Len(Tail(c)) = Len(d)
    BY <1>1, <1>2, <1>3, <1>5
  <1>8. ASSUME NEW i \in 1..Len(d) PROVE Tail(c)[i] = d[i]
    <2>1. i + 1 \in 1..Len(q) + Len(t) /\ i \in 1..Len(Tail(q)) + Len(t) /\ Tail(c)[i] = c[i + 1]
      BY <1>1, <1>2, <1>3, <1>5, <1>7
    <2>2. CASE i <= Len(q) - 1
      <3>1. i + 1 <= Len(q) /\ i \in 1..Len(Tail(q))
        BY <1>1, <1>2, <2>2
      <3>2. QED
        BY <1>1, <1>2, <1>3, <2>1, <3>1
    <2>3. CASE i > Len(q) - 1
      <3>1. ~(i + 1 <= Len(q)) /\ ~(i <= Len(Tail(q))) /\ i + 1 - Len(q) = i - Len(Tail(q))
        BY <1>1, <1>2, <2>3
      <3>2. c[i + 1] = t[i + 1 - Len(q)] /\ d[i] = t[i - Len(Tail(q))]
        BY <1>1, <1>3, <2>1, <3>1
      <3>3. QED
        BY <2>1, <3>1, <3>2
    <2>4. i \in Nat
      BY <1>1, <1>2, <1>3
    <2>5. i <= Len(q) - 1 \/ i > Len(q) - 1
      BY <1>1, <2>4
    <2>6. QED
      BY <2>2, <2>3, <2>5
  <1>9. Tail(c) = d
    BY <1>3, <1>5, <1>7, <1>8, SeqEqual
  <1>10. QED
    BY <1>4, <1>6, <1>9 DEF c, d

Only(q, types) == \A i \in 1..Len(q) : q[i].type \in types

LEMMA OnlyTail ==
  ASSUME NEW S, NEW q \in Seq(S), q # <<>>, NEW types, Only(q, types)
  PROVE  Only(Tail(q), types) /\ Head(q).type \in types
  <1>1. \A i \in 1..Len(Tail(q)) : i + 1 \in 1..Len(q) /\ Tail(q)[i] = q[i + 1]
    BY TailAt
  <1>2. 1 \in 1..Len(q) /\ Head(q) = q[1]
    BY TailAt
  <1>3. QED
    BY <1>1, <1>2 DEF Only

LEMMA OnlyConcat ==
  ASSUME NEW S, NEW q \in Seq(S), NEW t \in Seq(S), NEW types, Only(q, types), Only(t, types)
  PROVE  Only(q \o t, types)
  BY ConcatAt DEF Only

-----------------------------------------------------------------------------
(* The packets, and what a transmission is made of.                        *)

UpSet ==
    [type : {"stanza"}, n : Nat, asks : BOOLEAN]
      \cup [type : {"a", "bind", "enable"}, n : Nat]
      \cup [type : {"resume"}, n : Nat, id : Nat]

DownSet == [type : {"stanza", "r", "a", "resumed", "failed", "enabled", "bound"}, n : Nat]

\* A sequence that takes its numbers, in order, from a list of the last ones
LEMMA CompleteFrom ==
  ASSUME NEW q \in Seq(Nat), NEW top \in Int, Numbers(q, top), NEW t, Len(t) = Len(q),
         \A i \in 1..Len(q) : t[i].type = "stanza" /\ t[i].n = q[i]
  PROVE  Complete(t, top - Len(q), top)
  <1>1. Len(q) \in Nat
    BY LenProperties
  <1>2. ASSUME NEW i \in 1..Len(t)
        PROVE  t[i].type = "stanza" /\ t[i].n = top - Len(q) + i
    BY <1>2 DEF Numbers
  <1>3. Within(t, "stanza", top - Len(q) + 1, top)
    <2>1. ASSUME NEW i \in 1..Len(t) PROVE t[i].n \in top - Len(q) + 1 .. top
      BY <1>1, <1>2
    <2>2. QED
      BY <2>1 DEF Within
  <1>4. Rising(t)
    <2>1. ASSUME NEW i \in 1..Len(t), NEW j \in 1..Len(t), i < j PROVE t[i].n < t[j].n
      <3>1. top - Len(q) + i < top - Len(q) + j
        BY <1>1, <2>1
      <3>2. QED
        BY <1>2, <3>1
    <2>2. QED
      BY <2>1 DEF Rising
  <1>5. Covers(t, top - Len(q), top)
    <2>1. ASSUME NEW m \in top - Len(q) + 1 .. top
          PROVE  \E i \in 1..Len(t) : t[i].type = "stanza" /\ t[i].n = m
      <3>1. m - (top - Len(q)) \in 1..Len(t) /\ top - Len(q) + (m - (top - Len(q))) = m
        BY <1>1
      <3>2. QED
        BY <1>2, <3>1
    <2>2. QED
      BY <2>1 DEF Covers
  <1>6. QED
    BY <1>3, <1>4, <1>5 DEF Complete

LEMMA TransmissionType ==
  ASSUME NEW q \in Seq(Nat), NEW s
  PROVE  /\ Transmission(s, q) \in Seq(UpSet) /\ Len(Transmission(s, q)) = Len(q)
         /\ \A i \in 1..Len(q) : /\ Transmission(s, q)[i].type = "stanza"
                                 /\ Transmission(s, q)[i].n = q[i]
                                 /\ ~s.enabled => ~Transmission(s, q)[i].asks
  <1> DEFINE p(i) == [type |-> "stanza", n |-> q[i],
                      asks |-> s.enabled /\ (s.since + i) % MaxUnacked = 0]
             t == [i \in 1..Len(q) |-> p(i)]
  <1>1. Len(q) \in Nat /\ DOMAIN q = 1..Len(q) /\ \A i \in 1..Len(q) : q[i] \in Nat
    BY LenProperties, ElementOfSeq
  <1>2. Transmission(s, q) = t
    BY <1>1 DEF Transmission
  <1>3. ASSUME NEW i \in 1..Len(q) PROVE p(i) \in UpSet
    <2>1. (s.enabled /\ (s.since + i) % MaxUnacked = 0) \in BOOLEAN
      BY Zenon
    <2>2. QED
      BY <1>1, <2>1 DEF UpSet
  <1>4. t \in [1..Len(q) -> UpSet]
    BY <1>3
  <1>5. ASSUME NEW u \in [1..Len(q) -> UpSet] PROVE u \in Seq(UpSet) /\ Len(u) = Len(q)
    <2>1. u \in Seq(UpSet)
      BY <1>1, SeqDef
    <2>2. DOMAIN u = 1..Len(q) /\ DOMAIN u = 1..Len(u) /\ Len(u) \in Nat
      BY <2>1, LenProperties
    <2>3. QED
      BY <1>1, <2>1, <2>2
  <1>6. t \in Seq(UpSet) /\ Len(t) = Len(q)
    <2> HIDE DEF t
    <2>1. QED
      BY <1>4, <1>5
  <1>7. \A i \in 1..Len(q) : t[i].type = "stanza" /\ t[i].n = q[i]
    OBVIOUS
  <1>8. \A i \in 1..Len(q) : ~s.enabled => ~t[i].asks
    BY Zenon
  <1>9. QED
    BY <1>2, <1>6, <1>7, <1>8

LEMMA PushesType ==
  ASSUME NEW q \in Seq(Nat)
  PROVE  /\ Pushes(q) \in Seq(DownSet) /\ Len(Pushes(q)) = Len(q)
         /\ \A i \in 1..Len(q) : Pushes(q)[i].type = "stanza" /\ Pushes(q)[i].n = q[i]
  <1> DEFINE t == [i \in 1..Len(q) |-> Packet("stanza", q[i])]
  <1>1. Len(q) \in Nat /\ DOMAIN q = 1..Len(q) /\ \A i \in 1..Len(q) : q[i] \in Nat
    BY LenProperties, ElementOfSeq
  <1>2. Pushes(q) = t
    BY <1>1 DEF Pushes
  <1>3. t \in [1..Len(q) -> DownSet]
    BY <1>1 DEF Packet, DownSet
  <1>4. t \in Seq(DownSet)
    BY <1>1, <1>3, SeqDef
  <1>5. Len(t) = Len(q)
    BY <1>1, <1>4, LenProperties
  <1>6. \A i \in 1..Len(q) : t[i].type = "stanza" /\ t[i].n = q[i]
    BY DEF Packet
  <1>7. QED
    BY <1>2, <1>4, <1>5, <1>6

-----------------------------------------------------------------------------
(* The inductive invariant: types, what a session and its stream at the    *)
(* server have in common, and what is on its way in each phase.            *)

SessionOf(n) ==
    [enabled : BOOLEAN, id : Nat \cup {None}, handled : Nat, acked : Nat, since : Nat,
     unacked : Seq(1 .. n), resumed : BOOLEAN]

StreamOf(n) ==
    [bound : BOOLEAN, id : Nat \cup {None}, in : Nat, base : Nat, out : Seq(1 .. n)]

SessionOK(s, n) ==
    /\ s \in SessionOf(n)
    /\ s.enabled <=> s.id # None
    /\ s.id = None => s.handled = 0 /\ s.acked = 0 /\ s.unacked = <<>>
    /\ Numbers(s.unacked, n) /\ Len(s.unacked) <= n

StreamOK(st, n) ==
    /\ st \in StreamOf(n)
    /\ st.id = None => st.in = 0 /\ st.base = 0 /\ st.out = <<>>

\* The number of the last stanza of the session that the server has handled,
\* and of the last stanza of the stream that the client has.
Handled(acked, unacked, in, n) == n - (acked + Len(unacked) - in)
Seen(base, out, handled, n)    == n - (base + Len(out) - handled)

\* What the client has counted and kept, against what the server has counted in.
Up(acked, unacked, in, n, p) ==
    /\ acked <= in /\ in <= acked + Len(unacked)
    /\ \A i \in 1..Len(p) : p[i] <= Handled(acked, unacked, in, n)
    /\ \A k \in 1..(in - acked) : \E i \in 1..Len(p) : p[i] = unacked[k]

\* What the server keeps to send again, against what the client has counted.
Down(base, out, handled, n, q) ==
    /\ base <= handled /\ handled <= base + Len(out)
    /\ Numbers(out, n) /\ Len(out) <= n
    /\ \A i \in 1..Len(q) : q[i] <= Seen(base, out, handled, n)

Linked(st) ==
    /\ st.bound
    /\ Up(session.acked, session.unacked, st.in, sent, processed)
    /\ Down(st.base, st.out, session.handled, pushed, seen)

Sorted(p) == \A i, j \in 1..Len(p) : i < j => p[i] < p[j]

Opening(t, n) ==
    /\ stream.id # None /\ Linked(stream) /\ c2s = <<>>
    /\ s2c # <<>> /\ Head(s2c) = Packet(t, n)
    /\ Only(Tail(s2c), {"stanza", "r"})
    /\ Complete(Tail(s2c), Seen(stream.base, stream.out, session.handled, pushed), pushed)

Managed ==
    /\ session.id # None /\ stream.id # None /\ Linked(stream)
    /\ Only(c2s, {"stanza", "a"}) /\ Only(s2c, {"stanza", "r", "a"})
    /\ Complete(c2s, Handled(session.acked, session.unacked, stream.in, sent), sent)
    /\ AcksIn(c2s, stream.base, session.handled)
    /\ Complete(s2c, Seen(stream.base, stream.out, session.handled, pushed), pushed)
    /\ AcksIn(s2c, session.acked, stream.in)

\* The stanzas under way without stream management follow those handled.
Loose(c, n, p) ==
    /\ Only(c, {"stanza"}) /\ Within(c, "stanza", 1, n) /\ Rising(c)
    /\ \A i \in 1..Len(c) : ~c[i].asks /\ \A k \in 1..Len(p) : p[k] < c[i].n

Unmanaged == session.id = None /\ stream.id = None /\ s2c = <<>> /\ Loose(c2s, sent, processed)

Resume == [type |-> "resume", n |-> session.handled, id |-> session.id]

ISession == SessionOK(session, sent)

IStreams ==
    /\ StreamOK(stream, pushed) /\ (held = None \/ held \in StreamOf(pushed))
    /\ c2s \in Seq(UpSet) /\ s2c \in Seq(DownSet)

ICounts ==
    /\ sent \in Nat /\ pushed \in Nat /\ drops \in Nat
    /\ processed \in Seq(1 .. sent) /\ seen \in Seq(1 .. pushed)
    /\ phase \in {"down", "resuming", "binding", "enabling", "online"}

IDown == phase = "down" => c2s = <<>> /\ s2c = <<>> /\ stream.id = None

IResuming ==
    phase = "resuming" =>
      /\ session.id # None
      /\ \/ stream.id = None /\ s2c = <<>> /\ c2s = <<Resume>>
         \/ stream.id = None /\ c2s = <<>> /\ s2c = <<Packet("failed", 0)>>
         \/ Opening("resumed", stream.in)

IBinding ==
    phase = "binding" =>
      /\ session.id = None /\ stream.id = None
      /\ \/ /\ s2c = <<>> /\ c2s # <<>> /\ Head(c2s) = Packet("bind", 0)
            /\ Loose(Tail(c2s), sent, processed)
         \/ stream.bound /\ Loose(c2s, sent, processed) /\ s2c = <<Packet("bound", 0)>>

\* What was sent while binding is in front of <enable/>.
Enables(q) == Loose(q, sent, processed) /\ c2s = q \o <<Packet("enable", 0)>>

IEnabling ==
    phase = "enabling" =>
      /\ session.id = None
      /\ \/ stream.id = None /\ stream.bound /\ s2c = <<>> /\ \E q \in Seq(UpSet) : Enables(q)
         \/ stream.id = None /\ c2s = <<>> /\ s2c = <<Packet("failed", 0)>>
         \/ Opening("enabled", stream.id)

IOnline == phase = "online" => Managed \/ Unmanaged

\* The stream that a resume would find is the session's.
IHeld ==
    session.id # None /\ stream.id = None /\ held # None /\ held.id = session.id => Linked(held)

IOnce == Sorted(processed) /\ Sorted(seen)

ITypes == ISession /\ IStreams /\ ICounts
IPhase == IDown /\ IResuming /\ IBinding /\ IEnabling /\ IOnline
IInv   == ITypes /\ IPhase /\ IHeld /\ IOnce

-----------------------------------------------------------------------------
LEMMA NoStanzas ==
  /\ \A lo \in Int : Complete(<<>>, lo, lo)
  /\ \A lo, hi \in Int : AcksIn(<<>>, lo, hi)
  /\ \A top : Numbers(<<>>, top)
  /\ \A types : Only(<<>>, types)
  /\ \A type, lo, hi : Within(<<>>, type, lo, hi)
  /\ Rising(<<>>)
  BY DEF Complete, Within, Rising, Covers, AcksIn, Climbing, Numbers, Only

LEMMA InvInit == Init => IInv
  <1> SUFFICES ASSUME Init PROVE IInv
    OBVIOUS
  <1>1. \A S : <<>> \in Seq(S)
    BY EmptySeq
  <1>2. ISession
    BY <1>1, NoStanzas DEF Init, ISession, SessionOK, SessionOf, Fresh
  <1>3. IStreams
    BY <1>1 DEF Init, IStreams, StreamOK, StreamOf, NewStream
  <1>4. ICounts
    BY <1>1 DEF Init, ICounts
  <1>5. IPhase
    BY DEF Init, NewStream, IPhase, IDown, IResuming, IBinding, IEnabling, IOnline
  <1>6. IHeld /\ IOnce
    BY DEF Init, Fresh, IHeld, IOnce, Sorted
  <1>7. QED
    BY <1>2, <1>3, <1>4, <1>5, <1>6 DEF IInv, ITypes

\* Which phase a packet belongs to.
LEMMA Single == \A x : <<x>> # <<>> /\ Head(<<x>>) = x /\ Tail(<<x>>) = <<>>
  OBVIOUS

LEMMA OpeningHead ==
  ASSUME NEW t, NEW n, Opening(t, n)
  PROVE  s2c # <<>> /\ Head(s2c).type = t /\ c2s = <<>>
  BY DEF Opening, Packet

LEMMA DownPacket ==
  ASSUME IInv, s2c # <<>>
  PROVE  /\ Head(s2c) \in DownSet /\ Tail(s2c) \in Seq(DownSet)
         /\ Head(s2c).type = "bound" =>
              /\ phase = "binding" /\ session.id = None /\ stream.id = None /\ stream.bound
              /\ Loose(c2s, sent, processed) /\ Tail(s2c) = <<>>
         /\ Head(s2c).type = "enabled" =>
              phase = "enabling" /\ session.id = None /\ Opening("enabled", stream.id)
         /\ Head(s2c).type = "failed" =>
              /\ phase \in {"resuming", "enabling"} /\ stream.id = None
              /\ c2s = <<>> /\ Tail(s2c) = <<>>
         /\ Head(s2c).type = "resumed" =>
              phase = "resuming" /\ session.id # None /\ Opening("resumed", stream.in)
         /\ Head(s2c).type \in {"a", "r", "stanza"} => phase = "online" /\ Managed
  <1>1. Head(s2c) \in DownSet /\ Tail(s2c) \in Seq(DownSet)
    BY TailAt DEF IInv, ITypes, IStreams
  <1>2. phase # "down"
    BY DEF IInv, IPhase, IDown
  <1>3. CASE phase = "resuming"
    <2>1. CASE stream.id = None /\ c2s = <<>> /\ s2c = <<Packet("failed", 0)>>
      <3>1. Head(s2c) = Packet("failed", 0) /\ Tail(s2c) = <<>>
        BY <2>1, Single
      <3>2. Head(s2c).type = "failed"
        BY <3>1 DEF Packet
      <3>3. QED
        BY <1>1, <1>3, <2>1, <3>1, <3>2
    <2>2. CASE Opening("resumed", stream.in)
      <3>1. Head(s2c).type = "resumed"
        BY <2>2, OpeningHead
      <3>2. session.id # None
        BY <1>3 DEF IInv, IPhase, IResuming
      <3>3. QED
        BY <1>1, <1>3, <2>2, <3>1, <3>2
    <2>3. QED
      BY <1>3, <2>1, <2>2 DEF IInv, IPhase, IResuming
  <1>4. CASE phase = "binding"
    <2>1. /\ session.id = None /\ stream.id = None /\ stream.bound
          /\ Loose(c2s, sent, processed) /\ s2c = <<Packet("bound", 0)>>
      BY <1>4 DEF IInv, IPhase, IBinding
    <2>2. Head(s2c) = Packet("bound", 0) /\ Tail(s2c) = <<>>
      BY <2>1, Single
    <2>3. Head(s2c).type = "bound"
      BY <2>2 DEF Packet
    <2>4. QED
      BY <1>1, <1>4, <2>1, <2>2, <2>3
  <1>5. CASE phase = "enabling"
    <2>1. CASE stream.id = None /\ c2s = <<>> /\ s2c = <<Packet("failed", 0)>>
      <3>1. Head(s2c) = Packet("failed", 0) /\ Tail(s2c) = <<>>
        BY <2>1, Single
      <3>2. Head(s2c).type = "failed"
        BY <3>1 DEF Packet
      <3>3. QED
        BY <1>1, <1>5, <2>1, <3>1, <3>2
    <2>2. CASE Opening("enabled", stream.id)
      <3>1. Head(s2c).type = "enabled"
        BY <2>2, OpeningHead
      <3>2. session.id = None
        BY <1>5 DEF IInv, IPhase, IEnabling
      <3>3. QED
        BY <1>1, <1>5, <2>2, <3>1, <3>2
    <2>3. QED
      BY <1>5, <2>1, <2>2 DEF IInv, IPhase, IEnabling
  <1>6. CASE phase = "online"
    <2>1. Managed
      BY <1>6 DEF IInv, IPhase, IOnline, Unmanaged
    <2>2. Only(s2c, {"stanza", "r", "a"}) /\ s2c \in Seq(DownSet)
      BY <2>1 DEF Managed, IInv, ITypes, IStreams
    <2>3. Head(s2c).type \in {"stanza", "r", "a"}
      BY <2>2, OnlyTail
    <2>4. QED
      BY <1>1, <1>6, <2>1, <2>3
  <1>7. QED
    BY <1>2, <1>3, <1>4, <1>5, <1>6 DEF IInv, ITypes, ICounts

\* A stanza that is sent before the client asks for stream management
Binding ==
    /\ session.id = None /\ stream.id = None /\ stream.bound
    /\ Loose(c2s, sent, processed) /\ s2c = <<Packet("bound", 0)>>

Enabling ==
    /\ session.id = None /\ stream.id = None /\ stream.bound /\ s2c = <<>>
    /\ \E q \in Seq(UpSet) : q # <<>> /\ Enables(q)

LEMMA ConcatNone == \A x : <<>> \o <<x>> = <<x>> /\ <<x>> \o <<>> = <<x>>
  OBVIOUS

LEMMA UpPacket ==
  ASSUME IInv, c2s # <<>>
  PROVE  /\ Head(c2s) \in UpSet /\ Tail(c2s) \in Seq(UpSet)
         /\ Head(c2s).type = "bind" =>
              /\ phase = "binding" /\ session.id = None /\ stream.id = None /\ s2c = <<>>
              /\ Loose(Tail(c2s), sent, processed)
         /\ Head(c2s).type = "enable" =>
              /\ phase = "enabling" /\ session.id = None /\ stream.id = None /\ stream.bound
              /\ s2c = <<>> /\ Tail(c2s) = <<>>
         /\ Head(c2s).type = "resume" =>
              /\ phase = "resuming" /\ session.id # None /\ stream.id = None /\ s2c = <<>>
              /\ Head(c2s) = Resume /\ Tail(c2s) = <<>>
         /\ Head(c2s).type = "a" => phase = "online" /\ Managed
         /\ Head(c2s).type = "stanza" =>
              \/ phase = "online"
              \/ phase = "binding" /\ Binding
              \/ phase = "enabling" /\ Enabling
  <1>1. Head(c2s) \in UpSet /\ Tail(c2s) \in Seq(UpSet)
    BY TailAt DEF IInv, ITypes, IStreams
  <1>2. phase # "down"
    BY DEF IInv, IPhase, IDown
  <1>3. CASE phase = "resuming"
    <2>1. session.id # None /\ stream.id = None /\ s2c = <<>> /\ c2s = <<Resume>>
      BY <1>3, OpeningHead DEF IInv, IPhase, IResuming
    <2>2. Head(c2s) = Resume /\ Tail(c2s) = <<>>
      BY <2>1, Single
    <2>3. Head(c2s).type = "resume"
      BY <2>2 DEF Resume
    <2>4. QED
      BY <1>1, <1>3, <2>1, <2>2, <2>3
  <1>4. CASE phase = "binding"
    <2>1. CASE Binding
      <3>1. Only(c2s, {"stanza"})
        BY <2>1 DEF Binding, Loose
      <3>2. Head(c2s).type \in {"stanza"}
        BY <1>1, <3>1, OnlyTail DEF IInv, ITypes, IStreams
      <3>3. QED
        BY <1>1, <1>4, <2>1, <3>2
    <2>2. CASE ~Binding
      <3>1. /\ session.id = None /\ stream.id = None /\ s2c = <<>> /\ Head(c2s) = Packet("bind", 0)
            /\ Loose(Tail(c2s), sent, processed)
        BY <1>4, <2>2 DEF IInv, IPhase, IBinding, Binding
      <3>2. Head(c2s).type = "bind"
        BY <3>1 DEF Packet
      <3>3. QED
        BY <1>1, <1>4, <3>1, <3>2
    <2>3. QED
      BY <2>1, <2>2
  <1>5. CASE phase = "enabling"
    <2>1. /\ session.id = None /\ stream.id = None /\ stream.bound /\ s2c = <<>>
          /\ \E q \in Seq(UpSet) : Enables(q)
      BY <1>5, OpeningHead DEF IInv, IPhase, IEnabling
    <2>2. PICK q \in Seq(UpSet) : Enables(q)
      BY <2>1
    <2>3. CASE q = <<>>
      <3>1. c2s = <<Packet("enable", 0)>>
        BY <2>2, <2>3, ConcatNone DEF Enables
      <3>2. Head(c2s) = Packet("enable", 0) /\ Tail(c2s) = <<>>
        BY <3>1, Single
      <3>3. Head(c2s).type = "enable"
        BY <3>2 DEF Packet
      <3>4. QED
        BY <1>1, <1>5, <2>1, <3>2, <3>3
    <2>4. CASE q # <<>>
      <3>1. <<Packet("enable", 0)>> \in Seq(UpSet)
        BY DEF Packet, UpSet
      <3>2. Head(c2s) = Head(q) /\ Only(q, {"stanza"})
        BY <2>2, <2>4, <3>1, TailConcat DEF Enables, Loose
      <3>3. Head(c2s).type = "stanza"
        BY <2>4, <3>2, OnlyTail
      <3>4. QED
        BY <1>1, <1>5, <2>1, <2>2, <2>4, <3>3 DEF Enabling
    <2>5. QED
      BY <2>3, <2>4
  <1>6. CASE phase = "online"
    <2>1. Only(c2s, {"stanza", "a"}) /\ (Managed \/ Only(c2s, {"stanza"})) /\ c2s \in Seq(UpSet)
      BY <1>6 DEF IInv, IPhase, IOnline, Managed, Unmanaged, Loose, Only, ITypes, IStreams
    <2>2. Head(c2s).type \in {"stanza", "a"} /\ (Managed \/ Head(c2s).type \in {"stanza"})
      BY <2>1, OnlyTail
    <2>3. QED
      BY <1>1, <1>6, <2>2
  <1>7. QED
    BY <1>2, <1>3, <1>4, <1>5, <1>6 DEF IInv, ITypes, ICounts

-----------------------------------------------------------------------------
(* What the counters and lists of a session and its stream keep in common. *)

LEMMA SeqWider ==
  ASSUME NEW n \in Nat, NEW m \in Nat, n <= m, NEW q \in Seq(1 .. n)
  PROVE  q \in Seq(1 .. m)
  <1>1. Len(q) \in Nat /\ DOMAIN q = 1..Len(q) /\ \A i \in 1..Len(q) : q[i] \in 1 .. n
    BY LenProperties, ElementOfSeq
  <1>2. q = [i \in 1..Len(q) |-> q[i]]
    BY LenProperties, <1>1
  <1>3. \A i \in 1..Len(q) : q[i] \in 1 .. m
    BY <1>1
  <1>4. q \in [1..Len(q) -> 1 .. m]
    BY <1>2, <1>3
  <1>5. QED
    BY <1>1, <1>4, SeqDef

LEMMA AppendAt ==
  ASSUME NEW S, NEW q \in Seq(S), NEW x \in S
  PROVE  /\ Append(q, x) \in Seq(S) /\ Len(q) \in Nat /\ Len(Append(q, x)) = Len(q) + 1
         /\ \A i \in 1..Len(q) : i \in 1..Len(q) + 1 /\ Append(q, x)[i] = q[i]
         /\ Append(q, x)[Len(q) + 1] = x
         /\ \A i \in 1..Len(q) + 1 : i \in 1..Len(q) \/ i = Len(q) + 1
  <1>1. /\ Append(q, x) \in Seq(S) /\ Len(q) \in Nat /\ Len(Append(q, x)) = Len(q) + 1
        /\ \A i \in 1..Len(q) : Append(q, x)[i] = q[i]
        /\ Append(q, x)[Len(q) + 1] = x
    BY AppendProperties, LenProperties
  <1>2. QED
    BY <1>1

LEMMA SortedAppend ==
  ASSUME NEW S, NEW p \in Seq(S), NEW x \in S, Sorted(p), \A i \in 1..Len(p) : p[i] < x
  PROVE  Sorted(Append(p, x))
  <1>1. ASSUME NEW i \in 1..Len(Append(p, x)), NEW j \in 1..Len(Append(p, x)), i < j
        PROVE  Append(p, x)[i] < Append(p, x)[j]
    <2>1. i \in 1..Len(p) /\ (j \in 1..Len(p) \/ j = Len(p) + 1)
      BY <1>1, AppendAt
    <2>2. QED
      BY <1>1, <2>1, AppendAt DEF Sorted
  <1>2. QED
    BY <1>1 DEF Sorted

\* How an acknowledgement is applied to a list of the last numbers
LEMMA HandledRange ==
  ASSUME NEW a \in Nat, NEW in \in Nat, NEW n \in Nat, NEW u \in Seq(1 .. n), NEW p,
         Up(a, u, in, n, p), Len(u) <= n
  PROVE  Handled(a, u, in, n) \in 0..n
  BY LenProperties DEF Up, Handled

LEMMA UpSend ==
  ASSUME NEW a \in Nat, NEW in \in Nat, NEW n \in Nat, NEW u \in Seq(1 .. n), NEW p,
         Numbers(u, n), Up(a, u, in, n, p)
  PROVE  /\ Up(a, u \o <<n + 1>>, in, n + 1, p)
         /\ Handled(a, u \o <<n + 1>>, in, n + 1) = Handled(a, u, in, n)
  <1>1. u \in Seq(1 .. n + 1)
    BY SeqWider
  <1>2. /\ Len(u \o <<n + 1>>) = Len(u) + 1 /\ Len(u) \in Nat
        /\ \A i \in 1..Len(u) : (u \o <<n + 1>>)[i] = u[i]
    BY <1>1, NumbersAppend, LenProperties
  <1>3. Handled(a, u \o <<n + 1>>, in, n + 1) = Handled(a, u, in, n)
    BY <1>2 DEF Handled
  <1>4. \A k \in 1..(in - a) : k \in 1..Len(u)
    BY <1>2 DEF Up
  <1>5. QED
    BY <1>2, <1>3, <1>4 DEF Up

LEMMA UpAck ==
  ASSUME NEW a \in Nat, NEW in \in Nat, NEW n \in Nat, NEW u \in Seq(1 .. n), NEW p,
         Numbers(u, n), Up(a, u, in, n, p), NEW d \in Nat, a + d <= in
  PROVE  /\ Up(a + d, From(u, d), in, n, p)
         /\ Handled(a + d, From(u, d), in, n) = Handled(a, u, in, n)
         /\ From(u, d) \in Seq(1 .. n) /\ Numbers(From(u, d), n)
         /\ Len(From(u, d)) = Len(u) - d
  <1>1. Len(u) \in Nat /\ d \in 0..Len(u) /\ n \in Int
    BY LenProperties DEF Up
  <1>2. PICK h : h = a + d
    OBVIOUS
  <1>4. PICK g : g = From(u, d)
    OBVIOUS
  <1>5. /\ From(u, d) \in Seq(1 .. n) /\ Numbers(From(u, d), n) /\ Len(From(u, d)) = Len(u) - d
        /\ \A i \in 1..Len(u) - d : From(u, d)[i] = u[d + i]
    BY <1>1, NumbersFrom
  <1>6. g \in Seq(1 .. n) /\ Numbers(g, n) /\ Len(g) = Len(u) - d /\ \A i \in 1..Len(u) - d : g[i] = u[d + i]
    BY <1>4, <1>5
  <1>7. Handled(h, g, in, n) = Handled(a, u, in, n)
    BY <1>1, <1>2, <1>6 DEF Handled
  <1>8. a <= in /\ in <= a + Len(u)
    BY DEF Up
  <1>9. ASSUME NEW k \in 1..(in - h)
        PROVE  k \in 1..Len(u) - d /\ d + k \in 1..(in - a)
    BY <1>1, <1>2, <1>8
  <1>10. \A k \in 1..(in - h) : \E i \in 1..Len(p) : p[i] = g[k]
    BY <1>6, <1>9 DEF Up
  <1>11. h <= in /\ in <= h + Len(g)
    BY <1>1, <1>2, <1>6, <1>8
  <1>12. Up(h, g, in, n, p)
    BY <1>7, <1>10, <1>11 DEF Up
  <1>13. QED
    BY <1>2, <1>4, <1>6, <1>7, <1>12

LEMMA UpHandle ==
  ASSUME NEW a \in Nat, NEW in \in Nat, NEW n \in Nat, NEW u \in Seq(1 .. n), NEW p \in Seq(1 .. n),
         Numbers(u, n), Len(u) <= n, Up(a, u, in, n, p), Handled(a, u, in, n) + 1 <= n
  PROVE  /\ Up(a, u, in + 1, n, Append(p, Handled(a, u, in, n) + 1))
         /\ Handled(a, u, in + 1, n) = Handled(a, u, in, n) + 1
         /\ Handled(a, u, in, n) + 1 \in 1..n
  <1> DEFINE x == Handled(a, u, in, n) + 1
  <1>1. Len(u) \in Nat /\ x \in 1..n /\ x = n - (a + Len(u) - in) + 1
    BY LenProperties, HandledRange DEF Handled
  <1>2. Handled(a, u, in + 1, n) = x
    BY <1>1 DEF Handled
  <1> HIDE DEF x
  <1>3. /\ Len(p) \in Nat /\ Len(Append(p, x)) = Len(p) + 1
        /\ \A i \in 1..Len(p) : Append(p, x)[i] = p[i]
        /\ Append(p, x)[Len(p) + 1] = x /\ \A i \in 1..Len(p) + 1 : i \in 1..Len(p) \/ i = Len(p) + 1
    BY <1>1, AppendAt
  <1>3a. Len(p) + 1 \in 1..Len(p) + 1
    BY <1>3
  <1>4. \A i \in 1..Len(p) : p[i] \in 1..n /\ p[i] <= x
    <2>1. \A i \in 1..Len(p) : p[i] \in 1..n
      BY ElementOfSeq
    <2>2. PICK y \in Int : y = Handled(a, u, in, n) /\ x = y + 1
      BY HandledRange DEF x
    <2>3. \A i \in 1..Len(p) : p[i] <= y
      BY <2>2 DEF Up
    <2>4. \A m \in 1..n : m <= y => m <= x
      BY <2>2
    <2>5. QED
      BY <2>1, <2>3, <2>4
  <1>5. \A i \in 1..Len(Append(p, x)) : Append(p, x)[i] <= x
    BY <1>1, <1>3, <1>4
  <1>6. a <= in + 1 /\ in + 1 <= a + Len(u)
    BY <1>1 DEF Up
  <1>7. ASSUME NEW k \in 1..(in + 1 - a)
        PROVE  \E i \in 1..Len(Append(p, x)) : Append(p, x)[i] = u[k]
    <2>1. CASE k \in 1..(in - a)
      <3>1. PICK i \in 1..Len(p) : p[i] = u[k]
        BY <2>1 DEF Up
      <3>2. i \in 1..Len(p) + 1
        BY <1>3
      <3>3. QED
        BY <1>3, <3>1, <3>2
    <2>2. CASE k = in + 1 - a
      <3>1. k \in 1..Len(u)
        BY <1>1, <1>6
      <3>2. u[k] = n - Len(u) + k
        BY <3>1 DEF Numbers
      <3>3. u[k] = x
        BY <1>1, <2>2, <3>2
      <3>4. QED
        BY <1>3, <1>3a, <3>3
    <2>3. k \in 1..(in - a) \/ k = in + 1 - a
      OBVIOUS
    <2>4. QED
      BY <2>1, <2>2, <2>3
  <1>8. Up(a, u, in + 1, n, Append(p, x))
    <2>1. \A i \in 1..Len(Append(p, x)) : Append(p, x)[i] <= Handled(a, u, in + 1, n)
      BY <1>2, <1>5
    <2>2. PICK w : w = Append(p, x)
      OBVIOUS
    <2>3. PICK y : y = in + 1
      OBVIOUS
    <2>4. \A i \in 1..Len(w) : w[i] <= Handled(a, u, y, n)
      BY <2>1, <2>2, <2>3
    <2>5. \A k \in 1..(y - a) : \E i \in 1..Len(w) : w[i] = u[k]
      BY <1>7, <2>2, <2>3
    <2>6. a <= y /\ y <= a + Len(u)
      BY <1>6, <2>3
    <2>7. Up(a, u, y, n, w)
      BY <2>4, <2>5, <2>6 DEF Up
    <2>8. QED
      BY <2>2, <2>3, <2>7
  <1>9. QED
    BY <1>1, <1>2, <1>8 DEF x

LEMMA SeenRange ==
  ASSUME NEW b \in Nat, NEW h \in Nat, NEW n \in Nat, NEW o \in Seq(1 .. n), NEW q, Down(b, o, h, n, q)
  PROVE  Seen(b, o, h, n) \in 0..n /\ Len(o) \in Nat
  BY LenProperties DEF Down, Seen

LEMMA DownPush ==
  ASSUME NEW b \in Nat, NEW h \in Nat, NEW n \in Nat, NEW o \in Seq(1 .. n), NEW q,
         Down(b, o, h, n, q)
  PROVE  /\ Down(b, Append(o, n + 1), h, n + 1, q)
         /\ Seen(b, Append(o, n + 1), h, n + 1) = Seen(b, o, h, n)
         /\ Append(o, n + 1) \in Seq(1 .. n + 1)
  <1>1. o \in Seq(1 .. n + 1)
    BY SeqWider
  <1>2. /\ Append(o, n + 1) \in Seq(1 .. n + 1)
        /\ Len(Append(o, n + 1)) = Len(o) + 1 /\ Len(o) \in Nat
        /\ \A i \in 1..Len(o) : Append(o, n + 1)[i] = o[i]
        /\ Append(o, n + 1)[Len(o) + 1] = n + 1
        /\ \A i \in 1..Len(o) + 1 : i \in 1..Len(o) \/ i = Len(o) + 1
    BY <1>1, AppendAt
  <1>3. Seen(b, Append(o, n + 1), h, n + 1) = Seen(b, o, h, n)
    BY <1>2 DEF Seen
  <1>4. Numbers(Append(o, n + 1), n + 1)
    <2>1. \A i \in 1..Len(o) : Append(o, n + 1)[i] = n + 1 - (Len(o) + 1) + i
      BY <1>2 DEF Down, Numbers
    <2>2. Append(o, n + 1)[Len(o) + 1] = n + 1 - (Len(o) + 1) + (Len(o) + 1)
      BY <1>2
    <2>3. PICK w : w = Append(o, n + 1)
      OBVIOUS
    <2>4. \A i \in 1..Len(w) : w[i] = n + 1 - Len(w) + i
      BY <1>2, <2>1, <2>2, <2>3
    <2>5. Numbers(w, n + 1)
      BY <2>4 DEF Numbers
    <2>6. QED
      BY <2>3, <2>5
  <1>5. QED
    BY <1>2, <1>3, <1>4 DEF Down

LEMMA DownAck ==
  ASSUME NEW b \in Nat, NEW h \in Nat, NEW n \in Nat, NEW o \in Seq(1 .. n), NEW q,
         Down(b, o, h, n, q), NEW d \in Nat, b + d <= h
  PROVE  /\ Down(b + d, From(o, d), h, n, q)
         /\ Seen(b + d, From(o, d), h, n) = Seen(b, o, h, n)
         /\ From(o, d) \in Seq(1 .. n) /\ Len(From(o, d)) = Len(o) - d
  <1>1. Len(o) \in Nat /\ d \in 0..Len(o) /\ n \in Int
    BY LenProperties DEF Down
  <1>2. PICK c : c = b + d
    OBVIOUS
  <1>4. PICK g : g = From(o, d)
    OBVIOUS
  <1>5. Numbers(o, n)
    BY DEF Down
  <1>6. From(o, d) \in Seq(1 .. n) /\ Numbers(From(o, d), n) /\ Len(From(o, d)) = Len(o) - d
    BY <1>1, <1>5, NumbersFrom
  <1>7. g \in Seq(1 .. n) /\ Numbers(g, n) /\ Len(g) = Len(o) - d
    BY <1>4, <1>6
  <1>8. Seen(c, g, h, n) = Seen(b, o, h, n)
    BY <1>1, <1>2, <1>7 DEF Seen
  <1>9. Down(c, g, h, n, q)
    <2>1. c <= h /\ h <= c + Len(g) /\ Len(g) <= n
      BY <1>1, <1>2, <1>7 DEF Down
    <2>2. QED
      BY <1>7, <1>8, <2>1 DEF Down
  <1>10. QED
    BY <1>2, <1>4, <1>7, <1>8, <1>9

LEMMA DownSee ==
  ASSUME NEW b \in Nat, NEW h \in Nat, NEW n \in Nat, NEW o \in Seq(1 .. n), NEW q \in Seq(1 .. n),
         Down(b, o, h, n, q), Seen(b, o, h, n) + 1 <= n
  PROVE  /\ Down(b, o, h + 1, n, Append(q, Seen(b, o, h, n) + 1))
         /\ Seen(b, o, h + 1, n) = Seen(b, o, h, n) + 1
         /\ Seen(b, o, h, n) + 1 \in 1..n
  <1> DEFINE x == Seen(b, o, h, n) + 1
  <1>1. Len(o) \in Nat /\ x \in 1..n /\ x = n - (b + Len(o) - h) + 1
    BY LenProperties DEF Seen, Down
  <1>2. Seen(b, o, h + 1, n) = x
    BY <1>1 DEF Seen
  <1> HIDE DEF x
  <1>3. /\ Len(q) \in Nat /\ Len(Append(q, x)) = Len(q) + 1
        /\ \A i \in 1..Len(q) : Append(q, x)[i] = q[i]
        /\ Append(q, x)[Len(q) + 1] = x
        /\ \A i \in 1..Len(q) + 1 : i \in 1..Len(q) \/ i = Len(q) + 1
    BY <1>1, AppendAt, SMTT(20)
  <1>4. \A i \in 1..Len(q) : q[i] \in 1..n /\ q[i] <= x
    <2>1. \A i \in 1..Len(q) : q[i] \in 1..n
      BY ElementOfSeq
    <2>2. PICK y \in Int : y = Seen(b, o, h, n) /\ x = y + 1
      BY SeenRange DEF x
    <2>3. \A i \in 1..Len(q) : q[i] <= y
      BY <2>2 DEF Down
    <2>4. \A m \in 1..n : m <= y => m <= x
      BY <2>2
    <2>5. QED
      BY <2>1, <2>3, <2>4
  <1>5. \A i \in 1..Len(Append(q, x)) : Append(q, x)[i] <= x
    BY <1>1, <1>3, <1>4
  <1>6. b <= h + 1 /\ h + 1 <= b + Len(o)
    BY <1>1 DEF Down
  <1>7. QED
    BY <1>1, <1>2, <1>5, <1>6 DEF Down, x

-----------------------------------------------------------------------------
(* Each step keeps the invariant.                                          *)

LEMMA ResetOK ==
  ASSUME NEW n \in Nat, NEW s \in SessionOf(n)
  PROVE  SessionOK(Reset(s), n) /\ Reset(s).id = None
  <1>1. \A S : <<>> \in Seq(S)
    BY EmptySeq
  <1>2. Reset(s) \in SessionOf(n) /\ Reset(s).id = None /\ ~Reset(s).enabled
        /\ Reset(s).handled = 0 /\ Reset(s).acked = 0 /\ Reset(s).unacked = <<>>
    BY <1>1 DEF Reset, SessionOf
  <1>3. QED
    BY <1>2, NoStanzas DEF SessionOK

\* The session has an id in no other phase than it should.
LEMMA Facts ==
  ASSUME IInv
  PROVE  /\ sent \in Nat /\ pushed \in Nat /\ drops \in Nat
         /\ SessionOK(session, sent) /\ session \in SessionOf(sent)
         /\ StreamOK(stream, pushed) /\ stream \in StreamOf(pushed)
         /\ c2s \in Seq(UpSet) /\ s2c \in Seq(DownSet)
         /\ processed \in Seq(1 .. sent) /\ seen \in Seq(1 .. pushed)
  BY DEF IInv, ITypes, ISession, IStreams, ICounts, SessionOK, StreamOK

LEMMA NoneLoose == \A n, p : Loose(<<>>, n, p)
  BY NoStanzas DEF Loose

LEMMA InvConnect == IInv /\ Connect => IInv'
  <1> SUFFICES ASSUME IInv, Connect PROVE IInv'
    OBVIOUS
  <1>1. c2s = <<>> /\ s2c = <<>> /\ stream.id = None
    BY DEF Connect, IInv, IPhase, IDown
  <1>2. ICounts' /\ IOnce'
    BY DEF Connect, IInv, ITypes, ICounts, IOnce, Sorted
  <1>3. CASE session.id # None /\ phase' = "resuming" /\ Post(<<Resume>>) /\ UNCHANGED session
    <2>1. c2s' = <<Resume>>
      BY <1>1, <1>3, ConcatNone DEF Post
    <2>2. ISession'
      BY <1>3 DEF Connect, IInv, ITypes, ISession
    <2>3. IStreams'
      <3>1. session.id \in Nat /\ session.handled \in Nat
        BY <1>3, Facts DEF SessionOf
      <3>2. Resume \in UpSet
        BY <3>1 DEF Resume, UpSet
      <3>3. c2s' \in Seq(UpSet)
        BY <2>1, <3>2
      <3>4. QED
        BY <3>3 DEF Connect, IInv, ITypes, IStreams
    <2>4. IPhase'
      <3>1. Resume' = Resume
        BY <1>3 DEF Resume
      <3>2. session'.id # None /\ stream'.id = None /\ s2c' = <<>> /\ c2s' = <<Resume'>>
        BY <1>1, <1>3, <2>1, <3>1 DEF Connect
      <3>3. IResuming'
        BY <3>2 DEF IResuming
      <3>4. QED
        BY <1>3, <3>3 DEF IPhase, IDown, IBinding, IEnabling, IOnline
    <2>5. IHeld'
      BY <1>3 DEF Connect, IInv, IHeld, Linked
    <2>6. QED
      BY <1>2, <2>2, <2>3, <2>4, <2>5 DEF IInv, ITypes
  <1>4. CASE session.id = None /\ phase' = "binding" /\ session' = Reset(session) /\ Post(<<Packet("bind", 0)>>)
    <2>1. c2s' = <<Packet("bind", 0)>>
      BY <1>1, <1>4, ConcatNone DEF Post
    <2>2. ISession' /\ session'.id = None
      BY <1>4, Facts, ResetOK DEF Connect, ISession
    <2>3. IStreams'
      <3>1. Packet("bind", 0) \in UpSet
        BY DEF Packet, UpSet
      <3>2. c2s' \in Seq(UpSet)
        BY <2>1, <3>1
      <3>3. QED
        BY <3>2 DEF Connect, IInv, ITypes, IStreams
    <2>4. IPhase'
      <3>1. /\ session'.id = None /\ stream'.id = None /\ s2c' = <<>> /\ c2s' # <<>>
            /\ Head(c2s') = Packet("bind", 0) /\ Loose(Tail(c2s'), sent', processed')
        BY <1>1, <2>1, <2>2, Single, NoneLoose DEF Connect
      <3>2. IBinding'
        BY <3>1 DEF IBinding
      <3>3. QED
        BY <1>4, <3>2 DEF IPhase, IDown, IResuming, IEnabling, IOnline
    <2>5. IHeld'
      BY <2>2 DEF IHeld
    <2>6. QED
      BY <1>2, <2>2, <2>3, <2>4, <2>5 DEF IInv, ITypes
  <1>5. QED
    BY <1>3, <1>4 DEF Connect, Resume

LEMMA InvBound == IInv /\ OnBound => IInv'
  <1> SUFFICES ASSUME IInv, OnBound PROVE IInv'
    OBVIOUS
  <1>1. /\ session.id = None /\ stream.id = None /\ stream.bound /\ s2c' = <<>>
        /\ Loose(c2s, sent, processed) /\ c2s \in Seq(UpSet)
        /\ phase' = "enabling" /\ c2s' = c2s \o <<Packet("enable", 0)>> /\ s2c' \in Seq(DownSet)
        /\ UNCHANGED <<session, stream, held, sent, processed, pushed, seen, drops>>
    BY DownPacket, Facts DEF OnBound, Got, Post
  <1>2. c2s' \in Seq(UpSet)
    <2>1. <<Packet("enable", 0)>> \in Seq(UpSet)
      BY DEF Packet, UpSet
    <2>2. QED
      BY <1>1, <2>1, ConcatAt
  <1>3. ITypes'
    BY <1>1, <1>2 DEF IInv, ITypes, ISession, IStreams, ICounts
  <1>4. IPhase'
    <2>1. (\E q \in Seq(UpSet) : Enables(q))'
      BY <1>1 DEF Enables
    <2>2. IEnabling'
      BY <1>1, <2>1 DEF IEnabling
    <2>3. QED
      BY <1>1, <2>2 DEF IPhase, IDown, IResuming, IBinding, IOnline
  <1>5. IHeld' /\ IOnce'
    BY <1>1 DEF IInv, IHeld, IOnce, Sorted
  <1>6. QED
    BY <1>3, <1>4, <1>5 DEF IInv

LEMMA InvFailed == IInv /\ OnFailed => IInv'
  <1> SUFFICES ASSUME IInv, OnFailed PROVE IInv'
    OBVIOUS
  <1>1. /\ stream.id = None /\ c2s = <<>> /\ s2c' = <<>> /\ s2c' \in Seq(DownSet)
        /\ phase \in {"resuming", "enabling"}
    BY DownPacket DEF OnFailed, Got
  <1>2. ISession' /\ session'.id = None
    BY Facts, ResetOK DEF OnFailed, ISession
  <1>3. c2s' \in Seq(UpSet) /\ \/ phase' = "binding" /\ c2s' = <<Packet("bind", 0)>>
                               \/ phase' = "online" /\ c2s' = <<>>
    <2>1. Packet("bind", 0) \in UpSet /\ <<>> \in Seq(UpSet)
      BY EmptySeq DEF Packet, UpSet
    <2>2. CASE phase = "resuming"
      <3>1. phase' = "binding" /\ c2s' = <<Packet("bind", 0)>>
        BY <1>1, <2>2, ConcatNone DEF OnFailed, Post
      <3>2. QED
        BY <2>1, <3>1
    <2>3. CASE phase # "resuming"
      BY <1>1, <2>1, <2>3 DEF OnFailed
    <2>4. QED
      BY <2>2, <2>3
  <1>4. ITypes'
    BY <1>1, <1>2, <1>3 DEF OnFailed, IInv, ITypes, IStreams, ICounts
  <1>5. IPhase'
    <2>1. CASE phase' = "binding"
      <3>1. c2s' = <<Packet("bind", 0)>> /\ stream'.id = None
        BY <1>1, <1>3, <2>1 DEF OnFailed
      <3>2. c2s' # <<>> /\ Head(c2s') = Packet("bind", 0) /\ Loose(Tail(c2s'), sent', processed')
        BY <3>1, Single, NoneLoose
      <3>3. IBinding'
        BY <1>1, <1>2, <3>1, <3>2 DEF IBinding
      <3>4. QED
        BY <2>1, <3>3 DEF IPhase, IDown, IResuming, IEnabling, IOnline
    <2>2. CASE phase' = "online"
      <3>1. Loose(<<>>, sent', processed')
        BY NoStanzas DEF Loose
      <3>2. Unmanaged'
        BY <1>1, <1>2, <1>3, <2>2, <3>1 DEF OnFailed, Unmanaged
      <3>3. QED
        BY <2>2, <3>2 DEF IPhase, IDown, IResuming, IBinding, IEnabling, IOnline
    <2>3. QED
      BY <1>3, <2>1, <2>2
  <1>6. IHeld' /\ IOnce'
    BY <1>2 DEF OnFailed, IInv, IHeld, IOnce, Sorted
  <1>7. QED
    BY <1>4, <1>5, <1>6 DEF IInv

LEMMA InvServeBind == IInv /\ ServeBind => IInv'
  <1> SUFFICES ASSUME IInv, ServeBind PROVE IInv'
    OBVIOUS
  <1>1. /\ phase = "binding" /\ session.id = None /\ stream.id = None /\ s2c = <<>>
        /\ c2s' \in Seq(UpSet) /\ Loose(c2s', sent, processed)
    BY UpPacket DEF ServeBind, Read
  <1>2. s2c' = <<Packet("bound", 0)>> /\ s2c' \in Seq(DownSet)
    <2>1. Packet("bound", 0) \in DownSet
      BY DEF Packet, DownSet
    <2>2. QED
      BY <1>1, <2>1, ConcatNone DEF ServeBind, Reply
  <1>3. StreamOK(stream', pushed) /\ stream'.id = None /\ stream'.bound
    BY <1>1, Facts DEF ServeBind, StreamOK, StreamOf
  <1>4. ITypes'
    BY <1>1, <1>2, <1>3 DEF ServeBind, IInv, ITypes, ISession, IStreams, ICounts
  <1>5. IPhase'
    BY <1>1, <1>2, <1>3 DEF ServeBind, IPhase, IDown, IResuming, IBinding, IEnabling, IOnline
  <1>6. IHeld' /\ IOnce'
    BY <1>1 DEF ServeBind, IInv, IHeld, IOnce, Sorted
  <1>7. QED
    BY <1>4, <1>5, <1>6 DEF IInv

LEMMA InvForget == IInv /\ Forget => IInv'
  <1> SUFFICES ASSUME IInv, Forget PROVE IInv'
    OBVIOUS
  <1>1. ITypes' /\ IHeld' /\ IOnce'
    BY DEF Forget, IInv, ITypes, ISession, IStreams, ICounts, IHeld, IOnce, Sorted
  <1>2. IPhase'
    BY DEF Forget, IInv, IPhase, IDown, IResuming, IBinding, IEnabling, IOnline, Opening, Linked,
           Managed, Unmanaged, Enables, Resume
  <1>3. QED
    BY <1>1, <1>2 DEF IInv

LEMMA LinkedStream ==
  ASSUME IInv, session.id # None, stream.id # None
  PROVE  Linked(stream)
  BY DEF IInv, ITypes, ICounts, IPhase, IDown, IResuming, IBinding, IEnabling, IOnline, Opening,
         Managed, Unmanaged

LEMMA InvDisconnect ==
  ASSUME IInv, NEW s, s = session \/ s = Reset(session), Disconnect(s)
  PROVE  IInv'
  <1>1. SessionOK(s, sent) /\ (s.id # None => s = session)
    BY Facts, ResetOK
  <1>2. /\ phase' = "down" /\ session' = s /\ c2s' = <<>> /\ s2c' = <<>> /\ stream' = NewStream
        /\ held' = IF stream.id # None THEN stream ELSE held
        /\ drops' = drops + 1 /\ UNCHANGED <<sent, processed, pushed, seen>>
    BY DEF Disconnect
  <1>3. ISession'
    BY <1>1, <1>2 DEF ISession
  <1>4. StreamOK(NewStream, pushed) /\ NewStream.id = None
    <2>1. <<>> \in Seq(1 .. pushed)
      BY EmptySeq
    <2>2. QED
      BY <2>1 DEF NewStream, StreamOK, StreamOf
  <1>5. IStreams'
    <2>1. <<>> \in Seq(UpSet) /\ <<>> \in Seq(DownSet)
      BY EmptySeq
    <2>2. stream \in StreamOf(pushed) /\ (held = None \/ held \in StreamOf(pushed))
      BY Facts DEF IInv, ITypes, IStreams
    <2>3. QED
      BY <1>2, <1>4, <2>1, <2>2 DEF IStreams
  <1>6. ICounts'
    BY <1>2 DEF IInv, ITypes, ICounts
  <1>7. IPhase'
    BY <1>2, <1>4 DEF IPhase, IDown, IResuming, IBinding, IEnabling, IOnline
  <1>8. IHeld'
    <2>1. SUFFICES ASSUME session'.id # None, held' # None, held'.id = session'.id
                   PROVE  Linked(held)'
      BY DEF IHeld
    <2>2. session' = session /\ session.id # None
      BY <1>1, <1>2, <2>1
    <2>3. Linked(held')
      BY <1>2, <2>1, <2>2, LinkedStream DEF IInv, IHeld
    <2>4. QED
      BY <1>2, <2>2, <2>3 DEF Linked
  <1>9. IOnce'
    BY <1>2 DEF IInv, IOnce, Sorted
  <1>10. QED
    BY <1>3, <1>5, <1>6, <1>7, <1>8, <1>9 DEF IInv, ITypes

LEMMA InvDrop == IInv /\ (Drop \/ Reload) => IInv'
  BY InvDisconnect DEF Drop, Reload

LEMMA NoAcks ==
  ASSUME NEW q, NEW types, Only(q, types), "a" \notin types, NEW lo, NEW hi
  PROVE  AcksIn(q, lo, hi)
  BY DEF Only, AcksIn, Within, Climbing

LEMMA OnlyMore ==
  ASSUME NEW q, NEW types, NEW more, Only(q, types), types \subseteq more
  PROVE  Only(q, more)
  BY DEF Only

\* A packet that is not a stanza, at the end of a queue
LEMMA OnePacket ==
  ASSUME NEW t, NEW h \in Nat, NEW n \in Int, t # "stanza"
  PROVE  /\ Complete(<<Packet(t, h)>>, n, n) /\ Only(<<Packet(t, h)>>, {t})
         /\ AcksIn(<<Packet(t, h)>>, h, h)
  <1>1. Len(<<Packet(t, h)>>) = 1 /\ <<Packet(t, h)>>[1] = Packet(t, h)
    OBVIOUS
  <1>2. \A i \in 1..1 : i = 1
    OBVIOUS
  <1>3. PICK q : q = <<Packet(t, h)>>
    OBVIOUS
  <1>4. \A i \in 1..Len(q) : i = 1 /\ q[i].type = t /\ q[i].n = h
    BY <1>1, <1>2, <1>3 DEF Packet
  <1>5. Complete(q, n, n) /\ Only(q, {t}) /\ AcksIn(q, h, h)
    BY <1>4 DEF Complete, Within, Rising, Covers, AcksIn, Climbing, Only
  <1>6. QED
    BY <1>3, <1>5

LEMMA InvEnabled == IInv /\ OnEnabled => IInv'
  <1> SUFFICES ASSUME IInv, OnEnabled PROVE IInv'
    OBVIOUS
  <1>1. session.id = None /\ Opening("enabled", stream.id) /\ s2c' = Tail(s2c) /\ s2c' \in Seq(DownSet)
    BY DownPacket DEF OnEnabled, Got
  <1>2. /\ stream.id # None /\ Linked(stream) /\ c2s = <<>> /\ Only(s2c', {"stanza", "r"})
        /\ Complete(s2c', Seen(stream.base, stream.out, session.handled, pushed), pushed)
        /\ Head(s2c).n = stream.id
    BY <1>1 DEF Opening, Packet
  <1>3. session.acked = 0 /\ session.handled = 0 /\ session.unacked = <<>>
    BY <1>1, Facts DEF SessionOK
  <1>4. /\ session' \in SessionOf(sent) /\ session'.enabled /\ session'.id = stream.id
        /\ session'.acked = session.acked /\ session'.handled = session.handled
        /\ session'.unacked = session.unacked
    <2>1. stream.id \in Nat \cup {None}
      BY Facts DEF StreamOf
    <2>2. QED
      BY <1>2, <2>1, Facts DEF OnEnabled, SessionOf
  <1>5. ITypes'
    <2>1. ISession'
      BY <1>2, <1>3, <1>4, Facts DEF OnEnabled, ISession, SessionOK
    <2>2. QED
      BY <1>1, <2>1 DEF OnEnabled, IInv, ITypes, IStreams, ICounts
  <1>6. Managed'
    <2>1. Only(c2s', {"stanza", "a"}) /\ Only(s2c', {"stanza", "r", "a"})
      <3>1. {"stanza", "r"} \subseteq {"stanza", "r", "a"}
        OBVIOUS
      <3>2. QED
        BY <1>2, <3>1, OnlyMore, NoStanzas DEF OnEnabled
    <2>2. Linked(stream)'
      BY <1>2, <1>4 DEF OnEnabled, Linked
    <2>3. Handled(session.acked, session.unacked, stream.in, sent) = sent
      <3>1. stream.in = 0
        BY <1>2, <1>3, Facts DEF Linked, Up, StreamOf
      <3>2. QED
        BY <1>3, <3>1, Facts DEF Handled
    <2>4. Complete(c2s', sent, sent) /\ AcksIn(c2s', stream.base, session.handled)
      <3>1. sent \in Int /\ stream.base \in Int /\ session.handled \in Int
        BY Facts DEF StreamOf, SessionOf
      <3>2. QED
        BY <1>2, <3>1, NoStanzas DEF OnEnabled
    <2>5. AcksIn(s2c', session.acked, stream.in)
      BY <1>2, NoAcks
    <2>6. QED
      BY <1>2, <1>4, <2>1, <2>2, <2>3, <2>4, <2>5 DEF OnEnabled, Managed
  <1>7. IPhase'
    BY <1>6 DEF OnEnabled, IPhase, IDown, IResuming, IBinding, IEnabling, IOnline
  <1>8. IHeld' /\ IOnce'
    BY <1>2 DEF OnEnabled, IInv, IHeld, IOnce, Sorted
  <1>9. QED
    BY <1>5, <1>7, <1>8 DEF IInv

LEMMA InvServeEnable == IInv /\ ServeEnable => IInv'
  <1> SUFFICES ASSUME IInv, ServeEnable PROVE IInv'
    OBVIOUS
  <1>1. /\ phase = "enabling" /\ session.id = None /\ stream.id = None /\ stream.bound /\ s2c = <<>>
        /\ c2s' = <<>> /\ c2s' \in Seq(UpSet)
    BY UpPacket DEF ServeEnable, Read
  <1>2. CASE stream' = [stream EXCEPT !.id = drops] /\ Reply(<<Packet("enabled", drops)>>)
    <2>1. s2c' = <<Packet("enabled", drops)>> /\ s2c' \in Seq(DownSet)
      <3>1. Packet("enabled", drops) \in DownSet
        BY Facts DEF Packet, DownSet
      <3>2. QED
        BY <1>1, <1>2, <3>1, ConcatNone DEF Reply
    <2>2. /\ stream'.id = drops /\ drops # None /\ stream' \in StreamOf(pushed) /\ stream'.bound
          /\ stream'.in = 0 /\ stream'.base = 0 /\ stream'.out = <<>>
      BY <1>1, <1>2, Facts DEF StreamOK, StreamOf
    <2>3. session.acked = 0 /\ session.handled = 0 /\ session.unacked = <<>>
      BY <1>1, Facts DEF SessionOK
    <2>4. Seen(0, <<>>, 0, pushed) = pushed /\ Handled(0, <<>>, 0, sent) = sent
      BY Facts DEF Seen, Handled
    <2>5. Linked(stream)'
      <3>1. Up(0, <<>>, 0, sent, processed)
        <4>1. \A i \in 1..Len(processed) : processed[i] \in 1 .. sent
          BY Facts, ElementOfSeq
        <4>2. \A i \in 1..Len(processed) : processed[i] <= sent
          BY <4>1, Facts
        <4>3. QED
          BY <2>4, <4>2 DEF Up
      <3>2. Down(0, <<>>, 0, pushed, seen)
        <4>1. \A i \in 1..Len(seen) : seen[i] \in 1 .. pushed
          BY Facts, ElementOfSeq
        <4>2. \A i \in 1..Len(seen) : seen[i] <= pushed
          BY <4>1, Facts
        <4>3. QED
          BY <2>4, <4>2, NoStanzas, Facts DEF Down
      <3>3. QED
        BY <2>2, <2>3, <3>1, <3>2 DEF ServeEnable, Linked
    <2>6. Opening("enabled", stream.id)'
      <3>1. Tail(s2c') = <<>> /\ s2c' # <<>> /\ Head(s2c') = Packet("enabled", drops)
        BY <2>1, Single
      <3>2. Only(<<>>, {"stanza", "r"}) /\ Complete(<<>>, pushed, pushed)
        <4>1. pushed \in Int
          BY Facts
        <4>2. QED
          BY <4>1, NoStanzas
      <3>3. QED
        BY <1>1, <2>2, <2>3, <2>4, <2>5, <3>1, <3>2 DEF ServeEnable, Opening
    <2>7. ITypes'
      BY <1>1, <2>1, <2>2 DEF ServeEnable, IInv, ITypes, ISession, IStreams, ICounts, StreamOK
    <2>8. IPhase'
      BY <1>1, <2>6 DEF ServeEnable, IPhase, IDown, IResuming, IBinding, IEnabling, IOnline
    <2>9. IHeld' /\ IOnce'
      BY <1>1 DEF ServeEnable, IInv, IHeld, IOnce, Sorted
    <2>10. QED
      BY <2>7, <2>8, <2>9 DEF IInv
  <1>3. CASE Reply(<<Packet("failed", 0)>>) /\ UNCHANGED stream
    <2>1. s2c' = <<Packet("failed", 0)>> /\ s2c' \in Seq(DownSet)
      <3>1. Packet("failed", 0) \in DownSet
        BY DEF Packet, DownSet
      <3>2. QED
        BY <1>1, <1>3, <3>1, ConcatNone DEF Reply
    <2>2. ITypes'
      BY <1>1, <1>3, <2>1 DEF ServeEnable, IInv, ITypes, ISession, IStreams, ICounts
    <2>3. IPhase'
      BY <1>1, <1>3, <2>1 DEF ServeEnable, IPhase, IDown, IResuming, IBinding, IEnabling, IOnline
    <2>4. IHeld' /\ IOnce'
      BY <1>1 DEF ServeEnable, IInv, IHeld, IOnce, Sorted
    <2>5. QED
      BY <2>2, <2>3, <2>4 DEF IInv
  <1>4. QED
    BY <1>2, <1>3 DEF ServeEnable

LEMMA SessionRange ==
  ASSUME NEW n, NEW s \in SessionOf(n)
  PROVE  /\ s.acked \in Nat /\ s.handled \in Nat /\ s.since \in Nat /\ s.unacked \in Seq(1 .. n)
         /\ s.id \in Nat \cup {None} /\ s.enabled \in BOOLEAN /\ s.resumed \in BOOLEAN
  BY DEF SessionOf

LEMMA StreamRange ==
  ASSUME NEW n, NEW st \in StreamOf(n)
  PROVE  st.in \in Nat /\ st.base \in Nat /\ st.out \in Seq(1 .. n) /\ st.id \in Nat \cup {None}
  BY DEF StreamOf

LEMMA SessionAcked ==
  ASSUME NEW n \in Nat, NEW s \in SessionOf(n), NEW h \in Nat, h >= s.acked,
         From(s.unacked, h - s.acked) \in Seq(1 .. n)
  PROVE  /\ Acked(s, h) \in SessionOf(n) /\ Acked(s, h).acked = h
         /\ Acked(s, h).unacked = From(s.unacked, h - s.acked)
         /\ Acked(s, h).handled = s.handled /\ Acked(s, h).id = s.id
         /\ Acked(s, h).enabled = s.enabled /\ Acked(s, h).since = 0
         /\ Acked(s, h).resumed = s.resumed
  <1>1. Acked(s, h) = [s EXCEPT !.acked = h, !.since = 0,
                                !.unacked = From(s.unacked, h - s.acked)]
    BY DEF Acked, SessionOf
  <1>2. PICK u : u = From(s.unacked, h - s.acked)
    OBVIOUS
  <1>3. u \in Seq(1 .. n) /\ Acked(s, h) = [s EXCEPT !.acked = h, !.since = 0, !.unacked = u]
    BY <1>1, <1>2
  <1>4. PICK r : r = Acked(s, h)
    OBVIOUS
  <1>5. r = [s EXCEPT !.acked = h, !.since = 0, !.unacked = u]
    BY <1>3, <1>4
  <1>6. s \in SessionOf(n) /\ u \in Seq(1 .. n) /\ h \in Nat /\ 0 \in Nat
    BY <1>3
  <1>7. r \in SessionOf(n) /\ r.acked = h /\ r.unacked = u /\ r.since = 0
    BY <1>5, <1>6 DEF SessionOf
  <1>8. r.handled = s.handled /\ r.id = s.id /\ r.enabled = s.enabled /\ r.resumed = s.resumed
    BY <1>5, <1>6 DEF SessionOf
  <1>9. QED
    BY <1>2, <1>4, <1>7, <1>8

\* What a managed connection knows of its counters
LEMMA ManagedFacts ==
  ASSUME IInv, Managed
  PROVE  /\ SessionOK(session, sent) /\ session.enabled /\ session \in SessionOf(sent)
         /\ stream \in StreamOf(pushed) /\ sent \in Nat /\ pushed \in Nat
         /\ session.acked \in Nat /\ session.handled \in Nat /\ session.unacked \in Seq(1 .. sent)
         /\ Numbers(session.unacked, sent) /\ Len(session.unacked) <= sent
         /\ stream.in \in Nat /\ stream.base \in Nat /\ stream.out \in Seq(1 .. pushed)
         /\ c2s \in Seq(UpSet) /\ s2c \in Seq(DownSet)
         /\ processed \in Seq(1 .. sent) /\ seen \in Seq(1 .. pushed)
         /\ Up(session.acked, session.unacked, stream.in, sent, processed)
         /\ Down(stream.base, stream.out, session.handled, pushed, seen)
         /\ Handled(session.acked, session.unacked, stream.in, sent) \in 0 .. sent
         /\ Seen(stream.base, stream.out, session.handled, pushed) \in 0 .. pushed
         /\ sent \in Int /\ pushed \in Int /\ session.acked \in Int /\ session.handled \in Int
         /\ stream.in \in Int /\ stream.base \in Int
         /\ stream.base <= session.handled /\ session.acked <= stream.in
  <1>1. /\ SessionOK(session, sent) /\ session \in SessionOf(sent) /\ stream \in StreamOf(pushed)
        /\ sent \in Nat /\ pushed \in Nat /\ c2s \in Seq(UpSet) /\ s2c \in Seq(DownSet)
        /\ processed \in Seq(1 .. sent) /\ seen \in Seq(1 .. pushed)
    BY Facts
  <1>2. session.enabled /\ Numbers(session.unacked, sent) /\ Len(session.unacked) <= sent
    BY <1>1 DEF SessionOK, Managed
  <1>3. session.acked \in Nat /\ session.handled \in Nat /\ session.unacked \in Seq(1 .. sent)
    BY <1>1, SessionRange
  <1>4. stream.in \in Nat /\ stream.base \in Nat /\ stream.out \in Seq(1 .. pushed)
    BY <1>1, StreamRange
  <1>5. /\ Up(session.acked, session.unacked, stream.in, sent, processed)
        /\ Down(stream.base, stream.out, session.handled, pushed, seen)
    BY DEF Managed, Linked
  <1>6. Handled(session.acked, session.unacked, stream.in, sent) \in 0 .. sent
    BY <1>1, <1>2, <1>3, <1>4, <1>5, HandledRange
  <1>7. Seen(stream.base, stream.out, session.handled, pushed) \in 0 .. pushed
    BY <1>1, <1>3, <1>4, <1>5, SeenRange
  <1>8. \A x \in Nat : x \in Int
    OBVIOUS
  <1>9. stream.base <= session.handled /\ session.acked <= stream.in
    BY <1>5 DEF Up, Down
  <1>10. QED
    BY <1>1, <1>2, <1>3, <1>4, <1>5, <1>6, <1>7, <1>8, <1>9

\* What an acknowledgement takes from the list, the server has counted in.
Cuts ==
    \E d \in Nat : /\ session.acked + d <= stream.in /\ Linked(stream)
                   /\ session'.unacked = From(session.unacked, d)

LEMMA InvAck == IInv /\ OnAck => IInv' /\ Cuts
  <1> SUFFICES ASSUME IInv, OnAck PROVE IInv' /\ Cuts
    OBVIOUS
  <1> DEFINE h == Head(s2c).n
             u == From(session.unacked, h - session.acked)
  <1>1. phase = "online" /\ Managed /\ s2c # <<>> /\ s2c' = Tail(s2c) /\ s2c' \in Seq(DownSet)
        /\ Head(s2c).type = "a"
    BY DownPacket DEF OnAck, Got
  <1>2. /\ SessionOK(session, sent) /\ session \in SessionOf(sent) /\ session.enabled
        /\ Numbers(session.unacked, sent) /\ Len(session.unacked) <= sent
        /\ Up(session.acked, session.unacked, stream.in, sent, processed)
        /\ sent \in Nat /\ session.acked \in Nat /\ stream.in \in Nat
        /\ session.unacked \in Seq(1 .. sent) /\ s2c \in Seq(DownSet)
    BY <1>1, ManagedFacts
  <1>3. h \in session.acked .. stream.in /\ AcksIn(s2c', h, stream.in)
    BY <1>1, <1>2, AcksTail DEF Managed
  <1>4. h \in Nat /\ h >= session.acked
    BY <1>2, <1>3
  <1> HIDE DEF h, u
  <1>5. /\ Up(h, u, stream.in, sent, processed)
        /\ Handled(h, u, stream.in, sent) = Handled(session.acked, session.unacked, stream.in, sent)
        /\ u \in Seq(1 .. sent) /\ Numbers(u, sent)
        /\ Len(u) = Len(session.unacked) - (h - session.acked)
    <2>1. PICK a, n, w, in, d : /\ a = session.acked /\ n = sent /\ w = session.unacked
                                /\ in = stream.in /\ d = h - session.acked
      OBVIOUS
    <2>2. d \in Nat /\ a + d = h /\ u = From(w, d)
      BY <1>2, <1>3, <1>4, <2>1 DEF u
    <2>3. /\ a \in Nat /\ in \in Nat /\ n \in Nat /\ w \in Seq(1 .. n)
          /\ d \in Nat /\ a + d <= in /\ Numbers(w, n) /\ Up(a, w, in, n, processed)
      BY <1>2, <1>3, <1>4, <2>1, <2>2
    <2>4. /\ Up(a + d, From(w, d), in, n, processed)
          /\ Handled(a + d, From(w, d), in, n) = Handled(a, w, in, n)
          /\ From(w, d) \in Seq(1 .. n) /\ Numbers(From(w, d), n)
          /\ Len(From(w, d)) = Len(w) - d
      BY <2>3, UpAck
    <2>5. QED
      BY <2>1, <2>2, <2>4
  <1>6. Len(u) <= sent
    <2>1. Len(u) \in Nat /\ Len(session.unacked) \in Nat
      BY <1>2, <1>5, LenProperties
    <2>2. session.acked \in Nat /\ h \in Nat /\ h >= session.acked /\ sent \in Nat
          /\ Len(session.unacked) <= sent /\ Len(u) = Len(session.unacked) - (h - session.acked)
      BY <1>2, <1>4, <1>5
    <2>3. QED
      BY <2>1, <2>2
  <1>7. /\ session' \in SessionOf(sent) /\ session'.acked = h /\ session'.unacked = u
        /\ session'.handled = session.handled /\ session'.id = session.id
        /\ session'.enabled = session.enabled
    <2>1. session' = Acked(session, h)
      BY <1>2 DEF OnAck, h
    <2>2. QED
      <3>1. session \in SessionOf(sent) /\ sent \in Nat /\ h \in Nat /\ h >= session.acked
            /\ From(session.unacked, h - session.acked) \in Seq(1 .. sent)
        BY <1>2, <1>4, <1>5 DEF u
      <3>2. QED
        BY <2>1, <3>1, SessionAcked DEF u
  <1>8. ITypes'
    <2>1. SessionOK(session', sent)
      BY <1>1, <1>2, <1>5, <1>6, <1>7 DEF SessionOK, Managed
    <2>2. QED
      BY <1>1, <2>1 DEF OnAck, IInv, ITypes, ISession, IStreams, ICounts
  <1>9. Managed'
    <2>1. Linked(stream)'
      BY <1>1, <1>5, <1>7 DEF OnAck, Managed, Linked
    <2>2. Only(s2c', {"stanza", "r", "a"})
          /\ Complete(s2c', Seen(stream.base, stream.out, session.handled, pushed), pushed)
      <3>1. Seen(stream.base, stream.out, session.handled, pushed) \in Int /\ pushed \in Int
        <4>1. Seen(stream.base, stream.out, session.handled, pushed) \in 0 .. pushed /\ pushed \in Nat
          BY <1>1, ManagedFacts
        <4>2. \A x \in 0 .. pushed : x \in Int
          OBVIOUS
        <4>3. QED
          BY <4>1, <4>2
      <3>2. QED
        BY <1>1, <1>2, <3>1, CompleteTail, OnlyTail DEF Managed
    <2>3. QED
      BY <1>1, <1>3, <1>5, <1>7, <2>1, <2>2 DEF OnAck, Managed
  <1>10. IPhase'
    BY <1>1, <1>9 DEF OnAck, IPhase, IDown, IResuming, IBinding, IEnabling, IOnline
  <1>11. IHeld' /\ IOnce'
    BY <1>1 DEF Managed, OnAck, IInv, IHeld, IOnce, Sorted
  <1>12. Cuts
    <2>1. PICK d : d = h - session.acked
      OBVIOUS
    <2>2. d \in Nat /\ session.acked + d <= stream.in
      BY <1>2, <1>3, <2>1, SMTT(20)
    <2>3. session'.unacked = From(session.unacked, d) /\ Linked(stream)
      BY <1>1, <1>7, <2>1 DEF u, Managed
    <2>4. QED
      BY <2>2, <2>3 DEF Cuts
  <1>13. QED
    BY <1>8, <1>10, <1>11, <1>12 DEF IInv

LEMMA InvRequest == IInv /\ OnRequest => IInv'
  <1> SUFFICES ASSUME IInv, OnRequest PROVE IInv'
    OBVIOUS
  <1>1. phase = "online" /\ Managed /\ s2c # <<>> /\ s2c' = Tail(s2c) /\ s2c' \in Seq(DownSet)
        /\ Head(s2c).type = "r"
    BY DownPacket DEF OnRequest, Got
  <1>2. /\ SessionOK(session, sent) /\ session.enabled /\ session \in SessionOf(sent)
        /\ stream \in StreamOf(pushed) /\ sent \in Int /\ pushed \in Int
        /\ c2s \in Seq(UpSet) /\ s2c \in Seq(DownSet) /\ session.handled \in Nat
        /\ stream.base \in Int /\ stream.base <= session.handled
        /\ Handled(session.acked, session.unacked, stream.in, sent) \in 0 .. sent
        /\ Seen(stream.base, stream.out, session.handled, pushed) \in 0 .. pushed
        /\ session.acked \in Int /\ stream.in \in Int
    <2>1. \A x \in Nat : x \in Int
      OBVIOUS
    <2>2. stream.base <= session.handled
      BY <1>1, ManagedFacts
    <2>3. QED
      BY <1>1, <2>1, <2>2, ManagedFacts
  <1>3. /\ c2s' = c2s \o <<Packet("a", session.handled)>> /\ <<Packet("a", session.handled)>> \in Seq(UpSet)
        /\ c2s' \in Seq(UpSet)
    <2>1. Packet("a", session.handled) \in UpSet
      BY <1>2 DEF Packet, UpSet
    <2>2. c2s' = c2s \o <<Packet("a", session.handled)>>
      BY <1>2 DEF OnRequest, Post
    <2>3. QED
      BY <1>2, <2>1, <2>2, ConcatAt
  <1>4. /\ Complete(c2s', Handled(session.acked, session.unacked, stream.in, sent), sent)
        /\ Only(c2s', {"stanza", "a"}) /\ AcksIn(c2s', stream.base, session.handled)
    <2>1. /\ Complete(<<Packet("a", session.handled)>>, sent, sent)
          /\ Only(<<Packet("a", session.handled)>>, {"a"})
          /\ AcksIn(<<Packet("a", session.handled)>>, session.handled, session.handled)
      BY <1>2, OnePacket
    <2>2. Complete(c2s', Handled(session.acked, session.unacked, stream.in, sent), sent)
      <3>1. PICK x : x = Handled(session.acked, session.unacked, stream.in, sent)
        OBVIOUS
      <3>2. x \in Int /\ x <= sent /\ sent <= sent /\ Complete(c2s, x, sent)
        BY <1>1, <1>2, <3>1 DEF Managed
      <3>3. QED
        BY <1>2, <1>3, <2>1, <3>1, <3>2, CompleteConcat
    <2>3. Only(c2s', {"stanza", "a"})
      <3>1. {"a"} \subseteq {"stanza", "a"}
        OBVIOUS
      <3>2. Only(<<Packet("a", session.handled)>>, {"stanza", "a"})
        BY <2>1, <3>1, OnlyMore
      <3>3. QED
        BY <1>1, <1>2, <1>3, <3>2, OnlyConcat DEF Managed
    <2>4. AcksIn(c2s', stream.base, session.handled)
      <3>1. session.handled \in Int /\ session.handled <= session.handled
        BY <1>2
      <3>2. QED
        BY <1>1, <1>2, <1>3, <2>1, <3>1, AcksConcat DEF Managed
    <2>5. QED
      BY <2>2, <2>3, <2>4
  <1>5. /\ Only(s2c', {"stanza", "r", "a"}) /\ AcksIn(s2c', session.acked, stream.in)
        /\ Complete(s2c', Seen(stream.base, stream.out, session.handled, pushed), pushed)
    BY <1>1, <1>2, CompleteTail, OnlyTail, AcksTail DEF Managed
  <1>6. ITypes'
    BY <1>1, <1>3 DEF OnRequest, IInv, ITypes, ISession, IStreams, ICounts
  <1>7. Managed'
    BY <1>1, <1>4, <1>5 DEF OnRequest, Managed, Linked
  <1>8. IPhase'
    BY <1>1, <1>7 DEF OnRequest, IPhase, IDown, IResuming, IBinding, IEnabling, IOnline
  <1>9. IHeld' /\ IOnce'
    BY <1>1 DEF Managed, OnRequest, IInv, IHeld, IOnce, Sorted
  <1>10. QED
    BY <1>6, <1>8, <1>9 DEF IInv

LEMMA AcksWiden ==
  ASSUME NEW q, NEW lo \in Int, NEW hi \in Int, NEW top \in Int, hi <= top, AcksIn(q, lo, hi)
  PROVE  AcksIn(q, lo, top)
  <1>1. \A x \in lo..hi : x \in lo..top
    OBVIOUS
  <1>2. QED
    BY <1>1 DEF AcksIn, Within

LEMMA InvStanza == IInv /\ OnStanza => IInv'
  <1> SUFFICES ASSUME IInv, OnStanza PROVE IInv'
    OBVIOUS
  <1>1. phase = "online" /\ Managed /\ s2c # <<>> /\ s2c' = Tail(s2c) /\ s2c' \in Seq(DownSet)
        /\ Head(s2c).type = "stanza"
    BY DownPacket DEF OnStanza, Got
  <1> DEFINE y == Seen(stream.base, stream.out, session.handled, pushed)
  <1>2. /\ SessionOK(session, sent) /\ session.enabled /\ session \in SessionOf(sent)
        /\ stream \in StreamOf(pushed) /\ sent \in Int /\ pushed \in Nat
        /\ c2s \in Seq(UpSet) /\ s2c \in Seq(DownSet) /\ session.handled \in Nat
        /\ stream.base \in Nat /\ stream.out \in Seq(1 .. pushed) /\ seen \in Seq(1 .. pushed)
        /\ Down(stream.base, stream.out, session.handled, pushed, seen)
        /\ y \in 0 .. pushed /\ session.acked \in Int /\ stream.in \in Int
    BY <1>1, ManagedFacts
  <1>3. Head(s2c).n = y + 1 /\ y + 1 <= pushed /\ Complete(s2c', y + 1, pushed)
    <2>1. y \in Int /\ pushed \in Int /\ Complete(s2c, y, pushed)
      BY <1>1, <1>2 DEF Managed
    <2> HIDE DEF y
    <2>2. QED
      BY <1>1, <1>2, <2>1, CompleteTail
  <1>4. /\ Down(stream.base, stream.out, session.handled + 1, pushed, Append(seen, y + 1))
        /\ Seen(stream.base, stream.out, session.handled + 1, pushed) = y + 1
        /\ y + 1 \in 1 .. pushed
    BY <1>2, <1>3, DownSee
  <1>5. Append(seen, y + 1) \in Seq(1 .. pushed) /\ Sorted(Append(seen, y + 1))
    <2>1. Sorted(seen) /\ \A i \in 1..Len(seen) : seen[i] <= y
      BY <1>2 DEF IInv, IOnce, Down
    <2>2. \A i \in 1..Len(seen) : seen[i] \in 1 .. pushed
      BY <1>2, ElementOfSeq
    <2> HIDE DEF y
    <2>3. \A i \in 1..Len(seen) : seen[i] < y + 1
      <3>1. y \in Int /\ pushed \in Nat
        BY <1>2
      <3>2. \A m \in 1 .. pushed : m <= y => m < y + 1
        BY <3>1
      <3>3. QED
        BY <2>1, <2>2, <3>2
    <2>4. QED
      BY <1>2, <1>4, <2>1, <2>3, SortedAppend, AppendAt
  <1>6. /\ session' \in SessionOf(sent) /\ session'.acked = session.acked
        /\ session'.unacked = session.unacked /\ session'.handled = session.handled + 1
        /\ session'.id = session.id /\ session'.enabled = session.enabled
    <2>1. session' = [session EXCEPT !.handled = session.handled + 1]
      BY <1>2 DEF OnStanza
    <2>2. session.handled + 1 \in Nat /\ session \in SessionOf(sent)
      BY <1>2
    <2>3. PICK r : r = session.handled + 1
      OBVIOUS
    <2>4. QED
      BY <2>1, <2>2, <2>3 DEF SessionOf
  <1>7. seen' = Append(seen, y + 1)
    BY <1>3 DEF OnStanza
  <1> HIDE DEF y
  <1>8. ITypes'
    <2>1. SessionOK(session', sent)
      BY <1>1, <1>2, <1>6 DEF SessionOK, Managed
    <2>2. QED
      BY <1>1, <1>5, <1>7, <2>1 DEF OnStanza, IInv, ITypes, ISession, IStreams, ICounts
  <1>9. Managed'
    <2>1. Linked(stream)'
      BY <1>1, <1>4, <1>6, <1>7 DEF OnStanza, Managed, Linked
    <2>2. Only(s2c', {"stanza", "r", "a"}) /\ AcksIn(s2c', session.acked, stream.in)
      BY <1>1, <1>2, OnlyTail, AcksTail DEF Managed
    <2>3. AcksIn(c2s, stream.base, session.handled + 1)
      <3>1. session.handled \in Int /\ session.handled + 1 \in Int /\ session.handled <= session.handled + 1
            /\ stream.base \in Int
        <4>1. session.handled \in Nat /\ stream.base \in Int
          BY <1>1, ManagedFacts
        <4>2. QED
          BY <4>1
      <3>2. QED
        BY <1>1, <3>1, AcksWiden DEF Managed
    <2>4. QED
      BY <1>1, <1>3, <1>4, <1>6, <2>1, <2>2, <2>3 DEF OnStanza, Managed
  <1>10. IPhase'
    BY <1>1, <1>9 DEF OnStanza, IPhase, IDown, IResuming, IBinding, IEnabling, IOnline
  <1>11. IHeld' /\ IOnce'
    BY <1>1, <1>5, <1>7 DEF Managed, OnStanza, IInv, IHeld, IOnce, Sorted
  <1>12. QED
    BY <1>8, <1>10, <1>11 DEF IInv

LEMMA InvResumed == IInv /\ OnResumed => IInv' /\ Cuts
  <1> SUFFICES ASSUME IInv, OnResumed PROVE IInv' /\ Cuts
    OBVIOUS
  <1> DEFINE h == stream.in
             u == From(session.unacked, h - session.acked)
             s1 == [session EXCEPT !.enabled = TRUE, !.resumed = TRUE]
             s == Acked(s1, h)
  <1>1. session.id # None /\ Opening("resumed", stream.in) /\ s2c' = Tail(s2c) /\ s2c' \in Seq(DownSet)
    BY DownPacket DEF OnResumed, Got
  <1>2. /\ stream.id # None /\ Linked(stream) /\ c2s = <<>> /\ Only(s2c', {"stanza", "r"})
        /\ Complete(s2c', Seen(stream.base, stream.out, session.handled, pushed), pushed)
        /\ Head(s2c).n = h
    BY <1>1 DEF Opening, Packet
  <1>3. /\ SessionOK(session, sent) /\ session \in SessionOf(sent)
        /\ Numbers(session.unacked, sent) /\ Len(session.unacked) <= sent
        /\ Up(session.acked, session.unacked, h, sent, processed)
        /\ sent \in Nat /\ session.acked \in Nat /\ h \in Nat
        /\ session.unacked \in Seq(1 .. sent) /\ h \in session.acked .. h /\ h >= session.acked
    <2>1. /\ SessionOK(session, sent) /\ session \in SessionOf(sent) /\ stream \in StreamOf(pushed)
          /\ sent \in Nat /\ Up(session.acked, session.unacked, h, sent, processed)
      BY <1>2, Facts DEF Linked
    <2>2. session.acked \in Nat /\ h \in Nat /\ session.unacked \in Seq(1 .. sent)
      BY <2>1, SessionRange, StreamRange
    <2>3. Numbers(session.unacked, sent) /\ Len(session.unacked) <= sent
      BY <2>1 DEF SessionOK
    <2>4. session.acked <= h
      BY <2>1 DEF Up
    <2>5. h \in session.acked .. h
      BY <2>2, <2>4
    <2>6. QED
      BY <2>1, <2>2, <2>3, <2>4, <2>5
  <1>4. /\ Up(h, u, h, sent, processed)
        /\ u \in Seq(1 .. sent) /\ Numbers(u, sent)
        /\ Len(u) = Len(session.unacked) - (h - session.acked)
    <2>1. PICK a, n, w, in, d : /\ a = session.acked /\ n = sent /\ w = session.unacked
                                /\ in = h /\ d = h - session.acked
      OBVIOUS
    <2>2. d \in Nat /\ a + d = h /\ u = From(w, d)
      BY <1>3, <2>1
    <2> HIDE DEF h, u
    <2>3. /\ a \in Nat /\ in \in Nat /\ n \in Nat /\ w \in Seq(1 .. n)
          /\ d \in Nat /\ a + d <= in /\ Numbers(w, n) /\ Up(a, w, in, n, processed)
      BY <1>3, <2>1, <2>2
    <2>4. /\ Up(a + d, From(w, d), in, n, processed)
          /\ Handled(a + d, From(w, d), in, n) = Handled(a, w, in, n)
          /\ From(w, d) \in Seq(1 .. n) /\ Numbers(From(w, d), n)
          /\ Len(From(w, d)) = Len(w) - d
      BY <2>3, UpAck
    <2>5. QED
      BY <2>1, <2>2, <2>4
  <1>5. Len(u) <= sent /\ Len(u) \in Nat
    <2>1. Len(u) \in Nat /\ Len(session.unacked) \in Nat
      BY <1>3, <1>4, LenProperties
    <2>2. session.acked \in Nat /\ h \in Nat /\ h >= session.acked /\ sent \in Nat
          /\ Len(session.unacked) <= sent /\ Len(u) = Len(session.unacked) - (h - session.acked)
      BY <1>3, <1>4
    <2>3. QED
      BY <2>1, <2>2
  <1>6. /\ s \in SessionOf(sent) /\ s.acked = h /\ s.unacked = u /\ s.handled = session.handled
        /\ s.id = session.id /\ s.enabled /\ s.since = 0
    <2>1. /\ s1 \in SessionOf(sent) /\ s1.acked = session.acked /\ s1.unacked = session.unacked
          /\ s1.handled = session.handled /\ s1.id = session.id /\ s1.enabled
      BY <1>3 DEF SessionOf
    <2> HIDE DEF s1, h
    <2>2. QED
      BY <1>3, <1>4, <2>1, SessionAcked
  <1>7. Sends([s EXCEPT !.unacked = <<>>], s.unacked)
    BY <1>2 DEF OnResumed
  <1> HIDE DEF h, u, s1, s
  <1> DEFINE t == Transmission([s EXCEPT !.unacked = <<>>], u)
  <1>8. u \in Seq(Nat)
    <2>1. \A i \in 1 .. sent : i \in Nat
      BY <1>3
    <2>2. Len(u) \in Nat /\ u = [i \in 1..Len(u) |-> u[i]] /\ \A i \in 1..Len(u) : u[i] \in 1 .. sent
      BY <1>4, LenProperties, ElementOfSeq
    <2>3. u \in [1..Len(u) -> Nat]
      BY <2>1, <2>2
    <2>4. QED
      BY <2>2, <2>3, SeqDef
  <1>9. /\ t \in Seq(UpSet) /\ Len(t) = Len(u)
        /\ \A i \in 1..Len(u) : t[i].type = "stanza" /\ t[i].n = u[i]
    BY <1>8, TransmissionType
  <1>10. c2s' = t
    <2>1. c2s' = <<>> \o t
      BY <1>2, <1>6, <1>7 DEF Sends, Post
    <2>2. QED
      BY <1>9, <2>1, ConcatEmptySeq
  <1>11. /\ session' \in SessionOf(sent) /\ session'.acked = h /\ session'.unacked = u
         /\ session'.handled = session.handled /\ session'.id = session.id /\ session'.enabled
    <2>1. <<>> \o u = u
      BY <1>4, ConcatEmptySeq
    <2>2. <<>> \in Seq(1 .. sent)
      BY EmptySeq
    <2>3. PICK r : r = [s EXCEPT !.unacked = <<>>]
      OBVIOUS
    <2>4. /\ r \in SessionOf(sent) /\ r.acked = h /\ r.unacked = <<>> /\ r.since = 0
          /\ r.handled = session.handled /\ r.id = session.id /\ r.enabled
      BY <1>6, <2>2, <2>3 DEF SessionOf
    <2>5. session' = [r EXCEPT !.unacked = r.unacked \o u, !.since = r.since + Len(u)]
      BY <1>6, <1>7, <2>3, <2>4 DEF Sends
    <2>6. session' = [r EXCEPT !.unacked = u, !.since = Len(u)]
      BY <1>5, <2>1, <2>4, <2>5
    <2>7. QED
      BY <1>4, <1>5, <2>4, <2>6 DEF SessionOf
  <1> HIDE DEF t
  <1>12. ITypes'
    <2>1. SessionOK(session', sent)
      BY <1>1, <1>4, <1>5, <1>11 DEF SessionOK
    <2>2. QED
      BY <1>1, <1>9, <1>10, <2>1 DEF OnResumed, IInv, ITypes, ISession, IStreams, ICounts
  <1>13. Managed'
    <2>1. Only(c2s', {"stanza", "a"}) /\ AcksIn(c2s', stream.base, session.handled)
      <3>1. Only(t, {"stanza"})
        BY <1>9 DEF Only
      <3>2. {"stanza"} \subseteq {"stanza", "a"} /\ "a" \notin {"stanza"}
        OBVIOUS
      <3>3. QED
        BY <1>10, <3>1, <3>2, OnlyMore, NoAcks
    <2>2. Complete(c2s', Handled(h, u, h, sent), sent)
      <3>1. Handled(h, u, h, sent) = sent - Len(u)
        BY <1>3, <1>5 DEF Handled
      <3>2. sent \in Int
        BY <1>3
      <3>3. Complete(t, sent - Len(u), sent)
        BY <1>4, <1>8, <1>9, <3>2, CompleteFrom
      <3>4. QED
        BY <1>10, <3>1, <3>3
    <2>3. Only(s2c', {"stanza", "r", "a"}) /\ AcksIn(s2c', h, h)
      <3>1. {"stanza", "r"} \subseteq {"stanza", "r", "a"} /\ "a" \notin {"stanza", "r"}
        OBVIOUS
      <3>2. QED
        BY <1>2, <3>1, OnlyMore, NoAcks
    <2>4. Linked(stream)'
      BY <1>2, <1>4, <1>11 DEF OnResumed, Linked, h
    <2>5. QED
      BY <1>1, <1>2, <1>11, <2>1, <2>2, <2>3, <2>4 DEF OnResumed, Managed, h
  <1>14. IPhase'
    BY <1>13 DEF OnResumed, IPhase, IDown, IResuming, IBinding, IEnabling, IOnline
  <1>15. IHeld' /\ IOnce'
    BY <1>2 DEF OnResumed, IInv, IHeld, IOnce, Sorted
  <1>16. Cuts
    <2>1. PICK d : d = h - session.acked
      OBVIOUS
    <2>2. d \in Nat /\ session.acked + d <= h
      BY <1>3, <2>1
    <2>3. session'.unacked = From(session.unacked, d) /\ Linked(stream)
      BY <1>2, <1>11, <2>1 DEF u
    <2>4. QED
      BY <2>2, <2>3 DEF Cuts, h
  <1>17. QED
    BY <1>12, <1>14, <1>15, <1>16 DEF IInv

LEMMA SeqNat ==
  ASSUME NEW n \in Nat, NEW u \in Seq(1 .. n)
  PROVE  u \in Seq(Nat)
  <1>1. Len(u) \in Nat /\ u = [i \in 1..Len(u) |-> u[i]] /\ \A i \in 1..Len(u) : u[i] \in 1 .. n
    BY LenProperties, ElementOfSeq
  <1>2. u \in [1..Len(u) -> Nat]
    BY <1>1
  <1>3. QED
    BY <1>1, <1>2, SeqDef

LEMMA InvServeAck == IInv /\ ServeAck => IInv'
  <1> SUFFICES ASSUME IInv, ServeAck PROVE IInv'
    OBVIOUS
  <1>1. phase = "online" /\ Managed /\ c2s # <<>> /\ c2s' = Tail(c2s) /\ c2s' \in Seq(UpSet)
        /\ Head(c2s).type = "a"
    BY UpPacket DEF ServeAck, Read
  <1>2. PICK b, o, h, n, d : /\ b = stream.base /\ o = stream.out /\ h = session.handled /\ n = pushed
                             /\ d = Head(c2s).n - stream.base
    OBVIOUS
  <1>3. Head(c2s).n \in b .. h /\ AcksIn(c2s', Head(c2s).n, h)
    <2>1. b \in Int /\ h \in Int /\ AcksIn(c2s, b, h) /\ c2s \in Seq(UpSet)
      <3>1. /\ stream.base \in Int /\ session.handled \in Int /\ c2s \in Seq(UpSet)
            /\ AcksIn(c2s, stream.base, session.handled)
        BY <1>1, ManagedFacts DEF Managed
      <3>2. QED
        BY <1>2, <3>1
    <2>2. QED
      BY <1>1, <2>1, AcksTail
  <1>4. /\ b \in Nat /\ h \in Nat /\ n \in Nat /\ o \in Seq(1 .. n) /\ Down(b, o, h, n, seen)
        /\ stream \in StreamOf(n)
    BY <1>1, <1>2, ManagedFacts
  <1>5. d \in Nat /\ b + d = Head(c2s).n /\ b + d <= h
    BY <1>2, <1>3, <1>4
  <1>6. /\ Down(b + d, From(o, d), h, n, seen)
        /\ Seen(b + d, From(o, d), h, n) = Seen(b, o, h, n)
        /\ From(o, d) \in Seq(1 .. n)
    BY <1>4, <1>5, DownAck
  <1>7. /\ stream' \in StreamOf(pushed) /\ stream'.base = b + d /\ stream'.out = From(o, d)
        /\ stream'.in = stream.in /\ stream'.id = stream.id /\ stream'.bound = stream.bound
    <2>1. PICK g, c : g = From(o, d) /\ c = b + d
      OBVIOUS
    <2>2. g \in Seq(1 .. n) /\ c \in Nat /\ stream' = [stream EXCEPT !.base = c, !.out = g]
      <3>1. stream' = [stream EXCEPT !.base = Head(c2s).n,
                                     !.out = From(stream.out, Head(c2s).n - stream.base)]
        BY <1>4 DEF ServeAck, StreamOf
      <3>2. stream' = [stream EXCEPT !.base = c, !.out = g]
        BY <1>2, <1>5, <2>1, <3>1
      <3>3. c \in Nat
        BY <1>4, <1>5, <2>1
      <3>4. QED
        BY <1>6, <2>1, <3>2, <3>3
    <2>3. QED
      BY <1>2, <1>4, <2>1, <2>2 DEF StreamOf
  <1>8. ITypes'
    BY <1>1, <1>7 DEF Managed, ServeAck, IInv, ITypes, ISession, IStreams, ICounts, StreamOK
  <1>9. Managed'
    <2>1. Linked(stream)'
      BY <1>1, <1>2, <1>6, <1>7 DEF ServeAck, Managed, Linked
    <2>2. Only(c2s', {"stanza", "a"})
          /\ Complete(c2s', Handled(session.acked, session.unacked, stream.in, sent), sent)
      <3>1. PICK x : x = Handled(session.acked, session.unacked, stream.in, sent)
        OBVIOUS
      <3>2. x \in Int /\ sent \in Int /\ Complete(c2s, x, sent) /\ c2s \in Seq(UpSet)
        <4>1. x \in 0 .. sent /\ sent \in Nat
          BY <1>1, <3>1, ManagedFacts
        <4>2. QED
          BY <1>1, <3>1, <4>1, ManagedFacts DEF Managed
      <3>3. QED
        BY <1>1, <3>1, <3>2, CompleteTail, OnlyTail DEF Managed
    <2>3. QED
      BY <1>1, <1>2, <1>3, <1>5, <1>6, <1>7, <2>1, <2>2 DEF ServeAck, Managed
  <1>10. IPhase'
    BY <1>1, <1>9 DEF ServeAck, IPhase, IDown, IResuming, IBinding, IEnabling, IOnline
  <1>11. IHeld' /\ IOnce'
    BY <1>1, <1>7 DEF Managed, ServeAck, IInv, IHeld, IOnce, Sorted
  <1>12. QED
    BY <1>8, <1>10, <1>11 DEF IInv

LEMMA InvServeResume == IInv /\ ServeResume => IInv'
  <1> SUFFICES ASSUME IInv, ServeResume PROVE IInv'
    OBVIOUS
  <1>1. /\ phase = "resuming" /\ session.id # None /\ stream.id = None /\ s2c = <<>>
        /\ c2s' = <<>> /\ c2s' \in Seq(UpSet) /\ Head(c2s) = Resume
    BY UpPacket DEF ServeResume, Read
  <1>2. CASE held # None /\ held.id = Head(c2s).id
    <2>1. held.id = session.id /\ Linked(held) /\ Head(c2s).n = session.handled
      BY <1>1, <1>2 DEF IInv, IHeld, Resume
    <2>2. PICK b, o, h, n, d : /\ b = held.base /\ o = held.out /\ h = session.handled /\ n = pushed
                               /\ d = session.handled - held.base
      OBVIOUS
    <2>3. /\ held \in StreamOf(n) /\ b \in Nat /\ h \in Nat /\ n \in Nat /\ o \in Seq(1 .. n)
          /\ Down(b, o, h, n, seen)
      <3>1. held \in StreamOf(pushed) /\ session \in SessionOf(sent) /\ pushed \in Nat
        BY <1>2, Facts DEF IInv, ITypes, IStreams
      <3>2. QED
        BY <2>1, <2>2, <3>1, SessionRange, StreamRange DEF Linked
    <2>4. d \in Nat /\ b + d = h /\ b + d <= h
      BY <2>2, <2>3 DEF Down
    <2>5. PICK g : g = From(o, d)
      OBVIOUS
    <2>6. Down(b + d, g, h, n, seen) /\ g \in Seq(1 .. n)
      BY <2>3, <2>4, <2>5, DownAck
    <2>7. Down(h, g, h, n, seen) /\ Numbers(g, n) /\ Seen(h, g, h, n) = n - Len(g) /\ g \in Seq(Nat)
      <3>1. Down(h, g, h, n, seen)
        BY <2>4, <2>6
      <3>2. Len(g) \in Nat
        BY <2>6, LenProperties
      <3>3. QED
        BY <2>3, <2>6, <3>1, <3>2, SeqNat DEF Down, Seen
    <2>8. /\ stream' \in StreamOf(pushed) /\ stream'.base = h /\ stream'.out = g /\ stream'.in = held.in
          /\ stream'.id = held.id /\ stream'.bound = held.bound
      <3>1. stream' = [held EXCEPT !.base = h, !.out = g]
        BY <1>2, <2>1, <2>2, <2>5 DEF ServeResume
      <3>2. QED
        BY <2>2, <2>3, <2>6, <3>1 DEF StreamOf
    <2> DEFINE q == <<Packet("resumed", held.in)>>
               t == Pushes(g)
    <2>9. t \in Seq(DownSet) /\ Len(t) = Len(g) /\ \A i \in 1..Len(g) : t[i].type = "stanza" /\ t[i].n = g[i]
      BY <2>7, PushesType
    <2>10. q \in Seq(DownSet) /\ q # <<>> /\ Head(q) = Packet("resumed", held.in) /\ Tail(q) = <<>>
      <3>1. held.in \in Nat
        BY <2>3, StreamRange
      <3>2. Packet("resumed", held.in) \in DownSet
        BY <3>1 DEF Packet, DownSet
      <3>3. QED
        BY <3>2, Single
    <2>11. s2c' = q \o t
      <3>1. s2c' = <<>> \o (q \o t)
        BY <1>1, <1>2, <2>1, <2>2, <2>5 DEF ServeResume, Reply
      <3> HIDE DEF q, t
      <3>2. q \o t \in Seq(DownSet)
        BY <2>9, <2>10, ConcatAt
      <3>3. QED
        BY <3>1, <3>2, ConcatEmptySeq
    <2> HIDE DEF q, t
    <2>12. s2c' \in Seq(DownSet) /\ s2c' # <<>> /\ Head(s2c') = Packet("resumed", held.in) /\ Tail(s2c') = t
      <3>1. <<>> \o t = t
        BY <2>9, ConcatEmptySeq
      <3>2. q \o t \in Seq(DownSet)
        BY <2>9, <2>10, ConcatAt
      <3>3. q \o t # <<>> /\ Head(q \o t) = Head(q) /\ Tail(q \o t) = Tail(q) \o t
        BY <2>9, <2>10, TailConcat
      <3>4. QED
        BY <2>10, <2>11, <3>1, <3>2, <3>3
    <2>13. Only(t, {"stanza", "r"}) /\ Complete(t, n - Len(g), n)
      <3>1. n \in Int
        BY <2>3
      <3>2. QED
        BY <2>7, <2>9, <3>1, CompleteFrom DEF Only
    <2>14. Opening("resumed", stream.in)'
      <3>1. Linked(stream)'
        BY <2>1, <2>2, <2>7, <2>8 DEF ServeResume, Linked
      <3>2. QED
        BY <1>1, <2>1, <2>2, <2>7, <2>8, <2>12, <2>13, <3>1 DEF ServeResume, Opening
    <2>15. ITypes'
      BY <1>1, <1>2, <2>1, <2>8, <2>12 DEF ServeResume, IInv, ITypes, ISession, IStreams, ICounts, StreamOK
    <2>16. IPhase'
      BY <1>1, <2>14 DEF ServeResume, IPhase, IDown, IResuming, IBinding, IEnabling, IOnline
    <2>17. IHeld' /\ IOnce'
      BY <1>2 DEF ServeResume, IInv, IHeld, IOnce, Sorted
    <2>18. QED
      BY <2>15, <2>16, <2>17 DEF IInv
  <1>3. CASE ~(held # None /\ held.id = Head(c2s).id)
    <2>1. s2c' = <<Packet("failed", 0)>> /\ s2c' \in Seq(DownSet) /\ UNCHANGED <<stream, held>>
      <3>1. Packet("failed", 0) \in DownSet
        BY DEF Packet, DownSet
      <3>2. s2c' = s2c \o <<Packet("failed", 0)>> /\ UNCHANGED <<stream, held>>
        BY <1>3 DEF ServeResume, Reply
      <3>3. PICK r : r = Packet("failed", 0)
        OBVIOUS
      <3>4. s2c' = <<r>> /\ r \in DownSet
        BY <1>1, <3>1, <3>2, <3>3, ConcatNone
      <3>5. <<r>> \in Seq(DownSet)
        BY <3>4
      <3>6. QED
        BY <3>2, <3>3, <3>4, <3>5
    <2>2. ITypes'
      BY <1>1, <2>1 DEF ServeResume, IInv, ITypes, ISession, IStreams, ICounts
    <2>3. IPhase'
      BY <1>1, <2>1 DEF ServeResume, IPhase, IDown, IResuming, IBinding, IEnabling, IOnline
    <2>4. IHeld' /\ IOnce'
      BY <2>1 DEF ServeResume, IInv, IHeld, IOnce, Sorted, Linked
    <2>5. QED
      BY <2>2, <2>3, <2>4 DEF IInv
  <1>4. QED
    BY <1>2, <1>3

\* Stanzas under way without stream management
LEMMA LooseTail ==
  ASSUME NEW c \in Seq(UpSet), c # <<>>, NEW n \in Nat, NEW p, Loose(c, n, p)
  PROVE  /\ Loose(Tail(c), n, p) /\ Head(c).n \in 1 .. n /\ ~Head(c).asks
         /\ \A k \in 1..Len(p) : p[k] < Head(c).n
         /\ \A i \in 1..Len(Tail(c)) : Head(c).n < Tail(c)[i].n
  <1>1. 1 \in Int /\ n \in Int
    OBVIOUS
  <1>2. /\ Only(Tail(c), {"stanza"}) /\ Head(c).type \in {"stanza"}
        /\ Within(Tail(c), "stanza", 1, n) /\ (Head(c).type = "stanza" => Head(c).n \in 1 .. n)
        /\ Rising(Tail(c)) /\ \A i \in 1..Len(Tail(c)) :
              Head(c).type = "stanza" /\ Tail(c)[i].type = "stanza" => Head(c).n < Tail(c)[i].n
    BY <1>1, OnlyTail, WithinTail, RisingTail DEF Loose
  <1>3. /\ 1 \in 1..Len(c) /\ Head(c) = c[1]
        /\ \A i \in 1..Len(Tail(c)) : i + 1 \in 1..Len(c) /\ Tail(c)[i] = c[i + 1]
    BY TailAt
  <1>4. \A i \in 1..Len(Tail(c)) : Head(c).n < Tail(c)[i].n
    BY <1>2 DEF Only
  <1>5. QED
    BY <1>2, <1>3, <1>4 DEF Loose

LEMMA LooseHandle ==
  ASSUME NEW c \in Seq(UpSet), c # <<>>, NEW n \in Nat, NEW p \in Seq(1 .. n), Loose(c, n, p)
  PROVE  Loose(Tail(c), n, Append(p, Head(c).n))
  <1>1. PICK x : x = Head(c).n
    OBVIOUS
  <1>2. /\ Loose(Tail(c), n, p) /\ x \in 1 .. n /\ \A i \in 1..Len(Tail(c)) : x < Tail(c)[i].n
    BY <1>1, LooseTail
  <1>3. /\ Len(Append(p, x)) = Len(p) + 1
        /\ \A i \in 1..Len(p) : Append(p, x)[i] = p[i]
        /\ Append(p, x)[Len(p) + 1] = x
        /\ \A i \in 1..Len(p) + 1 : i \in 1..Len(p) \/ i = Len(p) + 1
    BY <1>2, AppendAt
  <1>4. ASSUME NEW i \in 1..Len(Tail(c)), NEW k \in 1..Len(Append(p, x))
        PROVE  Append(p, x)[k] < Tail(c)[i].n
    BY <1>2, <1>3 DEF Loose
  <1>5. QED
    BY <1>1, <1>2, <1>4 DEF Loose

OneLoose(t, k) == Len(t) = 1 /\ t[1].type = "stanza" /\ t[1].n = k /\ ~t[1].asks

LEMMA LooseSend ==
  ASSUME NEW c \in Seq(UpSet), NEW n \in Nat, NEW p \in Seq(1 .. n), Loose(c, n, p),
         NEW t \in Seq(UpSet), OneLoose(t, n + 1)
  PROVE  Loose(c \o t, n + 1, p)
  <1>0. PICK d : d = c \o t
    OBVIOUS
  <1>1. /\ Len(c) \in Nat /\ Len(d) = Len(c) + 1
        /\ \A i \in 1..Len(d) : \/ i \in 1..Len(c) /\ d[i] = c[i]
                                \/ i = Len(c) + 1 /\ d[i] = t[1]
    <2>1. /\ Len(c) \in Nat /\ Len(d) = Len(c) + 1
          /\ \A i \in 1..Len(c) + 1 : d[i] = IF i <= Len(c) THEN c[i] ELSE t[i - Len(c)]
      <3>1. /\ Len(c) \in Nat /\ Len(c \o t) = Len(c) + Len(t)
            /\ \A i \in 1..Len(c) + Len(t) : (c \o t)[i] = IF i <= Len(c) THEN c[i] ELSE t[i - Len(c)]
        BY ConcatProperties, LenProperties
      <3>2. QED
        BY <1>0, <3>1 DEF OneLoose
    <2>2. ASSUME NEW i \in 1..Len(c) + 1
          PROVE  (i \in 1..Len(c) /\ d[i] = c[i]) \/ (i = Len(c) + 1 /\ d[i] = t[1])
      <3>1. CASE i <= Len(c)
        BY <2>1, <3>1
      <3>2. CASE ~(i <= Len(c))
        <4>1. i = Len(c) + 1 /\ i - Len(c) = 1
          BY <2>1, <3>2
        <4>2. QED
          BY <2>1, <3>2, <4>1
      <3>3. QED
        BY <3>1, <3>2
    <2>3. QED
      BY <2>1, <2>2
  <1>2. \A i \in 1..Len(c) : c[i].type = "stanza" /\ c[i].n \in 1 .. n /\ ~c[i].asks
    BY DEF Loose, Only, Within
  <1>3. \A i \in 1..Len(d) : d[i].type = "stanza" /\ d[i].n \in 1 .. n + 1 /\ ~d[i].asks
    <2>1. n + 1 \in 1 .. n + 1 /\ \A x \in 1 .. n : x \in 1 .. n + 1
      OBVIOUS
    <2>2. QED
      BY <1>1, <1>2, <2>1 DEF OneLoose
  <1>4. ASSUME NEW i \in 1..Len(d), NEW j \in 1..Len(d), i < j PROVE d[i].n < d[j].n
    <2>1. i \in 1..Len(c) /\ d[i] = c[i]
      BY <1>1, <1>4
    <2>2. CASE j \in 1..Len(c) /\ d[j] = c[j]
      BY <1>2, <1>4, <2>1, <2>2 DEF Loose, Rising
    <2>3. CASE j = Len(c) + 1 /\ d[j] = t[1]
      <3>1. d[j].n = n + 1
        BY <2>3 DEF OneLoose
      <3>2. d[i].n \in 1 .. n
        BY <1>2, <2>1
      <3>3. QED
        BY <3>1, <3>2
    <2>4. QED
      BY <1>1, <2>2, <2>3
  <1>5. ASSUME NEW i \in 1..Len(d), NEW k \in 1..Len(p) PROVE p[k] < d[i].n
    <2>1. p[k] \in 1 .. n
      BY ElementOfSeq
    <2>2. CASE i \in 1..Len(c) /\ d[i] = c[i]
      BY <2>2 DEF Loose
    <2>3. CASE i = Len(c) + 1 /\ d[i] = t[1]
      BY <2>1, <2>3 DEF OneLoose
    <2>4. QED
      BY <1>1, <2>2, <2>3
  <1>6. Only(d, {"stanza"}) /\ Within(d, "stanza", 1, n + 1) /\ Rising(d)
    BY <1>3, <1>4 DEF Only, Within, Rising
  <1>7. Loose(d, n + 1, p)
    BY <1>3, <1>5, <1>6 DEF Loose
  <1>8. QED
    BY <1>7, <1>0

LEMMA InvServeStanza == IInv /\ ServeStanza => IInv'
  <1> SUFFICES ASSUME IInv, ServeStanza PROVE IInv'
    OBVIOUS
  <1>1. /\ c2s # <<>> /\ c2s' = Tail(c2s) /\ c2s' \in Seq(UpSet) /\ Head(c2s).type = "stanza"
        /\ \/ phase = "online" /\ (Managed \/ Unmanaged)
           \/ phase = "binding" /\ Binding
           \/ phase = "enabling" /\ Enabling
    BY UpPacket DEF ServeStanza, Read, IInv, IPhase, IOnline
  <1>2. CASE phase = "online" /\ Managed
    <2>1. PICK a, in, n, w, x : /\ a = session.acked /\ in = stream.in /\ n = sent /\ w = session.unacked
                                /\ x = Handled(session.acked, session.unacked, stream.in, sent)
      OBVIOUS
    <2>2. /\ a \in Nat /\ in \in Nat /\ n \in Nat /\ w \in Seq(1 .. n) /\ processed \in Seq(1 .. n)
          /\ Numbers(w, n) /\ Len(w) <= n /\ Up(a, w, in, n, processed) /\ x = Handled(a, w, in, n)
          /\ x \in 0 .. n /\ c2s \in Seq(UpSet) /\ s2c \in Seq(DownSet) /\ stream \in StreamOf(pushed)
      BY <1>2, <2>1, ManagedFacts
    <2>3. Head(c2s).n = x + 1 /\ x + 1 <= n /\ Complete(c2s', x + 1, n)
      <3>1. x \in Int /\ n \in Int /\ Complete(c2s, x, n)
        BY <1>2, <2>1, <2>2 DEF Managed
      <3>2. QED
        BY <1>1, <2>2, <3>1, CompleteTail
    <2>4. /\ Up(a, w, in + 1, n, Append(processed, x + 1)) /\ Handled(a, w, in + 1, n) = x + 1
          /\ x + 1 \in 1 .. n
      BY <2>2, <2>3, UpHandle, SMTT(20)
    <2>5. Append(processed, x + 1) \in Seq(1 .. n) /\ Sorted(Append(processed, x + 1))
      <3>1. Sorted(processed) /\ \A i \in 1..Len(processed) : processed[i] <= x
        BY <2>2 DEF IInv, IOnce, Up
      <3>2. \A i \in 1..Len(processed) : processed[i] \in 1 .. n
        BY <2>2, ElementOfSeq
      <3>3. \A i \in 1..Len(processed) : processed[i] < x + 1
        <4>1. \A m \in 1 .. n : m <= x => m < x + 1
          BY <2>2
        <4>2. QED
          BY <3>1, <3>2, <4>1
      <3>4. QED
        BY <2>2, <2>4, <3>1, <3>3, SortedAppend, AppendAt
    <2>6. /\ processed' = Append(processed, x + 1) /\ stream' = [stream EXCEPT !.in = in + 1]
          /\ \/ s2c' = s2c \o <<Packet("a", in + 1)>>
             \/ s2c' = s2c
          /\ UNCHANGED <<session, phase, held, sent, pushed, seen, drops>>
      <3>1. stream.id # None /\ stream.bound
        BY <1>2 DEF Managed, Linked
      <3>2. QED
        BY <2>1, <2>3, <3>1 DEF ServeStanza, Reply
    <2>7. /\ stream' \in StreamOf(pushed) /\ stream'.in = in + 1 /\ stream'.base = stream.base
          /\ stream'.out = stream.out /\ stream'.id = stream.id /\ stream'.bound = stream.bound
      <3>1. PICK k : k = in + 1
        OBVIOUS
      <3>2. k \in Nat /\ stream' = [stream EXCEPT !.in = k]
        BY <2>2, <2>6, <3>1, SMTT(20)
      <3>3. QED
        BY <2>2, <3>1, <3>2 DEF StreamOf
    <2>8. PICK y : y = Seen(stream.base, stream.out, session.handled, pushed)
      OBVIOUS
    <2>9. y \in Int /\ y <= pushed /\ pushed \in Int
      BY <1>2, <2>8, ManagedFacts
    <2>10. /\ s2c' \in Seq(DownSet) /\ Only(s2c', {"stanza", "r", "a"})
           /\ Complete(s2c', y, pushed) /\ AcksIn(s2c', a, in + 1)
      <3>1. Only(s2c, {"stanza", "r", "a"}) /\ Complete(s2c, y, pushed) /\ AcksIn(s2c, a, in)
        BY <1>2, <2>1, <2>8 DEF Managed
      <3>2. a \in Int /\ in \in Int /\ in + 1 \in Int /\ in + 1 \in Nat /\ in <= in + 1
            /\ a <= in + 1 /\ in + 1 <= in + 1
        BY <2>2 DEF Up
      <3>3. CASE s2c' = s2c
        BY <2>2, <3>1, <3>2, <3>3, AcksWiden
      <3>4. CASE s2c' = s2c \o <<Packet("a", in + 1)>>
        <4>1. PICK k : k = in + 1
          OBVIOUS
        <4>2. k \in Nat /\ k \in Int /\ "a" # "stanza"
          BY <3>2, <4>1
        <4>3. /\ Complete(<<Packet("a", k)>>, pushed, pushed)
              /\ Only(<<Packet("a", k)>>, {"a"})
              /\ AcksIn(<<Packet("a", k)>>, k, k)
          BY <2>9, <4>2, OnePacket
        <4>4. PICK t : t = <<Packet("a", k)>>
          OBVIOUS
        <4>5. t \in Seq(DownSet)
          <5>1. Packet("a", k) \in DownSet
            BY <4>2 DEF Packet, DownSet
          <5>2. QED
            BY <4>4, <5>1
        <4>6. Only(t, {"stanza", "r", "a"}) /\ Complete(t, pushed, pushed) /\ AcksIn(t, k, k)
          <5>1. {"a"} \subseteq {"stanza", "r", "a"}
            OBVIOUS
          <5>2. QED
            BY <4>3, <4>4, <5>1, OnlyMore
        <4>7. AcksIn(s2c, a, k)
          BY <3>1, <3>2, <4>1, <4>2, AcksWiden
        <4>8. s2c \o t \in Seq(DownSet) /\ Only(s2c \o t, {"stanza", "r", "a"})
          BY <2>2, <3>1, <4>5, <4>6, ConcatAt, OnlyConcat
        <4>9. Complete(s2c \o t, y, pushed)
          <5>1. pushed <= pushed
            BY <2>9
          <5>2. QED
            BY <2>2, <2>9, <3>1, <4>5, <4>6, <5>1, CompleteConcat
        <4>10. AcksIn(s2c \o t, a, k)
          <5>1. a <= k /\ k <= k
            BY <3>2, <4>1
          <5>2. QED
            BY <2>2, <3>2, <4>2, <4>5, <4>6, <4>7, <5>1, AcksConcat
        <4>11. QED
          BY <3>4, <4>1, <4>4, <4>8, <4>9, <4>10
      <3>5. QED
        BY <2>6, <3>3, <3>4
    <2>11. AcksIn(c2s', stream.base, session.handled) /\ Only(c2s', {"stanza", "a"})
      <3>1. stream.base \in Int /\ session.handled \in Int
        BY <1>2, ManagedFacts
      <3>2. QED
        BY <1>1, <1>2, <2>2, <3>1, AcksTail, OnlyTail DEF Managed
    <2>12. ITypes'
      BY <1>1, <1>2, <2>1, <2>5, <2>6, <2>7, <2>10
         DEF Managed, IInv, ITypes, ISession, IStreams, ICounts, StreamOK
    <2>13. Managed'
      <3>1. Linked(stream)'
        BY <1>2, <2>1, <2>4, <2>6, <2>7 DEF Managed, Linked
      <3>2. QED
        BY <1>2, <2>1, <2>3, <2>4, <2>6, <2>7, <2>8, <2>10, <2>11, <3>1 DEF Managed
    <2>14. IPhase'
      BY <1>2, <2>6, <2>13 DEF IPhase, IDown, IResuming, IBinding, IEnabling, IOnline
    <2>15. IHeld' /\ IOnce'
      BY <1>2, <2>5, <2>6, <2>7 DEF Managed, IInv, IHeld, IOnce, Sorted
    <2>16. QED
      BY <2>12, <2>14, <2>15 DEF IInv
  <1>3. ASSUME NEW q \in Seq(UpSet), q # <<>>, Loose(q, sent, processed), Head(c2s) = Head(q),
               session.id = None, stream.id = None
        PROVE  /\ Loose(Tail(q), sent, processed') /\ s2c' = s2c /\ ITypes' /\ stream' = stream
               /\ UNCHANGED <<session, phase, held, sent, pushed, seen, drops>>
               /\ IHeld' /\ IOnce'
    <2>1. sent \in Nat /\ processed \in Seq(1 .. sent) /\ stream \in StreamOf(pushed)
      BY Facts
    <2>2. /\ Loose(Tail(q), sent, processed) /\ Loose(Tail(q), sent, Append(processed, Head(c2s).n))
          /\ Head(c2s).n \in 1 .. sent
          /\ \A k \in 1..Len(processed) : processed[k] < Head(c2s).n
      BY <1>3, <2>1, LooseTail, LooseHandle
    <2>3. s2c' = s2c /\ UNCHANGED <<session, phase, held, sent, pushed, seen, drops>>
      BY <1>3 DEF ServeStanza
    <2>4. stream' = stream
      <3>1. stream' = [stream EXCEPT !.in = stream.in] \/ stream' = stream
        BY <1>3 DEF ServeStanza
      <3>2. QED
        BY <2>1, <3>1 DEF StreamOf
    <2>5. /\ processed' \in Seq(1 .. sent) /\ Sorted(processed') /\ Loose(Tail(q), sent, processed')
      <3>1. PICK x : x = Head(c2s).n
        OBVIOUS
      <3>2. Append(processed, x) \in Seq(1 .. sent) /\ Sorted(Append(processed, x))
        BY <2>1, <2>2, <3>1, SortedAppend, AppendAt DEF IInv, IOnce
      <3>3. CASE processed' = Append(processed, x)
        BY <2>2, <3>1, <3>2, <3>3
      <3>4. CASE processed' = processed
        BY <2>1, <2>2, <3>4 DEF IInv, IOnce
      <3>5. QED
        BY <3>1, <3>3, <3>4 DEF ServeStanza
    <2>6. ITypes'
      BY <1>1, <2>1, <2>3, <2>4, <2>5 DEF IInv, ITypes, ISession, IStreams, ICounts
    <2>7. IHeld' /\ IOnce'
      BY <1>3, <2>3, <2>5 DEF IInv, IHeld, IOnce
    <2>8. QED
      BY <2>3, <2>4, <2>5, <2>6, <2>7
  <1>4. CASE phase = "online" /\ Unmanaged
    <2>1. /\ Loose(c2s', sent, processed') /\ s2c' = s2c /\ ITypes' /\ stream' = stream
          /\ UNCHANGED <<session, phase, held, sent, pushed, seen, drops>> /\ IHeld' /\ IOnce'
      BY <1>1, <1>3, <1>4, Facts DEF Unmanaged
    <2>2. Unmanaged'
      BY <1>4, <2>1 DEF Unmanaged
    <2>3. IPhase'
      BY <1>4, <2>1, <2>2 DEF IPhase, IDown, IResuming, IBinding, IEnabling, IOnline
    <2>4. QED
      BY <2>1, <2>3 DEF IInv
  <1>5. CASE phase = "binding" /\ Binding
    <2>1. /\ Loose(c2s', sent, processed') /\ s2c' = s2c /\ ITypes' /\ stream' = stream
          /\ UNCHANGED <<session, phase, held, sent, pushed, seen, drops>> /\ IHeld' /\ IOnce'
      BY <1>1, <1>3, <1>5, Facts DEF Binding
    <2>2. IBinding'
      BY <1>5, <2>1 DEF IBinding, Binding
    <2>3. IPhase'
      BY <1>5, <2>1, <2>2 DEF IPhase, IDown, IResuming, IEnabling, IOnline
    <2>4. QED
      BY <2>1, <2>3 DEF IInv
  <1>6. CASE phase = "enabling" /\ Enabling
    <2>1. PICK q \in Seq(UpSet) : q # <<>> /\ Enables(q)
      BY <1>6 DEF Enabling
    <2>2. <<Packet("enable", 0)>> \in Seq(UpSet)
      BY DEF Packet, UpSet
    <2>3. Head(c2s) = Head(q) /\ Tail(c2s) = Tail(q) \o <<Packet("enable", 0)>>
      BY <2>1, <2>2, TailConcat DEF Enables
    <2>4. /\ Loose(Tail(q), sent, processed') /\ s2c' = s2c /\ ITypes' /\ stream' = stream
          /\ UNCHANGED <<session, phase, held, sent, pushed, seen, drops>> /\ IHeld' /\ IOnce'
      BY <1>3, <1>6, <2>1, <2>3 DEF Enabling, Enables
    <2>5. Tail(q) \in Seq(UpSet)
      BY <2>1, TailAt
    <2>6. PICK r \in Seq(UpSet) : r = Tail(q)
      BY <2>5
    <2>7. Loose(r, sent', processed') /\ c2s' = r \o <<Packet("enable", 0)>>
      BY <1>1, <2>3, <2>4, <2>6
    <2>8. (\E x \in Seq(UpSet) : Enables(x))'
      BY <2>7 DEF Enables
    <2>9. IEnabling'
      BY <1>6, <2>4, <2>8 DEF IEnabling, Enabling
    <2>10. IPhase'
      BY <1>6, <2>4, <2>9 DEF IPhase, IDown, IResuming, IBinding, IOnline
    <2>11. QED
      BY <2>4, <2>10 DEF IInv
  <1>7. QED
    BY <1>1, <1>2, <1>4, <1>5, <1>6

\* What the server sends on a stream that may be resumed
LEMMA PushAt ==
  ASSUME NEW n \in Nat, NEW q \in Seq(DownSet), NEW y \in Int, y <= n, Complete(q, y, n)
  PROVE  LET t == <<Packet("stanza", n + 1), Packet("r", 0)>>
         IN  /\ t \in Seq(DownSet) /\ q \o t \in Seq(DownSet) /\ Complete(q \o t, y, n + 1)
             /\ \A types : Only(q, types) /\ {"stanza", "r"} \subseteq types => Only(q \o t, types)
             /\ \A lo, hi \in Int : AcksIn(q, lo, hi) /\ lo <= hi => AcksIn(q \o t, lo, hi)
  <1>1. PICK t : t = <<Packet("stanza", n + 1), Packet("r", 0)>>
    OBVIOUS
  <1>2. Packet("stanza", n + 1) \in DownSet /\ Packet("r", 0) \in DownSet
    BY DEF Packet, DownSet
  <1>3. t \in Seq(DownSet) /\ Len(t) = 2 /\ t[1] = Packet("stanza", n + 1) /\ t[2] = Packet("r", 0)
    BY <1>1, <1>2
  <1>4. /\ t[1].type = "stanza" /\ t[1].n = n + 1 /\ t[2].type = "r"
        /\ \A i \in 1..Len(t) : i = 1 \/ i = 2
    BY <1>3 DEF Packet
  <1>5. Within(t, "stanza", n + 1, n + 1)
    BY <1>4 DEF Within
  <1>6. Rising(t)
    BY <1>4 DEF Rising
  <1>7. Covers(t, n, n + 1)
    <2>1. 1 \in 1..Len(t) /\ \A m \in n + 1 .. n + 1 : m = n + 1
      BY <1>3
    <2>2. QED
      BY <1>4, <2>1 DEF Covers
  <1>8. Complete(q \o t, y, n + 1)
    <2>1. Complete(t, n, n + 1)
      BY <1>5, <1>6, <1>7 DEF Complete
    <2>2. n \in Int /\ n + 1 \in Int /\ n <= n + 1
      OBVIOUS
    <2>3. QED
      BY <1>3, <2>1, <2>2, CompleteConcat
  <1>9. ASSUME NEW types, Only(q, types), {"stanza", "r"} \subseteq types PROVE Only(q \o t, types)
    <2>1. Only(t, types)
      BY <1>4, <1>9 DEF Only
    <2>2. QED
      BY <1>3, <1>9, <2>1, OnlyConcat
  <1>10. ASSUME NEW lo \in Int, NEW hi \in Int, AcksIn(q, lo, hi), lo <= hi PROVE AcksIn(q \o t, lo, hi)
    <2>1. AcksIn(t, hi, hi)
      BY <1>4 DEF AcksIn, Within, Climbing
    <2>2. hi <= hi
      OBVIOUS
    <2>3. QED
      BY <1>3, <1>10, <2>1, <2>2, AcksConcat
  <1>11. q \o t \in Seq(DownSet)
    BY <1>3, ConcatAt
  <1>12. QED
    BY <1>1, <1>3, <1>8, <1>9, <1>10, <1>11

LEMMA InvPush == IInv /\ Push => IInv'
  <1> SUFFICES ASSUME IInv, Push PROVE IInv'
    OBVIOUS
  <1> DEFINE t == <<Packet("stanza", pushed + 1), Packet("r", 0)>>
  <1>1. /\ stream.id # None /\ pushed' = pushed + 1 /\ stream' = [stream EXCEPT !.out = Append(stream.out, pushed + 1)]
        /\ s2c' = s2c \o t /\ UNCHANGED <<session, phase, c2s, held, sent, processed, seen, drops>>
    BY Facts DEF Push, Reply, StreamOf
  <1> HIDE DEF t
  <1>2. Linked(stream) /\ phase \in {"resuming", "enabling", "online"}
    BY <1>1 DEF IInv, ITypes, ICounts, IPhase, IDown, IResuming, IBinding, IEnabling, IOnline, Opening,
                Managed, Unmanaged
  <1>3. PICK b, o, h, n, y : /\ b = stream.base /\ o = stream.out /\ h = session.handled /\ n = pushed
                             /\ y = Seen(stream.base, stream.out, session.handled, pushed)
    OBVIOUS
  <1>4. /\ b \in Nat /\ h \in Nat /\ n \in Nat /\ o \in Seq(1 .. n) /\ Down(b, o, h, n, seen)
        /\ y = Seen(b, o, h, n) /\ stream \in StreamOf(n) /\ s2c \in Seq(DownSet)
    BY <1>2, <1>3, Facts, SessionRange, StreamRange DEF Linked
  <1>5. /\ Down(b, Append(o, n + 1), h, n + 1, seen) /\ Seen(b, Append(o, n + 1), h, n + 1) = y
        /\ Append(o, n + 1) \in Seq(1 .. n + 1)
    BY <1>4, DownPush
  <1>6. y \in Int /\ y <= n
    BY <1>4, SeenRange
  <1>7. /\ stream' \in StreamOf(n + 1) /\ stream'.base = b /\ stream'.in = stream.in
        /\ stream'.out = Append(o, n + 1) /\ stream'.id = stream.id /\ stream'.bound = stream.bound
    <2>1. PICK g, m : g = Append(o, n + 1) /\ m = n + 1
      OBVIOUS
    <2>2. g \in Seq(1 .. m) /\ stream' = [stream EXCEPT !.out = g]
      BY <1>1, <1>3, <1>5, <2>1
    <2>3. /\ stream.bound \in BOOLEAN /\ stream.id \in Nat \cup {None} /\ stream.in \in Nat
          /\ stream.base \in Nat
          /\ stream = [bound |-> stream.bound, id |-> stream.id, in |-> stream.in,
                       base |-> stream.base, out |-> stream.out]
      BY <1>4 DEF StreamOf
    <2>4. stream' = [bound |-> stream.bound, id |-> stream.id, in |-> stream.in,
                     base |-> stream.base, out |-> g]
      BY <1>4, <2>2 DEF StreamOf
    <2>5. stream' \in StreamOf(m)
      BY <2>2, <2>3, <2>4 DEF StreamOf
    <2>6. QED
      BY <1>3, <2>1, <2>4, <2>5
  <1>8. t \in Seq(DownSet) /\ s2c' \in Seq(DownSet)
    <2>1. PICK q : q = <<Packet("stanza", n + 1), Packet("r", 0)>>
      OBVIOUS
    <2>2. q \in Seq(DownSet)
      <3>1. Packet("stanza", n + 1) \in DownSet /\ Packet("r", 0) \in DownSet
        BY <1>4 DEF Packet, DownSet
      <3>2. QED
        BY <2>1, <3>1
    <2>3. t = q
      BY <1>3, <2>1 DEF t
    <2>4. QED
      BY <1>1, <1>4, <2>2, <2>3, ConcatAt
  <1>9. Linked(stream)'
    BY <1>1, <1>2, <1>3, <1>5, <1>7 DEF Linked
  <1>10. ITypes'
    <2>1. held \in StreamOf(n) => held \in StreamOf(n + 1)
      <3>1. SUFFICES ASSUME held \in StreamOf(n) PROVE held \in StreamOf(n + 1)
        OBVIOUS
      <3>2. held.out \in Seq(1 .. n + 1)
        BY <1>4, <3>1, StreamRange, SeqWider
      <3>3. QED
        BY <3>1, <3>2 DEF StreamOf
    <2>2. seen \in Seq(1 .. n + 1) /\ n + 1 \in Nat
      <3>1. seen \in Seq(1 .. n)
        BY <1>3, Facts
      <3>2. QED
        BY <1>4, <3>1, SeqWider
    <2>3. IStreams'
      BY <1>1, <1>3, <1>7, <1>8, <2>1 DEF IInv, ITypes, IStreams, StreamOK
    <2>4. QED
      BY <1>1, <1>3, <2>2, <2>3 DEF IInv, ITypes, ISession, ICounts
  <1>11. ASSUME NEW q \in Seq(DownSet), Complete(q, y, n)
         PROVE  /\ Complete(q \o t, y, n + 1)
                /\ \A types : Only(q, types) /\ {"stanza", "r"} \subseteq types => Only(q \o t, types)
                /\ \A lo, hi \in Int : AcksIn(q, lo, hi) /\ lo <= hi => AcksIn(q \o t, lo, hi)
    <2>1. t = <<Packet("stanza", n + 1), Packet("r", 0)>>
      BY <1>3 DEF t
    <2>2. QED
      BY <1>4, <1>6, <1>11, <2>1, PushAt
  <1>12. ASSUME NEW type, NEW id, Opening(type, id) PROVE Opening(type, id)'
    <2>1. /\ s2c # <<>> /\ Head(s2c) = Packet(type, id) /\ c2s = <<>>
          /\ Only(Tail(s2c), {"stanza", "r"}) /\ Complete(Tail(s2c), y, n)
      BY <1>3, <1>12 DEF Opening
    <2>2. Tail(s2c) \in Seq(DownSet)
      BY <1>4, <2>1, TailAt
    <2>3. s2c' # <<>> /\ Head(s2c') = Packet(type, id) /\ Tail(s2c') = Tail(s2c) \o t
      BY <1>1, <1>4, <1>8, <2>1, TailConcat, SMTT(20)
    <2>4. Only(Tail(s2c) \o t, {"stanza", "r"}) /\ Complete(Tail(s2c) \o t, y, n + 1)
      <3>1. {"stanza", "r"} \subseteq {"stanza", "r"}
        OBVIOUS
      <3>2. QED
        BY <1>11, <2>1, <2>2, <3>1
    <2>5. QED
      BY <1>1, <1>3, <1>5, <1>7, <1>9, <2>1, <2>3, <2>4 DEF Opening
  <1>13. ASSUME Managed PROVE Managed'
    <2>1. Only(s2c, {"stanza", "r", "a"}) /\ Complete(s2c, y, n) /\ AcksIn(s2c, session.acked, stream.in)
      BY <1>3, <1>13 DEF Managed
    <2>2. Only(s2c', {"stanza", "r", "a"}) /\ Complete(s2c', y, n + 1) /\ AcksIn(s2c', session.acked, stream.in)
      <3>1. {"stanza", "r"} \subseteq {"stanza", "r", "a"}
        OBVIOUS
      <3>2. session.acked \in Int /\ stream.in \in Int /\ session.acked <= stream.in
        BY <1>13, ManagedFacts
      <3>3. QED
        BY <1>1, <1>4, <1>11, <2>1, <3>1, <3>2
    <2>3. QED
      BY <1>1, <1>3, <1>5, <1>7, <1>9, <1>13, <2>2 DEF Managed
  <1>14. IPhase'
    <2>1. CASE phase = "resuming"
      <3>1. session.id # None /\ Opening("resumed", stream.in)
        BY <1>1, <2>1 DEF IInv, IPhase, IResuming
      <3>2. Opening("resumed", stream.in)'
        BY <1>7, <1>12, <3>1 DEF Opening
      <3>3. QED
        BY <1>1, <2>1, <3>1, <3>2 DEF IPhase, IDown, IResuming, IBinding, IEnabling, IOnline
    <2>2. CASE phase = "enabling"
      <3>1. session.id = None /\ Opening("enabled", stream.id)
        BY <1>1, <2>2 DEF IInv, IPhase, IEnabling
      <3>2. Opening("enabled", stream.id)'
        BY <1>7, <1>12, <3>1 DEF Opening
      <3>3. QED
        BY <1>1, <2>2, <3>1, <3>2 DEF IPhase, IDown, IResuming, IBinding, IEnabling, IOnline
    <2>3. CASE phase = "online"
      <3>1. Managed
        BY <1>1, <2>3 DEF IInv, IPhase, IOnline, Unmanaged
      <3>2. QED
        BY <1>1, <1>13, <2>3, <3>1 DEF IPhase, IDown, IResuming, IBinding, IEnabling, IOnline
    <2>4. QED
      BY <1>2, <2>1, <2>2, <2>3
  <1>15. IHeld' /\ IOnce'
    BY <1>1, <1>7 DEF IInv, IHeld, IOnce, Sorted
  <1>16. QED
    BY <1>10, <1>14, <1>15 DEF IInv

LEMMA InvSend ==
  ASSUME IInv, Send, ~early'
  PROVE  IInv'
  <1>1. /\ phase \in {"binding", "online"} /\ sent' = sent + 1 /\ Sends(session, <<sent + 1>>)
        /\ UNCHANGED <<phase, s2c, stream, held, processed, pushed, seen, drops>>
        /\ phase = "online" => Managed \/ Unmanaged
    BY DEF Send, IInv, ITypes, ICounts, IPhase, IOnline
  <1>2. PICK n : n = sent
    OBVIOUS
  <1>3. /\ n \in Nat /\ n + 1 \in Nat /\ processed \in Seq(1 .. n) /\ c2s \in Seq(UpSet)
        /\ session \in SessionOf(n) /\ SessionOK(session, n)
    BY <1>2, Facts
  <1>4. PICK t : t = Transmission(session, <<n + 1>>)
    OBVIOUS
  <1>5. /\ t \in Seq(UpSet) /\ Len(t) = 1 /\ t[1].type = "stanza" /\ t[1].n = n + 1
        /\ (~session.enabled => ~t[1].asks) /\ \A i \in 1..Len(t) : i = 1
    <2>1. <<n + 1>> \in Seq(Nat) /\ Len(<<n + 1>>) = 1 /\ <<n + 1>>[1] = n + 1
      BY <1>3
    <2>2. PICK q : q = <<n + 1>>
      OBVIOUS
    <2>3. q \in Seq(Nat) /\ Len(q) = 1 /\ q[1] = n + 1 /\ t = Transmission(session, q)
      BY <1>4, <2>1, <2>2
    <2>4. /\ t \in Seq(UpSet) /\ Len(t) = Len(q)
          /\ \A i \in 1..Len(q) : /\ t[i].type = "stanza" /\ t[i].n = q[i]
                                  /\ ~session.enabled => ~t[i].asks
      BY <2>3, TransmissionType
    <2>5. 1 \in 1..1 /\ \A i \in 1..1 : i = 1
      OBVIOUS
    <2>6. t[1].type = "stanza" /\ t[1].n = n + 1 /\ (~session.enabled => ~t[1].asks)
      BY <2>3, <2>4, <2>5, Zenon
    <2>7. QED
      BY <2>3, <2>4, <2>5, <2>6
  <1>6. c2s' = c2s \o t /\ c2s' \in Seq(UpSet)
    BY <1>1, <1>2, <1>3, <1>4, <1>5, ConcatAt DEF Sends, Post
  <1>7. processed \in Seq(1 .. n + 1)
    BY <1>3, SeqWider
  <1>8. CASE phase = "online" /\ Managed
    <2>1. PICK a, in, w, x : /\ a = session.acked /\ in = stream.in /\ w = session.unacked
                             /\ x = Handled(session.acked, session.unacked, stream.in, sent)
      OBVIOUS
    <2>2. /\ a \in Nat /\ in \in Nat /\ w \in Seq(1 .. n) /\ Numbers(w, n) /\ Len(w) <= n
          /\ Up(a, w, in, n, processed) /\ x = Handled(a, w, in, n) /\ x \in 0 .. n /\ session.enabled
          /\ session.id # None
      BY <1>2, <1>8, <2>1, ManagedFacts DEF Managed
    <2>3. /\ Up(a, w \o <<n + 1>>, in, n + 1, processed)
          /\ Handled(a, w \o <<n + 1>>, in, n + 1) = x
      BY <1>3, <2>2, UpSend
    <2>4. /\ w \o <<n + 1>> \in Seq(1 .. n + 1) /\ Len(w \o <<n + 1>>) = Len(w) + 1
          /\ Numbers(w \o <<n + 1>>, n + 1) /\ Len(w) \in Nat
      <3>1. w \in Seq(1 .. n + 1) /\ n \in Int /\ n + 1 \in 1 .. n + 1
        BY <1>3, <2>2, SeqWider
      <3>2. QED
        BY <2>2, <3>1, NumbersAppend, LenProperties
    <2>5. PICK u, m : u = w \o <<n + 1>> /\ m = n + 1
      OBVIOUS
    <2>6. u \in Seq(1 .. m) /\ Numbers(u, m) /\ Len(u) <= m /\ m \in Nat
      BY <1>3, <2>2, <2>4, <2>5
    <2>7. session' = [session EXCEPT !.unacked = u, !.since = session.since + 1]
      <3>1. session' = [session EXCEPT !.unacked = session.unacked \o <<sent + 1>>,
                                       !.since = session.since + Len(<<sent + 1>>)]
        BY <1>1, <1>3, <2>2 DEF Sends, SessionOf
      <3>2. Len(<<sent + 1>>) = 1
        OBVIOUS
      <3>3. QED
        BY <1>2, <2>1, <2>5, <3>1, <3>2
    <2>8. /\ session' \in SessionOf(m) /\ session'.acked = a /\ session'.unacked = u
          /\ session'.handled = session.handled /\ session'.id = session.id
          /\ session'.enabled = session.enabled
      <3>1. PICK k : k = session.since + 1
        OBVIOUS
      <3>2. /\ session.enabled \in BOOLEAN /\ session.id \in Nat \cup {None} /\ session.handled \in Nat
            /\ session.acked \in Nat /\ k \in Nat /\ session.resumed \in BOOLEAN
        BY <1>3, <3>1, SessionRange
      <3>3. session' = [enabled |-> session.enabled, id |-> session.id, handled |-> session.handled,
                        acked |-> session.acked, since |-> k, unacked |-> u,
                        resumed |-> session.resumed]
        BY <1>3, <2>7, <3>1 DEF SessionOf
      <3>4. session' \in SessionOf(m)
        BY <2>6, <3>2, <3>3 DEF SessionOf
      <3>5. QED
        BY <2>1, <3>3, <3>4
    <2>9. ITypes'
      <3>1. SessionOK(session', m)
        BY <1>3, <2>2, <2>6, <2>8 DEF SessionOK
      <3>2. QED
        BY <1>1, <1>2, <1>3, <1>6, <1>7, <2>5, <3>1 DEF IInv, ITypes, ISession, IStreams, ICounts
    <2>10. Managed'
      <3>1. Linked(stream)'
        BY <1>1, <1>2, <1>8, <2>1, <2>3, <2>5, <2>8 DEF Managed, Linked
      <3>2. Only(t, {"stanza"}) /\ "a" \notin {"stanza"} /\ {"stanza"} \subseteq {"stanza", "a"}
        BY <1>5 DEF Only
      <3>3. Only(c2s', {"stanza", "a"})
        BY <1>3, <1>5, <1>6, <1>8, <3>2, OnlyMore, OnlyConcat DEF Managed
      <3>4. Complete(c2s', x, n + 1)
        <4>1. Complete(t, n, n + 1)
          <5>1. Within(t, "stanza", n + 1, n + 1)
            BY <1>3, <1>5 DEF Within
          <5>2. Rising(t)
            BY <1>5 DEF Rising
          <5>3. Covers(t, n, n + 1)
            <6>1. 1 \in 1..Len(t) /\ \A y \in n + 1 .. n + 1 : y = n + 1
              BY <1>3, <1>5
            <6>2. QED
              BY <1>5, <6>1 DEF Covers
          <5>4. QED
            BY <5>1, <5>2, <5>3 DEF Complete
        <4>2. Complete(c2s, x, n)
          BY <1>2, <1>8, <2>1 DEF Managed
        <4>3. x \in Int /\ n \in Int /\ n + 1 \in Int /\ x <= n /\ n <= n + 1
          BY <1>3, <2>2
        <4>4. QED
          BY <1>3, <1>5, <1>6, <4>1, <4>2, <4>3, CompleteConcat
      <3>5. AcksIn(c2s', stream.base, session.handled)
        <4>1. stream.base \in Int /\ session.handled \in Int /\ stream.base <= session.handled
              /\ session.handled <= session.handled
          BY <1>8, ManagedFacts
        <4>2. AcksIn(t, session.handled, session.handled)
          BY <3>2, NoAcks
        <4>3. AcksIn(c2s, stream.base, session.handled)
          BY <1>8 DEF Managed
        <4>4. QED
          BY <1>3, <1>5, <1>6, <4>1, <4>2, <4>3, AcksConcat
      <3>6. QED
        BY <1>1, <1>2, <1>8, <2>1, <2>3, <2>5, <2>8, <3>1, <3>3, <3>4, <3>5 DEF Managed
    <2>11. IPhase'
      BY <1>1, <1>8, <2>10 DEF IPhase, IDown, IResuming, IBinding, IEnabling, IOnline
    <2>12. IHeld' /\ IOnce'
      BY <1>1, <1>8 DEF Managed, IInv, IHeld, IOnce, Sorted
    <2>13. QED
      BY <2>9, <2>11, <2>12 DEF IInv
  <1>9. ASSUME NEW q \in Seq(UpSet), Loose(q, n, processed), session.id = None
        PROVE  Loose(q \o t, n + 1, processed) /\ session' = session /\ ITypes' /\ IHeld' /\ IOnce'
    <2>1. ~session.enabled
      BY <1>3, <1>9 DEF SessionOK
    <2>2. Loose(q \o t, n + 1, processed)
      BY <1>3, <1>5, <1>9, <2>1, LooseSend DEF OneLoose
    <2>3. session' = session
      BY <1>1, <2>1 DEF Sends
    <2>4. SessionOK(session, n + 1)
      <3>1. session.unacked \in Seq(1 .. n + 1)
        BY <1>3, SessionRange, SeqWider
      <3>2. session \in SessionOf(n + 1)
        BY <1>3, <3>1 DEF SessionOf
      <3>3. Len(<<>>) <= n + 1
        BY <1>3
      <3>4. QED
        BY <1>3, <1>9, <3>2, <3>3, NoStanzas DEF SessionOK
    <2>5. ITypes'
      BY <1>1, <1>2, <1>3, <1>6, <1>7, <2>3, <2>4 DEF IInv, ITypes, ISession, IStreams, ICounts
    <2>6. IHeld' /\ IOnce'
      BY <1>1, <1>9, <2>3 DEF IInv, IHeld, IOnce, Sorted
    <2>7. QED
      BY <2>2, <2>3, <2>5, <2>6
  <1>10. CASE phase = "online" /\ Unmanaged
    <2>1. Loose(c2s', n + 1, processed) /\ session' = session /\ ITypes' /\ IHeld' /\ IOnce'
      BY <1>2, <1>3, <1>6, <1>9, <1>10 DEF Unmanaged
    <2>2. Unmanaged'
      BY <1>1, <1>2, <1>10, <2>1 DEF Unmanaged
    <2>3. IPhase'
      BY <1>1, <1>10, <2>2 DEF IPhase, IDown, IResuming, IBinding, IEnabling, IOnline
    <2>4. QED
      BY <2>1, <2>3 DEF IInv
  <1>11. CASE phase = "binding" /\ Loose(c2s, sent, processed) /\ s2c # <<>>
    <2>1. session.id = None /\ stream.id = None /\ stream.bound /\ s2c = <<Packet("bound", 0)>>
      BY <1>11 DEF IInv, IPhase, IBinding
    <2>2. Loose(c2s', n + 1, processed) /\ session' = session /\ ITypes' /\ IHeld' /\ IOnce'
      BY <1>2, <1>3, <1>6, <1>9, <1>11, <2>1
    <2>3. IBinding'
      BY <1>1, <1>2, <2>1, <2>2 DEF IBinding
    <2>4. IPhase'
      BY <1>1, <1>11, <2>3 DEF IPhase, IDown, IResuming, IEnabling, IOnline
    <2>5. QED
      BY <2>2, <2>4 DEF IInv
  <1>12. CASE phase = "binding" /\ ~(Loose(c2s, sent, processed) /\ s2c # <<>>)
    <2>1. /\ session.id = None /\ stream.id = None /\ s2c = <<>> /\ c2s # <<>>
          /\ Head(c2s) = Packet("bind", 0) /\ Loose(Tail(c2s), sent, processed)
      BY <1>12, Single DEF IInv, IPhase, IBinding
    <2>2. Tail(c2s) \in Seq(UpSet)
      BY <1>3, <2>1, TailAt
    <2>3. Loose(Tail(c2s) \o t, n + 1, processed) /\ session' = session /\ ITypes' /\ IHeld' /\ IOnce'
      BY <1>2, <1>9, <2>1, <2>2
    <2>4. c2s' # <<>> /\ Head(c2s') = Packet("bind", 0) /\ Tail(c2s') = Tail(c2s) \o t
      <3>1. c2s \o t # <<>> /\ Head(c2s \o t) = Head(c2s) /\ Tail(c2s \o t) = Tail(c2s) \o t
        BY <1>3, <1>5, <2>1, TailConcat
      <3>2. QED
        BY <1>6, <2>1, <3>1
    <2>5. IBinding'
      BY <1>1, <1>2, <2>1, <2>3, <2>4 DEF IBinding
    <2>6. IPhase'
      BY <1>1, <1>12, <2>5 DEF IPhase, IDown, IResuming, IEnabling, IOnline
    <2>7. QED
      BY <2>3, <2>6 DEF IInv
  <1>13. QED
    BY <1>1, <1>8, <1>10, <1>11, <1>12

LEMMA InvSame == IInv /\ UNCHANGED vars => IInv'
  <1> SUFFICES ASSUME IInv, UNCHANGED vars PROVE IInv'
    OBVIOUS
  <1>1. ITypes' /\ IHeld' /\ IOnce'
    BY DEF vars, IInv, ITypes, ISession, IStreams, ICounts, IHeld, IOnce, Sorted, Linked
  <1>2. IDown' /\ IResuming' /\ IBinding' /\ IOnline'
    BY DEF vars, IInv, IPhase, IDown, IResuming, IBinding, IOnline, Opening, Managed, Unmanaged, Linked, Resume
  <1>3. IEnabling'
    BY DEF vars, IInv, IPhase, IEnabling, Enables, Opening, Linked
  <1>4. QED
    BY <1>1, <1>2, <1>3 DEF IInv, IPhase

\* Until a stanza is sent early, both counts are right.
ISent == early \/ IInv

LEMMA SentInit == Init => ISent
  BY InvInit DEF ISent

LEMMA SentNext ==
  ASSUME ISent, [Next]_vars
  PROVE  ISent'
  <1>1. CASE early'
    BY <1>1 DEF ISent
  <1>2. CASE ~early'
    <2>1. ~early
      BY <1>2 DEF Next, vars, Send, Connect, Client, OnBound, OnEnabled, OnFailed, OnResumed, OnAck, OnRequest,
                  OnStanza, Drop, Reload, Disconnect, Server, ServeBind, ServeEnable, ServeResume,
                  ServeStanza, ServeAck, Push, Forget
    <2>2. IInv
      BY <2>1 DEF ISent
    <2>3. IInv'
      BY <1>2, <2>2, InvSend, InvConnect, InvBound, InvEnabled, InvFailed, InvResumed, InvAck, InvRequest,
         InvStanza, InvDrop, InvServeBind, InvServeEnable, InvServeResume, InvServeStanza, InvServeAck,
         InvPush, InvForget, InvSame DEF Next, Client, Server
    <2>4. QED
      BY <2>3 DEF ISent
  <1>3. QED
    BY <1>1, <1>2

LEMMA SentAlways == Spec => []ISent
  BY SentInit, SentNext, PTL DEF Spec

LEMMA Covered ==
  ASSUME NEW a \in Nat, NEW in \in Nat, NEW n \in Nat, NEW u \in Seq(1 .. n), NEW p \in Seq(1 .. n),
         Numbers(u, n), Up(a, u, in, n, p), NEW d \in Nat, a + d <= in, NEW i \in DOMAIN u
  PROVE  u[i] \in Range(From(u, d)) \cup Range(p)
  <1>1. Len(u) \in Nat /\ i \in 1..Len(u) /\ d \in 0..Len(u) /\ n \in Int
    BY LenProperties DEF Up
  <1>2. CASE i \in 1..(in - a)
    <2>1. PICK k \in 1..Len(p) : p[k] = u[i]
      BY <1>2 DEF Up
    <2>2. k \in DOMAIN p
      BY LenProperties
    <2>3. QED
      BY <2>1, <2>2 DEF Range
  <1>3. CASE i > d
    <2>1. /\ From(u, d) \in Seq(1 .. n) /\ Len(From(u, d)) = Len(u) - d
          /\ \A k \in 1..Len(u) - d : From(u, d)[k] = u[d + k]
      BY <1>1, NumbersFrom
    <2>2. i - d \in 1..Len(u) - d /\ d + (i - d) = i
      BY <1>1, <1>3, SMTT(20)
    <2>3. DOMAIN From(u, d) = 1..Len(u) - d
      BY <2>1, LenProperties
    <2>4. From(u, d)[i - d] = u[i]
      BY <2>1, <2>2
    <2>5. QED
      BY <2>2, <2>3, <2>4 DEF Range
  <1>4. QED
    BY <1>1, <1>2, <1>3

-----------------------------------------------------------------------------
(* What is received, whenever the application sends: an early stanza only  *)
(* gets in between the requests and acknowledgements of the client.        *)

Requests == {"bind", "enable", "resume"}

Asks(q) == \E i \in 1..Len(q) : q[i].type \in Requests

Request(x, ph, h, id) ==
    \/ x.type = "bind" /\ ph = "binding"
    \/ x.type = "enable" /\ ph = "enabling"
    \/ x.type = "resume" /\ ph = "resuming" /\ x.n = h /\ x.id = id

\* A request is the one of its phase, and there is one at most.
Asked(q, ph, h, id) ==
    /\ \A i \in 1..Len(q) : q[i].type \in Requests => Request(q[i], ph, h, id)
    /\ \A i, j \in 1..Len(q) : q[i].type \in Requests /\ q[j].type \in Requests => i = j

Flows(q, y, n) == Only(q, {"stanza", "r", "a"}) /\ Complete(q, y, n)

\* What comes from a managed stream: behind the answer that began it, the
\* stanzas the client has not seen.
Passing(ph, id, q, y, n) ==
    \/ ph = "online" /\ id # None /\ Flows(q, y, n)
    \/ ph = "resuming" /\ id # None /\ q # <<>> /\ Head(q).type = "resumed" /\ Flows(Tail(q), y, n)
    \/ ph = "enabling" /\ id = None /\ q # <<>> /\ Head(q).type = "enabled" /\ Flows(Tail(q), y, n)

RSession ==
    /\ session \in SessionOf(sent)
    /\ session.enabled <=> session.id # None
    /\ session.id = None => session.handled = 0

RStreams ==
    /\ stream \in StreamOf(pushed) /\ (held = None \/ held \in StreamOf(pushed))
    /\ stream.id = None => stream.base = 0 /\ stream.out = <<>>
    /\ c2s \in Seq(UpSet) /\ s2c \in Seq(DownSet)

RUp ==
    /\ Within(c2s, "stanza", 1, sent)
    /\ Asked(c2s, phase, session.handled, session.id)
    /\ Asks(c2s) => stream.id = None /\ s2c = <<>>
    /\ AcksIn(c2s, stream.base, session.handled)
    /\ stream.id = None => Only(c2s, Requests \cup {"stanza"})

RDown ==
    IF stream.id = None
    THEN \/ s2c = <<>>
         \/ phase = "binding" /\ s2c = <<Packet("bound", 0)>>
         \/ phase \in {"resuming", "enabling"} /\ s2c = <<Packet("failed", 0)>>
    ELSE /\ Down(stream.base, stream.out, session.handled, pushed, seen)
         /\ Passing(phase, session.id, s2c,
                    Seen(stream.base, stream.out, session.handled, pushed), pushed)

RPhase ==
    /\ phase = "down" => c2s = <<>>
    /\ phase = "resuming" => session.id # None
    /\ phase \in {"binding", "enabling"} => session.id = None

RHeld ==
    session.id # None /\ stream.id = None /\ held # None /\ held.id = session.id
      => Down(held.base, held.out, session.handled, pushed, seen)

RInv == RSession /\ RStreams /\ ICounts /\ Sorted(seen) /\ RUp /\ RDown /\ RPhase /\ RHeld

LEMMA AskTail ==
  ASSUME NEW S, NEW q \in Seq(S), q # <<>>, NEW ph, NEW h, NEW id
  PROVE  /\ Asks(Tail(q)) => Asks(q)
         /\ Head(q).type \in Requests => Asks(q)
         /\ Asked(q, ph, h, id) =>
              /\ Asked(Tail(q), ph, h, id)
              /\ Head(q).type \in Requests => Request(Head(q), ph, h, id) /\ ~Asks(Tail(q))
  <1>1. /\ Len(Tail(q)) \in Nat /\ 1 \in 1..Len(q) /\ Head(q) = q[1]
        /\ \A i \in 1..Len(Tail(q)) : i + 1 \in 1..Len(q) /\ i + 1 # 1 /\ Tail(q)[i] = q[i + 1]
    BY TailAt, LenProperties
  <1>2. \A i, j \in 1..Len(Tail(q)) : i + 1 = j + 1 => i = j
    BY <1>1
  <1>3. Asks(Tail(q)) => Asks(q)
    BY <1>1 DEF Asks
  <1>4. Head(q).type \in Requests => Asks(q)
    BY <1>1 DEF Asks
  <1>5. ASSUME Asked(q, ph, h, id) PROVE Asked(Tail(q), ph, h, id)
    <2>1. ASSUME NEW i \in 1..Len(Tail(q)), Tail(q)[i].type \in Requests
          PROVE  Request(Tail(q)[i], ph, h, id)
      BY <1>1, <1>5, <2>1 DEF Asked
    <2>2. ASSUME NEW i \in 1..Len(Tail(q)), NEW j \in 1..Len(Tail(q)),
                 Tail(q)[i].type \in Requests, Tail(q)[j].type \in Requests
          PROVE  i = j
      <3>1. i + 1 = j + 1
        BY <1>1, <1>5, <2>2 DEF Asked
      <3>2. QED
        BY <1>2, <3>1
    <2>3. QED
      BY <2>1, <2>2 DEF Asked
  <1>6. ASSUME Asked(q, ph, h, id), Head(q).type \in Requests
        PROVE  Request(Head(q), ph, h, id) /\ ~Asks(Tail(q))
    BY <1>1, <1>6 DEF Asked, Asks
  <1>7. QED
    BY <1>3, <1>4, <1>5, <1>6

LEMMA AskFree ==
  ASSUME NEW q, ~Asks(q), NEW ph, NEW h, NEW id
  PROVE  Asked(q, ph, h, id)
  BY DEF Asked, Asks

LEMMA AskConcat ==
  ASSUME NEW S, NEW q \in Seq(S), NEW t \in Seq(S), NEW ph, NEW h, NEW id
  PROVE  /\ Asks(q \o t) <=> Asks(q) \/ Asks(t)
         /\ Asked(q, ph, h, id) /\ ~Asks(t) => Asked(q \o t, ph, h, id)
         /\ ~Asks(q) /\ Asked(t, ph, h, id) => Asked(q \o t, ph, h, id)
  <1>1. PICK c : c = q \o t
    OBVIOUS
  <1>2. /\ Len(q) \in Nat
        /\ \A i \in 1..Len(q) : i \in 1..Len(c) /\ c[i] = q[i]
        /\ \A i \in 1..Len(t) : i + Len(q) \in 1..Len(c) /\ c[i + Len(q)] = t[i]
        /\ \A i \in 1..Len(c) :
             \/ i \in 1..Len(q) /\ c[i] = q[i]
             \/ i > Len(q) /\ i - Len(q) \in 1..Len(t) /\ c[i] = t[i - Len(q)]
    BY <1>1, ConcatAt
  <1>3. Asks(c) <=> Asks(q) \/ Asks(t)
    <2>1. Asks(q) => Asks(c)
      BY <1>2 DEF Asks
    <2>2. Asks(t) => Asks(c)
      BY <1>2 DEF Asks
    <2>3. Asks(c) => Asks(q) \/ Asks(t)
      BY <1>2 DEF Asks
    <2>4. QED
      BY <2>1, <2>2, <2>3
  <1>4. ASSUME Asked(q, ph, h, id), ~Asks(t) PROVE Asked(c, ph, h, id)
    <2>1. \A i \in 1..Len(c) : c[i].type \in Requests => i \in 1..Len(q) /\ c[i] = q[i]
      BY <1>2, <1>4 DEF Asks
    <2>2. QED
      BY <1>4, <2>1 DEF Asked
  <1>5. ASSUME ~Asks(q), Asked(t, ph, h, id) PROVE Asked(c, ph, h, id)
    <2>1. \A i \in 1..Len(c) :
            c[i].type \in Requests => i - Len(q) \in 1..Len(t) /\ c[i] = t[i - Len(q)]
      BY <1>2, <1>5 DEF Asks
    <2>2. \A i, j \in 1..Len(c) : i - Len(q) = j - Len(q) => i = j
      BY <1>2
    <2>3. ASSUME NEW i \in 1..Len(c), c[i].type \in Requests PROVE Request(c[i], ph, h, id)
      BY <1>5, <2>1, <2>3 DEF Asked
    <2>4. ASSUME NEW i \in 1..Len(c), NEW j \in 1..Len(c), c[i].type \in Requests, c[j].type \in Requests
          PROVE  i = j
      <3>1. i - Len(q) = j - Len(q)
        BY <1>5, <2>1, <2>4 DEF Asked
      <3>2. QED
        BY <2>2, <3>1
    <2>5. QED
      BY <2>3, <2>4 DEF Asked
  <1>6. QED
    BY <1>1, <1>3, <1>4, <1>5

\* One packet, at the end of a queue
LEMMA OneAsked ==
  ASSUME NEW x, NEW ph, NEW h, NEW id
  PROVE  /\ x.type \notin Requests => ~Asks(<<x>>)
         /\ Request(x, ph, h, id) => Asked(<<x>>, ph, h, id)
         /\ \A types : x.type \in types => Only(<<x>>, types)
         /\ x.type # "stanza" => \A lo, hi : Within(<<x>>, "stanza", lo, hi)
         /\ x.type # "a" => \A lo, hi : AcksIn(<<x>>, lo, hi)
  <1>1. PICK q : q = <<x>>
    OBVIOUS
  <1>2. \A i \in 1..Len(q) : i = 1 /\ q[i] = x
    BY <1>1
  <1>3. QED
    BY <1>1, <1>2 DEF Asks, Asked, Only, Within, AcksIn, Climbing

LEMMA FlowsConcat ==
  ASSUME NEW q \in Seq(DownSet), NEW t \in Seq(DownSet), NEW y \in Int, NEW n \in Int, NEW m \in Int,
         y <= n, n <= m, Flows(t, n, m), NEW ph, NEW id
  PROVE  /\ Flows(q, y, n) => Flows(q \o t, y, m)
         /\ Passing(ph, id, q, y, n) => Passing(ph, id, q \o t, y, m)
  <1>1. ASSUME NEW p \in Seq(DownSet), Flows(p, y, n) PROVE Flows(p \o t, y, m)
    BY <1>1, OnlyConcat, CompleteConcat DEF Flows
  <1>2. ASSUME q # <<>>, Flows(Tail(q), y, n)
        PROVE  q \o t # <<>> /\ Head(q \o t) = Head(q) /\ Flows(Tail(q \o t), y, m)
    <2>1. Tail(q) \in Seq(DownSet)
      BY <1>2, TailAt
    <2>2. q \o t # <<>> /\ Head(q \o t) = Head(q) /\ Tail(q \o t) = Tail(q) \o t
      BY <1>2, TailConcat
    <2>3. QED
      BY <1>1, <1>2, <2>1, <2>2
  <1>3. QED
    BY <1>1, <1>2 DEF Passing

LEMMA FlowsTail ==
  ASSUME NEW q \in Seq(DownSet), q # <<>>, NEW y \in Int, NEW n \in Int, Flows(q, y, n)
  PROVE  /\ Head(q).type \in {"stanza", "r", "a"}
         /\ Head(q).type # "stanza" => Flows(Tail(q), y, n)
         /\ Head(q).type = "stanza" => Head(q).n = y + 1 /\ y + 1 <= n /\ Flows(Tail(q), y + 1, n)
  BY OnlyTail, CompleteTail DEF Flows

LEMMA RFacts ==
  ASSUME RInv
  PROVE  /\ sent \in Nat /\ pushed \in Nat /\ drops \in Nat /\ sent \in Int /\ pushed \in Int
         /\ session \in SessionOf(sent) /\ (session.enabled <=> session.id # None)
         /\ session.handled \in Nat /\ session.handled \in Int /\ session.id \in Nat \cup {None}
         /\ stream \in StreamOf(pushed) /\ stream.base \in Nat /\ stream.base \in Int
         /\ stream.out \in Seq(1 .. pushed)
         /\ c2s \in Seq(UpSet) /\ s2c \in Seq(DownSet)
         /\ processed \in Seq(1 .. sent) /\ seen \in Seq(1 .. pushed) /\ Sorted(seen)
  <1>1. \A x \in Nat : x \in Int
    OBVIOUS
  <1>2. QED
    BY <1>1, SessionRange, StreamRange DEF RInv, RSession, RStreams, ICounts

\* What the client can read
LEMMA RHead ==
  ASSUME RInv, s2c # <<>>, NEW y, y = Seen(stream.base, stream.out, session.handled, pushed)
  PROVE  /\ Head(s2c) \in DownSet /\ Tail(s2c) \in Seq(DownSet) /\ ~Asks(c2s)
         /\ Head(s2c).type = "bound" =>
              phase = "binding" /\ session.id = None /\ stream.id = None /\ Tail(s2c) = <<>>
         /\ Head(s2c).type = "failed" =>
              phase \in {"resuming", "enabling"} /\ stream.id = None /\ Tail(s2c) = <<>>
         /\ stream.id # None =>
              /\ y \in 0 .. pushed /\ y \in Int /\ y <= pushed
              /\ Down(stream.base, stream.out, session.handled, pushed, seen)
         /\ Head(s2c).type = "enabled" =>
              /\ phase = "enabling" /\ stream.id # None /\ session.id = None
              /\ Flows(Tail(s2c), y, pushed)
         /\ Head(s2c).type = "resumed" =>
              /\ phase = "resuming" /\ stream.id # None /\ session.id # None
              /\ Flows(Tail(s2c), y, pushed)
         /\ Head(s2c).type \in {"stanza", "r", "a"} =>
              /\ phase = "online" /\ stream.id # None /\ session.id # None /\ session.enabled
              /\ Flows(s2c, y, pushed)
  <1>1. Head(s2c) \in DownSet /\ Tail(s2c) \in Seq(DownSet)
    BY RFacts, TailAt
  <1>2. ~Asks(c2s)
    BY DEF RInv, RUp
  <1>3. CASE stream.id = None
    <2>1. \/ phase = "binding" /\ s2c = <<Packet("bound", 0)>>
          \/ phase \in {"resuming", "enabling"} /\ s2c = <<Packet("failed", 0)>>
      BY <1>3 DEF RInv, RDown
    <2>2. Tail(s2c) = <<>> /\ (Head(s2c) = Packet("bound", 0) \/ Head(s2c) = Packet("failed", 0))
      BY <2>1, Single
    <2>3. CASE phase = "binding" /\ s2c = <<Packet("bound", 0)>>
      <3>1. Head(s2c).type = "bound"
        BY <2>3, Single DEF Packet
      <3>2. session.id = None
        BY <2>3 DEF RInv, RPhase
      <3>3. QED
        BY <1>1, <1>2, <1>3, <2>2, <2>3, <3>1, <3>2
    <2>4. CASE phase \in {"resuming", "enabling"} /\ s2c = <<Packet("failed", 0)>>
      <3>1. Head(s2c).type = "failed"
        BY <2>4, Single DEF Packet
      <3>2. QED
        BY <1>1, <1>2, <1>3, <2>2, <2>4, <3>1
    <2>5. QED
      BY <2>1, <2>3, <2>4
  <1>4. CASE stream.id # None
    <2>1. /\ Down(stream.base, stream.out, session.handled, pushed, seen)
          /\ Passing(phase, session.id, s2c, y, pushed)
      BY <1>4 DEF RInv, RDown
    <2>2. y \in 0 .. pushed
      BY <2>1, RFacts, SeenRange
    <2>3. y \in Int /\ y <= pushed
      BY <2>2, RFacts
    <2>4. CASE phase = "online" /\ session.id # None /\ Flows(s2c, y, pushed)
      <3>1. Head(s2c).type \in {"stanza", "r", "a"}
        BY <2>3, <2>4, RFacts, FlowsTail
      <3>2. session.enabled
        BY <2>4, RFacts
      <3>3. QED
        BY <1>1, <1>2, <1>4, <2>1, <2>2, <2>3, <2>4, <3>1, <3>2
    <2>5. CASE phase = "resuming" /\ session.id # None /\ Head(s2c).type = "resumed" /\ Flows(Tail(s2c), y, pushed)
      BY <1>1, <1>2, <1>4, <2>1, <2>2, <2>3, <2>5
    <2>6. CASE phase = "enabling" /\ session.id = None /\ Head(s2c).type = "enabled" /\ Flows(Tail(s2c), y, pushed)
      BY <1>1, <1>2, <1>4, <2>1, <2>2, <2>3, <2>6
    <2>7. QED
      BY <2>1, <2>4, <2>5, <2>6 DEF Passing
  <1>5. QED
    BY <1>3, <1>4

\* What the server can read
LEMMA RRead ==
  ASSUME RInv, c2s # <<>>
  PROVE  /\ Head(c2s) \in UpSet /\ Tail(c2s) \in Seq(UpSet)
         /\ Within(Tail(c2s), "stanza", 1, sent)
         /\ Asked(Tail(c2s), phase, session.handled, session.id)
         /\ Asks(Tail(c2s)) => Asks(c2s)
         /\ AcksIn(Tail(c2s), stream.base, session.handled)
         /\ stream.id = None => Only(Tail(c2s), Requests \cup {"stanza"})
         /\ phase # "down"
         /\ Head(c2s).type \in Requests =>
              /\ Request(Head(c2s), phase, session.handled, session.id)
              /\ ~Asks(Tail(c2s)) /\ stream.id = None /\ s2c = <<>>
         /\ Head(c2s).type = "a" =>
              /\ stream.id # None /\ Head(c2s).n \in stream.base .. session.handled
              /\ AcksIn(Tail(c2s), Head(c2s).n, session.handled)
         /\ Head(c2s).type = "stanza" => Head(c2s).n \in 1 .. sent
  <1>1. c2s \in Seq(UpSet) /\ stream.base \in Int /\ session.handled \in Int /\ sent \in Int /\ 1 \in Int
    BY RFacts
  <1>2. /\ Within(c2s, "stanza", 1, sent) /\ Asked(c2s, phase, session.handled, session.id)
        /\ Asks(c2s) => stream.id = None /\ s2c = <<>>
        /\ AcksIn(c2s, stream.base, session.handled)
        /\ stream.id = None => Only(c2s, Requests \cup {"stanza"})
    BY DEF RInv, RUp
  <1>3. Head(c2s) \in UpSet /\ Tail(c2s) \in Seq(UpSet) /\ phase # "down"
    BY <1>1, TailAt DEF RInv, RPhase
  <1>4. Within(Tail(c2s), "stanza", 1, sent) /\ (Head(c2s).type = "stanza" => Head(c2s).n \in 1 .. sent)
    BY <1>1, <1>2, WithinTail
  <1>5. /\ AcksIn(Tail(c2s), stream.base, session.handled)
        /\ Head(c2s).type = "a" =>
             Head(c2s).n \in stream.base .. session.handled /\ AcksIn(Tail(c2s), Head(c2s).n, session.handled)
    BY <1>1, <1>2, AcksTail
  <1>6. stream.id = None => Only(Tail(c2s), Requests \cup {"stanza"}) /\ Head(c2s).type # "a"
    <2>1. "a" \notin Requests \cup {"stanza"}
      BY DEF Requests
    <2>2. QED
      BY <1>1, <1>2, <2>1, OnlyTail
  <1>7. /\ Asks(Tail(c2s)) => Asks(c2s)
        /\ Head(c2s).type \in Requests => Asks(c2s)
        /\ Asked(Tail(c2s), phase, session.handled, session.id)
        /\ Head(c2s).type \in Requests =>
             Request(Head(c2s), phase, session.handled, session.id) /\ ~Asks(Tail(c2s))
    BY <1>1, <1>2, AskTail
  <1>8. QED
    BY <1>2, <1>3, <1>4, <1>5, <1>6, <1>7

LEMMA RInit == Init => RInv
  <1> SUFFICES ASSUME Init PROVE RInv
    OBVIOUS
  <1>1. \A S : <<>> \in Seq(S)
    BY EmptySeq
  <1>2. RSession
    BY <1>1 DEF Init, RSession, SessionOf, Fresh
  <1>3. RStreams
    BY <1>1 DEF Init, RStreams, StreamOf, NewStream
  <1>4. ICounts /\ Sorted(seen)
    BY <1>1 DEF Init, ICounts, Sorted
  <1>5. RUp
    <2>1. c2s = <<>> /\ ~Asks(<<>>) /\ stream.base \in Int /\ session.handled \in Int
      BY DEF Init, Asks, NewStream, Fresh
    <2>2. QED
      BY <2>1, NoStanzas, AskFree DEF RUp
  <1>6. RDown /\ RPhase /\ RHeld
    BY DEF Init, NewStream, Fresh, RDown, RPhase, RHeld
  <1>7. QED
    BY <1>2, <1>3, <1>4, <1>5, <1>6 DEF RInv

LEMMA RSame == RInv /\ UNCHANGED vars => RInv'
  <1> SUFFICES ASSUME RInv, UNCHANGED vars PROVE RInv'
    OBVIOUS
  <1>1. (RSession /\ RStreams /\ ICounts /\ Sorted(seen))'
    BY DEF vars, RInv, RSession, RStreams, ICounts, Sorted
  <1>2. (RUp /\ RDown /\ RPhase /\ RHeld)'
    BY DEF vars, RInv, RUp, RDown, RPhase, RHeld
  <1>3. QED
    BY <1>1, <1>2 DEF RInv

LEMMA RForget == RInv /\ Forget => RInv'
  <1> SUFFICES ASSUME RInv, Forget PROVE RInv'
    OBVIOUS
  <1>1. (RSession /\ RStreams /\ ICounts /\ Sorted(seen))'
    BY DEF Forget, RInv, RSession, RStreams, ICounts, Sorted
  <1>2. (RUp /\ RDown /\ RPhase /\ RHeld)'
    BY DEF Forget, RInv, RUp, RDown, RPhase, RHeld
  <1>3. QED
    BY <1>1, <1>2 DEF RInv

LEMMA RReset ==
  ASSUME NEW n \in Nat, NEW s \in SessionOf(n)
  PROVE  /\ Reset(s) \in SessionOf(n) /\ Reset(s).id = None /\ Reset(s).enabled = FALSE
         /\ Reset(s).handled = 0
  BY EmptySeq DEF Reset, SessionOf

LEMMA RConnect == RInv /\ Connect => RInv'
  <1> SUFFICES ASSUME RInv, Connect PROVE RInv'
    OBVIOUS
  <1>1. /\ phase = "down" /\ c2s = <<>> /\ stream.id = None /\ s2c = <<>>
        /\ UNCHANGED <<s2c, stream, held, sent, processed, pushed, seen, drops>>
    BY DEF Connect, RInv, RPhase, RDown, Passing
  <1>2. CASE /\ session.id # None /\ phase' = "resuming" /\ UNCHANGED session
             /\ Post(<<[type |-> "resume", n |-> session.handled, id |-> session.id]>>)
    <2>1. PICK x : x = [type |-> "resume", n |-> session.handled, id |-> session.id]
      OBVIOUS
    <2>2. x \in UpSet /\ x.type = "resume" /\ x.n = session.handled /\ x.id = session.id
      BY <1>2, <2>1, RFacts DEF UpSet
    <2>3. c2s' = <<x>> /\ c2s' \in Seq(UpSet)
      BY <1>1, <1>2, <2>1, <2>2, ConcatNone DEF Post
    <2>4. Request(x, phase', session.handled, session.id) /\ x.type \in Requests
      BY <1>2, <2>2 DEF Request, Requests
    <2>5. RUp'
      <3>1. x.type # "stanza" /\ x.type # "a" /\ x.type \in Requests \cup {"stanza"}
        BY <2>2, <2>4
      <3>2. QED
        BY <1>1, <1>2, <2>3, <2>4, <3>1, OneAsked DEF RUp
    <2>6. (RSession /\ RStreams /\ ICounts /\ Sorted(seen))'
      BY <1>1, <1>2, <2>3 DEF RInv, RSession, RStreams, ICounts, Sorted
    <2>7. (RDown /\ RPhase /\ RHeld)'
      BY <1>1, <1>2 DEF RInv, RDown, RPhase, RHeld
    <2>8. QED
      BY <2>5, <2>6, <2>7 DEF RInv
  <1>3. CASE /\ session.id = None /\ phase' = "binding" /\ session' = Reset(session)
             /\ Post(<<Packet("bind", 0)>>)
    <2>1. PICK x : x = Packet("bind", 0)
      OBVIOUS
    <2>2. x \in UpSet /\ x.type = "bind"
      BY <2>1 DEF UpSet, Packet
    <2>3. c2s' = <<x>> /\ c2s' \in Seq(UpSet)
      BY <1>1, <1>3, <2>1, <2>2, ConcatNone DEF Post
    <2>4. \A h, id : Request(x, phase', h, id) /\ x.type \in Requests
      BY <1>3, <2>2 DEF Request, Requests
    <2>5. RUp'
      <3>1. x.type # "stanza" /\ x.type # "a" /\ x.type \in Requests \cup {"stanza"}
        BY <2>2, <2>4
      <3>2. QED
        BY <1>1, <1>3, <2>3, <2>4, <3>1, OneAsked DEF RUp
    <2>6. session' \in SessionOf(sent) /\ session'.id = None /\ session'.enabled = FALSE /\ session'.handled = 0
      BY <1>3, RFacts, RReset
    <2>7. (RSession /\ RStreams /\ ICounts /\ Sorted(seen))'
      BY <1>1, <1>3, <2>3, <2>6 DEF RInv, RSession, RStreams, ICounts, Sorted
    <2>8. (RDown /\ RPhase /\ RHeld)'
      BY <1>1, <1>3, <2>6 DEF RInv, RDown, RPhase, RHeld
    <2>9. QED
      BY <2>5, <2>7, <2>8 DEF RInv
  <1>4. QED
    BY <1>2, <1>3 DEF Connect

LEMMA RBound == RInv /\ OnBound => RInv'
  <1> SUFFICES ASSUME RInv, OnBound PROVE RInv'
    OBVIOUS
  <1>1. /\ s2c # <<>> /\ Head(s2c).type = "bound" /\ s2c' = Tail(s2c) /\ phase' = "enabling"
        /\ UNCHANGED <<session, stream, held, sent, processed, pushed, seen, drops>>
    BY DEF OnBound, Got
  <1>2. ~Asks(c2s) /\ session.id = None /\ stream.id = None /\ s2c' = <<>> /\ s2c' \in Seq(DownSet)
    <2>1. PICK y : y = Seen(stream.base, stream.out, session.handled, pushed)
      OBVIOUS
    <2>2. QED
      BY <1>1, <2>1, RHead
  <1>3. PICK x : x = Packet("enable", 0)
    OBVIOUS
  <1>4. x \in UpSet /\ x.type = "enable" /\ <<x>> \in Seq(UpSet) /\ c2s' = c2s \o <<x>>
    <2>1. x \in UpSet /\ x.type = "enable" /\ c2s' = c2s \o <<x>>
      BY <1>3 DEF UpSet, Packet, OnBound, Post
    <2>2. <<x>> \in Seq(UpSet)
      BY <2>1
    <2>3. QED
      BY <2>1, <2>2
  <1>5. /\ \A h, id : Request(x, phase', h, id)
        /\ x.type \in Requests /\ x.type # "stanza" /\ x.type # "a"
    BY <1>1, <1>4 DEF Request, Requests
  <1>6. RUp'
    <2>1. Within(c2s', "stanza", 1, sent)
      <3>1. Within(c2s, "stanza", 1, sent) /\ c2s \in Seq(UpSet) /\ sent \in Int /\ 1 \in Int
        BY RFacts DEF RInv, RUp
      <3>2. Within(<<x>>, "stanza", 1, sent) /\ 1 <= 1 /\ sent <= sent
        BY <1>5, <3>1, OneAsked
      <3>3. QED
        BY <1>4, <3>1, <3>2, WithinConcat
    <2>2. Asked(c2s', phase', session.handled, session.id)
      BY <1>2, <1>4, <1>5, OneAsked, AskConcat, RFacts
    <2>3. AcksIn(c2s', stream.base, session.handled) /\ Only(c2s', Requests \cup {"stanza"})
      <3>1. Only(c2s, Requests \cup {"stanza"}) /\ x.type \in Requests \cup {"stanza"}
        BY <1>2, <1>5 DEF RInv, RUp
      <3>2. Only(<<x>>, Requests \cup {"stanza"}) /\ c2s \in Seq(UpSet)
        BY <3>1, OneAsked, RFacts
      <3>3. Only(c2s', Requests \cup {"stanza"})
        BY <1>4, <3>1, <3>2, OnlyConcat
      <3>4. "a" \notin Requests \cup {"stanza"}
        BY DEF Requests
      <3>5. QED
        BY <3>3, <3>4, NoAcks
    <2>4. QED
      BY <1>1, <1>2, <2>1, <2>2, <2>3 DEF RUp
  <1>7. c2s' \in Seq(UpSet)
    BY <1>4, ConcatAt, RFacts
  <1>8. (RSession /\ RStreams /\ ICounts /\ Sorted(seen))'
    BY <1>1, <1>2, <1>7 DEF RInv, RSession, RStreams, ICounts, Sorted
  <1>9. (RDown /\ RPhase /\ RHeld)'
    BY <1>1, <1>2 DEF RInv, RDown, RPhase, RHeld
  <1>10. QED
    BY <1>6, <1>8, <1>9 DEF RInv

LEMMA REnabled == RInv /\ OnEnabled => RInv'
  <1> SUFFICES ASSUME RInv, OnEnabled PROVE RInv'
    OBVIOUS
  <1>1. /\ s2c # <<>> /\ Head(s2c).type = "enabled" /\ s2c' = Tail(s2c) /\ phase' = "online"
        /\ UNCHANGED <<c2s, stream, held, sent, processed, pushed, seen, drops>>
    BY DEF OnEnabled, Got
  <1>2. PICK y : y = Seen(stream.base, stream.out, session.handled, pushed)
    OBVIOUS
  <1>3. /\ ~Asks(c2s) /\ stream.id # None /\ session.id = None /\ Tail(s2c) \in Seq(DownSet)
        /\ Flows(Tail(s2c), y, pushed) /\ Head(s2c) \in DownSet
        /\ Down(stream.base, stream.out, session.handled, pushed, seen)
    BY <1>1, <1>2, RHead
  <1>4. /\ session' \in SessionOf(sent) /\ session'.id # None /\ session'.enabled = TRUE
        /\ session'.handled = session.handled
    <2>1. session' = [session EXCEPT !.enabled = TRUE, !.id = Head(s2c).n] /\ Head(s2c).n \in Nat
      BY <1>3 DEF OnEnabled, DownSet
    <2>2. PICK k : k = Head(s2c).n
      OBVIOUS
    <2>3. QED
      BY <2>1, <2>2, RFacts DEF SessionOf
  <1>5. RUp'
    <2>1. Asked(c2s, "online", session.handled, session'.id)
      BY <1>3, AskFree
    <2>2. QED
      BY <1>1, <1>3, <1>4, <2>1 DEF RInv, RUp
  <1>6. RDown'
    BY <1>1, <1>2, <1>3, <1>4 DEF RDown, Passing
  <1>7. (RSession /\ RStreams /\ ICounts /\ Sorted(seen))'
    BY <1>1, <1>3, <1>4 DEF RInv, RSession, RStreams, ICounts, Sorted
  <1>8. (RPhase /\ RHeld)'
    BY <1>1, <1>3 DEF RPhase, RHeld
  <1>9. QED
    BY <1>5, <1>6, <1>7, <1>8 DEF RInv

LEMMA RFailed == RInv /\ OnFailed => RInv'
  <1> SUFFICES ASSUME RInv, OnFailed PROVE RInv'
    OBVIOUS
  <1>1. /\ s2c # <<>> /\ Head(s2c).type = "failed" /\ s2c' = Tail(s2c) /\ session' = Reset(session)
        /\ UNCHANGED <<stream, held, sent, processed, pushed, seen, drops>>
    BY DEF OnFailed, Got
  <1>2. /\ ~Asks(c2s) /\ stream.id = None /\ s2c' = <<>> /\ s2c' \in Seq(DownSet)
        /\ phase \in {"resuming", "enabling"}
    <2>1. PICK y : y = Seen(stream.base, stream.out, session.handled, pushed)
      OBVIOUS
    <2>2. QED
      BY <1>1, <2>1, RHead
  <1>3. session' \in SessionOf(sent) /\ session'.id = None /\ session'.enabled = FALSE /\ session'.handled = 0
    BY <1>1, RFacts, RReset
  <1>4. /\ Within(c2s, "stanza", 1, sent) /\ c2s \in Seq(UpSet) /\ sent \in Int /\ 1 \in Int
        /\ Only(c2s, Requests \cup {"stanza"}) /\ "a" \notin Requests \cup {"stanza"}
    BY <1>2, RFacts DEF RInv, RUp, Requests
  <1>5. CASE phase = "resuming"
    <2>1. PICK x : x = Packet("bind", 0)
      OBVIOUS
    <2>2. x \in UpSet /\ x.type = "bind" /\ <<x>> \in Seq(UpSet) /\ c2s' = c2s \o <<x>> /\ phase' = "binding"
      <3>1. x \in UpSet /\ x.type = "bind" /\ c2s' = c2s \o <<x>> /\ phase' = "binding"
        BY <1>5, <2>1 DEF UpSet, Packet, OnFailed, Post
      <3>2. <<x>> \in Seq(UpSet)
        BY <3>1
      <3>3. QED
        BY <3>1, <3>2
    <2>3. /\ \A h, id : Request(x, phase', h, id)
          /\ x.type \in Requests /\ x.type # "stanza" /\ x.type # "a" /\ x.type \in Requests \cup {"stanza"}
      BY <2>2 DEF Request, Requests
    <2>4. Within(c2s', "stanza", 1, sent)
      <3>1. Within(<<x>>, "stanza", 1, sent) /\ 1 <= 1 /\ sent <= sent
        BY <1>4, <2>3, OneAsked
      <3>2. QED
        BY <1>4, <2>2, <3>1, WithinConcat
    <2>5. Only(c2s', Requests \cup {"stanza"})
      BY <1>4, <2>2, <2>3, OneAsked, OnlyConcat
    <2>6. AcksIn(c2s', stream.base, session'.handled)
      BY <1>4, <2>5, NoAcks
    <2>7. Asked(c2s', phase', session'.handled, session'.id)
      BY <1>2, <1>4, <2>2, <2>3, OneAsked, AskConcat
    <2>8. RUp'
      BY <1>1, <1>2, <2>4, <2>5, <2>6, <2>7 DEF RUp
    <2>9. c2s' \in Seq(UpSet)
      BY <1>4, <2>2, ConcatAt
    <2>10. (RSession /\ RStreams /\ ICounts /\ Sorted(seen))'
      BY <1>1, <1>2, <1>3, <2>2, <2>9 DEF RInv, RSession, RStreams, ICounts, Sorted
    <2>11. (RDown /\ RPhase /\ RHeld)'
      BY <1>1, <1>2, <1>3, <2>2 DEF RDown, RPhase, RHeld
    <2>12. QED
      BY <2>8, <2>10, <2>11 DEF RInv
  <1>6. CASE phase # "resuming"
    <2>1. phase' = "online" /\ c2s' = c2s
      BY <1>6 DEF OnFailed
    <2>2. RUp'
      BY <1>1, <1>2, <1>4, <2>1, AskFree, NoAcks DEF RUp
    <2>3. (RSession /\ RStreams /\ ICounts /\ Sorted(seen))'
      BY <1>1, <1>2, <1>3, <2>1 DEF RInv, RSession, RStreams, ICounts, Sorted
    <2>4. (RDown /\ RPhase /\ RHeld)'
      BY <1>1, <1>2, <1>3, <2>1 DEF RDown, RPhase, RHeld
    <2>5. QED
      BY <2>2, <2>3, <2>4 DEF RInv
  <1>7. QED
    BY <1>5, <1>6

\* Whatever the count, what is kept stays a list of stanzas that were sent.
LEMMA RAcked ==
  ASSUME NEW n \in Nat, NEW s \in SessionOf(n), NEW h \in Nat
  PROVE  /\ Acked(s, h) \in SessionOf(n) /\ Acked(s, h).id = s.id
         /\ Acked(s, h).handled = s.handled /\ Acked(s, h).enabled = s.enabled
  <1>1. ASSUME NEW k \in Nat PROVE From(s.unacked, k) \in Seq(1 .. n)
    <2>1. s.unacked \in Seq(1 .. n) /\ Len(s.unacked) \in Nat
      BY SessionRange, LenProperties
    <2>2. \A i \in k + 1 .. Len(s.unacked) : s.unacked[i] \in 1 .. n
      <3>1. \A i \in k + 1 .. Len(s.unacked) : i \in 1 .. Len(s.unacked)
        BY <2>1
      <3>2. QED
        BY <2>1, <3>1, ElementOfSeq
    <2>3. k + 1 \in Int /\ Len(s.unacked) \in Int
      BY <2>1
    <2>4. QED
      BY <2>1, <2>2, <2>3, SubSeqProperties DEF From
  <1>2. /\ s.acked \in Nat /\ Len(s.unacked) \in Nat
        /\ (IF s.acked - h < Len(s.unacked) THEN Len(s.unacked) - (s.acked - h) ELSE 0) \in Nat
    <2>1. s.acked \in Nat /\ Len(s.unacked) \in Nat
      BY SessionRange, LenProperties
    <2>2. QED
      BY <2>1
  <1>3. PICK u : u = IF h >= s.acked THEN From(s.unacked, h - s.acked)
                                    ELSE LastOnes(s.unacked, s.acked - h)
    OBVIOUS
  <1>4. u \in Seq(1 .. n)
    <2>1. CASE h >= s.acked
      <3>1. h - s.acked \in Nat
        BY <1>2, <2>1
      <3>2. QED
        BY <1>1, <1>3, <2>1, <3>1
    <2>2. CASE ~(h >= s.acked)
      BY <1>1, <1>2, <1>3, <2>2 DEF LastOnes
    <2>3. QED
      BY <2>1, <2>2
  <1>5. PICK r : r = Acked(s, h)
    OBVIOUS
  <1>6. r = [s EXCEPT !.acked = h, !.since = 0, !.unacked = u]
    BY <1>3, <1>5 DEF Acked, SessionOf
  <1>7. r \in SessionOf(n) /\ r.id = s.id /\ r.handled = s.handled /\ r.enabled = s.enabled
    BY <1>4, <1>6 DEF SessionOf
  <1>8. QED
    BY <1>5, <1>7

LEMMA RAck == RInv /\ OnAck => RInv'
  <1> SUFFICES ASSUME RInv, OnAck PROVE RInv'
    OBVIOUS
  <1>1. /\ s2c # <<>> /\ Head(s2c).type = "a" /\ s2c' = Tail(s2c)
        /\ UNCHANGED <<phase, c2s, stream, held, sent, processed, pushed, seen, drops>>
    BY DEF OnAck, Got
  <1>2. PICK y : y = Seen(stream.base, stream.out, session.handled, pushed)
    OBVIOUS
  <1>3. /\ ~Asks(c2s) /\ stream.id # None /\ session.id # None /\ Tail(s2c) \in Seq(DownSet)
        /\ Flows(s2c, y, pushed) /\ Head(s2c) \in DownSet /\ phase = "online"
        /\ Down(stream.base, stream.out, session.handled, pushed, seen) /\ y \in Int
    BY <1>1, <1>2, RHead
  <1>4. Flows(Tail(s2c), y, pushed)
    BY <1>1, <1>3, RFacts, FlowsTail
  <1>5. /\ session' \in SessionOf(sent) /\ session'.id = session.id /\ session'.enabled = session.enabled
        /\ session'.handled = session.handled
    <2>1. Head(s2c).n \in Nat /\ (session' = Acked(session, Head(s2c).n) \/ session' = session)
      BY <1>3 DEF OnAck, DownSet
    <2>2. PICK k : k = Head(s2c).n
      OBVIOUS
    <2>3. k \in Nat /\ (session' = Acked(session, k) \/ session' = session)
      BY <2>1, <2>2
    <2>4. sent \in Nat /\ session \in SessionOf(sent)
      BY RFacts
    <2>5. /\ Acked(session, k) \in SessionOf(sent) /\ Acked(session, k).id = session.id
          /\ Acked(session, k).handled = session.handled /\ Acked(session, k).enabled = session.enabled
      BY <2>3, <2>4, RAcked
    <2>6. QED
      BY <2>3, <2>4, <2>5
  <1>6. (RSession /\ RStreams /\ ICounts /\ Sorted(seen))'
    BY <1>1, <1>3, <1>5 DEF RInv, RSession, RStreams, ICounts, Sorted
  <1>7. RUp'
    BY <1>1, <1>3, <1>5 DEF RInv, RUp
  <1>8. RDown'
    BY <1>1, <1>2, <1>3, <1>4, <1>5 DEF RDown, Passing
  <1>9. (RPhase /\ RHeld)'
    BY <1>1, <1>3 DEF RPhase, RHeld
  <1>10. QED
    BY <1>6, <1>7, <1>8, <1>9 DEF RInv

\* Stanzas at the end of what the client has posted
LEMMA RPost ==
  ASSUME RInv, NEW n \in Nat, sent <= n, NEW t \in Seq(UpSet), Only(t, {"stanza"}), Within(t, "stanza", 1, n)
  PROVE  /\ c2s \o t \in Seq(UpSet) /\ Within(c2s \o t, "stanza", 1, n)
         /\ Asked(c2s \o t, phase, session.handled, session.id)
         /\ Asks(c2s \o t) <=> Asks(c2s)
         /\ AcksIn(c2s \o t, stream.base, session.handled)
         /\ stream.id = None => Only(c2s \o t, Requests \cup {"stanza"})
  <1>1. /\ c2s \in Seq(UpSet) /\ sent \in Int /\ 1 \in Int /\ n \in Int /\ 1 <= 1
        /\ stream.base \in Int /\ session.handled \in Int /\ session.handled \in Nat
    BY RFacts
  <1>2. /\ Within(c2s, "stanza", 1, sent) /\ Asked(c2s, phase, session.handled, session.id)
        /\ AcksIn(c2s, stream.base, session.handled)
        /\ stream.id = None => Only(c2s, Requests \cup {"stanza"})
    BY DEF RInv, RUp
  <1>3. ~Asks(t)
    BY DEF Asks, Only, Requests
  <1>4. /\ Asked(c2s \o t, phase, session.handled, session.id)
        /\ Asks(c2s \o t) <=> Asks(c2s)
    BY <1>1, <1>2, <1>3, AskConcat
  <1>5. c2s \o t \in Seq(UpSet) /\ Within(c2s \o t, "stanza", 1, n)
    BY <1>1, <1>2, ConcatAt, WithinConcat
  <1>6. AcksIn(c2s \o t, stream.base, session.handled)
    <2>1. stream.base <= session.handled
      BY <1>1 DEF RInv, RStreams, RDown, Down
    <2>2. AcksIn(t, session.handled, session.handled) /\ session.handled <= session.handled
      <3>1. "a" \notin {"stanza"}
        OBVIOUS
      <3>2. QED
        BY <1>1, <3>1, NoAcks
    <2>3. QED
      BY <1>1, <1>2, <2>1, <2>2, AcksConcat
  <1>7. stream.id = None => Only(c2s \o t, Requests \cup {"stanza"})
    <2>1. Only(t, Requests \cup {"stanza"})
      BY DEF Only
    <2>2. QED
      BY <1>1, <1>2, <2>1, OnlyConcat
  <1>8. QED
    BY <1>4, <1>5, <1>6, <1>7

LEMMA RSend == RInv /\ Send => RInv'
  <1> SUFFICES ASSUME RInv, Send PROVE RInv'
    OBVIOUS
  <1>1. PICK n, q : n = sent + 1 /\ q = <<n>>
    OBVIOUS
  <1>2. /\ n \in Nat /\ sent <= n /\ q \in Seq(Nat) /\ q \in Seq(1 .. n) /\ Len(q) = 1 /\ q[1] = n
        /\ sent' = n
    <2>1. n \in Nat /\ sent <= n /\ n \in 1 .. n /\ sent' = n
      BY <1>1, RFacts DEF Send
    <2>2. QED
      BY <1>1, <2>1
  <1>3. /\ phase # "down" /\ Sends(session, q)
        /\ UNCHANGED <<phase, s2c, stream, held, processed, pushed, seen, drops>>
    BY <1>1, <1>2 DEF Send
  <1>4. PICK t : t = Transmission(session, q)
    OBVIOUS
  <1>5. /\ t \in Seq(UpSet) /\ Len(t) = 1 /\ t[1].type = "stanza" /\ t[1].n = n
        /\ c2s' = c2s \o t
    <2>1. /\ Transmission(session, q) \in Seq(UpSet) /\ Len(Transmission(session, q)) = Len(q)
          /\ \A i \in 1..Len(q) : Transmission(session, q)[i].type = "stanza"
                                  /\ Transmission(session, q)[i].n = q[i]
      BY <1>2, TransmissionType
    <2>2. 1 \in 1..Len(q)
      BY <1>2
    <2>3. QED
      BY <1>2, <1>3, <1>4, <2>1, <2>2 DEF Sends, Post
  <1>6. Only(t, {"stanza"}) /\ Within(t, "stanza", 1, n)
    <2>1. \A i \in 1..1 : i = 1
      OBVIOUS
    <2>2. n \in 1 .. n
      BY <1>1, <1>2, RFacts
    <2>3. QED
      BY <1>5, <2>1, <2>2 DEF Only, Within
  <1>7. /\ c2s' \in Seq(UpSet) /\ Within(c2s', "stanza", 1, n)
        /\ Asked(c2s', phase, session.handled, session.id)
        /\ Asks(c2s') <=> Asks(c2s)
        /\ AcksIn(c2s', stream.base, session.handled)
        /\ stream.id = None => Only(c2s', Requests \cup {"stanza"})
    BY <1>2, <1>5, <1>6, RPost
  <1>8. /\ session' \in SessionOf(n) /\ session'.id = session.id /\ session'.enabled = session.enabled
        /\ session'.handled = session.handled
    <2>1. /\ session \in SessionOf(sent) /\ session.unacked \in Seq(1 .. sent) /\ sent \in Nat
          /\ session.since \in Nat
      BY RFacts, SessionRange
    <2>2. session.unacked \in Seq(1 .. n)
      BY <1>2, <2>1, SeqWider
    <2>3. PICK u : u = session.unacked \o q
      OBVIOUS
    <2>4. u \in Seq(1 .. n)
      BY <1>2, <2>2, <2>3, ConcatProperties
    <2>5. PICK c : c = session.since + Len(q)
      OBVIOUS
    <2>6. c \in Nat
      BY <1>2, <2>1, <2>5
    <2>7. session' = [session EXCEPT !.unacked = u, !.since = c] \/ session' = session
      BY <1>3, <2>1, <2>3, <2>5 DEF Sends, SessionOf
    <2>8. session \in SessionOf(n)
      BY <2>1, <2>2 DEF SessionOf
    <2>9. QED
      BY <2>4, <2>6, <2>7, <2>8 DEF SessionOf
  <1>9. processed \in Seq(1 .. n)
    BY <1>2, RFacts, SeqWider
  <1>10. (RSession /\ RStreams /\ ICounts /\ Sorted(seen))'
    BY <1>2, <1>3, <1>7, <1>8, <1>9 DEF RInv, RSession, RStreams, ICounts, Sorted
  <1>11. RUp'
    BY <1>2, <1>3, <1>7, <1>8 DEF RInv, RUp
  <1>12. (RDown /\ RPhase /\ RHeld)'
    BY <1>3, <1>8 DEF RInv, RDown, RPhase, RHeld
  <1>13. QED
    BY <1>10, <1>11, <1>12 DEF RInv

LEMMA RResumed == RInv /\ OnResumed => RInv'
  <1> SUFFICES ASSUME RInv, OnResumed PROVE RInv'
    OBVIOUS
  <1>1. /\ s2c # <<>> /\ Head(s2c).type = "resumed" /\ s2c' = Tail(s2c) /\ phase' = "online"
        /\ UNCHANGED <<stream, held, sent, processed, pushed, seen, drops>>
    BY DEF OnResumed, Got
  <1>2. PICK y : y = Seen(stream.base, stream.out, session.handled, pushed)
    OBVIOUS
  <1>3. /\ ~Asks(c2s) /\ stream.id # None /\ session.id # None /\ Tail(s2c) \in Seq(DownSet)
        /\ Flows(Tail(s2c), y, pushed) /\ Head(s2c) \in DownSet
        /\ Down(stream.base, stream.out, session.handled, pushed, seen)
    BY <1>1, <1>2, RHead
  <1>4. PICK h, n : h = Head(s2c).n /\ n = sent
    OBVIOUS
  <1>5. h \in Nat /\ n \in Nat
    BY <1>3, <1>4, RFacts DEF DownSet
  <1>6. PICK a : a = [session EXCEPT !.enabled = TRUE, !.resumed = TRUE]
    OBVIOUS
  <1>7. a \in SessionOf(n) /\ a.id = session.id /\ a.handled = session.handled /\ a.enabled = TRUE
    BY <1>4, <1>6, RFacts DEF SessionOf
  <1>8. PICK s : s = Acked(a, h)
    OBVIOUS
  <1>9. /\ s \in SessionOf(n) /\ s.id = session.id /\ s.handled = session.handled /\ s.enabled = TRUE
        /\ s.unacked \in Seq(1 .. n) /\ s.since \in Nat
    <2>1. /\ Acked(a, h) \in SessionOf(n) /\ Acked(a, h).id = a.id
          /\ Acked(a, h).handled = a.handled /\ Acked(a, h).enabled = a.enabled
      BY <1>5, <1>7, RAcked
    <2>2. s \in SessionOf(n)
      BY <1>8, <2>1
    <2>3. s.unacked \in Seq(1 .. n) /\ s.since \in Nat
      BY <2>2, SessionRange
    <2>4. QED
      BY <1>7, <1>8, <2>1, <2>2, <2>3
  <1>10. PICK f : f = [s EXCEPT !.unacked = <<>>]
    OBVIOUS
  <1>11. /\ f \in SessionOf(n) /\ f.id = session.id /\ f.handled = session.handled /\ f.enabled = TRUE
         /\ f.since \in Nat /\ f.unacked = <<>>
    <2>1. <<>> \in Seq(1 .. n)
      BY EmptySeq
    <2>2. QED
      BY <1>9, <1>10, <2>1 DEF SessionOf
  <1>12. Sends(f, s.unacked)
    BY <1>4, <1>6, <1>8, <1>10 DEF OnResumed
  <1>13. PICK q, t : q = s.unacked /\ t = Transmission(f, s.unacked)
    OBVIOUS
  <1>14. /\ t \in Seq(UpSet) /\ Only(t, {"stanza"}) /\ Within(t, "stanza", 1, n) /\ c2s' = c2s \o t
         /\ Len(q) \in Nat /\ q \in Seq(1 .. n)
    <2>1. q \in Seq(Nat) /\ q \in Seq(1 .. n) /\ Len(q) \in Nat /\ t = Transmission(f, q)
      BY <1>5, <1>9, <1>13, SeqNat, LenProperties
    <2>2. /\ t \in Seq(UpSet) /\ Len(t) = Len(q)
          /\ \A i \in 1..Len(q) : t[i].type = "stanza" /\ t[i].n = q[i]
      BY <2>1, TransmissionType
    <2>3. \A i \in 1..Len(q) : q[i] \in 1 .. n
      BY <2>1, ElementOfSeq
    <2>4. QED
      BY <1>12, <1>13, <2>1, <2>2, <2>3 DEF Only, Within, Sends, Post
  <1>15. /\ session' \in SessionOf(n) /\ session'.id = session.id /\ session'.handled = session.handled
         /\ session'.enabled = TRUE
    <2>1. PICK u, c : u = <<>> \o q /\ c = f.since + Len(q)
      OBVIOUS
    <2>2. <<>> \in Seq(1 .. n)
      BY EmptySeq
    <2>3. u \in Seq(1 .. n) /\ c \in Nat
      BY <1>11, <1>14, <2>1, <2>2, ConcatProperties
    <2>4. session' = [f EXCEPT !.unacked = u, !.since = c]
      BY <1>11, <1>12, <1>13, <2>1 DEF Sends, SessionOf
    <2>5. QED
      BY <1>11, <2>3, <2>4 DEF SessionOf
  <1>16. /\ c2s' \in Seq(UpSet) /\ Within(c2s', "stanza", 1, n)
         /\ ~Asks(c2s') /\ AcksIn(c2s', stream.base, session.handled)
    <2>1. sent <= n
      BY <1>4, <1>5
    <2>2. QED
      BY <1>3, <1>5, <1>14, <2>1, RPost
  <1>17. RUp'
    BY <1>1, <1>3, <1>4, <1>15, <1>16, AskFree DEF RUp
  <1>18. RDown'
    BY <1>1, <1>2, <1>3, <1>15 DEF RDown, Passing
  <1>19. (RSession /\ RStreams /\ ICounts /\ Sorted(seen))'
    BY <1>1, <1>3, <1>4, <1>15, <1>16 DEF RInv, RSession, RStreams, ICounts, Sorted
  <1>20. (RPhase /\ RHeld)'
    BY <1>1, <1>3 DEF RPhase, RHeld
  <1>21. QED
    BY <1>17, <1>18, <1>19, <1>20 DEF RInv

LEMMA RRequest == RInv /\ OnRequest => RInv'
  <1> SUFFICES ASSUME RInv, OnRequest PROVE RInv'
    OBVIOUS
  <1>1. /\ s2c # <<>> /\ Head(s2c).type = "r" /\ s2c' = Tail(s2c)
        /\ UNCHANGED <<session, phase, stream, held, sent, processed, pushed, seen, drops>>
    BY DEF OnRequest, Got
  <1>2. PICK y : y = Seen(stream.base, stream.out, session.handled, pushed)
    OBVIOUS
  <1>3. /\ ~Asks(c2s) /\ stream.id # None /\ session.id # None /\ Tail(s2c) \in Seq(DownSet)
        /\ Flows(s2c, y, pushed) /\ phase = "online" /\ session.enabled
        /\ Down(stream.base, stream.out, session.handled, pushed, seen) /\ y \in Int
    BY <1>1, <1>2, RHead
  <1>4. Flows(Tail(s2c), y, pushed)
    BY <1>1, <1>3, RFacts, FlowsTail
  <1>5. PICK h, x : h = session.handled /\ x = Packet("a", session.handled)
    OBVIOUS
  <1>6. /\ h \in Nat /\ h \in Int /\ h <= h /\ x \in UpSet /\ x.type = "a" /\ <<x>> \in Seq(UpSet)
        /\ c2s' = c2s \o <<x>> /\ x = Packet("a", h)
    <2>1. h \in Nat /\ h \in Int /\ x = Packet("a", h) /\ c2s' = c2s \o <<x>>
      BY <1>3, <1>5, RFacts DEF OnRequest, Post
    <2>2. x \in UpSet /\ x.type = "a" /\ h <= h
      BY <2>1 DEF UpSet, Packet
    <2>3. QED
      BY <2>1, <2>2
  <1>7. c2s' \in Seq(UpSet) /\ Within(c2s', "stanza", 1, sent)
    <2>1. c2s \in Seq(UpSet) /\ Within(c2s, "stanza", 1, sent) /\ sent \in Int /\ 1 \in Int /\ 1 <= 1 /\ sent <= sent
      BY RFacts DEF RInv, RUp
    <2>2. Within(<<x>>, "stanza", 1, sent)
      BY <1>6, OneAsked
    <2>3. QED
      BY <1>6, <2>1, <2>2, ConcatAt, WithinConcat
  <1>8. ~Asks(c2s')
    BY <1>3, <1>6, RFacts, OneAsked, AskConcat DEF Requests
  <1>9. AcksIn(c2s', stream.base, h)
    <2>1. AcksIn(c2s, stream.base, h) /\ c2s \in Seq(UpSet) /\ stream.base \in Int /\ stream.base <= h
      BY <1>3, <1>5, RFacts DEF RInv, RUp, Down
    <2>2. AcksIn(<<x>>, h, h)
      BY <1>6, OnePacket
    <2>3. QED
      BY <1>6, <2>1, <2>2, AcksConcat
  <1>10. RUp'
    BY <1>1, <1>3, <1>5, <1>7, <1>8, <1>9, AskFree DEF RUp
  <1>11. RDown'
    BY <1>1, <1>2, <1>3, <1>4 DEF RDown, Passing
  <1>12. (RSession /\ RStreams /\ ICounts /\ Sorted(seen))'
    BY <1>1, <1>3, <1>7 DEF RInv, RSession, RStreams, ICounts, Sorted
  <1>13. (RPhase /\ RHeld)'
    BY <1>1, <1>3 DEF RPhase, RHeld
  <1>14. QED
    BY <1>10, <1>11, <1>12, <1>13 DEF RInv

LEMMA RStanza == RInv /\ OnStanza => RInv'
  <1> SUFFICES ASSUME RInv, OnStanza PROVE RInv'
    OBVIOUS
  <1>1. /\ s2c # <<>> /\ Head(s2c).type = "stanza" /\ s2c' = Tail(s2c)
        /\ seen' = Append(seen, Head(s2c).n)
        /\ UNCHANGED <<phase, c2s, stream, held, sent, processed, pushed, drops>>
    BY DEF OnStanza, Got
  <1>2. PICK y : y = Seen(stream.base, stream.out, session.handled, pushed)
    OBVIOUS
  <1>3. PICK b, o, h, n : b = stream.base /\ o = stream.out /\ h = session.handled /\ n = pushed
    OBVIOUS
  <1>4. /\ ~Asks(c2s) /\ stream.id # None /\ session.id # None /\ Tail(s2c) \in Seq(DownSet)
        /\ Flows(s2c, y, n) /\ phase = "online" /\ session.enabled
        /\ Down(b, o, h, n, seen) /\ y \in Int
    BY <1>1, <1>2, <1>3, RHead
  <1>5. /\ b \in Nat /\ h \in Nat /\ n \in Nat /\ n \in Int /\ o \in Seq(1 .. n) /\ seen \in Seq(1 .. n)
        /\ y = Seen(b, o, h, n) /\ s2c \in Seq(DownSet) /\ Sorted(seen)
    BY <1>2, <1>3, RFacts
  <1>6. Head(s2c).n = y + 1 /\ y + 1 <= n /\ Flows(Tail(s2c), y + 1, n)
    BY <1>1, <1>4, <1>5, FlowsTail
  <1>7. /\ Down(b, o, h + 1, n, Append(seen, y + 1)) /\ Seen(b, o, h + 1, n) = y + 1
        /\ y + 1 \in 1 .. n
    BY <1>4, <1>5, <1>6, DownSee
  <1>8. Append(seen, y + 1) \in Seq(1 .. n) /\ Sorted(Append(seen, y + 1))
    <2>1. \A i \in 1..Len(seen) : seen[i] \in 1 .. n /\ seen[i] <= y
      BY <1>4, <1>5, ElementOfSeq DEF Down
    <2>2. \A m \in 1 .. n : m <= y => m < y + 1
      BY <1>4, <1>5
    <2>3. \A i \in 1..Len(seen) : seen[i] < y + 1
      BY <2>1, <2>2
    <2>4. QED
      BY <1>5, <1>7, <2>3, SortedAppend, AppendAt
  <1>9. /\ session' \in SessionOf(sent) /\ session'.id = session.id /\ session'.enabled = session.enabled
        /\ session'.handled = h + 1
    <2>1. PICK r : r = h + 1
      OBVIOUS
    <2>2. session' = [session EXCEPT !.handled = session.handled + 1] /\ session \in SessionOf(sent)
      BY <1>4, RFacts DEF OnStanza, SessionOf
    <2>3. r \in Nat /\ session' = [session EXCEPT !.handled = r]
      BY <1>3, <1>5, <2>1, <2>2
    <2>4. QED
      BY <2>1, <2>2, <2>3 DEF SessionOf
  <1>10. seen' = Append(seen, y + 1)
    BY <1>1, <1>6
  <1>11. RUp'
    <2>1. AcksIn(c2s, b, h + 1)
      <3>1. AcksIn(c2s, b, h) /\ b \in Int /\ h \in Int /\ h + 1 \in Int /\ h <= h + 1
        BY <1>3, <1>5 DEF RInv, RUp
      <3>2. QED
        BY <3>1, AcksWiden
    <2>2. Asked(c2s, phase, session'.handled, session'.id)
      BY <1>4, AskFree
    <2>3. QED
      BY <1>1, <1>3, <1>4, <1>9, <2>1, <2>2 DEF RInv, RUp
  <1>12. RDown'
    BY <1>1, <1>3, <1>4, <1>6, <1>7, <1>9, <1>10 DEF RDown, Passing
  <1>13. (RSession /\ RStreams /\ ICounts /\ Sorted(seen))'
    <2>1. Sorted(seen)'
      BY <1>8, <1>10 DEF Sorted
    <2>2. (RSession /\ RStreams /\ ICounts)'
      BY <1>1, <1>3, <1>4, <1>8, <1>9, <1>10 DEF RInv, RSession, RStreams, ICounts
    <2>3. QED
      BY <2>1, <2>2
  <1>14. (RPhase /\ RHeld)'
    BY <1>1, <1>4 DEF RPhase, RHeld
  <1>15. QED
    BY <1>11, <1>12, <1>13, <1>14 DEF RInv

LEMMA RDrop == RInv /\ (Drop \/ Reload) => RInv'
  <1> SUFFICES ASSUME RInv, Drop \/ Reload PROVE RInv'
    OBVIOUS
  <1>1. /\ phase' = "down" /\ c2s' = <<>> /\ s2c' = <<>> /\ stream' = NewStream
        /\ held' = (IF stream.id # None THEN stream ELSE held) /\ drops' = drops + 1
        /\ UNCHANGED <<sent, processed, pushed, seen>>
        /\ session' = Reset(session) \/ session' = session
    BY DEF Drop, Reload, Disconnect
  <1>2. /\ session' \in SessionOf(sent) /\ (session'.enabled <=> session'.id # None)
        /\ session'.id = None => session'.handled = 0
        /\ session' = session \/ session'.id = None
    BY <1>1, RFacts, RReset DEF RInv, RSession
  <1>3. stream' \in StreamOf(pushed) /\ stream'.id = None /\ stream'.base = 0 /\ stream'.out = <<>>
    BY <1>1, EmptySeq DEF NewStream, StreamOf
  <1>4. (RSession /\ RStreams /\ ICounts /\ Sorted(seen))'
    <2>1. c2s' \in Seq(UpSet) /\ s2c' \in Seq(DownSet) /\ drops' \in Nat
      BY <1>1, EmptySeq, RFacts
    <2>2. held' = None \/ held' \in StreamOf(pushed)
      BY <1>1, RFacts DEF RInv, RStreams
    <2>3. QED
      BY <1>1, <1>2, <1>3, <2>1, <2>2 DEF RInv, RSession, RStreams, ICounts, Sorted
  <1>5. RUp'
    <2>1. ~Asks(<<>>) /\ stream'.base \in Int /\ session'.handled \in Int
      BY <1>2, <1>3, SessionRange DEF Asks
    <2>2. QED
      BY <1>1, <2>1, NoStanzas, AskFree DEF RUp
  <1>6. RHeld'
    <2>1. SUFFICES ASSUME session.id # None, session' = session, held' # None, held'.id = session.id
                   PROVE  Down(held'.base, held'.out, session.handled, pushed, seen)
      BY <1>1, <1>2 DEF RHeld
    <2>2. CASE stream.id # None
      BY <1>1, <2>2 DEF RInv, RDown
    <2>3. CASE stream.id = None
      BY <1>1, <2>1, <2>3 DEF RInv, RHeld
    <2>4. QED
      BY <2>2, <2>3
  <1>7. (RDown /\ RPhase)'
    BY <1>1, <1>3 DEF RDown, RPhase
  <1>8. QED
    BY <1>4, <1>5, <1>6, <1>7 DEF RInv

LEMMA OneReply ==
  ASSUME NEW x \in DownSet
  PROVE  <<x>> \in Seq(DownSet) /\ <<>> \o <<x>> = <<x>> /\ <<x>> # <<>> /\ Head(<<x>>) = x /\ Tail(<<x>>) = <<>>
  OBVIOUS

LEMMA RServeBind == RInv /\ ServeBind => RInv'
  <1> SUFFICES ASSUME RInv, ServeBind PROVE RInv'
    OBVIOUS
  <1>1. /\ c2s # <<>> /\ Head(c2s).type = "bind" /\ c2s' = Tail(c2s)
        /\ stream' = [stream EXCEPT !.bound = TRUE] /\ s2c' = s2c \o <<Packet("bound", 0)>>
        /\ UNCHANGED <<session, phase, held, sent, processed, pushed, seen, drops>>
    BY DEF ServeBind, Read, Reply
  <1>2. /\ phase = "binding" /\ stream.id = None /\ s2c = <<>> /\ ~Asks(c2s') /\ c2s' \in Seq(UpSet)
        /\ Within(c2s', "stanza", 1, sent) /\ Only(c2s', Requests \cup {"stanza"})
        /\ AcksIn(c2s', stream.base, session.handled)
    BY <1>1, RRead DEF Requests, Request
  <1>3. s2c' = <<Packet("bound", 0)>> /\ s2c' \in Seq(DownSet)
    <2>1. Packet("bound", 0) \in DownSet
      BY DEF Packet, DownSet
    <2>2. QED
      BY <1>1, <1>2, <2>1, OneReply
  <1>4. /\ stream' \in StreamOf(pushed) /\ stream'.id = stream.id /\ stream'.base = stream.base
        /\ stream'.out = stream.out
    BY <1>1, RFacts DEF StreamOf
  <1>5. (RSession /\ RStreams /\ ICounts /\ Sorted(seen))'
    BY <1>1, <1>2, <1>3, <1>4 DEF RInv, RSession, RStreams, ICounts, Sorted
  <1>6. RUp'
    BY <1>1, <1>2, <1>4, AskFree DEF RUp
  <1>7. (RDown /\ RPhase /\ RHeld)'
    BY <1>1, <1>2, <1>3, <1>4 DEF RInv, RDown, RPhase, RHeld
  <1>8. QED
    BY <1>5, <1>6, <1>7 DEF RInv

LEMMA RServeEnable == RInv /\ ServeEnable => RInv'
  <1> SUFFICES ASSUME RInv, ServeEnable PROVE RInv'
    OBVIOUS
  <1>1. /\ c2s # <<>> /\ Head(c2s).type = "enable" /\ c2s' = Tail(c2s)
        /\ UNCHANGED <<session, phase, held, sent, processed, pushed, seen, drops>>
    BY DEF ServeEnable, Read
  <1>2. /\ phase = "enabling" /\ stream.id = None /\ s2c = <<>> /\ ~Asks(c2s') /\ c2s' \in Seq(UpSet)
        /\ Within(c2s', "stanza", 1, sent) /\ Only(c2s', Requests \cup {"stanza"})
        /\ AcksIn(c2s', stream.base, session.handled)
    BY <1>1, RRead DEF Requests, Request
  <1>3. session.id = None /\ session.handled = 0 /\ stream.base = 0 /\ stream.out = <<>>
    BY <1>2 DEF RInv, RPhase, RSession, RStreams
  <1>4. CASE stream' = [stream EXCEPT !.id = drops] /\ Reply(<<Packet("enabled", drops)>>)
    <2>1. PICK x : x = Packet("enabled", drops)
      OBVIOUS
    <2>2. x \in DownSet /\ x.type = "enabled"
      BY <2>1, RFacts DEF Packet, DownSet
    <2>3. s2c' = <<x>> /\ s2c' \in Seq(DownSet) /\ s2c' # <<>> /\ Head(s2c') = x /\ Tail(s2c') = <<>>
      BY <1>2, <1>4, <2>1, <2>2, OneReply DEF Reply
    <2>4. /\ stream' \in StreamOf(pushed) /\ stream'.id # None /\ stream'.base = 0 /\ stream'.out = <<>>
      BY <1>3, <1>4, RFacts, SmacksAssumption DEF StreamOf
    <2>5. Down(0, <<>>, 0, pushed, seen) /\ Seen(0, <<>>, 0, pushed) = pushed
      <3>1. Len(<<>>) = 0 /\ pushed \in Nat /\ \A i \in 1..Len(seen) : seen[i] \in 1 .. pushed
        BY RFacts, ElementOfSeq
      <3>2. Seen(0, <<>>, 0, pushed) = pushed
        BY <3>1 DEF Seen
      <3>3. QED
        BY <3>1, <3>2, NoStanzas DEF Down
    <2>6. Flows(<<>>, pushed, pushed)
      BY NoStanzas, RFacts DEF Flows
    <2>7. RDown'
      BY <1>1, <1>2, <1>3, <2>2, <2>3, <2>4, <2>5, <2>6 DEF RDown, Passing
    <2>8. (RSession /\ RStreams /\ ICounts /\ Sorted(seen))'
      BY <1>1, <1>2, <2>3, <2>4 DEF RInv, RSession, RStreams, ICounts, Sorted
    <2>9. RUp'
      BY <1>1, <1>2, <1>3, <2>4, AskFree DEF RUp
    <2>10. (RPhase /\ RHeld)'
      BY <1>1, <1>2, <2>4 DEF RInv, RPhase, RHeld
    <2>11. QED
      BY <2>7, <2>8, <2>9, <2>10 DEF RInv
  <1>5. CASE UNCHANGED stream /\ Reply(<<Packet("failed", 0)>>)
    <2>1. s2c' = <<Packet("failed", 0)>> /\ s2c' \in Seq(DownSet)
      <3>1. Packet("failed", 0) \in DownSet
        BY DEF Packet, DownSet
      <3>2. QED
        BY <1>2, <1>5, <3>1, OneReply DEF Reply
    <2>2. (RSession /\ RStreams /\ ICounts /\ Sorted(seen))'
      BY <1>1, <1>2, <1>5, <2>1 DEF RInv, RSession, RStreams, ICounts, Sorted
    <2>3. RUp'
      BY <1>1, <1>2, <1>5, AskFree DEF RUp
    <2>4. (RDown /\ RPhase /\ RHeld)'
      BY <1>1, <1>2, <1>5, <2>1 DEF RInv, RDown, RPhase, RHeld
    <2>5. QED
      BY <2>2, <2>3, <2>4 DEF RInv
  <1>6. QED
    BY <1>4, <1>5 DEF ServeEnable

LEMMA RServeResume == RInv /\ ServeResume => RInv'
  <1> SUFFICES ASSUME RInv, ServeResume PROVE RInv'
    OBVIOUS
  <1>1. /\ c2s # <<>> /\ Head(c2s).type = "resume" /\ c2s' = Tail(c2s)
        /\ UNCHANGED <<session, phase, sent, processed, pushed, seen, drops>>
    BY DEF ServeResume, Read
  <1>2. /\ phase = "resuming" /\ stream.id = None /\ s2c = <<>> /\ ~Asks(c2s') /\ c2s' \in Seq(UpSet)
        /\ Within(c2s', "stanza", 1, sent) /\ Only(c2s', Requests \cup {"stanza"})
        /\ AcksIn(c2s', stream.base, session.handled)
        /\ Head(c2s).n = session.handled /\ Head(c2s).id = session.id
    BY <1>1, RRead DEF Requests, Request
  <1>3. session.id # None
    BY <1>2 DEF RInv, RPhase
  <1>4. CASE held # None /\ held.id = Head(c2s).id
    <2>1. PICK b, o, h, n, d, g : /\ b = held.base /\ o = held.out /\ h = session.handled /\ n = pushed
                                  /\ d = session.handled - held.base
                                  /\ g = From(held.out, session.handled - held.base)
      OBVIOUS
    <2>2. /\ held \in StreamOf(n) /\ b \in Nat /\ h \in Nat /\ n \in Nat /\ o \in Seq(1 .. n)
          /\ Down(b, o, h, n, seen) /\ held.in \in Nat /\ held.id = session.id
      <3>1. held \in StreamOf(pushed) /\ pushed \in Nat /\ session.handled \in Nat /\ held.id = session.id
        BY <1>2, <1>4, RFacts DEF RInv, RStreams
      <3>2. Down(held.base, held.out, session.handled, pushed, seen)
        BY <1>2, <1>3, <1>4, <3>1 DEF RInv, RHeld
      <3>3. QED
        BY <2>1, <3>1, <3>2, StreamRange
    <2>3. d \in Nat /\ b + d = h /\ b + d <= h /\ g = From(o, d)
      BY <2>1, <2>2 DEF Down
    <2>4. Down(h, g, h, n, seen) /\ g \in Seq(1 .. n) /\ g \in Seq(Nat) /\ Len(g) \in Nat
      <3>1. Down(b + d, From(o, d), h, n, seen) /\ From(o, d) \in Seq(1 .. n)
        BY <2>2, <2>3, DownAck
      <3>2. g \in Seq(1 .. n) /\ Down(h, g, h, n, seen)
        BY <2>3, <3>1
      <3>3. QED
        BY <2>2, <3>2, SeqNat, LenProperties
    <2>5. Seen(h, g, h, n) = n - Len(g) /\ Numbers(g, n) /\ n \in Int /\ n - Len(g) \in Int
      BY <2>2, <2>4 DEF Down, Seen
    <2>6. /\ stream' \in StreamOf(n) /\ stream'.base = h /\ stream'.out = g /\ stream'.id = held.id
      <3>1. stream' = [held EXCEPT !.base = h, !.out = g]
        BY <1>2, <1>4, <2>1 DEF ServeResume
      <3>2. QED
        BY <2>2, <2>4, <3>1 DEF StreamOf
    <2>7. PICK x, t : x = Packet("resumed", held.in) /\ t = Pushes(g)
      OBVIOUS
    <2>8. x \in DownSet /\ x.type = "resumed" /\ <<x>> \in Seq(DownSet)
      <3>1. x \in DownSet /\ x.type = "resumed"
        BY <2>2, <2>7 DEF Packet, DownSet
      <3>2. QED
        BY <3>1
    <2>9. t \in Seq(DownSet) /\ Flows(t, n - Len(g), n)
      <3>1. t \in Seq(DownSet) /\ Len(t) = Len(g) /\ \A i \in 1..Len(g) : t[i].type = "stanza" /\ t[i].n = g[i]
        BY <2>4, <2>7, PushesType
      <3>2. Only(t, {"stanza", "r", "a"})
        BY <3>1 DEF Only
      <3>3. Complete(t, n - Len(g), n)
        BY <2>4, <2>5, <3>1, CompleteFrom
      <3>4. QED
        BY <3>1, <3>2, <3>3 DEF Flows
    <2>10. s2c' \in Seq(DownSet) /\ s2c' # <<>> /\ Head(s2c') = x /\ Tail(s2c') = t
      <3>1. s2c' = <<>> \o (<<x>> \o t)
        BY <1>2, <1>4, <2>1, <2>7 DEF ServeResume, Reply
      <3>2. <<x>> \o t \in Seq(DownSet) /\ <<>> \o t = t
        BY <2>8, <2>9, ConcatAt, ConcatEmptySeq
      <3>3. s2c' = <<x>> \o t
        BY <3>1, <3>2, ConcatEmptySeq
      <3>4. <<x>> # <<>> /\ Head(<<x>>) = x /\ Tail(<<x>>) = <<>>
        BY Single
      <3>5. QED
        BY <2>8, <2>9, <3>2, <3>3, <3>4, TailConcat
    <2>11. RDown'
      BY <1>1, <1>2, <1>3, <2>1, <2>2, <2>4, <2>5, <2>6, <2>8, <2>9, <2>10 DEF RDown, Passing
    <2>12. held' = None
      BY <1>4 DEF ServeResume
    <2>13. (RSession /\ RStreams /\ ICounts /\ Sorted(seen))'
      BY <1>1, <1>2, <1>3, <2>1, <2>2, <2>6, <2>10, <2>12 DEF RInv, RSession, RStreams, ICounts, Sorted
    <2>14. RUp'
      <3>1. AcksIn(c2s', stream'.base, session.handled)
        <4>1. "a" \notin Requests \cup {"stanza"}
          BY DEF Requests
        <4>2. QED
          BY <1>2, <4>1, NoAcks
      <3>2. QED
        BY <1>1, <1>2, <1>3, <2>2, <2>6, <3>1, AskFree DEF RUp
    <2>15. (RPhase /\ RHeld)'
      BY <1>1, <1>2, <2>12 DEF RInv, RPhase, RHeld
    <2>16. QED
      BY <2>11, <2>13, <2>14, <2>15 DEF RInv
  <1>5. CASE ~(held # None /\ held.id = Head(c2s).id)
    <2>1. s2c' = <<Packet("failed", 0)>> /\ s2c' \in Seq(DownSet) /\ UNCHANGED <<stream, held>>
      <3>1. Packet("failed", 0) \in DownSet
        BY DEF Packet, DownSet
      <3>2. QED
        BY <1>2, <1>5, <3>1, OneReply DEF ServeResume, Reply
    <2>2. (RSession /\ RStreams /\ ICounts /\ Sorted(seen))'
      BY <1>1, <1>2, <2>1 DEF RInv, RSession, RStreams, ICounts, Sorted
    <2>3. RUp'
      BY <1>1, <1>2, <2>1, AskFree DEF RUp
    <2>4. (RDown /\ RPhase /\ RHeld)'
      BY <1>1, <1>2, <2>1 DEF RInv, RDown, RPhase, RHeld
    <2>5. QED
      BY <2>2, <2>3, <2>4 DEF RInv
  <1>6. QED
    BY <1>4, <1>5

LEMMA RServeStanza == RInv /\ ServeStanza => RInv'
  <1> SUFFICES ASSUME RInv, ServeStanza PROVE RInv'
    OBVIOUS
  <1>1. PICK in, m : in = (IF stream.id # None THEN stream.in + 1 ELSE stream.in) /\ m = Head(c2s).n
    OBVIOUS
  <1>2. /\ c2s # <<>> /\ Head(c2s).type = "stanza" /\ c2s' = Tail(c2s)
        /\ \/ processed' = Append(processed, m) /\ stream' = [stream EXCEPT !.in = in]
           \/ processed' = processed /\ stream' = stream
        /\ s2c' = s2c \/ (stream.id # None /\ s2c' = s2c \o <<Packet("a", in)>>)
        /\ UNCHANGED <<session, phase, held, sent, pushed, seen, drops>>
    <2>1. \/ processed' = Append(processed, Head(c2s).n) /\ stream' = [stream EXCEPT !.in = in]
          \/ UNCHANGED <<processed, stream>>
      BY <1>1 DEF ServeStanza
    <2>2. (stream.id # None /\ Reply(<<Packet("a", in)>>)) \/ UNCHANGED s2c
      BY <1>1 DEF ServeStanza
    <2>3. /\ c2s # <<>> /\ Head(c2s).type = "stanza" /\ c2s' = Tail(c2s)
          /\ UNCHANGED <<session, phase, held, sent, pushed, seen, drops>>
      BY DEF ServeStanza, Read
    <2>4. s2c' = s2c \/ (stream.id # None /\ s2c' = s2c \o <<Packet("a", in)>>)
      BY <2>2 DEF Reply
    <2>5. QED
      BY <1>1, <2>1, <2>3, <2>4
  <1>3. /\ c2s' \in Seq(UpSet) /\ Within(c2s', "stanza", 1, sent) /\ m \in 1 .. sent
        /\ Asked(c2s', phase, session.handled, session.id) /\ (Asks(c2s') => Asks(c2s))
        /\ AcksIn(c2s', stream.base, session.handled)
        /\ stream.id = None => Only(c2s', Requests \cup {"stanza"})
    BY <1>1, <1>2, RRead
  <1>4. in \in Nat /\ stream \in StreamOf(pushed)
    <2>1. stream.in \in Nat /\ stream \in StreamOf(pushed)
      BY RFacts, StreamRange
    <2>2. QED
      BY <1>1, <2>1
  <1>5. /\ stream' \in StreamOf(pushed) /\ stream'.id = stream.id /\ stream'.base = stream.base
        /\ stream'.out = stream.out
    BY <1>2, <1>4 DEF StreamOf
  <1>6. processed' \in Seq(1 .. sent)
    <2>1. processed \in Seq(1 .. sent)
      BY RFacts
    <2>2. Append(processed, m) \in Seq(1 .. sent)
      BY <1>3, <2>1, AppendAt
    <2>3. QED
      BY <1>2, <2>1, <2>2
  <1>7. PICK x : x = Packet("a", in)
    OBVIOUS
  <1>8. x \in DownSet /\ x.type = "a" /\ <<x>> \in Seq(DownSet)
    <2>1. x \in DownSet /\ x.type = "a"
      BY <1>4, <1>7 DEF Packet, DownSet
    <2>2. QED
      BY <2>1
  <1>9. s2c' \in Seq(DownSet)
    <2>1. s2c \in Seq(DownSet)
      BY RFacts
    <2>2. s2c \o <<x>> \in Seq(DownSet)
      BY <1>8, <2>1, ConcatAt
    <2>3. QED
      BY <1>2, <1>7, <2>1, <2>2
  <1>10. RDown'
    <2>1. CASE s2c' = s2c
      BY <1>2, <1>5, <2>1 DEF RInv, RDown
    <2>2. CASE stream.id # None /\ s2c' = s2c \o <<x>>
      <3>1. PICK y, n : y = Seen(stream.base, stream.out, session.handled, pushed) /\ n = pushed
        OBVIOUS
      <3>2. /\ Down(stream.base, stream.out, session.handled, pushed, seen)
            /\ Passing(phase, session.id, s2c, y, n)
        BY <2>2, <3>1 DEF RInv, RDown
      <3>3. y \in 0 .. n /\ n \in Nat /\ s2c \in Seq(DownSet)
        BY <3>1, <3>2, RFacts, SeenRange
      <3>4. y \in Int /\ n \in Int /\ y <= n /\ n <= n
        BY <3>3
      <3>5. Flows(<<x>>, n, n)
        BY <1>4, <1>7, <1>8, <3>4, OnePacket, OneAsked DEF Flows
      <3>6. Passing(phase, session.id, s2c \o <<x>>, y, n)
        BY <1>8, <3>2, <3>3, <3>4, <3>5, FlowsConcat
      <3>7. QED
        BY <1>2, <1>5, <2>2, <3>1, <3>2, <3>6 DEF RDown
    <2>3. QED
      BY <1>2, <1>7, <2>1, <2>2
  <1>11. RUp'
    <2>1. Asks(c2s') => stream.id = None /\ s2c' = <<>>
      BY <1>2, <1>3 DEF RInv, RUp
    <2>2. QED
      BY <1>2, <1>3, <1>5, <2>1 DEF RUp
  <1>12. (RSession /\ RStreams /\ ICounts /\ Sorted(seen))'
    BY <1>2, <1>3, <1>5, <1>6, <1>9 DEF RInv, RSession, RStreams, ICounts, Sorted
  <1>13. (RPhase /\ RHeld)'
    <2>1. phase # "down"
      BY <1>2, RRead
    <2>2. QED
      BY <1>2, <1>5, <2>1 DEF RInv, RPhase, RHeld
  <1>14. QED
    BY <1>10, <1>11, <1>12, <1>13 DEF RInv

LEMMA RServeAck == RInv /\ ServeAck => RInv'
  <1> SUFFICES ASSUME RInv, ServeAck PROVE RInv'
    OBVIOUS
  <1>1. /\ c2s # <<>> /\ Head(c2s).type = "a" /\ c2s' = Tail(c2s)
        /\ UNCHANGED <<session, phase, s2c, held, sent, processed, pushed, seen, drops>>
    BY DEF ServeAck, Read
  <1>2. PICK b, o, h, n, d, g, c : /\ b = stream.base /\ o = stream.out /\ h = session.handled /\ n = pushed
                                   /\ c = Head(c2s).n /\ d = Head(c2s).n - stream.base
                                   /\ g = From(stream.out, Head(c2s).n - stream.base)
    OBVIOUS
  <1>3. /\ c2s' \in Seq(UpSet) /\ Within(c2s', "stanza", 1, sent)
        /\ Asked(c2s', phase, h, session.id) /\ (Asks(c2s') => Asks(c2s))
        /\ stream.id # None /\ c \in b .. h /\ AcksIn(c2s', c, h) /\ phase # "down"
    BY <1>1, <1>2, RRead
  <1>4. /\ b \in Nat /\ h \in Nat /\ n \in Nat /\ o \in Seq(1 .. n) /\ Down(b, o, h, n, seen)
        /\ stream \in StreamOf(n) /\ Passing(phase, session.id, s2c, Seen(b, o, h, n), n)
    BY <1>2, <1>3, RFacts DEF RInv, RDown
  <1>5. d \in Nat /\ b + d = c /\ b + d <= h /\ g = From(o, d) /\ c \in Nat
    BY <1>2, <1>3, <1>4
  <1>6. Down(c, g, h, n, seen) /\ Seen(c, g, h, n) = Seen(b, o, h, n) /\ g \in Seq(1 .. n)
    <2>1. /\ Down(b + d, From(o, d), h, n, seen)
          /\ Seen(b + d, From(o, d), h, n) = Seen(b, o, h, n)
          /\ From(o, d) \in Seq(1 .. n)
      BY <1>4, <1>5, DownAck
    <2>2. QED
      BY <1>5, <2>1
  <1>7. /\ stream' \in StreamOf(n) /\ stream'.base = c /\ stream'.out = g /\ stream'.id = stream.id
    <2>1. stream' = [stream EXCEPT !.base = c, !.out = g]
      <3>1. stream' = [stream EXCEPT !.base = Head(c2s).n,
                                     !.out = From(stream.out, Head(c2s).n - stream.base)]
        BY <1>4 DEF ServeAck, StreamOf
      <3>2. QED
        BY <1>2, <3>1
    <2>2. QED
      BY <1>4, <1>5, <1>6, <2>1 DEF StreamOf
  <1>8. (RSession /\ RStreams /\ ICounts /\ Sorted(seen))'
    BY <1>1, <1>2, <1>3, <1>7 DEF RInv, RSession, RStreams, ICounts, Sorted
  <1>9. RUp'
    BY <1>1, <1>2, <1>3, <1>7 DEF RInv, RUp
  <1>10. RDown'
    BY <1>1, <1>2, <1>3, <1>4, <1>6, <1>7 DEF RDown
  <1>11. (RPhase /\ RHeld)'
    BY <1>1, <1>3, <1>7 DEF RInv, RPhase, RHeld
  <1>12. QED
    BY <1>8, <1>9, <1>10, <1>11 DEF RInv

LEMMA RPush == RInv /\ Push => RInv'
  <1> SUFFICES ASSUME RInv, Push PROVE RInv'
    OBVIOUS
  <1>1. PICK b, o, h, n, y, g, m : /\ b = stream.base /\ o = stream.out /\ h = session.handled /\ n = pushed
                                   /\ y = Seen(stream.base, stream.out, session.handled, pushed)
                                   /\ g = Append(stream.out, pushed + 1) /\ m = pushed + 1
    OBVIOUS
  <1>2. PICK t : t = <<Packet("stanza", n + 1), Packet("r", 0)>>
    OBVIOUS
  <1>3. /\ stream.id # None /\ pushed' = m /\ s2c' = s2c \o t
        /\ UNCHANGED <<session, phase, c2s, held, sent, processed, seen, drops>>
    BY <1>1, <1>2 DEF Push, Reply
  <1>4. /\ b \in Nat /\ h \in Nat /\ n \in Nat /\ o \in Seq(1 .. n) /\ Down(b, o, h, n, seen)
        /\ stream \in StreamOf(n) /\ s2c \in Seq(DownSet)
        /\ y = Seen(b, o, h, n) /\ g = Append(o, n + 1) /\ m = n + 1
        /\ Passing(phase, session.id, s2c, y, n)
    BY <1>1, <1>3, RFacts DEF RInv, RDown
  <1>5. Down(b, g, h, m, seen) /\ Seen(b, g, h, m) = y /\ g \in Seq(1 .. m)
    <2>1. /\ Down(b, Append(o, n + 1), h, n + 1, seen)
          /\ Seen(b, Append(o, n + 1), h, n + 1) = Seen(b, o, h, n)
          /\ Append(o, n + 1) \in Seq(1 .. n + 1)
      BY <1>4, DownPush
    <2>2. QED
      BY <1>4, <2>1
  <1>6. y \in Int /\ y <= n /\ n \in Int /\ m \in Int /\ m \in Nat /\ n <= m
    <2>1. y \in 0 .. n
      BY <1>4, SeenRange
    <2>2. QED
      BY <1>4, <2>1
  <1>7. /\ stream' \in StreamOf(m) /\ stream'.base = b /\ stream'.out = g /\ stream'.id = stream.id
    <2>1. stream' = [stream EXCEPT !.out = g]
      <3>1. stream' = [stream EXCEPT !.out = Append(stream.out, pushed + 1)]
        BY <1>4 DEF Push, StreamOf
      <3>2. QED
        BY <1>1, <3>1
    <2>2. /\ stream.bound \in BOOLEAN /\ stream.id \in Nat \cup {None} /\ stream.in \in Nat
          /\ stream.base \in Nat
      BY <1>4 DEF StreamOf
    <2>3. stream' = [bound |-> stream.bound, id |-> stream.id, in |-> stream.in,
                     base |-> stream.base, out |-> g]
      BY <1>4, <2>1 DEF StreamOf
    <2>4. stream' \in StreamOf(m)
      BY <1>5, <2>2, <2>3 DEF StreamOf
    <2>5. QED
      BY <1>1, <2>3, <2>4
  <1>8. t \in Seq(DownSet) /\ Flows(t, n, m)
    <2>1. /\ t \in Seq(DownSet) /\ Len(t) = 2 /\ t[1] = Packet("stanza", n + 1) /\ t[2] = Packet("r", 0)
      <3>1. Packet("stanza", n + 1) \in DownSet /\ Packet("r", 0) \in DownSet
        BY <1>4 DEF Packet, DownSet
      <3>2. QED
        BY <1>2, <3>1
    <2>2. /\ t[1].type = "stanza" /\ t[1].n = m /\ t[2].type = "r"
          /\ \A i \in 1..Len(t) : i = 1 \/ i = 2
          /\ 1 \in 1..Len(t)
      BY <1>4, <2>1 DEF Packet
    <2>3. \A k \in n + 1 .. m : k = m
      BY <1>4, <1>6
    <2>4. m \in n + 1 .. m
      BY <1>4, <1>6
    <2>5. Complete(t, n, m)
      BY <2>2, <2>3, <2>4 DEF Complete, Within, Rising, Covers
    <2>6. QED
      BY <2>1, <2>2, <2>5 DEF Flows, Only
  <1>9. s2c' \in Seq(DownSet) /\ Passing(phase, session.id, s2c', y, m)
    BY <1>3, <1>4, <1>6, <1>8, FlowsConcat, ConcatAt
  <1>10. RDown'
    BY <1>1, <1>3, <1>5, <1>7, <1>9 DEF RDown
  <1>11. (RSession /\ RStreams /\ ICounts /\ Sorted(seen))'
    <2>1. held = None \/ held \in StreamOf(m)
      <3>1. SUFFICES ASSUME held \in StreamOf(n) PROVE held \in StreamOf(m)
        BY <1>1 DEF RInv, RStreams
      <3>2. held.out \in Seq(1 .. m)
        BY <1>4, <1>6, <3>1, StreamRange, SeqWider
      <3>3. QED
        BY <3>1, <3>2 DEF StreamOf
    <2>2. seen \in Seq(1 .. m)
      <3>1. seen \in Seq(1 .. n)
        BY <1>1, RFacts
      <3>2. QED
        BY <1>4, <1>6, <3>1, SeqWider
    <2>3. QED
      BY <1>3, <1>6, <1>7, <1>9, <2>1, <2>2 DEF RInv, RSession, RStreams, ICounts, Sorted
  <1>12. RUp'
    BY <1>1, <1>3, <1>7 DEF RInv, RUp
  <1>13. (RPhase /\ RHeld)'
    BY <1>3, <1>7 DEF RInv, RPhase, RHeld
  <1>14. QED
    BY <1>10, <1>11, <1>12, <1>13 DEF RInv

LEMMA RNext == RInv /\ [Next]_vars => RInv'
  BY RSend, RConnect, RBound, REnabled, RFailed, RResumed, RAck, RRequest, RStanza, RDrop, RServeBind,
     RServeEnable, RServeResume, RServeStanza, RServeAck, RPush, RForget, RSame
  DEF Next, Client, Server

LEMMA RAlways == Spec => []RInv
  BY RInit, RNext, PTL DEF Spec

-----------------------------------------------------------------------------
(* The theorems.                                                           *)

\* The counters and lists of stream management keep their types, and an
\* enabled session has an id to be resumed by (initSessionData, saveSessionData).
THEOREM TypeCorrect == Spec => []TypeOK
  <1>1. RInv => TypeOK
    BY DEF RInv, RSession, ICounts, SessionOf, TypeOK
  <1>2. QED
    BY <1>1, RAlways, PTL

\* The count in <resume/> and <a/> makes the server send again exactly what the
\* client has not handled: it sees each stanza once and in order, over drops,
\* resumptions, reloads and early stanzas (stanzaHandler, sendAck).
THEOREM SeesOnce == Spec => []SeenOnce
  <1>1. RInv => SeenOnce
    <2> SUFFICES ASSUME RInv PROVE SeenOnce
      OBVIOUS
    <2>1. DOMAIN seen = 1..Len(seen)
      BY RFacts, LenProperties
    <2>2. QED
      BY <2>1 DEF RInv, Sorted, SeenOnce
  <1>2. QED
    BY <1>1, RAlways, PTL

\* A stanza that resendUnackedStanzas sends again was not handled before: the
\* server handles each at most once and in the order in which it was sent,
\* until a stanza is sent before the answer to a resume or an enable.
THEOREM HandlesOnce == Spec => []HandledOnce
  <1>1. ISent => HandledOnce
    <2> SUFFICES ASSUME IInv PROVE HandledOnce
      BY DEF ISent, HandledOnce
    <2>1. DOMAIN processed = 1..Len(processed)
      BY Facts, LenProperties
    <2>2. QED
      BY <2>1 DEF IInv, IOnce, Sorted, HandledOnce
  <1>2. QED
    BY <1>1, SentAlways, PTL

\* handleAck never meets the two counts it logs as errors, until a stanza is
\* sent before the answer to a resume or an enable: an acknowledgement lies
\* between the last one and what the client has sent.
THEOREM AcksCount == Spec => []AcksAddUp
  <1>1. ISent => AcksAddUp
    <2> SUFFICES ASSUME IInv, AckComes
                 PROVE  session.acked <= Count /\ Count <= session.acked + Len(session.unacked)
      BY DEF ISent, AcksAddUp
    <2>0. s2c # <<>> /\ Head(s2c).type \in {"a", "resumed"} /\ Count = Head(s2c).n
      BY DEF AckComes, Count
    <2>1. /\ session.acked \in Nat /\ stream.in \in Nat /\ s2c \in Seq(DownSet)
          /\ Len(session.unacked) \in Nat
      BY Facts, SessionRange, StreamRange, LenProperties
    <2>2. CASE Head(s2c).type = "a"
      <3>1. Managed
        BY <2>0, <2>2, DownPacket
      <3>2. Head(s2c).n \in session.acked .. stream.in
        BY <2>0, <2>1, <2>2, <3>1, AcksTail DEF Managed
      <3>3. QED
        BY <2>0, <2>1, <3>1, <3>2 DEF Managed, Linked, Up
    <2>3. CASE Head(s2c).type = "resumed"
      <3>1. Opening("resumed", stream.in)
        BY <2>0, <2>3, DownPacket
      <3>2. Head(s2c).n = stream.in /\ Linked(stream)
        BY <3>1 DEF Opening, Packet
      <3>3. QED
        BY <2>0, <2>1, <3>2 DEF Linked, Up
    <2>4. QED
      BY <2>0, <2>2, <2>3
  <1>2. QED
    BY <1>1, SentAlways, PTL

\* Whatever the client stops keeping, on an acknowledgement or on a resume,
\* the server has handled, unless the stream is given up (handleAck,
\* onResumedStanza) or a stanza was sent before the answer to a resume or an enable.
THEOREM AcksTrue == Spec => AckedWereHandled
  <1>1. ASSUME IInv, Next, NEW i \in DOMAIN session.unacked, session'.enabled
        PROVE  session.unacked[i] \in Range(session'.unacked) \cup Range(processed)
    <2>1. CASE session'.unacked = session.unacked
      BY <2>1 DEF Range
    <2>2. CASE Cuts
      <3>1. PICK d \in Nat : /\ session.acked + d <= stream.in /\ Linked(stream)
                             /\ session'.unacked = From(session.unacked, d)
        BY <2>2 DEF Cuts
      <3>2. PICK a, in, n, u : a = session.acked /\ in = stream.in /\ n = sent /\ u = session.unacked
        OBVIOUS
      <3>3. /\ a \in Nat /\ in \in Nat /\ n \in Nat /\ u \in Seq(1 .. n) /\ processed \in Seq(1 .. n)
            /\ Numbers(u, n) /\ Up(a, u, in, n, processed) /\ a + d <= in /\ i \in DOMAIN u
        BY <1>1, <3>1, <3>2, Facts, SessionRange, StreamRange DEF Linked, SessionOK
      <3>4. u[i] \in Range(From(u, d)) \cup Range(processed)
        BY <3>3, Covered
      <3>5. QED
        BY <3>1, <3>2, <3>4
    <2>3. CASE Send
      <3>1. session' = session \/ session'.unacked = session.unacked \o <<sent + 1>>
        BY <2>3, <1>1, Facts DEF Send, Sends, SessionOf
      <3>2. CASE session'.unacked = session.unacked \o <<sent + 1>>
        <4>1. PICK n, u : n = sent /\ u = session.unacked
          OBVIOUS
        <4>2. n \in Nat /\ n \in Int /\ u \in Seq(1 .. n) /\ Numbers(u, n)
          BY <1>1, <4>1, Facts, SessionRange DEF SessionOK
        <4>3. u \in Seq(1 .. n + 1) /\ n + 1 \in 1 .. n + 1
          BY <4>2, SeqWider
        <4>4. /\ u \o <<n + 1>> \in Seq(1 .. n + 1) /\ Len(u \o <<n + 1>>) = Len(u) + 1
              /\ \A k \in 1..Len(u) : (u \o <<n + 1>>)[k] = u[k]
          BY <4>2, <4>3, NumbersAppend
        <4>5. Len(u) \in Nat /\ DOMAIN u = 1..Len(u) /\ DOMAIN (u \o <<n + 1>>) = 1..Len(u) + 1
          BY <4>3, <4>4, LenProperties
        <4>6. i \in 1..Len(u) /\ i \in DOMAIN (u \o <<n + 1>>)
          BY <1>1, <4>1, <4>5
        <4>7. u[i] \in Range(u \o <<n + 1>>)
          BY <4>4, <4>6 DEF Range
        <4>8. QED
          BY <3>2, <4>1, <4>7
      <3>3. QED
        BY <2>1, <3>1, <3>2
    <2>4. CASE Connect \/ OnFailed \/ Drop \/ Reload
      <3>1. session' = session \/ session' = Reset(session)
        BY <2>4 DEF Connect, OnFailed, Drop, Reload, Disconnect
      <3>2. ~Reset(session).enabled
        BY <1>1, Facts DEF Reset, SessionOf
      <3>3. QED
        BY <1>1, <2>1, <3>1, <3>2
    <2>5. CASE OnAck \/ OnResumed
      BY <1>1, <2>2, <2>5, InvAck, InvResumed
    <2>6. CASE OnEnabled \/ OnStanza
      <3>1. session'.unacked = session.unacked
        BY <1>1, <2>6, Facts DEF OnEnabled, OnStanza, SessionOf
      <3>2. QED
        BY <2>1, <3>1
    <2>7. CASE OnBound \/ OnRequest \/ Server \/ Push \/ Forget
      <3>1. session' = session
        BY <2>7 DEF OnBound, OnRequest, Server, ServeBind, ServeEnable, ServeResume, ServeStanza,
                    ServeAck, Push, Forget
      <3>2. QED
        BY <2>1, <3>1
    <2>8. QED
      BY <1>1, <2>3, <2>4, <2>5, <2>6, <2>7 DEF Next, Client
  <1>2. ISent /\ [Next]_vars =>
          [~early => \A i \in DOMAIN session.unacked :
             LET n == session.unacked[i]
             IN  n \in Range(session'.unacked) \cup Range(processed) \/ ~session'.enabled]_vars
    BY <1>1 DEF ISent
  <1>3. QED
    BY <1>2, SentAlways, PTL DEF Spec, AckedWereHandled
=============================================================================
