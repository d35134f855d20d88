---------------------------- MODULE MucRoomProofs ----------------------------
(* Theorems about MucRoom for any number of joins, stanzas and drops.        *)
EXTENDS MucRoom, TLAPS

Has(q, s) == \E i \in 1..Len(q) : q[i] = s

\* Each of the stanzas A in q is followed by one of B.
Followed(q, A, B) ==
    \A i \in 1..Len(q) : q[i] \in A => \E j \in 1..Len(q) : j > i /\ q[j] \in B

\* At most one stanza of q is of A; none is.
Single(q, A) == \A i, j \in 1..Len(q) : q[i] \in A /\ q[j] \in A => i = j
Free(q, A)   == \A i \in 1..Len(q) : q[i] \notin A

\* What ends a session whose client believes to be inside.
Ends == {"kicked", "banned", "conflict", "cancel"}

\* The client will believe to be inside when it has handled the first n of q.
Entering(st, q, n) ==
    \/ \E i \in 1..n : q[i] = "self" /\ \A j \in i + 1 .. n : q[j] \notin Ends
    \/ st = "ENTERED" /\ \A j \in 1..n : q[j] \notin Ends

\* It will ignore an error that does not end the session of an entered room.
Mild == {"modify", "other"}
Ignores(st, q) == \E k \in 1..Len(q) : q[k] \in Mild /\ Entering(st, q, k - 1)

Pongs == {"pong", "no pong"}

-----------------------------------------------------------------------------
\* Who believes to be inside is connected; so a ping never waits.
IType ==
    /\ TypeOK
    /\ status # "CLOSING" /\ probe # "waits"
    /\ status = "ENTERED" => up

\* A box that is closed has its leave behind every presence.
IClosed ==
    box # "open" /\ ~astray =>
        /\ Followed(toServer, {"join", "nick"}, {"leave"})
        /\ inside => Has(toServer, "leave")

\* An occupant's own presence is behind whatever ended a session.
IReturned == inside /\ ~refused => Followed(toClient, Errors \cup {"kicked", "banned"}, {"self"})

\* A client that is outside and has its occupant inside, will hear of it.
IOutside ==
    box = "open" /\ up /\ inside /\ ~refused /\ status # "ENTERED" =>
        joins > 0 \/ Has(toServer, "join") \/ Has(toClient, "self")

\* One ping at a time is asked or answered.
IPing ==
    /\ Single(toServer, {"ping"}) /\ Single(toClient, Pongs)
    /\ Free(toServer, {"ping"}) \/ Free(toClient, Pongs)

\* What brings the client back into the room.
Rejoining == IF probe = "asked" THEN {"join", "ping"} ELSE {"join"}

\* Behind a leave that an earlier box sent, there is a join or a ping.
ILeft == box = "open" /\ up => joins > 0 \/ Followed(toServer, {"leave"}, Rejoining)

\* A client that will believe to be inside, and is not, joins or finds out.
Recovers ==
    \/ joins > 0 \/ Has(toServer, "join")
    \/ probe = "asked" /\ (Has(toServer, "ping") \/ Has(toClient, "no pong"))
    \/ Ignores(status, toClient)

IEntered ==
    box = "open" /\ up /\ ~unseen /\ ~inside /\ Entering(status, toClient, Len(toClient)) => Recovers

IInv == IType /\ IClosed /\ IReturned /\ IOutside /\ IPing /\ ILeft /\ IEntered
-----------------------------------------------------------------------------
(* Queues: a stanza more at the end, one less at the head.                   *)

LEMMA AppendFacts ==
  ASSUME NEW X, NEW q \in Seq(X), NEW s \in X
  PROVE  /\ Append(q, s) \in Seq(X) /\ Len(q) \in Nat
         /\ Len(Append(q, s)) = Len(q) + 1
         /\ \A i \in 1..Len(q) : Append(q, s)[i] = q[i]
         /\ Append(q, s)[Len(q) + 1] = s
  OBVIOUS

LEMMA TailFacts ==
  ASSUME NEW X, NEW q \in Seq(X), q # <<>>
  PROVE  /\ Tail(q) \in Seq(X) /\ Len(q) \in Nat \ {0}
         /\ Len(Tail(q)) = Len(q) - 1
         /\ \A i \in 1..Len(q) - 1 : Tail(q)[i] = q[i + 1]
         /\ Head(q) = q[1] /\ Head(q) \in X
  OBVIOUS

LEMMA OutdatedFacts ==
  ASSUME NEW X, NEW q \in Seq(X), "stale" \in X
  PROVE  /\ Outdated(q) \in Seq(X) /\ Len(q) \in Nat
         /\ Len(Outdated(q)) = Len(q)
         /\ \A i \in 1..Len(q) : Outdated(q)[i] = IF q[i] \in {"ping", "pong", "no pong"}
                                                 THEN "stale" ELSE q[i]
  <1>1. Len(q) \in Nat /\ \A i \in 1..Len(q) : q[i] \in X
    OBVIOUS
  <1>2. Outdated(q) \in [1..Len(q) -> X]
    BY <1>1 DEF Outdated
  <1>3. Outdated(q) \in Seq(X) /\ Len(Outdated(q)) = Len(q)
    BY <1>1, <1>2
  <1>4. QED
    BY <1>1, <1>3 DEF Outdated

LEMMA HasAppend ==
  ASSUME NEW X, NEW q \in Seq(X), NEW t \in X
  PROVE  /\ Has(Append(q, t), t)
         /\ \A s : Has(q, s) => Has(Append(q, t), s)
         /\ \A s : Has(Append(q, t), s) => s = t \/ Has(q, s)
  BY AppendFacts DEF Has

LEMMA HasTail ==
  ASSUME NEW X, NEW q \in Seq(X), q # <<>>
  PROVE  /\ \A s : Has(q, s) => s = Head(q) \/ Has(Tail(q), s)
         /\ \A s : Has(Tail(q), s) => Has(q, s)
  <1> USE DEF Has
  <1>1. ASSUME NEW s, Has(q, s), s # Head(q) PROVE Has(Tail(q), s)
    <2>1. PICK i \in 1..Len(q) : q[i] = s
      BY <1>1
    <2>2. i # 1 /\ i - 1 \in 1..Len(q) - 1 /\ i - 1 + 1 = i
      BY <1>1, <2>1, TailFacts
    <2>3. QED
      BY <2>1, <2>2, TailFacts
  <1>2. ASSUME NEW s, Has(Tail(q), s) PROVE Has(q, s)
    <2>1. PICK i \in 1..Len(q) - 1 : Tail(q)[i] = s
      BY <1>2, TailFacts
    <2>2. i + 1 \in 1..Len(q)
      BY TailFacts
    <2>3. QED
      BY <2>1, <2>2, TailFacts
  <1>3. QED
    BY <1>1, <1>2

LEMMA FollowedAppend ==
  ASSUME NEW X, NEW q \in Seq(X), NEW t \in X, NEW A, NEW B
  PROVE  /\ Followed(q, A, B) /\ t \notin A => Followed(Append(q, t), A, B)
         /\ t \in B /\ t \notin A => Followed(Append(q, t), A, B)
  <1>1. /\ Len(q) \in Nat /\ Len(Append(q, t)) = Len(q) + 1
        /\ \A i \in 1..Len(q) : Append(q, t)[i] = q[i]
        /\ Append(q, t)[Len(q) + 1] = t
    BY AppendFacts
  <1>2. ASSUME Followed(q, A, B), t \notin A PROVE Followed(Append(q, t), A, B)
    <2> SUFFICES ASSUME NEW i \in 1..Len(q) + 1, Append(q, t)[i] \in A
                 PROVE  \E j \in 1..Len(q) + 1 : j > i /\ Append(q, t)[j] \in B
      BY <1>1 DEF Followed
    <2>1. i \in 1..Len(q) /\ q[i] \in A
      BY <1>1, <1>2
    <2>2. PICK j \in 1..Len(q) : j > i /\ q[j] \in B
      BY <1>2, <2>1 DEF Followed
    <2>3. QED
      BY <1>1, <2>2
  <1>3. ASSUME t \in B, t \notin A PROVE Followed(Append(q, t), A, B)
    <2> SUFFICES ASSUME NEW i \in 1..Len(q) + 1, Append(q, t)[i] \in A
                 PROVE  \E j \in 1..Len(q) + 1 : j > i /\ Append(q, t)[j] \in B
      BY <1>1 DEF Followed
    <2>1. i # Len(q) + 1
      BY <1>1, <1>3
    <2>2. QED
      BY <1>1, <1>3, <2>1
  <1>4. QED
    BY <1>2, <1>3

LEMMA FollowedTail ==
  ASSUME NEW X, NEW q \in Seq(X), q # <<>>, NEW A, NEW B, Followed(q, A, B)
  PROVE  /\ Followed(Tail(q), A, B)
         /\ Head(q) \in A => \E b \in B : Has(Tail(q), b)
  <1>1. /\ Len(q) \in Nat \ {0} /\ Len(Tail(q)) = Len(q) - 1
        /\ \A i \in 1..Len(q) - 1 : Tail(q)[i] = q[i + 1]
        /\ Head(q) = q[1]
    BY TailFacts
  <1>2. ASSUME NEW i \in 1..Len(q), q[i] \in A
        PROVE  \E j \in 1..Len(q) - 1 : j > i - 1 /\ Tail(q)[j] \in B
    <2>1. PICK j \in 1..Len(q) : j > i /\ q[j] \in B
      BY <1>2 DEF Followed
    <2>2. j - 1 \in 1..Len(q) - 1 /\ j - 1 > i - 1 /\ j - 1 + 1 = j
      BY <1>1, <2>1
    <2>3. QED
      BY <1>1, <2>1, <2>2
  <1>3. Followed(Tail(q), A, B)
    <2> SUFFICES ASSUME NEW i \in 1..Len(q) - 1, Tail(q)[i] \in A
                 PROVE  \E j \in 1..Len(q) - 1 : j > i /\ Tail(q)[j] \in B
      BY <1>1 DEF Followed
    <2>1. i + 1 \in 1..Len(q) /\ q[i + 1] \in A /\ i + 1 - 1 = i
      BY <1>1
    <2>2. QED
      BY <1>2, <2>1
  <1>4. ASSUME Head(q) \in A PROVE \E b \in B : Has(Tail(q), b)
    <2>1. 1 \in 1..Len(q) /\ q[1] \in A
      BY <1>1, <1>4
    <2>2. PICK j \in 1..Len(q) - 1 : Tail(q)[j] \in B
      BY <1>2, <2>1
    <2>3. QED
      BY <1>1, <2>2 DEF Has
  <1>5. QED
    BY <1>3, <1>4

LEMMA FollowedHead ==
  ASSUME NEW X, NEW q \in Seq(X), q # <<>>, NEW A, NEW b, Followed(q, A, {b}), Head(q) \in A
  PROVE  Has(Tail(q), b)
  <1>1. \E c \in {b} : Has(Tail(q), c)
    BY FollowedTail
  <1>2. QED
    BY <1>1

LEMMA SingleAppend ==
  ASSUME NEW X, NEW q \in Seq(X), NEW t \in X, NEW A
  PROVE  /\ t \notin A /\ Single(q, A) => Single(Append(q, t), A)
         /\ t \notin A /\ Free(q, A) => Free(Append(q, t), A)
         /\ Free(q, A) => Single(Append(q, t), A)
  BY AppendFacts DEF Single, Free

LEMMA SingleTail ==
  ASSUME NEW X, NEW q \in Seq(X), q # <<>>, NEW A
  PROVE  /\ Single(q, A) => Single(Tail(q), A)
         /\ Free(q, A) => Free(Tail(q), A) /\ Head(q) \notin A
         /\ Single(q, A) /\ Head(q) \in A => Free(Tail(q), A)
  <1>1. /\ Len(q) \in Nat \ {0} /\ Len(Tail(q)) = Len(q) - 1
        /\ \A i \in 1..Len(q) - 1 : i + 1 \in 1..Len(q) /\ i + 1 # 1 /\ Tail(q)[i] = q[i + 1]
        /\ Head(q) = q[1] /\ 1 \in 1..Len(q)
    BY TailFacts
  <1>2. \A i, j \in 1..Len(q) - 1 : i + 1 = j + 1 => i = j
    BY <1>1
  <1>3. QED
    BY <1>1, <1>2 DEF Single, Free

LEMMA OutdatedFree ==
  ASSUME NEW X, NEW q \in Seq(X), "stale" \in X
  PROVE  /\ Free(Outdated(q), {"ping"}) /\ Free(Outdated(q), Pongs)
         /\ Followed(q, Errors \cup {"kicked", "banned"}, {"self"}) =>
               Followed(Outdated(q), Errors \cup {"kicked", "banned"}, {"self"})
  <1>1. /\ Len(q) \in Nat /\ Len(Outdated(q)) = Len(q)
        /\ \A i \in 1..Len(q) : Outdated(q)[i] = IF q[i] \in {"ping", "pong", "no pong"}
                                                 THEN "stale" ELSE q[i]
    BY OutdatedFacts
  <1>2. /\ Free(Outdated(q), {"ping"}) /\ Free(Outdated(q), Pongs)
    BY <1>1 DEF Free, Pongs
  <1>3. ASSUME NEW i \in 1..Len(q)
        PROVE  /\ q[i] = "self" => Outdated(q)[i] = "self"
               /\ Outdated(q)[i] \in Errors \cup {"kicked", "banned"} => Outdated(q)[i] = q[i]
    BY <1>1 DEF Errors
  <1>4. QED
    BY <1>1, <1>2, <1>3 DEF Followed

-----------------------------------------------------------------------------
(* What the client will believe, as its queue grows and is handled.          *)

LEMMA EnteringAppend ==
  ASSUME NEW q \in Seq(Answers), NEW t \in Answers, NEW st
  PROVE  /\ \A n \in 0..Len(q) : Entering(st, Append(q, t), n) <=> Entering(st, q, n)
         /\ t \in Ends => ~Entering(st, Append(q, t), Len(q) + 1)
         /\ t # "self" /\ Entering(st, Append(q, t), Len(q) + 1) => Entering(st, q, Len(q))
  <1>1. /\ Len(q) \in Nat /\ Len(Append(q, t)) = Len(q) + 1
        /\ \A i \in 1..Len(q) : Append(q, t)[i] = q[i]
        /\ Append(q, t)[Len(q) + 1] = t
    BY AppendFacts
  <1>2. ASSUME NEW n \in 0..Len(q)
        PROVE  Entering(st, Append(q, t), n) <=> Entering(st, q, n)
    <2>1. \A i \in 1..n : Append(q, t)[i] = q[i]
      BY <1>1
    <2>2. \A i \in 1..n : \A j \in i + 1 .. n : Append(q, t)[j] = q[j]
      BY <1>1
    <2>3. QED
      BY <2>1, <2>2 DEF Entering
  <1>3. ASSUME t \in Ends PROVE ~Entering(st, Append(q, t), Len(q) + 1)
    <2>1. \A i \in 1..Len(q) + 1 : Append(q, t)[i] = "self" => i # Len(q) + 1
      BY <1>1, <1>3 DEF Ends
    <2>2. \A i \in 1..Len(q) : Len(q) + 1 \in i + 1 .. Len(q) + 1
      BY <1>1
    <2>3. QED
      BY <1>1, <1>3, <2>1, <2>2 DEF Entering
  <1>4. ASSUME t # "self", Entering(st, Append(q, t), Len(q) + 1)
        PROVE  Entering(st, q, Len(q))
    <2>1. CASE \E i \in 1..Len(q) + 1 : /\ Append(q, t)[i] = "self"
                                        /\ \A j \in i + 1 .. Len(q) + 1 : Append(q, t)[j] \notin Ends
      <3>1. PICK i \in 1..Len(q) + 1 : /\ Append(q, t)[i] = "self"
                                       /\ \A j \in i + 1 .. Len(q) + 1 : Append(q, t)[j] \notin Ends
        BY <2>1
      <3>2. i \in 1..Len(q)
        BY <1>1, <1>4, <3>1
      <3>3. \A j \in i + 1 .. Len(q) : j \in i + 1 .. Len(q) + 1 /\ j \in 1..Len(q)
        BY <1>1, <3>2
      <3>4. QED
        BY <1>1, <3>1, <3>2, <3>3 DEF Entering
    <2>2. CASE st = "ENTERED" /\ \A j \in 1..Len(q) + 1 : Append(q, t)[j] \notin Ends
      BY <1>1, <2>2 DEF Entering
    <2>3. QED
      BY <1>4, <2>1, <2>2 DEF Entering
  <1>5. QED
    BY <1>2, <1>3, <1>4

LEMMA IgnoresAppend ==
  ASSUME NEW q \in Seq(Answers), NEW t \in Answers, NEW st
  PROVE  /\ Ignores(st, q) => Ignores(st, Append(q, t))
         /\ \A m \in Mild : Entering(st, q, Len(q)) => Ignores(st, Append(q, m))
  <1>1. ASSUME NEW s \in Answers
        PROVE  /\ Len(q) \in Nat /\ Len(Append(q, s)) = Len(q) + 1
               /\ \A i \in 1..Len(q) : Append(q, s)[i] = q[i]
               /\ Append(q, s)[Len(q) + 1] = s
    BY AppendFacts
  <1>2. ASSUME Ignores(st, q) PROVE Ignores(st, Append(q, t))
    <2>1. PICK k \in 1..Len(q) : q[k] \in Mild /\ Entering(st, q, k - 1)
      BY <1>2 DEF Ignores
    <2>2. k - 1 \in 0..Len(q) /\ k \in 1..Len(q) + 1
      BY <1>1, <2>1
    <2>3. QED
      BY <1>1, <2>1, <2>2, EnteringAppend DEF Ignores
  <1>3. ASSUME NEW m \in Mild, Entering(st, q, Len(q)) PROVE Ignores(st, Append(q, m))
    <2>1. m \in Answers
      BY DEF Answers, Errors, Mild
    <2>2. Len(q) \in 0..Len(q) /\ Len(q) + 1 \in 1..Len(q) + 1 /\ Len(q) + 1 - 1 = Len(q)
      BY <1>1, <2>1
    <2>3. Entering(st, Append(q, m), Len(q) + 1 - 1)
      BY <1>3, <2>1, <2>2, EnteringAppend
    <2>4. QED
      BY <1>1, <2>1, <2>2, <2>3 DEF Ignores
  <1>4. QED
    BY <1>2, <1>3

\* Handling the head: `new` is the status after it.
Handles(st, s, new) ==
    /\ new = "ENTERED" => s = "self" \/ (st = "ENTERED" /\ s \notin Ends)
    /\ s = "self" \/ (st = "ENTERED" /\ s \notin Ends) => new = "ENTERED"

LEMMA EnteringTail ==
  ASSUME NEW q \in Seq(Answers), q # <<>>, NEW st, NEW new, Handles(st, Head(q), new),
         NEW n \in 1..Len(q)
  PROVE  Entering(new, Tail(q), n - 1) <=> Entering(st, q, n)
  <1>1. /\ Len(q) \in Nat \ {0} /\ Len(Tail(q)) = Len(q) - 1
        /\ \A i \in 1..Len(q) - 1 : Tail(q)[i] = q[i + 1]
        /\ Head(q) = q[1]
    BY TailFacts
  <1>2. ASSUME Entering(new, Tail(q), n - 1) PROVE Entering(st, q, n)
    <2>1. CASE \E i \in 1..n - 1 : Tail(q)[i] = "self" /\ \A j \in i + 1 .. n - 1 : Tail(q)[j] \notin Ends
      <3>1. PICK i \in 1..n - 1 : Tail(q)[i] = "self" /\ \A j \in i + 1 .. n - 1 : Tail(q)[j] \notin Ends
        BY <2>1
      <3>2. i + 1 \in 1..n /\ q[i + 1] = "self"
        BY <1>1, <3>1
      <3>3. ASSUME NEW j \in i + 1 + 1 .. n PROVE q[j] \notin Ends
        <4>1. j - 1 \in i + 1 .. n - 1 /\ j - 1 \in 1..Len(q) - 1 /\ j - 1 + 1 = j
          BY <1>1
        <4>2. QED
          BY <1>1, <3>1, <4>1
      <3>4. QED
        BY <3>2, <3>3 DEF Entering
    <2>2. CASE new = "ENTERED" /\ \A j \in 1..n - 1 : Tail(q)[j] \notin Ends
      <3>1. ASSUME NEW j \in 2..n PROVE q[j] \notin Ends
        <4>1. j - 1 \in 1..n - 1 /\ j - 1 \in 1..Len(q) - 1 /\ j - 1 + 1 = j
          BY <1>1
        <4>2. QED
          BY <1>1, <2>2, <4>1
      <3>2. CASE q[1] = "self"
        <4>1. 1 \in 1..n /\ 1 + 1 = 2
          BY <1>1
        <4>2. QED
          BY <3>1, <3>2, <4>1 DEF Entering
      <3>3. CASE st = "ENTERED" /\ q[1] \notin Ends
        <4>1. \A j \in 1..n : j = 1 \/ j \in 2..n
          BY <1>1
        <4>2. QED
          BY <3>1, <3>3, <4>1 DEF Entering
      <3>4. QED
        BY <1>1, <2>2, <3>2, <3>3 DEF Handles
    <2>3. QED
      BY <1>2, <2>1, <2>2 DEF Entering
  <1>3. ASSUME Entering(st, q, n) PROVE Entering(new, Tail(q), n - 1)
    <2>0. \A j \in 1..n - 1 : j + 1 \in 1..n /\ Tail(q)[j] = q[j + 1]
      BY <1>1
    <2>1. CASE \E i \in 1..n : q[i] = "self" /\ \A j \in i + 1 .. n : q[j] \notin Ends
      <3>1. PICK i \in 1..n : q[i] = "self" /\ \A j \in i + 1 .. n : q[j] \notin Ends
        BY <2>1
      <3>2. CASE i = 1
        <4>1. new = "ENTERED"
          BY <1>1, <3>1, <3>2 DEF Handles
        <4>2. \A j \in 1..n - 1 : j + 1 \in i + 1 .. n
          BY <3>2
        <4>3. QED
          BY <2>0, <3>1, <4>1, <4>2 DEF Entering
      <3>3. CASE i # 1
        <4>1. i - 1 \in 1..n - 1 /\ Tail(q)[i - 1] = "self"
          BY <1>1, <2>0, <3>1, <3>3
        <4>2. \A j \in i - 1 + 1 .. n - 1 : j + 1 \in i + 1 .. n /\ j \in 1..n - 1
          BY <3>3
        <4>3. QED
          BY <2>0, <3>1, <4>1, <4>2 DEF Entering
      <3>4. QED
        BY <3>2, <3>3
    <2>2. CASE st = "ENTERED" /\ \A j \in 1..n : q[j] \notin Ends
      <3>1. new = "ENTERED"
        BY <1>1, <2>2 DEF Handles
      <3>2. QED
        BY <2>0, <2>2, <3>1 DEF Entering
    <2>3. QED
      BY <1>3, <2>1, <2>2 DEF Entering
  <1>4. QED
    BY <1>2, <1>3

LEMMA IgnoresTail ==
  ASSUME NEW q \in Seq(Answers), q # <<>>, NEW st, NEW new, Handles(st, Head(q), new),
         Ignores(st, q)
  PROVE  Ignores(new, Tail(q)) \/ (Head(q) \in Mild /\ st = "ENTERED")
  <1>1. /\ Len(q) \in Nat \ {0} /\ Len(Tail(q)) = Len(q) - 1
        /\ \A i \in 1..Len(q) - 1 : Tail(q)[i] = q[i + 1]
        /\ Head(q) = q[1]
    BY TailFacts
  <1>2. PICK k \in 1..Len(q) : q[k] \in Mild /\ Entering(st, q, k - 1)
    BY DEF Ignores
  <1>3. CASE k = 1
    BY <1>1, <1>2, <1>3 DEF Entering
  <1>4. CASE k # 1
    <2>1. k - 1 \in 1..Len(q) /\ k - 1 \in 1..Len(q) - 1 /\ k - 1 + 1 = k
      BY <1>1, <1>4
    <2>2. Entering(new, Tail(q), k - 1 - 1)
      BY <1>2, <2>1, EnteringTail
    <2>3. QED
      BY <1>1, <1>2, <2>1, <2>2 DEF Ignores
  <1>5. QED
    BY <1>3, <1>4

LEMMA OutdatedEntering ==
  ASSUME NEW q \in Seq(Answers), NEW st
  PROVE  /\ \A n \in 0..Len(q) : Entering(st, Outdated(q), n) <=> Entering(st, q, n)
         /\ Ignores(st, Outdated(q)) <=> Ignores(st, q)
  <1>1. /\ Len(q) \in Nat /\ Len(Outdated(q)) = Len(q)
        /\ \A i \in 1..Len(q) :
              /\ Outdated(q)[i] = "self" <=> q[i] = "self"
              /\ Outdated(q)[i] \in Mild <=> q[i] \in Mild
              /\ Outdated(q)[i] \in Ends <=> q[i] \in Ends
    <2>1. "stale" \in Answers
      BY DEF Answers
    <2>2. /\ Len(q) \in Nat /\ Len(Outdated(q)) = Len(q)
          /\ \A i \in 1..Len(q) : Outdated(q)[i] = IF q[i] \in {"ping", "pong", "no pong"}
                                                 THEN "stale" ELSE q[i]
      BY <2>1, OutdatedFacts
    <2>3. QED
      BY <2>2 DEF Ends, Mild
  <1>2. ASSUME NEW n \in 0..Len(q)
        PROVE  Entering(st, Outdated(q), n) <=> Entering(st, q, n)
    <2>1. \A i \in 1..n : i \in 1..Len(q) /\ \A j \in i + 1 .. n : j \in 1..Len(q)
      BY <1>1
    <2>2. QED
      BY <1>1, <2>1 DEF Entering
  <1>3. \A k \in 1..Len(q) : k - 1 \in 0..Len(q)
    BY <1>1
  <1>4. QED
    BY <1>1, <1>2, <1>3 DEF Ignores

-----------------------------------------------------------------------------
(* Types.                                                                    *)

LEMMA TypeInit == Init => IType
  <1> SUFFICES ASSUME Init PROVE IType
    OBVIOUS
  <1>1. toServer \in Seq(Requests) /\ toClient \in Seq(Answers)
    BY DEF Init
  <1>2. joins \in 0..MaxJoins /\ drops \in 0..MaxDrops
    BY RoomAssumption DEF Init
  <1>3. QED
    BY <1>1, <1>2 DEF Init, IType, TypeOK, Statuses

\* The steps that add to the queue to the room.
LEMMA TypeStepUser ==
  ASSUME IType, User \/ SendJoin
  PROVE  IType'
  <1> USE RoomAssumption DEF IType, TypeOK, Statuses, StartJoin, history, net, client
  <1>1. ASSUME NEW s \in Requests, Send(s) PROVE toServer' \in Seq(Requests)
    BY <1>1, AppendFacts DEF Send
  <1>2. {"join", "nick", "leave", "ping", "stale"} \subseteq Requests /\ "stale" \in Answers
    BY DEF Requests, Answers
  <1>3. CASE Open
    BY <1>3 DEF Open
  <1>4. CASE Close
    BY <1>1, <1>2, <1>4 DEF Close
  <1>5. CASE ChangeNick
    BY <1>1, <1>2, <1>5 DEF ChangeNick
  <1>6. CASE Show
    BY <1>6 DEF Show
  <1>7. ASSUME Ping, up PROVE toServer' \in Seq(Requests) /\ toClient' \in Seq(Answers) /\ probe' = "asked"
    <2>1. Outdated(toServer) \in Seq(Requests) /\ Outdated(toClient) \in Seq(Answers)
      BY <1>2, OutdatedFacts
    <2>2. QED
      BY <1>2, <1>7, <2>1, AppendFacts DEF Ping
  <1>8. CASE RejoinIfNecessary
    BY <1>7, <1>8 DEF RejoinIfNecessary
  <1>9. CASE Reload
    BY <1>7, <1>9 DEF Reload
  <1>10. CASE SendJoin
    BY <1>1, <1>2, <1>10 DEF SendJoin, JoinGoesOn
  <1>11. QED
    BY <1>3, <1>4, <1>5, <1>6, <1>8, <1>9, <1>10 DEF User

LEMMA TypeStepClient ==
  ASSUME IType, Client
  PROVE  IType'
  <1> USE RoomAssumption DEF IType, TypeOK, Statuses, StartJoin, history, net, client
  <1>1. ASSUME NEW s, Got(s) PROVE toClient' \in Seq(Answers) /\ up
    BY <1>1, TailFacts DEF Got
  <1>2. CASE Destroy
    BY <1>2 DEF Destroy
  <1>3. CASE SendJoin
    BY <1>3, TypeStepUser
  <1>4. CASE OnOwnPresence
    BY <1>1, <1>4 DEF OnOwnPresence, Enters
  <1>5. CASE OnPong \/ OnStale
    BY <1>1, <1>5 DEF OnPong, OnStale
  <1>10. CASE OnLeft
    BY <1>1, <1>10 DEF OnLeft
  <1>6. CASE OnNoPong
    <2>1. StartJoin => /\ joins' \in 0..MaxJoins /\ (status' = status \/ status' = "CONNECTING")
                       /\ (box = "none" => status' = status)
      OBVIOUS
    <2>2. /\ joins' \in 0..MaxJoins /\ (status' = status \/ status' = "CONNECTING")
          /\ (box = "none" => status' = status)
      BY <1>6, <2>1 DEF OnNoPong
    <2>3. toClient' \in Seq(Answers)
      BY <1>1, <1>6 DEF OnNoPong
    <2>4. QED
      BY <1>6, <2>2, <2>3 DEF OnNoPong
  <1>7. ASSUME NEW s \in {"kicked", "banned"}, OnUnavailable(s) PROVE IType'
    <2>1. CASE box = "none"
      <3>1. status' = status
        BY <1>7, <2>1 DEF OnUnavailable
      <3>2. QED
        BY <1>1, <1>7, <3>1 DEF OnUnavailable
    <2>2. CASE box # "none"
      <3>1. status' \in {"BANNED", "DISCONNECTED"}
        BY <1>7, <2>2 DEF OnUnavailable, Leaves
      <3>2. QED
        BY <1>1, <1>7, <2>2, <3>1 DEF OnUnavailable
    <2>3. QED
      BY <2>1, <2>2
  <1>8. ASSUME NEW s \in Errors, OnErrorPresence(s) PROVE IType'
    <2>1. status' \in Statuses /\ status' # "CLOSING" /\ (status' = "ENTERED" => status = "ENTERED")
      BY <1>8 DEF OnErrorPresence
    <2>2. toClient' \in Seq(Answers) /\ unseen' \in BOOLEAN /\ unheard' \in BOOLEAN
      BY <1>1, <1>8 DEF OnErrorPresence
    <2>3. box = "none" => status' = status
      BY <1>8 DEF OnErrorPresence
    <2>4. QED
      BY <1>1, <1>8, <2>1, <2>2, <2>3 DEF OnErrorPresence
  <1>9. QED
    BY <1>2, <1>3, <1>4, <1>5, <1>6, <1>7, <1>8, <1>10 DEF Client, Handle

LEMMA TypeStepRoom ==
  ASSUME IType, Room \/ Drop \/ \E resumed \in BOOLEAN : Reconnect(resumed)
  PROVE  IType'
  <1> USE RoomAssumption DEF IType, TypeOK, Statuses, StartJoin, history, net, client
  <1>1. ASSUME NEW s, Arrives(s) PROVE toServer' \in Seq(Requests)
    BY <1>1, TailFacts DEF Arrives
  <1>2. ASSUME NEW s \in Answers, Answer(s) PROVE toClient' \in Seq(Answers)
    BY <1>2, AppendFacts DEF Answer
  <1>3. {"self", "left", "kicked", "banned", "pong", "no pong", "stale"} \cup Errors \subseteq Answers
    BY DEF Answers
  <1>4. ASSUME NEW s \in {"join", "nick"}, ServePresence(s) PROVE IType'
    BY <1>1, <1>2, <1>3, <1>4 DEF ServePresence
  <1>5. CASE ServeLeave
    BY <1>1, <1>2, <1>3, <1>5 DEF ServeLeave
  <1>6. CASE ServePing \/ ServeStale
    <2>1. toServer' \in Seq(Requests)
      BY <1>1, <1>6 DEF ServePing, ServeStale
    <2>2. \E s \in Answers : Answer(s)
      BY <1>3, <1>6 DEF ServePing, ServeStale
    <2>3. toClient' \in Seq(Answers)
      BY <1>2, <2>2
    <2>4. UNCHANGED <<client, net, inside, history>>
      BY <1>6 DEF ServePing, ServeStale
    <2>5. QED
      BY <2>1, <2>3, <2>4
  <1>7. CASE Forget
    BY <1>7 DEF Forget
  <1>8. ASSUME NEW s \in {"kicked", "banned"}, Expel(s) PROVE IType'
    BY <1>2, <1>3, <1>8 DEF Expel
  <1>9. CASE Drop
    <2>1. drops' \in 0..MaxDrops /\ up' = FALSE /\ status' = "DISCONNECTED"
      BY <1>9 DEF Drop
    <2>2. QED
      BY <1>9, <2>1 DEF Drop
  <1>10. ASSUME NEW resumed \in BOOLEAN, Reconnect(resumed) PROVE IType'
    <2>6. toClient' = toClient \/ toClient' = <<>>
      BY <1>10 DEF Reconnect
    <2>7. <<>> \in Seq(Answers) /\ <<>> \in Seq(Requests)
      OBVIOUS
    <2>1. toClient' \in Seq(Answers) /\ probe' = probe
      BY <1>10, <2>6, <2>7 DEF Reconnect
    <2>4. toServer' = toServer \/ toServer' = <<>>
      BY <1>10 DEF Reconnect
    <2>5. toServer' \in Seq(Requests)
      BY <2>4, <2>7
    <2>2. joins' \in 0..MaxJoins /\ status' \in Statuses /\ status' # "CLOSING" /\ status' # "ENTERED"
      BY <1>10 DEF Reconnect
    <2>3. QED
      BY <1>10, <2>1, <2>2, <2>5 DEF Reconnect
  <1>11. QED
    BY <1>4, <1>5, <1>6, <1>7, <1>8, <1>9, <1>10 DEF Room, Serve

LEMMA TypeStep == IType /\ [Next]_vars => IType'
  <1> SUFFICES ASSUME IType, [Next]_vars PROVE IType'
    OBVIOUS
  <1>1. CASE Next
    BY <1>1, TypeStepUser, TypeStepClient, TypeStepRoom DEF Next
  <1>2. CASE UNCHANGED vars
    BY <1>2 DEF IType, TypeOK, vars, client, net, history
  <1>3. QED
    BY <1>1, <1>2

LEMMA TypeAlways == Spec => []IType
  <1>1. QED
    BY TypeInit, TypeStep, PTL DEF Spec

\* Every variable keeps its type, for any bounds; a box that is gone has no session.
THEOREM TypeCorrect == Spec => []TypeOK
  <1>1. IType => TypeOK
    BY DEF IType
  <1>2. QED
    BY <1>1, TypeAlways, PTL
-----------------------------------------------------------------------------
(* A box that is closed.                                                     *)

LEMMA ClosedStep ==
  ASSUME IInv, [Next]_vars
  PROVE  IClosed'
  <1> DEFINE In == {"join", "nick"}
             Out == {"leave"}
  <1> SUFFICES ASSUME box' # "open", ~astray'
               PROVE  Followed(toServer', In, Out) /\ (inside' => Has(toServer', "leave"))
    BY DEF IClosed
  <1>1. toServer \in Seq(Requests) /\ "leave" \in Requests
        /\ up \in BOOLEAN /\ astray \in BOOLEAN /\ inside \in BOOLEAN
    BY DEF IInv, IType, TypeOK, Requests
  <1>2. ASSUME box # "open", ~astray
        PROVE  Followed(toServer, In, Out) /\ (inside => Has(toServer, "leave"))
    BY <1>2 DEF IInv, IClosed
  <1>3. CASE Close
    <2>1. toServer' = Append(toServer, "leave")
      BY <1>1, <1>3 DEF Close, Send
    <2>2. QED
      BY <1>1, <2>1, FollowedAppend, HasAppend
  <1>4. CASE SendJoin
    <2>1. box # "open" /\ ~astray /\ ~up /\ inside' = inside /\ toServer' = toServer
      BY <1>4 DEF SendJoin, JoinGoesOn, Send
    <2>2. QED
      BY <1>2, <2>1
  <1>5. ASSUME box # "open", ~astray, NEW s, Arrives(s), s # "leave", s \in In \/ inside' = inside
        PROVE  Followed(toServer', In, Out) /\ (inside' => Has(toServer', "leave"))
    <2>1. toServer # <<>> /\ toServer' = Tail(toServer) /\ Head(toServer) = s
      BY <1>5 DEF Arrives
    <2>2. Followed(toServer', In, Out) /\ (s \in In => Has(toServer', "leave"))
      BY <1>1, <1>2, <1>5, <2>1, FollowedTail
    <2>3. inside => Has(toServer', "leave")
      BY <1>1, <1>2, <1>5, <2>1, HasTail
    <2>4. QED
      BY <1>5, <2>2, <2>3
  <1>6. ASSUME NEW s \in In, ServePresence(s) PROVE Followed(toServer', In, Out) /\ (inside' => Has(toServer', "leave"))
    <2>1. box # "open" /\ ~astray /\ Arrives(s) /\ s # "leave"
      BY <1>6 DEF ServePresence, client
    <2>2. QED
      BY <1>5, <1>6, <2>1
  <1>7. CASE ServeLeave
    <2>1. box # "open" /\ ~astray /\ ~inside' /\ toServer # <<>> /\ toServer' = Tail(toServer)
      BY <1>7 DEF ServeLeave, client, history, Arrives
    <2>2. QED
      BY <1>1, <1>2, <2>1, FollowedTail
  <1>8. CASE ServePing \/ ServeStale
    <2>1. PICK s \in {"ping", "stale"} : Arrives(s)
      BY <1>8 DEF ServePing, ServeStale
    <2>2. box # "open" /\ ~astray /\ inside' = inside /\ s # "leave"
      BY <1>1, <1>8, <2>1 DEF ServePing, ServeStale, client, history
    <2>3. QED
      BY <1>5, <2>1, <2>2
  <1>9. ASSUME NEW resumed \in BOOLEAN, Reconnect(resumed)
        PROVE  Followed(toServer', In, Out) /\ (inside' => Has(toServer', "leave"))
    <2>1. box # "open" /\ ~astray /\ probe # "waits"
      BY <1>9 DEF Reconnect, history, IInv, IType
    <2>2. CASE resumed
      BY <1>2, <1>9, <2>1, <2>2 DEF Reconnect
    <2>3. CASE ~resumed
      <3>1. toServer' = <<>> /\ ~inside'
        BY <1>9, <2>1, <2>3 DEF Reconnect
      <3>2. QED
        BY <3>1 DEF Followed
    <2>4. QED
      BY <2>2, <2>3
  <1>10. ASSUME toServer' = toServer, inside' => inside, box # "open", ~astray
         PROVE  Followed(toServer', In, Out) /\ (inside' => Has(toServer', "leave"))
    BY <1>2, <1>10
  <1>11. CASE User
    BY <1>3, <1>11 DEF User, Open, ChangeNick, Show, RejoinIfNecessary, Reload
  <1>12. CASE Client
    <2>1. CASE Destroy \/ OnOwnPresence \/ OnLeft \/ OnPong \/ OnStale \/ OnNoPong
      BY <1>10, <2>1 DEF Destroy, OnOwnPresence, OnLeft, OnPong, OnStale, OnNoPong, history, client
    <2>2. ASSUME NEW s, OnUnavailable(s) \/ OnErrorPresence(s)
          PROVE  toServer' = toServer /\ inside' = inside /\ box' = box /\ astray' = astray
      BY <2>2 DEF OnUnavailable, OnErrorPresence, history
    <2>3. QED
      BY <1>4, <1>10, <1>12, <2>1, <2>2 DEF Client, Handle
  <1>13. CASE Room
    <2>1. CASE Forget \/ Expel("kicked") \/ Expel("banned")
      BY <1>10, <2>1 DEF Forget, Expel, history, client
    <2>2. QED
      BY <1>6, <1>7, <1>8, <1>13, <2>1 DEF Room, Serve
  <1>14. CASE Drop \/ UNCHANGED vars
    BY <1>10, <1>14 DEF Drop, history, client, vars
  <1>15. QED
    BY <1>9, <1>11, <1>12, <1>13, <1>14 DEF Next
-----------------------------------------------------------------------------
(* An occupant hears of its return.                                          *)

LEMMA ReturnedStep ==
  ASSUME IInv, [Next]_vars
  PROVE  IReturned'
  <1> DEFINE Bad == Errors \cup {"kicked", "banned"}
             Good == {"self"}
  <1> SUFFICES ASSUME inside', ~refused'
               PROVE  Followed(toClient', Bad, Good)
    BY DEF IReturned
  <1>1. toClient \in Seq(Answers) /\ inside \in BOOLEAN /\ refused \in BOOLEAN
    BY DEF IInv, IType, TypeOK
  <1>2. ASSUME inside, ~refused PROVE Followed(toClient, Bad, Good)
    BY <1>2 DEF IInv, IReturned
  <1>3. {"self", "pong", "no pong", "stale"} \subseteq Answers /\ "self" \notin Bad
        /\ "pong" \notin Bad /\ "no pong" \notin Bad /\ "stale" \notin Bad
    BY DEF Answers, Errors
  <1>4. ASSUME inside, ~refused, NEW s, Got(s) PROVE Followed(toClient', Bad, Good)
    <2>1. toClient # <<>> /\ toClient' = Tail(toClient)
      BY <1>4 DEF Got
    <2>2. QED
      BY <1>1, <1>2, <1>4, <2>1, FollowedTail
  <1>5. ASSUME inside, ~refused, Ping PROVE Followed(toClient', Bad, Good)
    <2>1. toClient' = Outdated(toClient)
      BY <1>5 DEF Ping
    <2>2. QED
      BY <1>1, <1>2, <1>3, <1>5, <2>1, OutdatedFree
  <1>6. ASSUME inside, ~refused, toClient' = toClient PROVE Followed(toClient', Bad, Good)
    BY <1>2, <1>6
  <1>7. ASSUME inside, ~refused, NEW s \in {"pong", "no pong", "stale"}, Answer(s)
        PROVE  Followed(toClient', Bad, Good)
    <2>1. toClient' = Append(toClient, s) /\ s \in Answers /\ s \notin Bad
      BY <1>3, <1>7 DEF Answer
    <2>2. QED
      BY <1>1, <1>2, <1>7, <2>1, FollowedAppend
  <1>8. ASSUME NEW s \in {"join", "nick"}, ServePresence(s) PROVE Followed(toClient', Bad, Good)
    <2>1. CASE Answer("self")
      BY <1>1, <1>3, <2>1, FollowedAppend DEF Answer
    <2>2. CASE ~Answer("self")
      BY <1>8, <2>2 DEF ServePresence
    <2>3. QED
      BY <2>1, <2>2
  <1>9. ASSUME NEW resumed \in BOOLEAN, Reconnect(resumed) PROVE Followed(toClient', Bad, Good)
    <2>1. inside /\ ~refused /\ toClient' = toClient
      BY <1>9 DEF Reconnect, history
    <2>2. QED
      BY <1>6, <2>1
  <1>10. CASE User
    <2>1. inside /\ ~refused /\ (toClient' = toClient \/ Ping)
      BY <1>1, <1>10 DEF User, Open, Close, ChangeNick, Show, RejoinIfNecessary, Reload, history
    <2>2. QED
      BY <1>5, <1>6, <2>1
  <1>11. CASE Client
    <2>1. CASE Destroy \/ SendJoin
      BY <1>6, <2>1 DEF Destroy, SendJoin, history
    <2>2. CASE OnOwnPresence \/ OnLeft \/ OnPong \/ OnStale
      BY <1>4, <2>2 DEF OnOwnPresence, OnLeft, OnPong, OnStale, history
    <2>3. CASE OnNoPong
      BY <1>4, <1>6, <2>3 DEF OnNoPong, history
    <2>4. ASSUME NEW s, OnUnavailable(s) \/ OnErrorPresence(s) PROVE Followed(toClient', Bad, Good)
      <3>1. Got(s) /\ inside /\ ~refused
        BY <1>1, <2>4 DEF OnUnavailable, OnErrorPresence, history
      <3>2. QED
        BY <1>4, <3>1
    <2>5. QED
      BY <1>11, <2>1, <2>2, <2>3, <2>4 DEF Client, Handle
  <1>12. CASE Room
    <2>1. CASE ServeLeave \/ Forget \/ Expel("kicked") \/ Expel("banned")
      BY <2>1 DEF ServeLeave, Forget, Expel
    <2>2. CASE ServePing \/ ServeStale
      <3>1. inside /\ ~refused
        BY <1>1, <2>2 DEF ServePing, ServeStale, history
      <3>2. \E s \in {"pong", "no pong", "stale"} : Answer(s)
        BY <2>2 DEF ServePing, ServeStale
      <3>3. QED
        BY <1>7, <3>1, <3>2
    <2>3. QED
      BY <1>8, <1>12, <2>1, <2>2 DEF Room, Serve
  <1>13. CASE Drop \/ UNCHANGED vars
    BY <1>1, <1>6, <1>13 DEF Drop, history, vars
  <1>14. QED
    BY <1>9, <1>10, <1>11, <1>12, <1>13 DEF Next

-----------------------------------------------------------------------------
(* Pings.                                                                    *)

LEMMA PingStep ==
  ASSUME IInv, [Next]_vars
  PROVE  IPing'
  <1>1. toServer \in Seq(Requests) /\ toClient \in Seq(Answers) /\ up \in BOOLEAN /\ probe # "waits"
    BY DEF IInv, IType, TypeOK
  <1>2. /\ Single(toServer, {"ping"}) /\ Single(toClient, Pongs)
        /\ Free(toServer, {"ping"}) \/ Free(toClient, Pongs)
    BY DEF IInv, IPing
  <1>3. /\ {"join", "nick", "leave", "ping", "stale"} \subseteq Requests
        /\ {"self", "left", "kicked", "banned", "pong", "no pong", "stale"} \cup Errors \subseteq Answers
        /\ \A s \in {"self", "left", "kicked", "banned", "stale"} \cup Errors : s \notin Pongs
    BY DEF Requests, Answers, Errors, Pongs
  <1>4. ASSUME toServer' = toServer /\ toClient' = toClient PROVE IPing'
    BY <1>2, <1>4 DEF IPing
  <1>5. ASSUME NEW s \in {"join", "nick", "leave"}, Send(s), toClient' = toClient PROVE IPing'
    <2>1. CASE up
      <3>1. toServer' = Append(toServer, s) /\ s \in Requests /\ s \notin {"ping"}
        BY <1>3, <1>5, <2>1 DEF Send
      <3>2. QED
        BY <1>1, <1>2, <1>5, <3>1, SingleAppend DEF IPing
    <2>2. CASE ~up
      BY <1>4, <1>5, <2>2 DEF Send
    <2>3. QED
      BY <1>1, <2>1, <2>2
  <1>6. CASE Ping
    <2>1. /\ Outdated(toServer) \in Seq(Requests) /\ Free(Outdated(toServer), {"ping"})
          /\ Outdated(toClient) \in Seq(Answers) /\ Free(Outdated(toClient), Pongs)
      BY <1>1, <1>3, OutdatedFacts, OutdatedFree
    <2>2. Single(Outdated(toServer), {"ping"}) /\ Single(Outdated(toClient), Pongs)
      BY <2>1 DEF Free, Single
    <2>3. Single(Append(Outdated(toServer), "ping"), {"ping"})
      BY <1>3, <2>1, SingleAppend
    <2>4. QED
      BY <1>6, <2>1, <2>2, <2>3 DEF Ping, IPing
  <1>7. ASSUME NEW s, Got(s), toServer' = toServer PROVE IPing'
    <2>1. toClient # <<>> /\ toClient' = Tail(toClient)
      BY <1>7 DEF Got
    <2>2. QED
      BY <1>1, <1>2, <1>7, <2>1, SingleTail DEF IPing
  <1>8. ASSUME NEW s, Arrives(s), toClient' = toClient PROVE IPing'
    <2>1. toServer # <<>> /\ toServer' = Tail(toServer)
      BY <1>8 DEF Arrives
    <2>2. QED
      BY <1>1, <1>2, <1>8, <2>1, SingleTail DEF IPing
  <1>9. ASSUME NEW s, NEW t \in {"self", "left", "kicked", "banned", "stale"} \cup Errors,
               Answer(t), Arrives(s) \/ toServer' = toServer
        PROVE  IPing'
    <2>1. toClient' = Append(toClient, t) /\ t \in Answers /\ t \notin Pongs
      BY <1>3, <1>9 DEF Answer
    <2>2. Single(toClient', Pongs) /\ (Free(toClient, Pongs) => Free(toClient', Pongs))
      BY <1>1, <1>2, <2>1, SingleAppend
    <2>3. Single(toServer', {"ping"}) /\ (Free(toServer, {"ping"}) => Free(toServer', {"ping"}))
      BY <1>1, <1>2, <1>9, SingleTail DEF Arrives
    <2>4. QED
      BY <1>2, <2>2, <2>3 DEF IPing
  <1>10. CASE ServePing
    <2>1. toServer # <<>> /\ toServer' = Tail(toServer) /\ Head(toServer) \in {"ping"}
      BY <1>10 DEF ServePing, Arrives
    <2>2. Free(toServer', {"ping"}) /\ ~Free(toServer, {"ping"}) /\ Single(toServer', {"ping"})
      BY <1>1, <1>2, <2>1, SingleTail
    <2>3. PICK t \in Pongs : toClient' = Append(toClient, t)
      BY <1>10 DEF ServePing, Answer, Pongs
    <2>4. Single(toClient', Pongs)
      BY <1>1, <1>2, <1>3, <2>2, <2>3, SingleAppend DEF Pongs
    <2>5. QED
      BY <2>2, <2>4 DEF IPing
  <1>11. CASE User
    <2>1. CASE Open \/ Show
      BY <1>4, <2>1 DEF Open, Show
    <2>2. CASE Close
      BY <1>5, <2>2 DEF Close
    <2>3. CASE ChangeNick
      BY <1>4, <1>5, <2>3 DEF ChangeNick
    <2>4. CASE RejoinIfNecessary \/ Reload
      BY <1>4, <1>6, <2>4 DEF RejoinIfNecessary, Reload
    <2>5. QED
      BY <1>11, <2>1, <2>2, <2>3, <2>4 DEF User
  <1>12. CASE Client
    <2>1. CASE Destroy
      BY <1>4, <2>1 DEF Destroy
    <2>2. CASE SendJoin
      BY <1>5, <2>2 DEF SendJoin, JoinGoesOn
    <2>3. CASE OnOwnPresence \/ OnLeft \/ OnPong \/ OnStale
      BY <1>7, <2>3 DEF OnOwnPresence, OnLeft, OnPong, OnStale
    <2>4. CASE OnNoPong
      BY <1>4, <1>7, <2>4 DEF OnNoPong
    <2>5. ASSUME NEW s, OnUnavailable(s) \/ OnErrorPresence(s) PROVE IPing'
      BY <1>7, <2>5 DEF OnUnavailable, OnErrorPresence
    <2>6. QED
      BY <1>12, <2>1, <2>2, <2>3, <2>4, <2>5 DEF Client, Handle
  <1>13. CASE Room
    <2>1. CASE ServeLeave
      BY <1>8, <1>9, <2>1 DEF ServeLeave
    <2>2. CASE ServeStale
      BY <1>9, <2>2 DEF ServeStale
    <2>3. CASE Forget
      BY <1>4, <2>3 DEF Forget
    <2>4. CASE Expel("kicked") \/ Expel("banned")
      BY <1>9, <2>4 DEF Expel
    <2>5. ASSUME NEW s \in {"join", "nick"}, ServePresence(s) PROVE IPing'
      <3>1. Arrives(s) /\ \E t \in {"self"} \cup Errors : Answer(t)
        BY <2>5 DEF ServePresence
      <3>2. QED
        BY <1>9, <3>1
    <2>6. QED
      BY <1>10, <1>13, <2>1, <2>2, <2>3, <2>4, <2>5 DEF Room, Serve
  <1>14. ASSUME NEW resumed \in BOOLEAN, Reconnect(resumed) PROVE IPing'
    <2>1. CASE resumed
      BY <1>1, <1>4, <1>14, <2>1 DEF Reconnect
    <2>2. CASE ~resumed
      <3>1. toServer' = <<>> /\ toClient' = <<>>
        BY <1>1, <1>14, <2>2 DEF Reconnect
      <3>2. QED
        BY <3>1 DEF IPing, Single, Free
    <2>3. QED
      BY <2>1, <2>2
  <1>15. CASE Drop \/ UNCHANGED vars
    BY <1>4, <1>15 DEF Drop, vars
  <1>16. QED
    BY <1>11, <1>12, <1>13, <1>14, <1>15 DEF Next
-----------------------------------------------------------------------------
(* An open box whose client is outside, or whose earlier box sent a leave.   *)

\* A join that starts is under way; and the types, sorted.
LEMMA Starts ==
  ASSUME IType, StartJoin
  PROVE  joins' > 0
  BY RoomAssumption DEF IType, TypeOK, StartJoin

LEMMA Opens ==
  ASSUME IType, Open
  PROVE  joins' > 0
  BY RoomAssumption DEF IType, TypeOK, Open

LEMMA Sorts ==
  ASSUME IType
  PROVE  /\ toServer \in Seq(Requests) /\ toClient \in Seq(Answers) /\ joins \in Nat
         /\ up \in BOOLEAN /\ inside \in BOOLEAN /\ refused \in BOOLEAN /\ unseen \in BOOLEAN
         /\ status # "CLOSING" /\ probe # "waits"
         /\ {"join", "nick", "leave", "ping", "stale"} \subseteq Requests
         /\ {"self", "left", "kicked", "banned", "pong", "no pong", "stale"} \cup Errors \subseteq Answers
  <1>1. joins \in Nat
    BY RoomAssumption DEF IType, TypeOK
  <1>2. toServer \in Seq(Requests) /\ toClient \in Seq(Answers)
    BY DEF IType, TypeOK
  <1>3. /\ {"join", "nick", "leave", "ping", "stale"} \subseteq Requests
        /\ {"self", "left", "kicked", "banned", "pong", "no pong", "stale"} \cup Errors \subseteq Answers
    BY DEF Requests, Answers
  <1>4. QED
    BY <1>1, <1>2, <1>3 DEF IType, TypeOK

LEMMA OutsideStep ==
  ASSUME IInv, [Next]_vars
  PROVE  IOutside'
  <1> DEFINE Told == joins > 0 \/ Has(toServer, "join") \/ Has(toClient, "self")
  <1> SUFFICES ASSUME box' = "open", up', inside', ~refused', status' # "ENTERED"
               PROVE  Told'
    BY DEF IOutside
  <1>1. /\ toServer \in Seq(Requests) /\ toClient \in Seq(Answers) /\ joins \in Nat
        /\ up \in BOOLEAN /\ inside \in BOOLEAN /\ refused \in BOOLEAN /\ status # "CLOSING"
        /\ {"join", "nick", "leave"} \subseteq Requests
        /\ {"self", "pong", "no pong", "stale"} \subseteq Answers
    BY Sorts DEF IInv
  <1>2. ASSUME box = "open", up, inside, ~refused, status # "ENTERED" PROVE Told
    BY <1>2 DEF IInv, IOutside
  <1>3. CASE StartJoin
    BY <1>3, Starts DEF IInv
  <1>4. CASE Open
    BY <1>4, Opens DEF IInv
  <1>5. CASE ChangeNick
    <2>1. CASE status = "ENTERED"
      BY <1>5, <2>1 DEF ChangeNick
    <2>2. CASE status # "ENTERED"
      BY <1>3, <1>5, <2>2 DEF ChangeNick
    <2>3. QED
      BY <2>1, <2>2
  <1>6. CASE Close \/ Destroy
    BY <1>6 DEF Close, Destroy
  <1>7. CASE Show
    BY <1>3, <1>7 DEF Show
  <1>8. CASE RejoinIfNecessary
    BY <1>3, <1>8 DEF RejoinIfNecessary
  <1>9. CASE Reload
    BY <1>9 DEF Reload
  <1>10. CASE SendJoin
    <2>1. toServer' = Append(toServer, "join")
      BY <1>1, <1>10 DEF SendJoin, JoinGoesOn, Send, net
    <2>2. QED
      BY <1>1, <2>1, HasAppend
  <1>11. ASSUME NEW s, Got(s), box = "open", inside, ~refused, toServer' = toServer,
                joins' = joins \/ joins' > 0,
                \/ s \in Errors \cup {"kicked", "banned"}
                \/ s # "self" /\ status # "ENTERED"
         PROVE  Told'
    <2>1. toClient # <<>> /\ Head(toClient) = s /\ toClient' = Tail(toClient) /\ up
      BY <1>11 DEF Got
    <2>2. CASE s \in Errors \cup {"kicked", "banned"}
      <3>1. Followed(toClient, Errors \cup {"kicked", "banned"}, {"self"})
        BY <1>11 DEF IInv, IReturned
      <3>2. Has(Tail(toClient), "self")
        BY <1>1, <2>1, <2>2, <3>1, FollowedHead
      <3>3. QED
        BY <2>1, <3>2
    <2>3. CASE s # "self" /\ status # "ENTERED"
      BY <1>1, <1>2, <1>11, <2>1, <2>3, HasTail
    <2>4. QED
      BY <1>11, <2>2, <2>3
  <1>12. CASE OnOwnPresence
    BY <1>1, <1>12 DEF OnOwnPresence, Enters
  <1>13. CASE OnPong \/ OnStale
    BY <1>1, <1>11, <1>13 DEF OnPong, OnStale, client, history
  <1>27. CASE OnLeft
    BY <1>1, <1>11, <1>27 DEF OnLeft, client, history
  <1>14. CASE OnNoPong
    <2>1. CASE StartJoin
      BY <1>3, <2>1
    <2>2. CASE ~StartJoin
      <3>1. Got("no pong") /\ status' = status /\ joins' = joins
        BY <1>14, <2>2 DEF OnNoPong
      <3>2. box = "open" /\ inside /\ ~refused /\ toServer' = toServer
        BY <1>1, <1>14 DEF OnNoPong, history
      <3>3. QED
        BY <1>11, <3>1, <3>2
    <2>3. QED
      BY <2>1, <2>2
  <1>15. ASSUME NEW s \in {"kicked", "banned"}, OnUnavailable(s) PROVE Told'
    <2>1. Got(s) /\ box = "open" /\ inside /\ ~refused /\ toServer' = toServer /\ joins' = joins
      BY <1>1, <1>15 DEF OnUnavailable, history
    <2>2. QED
      BY <1>11, <1>15, <2>1
  <1>16. ASSUME NEW s \in Errors, OnErrorPresence(s) PROVE Told'
    <2>1. Got(s) /\ box = "open" /\ inside /\ ~refused /\ toServer' = toServer /\ joins' = joins
      BY <1>1, <1>16 DEF OnErrorPresence
    <2>2. QED
      BY <1>11, <1>16, <2>1
  <1>17. ASSUME NEW s \in {"join", "nick"}, ServePresence(s) PROVE Told'
    <2>1. CASE Answer("self")
      BY <1>1, <2>1, HasAppend DEF Answer
    <2>2. CASE ~Answer("self")
      BY <1>1, <1>17, <2>2 DEF ServePresence
    <2>3. QED
      BY <2>1, <2>2
  <1>18. CASE ServePing \/ ServeStale
    <2>1. Told
      BY <1>1, <1>2, <1>18 DEF ServePing, ServeStale, client, net, history
    <2>2. PICK s \in {"ping", "stale"} : Arrives(s)
      BY <1>18 DEF ServePing, ServeStale
    <2>3. PICK t \in {"pong", "no pong", "stale"} : toClient' = Append(toClient, t)
      BY <1>18 DEF ServePing, ServeStale, Answer
    <2>4. Has(toServer, "join") => Has(toServer', "join")
      BY <1>1, <2>2, HasTail DEF Arrives
    <2>5. Has(toClient, "self") => Has(toClient', "self")
      BY <1>1, <2>3, HasAppend
    <2>6. joins' = joins
      BY <1>18 DEF ServePing, ServeStale, client
    <2>7. QED
      BY <2>1, <2>4, <2>5, <2>6
  <1>19. CASE ServeLeave \/ Forget \/ Expel("kicked") \/ Expel("banned")
    BY <1>19 DEF ServeLeave, Forget, Expel
  <1>20. CASE Drop
    BY <1>20 DEF Drop
  <1>21. ASSUME NEW resumed \in BOOLEAN, Reconnect(resumed) PROVE Told'
    BY <1>3, <1>21 DEF Reconnect
  <1>22. CASE UNCHANGED vars
    BY <1>2, <1>22 DEF vars, client, net, history
  <1>23. CASE User
    BY <1>4, <1>5, <1>6, <1>7, <1>8, <1>9, <1>23 DEF User
  <1>24. CASE Client
    BY <1>6, <1>10, <1>12, <1>13, <1>14, <1>15, <1>16, <1>24, <1>27 DEF Client, Handle
  <1>25. CASE Room
    BY <1>17, <1>18, <1>19, <1>25 DEF Room, Serve
  <1>26. QED
    BY <1>20, <1>21, <1>22, <1>23, <1>24, <1>25 DEF Next

LEMMA LeftStep ==
  ASSUME IInv, [Next]_vars
  PROVE  ILeft'
  <1> DEFINE L == {"leave"}
             Back == joins > 0 \/ Followed(toServer, L, Rejoining)
  <1> SUFFICES ASSUME box' = "open", up'
               PROVE  Back'
    BY DEF ILeft
  <1>1. /\ toServer \in Seq(Requests) /\ toClient \in Seq(Answers) /\ joins \in Nat
        /\ up \in BOOLEAN
        /\ {"join", "nick", "leave", "ping", "stale"} \subseteq Requests /\ "stale" \in Answers
    BY Sorts DEF IInv
  <1>2. ASSUME box = "open", up PROVE Back
    BY <1>2 DEF IInv, ILeft
  <1>3. CASE StartJoin
    BY <1>3, Starts DEF IInv
  <1>4. CASE Open
    BY <1>4, Opens DEF IInv
  <1>5. ASSUME Ping, up PROVE Back'
    <2>1. Outdated(toServer) \in Seq(Requests) /\ toServer' = Append(Outdated(toServer), "ping")
      BY <1>1, <1>5, OutdatedFacts DEF Ping
    <2>2. Followed(toServer', L, {"join", "ping"})
      BY <1>1, <2>1, FollowedAppend
    <2>3. Rejoining' = {"join", "ping"}
      BY <1>5 DEF Ping, Rejoining
    <2>4. QED
      BY <2>2, <2>3
  <1>6. CASE ChangeNick
    <2>1. CASE status = "ENTERED"
      <3>1. up /\ toServer' = Append(toServer, "nick") /\ joins' = joins /\ Rejoining' = Rejoining
        BY <1>1, <1>6, <2>1 DEF ChangeNick, Send, net, Rejoining
      <3>2. Followed(toServer, L, Rejoining) => Followed(toServer', L, Rejoining)
        BY <1>1, <3>1, FollowedAppend
      <3>3. QED
        BY <1>2, <1>6, <3>1, <3>2 DEF ChangeNick
    <2>2. CASE status # "ENTERED"
      BY <1>3, <1>6, <2>2 DEF ChangeNick
    <2>3. QED
      BY <2>1, <2>2
  <1>7. CASE Close \/ Destroy
    BY <1>7 DEF Close, Destroy
  <1>8. CASE Show
    BY <1>3, <1>8 DEF Show
  <1>9. CASE RejoinIfNecessary
    BY <1>1, <1>3, <1>5, <1>9 DEF RejoinIfNecessary, net
  <1>10. CASE Reload
    BY <1>5, <1>10 DEF Reload
  <1>11. CASE SendJoin
    <2>1. toServer' = Append(toServer, "join") /\ "join" \in Rejoining'
      BY <1>1, <1>11 DEF SendJoin, JoinGoesOn, Send, net, Rejoining
    <2>2. QED
      BY <1>1, <2>1, FollowedAppend
  <1>12. ASSUME box = "open", up, toServer' = toServer, joins' = joins, Rejoining' = Rejoining PROVE Back'
    BY <1>2, <1>12
  <1>13. CASE OnOwnPresence \/ OnLeft \/ OnStale
    BY <1>1, <1>12, <1>13 DEF OnOwnPresence, OnLeft, OnStale, client, net, Rejoining
  <1>14. CASE OnPong
    <2>1. toClient # <<>> /\ Head(toClient) = "pong" /\ box = "open" /\ up
      BY <1>14 DEF OnPong, Got
    <2>2. Free(toServer, {"ping"})
      BY <1>1, <2>1, SingleTail DEF IInv, IPing, Pongs
    <2>3. Followed(toServer, L, Rejoining) => Followed(toServer, L, {"join"})
      BY <2>2 DEF Followed, Free, Rejoining
    <2>4. Rejoining' = {"join"} /\ toServer' = toServer /\ joins' = joins
      BY <1>14 DEF OnPong, Rejoining
    <2>5. QED
      BY <1>2, <2>1, <2>3, <2>4
  <1>15. CASE OnNoPong
    <2>1. CASE StartJoin
      BY <1>3, <2>1
    <2>2. CASE ~StartJoin
      BY <1>1, <1>12, <1>15, <2>2 DEF OnNoPong, net, Rejoining
    <2>3. QED
      BY <2>1, <2>2
  <1>16. ASSUME NEW s, OnUnavailable(s) \/ OnErrorPresence(s) PROVE Back'
    BY <1>1, <1>12, <1>16 DEF OnUnavailable, OnErrorPresence, net, Rejoining
  <1>17. ASSUME NEW s, Arrives(s), box = "open", joins' = joins, probe' = probe PROVE Back'
    <2>1. toServer # <<>> /\ toServer' = Tail(toServer) /\ up /\ Rejoining' = Rejoining
      BY <1>17 DEF Arrives, Rejoining
    <2>2. Followed(toServer, L, Rejoining) => Followed(toServer', L, Rejoining)
      BY <1>1, <2>1, FollowedTail
    <2>3. QED
      BY <1>2, <1>17, <2>1, <2>2
  <1>18. CASE Room
    <2>1. box = "open" /\ up /\ joins' = joins /\ probe' = probe
      BY <1>1, <1>18 DEF Room, Serve, ServePresence, ServeLeave, ServePing, ServeStale, Forget, Expel, client, net
    <2>2. toServer' = toServer \/ \E s \in Requests : Arrives(s)
      BY <1>1, <1>18 DEF Room, Serve, ServePresence, ServeLeave, ServePing, ServeStale, Forget, Expel
    <2>3. QED
      BY <1>12, <1>17, <2>1, <2>2 DEF Rejoining
  <1>19. CASE Drop
    BY <1>19 DEF Drop
  <1>20. ASSUME NEW resumed \in BOOLEAN, Reconnect(resumed) PROVE Back'
    BY <1>3, <1>20 DEF Reconnect
  <1>21. CASE UNCHANGED vars
    BY <1>1, <1>12, <1>21 DEF vars, client, net, Rejoining
  <1>22. QED
    BY <1>4, <1>6, <1>7, <1>8, <1>9, <1>10, <1>11, <1>13, <1>14, <1>15, <1>16, <1>18, <1>19, <1>20, <1>21
       DEF Next, User, Client, Handle
-----------------------------------------------------------------------------
(* A client that believes to be inside.                                      *)

LEMMA EnteredStep ==
  ASSUME IInv, [Next]_vars
  PROVE  IEntered'
  <1> DEFINE Believes == Entering(status, toClient, Len(toClient))
  <1> SUFFICES ASSUME box' = "open", up', ~unseen', ~inside', Believes'
               PROVE  Recovers'
    BY DEF IEntered
  <1>1. /\ toServer \in Seq(Requests) /\ toClient \in Seq(Answers) /\ joins \in Nat
        /\ up \in BOOLEAN /\ inside \in BOOLEAN /\ unseen \in BOOLEAN
        /\ status # "CLOSING" /\ probe # "waits"
        /\ {"join", "nick", "leave", "ping", "stale"} \subseteq Requests
        /\ {"self", "left", "kicked", "banned", "pong", "no pong", "stale"} \cup Errors \subseteq Answers
    BY Sorts DEF IInv
  <1>2. ASSUME box = "open", up, ~unseen, ~inside, Believes PROVE Recovers
    BY <1>2 DEF IInv, IEntered
  <1>3. CASE joins' > 0
    BY <1>3 DEF Recovers
  <1>4. CASE StartJoin
    BY <1>3, <1>4, Starts DEF IInv
  <1>5. CASE Open
    BY <1>3, <1>5, Opens DEF IInv
  <1>6. ASSUME Ping, up PROVE Recovers'
    <2>1. Outdated(toServer) \in Seq(Requests)
      BY <1>1, OutdatedFacts
    <2>2. Has(toServer', "ping") /\ probe' = "asked"
      BY <1>1, <1>6, <2>1, HasAppend DEF Ping
    <2>3. QED
      BY <2>2 DEF Recovers
  <1>7. CASE ChangeNick
    <2>1. CASE status = "ENTERED"
      <3>1. /\ box = "open" /\ up /\ ~unseen /\ ~inside /\ status' = status /\ joins' = joins
            /\ probe' = probe /\ toClient' = toClient /\ toServer' = Append(toServer, "nick")
        BY <1>1, <1>7, <2>1 DEF ChangeNick, Send, net, history
      <3>2. \A s : Has(toServer, s) => Has(toServer', s)
        BY <1>1, <3>1, HasAppend
      <3>3. QED
        BY <1>2, <3>1, <3>2 DEF Recovers
    <2>2. CASE status # "ENTERED"
      BY <1>4, <1>7, <2>2 DEF ChangeNick
    <2>3. QED
      BY <2>1, <2>2
  <1>8. CASE Close \/ Destroy
    BY <1>8 DEF Close, Destroy
  <1>9. CASE Show
    BY <1>4, <1>9 DEF Show
  <1>10. CASE RejoinIfNecessary
    BY <1>1, <1>4, <1>6, <1>10 DEF RejoinIfNecessary, net
  <1>11. CASE Reload
    BY <1>3, <1>6, <1>11 DEF Reload
  <1>12. CASE SendJoin
    <2>1. toServer' = Append(toServer, "join")
      BY <1>1, <1>12 DEF SendJoin, JoinGoesOn, Send, net
    <2>2. Has(toServer', "join")
      BY <1>1, <2>1, HasAppend
    <2>3. QED
      BY <2>2 DEF Recovers
  \* A stanza is handled that neither starts a join nor answers the ping.
  <1>13. ASSUME NEW s, Got(s), Handles(status, s, status'), toServer' = toServer, joins' = joins,
                box' = box, inside' = inside, ~unseen,
                s \in Mild => status # "ENTERED",
                \/ probe' = probe /\ s # "no pong"
                \/ probe # "asked"
                \/ ~Has(toServer, "ping") /\ ~Has(toClient, "no pong")
         PROVE  Recovers'
    <2>1. toClient # <<>> /\ Head(toClient) = s /\ toClient' = Tail(toClient) /\ up
      BY <1>13 DEF Got
    <2>0. Len(toClient) \in Nat \ {0} /\ Len(Tail(toClient)) = Len(toClient) - 1
      BY <1>1, <2>1, TailFacts
    <2>2. Len(toClient) \in 1..Len(toClient) /\ Len(toClient') = Len(toClient) - 1
      BY <2>0, <2>1
    <2>3. Entering(status, toClient, Len(toClient))
      BY <1>1, <1>13, <2>1, <2>2, EnteringTail
    <2>4. Recovers
      BY <1>1, <1>2, <1>13, <2>1, <2>3
    <2>5. Ignores(status, toClient) => Ignores(status', toClient')
      BY <1>1, <1>13, <2>1, IgnoresTail
    <2>6. s # "no pong" /\ Has(toClient, "no pong") => Has(toClient', "no pong")
      BY <1>1, <2>1, HasTail
    <2>7. QED
      BY <1>13, <2>4, <2>5, <2>6 DEF Recovers
  <1>14. CASE OnOwnPresence
    <2>1. Handles(status, "self", status')
      BY <1>1, <1>14 DEF OnOwnPresence, Enters, Handles
    <2>2. QED
      BY <1>1, <1>13, <1>14, <2>1 DEF OnOwnPresence, history, Mild
  <1>34. CASE OnLeft
    <2>1. Handles(status, "left", status')
      BY <1>34 DEF OnLeft, Handles, Ends
    <2>2. QED
      BY <1>1, <1>13, <1>34, <2>1 DEF OnLeft, history, Mild
  <1>15. CASE OnPong
    <2>1. toClient # <<>> /\ Head(toClient) = "pong" /\ toClient' = Tail(toClient)
      BY <1>15 DEF OnPong, Got
    <2>2. Head(toClient) \in Pongs
      BY <2>1 DEF Pongs
    <2>3. Free(toServer, {"ping"}) /\ Free(toClient', Pongs)
      BY <1>1, <2>1, <2>2, SingleTail DEF IInv, IPing
    <2>4. ~Has(toServer, "ping") /\ ~Has(toClient', "no pong")
      BY <2>3 DEF Free, Has, Pongs
    <2>5. ~Has(toClient, "no pong")
      BY <1>1, <2>1, <2>4, HasTail
    <2>6. Handles(status, "pong", status')
      BY <1>15 DEF OnPong, Handles, Ends
    <2>7. QED
      BY <1>1, <1>13, <1>15, <2>4, <2>5, <2>6 DEF OnPong, history, Mild
  <1>16. CASE OnStale
    <2>1. Handles(status, "stale", status')
      BY <1>16 DEF OnStale, client, Handles, Ends
    <2>2. QED
      BY <1>1, <1>13, <1>16, <2>1 DEF OnStale, client, history, Mild
  <1>17. CASE OnNoPong
    <2>1. CASE StartJoin
      BY <1>4, <2>1
    <2>2. CASE ~StartJoin
      <3>1. /\ Got("no pong") /\ probe # "asked" /\ status' = status /\ joins' = joins
            /\ box' = box /\ inside' = inside /\ ~unseen /\ toServer' = toServer
        BY <1>1, <1>17, <2>2 DEF OnNoPong, history
      <3>2. Handles(status, "no pong", status')
        BY <3>1 DEF Handles, Ends
      <3>3. QED
        BY <1>13, <3>1, <3>2 DEF Mild
    <2>3. QED
      BY <2>1, <2>2
  <1>18. ASSUME NEW s \in {"kicked", "banned"}, OnUnavailable(s) PROVE Recovers'
    <2>1. Handles(status, s, status')
      BY <1>18 DEF OnUnavailable, Leaves, Handles, Ends
    <2>2. QED
      BY <1>1, <1>13, <1>18, <2>1 DEF OnUnavailable, history, Mild
  <1>19. ASSUME NEW s \in Errors, OnErrorPresence(s) PROVE Recovers'
    <2>1. box = "open"
      BY <1>19 DEF OnErrorPresence
    <2>2. Handles(status, s, status')
      BY <1>19, <2>1 DEF OnErrorPresence, Heard, Handles, Ends, Errors
    <2>3. s \in Mild => status # "ENTERED"
      BY <1>1, <1>19 DEF OnErrorPresence, Heard, Mild
    <2>4. /\ Got(s) /\ toServer' = toServer /\ joins' = joins /\ box' = box
          /\ inside' = inside /\ ~unseen /\ probe' = probe /\ s # "no pong"
      BY <1>1, <1>19 DEF OnErrorPresence, Errors
    <2>5. QED
      BY <1>13, <2>2, <2>3, <2>4
  \* The room sends a stanza more.
  <1>20. ASSUME NEW t \in Answers, Answer(t), t # "self", status' = status
         PROVE  /\ Believes /\ t \notin Ends
                /\ Ignores(status, toClient) => Ignores(status', toClient')
                /\ t \in Mild => Ignores(status', toClient')
                /\ \A s : Has(toClient, s) => Has(toClient', s)
                /\ Has(toClient', t)
    <2>1. toClient' = Append(toClient, t) /\ Len(toClient') = Len(toClient) + 1
      BY <1>1, <1>20, AppendFacts DEF Answer
    <2>2. Entering(status, Append(toClient, t), Len(toClient) + 1)
      BY <1>20, <2>1
    <2>3. Believes /\ t \notin Ends
      BY <1>1, <1>20, <2>2, EnteringAppend
    <2>4. /\ Ignores(status, toClient) => Ignores(status, Append(toClient, t))
          /\ t \in Mild => Ignores(status, Append(toClient, t))
      BY <1>1, <1>20, <2>3, IgnoresAppend
    <2>5. (\A s : Has(toClient, s) => Has(toClient', s)) /\ Has(toClient', t)
      BY <1>1, <1>20, <2>1, HasAppend
    <2>6. QED
      BY <1>20, <2>1, <2>3, <2>4, <2>5
  <1>21. ASSUME NEW s \in {"join", "nick"}, ServePresence(s) PROVE Recovers'
    <2>1. status' = status /\ \E t \in Errors : Answer(t)
      BY <1>1, <1>21 DEF ServePresence, client
    <2>2. PICK t \in Errors : Answer(t)
      BY <2>1
    <2>3. t \in Answers /\ t # "self" /\ (t \notin Ends => t \in Mild)
      BY <1>1, <2>2 DEF Errors, Ends, Mild
    <2>4. QED
      BY <1>20, <2>1, <2>2, <2>3 DEF Recovers
  <1>22. CASE ServeLeave
    <2>1. /\ toServer # <<>> /\ Head(toServer) = "leave" /\ toServer' = Tail(toServer)
          /\ box = "open" /\ up /\ joins' = joins /\ probe' = probe
      BY <1>1, <1>22 DEF ServeLeave, Arrives, client, net
    <2>2. joins > 0 \/ \E b \in Rejoining : Has(Tail(toServer), b)
      BY <1>1, <2>1, FollowedTail DEF IInv, ILeft
    <2>3. QED
      BY <2>1, <2>2 DEF Rejoining, Recovers
  <1>23. CASE ServePing
    <2>1. /\ toServer # <<>> /\ Head(toServer) = "ping" /\ toServer' = Tail(toServer)
          /\ box = "open" /\ up /\ ~unseen /\ ~inside /\ status' = status
          /\ joins' = joins /\ probe' = probe /\ Answer("no pong")
      BY <1>1, <1>23 DEF ServePing, Arrives, client, net, history
    <2>2. /\ Believes /\ Has(toClient', "no pong")
          /\ Ignores(status, toClient) => Ignores(status', toClient')
      BY <1>1, <1>20, <2>1
    <2>3. Recovers
      BY <1>2, <2>1, <2>2
    <2>4. Has(toServer, "join") => Has(toServer', "join")
      BY <1>1, <2>1, HasTail
    <2>5. QED
      BY <2>1, <2>2, <2>3, <2>4 DEF Recovers
  <1>24. CASE ServeStale
    <2>1. /\ toServer # <<>> /\ Head(toServer) = "stale" /\ toServer' = Tail(toServer)
          /\ box = "open" /\ up /\ ~unseen /\ ~inside /\ status' = status
          /\ joins' = joins /\ probe' = probe /\ Answer("stale")
      BY <1>1, <1>24 DEF ServeStale, Arrives, client, net, history
    <2>2. /\ Believes /\ (Ignores(status, toClient) => Ignores(status', toClient'))
          /\ \A s : Has(toClient, s) => Has(toClient', s)
      BY <1>1, <1>20, <2>1
    <2>3. Recovers
      BY <1>2, <2>1, <2>2
    <2>4. /\ Has(toServer, "join") => Has(toServer', "join")
          /\ Has(toServer, "ping") => Has(toServer', "ping")
      BY <1>1, <2>1, HasTail
    <2>5. QED
      BY <2>1, <2>2, <2>3, <2>4 DEF Recovers
  <1>25. ASSUME NEW s \in {"kicked", "banned"}, Expel(s) PROVE Recovers'
    <2>1. status' = status /\ Answer(s) /\ s \in Answers /\ s # "self" /\ s \in Ends
      BY <1>1, <1>25 DEF Expel, client, Ends
    <2>2. QED
      BY <1>20, <2>1
  <1>26. CASE Forget
    BY <1>26 DEF Forget
  <1>27. CASE Drop
    BY <1>27 DEF Drop
  <1>28. ASSUME NEW resumed \in BOOLEAN, Reconnect(resumed) PROVE Recovers'
    BY <1>4, <1>28 DEF Reconnect
  <1>29. CASE UNCHANGED vars
    BY <1>1, <1>2, <1>29 DEF vars, client, net, history, Recovers
  <1>30. CASE User
    BY <1>5, <1>7, <1>8, <1>9, <1>10, <1>11, <1>30 DEF User
  <1>31. CASE Client
    BY <1>8, <1>12, <1>14, <1>15, <1>16, <1>17, <1>18, <1>19, <1>31, <1>34 DEF Client, Handle
  <1>32. CASE Room
    BY <1>21, <1>22, <1>23, <1>24, <1>25, <1>26, <1>32 DEF Room, Serve
  <1>33. QED
    BY <1>27, <1>28, <1>29, <1>30, <1>31, <1>32 DEF Next

-----------------------------------------------------------------------------
LEMMA InvInit == Init => IInv
  <1> SUFFICES ASSUME Init PROVE IInv
    OBVIOUS
  <1>1. toServer = <<>> /\ toClient = <<>> /\ ~inside /\ box = "none"
    BY DEF Init
  <1>2. IClosed /\ IReturned /\ IOutside
    BY <1>1 DEF IClosed, IReturned, IOutside, Followed
  <1>3. IPing
    BY <1>1 DEF IPing, Single, Free
  <1>4. ILeft /\ IEntered
    BY <1>1 DEF ILeft, IEntered
  <1>5. QED
    BY <1>2, <1>3, <1>4, TypeInit DEF IInv

LEMMA InvAlways == Spec => []IInv
  <1>1. IInv /\ [Next]_vars => IInv'
    BY TypeStep, ClosedStep, ReturnedStep, OutsideStep, PingStep, LeftStep, EnteredStep DEF IInv
  <1>2. QED
    BY <1>1, InvInit, PTL DEF Spec

\* A closed box leaves no occupant behind (close, leave), but by a join that was
\* under way or without a connection: its leave is behind every presence.
THEOREM ClosedStaysOutside == Spec => []ClosedIsOutside
  <1>1. IInv => ClosedIsOutside
    BY DEF IInv, IClosed, ClosedIsOutside, Quiet, Has
  <1>2. QED
    BY <1>1, InvAlways, PTL

\* The client does not believe to be in a room it is not in (onPresence,
\* rejoinIfNecessary): whatever ended its stay it hears of, or a join follows.
THEOREM EnteredStaysInside == Spec => []EnteredIsInside
  <1>1. IInv => EnteredIsInside
    <2> SUFFICES ASSUME IInv, Quiet, status = "ENTERED", ~inside, ~unseen
                 PROVE  FALSE
      BY DEF EnteredIsInside
    <2>1. toServer = <<>> /\ toClient = <<>> /\ joins = 0 /\ up /\ box = "open"
      BY DEF Quiet, IInv, IType, TypeOK
    <2>2. Entering(status, toClient, Len(toClient))
      BY <2>1 DEF Entering
    <2>3. Recovers
      BY <2>1, <2>2 DEF IInv, IEntered
    <2>4. QED
      BY <2>1, <2>3 DEF Recovers, Has, Ignores
  <1>2. QED
    BY <1>1, InvAlways, PTL

\* Nor to be outside while its occupant is inside (onReconnection, onPresence).
THEOREM OutsideStaysOutside == Spec => []OutsideIsOutside
  <1>1. IInv => OutsideIsOutside
    BY DEF IInv, IOutside, OutsideIsOutside, Quiet, Has
  <1>2. QED
    BY <1>1, InvAlways, PTL
=============================================================================
