-------------------------- MODULE MucHistoryProofs --------------------------
(* Theorems about MucHistory for archives, pages and faults of any number.   *)
EXTENDS MucHistory, TLAPS, FiniteSetTheorems, WellFoundedInduction

-----------------------------------------------------------------------------
(* The types of what the variables hold.                                     *)

Hole == [before : Nat, start : Nat]

Query == [before : Nat, start : Nat, why : {"reconnected", "entered", "gap", "retry"}]

ToRoom == [kind : {"join", "late"}] \cup [kind : {"query"}, query : Query]

FromRoom ==
    [kind : {"self", "kicked", "late"}] \cup [kind : {"live"}, id : Nat]
    \cup [kind : {"page"}, query : Query, ids : Seq(Nat), complete : BOOLEAN]
    \cup [kind : {"error"}, query : Query]

Entry == [id : Nat, state : {"plain", "retracted", "dangling"}]

IType ==
    /\ archive \in Seq(Nat) /\ Len(archive) <= MaxPosted
    /\ inside \in BOOLEAN /\ up \in BOOLEAN /\ entering \in BOOLEAN /\ loaded \in BOOLEAN
    /\ toServer \in Seq(ToRoom) /\ toClient \in Seq(FromRoom)
    /\ status \in {"out", "joining", "in"}
    /\ cache \in Seq(Entry) /\ queue \in Seq(Nat)
    /\ holes \in SUBSET Hole /\ queries \in SUBSET Query /\ retries \in SUBSET Query
    /\ faults \in 0..MaxFaults /\ since \in 0..MaxPosted
    /\ unmarked \in BOOLEAN /\ disordered \in BOOLEAN

Sent == ToSet(toServer)
Coming == ToSet(toClient)

\* A retraction is of an earlier text; ids and bounds of holes are of the archive;
\* entries tell text from retraction.
IBounds ==
    /\ \A j \in 1..Len(archive) :
          archive[j] # 0 => archive[j] \in 1..Len(archive) /\ archive[j] < j /\ archive[archive[j]] = 0
    /\ \A e \in ToSet(cache) : e.id \in 1..Len(archive) /\ (e.state = "dangling" <=> archive[e.id] # 0)
    /\ ToSet(queue) \subseteq 1..Len(archive)
    /\ \A h \in holes : h.before \in 1..Len(archive) /\ h.start <= Len(archive)
    /\ \A q \in queries \cup retries : q.before <= Len(archive) /\ q.start <= Len(archive)
    /\ \A m \in Coming : m.kind = "live" => m.id \in 1..Len(archive)
    /\ \A m \in Coming : m.kind = "page" => ToSet(m.ids) \subseteq 1..Len(archive)

OfRoom(m) == m.kind \in {"live", "self", "kicked"}
OfQuery(m) == m.kind \in {"query", "page", "error"}

\* What must hold of two stanzas in one direction, the first sent before the second.
Precedes(a, b) ==
    /\ a.kind = "kicked" => ~OfRoom(b)
    /\ b.kind = "self" => ~OfRoom(a)
    /\ a.kind = "live" /\ b.kind = "live" => a.id < b.id
    /\ a.kind = "join" => b.kind # "join"
    /\ OfQuery(a) /\ OfQuery(b) => a.query # b.query

InOrder(s) == \A k, l \in 1..Len(s) : k < l => Precedes(s[k], s[l])

\* Of a query, one stanza at most is on its way, and only while it is awaited.
IQueues ==
    /\ InOrder(toServer) /\ InOrder(toClient)
    /\ \A m \in Sent \cup Coming : OfQuery(m) => m.query \in queries
    /\ \A m \in Sent : \A n \in Coming : OfQuery(m) /\ OfQuery(n) => m.query # n.query

Joining == \E m \in Sent : m.kind = "join"

\* Where the client stands, by what is on its way.
IPhase ==
    /\ ~up => status = "out" /\ ~inside /\ Sent = {} /\ Coming = {}
    /\ Joining => status = "joining" /\ ~inside /\ \A m \in Coming : ~OfRoom(m)
    /\ \A m \in Coming : m.kind = "self" => status = "joining"
    /\ \A m \in Coming : m.kind = "kicked" => ~inside
    /\ status = "out" => ~inside /\ \A m \in Coming : ~OfRoom(m)
    /\ status = "joining" => Joining \/ \E m \in Coming : m.kind = "self"
    /\ ~inside => status = "out" \/ Joining \/ \E m \in Coming : m.kind = "kicked"
    /\ status = "in" => loaded \/ entering

IBase == IType /\ IBounds /\ IQueues /\ IPhase /\ NoDuplicates

-----------------------------------------------------------------------------
(* Induction: a set of numbers has a least element, and a bounded one has a   *)
(* greatest.                                                                 *)

LEMMA Least ==
  ASSUME NEW T, T \subseteq Nat, T # {}
  PROVE  \E x \in T : \A y \in T : x <= y
  <1> DEFINE R == OpToRel(<, Nat)
  <1>1. IsWellFoundedOn(R, Nat)
    BY NatLessThanWellFounded
  <1>2. \A x, y \in Nat : <<y, x>> \in R <=> y < x
    BY DEF OpToRel
  <1> HIDE DEF R
  <1>3. \E x \in T : \A y \in T : ~ (<<y, x>> \in R)
    BY <1>1, WFMin
  <1>4. PICK x \in T : \A y \in T : ~ (<<y, x>> \in R)
    BY <1>3
  <1>5. \A y \in T : ~ (y < x)
    BY <1>2, <1>4
  <1>6. \A y \in T : x <= y
    BY <1>4, <1>5
  <1>7. QED
    BY <1>4, <1>6

LEMMA Greatest ==
  ASSUME NEW T, T \subseteq Nat, T # {}, NEW n \in Nat, \A x \in T : x <= n
  PROVE  \E x \in T : \A y \in T : x >= y
  <1> DEFINE Bounds == {b \in Nat : \A x \in T : x <= b}
  <1>1. PICK b \in Bounds : \A c \in Bounds : b <= c
    BY Least
  <1>2. ASSUME b \notin T PROVE FALSE
    <2>1. \A x \in T : x < b
      BY <1>1, <1>2
    <2>2. PICK x \in T : x < b
      BY <2>1
    <2>3. b \in Nat /\ x \in Nat /\ b - 1 \in Nat
      BY <1>1, <2>2
    <2>4. \A y \in T : y <= b - 1
      BY <2>1, <2>3
    <2>5. b <= b - 1
      BY <1>1, <2>3, <2>4
    <2>6. QED
      BY <2>3, <2>5
  <1>3. QED
    BY <1>1, <1>2

LEMMA MaxFacts ==
  ASSUME NEW T, T \subseteq Nat, T # {}, NEW n \in Nat, \A x \in T : x <= n
  PROVE  Max(T) \in T /\ \A x \in T : x <= Max(T)
  <1>1. \E x \in T : \A y \in T : x >= y
    BY Greatest
  <1>2. Max(T) \in T /\ \A y \in T : Max(T) >= y
    BY <1>1 DEF Max
  <1>3. QED
    BY <1>2
-----------------------------------------------------------------------------
(* Sorting: entries of different ids have an order by id.                     *)

\* f lists the elements of S, which are n, in ascending order.
Lists(f, n, S) ==
    /\ f \in [1..n -> S]
    /\ \A k, l \in 1..n : k < l => f[k] < f[l]
    /\ \A x \in S : \E k \in 1..n : f[k] = x

Listed(S) == \E n \in Nat : \E f : Lists(f, n, S)

LEMMA ListedMore ==
  ASSUME NEW N \in Nat \ {0}, NEW S \in SUBSET (1..N), N \in S, Listed(S \ {N})
  PROVE  Listed(S)
  <1>1. PICK n \in Nat : \E f : Lists(f, n, S \ {N})
    BY DEF Listed
  <1>2. PICK f : Lists(f, n, S \ {N})
    BY <1>1
  <1> DEFINE g == [k \in 1..n + 1 |-> IF k = n + 1 THEN N ELSE f[k]]
  <1>3. /\ f \in [1..n -> S \ {N}]
        /\ \A k, l \in 1..n : k < l => f[k] < f[l]
        /\ \A x \in S \ {N} : \E k \in 1..n : f[k] = x
    BY <1>2 DEF Lists
  <1>4. \A k \in 1..n : g[k] = f[k] /\ g[k] \in S /\ g[k] < N
    <2>1. \A k \in 1..n : k \in 1..n + 1 /\ k # n + 1
      BY <1>1
    <2>2. \A x \in S \ {N} : x \in S /\ x < N
      OBVIOUS
    <2>3. \A k \in 1..n : f[k] \in S \ {N}
      BY <1>3
    <2>4. \A k \in 1..n : g[k] = f[k]
      BY <2>1
    <2> HIDE DEF g
    <2>5. QED
      BY <2>2, <2>3, <2>4
  <1>5. g[n + 1] = N /\ n + 1 \in 1..n + 1
    BY <1>1
  <1>6. \A k \in 1..n + 1 : k \in 1..n \/ k = n + 1
    BY <1>1
  <1>7. g \in [1..n + 1 -> S]
    BY <1>3, <1>4, <1>6
  <1> HIDE DEF g
  <1>8. \A k, l \in 1..n + 1 : k < l => g[k] < g[l]
    BY <1>1, <1>3, <1>4, <1>5, <1>6
  <1>9. \A x \in S : \E k \in 1..n + 1 : g[k] = x
    <2> SUFFICES ASSUME NEW x \in S PROVE \E k \in 1..n + 1 : g[k] = x
      OBVIOUS
    <2>1. CASE x = N
      BY <1>5, <2>1
    <2>2. CASE x # N
      <3>1. PICK k \in 1..n : f[k] = x
        BY <1>3, <2>2
      <3>2. k \in 1..n + 1 /\ g[k] = x
        BY <1>1, <1>4, <3>1
      <3>3. QED
        BY <3>2
    <2>3. QED
      BY <2>1, <2>2
  <1>10. Lists(g, n + 1, S) /\ n + 1 \in Nat
    BY <1>1, <1>7, <1>8, <1>9 DEF Lists
  <1>11. QED
    BY <1>10 DEF Listed

LEMMA ListedAll ==
  ASSUME NEW N \in Nat, NEW S \in SUBSET (1..N)
  PROVE  Listed(S)
  <1> DEFINE T == {n \in Nat : \E U \in SUBSET (1..n) : ~Listed(U)}
  <1> SUFFICES ASSUME T # {} PROVE FALSE
    OBVIOUS
  <1>1. PICK n \in T : \A m \in T : n <= m
    BY Least
  <1>2. PICK U \in SUBSET (1..n) : ~Listed(U)
    BY <1>1
  <1>3. n # 0
    <2> SUFFICES ASSUME n = 0 PROVE FALSE
      OBVIOUS
    <2>1. U = {}
      BY <1>2
    <2>2. Lists([k \in 1..0 |-> 0], 0, {})
      BY DEF Lists
    <2>3. QED
      BY <1>2, <2>1, <2>2 DEF Listed
  <1>4. n - 1 \in Nat /\ n \in Nat \ {0}
    BY <1>1, <1>3
  <1>5. \A V \in SUBSET (1..n - 1) : Listed(V)
    <2>1. n - 1 \notin T
      BY <1>1, <1>4
    <2>2. QED
      BY <1>4, <2>1
  <1>6. U \ {n} \in SUBSET (1..n - 1)
    BY <1>2, <1>4
  <1>7. n \in U
    BY <1>2, <1>5, <1>6
  <1>8. QED
    BY <1>2, <1>4, <1>5, <1>6, <1>7, ListedMore

Distinct(s)  == \A k, l \in 1..Len(s) : s[k].id = s[l].id => k = l
Ascending(s) == \A k, l \in 1..Len(s) : k < l => s[k].id < s[l].id

InIdOrder(s, p) ==
    /\ p \in Bijection(1..Len(s), 1..Len(s))
    /\ \A k, l \in 1..Len(s) : k < l => s[p[k]].id <= s[p[l]].id

LEMMA OrderExists ==
  ASSUME NEW N \in Nat, NEW X, NEW s \in Seq(X), Distinct(s),
         \A k \in 1..Len(s) : s[k].id \in 1..N
  PROVE  \E p : InIdOrder(s, p)
  <1> DEFINE n == Len(s)
             ids == {s[k].id : k \in 1..n}
             h == [k \in 1..n |-> s[k].id]
  <1>1. n \in Nat
    OBVIOUS
  <1>2. ids \in SUBSET (1..N)
    OBVIOUS
  <1>3. PICK m \in Nat : \E f : Lists(f, m, ids)
    BY <1>2, ListedAll DEF Listed
  <1>4. PICK f : Lists(f, m, ids)
    BY <1>3
  <1>5. /\ f \in [1..m -> ids]
        /\ \A k, l \in 1..m : k < l => f[k] < f[l]
        /\ \A x \in ids : \E k \in 1..m : f[k] = x
    BY <1>4 DEF Lists
  <1>6. \A k \in 1..m : f[k] \in Nat
    BY <1>2, <1>5
  <1>7. \A k, l \in 1..m : f[k] = f[l] => k = l
    <2> SUFFICES ASSUME NEW k \in 1..m, NEW l \in 1..m, f[k] = f[l], k # l PROVE FALSE
      OBVIOUS
    <2>1. k < l \/ l < k
      BY <1>3
    <2>2. QED
      BY <1>5, <1>6, <2>1
  <1>8. m = n
    <2>1. f \in Bijection(1..m, ids)
      BY <1>5, <1>7 DEF Bijection, Injection, Surjection, IsInjective
    <2>2. h \in [1..n -> ids] /\ \A x \in ids : \E k \in 1..n : h[k] = x
      OBVIOUS
    <2>3. \A k, l \in 1..n : h[k] = h[l] => k = l
      BY DEF Distinct
    <2>4. h \in Bijection(1..n, ids)
      BY <2>2, <2>3 DEF Bijection, Injection, Surjection, IsInjective
    <2>5. Cardinality(ids) = m
      BY <1>3, <2>1, FS_CountingElements DEF ExistsBijection
    <2>6. Cardinality(ids) = n
      BY <1>1, <2>4, FS_CountingElements DEF ExistsBijection
    <2>7. QED
      BY <2>5, <2>6
  <1> DEFINE p == [k \in 1..n |-> CHOOSE l \in 1..n : s[l].id = f[k]]
  <1>9. \A k \in 1..n : p[k] \in 1..n /\ s[p[k]].id = f[k]
    <2> SUFFICES ASSUME NEW k \in 1..n PROVE p[k] \in 1..n /\ s[p[k]].id = f[k]
      OBVIOUS
    <2>1. f[k] \in ids
      BY <1>5, <1>8
    <2>2. \E l \in 1..n : s[l].id = f[k]
      BY <2>1
    <2>3. QED
      BY <2>2
  <1>10. p \in [1..n -> 1..n]
    BY <1>9
  <1> HIDE DEF p
  <1>11. \A k, l \in 1..n : p[k] = p[l] => k = l
    BY <1>7, <1>8, <1>9
  <1>12. \A l \in 1..n : \E k \in 1..n : p[k] = l
    <2> SUFFICES ASSUME NEW l \in 1..n PROVE \E k \in 1..n : p[k] = l
      OBVIOUS
    <2>1. s[l].id \in ids
      OBVIOUS
    <2>2. PICK k \in 1..n : f[k] = s[l].id
      BY <1>5, <1>8, <2>1
    <2>3. p[k] = l
      BY <1>9, <2>2 DEF Distinct
    <2>4. QED
      BY <2>3
  <1>13. p \in Bijection(1..n, 1..n)
    BY <1>10, <1>11, <1>12 DEF Bijection, Injection, Surjection, IsInjective
  <1>14. \A k, l \in 1..n : k < l => s[p[k]].id <= s[p[l]].id
    <2>1. \A k, l \in 1..n : k < l => f[k] <= f[l]
      BY <1>5, <1>6, <1>8
    <2>2. QED
      BY <1>9, <2>1
  <1>15. QED
    BY <1>13, <1>14 DEF InIdOrder

\* What Sorted makes of entries of different ids: the same, ascending.
LEMMA SortedFacts ==
  ASSUME NEW N \in Nat, NEW X, NEW s \in Seq(X), Distinct(s),
         \A k \in 1..Len(s) : s[k].id \in 1..N
  PROVE  /\ Sorted(s) \in Seq(X) /\ Len(Sorted(s)) = Len(s)
         /\ ToSet(Sorted(s)) = ToSet(s)
         /\ Ascending(Sorted(s)) /\ Distinct(Sorted(s))
  <1> DEFINE n == Len(s)
             q == CHOOSE p \in Bijection(DOMAIN s, DOMAIN s) :
                    \A k, l \in DOMAIN s : k < l => s[p[k]].id <= s[p[l]].id
  <1>1. n \in Nat /\ DOMAIN s = 1..n
    OBVIOUS
  <1>2. \E p \in Bijection(DOMAIN s, DOMAIN s) :
          \A k, l \in DOMAIN s : k < l => s[p[k]].id <= s[p[l]].id
    BY <1>1, OrderExists DEF InIdOrder
  <1>3. /\ q \in Bijection(1..n, 1..n)
        /\ \A k, l \in 1..n : k < l => s[q[k]].id <= s[q[l]].id
    BY <1>1, <1>2
  <1>4. Sorted(s) = [k \in 1..n |-> s[q[k]]]
    BY <1>1 DEF Sorted
  <1> HIDE DEF q
  <1>5. /\ q \in [1..n -> 1..n]
        /\ \A k, l \in 1..n : q[k] = q[l] => k = l
        /\ \A l \in 1..n : \E k \in 1..n : q[k] = l
    BY <1>3 DEF Bijection, Injection, Surjection, IsInjective
  <1>6. Sorted(s) \in [1..n -> X]
    BY <1>4, <1>5
  <1>7. Sorted(s) \in Seq(X) /\ Len(Sorted(s)) = n
    BY <1>1, <1>6
  <1>8. \A k \in 1..n : Sorted(s)[k] = s[q[k]] /\ q[k] \in 1..n
    BY <1>4, <1>5
  <1>9. ToSet(Sorted(s)) = ToSet(s)
    <2>1. ToSet(Sorted(s)) = {Sorted(s)[k] : k \in 1..n}
      BY <1>4 DEF ToSet
    <2>2. ToSet(s) = {s[k] : k \in 1..n}
      BY <1>1 DEF ToSet
    <2>3. {Sorted(s)[k] : k \in 1..n} \subseteq {s[k] : k \in 1..n}
      BY <1>8
    <2>4. ASSUME NEW l \in 1..n PROVE \E k \in 1..n : Sorted(s)[k] = s[l]
      <3>1. PICK k \in 1..n : q[k] = l
        BY <1>5
      <3>2. QED
        BY <1>8, <3>1
    <2>5. QED
      BY <2>1, <2>2, <2>3, <2>4
  <1>10. \A k, l \in 1..n : s[q[k]].id = s[q[l]].id => k = l
    <2>1. \A k, l \in 1..n : s[k].id = s[l].id => k = l
      BY DEF Distinct
    <2>2. \A k, l \in 1..n : s[q[k]].id = s[q[l]].id => q[k] = q[l]
      BY <1>8, <2>1
    <2>3. QED
      BY <1>5, <2>2
  <1>11. Distinct(Sorted(s))
    BY <1>7, <1>8, <1>10 DEF Distinct
  <1>12. Ascending(Sorted(s))
    <2> SUFFICES ASSUME NEW k \in 1..n, NEW l \in 1..n, k < l
                 PROVE  Sorted(s)[k].id < Sorted(s)[l].id
      BY <1>7 DEF Ascending
    <2>1. s[q[k]].id <= s[q[l]].id
      BY <1>3
    <2>2. s[q[k]].id # s[q[l]].id
      BY <1>10
    <2>3. s[q[k]].id \in Nat /\ s[q[l]].id \in Nat
      BY <1>8
    <2>4. Sorted(s)[k] = s[q[k]] /\ Sorted(s)[l] = s[q[l]]
      BY <1>8
    <2>5. \A a, b \in Nat : a <= b /\ a # b => a < b
      OBVIOUS
    <2> HIDE DEF n
    <2>6. s[q[k]].id < s[q[l]].id
      BY <2>1, <2>2, <2>3, <2>5
    <2>7. QED
      BY <2>4, <2>6
  <1>13. QED
    BY <1>7, <1>9, <1>11, <1>12

-----------------------------------------------------------------------------
(* Sequences by what is in them.                                             *)

LEMMA SeqSet ==
  ASSUME NEW X, NEW s \in Seq(X)
  PROVE  /\ ToSet(s) = {s[k] : k \in 1..Len(s)} /\ ToSet(s) \subseteq X
         /\ s = <<>> <=> ToSet(s) = {}
         /\ \A x \in ToSet(s) : \E k \in 1..Len(s) : s[k] = x
         /\ \A k \in 1..Len(s) : s[k] \in ToSet(s)
  <1>1. DOMAIN s = 1..Len(s) /\ Len(s) \in Nat
    OBVIOUS
  <1>2. ToSet(s) = {s[k] : k \in 1..Len(s)}
    BY <1>1 DEF ToSet
  <1>3. s # <<>> => 1 \in 1..Len(s)
    OBVIOUS
  <1>4. s = <<>> => 1..Len(s) = {}
    OBVIOUS
  <1>5. QED
    BY <1>2, <1>3, <1>4

LEMMA EmptySet ==
  ASSUME NEW X
  PROVE  <<>> \in Seq(X) /\ ToSet(<<>>) = {}
  <1>1. <<>> \in Seq(X)
    OBVIOUS
  <1>2. QED
    BY <1>1, SeqSet

LEMMA AppendSet ==
  ASSUME NEW X, NEW s \in Seq(X), NEW x \in X
  PROVE  /\ Append(s, x) \in Seq(X) /\ Append(s, x) # <<>>
         /\ ToSet(Append(s, x)) = ToSet(s) \cup {x}
         /\ Len(s) \in Nat /\ Len(Append(s, x)) = Len(s) + 1
         /\ \A k \in 1..Len(s) : Append(s, x)[k] = s[k]
         /\ Append(s, x)[Len(s) + 1] = x
  <1> DEFINE u == Append(s, x)
  <1>1. /\ u # <<>> /\ u \in Seq(X) /\ Len(s) \in Nat /\ Len(u) = Len(s) + 1
        /\ \A k \in 1..Len(s) : u[k] = s[k]
        /\ u[Len(s) + 1] = x
    OBVIOUS
  <1> HIDE DEF u
  <1>2. ToSet(u) \subseteq ToSet(s) \cup {x}
    <2> SUFFICES ASSUME NEW k \in 1..Len(s) + 1 PROVE u[k] \in ToSet(s) \cup {x}
      BY <1>1, SeqSet
    <2>1. k \in 1..Len(s) \/ k = Len(s) + 1
      BY <1>1
    <2>2. QED
      BY <1>1, <2>1, SeqSet
  <1>3. x \in ToSet(u)
    <2>1. Len(s) + 1 \in 1..Len(u)
      BY <1>1
    <2>2. QED
      BY <1>1, <2>1, SeqSet
  <1>4. ToSet(s) \subseteq ToSet(u)
    <2> SUFFICES ASSUME NEW k \in 1..Len(s) PROVE s[k] \in ToSet(u)
      BY SeqSet
    <2>1. k \in 1..Len(u)
      BY <1>1
    <2>2. QED
      BY <1>1, <2>1, SeqSet
  <1>5. QED
    BY <1>1, <1>2, <1>3, <1>4 DEF u

LEMMA TailSet ==
  ASSUME NEW X, NEW s \in Seq(X), s # <<>>
  PROVE  /\ Tail(s) \in Seq(X) /\ Head(s) \in X
         /\ ToSet(s) = ToSet(Tail(s)) \cup {Head(s)}
         /\ Len(s) \in Nat \ {0} /\ Len(Tail(s)) = Len(s) - 1
         /\ \A k \in 1..Len(s) - 1 : Tail(s)[k] = s[k + 1]
         /\ Head(s) = s[1]
  <1> DEFINE u == Tail(s)
  <1>1. /\ u \in Seq(X) /\ Len(s) \in Nat \ {0} /\ Len(u) = Len(s) - 1
        /\ \A k \in 1..Len(s) - 1 : u[k] = s[k + 1]
        /\ Head(s) = s[1] /\ Head(s) \in X
    OBVIOUS
  <1> HIDE DEF u
  <1>2. Head(s) \in ToSet(s)
    BY <1>1, SeqSet
  <1>3. ToSet(u) \subseteq ToSet(s)
    <2> SUFFICES ASSUME NEW k \in 1..Len(s) - 1 PROVE u[k] \in ToSet(s)
      BY <1>1, SeqSet
    <2>1. k + 1 \in 1..Len(s)
      BY <1>1
    <2>2. QED
      BY <1>1, <2>1, SeqSet
  <1>4. ToSet(s) \subseteq ToSet(u) \cup {Head(s)}
    <2> SUFFICES ASSUME NEW k \in 1..Len(s), k # 1 PROVE s[k] \in ToSet(u)
      BY <1>1, SeqSet
    <2>1. k - 1 \in 1..Len(s) - 1 /\ k - 1 + 1 = k
      BY <1>1
    <2>2. u[k - 1] = s[k]
      BY <1>1, <2>1
    <2>3. QED
      BY <1>1, <2>1, <2>2, SeqSet
  <1>5. QED
    BY <1>1, <1>2, <1>3, <1>4 DEF u

LEMMA ConcatSet ==
  ASSUME NEW X, NEW s \in Seq(X), NEW t \in Seq(X)
  PROVE  s \o t \in Seq(X) /\ ToSet(s \o t) = ToSet(s) \cup ToSet(t)
  <1> DEFINE u == s \o t
  <1>1. /\ u \in Seq(X) /\ Len(s) \in Nat /\ Len(t) \in Nat /\ Len(u) = Len(s) + Len(t)
        /\ \A k \in 1..Len(s) : u[k] = s[k]
        /\ \A k \in 1..Len(t) : u[Len(s) + k] = t[k]
    OBVIOUS
  <1> HIDE DEF u
  <1>2. ToSet(u) \subseteq ToSet(s) \cup ToSet(t)
    <2> SUFFICES ASSUME NEW k \in 1..Len(s) + Len(t) PROVE u[k] \in ToSet(s) \cup ToSet(t)
      BY <1>1, SeqSet
    <2>1. CASE k \in 1..Len(s)
      BY <1>1, <2>1, SeqSet
    <2>2. CASE k \notin 1..Len(s)
      <3>1. k - Len(s) \in 1..Len(t) /\ Len(s) + (k - Len(s)) = k
        BY <1>1, <2>2
      <3>2. u[k] = t[k - Len(s)]
        BY <1>1, <3>1
      <3>3. QED
        BY <3>1, <3>2, SeqSet
    <2>3. QED
      BY <2>1, <2>2
  <1>3. ToSet(s) \subseteq ToSet(u)
    <2> SUFFICES ASSUME NEW k \in 1..Len(s) PROVE s[k] \in ToSet(u)
      BY SeqSet
    <2>1. k \in 1..Len(u)
      BY <1>1
    <2>2. QED
      BY <1>1, <2>1, SeqSet
  <1>4. ToSet(t) \subseteq ToSet(u)
    <2> SUFFICES ASSUME NEW k \in 1..Len(t) PROVE t[k] \in ToSet(u)
      BY SeqSet
    <2>1. Len(s) + k \in 1..Len(u)
      BY <1>1
    <2>2. QED
      BY <1>1, <2>1, SeqSet
  <1>5. QED
    BY <1>1, <1>2, <1>3, <1>4 DEF u

LEMMA StartSet ==
  ASSUME NEW X, NEW s \in Seq(X), NEW n \in 0..Len(s)
  PROVE  SubSeq(s, 1, n) \in Seq(X) /\ ToSet(SubSeq(s, 1, n)) \subseteq ToSet(s)
  <1> DEFINE u == SubSeq(s, 1, n)
  <1>1. u \in Seq(X) /\ Len(u) = n /\ \A k \in 1..n : u[k] = s[k] /\ k \in 1..Len(s)
    OBVIOUS
  <1> HIDE DEF u
  <1>2. ToSet(u) \subseteq ToSet(s)
    <2>1. ToSet(u) = {u[k] : k \in 1..n}
      BY <1>1, SeqSet
    <2>2. \A k \in 1..n : u[k] \in ToSet(s)
      BY <1>1, SeqSet
    <2>3. QED
      BY <2>1, <2>2
  <1>3. QED
    BY <1>1, <1>2 DEF u

LEMMA OutdatedSet ==
  ASSUME NEW X, NEW s \in Seq(X), NEW q, [kind |-> "late"] \in X
  PROVE  /\ Outdated(s, q) \in Seq(X) /\ Len(Outdated(s, q)) = Len(s)
         /\ \A k \in 1..Len(s) : Outdated(s, q)[k] =
                IF OfQuery(s[k]) /\ s[k].query = q THEN [kind |-> "late"] ELSE s[k]
         /\ \A m \in ToSet(Outdated(s, q)) :
                m = [kind |-> "late"] \/ (m \in ToSet(s) /\ ~(OfQuery(m) /\ m.query = q))
         /\ \A m \in ToSet(s) : m \in ToSet(Outdated(s, q)) \/ (OfQuery(m) /\ m.query = q)
  <1> DEFINE u == Outdated(s, q)
  <1>1. Len(s) \in Nat /\ \A k \in 1..Len(s) : s[k] \in X
    OBVIOUS
  <1>2. u \in [1..Len(s) -> X] /\ \A k \in 1..Len(s) : u[k] =
            IF OfQuery(s[k]) /\ s[k].query = q THEN [kind |-> "late"] ELSE s[k]
    BY <1>1 DEF Outdated, OfQuery
  <1> HIDE DEF u
  <1>3. u \in Seq(X) /\ Len(u) = Len(s)
    BY <1>1, <1>2
  <1>4. ASSUME NEW m \in ToSet(u)
        PROVE  m = [kind |-> "late"] \/ (m \in ToSet(s) /\ ~(OfQuery(m) /\ m.query = q))
    <2>1. PICK k \in 1..Len(s) : u[k] = m
      BY <1>3, <1>4, SeqSet
    <2>2. s[k] \in ToSet(s)
      BY <2>1, SeqSet
    <2>3. CASE OfQuery(s[k]) /\ s[k].query = q
      BY <1>2, <2>1, <2>3
    <2>4. CASE ~(OfQuery(s[k]) /\ s[k].query = q)
      <3>1. u[k] = s[k]
        BY <1>2, <2>4
      <3>2. QED
        BY <2>1, <2>2, <2>4, <3>1
    <2>5. QED
      BY <2>3, <2>4
  <1>5. ASSUME NEW m \in ToSet(s) PROVE m \in ToSet(u) \/ (OfQuery(m) /\ m.query = q)
    <2>1. PICK k \in 1..Len(s) : s[k] = m
      BY <1>5, SeqSet
    <2>2. u[k] \in ToSet(u)
      BY <1>3, <2>1, SeqSet
    <2>3. CASE OfQuery(s[k]) /\ s[k].query = q
      BY <2>1, <2>3
    <2>4. CASE ~(OfQuery(s[k]) /\ s[k].query = q)
      <3>1. u[k] = s[k]
        BY <1>2, <2>4
      <3>2. QED
        BY <2>1, <2>2, <3>1
    <2>5. QED
      BY <2>3, <2>4
  <1>6. QED
    BY <1>2, <1>3, <1>4, <1>5 DEF u

LEMMA AppendInOrder ==
  ASSUME NEW X, NEW s \in Seq(X), NEW x \in X, InOrder(s), \A m \in ToSet(s) : Precedes(m, x)
  PROVE  InOrder(Append(s, x))
  <1> DEFINE u == Append(s, x)
  <1>1. /\ Len(s) \in Nat /\ Len(u) = Len(s) + 1
        /\ \A k \in 1..Len(s) : u[k] = s[k] /\ s[k] \in ToSet(s)
        /\ u[Len(s) + 1] = x
    BY AppendSet, SeqSet
  <1> HIDE DEF u
  <1> SUFFICES ASSUME NEW k \in 1..Len(s) + 1, NEW l \in 1..Len(s) + 1, k < l
               PROVE  Precedes(u[k], u[l])
    BY <1>1 DEF InOrder, u
  <1>2. k \in 1..Len(s)
    BY <1>1
  <1>3. CASE l \in 1..Len(s)
    BY <1>1, <1>2, <1>3 DEF InOrder
  <1>4. CASE l = Len(s) + 1
    BY <1>1, <1>2, <1>4
  <1>5. QED
    BY <1>1, <1>3, <1>4

LEMMA TailInOrder ==
  ASSUME NEW X, NEW s \in Seq(X), s # <<>>, InOrder(s)
  PROVE  InOrder(Tail(s)) /\ \A m \in ToSet(Tail(s)) : Precedes(Head(s), m)
  <1> DEFINE u == Tail(s)
  <1>1. /\ u \in Seq(X) /\ Len(s) \in Nat \ {0} /\ Len(u) = Len(s) - 1
        /\ \A k \in 1..Len(s) - 1 : u[k] = s[k + 1]
        /\ Head(s) = s[1]
    BY TailSet
  <1> HIDE DEF u
  <1>2. InOrder(u)
    <2> SUFFICES ASSUME NEW k \in 1..Len(s) - 1, NEW l \in 1..Len(s) - 1, k < l
                 PROVE  Precedes(u[k], u[l])
      BY <1>1 DEF InOrder
    <2>1. k + 1 \in 1..Len(s) /\ l + 1 \in 1..Len(s) /\ k + 1 < l + 1
      BY <1>1
    <2>2. QED
      BY <1>1, <2>1 DEF InOrder
  <1>3. ASSUME NEW m \in ToSet(u) PROVE Precedes(Head(s), m)
    <2>1. PICK k \in 1..Len(s) - 1 : u[k] = m
      BY <1>1, <1>3, SeqSet
    <2>2. k + 1 \in 1..Len(s) /\ 1 \in 1..Len(s) /\ 1 < k + 1
      BY <1>1, <2>1
    <2>3. QED
      BY <1>1, <2>1, <2>2 DEF InOrder
  <1>4. QED
    BY <1>2, <1>3 DEF u

LEMMA OutdatedInOrder ==
  ASSUME NEW X, NEW s \in Seq(X), NEW q, [kind |-> "late"] \in X, InOrder(s)
  PROVE  InOrder(Outdated(s, q))
  <1> DEFINE u == Outdated(s, q)
  <1>1. /\ Len(u) = Len(s)
        /\ \A k \in 1..Len(s) : u[k] = [kind |-> "late"] \/ u[k] = s[k]
    BY OutdatedSet
  <1> HIDE DEF u
  <1> SUFFICES ASSUME NEW k \in 1..Len(s), NEW l \in 1..Len(s), k < l PROVE Precedes(u[k], u[l])
    BY <1>1 DEF InOrder, u
  <1>2. Precedes(s[k], s[l])
    BY DEF InOrder
  <1>3. \A m : Precedes([kind |-> "late"], m) /\ Precedes(m, [kind |-> "late"])
    BY DEF Precedes, OfRoom, OfQuery
  <1>4. QED
    BY <1>1, <1>2, <1>3

LEMMA EmptyInOrder == InOrder(<<>>)
  BY DEF InOrder

-----------------------------------------------------------------------------
(* What an action does to the queues.                                        *)

LEMMA FromRoomKinds ==
  ASSUME NEW m \in FromRoom
  PROVE  /\ m.kind \in {"self", "kicked", "late", "live", "page", "error"}
         /\ m.kind = "live" => m.id \in Nat
         /\ m.kind = "page" => m.query \in Query /\ m.ids \in Seq(Nat) /\ m.complete \in BOOLEAN
         /\ m.kind = "error" => m.query \in Query
  BY DEF FromRoom

LEMMA ToRoomKinds ==
  ASSUME NEW m \in ToRoom
  PROVE  /\ m.kind \in {"join", "late", "query"}
         /\ m.kind = "query" => m.query \in Query
  BY DEF ToRoom

LEMMA Stanzas ==
  /\ \A kind \in {"join", "late"} : [kind |-> kind] \in ToRoom
  /\ \A q \in Query : [kind |-> "query", query |-> q] \in ToRoom
  /\ \A kind \in {"self", "kicked", "late"} : [kind |-> kind] \in FromRoom
  /\ \A i \in Nat : [kind |-> "live", id |-> i] \in FromRoom
  /\ \A q \in Query : [kind |-> "error", query |-> q] \in FromRoom
  /\ \A q \in Query, ids \in Seq(Nat), complete \in BOOLEAN :
        [kind |-> "page", query |-> q, ids |-> ids, complete |-> complete] \in FromRoom
  BY DEF ToRoom, FromRoom

LEMMA GotFacts ==
  ASSUME IType, IQueues, NEW kind, Got(kind)
  PROVE  /\ up /\ toClient' = Tail(toClient) /\ toClient' \in Seq(FromRoom)
         /\ Head(toClient) \in FromRoom /\ Head(toClient) \in Coming /\ Head(toClient).kind = kind
         /\ Coming = Coming' \cup {Head(toClient)}
         /\ InOrder(toClient') /\ \A m \in Coming' : Precedes(Head(toClient), m)
  <1>1. /\ up /\ toClient # <<>> /\ Head(toClient).kind = kind /\ toClient' = Tail(toClient)
        /\ toClient \in Seq(FromRoom) /\ InOrder(toClient)
    BY DEF IType, IQueues, Got
  <1>2. /\ toClient' \in Seq(FromRoom) /\ Head(toClient) \in FromRoom
        /\ ToSet(toClient) = ToSet(toClient') \cup {Head(toClient)}
    BY <1>1, TailSet
  <1>3. InOrder(toClient') /\ \A m \in ToSet(toClient') : Precedes(Head(toClient), m)
    BY <1>1, TailInOrder
  <1>4. QED
    BY <1>1, <1>2, <1>3 DEF Coming

LEMMA ArrivesFacts ==
  ASSUME IType, IQueues, NEW s, Arrives(s)
  PROVE  /\ up /\ toServer' = Tail(toServer) /\ toServer' \in Seq(ToRoom) /\ s = Head(toServer)
         /\ s \in ToRoom /\ s \in Sent /\ Sent = Sent' \cup {s}
         /\ InOrder(toServer') /\ \A m \in Sent' : Precedes(s, m)
  <1>1. /\ up /\ toServer # <<>> /\ Head(toServer) = s /\ toServer' = Tail(toServer)
        /\ toServer \in Seq(ToRoom) /\ InOrder(toServer)
    BY DEF IType, IQueues, Arrives
  <1>2. /\ toServer' \in Seq(ToRoom) /\ s \in ToRoom
        /\ ToSet(toServer) = ToSet(toServer') \cup {s}
    BY <1>1, TailSet
  <1>3. InOrder(toServer') /\ \A m \in ToSet(toServer') : Precedes(s, m)
    BY <1>1, TailInOrder
  <1>4. QED
    BY <1>1, <1>2, <1>3 DEF Sent

LEMMA ComesFacts ==
  ASSUME IType, NEW s \in FromRoom, toClient' = Append(toClient, s)
  PROVE  /\ toClient' \in Seq(FromRoom) /\ Coming' = Coming \cup {s}
         /\ InOrder(toClient) /\ (\A m \in Coming : Precedes(m, s)) => InOrder(toClient')
  <1>1. toClient \in Seq(FromRoom)
    BY DEF IType
  <1>2. toClient' \in Seq(FromRoom) /\ ToSet(toClient') = ToSet(toClient) \cup {s}
    BY <1>1, AppendSet
  <1>3. QED
    BY <1>1, <1>2, AppendInOrder DEF Coming

LEMMA SendsFacts ==
  ASSUME NEW t \in Seq(ToRoom), NEW s \in ToRoom, toServer' = Append(t, s)
  PROVE  /\ toServer' \in Seq(ToRoom) /\ Sent' = ToSet(t) \cup {s}
         /\ InOrder(t) /\ (\A m \in ToSet(t) : Precedes(m, s)) => InOrder(toServer')
  BY AppendSet, AppendInOrder DEF Sent

\* A query that is asked anew is the only one of its kind.
LEMMA AskFacts ==
  ASSUME IType, IQueues, NEW t \in Seq(ToRoom), InOrder(t), NEW q \in Query, Ask(t, q),
         \A m \in ToSet(t) : m \in Sent \/ m = [kind |-> "join"],
         Coming' = Coming, InOrder(toClient')
  PROVE  /\ toServer' \in Seq(ToRoom) /\ queries' = queries \cup {q} /\ q \notin queries
         /\ Sent' = ToSet(t) \cup {[kind |-> "query", query |-> q]}
         /\ IQueues' /\ \A m \in Coming : OfQuery(m) => m.query # q
  <1> DEFINE s == [kind |-> "query", query |-> q]
  <1>1. q \notin queries /\ toServer' = Append(t, s) /\ queries' = queries \cup {q}
    BY DEF Ask
  <1>2. s \in ToRoom
    BY Stanzas
  <1>3. s.kind = "query" /\ s.query = q /\ OfQuery(s)
    BY DEF OfQuery
  <1> HIDE DEF s
  <1>4. \A m \in ToSet(t) : OfQuery(m) => m \in Sent /\ m.query \in queries
    <2>1. ~OfQuery([kind |-> "join"])
      BY DEF OfQuery
    <2>2. QED
      BY <2>1 DEF IQueues
  <1>5. \A m \in Coming : OfQuery(m) => m.query \in queries
    BY DEF IQueues
  <1>6. \A m \in ToSet(t) : Precedes(m, s)
    BY <1>1, <1>3, <1>4 DEF Precedes, OfRoom
  <1>7. toServer' \in Seq(ToRoom) /\ Sent' = ToSet(t) \cup {s} /\ InOrder(toServer')
    BY <1>1, <1>2, <1>6, SendsFacts
  <1>8. \A m \in Sent' \cup Coming' : OfQuery(m) => m.query \in queries'
    BY <1>1, <1>3, <1>4, <1>5, <1>7
  <1>9. \A m \in Sent' : \A n \in Coming' : OfQuery(m) /\ OfQuery(n) => m.query # n.query
    BY <1>1, <1>3, <1>4, <1>5, <1>7 DEF IQueues
  <1>10. QED
    BY <1>1, <1>5, <1>7, <1>8, <1>9 DEF IQueues, s

-----------------------------------------------------------------------------
(* What a page of the archive holds.                                         *)

\* The page m brings i, or the hole that will be below it covers i.
Brings(m, i) == i \in ToSet(m.ids) \/ (~m.complete /\ m.ids # <<>> /\ i < Head(m.ids) /\ i >= m.query.start)

LEMMA PageFacts ==
  ASSUME archive \in Seq(Nat), NEW q \in Query, q.before <= Len(archive), q.start <= Len(archive)
  PROVE  /\ Page(q) \in Seq(Nat) /\ Complete(q) \in BOOLEAN
         /\ \A i \in ToSet(Page(q)) : i \in 1..Len(archive) /\ q.start <= i /\ (q.before # 0 => i < q.before)
         /\ \A i \in 1..Len(archive) : Covers(q, i) =>
               \/ i \in ToSet(Page(q))
               \/ ~Complete(q) /\ Page(q) # <<>> /\ i < Head(Page(q)) /\ i >= q.start
  <1> DEFINE lo == First(q)
             hi == Final(q)
             size == IF hi < lo THEN 0 ELSE IF Complete(q) THEN hi - lo + 1 ELSE PageSize
  <1>1. Len(archive) \in Nat /\ q.before \in Nat /\ q.start \in Nat /\ PageSize \in Nat \ {0}
    BY HistoryAssumption DEF Query
  <1>2. /\ lo \in Nat \ {0} /\ hi \in Nat /\ hi <= Len(archive)
        /\ \A i \in Nat : i >= lo => i >= q.start
        /\ \A i \in Nat : q.before # 0 /\ i <= hi => i < q.before
        /\ \A i \in 1..Len(archive) : Covers(q, i) => lo <= i /\ i <= hi
    <2>1. lo = (IF q.start = 0 THEN 1 ELSE q.start)
      BY DEF First
    <2>2. hi = (IF q.before = 0 THEN Len(archive) ELSE q.before - 1)
      BY DEF Final
    <2> HIDE DEF lo, hi
    <2>3. /\ lo \in Nat \ {0} /\ \A i \in Nat : i >= lo => i >= q.start
      BY <1>1, <2>1
    <2>4. hi \in Nat /\ hi <= Len(archive) /\ \A i \in Nat : q.before # 0 /\ i <= hi => i < q.before
      BY <1>1, <2>2
    <2>5. \A i \in 1..Len(archive) : Covers(q, i) => lo <= i /\ i <= hi
      BY <1>1, <2>1, <2>2 DEF Covers
    <2>6. QED
      BY <2>3, <2>4, <2>5
  <1>3. Complete(q) <=> hi < lo + PageSize
    BY DEF Complete
  <1>4. Page(q) = [k \in 1..size |-> hi - size + k]
    BY DEF Page
  <1>5. Complete(q) \in BOOLEAN
    BY DEF Complete
  <1> HIDE DEF lo, hi
  <1>6. /\ size \in Nat
        /\ size = 0 <=> hi < lo
        /\ size # 0 => hi - size >= lo - 1
        /\ size # 0 /\ Complete(q) => hi - size = lo - 1
        /\ size = 0 => Complete(q)
    BY <1>1, <1>2, <1>3
  <1> HIDE DEF size
  <1> DEFINE below == hi - size
  <1>7. /\ below \in Nat /\ hi = below + size
        /\ size # 0 => below + 1 >= lo
    <2>1. CASE size = 0
      BY <1>2, <2>1
    <2>2. CASE size # 0
      <3>1. hi \in Nat /\ lo \in Nat \ {0} /\ size \in Nat /\ hi - size >= lo - 1
        BY <1>2, <1>6, <2>2
      <3>2. QED
        BY <3>1
    <2>3. QED
      BY <2>1, <2>2
  <1>8. Page(q) = [k \in 1..size |-> below + k]
    BY <1>4
  <1> HIDE DEF below
  <1>9. Page(q) \in Seq(Nat) /\ Len(Page(q)) = size /\ \A k \in 1..size : Page(q)[k] = below + k
    <2>1. \A k \in 1..size : below + k \in Nat
      BY <1>6, <1>7
    <2>2. Page(q) \in [1..size -> Nat]
      BY <1>8, <2>1
    <2>3. size \in Nat
      BY <1>6
    <2>4. Page(q) \in Seq(Nat) /\ Len(Page(q)) = size
      BY <2>2, <2>3
    <2>5. QED
      BY <1>8, <2>4
  <1>10. \A i \in ToSet(Page(q)) : i \in Nat /\ lo <= i /\ i <= hi
    <2> SUFFICES ASSUME NEW i \in ToSet(Page(q)) PROVE i \in Nat /\ lo <= i /\ i <= hi
      OBVIOUS
    <2>1. PICK k \in 1..size : Page(q)[k] = i
      BY <1>9, SeqSet
    <2>2. i = below + k
      BY <1>9, <2>1
    <2>3. size \in Nat /\ size # 0 /\ k \in Nat /\ k >= 1 /\ k <= size
      BY <1>6, <2>1
    <2>4. below + 1 >= lo /\ hi = below + size /\ below \in Nat /\ lo \in Nat
      BY <1>2, <1>7, <2>3
    <2>5. QED
      BY <2>2, <2>3, <2>4
  <1>11. ASSUME NEW i \in Nat, below < i, i <= hi PROVE i \in ToSet(Page(q))
    <2>1. PICK k \in 1..size : i = below + k
      <3>1. size \in Nat /\ below \in Nat /\ hi = below + size
        BY <1>6, <1>7
      <3>2. i - below \in 1..size /\ i = below + (i - below)
        BY <1>11, <3>1
      <3>3. QED
        BY <3>2
    <2>2. Page(q)[k] = i
      BY <1>9, <2>1
    <2>3. QED
      BY <1>9, <2>1, <2>2, SeqSet
  <1>12. \A i \in ToSet(Page(q)) : i \in 1..Len(archive) /\ q.start <= i /\ (q.before # 0 => i < q.before)
    BY <1>1, <1>2, <1>10
  <1>13. ASSUME NEW i \in 1..Len(archive), Covers(q, i), i \notin ToSet(Page(q))
         PROVE  ~Complete(q) /\ Page(q) # <<>> /\ i < Head(Page(q)) /\ i >= q.start
    <2>1. i \in Nat /\ lo <= i /\ i <= hi /\ i >= q.start
      BY <1>1, <1>2, <1>13
    <2>2. i <= below
      BY <1>7, <1>11, <1>13, <2>1
    <2>3. size # 0 /\ ~Complete(q)
      <3>1. size # 0
        BY <1>2, <1>6, <2>1
      <3>2. Complete(q) => below = lo - 1
        BY <1>6, <3>1 DEF below
      <3>3. QED
        BY <1>2, <2>1, <2>2, <3>1, <3>2
    <2>4. Page(q) # <<>> /\ 1 \in 1..size /\ Head(Page(q)) = Page(q)[1]
      BY <1>6, <1>9, <2>3
    <2>5. Head(Page(q)) = below + 1
      BY <1>9, <2>4
    <2>6. QED
      BY <1>7, <2>1, <2>2, <2>3, <2>4, <2>5
  <1>14. QED
    BY <1>5, <1>9, <1>12, <1>13

-----------------------------------------------------------------------------
(* Types, bounds, queues and entries of different ids, action by action.      *)

LEMMA CachedFacts ==
  ASSUME cache \in Seq(Entry)
  PROVE  /\ Cached = {e.id : e \in ToSet(cache)} /\ Cached \subseteq Nat
         /\ \A k \in 1..Len(cache) : cache[k] \in ToSet(cache)
         /\ \A e \in ToSet(cache) : e \in Entry /\ \E k \in 1..Len(cache) : cache[k] = e
         /\ cache # <<>> => /\ Last(cache) \in ToSet(cache) /\ Head(cache) \in ToSet(cache)
                            /\ Last(cache) = cache[Len(cache)] /\ Head(cache) = cache[1]
                            /\ Len(cache) \in 1..Len(cache) /\ 1 \in 1..Len(cache)
  <1>1. /\ \A k \in 1..Len(cache) : cache[k] \in ToSet(cache)
        /\ \A e \in ToSet(cache) : \E k \in 1..Len(cache) : cache[k] = e
        /\ ToSet(cache) \subseteq Entry
    BY SeqSet
  <1>2. Cached = {e.id : e \in ToSet(cache)}
    BY <1>1 DEF Cached
  <1>3. Cached \subseteq Nat
    BY <1>1, <1>2 DEF Entry
  <1>4. cache # <<>> => /\ Last(cache) = cache[Len(cache)] /\ Head(cache) = cache[1]
                        /\ Len(cache) \in 1..Len(cache) /\ 1 \in 1..Len(cache)
    BY DEF Last
  <1>5. QED
    BY <1>1, <1>2, <1>3, <1>4

LEMMA MostRecentFacts ==
  ASSUME IBase
  PROVE  /\ Cached \subseteq 1..Len(archive) /\ Known \subseteq 1..Len(archive)
         /\ MostRecent \in Cached \cup {0} /\ MostRecent <= Len(archive) /\ Len(archive) \in Nat
         /\ \A start \in Nat, why \in {"reconnected", "entered"} : Newest(start, why) \in Query
  <1>1. cache \in Seq(Entry) /\ Len(archive) \in Nat
    BY DEF IBase, IType
  <1>2. Cached \subseteq 1..Len(archive)
    BY <1>1, CachedFacts DEF IBase, IBounds
  <1>3. Known \subseteq 1..Len(archive)
    BY <1>2 DEF Known, IBase, IBounds
  <1>4. MostRecent \in Cached \cup {0}
    BY <1>1, CachedFacts DEF MostRecent
  <1>5. MostRecent \in Nat /\ MostRecent <= Len(archive)
    BY <1>1, <1>2, <1>4
  <1>6. QED
    BY <1>1, <1>2, <1>3, <1>4, <1>5 DEF Newest, Query

LEMMA SinceFacts ==
  ASSUME IType, NEW T \in SUBSET (0..Len(archive)), 0 \in T
  PROVE  Max(T) \in 0..MaxPosted /\ Max(T) \in T /\ \A i \in T : i <= Max(T)
  <1>1. Len(archive) \in Nat /\ Len(archive) <= MaxPosted /\ MaxPosted \in Nat
    BY HistoryAssumption DEF IType
  <1>2. T \subseteq Nat /\ T # {} /\ \A i \in T : i <= Len(archive)
    BY <1>1
  <1>3. Max(T) \in T /\ \A i \in T : i <= Max(T)
    BY <1>1, <1>2, MaxFacts
  <1>4. \A i \in T : i \in 0..MaxPosted
    BY <1>1
  <1>5. QED
    BY <1>3, <1>4

LEMMA BasePost ==
  ASSUME IBase, NEW t \in Texts \cup {0}, Post(t)
  PROVE  IBase'
  <1> DEFINE m == [kind |-> "live", id |-> Len(archive) + 1]
  <1>1. /\ archive \in Seq(Nat) /\ Len(archive) \in Nat /\ Len(archive) < MaxPosted /\ MaxPosted \in Nat
        /\ archive' = Append(archive, t)
    BY HistoryAssumption DEF IBase, IType, Post
  <1>2. t \in Nat /\ (t # 0 => t \in 1..Len(archive) /\ archive[t] = 0)
    BY <1>1 DEF Texts
  <1>3. /\ archive' \in Seq(Nat) /\ Len(archive') = Len(archive) + 1 /\ Len(archive') <= MaxPosted
        /\ \A k \in 1..Len(archive) : archive'[k] = archive[k] /\ k \in 1..Len(archive')
        /\ Len(archive') \in 1..Len(archive') /\ archive'[Len(archive')] = t
        /\ \A k \in 1..Len(archive') : k \in 1..Len(archive) \/ k = Len(archive')
    BY <1>1, <1>2, AppendSet
  <1>4. m \in FromRoom /\ m.kind = "live" /\ m.id = Len(archive')
    BY <1>1, <1>3, Stanzas
  <1> HIDE DEF m
  <1>5. ASSUME inside
        PROVE  toClient' \in Seq(FromRoom) /\ Coming' = Coming \cup {m} /\ InOrder(toClient')
    <2>1. toClient' = Append(toClient, m)
      BY <1>5 DEF Post, m
    <2>2. \A n \in Coming : Precedes(n, m)
      <3> SUFFICES ASSUME NEW n \in Coming PROVE Precedes(n, m)
        OBVIOUS
      <3>1. n.kind # "kicked"
        BY <1>5 DEF IBase, IPhase
      <3>2. n.kind = "live" => n.id < m.id
        BY <1>1, <1>3, <1>4 DEF IBase, IBounds
      <3>3. QED
        BY <1>4, <3>1, <3>2 DEF Precedes, OfQuery
    <2>3. toClient' \in Seq(FromRoom) /\ Coming' = Coming \cup {m} /\ InOrder(toClient')
      BY <1>4, <2>1, <2>2, ComesFacts DEF IBase, IQueues
    <2>4. QED
      BY <2>3
  <1>6. ASSUME ~inside
        PROVE  toClient' \in Seq(FromRoom) /\ Coming' = Coming /\ InOrder(toClient')
    <2>1. toClient' = toClient
      BY <1>6 DEF Post
    <2>2. QED
      BY <2>1 DEF IBase, IType, IQueues, Coming
  <1>7. /\ toClient' \in Seq(FromRoom) /\ InOrder(toClient')
        /\ Coming \subseteq Coming' /\ Coming' \subseteq Coming \cup {m} /\ (~inside => Coming' = Coming)
    <2>1. CASE inside
      BY <1>5, <2>1
    <2>2. CASE ~inside
      BY <1>6, <2>2
    <2>3. QED
      BY <2>1, <2>2
  <1>8. UNCHANGED <<inside, up, toServer, entry, store, gaps, faults, history>> /\ Sent' = Sent
    BY DEF Post, Sent
  <1>9. IType'
    BY <1>3, <1>7, <1>8 DEF IBase, IType, entry, store, gaps, history
  <1>10. IBounds'
    <2>1. \A e \in ToSet(cache) : e.id \in 1..Len(archive') /\ (e.state = "dangling" <=> archive'[e.id] # 0)
      BY <1>3 DEF IBase, IBounds
    <2>2. ToSet(queue) \subseteq 1..Len(archive')
      BY <1>3 DEF IBase, IBounds
    <2>3. \A h \in holes : h.before \in 1..Len(archive') /\ h.start <= Len(archive')
      BY <1>1, <1>3 DEF IBase, IBounds, IType, Hole
    <2>4. \A q \in queries \cup retries : q.before <= Len(archive') /\ q.start <= Len(archive')
      BY <1>1, <1>3 DEF IBase, IBounds, IType, Query
    <2>5. \A n \in Coming' : n.kind = "live" => n.id \in 1..Len(archive')
      BY <1>3, <1>4, <1>7 DEF IBase, IBounds
    <2>6. \A n \in Coming' : n.kind = "page" => ToSet(n.ids) \subseteq 1..Len(archive')
      BY <1>3, <1>4, <1>7 DEF IBase, IBounds
    <2>7. ASSUME NEW j \in 1..Len(archive'), archive'[j] # 0
          PROVE  archive'[j] \in 1..Len(archive') /\ archive'[j] < j /\ archive'[archive'[j]] = 0
      <3>1. CASE j \in 1..Len(archive)
        BY <1>3, <2>7, <3>1 DEF IBase, IBounds
      <3>2. CASE j = Len(archive')
        BY <1>1, <1>3, <1>2, <2>7, <3>2
      <3>3. QED
        BY <1>3, <3>1, <3>2
    <2>8. QED
      BY <1>8, <2>1, <2>2, <2>3, <2>4, <2>5, <2>6, <2>7 DEF IBounds, store, gaps
  <1>11. IQueues'
    BY <1>4, <1>7, <1>8 DEF IBase, IQueues, OfQuery, gaps
  <1>12. IPhase'
    BY <1>4, <1>7, <1>8 DEF IBase, IPhase, OfRoom, Joining, entry
  <1>13. NoDuplicates'
    BY <1>8 DEF IBase, NoDuplicates, store
  <1>14. QED
    BY <1>9, <1>10, <1>11, <1>12, <1>13 DEF IBase

LEMMA BaseAdmit ==
  ASSUME IBase, Admit
  PROVE  IBase'
  <1> DEFINE j == [kind |-> "join"]
             m == [kind |-> "self"]
  <1>1. /\ toServer' \in Seq(ToRoom) /\ j \in Sent /\ Sent = Sent' \cup {j} /\ up
        /\ InOrder(toServer') /\ \A n \in Sent' : Precedes(j, n)
    BY ArrivesFacts DEF Admit, IBase
  <1>2. Joining
    BY <1>1 DEF Joining
  <1>3. status = "joining" /\ \A n \in Coming : ~OfRoom(n)
    BY <1>2 DEF IBase, IPhase
  <1>4. \A n \in Coming : Precedes(n, m)
    BY <1>3 DEF Precedes, OfRoom, OfQuery
  <1>5. m \in FromRoom /\ toClient' = Append(toClient, m)
    BY Stanzas DEF Admit
  <1>6. toClient' \in Seq(FromRoom) /\ Coming' = Coming \cup {m} /\ InOrder(toClient')
    BY <1>4, <1>5, ComesFacts DEF IBase, IQueues
  <1>7. \A n \in Sent' : n.kind # "join"
    BY <1>1 DEF Precedes
  <1>8. inside' = TRUE /\ UNCHANGED <<archive, up, entry, store, gaps, faults, history>>
    BY DEF Admit
  <1>9. IType'
    BY <1>1, <1>6, <1>8 DEF IBase, IType, entry, store, gaps, history
  <1>10. IBounds'
    BY <1>6, <1>8 DEF IBase, IBounds, store, gaps
  <1>11. IQueues'
    BY <1>1, <1>6, <1>8 DEF IBase, IQueues, OfQuery, gaps
  <1>12. IPhase'
    <2>1. ~Joining' /\ \A n \in Coming' : n.kind # "kicked"
      BY <1>3, <1>6, <1>7 DEF Joining, OfRoom
    <2>2. m \in Coming' /\ m.kind = "self"
      BY <1>6
    <2> HIDE DEF m
    <2>3. up' /\ inside' /\ status' = "joining"
      BY <1>1, <1>3, <1>8 DEF entry
    <2>4. QED
      BY <2>1, <2>2, <2>3 DEF IPhase
  <1>13. NoDuplicates'
    BY <1>8 DEF IBase, NoDuplicates, store
  <1>14. QED
    BY <1>9, <1>10, <1>11, <1>12, <1>13 DEF IBase

\* The room answers a query with the stanza m, or with nothing anybody awaits.
LEMMA BaseAnswers ==
  ASSUME IBase, NEW s, Arrives(s), s.kind \in {"query", "late"},
         NEW m \in FromRoom, toClient' = Append(toClient, m),
         \/ m.kind \in {"page", "error"} /\ s.kind = "query" /\ m.query = s.query
         \/ m.kind = "late",
         m.kind = "page" => ToSet(m.ids) \subseteq 1..Len(archive),
         faults' \in 0..MaxFaults,
         UNCHANGED <<room, up, entry, store, gaps, history>>
  PROVE  IBase' /\ Sent = Sent' \cup {s} /\ Coming' = Coming \cup {m}
  <1>1. /\ toServer' \in Seq(ToRoom) /\ s \in Sent /\ Sent = Sent' \cup {s} /\ up
        /\ InOrder(toServer') /\ \A n \in Sent' : Precedes(s, n)
    BY ArrivesFacts DEF IBase
  <1>2. OfQuery(m) => OfQuery(s) /\ m.query = s.query
    BY DEF OfQuery
  <1>3. ~OfRoom(m)
    BY DEF OfRoom
  <1>4. \A n \in Coming : Precedes(n, m)
    BY <1>1, <1>2, <1>3 DEF Precedes, OfRoom, IBase, IQueues
  <1>5. toClient' \in Seq(FromRoom) /\ Coming' = Coming \cup {m} /\ InOrder(toClient')
    BY <1>4, ComesFacts DEF IBase, IQueues
  <1>6. \A n \in Sent' : OfQuery(n) /\ OfQuery(s) => n.query # s.query
    BY <1>1 DEF Precedes
  <1>7. Joining' <=> Joining
    BY <1>1 DEF Joining
  <1>8. IType'
    BY <1>1, <1>5 DEF IBase, IType, room, entry, store, gaps, history
  <1>9. IBounds'
    BY <1>3, <1>5 DEF IBase, IBounds, OfRoom, room, store, gaps
  <1>10. IQueues'
    BY <1>1, <1>2, <1>5, <1>6 DEF IBase, IQueues, gaps
  <1>11. IPhase'
    BY <1>1, <1>3, <1>5, <1>7 DEF IBase, IPhase, OfRoom, room, entry
  <1>12. NoDuplicates'
    BY DEF IBase, NoDuplicates, store
  <1>13. QED
    BY <1>1, <1>5, <1>8, <1>9, <1>10, <1>11, <1>12 DEF IBase

LEMMA FaultFacts ==
  ASSUME IType, Fault
  PROVE  faults' \in 0..MaxFaults
  BY HistoryAssumption DEF IType, Fault

LEMMA SentQuery ==
  ASSUME IBase, NEW q, [kind |-> "query", query |-> q] \in Sent
  PROVE  q \in Query /\ q \in queries /\ q.before <= Len(archive) /\ q.start <= Len(archive)
  <1>1. OfQuery([kind |-> "query", query |-> q])
    BY DEF OfQuery
  <1>2. q \in queries
    BY <1>1 DEF IBase, IQueues
  <1>3. QED
    BY <1>2 DEF IBase, IType, IBounds

LEMMA AnswerQueryFacts ==
  ASSUME IBase, NEW q, AnswerQuery(q)
  PROVE  LET s == [kind |-> "query", query |-> q]
             m == [kind |-> "page", query |-> q, ids |-> Page(q), complete |-> Complete(q)]
         IN  /\ IBase' /\ Sent = Sent' \cup {s} /\ Coming' = Coming \cup {m}
             /\ q \in Query /\ q \in queries /\ q.before <= Len(archive) /\ q.start <= Len(archive)
             /\ \A n \in Coming : OfQuery(n) => n.query # q
  <1> DEFINE s == [kind |-> "query", query |-> q]
             m == [kind |-> "page", query |-> q, ids |-> Page(q), complete |-> Complete(q)]
  <1>1. Arrives(s) /\ toClient' = Append(toClient, m)
        /\ UNCHANGED <<room, up, entry, store, gaps, faults, history>>
    BY DEF AnswerQuery
  <1>2. s \in Sent
    BY <1>1, ArrivesFacts DEF IBase
  <1>3. q \in Query /\ q \in queries /\ q.before <= Len(archive) /\ q.start <= Len(archive)
    BY <1>2, SentQuery
  <1>4. /\ Page(q) \in Seq(Nat) /\ Complete(q) \in BOOLEAN /\ ToSet(Page(q)) \subseteq 1..Len(archive)
    BY <1>3, PageFacts DEF IBase, IType
  <1>5. m \in FromRoom
    BY <1>3, <1>4, Stanzas
  <1>6. m.kind = "page" /\ m.query = q /\ m.ids = Page(q) /\ s.kind = "query" /\ s.query = q
    OBVIOUS
  <1>7. faults' \in 0..MaxFaults
    BY <1>1 DEF IBase, IType
  <1> HIDE DEF s, m
  <1>8. IBase' /\ Sent = Sent' \cup {s} /\ Coming' = Coming \cup {m}
    BY <1>1, <1>4, <1>5, <1>6, <1>7, BaseAnswers
  <1>9. \A n \in Coming : OfQuery(n) => n.query # q
    BY <1>2, <1>6 DEF IBase, IQueues, OfQuery
  <1>10. QED
    BY <1>3, <1>8, <1>9 DEF s, m

LEMMA FailQueryFacts ==
  ASSUME IBase, NEW q, FailQuery(q)
  PROVE  /\ IBase' /\ Sent = Sent' \cup {[kind |-> "query", query |-> q]}
         /\ Coming' = Coming \cup {[kind |-> "error", query |-> q]}
  <1> DEFINE s == [kind |-> "query", query |-> q]
             m == [kind |-> "error", query |-> q]
  <1>1. Arrives(s) /\ toClient' = Append(toClient, m) /\ Fault
        /\ UNCHANGED <<room, up, entry, store, gaps, history>>
    BY DEF FailQuery
  <1>2. q \in Query
    BY <1>1, ArrivesFacts, SentQuery DEF IBase
  <1>3. m \in FromRoom /\ m.kind = "error" /\ m.query = q /\ s.kind = "query" /\ s.query = q
    BY <1>2, Stanzas
  <1>4. faults' \in 0..MaxFaults
    BY <1>1, FaultFacts DEF IBase
  <1> HIDE DEF s, m
  <1>5. IBase' /\ Sent = Sent' \cup {s} /\ Coming' = Coming \cup {m}
    BY <1>1, <1>3, <1>4, BaseAnswers
  <1>6. QED
    BY <1>5 DEF s, m

LEMMA AnswerLateFacts ==
  ASSUME IBase, AnswerLate
  PROVE  /\ IBase' /\ Sent = Sent' \cup {[kind |-> "late"]} /\ Coming' = Coming \cup {[kind |-> "late"]}
  <1> DEFINE s == [kind |-> "late"]
  <1>1. Arrives(s) /\ toClient' = Append(toClient, s)
        /\ UNCHANGED <<room, up, entry, store, gaps, faults, history>>
    BY DEF AnswerLate
  <1>2. s \in FromRoom /\ s.kind = "late"
    BY Stanzas
  <1>3. faults' \in 0..MaxFaults
    BY <1>1 DEF IBase, IType
  <1> HIDE DEF s
  <1>4. IBase' /\ Sent = Sent' \cup {s} /\ Coming' = Coming \cup {s}
    BY <1>1, <1>2, <1>3, BaseAnswers
  <1>5. QED
    BY <1>4 DEF s

LEMMA BaseKick ==
  ASSUME IBase, Kick
  PROVE  IBase' /\ Coming' = Coming \cup {[kind |-> "kicked"]}
  <1> DEFINE m == [kind |-> "kicked"]
  <1>1. m \in FromRoom /\ m.kind = "kicked" /\ toClient' = Append(toClient, m) /\ inside /\ inside' = FALSE
        /\ UNCHANGED <<archive, up, toServer, entry, store, gaps, history>>
    BY Stanzas DEF Kick
  <1> HIDE DEF m
  <1>2. up /\ status # "out" /\ ~Joining /\ \A n \in Coming : n.kind # "kicked"
    BY <1>1 DEF IBase, IPhase
  <1>3. \A n \in Coming : Precedes(n, m)
    BY <1>1, <1>2 DEF Precedes, OfQuery
  <1>4. toClient' \in Seq(FromRoom) /\ Coming' = Coming \cup {m} /\ InOrder(toClient')
    BY <1>1, <1>3, ComesFacts DEF IBase, IQueues
  <1>5. faults' \in 0..MaxFaults
    BY FaultFacts DEF Kick, IBase
  <1>6. Sent' = Sent /\ (Joining' <=> Joining)
    BY <1>1 DEF Sent, Joining
  <1>7. IType'
    BY <1>1, <1>4, <1>5 DEF IBase, IType, entry, store, gaps, history
  <1>8. IBounds'
    BY <1>1, <1>4 DEF IBase, IBounds, store, gaps
  <1>9. IQueues'
    BY <1>1, <1>4, <1>6 DEF IBase, IQueues, OfQuery, gaps
  <1>10. IPhase'
    <2>1. m \in Coming'
      BY <1>4
    <2>2. \A n \in Coming' : n.kind = "self" => status = "joining"
      BY <1>1, <1>4 DEF IBase, IPhase
    <2>3. status = "joining" => Joining \/ \E n \in Coming' : n.kind = "self"
      BY <1>4 DEF IBase, IPhase
    <2>4. status = "in" => loaded \/ entering
      BY DEF IBase, IPhase
    <2>5. QED
      BY <1>1, <1>2, <1>6, <2>1, <2>2, <2>3, <2>4 DEF IPhase, entry
  <1>11. NoDuplicates'
    BY <1>1 DEF IBase, NoDuplicates, store
  <1>12. QED
    BY <1>4, <1>7, <1>8, <1>9, <1>10, <1>11 DEF IBase, m

LEMMA BaseOnSelf ==
  ASSUME IBase, OnSelf
  PROVE  IBase'
  <1> DEFINE m == Head(toClient)
  <1>1. Got("self") /\ status' = "in" /\ entering' = TRUE
        /\ UNCHANGED <<room, up, toServer, loaded, store, gaps, faults, history>>
    BY DEF OnSelf
  <1>2. /\ up /\ toClient' \in Seq(FromRoom) /\ m \in Coming /\ m.kind = "self"
        /\ Coming = Coming' \cup {m} /\ InOrder(toClient') /\ \A n \in Coming' : Precedes(m, n)
    BY <1>1, GotFacts DEF IBase
  <1> HIDE DEF m
  <1>3. \A n \in Coming' : n.kind # "self"
    BY <1>2 DEF Precedes, OfRoom
  <1>4. Sent' = Sent /\ (Joining' <=> Joining)
    BY <1>1 DEF Sent, Joining
  <1>5. ~Joining /\ status = "joining"
    BY <1>2 DEF IBase, IPhase, OfRoom
  <1>6. IType'
    BY <1>1, <1>2 DEF IBase, IType, room, store, gaps, history
  <1>7. IBounds'
    BY <1>1, <1>2 DEF IBase, IBounds, room, store, gaps
  <1>8. IQueues'
    BY <1>1, <1>2, <1>4 DEF IBase, IQueues, gaps
  <1>9. IPhase'
    <2>1. ~inside => \E n \in Coming' : n.kind = "kicked"
      BY <1>2, <1>5 DEF IBase, IPhase
    <2>2. \A n \in Coming' : n.kind = "kicked" => ~inside
      BY <1>2 DEF IBase, IPhase
    <2>3. QED
      BY <1>1, <1>2, <1>3, <1>4, <1>5, <2>1, <2>2 DEF IPhase, room
  <1>10. NoDuplicates'
    BY <1>1 DEF IBase, NoDuplicates, store
  <1>11. QED
    BY <1>6, <1>7, <1>8, <1>9, <1>10 DEF IBase

LEMMA BaseOnKicked ==
  ASSUME IBase, OnKicked
  PROVE  IBase' /\ \A n \in Coming' : ~OfRoom(n)
  <1> DEFINE m == Head(toClient)
  <1>1. Got("kicked") /\ status' = "out"
        /\ UNCHANGED <<room, up, toServer, entering, loaded, store, gaps, faults, history>>
    BY DEF OnKicked
  <1>2. /\ up /\ toClient' \in Seq(FromRoom) /\ m \in Coming /\ m.kind = "kicked"
        /\ Coming = Coming' \cup {m} /\ InOrder(toClient') /\ \A n \in Coming' : Precedes(m, n)
    BY <1>1, GotFacts DEF IBase
  <1> HIDE DEF m
  <1>3. \A n \in Coming' : ~OfRoom(n)
    BY <1>2 DEF Precedes
  <1>4. Sent' = Sent /\ (Joining' <=> Joining)
    BY <1>1 DEF Sent, Joining
  <1>5. ~Joining /\ ~inside
    BY <1>2 DEF IBase, IPhase, OfRoom
  <1>6. IType'
    BY <1>1, <1>2 DEF IBase, IType, room, store, gaps, history
  <1>7. IBounds'
    BY <1>1, <1>2 DEF IBase, IBounds, room, store, gaps
  <1>8. IQueues'
    BY <1>1, <1>2, <1>4 DEF IBase, IQueues, gaps
  <1>9. IPhase'
    BY <1>1, <1>2, <1>3, <1>4, <1>5 DEF IPhase, OfRoom, room
  <1>10. NoDuplicates'
    BY <1>1 DEF IBase, NoDuplicates, store
  <1>11. QED
    BY <1>3, <1>6, <1>7, <1>8, <1>9, <1>10 DEF IBase

\* A stanza other than of presence is taken from the queue.
LEMMA BaseTakes ==
  ASSUME IBase, NEW kind \in {"live", "page", "error", "late"}, Got(kind),
         queue' \in Seq(Nat), ToSet(queue') \subseteq 1..Len(archive),
         queries' = queries \ (IF kind \in {"page", "error"} THEN {Head(toClient).query} ELSE {}),
         holes' \in SUBSET Hole,
         \A h \in holes' : h.before \in 1..Len(archive) /\ h.start <= Len(archive),
         unmarked' \in BOOLEAN,
         UNCHANGED <<room, up, toServer, entry, cache, retries, faults, since, disordered>>
  PROVE  IBase'
  <1> DEFINE m == Head(toClient)
  <1>1. /\ up /\ toClient' \in Seq(FromRoom) /\ m \in FromRoom /\ m \in Coming /\ m.kind = kind
        /\ Coming = Coming' \cup {m} /\ InOrder(toClient') /\ \A n \in Coming' : Precedes(m, n)
    BY GotFacts DEF IBase
  <1>2. queries' \subseteq queries
    OBVIOUS
  <1>3. IF kind \in {"page", "error"} THEN OfQuery(m) /\ queries' = queries \ {m.query} ELSE queries' = queries
    BY <1>1 DEF OfQuery
  <1> HIDE DEF m
  <1>4. Sent' = Sent /\ (Joining' <=> Joining)
    BY DEF Sent, Joining
  <1>5. m.kind # "self" /\ m.kind # "kicked"
    BY <1>1
  <1>6. IType'
    BY <1>1, <1>2 DEF IBase, IType, room, entry, gaps
  <1>7. IBounds'
    <2>1. \A q \in queries' \cup retries' : q.before <= Len(archive) /\ q.start <= Len(archive)
      BY <1>2 DEF IBase, IBounds
    <2>2. QED
      BY <1>1, <2>1 DEF IBase, IBounds, room
  <1>8. IQueues'
    <2>1. \A n \in Sent \cup Coming' : OfQuery(n) => n.query \in queries'
      <3> SUFFICES ASSUME NEW n \in Sent \cup Coming', OfQuery(n) PROVE n.query \in queries'
        OBVIOUS
      <3>1. n.query \in queries
        BY <1>1 DEF IBase, IQueues
      <3>2. OfQuery(m) => n.query # m.query
        BY <1>1 DEF IBase, IQueues, Precedes
      <3>3. QED
        BY <1>3, <3>1, <3>2
    <2>2. QED
      BY <1>1, <1>4, <2>1 DEF IBase, IQueues
  <1>9. IPhase'
    BY <1>1, <1>4, <1>5 DEF IBase, IPhase, room, entry
  <1>10. NoDuplicates'
    BY DEF IBase, NoDuplicates
  <1>11. QED
    BY <1>6, <1>7, <1>8, <1>9, <1>10 DEF IBase

LEMMA BaseOnLive ==
  ASSUME IBase, OnLive
  PROVE  IBase' /\ Known' = Known \cup {Head(toClient).id}
  <1> DEFINE m == Head(toClient)
  <1>1. Got("live") /\ queue' = Append(queue, m.id)
        /\ UNCHANGED <<room, up, toServer, entry, cache, gaps, faults, history>>
    BY DEF OnLive
  <1>2. m \in FromRoom /\ m \in Coming /\ m.kind = "live"
    BY <1>1, GotFacts DEF IBase
  <1>3. m.id \in Nat /\ m.id \in 1..Len(archive)
    BY <1>2, FromRoomKinds DEF IBase, IBounds
  <1>4. queue' \in Seq(Nat) /\ ToSet(queue') = ToSet(queue) \cup {m.id}
    <2>1. queue \in Seq(Nat) /\ m.id \in Nat
      BY <1>3 DEF IBase, IType
    <2>2. Append(queue, m.id) \in Seq(Nat) /\ ToSet(Append(queue, m.id)) = ToSet(queue) \cup {m.id}
      BY <2>1, AppendSet
    <2>3. QED
      BY <1>1, <2>2
  <1>5. /\ holes' \in SUBSET Hole /\ unmarked' \in BOOLEAN
        /\ \A h \in holes' : h.before \in 1..Len(archive) /\ h.start <= Len(archive)
    BY <1>1 DEF IBase, IType, IBounds, gaps, history
  <1>6. ToSet(queue') \subseteq 1..Len(archive) /\ queries' = queries /\ retries' = retries
        /\ since' = since /\ disordered' = disordered
    BY <1>1, <1>3, <1>4 DEF IBase, IBounds, gaps, history
  <1>7. IBase'
    BY <1>1, <1>4, <1>5, <1>6, BaseTakes
  <1>8. QED
    BY <1>1, <1>4, <1>7 DEF Known, Cached

LEMMA BaseOnPage ==
  ASSUME IBase, OnPage
  PROVE  /\ IBase' /\ Known' = Known \cup ToSet(Head(toClient).ids)
         /\ Head(toClient).ids \in Seq(Nat) /\ Head(toClient).complete \in BOOLEAN
         /\ Head(toClient).query \in Query /\ Head(toClient).query \in queries
  <1> DEFINE m == Head(toClient)
  <1>1. Got("page") /\ queue' = queue \o m.ids /\ queries' = queries \ {m.query}
        /\ holes' = (holes \ Filled(m.query)) \cup GapBelow(m)
        /\ UNCHANGED <<room, up, toServer, entry, cache, retries, faults, history>>
    BY DEF OnPage
  <1>2. m \in FromRoom /\ m \in Coming /\ m.kind = "page"
    BY <1>1, GotFacts DEF IBase
  <1>3. m.query \in Query /\ m.ids \in Seq(Nat) /\ m.complete \in BOOLEAN
    BY <1>2, FromRoomKinds
  <1>4. m.query \in queries /\ ToSet(m.ids) \subseteq 1..Len(archive)
    BY <1>2 DEF IBase, IQueues, IBounds, OfQuery
  <1>5. queue' \in Seq(Nat) /\ ToSet(queue') = ToSet(queue) \cup ToSet(m.ids)
    BY <1>1, <1>3, ConcatSet DEF IBase, IType
  <1> HIDE DEF m
  <1>6. \A h \in GapBelow(m) : h \in Hole /\ h.before \in 1..Len(archive) /\ h.start <= Len(archive)
    <2> SUFFICES ASSUME m.ids # <<>>, NEW h, h = [before |-> Head(m.ids), start |-> m.query.start]
                 PROVE  h \in Hole /\ h.before \in 1..Len(archive) /\ h.start <= Len(archive)
      BY DEF GapBelow
    <2>1. Head(m.ids) \in ToSet(m.ids)
      BY <1>3, TailSet
    <2>2. Head(m.ids) \in 1..Len(archive) /\ m.query.start \in Nat /\ m.query.start <= Len(archive)
      BY <1>3, <1>4, <2>1 DEF Query, IBase, IBounds
    <2>3. QED
      BY <2>2 DEF Hole
  <1>7. /\ holes' \in SUBSET Hole /\ unmarked' \in BOOLEAN
        /\ \A h \in holes' : h.before \in 1..Len(archive) /\ h.start <= Len(archive)
    BY <1>1, <1>6 DEF IBase, IType, IBounds, history
  <1>8. ToSet(queue') \subseteq 1..Len(archive) /\ since' = since /\ disordered' = disordered
    BY <1>1, <1>4, <1>5 DEF IBase, IBounds, history
  <1>9. IBase'
    BY <1>1, <1>5, <1>7, <1>8, BaseTakes DEF m
  <1>10. QED
    BY <1>1, <1>3, <1>4, <1>5, <1>9 DEF Known, Cached, m

LEMMA BaseOnError ==
  ASSUME IBase, OnError
  PROVE  IBase'
  <1>1. Got("error") /\ queries' = queries \ {Head(toClient).query} /\ unmarked' = TRUE
        /\ holes' = holes \ Filled(Head(toClient).query)
        /\ UNCHANGED <<room, up, toServer, entry, cache, queue, retries, faults, since, disordered>>
    BY DEF OnError, store
  <1>2. /\ holes' \in SUBSET Hole /\ unmarked' \in BOOLEAN
        /\ \A h \in holes' : h.before \in 1..Len(archive) /\ h.start <= Len(archive)
    BY <1>1 DEF IBase, IType, IBounds
  <1>3. queue' \in Seq(Nat) /\ ToSet(queue') \subseteq 1..Len(archive)
    BY <1>1 DEF IBase, IType, IBounds
  <1>4. QED
    BY <1>1, <1>2, <1>3, BaseTakes

LEMMA BaseOnLate ==
  ASSUME IBase, OnLate
  PROVE  IBase'
  <1>1. Got("late") /\ UNCHANGED <<room, up, toServer, entry, cache, queue, gaps, faults, history>>
    BY DEF OnLate, store
  <1>2. /\ holes' \in SUBSET Hole /\ unmarked' \in BOOLEAN /\ queries' = queries /\ retries' = retries
        /\ \A h \in holes' : h.before \in 1..Len(archive) /\ h.start <= Len(archive)
        /\ since' = since /\ disordered' = disordered
    BY <1>1 DEF IBase, IType, IBounds, gaps, history
  <1>3. queue' \in Seq(Nat) /\ ToSet(queue') \subseteq 1..Len(archive)
    BY <1>1 DEF IBase, IType, IBounds
  <1>4. QED
    BY <1>1, <1>2, <1>3, BaseTakes

Lives == {m \in Coming : m.kind = "live"}

\* A room that was left is asked to join; nothing of it is on its way.
LEMMA BaseShow ==
  ASSUME IBase, Show
  PROVE  /\ IBase' /\ Joining' /\ Sent' = Sent \cup {[kind |-> "join"]}
         /\ Lives = {} /\ since' \in 0..Len(archive)
         /\ \A i \in Nat \ {0} : (\A j \in Known : j < i) => since' < i
         /\ entering => since' <= since
  <1> DEFINE j == [kind |-> "join"]
  <1>1. /\ up /\ status = "out" /\ status' = "joining" /\ toServer' = Append(toServer, j)
        /\ UNCHANGED <<room, up, toClient, entering, loaded, store, gaps, faults, unmarked, disordered>>
    BY DEF Show, Joins
  <1>2. ~inside /\ ~Joining /\ \A m \in Coming : ~OfRoom(m)
    BY <1>1 DEF IBase, IPhase
  <1>3. j \in ToRoom /\ j.kind = "join"
    BY Stanzas
  <1>4. Lives = {} /\ \A m \in Coming : m.kind # "self"
    BY <1>2 DEF Lives, OfRoom
  <1>5. since' = LastKnown
    BY DEF Show
  <1> HIDE DEF j
  <1>6. /\ since' \in 0..MaxPosted /\ since' \in 0..Len(archive)
        /\ \A i \in Nat \ {0} : (\A n \in Known : n < i) => since' < i
        /\ entering => since' <= since
    <2> DEFINE top == Max(Known \cup {0})
    <2>1. Known \cup {0} \in SUBSET (0..Len(archive))
      BY MostRecentFacts
    <2>2. top \in 0..MaxPosted /\ top \in Known \cup {0}
      BY <2>1, SinceFacts DEF IBase
    <2>3. since \in Nat /\ Len(archive) \in Nat /\ top \in 0..Len(archive)
      BY <2>1, <2>2 DEF IBase, IType
    <2>4. since' = IF entering /\ since < top THEN since ELSE top
      BY <1>5 DEF LastKnown
    <2> HIDE DEF top
    <2>5. since' \in 0..MaxPosted /\ since' \in 0..Len(archive) /\ since' <= top /\ (entering => since' <= since)
      <3>1. since \in 0..MaxPosted /\ MaxPosted \in Nat /\ entering \in BOOLEAN
        BY HistoryAssumption DEF IBase, IType
      <3>2. CASE entering /\ since < top
        BY <2>2, <2>3, <2>4, <3>1, <3>2
      <3>3. CASE ~(entering /\ since < top)
        <4>1. since' = top
          BY <2>4, <3>3
        <4>2. QED
          BY <2>2, <2>3, <3>1, <3>3, <4>1
      <3>4. QED
        BY <3>2, <3>3
    <2>6. QED
      BY <2>2, <2>3, <2>5
  <1>7. \A m \in Sent : Precedes(m, j)
    BY <1>2, <1>3 DEF Precedes, OfRoom, OfQuery, Joining
  <1>8. toServer' \in Seq(ToRoom) /\ Sent' = Sent \cup {j} /\ InOrder(toServer')
    BY <1>1, <1>3, <1>7, SendsFacts DEF IBase, IType, IQueues, Sent
  <1>9. Joining' /\ Coming' = Coming
    BY <1>1, <1>3, <1>8 DEF Joining, Coming
  <1>10. IType'
    BY <1>1, <1>6, <1>8 DEF IBase, IType, room, store, gaps
  <1>11. IBounds'
    BY <1>1, <1>9 DEF IBase, IBounds, room, store, gaps
  <1>12. IQueues'
    BY <1>1, <1>3, <1>8, <1>9 DEF IBase, IQueues, OfQuery, gaps
  <1>13. IPhase'
    BY <1>1, <1>2, <1>4, <1>9 DEF IPhase, room
  <1>14. NoDuplicates'
    BY <1>1 DEF IBase, NoDuplicates, store
  <1>15. QED
    BY <1>4, <1>6, <1>8, <1>9, <1>10, <1>11, <1>12, <1>13, <1>14 DEF IBase, j

\* What is asked upon a reconnection.
Missed == Newest(IF loaded THEN MostRecent ELSE 0, "reconnected")

LEMMA BaseReturn ==
  ASSUME IBase, Return
  PROVE  /\ IBase' /\ Joining' /\ Sent = {} /\ Coming = {} /\ Coming' = {} /\ ~inside /\ status' = "joining"
         /\ Missed \in Query /\ Missed.before = 0 /\ (Missed.start = MostRecent \/ (Missed.start = 0 /\ ~loaded))
         /\ queries' = queries \cup {Missed} /\ since' = MaxPosted
         /\ Sent' = {[kind |-> "join"], [kind |-> "query", query |-> Missed]}
  <1> DEFINE j == [kind |-> "join"]
             t == Append(toServer, j)
  <1>1. /\ ~up /\ up' = TRUE /\ status' = "joining"
        /\ UNCHANGED <<room, toClient, entering, loaded, store, holes, retries, faults, disordered>>
        /\ Ask(t, Missed) /\ since' = MaxPosted
    BY DEF Return, Joins, Missed
  <1>a. unmarked' \in BOOLEAN
    BY DEF Return
  <1>2. ~inside /\ Sent = {} /\ Coming = {} /\ InOrder(toServer)
    BY <1>1 DEF IBase, IPhase, IQueues
  <1>3. j \in ToRoom /\ j.kind = "join"
    BY Stanzas
  <1>4. t \in Seq(ToRoom) /\ ToSet(t) = {j} /\ InOrder(t)
    <2>1. toServer \in Seq(ToRoom) /\ ToSet(toServer) = {}
      BY <1>2 DEF IBase, IType, Sent
    <2>2. t \in Seq(ToRoom) /\ ToSet(t) = {j}
      BY <1>3, <2>1, AppendSet
    <2>3. InOrder(t)
      BY <1>2, <1>3, <2>1, AppendInOrder
    <2>4. QED
      BY <2>2, <2>3
  <1>5. Missed.before = 0 /\ (Missed.start = MostRecent \/ (Missed.start = 0 /\ ~loaded))
    BY DEF Newest, Missed
  <1>6. Coming' = Coming /\ InOrder(toClient')
    BY <1>1 DEF IBase, IQueues, Coming
  <1>7. Missed \in Query /\ Missed.before <= Len(archive) /\ Missed.start <= Len(archive)
    <2>1. MostRecent \in Nat /\ MostRecent <= Len(archive) /\ Len(archive) \in Nat
      BY MostRecentFacts
    <2>2. Missed \in Query
      BY <2>1 DEF Missed, Newest, Query
    <2>3. QED
      BY <1>5, <2>1, <2>2
  <1> HIDE DEF t
  <1>8. /\ toServer' \in Seq(ToRoom) /\ queries' = queries \cup {Missed} /\ IQueues'
        /\ Sent' = {j} \cup {[kind |-> "query", query |-> Missed]}
    <2>1. \A m \in ToSet(t) : m \in Sent \/ m = [kind |-> "join"]
      BY <1>4
    <2>2. QED
      BY <1>1, <1>4, <1>6, <1>7, <2>1, AskFacts DEF IBase
  <1>9. Joining'
    BY <1>3, <1>8 DEF Joining
  <1> HIDE DEF j
  <1>10. since' \in 0..MaxPosted
    BY <1>1, HistoryAssumption
  <1>11. IType'
    BY <1>1, <1>a, <1>7, <1>8, <1>10 DEF IBase, IType, room, store
  <1>12. IBounds'
    BY <1>1, <1>6, <1>7, <1>8 DEF IBase, IBounds, room, store
  <1>13. IPhase'
    BY <1>1, <1>2, <1>6, <1>9 DEF IPhase, room
  <1>14. NoDuplicates'
    BY <1>1 DEF IBase, NoDuplicates, store
  <1>15. QED
    BY <1>1, <1>2, <1>5, <1>6, <1>7, <1>8, <1>9, <1>11, <1>12, <1>13, <1>14 DEF IBase, j

\* A query is asked, besides which only flags and holes may change.
LEMMA BaseAsks ==
  ASSUME IBase, up, NEW q \in Query, Ask(toServer, q), q.before <= Len(archive), q.start <= Len(archive),
         holes' \in SUBSET Hole, retries' \subseteq retries,
         \A h \in holes' : h.before \in 1..Len(archive) /\ h.start <= Len(archive),
         unmarked' \in BOOLEAN, entering' \in BOOLEAN, loaded' \in BOOLEAN,
         entering' => entering, status = "in" => loaded' \/ entering',
         UNCHANGED <<room, up, toClient, status, store, faults, since, disordered>>
  PROVE  /\ IBase' /\ queries' = queries \cup {q} /\ q \notin queries /\ Coming' = Coming
         /\ Sent' = Sent \cup {[kind |-> "query", query |-> q]}
         /\ \A m \in Coming : OfQuery(m) => m.query # q
  <1>1. toServer \in Seq(ToRoom) /\ InOrder(toServer) /\ toClient \in Seq(FromRoom) /\ InOrder(toClient)
    BY DEF IBase, IType, IQueues
  <1>2. Coming' = Coming
    BY DEF Coming
  <1>3. /\ toServer' \in Seq(ToRoom) /\ queries' = queries \cup {q} /\ q \notin queries
        /\ Sent' = Sent \cup {[kind |-> "query", query |-> q]}
        /\ IQueues' /\ \A m \in Coming : OfQuery(m) => m.query # q
    BY <1>1, <1>2, AskFacts DEF IBase, Sent
  <1>4. Joining' <=> Joining
    <2>1. [kind |-> "query", query |-> q].kind # "join"
      OBVIOUS
    <2>2. QED
      BY <1>3, <2>1 DEF Joining
  <1>5. IType'
    BY <1>1, <1>3 DEF IBase, IType, room, store
  <1>6. IBounds'
    BY <1>2, <1>3 DEF IBase, IBounds, room, store
  <1>7. IPhase'
    BY <1>2, <1>4 DEF IBase, IType, IPhase, room
  <1>8. NoDuplicates'
    BY DEF IBase, NoDuplicates, store
  <1>9. QED
    BY <1>2, <1>3, <1>5, <1>6, <1>7, <1>8 DEF IBase

\* Nothing is asked: only flags, holes and retries change.
LEMMA BaseQuiet ==
  ASSUME IBase, holes' \in SUBSET Hole, retries' \subseteq retries,
         \A h \in holes' : h.before \in 1..Len(archive) /\ h.start <= Len(archive),
         unmarked' \in BOOLEAN, entering' \in BOOLEAN, loaded' \in BOOLEAN,
         entering' => entering, status = "in" => loaded' \/ entering',
         UNCHANGED <<room, net, status, store, queries, faults, since, disordered>>
  PROVE  IBase'
  <1>1. Coming' = Coming /\ Sent' = Sent /\ (Joining' <=> Joining)
    BY DEF Coming, Sent, Joining, net
  <1>2. IType'
    BY DEF IBase, IType, room, net, store
  <1>3. IBounds'
    BY <1>1 DEF IBase, IBounds, room, store
  <1>4. IQueues'
    BY <1>1 DEF IBase, IQueues, net
  <1>5. IPhase'
    BY <1>1 DEF IBase, IType, IPhase, room, net
  <1>6. NoDuplicates'
    BY DEF IBase, NoDuplicates, store
  <1>7. QED
    BY <1>2, <1>3, <1>4, <1>5, <1>6 DEF IBase

LEMMA BaseEnterRoom ==
  ASSUME IBase, EnterRoom
  PROVE  /\ IBase' /\ Coming' = Coming
         /\ up => /\ queries' = queries \cup {Newest(MostRecent, "entered")} /\ Newest(MostRecent, "entered") \notin queries
                  /\ Newest(MostRecent, "entered") \in Query
                  /\ Sent' = Sent \cup {[kind |-> "query", query |-> Newest(MostRecent, "entered")]}
                  /\ \A m \in Coming : OfQuery(m) => m.query # Newest(MostRecent, "entered")
         /\ ~up => queries' = queries /\ Sent' = Sent
  <1> DEFINE q == Newest(MostRecent, "entered")
  <1>1. q \in Query /\ q.before = 0 /\ q.start <= Len(archive) /\ Len(archive) \in Nat
    <2>1. MostRecent \in Nat /\ MostRecent <= Len(archive) /\ Len(archive) \in Nat
      BY MostRecentFacts
    <2>2. QED
      BY <2>1 DEF Newest, Query
  <1> HIDE DEF q
  <1>2. /\ entering /\ entering' = FALSE /\ loaded' = TRUE
        /\ holes' = IF loaded THEN holes ELSE holes \cup ScrollUp
        /\ unmarked' = (unmarked \/ (Raced /\ (loaded \/ ~up)))
        /\ IF up THEN Ask(toServer, q) ELSE toServer' = toServer /\ queries' = queries
        /\ UNCHANGED <<room, up, toClient, status, store, retries, faults, since, disordered>>
    BY DEF EnterRoom, q
  <1>3. \A h \in ScrollUp : h \in Hole /\ h.before \in 1..Len(archive) /\ h.start <= Len(archive)
    <2> SUFFICES ASSUME cache # <<>>, NEW h, h = [before |-> Head(cache).id, start |-> 0]
                 PROVE  h \in Hole /\ h.before \in 1..Len(archive) /\ h.start <= Len(archive)
      BY DEF ScrollUp
    <2>1. Head(cache).id \in 1..Len(archive)
      BY CachedFacts DEF IBase, IType, IBounds
    <2>2. QED
      BY <1>1, <2>1 DEF Hole
  <1>4. /\ holes' \in SUBSET Hole /\ unmarked' \in BOOLEAN
        /\ \A h \in holes' : h.before \in 1..Len(archive) /\ h.start <= Len(archive)
    <2>1. unmarked' \in BOOLEAN
      BY <1>2
    <2>2. holes' \subseteq holes \cup ScrollUp
      BY <1>2
    <2>3. QED
      BY <1>3, <2>1, <2>2 DEF IBase, IType, IBounds
  <1>5. ASSUME up
        PROVE  /\ IBase' /\ queries' = queries \cup {q} /\ q \notin queries /\ Coming' = Coming
               /\ Sent' = Sent \cup {[kind |-> "query", query |-> q]}
               /\ \A m \in Coming : OfQuery(m) => m.query # q
    <2>1. retries' \subseteq retries /\ q.before <= Len(archive)
      BY <1>1, <1>2
    <2>2. QED
      BY <1>1, <1>2, <1>4, <1>5, <2>1, BaseAsks
  <1>6. ASSUME ~up
        PROVE  IBase' /\ queries' = queries /\ Sent' = Sent /\ Coming' = Coming
    <2>1. /\ retries' \subseteq retries
          /\ UNCHANGED <<room, net, status, store, queries, faults, since, disordered>>
      BY <1>2, <1>6 DEF net
    <2>2. IBase'
      BY <1>2, <1>4, <2>1, BaseQuiet
    <2>3. QED
      BY <2>1, <2>2 DEF net, Sent, Coming
  <1>7. up \in BOOLEAN
    BY DEF IBase, IType
  <1>8. QED
    BY <1>1, <1>5, <1>6, <1>7 DEF q

LEMMA BaseRetry ==
  ASSUME IBase, NEW q, Retry(q)
  PROVE  /\ IBase' /\ Coming' = Coming
         /\ up => /\ queries' = queries \cup {q} /\ q \notin queries /\ q \in Query
                  /\ Sent' = Sent \cup {[kind |-> "query", query |-> q]}
                  /\ \A m \in Coming : OfQuery(m) => m.query # q
  <1>1. /\ q \in retries /\ retries' = retries \ {q}
        /\ IF up THEN Ask(toServer, q) /\ unmarked' = unmarked
           ELSE unmarked' = TRUE /\ toServer' = toServer /\ queries' = queries
        /\ UNCHANGED <<room, up, toClient, entry, store, holes, faults, since, disordered>>
    BY DEF Retry
  <1>2. q \in Query /\ q.before <= Len(archive) /\ q.start <= Len(archive)
    BY <1>1 DEF IBase, IType, IBounds
  <1>3. /\ retries' \subseteq retries /\ holes' \in SUBSET Hole /\ unmarked' \in BOOLEAN
        /\ entering' = entering /\ entering' \in BOOLEAN /\ loaded' \in BOOLEAN /\ status' = status
        /\ \A h \in holes' : h.before \in 1..Len(archive) /\ h.start <= Len(archive)
        /\ status = "in" => loaded' \/ entering'
    BY <1>1 DEF IBase, IType, IBounds, IPhase, entry
  <1>4. ASSUME up
        PROVE  /\ IBase' /\ queries' = queries \cup {q} /\ q \notin queries /\ Coming' = Coming
               /\ Sent' = Sent \cup {[kind |-> "query", query |-> q]}
               /\ \A m \in Coming : OfQuery(m) => m.query # q
    BY <1>1, <1>2, <1>3, <1>4, BaseAsks
  <1>5. ASSUME ~up PROVE IBase' /\ Coming' = Coming
    <2>1. UNCHANGED <<room, net, status, store, queries, faults, since, disordered>>
      BY <1>1, <1>3, <1>5 DEF net
    <2>2. IBase'
      BY <1>3, <2>1, BaseQuiet
    <2>3. QED
      BY <2>1, <2>2 DEF net, Coming
  <1>6. up \in BOOLEAN
    BY DEF IBase, IType
  <1>7. QED
    BY <1>2, <1>4, <1>5, <1>6

LEMMA BaseExpire ==
  ASSUME IBase, NEW q, Expire(q)
  PROVE  IBase'
  <1>1. /\ retries' = retries \ {q} /\ unmarked' = TRUE
        /\ UNCHANGED <<room, net, entry, store, holes, queries, faults, since, disordered>>
    BY DEF Expire
  <1>2. /\ retries' \subseteq retries /\ holes' \in SUBSET Hole /\ unmarked' \in BOOLEAN
        /\ entering' = entering /\ entering' \in BOOLEAN /\ loaded' \in BOOLEAN /\ status' = status
        /\ \A h \in holes' : h.before \in 1..Len(archive) /\ h.start <= Len(archive)
        /\ status = "in" => loaded' \/ entering'
    BY <1>1 DEF IBase, IType, IBounds, IPhase, entry
  <1>3. QED
    BY <1>1, <1>2, BaseQuiet

\* The query of a placeholder.
Fills(h) == [before |-> h.before, start |-> h.start, why |-> "gap"]

LEMMA BaseFillGap ==
  ASSUME IBase, NEW h, FillGap(h)
  PROVE  /\ IBase' /\ Coming' = Coming
         /\ \/ /\ up /\ queries' = queries \cup {Fills(h)} /\ Fills(h) \notin queries /\ Fills(h) \in Query
               /\ Sent' = Sent \cup {[kind |-> "query", query |-> Fills(h)]} /\ holes' = holes
               /\ \A m \in Coming : OfQuery(m) => m.query # Fills(h)
            \/ ~up /\ unmarked'
  <1> DEFINE q == Fills(h)
  <1>1. /\ h \in holes
        /\ \/ up /\ Ask(toServer, q) /\ holes' = holes /\ unmarked' = unmarked
           \/ ~up /\ holes' = holes \ {h} /\ unmarked' = TRUE /\ toServer' = toServer /\ queries' = queries
        /\ UNCHANGED <<room, up, toClient, entry, store, retries, faults, since, disordered>>
    BY DEF FillGap, Fills
  <1>2. q \in Query /\ q.before <= Len(archive) /\ q.start <= Len(archive)
    BY <1>1 DEF IBase, IType, IBounds, Query, Hole, Fills
  <1> HIDE DEF q
  <1>3. /\ retries' \subseteq retries /\ holes' \in SUBSET Hole /\ unmarked' \in BOOLEAN
        /\ entering' = entering /\ entering' \in BOOLEAN /\ loaded' \in BOOLEAN /\ status' = status
        /\ \A g \in holes' : g.before \in 1..Len(archive) /\ g.start <= Len(archive)
        /\ status = "in" => loaded' \/ entering'
    BY <1>1 DEF IBase, IType, IBounds, IPhase, entry
  <1>4. ASSUME up, Ask(toServer, q), holes' = holes
        PROVE  /\ IBase' /\ queries' = queries \cup {q} /\ q \notin queries /\ Coming' = Coming
               /\ Sent' = Sent \cup {[kind |-> "query", query |-> q]}
               /\ \A m \in Coming : OfQuery(m) => m.query # q
    BY <1>1, <1>2, <1>3, <1>4, BaseAsks
  <1>5. ASSUME ~up, unmarked' = TRUE, toServer' = toServer, queries' = queries
        PROVE  IBase' /\ Coming' = Coming
    <2>1. UNCHANGED <<room, net, status, store, queries, faults, since, disordered>>
      BY <1>1, <1>3, <1>5 DEF net
    <2>2. IBase'
      BY <1>3, <2>1, BaseQuiet
    <2>3. QED
      BY <2>1, <2>2 DEF net, Coming
  <1>6. QED
    BY <1>1, <1>2, <1>4, <1>5 DEF q

LEMMA BaseTimeOut ==
  ASSUME IBase, NEW q, TimeOut(q)
  PROVE  /\ IBase' /\ q \in queries /\ q \in Query
         /\ Known' \subseteq Known \cup ToSet(Page(q)) /\ Known \subseteq Known'
         /\ \A i \in ToSet(Page(q)) : i \in 1..Len(archive) /\ q.start <= i /\ (q.before # 0 => i < q.before)
         /\ \A m \in Coming' : m = [kind |-> "late"] \/ m \in Coming
         /\ \A m \in Coming : m \in Coming' \/ (OfQuery(m) /\ m.query = q)
         /\ \A m \in Sent' : m = [kind |-> "late"] \/ m \in Sent
         /\ \A m \in Sent : m \in Sent' \/ (OfQuery(m) /\ m.query = q)
  <1> DEFINE r == [q EXCEPT !.why = "retry"]
             late == [kind |-> "late"]
  <1>1. /\ q \in queries /\ queries' = queries \ {q} /\ holes' = holes \ Filled(q)
        /\ retries' = retries \cup {r}
        /\ \E n \in 0..Len(Page(q)) : queue' = queue \o SubSeq(Page(q), 1, n)
        /\ toServer' = Outdated(toServer, q) /\ toClient' = Outdated(toClient, q)
        /\ UNCHANGED <<room, up, entry, cache, history>>
    BY DEF TimeOut
  <1>2. q \in Query /\ q.before <= Len(archive) /\ q.start <= Len(archive)
    BY <1>1 DEF IBase, IType, IBounds
  <1>3. r \in Query /\ r.before = q.before /\ r.start = q.start
    BY <1>2 DEF Query
  <1> HIDE DEF r
  <1>4. /\ Page(q) \in Seq(Nat)
        /\ \A i \in ToSet(Page(q)) : i \in 1..Len(archive) /\ q.start <= i /\ (q.before # 0 => i < q.before)
    BY <1>2, PageFacts DEF IBase, IType
  <1>5. queue' \in Seq(Nat) /\ ToSet(queue') \subseteq ToSet(queue) \cup ToSet(Page(q))
        /\ ToSet(queue) \subseteq ToSet(queue')
    <2>1. PICK n \in 0..Len(Page(q)) : queue' = queue \o SubSeq(Page(q), 1, n)
      BY <1>1
    <2>2. SubSeq(Page(q), 1, n) \in Seq(Nat) /\ ToSet(SubSeq(Page(q), 1, n)) \subseteq ToSet(Page(q))
      BY <1>4, <2>1, StartSet
    <2>3. queue \in Seq(Nat)
      BY DEF IBase, IType
    <2>4. queue' \in Seq(Nat) /\ ToSet(queue') = ToSet(queue) \cup ToSet(SubSeq(Page(q), 1, n))
      <3> DEFINE u == SubSeq(Page(q), 1, n)
      <3>1. u \in Seq(Nat) /\ queue' = queue \o u
        BY <2>1, <2>2
      <3> HIDE DEF u
      <3>2. queue \o u \in Seq(Nat) /\ ToSet(queue \o u) = ToSet(queue) \cup ToSet(u)
        BY <2>3, <3>1, ConcatSet
      <3>3. QED
        BY <3>1, <3>2 DEF u
    <2>5. QED
      BY <2>2, <2>4
  <1>6. Known' \subseteq Known \cup ToSet(Page(q)) /\ Known \subseteq Known'
    BY <1>1, <1>5 DEF Known, Cached
  <1>7. late \in FromRoom /\ late \in ToRoom /\ late.kind = "late" /\ ~OfQuery(late) /\ ~OfRoom(late)
    BY Stanzas DEF OfQuery, OfRoom
  <1>8. /\ toClient' \in Seq(FromRoom) /\ InOrder(toClient')
        /\ \A m \in Coming' : m = late \/ (m \in Coming /\ ~(OfQuery(m) /\ m.query = q))
        /\ \A m \in Coming : m \in Coming' \/ (OfQuery(m) /\ m.query = q)
    BY <1>1, <1>7, OutdatedSet, OutdatedInOrder DEF IBase, IType, IQueues, Coming
  <1>9. /\ toServer' \in Seq(ToRoom) /\ InOrder(toServer')
        /\ \A m \in Sent' : m = late \/ (m \in Sent /\ ~(OfQuery(m) /\ m.query = q))
        /\ \A m \in Sent : m \in Sent' \/ (OfQuery(m) /\ m.query = q)
    BY <1>1, <1>7, OutdatedSet, OutdatedInOrder DEF IBase, IType, IQueues, Sent
  <1>10. faults' \in 0..MaxFaults
    <2>1. CASE up /\ Fault
      BY <2>1, FaultFacts DEF IBase
    <2>2. CASE faults' = faults
      BY <2>2 DEF IBase, IType
    <2>3. QED
      BY <2>1, <2>2 DEF TimeOut
  <1> HIDE DEF late
  <1>11. \A m \in Coming \cup Sent : OfRoom(m) \/ m.kind = "join" => m \in Coming' \cup Sent'
    BY <1>8, <1>9 DEF OfRoom, OfQuery
  <1>12. Joining' <=> Joining
    BY <1>7, <1>8, <1>9 DEF Joining, OfQuery
  <1>13. IType'
    BY <1>1, <1>3, <1>5, <1>8, <1>9, <1>10 DEF IBase, IType, room, entry, history
  <1>14. IBounds'
    <2>1. ToSet(queue') \subseteq 1..Len(archive)
      BY <1>4, <1>5 DEF IBase, IBounds
    <2>2. \A m \in Coming' : (m.kind = "live" => m.id \in 1..Len(archive))
                             /\ (m.kind = "page" => ToSet(m.ids) \subseteq 1..Len(archive))
      BY <1>7, <1>8 DEF IBase, IBounds
    <2>3. \A p \in queries' \cup retries' : p.before <= Len(archive) /\ p.start <= Len(archive)
      BY <1>1, <1>2, <1>3 DEF IBase, IBounds
    <2>4. \A h \in holes' : h.before \in 1..Len(archive) /\ h.start <= Len(archive)
      BY <1>1 DEF IBase, IBounds
    <2>5. QED
      BY <1>1, <2>1, <2>2, <2>3, <2>4 DEF IBase, IBounds, room
  <1>15. IQueues'
    BY <1>1, <1>7, <1>8, <1>9 DEF IBase, IQueues
  <1>16. IPhase'
    <2>1. \A m \in Coming' : OfRoom(m) => m \in Coming
      BY <1>7, <1>8
    <2>2. \A m \in Coming : OfRoom(m) => m \in Coming'
      BY <1>8 DEF OfRoom, OfQuery
    <2>3. up' = up /\ status' = status /\ entering' = entering /\ loaded' = loaded /\ inside' = inside
      BY <1>1 DEF room, entry
    <2>4. Sent = {} => Sent' = {}
      <3>1. toServer \in Seq(ToRoom) /\ toServer' \in Seq(ToRoom) /\ Len(toServer') = Len(toServer)
        BY <1>1, <1>7, <1>9, OutdatedSet DEF IBase, IType, late
      <3>2. toServer = <<>> => toServer' = <<>>
        BY <3>1
      <3>3. QED
        BY <3>1, <3>2, SeqSet DEF Sent
    <2>5. Coming = {} => Coming' = {}
      <3>1. toClient \in Seq(FromRoom) /\ toClient' \in Seq(FromRoom) /\ Len(toClient') = Len(toClient)
        BY <1>1, <1>7, <1>8, OutdatedSet DEF IBase, IType, late
      <3>2. toClient = <<>> => toClient' = <<>>
        BY <3>1
      <3>3. QED
        BY <3>1, <3>2, SeqSet DEF Coming
    <2>6. (\E m \in Coming : m.kind = "self") => \E m \in Coming' : m.kind = "self"
      BY <2>2 DEF OfRoom
    <2>7. (\E m \in Coming : m.kind = "kicked") => \E m \in Coming' : m.kind = "kicked"
      BY <2>2 DEF OfRoom
    <2>8. \A m \in Coming' : m.kind \in {"self", "kicked"} => m \in Coming
      BY <2>1 DEF OfRoom
    <2>9. QED
      BY <1>12, <2>1, <2>3, <2>4, <2>5, <2>6, <2>7, <2>8 DEF IBase, IPhase
  <1>17. NoDuplicates'
    BY <1>1 DEF IBase, NoDuplicates
  <1>18. QED
    BY <1>1, <1>2, <1>4, <1>6, <1>8, <1>9, <1>13, <1>14, <1>15, <1>16, <1>17 DEF IBase, late

LEMMA BaseDrop ==
  ASSUME IBase, Drop
  PROVE  IBase' /\ Sent' = {} /\ Coming' = {}
  <1>1. /\ up' = FALSE /\ inside' = FALSE /\ status' = "out" /\ toServer' = <<>> /\ toClient' = <<>>
        /\ UNCHANGED <<archive, entering, loaded, store, gaps, history>>
    BY DEF Drop
  <1>2. faults' \in 0..MaxFaults
    BY FaultFacts DEF Drop, IBase
  <1>3. /\ toServer' \in Seq(ToRoom) /\ toClient' \in Seq(FromRoom)
        /\ Sent' = {} /\ Coming' = {} /\ InOrder(toServer') /\ InOrder(toClient')
    BY <1>1, EmptySet, EmptyInOrder DEF Sent, Coming
  <1>4. IType'
    BY <1>1, <1>2, <1>3 DEF IBase, IType, store, gaps, history
  <1>5. IBounds'
    BY <1>1, <1>3 DEF IBase, IBounds, store, gaps
  <1>6. IQueues'
    BY <1>3 DEF IQueues
  <1>7. IPhase'
    BY <1>1, <1>3 DEF IPhase, Joining
  <1>8. NoDuplicates'
    BY <1>1 DEF IBase, NoDuplicates, store
  <1>9. QED
    BY <1>3, <1>4, <1>5, <1>6, <1>7, <1>8 DEF IBase

LEMMA BaseReload ==
  ASSUME IBase, Reload
  PROVE  /\ IBase' /\ Joining' /\ Sent' = {[kind |-> "join"]} /\ Coming' = {} /\ Known' = Cached
         /\ Cached' = Cached /\ ToSet(cache') = ToSet(cache) /\ Ascending(cache')
         /\ since' \in Cached \cup {0} /\ \A i \in Cached : i <= since'
  <1> DEFINE j == [kind |-> "join"]
  <1>1. /\ inside' = FALSE /\ up' = TRUE /\ toServer' = <<j>> /\ toClient' = <<>>
        /\ status' = "joining" /\ entering' = FALSE /\ loaded' = FALSE /\ cache' = Sorted(cache)
        /\ queue' = <<>> /\ holes' = {} /\ queries' = {} /\ retries' = {}
        /\ since' = Max(Cached \cup {0}) /\ UNCHANGED <<archive, disordered>>
    BY DEF Reload
  <1>2. faults' \in 0..MaxFaults /\ unmarked' \in BOOLEAN
    BY FaultFacts DEF Reload, IBase
  <1>3. j \in ToRoom /\ j.kind = "join" /\ ~OfQuery(j)
    BY Stanzas DEF OfQuery
  <1> HIDE DEF j
  <1>4. /\ toServer' \in Seq(ToRoom) /\ Sent' = {j} /\ InOrder(toServer')
    <2> DEFINE none == <<>>
    <2>1. toServer' = Append(none, j) /\ none \in Seq(ToRoom) /\ ToSet(none) = {} /\ InOrder(none)
      BY <1>1, <1>3, EmptySet, EmptyInOrder
    <2> HIDE DEF none
    <2>2. Append(none, j) \in Seq(ToRoom) /\ ToSet(Append(none, j)) = {j}
      BY <1>3, <2>1, AppendSet
    <2>3. InOrder(Append(none, j))
      BY <1>3, <2>1, AppendInOrder
    <2>4. QED
      BY <2>1, <2>2, <2>3 DEF Sent
  <1>5. toClient' \in Seq(FromRoom) /\ Coming' = {} /\ InOrder(toClient')
    BY <1>1, EmptySet, EmptyInOrder DEF Coming
  <1>6. queue' \in Seq(Nat) /\ ToSet(queue') = {}
    BY <1>1, EmptySet
  <1>7. /\ cache' \in Seq(Entry) /\ ToSet(cache') = ToSet(cache) /\ Ascending(cache') /\ Distinct(cache')
    <2>1. cache \in Seq(Entry) /\ Distinct(cache) /\ Len(archive) \in Nat
      BY DEF IBase, IType, NoDuplicates, Distinct
    <2>2. \A k \in 1..Len(cache) : cache[k].id \in 1..Len(archive)
      BY <2>1, CachedFacts DEF IBase, IBounds
    <2>3. QED
      BY <1>1, <2>1, <2>2, SortedFacts
  <1>8. Cached' = Cached
    <2>1. Cached = {e.id : e \in ToSet(cache)}
      BY CachedFacts DEF IBase, IType
    <2>2. Cached' = {e.id : e \in ToSet(cache')}
      <3>1. /\ \A k \in 1..Len(cache') : cache'[k] \in ToSet(cache')
            /\ \A e \in ToSet(cache') : \E k \in 1..Len(cache') : cache'[k] = e
        BY <1>7, SeqSet
      <3>2. QED
        BY <3>1 DEF Cached
    <2>3. QED
      BY <1>7, <2>1, <2>2
  <1>9. since' \in 0..MaxPosted /\ since' \in Cached \cup {0} /\ \A i \in Cached : i <= since'
    <2>1. Cached \cup {0} \in SUBSET (0..Len(archive))
      BY MostRecentFacts
    <2>2. QED
      BY <1>1, <2>1, SinceFacts DEF IBase
  <1>10. Joining' /\ Known' = Cached
    BY <1>3, <1>4, <1>6, <1>8 DEF Joining, Known
  <1>11. IType'
    BY <1>1, <1>2, <1>4, <1>5, <1>6, <1>7, <1>9 DEF IBase, IType
  <1>12. IBounds'
    BY <1>1, <1>5, <1>6, <1>7 DEF IBase, IBounds
  <1>13. IQueues'
    BY <1>3, <1>4, <1>5 DEF IQueues
  <1>14. IPhase'
    BY <1>1, <1>5, <1>10 DEF IPhase
  <1>15. NoDuplicates'
    BY <1>7 DEF NoDuplicates, Distinct
  <1>16. QED
    BY <1>4, <1>5, <1>7, <1>8, <1>9, <1>10, <1>11, <1>12, <1>13, <1>14, <1>15 DEF IBase, j

LEMMA CachedPrimed ==
  ASSUME cache' \in Seq(Entry)
  PROVE  /\ Cached' = {e.id : e \in ToSet(cache')}
         /\ \A k \in 1..Len(cache') : cache'[k] \in ToSet(cache')
         /\ \A e \in ToSet(cache') : e \in Entry /\ \E k \in 1..Len(cache') : cache'[k] = e
  <1>1. /\ \A k \in 1..Len(cache') : cache'[k] \in ToSet(cache')
        /\ \A e \in ToSet(cache') : \E k \in 1..Len(cache') : cache'[k] = e
        /\ ToSet(cache') \subseteq Entry
    BY SeqSet
  <1>2. Cached' = {e.id : e \in ToSet(cache')}
    BY <1>1 DEF Cached
  <1>3. QED
    BY <1>1, <1>2

\* A message that is added is in its place by time.
LEMMA AddedFacts ==
  ASSUME IBase, NEW i \in 1..Len(archive), ~Duplicate(i), NEW state \in {"plain", "retracted", "dangling"}
  PROVE  /\ Added(i, state) \in Seq(Entry)
         /\ ToSet(Added(i, state)) = ToSet(cache) \cup {[id |-> i, state |-> state]}
         /\ Ascending(Added(i, state)) /\ Distinct(Added(i, state))
  <1> DEFINE e == [id |-> i, state |-> state]
             s == Append(cache, e)
  <1>1. cache \in Seq(Entry) /\ Len(archive) \in Nat
    BY DEF IBase, IType
  <1>2. e \in Entry /\ e.id = i
    BY <1>1 DEF Entry
  <1> HIDE DEF e
  <1>3. /\ s \in Seq(Entry) /\ ToSet(s) = ToSet(cache) \cup {e}
        /\ Len(cache) \in Nat /\ Len(s) = Len(cache) + 1
        /\ \A k \in 1..Len(cache) : s[k] = cache[k]
        /\ s[Len(cache) + 1] = e
    BY <1>1, <1>2, AppendSet
  <1> HIDE DEF s
  <1>4. \A k \in 1..Len(cache) : cache[k].id \in 1..Len(archive) /\ cache[k].id # i
    BY <1>1, CachedFacts DEF IBase, IBounds, Duplicate, Cached
  <1>5. \A k \in 1..Len(s) : k \in 1..Len(cache) \/ k = Len(cache) + 1
    BY <1>3
  <1>6. \A k \in 1..Len(s) : s[k].id \in 1..Len(archive)
    BY <1>2, <1>3, <1>4, <1>5
  <1>7. Distinct(s)
    <2> SUFFICES ASSUME NEW k \in 1..Len(s), NEW l \in 1..Len(s), s[k].id = s[l].id PROVE k = l
      BY DEF Distinct
    <2>1. CASE k \in 1..Len(cache) /\ l \in 1..Len(cache)
      BY <1>3, <2>1 DEF IBase, NoDuplicates
    <2>2. CASE k = Len(cache) + 1 /\ l = Len(cache) + 1
      BY <2>2
    <2>3. CASE k \in 1..Len(cache) /\ l = Len(cache) + 1
      BY <1>2, <1>3, <1>4, <2>3
    <2>4. CASE l \in 1..Len(cache) /\ k = Len(cache) + 1
      BY <1>2, <1>3, <1>4, <2>4
    <2>5. QED
      BY <1>5, <2>1, <2>2, <2>3, <2>4
  <1>8. /\ Sorted(s) \in Seq(Entry) /\ ToSet(Sorted(s)) = ToSet(s)
        /\ Ascending(Sorted(s)) /\ Distinct(Sorted(s))
    BY <1>1, <1>3, <1>6, <1>7, SortedFacts
  <1>9. Added(i, state) = Sorted(s)
    BY DEF Added, s, e
  <1>10. QED
    BY <1>3, <1>8, <1>9 DEF e

LEMMA ReplacedFacts ==
  ASSUME cache \in Seq(Entry), NEW k \in 1..Len(cache), NEW e \in Entry, NEW new \in Seq(Entry),
         Len(new) = Len(cache), \A l \in 1..Len(cache) : new[l] = IF l = k THEN e ELSE cache[l]
  PROVE  /\ \A d \in ToSet(new) : d = e \/ d \in ToSet(cache)
         /\ e \in ToSet(new)
         /\ \A d \in ToSet(cache) : d = cache[k] \/ d \in ToSet(new)
  <1>1. /\ new \in Seq(Entry) /\ Len(new) = Len(cache)
        /\ \A l \in 1..Len(cache) : new[l] = IF l = k THEN e ELSE cache[l]
    OBVIOUS
  <1>2. /\ \A l \in 1..Len(new) : new[l] \in ToSet(new)
        /\ \A d \in ToSet(new) : \E l \in 1..Len(new) : new[l] = d
    BY <1>1, SeqSet
  <1>3. /\ \A l \in 1..Len(cache) : cache[l] \in ToSet(cache)
        /\ \A d \in ToSet(cache) : \E l \in 1..Len(cache) : cache[l] = d
    BY SeqSet
  <1>4. ASSUME NEW d \in ToSet(new), d # e PROVE d \in ToSet(cache)
    <2>1. PICK l \in 1..Len(cache) : new[l] = d
      BY <1>1, <1>2
    <2>2. l # k /\ new[l] = cache[l]
      BY <1>1, <1>4, <2>1
    <2>3. QED
      BY <1>3, <2>1, <2>2
  <1>5. e \in ToSet(new)
    <2>1. new[k] = e /\ k \in 1..Len(new)
      BY <1>1
    <2>2. QED
      BY <1>2, <2>1
  <1>6. ASSUME NEW d \in ToSet(cache), d # cache[k] PROVE d \in ToSet(new)
    <2>1. PICK l \in 1..Len(cache) : cache[l] = d
      BY <1>3
    <2>2. l # k /\ new[l] = d
      BY <1>1, <1>6, <2>1
    <2>3. QED
      BY <1>1, <1>2, <2>2
  <1>7. QED
    BY <1>4, <1>5, <1>6

\* No retraction waits that the message i would find.
NoneWaits(i) == MostRecent > i => Dangling(i) = {}

\* A message that is handled: it is there already, added, marks its target as
\* retracted, or takes the entry of its retraction.
Handled(i) ==
    \/ Duplicate(i) /\ UNCHANGED <<cache, disordered>>
    \/ /\ ~Duplicate(i) /\ archive[i] # 0 /\ Holding(archive[i]) = {}
       /\ cache' = Added(i, "dangling") /\ disordered' = disordered
    \/ /\ ~Duplicate(i) /\ archive[i] = 0 /\ NoneWaits(i)
       /\ cache' = Added(i, "plain") /\ disordered' = disordered
    \/ /\ ~Duplicate(i) /\ archive[i] # 0 /\ disordered' = disordered
       /\ \E k \in 1..Len(cache) : cache[k].id = archive[i] /\ cache' = [cache EXCEPT ![k] = [cache[k] EXCEPT !.state = "retracted"]]
    \/ /\ ~Duplicate(i) /\ archive[i] = 0 /\ disordered' = TRUE
       /\ \E k \in 1..Len(cache) : /\ cache[k].state = "dangling"
                                   /\ cache' = [cache EXCEPT ![k] = [id |-> i, state |-> "retracted"]]

LEMMA HandledCases ==
  ASSUME IBase, HandleMessage
  PROVE  /\ loaded /\ queue # <<>> /\ queue' = Tail(queue) /\ Handled(Head(queue))
         /\ UNCHANGED <<room, net, entry, gaps, faults, since, unmarked>>
         /\ Head(queue) \in 1..Len(archive) /\ queue' \in Seq(Nat) /\ ToSet(queue) = ToSet(queue') \cup {Head(queue)}
  <1> DEFINE i == Head(queue)
  <1>1. /\ loaded /\ queue # <<>> /\ queue' = Tail(queue)
        /\ UNCHANGED <<room, net, entry, gaps, faults, since, unmarked>>
    BY DEF HandleMessage
  <1>2. i \in 1..Len(archive) /\ queue' \in Seq(Nat) /\ ToSet(queue) = ToSet(queue') \cup {i}
    BY <1>1, TailSet DEF IBase, IType, IBounds
  <1> HIDE DEF i
  <1>3. \E waiting \in SUBSET Dangling(i) :
          /\ waiting = {} => NoneWaits(i)
          /\ \/ Duplicate(i) /\ UNCHANGED <<cache, disordered>>
             \/ /\ ~Duplicate(i) /\ archive[i] # 0
                /\ \/ Holding(archive[i]) = {} /\ cache' = Added(i, "dangling")
                   \/ \E k \in Holding(archive[i]) : cache' = [cache EXCEPT ![k].state = "retracted"]
                /\ UNCHANGED disordered
             \/ /\ ~Duplicate(i) /\ archive[i] = 0
                /\ \/ waiting = {} /\ cache' = Added(i, "plain")
                   \/ \E k \in waiting : cache' = [cache EXCEPT ![k] = [id |-> i, state |-> "retracted"]]
                /\ disordered' = (disordered \/ waiting # {})
    <2>1. PICK newer \in {MostRecent > i, TRUE} :
            \/ Duplicate(i) /\ UNCHANGED <<cache, disordered>>
            \/ /\ ~Duplicate(i) /\ archive[i] # 0
               /\ \/ Holding(archive[i]) = {} /\ cache' = Added(i, "dangling")
                  \/ \E k \in Holding(archive[i]) : cache' = [cache EXCEPT ![k].state = "retracted"]
               /\ UNCHANGED disordered
            \/ /\ ~Duplicate(i) /\ archive[i] = 0
               /\ \/ (IF newer THEN Dangling(i) ELSE {}) = {} /\ cache' = Added(i, "plain")
                  \/ \E k \in IF newer THEN Dangling(i) ELSE {} :
                        cache' = [cache EXCEPT ![k] = [id |-> i, state |-> "retracted"]]
               /\ disordered' = (disordered \/ (IF newer THEN Dangling(i) ELSE {}) # {})
      BY DEF HandleMessage, i
    <2> DEFINE waiting == IF newer THEN Dangling(i) ELSE {}
    <2>2. waiting \in SUBSET Dangling(i)
      OBVIOUS
    <2>3. MostRecent > i => newer
      BY Zenon
    <2>4. waiting = {} => NoneWaits(i)
      BY <2>3 DEF NoneWaits
    <2>5. QED
      BY <2>1, <2>2, <2>4
  <1>a. PICK waiting \in SUBSET Dangling(i) :
          /\ waiting = {} => NoneWaits(i)
          /\ \/ Duplicate(i) /\ UNCHANGED <<cache, disordered>>
             \/ /\ ~Duplicate(i) /\ archive[i] # 0
                /\ \/ Holding(archive[i]) = {} /\ cache' = Added(i, "dangling")
                   \/ \E k \in Holding(archive[i]) : cache' = [cache EXCEPT ![k].state = "retracted"]
                /\ UNCHANGED disordered
             \/ /\ ~Duplicate(i) /\ archive[i] = 0
                /\ \/ waiting = {} /\ cache' = Added(i, "plain")
                   \/ \E k \in waiting : cache' = [cache EXCEPT ![k] = [id |-> i, state |-> "retracted"]]
                /\ disordered' = (disordered \/ waiting # {})
    BY <1>3
  <1>4. \A k \in Holding(archive[i]) : k \in 1..Len(cache) /\ cache[k].id = archive[i]
    BY DEF Holding
  <1>5. \A k \in waiting : k \in 1..Len(cache) /\ cache[k].state = "dangling"
    BY DEF Dangling
  <1>6. disordered \in BOOLEAN
    BY DEF IBase, IType
  <1>7. CASE Duplicate(i) /\ UNCHANGED <<cache, disordered>>
    BY <1>1, <1>2, <1>7 DEF Handled, i
  <1>8. CASE /\ ~Duplicate(i) /\ archive[i] # 0 /\ UNCHANGED disordered
             /\ Holding(archive[i]) = {} /\ cache' = Added(i, "dangling")
    BY <1>1, <1>2, <1>8 DEF Handled, i
  <1>9. CASE /\ ~Duplicate(i) /\ archive[i] # 0 /\ UNCHANGED disordered
             /\ \E k \in Holding(archive[i]) : cache' = [cache EXCEPT ![k].state = "retracted"]
    BY <1>1, <1>2, <1>4, <1>9 DEF Handled, i
  <1>10. CASE /\ ~Duplicate(i) /\ archive[i] = 0 /\ disordered' = (disordered \/ waiting # {})
              /\ waiting = {} /\ cache' = Added(i, "plain")
    BY <1>1, <1>2, <1>a, <1>6, <1>10 DEF Handled, i
  <1>11. CASE /\ ~Duplicate(i) /\ archive[i] = 0 /\ disordered' = (disordered \/ waiting # {})
              /\ \E k \in waiting : cache' = [cache EXCEPT ![k] = [id |-> i, state |-> "retracted"]]
    <2>1. disordered' = TRUE
      BY <1>11
    <2>2. QED
      BY <1>1, <1>2, <1>5, <1>11, <2>1 DEF Handled, i
  <1>12. QED
    BY <1>a, <1>7, <1>8, <1>9, <1>10, <1>11

\* What becomes of the collection: it stays, an entry of i is added, or an entry
\* gives way to one of the state retracted.
Grown(i, state) ==
    /\ ~Duplicate(i) /\ state \in {"plain", "dangling"} /\ (state = "dangling" <=> archive[i] # 0)
    /\ ToSet(cache') = ToSet(cache) \cup {[id |-> i, state |-> state]}
    /\ Ascending(cache') /\ disordered' = disordered
    /\ state = "dangling" => Holding(archive[i]) = {}
    /\ state = "plain" => NoneWaits(i)

Changed(old, new) ==
    /\ \A d \in ToSet(cache') : d = new \/ d \in ToSet(cache)
    /\ \A d \in ToSet(cache) : d = old \/ d \in ToSet(cache')
    /\ old \in ToSet(cache) /\ new \in ToSet(cache')
    /\ new.state = "retracted" /\ archive[new.id] = 0 /\ new.id \in 1..Len(archive)

LEMMA BaseHandle ==
  ASSUME IBase, HandleMessage
  PROVE  /\ IBase'
         /\ \/ cache' = cache /\ disordered' = disordered /\ Duplicate(Head(queue))
            \/ \E state \in {"plain", "dangling"} : Grown(Head(queue), state)
            \/ \E old, new \in Entry :
                  /\ Changed(old, new)
                  /\ \/ /\ new.id = old.id /\ disordered' = disordered /\ archive[Head(queue)] # 0
                        /\ (Ascending(cache) => Ascending(cache'))
                     \/ new.id = Head(queue) /\ old.state = "dangling" /\ disordered' = TRUE
  <1> DEFINE i == Head(queue)
  <1>1. /\ Handled(i) /\ UNCHANGED <<room, net, entry, gaps, faults, since, unmarked>>
        /\ i \in 1..Len(archive) /\ queue' \in Seq(Nat) /\ ToSet(queue') \subseteq 1..Len(archive)
    BY HandledCases DEF IBase, IBounds
  <1> HIDE DEF i
  <1>2. cache \in Seq(Entry) /\ Len(archive) \in Nat /\ disordered \in BOOLEAN
    BY DEF IBase, IType
  <1>3. ASSUME cache' \in Seq(Entry), NoDuplicates', disordered' \in BOOLEAN,
               \A e \in ToSet(cache') : e.id \in 1..Len(archive) /\ (e.state = "dangling" <=> archive[e.id] # 0)
        PROVE  IBase'
    <2>1. Coming' = Coming /\ Sent' = Sent /\ (Joining' <=> Joining)
      BY <1>1 DEF Coming, Sent, Joining, net
    <2>2. IType'
      BY <1>1, <1>3 DEF IBase, IType, room, net, entry, gaps
    <2>3. IBounds'
      BY <1>1, <1>3, <2>1 DEF IBase, IBounds, room, gaps
    <2>4. IQueues'
      BY <1>1, <2>1 DEF IBase, IQueues, net, gaps
    <2>5. IPhase'
      BY <1>1, <2>1 DEF IBase, IPhase, room, net, entry
    <2>6. QED
      BY <1>3, <2>2, <2>3, <2>4, <2>5 DEF IBase
  <1>4. \A e \in ToSet(cache) : e.id \in 1..Len(archive) /\ (e.state = "dangling" <=> archive[e.id] # 0)
    BY DEF IBase, IBounds
  <1>5. CASE Duplicate(i) /\ UNCHANGED <<cache, disordered>>
    <2>1. NoDuplicates'
      BY <1>5 DEF IBase, NoDuplicates
    <2>2. QED
      BY <1>2, <1>3, <1>4, <1>5, <2>1 DEF i
  <1>6. ASSUME NEW state \in {"plain", "dangling"}, ~Duplicate(i), state = "dangling" <=> archive[i] # 0,
               cache' = Added(i, state), disordered' = disordered,
               state = "dangling" => Holding(archive[i]) = {},
               state = "plain" => NoneWaits(i)
        PROVE  IBase' /\ \E st \in {"plain", "dangling"} : Grown(i, st)
    <2> DEFINE e == [id |-> i, state |-> state]
    <2>1. cache' \in Seq(Entry) /\ ToSet(cache') = ToSet(cache) \cup {e}
          /\ Ascending(cache') /\ Distinct(cache')
      BY <1>1, <1>6, AddedFacts
    <2>2. e.id = i /\ e.state = state
      OBVIOUS
    <2> HIDE DEF e
    <2>3. \A d \in ToSet(cache') : d.id \in 1..Len(archive) /\ (d.state = "dangling" <=> archive[d.id] # 0)
      BY <1>1, <1>4, <1>6, <2>1, <2>2
    <2>4. NoDuplicates'
      BY <2>1 DEF NoDuplicates, Distinct
    <2>5. IBase'
      BY <1>2, <1>3, <1>6, <2>1, <2>3, <2>4
    <2>6. Grown(i, state)
      BY <1>6, <2>1 DEF Grown, e
    <2>7. QED
      BY <2>5, <2>6
  <1>7. CASE /\ ~Duplicate(i) /\ archive[i] # 0 /\ Holding(archive[i]) = {}
             /\ cache' = Added(i, "dangling") /\ disordered' = disordered
    BY <1>6, <1>7 DEF i
  <1>8. CASE /\ ~Duplicate(i) /\ archive[i] = 0 /\ NoneWaits(i)
             /\ cache' = Added(i, "plain") /\ disordered' = disordered
    BY <1>6, <1>8 DEF i
  <1>9. ASSUME NEW k \in 1..Len(cache), NEW new \in Entry, cache' = [cache EXCEPT ![k] = new],
               new.state = "retracted", archive[new.id] = 0, new.id \in 1..Len(archive),
               \A l \in 1..Len(cache) : l # k => cache[l].id # new.id, disordered' \in BOOLEAN
        PROVE  IBase' /\ Changed(cache[k], new) /\ cache[k] \in Entry
               /\ (new.id = cache[k].id /\ Ascending(cache) => Ascending(cache'))
    <2>1. /\ cache' \in Seq(Entry) /\ Len(cache') = Len(cache)
          /\ \A l \in 1..Len(cache) : cache'[l] = IF l = k THEN new ELSE cache[l]
          /\ \A d \in ToSet(cache') : d = new \/ d \in ToSet(cache)
          /\ new \in ToSet(cache')
          /\ \A d \in ToSet(cache) : d = cache[k] \/ d \in ToSet(cache')
      <3> DEFINE c == cache'
      <3>1. c = [cache EXCEPT ![k] = new]
        BY <1>9
      <3> HIDE DEF c
      <3>2. /\ c \in Seq(Entry) /\ Len(c) = Len(cache)
            /\ \A l \in 1..Len(cache) : c[l] = IF l = k THEN new ELSE cache[l]
        BY <1>2, <3>1
      <3>3. /\ \A d \in ToSet(c) : d = new \/ d \in ToSet(cache)
            /\ new \in ToSet(c)
            /\ \A d \in ToSet(cache) : d = cache[k] \/ d \in ToSet(c)
        BY <1>2, <3>2, ReplacedFacts
      <3>4. QED
        BY <3>2, <3>3 DEF c
    <2>2. \A d \in ToSet(cache') : d.id \in 1..Len(archive) /\ (d.state = "dangling" <=> archive[d.id] # 0)
      BY <1>4, <1>9, <2>1
    <2>3. NoDuplicates'
      <3> SUFFICES ASSUME NEW l \in 1..Len(cache), NEW m \in 1..Len(cache), cache'[l].id = cache'[m].id PROVE l = m
        BY <2>1 DEF NoDuplicates
      <3>1. CASE l # k /\ m # k
        BY <2>1, <3>1 DEF IBase, NoDuplicates
      <3>2. CASE l = k \/ m = k
        BY <1>9, <2>1, <3>2
      <3>3. QED
        BY <3>1, <3>2
    <2>4. IBase'
      BY <1>3, <1>9, <2>1, <2>2, <2>3
    <2>5. cache[k] \in ToSet(cache) /\ cache[k] \in Entry
      BY <1>2, CachedFacts
    <2>6. ASSUME new.id = cache[k].id, Ascending(cache) PROVE Ascending(cache')
      <3>1. \A l \in 1..Len(cache) : cache'[l].id = cache[l].id
        BY <2>1, <2>6
      <3>2. QED
        BY <2>1, <2>6, <3>1 DEF Ascending
    <2>7. QED
      BY <1>9, <2>1, <2>4, <2>5, <2>6 DEF Changed
  <1>10. ASSUME NEW k \in 1..Len(cache), cache[k].id = archive[i], ~Duplicate(i), archive[i] # 0,
                disordered' = disordered, cache' = [cache EXCEPT ![k] = [cache[k] EXCEPT !.state = "retracted"]]
         PROVE  IBase' /\ \E old, new \in Entry :
                   /\ Changed(old, new) /\ new.id = old.id /\ disordered' = disordered /\ archive[i] # 0
                   /\ (Ascending(cache) => Ascending(cache'))
    <2> DEFINE new == [cache[k] EXCEPT !.state = "retracted"]
    <2>1. cache[k] \in Entry
      BY <1>2
    <2>2. new \in Entry /\ new.id = cache[k].id /\ new.state = "retracted"
      BY <2>1 DEF Entry
    <2>3. cache' = [cache EXCEPT ![k] = new]
      BY <1>10
    <2> HIDE DEF new
    <2>4. archive[i] \in 1..Len(archive) /\ archive[archive[i]] = 0
      BY <1>1, <1>10 DEF IBase, IBounds
    <2>5. \A l \in 1..Len(cache) : l # k => cache[l].id # new.id
      BY <2>2 DEF IBase, NoDuplicates
    <2>6. IBase' /\ Changed(cache[k], new) /\ (Ascending(cache) => Ascending(cache'))
      BY <1>2, <1>9, <1>10, <2>2, <2>3, <2>4, <2>5
    <2>7. QED
      BY <1>10, <2>1, <2>2, <2>6
  <1>11. ASSUME NEW k \in 1..Len(cache), cache[k].state = "dangling", ~Duplicate(i), archive[i] = 0,
                disordered' = TRUE, cache' = [cache EXCEPT ![k] = [id |-> i, state |-> "retracted"]]
         PROVE  IBase' /\ \E old, new \in Entry :
                   Changed(old, new) /\ new.id = i /\ old.state = "dangling" /\ disordered' = TRUE
    <2> DEFINE new == [id |-> i, state |-> "retracted"]
    <2>1. new \in Entry /\ new.id = i /\ new.state = "retracted"
      BY <1>1, <1>2 DEF Entry
    <2>2. cache' = [cache EXCEPT ![k] = new]
      BY <1>11
    <2> HIDE DEF new
    <2>3. \A l \in 1..Len(cache) : cache[l].id # i
      BY <1>11 DEF Duplicate, Cached
    <2>4. IBase' /\ Changed(cache[k], new) /\ cache[k] \in Entry
      BY <1>1, <1>9, <1>11, <2>1, <2>2, <2>3
    <2>5. QED
      BY <1>11, <2>1, <2>4
  <1>12. CASE /\ ~Duplicate(i) /\ archive[i] # 0 /\ disordered' = disordered
              /\ \E k \in 1..Len(cache) : cache[k].id = archive[i] /\ cache' = [cache EXCEPT ![k] = [cache[k] EXCEPT !.state = "retracted"]]
    BY <1>10, <1>12 DEF i
  <1>13. CASE /\ ~Duplicate(i) /\ archive[i] = 0 /\ disordered' = TRUE
              /\ \E k \in 1..Len(cache) : /\ cache[k].state = "dangling"
                                          /\ cache' = [cache EXCEPT ![k] = [id |-> i, state |-> "retracted"]]
    BY <1>11, <1>13 DEF i
  <1>14. QED
    BY <1>1, <1>5, <1>7, <1>8, <1>12, <1>13 DEF Handled

LEMMA BaseInit == Init => IBase
  <1> SUFFICES ASSUME Init PROVE IBase
    OBVIOUS
  <1>1. /\ archive = <<>> /\ toServer = <<>> /\ toClient = <<>> /\ cache = <<>> /\ queue = <<>>
        /\ inside = FALSE /\ up = TRUE /\ status = "out" /\ entering = FALSE /\ loaded = FALSE
        /\ holes = {} /\ queries = {} /\ retries = {} /\ faults = 0 /\ since = 0
        /\ unmarked = FALSE /\ disordered = FALSE
    BY DEF Init
  <1>2. /\ archive \in Seq(Nat) /\ toServer \in Seq(ToRoom) /\ toClient \in Seq(FromRoom)
        /\ cache \in Seq(Entry) /\ queue \in Seq(Nat) /\ Len(archive) = 0 /\ Len(cache) = 0
    BY <1>1, EmptySet
  <1>3. /\ Sent = {} /\ Coming = {} /\ ToSet(cache) = {} /\ ToSet(queue) = {}
    BY <1>1, EmptySet DEF Sent, Coming
  <1>4. IType
    <2>1. faults \in 0..MaxFaults /\ since \in 0..MaxPosted /\ Len(archive) <= MaxPosted
      BY <1>1, <1>2, HistoryAssumption
    <2>2. /\ inside \in BOOLEAN /\ up \in BOOLEAN /\ entering \in BOOLEAN /\ loaded \in BOOLEAN
          /\ unmarked \in BOOLEAN /\ disordered \in BOOLEAN /\ status \in {"out", "joining", "in"}
      BY <1>1
    <2>3. holes \in SUBSET Hole /\ queries \in SUBSET Query /\ retries \in SUBSET Query
      BY <1>1
    <2>4. QED
      BY <1>2, <2>1, <2>2, <2>3 DEF IType
  <1>5. IBounds
    BY <1>1, <1>2, <1>3 DEF IBounds
  <1>6. IQueues
    BY <1>1, <1>3, EmptyInOrder DEF IQueues
  <1>7. IPhase
    BY <1>1, <1>3 DEF IPhase, Joining
  <1>8. NoDuplicates
    BY <1>2 DEF NoDuplicates
  <1>9. QED
    BY <1>4, <1>5, <1>6, <1>7, <1>8 DEF IBase

LEMMA BaseStutter ==
  ASSUME IBase, UNCHANGED vars
  PROVE  IBase' /\ Sent' = Sent /\ Coming' = Coming /\ (Joining' <=> Joining)
  <1>1. UNCHANGED <<archive, inside, up, toServer, toClient, status, entering, loaded, cache, queue,
                    holes, queries, retries, faults, since, unmarked, disordered>>
    BY DEF vars, room, net, entry, store, gaps, history
  <1>2. Sent' = Sent /\ Coming' = Coming /\ (Joining' <=> Joining)
    BY <1>1 DEF Sent, Coming, Joining
  <1>3. IType' /\ IBounds' /\ IQueues' /\ NoDuplicates'
    BY <1>1, <1>2 DEF IBase, IType, IBounds, IQueues, NoDuplicates
  <1>4. IPhase'
    BY <1>1, <1>2 DEF IBase, IPhase
  <1>5. QED
    BY <1>2, <1>3, <1>4 DEF IBase

LEMMA BaseNext ==
  ASSUME IBase, [Next]_vars
  PROVE  IBase'
  <1>1. ASSUME World PROVE IBase'
    <2>1. ASSUME NEW t \in Unretracted \cup {0}, Post(t) PROVE IBase'
      <3>1. t \in Texts \cup {0}
        BY DEF Unretracted
      <3>2. QED
        BY <2>1, <3>1, BasePost
    <2>2. QED
      BY <1>1, <2>1, BaseKick, BaseDrop, BaseReload DEF World
  <1>2. ASSUME Room PROVE IBase'
    BY <1>2, BaseAdmit, AnswerLateFacts, AnswerQueryFacts, FailQueryFacts DEF Room
  <1>3. ASSUME Client PROVE IBase'
    BY <1>3, BaseShow, BaseReturn, BaseOnSelf, BaseOnKicked, BaseEnterRoom, BaseOnLive, BaseHandle,
       BaseOnPage, BaseOnError, BaseOnLate, BaseTimeOut, BaseRetry, BaseExpire, BaseFillGap DEF Client
  <1>4. QED
    BY <1>1, <1>2, <1>3, BaseStutter DEF Next

LEMMA BaseTypeOK ==
  ASSUME IBase
  PROVE  TypeOK
  <1>1. \A k \in 1..Len(cache) :
           /\ cache[k].id \in 1..Len(archive)
           /\ cache[k].state \in IF archive[cache[k].id] = 0 THEN {"plain", "retracted"} ELSE {"dangling"}
    <2> SUFFICES ASSUME NEW k \in 1..Len(cache)
                 PROVE  /\ cache[k].id \in 1..Len(archive)
                        /\ cache[k].state \in IF archive[cache[k].id] = 0 THEN {"plain", "retracted"} ELSE {"dangling"}
      OBVIOUS
    <2>1. cache[k] \in ToSet(cache) /\ cache[k] \in Entry
      BY CachedFacts DEF IBase, IType
    <2>2. cache[k].id \in 1..Len(archive) /\ (cache[k].state = "dangling" <=> archive[cache[k].id] # 0)
          /\ cache[k].state \in {"plain", "retracted", "dangling"}
      BY <2>1 DEF IBase, IBounds, Entry
    <2>3. QED
      BY <2>2
  <1>2. \A q \in queries \cup retries : q.before \in 0..Len(archive) /\ q.start \in 0..Len(archive)
    BY DEF IBase, IType, IBounds, Query
  <1>3. \A h \in holes : h.before \in 1..Len(archive) /\ h.start \in 0..Len(archive)
    BY DEF IBase, IType, IBounds, Hole
  <1>4. QED
    BY <1>1, <1>2, <1>3 DEF IBase, IType, IBounds, TypeOK

\* A stored entry is of a message of the archive and tells text from retraction; the
\* queue, the holes and the queries name only what the archive has.
THEOREM TypeCorrect == Spec => []TypeOK
  <1>1. Init => IBase
    BY BaseInit
  <1>2. IBase /\ [Next]_vars => IBase'
    BY BaseNext
  <1>3. IBase => TypeOK
    BY BaseTypeOK
  <1>4. QED
    BY <1>1, <1>2, <1>3, PTL DEF Spec

\* A message is stored once, however often live messages, pages and repeated
\* queries bring it.
THEOREM StoredOnce == Spec => []NoDuplicates
  <1>1. Init => IBase
    BY BaseInit
  <1>2. IBase /\ [Next]_vars => IBase'
    BY BaseNext
  <1>3. IBase => NoDuplicates
    BY DEF IBase
  <1>4. QED
    BY <1>1, <1>2, <1>3, PTL DEF Spec

-----------------------------------------------------------------------------
(* Retractions find their messages as long as the collection is in order.     *)

Found ==
    \A d, e \in ToSet(cache) : d.state = "dangling" /\ e.id = archive[d.id] => disordered \/ e.id \in Bare

IRetracted == (~disordered => Ascending(cache)) /\ Found

LEMMA FoundMeans ==
  ASSUME IBase
  PROVE  Found <=> RetractionFound
  <1>1. /\ \A k \in 1..Len(cache) : cache[k] \in ToSet(cache)
        /\ \A e \in ToSet(cache) : \E k \in 1..Len(cache) : cache[k] = e
    BY CachedFacts DEF IBase, IType
  <1>2. Found => RetractionFound
    BY <1>1 DEF Found, RetractionFound
  <1>3. ASSUME RetractionFound, NEW d \in ToSet(cache), NEW e \in ToSet(cache),
               d.state = "dangling", e.id = archive[d.id]
        PROVE  disordered \/ e.id \in Bare
    <2>1. PICK k \in 1..Len(cache) : cache[k] = d
      BY <1>1
    <2>2. PICK l \in 1..Len(cache) : cache[l] = e
      BY <1>1
    <2>3. QED
      BY <1>3, <2>1, <2>2 DEF RetractionFound
  <1>4. QED
    BY <1>2, <1>3 DEF Found

\* In an ordered collection, the last entry is the newest.
LEMMA LastIsNewest ==
  ASSUME IBase, Ascending(cache), NEW d \in ToSet(cache)
  PROVE  cache # <<>> /\ d.id <= MostRecent
  <1>1. cache \in Seq(Entry)
    BY DEF IBase, IType
  <1>2. PICK k \in 1..Len(cache) : cache[k] = d
    BY <1>1, CachedFacts
  <1>3. cache # <<>> /\ Len(cache) \in 1..Len(cache) /\ MostRecent = cache[Len(cache)].id
    BY <1>1, <1>2, CachedFacts DEF MostRecent
  <1>4. d.id \in Nat /\ MostRecent \in Nat
    BY <1>1, <1>2, <1>3, CachedFacts DEF Entry
  <1>5. CASE k = Len(cache)
    BY <1>2, <1>3, <1>4, <1>5
  <1>6. CASE k # Len(cache)
    <2>1. k < Len(cache)
      BY <1>1, <1>2, <1>6
    <2>2. QED
      BY <1>2, <1>3, <1>4, <2>1 DEF Ascending
  <1>7. QED
    BY <1>5, <1>6

LEMMA RetractedHandle ==
  ASSUME IBase, IRetracted, HandleMessage
  PROVE  IRetracted'
  <1> DEFINE i == Head(queue)
  <1>1. i \in 1..Len(archive) /\ archive' = archive
    BY HandledCases DEF room
  <1>2. disordered \in BOOLEAN /\ cache \in Seq(Entry)
    BY DEF IBase, IType
  <1>3. CASE cache' = cache /\ disordered' = disordered
    BY <1>1, <1>3 DEF IRetracted, Found, Ascending
  <1>4. ASSUME NEW state \in {"plain", "dangling"}, Grown(i, state) PROVE IRetracted'
    <2> DEFINE new == [id |-> i, state |-> state]
    <2>1. /\ state = "dangling" <=> archive[i] # 0
          /\ ToSet(cache') = ToSet(cache) \cup {new} /\ Ascending(cache') /\ disordered' = disordered
          /\ state = "dangling" => Holding(archive[i]) = {}
          /\ state = "plain" => NoneWaits(i)
      BY <1>4 DEF Grown
    <2>2. new.id = i /\ new.state = state
      OBVIOUS
    <2> HIDE DEF new, i
    <2> SUFFICES ASSUME ~disordered, NEW d \in ToSet(cache'), NEW e \in ToSet(cache'),
                        d.state = "dangling", e.id = archive[d.id], e.id \notin Bare
                 PROVE  FALSE
      BY <1>1, <1>2, <2>1 DEF IRetracted, Found
    <2>3. CASE d \in ToSet(cache) /\ e \in ToSet(cache)
      BY <2>3 DEF IRetracted, Found
    <2>4. CASE d = new /\ e \in ToSet(cache)
      <3>1. PICK k \in 1..Len(cache) : cache[k] = e
        BY <1>2, <2>4, CachedFacts
      <3>2. k \in Holding(archive[i])
        BY <2>2, <2>4, <3>1 DEF Holding
      <3>3. QED
        BY <2>1, <2>2, <2>4, <3>2
    <2>5. CASE d = new /\ e = new
      BY <1>1, <2>1, <2>2, <2>5 DEF IBase, IType, IBounds
    <2>6. CASE d \in ToSet(cache) /\ e = new
      <3>1. archive[d.id] = i /\ d.id \in 1..Len(archive) /\ i # 0
        BY <1>1, <2>2, <2>6 DEF IBase, IBounds, IType
      <3> DEFINE j == d.id
      <3>a. j \in 1..Len(archive) /\ archive[j] = i /\ archive[j] # 0
        BY <3>1
      <3>b. j \in Nat /\ i \in Nat
        BY <1>1, <3>1 DEF IBase, IType
      <3>c. archive[j] < j /\ archive[archive[j]] = 0
        BY <3>a DEF IBase, IBounds
      <3>2. archive[i] = 0 /\ i < d.id /\ d.id \in Nat /\ i \in Nat
        BY <3>a, <3>b, <3>c
      <3>3. cache # <<>> /\ d.id <= MostRecent
        BY <2>6, LastIsNewest DEF IRetracted
      <3>4. MostRecent > i
        BY <3>2, <3>3, MostRecentFacts
      <3>5. PICK k \in 1..Len(cache) : cache[k] = d
        BY <1>2, <2>6, CachedFacts
      <3>6. k \in Dangling(i)
        BY <2>2, <2>6, <3>1, <3>5 DEF Dangling
      <3>7. QED
        BY <2>1, <3>2, <3>4, <3>6 DEF NoneWaits
    <2>7. QED
      BY <2>1, <2>3, <2>4, <2>5, <2>6
  <1>5. ASSUME NEW old \in Entry, NEW new \in Entry, Changed(old, new), new.id = old.id,
               disordered' = disordered, Ascending(cache) => Ascending(cache')
        PROVE  IRetracted'
    <2> SUFFICES ASSUME ~disordered, NEW d \in ToSet(cache'), NEW e \in ToSet(cache'),
                        d.state = "dangling", e.id = archive[d.id], e.id \notin Bare
                 PROVE  FALSE
      BY <1>1, <1>2, <1>5 DEF IRetracted, Found
    <2>1. d \in ToSet(cache)
      BY <1>5 DEF Changed
    <2>2. e \in ToSet(cache) \/ (old \in ToSet(cache) /\ old.id = e.id)
      BY <1>5 DEF Changed
    <2>3. QED
      BY <2>1, <2>2 DEF IRetracted, Found
  <1>6. ASSUME disordered' = TRUE PROVE IRetracted'
    BY <1>6 DEF IRetracted, Found
  <1>7. QED
    BY <1>3, <1>4, <1>5, <1>6, BaseHandle

LEMMA RetractedNext ==
  ASSUME IBase, IRetracted, [Next]_vars
  PROVE  IRetracted'
  <1>1. ASSUME cache' = cache, disordered' = disordered, archive' = archive PROVE IRetracted'
    BY <1>1 DEF IRetracted, Found, Ascending
  <1>2. ASSUME NEW t, Post(t) PROVE IRetracted'
    <2>1. archive' = Append(archive, t) /\ cache' = cache /\ disordered' = disordered
      BY <1>2 DEF Post, store, history
    <2>2. \A d \in ToSet(cache) : archive'[d.id] = archive[d.id]
      BY <2>1 DEF IBase, IType, IBounds
    <2>3. QED
      BY <2>1, <2>2 DEF IRetracted, Found, Ascending
  <1>3. ASSUME Reload PROVE IRetracted'
    <2>1. ToSet(cache') = ToSet(cache) /\ Ascending(cache')
      BY <1>3, BaseReload
    <2>2. archive' = archive /\ disordered' = disordered
      BY <1>3 DEF Reload
    <2>3. QED
      BY <2>1, <2>2 DEF IRetracted, Found
  <1>4. ASSUME World PROVE IRetracted'
    <2>1. ASSUME Kick PROVE IRetracted'
      BY <1>1, <2>1 DEF Kick, store, history
    <2>2. ASSUME Drop PROVE IRetracted'
      BY <1>1, <2>2 DEF Drop, store, history
    <2>3. QED
      BY <1>2, <1>3, <1>4, <2>1, <2>2 DEF World
  <1>5. ASSUME Room PROVE IRetracted'
    BY <1>1, <1>5 DEF Room, Admit, AnswerLate, AnswerQuery, FailQuery, room, store, history
  <1>6. ASSUME Client, ~HandleMessage PROVE IRetracted'
    <2>1. archive' = archive /\ cache' = cache /\ disordered' = disordered
      BY <1>6 DEF Client, Show, Return, OnSelf, OnKicked, EnterRoom, OnLive, OnPage, OnError, OnLate,
                  TimeOut, Retry, Expire, FillGap, room, store, history
    <2>2. QED
      BY <1>1, <2>1
  <1>7. ASSUME UNCHANGED vars PROVE IRetracted'
    BY <1>1, <1>7 DEF vars, room, store, history
  <1>8. QED
    BY <1>4, <1>5, <1>6, <1>7, RetractedHandle DEF Next

\* A retraction that names its message by the origin id never waits beside it
\* while the collection is in the order of time: the one that comes second finds
\* the first.
THEOREM RetractionsMeet == Spec => []RetractionFound
  <1>1. Init => IBase /\ IRetracted
    <2>1. Init => ToSet(cache) = {} /\ Len(cache) = 0
      BY EmptySet DEF Init
    <2>2. QED
      BY <2>1, BaseInit DEF IRetracted, Found, Ascending
  <1>2. IBase /\ IRetracted /\ [Next]_vars => IBase' /\ IRetracted'
    BY BaseNext, RetractedNext
  <1>3. IBase /\ IRetracted => RetractionFound
    BY FoundMeans DEF IRetracted
  <1>4. QED
    BY <1>1, <1>2, <1>3, PTL DEF Spec

-----------------------------------------------------------------------------
(* Gaps are marked: of each text that the client has not got, something is    *)
(* known to lead to it, or it has yet to reach the room or be asked for.      *)

\* A page holds ids within the bounds of its query, and all that the query covered
\* when it was answered is in the page or below one that is not complete.
IPages ==
    \A m \in Coming : m.kind = "page" =>
        /\ \A j \in ToSet(m.ids) : m.query.start <= j /\ (m.query.before # 0 => j < m.query.before)
        /\ \A i \in 1..Len(archive) : Covers(m.query, i) =>
              Brings(m, i) \/ (m.query.before = 0 /\ \A j \in ToSet(m.ids) : j < i)

\* After a reconnection, the archive is asked for all that comes before the client
\* is admitted.
IReturned ==
    Joining /\ since > Len(archive) =>
        /\ toServer # <<>> /\ Head(toServer) = [kind |-> "join"] /\ Coming = {}
        /\ unmarked \/ \E s \in queries \cup retries : s.before = 0

StartsBelow(i) == \A g \in holes \cup queries \cup retries : g.start <= i

Fresh(i) == StartsBelow(i) /\ \A b \in Known : b < i

\* The client has the message, or something leads to it.
Safe(i) ==
    \/ i \in Known
    \/ \E h \in holes \cup retries : Covers(h, i)
    \/ \E q \in queries :
          Covers(q, i) /\ \A m \in Coming : m.kind = "page" /\ m.query = q => Brings(m, i)
    \/ ~loaded /\ Cached # {} /\ \A j \in Cached : i < j

OnItsWay(i) == Fresh(i) /\ \E m \in Lives : m.id = i

Away(i) ==
    /\ Fresh(i) /\ \A m \in Lives : m.id < i
    /\ status = "out" \/ \E m \in Coming : m.kind = "kicked"

Rejoining(i) == Fresh(i) /\ since < i /\ (Joining \/ \E m \in Coming : m.kind = "self")

Entering(i) == entering /\ since < i /\ StartsBelow(i) /\ (~loaded => \A j \in Cached : j < i)

Awaited(i) == OnItsWay(i) \/ Away(i) \/ Rejoining(i) \/ Entering(i)

IKept == ~unmarked => \A i \in Texts : Safe(i) \/ Awaited(i)

LEMMA PagesStay ==
  ASSUME IPages, archive' = archive, \A m \in Coming' : m.kind = "page" => m \in Coming
  PROVE  IPages'
  BY DEF IPages

\* In no step but the answer to a query does a page come on its way.
LEMMA PagesCome ==
  ASSUME IBase, [Next]_vars, \A q : ~AnswerQuery(q)
  PROVE  \A m \in Coming' : m.kind = "page" => m \in Coming
  <1>1. ASSUME toClient' = toClient PROVE Coming' = Coming
    BY <1>1 DEF Coming
  <1>2. ASSUME NEW kind, Got(kind) PROVE Coming' \subseteq Coming
    BY <1>2, GotFacts DEF IBase
  <1>3. ASSUME NEW m \in FromRoom, m.kind # "page", toClient' = Append(toClient, m)
        PROVE  \A n \in Coming' : n.kind = "page" => n \in Coming
    <2>1. Coming' = Coming \cup {m}
      BY <1>3, ComesFacts DEF IBase
    <2>2. QED
      BY <1>3, <2>1
  <1>4. ASSUME NEW t, Post(t) PROVE \A n \in Coming' : n.kind = "page" => n \in Coming
    <2> DEFINE m == [kind |-> "live", id |-> Len(archive) + 1]
    <2>1. m \in FromRoom /\ m.kind = "live"
      BY Stanzas DEF IBase, IType
    <2>2. toClient' = Append(toClient, m) \/ toClient' = toClient
      BY <1>4 DEF Post
    <2> HIDE DEF m
    <2>3. QED
      BY <1>1, <1>3, <2>1, <2>2
  <1>5. ASSUME World PROVE \A n \in Coming' : n.kind = "page" => n \in Coming
    BY <1>4, <1>5, BaseKick, BaseDrop, BaseReload DEF World
  <1>6. ASSUME Room PROVE \A n \in Coming' : n.kind = "page" => n \in Coming
    <2>1. ASSUME Admit PROVE \A n \in Coming' : n.kind = "page" => n \in Coming
      <3> DEFINE m == [kind |-> "self"]
      <3>1. m \in FromRoom /\ m.kind = "self" /\ toClient' = Append(toClient, m)
        BY <2>1, Stanzas DEF Admit
      <3> HIDE DEF m
      <3>2. QED
        BY <1>3, <3>1
    <2>2. QED
      BY <1>6, <2>1, AnswerLateFacts, FailQueryFacts DEF Room
  <1>7. ASSUME Client PROVE \A n \in Coming' : n.kind = "page" => n \in Coming
    <2>1. ASSUME NEW q, TimeOut(q) PROVE \A n \in Coming' : n.kind = "page" => n \in Coming
      BY <2>1, BaseTimeOut
    <2>2. ASSUME HandleMessage \/ Show \/ Return \/ EnterRoom PROVE Coming' = Coming
      BY <1>1, <2>2 DEF HandleMessage, Show, Return, EnterRoom, net
    <2>3. ASSUME NEW q, Retry(q) \/ Expire(q) \/ FillGap(q) PROVE Coming' = Coming
      BY <1>1, <2>3 DEF Retry, Expire, FillGap, net
    <2>4. ASSUME OnSelf \/ OnKicked \/ OnLive \/ OnPage \/ OnError \/ OnLate PROVE Coming' \subseteq Coming
      BY <1>2, <2>4 DEF OnSelf, OnKicked, OnLive, OnPage, OnError, OnLate
    <2>5. QED
      BY <1>7, <2>1, <2>2, <2>3, <2>4 DEF Client
  <1>8. ASSUME UNCHANGED vars PROVE Coming' = Coming
    BY <1>8, BaseStutter
  <1>9. QED
    BY <1>5, <1>6, <1>7, <1>8 DEF Next

LEMMA PagesNext ==
  ASSUME IBase, IPages, [Next]_vars
  PROVE  IPages'
  <1>1. ASSUME NEW t, Post(t), \A m \in Coming' : m.kind = "page" => m \in Coming PROVE IPages'
    <2>1. archive \in Seq(Nat) /\ archive' = Append(archive, t) /\ Len(archive') = Len(archive) + 1 /\ Len(archive) \in Nat
      BY <1>1 DEF Post, IBase, IType
    <2> SUFFICES ASSUME NEW m \in Coming, m.kind = "page"
                 PROVE  \A i \in 1..Len(archive') : Covers(m.query, i) =>
                           Brings(m, i) \/ (m.query.before = 0 /\ \A j \in ToSet(m.ids) : j < i)
      BY <1>1 DEF IPages
    <2> SUFFICES ASSUME NEW i, i = Len(archive) + 1, Covers(m.query, i)
                 PROVE  m.query.before = 0 /\ \A j \in ToSet(m.ids) : j < i
      BY <2>1 DEF IPages
    <2>2. m.query \in queries /\ ToSet(m.ids) \subseteq 1..Len(archive)
      BY DEF IBase, IBounds, IQueues, OfQuery
    <2>3. m.query.before \in Nat /\ m.query.before <= Len(archive)
      BY <2>2 DEF IBase, IType, IBounds, Query
    <2>4. QED
      BY <2>1, <2>2, <2>3 DEF Covers
  <1>2. ASSUME NEW q, AnswerQuery(q) PROVE IPages'
    <2> DEFINE m == [kind |-> "page", query |-> q, ids |-> Page(q), complete |-> Complete(q)]
    <2>1. /\ Coming' = Coming \cup {m} /\ q \in Query /\ q.before <= Len(archive) /\ q.start <= Len(archive)
          /\ archive' = archive
      BY <1>2, AnswerQueryFacts DEF AnswerQuery, room
    <2>2. m.query = q /\ m.ids = Page(q) /\ m.complete = Complete(q)
      OBVIOUS
    <2> HIDE DEF m
    <2>3. /\ \A i \in ToSet(Page(q)) : q.start <= i /\ (q.before # 0 => i < q.before)
          /\ \A i \in 1..Len(archive) : Covers(q, i) =>
               \/ i \in ToSet(Page(q))
               \/ ~Complete(q) /\ Page(q) # <<>> /\ i < Head(Page(q)) /\ i >= q.start
      BY <2>1, PageFacts DEF IBase, IType
    <2>4. \A i \in 1..Len(archive) : Covers(q, i) => Brings(m, i)
      BY <2>2, <2>3 DEF Brings
    <2>5. QED
      BY <2>1, <2>2, <2>3, <2>4 DEF IPages
  <1>3. ASSUME \A q : ~AnswerQuery(q), archive' = archive PROVE IPages'
    BY <1>3, PagesCome, PagesStay
  <1>4. archive' = archive \/ \E t : Post(t)
    BY DEF Next, World, Room, Client, Kick, Drop, Reload, Admit, AnswerLate, AnswerQuery, FailQuery,
           Show, Return, OnSelf, OnKicked, EnterRoom, OnLive, HandleMessage, OnPage, OnError, OnLate,
           TimeOut, Retry, Expire, FillGap, room, vars
  <1>5. ASSUME NEW t, Post(t) PROVE \A q : ~AnswerQuery(q)
    <2>1. Len(archive) \in Nat /\ archive' # archive
      <3>1. archive \in Seq(Nat) /\ archive' = Append(archive, t)
        BY <1>5 DEF Post, IBase, IType
      <3>2. Len(archive') = Len(archive) + 1
        BY <3>1
      <3>3. QED
        BY <3>1, <3>2
    <2>2. QED
      BY <2>1 DEF AnswerQuery, room
  <1>6. QED
    BY <1>1, <1>2, <1>3, <1>4, <1>5, PagesCome

\* A live message is received only by a client that has been admitted, and before
\* anything else comes that ends its stay.
LEMMA LiveMeans ==
  ASSUME IBase, Got("live")
  PROVE  status = "in" /\ ~Joining /\ \A m \in Coming : m.kind # "self"
  <1> DEFINE live == Head(toClient)
  <1>1. live \in Coming /\ live.kind = "live" /\ Coming = Coming' \cup {live} /\ \A m \in Coming' : Precedes(live, m)
    BY GotFacts DEF IBase
  <1>2. OfRoom(live)
    BY <1>1 DEF OfRoom
  <1>3. \A m \in Coming : m.kind # "self"
    BY <1>1, <1>2 DEF Precedes
  <1>4. ~Joining /\ status # "out" /\ status # "joining"
    BY <1>1, <1>2, <1>3 DEF IBase, IPhase
  <1>5. QED
    BY <1>3, <1>4 DEF IBase, IType

\* What is said of a reconnection stands while the queue keeps its head, nothing
\* comes, and each query is asked again or offered to be.
LEMMA ReturnedStays ==
  ASSUME IBase, IReturned, Joining' => Joining, since' = since \/ since' <= Len(archive'),
         since' \in Nat, Len(archive') \in Nat, Len(archive') >= Len(archive),
         Joining /\ Coming = {} /\ toServer # <<>> /\ Head(toServer) = [kind |-> "join"] =>
            /\ toServer' # <<>> /\ Head(toServer') = Head(toServer) /\ Coming' = {}
            /\ unmarked => unmarked'
            /\ unmarked' \/ \A s \in queries \cup retries : \E r \in queries' \cup retries' : r.before = s.before
  PROVE  IReturned'
  <1>1. Len(archive) \in Nat /\ since \in Nat
    BY DEF IBase, IType
  <1> SUFFICES ASSUME Joining', since' > Len(archive')
               PROVE  /\ toServer' # <<>> /\ Head(toServer') = [kind |-> "join"] /\ Coming' = {}
                      /\ unmarked' \/ \E s \in queries' \cup retries' : s.before = 0
    BY DEF IReturned
  <1>2. QED
    BY <1>1 DEF IReturned

LEMMA ReturnedNext ==
  ASSUME IBase, IReturned, [Next]_vars
  PROVE  IReturned'
  <1>1. /\ archive \in Seq(Nat) /\ Len(archive) \in Nat /\ since \in Nat
        /\ toServer \in Seq(ToRoom) /\ toClient \in Seq(FromRoom) /\ since' \in Nat
    BY BaseNext DEF IBase, IType
  <1>2. ASSUME since' <= Len(archive), archive' = archive PROVE IReturned'
    BY <1>1, <1>2 DEF IReturned
  <1>3. ASSUME ~Joining' PROVE IReturned'
    BY <1>3 DEF IReturned
  <1>4. ASSUME since' = since, archive' = archive, Joining' => Joining,
               Joining /\ Coming = {} /\ toServer # <<>> /\ Head(toServer) = [kind |-> "join"] => FALSE
        PROVE  IReturned'
    BY <1>1, <1>4, ReturnedStays
  <1>5. ASSUME since' = since, archive' = archive, toServer' = toServer, toClient' = toClient,
               unmarked => unmarked', unmarked' \/ (queries' = queries /\ retries' = retries)
        PROVE  IReturned'
    <2>1. Joining' = Joining /\ Coming' = Coming
      BY <1>5 DEF Joining, Sent, Coming
    <2>2. QED
      BY <1>1, <1>5, <2>1, ReturnedStays
  <1>6. ASSUME since' = since, archive' = archive, toClient' = toClient, unmarked => unmarked',
               NEW q \in Query, toServer' = Append(toServer, [kind |-> "query", query |-> q]),
               queries \cup retries \subseteq queries' \cup retries'
        PROVE  IReturned'
    <2> DEFINE m == [kind |-> "query", query |-> q]
    <2>1. m \in ToRoom /\ m.kind = "query" /\ toServer' = Append(toServer, m)
      BY <1>6, Stanzas
    <2> HIDE DEF m
    <2>2. Sent' = Sent \cup {m} /\ toServer' # <<>> /\ (toServer # <<>> => Head(toServer') = Head(toServer))
      <3>1. /\ toServer' \in Seq(ToRoom) /\ Sent' = Sent \cup {m} /\ Len(toServer') = Len(toServer) + 1
            /\ \A k \in 1..Len(toServer) : toServer'[k] = toServer[k]
        BY <1>1, <2>1, AppendSet DEF Sent
      <3>2. toServer # <<>> => 1 \in 1..Len(toServer)
        BY <1>1
      <3>3. QED
        BY <1>1, <3>1, <3>2
    <2>3. Joining' => Joining
      BY <2>1, <2>2 DEF Joining
    <2>4. Coming' = Coming
      BY <1>6 DEF Coming
    <2>5. \A p \in queries \cup retries : \E r \in queries' \cup retries' : r.before = p.before
      BY <1>6
    <2>6. /\ since' = since /\ Len(archive') \in Nat /\ Len(archive') >= Len(archive)
          /\ unmarked => unmarked'
      BY <1>1, <1>6
    <2>7. Joining /\ Coming = {} /\ toServer # <<>> /\ Head(toServer) = [kind |-> "join"] =>
             toServer' # <<>> /\ Head(toServer') = Head(toServer) /\ Coming' = {}
      BY <2>2, <2>4
    <2>8. QED
      BY <1>1, <2>3, <2>5, <2>6, <2>7, ReturnedStays
  <1>7. ASSUME NEW s, Arrives(s), s.kind \in {"query", "late"}, since' = since, archive' = archive PROVE IReturned'
    <2>1. s = Head(toServer) /\ s \in Sent /\ Sent = Sent' \cup {s}
      BY <1>7, ArrivesFacts DEF IBase
    <2>2. Joining' => Joining
      BY <2>1 DEF Joining
    <2>3. Head(toServer) = [kind |-> "join"] => FALSE
      BY <1>7, <2>1
    <2>4. QED
      BY <1>4, <1>7, <2>2, <2>3
  <1>8. ASSUME NEW kind, Got(kind), toServer' = toServer, since' = since, archive' = archive PROVE IReturned'
    <2>1. Joining' = Joining /\ Coming # {}
      BY <1>8, GotFacts DEF Joining, Sent, IBase
    <2>2. QED
      BY <1>4, <1>8, <2>1
  <1>9. ASSUME World PROVE IReturned'
    <2>1. ASSUME NEW t \in Nat, Post(t) PROVE IReturned'
      <3>1. Len(archive') = Len(archive) + 1 /\ toServer' = toServer /\ since' = since
            /\ UNCHANGED <<queries, retries, unmarked>> /\ (~inside => toClient' = toClient)
        BY <1>1, <2>1 DEF Post, gaps, history
      <3>2. Joining' = Joining /\ (Joining => Coming' = Coming)
        BY <3>1 DEF Joining, Sent, Coming, IBase, IPhase
      <3>3. QED
        BY <1>1, <3>1, <3>2, ReturnedStays
    <2>2. ASSUME Kick PROVE IReturned'
      <3>1. toServer' = toServer /\ since' = since /\ archive' = archive /\ inside
        BY <2>2 DEF Kick, history
      <3>2. Joining' = Joining /\ ~Joining
        BY <3>1 DEF Joining, Sent, IBase, IPhase
      <3>3. QED
        BY <1>3, <3>2
    <2>3. ASSUME Drop PROVE IReturned'
      BY <1>3, <2>3, BaseDrop DEF Joining
    <2>4. ASSUME Reload PROVE IReturned'
      <3>1. since' \in Cached \cup {0} /\ archive' = archive
        BY <2>4, BaseReload DEF Reload
      <3>2. QED
        BY <1>1, <1>2, <3>1, MostRecentFacts
    <2>5. Unretracted \cup {0} \subseteq Nat
      BY DEF Unretracted, Texts
    <2>6. QED
      BY <1>9, <2>1, <2>2, <2>3, <2>4, <2>5 DEF World
  <1>10. ASSUME Room PROVE IReturned'
    <2>1. ASSUME Admit PROVE IReturned'
      <3>1. \A m \in Sent' : Precedes([kind |-> "join"], m)
        BY <2>1, ArrivesFacts DEF Admit, IBase
      <3>2. QED
        BY <1>3, <3>1 DEF Joining, Precedes
    <2>2. ASSUME NEW q, AnswerQuery(q) \/ FailQuery(q) PROVE IReturned'
      <3> DEFINE s == [kind |-> "query", query |-> q]
      <3>1. Arrives(s) /\ s.kind = "query" /\ since' = since /\ archive' = archive
        BY <2>2 DEF AnswerQuery, FailQuery, room, history
      <3> HIDE DEF s
      <3>2. QED
        BY <1>7, <3>1
    <2>3. ASSUME AnswerLate PROVE IReturned'
      <3> DEFINE s == [kind |-> "late"]
      <3>1. Arrives(s) /\ s.kind = "late" /\ since' = since /\ archive' = archive
        BY <2>3 DEF AnswerLate, room, history
      <3> HIDE DEF s
      <3>2. QED
        BY <1>7, <3>1
    <2>4. QED
      BY <1>10, <2>1, <2>2, <2>3 DEF Room
  <1>11. ASSUME Show PROVE IReturned'
    <2>1. since' <= Len(archive) /\ archive' = archive
      BY <1>1, <1>11, BaseShow DEF Show, room
    <2>2. QED
      BY <1>2, <2>1
  <1>12. ASSUME Return PROVE IReturned'
    <2> DEFINE q == Missed
               j == [kind |-> "join"]
               m == [kind |-> "query", query |-> q]
    <2>1. archive' = archive /\ Sent = {} /\ Coming' = {}
      BY <1>12, BaseReturn DEF Return, room
    <2>2. q.before = 0 /\ q \in queries' /\ m \in ToRoom /\ j \in ToRoom
      BY <1>12, BaseReturn, Stanzas
    <2>3. toServer' = Append(Append(toServer, j), m) /\ toServer = <<>>
      BY <1>1, <1>12, <2>1, SeqSet DEF Return, Ask, Joins, Sent, Missed
    <2> HIDE DEF q, j, m
    <2>4. toServer' # <<>> /\ Head(toServer') = j
      BY <1>1, <2>2, <2>3
    <2>5. QED
      BY <2>1, <2>2, <2>4 DEF IReturned, j
  <1>13. ASSUME EnterRoom PROVE IReturned'
    <2>1. CASE up
      <3> DEFINE q == Newest(MostRecent, "entered")
      <3>1. q \in Query /\ queries' = queries \cup {q}
        BY <1>13, <2>1, BaseEnterRoom
      <3>2. /\ since' = since /\ archive' = archive /\ toClient' = toClient /\ retries' = retries
            /\ unmarked => unmarked'
        BY <1>13 DEF EnterRoom, room
      <3>3. toServer' = Append(toServer, [kind |-> "query", query |-> q])
        BY <1>13, <2>1 DEF EnterRoom, Ask
      <3> HIDE DEF q
      <3>4. queries \cup retries \subseteq queries' \cup retries'
        BY <3>1, <3>2
      <3>5. QED
        BY <1>6, <3>1, <3>2, <3>3, <3>4
    <2>2. CASE ~up
      <3>1. Sent' = {}
        BY <1>13, <2>2, BaseEnterRoom DEF IBase, IPhase
      <3>2. QED
        BY <1>3, <3>1 DEF Joining
    <2>3. QED
      BY <2>1, <2>2
  <1>14. ASSUME OnSelf \/ OnKicked \/ OnLive \/ OnPage \/ OnError \/ OnLate PROVE IReturned'
    <2>1. \E kind : Got(kind)
      BY <1>14 DEF OnSelf, OnKicked, OnLive, OnPage, OnError, OnLate
    <2>2. toServer' = toServer /\ since' = since /\ archive' = archive
      BY <1>14 DEF OnSelf, OnKicked, OnLive, OnPage, OnError, OnLate, room, history
    <2>3. QED
      BY <1>8, <2>1, <2>2
  <1>15. ASSUME HandleMessage PROVE IReturned'
    BY <1>5, <1>15 DEF HandleMessage, room, net, gaps
  <1>16. ASSUME NEW q, TimeOut(q) PROVE IReturned'
    <2> DEFINE r == [q EXCEPT !.why = "retry"]
    <2>1. /\ q \in queries /\ q \in Query /\ queries' = queries \ {q} /\ retries' = retries \cup {r}
          /\ toServer' = Outdated(toServer, q) /\ toClient' = Outdated(toClient, q)
          /\ since' = since /\ archive' = archive /\ unmarked' = unmarked
      BY <1>16, BaseTimeOut DEF TimeOut, history, room
    <2>2. r.before = q.before
      BY <2>1 DEF Query
    <2> HIDE DEF r
    <2>3. \A s \in queries \cup retries : \E p \in queries' \cup retries' : p.before = s.before
      BY <2>1, <2>2
    <2>4. /\ toServer' \in Seq(ToRoom) /\ Len(toServer') = Len(toServer)
          /\ \A k \in 1..Len(toServer) : toServer'[k] =
                IF OfQuery(toServer[k]) /\ toServer[k].query = q THEN [kind |-> "late"] ELSE toServer[k]
      BY <1>1, <2>1, OutdatedSet, Stanzas
    <2>5. toServer # <<>> /\ Head(toServer) = [kind |-> "join"] => toServer' # <<>> /\ Head(toServer') = Head(toServer)
      <3> SUFFICES ASSUME toServer # <<>>, toServer[1] = [kind |-> "join"]
                   PROVE  toServer' # <<>> /\ Head(toServer') = Head(toServer)
        BY <1>1
      <3>1. 1 \in 1..Len(toServer) /\ ~OfQuery(toServer[1])
        BY <1>1 DEF OfQuery
      <3>2. toServer'[1] = toServer[1]
        BY <2>4, <3>1
      <3>3. QED
        BY <1>1, <2>4, <3>1, <3>2
    <2>6. Coming = {} => Coming' = {}
      <3>1. toClient' \in Seq(FromRoom) /\ Len(toClient') = Len(toClient)
        BY <1>1, <2>1, OutdatedSet, Stanzas
      <3>2. toClient = <<>> => toClient' = <<>>
        BY <1>1, <3>1
      <3>3. QED
        BY <1>1, <3>1, <3>2, SeqSet DEF Coming
    <2>7. Joining' => Joining
      <3>1. \A m \in Sent' : m = [kind |-> "late"] \/ m \in Sent
        BY <1>16, BaseTimeOut
      <3>2. QED
        BY <3>1 DEF Joining
    <2>8. QED
      BY <1>1, <2>1, <2>3, <2>5, <2>6, <2>7, ReturnedStays
  <1>17. ASSUME NEW q, Retry(q) PROVE IReturned'
    <2>1. CASE up
      <3>1. /\ q \in Query /\ toServer' = Append(toServer, [kind |-> "query", query |-> q])
            /\ queries' = queries \cup {q} /\ retries' = retries \ {q} /\ unmarked' = unmarked
            /\ since' = since /\ archive' = archive /\ toClient' = toClient
        BY <1>17, <2>1, BaseRetry DEF Retry, Ask, room
      <3>2. QED
        BY <1>6, <3>1
    <2>2. CASE ~up
      BY <1>5, <1>17, <2>2 DEF Retry, room
    <2>3. QED
      BY <2>1, <2>2
  <1>18. ASSUME NEW q, Expire(q) PROVE IReturned'
    BY <1>5, <1>18 DEF Expire, room, net
  <1>19. ASSUME NEW h, FillGap(h) PROVE IReturned'
    <2>1. CASE up
      <3>1. /\ Fills(h) \in Query /\ toServer' = Append(toServer, [kind |-> "query", query |-> Fills(h)])
            /\ queries' = queries \cup {Fills(h)} /\ retries' = retries /\ unmarked' = unmarked
            /\ since' = since /\ archive' = archive /\ toClient' = toClient
        BY <1>19, <2>1, BaseFillGap DEF FillGap, Ask, room, Fills
      <3>2. QED
        BY <1>6, <3>1
    <2>2. CASE ~up
      BY <1>5, <1>19, <2>2 DEF FillGap, room
    <2>3. QED
      BY <2>1, <2>2
  <1>20. ASSUME UNCHANGED vars PROVE IReturned'
    BY <1>5, <1>20 DEF vars, room, net, gaps, history
  <1>21. ASSUME Client PROVE IReturned'
    BY <1>11, <1>12, <1>13, <1>14, <1>15, <1>16, <1>17, <1>18, <1>19, <1>21 DEF Client
  <1>22. QED
    BY <1>9, <1>10, <1>20, <1>21 DEF Next

LEMMA SafeStays ==
  ASSUME NEW i, Safe(i), i \in Known => i \in Known',
         \A h \in holes \cup retries : Covers(h, i) => \E g \in holes' \cup retries' : Covers(g, i),
         queries \subseteq queries', \A m \in Coming' : m.kind = "page" => m \in Coming,
         ~loaded => ~loaded' /\ Cached' = Cached
  PROVE  Safe(i)'
  <1>1. CASE i \in Known
    BY <1>1 DEF Safe
  <1>2. CASE \E h \in holes \cup retries : Covers(h, i)
    BY <1>2 DEF Safe
  <1>3. CASE \E q \in queries : Covers(q, i) /\ \A m \in Coming : m.kind = "page" /\ m.query = q => Brings(m, i)
    <2>1. PICK q \in queries : Covers(q, i) /\ \A m \in Coming : m.kind = "page" /\ m.query = q => Brings(m, i)
      BY <1>3
    <2>2. q \in queries' /\ \A m \in Coming' : m.kind = "page" /\ m.query = q => Brings(m, i)
      BY <2>1
    <2>3. QED
      BY <2>1, <2>2 DEF Safe
  <1>4. CASE ~loaded /\ Cached # {} /\ \A j \in Cached : i < j
    BY <1>4 DEF Safe
  <1>5. QED
    BY <1>1, <1>2, <1>3, <1>4 DEF Safe

LEMMA FreshStays ==
  ASSUME NEW i, Fresh(i), \A b \in Known' : b \in Known \/ b < i,
         \A g \in holes' \cup queries' \cup retries' : g \in holes \cup queries \cup retries \/ g.start <= i
  PROVE  Fresh(i)' /\ StartsBelow(i)'
  BY DEF Fresh, StartsBelow

LEMMA SameClient ==
  ASSUME UNCHANGED <<loaded, store, gaps>>
  PROVE  /\ Known' = Known /\ Cached' = Cached /\ queries' = queries /\ holes' = holes /\ retries' = retries
         /\ \A i : (StartsBelow(i)' <=> StartsBelow(i)) /\ (Fresh(i)' <=> Fresh(i))
         /\ \A i : Safe(i) /\ (\A m \in Coming' : m.kind = "page" => m \in Coming) => Safe(i)'
  <1>1. /\ Known' = Known /\ Cached' = Cached /\ queries' = queries /\ holes' = holes /\ retries' = retries
    BY DEF Known, Cached, store, gaps
  <1>2. \A i : (StartsBelow(i)' <=> StartsBelow(i)) /\ (Fresh(i)' <=> Fresh(i))
    BY <1>1 DEF StartsBelow, Fresh
  <1>3. ASSUME NEW i, Safe(i), \A m \in Coming' : m.kind = "page" => m \in Coming PROVE Safe(i)'
    BY <1>1, <1>3, SafeStays
  <1>4. QED
    BY <1>1, <1>2, <1>3

\* The stanzas of the room come one after the other.
LEMMA KeptComes ==
  ASSUME IKept, UNCHANGED <<archive, loaded, store, gaps, since, unmarked, status, entering>>,
         Coming \subseteq Coming', \A m \in Coming' : m.kind \in {"page", "live"} => m \in Coming,
         Joining => Joining' \/ \E m \in Coming' : m.kind = "self"
  PROVE  IKept'
  <1> SUFFICES ASSUME ~unmarked', NEW i \in Texts' PROVE Safe(i)' \/ Awaited(i)'
    BY DEF IKept
  <1>1. Safe(i) \/ Awaited(i)
    BY DEF IKept, Texts
  <1>2. Lives' = Lives
    BY DEF Lives
  <1>3. Safe(i) => Safe(i)'
    BY SameClient
  <1>4. (Fresh(i)' <=> Fresh(i)) /\ (StartsBelow(i)' <=> StartsBelow(i)) /\ Cached' = Cached
    BY SameClient
  <1>5. OnItsWay(i) => OnItsWay(i)'
    BY <1>2, <1>4 DEF OnItsWay
  <1>6. Away(i) => Away(i)'
    BY <1>2, <1>4 DEF Away
  <1>7. Rejoining(i) => Rejoining(i)'
    BY <1>4 DEF Rejoining
  <1>8. Entering(i) => Entering(i)'
    BY <1>4 DEF Entering
  <1>9. QED
    BY <1>1, <1>3, <1>5, <1>6, <1>7, <1>8 DEF Awaited

\* A message is posted: it is on its way to a client that is inside; of one that is
\* not, it will be asked when the client comes back.
LEMMA KeptPost ==
  ASSUME IBase, IReturned, IKept, NEW t \in Texts \cup {0}, Post(t)
  PROVE  IKept'
  <1> DEFINE n == Len(archive) + 1
             live == [kind |-> "live", id |-> n]
  <1>1. /\ archive \in Seq(Nat) /\ archive' = Append(archive, t) /\ Len(archive) \in Nat /\ t \in Nat
        /\ Len(archive') = n /\ \A k \in 1..Len(archive) : archive'[k] = archive[k]
    BY DEF Post, IBase, IType, Texts
  <1>2. UNCHANGED <<loaded, store, gaps, since, unmarked, status, entering>> /\ toServer' = toServer
    BY DEF Post, entry, history
  <1>3. live \in FromRoom /\ live.kind = "live" /\ live.id = n
    BY <1>1, Stanzas
  <1>4. toClient' = IF inside THEN Append(toClient, live) ELSE toClient
    BY DEF Post
  <1> HIDE DEF live
  <1>5. Coming' = IF inside THEN Coming \cup {live} ELSE Coming
    BY <1>3, <1>4, ComesFacts DEF IBase, Coming
  <1>6. \A m \in Coming' : m.kind = "page" => m \in Coming
    BY <1>3, <1>5
  <1>7. Joining' <=> Joining
    BY <1>2 DEF Joining, Sent
  <1>8. /\ Known' = Known /\ Cached' = Cached /\ queries' = queries /\ holes' = holes /\ retries' = retries
        /\ \A i : (StartsBelow(i)' <=> StartsBelow(i)) /\ (Fresh(i)' <=> Fresh(i))
        /\ \A i : Safe(i) => Safe(i)'
    BY <1>2, <1>6, SameClient
  <1> SUFFICES ASSUME ~unmarked', NEW i \in Texts' PROVE Safe(i)' \/ Awaited(i)'
    BY DEF IKept
  <1>9. ASSUME i # n PROVE Safe(i)' \/ Awaited(i)'
    <2>1. Safe(i) \/ Awaited(i)
      BY <1>1, <1>2, <1>9 DEF IKept, Texts
    <2>2. OnItsWay(i) => OnItsWay(i)'
      BY <1>5, <1>8 DEF OnItsWay, Lives
    <2>3. Away(i) => Away(i)'
      <3>1. Away(i) => ~inside
        BY DEF Away, IBase, IPhase
      <3>2. QED
        BY <1>2, <1>5, <1>8, <3>1 DEF Away, Lives
    <2>4. Rejoining(i) => Rejoining(i)'
      BY <1>2, <1>5, <1>7, <1>8 DEF Rejoining
    <2>5. Entering(i) => Entering(i)'
      BY <1>2, <1>8 DEF Entering
    <2>6. QED
      BY <1>8, <2>1, <2>2, <2>3, <2>4, <2>5 DEF Awaited
  <1>10. ASSUME i = n PROVE Safe(i)' \/ Awaited(i)'
    <2>1. Fresh(i) /\ StartsBelow(i)
      <3>1. \A b \in Known : b < n
        BY <1>1, MostRecentFacts
      <3>2. \A g \in holes \cup queries \cup retries : g.start <= n
        <4>1. \A g \in holes \cup queries \cup retries : g.start <= Len(archive) /\ g.start \in Nat
          BY DEF IBase, IType, IBounds, Hole, Query
        <4>2. QED
          BY <1>1, <4>1
      <3>3. QED
        BY <1>10, <3>1, <3>2 DEF Fresh, StartsBelow
    <2>2. CASE inside
      <3>1. live \in Lives'
        BY <1>3, <1>5, <2>2 DEF Lives
      <3>2. QED
        BY <1>3, <1>8, <1>10, <2>1, <3>1 DEF OnItsWay, Awaited
    <2>3. CASE ~inside /\ (status = "out" \/ \E m \in Coming : m.kind = "kicked")
      <3>1. \A m \in Lives : m.id < i
        BY <1>1, <1>10 DEF Lives, IBase, IBounds
      <3>2. QED
        BY <1>2, <1>5, <1>8, <2>1, <2>3, <3>1 DEF Away, Lives, Awaited
    <2>4. CASE Joining /\ since <= Len(archive)
      <3>1. since < i
        BY <1>1, <1>10, <2>4 DEF IBase, IType
      <3>2. QED
        BY <1>2, <1>7, <1>8, <2>1, <2>4, <3>1 DEF Rejoining, Awaited
    <2>5. CASE Joining /\ ~(since <= Len(archive))
      <3>1. since > Len(archive)
        BY <1>1, <2>5 DEF IBase, IType
      <3>2. Coming = {} /\ ~inside
        BY <2>5, <3>1 DEF IReturned, IBase, IPhase
      <3>3. PICK s \in queries \cup retries : s.before = 0
        BY <1>2, <2>5, <3>1 DEF IReturned
      <3>4. Covers(s, i)
        BY <2>1, <3>3 DEF StartsBelow, Covers
      <3>5. Coming' = {}
        BY <1>5, <3>2
      <3>6. QED
        BY <1>8, <3>3, <3>4, <3>5 DEF Safe
    <2>6. QED
      BY <2>2, <2>3, <2>4, <2>5 DEF IBase, IPhase
  <1>11. QED
    BY <1>9, <1>10

LEMMA KeptAdmit ==
  ASSUME IBase, IKept, Admit
  PROVE  IKept'
  <1> DEFINE self == [kind |-> "self"]
  <1>1. self \in FromRoom /\ self.kind = "self" /\ toClient' = Append(toClient, self)
    BY Stanzas DEF Admit
  <1> HIDE DEF self
  <1>2. Coming' = Coming \cup {self}
    BY <1>1, ComesFacts DEF IBase
  <1>3. UNCHANGED <<archive, loaded, store, gaps, since, unmarked, status, entering>>
    BY DEF Admit, entry, history
  <1>4. \A m \in Coming' : m.kind \in {"page", "live"} => m \in Coming
    BY <1>1, <1>2
  <1>5. \E m \in Coming' : m.kind = "self"
    BY <1>1, <1>2
  <1>6. QED
    BY <1>2, <1>3, <1>4, <1>5, KeptComes

LEMMA KeptAnswerLate ==
  ASSUME IBase, IKept, AnswerLate
  PROVE  IKept'
  <1>1. Sent = Sent' \cup {[kind |-> "late"]} /\ Coming' = Coming \cup {[kind |-> "late"]}
    BY AnswerLateFacts
  <1>2. UNCHANGED <<archive, loaded, store, gaps, since, unmarked, status, entering>>
    BY DEF AnswerLate, room, entry, history
  <1>3. Joining => Joining'
    BY <1>1 DEF Joining
  <1>4. QED
    BY <1>1, <1>2, <1>3, KeptComes

LEMMA KeptFailQuery ==
  ASSUME IBase, IKept, NEW q, FailQuery(q)
  PROVE  IKept'
  <1>1. /\ Sent = Sent' \cup {[kind |-> "query", query |-> q]}
        /\ Coming' = Coming \cup {[kind |-> "error", query |-> q]}
    BY FailQueryFacts
  <1>2. UNCHANGED <<archive, loaded, store, gaps, since, unmarked, status, entering>>
    BY DEF FailQuery, room, entry, history
  <1>3. Joining => Joining'
    BY <1>1 DEF Joining
  <1>4. QED
    BY <1>1, <1>2, <1>3, KeptComes

LEMMA KeptKick ==
  ASSUME IBase, IKept, Kick
  PROVE  IKept'
  <1>1. Coming' = Coming \cup {[kind |-> "kicked"]}
    BY BaseKick
  <1>2. UNCHANGED <<archive, loaded, store, gaps, since, unmarked, status, entering>>
    BY DEF Kick, entry, history
  <1>3. Joining => Joining'
    BY DEF Joining, Sent, Kick
  <1>4. QED
    BY <1>1, <1>2, <1>3, KeptComes

\* A page that comes brings what its query covers, or leaves it to a gap.
LEMMA KeptAnswerQuery ==
  ASSUME IBase, IKept, NEW q, AnswerQuery(q)
  PROVE  IKept'
  <1> DEFINE s == [kind |-> "query", query |-> q]
             m == [kind |-> "page", query |-> q, ids |-> Page(q), complete |-> Complete(q)]
  <1>1. /\ Sent = Sent' \cup {s} /\ Coming' = Coming \cup {m}
        /\ q \in Query /\ q \in queries /\ q.before <= Len(archive) /\ q.start <= Len(archive)
    BY AnswerQueryFacts
  <1>2. m.kind = "page" /\ m.query = q /\ m.ids = Page(q) /\ m.complete = Complete(q) /\ s.kind = "query"
    OBVIOUS
  <1> HIDE DEF s, m
  <1>3. UNCHANGED <<archive, loaded, store, gaps, since, unmarked, status, entering>>
    BY DEF AnswerQuery, room, entry, history
  <1>4. (Joining => Joining') /\ Lives' = Lives
    BY <1>1, <1>2 DEF Joining, Lives
  <1>5. \A j \in 1..Len(archive) : Covers(q, j) => Brings(m, j)
    BY <1>1, <1>2, PageFacts DEF Brings, IBase, IType
  <1>6. /\ Known' = Known /\ Cached' = Cached /\ queries' = queries /\ holes' = holes /\ retries' = retries
        /\ \A i : (StartsBelow(i)' <=> StartsBelow(i)) /\ (Fresh(i)' <=> Fresh(i))
    BY <1>3, SameClient
  <1> SUFFICES ASSUME ~unmarked', NEW i \in Texts' PROVE Safe(i)' \/ Awaited(i)'
    BY DEF IKept
  <1>7. (Safe(i) \/ Awaited(i)) /\ i \in 1..Len(archive)
    BY <1>3 DEF IKept, Texts
  <1>8. Safe(i) => Safe(i)'
    <2>1. ASSUME NEW p \in queries, Covers(p, i), \A n \in Coming : n.kind = "page" /\ n.query = p => Brings(n, i)
          PROVE  Safe(i)'
      <3>1. \A n \in Coming' : n.kind = "page" /\ n.query = p => Brings(n, i)
        BY <1>1, <1>2, <1>5, <1>7, <2>1
      <3>2. QED
        BY <1>6, <2>1, <3>1 DEF Safe
    <2>2. QED
      BY <1>3, <1>6, <2>1 DEF Safe
  <1>9. OnItsWay(i) => OnItsWay(i)'
    BY <1>4, <1>6 DEF OnItsWay
  <1>10. Away(i) => Away(i)'
    BY <1>1, <1>3, <1>4, <1>6 DEF Away
  <1>11. Rejoining(i) => Rejoining(i)'
    BY <1>1, <1>3, <1>4, <1>6 DEF Rejoining
  <1>12. Entering(i) => Entering(i)'
    BY <1>3, <1>6 DEF Entering
  <1>13. QED
    BY <1>7, <1>8, <1>9, <1>10, <1>11, <1>12 DEF Awaited

\* The connection drops: what was on its way is to be asked for.
LEMMA KeptDrop ==
  ASSUME IBase, IKept, Drop
  PROVE  IKept'
  <1>1. Sent' = {} /\ Coming' = {} /\ Lives' = {}
    BY BaseDrop DEF Lives
  <1>2. UNCHANGED <<archive, entering, loaded, store, gaps, since, unmarked>> /\ status' = "out"
    BY DEF Drop, history
  <1>3. /\ Cached' = Cached
        /\ \A i : (StartsBelow(i)' <=> StartsBelow(i)) /\ (Fresh(i)' <=> Fresh(i))
        /\ \A i : Safe(i) => Safe(i)'
    BY <1>1, <1>2, SameClient
  <1> SUFFICES ASSUME ~unmarked', NEW i \in Texts' PROVE Safe(i)' \/ Awaited(i)'
    BY DEF IKept
  <1>4. Safe(i) \/ Awaited(i)
    BY <1>2 DEF IKept, Texts
  <1>5. Fresh(i) => Away(i)'
    BY <1>1, <1>2, <1>3 DEF Away
  <1>6. Entering(i) => Entering(i)'
    BY <1>2, <1>3 DEF Entering
  <1>7. QED
    BY <1>3, <1>4, <1>5, <1>6 DEF Awaited, OnItsWay, Away, Rejoining

\* The page is loaded again: what is stored stays, and if nothing but placeholders on
\* top was lost, the rest is below all that is stored, or it will be asked for.
LEMMA KeptReload ==
  ASSUME IBase, IKept, Reload
  PROVE  IKept'
  <1> SUFFICES ASSUME ~unmarked', NEW i \in Texts' PROVE Safe(i)' \/ Awaited(i)'
    BY DEF IKept
  <1>1. /\ Joining' /\ Known' = Cached /\ Cached' = Cached /\ Coming' = {}
        /\ since' \in Cached \cup {0} /\ Cached \subseteq 1..Len(archive)
    BY BaseReload, MostRecentFacts
  <1>2. /\ archive' = archive /\ ~loaded' /\ holes' = {} /\ queries' = {} /\ retries' = {}
        /\ ~unmarked /\ ~(entering /\ Raced) /\ queue = <<>> /\ queries = {} /\ retries = {}
        /\ \A h \in holes : \A j \in Cached : ~(j < h.before)
    BY DEF Reload
  <1>3. (Safe(i) \/ Awaited(i)) /\ i \in 1..Len(archive)
    BY <1>2 DEF IKept, Texts
  <1>4. Known = Cached /\ Cached \subseteq Nat /\ i \in Nat /\ since \in Nat /\ i > 0
    <2>1. ToSet(queue) = {}
      BY <1>2, EmptySet
    <2>2. QED
      BY <1>1, <1>3, <2>1 DEF Known, IBase, IType
  <1>5. ASSUME \A j \in Cached : j < i PROVE Awaited(i)'
    <2>1. Fresh(i)' /\ since' < i
      BY <1>1, <1>2, <1>4, <1>5 DEF Fresh, StartsBelow
    <2>2. QED
      BY <1>1, <2>1 DEF Awaited, Rejoining
  <1>6. ASSUME Cached # {}, \A j \in Cached : i < j PROVE Safe(i)'
    BY <1>1, <1>2, <1>6 DEF Safe
  <1>7. ASSUME NEW h \in holes, Covers(h, i) PROVE Safe(i)' \/ Awaited(i)'
    <2>1. h.before \in 1..Len(archive) /\ i < h.before
      BY <1>7 DEF Covers, IBase, IBounds
    <2>2. \A j \in Cached : i < j
      BY <1>2, <1>4, <2>1
    <2>3. QED
      BY <1>5, <1>6, <2>2
  <1>8. ASSUME Safe(i) PROVE Safe(i)' \/ Awaited(i)'
    <2>1. i \in Known => Safe(i)'
      BY <1>1, <1>4 DEF Safe
    <2>2. QED
      BY <1>2, <1>6, <1>7, <1>8, <2>1 DEF Safe
  <1>9. ASSUME Fresh(i) PROVE Awaited(i)'
    BY <1>4, <1>5, <1>9 DEF Fresh
  <1>10. ASSUME Entering(i) PROVE Awaited(i)'
    <2>1. \A j \in Known : ~(j > since)
      BY <1>2, <1>10 DEF Entering, Raced
    <2>2. \A j \in Cached : j < i
      BY <1>4, <1>10, <2>1 DEF Entering
    <2>3. QED
      BY <1>5, <2>2
  <1>11. QED
    BY <1>3, <1>8, <1>9, <1>10 DEF Awaited, OnItsWay, Away, Rejoining

\* The room is joined again: what came while away is later than all that is known.
LEMMA KeptShow ==
  ASSUME IBase, IKept, Show
  PROVE  IKept'
  <1>1. /\ Joining' /\ Lives = {} /\ Coming' = Coming
        /\ \A i \in Nat \ {0} : (\A j \in Known : j < i) => since' < i
        /\ entering => since' <= since
    BY BaseShow DEF Show, Coming
  <1>2. UNCHANGED <<archive, entering, loaded, store, gaps, unmarked>> /\ status = "out"
    BY DEF Show, room
  <1>3. /\ \A i : (StartsBelow(i)' <=> StartsBelow(i)) /\ (Fresh(i)' <=> Fresh(i))
        /\ \A i : Safe(i) => Safe(i)'
    BY <1>1, <1>2, SameClient
  <1> SUFFICES ASSUME ~unmarked', NEW i \in Texts' PROVE Safe(i)' \/ Awaited(i)'
    BY DEF IKept
  <1>4. (Safe(i) \/ Awaited(i)) /\ i \in Nat /\ i > 0
    BY <1>2 DEF IKept, Texts, IBase, IType
  <1>5. Fresh(i) => since' < i
    BY <1>1, <1>4 DEF Fresh
  <1>6. Fresh(i) => Rejoining(i)'
    BY <1>1, <1>3, <1>5 DEF Rejoining
  <1>7. Entering(i) => Entering(i)'
    <2>1. Cached' = Cached
      BY <1>2 DEF Cached, store
    <2>2. since \in Nat /\ since' \in Nat
      BY BaseShow DEF IBase, IType
    <2>3. entering /\ since < i => since' < i
      BY <1>1, <1>4, <2>2
    <2>4. QED
      BY <1>2, <1>3, <2>1, <2>3 DEF Entering
  <1>8. QED
    BY <1>3, <1>4, <1>6, <1>7 DEF Awaited, OnItsWay, Away, Rejoining

\* A query for what is newer than all that is known covers what came while away.
LEMMA KeptReturn ==
  ASSUME IBase, IKept, Return
  PROVE  IKept'
  <1> DEFINE q == Missed
  <1>1. /\ Sent = {} /\ Coming = {} /\ Coming' = {}
        /\ UNCHANGED <<archive, entering, loaded, store, holes, retries>>
        /\ unmarked' = (unmarked \/ (entering /\ loaded /\ Raced))
    BY BaseReturn DEF Return, room
  <1>2. Cached' = Cached /\ Known' = Known
    BY <1>1 DEF Cached, Known, store
  <1>3. q \in queries' /\ queries \subseteq queries' /\ q.before = 0 /\ (q.start = MostRecent \/ (q.start = 0 /\ ~loaded))
    BY BaseReturn
  <1> HIDE DEF q
  <1> SUFFICES ASSUME ~unmarked', NEW i \in Texts' PROVE Safe(i)' \/ Awaited(i)'
    BY DEF IKept
  <1>4. (Safe(i) \/ Awaited(i)) /\ i \in Nat /\ i > 0
    BY <1>1 DEF IKept, Texts, IBase, IType
  <1>5. Safe(i) => Safe(i)'
    BY <1>1, <1>2, <1>3, SafeStays
  <1>6. MostRecent \in Cached \cup {0} /\ Cached \subseteq Known /\ Known \subseteq Nat /\ since \in Nat
    BY MostRecentFacts DEF Known, IBase, IType
  <1>7. ASSUME q.start <= i PROVE Safe(i)'
    <2>1. Covers(q, i)
      BY <1>3, <1>7 DEF Covers
    <2>2. QED
      BY <1>1, <1>3, <2>1 DEF Safe
  <1>8. ASSUME \A j \in Known : j < i PROVE q.start <= i
    BY <1>3, <1>4, <1>6, <1>8
  <1>9. ASSUME Entering(i) PROVE q.start <= i
    <2>1. CASE loaded
      <3>1. \A j \in Known : ~(j > since)
        BY <1>1, <1>9, <2>1 DEF Raced, Entering
      <3>2. \A j \in Known : j < i
        BY <1>4, <1>6, <1>9, <3>1 DEF Entering
      <3>3. QED
        BY <1>8, <3>2
    <2>2. CASE ~loaded
      <3>1. \A j \in Cached : j < i
        BY <1>9, <2>2 DEF Entering
      <3>2. QED
        BY <1>3, <1>4, <1>6, <3>1
    <2>3. QED
      BY <2>1, <2>2
  <1>10. Fresh(i) => Safe(i)'
    BY <1>7, <1>8 DEF Fresh
  <1>11. Entering(i) => Safe(i)'
    BY <1>7, <1>9
  <1>12. QED
    BY <1>4, <1>5, <1>10, <1>11 DEF Awaited, OnItsWay, Away, Rejoining

LEMMA KeptOnSelf ==
  ASSUME IBase, IKept, OnSelf
  PROVE  IKept'
  <1> DEFINE self == Head(toClient)
  <1>1. self \in Coming /\ self.kind = "self" /\ Coming = Coming' \cup {self}
    BY GotFacts DEF OnSelf, IBase
  <1> HIDE DEF self
  <1>2. UNCHANGED <<archive, loaded, store, gaps, since, unmarked>> /\ entering' = TRUE
    BY DEF OnSelf, room, history
  <1>3. /\ Cached' = Cached /\ Lives' = Lives
        /\ \A i : (StartsBelow(i)' <=> StartsBelow(i)) /\ (Fresh(i)' <=> Fresh(i))
        /\ \A i : Safe(i) => Safe(i)'
    BY <1>1, <1>2, SameClient DEF Lives
  <1>4. status # "out"
    BY <1>1 DEF IBase, IPhase, OfRoom
  <1> SUFFICES ASSUME ~unmarked', NEW i \in Texts' PROVE Safe(i)' \/ Awaited(i)'
    BY DEF IKept
  <1>5. Safe(i) \/ Awaited(i)
    BY <1>2 DEF IKept, Texts
  <1>6. OnItsWay(i) => OnItsWay(i)'
    BY <1>3 DEF OnItsWay
  <1>7. Away(i) => Away(i)'
    BY <1>1, <1>3, <1>4 DEF Away
  <1>8. Rejoining(i) => Entering(i)'
    BY <1>2, <1>3 DEF Rejoining, Entering, Fresh, Known
  <1>9. Entering(i) => Entering(i)'
    BY <1>2, <1>3 DEF Entering
  <1>10. QED
    BY <1>3, <1>5, <1>6, <1>7, <1>8, <1>9 DEF Awaited

LEMMA KeptOnKicked ==
  ASSUME IBase, IKept, OnKicked
  PROVE  IKept'
  <1> DEFINE kicked == Head(toClient)
  <1>1. kicked \in Coming /\ kicked.kind = "kicked" /\ Coming = Coming' \cup {kicked}
    BY GotFacts DEF OnKicked, IBase
  <1> HIDE DEF kicked
  <1>2. UNCHANGED <<archive, entering, loaded, store, gaps, since, unmarked>> /\ status' = "out"
    BY DEF OnKicked, room, history
  <1>3. /\ Cached' = Cached /\ Lives' = {}
        /\ \A i : (StartsBelow(i)' <=> StartsBelow(i)) /\ (Fresh(i)' <=> Fresh(i))
        /\ \A i : Safe(i) => Safe(i)'
    BY <1>1, <1>2, BaseOnKicked, SameClient DEF Lives, OfRoom
  <1> SUFFICES ASSUME ~unmarked', NEW i \in Texts' PROVE Safe(i)' \/ Awaited(i)'
    BY DEF IKept
  <1>4. Safe(i) \/ Awaited(i)
    BY <1>2 DEF IKept, Texts
  <1>5. Fresh(i) => Away(i)'
    BY <1>2, <1>3 DEF Away
  <1>6. Entering(i) => Entering(i)'
    BY <1>2, <1>3 DEF Entering
  <1>7. QED
    BY <1>3, <1>4, <1>5, <1>6 DEF Awaited, OnItsWay, Away, Rejoining

LEMMA KeptOnLate ==
  ASSUME IBase, IKept, OnLate
  PROVE  IKept'
  <1> DEFINE late == Head(toClient)
  <1>1. late.kind = "late" /\ Coming = Coming' \cup {late}
    BY GotFacts DEF OnLate, IBase
  <1> HIDE DEF late
  <1>2. UNCHANGED <<archive, entering, loaded, store, gaps, since, unmarked, status>> /\ Joining' = Joining
    BY DEF OnLate, room, entry, history, Joining, Sent
  <1>3. /\ Cached' = Cached /\ Lives' = Lives
        /\ \A i : (StartsBelow(i)' <=> StartsBelow(i)) /\ (Fresh(i)' <=> Fresh(i))
        /\ \A i : Safe(i) => Safe(i)'
    BY <1>1, <1>2, SameClient DEF Lives
  <1> SUFFICES ASSUME ~unmarked', NEW i \in Texts' PROVE Safe(i)' \/ Awaited(i)'
    BY DEF IKept
  <1>4. Safe(i) \/ Awaited(i)
    BY <1>2 DEF IKept, Texts
  <1>5. (Away(i) => Away(i)') /\ (Rejoining(i) => Rejoining(i)')
    BY <1>1, <1>2, <1>3 DEF Away, Rejoining
  <1>6. (OnItsWay(i) => OnItsWay(i)') /\ (Entering(i) => Entering(i)')
    BY <1>2, <1>3 DEF OnItsWay, Entering
  <1>7. QED
    BY <1>3, <1>4, <1>5, <1>6 DEF Awaited

\* A live message is known from now on; the others on their way are newer.
LEMMA KeptOnLive ==
  ASSUME IBase, IKept, OnLive
  PROVE  IKept'
  <1> DEFINE live == Head(toClient)
  <1>1. /\ live \in Coming /\ live.kind = "live" /\ Coming = Coming' \cup {live}
        /\ \A m \in Coming' : Precedes(live, m)
    BY GotFacts DEF OnLive, IBase
  <1>2. Known' = Known \cup {live.id}
    BY BaseOnLive
  <1>3. status = "in" /\ ~Joining /\ \A m \in Coming : m.kind # "self"
    BY LiveMeans DEF OnLive
  <1> HIDE DEF live
  <1>4. UNCHANGED <<archive, entering, loaded, cache, gaps, since, unmarked, status>>
    BY DEF OnLive, room, entry, history
  <1>5. Cached' = Cached /\ holes' = holes /\ queries' = queries /\ retries' = retries
    BY <1>4 DEF Cached, gaps
  <1> SUFFICES ASSUME ~unmarked', NEW i \in Texts' PROVE Safe(i)' \/ Awaited(i)'
    BY DEF IKept
  <1>6. Safe(i) \/ Awaited(i)
    BY <1>4 DEF IKept, Texts
  <1>7. Safe(i) => Safe(i)'
    BY <1>1, <1>2, <1>4, <1>5, SafeStays
  <1>8. ASSUME Fresh(i), live.id < i PROVE Fresh(i)'
    BY <1>2, <1>5, <1>8 DEF Fresh, StartsBelow
  <1>9. ASSUME OnItsWay(i) PROVE Safe(i)' \/ OnItsWay(i)'
    <2>1. PICK m \in Lives : m.id = i
      BY <1>9 DEF OnItsWay
    <2>2. CASE m = live
      BY <1>2, <2>1, <2>2 DEF Safe
    <2>3. CASE m # live
      <3>1. m \in Coming' /\ m.kind = "live"
        BY <1>1, <2>1, <2>3 DEF Lives
      <3>2. live.id < i
        BY <1>1, <2>1, <3>1 DEF Precedes
      <3>3. QED
        BY <1>8, <1>9, <2>1, <3>1, <3>2 DEF OnItsWay, Lives
    <2>4. QED
      BY <2>2, <2>3
  <1>10. ASSUME Away(i) PROVE Away(i)'
    <2>1. live.id < i
      BY <1>1, <1>10 DEF Away, Lives
    <2>2. Fresh(i)'
      BY <1>8, <1>10, <2>1 DEF Away
    <2>3. QED
      BY <1>1, <1>3, <1>10, <2>2 DEF Away, Lives
  <1>11. ~Rejoining(i)
    BY <1>3 DEF Rejoining
  <1>12. Entering(i) => Entering(i)'
    BY <1>4, <1>5 DEF Entering, StartsBelow
  <1>13. QED
    BY <1>6, <1>7, <1>9, <1>10, <1>11, <1>12 DEF Awaited

\* What is asked next covers the missing texts, those that come between entering and
\* the loading of what is stored included, unless the client knows of later ones.
LEMMA KeptEnterRoom ==
  ASSUME IBase, IKept, EnterRoom
  PROVE  IKept'
  <1> DEFINE q == Newest(MostRecent, "entered")
  <1>1. /\ entering /\ loaded' = TRUE /\ status' = status /\ since' = since /\ archive' = archive
        /\ cache' = cache /\ queue' = queue /\ retries' = retries
        /\ holes' = IF loaded THEN holes ELSE holes \cup ScrollUp
        /\ unmarked' = (unmarked \/ (Raced /\ (loaded \/ ~up)))
    BY DEF EnterRoom, room, store
  <1>2. Cached' = Cached /\ Known' = Known
    BY <1>1 DEF Cached, Known
  <1>3. /\ Coming' = Coming
        /\ up => /\ queries' = queries \cup {q}
                 /\ \A m \in Coming : OfQuery(m) => m.query # q
        /\ ~up => queries' = queries
    BY BaseEnterRoom
  <1>4. q.before = 0 /\ q.start = MostRecent
    BY DEF Newest
  <1>5. ~up => status = "out" /\ Coming = {} /\ ~Joining
    BY DEF IBase, IPhase, Joining
  <1> HIDE DEF q
  <1>7. /\ MostRecent \in Cached \cup {0} /\ MostRecent \in Nat /\ Cached \subseteq Known
        /\ Known \subseteq Nat
    BY MostRecentFacts DEF Known
  <1>8. holes \subseteq holes' /\ \A g \in holes' : g \in holes \/ g.start = 0
    BY <1>1 DEF ScrollUp
  <1>9. queries \subseteq queries' /\ \A g \in queries' : g \in queries \/ g = q
    BY <1>3 DEF IBase, IType
  <1> SUFFICES ASSUME ~unmarked', NEW i \in Texts' PROVE Safe(i)' \/ Awaited(i)'
    BY DEF IKept
  <1>10. (Safe(i) \/ Awaited(i)) /\ i \in Nat /\ i > 0 /\ since \in Nat
    BY <1>1 DEF IKept, Texts, IBase, IType
  <1>11. ASSUME \A j \in Cached : j < i, StartsBelow(i) PROVE MostRecent <= i /\ StartsBelow(i)'
    <2>1. MostRecent <= i
      BY <1>7, <1>10, <1>11
    <2>2. \A g \in holes' \cup queries' \cup retries' : g.start <= i
      BY <1>1, <1>4, <1>8, <1>9, <1>10, <1>11, <2>1 DEF StartsBelow
    <2>3. QED
      BY <2>1, <2>2 DEF StartsBelow
  <1>12. Safe(i) => Safe(i)'
    <2>1. ASSUME ~loaded, Cached # {}, \A j \in Cached : i < j PROVE Safe(i)'
      <3> DEFINE g == [before |-> Head(cache).id, start |-> 0]
      <3>1. cache # <<>> /\ Head(cache).id \in Cached
        <4>1. cache \in Seq(Entry)
          BY DEF IBase, IType
        <4>2. cache # <<>>
          BY <2>1, <4>1 DEF Cached
        <4>3. QED
          BY <4>1, <4>2, CachedFacts
      <3>2. g \in holes' /\ g.start = 0 /\ g.before = Head(cache).id
        BY <1>1, <2>1, <3>1 DEF ScrollUp
      <3> HIDE DEF g
      <3>3. Covers(g, i)
        BY <1>10, <2>1, <3>1, <3>2 DEF Covers
      <3>4. QED
        BY <3>2, <3>3 DEF Safe
    <2>2. ASSUME NEW p \in queries, Covers(p, i), \A m \in Coming : m.kind = "page" /\ m.query = p => Brings(m, i)
          PROVE  Safe(i)'
      BY <1>3, <1>9, <2>2 DEF Safe
    <2>3. QED
      BY <1>1, <1>2, <1>8, <2>1, <2>2 DEF Safe
  <1>13. Fresh(i) => Fresh(i)'
    BY <1>2, <1>7, <1>11 DEF Fresh
  <1>14. OnItsWay(i) => OnItsWay(i)'
    BY <1>3, <1>13 DEF OnItsWay, Lives
  <1>15. Away(i) => Away(i)'
    BY <1>1, <1>3, <1>13 DEF Away, Lives
  <1>6. ASSUME up, MostRecent <= i PROVE Safe(i)'
    <2>1. Covers(q, i)
      BY <1>4, <1>6 DEF Covers
    <2>2. q \in queries' /\ \A m \in Coming' : m.kind = "page" => m.query # q
      BY <1>3, <1>6 DEF OfQuery
    <2>3. QED
      BY <2>1, <2>2 DEF Safe
  <1>16. ASSUME Rejoining(i) PROVE Safe(i)'
    <2>1. up
      BY <1>5, <1>16 DEF Rejoining
    <2>2. \A j \in Cached : j < i
      BY <1>7, <1>16 DEF Rejoining, Fresh
    <2>3. QED
      BY <1>6, <1>11, <1>16, <2>1, <2>2 DEF Rejoining, Fresh
  <1>17. ASSUME Entering(i), up PROVE Safe(i)'
    <2>1. \A j \in Cached : j < i
      <3>1. CASE ~loaded
        BY <1>17, <3>1 DEF Entering
      <3>2. CASE loaded
        <4>1. \A j \in Known : ~(j > since)
          BY <1>1, <3>2 DEF Raced
        <4>2. QED
          BY <1>7, <1>10, <1>17, <4>1 DEF Entering
      <3>3. QED
        BY <3>1, <3>2
    <2>2. MostRecent <= i
      BY <1>11, <1>17, <2>1 DEF Entering
    <2>3. QED
      BY <1>6, <1>17, <2>2
  <1>18. ASSUME Entering(i), ~up PROVE Awaited(i)'
    <2>1. \A j \in Known : j < i
      <3>1. \A j \in Known : ~(j > since)
        BY <1>1, <1>18 DEF Raced
      <3>2. QED
        BY <1>7, <1>10, <1>18, <3>1 DEF Entering
    <2>2. Fresh(i)
      BY <1>18, <2>1 DEF Entering, Fresh
    <2>3. status = "out" /\ Coming = {}
      BY <1>5, <1>18
    <2>4. Away(i)
      BY <2>2, <2>3 DEF Away, Lives
    <2>5. QED
      BY <1>15, <2>4 DEF Awaited
  <1>19. QED
    BY <1>10, <1>12, <1>14, <1>15, <1>16, <1>17, <1>18 DEF Awaited

\* A page is received: what its query covered is known, or below it and marked.
LEMMA KeptOnPage ==
  ASSUME IBase, IPages, IKept, OnPage
  PROVE  IKept'
  <1> DEFINE page == Head(toClient)
             q == page.query
  <1>1. /\ page \in Coming /\ page.kind = "page" /\ Coming = Coming' \cup {page}
    BY GotFacts DEF OnPage, IBase
  <1>2. /\ Known' = Known \cup ToSet(page.ids) /\ q \in Query /\ q \in queries
        /\ page.ids \in Seq(Nat)
    BY BaseOnPage
  <1>3. /\ queries' = queries \ {q} /\ retries' = retries /\ holes' = (holes \ Filled(q)) \cup GapBelow(page)
        /\ UNCHANGED <<archive, entering, loaded, cache, since, unmarked, status>> /\ toServer' = toServer
    BY DEF OnPage, room, entry, history
  <1>4. /\ \A j \in ToSet(page.ids) : q.start <= j /\ (q.before # 0 => j < q.before)
        /\ \A i \in 1..Len(archive) : Covers(q, i) =>
              Brings(page, i) \/ (q.before = 0 /\ \A j \in ToSet(page.ids) : j < i)
        /\ ToSet(page.ids) \subseteq 1..Len(archive)
    BY <1>1 DEF IPages, IBase, IBounds
  <1>5. UNCHANGED <<loaded, cache>>
    BY <1>3
  <1>6. Cached' = Cached /\ Joining' = Joining /\ Lives' = Lives
    BY <1>1, <1>3 DEF Cached, Joining, Sent, Lives
  <1>7. \A g \in GapBelow(page) : g.start = q.start
    BY DEF GapBelow
  <1> HIDE DEF page
  <1> SUFFICES ASSUME ~unmarked', NEW i \in Texts' PROVE Safe(i)' \/ Awaited(i)'
    BY DEF IKept
  <1>8. (Safe(i) \/ Awaited(i)) /\ i \in 1..Len(archive) /\ i \in Nat /\ i > 0
    BY <1>3 DEF IKept, Texts, IBase, IType
  <1>9. ASSUME Brings(page, i) PROVE Safe(i)'
    <2>1. CASE i \in ToSet(page.ids)
      BY <1>2, <2>1 DEF Safe
    <2>2. CASE ~page.complete /\ page.ids # <<>> /\ i < Head(page.ids) /\ i >= q.start
      <3> DEFINE g == [before |-> Head(page.ids), start |-> q.start]
      <3>1. g \in holes' /\ g.before = Head(page.ids) /\ g.start = q.start
        BY <1>3, <2>2 DEF GapBelow
      <3> HIDE DEF g
      <3>2. Covers(g, i)
        <4>1. q.start \in Nat
          BY <1>2 DEF Query
        <4>2. QED
          BY <1>8, <2>2, <3>1, <4>1 DEF Covers
      <3>3. QED
        BY <3>1, <3>2 DEF Safe
    <2>3. QED
      BY <1>9, <2>1, <2>2 DEF Brings
  <1>10. Safe(i) => Safe(i)'
    <2>1. ASSUME NEW h \in holes, Covers(h, i) PROVE Safe(i)'
      <3>1. CASE h \in Filled(q)
        <4>1. q.before = h.before /\ q.start = h.start /\ h.before \in 1..Len(archive)
          BY <3>1 DEF Filled, IBase, IBounds
        <4>2. q.before # 0 /\ Covers(q, i)
          BY <2>1, <4>1 DEF Covers, IBase, IType
        <4>3. QED
          BY <1>4, <1>8, <1>9, <4>2
      <3>2. CASE h \notin Filled(q)
        BY <1>3, <2>1, <3>2 DEF Safe
      <3>3. QED
        BY <3>1, <3>2
    <2>2. ASSUME NEW p \in queries, Covers(p, i), \A m \in Coming : m.kind = "page" /\ m.query = p => Brings(m, i)
          PROVE  Safe(i)'
      <3>1. CASE p = q
        BY <1>1, <1>9, <2>2, <3>1
      <3>2. CASE p # q
        BY <1>1, <1>3, <2>2, <3>2 DEF Safe
      <3>3. QED
        BY <3>1, <3>2
    <2>3. i \in Known => Safe(i)'
      BY <1>2 DEF Safe
    <2>4. QED
      BY <1>3, <1>5, <1>6, <2>1, <2>2, <2>3 DEF Safe
  <1>11. StartsBelow(i) => StartsBelow(i)'
    BY <1>2, <1>3, <1>7 DEF StartsBelow
  <1>12. ASSUME Fresh(i) PROVE Safe(i)' \/ Fresh(i)'
    <2>1. CASE \A j \in ToSet(page.ids) : j < i
      BY <1>2, <1>11, <1>12, <2>1 DEF Fresh
    <2>2. ASSUME NEW j \in ToSet(page.ids), ~(j < i) PROVE Safe(i)'
      <3>1. q.start <= i /\ (q.before # 0 => i < q.before)
        <4>1. j \in Nat /\ q.before \in Nat /\ q.start \in Nat
          BY <1>2, <1>4, <2>2 DEF Query
        <4>2. QED
          BY <1>2, <1>4, <1>8, <1>12, <2>2, <4>1 DEF Fresh, StartsBelow
      <3>2. Covers(q, i)
        BY <3>1 DEF Covers
      <3>3. QED
        BY <1>4, <1>8, <1>9, <2>2, <3>2
    <2>3. QED
      BY <2>1, <2>2
  <1>13. Entering(i) => Entering(i)'
    BY <1>3, <1>6, <1>11 DEF Entering
  <1>14. OnItsWay(i) /\ Fresh(i)' => OnItsWay(i)'
    BY <1>6 DEF OnItsWay
  <1>15. Away(i) /\ Fresh(i)' => Away(i)'
    BY <1>1, <1>3, <1>6 DEF Away
  <1>16. Rejoining(i) /\ Fresh(i)' => Rejoining(i)'
    BY <1>1, <1>3, <1>6 DEF Rejoining
  <1>17. OnItsWay(i) \/ Away(i) \/ Rejoining(i) => Fresh(i)
    BY DEF OnItsWay, Away, Rejoining
  <1>18. QED
    BY <1>8, <1>10, <1>12, <1>13, <1>14, <1>15, <1>16, <1>17 DEF Awaited

\* A query runs out: whatever part of its page has come, the rest of what it covered
\* is offered again.
LEMMA KeptTimeOut ==
  ASSUME IBase, IKept, NEW q, TimeOut(q)
  PROVE  IKept'
  <1> DEFINE r == [q EXCEPT !.why = "retry"]
  <1>1. /\ q \in queries /\ q \in Query
        /\ Known' \subseteq Known \cup ToSet(Page(q)) /\ Known \subseteq Known'
        /\ \A i \in ToSet(Page(q)) : i \in 1..Len(archive) /\ q.start <= i /\ (q.before # 0 => i < q.before)
        /\ \A m \in Coming' : m = [kind |-> "late"] \/ m \in Coming
        /\ \A m \in Coming : m \in Coming' \/ (OfQuery(m) /\ m.query = q)
        /\ \A m \in Sent : m \in Sent' \/ (OfQuery(m) /\ m.query = q)
    BY BaseTimeOut
  <1>2. r.before = q.before /\ r.start = q.start /\ q.before \in Nat /\ q.start \in Nat
    BY <1>1 DEF Query
  <1>3. /\ queries' = queries \ {q} /\ retries' = retries \cup {r} /\ holes' = holes \ Filled(q)
        /\ UNCHANGED <<archive, entering, loaded, cache, since, unmarked, status>>
    BY DEF TimeOut, room, entry, history
  <1> HIDE DEF r
  <1>4. Cached' = Cached /\ loaded' = loaded
    BY <1>3 DEF Cached
  <1>5. (Joining => Joining') /\ Lives' = Lives
    BY <1>1 DEF Joining, Lives, OfQuery
  <1>6. \A m \in Coming : m.kind \in {"self", "kicked"} => m \in Coming'
    BY <1>1 DEF OfQuery
  <1> SUFFICES ASSUME ~unmarked', NEW i \in Texts' PROVE Safe(i)' \/ Awaited(i)'
    BY DEF IKept
  <1>7. (Safe(i) \/ Awaited(i)) /\ i \in Nat /\ i > 0
    BY <1>3 DEF IKept, Texts, IBase, IType
  <1>8. ASSUME Covers(q, i) PROVE Safe(i)'
    <2>1. r \in retries' /\ Covers(r, i)
      BY <1>2, <1>3, <1>8 DEF Covers
    <2>2. QED
      BY <2>1 DEF Safe
  <1>9. Safe(i) => Safe(i)'
    <2>1. ASSUME NEW h \in holes, Covers(h, i) PROVE Safe(i)'
      <3>1. CASE h \in Filled(q)
        BY <1>8, <2>1, <3>1 DEF Filled, Covers
      <3>2. CASE h \notin Filled(q)
        BY <1>3, <2>1, <3>2 DEF Safe
      <3>3. QED
        BY <3>1, <3>2
    <2>2. ASSUME NEW p \in queries, Covers(p, i), \A m \in Coming : m.kind = "page" /\ m.query = p => Brings(m, i)
          PROVE  Safe(i)'
      <3>1. CASE p = q
        BY <1>8, <2>2, <3>1
      <3>2. CASE p # q
        <4>1. \A m \in Coming' : m.kind = "page" /\ m.query = p => Brings(m, i)
          BY <1>1, <2>2
        <4>2. QED
          BY <1>3, <2>2, <3>2, <4>1 DEF Safe
      <3>3. QED
        BY <3>1, <3>2
    <2>3. QED
      BY <1>1, <1>3, <1>4, <2>1, <2>2 DEF Safe
  <1>10. StartsBelow(i) => StartsBelow(i)'
    BY <1>1, <1>2, <1>3 DEF StartsBelow
  <1>11. ASSUME Fresh(i) PROVE Safe(i)' \/ Fresh(i)'
    <2>1. CASE \A j \in ToSet(Page(q)) : j < i
      BY <1>1, <1>10, <1>11, <2>1 DEF Fresh
    <2>2. ASSUME NEW j \in ToSet(Page(q)), ~(j < i) PROVE Safe(i)'
      <3>1. q.start <= i /\ (q.before # 0 => i < q.before)
        <4>1. j \in Nat /\ (q.before # 0 => j < q.before)
          BY <1>1, <2>2
        <4>2. QED
          BY <1>1, <1>2, <1>7, <1>11, <2>2, <4>1 DEF Fresh, StartsBelow
      <3>2. QED
        BY <1>8, <3>1 DEF Covers
    <2>3. QED
      BY <2>1, <2>2
  <1>12. Entering(i) => Entering(i)'
    BY <1>3, <1>4, <1>10 DEF Entering
  <1>13. OnItsWay(i) /\ Fresh(i)' => OnItsWay(i)'
    BY <1>5 DEF OnItsWay
  <1>14. Away(i) /\ Fresh(i)' => Away(i)'
    BY <1>3, <1>5, <1>6 DEF Away
  <1>15. Rejoining(i) /\ Fresh(i)' => Rejoining(i)'
    BY <1>3, <1>5, <1>6 DEF Rejoining
  <1>16. OnItsWay(i) \/ Away(i) \/ Rejoining(i) => Fresh(i)
    BY DEF OnItsWay, Away, Rejoining
  <1>17. QED
    BY <1>7, <1>9, <1>11, <1>12, <1>13, <1>14, <1>15, <1>16 DEF Awaited

\* A query for what a placeholder or an error message stands for covers what that did.
LEMMA KeptAsks ==
  ASSUME IBase, IKept, NEW q, NEW g \in holes \cup retries, q.before = g.before, q.start = g.start,
         queries' = queries \cup {q}, \A m \in Coming : OfQuery(m) => m.query # q,
         holes' = holes, retries' \subseteq retries, \A h \in retries : h \in retries' \/ h = g,
         UNCHANGED <<archive, entering, loaded, store, since, unmarked, status>>,
         Coming' = Coming, Sent \subseteq Sent'
  PROVE  IKept'
  <1> SUFFICES ASSUME ~unmarked', NEW i \in Texts' PROVE Safe(i)' \/ Awaited(i)'
    BY DEF IKept
  <1>1. Safe(i) \/ Awaited(i)
    BY DEF IKept, Texts
  <1>2. Cached' = Cached /\ Known' = Known /\ Lives' = Lives /\ (Joining => Joining')
    BY DEF Cached, Known, Lives, Joining, store
  <1>3. ASSUME Covers(q, i) PROVE Safe(i)'
    <2>1. q \in queries' /\ \A m \in Coming' : m.kind = "page" => m.query # q
      BY DEF OfQuery
    <2>2. QED
      BY <1>3, <2>1 DEF Safe
  <1>4. Safe(i) => Safe(i)'
    <2>1. ASSUME NEW h \in holes \cup retries, Covers(h, i) PROVE Safe(i)'
      <3>1. CASE h = g
        BY <1>3, <2>1, <3>1 DEF Covers
      <3>2. CASE h # g
        BY <2>1, <3>2 DEF Safe
      <3>3. QED
        BY <3>1, <3>2
    <2>2. ASSUME NEW p \in queries, Covers(p, i), \A m \in Coming : m.kind = "page" /\ m.query = p => Brings(m, i)
          PROVE  Safe(i)'
      BY <2>2 DEF Safe
    <2>3. QED
      BY <1>2, <2>1, <2>2 DEF Safe
  <1>5. StartsBelow(i) => StartsBelow(i)'
    BY DEF StartsBelow
  <1>6. Fresh(i) => Fresh(i)'
    BY <1>2, <1>5 DEF Fresh
  <1>7. OnItsWay(i) => OnItsWay(i)'
    BY <1>2, <1>6 DEF OnItsWay
  <1>8. Away(i) => Away(i)'
    BY <1>2, <1>6 DEF Away
  <1>9. Rejoining(i) => Rejoining(i)'
    BY <1>2, <1>6 DEF Rejoining
  <1>10. Entering(i) => Entering(i)'
    BY <1>2, <1>5 DEF Entering
  <1>11. QED
    BY <1>1, <1>4, <1>7, <1>8, <1>9, <1>10 DEF Awaited

LEMMA KeptRetry ==
  ASSUME IBase, IKept, NEW q, Retry(q)
  PROVE  IKept'
  <1>1. /\ q \in retries /\ retries' = retries \ {q} /\ holes' = holes
        /\ UNCHANGED <<archive, entering, loaded, store, since, status>>
    BY DEF Retry, room, entry
  <1>2. CASE ~up
    BY <1>2 DEF Retry, IKept
  <1>3. CASE up
    <2>1. /\ queries' = queries \cup {q} /\ Sent \subseteq Sent' /\ Coming' = Coming
          /\ \A m \in Coming : OfQuery(m) => m.query # q
      BY <1>3, BaseRetry
    <2>2. unmarked' = unmarked
      BY <1>3 DEF Retry
    <2>3. retries' \subseteq retries /\ \A h \in retries : h \in retries' \/ h = q
      BY <1>1
    <2>4. QED
      BY <1>1, <2>1, <2>2, <2>3, KeptAsks
  <1>4. QED
    BY <1>2, <1>3

LEMMA KeptFillGap ==
  ASSUME IBase, IKept, NEW h, FillGap(h)
  PROVE  IKept'
  <1>1. /\ h \in holes /\ retries' = retries
        /\ UNCHANGED <<archive, entering, loaded, store, since, status>>
    BY DEF FillGap, room, entry
  <1>2. CASE ~up
    BY <1>2 DEF FillGap, IKept
  <1>3. CASE up
    <2> DEFINE q == Fills(h)
    <2>1. q.before = h.before /\ q.start = h.start
      BY DEF Fills
    <2> HIDE DEF q
    <2>2. /\ queries' = queries \cup {q} /\ Sent \subseteq Sent' /\ Coming' = Coming /\ holes' = holes
          /\ \A m \in Coming : OfQuery(m) => m.query # q
      BY <1>3, BaseFillGap DEF q
    <2>3. unmarked' = unmarked
      BY <1>3 DEF FillGap
    <2>4. QED
      BY <1>1, <2>1, <2>2, <2>3, KeptAsks
  <1>4. QED
    BY <1>2, <1>3

\* A text that is handled is stored; only a retraction may leave what is known.
LEMMA HandleKnown ==
  ASSUME IBase, HandleMessage
  PROVE  Known' \subseteq Known /\ \A i \in Texts : i \in Known => i \in Known'
  <1> DEFINE n == Head(queue)
  <1>1. /\ n \in 1..Len(archive) /\ ToSet(queue) = ToSet(queue') \cup {n}
    BY HandledCases
  <1>2. /\ Cached = {e.id : e \in ToSet(cache)} /\ Cached' = {e.id : e \in ToSet(cache')}
    <2>1. cache \in Seq(Entry) /\ cache' \in Seq(Entry)
      BY BaseHandle DEF IBase, IType
    <2>2. QED
      BY <2>1, CachedFacts, CachedPrimed
  <1>3. \/ cache' = cache /\ Duplicate(n)
        \/ \E state \in {"plain", "dangling"} : Grown(n, state)
        \/ \E old, new \in Entry :
              /\ Changed(old, new)
              /\ (new.id = old.id /\ archive[n] # 0) \/ (new.id = n /\ old.state = "dangling")
    BY BaseHandle
  <1> HIDE DEF n
  <1>4. CASE cache' = cache /\ Duplicate(n)
    BY <1>1, <1>2, <1>4 DEF Known, Duplicate
  <1>5. ASSUME NEW state, Grown(n, state) PROVE Known' \subseteq Known /\ \A i \in Texts : i \in Known => i \in Known'
    <2> DEFINE new == [id |-> n, state |-> state]
    <2>1. ToSet(cache') = ToSet(cache) \cup {new} /\ new.id = n
      BY <1>5 DEF Grown
    <2> HIDE DEF new
    <2>2. Cached' = Cached \cup {n}
      BY <1>2, <2>1
    <2>3. QED
      BY <1>1, <2>2 DEF Known
  <1>6. ASSUME NEW old, NEW new, Changed(old, new), new.id = old.id, archive[n] # 0
        PROVE  Known' \subseteq Known /\ \A i \in Texts : i \in Known => i \in Known'
    <2>1. Cached' = Cached
      BY <1>2, <1>6 DEF Changed
    <2>2. QED
      BY <1>1, <1>6, <2>1 DEF Known, Texts
  <1>7. ASSUME NEW old, NEW new, Changed(old, new), new.id = n, old.state = "dangling"
        PROVE  Known' \subseteq Known /\ \A i \in Texts : i \in Known => i \in Known'
    <2>1. Cached' \subseteq Cached \cup {n} /\ n \in Cached'
      BY <1>2, <1>7 DEF Changed
    <2>2. \A j \in Cached : j \in Cached' \/ j = old.id
      BY <1>2, <1>7 DEF Changed
    <2>3. archive[old.id] # 0
      BY <1>7 DEF Changed, IBase, IBounds
    <2>4. QED
      BY <1>1, <2>1, <2>2, <2>3 DEF Known, Texts
  <1>8. QED
    BY <1>3, <1>4, <1>5, <1>6, <1>7

LEMMA KeptHandle ==
  ASSUME IBase, IKept, HandleMessage
  PROVE  IKept'
  <1>1. loaded /\ UNCHANGED <<room, net, entry, gaps, since, unmarked>>
    BY HandledCases
  <1>2. /\ archive' = archive /\ Coming' = Coming /\ Joining' = Joining /\ Lives' = Lives
        /\ loaded' /\ status' = status /\ entering' = entering
        /\ holes' = holes /\ queries' = queries /\ retries' = retries
    BY <1>1 DEF room, net, entry, gaps, Coming, Joining, Sent, Lives
  <1>3. Known' \subseteq Known /\ \A i \in Texts : i \in Known => i \in Known'
    BY HandleKnown
  <1> SUFFICES ASSUME ~unmarked', NEW i \in Texts' PROVE Safe(i)' \/ Awaited(i)'
    BY DEF IKept
  <1>4. i \in Texts /\ (Safe(i) \/ Awaited(i))
    BY <1>1, <1>2 DEF IKept, Texts
  <1>5. Safe(i) => Safe(i)'
    BY <1>1, <1>2, <1>3, <1>4, SafeStays
  <1>6. (StartsBelow(i) => StartsBelow(i)') /\ (Fresh(i) => Fresh(i)')
    BY <1>2, <1>3 DEF StartsBelow, Fresh
  <1>7. (OnItsWay(i) => OnItsWay(i)') /\ (Away(i) => Away(i)')
    BY <1>2, <1>6 DEF OnItsWay, Away
  <1>8. (Rejoining(i) => Rejoining(i)') /\ (Entering(i) => Entering(i)')
    BY <1>1, <1>2, <1>6 DEF Rejoining, Entering
  <1>9. QED
    BY <1>4, <1>5, <1>7, <1>8 DEF Awaited

IGaps == IBase /\ IPages /\ IReturned /\ IKept

LEMMA GapsInit == Init => IGaps
  <1> SUFFICES ASSUME Init PROVE IGaps
    OBVIOUS
  <1>1. /\ Sent = {} /\ Coming = {} /\ ToSet(queue) = {} /\ Len(archive) = 0
    BY EmptySet DEF Init, Sent, Coming
  <1>2. IPages /\ IReturned
    BY <1>1 DEF IPages, IReturned, Joining
  <1>3. IKept
    BY <1>1 DEF IKept, Texts
  <1>4. QED
    BY <1>2, <1>3, BaseInit DEF IGaps

LEMMA GapsNext ==
  ASSUME IGaps, [Next]_vars
  PROVE  IGaps'
  <1>1. IBase /\ IPages /\ IReturned /\ IKept
    BY DEF IGaps
  <1>2. IBase' /\ IPages' /\ IReturned'
    BY <1>1, BaseNext, PagesNext, ReturnedNext
  <1>3. ASSUME World PROVE IKept'
    <2>1. Unretracted \cup {0} \subseteq Texts \cup {0}
      BY DEF Unretracted
    <2>2. QED
      BY <1>1, <1>3, <2>1, KeptPost, KeptKick, KeptDrop, KeptReload DEF World
  <1>4. ASSUME Room PROVE IKept'
    BY <1>1, <1>4, KeptAdmit, KeptAnswerLate, KeptAnswerQuery, KeptFailQuery DEF Room
  <1>5. ASSUME OnError PROVE IKept'
    BY <1>5 DEF OnError, IKept
  <1>6. ASSUME NEW q, Expire(q) PROVE IKept'
    BY <1>6 DEF Expire, IKept
  <1>7. ASSUME Client PROVE IKept'
    BY <1>1, <1>5, <1>6, <1>7, KeptShow, KeptReturn, KeptOnSelf, KeptOnKicked, KeptEnterRoom, KeptOnLive,
       KeptHandle, KeptOnPage, KeptOnLate, KeptTimeOut, KeptRetry, KeptFillGap DEF Client
  <1>8. ASSUME UNCHANGED vars PROVE IKept'
    <2>1. UNCHANGED <<archive, loaded, store, gaps, since, unmarked, status, entering>>
      BY <1>8 DEF vars, room, entry, history
    <2>2. Coming' = Coming /\ (Joining' <=> Joining)
      BY <1>1, <1>8, BaseStutter
    <2>3. QED
      BY <1>1, <2>1, <2>2, KeptComes
  <1>9. QED
    BY <1>2, <1>3, <1>4, <1>7, <1>8 DEF Next, IGaps

LEMMA GapsMeaning ==
  ASSUME IGaps
  PROVE  GapsAreMarked
  <1> SUFFICES ASSUME Quiet, NEW i \in Texts, ~unmarked
               PROVE  i \in Cached \/ \E h \in holes \cup retries : Covers(h, i)
    BY DEF GapsAreMarked
  <1>1. status = "in" /\ ~entering /\ queries = {} /\ toClient = <<>> /\ queue = <<>>
    BY DEF Quiet
  <1>2. Coming = {} /\ ToSet(queue) = {}
    BY <1>1, EmptySet DEF Coming
  <1>3. Known = Cached
    BY <1>2 DEF Known
  <1>4. loaded /\ ~Joining
    BY <1>1 DEF IGaps, IBase, IPhase
  <1>5. ~Awaited(i)
    BY <1>1, <1>2, <1>4 DEF Awaited, OnItsWay, Away, Rejoining, Entering, Lives
  <1>6. Safe(i)
    BY <1>5 DEF IGaps, IKept
  <1>7. QED
    BY <1>1, <1>3, <1>4, <1>6 DEF Safe

\* A text of the archive that a client at rest in the room has not got is where a
\* placeholder or an error message offers to fetch it, unless a gap was lost as
\* `unmarked` tells, for archives and pages of any size and any number of faults.
THEOREM GapsMarked == Spec => []GapsAreMarked
  <1>1. Init => IGaps
    BY GapsInit
  <1>2. IGaps /\ [Next]_vars => IGaps'
    BY GapsNext
  <1>3. IGaps => GapsAreMarked
    BY GapsMeaning
  <1>4. QED
    BY <1>1, <1>2, <1>3, PTL DEF Spec
=============================================================================
