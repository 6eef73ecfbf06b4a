--------------------------- MODULE CoordinatorProof --------------------------
(***************************************************************************)
(* Proofs about Coordinator, for every set of hosts, of rooms and of       *)
(* followed browsers, every bound, and with or without lost answers.       *)
(***************************************************************************)
EXTENDS Coordinator, FiniteSetTheorems, WellFoundedInduction, TLAPS

Types ==
  /\ phase \in [Hosts -> Phases]
  /\ room \in [Hosts -> Rooms \cup {None}] /\ service \in [Hosts -> Rooms \cup {None}]
  /\ cache \in [Hosts -> [Hosts -> Rooms \cup {None}]]
  /\ events \in [Hosts -> Seq([kind : {"added", "removed"}, name : Hosts])]
  /\ asking \in [Hosts -> Hosts \cup {None}]
  /\ known \in [Hosts -> SUBSET Hosts]
  /\ peers \in [Hosts -> Seq(Hosts)]
  /\ missed \subseteq Hosts \X Hosts

\* The sequence p holds each element of S once, and nothing else.
Lists(p, S) ==
  /\ \A i, j \in 1 .. Len(p) : p[i] = p[j] => i = j
  /\ \A i \in 1 .. Len(p) : p[i] \in S
  /\ \A h \in S : \E i \in 1 .. Len(p) : p[i] = h

\* What a browser that is closed, or not open yet, holds.
Fresh(o) ==
  /\ \A h \in Hosts : cache[o][h] = None /\ <<o, h>> \notin missed
  /\ events[o] = <<>> /\ asking[o] = None /\ known[o] = {} /\ peers[o] = <<>>

\* No event of h at place i of queue q, or after it.
Silent(q, h, i) == \A j \in i .. Len(q) : q[j].name # h

\* The events of h in q alternate: up is the set of places before which h was
\* there, by what the browser had been told.
Told(up, q, h) ==
  /\ \A i \in 1 .. Len(q) :
       IF q[i].name = h
       THEN (i \in up <=> q[i].kind = "removed") /\ (i + 1 \in up <=> q[i].kind = "added")
       ELSE i \in up <=> i + 1 \in up
  /\ \A i \in 1 .. Len(q) + 1 : Silent(q, h, i) => (i \in up <=> Len(q) + 1 \in up)

\* The queue leads from what the lists know of h to what the cache holds.
Queued(o, h) ==
  \E up \in SUBSET (1 .. Len(events[o]) + 1) :
    /\ Told(up, events[o], h)
    /\ Len(events[o]) + 1 \in up <=> cache[o][h] # None
    /\ h \in known[o] \/ asking[o] = h => 1 \in up

\* A host is listed as its record says, when nothing about it is under way.
Listed(o, h) ==
  Silent(events[o], h, 1) /\ asking[o] # h /\ <<o, h>> \notin missed
    => (h \in known[o] <=> cache[o][h] = room[o])

Browser(o) ==
  /\ phase[o] # "off" => room[o] \in Rooms
  /\ ~Browsing(o) /\ phase[o] # "leaving" => Fresh(o)
  /\ asking[o] \notin known[o]
  /\ Lists(peers[o], known[o])
  /\ Browsing(o) => \A h \in Hosts : Queued(o, h) /\ Listed(o, h)

CoordinatorInv == Types /\ \A o \in Hosts : Browser(o)

-----------------------------------------------------------------------------
(* A set of natural numbers that is not empty has a least element. *)
LEMMA LeastElement ==
  ASSUME NEW S \in SUBSET Nat, S # {}
  PROVE  \E x \in S : \A y \in S : x <= y
<1>1. \E R : IsWellFoundedOn(R, Nat) /\ \A x, y \in Nat : <<y, x>> \in R <=> y < x
  <2>1. \A x, y \in Nat : <<y, x>> \in OpToRel(<, Nat) <=> y < x
    BY DEF OpToRel
  <2> QED BY <2>1, NatLessThanWellFounded
<1>2. PICK R : IsWellFoundedOn(R, Nat) /\ \A x, y \in Nat : <<y, x>> \in R <=> y < x
  BY <1>1
<1>3. \E x \in S : \A y \in S : ~(<<y, x>> \in R)
  BY <1>2, WFMin
<1>4. \A x, y \in Nat : ~(<<y, x>> \in R) => x <= y
  BY <1>2
<1> QED BY ONLY <1>3, <1>4, S \in SUBSET Nat

LEMMA AppendPoints ==
  ASSUME NEW S, NEW q \in Seq(S), NEW e \in S
  PROVE  /\ Append(q, e) \in Seq(S)
         /\ Len(Append(q, e)) = Len(q) + 1
         /\ Append(q, e)[Len(q) + 1] = e
         /\ \A i \in 1 .. Len(q) : Append(q, e)[i] = q[i]
  OBVIOUS

LEMMA TailPoints ==
  ASSUME NEW S, NEW q \in Seq(S), q # <<>>
  PROVE  /\ Len(q) \in Nat \ {0}
         /\ Tail(q) \in Seq(S) /\ Len(Tail(q)) = Len(q) - 1
         /\ \A i \in 1 .. Len(q) - 1 : Tail(q)[i] = q[i + 1]
         /\ Head(q) = q[1] /\ Head(q) \in S
  OBVIOUS

(* Without: the list comprehension, computed from the front. *)

KeptUpTo(q, h, n, f) ==
  f = [m \in 0 .. n |->
        IF m = 0 THEN <<>>
        ELSE IF q[m] = h THEN f[m - 1] ELSE Append(f[m - 1], q[m])]

LEMMA KeptExists ==
  ASSUME NEW q, NEW h, NEW n \in Nat
  PROVE  \E f : KeptUpTo(q, h, n, f)
<1> DEFINE Bad == {k \in Nat : ~\E f : KeptUpTo(q, h, k, f)}
<1> SUFFICES ASSUME Bad # {} PROVE FALSE
  OBVIOUS
<1>1. PICK k \in Bad : \A y \in Bad : k <= y
  BY LeastElement
<1>2. k # 0
  <2>1. KeptUpTo(q, h, 0, [m \in 0 .. 0 |-> <<>>])
    BY DEF KeptUpTo
  <2> QED BY <2>1
<1>3. k \in Nat /\ k - 1 \in Nat /\ ~(k <= k - 1)
  BY <1>2
<1>4. k - 1 \notin Bad
  BY <1>1, <1>3
<1>5. PICK f : KeptUpTo(q, h, k - 1, f)
  BY <1>3, <1>4
<1> DEFINE last == IF q[k] = h THEN f[k - 1] ELSE Append(f[k - 1], q[k])
           g == [m \in 0 .. k |-> IF m = k THEN last ELSE f[m]]
<1>6. \A m \in 0 .. k - 1 : f[m] = IF m = 0 THEN <<>>
                                   ELSE IF q[m] = h THEN f[m - 1] ELSE Append(f[m - 1], q[m])
  BY <1>5 DEF KeptUpTo
<1>7. \A m \in 0 .. k - 1 : g[m] = f[m]
  BY <1>3
<1>8. \A m \in 0 .. k : g[m] = IF m = 0 THEN <<>>
                               ELSE IF q[m] = h THEN g[m - 1] ELSE Append(g[m - 1], q[m])
  <2> TAKE m \in 0 .. k
  <2>1. CASE m = k
    <3>1. g[m] = last /\ g[m - 1] = f[k - 1]
      BY <1>3, <1>7, <2>1
    <3> QED BY <1>2, <2>1, <3>1
  <2>2. CASE m # k
    <3>1. m \in 0 .. k - 1 /\ (m # 0 => m - 1 \in 0 .. k - 1)
      BY <1>3, <2>2
    <3> HIDE DEF g
    <3> QED BY <1>6, <1>7, <3>1
  <2> QED BY <2>1, <2>2
<1>9. KeptUpTo(q, h, k, g)
  <2>1. g = [m \in 0 .. k |-> g[m]]
    OBVIOUS
  <2> HIDE DEF g
  <2> QED BY <1>8, <2>1 DEF KeptUpTo
<1> QED BY <1>1, <1>9

\* Each element of q but h, of the first n, is in p, and nothing else.
Kept(p, q, h, n) ==
  /\ p \in Seq({q[i] : i \in 1 .. Len(q)})
  /\ \A i \in 1 .. Len(p) : p[i] # h /\ \E j \in 1 .. n : q[j] = p[i]
  /\ \A j \in 1 .. n : q[j] # h => \E i \in 1 .. Len(p) : p[i] = q[j]
  /\ \A i, j \in 1 .. Len(p) : p[i] = p[j] => i = j

LEMMA KeptStep ==
  ASSUME NEW S, NEW q \in Seq(S), NEW h, NEW n \in 1 .. Len(q), NEW p,
         \A i, j \in 1 .. Len(q) : q[i] = q[j] => i = j, Kept(p, q, h, n - 1)
  PROVE  Kept(IF q[n] = h THEN p ELSE Append(p, q[n]), q, h, n)
<1> DEFINE T == {q[i] : i \in 1 .. Len(q)}
<1>1. p \in Seq(T) /\ q[n] \in T /\ Len(q) \in Nat /\ n - 1 \in Nat /\ n \in Nat
  BY DEF Kept
<1>2. \A j \in 1 .. n : j = n \/ j \in 1 .. n - 1
  OBVIOUS
<1>3. \A j \in 1 .. n - 1 : j \in 1 .. n /\ q[j] # q[n]
  OBVIOUS
<1>4. /\ \A i \in 1 .. Len(p) : p[i] # h /\ \E j \in 1 .. n - 1 : q[j] = p[i]
      /\ \A j \in 1 .. n - 1 : q[j] # h => \E i \in 1 .. Len(p) : p[i] = q[j]
      /\ \A i, j \in 1 .. Len(p) : p[i] = p[j] => i = j
  BY DEF Kept
<1>5. CASE q[n] = h
  <2> HIDE DEF T
  <2>1. \A i \in 1 .. Len(p) : p[i] # h /\ \E j \in 1 .. n : q[j] = p[i]
    BY <1>3, <1>4
  <2>2. \A j \in 1 .. n : q[j] # h => \E i \in 1 .. Len(p) : p[i] = q[j]
    BY <1>2, <1>4, <1>5
  <2> QED BY <1>1, <1>4, <1>5, <2>1, <2>2 DEF Kept, T
<1>6. CASE q[n] # h
  <2> DEFINE r == Append(p, q[n])
             m == Len(p)
  <2> HIDE DEF T
  <2>1. r \in Seq(T) /\ m \in Nat /\ Len(r) = m + 1 /\ r[m + 1] = q[n]
        /\ \A i \in 1 .. m : r[i] = p[i]
    BY <1>1, AppendPoints
  <2> HIDE DEF r, m
  <2>2. \A i \in 1 .. m + 1 : i = m + 1 \/ i \in 1 .. m
    BY <2>1
  <2>3. \A i \in 1 .. m : r[i] # h /\ r[i] # q[n] /\ \E j \in 1 .. n : q[j] = r[i]
    BY <1>3, <1>4, <2>1 DEF m
  <2>4. \A i \in 1 .. Len(r) : r[i] # h /\ \E j \in 1 .. n : q[j] = r[i]
    <3>1. r[m + 1] # h /\ \E j \in 1 .. n : q[j] = r[m + 1]
      BY <1>6, <2>1
    <3> QED BY <2>1, <2>2, <2>3, <3>1
  <2>5. ASSUME NEW j \in 1 .. n, q[j] # h PROVE \E i \in 1 .. Len(r) : r[i] = q[j]
    <3>1. CASE j = n
      <4>1. m + 1 \in 1 .. Len(r)
        BY <2>1
      <4> QED BY <2>1, <3>1, <4>1
    <3>2. CASE j # n
      <4>1. PICK i \in 1 .. m : p[i] = q[j]
        BY <1>2, <1>4, <2>5, <3>2 DEF m
      <4>2. i \in 1 .. Len(r)
        BY <2>1
      <4> QED BY <2>1, <4>1, <4>2
    <3> QED BY <3>1, <3>2
  <2>6. \A i, j \in 1 .. Len(r) : r[i] = r[j] => i = j
    <3>1. \A i, j \in 1 .. m : r[i] = r[j] => i = j
      BY <1>4, <2>1 DEF m
    <3> QED BY <2>1, <2>2, <2>3, <3>1
  <2>7. Kept(r, q, h, n)
    BY <2>1, <2>4, <2>5, <2>6 DEF Kept, T
  <2> QED BY <1>6, <2>7 DEF r
<1> QED BY <1>5, <1>6

LEMMA WithoutFacts ==
  ASSUME NEW S, NEW q \in Seq(S), NEW h,
         \A i, j \in 1 .. Len(q) : q[i] = q[j] => i = j
  PROVE  Kept(Without(q, h), q, h, Len(q))
<1> DEFINE f == CHOOSE f : KeptUpTo(q, h, Len(q), f)
           Bad == {n \in 0 .. Len(q) : ~Kept(f[n], q, h, n)}
<1>1. Len(q) \in Nat
  OBVIOUS
<1>2. Without(q, h) = f[Len(q)]
  BY DEF Without, KeptUpTo
<1>3. \A n \in 0 .. Len(q) : f[n] = IF n = 0 THEN <<>>
                                   ELSE IF q[n] = h THEN f[n - 1] ELSE Append(f[n - 1], q[n])
  <2>1. KeptUpTo(q, h, Len(q), f)
    BY <1>1, KeptExists
  <2> HIDE DEF f
  <2> QED BY <2>1 DEF KeptUpTo
<1> HIDE DEF f
<1>4. Bad = {}
  <2> SUFFICES ASSUME Bad # {} PROVE FALSE
    OBVIOUS
  <2>1. Bad \in SUBSET Nat
    BY <1>1
  <2>2. PICK n \in Bad : \A y \in Bad : n <= y
    BY <2>1, LeastElement
  <2>3. n \in 0 .. Len(q) /\ ~Kept(f[n], q, h, n)
    OBVIOUS
  <2>4. n # 0
    <3>1. Kept(<<>>, q, h, 0)
      BY DEF Kept
    <3>2. f[0] = <<>>
      BY <1>1, <1>3
    <3> QED BY <2>3, <3>1, <3>2
  <2>5. n \in 1 .. Len(q) /\ n - 1 \in 0 .. Len(q) /\ ~(n <= n - 1)
    BY <1>1, <2>3, <2>4
  <2>6. n - 1 \notin Bad
    BY <2>2, <2>5
  <2>7. Kept(f[n - 1], q, h, n - 1)
    BY <2>5, <2>6
  <2>8. f[n] = IF q[n] = h THEN f[n - 1] ELSE Append(f[n - 1], q[n])
    BY <1>3, <2>3, <2>4
  <2> HIDE DEF Bad
  <2>9. Kept(f[n], q, h, n)
    BY <2>5, <2>7, <2>8, KeptStep
  <2> QED BY <2>3, <2>9
<1>5. Len(q) \in 0 .. Len(q)
  BY <1>1
<1> QED BY <1>2, <1>4, <1>5

\* on_peer_removed takes the peer off a list without repetitions.
LEMMA WithoutLists ==
  ASSUME NEW p \in Seq(Hosts), NEW S \in SUBSET Hosts, NEW h, Lists(p, S)
  PROVE  Without(p, h) \in Seq(Hosts) /\ Lists(Without(p, h), S \ {h})
<1> DEFINE w == Without(p, h)
           T == {p[i] : i \in 1 .. Len(p)}
<1>1. /\ \A i, j \in 1 .. Len(p) : p[i] = p[j] => i = j
      /\ \A i \in 1 .. Len(p) : p[i] \in S
      /\ \A x \in S : \E i \in 1 .. Len(p) : p[i] = x
  BY DEF Lists
<1>2. Kept(w, p, h, Len(p))
  BY <1>1, WithoutFacts
<1> HIDE DEF w
<1>3. w \in Seq(Hosts)
  <2>1. w \in Seq(T)
    BY <1>2 DEF Kept
  <2>2. T \subseteq Hosts
    BY <1>1
  <2> HIDE DEF T
  <2> QED BY <2>1, <2>2
<1>4. /\ \A i \in 1 .. Len(w) : w[i] # h /\ \E j \in 1 .. Len(p) : p[j] = w[i]
      /\ \A j \in 1 .. Len(p) : p[j] # h => \E i \in 1 .. Len(w) : w[i] = p[j]
      /\ \A i, j \in 1 .. Len(w) : w[i] = w[j] => i = j
  BY <1>2 DEF Kept
<1>5. \A i \in 1 .. Len(w) : w[i] \in S \ {h}
  BY <1>1, <1>4
<1>6. \A x \in S \ {h} : \E i \in 1 .. Len(w) : w[i] = x
  BY <1>1, <1>4
<1> QED BY <1>3, <1>4, <1>5, <1>6 DEF Lists, w

\* on_peer_added puts a new peer on it.
LEMMA AppendLists ==
  ASSUME NEW p \in Seq(Hosts), NEW S \in SUBSET Hosts, NEW h \in Hosts \ S, Lists(p, S)
  PROVE  Append(p, h) \in Seq(Hosts) /\ Lists(Append(p, h), S \cup {h})
<1> DEFINE r == Append(p, h)
           m == Len(p)
<1>1. r \in Seq(Hosts) /\ m \in Nat /\ Len(r) = m + 1 /\ r[m + 1] = h
      /\ \A i \in 1 .. m : r[i] = p[i]
  BY AppendPoints
<1>2. /\ \A i, j \in 1 .. m : p[i] = p[j] => i = j
      /\ \A i \in 1 .. m : p[i] \in S
      /\ \A x \in S : \E i \in 1 .. m : p[i] = x
  BY DEF Lists
<1> HIDE DEF r, m
<1>3. \A i \in 1 .. m + 1 : i = m + 1 \/ i \in 1 .. m
  BY <1>1
<1>4. m + 1 \in 1 .. m + 1 /\ \A i \in 1 .. m : i \in 1 .. m + 1
  BY <1>1
<1>5. \A i, j \in 1 .. m + 1 : r[i] = r[j] => i = j
  BY <1>1, <1>2, <1>3
<1>6. \A i \in 1 .. m + 1 : r[i] \in S \cup {h}
  BY <1>1, <1>2, <1>3
<1>7. \A x \in S \cup {h} : \E i \in 1 .. m + 1 : r[i] = x
  BY <1>1, <1>2, <1>4
<1> QED BY <1>1, <1>5, <1>6, <1>7 DEF Lists, r

\* A list without repetitions is as long as the set it lists.
LEMMA ListsLength ==
  ASSUME NEW p \in Seq(Hosts), NEW S \in SUBSET Hosts, Lists(p, S)
  PROVE  Len(p) = Cardinality(S) /\ Len(p) <= Cardinality(Hosts)
<1>1. Len(p) \in Nat
  OBVIOUS
<1>2. ExistsBijection(1 .. Len(p), S)
  <2>1. [i \in 1 .. Len(p) |-> p[i]] \in Bijection(1 .. Len(p), S)
    BY DEF Lists, Bijection, Injection, Surjection, IsInjective
  <2> QED BY <2>1 DEF ExistsBijection
<1>3. Cardinality(S) = Len(p)
  BY <1>1, <1>2, FS_CountingElements
<1>4. Cardinality(S) <= Cardinality(Hosts)
  BY CoordinatorAssumption, FS_Subset
<1> QED BY <1>3, <1>4

-----------------------------------------------------------------------------
(* The queue of changes, as it grows and is handled. *)

Changes == [kind : {"added", "removed"}, name : Hosts]

\* A change that fits what the browser will have been told goes in last.
LEMMA ToldAppend ==
  ASSUME NEW q \in Seq(Changes), NEW e \in Changes, NEW h \in Hosts,
         NEW up \in SUBSET (1 .. Len(q) + 1), Told(up, q, h),
         e.name = h => (Len(q) + 1 \in up <=> e.kind = "removed")
  PROVE  \E new \in SUBSET (1 .. Len(Append(q, e)) + 1) :
           /\ Told(new, Append(q, e), h)
           /\ Len(Append(q, e)) + 1 \in new <=>
                IF e.name = h THEN e.kind = "added" ELSE Len(q) + 1 \in up
           /\ 1 \in up <=> 1 \in new
<1> DEFINE n == Len(q)
           r == Append(q, e)
           last == IF e.name = h THEN e.kind = "added" ELSE n + 1 \in up
           new == IF last THEN up \cup {n + 2} ELSE up
<1>1. n \in Nat /\ Len(r) = n + 1 /\ r[n + 1] = e /\ \A i \in 1 .. n : r[i] = q[i]
  BY AppendPoints
<1>2. up \subseteq 1 .. n + 1
  OBVIOUS
<1>3. e.kind = "added" <=> e.kind # "removed"
  BY DEF Changes
<1>4. /\ \A i \in 1 .. n : IF q[i].name = h
                           THEN (i \in up <=> q[i].kind = "removed") /\ (i + 1 \in up <=> q[i].kind = "added")
                           ELSE i \in up <=> i + 1 \in up
      /\ \A i \in 1 .. n + 1 : (\A j \in i .. n : q[j].name # h) => (i \in up <=> n + 1 \in up)
  BY DEF Told, Silent
<1> HIDE DEF n, r, last
<1>5. \A i \in 1 .. n + 1 : i \in new <=> i \in up
  BY <1>1
<1>6. n + 2 \in new <=> last
  BY <1>1, <1>2
<1>7. new \in SUBSET (1 .. n + 2)
  BY <1>1, <1>2
<1> HIDE DEF new
<1>8. ASSUME NEW i \in 1 .. n + 1
      PROVE  IF r[i].name = h
             THEN (i \in new <=> r[i].kind = "removed") /\ (i + 1 \in new <=> r[i].kind = "added")
             ELSE i \in new <=> i + 1 \in new
  <2>1. CASE i = n + 1
    <3>1. r[i] = e /\ i + 1 = n + 2 /\ (i \in new <=> n + 1 \in up) /\ (i + 1 \in new <=> last)
      BY <1>1, <1>5, <1>6, <2>1
    <3>2. CASE e.name = h
      BY <1>3, <3>1, <3>2 DEF last, n
    <3>3. CASE e.name # h
      BY <3>1, <3>3 DEF last
    <3> QED BY <3>2, <3>3
  <2>2. CASE i # n + 1
    <3>1. i \in 1 .. n /\ i + 1 \in 1 .. n + 1
      BY <1>1, <2>2
    <3>2. r[i] = q[i] /\ (i \in new <=> i \in up) /\ (i + 1 \in new <=> i + 1 \in up)
      BY <1>1, <1>5, <3>1
    <3> QED BY <1>4, <3>1, <3>2
  <2> QED BY <2>1, <2>2
<1>9. ASSUME NEW i \in 1 .. n + 2, \A j \in i .. n + 1 : r[j].name # h
      PROVE  i \in new <=> n + 2 \in new
  <2>1. CASE i # n + 2
    <3>1. i \in 1 .. n + 1 /\ n + 1 \in i .. n + 1 /\ \A j \in i .. n : j \in i .. n + 1 /\ j \in 1 .. n
      BY <1>1, <2>1
    <3>2. e.name # h
      BY <1>1, <1>9, <3>1
    <3>3. \A j \in i .. n : q[j].name # h
      BY <1>1, <1>9, <3>1
    <3>4. i \in up <=> n + 1 \in up
      BY <1>4, <3>1, <3>3
    <3> QED BY <1>5, <1>6, <3>1, <3>2, <3>4 DEF last
  <2> QED BY <2>1
<1>10. Told(new, r, h)
  <2>1. Len(r) + 1 = n + 2 /\ Len(r) = n + 1
    BY <1>1
  <2> QED BY <1>8, <1>9, <2>1 DEF Told, Silent
<1>11. 1 \in up <=> 1 \in new
  BY <1>1, <1>5
<1>12. Len(r) + 1 = n + 2
  BY <1>1
<1> QED BY <1>6, <1>7, <1>10, <1>11, <1>12 DEF last, r, n

\* The oldest change is handled.
LEMMA ToldTail ==
  ASSUME NEW q \in Seq(Changes), q # <<>>, NEW h \in Hosts,
         NEW up \in SUBSET (1 .. Len(q) + 1), Told(up, q, h)
  PROVE  \E new \in SUBSET (1 .. Len(Tail(q)) + 1) :
           /\ Told(new, Tail(q), h)
           /\ Len(Tail(q)) + 1 \in new <=> Len(q) + 1 \in up
           /\ 1 \in new <=> IF Head(q).name = h THEN Head(q).kind = "added" ELSE 1 \in up
           /\ Head(q).name = h => (1 \in up <=> Head(q).kind = "removed")
<1> DEFINE n == Len(q)
           r == Tail(q)
           new == {i \in 1 .. n : i + 1 \in up}
<1>1. n \in Nat \ {0} /\ Len(r) = n - 1 /\ Head(q) = q[1]
      /\ \A i \in 1 .. n - 1 : r[i] = q[i + 1]
  BY TailPoints
<1>2. /\ \A i \in 1 .. n : IF q[i].name = h
                           THEN (i \in up <=> q[i].kind = "removed") /\ (i + 1 \in up <=> q[i].kind = "added")
                           ELSE i \in up <=> i + 1 \in up
      /\ \A i \in 1 .. n + 1 : (\A j \in i .. n : q[j].name # h) => (i \in up <=> n + 1 \in up)
  BY DEF Told, Silent
<1> HIDE DEF n, r
<1>3. \A i \in 1 .. n : i \in new <=> i + 1 \in up
  BY <1>1
<1>4. new \in SUBSET (1 .. n)
  OBVIOUS
<1> HIDE DEF new
<1>5. ASSUME NEW i \in 1 .. n - 1
      PROVE  IF r[i].name = h
             THEN (i \in new <=> r[i].kind = "removed") /\ (i + 1 \in new <=> r[i].kind = "added")
             ELSE i \in new <=> i + 1 \in new
  <2>1. i \in 1 .. n /\ i + 1 \in 1 .. n
    BY <1>1
  <2>2. r[i] = q[i + 1] /\ (i \in new <=> i + 1 \in up) /\ (i + 1 \in new <=> (i + 1) + 1 \in up)
    BY <1>1, <1>3, <2>1
  <2> QED BY <1>2, <2>1, <2>2
<1>6. ASSUME NEW i \in 1 .. n, \A j \in i .. n - 1 : r[j].name # h
      PROVE  i \in new <=> n \in new
  <2>1. i + 1 \in 1 .. n + 1 /\ n \in 1 .. n
    BY <1>1
  <2>2. ASSUME NEW j \in i + 1 .. n PROVE q[j].name # h
    <3>1. j - 1 \in i .. n - 1 /\ j - 1 \in 1 .. n - 1 /\ (j - 1) + 1 = j
      BY <1>1
    <3>2. r[j - 1].name # h /\ r[j - 1] = q[j]
      BY <1>1, <1>6, <3>1
    <3> QED BY <3>2
  <2>3. \A j \in i + 1 .. n : q[j].name # h
    BY <2>2
  <2>4. i + 1 \in up <=> n + 1 \in up
    BY <1>2, <2>1, <2>3
  <2> QED BY <1>3, <2>1, <2>4
<1>7. Len(r) + 1 = n
  BY <1>1
<1>8. Told(new, r, h)
  BY <1>1, <1>5, <1>6, <1>7 DEF Told, Silent
<1>9. 1 \in 1 .. n /\ n \in 1 .. n
  BY <1>1
<1>10. 1 \in new <=> IF Head(q).name = h THEN Head(q).kind = "added" ELSE 1 \in up
  BY <1>1, <1>2, <1>3, <1>9
<1>11. Head(q).name = h => (1 \in up <=> Head(q).kind = "removed")
  BY <1>1, <1>2, <1>9
<1>12. n \in new <=> n + 1 \in up
  BY <1>3, <1>9
<1> QED BY <1>4, <1>7, <1>8, <1>10, <1>11, <1>12 DEF r, n

-----------------------------------------------------------------------------
(* What a step does to the browser of a host. *)

Same(p) ==
  /\ phase'[p] = phase[p] /\ room'[p] = room[p]
  /\ cache'[p] = cache[p] /\ events'[p] = events[p] /\ asking'[p] = asking[p]
  /\ known'[p] = known[p] /\ peers'[p] = peers[p]
  /\ \A h \in Hosts : <<p, h>> \in missed' <=> <<p, h>> \in missed

LEMMA SameBrowser ==
  ASSUME NEW p \in Hosts, Browser(p), Same(p)
  PROVE  Browser(p)'
<1>1. Browsing(p)' <=> Browsing(p)
  BY DEF Browsing, Same
<1>2. Fresh(p) => Fresh(p)'
  BY DEF Fresh, Same
<1>3. \A h \in Hosts : Queued(p, h) => Queued(p, h)'
  BY DEF Queued, Same, Told, Silent
<1>4. \A h \in Hosts : Listed(p, h) => Listed(p, h)'
  BY DEF Listed, Same, Silent
<1> QED BY <1>1, <1>2, <1>3, <1>4 DEF Browser, Same

\* A browser that holds nothing.
LEMMA FreshBrowser ==
  ASSUME NEW o \in Hosts, Fresh(o)', phase'[o] # "off" => room'[o] \in Rooms
  PROVE  Browser(o)'
<1>1. None \notin Rooms /\ None \notin {}
  BY CoordinatorAssumption DEF None
<1>2. \A h \in Hosts : Told({}, <<>>, h)
  BY DEF Told
<1>3. ASSUME NEW h \in Hosts PROVE Queued(o, h)'
  <2>1. events'[o] = <<>> /\ cache'[o][h] = None /\ h \notin known'[o] /\ asking'[o] # h
    BY CoordinatorAssumption DEF Fresh, None
  <2> QED BY <1>2, <2>1 DEF Queued
<1>4. ASSUME NEW h \in Hosts, Browsing(o)' PROVE Listed(o, h)'
  <2>1. room'[o] \in Rooms
    BY <1>4 DEF Browsing
  <2> QED BY <1>1, <2>1 DEF Fresh, Listed
<1>5. Lists(peers[o], known[o])'
  BY DEF Lists, Fresh
<1> QED BY <1>3, <1>4, <1>5 DEF Browser, Fresh

\* Steps of run that leave the browser as it is.
LEMMA MoveBrowser ==
  ASSUME NEW o \in Hosts, Browser(o),
         phase[o] \in {"off", "relay", "discovery", "bus", "loop"},
         phase[o] = "off" => phase'[o] = "relay",
         phase[o] \in {"bus", "loop"} => phase'[o] \in {"loop", "stopping"},
         phase'[o] # "leaving",
         phase[o] # "off" => room'[o] = room[o],
         phase[o] = "off" => room'[o] \in Rooms,
         UNCHANGED <<cache, events, listVars>>
  PROVE  Browser(o)'
<1>1. phase'[o] # "off" => room'[o] \in Rooms
  BY DEF Browser
<1>2. CASE Browsing(o)
  <2>1. Browsing(o)' /\ room'[o] = room[o]
    BY <1>2 DEF Browsing
  <2>2. \A h \in Hosts : Queued(o, h) => Queued(o, h)'
    BY DEF Queued, listVars
  <2>3. \A h \in Hosts : Listed(o, h) => Listed(o, h)'
    BY <2>1 DEF Listed, listVars
  <2> QED BY <1>1, <1>2, <2>1, <2>2, <2>3 DEF Browser, listVars
<1>3. CASE ~Browsing(o)
  <2>1. Fresh(o)
    BY <1>3 DEF Browser
  <2>2. Fresh(o)'
    BY <2>1 DEF Fresh, listVars
  <2> QED BY <1>1, <2>2, FreshBrowser
<1> QED BY <1>2, <1>3

-----------------------------------------------------------------------------
(* The steps of run, one lemma for those that leave the browser alone. *)

LEMMA Assembled ==
  ASSUME CoordinatorInv, NEW o \in Hosts, Types', Browser(o)',
         \A p \in Hosts \ {o} : Same(p)
  PROVE  CoordinatorInv'
  BY SameBrowser DEF CoordinatorInv

LEMMA RunKeeps ==
  ASSUME CoordinatorInv, NEW h \in Hosts,
         \/ \E r \in RoomsOf[h] : Launch(h, r)
         \/ ConnectRelay(h) \/ StartDiscovery(h) \/ StartBus(h) \/ Interrupt(h)
  PROVE  CoordinatorInv'
<1>1. Types /\ Browser(h)
  BY DEF CoordinatorInv
<1>2. ASSUME NEW r \in RoomsOf[h], Launch(h, r) PROVE CoordinatorInv'
  <2>1. r \in Rooms
    BY CoordinatorAssumption
  <2>2. Types'
    BY <1>1, <1>2, <2>1 DEF Types, Launch, Phases, lanVars, listVars
  <2>3. phase[h] = "off" /\ phase'[h] = "relay" /\ room'[h] = r
        /\ UNCHANGED <<cache, events, listVars>>
    BY <1>1, <1>2 DEF Types, Launch, lanVars
  <2>4. Browser(h)'
    BY <1>1, <2>1, <2>3, MoveBrowser
  <2>5. \A p \in Hosts \ {h} : Same(p)
    BY <1>1, <1>2 DEF Types, Launch, Same, lanVars, listVars
  <2> QED BY <2>2, <2>4, <2>5, Assembled
<1>3. ASSUME NEW from \in Phases, NEW to \in Phases, Move(h, from, to),
             <<from, to>> \in {<<"relay", "discovery">>, <<"discovery", "bus">>,
                               <<"bus", "loop">>, <<"loop", "stopping">>},
             UNCHANGED <<cache, events, listVars>>,
             service' \in [Hosts -> Rooms \cup {None}]
      PROVE  CoordinatorInv'
  <2>1. Types'
    BY <1>1, <1>3 DEF Types, Move, listVars
  <2>2. phase[h] = from /\ phase'[h] = to /\ room'[h] = room[h]
    BY <1>1, <1>3 DEF Types, Move
  <2>3. Browser(h)'
    BY <1>1, <1>3, <2>2, MoveBrowser
  <2>4. \A p \in Hosts \ {h} : Same(p)
    BY <1>1, <1>3 DEF Types, Move, Same, listVars
  <2> QED BY <2>1, <2>3, <2>4, Assembled
<1>4. ASSUME ConnectRelay(h) \/ StartBus(h) \/ Interrupt(h) PROVE CoordinatorInv'
  <2>1. service' \in [Hosts -> Rooms \cup {None}] /\ UNCHANGED <<cache, events, listVars>>
    BY <1>1, <1>4 DEF Types, ConnectRelay, StartBus, Interrupt, lanVars
  <2>2. CASE ConnectRelay(h)
    BY <1>3, <2>1, <2>2 DEF ConnectRelay, Phases
  <2>3. CASE StartBus(h)
    BY <1>3, <2>1, <2>3 DEF StartBus, Phases
  <2>4. CASE Interrupt(h)
    BY <1>3, <2>1, <2>4 DEF Interrupt, Phases
  <2> QED BY <1>4, <2>2, <2>3, <2>4
<1>5. ASSUME StartDiscovery(h) PROVE CoordinatorInv'
  <2>1. service' \in [Hosts -> Rooms \cup {None}] /\ UNCHANGED <<cache, events, listVars>>
    BY <1>1, <1>5 DEF Types, StartDiscovery
  <2>2. Move(h, "discovery", "bus") /\ "discovery" \in Phases /\ "bus" \in Phases
    BY <1>5 DEF StartDiscovery, Phases
  <2> QED BY <1>3, <2>1, <2>2
<1> QED BY <1>2, <1>4, <1>5

LEMMA CloseTypes ==
  ASSUME Types, NEW h \in Hosts, CloseZeroconf(h)
  PROVE  /\ service' \in [Hosts -> Rooms \cup {None}]
         /\ cache' \in [Hosts -> [Hosts -> Rooms \cup {None}]]
         /\ events' \in [Hosts -> Seq([kind : {"added", "removed"}, name : Hosts])]
         /\ asking' \in [Hosts -> Hosts \cup {None}]
         /\ missed' \subseteq Hosts \X Hosts
         /\ \A x \in Hosts : cache'[h][x] = None /\ <<h, x>> \notin missed'
         /\ events'[h] = <<>> /\ asking'[h] = None
         /\ \A p \in Hosts \ {h} :
              /\ cache'[p] = cache[p] /\ events'[p] = events[p] /\ asking'[p] = asking[p]
              /\ \A x \in Hosts : <<p, x>> \in missed' <=> <<p, x>> \in missed
<1>1. [x \in Hosts |-> None] \in [Hosts -> Rooms \cup {None}]
  OBVIOUS
<1>2. cache' \in [Hosts -> [Hosts -> Rooms \cup {None}]]
  BY <1>1 DEF Types, CloseZeroconf
<1>3. events' \in [Hosts -> Seq([kind : {"added", "removed"}, name : Hosts])]
  BY DEF Types, CloseZeroconf
<1>4. missed' \subseteq Hosts \X Hosts /\ \A x \in Hosts : <<h, x>> \notin missed'
  BY DEF Types, CloseZeroconf
<1>5. \A p \in Hosts \ {h} : \A x \in Hosts : <<p, x>> \in missed' <=> <<p, x>> \in missed
  BY DEF CloseZeroconf
<1>6. \A x \in Hosts : cache'[h][x] = None
  BY DEF Types, CloseZeroconf
<1> QED BY <1>2, <1>3, <1>4, <1>5, <1>6 DEF Types, CloseZeroconf

LEMMA StopKeeps ==
  ASSUME CoordinatorInv, NEW h \in Hosts, StopDiscovery(h)
  PROVE  CoordinatorInv'
<1>1. Types /\ Browser(h) /\ CloseZeroconf(h) /\ Move(h, "stopping", "leaving")
      /\ UNCHANGED <<known, peers>>
  BY DEF CoordinatorInv, StopDiscovery
<1>2. Types'
  BY <1>1, CloseTypes DEF Types, Move, Phases
<1>3. phase[h] = "stopping" /\ phase'[h] = "leaving" /\ room'[h] = room[h]
  BY <1>1 DEF Types, Move
<1>4. asking'[h] = None /\ None \notin known'[h]
  <2>1. known'[h] \subseteq Hosts
    BY <1>1 DEF Types
  <2> QED BY <1>1, <2>1, CloseTypes, CoordinatorAssumption DEF None
<1>5. Browser(h)'
  BY <1>1, <1>3, <1>4 DEF Browser, Browsing
<1>6. ASSUME NEW p \in Hosts \ {h} PROVE Same(p)
  <2>1. phase'[p] = phase[p] /\ room'[p] = room[p] /\ known'[p] = known[p] /\ peers'[p] = peers[p]
    BY <1>1 DEF Types, Move
  <2>2. /\ cache'[p] = cache[p] /\ events'[p] = events[p] /\ asking'[p] = asking[p]
        /\ \A x \in Hosts : <<p, x>> \in missed' <=> <<p, x>> \in missed
    BY <1>1, CloseTypes
  <2> QED BY <2>1, <2>2 DEF Same
<1> QED BY <1>2, <1>5, <1>6, Assembled

LEMMA ExitKeeps ==
  ASSUME CoordinatorInv, NEW h \in Hosts, Exit(h)
  PROVE  CoordinatorInv'
<1>1. Types /\ Browser(h) /\ CloseZeroconf(h)
  BY DEF CoordinatorInv, Exit
<1>2. /\ phase' = [phase EXCEPT ![h] = "off"] /\ room' = [room EXCEPT ![h] = None]
      /\ known' = [known EXCEPT ![h] = {}] /\ peers' = [peers EXCEPT ![h] = <<>>]
  BY DEF Exit
<1>3. Types'
  BY <1>1, <1>2, CloseTypes DEF Types, Phases
<1>4. Fresh(h)' /\ phase'[h] = "off"
  BY <1>1, <1>2, CloseTypes DEF Types, Fresh
<1>5. Browser(h)'
  BY <1>4, FreshBrowser
<1>6. ASSUME NEW p \in Hosts \ {h} PROVE Same(p)
  <2>1. phase'[p] = phase[p] /\ room'[p] = room[p] /\ known'[p] = known[p] /\ peers'[p] = peers[p]
    BY <1>1, <1>2 DEF Types
  <2>2. /\ cache'[p] = cache[p] /\ events'[p] = events[p] /\ asking'[p] = asking[p]
        /\ \A x \in Hosts : <<p, x>> \in missed' <=> <<p, x>> \in missed
    BY <1>1, CloseTypes
  <2> QED BY <2>1, <2>2 DEF Same
<1> QED BY <1>3, <1>5, <1>6, Assembled

-----------------------------------------------------------------------------
(* The steps of the LAN. *)

LEMMA ReportKeeps ==
  ASSUME CoordinatorInv, NEW o \in Hosts, NEW h \in Hosts,
         NEW kind \in {"added", "removed"}, NEW r \in Rooms \cup {None},
         Report(o, h, kind, r),
         cache[o][h] # None <=> kind = "removed", r # None <=> kind = "added"
  PROVE  CoordinatorInv'
<1> DEFINE e == [kind |-> kind, name |-> h]
           q == events[o]
<1>1. Types /\ Browser(o) /\ Browsing(o)
  BY DEF CoordinatorInv, Report
<1>2. q \in Seq(Changes) /\ e \in Changes /\ e.name = h /\ e.kind = kind
  BY <1>1 DEF Types, Changes
<1>3. /\ cache' = [cache EXCEPT ![o][h] = r]
      /\ events' = [events EXCEPT ![o] = Append(q, e)]
      /\ UNCHANGED <<phase, room, service, asking, known, peers, missed>>
  BY DEF Report, listVars
<1>4. Types'
  <2>1. Append(q, e) \in Seq(Changes)
    BY <1>2
  <2> HIDE DEF q, e
  <2> QED BY <1>1, <1>3, <2>1 DEF Types, Changes
<1>5. events'[o] = Append(q, e) /\ cache'[o][h] = r
      /\ \A x \in Hosts \ {h} : cache'[o][x] = cache[o][x]
  BY <1>1, <1>3 DEF Types
<1>6. Len(q) \in Nat /\ Len(Append(q, e)) = Len(q) + 1 /\ Append(q, e)[Len(q) + 1] = e
      /\ \A i \in 1 .. Len(q) : Append(q, e)[i] = q[i]
  BY <1>2, AppendPoints
<1> HIDE DEF q, e
<1>7. \A x \in Hosts : Queued(o, x) /\ Listed(o, x)
  BY <1>1 DEF Browser
<1>8. ASSUME NEW x \in Hosts PROVE Queued(o, x)'
  <2>1. PICK up \in SUBSET (1 .. Len(q) + 1) :
          /\ Told(up, q, x)
          /\ Len(q) + 1 \in up <=> cache[o][x] # None
          /\ x \in known[o] \/ asking[o] = x => 1 \in up
    BY <1>7 DEF Queued, q
  <2>2. e.name = x => (Len(q) + 1 \in up <=> e.kind = "removed")
    BY <1>2, <2>1
  <2>3. PICK new \in SUBSET (1 .. Len(Append(q, e)) + 1) :
          /\ Told(new, Append(q, e), x)
          /\ Len(Append(q, e)) + 1 \in new <=>
               IF e.name = x THEN e.kind = "added" ELSE Len(q) + 1 \in up
          /\ 1 \in up <=> 1 \in new
    BY <1>2, <2>1, <2>2, ToldAppend
  <2>4. Len(Append(q, e)) + 1 \in new <=> cache'[o][x] # None
    <3>1. CASE x = h
      BY <1>2, <1>5, <2>3, <3>1
    <3>2. CASE x # h
      BY <1>2, <1>5, <2>1, <2>3, <3>2
    <3> QED BY <3>1, <3>2
  <2>5. x \in known'[o] \/ asking'[o] = x => 1 \in new
    BY <1>3, <2>1, <2>3
  <2> QED BY <1>5, <2>3, <2>4, <2>5 DEF Queued
<1>9. ASSUME NEW x \in Hosts PROVE Listed(o, x)'
  <2>1. CASE x = h
    <3>1. ~Silent(Append(q, e), x, 1)
      BY <1>2, <1>6, <2>1 DEF Silent
    <3> QED BY <1>5, <3>1 DEF Listed
  <2>2. CASE x # h
    <3>1. Silent(Append(q, e), x, 1) => Silent(q, x, 1)
      <4>1. \A j \in 1 .. Len(q) : j \in 1 .. Len(q) + 1
        BY <1>6
      <4> QED BY <1>6, <4>1 DEF Silent
    <3>2. cache'[o][x] = cache[o][x]
      BY <1>5, <2>2
    <3> QED BY <1>3, <1>5, <1>7, <3>1, <3>2 DEF Listed, q
  <2> QED BY <2>1, <2>2
<1>10. Browser(o)'
  <2>1. Browsing(o)' /\ phase'[o] # "leaving"
    BY <1>1, <1>3 DEF Browsing
  <2> QED BY <1>1, <1>3, <1>8, <1>9, <2>1 DEF Browser
<1>11. \A p \in Hosts \ {o} : Same(p)
  BY <1>1, <1>3 DEF Types, Same
<1> QED BY <1>4, <1>10, <1>11, Assembled

LEMMA RefreshKeeps ==
  ASSUME CoordinatorInv, NEW o \in Hosts, NEW h \in Hosts, Refresh(o, h)
  PROVE  CoordinatorInv'
<1>1. Types /\ Browser(o) /\ Browsing(o)
  BY DEF CoordinatorInv, Refresh
<1>2. /\ cache[o][h] # None /\ service[h] # None
      /\ cache' = [cache EXCEPT ![o][h] = service[h]]
      /\ missed' = missed \cup {<<o, h>>}
      /\ UNCHANGED <<phase, room, service, events, asking, known, peers>>
  BY DEF Refresh
<1>3. Types'
  <2>1. service[h] \in Rooms \cup {None}
    BY <1>1 DEF Types
  <2> QED BY <1>1, <1>2, <2>1 DEF Types
<1>4. cache'[o][h] # None /\ \A x \in Hosts \ {h} : cache'[o][x] = cache[o][x]
  BY <1>1, <1>2 DEF Types
<1>5. \A x \in Hosts : cache'[o][x] # None <=> cache[o][x] # None
  BY <1>2, <1>4
<1>6. \A x \in Hosts : Queued(o, x) => Queued(o, x)'
  BY <1>2, <1>5 DEF Queued
<1>7. \A x \in Hosts : Listed(o, x) => Listed(o, x)'
  <2> TAKE x \in Hosts
  <2>1. CASE x = h
    BY <1>2, <2>1 DEF Listed
  <2>2. CASE x # h
    BY <1>2, <1>4, <2>2 DEF Listed
  <2> QED BY <2>1, <2>2
<1>8. Browser(o)'
  <2>1. Browsing(o)'
    BY <1>1, <1>2 DEF Browsing
  <2> QED BY <1>1, <1>2, <1>6, <1>7, <2>1 DEF Browser
<1>9. \A p \in Hosts \ {o} : Same(p)
  BY <1>1, <1>2 DEF Types, Same
<1> QED BY <1>3, <1>8, <1>9, Assembled

LEMMA LanKeeps ==
  ASSUME CoordinatorInv, NEW o \in Hosts, NEW h \in Hosts, Lan(o, h)
  PROVE  CoordinatorInv'
<1>1. service[h] \in Rooms \cup {None} /\ None \in Rooms \cup {None}
  BY DEF CoordinatorInv, Types
<1>2. CASE Discover(o, h)
  BY <1>1, <1>2, ReportKeeps DEF Discover
<1>3. CASE Lapse(o, h)
  BY <1>1, <1>3, ReportKeeps DEF Lapse
<1>4. CASE Refresh(o, h)
  BY <1>4, RefreshKeeps
<1> QED BY <1>2, <1>3, <1>4 DEF Lan

-----------------------------------------------------------------------------
(* The steps of _on_change. *)

\* What the queue says of each host when its head has been taken off.
LEMMA Taken ==
  ASSUME CoordinatorInv, NEW o \in Hosts, NEW kind, NextEvent(o, kind), NEW x \in Hosts
  PROVE  LET q == events[o]
             h == Head(events[o]).name
         IN  /\ \E new \in SUBSET (1 .. Len(Tail(q)) + 1) :
                  /\ Told(new, Tail(q), x)
                  /\ Len(Tail(q)) + 1 \in new <=> cache[o][x] # None
                  /\ x = h => (1 \in new <=> kind = "added")
                  /\ x # h /\ x \in known[o] => 1 \in new
             /\ h \in Hosts /\ Tail(q) \in Seq(Changes)
             /\ x = h /\ kind = "added" => x \notin known[o]
             /\ x # h => (Silent(Tail(q), x, 1) => Silent(q, x, 1))
             /\ x = h /\ kind = "removed" => (Silent(Tail(q), x, 1) => cache[o][x] = None)
<1> DEFINE q == events[o]
           h == Head(events[o]).name
<1>1. Types /\ Browser(o) /\ Browsing(o) /\ asking[o] = None /\ q # <<>> /\ Head(q).kind = kind
  BY DEF CoordinatorInv, NextEvent
<1>2. q \in Seq(Changes)
  BY <1>1 DEF Types, Changes
<1> HIDE DEF q
<1>3. /\ Len(q) \in Nat \ {0} /\ Tail(q) \in Seq(Changes) /\ Len(Tail(q)) = Len(q) - 1
      /\ \A i \in 1 .. Len(q) - 1 : Tail(q)[i] = q[i + 1]
      /\ Head(q) = q[1] /\ Head(q) \in Changes
  BY <1>1, <1>2, TailPoints
<1>4. h = Head(q).name /\ h \in Hosts /\ kind \in {"added", "removed"}
  BY <1>1, <1>3 DEF Changes, q
<1> HIDE DEF h
<1>5. PICK up \in SUBSET (1 .. Len(q) + 1) :
        /\ Told(up, q, x)
        /\ Len(q) + 1 \in up <=> cache[o][x] # None
        /\ x \in known[o] \/ asking[o] = x => 1 \in up
  BY <1>1 DEF Browser, Queued, q
<1>6. PICK new \in SUBSET (1 .. Len(Tail(q)) + 1) :
        /\ Told(new, Tail(q), x)
        /\ Len(Tail(q)) + 1 \in new <=> Len(q) + 1 \in up
        /\ 1 \in new <=> IF Head(q).name = x THEN Head(q).kind = "added" ELSE 1 \in up
        /\ Head(q).name = x => (1 \in up <=> Head(q).kind = "removed")
  BY <1>1, <1>2, <1>5, ToldTail
<1>7. x = h => (1 \in new <=> kind = "added")
  BY <1>1, <1>4, <1>6
<1>8. x # h /\ x \in known[o] => 1 \in new
  BY <1>4, <1>5, <1>6
<1>9. x = h /\ kind = "added" => x \notin known[o]
  BY <1>1, <1>4, <1>5, <1>6
<1>10. ASSUME x # h, Silent(Tail(q), x, 1) PROVE Silent(q, x, 1)
  <2> SUFFICES ASSUME NEW j \in 1 .. Len(q) PROVE q[j].name # x
    BY DEF Silent
  <2>1. CASE j = 1
    BY <1>3, <1>4, <1>10, <2>1
  <2>2. CASE j # 1
    <3>1. j - 1 \in 1 .. Len(q) - 1 /\ (j - 1) + 1 = j
      BY <1>3, <2>2
    <3>2. Tail(q)[j - 1] = q[j] /\ Tail(q)[j - 1].name # x
      BY <1>3, <1>10, <3>1 DEF Silent
    <3> QED BY <3>2
  <2> QED BY <2>1, <2>2
<1>11. ASSUME x = h, kind = "removed", Silent(Tail(q), x, 1) PROVE cache[o][x] = None
  <2>1. 1 \in 1 .. Len(Tail(q)) + 1
    BY <1>3
  <2>2. 1 \in new <=> Len(Tail(q)) + 1 \in new
    BY <1>6, <1>11, <2>1 DEF Told
  <2>3. ~(1 \in new)
    BY <1>7, <1>11
  <2> QED BY <1>5, <1>6, <2>2, <2>3
<1> QED
  <2>1. \E u \in SUBSET (1 .. Len(Tail(q)) + 1) :
          /\ Told(u, Tail(q), x)
          /\ Len(Tail(q)) + 1 \in u <=> cache[o][x] # None
          /\ x = h => (1 \in u <=> kind = "added")
          /\ x # h /\ x \in known[o] => 1 \in u
    BY <1>5, <1>6, <1>7, <1>8
  <2> QED BY <1>3, <1>4, <1>9, <1>10, <1>11, <2>1 DEF q, h

LEMMA AskKeeps ==
  ASSUME CoordinatorInv, NEW o \in Hosts, Ask(o)
  PROVE  CoordinatorInv'
<1> DEFINE h == Head(events[o]).name
<1>1. Types /\ Browser(o) /\ Browsing(o) /\ NextEvent(o, "added") /\ asking[o] = None
  BY DEF CoordinatorInv, Ask, NextEvent
<1>2. /\ asking' = [asking EXCEPT ![o] = h]
      /\ events' = [events EXCEPT ![o] = Tail(events[o])]
      /\ UNCHANGED <<phase, room, service, cache, known, peers, missed>>
  BY DEF Ask
<1>3. /\ \A x \in Hosts :
           /\ \E new \in SUBSET (1 .. Len(Tail(events[o])) + 1) :
                /\ Told(new, Tail(events[o]), x)
                /\ Len(Tail(events[o])) + 1 \in new <=> cache[o][x] # None
                /\ x = h => (1 \in new <=> "added" = "added")
                /\ x # h /\ x \in known[o] => 1 \in new
           /\ x = h => x \notin known[o]
           /\ x # h => (Silent(Tail(events[o]), x, 1) => Silent(events[o], x, 1))
      /\ h \in Hosts /\ Tail(events[o]) \in Seq(Changes)
  <2>1. \A x \in Hosts :
           /\ \E new \in SUBSET (1 .. Len(Tail(events[o])) + 1) :
                /\ Told(new, Tail(events[o]), x)
                /\ Len(Tail(events[o])) + 1 \in new <=> cache[o][x] # None
                /\ x = h => (1 \in new <=> "added" = "added")
                /\ x # h /\ x \in known[o] => 1 \in new
           /\ x = h => x \notin known[o]
           /\ x # h => (Silent(Tail(events[o]), x, 1) => Silent(events[o], x, 1))
    BY <1>1, Taken
  <2>2. h \in Hosts /\ Tail(events[o]) \in Seq(Changes)
    BY <1>1, Taken
  <2> QED BY <2>1, <2>2
<1>4. asking'[o] = h /\ events'[o] = Tail(events[o])
  BY <1>1, <1>2 DEF Types
<1> HIDE DEF h
<1>5. Types'
  BY <1>1, <1>2, <1>3 DEF Types, Changes
<1>6. None \notin Hosts
  BY CoordinatorAssumption DEF None
<1>7. ASSUME NEW x \in Hosts PROVE Queued(o, x)'
  <2>1. PICK new \in SUBSET (1 .. Len(Tail(events[o])) + 1) :
          /\ Told(new, Tail(events[o]), x)
          /\ Len(Tail(events[o])) + 1 \in new <=> cache[o][x] # None
          /\ x = h => 1 \in new
          /\ x # h /\ x \in known[o] => 1 \in new
    BY <1>3
  <2>2. x \in known'[o] \/ asking'[o] = x => 1 \in new
    BY <1>2, <1>3, <1>4, <2>1
  <2> QED BY <1>2, <1>4, <2>1, <2>2 DEF Queued
<1>8. ASSUME NEW x \in Hosts PROVE Listed(o, x)'
  <2>1. Listed(o, x)
    BY <1>1 DEF Browser
  <2>2. asking[o] # x
    BY <1>1, <1>6
  <2>3. CASE x = h
    BY <1>4, <2>3 DEF Listed
  <2>4. CASE x # h
    BY <1>2, <1>3, <1>4, <2>1, <2>2, <2>4 DEF Listed
  <2> QED BY <2>3, <2>4
<1>9. Browser(o)'
  <2>1. Browsing(o)'
    BY <1>1, <1>2 DEF Browsing
  <2>2. asking'[o] \notin known'[o]
    BY <1>2, <1>3, <1>4
  <2> QED BY <1>1, <1>2, <1>7, <1>8, <2>1, <2>2 DEF Browser
<1>10. \A p \in Hosts \ {o} : Same(p)
  BY <1>1, <1>2 DEF Types, Same
<1> QED BY <1>5, <1>9, <1>10, Assembled

LEMMA DropKeeps ==
  ASSUME CoordinatorInv, NEW o \in Hosts, Drop(o)
  PROVE  CoordinatorInv'
<1> DEFINE h == Head(events[o]).name
<1>1. Types /\ Browser(o) /\ Browsing(o) /\ NextEvent(o, "removed") /\ asking[o] = None
  BY DEF CoordinatorInv, Drop, NextEvent
<1>2. /\ events' = [events EXCEPT ![o] = Tail(events[o])]
      /\ known' = [known EXCEPT ![o] = known[o] \ {h}]
      /\ peers' = IF h \in known[o] THEN [peers EXCEPT ![o] = Without(peers[o], h)] ELSE peers
      /\ UNCHANGED <<phase, room, service, cache, asking, missed>>
  BY DEF Drop
<1>3. \A x \in Hosts :
        /\ \E new \in SUBSET (1 .. Len(Tail(events[o])) + 1) :
             /\ Told(new, Tail(events[o]), x)
             /\ Len(Tail(events[o])) + 1 \in new <=> cache[o][x] # None
             /\ x # h /\ x \in known[o] => 1 \in new
        /\ x # h => (Silent(Tail(events[o]), x, 1) => Silent(events[o], x, 1))
        /\ x = h => (Silent(Tail(events[o]), x, 1) => cache[o][x] = None)
  BY <1>1, Taken
<1>4. h \in Hosts /\ Tail(events[o]) \in Seq(Changes)
  BY <1>1, Taken
<1> HIDE DEF h
<1>5. peers[o] \in Seq(Hosts) /\ known[o] \in SUBSET Hosts /\ Lists(peers[o], known[o])
  BY <1>1 DEF Types, Browser
<1>6. Without(peers[o], h) \in Seq(Hosts) /\ Lists(Without(peers[o], h), known[o] \ {h})
  BY <1>5, WithoutLists
<1>7. Types'
  <2>1. peers' \in [Hosts -> Seq(Hosts)]
    BY <1>1, <1>2, <1>6 DEF Types
  <2>2. known' \in [Hosts -> SUBSET Hosts]
    BY <1>1, <1>2 DEF Types
  <2> QED BY <1>1, <1>2, <1>4, <2>1, <2>2 DEF Types, Changes
<1>8. events'[o] = Tail(events[o]) /\ known'[o] = known[o] \ {h}
  BY <1>1, <1>2 DEF Types
<1>9. Lists(peers'[o], known'[o])
  <2>1. CASE h \in known[o]
    BY <1>1, <1>2, <1>6, <1>8, <2>1 DEF Types
  <2>2. CASE h \notin known[o]
    <3>1. known[o] \ {h} = known[o]
      BY <2>2
    <3> QED BY <1>2, <1>5, <1>8, <2>2, <3>1
  <2> QED BY <2>1, <2>2
<1>10. None \notin Hosts /\ None \notin Rooms /\ room[o] \in Rooms
  BY <1>1, CoordinatorAssumption DEF None, Browser, Browsing
<1>11. ASSUME NEW x \in Hosts PROVE Queued(o, x)'
  <2>1. PICK new \in SUBSET (1 .. Len(Tail(events[o])) + 1) :
          /\ Told(new, Tail(events[o]), x)
          /\ Len(Tail(events[o])) + 1 \in new <=> cache[o][x] # None
          /\ x # h /\ x \in known[o] => 1 \in new
    BY <1>3
  <2>2. x \in known'[o] \/ asking'[o] = x => 1 \in new
    BY <1>1, <1>2, <1>8, <1>10, <2>1
  <2> QED BY <1>2, <1>8, <2>1, <2>2 DEF Queued
<1>12. ASSUME NEW x \in Hosts PROVE Listed(o, x)'
  <2>1. Listed(o, x) /\ asking[o] # x
    BY <1>1, <1>10 DEF Browser
  <2>2. CASE x = h
    <3>1. x \notin known'[o]
      BY <1>8, <2>2
    <3>2. Silent(Tail(events[o]), x, 1) => cache'[o][x] # room'[o]
      BY <1>2, <1>3, <1>10, <2>2
    <3> QED BY <1>8, <3>1, <3>2 DEF Listed
  <2>3. CASE x # h
    <3>1. x \in known'[o] <=> x \in known[o]
      BY <1>8, <2>3
    <3> QED BY <1>2, <1>3, <1>8, <2>1, <2>3, <3>1 DEF Listed
  <2> QED BY <2>2, <2>3
<1>13. Browser(o)'
  <2>1. Browsing(o)'
    BY <1>1, <1>2 DEF Browsing
  <2>2. asking'[o] \notin known'[o]
    BY <1>1, <1>2, <1>8 DEF Browser
  <2> QED BY <1>1, <1>2, <1>9, <1>11, <1>12, <2>1, <2>2 DEF Browser
<1>14. \A p \in Hosts \ {o} : Same(p)
  BY <1>1, <1>2 DEF Types, Same
<1> QED BY <1>7, <1>13, <1>14, Assembled

LEMMA AskFailsKeeps ==
  ASSUME CoordinatorInv, NEW o \in Hosts, AskFails(o)
  PROVE  CoordinatorInv'
<1> DEFINE h == asking[o]
<1>1. Types /\ Browser(o) /\ Browsing(o) /\ h # None
  BY DEF CoordinatorInv, AskFails
<1>2. /\ asking' = [asking EXCEPT ![o] = None]
      /\ missed' = missed \cup {<<o, h>>}
      /\ UNCHANGED <<phase, room, service, cache, events, known, peers>>
  BY DEF AskFails, lanVars
<1>3. h \in Hosts /\ asking'[o] = None
  BY <1>1, <1>2 DEF Types
<1> HIDE DEF h
<1>4. Types'
  BY <1>1, <1>2, <1>3 DEF Types
<1>5. None \notin Hosts /\ None \notin known[o]
  BY <1>1, CoordinatorAssumption DEF None, Types
<1>6. ASSUME NEW x \in Hosts PROVE Queued(o, x)'
  <2>1. Queued(o, x)
    BY <1>1 DEF Browser
  <2>2. asking'[o] # x
    BY <1>3, <1>5
  <2> QED BY <1>2, <2>1, <2>2 DEF Queued
<1>7. ASSUME NEW x \in Hosts PROVE Listed(o, x)'
  <2>1. Listed(o, x)
    BY <1>1 DEF Browser
  <2>2. CASE x = h
    BY <1>2, <2>2 DEF Listed
  <2>3. CASE x # h
    BY <1>2, <2>1, <2>3 DEF Listed, h
  <2> QED BY <2>2, <2>3
<1>8. Browser(o)'
  <2>1. Browsing(o)'
    BY <1>1, <1>2 DEF Browsing
  <2> QED BY <1>1, <1>2, <1>3, <1>5, <1>6, <1>7, <2>1 DEF Browser
<1>9. \A p \in Hosts \ {o} : Same(p)
  BY <1>1, <1>2 DEF Types, Same
<1> QED BY <1>4, <1>8, <1>9, Assembled

LEMMA LearnKeeps ==
  ASSUME CoordinatorInv, NEW o \in Hosts, NEW r \in Rooms, Learn(o, r)
  PROVE  CoordinatorInv'
<1> DEFINE h == asking[o]
<1>1. Types /\ Browser(o) /\ Browsing(o) /\ h # None
  BY DEF CoordinatorInv, Learn
<1>2. /\ IF r = room[o]
         THEN /\ known' = [known EXCEPT ![o] = known[o] \cup {h}]
              /\ peers' = [peers EXCEPT ![o] = Append(peers[o], h)]
         ELSE UNCHANGED <<known, peers>>
      /\ missed' = IF r = cache[o][h] THEN missed \ {<<o, h>>} ELSE missed \cup {<<o, h>>}
      /\ asking' = [asking EXCEPT ![o] = None]
      /\ UNCHANGED <<phase, room, service, cache, events>>
  BY DEF Learn, lanVars
<1>3. h \in Hosts /\ h \notin known[o] /\ asking'[o] = None /\ known[o] \in SUBSET Hosts
      /\ peers[o] \in Seq(Hosts) /\ Lists(peers[o], known[o])
  BY <1>1, <1>2 DEF Types, Browser
<1> HIDE DEF h
<1>4. Append(peers[o], h) \in Seq(Hosts) /\ Lists(Append(peers[o], h), known[o] \cup {h})
  BY <1>3, AppendLists
<1>5. /\ known' \in [Hosts -> SUBSET Hosts] /\ peers' \in [Hosts -> Seq(Hosts)]
      /\ Lists(peers'[o], known'[o])
      /\ known'[o] = IF r = room[o] THEN known[o] \cup {h} ELSE known[o]
      /\ \A p \in Hosts \ {o} : known'[p] = known[p] /\ peers'[p] = peers[p]
  <2>1. CASE r = room[o]
    <3>1. /\ known' = [known EXCEPT ![o] = known[o] \cup {h}]
          /\ peers' = [peers EXCEPT ![o] = Append(peers[o], h)]
      BY <1>2, <2>1
    <3>2. known[o] \cup {h} \in SUBSET Hosts
      BY <1>3
    <3> QED BY <1>1, <1>4, <2>1, <3>1, <3>2 DEF Types
  <2>2. CASE r # room[o]
    BY <1>1, <1>2, <1>3, <2>2 DEF Types
  <2> QED BY <2>1, <2>2
<1>6. Types'
  <2>1. missed' \subseteq Hosts \X Hosts
    BY <1>1, <1>2, <1>3 DEF Types
  <2> QED BY <1>1, <1>2, <1>5, <2>1 DEF Types
<1>7. None \notin Hosts /\ asking'[o] \notin known'[o]
  BY <1>3, <1>5, CoordinatorAssumption DEF None
<1>8. ASSUME NEW x \in Hosts PROVE Queued(o, x)'
  <2>1. Queued(o, x)
    BY <1>1 DEF Browser
  <2>2. x \in known'[o] \/ asking'[o] = x => x \in known[o] \/ asking[o] = x
    BY <1>3, <1>5, <1>7 DEF h
  <2> QED BY <1>2, <2>1, <2>2 DEF Queued
<1>9. ASSUME NEW x \in Hosts PROVE Listed(o, x)'
  <2>1. Listed(o, x)
    BY <1>1 DEF Browser
  <2>2. CASE x = h
    <3>1. CASE r = cache[o][h]
      <4>1. x \in known'[o] <=> cache'[o][x] = room'[o]
        BY <1>2, <1>3, <1>5, <2>2, <3>1
      <4> QED BY <4>1 DEF Listed
    <3>2. CASE r # cache[o][h]
      BY <1>2, <2>2, <3>2 DEF Listed
    <3> QED BY <3>1, <3>2
  <2>3. CASE x # h
    <3>1. x \in known'[o] <=> x \in known[o]
      BY <1>5, <2>3
    <3>2. <<o, x>> \in missed' <=> <<o, x>> \in missed
      BY <1>2, <2>3
    <3> QED BY <1>2, <2>1, <2>3, <3>1, <3>2 DEF Listed, h
  <2> QED BY <2>2, <2>3
<1>10. Browser(o)'
  <2>1. Browsing(o)'
    BY <1>1, <1>2 DEF Browsing
  <2> QED BY <1>1, <1>2, <1>5, <1>7, <1>8, <1>9, <2>1 DEF Browser
<1>11. \A p \in Hosts \ {o} : Same(p)
  BY <1>1, <1>2, <1>5 DEF Types, Same
<1> QED BY <1>6, <1>10, <1>11, Assembled

-----------------------------------------------------------------------------
LEMMA CoordinatorInit == Init => CoordinatorInv
<1> SUFFICES ASSUME Init PROVE CoordinatorInv
  OBVIOUS
<1>1. Types
  BY DEF Init, Types, Phases
<1>2. ASSUME NEW o \in Hosts PROVE Browser(o)
  <2>1. phase[o] = "off" /\ Fresh(o)
    BY <1>2 DEF Init, Fresh
  <2>2. asking[o] \notin known[o] /\ Lists(peers[o], known[o])
    BY <2>1 DEF Fresh, Lists
  <2> QED BY <2>1, <2>2 DEF Browser, Browsing
<1> QED BY <1>1, <1>2 DEF CoordinatorInv

LEMMA CoordinatorNext == CoordinatorInv /\ [Next]_vars => CoordinatorInv'
<1> SUFFICES ASSUME CoordinatorInv, [Next]_vars PROVE CoordinatorInv'
  OBVIOUS
<1>1. CASE UNCHANGED vars
  <2>1. Types' /\ \A p \in Hosts : Same(p)
    BY <1>1 DEF vars, lanVars, listVars, CoordinatorInv, Types, Same
  <2> QED BY <2>1, SameBrowser DEF CoordinatorInv
<1>2. ASSUME NEW o \in Hosts, Run(o) PROVE CoordinatorInv'
  BY <1>2, RunKeeps, StopKeeps, ExitKeeps DEF Run
<1>3. ASSUME NEW o \in Hosts, OnChange(o) PROVE CoordinatorInv'
  BY <1>3, AskKeeps, LearnKeeps, AskFailsKeeps, DropKeeps DEF OnChange
<1>4. ASSUME NEW o \in Hosts, NEW h \in Hosts, Lan(o, h) PROVE CoordinatorInv'
  BY <1>4, LanKeeps
<1> QED BY <1>1, <1>2, <1>3, <1>4 DEF Next

\* The invariant holds in every state that coordinators, browsers and the LAN
\* can reach (coordinator.py:27-80, discovery.py:46-112).
THEOREM CoordinatorCorrect == Spec => []CoordinatorInv
<1> QED BY CoordinatorInit, CoordinatorNext, PTL DEF Spec

\* The state has its types, and the coordinator's list is never longer than the
\* hosts there are (coordinator.py:32-39).
THEOREM CoordinatorTypes == Spec => []TypeOK
<1>1. CoordinatorInv => TypeOK
  <2> SUFFICES ASSUME CoordinatorInv PROVE TypeOK
    OBVIOUS
  <2>1. Types /\ \A o \in Hosts : Lists(peers[o], known[o])
    BY DEF CoordinatorInv, Browser
  <2>2. \A o \in Hosts : Len(peers[o]) <= Cardinality(Hosts)
    BY <2>1, ListsLength DEF Types
  <2> QED BY <2>1, <2>2 DEF Types, TypeOK
<1> QED BY <1>1, CoordinatorCorrect, PTL

\* The coordinator's list (coordinator.py:32-39) and discovery's dictionary
\* hold the same peers, each once, with any number of hosts and events.
THEOREM ListsAlwaysAgree == Spec => []ListsAgree
<1>1. CoordinatorInv => ListsAgree
  <2> SUFFICES ASSUME CoordinatorInv, NEW o \in Hosts
               PROVE  ToSet(peers[o]) = known[o] /\ Len(peers[o]) = Cardinality(known[o])
    BY DEF ListsAgree
  <2>1. peers[o] \in Seq(Hosts) /\ known[o] \in SUBSET Hosts /\ Lists(peers[o], known[o])
    BY DEF CoordinatorInv, Types, Browser
  <2>2. ToSet(peers[o]) = known[o]
    <3>1. ToSet(peers[o]) = {peers[o][i] : i \in 1 .. Len(peers[o])}
      BY <2>1 DEF ToSet
    <3> QED BY <2>1, <3>1 DEF Lists
  <2>3. Len(peers[o]) = Cardinality(known[o])
    BY <2>1, ListsLength
  <2> QED BY <2>2, <2>3
<1> QED BY <1>1, CoordinatorCorrect, PTL

\* With nothing left to report, a host is listed exactly when its record names
\* my room, but where a lookup was missed (discovery.py:77-112).
THEOREM RecordsAlwaysListed == Spec => []RecordsListed
<1>1. CoordinatorInv => RecordsListed
  <2> SUFFICES ASSUME CoordinatorInv, NEW o \in Hosts, NEW h \in Hosts,
                      Browsing(o), events[o] = <<>>, asking[o] = None, <<o, h>> \notin missed
               PROVE  h \in known[o] <=> cache[o][h] = room[o]
    BY DEF RecordsListed
  <2>1. Listed(o, h)
    BY DEF CoordinatorInv, Browser
  <2>2. Silent(events[o], h, 1) /\ asking[o] # h
    BY CoordinatorAssumption DEF Silent, None
  <2> QED BY <2>1, <2>2 DEF Listed
<1> QED BY <1>1, CoordinatorCorrect, PTL
=============================================================================
