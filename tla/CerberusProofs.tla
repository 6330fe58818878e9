---------------------------- MODULE CerberusProofs ----------------------------
(***************************************************************************)
(* Proofs about CerberusPfr, for any number of slots, manifests, keys and   *)
(* capsules: floors hold, a key that was cancelled stays out, and the host  *)
(* is not held while there is an image that could help.                     *)
(***************************************************************************)
EXTENDS CerberusSafety, SequenceTheorems, FiniteSetTheorems, WellFoundedInduction, TLAPS

-----------------------------------------------------------------------------
(* Queues of operations.                                                   *)

Queue(q) == q \in Seq({q[i] : i \in DOMAIN q})

LEMMA QueueParts ==
  ASSUME NEW q, Queue(q)
  PROVE  Len(q) \in Nat /\ DOMAIN q = 1..Len(q)
  BY LenProperties DEF Queue

\* A queue whose positions are known.
LEMMA QueueOf ==
  ASSUME NEW T, NEW q \in Seq(T)
  PROVE  Queue(q)
  <1>1. Len(q) \in Nat /\ DOMAIN q = 1..Len(q) /\ q \in [1..Len(q) -> T]
    BY LenProperties
  <1> DEFINE R == {q[i] : i \in DOMAIN q}
  <1>2. q \in [1..Len(q) -> R]
    BY <1>1
  <1> HIDE DEF R
  <1>3. q \in Seq(R)
    BY <1>1, <1>2
  <1> QED
    BY <1>3 DEF Queue, R

LEMMA QueueShort ==
  /\ Queue(<<>>) /\ DOMAIN <<>> = {}
  /\ \A a : Queue(<<a>>) /\ DOMAIN <<a>> = {1} /\ <<a>>[1] = a
  /\ \A a, b : /\ Queue(<<a, b>>) /\ DOMAIN <<a, b>> = {1, 2}
               /\ <<a, b>>[1] = a /\ <<a, b>>[2] = b
  /\ \A a, b, c : /\ Queue(<<a, b, c>>) /\ DOMAIN <<a, b, c>> = {1, 2, 3}
                  /\ <<a, b, c>>[1] = a /\ <<a, b, c>>[2] = b /\ <<a, b, c>>[3] = c
  /\ \A a, b, c, d, e :
       /\ Queue(<<a, b, c, d, e>>) /\ DOMAIN <<a, b, c, d, e>> = {1, 2, 3, 4, 5}
       /\ <<a, b, c, d, e>>[1] = a /\ <<a, b, c, d, e>>[2] = b /\ <<a, b, c, d, e>>[3] = c
       /\ <<a, b, c, d, e>>[4] = d /\ <<a, b, c, d, e>>[5] = e
  <1>1. Queue(<<>>) /\ DOMAIN <<>> = {}
    <2>1. <<>> \in Seq({}) /\ Len(<<>>) = 0
      OBVIOUS
    <2>2. DOMAIN <<>> = {}
      BY <2>1, LenProperties
    <2> QED
      BY <2>1, <2>2, QueueOf
  <1>2. ASSUME NEW a PROVE Queue(<<a>>) /\ DOMAIN <<a>> = {1} /\ <<a>>[1] = a
    <2>1. <<a>> \in Seq({a}) /\ Len(<<a>>) = 1 /\ <<a>>[1] = a
      OBVIOUS
    <2>2. DOMAIN <<a>> = {1}
      BY <2>1, LenProperties
    <2> QED
      BY <2>1, <2>2, QueueOf
  <1>3. ASSUME NEW a, NEW b
        PROVE  /\ Queue(<<a, b>>) /\ DOMAIN <<a, b>> = {1, 2}
               /\ <<a, b>>[1] = a /\ <<a, b>>[2] = b
    <2>1. <<a, b>> \in Seq({a, b}) /\ Len(<<a, b>>) = 2
      OBVIOUS
    <2>2. DOMAIN <<a, b>> = {1, 2}
      BY <2>1, LenProperties
    <2> QED
      BY <2>1, <2>2, QueueOf
  <1>4. ASSUME NEW a, NEW b, NEW c
        PROVE  /\ Queue(<<a, b, c>>) /\ DOMAIN <<a, b, c>> = {1, 2, 3}
               /\ <<a, b, c>>[1] = a /\ <<a, b, c>>[2] = b /\ <<a, b, c>>[3] = c
    <2>1. <<a, b, c>> \in Seq({a, b, c}) /\ Len(<<a, b, c>>) = 3
      OBVIOUS
    <2>2. DOMAIN <<a, b, c>> = {1, 2, 3}
      BY <2>1, LenProperties
    <2> QED
      BY <2>1, <2>2, QueueOf
  <1>5. ASSUME NEW a, NEW b, NEW c, NEW d, NEW e
        PROVE  /\ Queue(<<a, b, c, d, e>>) /\ DOMAIN <<a, b, c, d, e>> = {1, 2, 3, 4, 5}
               /\ <<a, b, c, d, e>>[1] = a /\ <<a, b, c, d, e>>[2] = b /\ <<a, b, c, d, e>>[3] = c
               /\ <<a, b, c, d, e>>[4] = d /\ <<a, b, c, d, e>>[5] = e
    <2>1. <<a, b, c, d, e>> \in Seq({a, b, c, d, e}) /\ Len(<<a, b, c, d, e>>) = 5
      OBVIOUS
    <2>2. DOMAIN <<a, b, c, d, e>> = {1, 2, 3, 4, 5}
      BY <2>1, LenProperties
    <2> QED
      BY <2>1, <2>2, QueueOf
  <1> QED
    BY <1>1, <1>2, <1>3, <1>4, <1>5

LEMMA QueueTail ==
  ASSUME NEW q, Queue(q), q # <<>>
  PROVE  /\ Queue(Tail(q)) /\ 1 \in DOMAIN q /\ Head(q) = q[1]
         /\ \A i \in DOMAIN Tail(q) : i \in Nat /\ i >= 1 /\ i + 1 \in DOMAIN q /\ Tail(q)[i] = q[i + 1]
         /\ \A i \in DOMAIN q : i \in Nat /\ (i = 1 \/ (i - 1 \in DOMAIN Tail(q) /\ Tail(q)[i - 1] = q[i]))
  <1> DEFINE R == {q[i] : i \in DOMAIN q}
  <1>1. q \in Seq(R)
    BY DEF Queue
  <1> HIDE DEF R
  <1>2. /\ Tail(q) \in Seq(R) /\ Len(Tail(q)) = Len(q) - 1
        /\ \A i \in 1..Len(Tail(q)) : Tail(q)[i] = q[i + 1]
    BY <1>1, HeadTailProperties
  <1>3. Len(q) \in Nat /\ DOMAIN q = 1..Len(q) /\ DOMAIN Tail(q) = 1..Len(Tail(q))
    BY <1>1, <1>2, LenProperties
  <1>4. Len(q) # 0
    BY <1>1, EmptySeq
  <1>5. Head(q) = q[1]
    BY <1>1
  <1>6. Queue(Tail(q))
    BY <1>2, QueueOf
  <1> QED
    BY <1>2, <1>3, <1>4, <1>5, <1>6

\* A queue that is made of two.
Joined(p, q, r) ==
  /\ Queue(r) /\ Len(p) \in Nat /\ DOMAIN p = 1..Len(p)
  /\ \A i \in DOMAIN p : i \in DOMAIN r /\ r[i] = p[i]
  /\ \A i \in DOMAIN q : Len(p) + i \in DOMAIN r /\ r[Len(p) + i] = q[i]
  /\ \A i \in DOMAIN r : i \in Nat /\ (i \in DOMAIN p \/ (i > Len(p) /\ i - Len(p) \in DOMAIN q))

LEMMA QueueConcat ==
  ASSUME NEW p, NEW q, Queue(p), Queue(q)
  PROVE  Joined(p, q, p \o q)
  <1> DEFINE T == {p[i] : i \in DOMAIN p} \cup {q[i] : i \in DOMAIN q}
  <1>1. Len(p) \in Nat /\ DOMAIN p = 1..Len(p) /\ Len(q) \in Nat /\ DOMAIN q = 1..Len(q)
    BY QueueParts
  <1>2. p \in [1..Len(p) -> T] /\ q \in [1..Len(q) -> T]
    <2>1. p \in [1..Len(p) -> {p[i] : i \in DOMAIN p}] /\ q \in [1..Len(q) -> {q[i] : i \in DOMAIN q}]
      BY LenProperties DEF Queue
    <2> QED
      BY <2>1
  <1> HIDE DEF T
  <1>3. p \in Seq(T) /\ q \in Seq(T)
    BY <1>1, <1>2
  <1>4. /\ p \o q \in Seq(T) /\ Len(p \o q) = Len(p) + Len(q)
        /\ \A i \in 1 .. Len(p) + Len(q) : (p \o q)[i] = IF i <= Len(p) THEN p[i] ELSE q[i - Len(p)]
    BY <1>3, ConcatProperties
  <1>5. DOMAIN (p \o q) = 1 .. Len(p) + Len(q)
    BY <1>4, LenProperties
  <1>6. Queue(p \o q)
    BY <1>4, QueueOf
  <1> DEFINE r == p \o q
  <1> HIDE DEF r
  <1>7. /\ DOMAIN r = 1 .. Len(p) + Len(q)
        /\ \A i \in 1 .. Len(p) + Len(q) : r[i] = IF i <= Len(p) THEN p[i] ELSE q[i - Len(p)]
    BY <1>4, <1>5 DEF r
  <1>8. \A i \in DOMAIN p : i \in DOMAIN r /\ r[i] = p[i]
    BY <1>1, <1>7
  <1>9. \A i \in DOMAIN q : Len(p) + i \in DOMAIN r /\ r[Len(p) + i] = q[i]
    BY <1>1, <1>7
  <1>10. \A i \in DOMAIN r : i \in Nat /\ (i \in DOMAIN p \/ (i > Len(p) /\ i - Len(p) \in DOMAIN q))
    BY <1>1, <1>7
  <1> QED
    BY <1>1, <1>6, <1>8, <1>9, <1>10 DEF r, Joined

-----------------------------------------------------------------------------
(* Sets in an order.                                                       *)

Ordered(S, before) ==
  /\ \A x, y \in S : x # y => <<x, y>> \in before \/ <<y, x>> \in before
  /\ \A x \in S : <<x, x>> \notin before
  /\ \A x, y, z \in S : <<x, y>> \in before /\ <<y, z>> \in before => <<x, z>> \in before

\* Ranks in a finite ordered set take every value, so an element of each rank
\* can be chosen.
LEMMA InOrderType ==
  ASSUME NEW S, NEW before, IsFiniteSet(S), Ordered(S, before)
  PROVE  /\ Cardinality(S) \in Nat
         /\ InOrder(S, before) \in [1..Cardinality(S) -> S]
         /\ \A x \in S : \E n \in 1..Cardinality(S) : InOrder(S, before)[n] = x
  <1> DEFINE N == Cardinality(S)
             Below(x) == {y \in S : <<y, x>> \in before}
             Rank == [x \in S |-> Cardinality(Below(x))]
  <1>1. N \in Nat
    BY FS_CardinalityType
  <1>2. ASSUME NEW x \in S
        PROVE  IsFiniteSet(Below(x)) /\ Cardinality(Below(x)) \in 0..N - 1
    <2>1. Below(x) \in SUBSET S /\ x \in S /\ x \notin Below(x)
      BY DEF Ordered
    <2>2. IsFiniteSet(Below(x)) /\ Cardinality(Below(x)) <= N /\ Cardinality(Below(x)) # N
      BY <2>1, FS_Subset
    <2>3. Cardinality(Below(x)) \in Nat
      BY <2>2, FS_CardinalityType
    <2> QED
      BY <1>1, <2>2, <2>3
  <1>3. ASSUME NEW x \in S, NEW y \in S, <<x, y>> \in before
        PROVE  Cardinality(Below(x)) # Cardinality(Below(y))
    <2>1. Below(x) \in SUBSET Below(y) /\ x \in Below(y) /\ x \notin Below(x)
      BY <1>3 DEF Ordered
    <2>2. Below(x) # Below(y)
      BY <2>1
    <2> QED
      BY <1>2, <2>1, <2>2, FS_Subset
  <1>4. Rank \in Injection(S, 0..N - 1)
    <2>1. Rank \in [S -> 0..N - 1]
      BY <1>2
    <2>2. ASSUME NEW x \in S, NEW y \in S, x # y PROVE Rank[x] # Rank[y]
      <3>1. <<x, y>> \in before \/ <<y, x>> \in before
        BY <2>2 DEF Ordered
      <3>2. Cardinality(Below(x)) # Cardinality(Below(y))
        BY <1>3, <3>1
      <3> QED
        BY <3>2
    <2> QED
      BY <2>1, <2>2 DEF Injection, IsInjective
  <1>5. IsFiniteSet(0..N - 1) /\ Cardinality(0..N - 1) = N
    <2> HIDE DEF N
    <2> DEFINE n == N - 1
    <2>1. 0 \in Int /\ n \in Int /\ ~(0 > n /\ n # 0 - 1) /\ n - 0 + 1 = N
      BY <1>1
    <2> HIDE DEF n
    <2>2. IsFiniteSet(0..n) /\ Cardinality(0..n) = IF 0 > n THEN 0 ELSE n - 0 + 1
      BY <2>1, FS_Interval
    <2>3. Cardinality(0..n) = N
      BY <2>1, <2>2
    <2> QED
      BY <2>2, <2>3 DEF n
  <1>6. Rank \in Surjection(S, 0..N - 1)
    BY <1>4, <1>5, FS_Injection
  <1>7. ASSUME NEW n \in 1..N
        PROVE  (CHOOSE x \in S : Cardinality({y \in S : <<y, x>> \in before}) = n - 1) \in S
    <2>1. n - 1 \in 0..N - 1
      BY <1>1
    <2>2. PICK x \in S : Rank[x] = n - 1
      BY <1>6, <2>1 DEF Surjection
    <2>3. Cardinality({y \in S : <<y, x>> \in before}) = n - 1
      BY <2>2
    <2> QED
      BY <2>3
  <1> DEFINE At(n) == CHOOSE x \in S : Cardinality({y \in S : <<y, x>> \in before}) = n - 1
  <1>8. ASSUME NEW x \in S
        PROVE  \E n \in 1..N : At(n) = x
    <2> DEFINE n == Rank[x] + 1
    <2>1. Rank[x] \in 0..N - 1 /\ Rank[x] = Cardinality(Below(x))
      BY <1>2
    <2>2. n \in 1..N /\ n - 1 = Rank[x]
      BY <1>1, <2>1
    <2> HIDE DEF n
    <2>3. \E z \in S : Cardinality({y \in S : <<y, z>> \in before}) = n - 1
      BY <2>1, <2>2
    <2>4. At(n) \in S /\ Cardinality({y \in S : <<y, At(n)>> \in before}) = n - 1
      BY <2>3
    <2> HIDE DEF At
    <2>5. Rank[At(n)] = Rank[x]
      BY <2>2, <2>4
    <2> HIDE DEF Rank
    <2>6. At(n) = x
      BY <1>4, <2>4, <2>5 DEF Injection, IsInjective
    <2> QED
      BY <2>2, <2>6
  <1>9. \A n \in 1..N : InOrder(S, before)[n] = At(n)
    BY DEF InOrder
  <1> QED
    BY <1>1, <1>7, <1>8, <1>9 DEF InOrder

\* Positions of a list, from first to last.
LEMMA Positions ==
  ASSUME NEW T, NEW list \in Seq(T), NEW here \in SUBSET DOMAIN list
  PROVE  LET order == InOrder(here, {p \in here \X here : p[1] < p[2]})
         IN  \E n \in Nat : order \in [1..n -> here] /\ \A x \in here : \E i \in 1..n : order[i] = x
  <1> DEFINE before == {p \in here \X here : p[1] < p[2]}
  <1>1. Len(list) \in Nat /\ here \subseteq 1..Len(list)
    BY LenProperties
  <1>2. IsFiniteSet(here)
    BY <1>1, FS_Interval, FS_Subset
  <1>3. Ordered(here, before)
    <2>1. \A x, y \in here : <<x, y>> \in before <=> x < y
      OBVIOUS
    <2>2. \A x \in here : x \in Int
      BY <1>1
    <2> HIDE DEF before
    <2> QED
      BY <2>1, <2>2 DEF Ordered
  <1> DEFINE n     == Cardinality(here)
             order == InOrder(here, before)
  <1> HIDE DEF before
  <1>4. n \in Nat /\ order \in [1..n -> here] /\ \A x \in here : \E i \in 1..n : order[i] = x
    BY <1>2, <1>3, InOrderType
  <1> HIDE DEF n, order
  <1>5. \E n2 \in Nat : order \in [1..n2 -> here] /\ \A x \in here : \E i \in 1..n2 : order[i] = x
    BY <1>4
  <1> QED
    BY <1>5 DEF order, before

\* A function on positions is a queue.
LEMMA QueueFun ==
  ASSUME NEW n \in Nat, NEW q, NEW T, q \in [1..n -> T]
  PROVE  Queue(q) /\ DOMAIN q = 1..n
  <1>1. q \in Seq(T)
    OBVIOUS
  <1> QED
    BY <1>1, QueueOf

LEMMA SecQueue ==
  ASSUME NEW c \in DOMAIN Capsules, NEW chosen
  PROVE  /\ Queue(SecOps(c, chosen))
         /\ \A i \in DOMAIN SecOps(c, chosen) : \E s \in Secs : SecOps(c, chosen)[i] = WriteSec(s, c)
         /\ \A n \in DOMAIN Capsules[c].secs : Capsules[c].secs[n] \in chosen =>
              \E i \in DOMAIN SecOps(c, chosen) : SecOps(c, chosen)[i] = WriteSec(Capsules[c].secs[n], c)
  <1> DEFINE secs  == Capsules[c].secs
             here  == {i \in DOMAIN secs : secs[i] \in chosen}
             order == InOrder(here, {p \in here \X here : p[1] < p[2]})
             q     == [n \in DOMAIN order |-> WriteSec(secs[order[n]], c)]
  <1>1. secs \in Seq(Secs) /\ here \in SUBSET DOMAIN secs
    BY CapsulesAssumption
  <1>2. PICK n \in Nat : order \in [1..n -> here] /\ \A x \in here : \E i \in 1..n : order[i] = x
    BY <1>1, Positions
  <1>3. SecOps(c, chosen) = q
    BY DEF SecOps, Among
  <1>4. \A i \in DOMAIN secs : secs[i] \in Secs
    BY <1>1, LenProperties
  <1>8. \A x \in DOMAIN secs : secs[x] \in chosen => x \in here
    OBVIOUS
  <1> HIDE DEF order, secs, here
  <1>9. \A i \in 1..n : q[i] = WriteSec(secs[order[i]], c)
    BY <1>2
  <1>5. \A i \in 1..n : q[i] = WriteSec(secs[order[i]], c) /\ secs[order[i]] \in Secs
    BY <1>2, <1>4, <1>9 DEF here
  <1>6. q \in [1..n -> {WriteSec(s, c) : s \in Secs}]
    BY <1>2, <1>5
  <1> HIDE DEF q
  <1>7. Queue(q) /\ DOMAIN q = 1..n
    BY <1>6, QueueFun
  <1>10. \A x \in DOMAIN secs : secs[x] \in chosen => \E i \in DOMAIN q : q[i] = WriteSec(secs[x], c)
    BY <1>2, <1>7, <1>8, <1>9
  <1> QED
    BY <1>3, <1>5, <1>7, <1>10 DEF secs

LEMMA RecoverQueue ==
  ASSUME NEW c \in DOMAIN Capsules
  PROVE  /\ Queue(RecoverActiveOps(c))
         /\ \A i \in DOMAIN RecoverActiveOps(c) :
              \E s \in Secs, w \in {c, "blank"} : RecoverActiveOps(c)[i] = WriteSec(s, w)
         /\ \A s \in Secs :
              (\A j \in DOMAIN RwRegions(c) : RwRegions(c)[j].sec = s => RwRegions(c)[j].mode = "RESTORE") =>
                /\ \A i \in DOMAIN RecoverActiveOps(c) : RecoverActiveOps(c)[i].sec = s =>
                     RecoverActiveOps(c)[i].what = c
                /\ \A n \in DOMAIN Capsules[c].secs : Capsules[c].secs[n] = s =>
                     \E i \in DOMAIN RecoverActiveOps(c) : RecoverActiveOps(c)[i] = WriteSec(s, c)
  <1> DEFINE rw    == RwRegions(c)
             here  == {i \in DOMAIN rw : rw[i].mode = "ERASE"}
             order == InOrder(here, {p \in here \X here : p[1] < p[2]})
             q     == [n \in DOMAIN order |-> WriteSec(rw[order[n]].sec, "blank")]
             r     == SecOps(c, {s \in Secs : \A i \in DOMAIN rw : rw[i].sec = s => rw[i].mode = "RESTORE"})
  <1>1. rw \in Seq([sec : Secs, mode : {"ERASE", "RESTORE", "DO_NOTHING"}]) /\ here \in SUBSET DOMAIN rw
    BY CapsulesAssumption DEF RwRegions
  <1>2. PICK n \in Nat : order \in [1..n -> here]
    BY <1>1, Positions
  <1>3. RecoverActiveOps(c) = q \o r
    BY DEF RecoverActiveOps, Among
  <1>4. \A i \in DOMAIN rw : rw[i].sec \in Secs
    <2> DEFINE R == [sec : Secs, mode : {"ERASE", "RESTORE", "DO_NOTHING"}]
    <2>1. \A e \in R : e.sec \in Secs
      OBVIOUS
    <2>2. rw \in Seq(R)
      BY <1>1
    <2> HIDE DEF R, rw
    <2>3. \A i \in DOMAIN rw : rw[i] \in R
      BY <2>2, LenProperties
    <2> QED
      BY <2>1, <2>3
  <1>8. /\ Queue(r) /\ \A i \in DOMAIN r : \E s \in Secs : r[i] = WriteSec(s, c)
        /\ \A x \in DOMAIN Capsules[c].secs :
             Capsules[c].secs[x] \in {s \in Secs : \A i \in DOMAIN rw : rw[i].sec = s => rw[i].mode = "RESTORE"} =>
               \E i \in DOMAIN r : r[i] = WriteSec(Capsules[c].secs[x], c)
    BY SecQueue
  <1> HIDE DEF order, rw, r
  <1>5. \A i \in 1..n : /\ q[i] = WriteSec(rw[order[i]].sec, "blank") /\ rw[order[i]].sec \in Secs
                         /\ order[i] \in DOMAIN rw /\ rw[order[i]].mode = "ERASE"
    BY <1>2, <1>4
  <1>6. q \in [1..n -> {WriteSec(s, "blank") : s \in Secs}]
    BY <1>2, <1>5
  <1> HIDE DEF q
  <1>7. Queue(q) /\ DOMAIN q = 1..n
    BY <1>6, QueueFun
  <1> DEFINE p == q \o r
  <1>j. Joined(q, r, p)
    BY <1>7, <1>8, QueueConcat
  <1> HIDE DEF p
  <1>9. /\ Queue(p) /\ Len(q) \in Nat /\ DOMAIN q = 1..Len(q)
        /\ \A i \in DOMAIN q : p[i] = q[i]
        /\ \A i \in DOMAIN r : Len(q) + i \in DOMAIN p /\ p[Len(q) + i] = r[i]
        /\ \A i \in DOMAIN p : i \in Nat /\ (i \in DOMAIN q \/ (i > Len(q) /\ i - Len(q) \in DOMAIN r))
    BY <1>j DEF Joined
  <1>10. ASSUME NEW i \in DOMAIN p
         PROVE  \/ \E s \in Secs : p[i] = WriteSec(s, c)
                \/ \E j \in DOMAIN rw : /\ p[i] = WriteSec(rw[j].sec, "blank") /\ rw[j].sec \in Secs
                                          /\ rw[j].mode = "ERASE"
    <2>1. CASE i \in DOMAIN q
      BY <1>5, <1>7, <1>9, <2>1
    <2>2. CASE i > Len(q) /\ i - Len(q) \in DOMAIN r
      <3>1. Len(q) + (i - Len(q)) = i
        BY <1>9
      <3> QED
        BY <1>8, <1>9, <2>2, <3>1
    <2> QED
      BY <1>9, <2>1, <2>2
  <1>11. \A s, w : WriteSec(s, w).sec = s /\ WriteSec(s, w).what = w
    BY DEF WriteSec
  <1>12. ASSUME NEW s \in Secs, \A j \in DOMAIN rw : rw[j].sec = s => rw[j].mode = "RESTORE"
         PROVE  /\ \A i \in DOMAIN p : p[i].sec = s => p[i].what = c
                /\ \A x \in DOMAIN Capsules[c].secs : Capsules[c].secs[x] = s => \E i \in DOMAIN p : p[i] = WriteSec(s, c)
    <2>1. ASSUME NEW i \in DOMAIN p, p[i].sec = s
          PROVE  p[i].what = c
      BY <1>10, <1>11, <1>12, <2>1
    <2>2. ASSUME NEW x \in DOMAIN Capsules[c].secs, Capsules[c].secs[x] = s
          PROVE  \E i \in DOMAIN p : p[i] = WriteSec(s, c)
      <3>1. PICK i \in DOMAIN r : r[i] = WriteSec(s, c)
        BY <1>8, <1>12, <2>2
      <3> QED
        BY <1>9, <3>1
    <2> QED
      BY <2>1, <2>2
  <1>13. \A i \in DOMAIN p : \E s \in Secs, w \in {c, "blank"} : p[i] = WriteSec(s, w)
    BY <1>10
  <1> QED
    BY <1>3, <1>9, <1>12, <1>13 DEF p, rw

\* A set of natural numbers that is not empty has a least element, and Min is it.
LEMMA LeastElement ==
  ASSUME NEW T, T \subseteq Nat, T # {}
  PROVE  Min(T) \in T /\ \A y \in T : Min(T) <= y
  <1> DEFINE less == OpToRel(<, Nat)
  <1>1. IsWellFoundedOn(less, Nat)
    BY NatLessThanWellFounded
  <1>2. \A x, y \in Nat : <<y, x>> \in less <=> y < x
    BY DEF OpToRel
  <1> HIDE DEF less
  <1>3. PICK x \in T : \A y \in T : ~(<<y, x>> \in less)
    BY <1>1, WFMin
  <1>4. ASSUME NEW y \in T PROVE x <= y
    <2>1. x \in Nat /\ y \in Nat /\ ~(y < x)
      BY <1>2, <1>3
    <2> QED
      BY <2>1
  <1> QED
    BY <1>4 DEF Min

\* What a certificate cancels: in the first slot of its digest type that lists
\* the key of an entry under the id of the entry.
Earliest(s, id, k, hash) ==
  /\ Lists(s, id, k) /\ Manifests[keym[s]].hash = hash
  /\ \A t \in Slot : Lists(t, id, k) /\ Manifests[keym[t]].hash = hash => s <= t

LEMMA CancelQueue ==
  ASSUME NEW policy, NEW c \in DOMAIN Capsules
  PROVE  LET cert == Capsules[c].cert
             q    == CancelOps(policy, cert)
         IN  /\ Queue(q)
             /\ \A n \in DOMAIN q : \E s \in Slot, id \in Nat, k \in STRING :
                  q[n] = CancelBit(policy, <<s, id>>) /\ Earliest(s, id, k, cert.hash)
  <1> DEFINE cert == Capsules[c].cert
             list == cert.list
             hash == cert.hash
             Found(i) == {s \in Slot : /\ Lists(s, list[i][1], list[i][2])
                                       /\ Manifests[keym[s]].hash = hash}
             At(i)    == Min(Found(i))
             here     == {i \in DOMAIN list : Found(i) # {}}
             before   == {p \in here \X here : At(p[1]) < At(p[2]) \/ (At(p[1]) = At(p[2]) /\ p[1] < p[2])}
             order    == InOrder(here, before)
             q        == [n \in DOMAIN order |-> CancelBit(policy, <<At(order[n]), list[order[n]][1]>>)]
  <1>1. list \in Seq(Nat \X STRING)
    BY CapsulesAssumption
  <1> HIDE DEF list, hash
  <1>2. Len(list) \in Nat /\ DOMAIN list = 1..Len(list) /\ \A i \in DOMAIN list : list[i] \in Nat \X STRING
    BY <1>1, LenProperties
  <1>3. ASSUME NEW i \in here
        PROVE  At(i) \in Found(i) /\ \A t \in Found(i) : At(i) <= t
    <2>1. Found(i) \subseteq Nat /\ Found(i) # {}
      BY SlotsAssumption DEF Slot
    <2> HIDE DEF Found
    <2> QED
      BY <2>1, LeastElement
  <1>4. \A i \in here : At(i) \in Int /\ i \in Int
    BY <1>2, <1>3, SlotsAssumption DEF Slot
  <1>5. IsFiniteSet(here)
    <2>1. here \in SUBSET (1..Len(list))
      BY <1>2
    <2>2. IsFiniteSet(1..Len(list))
      BY <1>2, FS_Interval
    <2> HIDE DEF here
    <2> QED
      BY <2>1, <2>2, FS_Subset
  <1>6. Ordered(here, before)
    <2>1. \A x, y \in here : <<x, y>> \in before <=> At(x) < At(y) \/ (At(x) = At(y) /\ x < y)
      OBVIOUS
    <2> HIDE DEF before, At, here
    <2> QED
      BY <1>4, <2>1 DEF Ordered
  <1>7. Cardinality(here) \in Nat /\ order \in [1..Cardinality(here) -> here]
    <2> HIDE DEF before, here
    <2> QED
      BY <1>5, <1>6, InOrderType
  <1>8. ASSUME NEW i \in here
        PROVE  /\ At(i) \in Slot /\ list[i][1] \in Nat /\ list[i][2] \in STRING
               /\ Earliest(At(i), list[i][1], list[i][2], hash)
    <2>1. list[i][1] \in Nat /\ list[i][2] \in STRING
      BY <1>2
    <2>2. At(i) \in Found(i) /\ \A t \in Found(i) : At(i) <= t
      BY <1>3
    <2> HIDE DEF At
    <2> QED
      BY <2>1, <2>2 DEF Earliest
  <1> HIDE DEF order, here, At
  <1>9. \A n \in 1..Cardinality(here) :
          /\ order[n] \in here
          /\ q[n] = CancelBit(policy, <<At(order[n]), list[order[n]][1]>>)
    BY <1>7
  <1>10. DOMAIN q = 1..Cardinality(here)
    BY <1>7
  <1>11. CancelOps(policy, cert) = q
    BY DEF CancelOps, order, here, At, list, hash
  <1> HIDE DEF q, cert
  <1>12. Queue(q)
    <2>1. q \in [1..Cardinality(here) -> {q[n] : n \in 1..Cardinality(here)}]
      <3>1. q = [n \in DOMAIN order |-> CancelBit(policy, <<At(order[n]), list[order[n]][1]>>)]
        BY DEF q
      <3>2. DOMAIN order = 1..Cardinality(here)
        BY <1>7
      <3> QED
        BY <3>1, <3>2
    <2> QED
      BY <1>7, <2>1, QueueFun
  <1>13. ASSUME NEW n \in DOMAIN q
         PROVE  \E s \in Slot, id \in Nat, k \in STRING :
                  q[n] = CancelBit(policy, <<s, id>>) /\ Earliest(s, id, k, hash)
    <2>1. order[n] \in here /\ q[n] = CancelBit(policy, <<At(order[n]), list[order[n]][1]>>)
      BY <1>9, <1>10
    <2> QED
      BY <1>8, <2>1
  <1> QED
    BY <1>11, <1>12, <1>13 DEF cert, hash

-----------------------------------------------------------------------------
(* Floors.                                                                 *)

Shapes ==
  /\ DOMAIN ufm = {"parts", "cancelled", "svn"} /\ ufm.svn \in [Policies -> Nat]
  /\ DOMAIN flash = Areas \cup {"active"} /\ DOMAIN flash.active = Secs
  /\ DOMAIN ram = {"act", "rec", "recovered", "calls", "clear", "restrict", "upd"}

\* What may be queued in a phase: a floor rises, at most once in a queue and not
\* together with writes to the active image; after an update (VERIFY) the writes
\* that are left are of an image at or above the floor.
Fits(o, ph) ==
  /\ o.op = "area" => o.area \in Areas
  /\ o.op = "svn" => o.policy \in Policies /\ o.svn \in Nat /\ o.svn >= ufm.svn[o.policy]
  /\ ph = "VERIFY" /\ o.op = "sec" /\ o.what \in Images => Svn(o.what) >= ufm.svn["PCH"]
Fit(q, ph) ==
  /\ Queue(q) /\ \A i \in DOMAIN q : Fits(q[i], ph)
  /\ \A i, j \in DOMAIN q : q[i].op = "svn" /\ q[j].op \in {"svn", "sec"} => i = j

\* Neither a floor nor a section is written.
Calm(q) == \A i \in DOMAIN q : q[i].op \notin {"svn", "sec"}

LEMMA FitCalm ==
  ASSUME NEW q, NEW ph, Queue(q), Calm(q), \A i \in DOMAIN q : q[i].op = "area" => q[i].area \in Areas
  PROVE  Fit(q, ph)
  BY DEF Fit, Fits, Calm

LEMMA FitConcat ==
  ASSUME NEW p, NEW q, NEW ph, Fit(p, ph), Fit(q, ph), Calm(p) \/ Calm(q)
  PROVE  Fit(p \o q, ph)
  <1>1. Queue(p) /\ Queue(q)
    BY DEF Fit
  <1>2. /\ Queue(p \o q) /\ Len(p) \in Nat
        /\ \A i \in DOMAIN p : (p \o q)[i] = p[i]
        /\ \A i \in DOMAIN q : (p \o q)[Len(p) + i] = q[i]
        /\ \A i \in DOMAIN (p \o q) :
             i \in Nat /\ (i \in DOMAIN p \/ (i > Len(p) /\ i - Len(p) \in DOMAIN q))
    <2>1. Joined(p, q, p \o q)
      BY <1>1, QueueConcat
    <2> QED
      BY <2>1 DEF Joined
  <1>3. \A i \in Nat : Len(p) + (i - Len(p)) = i
    BY <1>2
  <1>4. \A i \in DOMAIN (p \o q) :
          \/ i \in DOMAIN p /\ (p \o q)[i] = p[i]
          \/ i - Len(p) \in DOMAIN q /\ (p \o q)[i] = q[i - Len(p)]
    BY <1>2, <1>3
  <1>5. \A i \in DOMAIN (p \o q) : Fits((p \o q)[i], ph)
    BY <1>4 DEF Fit
  <1>6. ASSUME NEW i \in DOMAIN (p \o q), NEW j \in DOMAIN (p \o q),
               (p \o q)[i].op = "svn", (p \o q)[j].op \in {"svn", "sec"}
        PROVE  i = j
    <2>1. CASE Calm(p)
      <3>1. /\ i - Len(p) \in DOMAIN q /\ q[i - Len(p)].op = "svn"
            /\ j - Len(p) \in DOMAIN q /\ q[j - Len(p)].op \in {"svn", "sec"}
        BY <1>4, <1>6, <2>1 DEF Calm
      <3>2. i - Len(p) = j - Len(p)
        BY <3>1 DEF Fit
      <3> QED
        BY <1>2, <3>2
    <2>2. CASE Calm(q)
      <3>1. /\ i \in DOMAIN p /\ p[i].op = "svn"
            /\ j \in DOMAIN p /\ p[j].op \in {"svn", "sec"}
        BY <1>4, <1>6, <2>2 DEF Calm
      <3> QED
        BY <3>1 DEF Fit
    <2> QED
      BY <2>1, <2>2
  <1> QED
    BY <1>2, <1>5, <1>6 DEF Fit

LEMMA FitEmpty == \A ph : Fit(<<>>, ph) /\ Calm(<<>>)
  BY QueueShort DEF Fit, Fits, Calm

\* set_ufm_svn
LEMMA FitSvn ==
  ASSUME Shapes, NEW ph, NEW p \in Policies, NEW n \in Nat, SvnOk(p, n)
  PROVE  Fit(SvnOps(p, n), ph)
  <1> DEFINE o == SetSvn(p, n)
  <1>1. o.op = "svn" /\ o.policy = p /\ o.svn = n
    BY DEF SetSvn
  <1> HIDE DEF o
  <1>2. Queue(<<o>>) /\ DOMAIN <<o>> = {1} /\ <<o>>[1] = o
    BY QueueShort
  <1>3. Fit(<<o>>, ph)
    BY <1>1, <1>2 DEF Fit, Fits, SvnOk
  <1> QED
    BY <1>3, FitEmpty DEF SvnOps, o

\* Writes to sections.
LEMMA FitSecs ==
  ASSUME NEW q, NEW ph, Queue(q), NEW W,
         \A i \in DOMAIN q : \E s \in Secs, w \in W : q[i] = WriteSec(s, w),
         ph = "VERIFY" => \A w \in W : w \in Images => Svn(w) >= ufm.svn["PCH"]
  PROVE  Fit(q, ph)
  <1>1. \A i \in DOMAIN q : q[i].op = "sec" /\ q[i].what \in W
    BY DEF WriteSec
  <1> QED
    BY <1>1 DEF Fit, Fits

LEMMA FitArea ==
  ASSUME NEW a \in Areas, NEW c, NEW ph
  PROVE  Fit(<<WriteArea(a, c)>>, ph) /\ Calm(<<WriteArea(a, c)>>)
  <1> DEFINE o == WriteArea(a, c)
  <1>1. o.op = "area" /\ o.area = a
    BY DEF WriteArea
  <1> HIDE DEF o
  <1> QED
    BY <1>1, QueueShort DEF Fit, Fits, Calm, o

\* Operations that are neither.
LEMMA FitOther ==
  ASSUME NEW o, NEW ph, o.op \notin {"area", "svn", "sec"}
  PROVE  Fit(<<o>>, ph) /\ Calm(<<o>>)
  BY QueueShort DEF Fit, Fits, Calm

\* cerberus_append_key_manifest, cerberus_provisioning_root_key_action,
\* erase_provision_flash, cerberus_pfr_cancel_csk_keys.
Plain(q) == Queue(q) /\ \A i \in DOMAIN q : q[i].op \notin {"area", "svn", "sec"}

LEMMA FitPlain ==
  ASSUME NEW q, NEW ph, Plain(q)
  PROVE  Fit(q, ph)
  BY DEF Plain, Fit, Fits

LEMMA PlainErase == Plain(EraseOps)
  <1> DEFINE a == EraseUfm
             b == Erase(Slot)
             c == EraseState
  <1>1. a.op = "eraseUfm" /\ b.op = "keym" /\ c.op = "eraseState"
    BY DEF EraseUfm, Erase, EraseState
  <1> HIDE DEF a, b, c
  <1>2. Plain(<<a, b, c>>)
    BY <1>1, QueueShort DEF Plain
  <1> QED
    BY <1>2 DEF EraseOps, a, b, c

LEMMA PlainAppend == \A m : Plain(AppendOps(m))
  <1> SUFFICES ASSUME NEW m PROVE Plain(AppendOps(m))
    OBVIOUS
  <1> DEFINE s == Min({t \in Slot : Free(t)})
             a == Erase(PageOf(s))
             b == Write(s - 1, keym[s - 1])
             c == Write(s, m)
  <1>1. a.op = "keym" /\ b.op = "keym" /\ c.op = "keym"
    BY DEF Erase, Write
  <1>2. AppendOps(m) \in {<<>>, <<a, c>>, <<a, b, c>>}
    BY DEF AppendOps
  <1> HIDE DEF a, b, c
  <1>3. Plain(<<>>) /\ Plain(<<a, c>>) /\ Plain(<<a, b, c>>)
    BY <1>1, QueueShort DEF Plain
  <1> QED
    BY <1>2, <1>3

LEMMA PlainProvision == \A c : Plain(ProvisionOps(c))
  <1> SUFFICES ASSUME NEW c PROVE Plain(ProvisionOps(c))
    OBVIOUS
  <1> DEFINE p1 == SetPart("ROOT")
             p2 == SetPart("BMC")
             p3 == SetPart("PCH")
             a  == Erase(Slot)
             b  == Write(0, Capsules[c].manifest)
  <1>1. p1.op = "part" /\ p2.op = "part" /\ p3.op = "part" /\ a.op = "keym" /\ b.op = "keym"
    BY DEF SetPart, Erase, Write
  <1>2. ProvisionOps(c) \in {<<>>, <<p1, p2, p3, a, b>>}
    BY DEF ProvisionOps
  <1> HIDE DEF p1, p2, p3, a, b
  <1>3. Plain(<<>>) /\ Plain(<<p1, p2, p3, a, b>>)
    BY <1>1, QueueShort DEF Plain
  <1> QED
    BY <1>2, <1>3

LEMMA PlainCancel ==
  ASSUME NEW c \in DOMAIN Capsules, NEW policy
  PROVE  Plain(CancelCertificate(c, policy))
  <1> DEFINE q == CancelOps(policy, Capsules[c].cert)
  <1>1. Queue(q) /\ \A n \in DOMAIN q : \E at : q[n] = CancelBit(policy, at)
    BY CancelQueue
  <1> HIDE DEF q
  <1>2. Plain(q) /\ Plain(<<>>)
    BY <1>1, QueueShort DEF Plain, CancelBit
  <1> QED
    BY <1>2 DEF CancelCertificate, q

\* cerberus_hrot_update and provisioning.
LEMMA FitHrot ==
  ASSUME Shapes, NEW c, NEW select, NEW ph
  PROVE  Fit(HrotUpdate(c, select), ph)
  <1>1. Fit(<<>>, ph) /\ Fit(ProvisionOps(c), ph)
    BY FitEmpty, FitPlain, PlainProvision
  <1>2. ASSUME VerifyImage(c, "ROT") PROVE Fit(HrotOps(c, select), ph)
    <2>1. c \in DOMAIN Capsules
      BY <1>2 DEF VerifyImage
    <2>2. Fit(EraseOps, ph) /\ Fit(CancelCertificate(c, "ROT"), ph) /\ Fit(AppendOps(Capsules[c].manifest), ph)
      BY <2>1, FitPlain, PlainErase, PlainCancel, PlainAppend
    <2>3. ASSUME SvnOk("ROT", Svn(c))
          PROVE  Fit(RotOps(c, select) \o (IF select = "SECONDARY" THEN SvnOps("ROT", Svn(c)) ELSE <<>>), ph)
      <3>1. Fit(RotOps(c, select), ph) /\ Calm(RotOps(c, select))
        BY FitArea DEF RotOps, Areas
      <3>2. Svn(c) \in Nat /\ "ROT" \in Policies
        BY <2>1, CapsulesAssumption DEF Svn, Policies
      <3>3. Fit(SvnOps("ROT", Svn(c)), ph)
        BY <2>3, <3>2, FitSvn
      <3> DEFINE r == IF select = "SECONDARY" THEN SvnOps("ROT", Svn(c)) ELSE <<>>
      <3>4. Fit(r, ph)
        BY <1>1, <3>3
      <3> HIDE DEF r
      <3>5. Fit(RotOps(c, select) \o r, ph)
        BY <3>1, <3>4, FitConcat
      <3> QED
        BY <3>5 DEF r
    <2>4. CASE Is(c, "HROT") /\ SvnOk("ROT", Svn(c))
      BY <2>3, <2>4 DEF HrotOps, Is
    <2>5. CASE ~(Is(c, "HROT") /\ SvnOk("ROT", Svn(c)))
      <3>1. HrotOps(c, select) \in {EraseOps, CancelCertificate(c, "ROT"), AppendOps(Capsules[c].manifest), <<>>}
        BY <2>5, Zenon DEF HrotOps
      <3> QED
        BY <1>1, <2>2, <3>1
    <2> QED
      BY <2>4, <2>5
  <1> QED
    BY <1>1, <1>2 DEF HrotUpdate

\* update_firmware_image
LEMMA FitUpdate ==
  ASSUME Shapes, NEW c
  PROVE  Fit(UpdateOps(c), "VERIFY")
  <1>1. ASSUME VerifyImage(c, "PCH") PROVE Fit(CancelCertificate(c, "PCH"), "VERIFY")
    BY <1>1, PlainCancel, FitPlain DEF VerifyImage
  <1>2. ASSUME ImageOk(c), SvnOk("PCH", Svn(c))
        PROVE  /\ Fit(UpdateActiveOps(c, ram.upd.dynamic), "VERIFY")
               /\ Fit(RecoverRecoveryOps(c) \o SvnOps("PCH", Svn(c)), "VERIFY")
    <2>1. c \in DOMAIN Capsules
      BY <1>2 DEF ImageOk, Is
    <2>2. Svn(c) \in Nat /\ "PCH" \in Policies
      BY <2>1, CapsulesAssumption DEF Svn, Policies
    <2>3. Fit(UpdateActiveOps(c, ram.upd.dynamic), "VERIFY")
      <3> DEFINE chosen == IF ram.upd.dynamic THEN Secs ELSE UpdateRegions(c)
      <3>1. /\ Queue(SecOps(c, chosen))
            /\ \A i \in DOMAIN SecOps(c, chosen) : \E s \in Secs : SecOps(c, chosen)[i] = WriteSec(s, c)
        BY <2>1, SecQueue
      <3> DEFINE q == SecOps(c, chosen)
                 W == {c}
      <3>2. \A i \in DOMAIN q : \E s \in Secs, w \in W : q[i] = WriteSec(s, w)
        BY <3>1
      <3>3. \A w \in W : Svn(w) >= ufm.svn["PCH"]
        BY <1>2 DEF SvnOk
      <3>5. Queue(q)
        BY <3>1
      <3> HIDE DEF q, W
      <3>6. Fit(q, "VERIFY")
        BY <3>2, <3>3, <3>5, FitSecs
      <3>4. Fit(SecOps(c, chosen), "VERIFY")
        BY <3>6 DEF q
      <3> QED
        BY <3>4 DEF UpdateActiveOps
    <2>4. Fit(RecoverRecoveryOps(c), "VERIFY") /\ Calm(RecoverRecoveryOps(c))
      BY FitArea DEF RecoverRecoveryOps, Areas
    <2>5. Fit(SvnOps("PCH", Svn(c)), "VERIFY")
      BY <1>2, <2>2, FitSvn
    <2> QED
      BY <2>3, <2>4, <2>5, FitConcat
  <1> QED
    BY <1>1, <1>2, FitEmpty DEF UpdateOps

\* recover_image
LEMMA FitRecover ==
  ASSUME ram.rec => flash.recovery \in DOMAIN Capsules
  PROVE  Fit(RecoverImage, "RECOVERY")
  <1>1. \A which : Fit(<<Mark(which)>>, "RECOVERY") /\ Calm(<<Mark(which)>>)
    BY FitOther DEF Mark
  <1>2. ASSUME ram.rec PROVE Fit(RecoverActiveOps(flash.recovery) \o <<Mark("act")>>, "RECOVERY")
    <2>1. flash.recovery \in DOMAIN Capsules
      BY <1>2
    <2> DEFINE q == RecoverActiveOps(flash.recovery)
               W == {flash.recovery, "blank"}
    <2>2. Queue(q) /\ \A i \in DOMAIN q : \E s \in Secs, w \in W : q[i] = WriteSec(s, w)
      BY <2>1, RecoverQueue
    <2> HIDE DEF q, W
    <2>4. "RECOVERY" # "VERIFY"
      OBVIOUS
    <2>5. Fit(q, "RECOVERY")
      BY <2>2, <2>4, FitSecs
    <2>3. Fit(RecoverActiveOps(flash.recovery), "RECOVERY")
      BY <2>5 DEF q
    <2> QED
      BY <1>1, <2>3, FitConcat
  <1>3. ASSUME NEW from, NEW fetch \in BOOLEAN
        PROVE  Fit((IF fetch THEN StagePchOps(from) ELSE <<>>) \o RecoverRecoveryOps(from) \o <<Mark("rec")>>, "RECOVERY")
    <2> DEFINE p == IF fetch THEN StagePchOps(from) ELSE <<>>
    <2>1. Fit(StagePchOps(from), "RECOVERY") /\ Fit(RecoverRecoveryOps(from), "RECOVERY")
      BY FitArea DEF StagePchOps, RecoverRecoveryOps, Areas
    <2>2. Fit(p, "RECOVERY")
      BY <2>1, FitEmpty
    <2>3. Calm(RecoverRecoveryOps(from))
      BY FitArea DEF RecoverRecoveryOps, Areas
    <2> HIDE DEF p
    <2>4. Fit(p \o RecoverRecoveryOps(from), "RECOVERY")
      BY <2>1, <2>2, <2>3, FitConcat
    <2>5. Fit((p \o RecoverRecoveryOps(from)) \o <<Mark("rec")>>, "RECOVERY")
      BY <1>1, <2>4, FitConcat
    <2> QED
      BY <2>5 DEF p
  <1> DEFINE staged == ImageOk(flash.staging)
             fetch  == ~staged /\ ~ram.act /\ ImageOk(flash.bmcStaging)
             from   == IF staged THEN flash.staging ELSE flash.bmcStaging
             q      == (IF fetch THEN StagePchOps(from) ELSE <<>>) \o RecoverRecoveryOps(from) \o <<Mark("rec")>>
  <1>4. Fit(q, "RECOVERY")
    <2>1. fetch \in BOOLEAN
      OBVIOUS
    <2> HIDE DEF fetch, from
    <2> QED
      BY <1>3, <2>1
  <1> HIDE DEF q
  <1>5. RecoverImage \in {<<>>, q} \/ (ram.rec /\ RecoverImage = RecoverActiveOps(flash.recovery) \o <<Mark("act")>>)
    BY DEF RecoverImage, q
  <1> QED
    BY <1>2, <1>4, <1>5, FitEmpty

\* handle_update_requested
LEMMA FitFinish ==
  ASSUME NEW c, NEW q, NEW pend, Fit(q, "VERIFY"), Finish(c, q, pend)
  PROVE  Fit(ops', "VERIFY") /\ phase' = "VERIFY"
  <1> DEFINE p == IF Succeeds(c, q) THEN pend ELSE Nothing
             r == IF p = pending THEN <<>> ELSE <<SetPending(p)>>
  <1>1. ops' = q \o r /\ phase' = "VERIFY"
    BY DEF Finish, Begin
  <1>2. Fit(<<SetPending(p)>>, "VERIFY") /\ Calm(<<SetPending(p)>>)
    BY FitOther DEF SetPending
  <1>3. Fit(r, "VERIFY") /\ Calm(r)
    BY <1>2, FitEmpty
  <1> HIDE DEF r
  <1> QED
    BY <1>1, <1>3, FitConcat

IsRec(o) == o.op = "area" /\ o.area = "recovery"

\* What is written, and what is not.
LEMMA DoneEffect ==
  ASSUME Shapes, NEW o, NEW ph, Fits(o, ph), Done(o)
  PROVE  /\ DOMAIN ufm' = {"parts", "cancelled", "svn"} /\ ufm'.svn \in [Policies -> Nat]
         /\ DOMAIN flash' = Areas \cup {"active"} /\ DOMAIN flash'.active = Secs
         /\ o.op \notin {"svn", "eraseUfm"} => ufm'.svn = ufm.svn
         /\ o.op = "svn" => ufm'.svn = [ufm.svn EXCEPT ![o.policy] = o.svn]
         /\ o.op = "eraseUfm" => ufm' = ErasedUfm
         /\ o.op # "sec" => flash'.active = flash.active
         /\ o.op = "sec" => flash'.active = [flash.active EXCEPT ![o.sec] = o.what]
         /\ flash'.recovery = IF IsRec(o) THEN o.what ELSE flash.recovery
  <1>1. CASE o.op = "cancel"
    <2>1. ufm' = [ufm EXCEPT !.cancelled = @ \cup {<<o.policy, o.at[1], o.at[2]>>}] /\ flash' = flash
      BY <1>1 DEF Done
    <2> QED
      BY <1>1, <2>1 DEF Shapes, IsRec
  <1>2. CASE o.op = "svn"
    <2>1. ufm' = [ufm EXCEPT !.svn[o.policy] = o.svn] /\ flash' = flash
      BY <1>2 DEF Done
    <2> QED
      BY <1>2, <2>1 DEF Shapes, IsRec, Fits
  <1>3. CASE o.op = "part"
    <2>1. ufm' = [ufm EXCEPT !.parts = @ \cup {o.part}] /\ flash' = flash
      BY <1>3 DEF Done
    <2> QED
      BY <1>3, <2>1 DEF Shapes, IsRec
  <1>4. CASE o.op = "eraseUfm"
    <2>1. ufm' = ErasedUfm /\ flash' = flash
      BY <1>4 DEF Done
    <2>2. DOMAIN ErasedUfm = {"parts", "cancelled", "svn"} /\ ErasedUfm.svn \in [Policies -> Nat]
      BY DEF ErasedUfm
    <2> QED
      BY <1>4, <2>1, <2>2 DEF Shapes, IsRec
  <1>5. CASE o.op = "sec"
    <2>1. ufm' = ufm /\ flash' = [flash EXCEPT !.active[o.sec] = o.what]
      BY <1>5 DEF Done
    <2> QED
      BY <1>5, <2>1 DEF Shapes, IsRec, Areas
  <1>6. CASE o.op = "area"
    <2>1. ufm' = ufm /\ flash' = [flash EXCEPT ![o.area] = o.what] /\ o.area \in Areas
      BY <1>6 DEF Done, Fits
    <2> QED
      BY <1>6, <2>1 DEF Shapes, IsRec, Areas
  <1>7. CASE o.op \notin {"cancel", "svn", "part", "eraseUfm", "sec", "area"}
    <2>1. ufm' = ufm /\ flash' = flash
      BY <1>7 DEF Done
    <2> QED
      BY <1>7, <2>1 DEF Shapes, IsRec
  <1> QED
    BY <1>1, <1>2, <1>3, <1>4, <1>5, <1>6, <1>7

LEMMA TornEffect ==
  ASSUME Shapes, NEW o, NEW ph, Fits(o, ph), Torn(o)
  PROVE  /\ DOMAIN ufm' = {"parts", "cancelled", "svn"} /\ ufm'.svn \in [Policies -> Nat]
         /\ DOMAIN flash' = Areas \cup {"active"} /\ DOMAIN flash'.active = Secs
         /\ ~IsUfm(o) => ufm' = ufm
         /\ flash'.active \in {flash.active, [flash.active EXCEPT ![o.sec] = "torn"]}
         /\ flash'.recovery = IF IsRec(o) THEN "torn" ELSE flash.recovery
  <1>1. DOMAIN ufm' = {"parts", "cancelled", "svn"} /\ ufm'.svn \in [Policies -> Nat] /\ (~IsUfm(o) => ufm' = ufm)
    <2>1. ufm' = IF o.op \in {"cancel", "svn", "part", "eraseUfm"} THEN ErasedUfm ELSE ufm
      BY DEF Torn
    <2>2. DOMAIN ErasedUfm = {"parts", "cancelled", "svn"} /\ ErasedUfm.svn \in [Policies -> Nat]
      BY DEF ErasedUfm
    <2> QED
      BY <2>1, <2>2 DEF Shapes, IsUfm
  <1>2. CASE o.op = "sec"
    <2>1. flash' = [flash EXCEPT !.active[o.sec] = "torn"]
      BY <1>2 DEF Torn
    <2> QED
      BY <1>1, <1>2, <2>1 DEF Shapes, IsRec, Areas
  <1>3. CASE o.op = "area"
    <2>1. flash' = [flash EXCEPT ![o.area] = "torn"] /\ o.area \in Areas
      BY <1>3 DEF Torn, Fits
    <2> QED
      BY <1>1, <1>3, <2>1 DEF Shapes, IsRec, Areas
  <1>4. CASE o.op \notin {"sec", "area"}
    <2>1. flash' = flash
      BY <1>4 DEF Torn
    <2> QED
      BY <1>1, <1>4, <2>1 DEF Shapes, IsRec
  <1> QED
    BY <1>2, <1>3, <1>4

-----------------------------------------------------------------------------
(* Handlers: steps that plan writes and do none.                           *)

Requests ==
  \/ \E c \in budget.offers, recovery \in BOOLEAN : RotRequest(c, recovery)
  \/ \E c \in budget.offers, dynamic, recovery \in BOOLEAN :
       PchRequest(c, dynamic, recovery) \/ BmcRequest(c, dynamic, recovery)
  \/ \E c \in budget.offers, select \in {"PRIMARY", "SECONDARY"} : ProvisionImage(c, select)
Tampers ==
  \E a \in {"code", "data", "recovery", "staging", "bmcStaging", "rotStaging"} : Tamper(a, "torn")
Handlers == \/ VerifyKeys \/ VerifyRecovery \/ VerifyActive \/ Recovery \/ UpdatePch
            \/ EraseCurrent \/ Reset \/ BootDone \/ Requests \/ Tampers

LEMMA NextSteps ==
  ASSUME [Next]_vars
  PROVE  Handlers \/ OpDone \/ OpFails \/ PowerCut \/ UNCHANGED vars
  BY DEF Next, Environment, Handlers, Requests, Tampers

\* What a handler leaves alone: the key manifests, the UFM and, but for a
\* staging region or a region that goes bad, the flash.
Frame ==
  /\ ops = <<>> /\ UNCHANGED <<keym, ufm, dead, lost>>
  /\ DOMAIN flash' = DOMAIN flash /\ DOMAIN flash'.active = DOMAIN flash.active
  /\ flash'.active["pfm"] = flash.active["pfm"] /\ flash'.recovery \in {flash.recovery, "torn"}
  /\ flash' = flash \/ phase' \in {"RUNTIME", "HELD", "UNPROVISIONED", "UPDATE_PCH", "VERIFY"}
  /\ DOMAIN ram' = DOMAIN ram

LEMMA StagedFrame ==
  ASSUME Shapes, NEW a \in {"staging", "bmcStaging", "rotStaging"}, NEW c, NEW r, Staged(a, c, r)
  PROVE  /\ DOMAIN flash' = DOMAIN flash /\ flash'.active = flash.active
         /\ flash'.recovery = flash.recovery
  BY DEF Staged, Shapes, Areas

LEMMA HandlersFrame ==
  ASSUME Shapes, Handlers
  PROVE  Frame
  <1>1. CASE VerifyKeys \/ VerifyRecovery \/ VerifyActive \/ Recovery \/ UpdatePch \/ EraseCurrent \/ Reset \/ BootDone
    <2>1. ops = <<>> /\ UNCHANGED <<keym, ufm, dead, lost, flash>>
      BY <1>1 DEF VerifyKeys, VerifyRecovery, VerifyActive, Recovery, UpdatePch, EraseCurrent, Reset,
                  BootDone, Idle, Unchanged
    <2>2. DOMAIN ram' = DOMAIN ram
      BY <1>1, Zenon DEF VerifyKeys, VerifyRecovery, VerifyActive, Recovery, UpdatePch, EraseCurrent,
                  Reset, BootDone, Unchanged
    <2> QED
      BY <2>1, <2>2 DEF Frame
  <1>2. ASSUME NEW c, NEW r, RotRequest(c, r)
        PROVE  Frame
    <2>1. Staged("rotStaging", c, r) /\ ops = <<>> /\ UNCHANGED <<keym, ufm, dead, lost, ram>> /\ phase' = "VERIFY"
      BY <1>2 DEF RotRequest, Running, Finish, Begin
    <2> QED
      BY <2>1, StagedFrame DEF Frame
  <1>3. ASSUME NEW c, NEW d, NEW r, PchRequest(c, d, r) \/ BmcRequest(c, d, r)
        PROVE  Frame
    <2>1. /\ Staged("staging", c, r) \/ Staged("bmcStaging", c, r)
          /\ ops = <<>> /\ UNCHANGED <<keym, ufm, dead, lost>>
          /\ phase' \in {"UPDATE_PCH", "VERIFY"}
      BY <1>3 DEF PchRequest, BmcRequest, Running, Finish, Begin, Refuse
    <2>2. DOMAIN ram' = DOMAIN ram
      BY <1>3, Zenon DEF PchRequest, BmcRequest
    <2> QED
      BY <2>1, <2>2, StagedFrame DEF Frame
  <1>4. ASSUME NEW c, NEW sel, ProvisionImage(c, sel)
        PROVE  Frame
    <2>1. /\ Staged("rotStaging", c, FALSE) /\ ops = <<>> /\ UNCHANGED <<keym, ufm, dead, lost, ram>>
          /\ phase' = "UNPROVISIONED"
      BY <1>4 DEF ProvisionImage, Idle, Begin
    <2> QED
      BY <2>1, StagedFrame DEF Frame
  <1>5. CASE Tampers
    <2>1. PICK a \in {"code", "data", "recovery", "staging", "bmcStaging", "rotStaging"} : Tamper(a, "torn")
      BY <1>5 DEF Tampers
    <2>2. /\ ops = <<>> /\ UNCHANGED <<keym, ufm, dead, lost, ram, phase>>
          /\ phase \in {"RUNTIME", "HELD"}
      BY <2>1 DEF Tamper, Running
    <2>3. CASE a \in {"code", "data"}
      <3>1. flash' = [flash EXCEPT !.active[a] = "torn"]
        BY <2>1, <2>3 DEF Tamper, Secs
      <3> QED
        BY <2>2, <2>3, <3>1 DEF Frame, Shapes, Areas, Secs
    <2>4. CASE a \notin {"code", "data"}
      <3>1. flash' = [flash EXCEPT ![a] = "torn"] /\ a \in Areas
        BY <2>1, <2>4 DEF Tamper, Secs, Areas
      <3> QED
        BY <2>2, <3>1 DEF Frame, Shapes, Areas
    <2> QED
      BY <2>3, <2>4
  <1> QED
    BY <1>1, <1>2, <1>3, <1>4, <1>5, Zenon DEF Handlers, Requests

\* The handlers plan what fits.
LEMMA HandlersFit ==
  ASSUME Shapes, Handlers, phase = "RECOVERY" /\ ram.rec => flash.recovery \in DOMAIN Capsules
  PROVE  Fit(ops', phase')
  <1>1. CASE VerifyKeys \/ VerifyActive \/ Reset
    <2>1. ops' = <<>>
      BY <1>1 DEF VerifyKeys, VerifyActive, Reset, Idle
    <2> QED
      BY <2>1, FitEmpty
  <1>2. CASE VerifyRecovery
    <2> DEFINE svn == Svn(flash.recovery)
    <2>1. \/ ops' = <<>>
          \/ ImageOk(flash.recovery) /\ svn > ufm.svn["PCH"] /\ ops' = SvnOps("PCH", svn)
      BY <1>2 DEF VerifyRecovery
    <2>2. ASSUME ImageOk(flash.recovery), svn > ufm.svn["PCH"]
          PROVE  Fit(SvnOps("PCH", svn), phase')
      <3>1. flash.recovery \in DOMAIN Capsules
        BY <2>2 DEF ImageOk, Is
      <3>2. svn \in Nat /\ "PCH" \in Policies /\ ufm.svn["PCH"] \in Nat
        BY <3>1, CapsulesAssumption DEF Svn, Policies, Shapes
      <3>3. SvnOk("PCH", svn)
        BY <2>2, <3>2 DEF SvnOk
      <3> QED
        BY <3>2, <3>3, FitSvn
    <2> QED
      BY <2>1, <2>2, FitEmpty
  <1>3. CASE Recovery
    <2>1. ops' = <<>> \/ (phase' = "RECOVERY" /\ ops' = RecoverImage)
      BY <1>3 DEF Recovery, Idle
    <2>2. phase = "RECOVERY"
      BY <1>3 DEF Recovery, Idle
    <2> QED
      BY <2>1, <2>2, FitEmpty, FitRecover
  <1>4. CASE UpdatePch
    <2>1. Finish(flash.staging, UpdateOps(flash.staging), ram.upd.pend)
      BY <1>4 DEF UpdatePch
    <2> QED
      BY <2>1, FitUpdate, FitFinish
  <1>5. CASE EraseCurrent
    <2>1. ops' = EraseOps
      BY <1>5 DEF EraseCurrent, Begin
    <2> QED
      BY <2>1, PlainErase, FitPlain
  <1>r. ASSUME Refuse PROVE Fit(ops', phase')
    BY <1>r, FitEmpty, FitFinish DEF Refuse
  <1>6. CASE BootDone
    <2>1. \/ Refuse
          \/ Finish(pending.what, HrotUpdate(pending.what, "SECONDARY"), Nothing)
          \/ Begin(<<>>, "UPDATE_PCH")
      BY <1>6, Zenon DEF BootDone
    <2> QED
      BY <1>r, <2>1, FitEmpty, FitHrot, FitFinish DEF Begin
  <1>7. ASSUME NEW c, NEW r, RotRequest(c, r)
        PROVE  Fit(ops', phase')
    <2>1. Finish(c, HrotUpdate(c, "PRIMARY"), Pend("rotStaging", r, c))
      BY <1>7 DEF RotRequest
    <2> QED
      BY <2>1, FitHrot, FitFinish
  <1>8. ASSUME NEW c, NEW d, NEW r, PchRequest(c, d, r) \/ BmcRequest(c, d, r)
        PROVE  Fit(ops', phase')
    <2>1. Refuse \/ ops' = <<>> \/ ops' = StagePchOps(c)
      BY <1>8 DEF PchRequest, BmcRequest, Begin
    <2> QED
      BY <1>r, <2>1, FitEmpty, FitArea DEF StagePchOps, Areas
  <1>9. ASSUME NEW c, NEW sel, ProvisionImage(c, sel)
        PROVE  Fit(ops', phase')
    <2>1. ops' = HrotUpdate(c, sel)
      BY <1>9 DEF ProvisionImage, Begin
    <2> QED
      BY <2>1, FitHrot
  <1>10. CASE Tampers
    <2>1. ops' = <<>>
      BY <1>10 DEF Tampers, Tamper, Running
    <2> QED
      BY <2>1, FitEmpty
  <1> QED
    BY <1>1, <1>2, <1>3, <1>4, <1>5, <1>6, <1>7, <1>8, <1>9, <1>10, Zenon DEF Handlers, Requests

-----------------------------------------------------------------------------
(* The recovery image.  While active and recovery image are judged and       *)
(* repaired, a recovery image that is taken to be good is one.               *)

RecInv ==
  phase \in {"VERIFY_ACTIVE", "RECOVERY"} =>
    /\ ram.rec => flash.recovery \in DOMAIN Capsules
    /\ \A i \in DOMAIN ops : IsRec(ops[i]) => ops[i].what \in DOMAIN Capsules /\ ~ram.rec
    /\ \A i, j \in DOMAIN ops : IsRec(ops[i]) /\ ops[j] = Mark("rec") => i < j
    /\ \A j \in DOMAIN ops : ops[j] = Mark("rec") =>
         flash.recovery \in DOMAIN Capsules \/ \E i \in DOMAIN ops : IsRec(ops[i])

\* The queue of recover_image.
LEMMA RecoverImageOps ==
  ASSUME ram.rec => flash.recovery \in DOMAIN Capsules
  PROVE  /\ \A i \in DOMAIN RecoverImage : IsRec(RecoverImage[i]) =>
              RecoverImage[i].what \in DOMAIN Capsules /\ ~ram.rec
         /\ \A i, j \in DOMAIN RecoverImage :
              IsRec(RecoverImage[i]) /\ RecoverImage[j] = Mark("rec") => i < j
         /\ \A j \in DOMAIN RecoverImage : RecoverImage[j] = Mark("rec") =>
              \E i \in DOMAIN RecoverImage : IsRec(RecoverImage[i])
         /\ \A j \in DOMAIN RecoverImage : RecoverImage[j].op # "eraseUfm"
  <1>m. Mark("rec").op = "mark" /\ Mark("rec").which = "rec" /\ Mark("act").op = "mark" /\ Mark("act").which = "act"
    BY DEF Mark
  <1>1. CASE RecoverImage = <<>>
    BY <1>1, QueueShort
  <1>2. CASE ram.rec /\ RecoverImage = RecoverActiveOps(flash.recovery) \o <<Mark("act")>>
    <2> DEFINE q == RecoverActiveOps(flash.recovery)
    <2>1. Queue(q) /\ \A i \in DOMAIN q : q[i].op = "sec"
      BY <1>2, RecoverQueue DEF WriteSec
    <2> DEFINE o == Mark("act")
    <2>2. Queue(<<o>>) /\ DOMAIN <<o>> = {1} /\ <<o>>[1] = o
      BY QueueShort
    <2> HIDE DEF q, o
    <2>3. \A i \in DOMAIN (q \o <<o>>) : (q \o <<o>>)[i].op = "sec" \/ (q \o <<o>>)[i] = o
      <3>1. /\ Len(q) \in Nat
            /\ \A i \in DOMAIN q : (q \o <<o>>)[i] = q[i]
            /\ \A i \in DOMAIN <<o>> : (q \o <<o>>)[Len(q) + i] = <<o>>[i]
            /\ \A i \in DOMAIN (q \o <<o>>) :
                 i \in Nat /\ (i \in DOMAIN q \/ (i > Len(q) /\ i - Len(q) \in DOMAIN <<o>>))
        <4>1. Joined(q, <<o>>, q \o <<o>>)
          BY <2>1, <2>2, QueueConcat
        <4> QED
          BY <4>1 DEF Joined
      <3>2. \A i \in DOMAIN (q \o <<o>>) : i \in DOMAIN q \/ i = Len(q) + 1
        BY <2>2, <3>1
      <3> QED
        BY <2>1, <2>2, <3>1, <3>2
    <2>4. ~IsRec(o) /\ o # Mark("rec") /\ o.op # "eraseUfm"
      BY <1>m DEF IsRec, o
    <2>5. \A i \in DOMAIN RecoverImage :
            ~IsRec(RecoverImage[i]) /\ RecoverImage[i] # Mark("rec") /\ RecoverImage[i].op # "eraseUfm"
      BY <1>2, <1>m, <2>3, <2>4 DEF IsRec, q, o
    <2> QED
      BY <2>5
  <1>3. ASSUME NEW c \in DOMAIN Capsules, ~ram.rec,
               RecoverImage \in {<<>> \o RecoverRecoveryOps(c) \o <<Mark("rec")>>,
                                 StagePchOps(c) \o RecoverRecoveryOps(c) \o <<Mark("rec")>>}
        PROVE  \E a \in {"recovery"}, b \in {"staging"} :
                 \/ RecoverImage = <<WriteArea(a, c), Mark("rec")>>
                 \/ RecoverImage = <<WriteArea(b, c), WriteArea(a, c), Mark("rec")>>
    BY <1>3 DEF RecoverRecoveryOps, StagePchOps
  <1>4. ASSUME NEW c \in DOMAIN Capsules, ~ram.rec, RecoverImage = <<WriteArea("recovery", c), Mark("rec")>>
        PROVE  /\ \A i \in DOMAIN RecoverImage : IsRec(RecoverImage[i]) =>
                    RecoverImage[i].what \in DOMAIN Capsules /\ ~ram.rec
               /\ \A i, j \in DOMAIN RecoverImage :
                    IsRec(RecoverImage[i]) /\ RecoverImage[j] = Mark("rec") => i < j
               /\ \A j \in DOMAIN RecoverImage : RecoverImage[j] = Mark("rec") =>
                    \E i \in DOMAIN RecoverImage : IsRec(RecoverImage[i])
               /\ \A j \in DOMAIN RecoverImage : RecoverImage[j].op # "eraseUfm"
    <2> DEFINE a == WriteArea("recovery", c)
               b == Mark("rec")
    <2>1. a.op = "area" /\ a.area = "recovery" /\ a.what = c /\ b.op = "mark"
      BY DEF WriteArea, Mark
    <2>2. DOMAIN <<a, b>> = {1, 2} /\ <<a, b>>[1] = a /\ <<a, b>>[2] = b
      BY QueueShort
    <2>3. RecoverImage = <<a, b>>
      BY <1>4
    <2> HIDE DEF a
    <2>4. a # b /\ IsRec(a) /\ ~IsRec(b)
      BY <2>1 DEF IsRec
    <2> QED
      BY <1>4, <2>1, <2>2, <2>3, <2>4
  <1>5. ASSUME NEW c \in DOMAIN Capsules, ~ram.rec,
               RecoverImage = <<WriteArea("staging", c), WriteArea("recovery", c), Mark("rec")>>
        PROVE  /\ \A i \in DOMAIN RecoverImage : IsRec(RecoverImage[i]) =>
                    RecoverImage[i].what \in DOMAIN Capsules /\ ~ram.rec
               /\ \A i, j \in DOMAIN RecoverImage :
                    IsRec(RecoverImage[i]) /\ RecoverImage[j] = Mark("rec") => i < j
               /\ \A j \in DOMAIN RecoverImage : RecoverImage[j] = Mark("rec") =>
                    \E i \in DOMAIN RecoverImage : IsRec(RecoverImage[i])
               /\ \A j \in DOMAIN RecoverImage : RecoverImage[j].op # "eraseUfm"
    <2> DEFINE s == WriteArea("staging", c)
               a == WriteArea("recovery", c)
               b == Mark("rec")
    <2>1. /\ s.op = "area" /\ s.area = "staging" /\ a.op = "area" /\ a.area = "recovery" /\ a.what = c
          /\ b.op = "mark"
      BY DEF WriteArea, Mark
    <2>2. /\ DOMAIN <<s, a, b>> = {1, 2, 3}
          /\ <<s, a, b>>[1] = s /\ <<s, a, b>>[2] = a /\ <<s, a, b>>[3] = b
      BY QueueShort
    <2>3. RecoverImage = <<s, a, b>>
      BY <1>5
    <2> HIDE DEF s, a
    <2>4. a # b /\ s # b /\ IsRec(a) /\ ~IsRec(b) /\ ~IsRec(s)
      BY <2>1 DEF IsRec
    <2> QED
      BY <1>5, <2>1, <2>2, <2>3, <2>4
  <1> DEFINE staged == ImageOk(flash.staging)
             fetch  == ~staged /\ ~ram.act /\ ImageOk(flash.bmcStaging)
             from   == IF staged THEN flash.staging ELSE flash.bmcStaging
  <1>6. CASE RecoverImage # <<>> /\ ~ram.rec
    <2>1. /\ (staged /\ (ram.act => StagedMatchesActive)) \/ fetch
          /\ RecoverImage = (IF fetch THEN StagePchOps(from) ELSE <<>>) \o RecoverRecoveryOps(from) \o <<Mark("rec")>>
      BY <1>6, Zenon DEF RecoverImage
    <2>2. from \in DOMAIN Capsules
      BY <2>1 DEF ImageOk, Is
    <2>3. RecoverImage \in {<<>> \o RecoverRecoveryOps(from) \o <<Mark("rec")>>,
                            StagePchOps(from) \o RecoverRecoveryOps(from) \o <<Mark("rec")>>}
      BY <2>1, Zenon
    <2> HIDE DEF from
    <2> QED
      BY <1>3, <1>4, <1>5, <1>6, <2>2, <2>3
  <1>7. ram.rec => \/ RecoverImage = <<>>
                   \/ RecoverImage = RecoverActiveOps(flash.recovery) \o <<Mark("act")>>
    BY DEF RecoverImage
  <1> QED
    BY <1>1, <1>2, <1>6, <1>7

FloorInv == Shapes /\ Fit(ops, phase) /\ RecInv

\* What is at the head of a queue, and what is behind it.
LEMMA HeadOf ==
  ASSUME FloorInv, ops # <<>>
  PROVE  /\ Queue(ops) /\ Queue(Tail(ops)) /\ 1 \in DOMAIN ops /\ Head(ops) = ops[1]
         /\ Fits(Head(ops), phase)
         /\ \A i \in DOMAIN Tail(ops) : i \in Nat /\ i >= 1 /\ i + 1 \in DOMAIN ops /\ Tail(ops)[i] = ops[i + 1]
         /\ \A i \in DOMAIN ops : i \in Nat /\ (i = 1 \/ (i - 1 \in DOMAIN Tail(ops) /\ Tail(ops)[i - 1] = ops[i]))
  <1>1. Queue(ops)
    BY DEF FloorInv, Fit
  <1>2. 1 \in DOMAIN ops /\ Head(ops) = ops[1]
    BY <1>1, QueueTail
  <1> QED
    BY <1>1, <1>2, QueueTail DEF FloorInv, Fit

LEMMA RecHandlers ==
  ASSUME FloorInv, Handlers
  PROVE  RecInv'
  <1> SUFFICES ASSUME phase' \in {"VERIFY_ACTIVE", "RECOVERY"} PROVE RecInv'
    BY DEF RecInv
  <1>f. Frame
    BY HandlersFrame DEF FloorInv
  <1>1. CASE VerifyRecovery
    <2>1. ops' \in {<<>>, <<SetSvn("PCH", Svn(flash.recovery))>>}
      BY <1>1 DEF VerifyRecovery, SvnOps
    <2>2. \A i \in DOMAIN ops' : ops'[i].op = "svn"
      <3> DEFINE o == SetSvn("PCH", Svn(flash.recovery))
      <3>1. o.op = "svn"
        BY DEF SetSvn
      <3> HIDE DEF o
      <3>2. DOMAIN <<o>> = {1} /\ <<o>>[1] = o /\ DOMAIN <<>> = {}
        BY QueueShort
      <3> QED
        BY <2>1, <3>1, <3>2 DEF o
    <2>3. \A i \in DOMAIN ops' : ~IsRec(ops'[i]) /\ ops'[i] # Mark("rec")
      BY <2>2 DEF IsRec, Mark
    <2>4. ram'.rec => flash'.recovery \in DOMAIN Capsules
      <3>1. ram' = [ram EXCEPT !.rec = ImageOk(flash.recovery)] /\ flash' = flash
        BY <1>1, Zenon DEF VerifyRecovery, Unchanged
      <3>2. ram'.rec = ImageOk(flash.recovery)
        BY <3>1 DEF FloorInv, Shapes
      <3> QED
        BY <3>1, <3>2 DEF ImageOk, Is
    <2> QED
      BY <2>3, <2>4 DEF RecInv, IsRec
  <1>2. CASE VerifyActive
    <2>1. ops' = <<>> /\ flash' = flash /\ phase = "VERIFY_ACTIVE"
      BY <1>2 DEF VerifyActive, Idle, Unchanged
    <2>2. ram'.rec = ram.rec
      <3>1. \E a, r, v, c, n : ram' = [ram EXCEPT !.act = a, !.restrict = r, !.recovered = v, !.clear = c, !.calls = n]
        BY <1>2, Zenon DEF VerifyActive
      <3> QED
        BY <3>1 DEF FloorInv, Shapes
    <2> QED
      BY <2>1, <2>2, QueueShort DEF RecInv, FloorInv
  <1>3. CASE Recovery
    <2>1. phase = "RECOVERY" /\ ops' = RecoverImage /\ flash' = flash
      BY <1>3 DEF Recovery, Idle
    <2>2. ram'.rec = ram.rec
      <3>1. \E n, r : ram' = [ram EXCEPT !.calls = n, !.restrict = r]
        BY <1>3, <2>1, Zenon DEF Recovery
      <3> QED
        BY <3>1 DEF FloorInv, Shapes
    <2>3. ram.rec => flash.recovery \in DOMAIN Capsules
      BY <2>1 DEF RecInv, FloorInv
    <2> HIDE DEF FloorInv
    <2> QED
      BY <2>1, <2>2, <2>3, RecoverImageOps DEF RecInv, IsRec
  <1> QED
    <2>1. ~VerifyKeys /\ ~UpdatePch /\ ~EraseCurrent /\ ~Reset /\ ~BootDone /\ ~Requests /\ ~Tampers
      BY DEF VerifyKeys, UpdatePch, EraseCurrent, Reset, BootDone, Requests, RotRequest, PchRequest, BmcRequest,
             ProvisionImage, Tampers, Tamper, Running, Finish, Begin, Refuse
    <2> QED
      BY <1>1, <1>2, <1>3, <2>1 DEF Handlers

LEMMA RecStep ==
  ASSUME FloorInv, [Next]_vars
  PROVE  RecInv'
  <1> SUFFICES ASSUME phase' \in {"VERIFY_ACTIVE", "RECOVERY"} PROVE RecInv'
    BY DEF RecInv
  <1>1. CASE OpDone
    <2> DEFINE o == Head(ops)
               rest == Tail(ops)
    <2>1. ops # <<>> /\ Done(o) /\ ops' = rest /\ phase' = phase
      BY <1>1 DEF OpDone
    <2>2. /\ 1 \in DOMAIN ops /\ o = ops[1] /\ Fits(o, phase)
          /\ \A i \in DOMAIN rest : i \in Nat /\ i >= 1 /\ i + 1 \in DOMAIN ops /\ rest[i] = ops[i + 1]
          /\ \A i \in DOMAIN ops : i \in Nat /\ (i = 1 \/ (i - 1 \in DOMAIN rest /\ rest[i - 1] = ops[i]))
      BY <2>1, HeadOf
    <2>3. flash'.recovery = IF IsRec(o) THEN o.what ELSE flash.recovery
      BY <2>1, <2>2, DoneEffect DEF FloorInv
    <2>4. ram'.rec = ram.rec \/ (o = Mark("rec") /\ ram'.rec = TRUE)
      <3>1. ram' \in {ram, [ram EXCEPT !.act = TRUE]} \/ (o = Mark("rec") /\ ram' = [ram EXCEPT !.rec = TRUE])
        BY <1>1 DEF OpDone, Mark
      <3> QED
        BY <3>1 DEF FloorInv, Shapes
    <2>5. /\ ram.rec => flash.recovery \in DOMAIN Capsules
          /\ \A i \in DOMAIN ops : IsRec(ops[i]) => ops[i].what \in DOMAIN Capsules /\ ~ram.rec
          /\ \A i, j \in DOMAIN ops : IsRec(ops[i]) /\ ops[j] = Mark("rec") => i < j
          /\ \A j \in DOMAIN ops : ops[j] = Mark("rec") =>
               flash.recovery \in DOMAIN Capsules \/ \E i \in DOMAIN ops : IsRec(ops[i])
      BY <2>1 DEF RecInv, FloorInv
    <2> HIDE DEF o, rest
    <2>6. o = Mark("rec") => flash.recovery \in DOMAIN Capsules /\ ~IsRec(o)
      <3>1. ASSUME o = Mark("rec"), NEW i \in DOMAIN ops, IsRec(ops[i]) PROVE FALSE
        <4>1. i < 1
          BY <2>2, <2>5, <3>1
        <4> QED
          BY <2>2, <4>1
      <3> QED
        BY <2>2, <2>5, <3>1
    <2>7. ram'.rec => flash'.recovery \in DOMAIN Capsules
      BY <2>2, <2>3, <2>4, <2>5, <2>6
    <2>8. ASSUME NEW i \in DOMAIN rest, IsRec(rest[i])
          PROVE  rest[i].what \in DOMAIN Capsules /\ ~ram'.rec
      <3>1. i + 1 \in DOMAIN ops /\ IsRec(ops[i + 1]) /\ rest[i] = ops[i + 1] /\ i >= 1 /\ i \in Nat
        BY <2>2, <2>8
      <3>2. o # Mark("rec")
        <4>1. SUFFICES ASSUME o = Mark("rec") PROVE FALSE
          OBVIOUS
        <4>2. i + 1 < 1
          BY <2>2, <2>5, <3>1, <4>1
        <4> QED
          BY <3>1, <4>2
      <3> QED
        BY <2>4, <2>5, <3>1, <3>2
    <2>9. ASSUME NEW i \in DOMAIN rest, NEW j \in DOMAIN rest, IsRec(rest[i]), rest[j] = Mark("rec")
          PROVE  i < j
      <3>1. i + 1 < j + 1
        BY <2>2, <2>5, <2>9
      <3> QED
        BY <2>2, <3>1
    <2>10. ASSUME NEW j \in DOMAIN rest, rest[j] = Mark("rec")
           PROVE  flash'.recovery \in DOMAIN Capsules \/ \E i \in DOMAIN rest : IsRec(rest[i])
      <3>1. flash.recovery \in DOMAIN Capsules \/ \E i \in DOMAIN ops : IsRec(ops[i])
        BY <2>2, <2>5, <2>10
      <3>2. CASE IsRec(o)
        BY <2>2, <2>3, <2>5, <3>2
      <3>3. CASE ~IsRec(o) /\ flash.recovery \in DOMAIN Capsules
        BY <2>3, <3>3
      <3>4. ASSUME ~IsRec(o), NEW i \in DOMAIN ops, IsRec(ops[i])
            PROVE  \E k \in DOMAIN rest : IsRec(rest[k])
        <4>1. i - 1 \in DOMAIN rest /\ rest[i - 1] = ops[i]
          BY <2>2, <3>4
        <4> QED
          BY <3>4, <4>1
      <3> QED
        BY <3>1, <3>2, <3>3, <3>4
    <2>11. ops' = rest
      BY <2>1
    <2> QED
      BY <2>7, <2>8, <2>9, <2>10, <2>11 DEF RecInv, IsRec
  <1>2. CASE OpFails
    <2>1. ops # <<>> /\ phase' = phase /\ ops' = <<>> /\ ram' = ram /\ (Torn(Head(ops)) \/ Same)
      BY <1>2 DEF OpFails
    <2>2. 1 \in DOMAIN ops /\ Head(ops) = ops[1] /\ Fits(Head(ops), phase)
      BY <2>1, HeadOf
    <2>3. ram.rec => ~IsRec(Head(ops)) /\ flash.recovery \in DOMAIN Capsules
      BY <2>1, <2>2 DEF RecInv, FloorInv
    <2>4. flash'.recovery = flash.recovery \/ IsRec(Head(ops))
      <3>1. CASE Same
        BY <3>1 DEF Same
      <3>2. CASE Torn(Head(ops))
        BY <2>2, <3>2, TornEffect DEF FloorInv
      <3> QED
        BY <2>1, <3>1, <3>2
    <2> QED
      BY <2>1, <2>3, <2>4, QueueShort DEF RecInv
  <1>3. CASE PowerCut
    BY <1>3 DEF PowerCut
  <1>4. CASE UNCHANGED vars
    BY <1>4 DEF FloorInv, RecInv, vars, IsRec
  <1> QED
    BY <1>1, <1>2, <1>3, <1>4, NextSteps, RecHandlers

-----------------------------------------------------------------------------
(* The steps.                                                              *)

LEMMA FloorInit == Init => FloorInv
  <1> SUFFICES ASSUME Init PROVE FloorInv
    OBVIOUS
  <1>1. Shapes
    BY ScenariosAssumption DEF Init, Shapes, FreshRam
  <1>2. ops = <<>> /\ phase = "VERIFY"
    BY DEF Init
  <1> QED
    BY <1>1, <1>2, FitEmpty DEF FloorInv, RecInv

\* A write that is done leaves the floors at least where they were, and what is
\* left fits them.
FloorsKept == ufm'.parts # {} => \A p \in Policies : ufm'.svn[p] >= ufm.svn[p]

LEMMA FloorDone ==
  ASSUME FloorInv, OpDone
  PROVE  Shapes' /\ Fit(ops, phase)' /\ FloorsKept
  <1> DEFINE o == Head(ops)
             rest == Tail(ops)
  <1>1. ops # <<>> /\ Done(o) /\ ops' = rest /\ phase' = phase
    BY DEF OpDone
  <1>2. /\ Queue(rest) /\ 1 \in DOMAIN ops /\ o = ops[1] /\ Fits(o, phase)
        /\ \A i \in DOMAIN rest : i \in Nat /\ i >= 1 /\ i + 1 \in DOMAIN ops /\ rest[i] = ops[i + 1]
    BY <1>1, HeadOf
  <1>3. Shapes /\ \A i \in DOMAIN ops : Fits(ops[i], phase)
    BY DEF FloorInv, Fit
  <1>4. \A i, j \in DOMAIN ops : ops[i].op = "svn" /\ ops[j].op \in {"svn", "sec"} => i = j
    BY DEF FloorInv, Fit
  <1>5. DOMAIN ram' = DOMAIN ram
    <2>1. ram' \in {ram, [ram EXCEPT !.act = TRUE], [ram EXCEPT !.rec = TRUE]}
      BY DEF OpDone, Mark
    <2> QED
      BY <2>1
  <1> HIDE DEF o, rest
  <1>6. /\ DOMAIN ufm' = {"parts", "cancelled", "svn"} /\ ufm'.svn \in [Policies -> Nat]
        /\ DOMAIN flash' = Areas \cup {"active"} /\ DOMAIN flash'.active = Secs
        /\ o.op \notin {"svn", "eraseUfm"} => ufm'.svn = ufm.svn
        /\ o.op = "svn" => ufm'.svn = [ufm.svn EXCEPT ![o.policy] = o.svn]
        /\ o.op = "eraseUfm" => ufm' = ErasedUfm
    BY <1>1, <1>2, <1>3, DoneEffect
  <1>7. Shapes'
    BY <1>3, <1>5, <1>6 DEF Shapes
  <1>8. ufm.svn \in [Policies -> Nat]
    BY <1>3 DEF Shapes
  <1>9. FloorsKept
    <2>1. CASE o.op = "eraseUfm"
      BY <1>6, <2>1 DEF FloorsKept, ErasedUfm
    <2>2. CASE o.op = "svn"
      BY <1>2, <1>6, <1>8, <2>2 DEF FloorsKept, Fits
    <2>3. CASE o.op \notin {"svn", "eraseUfm"}
      BY <1>6, <1>8, <2>3 DEF FloorsKept
    <2> QED
      BY <2>1, <2>2, <2>3
  <1>10. \A i \in DOMAIN rest : i + 1 # 1
    BY <1>2
  <1>11. ASSUME NEW i \in DOMAIN rest
         PROVE  LET e == rest[i]
                IN  /\ e.op = "area" => e.area \in Areas
                    /\ e.op = "svn" => e.policy \in Policies /\ e.svn \in Nat /\ e.svn >= ufm'.svn[e.policy]
                    /\ phase = "VERIFY" /\ e.op = "sec" /\ e.what \in Images => Svn(e.what) >= ufm'.svn["PCH"]
    <2> DEFINE e == rest[i]
    <2>1. Fits(e, phase) /\ e = ops[i + 1] /\ i + 1 \in DOMAIN ops
      BY <1>2, <1>3
    <2> HIDE DEF e
    <2>2. CASE o.op = "svn"
      <3>1. e.op \notin {"svn", "sec"}
        BY <1>2, <1>4, <1>10, <2>1, <2>2
      <3> QED
        BY <2>1, <3>1 DEF Fits, e
    <2>3. CASE o.op = "eraseUfm"
      <3>1. ufm'.svn = [p \in Policies |-> 0]
        BY <1>6, <2>3 DEF ErasedUfm
      <3>2. e.op = "svn" => e.policy \in Policies /\ e.svn \in Nat /\ e.svn >= ufm'.svn[e.policy]
        BY <2>1, <3>1 DEF Fits
      <3>3. e.op = "sec" /\ e.what \in Images => Svn(e.what) >= ufm'.svn["PCH"]
        BY <3>1, CapsulesAssumption DEF Images, Svn, Policies
      <3> QED
        BY <2>1, <3>2, <3>3 DEF Fits, e
    <2>4. CASE o.op \notin {"svn", "eraseUfm"}
      BY <1>6, <2>1, <2>4 DEF Fits, e
    <2> QED
      BY <2>2, <2>3, <2>4
  <1>12. \A i, j \in DOMAIN rest : rest[i].op = "svn" /\ rest[j].op \in {"svn", "sec"} => i = j
    <2> SUFFICES ASSUME NEW i \in DOMAIN rest, NEW j \in DOMAIN rest,
                        rest[i].op = "svn", rest[j].op \in {"svn", "sec"}
                 PROVE  i = j
      OBVIOUS
    <2>1. i + 1 = j + 1
      BY <1>2, <1>4
    <2> QED
      BY <1>2, <2>1
  <1>13. Fit(ops, phase)'
    <2>1. ops' = rest /\ phase' = phase
      BY <1>1
    <2>2. \A i \in DOMAIN rest : Fits(ops[i], phase)'
      BY <1>11, <2>1 DEF Fits, Images, Svn
    <2> QED
      BY <1>2, <1>12, <2>1, <2>2 DEF Fit, Queue
  <1> QED
    BY <1>7, <1>9, <1>13

FloorAction ==
  ~lost' /\ ufm'.parts # {} =>
     /\ \A p \in Policies : ufm'.svn[p] >= ufm.svn[p]
     /\ phase = "VERIFY" /\ flash'.active["pfm"] # flash.active["pfm"] /\ flash'.active["pfm"] \in Images =>
          Capsules[flash'.active["pfm"]].svn >= ufm.svn["PCH"]

LEMMA TornIsNoImage == "torn" \notin DOMAIN Capsules /\ "blank" \notin DOMAIN Capsules /\ "none" \notin DOMAIN Capsules
  BY CapsulesAssumption

\* A write that is interrupted, with or without a trace, and given up.
LEMMA FloorTorn ==
  ASSUME Shapes, NEW o, NEW ph, Fits(o, ph), Torn(o) \/ Same
  PROVE  /\ DOMAIN ufm' = {"parts", "cancelled", "svn"} /\ ufm'.svn \in [Policies -> Nat]
         /\ DOMAIN flash' = Areas \cup {"active"} /\ DOMAIN flash'.active = Secs
         /\ ~IsUfm(o) => ufm' = ufm
         /\ flash'.active["pfm"] \in {flash.active["pfm"], "torn"}
  <1>1. CASE Same
    BY <1>1 DEF Same, Shapes
  <1>2. CASE Torn(o)
    BY <1>2, TornEffect DEF Shapes, Secs
  <1> QED
    BY <1>1, <1>2

LEMMA FloorFails ==
  ASSUME FloorInv, OpFails
  PROVE  Shapes' /\ Fit(ops, phase)' /\ FloorAction
  <1> DEFINE o == Head(ops)
             e == SetPending(Nothing)
  <1>1. /\ ops # <<>> /\ o.op \in {"keym", "sec", "area"} /\ (Torn(o) \/ Same) /\ ram' = ram
        /\ ops' = <<e>> \/ ops' = <<>>
    BY DEF OpFails
  <1>2. Shapes /\ Fits(o, phase)
    BY <1>1, HeadOf DEF FloorInv
  <1>3. e.op = "pending"
    BY DEF SetPending
  <1> HIDE DEF o, e
  <1>4. /\ DOMAIN ufm' = {"parts", "cancelled", "svn"} /\ ufm'.svn \in [Policies -> Nat]
        /\ DOMAIN flash' = Areas \cup {"active"} /\ DOMAIN flash'.active = Secs
        /\ ufm' = ufm
        /\ flash'.active["pfm"] \in {flash.active["pfm"], "torn"}
    BY <1>1, <1>2, FloorTorn DEF IsUfm
  <1>5. Shapes'
    BY <1>1, <1>2, <1>4 DEF Shapes
  <1>6. Fit(ops', phase')
    BY <1>1, <1>3, FitEmpty, FitOther
  <1>7. Fit(ops, phase)'
    BY <1>4, <1>6 DEF Fit, Fits, Queue, Images, Svn
  <1>8. FloorAction
    BY <1>2, <1>4, TornIsNoImage DEF FloorAction, Images, Shapes
  <1> QED
    BY <1>5, <1>7, <1>8

LEMMA FloorCut ==
  ASSUME FloorInv, PowerCut
  PROVE  Shapes' /\ Fit(ops, phase)' /\ FloorAction
  <1>1. ops' = <<>> /\ ram' = FreshRam
    BY DEF PowerCut
  <1>2. \/ Same
        \/ ops # <<>> /\ Torn(Head(ops)) /\ (IsUfm(Head(ops)) => lost')
    BY DEF PowerCut
  <1>3. Shapes
    BY DEF FloorInv
  <1>4. /\ DOMAIN ufm' = {"parts", "cancelled", "svn"} /\ ufm'.svn \in [Policies -> Nat]
        /\ DOMAIN flash' = Areas \cup {"active"} /\ DOMAIN flash'.active = Secs
        /\ lost' \/ ufm' = ufm
        /\ flash'.active["pfm"] \in {flash.active["pfm"], "torn"}
    <2>1. CASE Same
      BY <1>3, <2>1 DEF Same, Shapes
    <2>2. CASE ops # <<>> /\ Torn(Head(ops)) /\ (IsUfm(Head(ops)) => lost')
      BY <1>3, <2>2, HeadOf, FloorTorn
    <2> QED
      BY <1>2, <2>1, <2>2
  <1>5. Shapes'
    BY <1>1, <1>4 DEF Shapes, FreshRam
  <1>6. Fit(ops', phase')
    BY <1>1, FitEmpty
  <1>7. Fit(ops, phase)'
    BY <1>1, QueueShort DEF Fit, Queue
  <1>8. FloorAction
    BY <1>3, <1>4, TornIsNoImage DEF FloorAction, Images, Shapes
  <1> QED
    BY <1>5, <1>7, <1>8

LEMMA FloorStep ==
  ASSUME FloorInv, [Next]_vars
  PROVE  FloorInv' /\ FloorAction
  <1>1. RecInv'
    BY RecStep
  <1>2. CASE Handlers
    <2>1. Frame
      BY <1>2, HandlersFrame DEF FloorInv
    <2>2. Fit(ops', phase')
      BY <1>2, HandlersFit DEF FloorInv, RecInv
    <2>3. Fit(ops, phase)'
      BY <2>1, <2>2 DEF Frame, Fit, Fits, Queue, Images, Svn
    <2>4. Shapes'
      BY <2>1 DEF Frame, FloorInv, Shapes
    <2>5. FloorAction
      BY <2>1 DEF Frame, FloorAction, FloorInv, Shapes
    <2> QED
      BY <1>1, <2>3, <2>4, <2>5 DEF FloorInv
  <1>3. CASE OpDone
    <2>1. Shapes' /\ Fit(ops, phase)' /\ FloorsKept
      BY <1>3, FloorDone
    <2>2. ASSUME phase = "VERIFY", flash'.active["pfm"] # flash.active["pfm"], flash'.active["pfm"] \in Images
          PROVE  Capsules[flash'.active["pfm"]].svn >= ufm.svn["PCH"]
      <3> DEFINE o == Head(ops)
      <3>1. ops # <<>> /\ Done(o)
        BY <1>3 DEF OpDone
      <3>2. Shapes /\ Fits(o, phase)
        BY <3>1, HeadOf DEF FloorInv
      <3> HIDE DEF o
      <3>3. /\ o.op # "sec" => flash'.active = flash.active
            /\ o.op = "sec" => flash'.active = [flash.active EXCEPT ![o.sec] = o.what]
        BY <3>1, <3>2, DoneEffect
      <3>4. o.op = "sec" /\ flash'.active["pfm"] = o.what
        BY <2>2, <3>2, <3>3 DEF Shapes, Secs
      <3> QED
        BY <2>2, <3>2, <3>4 DEF Fits, Svn
    <2> QED
      BY <1>1, <2>1, <2>2 DEF FloorInv, FloorAction, FloorsKept
  <1>4. CASE OpFails
    BY <1>1, <1>4, FloorFails DEF FloorInv
  <1>5. CASE PowerCut
    BY <1>1, <1>5, FloorCut DEF FloorInv
  <1>6. CASE UNCHANGED vars
    <2>1. UNCHANGED <<ufm, flash, ops, phase, ram>>
      BY <1>6 DEF vars
    <2>2. Shapes' /\ Fit(ops, phase)'
      BY <2>1 DEF FloorInv, Shapes, Fit, Fits, Queue, Images, Svn
    <2>3. FloorAction
      BY <2>1 DEF FloorInv, Shapes, FloorAction
    <2> QED
      BY <1>1, <2>2, <2>3 DEF FloorInv
  <1> QED
    BY <1>2, <1>3, <1>4, <1>5, <1>6, NextSteps

\* What is queued fits the floors, in every reachable state.
THEOREM FloorInvariant == Spec => []FloorInv
  <1>1. FloorInv /\ [Next]_vars => FloorInv'
    BY FloorStep
  <1> QED
    BY <1>1, FloorInit, PTL DEF Spec

\* Anti-rollback, for any capsules, manifests and slots: unless the UFM is
\* erased or a write of it interrupted, a floor never falls and no update
\* writes an image below it (svn_policy_verify, set_ufm_svn).
THEOREM FloorsHold == Spec => FloorHolds
  <1>1. FloorInv /\ [Next]_vars => FloorAction
    BY FloorStep
  <1> QED
    BY <1>1, FloorInvariant, PTL DEF Spec, FloorHolds, FloorAction

-----------------------------------------------------------------------------
(* Key manifests.  What a queue will leave in the slots, and what makes     *)
(* their contents good: they are filled in order, and every key that was    *)
(* cancelled has its bit at the first slot that lists it.                   *)

Prec(o)       == o.op \in {"keym", "part"}
Touches(o, s) == o.op = "keym" /\ s \in o.slots
After(q, km)  ==
  [s \in Slot |-> LET hits == {i \in DOMAIN q : Touches(q[i], s)}
                  IN IF hits = {} THEN km[s] ELSE q[Max(hits)].what]

Has(w, key) == w \in DOMAIN Manifests /\ \E i \in DOMAIN Manifests[w].keys : Manifests[w].keys[i] = key
FirstPlace(km, s, i, key) ==
  /\ s \in Slot /\ km[s] \in DOMAIN Manifests /\ i \in DOMAIN Manifests[km[s]].keys
  /\ Manifests[km[s]].keys[i] = key /\ \A t \in Slot : t < s => ~Has(km[t], key)
Filled(km) ==
  /\ \A s \in Slot : km[s] \in DOMAIN Manifests \cup {Blank}
  /\ \A t, u \in Slot : t < u /\ km[u] # Blank => km[t] # Blank
Kept(km, u, d) ==
  \A x \in d : \E s \in Slot, i \in Nat : FirstPlace(km, s, i, x[2]) /\ <<x[1], s, i - 1>> \in u.cancelled
Good(km, u, d) == Filled(km) /\ Kept(km, u, d) /\ (km[0] = Blank => u.parts = {})

Touch(q, s, i) == i \in DOMAIN q /\ Touches(q[i], s) /\ \A j \in DOMAIN q : Touches(q[j], s) => j <= i

LEMMA GreatestElement ==
  ASSUME NEW n \in Nat, NEW S \in SUBSET (1..n), S # {}
  PROVE  Max(S) \in S /\ \A x \in S : x <= Max(S)
  <1> DEFINE T == {n - x : x \in S}
  <1>1. T \subseteq Nat /\ T # {}
    <2>1. \A x \in S : n - x \in Nat
      OBVIOUS
    <2>2. PICK x \in S : TRUE
      OBVIOUS
    <2>3. n - x \in T
      OBVIOUS
    <2> QED
      BY <2>1, <2>3
  <1>2. Min(T) \in T /\ \A y \in T : Min(T) <= y
    <2> HIDE DEF T
    <2> QED
      BY <1>1, LeastElement
  <1>3. PICK x \in S : Min(T) = n - x
    BY <1>2
  <1>4. \A y \in S : x >= y
    <2> TAKE y \in S
    <2>1. n - y \in T
      OBVIOUS
    <2>2. n - x <= n - y
      BY <1>2, <1>3, <2>1
    <2> QED
      BY <2>2
  <1>5. \E z \in S : \A y \in S : z >= y
    BY <1>4
  <1>6. Max(S) \in S /\ \A y \in S : Max(S) >= y
    BY <1>5 DEF Max
  <1>7. S \subseteq Int
    OBVIOUS
  <1> QED
    BY <1>6, <1>7

LEMMA AfterCases ==
  ASSUME NEW q, NEW km, NEW s \in Slot, Queue(q)
  PROVE  /\ (\A i \in DOMAIN q : ~Touches(q[i], s)) => After(q, km)[s] = km[s]
         /\ \A i \in DOMAIN q : Touch(q, s, i) => After(q, km)[s] = q[i].what
         /\ (\A i \in DOMAIN q : ~Touches(q[i], s)) \/ \E i \in DOMAIN q : Touch(q, s, i)
  <1> DEFINE hits == {i \in DOMAIN q : Touches(q[i], s)}
  <1>1. After(q, km)[s] = IF hits = {} THEN km[s] ELSE q[Max(hits)].what
    BY DEF After
  <1>2. Len(q) \in Nat /\ DOMAIN q = 1..Len(q)
    BY QueueParts
  <1>3. hits # {} => Max(hits) \in hits /\ \A x \in hits : x <= Max(hits)
    <2>1. hits \in SUBSET (1..Len(q))
      BY <1>2
    <2> HIDE DEF hits
    <2> QED
      BY <1>2, <2>1, GreatestElement
  <1>4. ASSUME NEW i \in DOMAIN q, Touch(q, s, i)
        PROVE  After(q, km)[s] = q[i].what
    <2>1. i \in hits /\ \A x \in hits : x <= i
      BY <1>4 DEF Touch
    <2>2. Max(hits) = i
      <3>1. hits \subseteq Int
        BY <1>2
      <3> HIDE DEF hits
      <3>2. Max(hits) \in Int /\ i \in Int /\ Max(hits) <= i /\ i <= Max(hits)
        BY <1>3, <2>1, <3>1
      <3> QED
        BY <3>2
    <2> QED
      BY <1>1, <2>1, <2>2
  <1>5. (\A i \in DOMAIN q : ~Touches(q[i], s)) => After(q, km)[s] = km[s]
    BY <1>1
  <1>6. (\A i \in DOMAIN q : ~Touches(q[i], s)) \/ \E i \in DOMAIN q : Touch(q, s, i)
    BY <1>3 DEF Touch
  <1> QED
    BY <1>4, <1>5, <1>6

\* Without a write to a slot.
LEMMA AfterDry ==
  ASSUME NEW q, NEW km, Queue(q), \A i \in DOMAIN q : q[i].op # "keym"
  PROVE  \A s \in Slot : After(q, km)[s] = km[s]
  BY AfterCases DEF Touches

\* With more operations that write none.
LEMMA AfterMore ==
  ASSUME NEW q, NEW km, NEW z, Queue(q), Queue(z), \A i \in DOMAIN z : z[i].op # "keym"
  PROVE  \A s \in Slot : After(q \o z, km)[s] = After(q, km)[s]
  <1> DEFINE p == q \o z
  <1>j. Joined(q, z, p)
    BY QueueConcat
  <1> HIDE DEF p
  <1>1. /\ Queue(p) /\ Len(q) \in Nat /\ DOMAIN q = 1..Len(q)
        /\ \A i \in DOMAIN q : i \in DOMAIN p /\ p[i] = q[i]
        /\ \A i \in DOMAIN z : p[Len(q) + i] = z[i]
        /\ \A i \in DOMAIN p : i \in Nat /\ (i \in DOMAIN q \/ (i > Len(q) /\ i - Len(q) \in DOMAIN z))
    BY <1>j DEF Joined
  <1>2. \A i \in DOMAIN p : i \in DOMAIN q \/ p[i].op # "keym"
    <2> TAKE i \in DOMAIN p
    <2>1. i = Len(q) + (i - Len(q))
      BY <1>1
    <2> QED
      BY <1>1, <2>1
  <1>3. ASSUME NEW s \in Slot
        PROVE  After(p, km)[s] = After(q, km)[s]
    <2>1. \A i \in DOMAIN p : Touches(p[i], s) => i \in DOMAIN q /\ Touches(q[i], s)
      BY <1>1, <1>2 DEF Touches
    <2>2. CASE \A i \in DOMAIN q : ~Touches(q[i], s)
      <3>1. \A i \in DOMAIN p : ~Touches(p[i], s)
        BY <2>1, <2>2
      <3> QED
        BY <1>1, <2>2, <3>1, AfterCases
    <2>3. ASSUME NEW i \in DOMAIN q, Touch(q, s, i)
          PROVE  After(p, km)[s] = After(q, km)[s]
      <3>1. Touch(p, s, i)
        BY <1>1, <2>1, <2>3 DEF Touch
      <3> QED
        BY <1>1, <2>3, <3>1, AfterCases
    <2> QED
      BY <2>2, <2>3, AfterCases
  <1> QED
    BY <1>3 DEF p

LEMMA GoodSame ==
  ASSUME NEW km, NEW k2, NEW u, NEW d, \A s \in Slot : km[s] = k2[s]
  PROVE  /\ Filled(km) => Filled(k2)
         /\ Good(km, u, d) => Good(k2, u, d)
  <1>1. Filled(km) => Filled(k2)
    BY DEF Filled
  <1>2. \A key : \A s \in Slot, i \in Nat : FirstPlace(km, s, i, key) => FirstPlace(k2, s, i, key)
    BY DEF FirstPlace
  <1>3. Kept(km, u, d) => Kept(k2, u, d)
    BY <1>2 DEF Kept
  <1>4. 0 \in Slot
    BY SlotsAssumption DEF Slot
  <1> QED
    BY <1>1, <1>3, <1>4 DEF Good

\* A write that is done changes what is there, not what will be.
LEMMA AfterDone ==
  ASSUME Queue(ops), ops # <<>>, Done(Head(ops))
  PROVE  \A s \in Slot : After(Tail(ops), keym')[s] = After(ops, keym)[s]
  <1> DEFINE o == Head(ops)
             rest == Tail(ops)
  <1>1. /\ Queue(rest) /\ 1 \in DOMAIN ops /\ o = ops[1]
        /\ \A i \in DOMAIN rest : i \in Nat /\ i >= 1 /\ i + 1 \in DOMAIN ops /\ rest[i] = ops[i + 1]
        /\ \A i \in DOMAIN ops : i \in Nat /\ (i = 1 \/ (i - 1 \in DOMAIN rest /\ rest[i - 1] = ops[i]))
    BY QueueTail
  <1>2. keym' = IF o.op = "keym" THEN [s \in Slot |-> IF s \in o.slots THEN o.what ELSE keym[s]] ELSE keym
    BY DEF Done
  <1> HIDE DEF o, rest
  <1>3. \A s \in Slot : keym'[s] = IF Touches(o, s) THEN o.what ELSE keym[s]
    BY <1>2 DEF Touches
  <1>4. ASSUME NEW s \in Slot
        PROVE  After(rest, keym')[s] = After(ops, keym)[s]
    <2>1. ASSUME NEW i \in DOMAIN rest, Touch(rest, s, i)
          PROVE  After(rest, keym')[s] = After(ops, keym)[s]
      <3>1. i + 1 \in DOMAIN ops /\ Touches(ops[i + 1], s) /\ rest[i] = ops[i + 1] /\ i \in Nat /\ i >= 1
        BY <1>1, <2>1 DEF Touch
      <3>2. ASSUME NEW j \in DOMAIN ops, Touches(ops[j], s)
            PROVE  j <= i + 1
        <4>1. j = 1 \/ (j - 1 \in DOMAIN rest /\ Touches(rest[j - 1], s))
          BY <1>1, <3>2
        <4>2. j = 1 \/ j - 1 <= i
          BY <2>1, <4>1 DEF Touch
        <4> QED
          BY <1>1, <3>1, <4>2
      <3>3. Touch(ops, s, i + 1)
        BY <3>1, <3>2 DEF Touch
      <3> QED
        BY <1>1, <2>1, <3>1, <3>3, AfterCases
    <2>2. CASE \A i \in DOMAIN rest : ~Touches(rest[i], s)
      <3>1. After(rest, keym')[s] = keym'[s]
        BY <1>1, <2>2, AfterCases
      <3>2. \A i \in DOMAIN ops : Touches(ops[i], s) => i = 1
        BY <1>1, <2>2
      <3>3. CASE Touches(o, s)
        <4>1. Touch(ops, s, 1)
          BY <1>1, <3>2, <3>3 DEF Touch
        <4> QED
          BY <1>1, <1>3, <3>1, <3>3, <4>1, AfterCases
      <3>4. CASE ~Touches(o, s)
        <4>1. \A i \in DOMAIN ops : ~Touches(ops[i], s)
          BY <1>1, <3>2, <3>4
        <4> QED
          BY <1>3, <3>1, <3>4, <4>1, AfterCases
      <3> QED
        BY <3>3, <3>4
    <2> QED
      BY <1>1, <2>1, <2>2, AfterCases
  <1> QED
    BY <1>4 DEF rest

-----------------------------------------------------------------------------
(* Queues of writes to key manifests and to the UFM.                       *)

NoErase(q) == \A i \in DOMAIN q : q[i].op # "eraseUfm"
Out(c, d)  == \E k \in KeysOf(c) : <<"PCH", k>> \in d

\* What a queue may hold: parts of the UFM are provisioned and slots written
\* without a pause, after an erasure if there is one; a cancellation is of the
\* first place of a key, and is not planned together with any of these or with
\* an image, which has no cancelled key.
Laid(q, km, u, d, ph) ==
  /\ \A i, j \in DOMAIN q : i < j /\ Prec(q[j]) => Prec(q[i]) \/ (i = 1 /\ q[i].op = "eraseUfm")
  /\ \A i \in DOMAIN q :
       /\ q[i].op = "eraseUfm" => i = 1 /\ ph \in {"VERIFY", "UNPROVISIONED"}
       /\ q[i].op = "part" => After(q, km)[0] # Blank
       /\ q[i].op = "cancel" =>
            /\ u.parts # {}
            /\ \E s \in Slot, n \in Nat, key \in STRING : q[i].at = <<s, n - 1>> /\ FirstPlace(km, s, n, key)
       /\ IsRec(q[i]) /\ q[i].what \in Images => ~Out(q[i].what, d)
  /\ \A i, j \in DOMAIN q : q[i].op = "cancel" => q[j].op \notin {"keym", "part", "eraseUfm", "area"}

\* When a queue is done, or now if it begins with the erasure of all, the key
\* manifests are good.
Planned(q, km, u, d, ph) ==
  /\ Queue(q) /\ Laid(q, km, u, d, ph)
  /\ NoErase(q) => Good(After(q, km), u, d)
  /\ ~NoErase(q) => Good(km, u, d) /\ Filled(After(q, km))

Live == {"VERIFY_IMAGES", "VERIFY_ACTIVE", "RECOVERY", "RUNTIME", "HELD", "UPDATE_PCH"}
KeyInv ==
  /\ phase = "LOCKDOWN" => lost
  /\ ~lost => /\ Planned(ops, keym, ufm, dead, phase)
              /\ ufm.parts = {} => dead = {}
              /\ phase \in Live => ufm.parts # {}

\* Of a queue that begins with no such write there is none.
LEMMA DryQueue ==
  ASSUME NEW q, NEW km, NEW u, NEW d, NEW ph, Planned(q, km, u, d, ph), q # <<>> => ~Prec(q[1])
  PROVE  /\ NoErase(q) => \A i \in DOMAIN q : ~Prec(q[i])
         /\ Good(km, u, d)
  <1>1. Queue(q) /\ Len(q) \in Nat /\ DOMAIN q = 1..Len(q) /\ Laid(q, km, u, d, ph)
    BY QueueParts DEF Planned
  <1>2. ASSUME NoErase(q), NEW i \in DOMAIN q PROVE ~Prec(q[i])
    <2>1. 1 \in DOMAIN q /\ q # <<>>
      BY <1>1, QueueShort
    <2>2. i = 1 \/ 1 < i
      BY <1>1
    <2> QED
      BY <1>1, <1>2, <2>1, <2>2 DEF Laid, NoErase
  <1>3. CASE NoErase(q)
    <2>1. \A i \in DOMAIN q : q[i].op # "keym"
      BY <1>2, <1>3 DEF Prec
    <2>2. \A s \in Slot : After(q, km)[s] = km[s]
      BY <1>1, <2>1, AfterDry
    <2> QED
      BY <1>2, <1>3, <2>2, GoodSame DEF Planned
  <1> QED
    BY <1>2, <1>3 DEF Planned

\* More operations that are none of them.
LEMMA PlannedMore ==
  ASSUME NEW q, NEW km, NEW u, NEW d, NEW ph, Planned(q, km, u, d, ph), NEW z, Queue(z),
         \A i \in DOMAIN z : z[i].op \notin {"keym", "part", "eraseUfm", "cancel", "area"}
  PROVE  Planned(q \o z, km, u, d, ph)
  <1> DEFINE p == q \o z
  <1>1. Queue(q) /\ Laid(q, km, u, d, ph)
    BY DEF Planned
  <1>z. \A i \in DOMAIN z : z[i].op # "keym"
    OBVIOUS
  <1>s. \A s \in Slot : After(p, km)[s] = After(q, km)[s]
    BY <1>1, <1>z, AfterMore
  <1>j. Joined(q, z, p)
    BY <1>1, QueueConcat
  <1> HIDE DEF p
  <1>q. /\ Queue(p) /\ Len(q) \in Nat /\ DOMAIN q = 1..Len(q)
        /\ \A i \in DOMAIN q : i \in DOMAIN p /\ p[i] = q[i]
        /\ \A i \in DOMAIN z : p[Len(q) + i] = z[i]
        /\ \A i \in DOMAIN p : i \in Nat /\ (i \in DOMAIN q \/ (i > Len(q) /\ i - Len(q) \in DOMAIN z))
    BY <1>j DEF Joined
  <1>d. \A i \in DOMAIN p :
          i \in DOMAIN q \/ (i > Len(q) /\ p[i].op \notin {"keym", "part", "eraseUfm", "cancel", "area"})
    <2> TAKE i \in DOMAIN p
    <2>1. i = Len(q) + (i - Len(q))
      BY <1>q
    <2> QED
      BY <1>q, <2>1
  <1>2. /\ Queue(p)
        /\ \A i \in DOMAIN q : i \in DOMAIN p /\ p[i] = q[i]
        /\ \A i \in DOMAIN p : i \in DOMAIN q \/ p[i].op \notin {"keym", "part", "eraseUfm", "cancel", "area"}
        /\ \A i, j \in DOMAIN p : i < j /\ j \in DOMAIN q => i \in DOMAIN q
        /\ \A s \in Slot : After(p, km)[s] = After(q, km)[s]
    BY <1>q, <1>d, <1>s
  <1>3. NoErase(p) <=> NoErase(q)
    BY <1>2 DEF NoErase
  <1>4. /\ Filled(After(q, km)) => Filled(After(p, km))
        /\ Good(After(q, km), u, d) => Good(After(p, km), u, d)
    BY <1>2, GoodSame
  <1>5. 0 \in Slot
    BY SlotsAssumption DEF Slot
  <1>6. ASSUME NEW i \in DOMAIN p, NEW j \in DOMAIN p, i < j, Prec(p[j])
        PROVE  Prec(p[i]) \/ (i = 1 /\ p[i].op = "eraseUfm")
    <2>1. j \in DOMAIN q
      BY <1>2, <1>6 DEF Prec
    <2>2. i \in DOMAIN q
      BY <1>2, <1>6, <2>1
    <2> QED
      BY <1>1, <1>2, <1>6, <2>1, <2>2 DEF Laid
  <1>7. ASSUME NEW i \in DOMAIN p
        PROVE  /\ p[i].op = "eraseUfm" => i = 1 /\ ph \in {"VERIFY", "UNPROVISIONED"}
               /\ p[i].op = "part" => After(p, km)[0] # Blank
               /\ p[i].op = "cancel" =>
                    /\ u.parts # {}
                    /\ \E s \in Slot, n \in Nat, key \in STRING : p[i].at = <<s, n - 1>> /\ FirstPlace(km, s, n, key)
               /\ IsRec(p[i]) /\ p[i].what \in Images => ~Out(p[i].what, d)
    <2>1. CASE i \in DOMAIN q
      BY <1>1, <1>2, <1>5, <2>1 DEF Laid
    <2>2. CASE i \notin DOMAIN q
      BY <1>2, <2>2 DEF IsRec
    <2> QED
      BY <2>1, <2>2
  <1>8. ASSUME NEW i \in DOMAIN p, NEW j \in DOMAIN p, p[i].op = "cancel"
        PROVE  p[j].op \notin {"keym", "part", "eraseUfm", "area"}
    <2>1. i \in DOMAIN q /\ q[i].op = "cancel"
      BY <1>2, <1>8
    <2> QED
      BY <1>1, <1>2, <2>1 DEF Laid
  <1>9. Laid(p, km, u, d, ph)
    BY <1>6, <1>7, <1>8 DEF Laid
  <1> QED
    BY <1>2, <1>3, <1>4, <1>9 DEF Planned, p

-----------------------------------------------------------------------------
(* Queues that leave the key manifests and the UFM's bits alone.           *)

Sober(q, d) ==
  /\ Queue(q)
  /\ \A i \in DOMAIN q :
       /\ q[i].op \notin {"keym", "part", "eraseUfm", "cancel"}
       /\ IsRec(q[i]) /\ q[i].what \in Images => ~Out(q[i].what, d)

LEMMA SoberPlanned ==
  ASSUME NEW q, NEW km, NEW u, NEW d, NEW ph, Sober(q, d), Good(km, u, d)
  PROVE  Planned(q, km, u, d, ph)
  <1>1. Queue(q) /\ \A i \in DOMAIN q : q[i].op \notin {"keym", "part", "eraseUfm", "cancel"}
    BY DEF Sober
  <1>2. Good(After(q, km), u, d)
    <2>1. \A s \in Slot : After(q, km)[s] = km[s]
      BY <1>1, AfterDry
    <2> QED
      BY <2>1, GoodSame
  <1>3. NoErase(q)
    BY <1>1 DEF NoErase
  <1>4. Laid(q, km, u, d, ph)
    BY <1>1 DEF Laid, Prec, Sober
  <1> QED
    BY <1>1, <1>2, <1>3, <1>4 DEF Planned

LEMMA SoberConcat ==
  ASSUME NEW q, NEW z, NEW d, Sober(q, d), Sober(z, d)
  PROVE  Sober(q \o z, d)
  <1> DEFINE p == q \o z
  <1>1. Queue(q) /\ Queue(z)
    BY DEF Sober
  <1>j. Joined(q, z, p)
    BY <1>1, QueueConcat
  <1> HIDE DEF p
  <1>2. /\ Queue(p) /\ Len(q) \in Nat
        /\ \A i \in DOMAIN q : p[i] = q[i]
        /\ \A i \in DOMAIN z : p[Len(q) + i] = z[i]
        /\ \A i \in DOMAIN p : i \in Nat /\ (i \in DOMAIN q \/ (i > Len(q) /\ i - Len(q) \in DOMAIN z))
    BY <1>j DEF Joined
  <1>3. \A i \in DOMAIN p : \/ i \in DOMAIN q /\ p[i] = q[i]
                            \/ i - Len(q) \in DOMAIN z /\ p[i] = z[i - Len(q)]
    <2> TAKE i \in DOMAIN p
    <2>1. i = Len(q) + (i - Len(q))
      BY <1>2
    <2> QED
      BY <1>2, <2>1
  <1> QED
    BY <1>2, <1>3 DEF Sober, p

LEMMA SoberOne ==
  ASSUME NEW o, NEW d, o.op \notin {"keym", "part", "eraseUfm", "cancel"},
         IsRec(o) /\ o.what \in Images => ~Out(o.what, d)
  PROVE  Sober(<<o>>, d)
  BY QueueShort DEF Sober

LEMMA SoberEmpty == \A d : Sober(<<>>, d)
  BY QueueShort DEF Sober

LEMMA SoberSvn == \A p, n, d : Sober(SvnOps(p, n), d)
  <1> TAKE p, n, d
  <1>1. SetSvn(p, n).op = "svn"
    BY DEF SetSvn
  <1>2. Sober(<<SetSvn(p, n)>>, d)
    BY <1>1, SoberOne DEF IsRec
  <1> QED
    BY <1>2, SoberEmpty DEF SvnOps

LEMMA SoberSecs ==
  ASSUME NEW q, NEW d, Queue(q), \A i \in DOMAIN q : \E s, w : q[i] = WriteSec(s, w)
  PROVE  Sober(q, d)
  <1>1. \A i \in DOMAIN q : q[i].op = "sec"
    BY DEF WriteSec
  <1> QED
    BY <1>1 DEF Sober, IsRec

LEMMA SoberArea ==
  ASSUME NEW a, NEW c, NEW d, a = "recovery" => ~(c \in Images /\ Out(c, d))
  PROVE  Sober(<<WriteArea(a, c)>>, d)
  <1> DEFINE o == WriteArea(a, c)
  <1>1. o.op = "area" /\ o.area = a /\ o.what = c
    BY DEF WriteArea
  <1> HIDE DEF o
  <1>2. Sober(<<o>>, d)
    BY <1>1, SoberOne DEF IsRec
  <1> QED
    BY <1>2 DEF o

-----------------------------------------------------------------------------
(* A key that was cancelled is not usable.                                 *)

LEMMA ListedKeys ==
  ASSUME NEW s \in Slot, NEW id, NEW key, Lists(s, id, key)
  PROVE  /\ keym[s] \in DOMAIN Manifests /\ id \in Nat /\ id + 1 \in DOMAIN Manifests[keym[s]].keys
         /\ Manifests[keym[s]].keys[id + 1] = key /\ Has(keym[s], key)
  <1>1. keym[s] \in DOMAIN Manifests /\ id \in 0..Len(Manifests[keym[s]].keys) - 1
    BY DEF Lists, Whole
  <1>2. /\ Len(Manifests[keym[s]].keys) \in Nat
        /\ DOMAIN Manifests[keym[s]].keys = 1..Len(Manifests[keym[s]].keys)
    BY <1>1, ManifestsAssumption, LenProperties
  <1> QED
    BY <1>1, <1>2 DEF Lists, Has

LEMMA ListsPlace ==
  ASSUME NEW s, NEW i \in Nat, NEW key, FirstPlace(keym, s, i, key)
  PROVE  Lists(s, i - 1, key) /\ i >= 1
  <1>1. keym[s] \in DOMAIN Manifests /\ i \in DOMAIN Manifests[keym[s]].keys /\ s \in Slot
    BY DEF FirstPlace
  <1>2. /\ Len(Manifests[keym[s]].keys) \in Nat
        /\ DOMAIN Manifests[keym[s]].keys = 1..Len(Manifests[keym[s]].keys)
    BY <1>1, ManifestsAssumption, LenProperties
  <1> QED
    BY <1>1, <1>2 DEF Lists, Whole, FirstPlace

\* In the state of the key manifests that is to be kept, a key has its bit
\* where it is found.
LEMMA FoundFirst ==
  ASSUME KeysHaveOnePlace, NEW s, NEW i \in Nat, NEW key, FirstPlace(keym, s, i, key),
         NEW t \in Slot, NEW id, Lists(t, id, key)
  PROVE  id = i - 1 /\ s <= t /\ s \in Slot /\ s \in Int /\ t \in Int
  <1>1. /\ keym[t] \in DOMAIN Manifests /\ id \in Nat /\ id + 1 \in DOMAIN Manifests[keym[t]].keys
        /\ Manifests[keym[t]].keys[id + 1] = key /\ Has(keym[t], key)
    BY ListedKeys
  <1>2. /\ s \in Slot /\ keym[s] \in DOMAIN Manifests /\ i \in DOMAIN Manifests[keym[s]].keys
        /\ Manifests[keym[s]].keys[i] = key /\ ~(t < s)
    BY <1>1 DEF FirstPlace
  <1>3. id + 1 = i
    BY <1>1, <1>2 DEF KeysHaveOnePlace
  <1> QED
    BY <1>1, <1>2, <1>3, SlotsAssumption DEF Slot

LEMMA CancelledUnusable ==
  ASSUME KeysHaveOnePlace, Kept(keym, ufm, dead), NEW policy, NEW key, <<policy, key>> \in dead
  PROVE  /\ \A id : ~Usable(policy, FindById(key, id))
         /\ ~Usable(policy, Find(key))
  <1>1. PICK s \in Slot, i \in Nat : FirstPlace(keym, s, i, key) /\ <<policy, s, i - 1>> \in ufm.cancelled
    BY DEF Kept
  <1>2. Lists(s, i - 1, key)
    BY <1>1, ListsPlace
  <1>3. ASSUME NEW id PROVE ~Usable(policy, FindById(key, id))
    <2> DEFINE found == {t \in Slot : Lists(t, id, key)}
    <2>1. CASE found = {}
      BY <2>1 DEF FindById, Usable
    <2>2. CASE found # {}
      <3>1. found \subseteq Nat
        BY SlotsAssumption DEF Slot
      <3>2. Min(found) \in found /\ \A t \in found : Min(found) <= t
        <4> HIDE DEF found
        <4> QED
          BY <2>2, <3>1, LeastElement
      <3>3. id = i - 1 /\ s <= Min(found)
        BY <1>1, <3>2, FoundFirst
      <3>4. s \in found
        BY <1>2, <3>3
      <3>5. Min(found) = s
        <4> HIDE DEF found
        <4>1. Min(found) <= s /\ s <= Min(found) /\ Min(found) \in Nat /\ s \in Nat
          BY <3>1, <3>2, <3>3, <3>4
        <4> QED
          BY <4>1
      <3>6. FindById(key, id) = <<s, i - 1>>
        BY <2>2, <3>3, <3>5 DEF FindById
      <3> QED
        BY <1>1, <3>6 DEF Usable
    <2> QED
      BY <2>1, <2>2
  <1>4. ~Usable(policy, Find(key))
    <2> DEFINE slots == {t \in Slot : \E id \in 0..7 : Lists(t, id, key)}
               ids   == {id \in 0..7 : Lists(Min(slots), id, key)}
    <2>1. CASE slots = {}
      BY <2>1 DEF Find, Usable
    <2>2. CASE slots # {}
      <3>1. slots \subseteq Nat
        BY SlotsAssumption DEF Slot
      <3>2. Min(slots) \in slots /\ \A t \in slots : Min(slots) <= t
        <4> HIDE DEF slots
        <4> QED
          BY <2>2, <3>1, LeastElement
      <3>3. PICK id \in 0..7 : Lists(Min(slots), id, key)
        BY <3>2
      <3>4. id = i - 1 /\ s <= Min(slots)
        BY <1>1, <3>2, <3>3, FoundFirst
      <3>5. s \in slots
        BY <1>2, <3>4
      <3>6. Min(slots) = s
        <4> HIDE DEF slots
        <4>1. Min(slots) <= s /\ s <= Min(slots) /\ Min(slots) \in Nat /\ s \in Nat
          BY <3>1, <3>2, <3>4, <3>5
        <4> QED
          BY <4>1
      <3>7. ids \subseteq Nat /\ ids # {}
        BY <3>3
      <3>8. Min(ids) \in ids
        <4> HIDE DEF ids
        <4> QED
          BY <3>7, LeastElement
      <3>9. Min(ids) = i - 1
        BY <1>1, <3>2, <3>8, FoundFirst
      <3>10. Find(key) = <<s, i - 1>>
        BY <2>2, <3>6, <3>9 DEF Find
      <3> QED
        BY <1>1, <3>10 DEF Usable
    <2> QED
      BY <2>1, <2>2
  <1> QED
    BY <1>3, <1>4

LEMMA ImageNotOut ==
  ASSUME KeysHaveOnePlace, Kept(keym, ufm, dead), NEW c, ImageOk(c)
  PROVE  c \in Images /\ ~Out(c, dead)
  <1>1. c \in DOMAIN Capsules /\ Capsules[c].format = "PCH" /\ SignedByCsk(c, "PCH") /\ PfmKeysUsable(c)
    BY DEF ImageOk, Is, VerifyImage, Management
  <1>2. ASSUME NEW k \in KeysOf(c), <<"PCH", k>> \in dead PROVE FALSE
    <2>1. CASE k = Capsules[c].signer
      BY <1>1, <1>2, <2>1, CancelledUnusable DEF SignedByCsk
    <2>2. ASSUME NEW r \in Capsules[c].regions, k = r.key PROVE FALSE
      BY <1>1, <1>2, <2>2, CancelledUnusable DEF PfmKeysUsable, SignedRegions
    <2> QED
      BY <2>1, <2>2 DEF KeysOf
  <1> QED
    BY <1>1, <1>2 DEF Out, Images

-----------------------------------------------------------------------------
(* The management updates.                                                 *)

\* cerberus_pfr_cancel_csk_keys: the first place of each key.
LEMMA CancelPlanned ==
  ASSUME KeysHaveOnePlace, Good(keym, ufm, dead), ufm.parts # {},
         NEW policy, NEW c \in DOMAIN Capsules, NEW ph
  PROVE  Planned(CancelCertificate(c, policy), keym, ufm, dead, ph)
  <1> DEFINE cert == Capsules[c].cert
             q    == CancelOps(policy, cert)
             hash == cert.hash
  <1>1. Queue(q)
    BY CancelQueue
  <1>2. \A n \in DOMAIN q : \E s \in Slot, id \in Nat, k \in STRING :
                  q[n] = CancelBit(policy, <<s, id>>) /\ Earliest(s, id, k, hash)
    BY CancelQueue
  <1> HIDE DEF q, hash
  <1>3. ASSUME NEW s \in Slot, NEW id \in Nat, NEW k \in STRING, Earliest(s, id, k, hash)
        PROVE  FirstPlace(keym, s, id + 1, k)
    <2>1. Lists(s, id, k) /\ Manifests[keym[s]].hash = hash
      BY <1>3 DEF Earliest
    <2>2. /\ keym[s] \in DOMAIN Manifests /\ id + 1 \in DOMAIN Manifests[keym[s]].keys
          /\ Manifests[keym[s]].keys[id + 1] = k
      BY <2>1, ListedKeys
    <2>3. ASSUME NEW t \in Slot, t < s, Has(keym[t], k) PROVE FALSE
      <3>1. keym[t] \in DOMAIN Manifests
        BY <2>3 DEF Has
      <3>2. PICK j \in DOMAIN Manifests[keym[t]].keys : Manifests[keym[t]].keys[j] = k
        BY <2>3 DEF Has
      <3>3. j = id + 1 /\ Manifests[keym[t]].hash = hash
        BY <2>1, <2>2, <3>1, <3>2 DEF KeysHaveOnePlace
      <3>4. /\ Len(Manifests[keym[t]].keys) \in Nat
            /\ DOMAIN Manifests[keym[t]].keys = 1..Len(Manifests[keym[t]].keys)
        BY <3>1, ManifestsAssumption, LenProperties
      <3>5. Lists(t, id, k)
        BY <3>1, <3>2, <3>3, <3>4 DEF Lists, Whole
      <3>6. s <= t
        BY <1>3, <3>3, <3>5 DEF Earliest
      <3> QED
        BY <2>3, <3>6, SlotsAssumption DEF Slot
    <2> QED
      BY <2>2, <2>3 DEF FirstPlace
  <1>4. \A n \in DOMAIN q :
          /\ q[n].op = "cancel"
          /\ \E s \in Slot, i \in Nat, key \in STRING : q[n].at = <<s, i - 1>> /\ FirstPlace(keym, s, i, key)
    <2> TAKE n \in DOMAIN q
    <2>1. PICK s \in Slot, id \in Nat, k \in STRING :
            q[n] = CancelBit(policy, <<s, id>>) /\ Earliest(s, id, k, hash)
      BY <1>2
    <2>2. q[n].op = "cancel" /\ q[n].at = <<s, id>>
      BY <2>1 DEF CancelBit
    <2>5. Earliest(s, id, k, hash)
      BY <2>1
    <2>6. FirstPlace(keym, s, id + 1, k)
      BY <1>3, <2>5
    <2>3. id + 1 \in Nat /\ (id + 1) - 1 = id /\ FirstPlace(keym, s, id + 1, k)
      BY <2>6
    <2>4. q[n].at = <<s, (id + 1) - 1>>
      BY <2>2, <2>3
    <2> QED
      BY <2>2, <2>3, <2>4
  <1>5. NoErase(q) /\ \A i \in DOMAIN q : q[i].op # "keym"
    BY <1>4 DEF NoErase
  <1>6. Good(After(q, keym), ufm, dead)
    <2>1. \A s \in Slot : After(q, keym)[s] = keym[s]
      BY <1>1, <1>5, AfterDry
    <2> QED
      BY <2>1, GoodSame
  <1>7. Laid(q, keym, ufm, dead, ph)
    BY <1>4 DEF Laid, Prec, IsRec
  <1>8. Planned(q, keym, ufm, dead, ph)
    BY <1>1, <1>5, <1>6, <1>7 DEF Planned
  <1>9. Planned(<<>>, keym, ufm, dead, ph)
    BY SoberEmpty, SoberPlanned
  <1> QED
    BY <1>8, <1>9 DEF CancelCertificate, q

LEMMA WriteOps ==
  /\ \A s, m : Write(s, m).op = "keym" /\ Write(s, m).slots = {s} /\ Write(s, m).what = m
  /\ \A S : Erase(S).op = "keym" /\ Erase(S).slots = S /\ Erase(S).what = Blank
  BY DEF Write, Erase

\* A queue of writes to slots and nothing else.
LEMMA WritesPlanned ==
  ASSUME NEW q, NEW km, NEW u, NEW d, NEW ph, Queue(q), \A i \in DOMAIN q : q[i].op = "keym",
         Good(After(q, km), u, d)
  PROVE  Planned(q, km, u, d, ph)
  BY DEF Planned, Laid, Prec, IsRec, NoErase

\* The two slots of a page.
LEMMA Pages ==
  ASSUME NEW f \in Nat, NEW s \in Nat, s \div 2 = f \div 2
  PROVE  (f % 2 = 0 => f <= s) /\ (f % 2 # 0 => s = f \/ s = f - 1)
  OBVIOUS

\* cerberus_append_key_manifest: the slots are filled up to the first free one;
\* what the erased page held is there again, and the manifest is in that slot.
LEMMA AppendSlots ==
  ASSUME Filled(keym), NEW m \in DOMAIN Manifests, \E s \in Slot : Free(s)
  PROVE  \E f \in Slot :
           /\ \A s \in Slot : (f <= s => keym[s] = Blank) /\ (s < f => keym[s] # Blank) /\ s \in Nat
           /\ Queue(AppendOps(m))
           /\ \A i \in DOMAIN AppendOps(m) :
                /\ AppendOps(m)[i].op = "keym"
                /\ \/ AppendOps(m)[i].what \in {m, Blank}
                   \/ \E s \in Slot : s < f /\ AppendOps(m)[i].what = keym[s]
           /\ \A s \in Slot : After(AppendOps(m), keym)[s] = IF s = f THEN m ELSE keym[s]
  <1> DEFINE free == {s \in Slot : Free(s)}
             f    == Min(free)
             q    == AppendOps(m)
  <1>0. /\ \A s \in Slot : keym[s] \in DOMAIN Manifests \cup {Blank}
        /\ \A t, u \in Slot : t < u /\ keym[u] # Blank => keym[t] # Blank
        /\ m # Blank /\ "half" \notin DOMAIN Manifests /\ "half" # Blank
    BY ManifestsAssumption DEF Filled, Blank
  <1>2. free # {}
    OBVIOUS
  <1>3. /\ f \in Slot
        /\ \A s \in Slot : (f <= s => keym[s] = Blank) /\ (s < f => keym[s] # Blank) /\ s \in Nat
        /\ Queue(q)
        /\ \A i \in DOMAIN q :
             /\ q[i].op = "keym"
             /\ q[i].what \in {m, Blank} \/ \E s \in Slot : s < f /\ q[i].what = keym[s]
        /\ \A s \in Slot : After(q, keym)[s] = IF s = f THEN m ELSE keym[s]
    <2>1. free \subseteq Nat
      BY SlotsAssumption DEF Slot
    <2>2. f \in free /\ \A s \in free : f <= s
      <3> HIDE DEF free
      <3> QED
        BY <1>2, <2>1, LeastElement
    <2>3. \A s \in free : keym[s] = Blank
      BY <1>0 DEF Free
    <2>4. f \in Slot /\ keym[f] = Blank /\ f \in Nat
      BY <2>1, <2>2, <2>3
    <2>5. \A s \in Slot : (f <= s => keym[s] = Blank) /\ (s < f => keym[s] # Blank) /\ s \in Nat
      <3> TAKE s \in Slot
      <3>1. s \in Nat
        BY SlotsAssumption DEF Slot
      <3>2. s < f => s \notin free
        BY <2>2, <2>4, <3>1
      <3>3. s < f => keym[s] # Blank
        BY <3>2 DEF Free
      <3>4. f < s => keym[s] = Blank
        BY <1>0, <2>4
      <3> QED
        BY <2>4, <3>1, <3>3, <3>4
    <2>6. /\ Queue(q)
          /\ \A i \in DOMAIN q :
               /\ q[i].op = "keym"
               /\ q[i].what \in {m, Blank} \/ \E s \in Slot : s < f /\ q[i].what = keym[s]
          /\ \A s \in Slot : After(q, keym)[s] = IF s = f THEN m ELSE keym[s]
      <3> DEFINE e == Erase(PageOf(f))
                 w == Write(f, m)
                 b == Write(f - 1, keym[f - 1])
      <3>1. /\ e.op = "keym" /\ e.what = Blank /\ e.slots = PageOf(f)
            /\ w.op = "keym" /\ w.what = m /\ w.slots = {f}
            /\ b.op = "keym" /\ b.what = keym[f - 1] /\ b.slots = {f - 1}
        BY WriteOps
      <3> HIDE DEF free, f
      <3>2. CASE f % 2 = 0
        <4>1. q = <<e, w>>
          BY <1>2, <3>2 DEF AppendOps, free, f
        <4> HIDE DEF e, w, q
        <4>2. Queue(q) /\ DOMAIN q = {1, 2} /\ q[1] = e /\ q[2] = w
          BY <4>1, QueueShort
        <4>3. \A s \in PageOf(f) : f <= s /\ s \in Slot
          <5>1. \A s \in PageOf(f) : s \in Slot /\ s \in Nat /\ s \div 2 = f \div 2
            BY <2>5 DEF PageOf
          <5> QED
            BY <2>4, <3>2, <5>1, Pages
        <4>4. ASSUME NEW s \in Slot PROVE After(q, keym)[s] = IF s = f THEN m ELSE keym[s]
          <5>1. CASE s = f
            <6>1. Touch(q, s, 2)
              BY <3>1, <4>2, <5>1 DEF Touch, Touches
            <6> QED
              BY <3>1, <4>2, <5>1, <6>1, AfterCases
          <5>2. CASE s # f /\ s \in PageOf(f)
            <6>1. Touch(q, s, 1)
              BY <3>1, <4>2, <5>2 DEF Touch, Touches
            <6>2. keym[s] = Blank
              BY <2>5, <4>3, <5>2
            <6> QED
              BY <3>1, <4>2, <5>2, <6>1, <6>2, AfterCases
          <5>3. CASE s # f /\ s \notin PageOf(f)
            <6>1. \A i \in DOMAIN q : ~Touches(q[i], s)
              BY <3>1, <4>2, <5>3 DEF Touches
            <6> QED
              BY <4>2, <5>3, <6>1, AfterCases
          <5> QED
            BY <5>1, <5>2, <5>3
        <4> QED
          BY <3>1, <4>2, <4>4 DEF q
      <3>3. CASE f % 2 # 0
        <4>1. q = <<e, b, w>>
          BY <1>2, <3>3 DEF AppendOps, free, f
        <4> HIDE DEF e, w, b, q
        <4>2. Queue(q) /\ DOMAIN q = {1, 2, 3} /\ q[1] = e /\ q[2] = b /\ q[3] = w
          BY <4>1, QueueShort
        <4>3. \A s \in PageOf(f) : s = f \/ s = f - 1
          <5>1. \A s \in PageOf(f) : s \in Slot /\ s \in Nat /\ s \div 2 = f \div 2
            BY <2>5 DEF PageOf
          <5> QED
            BY <2>4, <3>3, <5>1, Pages
        <4>5. f - 1 \in Slot /\ f - 1 < f
          BY <2>4, <3>3, SlotsAssumption DEF Slot
        <4>6. \A i \in DOMAIN q : q[i].what \in {m, Blank} \/ q[i].what = keym[f - 1]
          BY <3>1, <4>2
        <4>4. ASSUME NEW s \in Slot PROVE After(q, keym)[s] = IF s = f THEN m ELSE keym[s]
          <5>1. CASE s = f
            <6>1. Touch(q, s, 3)
              BY <3>1, <4>2, <5>1 DEF Touch, Touches
            <6> QED
              BY <3>1, <4>2, <5>1, <6>1, AfterCases
          <5>2. CASE s # f /\ s = f - 1
            <6>1. Touch(q, s, 2)
              BY <2>4, <3>1, <4>2, <5>2 DEF Touch, Touches
            <6> QED
              BY <3>1, <4>2, <5>2, <6>1, AfterCases
          <5>3. CASE s # f /\ s # f - 1
            <6>1. \A i \in DOMAIN q : ~Touches(q[i], s)
              BY <3>1, <4>2, <4>3, <5>3 DEF Touches
            <6> QED
              BY <4>2, <5>3, <6>1, AfterCases
          <5> QED
            BY <5>1, <5>2, <5>3
        <4> QED
          BY <3>1, <4>2, <4>4, <4>5, <4>6 DEF q
      <3> QED
        BY <3>2, <3>3
    <2> QED
      BY <2>4, <2>5, <2>6
  <1> HIDE DEF f
  <1> QED
    BY <1>3

LEMMA AppendFull ==
  ASSUME ~ \E s \in Slot : Free(s), NEW m
  PROVE  AppendOps(m) = <<>>
  <1>1. {s \in Slot : Free(s)} = {}
    OBVIOUS
  <1> QED
    BY <1>1 DEF AppendOps

LEMMA AppendPlanned ==
  ASSUME Good(keym, ufm, dead), NEW m \in DOMAIN Manifests, NEW ph
  PROVE  Planned(AppendOps(m), keym, ufm, dead, ph)
  <1> DEFINE q == AppendOps(m)
  <1>0. /\ \A s \in Slot : keym[s] \in DOMAIN Manifests \cup {Blank}
        /\ m # Blank /\ Blank \notin DOMAIN Manifests
    BY ManifestsAssumption DEF Good, Filled, Blank
  <1>1. CASE ~ \E s \in Slot : Free(s)
    BY <1>1, AppendFull, SoberEmpty, SoberPlanned
  <1>2. CASE \E s \in Slot : Free(s)
    <2>1. PICK f \in Slot :
            /\ \A s \in Slot : (f <= s => keym[s] = Blank) /\ (s < f => keym[s] # Blank) /\ s \in Nat
            /\ Queue(q) /\ \A i \in DOMAIN q : q[i].op = "keym"
            /\ \A s \in Slot : After(q, keym)[s] = IF s = f THEN m ELSE keym[s]
      BY <1>2, AppendSlots DEF Good
    <2>4. f \in Nat
      BY <2>1
    <2>5. \A s \in Slot : (f <= s => keym[s] = Blank) /\ (s < f => keym[s] # Blank) /\ s \in Nat
      BY <2>1
    <2>6. /\ Queue(q) /\ \A i \in DOMAIN q : q[i].op = "keym"
          /\ \A s \in Slot : After(q, keym)[s] = IF s = f THEN m ELSE keym[s]
      BY <2>1
    <2> HIDE DEF q
    <2> DEFINE k == After(q, keym)
    <2> HIDE DEF k
    <2>7. \A s \in Slot : k[s] = IF s = f THEN m ELSE keym[s]
      BY <2>6 DEF k
    <2>8. Filled(k)
      <3>1. \A s \in Slot : k[s] \in DOMAIN Manifests \cup {Blank}
        BY <1>0, <2>7
      <3>2. \A s \in Slot : k[s] # Blank <=> s <= f
        BY <1>0, <2>4, <2>5, <2>7
      <3> QED
        BY <2>4, <2>5, <3>1, <3>2 DEF Filled
    <2>9. ASSUME NEW s \in Slot, NEW i \in Nat, NEW key, FirstPlace(keym, s, i, key)
          PROVE  FirstPlace(k, s, i, key)
      <3>1. s < f
        BY <1>0, <2>4, <2>5, <2>9 DEF FirstPlace
      <3>2. \A t \in Slot : t <= s => k[t] = keym[t]
        BY <2>4, <2>5, <2>7, <3>1
      <3> QED
        BY <2>5, <2>9, <3>2 DEF FirstPlace
    <2>10. Kept(k, ufm, dead)
      BY <2>9 DEF Good, Kept
    <2>11. k[0] = Blank => ufm.parts = {}
      BY <1>0, <2>7, SlotsAssumption DEF Good, Slot
    <2>12. Good(k, ufm, dead)
      BY <2>8, <2>10, <2>11 DEF Good
    <2> QED
      BY <2>6, <2>12, WritesPlanned DEF k, q
  <1> QED
    BY <1>1, <1>2

\* erase_provision_flash
LEMMA ErasePlanned ==
  ASSUME Good(keym, ufm, dead), NEW ph \in {"VERIFY", "UNPROVISIONED"}
  PROVE  Planned(EraseOps, keym, ufm, dead, ph)
  <1> DEFINE a == EraseUfm
             b == Erase(Slot)
             c == EraseState
             q == EraseOps
  <1>1. a.op = "eraseUfm" /\ b.op = "keym" /\ b.what = Blank /\ b.slots = Slot /\ c.op = "eraseState"
    BY WriteOps DEF EraseUfm, EraseState
  <1>2. q = <<a, b, c>>
    BY DEF EraseOps
  <1> HIDE DEF a, b, c, q
  <1>3. Queue(q) /\ DOMAIN q = {1, 2, 3} /\ q[1] = a /\ q[2] = b /\ q[3] = c
    BY <1>2, QueueShort
  <1>4. \A s \in Slot : After(q, keym)[s] = Blank
    <2> TAKE s \in Slot
    <2>1. Touch(q, s, 2)
      BY <1>1, <1>3 DEF Touch, Touches
    <2> QED
      BY <1>1, <1>3, <2>1, AfterCases
  <1>5. Filled(After(q, keym))
    BY <1>4 DEF Filled
  <1>6. Laid(q, keym, ufm, dead, ph)
    BY <1>1, <1>3 DEF Laid, Prec, IsRec
  <1>7. ~NoErase(q)
    BY <1>1, <1>3 DEF NoErase
  <1> QED
    BY <1>3, <1>5, <1>6, <1>7 DEF Planned, q

\* cerberus_provisioning_root_key_action: nothing was cancelled before.
LEMMA ProvisionPlanned ==
  ASSUME Good(keym, ufm, dead), ufm.parts = {} => dead = {}, NEW c \in DOMAIN Capsules, NEW ph
  PROVE  Planned(ProvisionOps(c), keym, ufm, dead, ph)
  <1> DEFINE m == Capsules[c].manifest
             a == SetPart("ROOT")
             b == SetPart("BMC")
             x == SetPart("PCH")
             e == Erase(Slot)
             w == Write(0, m)
             q == <<a, b, x, e, w>>
  <1>1. CASE ufm.parts # {}
    <2>1. ProvisionOps(c) = <<>>
      BY <1>1 DEF ProvisionOps
    <2> QED
      BY <2>1, SoberEmpty, SoberPlanned
  <1>2. CASE ufm.parts = {}
    <2>1. /\ a.op = "part" /\ b.op = "part" /\ x.op = "part"
          /\ e.op = "keym" /\ e.what = Blank /\ e.slots = Slot
          /\ w.op = "keym" /\ w.what = m /\ w.slots = {0}
      BY WriteOps DEF SetPart
    <2>2. ProvisionOps(c) = q
      BY <1>2 DEF ProvisionOps
    <2>m. m \in DOMAIN Manifests /\ m # Blank
      BY CapsulesAssumption, ManifestsAssumption DEF Blank
    <2>z. 0 \in Slot /\ \A s \in Slot : s \in Nat
      BY SlotsAssumption DEF Slot
    <2> HIDE DEF m, a, b, x, e, w
    <2>3. /\ Queue(q) /\ DOMAIN q = {1, 2, 3, 4, 5}
          /\ q[1] = a /\ q[2] = b /\ q[3] = x /\ q[4] = e /\ q[5] = w
      BY QueueShort
    <2> HIDE DEF q
    <2>4. \A s \in Slot : After(q, keym)[s] = IF s = 0 THEN m ELSE Blank
      <3> TAKE s \in Slot
      <3>1. CASE s = 0
        <4>1. Touch(q, s, 5)
          BY <2>1, <2>3, <3>1 DEF Touch, Touches
        <4> QED
          BY <2>1, <2>3, <3>1, <4>1, AfterCases
      <3>2. CASE s # 0
        <4>1. Touch(q, s, 4)
          BY <2>1, <2>3, <3>2 DEF Touch, Touches
        <4> QED
          BY <2>1, <2>3, <3>2, <4>1, AfterCases
      <3> QED
        BY <3>1, <3>2
    <2>5. Filled(After(q, keym))
      BY <2>4, <2>m, <2>z DEF Filled
    <2>6. Good(After(q, keym), ufm, dead)
      BY <1>2, <2>5 DEF Good, Kept
    <2>7. NoErase(q)
      BY <2>1, <2>3 DEF NoErase
    <2>8. Laid(q, keym, ufm, dead, ph)
      BY <2>1, <2>3, <2>4, <2>m, <2>z DEF Laid, Prec, IsRec
    <2> QED
      BY <2>2, <2>3, <2>6, <2>7, <2>8 DEF Planned
  <1> QED
    BY <1>1, <1>2

\* cerberus_hrot_update
LEMMA HrotPlanned ==
  ASSUME KeysHaveOnePlace, Good(keym, ufm, dead), ufm.parts = {} => dead = {},
         NEW c, NEW select, NEW ph \in {"VERIFY", "UNPROVISIONED"}
  PROVE  Planned(HrotUpdate(c, select), keym, ufm, dead, ph)
  <1> DEFINE Ok(q) == Planned(q, keym, ufm, dead, ph)
  <1>1. Ok(<<>>) /\ Ok(EraseOps)
    BY SoberEmpty, SoberPlanned, ErasePlanned
  <1>2. Is(c, "PROV") => Ok(ProvisionOps(c))
    BY ProvisionPlanned DEF Is
  <1>3. ASSUME Provisioned, VerifyImage(c, "ROT")
        PROVE  Ok(HrotOps(c, select))
    <2>1. c \in DOMAIN Capsules /\ ufm.parts # {} /\ Capsules[c].manifest \in DOMAIN Manifests
      BY <1>3, CapsulesAssumption DEF VerifyImage, Provisioned, AllParts
    <2>2. Ok(CancelCertificate(c, "ROT")) /\ Ok(AppendOps(Capsules[c].manifest))
      BY <2>1, CancelPlanned, AppendPlanned
    <2> DEFINE r == IF select = "SECONDARY" THEN SvnOps("ROT", Svn(c)) ELSE <<>>
    <2>3. Ok(RotOps(c, select) \o r)
      <3>1. Sober(RotOps(c, select), dead)
        BY SoberArea DEF RotOps
      <3>2. Sober(r, dead)
        BY SoberEmpty, SoberSvn
      <3> HIDE DEF r
      <3> QED
        BY <3>1, <3>2, SoberConcat, SoberPlanned
    <2>4. CASE Is(c, "HROT") /\ SvnOk("ROT", Svn(c))
      <3>1. HrotOps(c, select) = RotOps(c, select) \o r
        BY <2>4 DEF HrotOps, Is
      <3> HIDE DEF Ok
      <3> QED
        BY <2>3, <3>1
    <2>5. CASE ~(Is(c, "HROT") /\ SvnOk("ROT", Svn(c)))
      <3>1. HrotOps(c, select) \in {EraseOps, CancelCertificate(c, "ROT"), AppendOps(Capsules[c].manifest), <<>>}
        BY <2>5, Zenon DEF HrotOps
      <3> HIDE DEF Ok
      <3> QED
        BY <1>1, <2>2, <3>1
    <2> QED
      BY <2>4, <2>5
  <1> HIDE DEF Ok
  <1>4. Ok(HrotUpdate(c, select))
    BY <1>1, <1>2, <1>3 DEF HrotUpdate
  <1> QED
    BY <1>4 DEF Ok

-----------------------------------------------------------------------------
(* The handlers.                                                           *)

LEMMA SecOpsSober ==
  ASSUME NEW c \in DOMAIN Capsules, NEW chosen, NEW d
  PROVE  Sober(SecOps(c, chosen), d) /\ Sober(RecoverActiveOps(c), d)
  <1>1. Queue(SecOps(c, chosen)) /\ \A i \in DOMAIN SecOps(c, chosen) : \E s, w : SecOps(c, chosen)[i] = WriteSec(s, w)
    BY SecQueue
  <1>2. Queue(RecoverActiveOps(c)) /\ \A i \in DOMAIN RecoverActiveOps(c) : \E s, w : RecoverActiveOps(c)[i] = WriteSec(s, w)
    BY RecoverQueue
  <1> QED
    BY <1>1, <1>2, SoberSecs

\* update_firmware_image
LEMMA UpdatePlanned ==
  ASSUME KeysHaveOnePlace, Good(keym, ufm, dead), ufm.parts # {}, NEW c
  PROVE  Planned(UpdateOps(c), keym, ufm, dead, "VERIFY")
  <1> DEFINE Ok(q) == Planned(q, keym, ufm, dead, "VERIFY")
  <1>1. ASSUME VerifyImage(c, "PCH") PROVE Ok(CancelCertificate(c, "PCH"))
    BY <1>1, CancelPlanned DEF VerifyImage
  <1>2. ASSUME ImageOk(c)
        PROVE  /\ Ok(UpdateActiveOps(c, ram.upd.dynamic))
               /\ Ok(RecoverRecoveryOps(c) \o SvnOps("PCH", Svn(c)))
    <2>1. c \in DOMAIN Capsules /\ ~Out(c, dead)
      BY <1>2, ImageNotOut DEF Good, Images
    <2>2. Sober(UpdateActiveOps(c, ram.upd.dynamic), dead)
      BY <2>1, SecOpsSober DEF UpdateActiveOps
    <2>3. Sober(RecoverRecoveryOps(c), dead)
      BY <2>1, SoberArea DEF RecoverRecoveryOps
    <2>4. Sober(RecoverRecoveryOps(c) \o SvnOps("PCH", Svn(c)), dead)
      BY <2>3, SoberSvn, SoberConcat
    <2> QED
      BY <2>2, <2>4, SoberPlanned
  <1>3. Ok(<<>>)
    BY SoberEmpty, SoberPlanned
  <1> HIDE DEF Ok
  <1>4. Ok(UpdateOps(c))
    BY <1>1, <1>2, <1>3 DEF UpdateOps
  <1> QED
    BY <1>4 DEF Ok

\* recover_image
LEMMA RecoverSober ==
  ASSUME KeysHaveOnePlace, Kept(keym, ufm, dead), ram.rec => flash.recovery \in DOMAIN Capsules
  PROVE  Sober(RecoverImage, dead)
  <1>1. \A which : Sober(<<Mark(which)>>, dead)
    BY SoberOne DEF Mark, IsRec
  <1>2. ASSUME ram.rec PROVE Sober(RecoverActiveOps(flash.recovery) \o <<Mark("act")>>, dead)
    BY <1>1, <1>2, SecOpsSober, SoberConcat
  <1>3. ASSUME NEW from, ImageOk(from), NEW fetch \in BOOLEAN
        PROVE  Sober((IF fetch THEN StagePchOps(from) ELSE <<>>) \o RecoverRecoveryOps(from) \o <<Mark("rec")>>, dead)
    <2> DEFINE p == IF fetch THEN StagePchOps(from) ELSE <<>>
    <2>1. ~Out(from, dead)
      BY <1>3, ImageNotOut
    <2>2. Sober(RecoverRecoveryOps(from), dead) /\ Sober(StagePchOps(from), dead)
      BY <2>1, SoberArea DEF RecoverRecoveryOps, StagePchOps
    <2>3. Sober(p, dead)
      BY <2>2, SoberEmpty
    <2> HIDE DEF p
    <2>4. Sober(p \o RecoverRecoveryOps(from), dead)
      BY <2>2, <2>3, SoberConcat
    <2>5. Sober((p \o RecoverRecoveryOps(from)) \o <<Mark("rec")>>, dead)
      BY <1>1, <2>4, SoberConcat
    <2> QED
      BY <2>5 DEF p
  <1> DEFINE staged == ImageOk(flash.staging)
             fetch  == ~staged /\ ~ram.act /\ ImageOk(flash.bmcStaging)
             from   == IF staged THEN flash.staging ELSE flash.bmcStaging
             q      == (IF fetch THEN StagePchOps(from) ELSE <<>>) \o RecoverRecoveryOps(from) \o <<Mark("rec")>>
  <1>4. staged \/ fetch => Sober(q, dead)
    <2>1. fetch \in BOOLEAN
      OBVIOUS
    <2>2. staged \/ fetch => ImageOk(from)
      OBVIOUS
    <2> HIDE DEF fetch, from
    <2> QED
      BY <1>3, <2>1, <2>2
  <1> HIDE DEF q
  <1>5. \/ RecoverImage = <<>>
        \/ (staged \/ fetch) /\ RecoverImage = q
        \/ ram.rec /\ RecoverImage = RecoverActiveOps(flash.recovery) \o <<Mark("act")>>
    BY DEF RecoverImage, q
  <1> QED
    BY <1>2, <1>4, <1>5, SoberEmpty

\* handle_update_requested
LEMMA FinishPlanned ==
  ASSUME NEW c, NEW q, NEW pend, Finish(c, q, pend), Planned(q, keym, ufm, dead, "VERIFY")
  PROVE  Planned(ops', keym, ufm, dead, phase')
  <1> DEFINE p == IF Succeeds(c, q) THEN pend ELSE Nothing
             o == SetPending(p)
             z == IF p = pending THEN <<>> ELSE <<o>>
  <1>1. ops' = q \o z /\ phase' = "VERIFY"
    BY DEF Finish, Begin
  <1>2. o.op = "pending"
    BY DEF SetPending
  <1> HIDE DEF o, p
  <1>3. Queue(z) /\ \A i \in DOMAIN z : z[i].op \notin {"keym", "part", "eraseUfm", "cancel", "area"}
    BY <1>2, QueueShort
  <1> HIDE DEF z
  <1> QED
    BY <1>1, <1>3, PlannedMore

LEMMA HandlersPlanned ==
  ASSUME KeysHaveOnePlace, FloorInv, KeyInv, ~lost, Handlers
  PROVE  Planned(ops', keym, ufm, dead, phase')
  <1>f. ops = <<>>
    BY HandlersFrame DEF FloorInv, Frame
  <1>g. Good(keym, ufm, dead) /\ Kept(keym, ufm, dead)
    BY <1>f, DryQueue DEF KeyInv, Good
  <1>i. /\ ufm.parts = {} => dead = {}
        /\ phase \in Live => ufm.parts # {}
    BY DEF KeyInv
  <1>e. Planned(<<>>, keym, ufm, dead, phase')
    BY <1>g, SoberEmpty, SoberPlanned
  <1>r. ASSUME Refuse PROVE Planned(ops', keym, ufm, dead, phase')
    <2>1. Planned(<<>>, keym, ufm, dead, "VERIFY")
      BY <1>g, SoberEmpty, SoberPlanned
    <2> QED
      BY <1>r, <2>1, FinishPlanned DEF Refuse
  <1>1. CASE VerifyKeys \/ VerifyActive \/ Reset
    <2>1. ops' = <<>>
      BY <1>1 DEF VerifyKeys, VerifyActive, Reset, Idle
    <2> QED
      BY <1>e, <2>1
  <1>2. CASE VerifyRecovery
    <2>1. ops' = <<>> \/ ops' = SvnOps("PCH", Svn(flash.recovery))
      BY <1>2 DEF VerifyRecovery
    <2> QED
      BY <1>g, <2>1, SoberEmpty, SoberSvn, SoberPlanned
  <1>3. CASE Recovery
    <2>1. phase = "RECOVERY" /\ (ops' = <<>> \/ ops' = RecoverImage)
      BY <1>3 DEF Recovery, Idle
    <2>2. ram.rec => flash.recovery \in DOMAIN Capsules
      BY <2>1 DEF FloorInv, RecInv
    <2> QED
      BY <1>g, <2>1, <2>2, SoberEmpty, RecoverSober, SoberPlanned
  <1>4. CASE UpdatePch
    <2>1. Finish(flash.staging, UpdateOps(flash.staging), ram.upd.pend) /\ phase = "UPDATE_PCH"
      BY <1>4 DEF UpdatePch, Idle
    <2>2. Planned(UpdateOps(flash.staging), keym, ufm, dead, "VERIFY")
      BY <1>g, <1>i, <2>1, UpdatePlanned DEF Live
    <2> QED
      BY <2>1, <2>2, FinishPlanned
  <1>5. CASE EraseCurrent
    <2>1. ops' = EraseOps /\ phase' = "UNPROVISIONED"
      BY <1>5 DEF EraseCurrent, Begin
    <2> QED
      BY <1>g, <2>1, ErasePlanned
  <1>6. CASE BootDone
    <2>1. \/ Refuse
          \/ Finish(pending.what, HrotUpdate(pending.what, "SECONDARY"), Nothing)
          \/ Begin(<<>>, "UPDATE_PCH")
      BY <1>6, Zenon DEF BootDone
    <2>2. Planned(HrotUpdate(pending.what, "SECONDARY"), keym, ufm, dead, "VERIFY")
      BY <1>g, <1>i, HrotPlanned
    <2> QED
      BY <1>e, <1>r, <2>1, <2>2, FinishPlanned DEF Begin
  <1>7. ASSUME NEW c, NEW r, RotRequest(c, r)
        PROVE  Planned(ops', keym, ufm, dead, phase')
    <2>1. Finish(c, HrotUpdate(c, "PRIMARY"), Pend("rotStaging", r, c))
      BY <1>7 DEF RotRequest
    <2>2. Planned(HrotUpdate(c, "PRIMARY"), keym, ufm, dead, "VERIFY")
      BY <1>g, <1>i, HrotPlanned
    <2> QED
      BY <2>1, <2>2, FinishPlanned
  <1>8. ASSUME NEW c, NEW d, NEW r, PchRequest(c, d, r) \/ BmcRequest(c, d, r)
        PROVE  Planned(ops', keym, ufm, dead, phase')
    <2>1. Refuse \/ ops' = <<>> \/ ops' = StagePchOps(c)
      BY <1>8 DEF PchRequest, BmcRequest, Begin
    <2>2. Sober(StagePchOps(c), dead)
      BY SoberArea DEF StagePchOps
    <2> QED
      BY <1>e, <1>g, <1>r, <2>1, <2>2, SoberPlanned
  <1>9. ASSUME NEW c, NEW sel, ProvisionImage(c, sel)
        PROVE  Planned(ops', keym, ufm, dead, phase')
    <2>1. ops' = HrotUpdate(c, sel) /\ phase' = "UNPROVISIONED"
      BY <1>9 DEF ProvisionImage, Begin
    <2> QED
      BY <1>g, <1>i, <2>1, HrotPlanned
  <1>10. CASE Tampers
    <2>1. ops' = <<>>
      BY <1>10 DEF Tampers, Tamper, Running
    <2> QED
      BY <1>e, <2>1
  <1> QED
    BY <1>1, <1>2, <1>3, <1>4, <1>5, <1>6, <1>7, <1>8, <1>9, <1>10, Zenon DEF Handlers, Requests

\* Where they go: only a provisioned platform is booted, and with good key
\* manifests it is not locked down.
LEMMA HandlersPhase ==
  ASSUME FloorInv, KeyInv, Handlers
  PROVE  /\ phase' = "LOCKDOWN" => lost
         /\ ~lost => (phase' \in Live => ufm.parts # {})
  <1>1. CASE VerifyKeys
    <2>1. /\ ops = <<>>
          /\ phase' \in {"UNPROVISIONED", "LOCKDOWN", "VERIFY_IMAGES"}
          /\ phase' # "UNPROVISIONED" => Provisioned
          /\ phase' = "LOCKDOWN" => ~VerifyAll
      BY <1>1 DEF VerifyKeys, Idle
    <2>2. phase' # "UNPROVISIONED" => ufm.parts # {}
      BY <2>1 DEF Provisioned, AllParts
    <2>3. ASSUME ~lost, ufm.parts # {} PROVE VerifyAll
      <3>1. Good(keym, ufm, dead)
        BY <2>1, <2>3, DryQueue DEF KeyInv
      <3>2. keym[0] # Blank /\ 0 \in Slot
        BY <2>3, <3>1, SlotsAssumption DEF Good, Slot
      <3>3. \A s \in Slot : Present(s) => Whole(s)
        BY <3>1 DEF Good, Filled, Present, Whole
      <3> QED
        BY <3>2, <3>3 DEF VerifyAll, Present
    <2> QED
      BY <2>1, <2>2, <2>3 DEF Live
  <1>2. CASE VerifyRecovery \/ VerifyActive \/ Recovery \/ UpdatePch \/ EraseCurrent \/ Reset
    <2>1. /\ phase' # "LOCKDOWN"
          /\ phase \in Live \/ phase' \notin Live
      BY <1>2 DEF VerifyRecovery, VerifyActive, Recovery, UpdatePch, EraseCurrent, Reset, Idle, Live, Finish, Begin
    <2> QED
      BY <2>1 DEF KeyInv
  <1>3. CASE BootDone
    <2>1. phase \in Live /\ phase' # "LOCKDOWN"
      BY <1>3 DEF BootDone, Live, Refuse, Finish, Begin
    <2> QED
      BY <2>1 DEF KeyInv
  <1>4. ASSUME NEW c, NEW r, RotRequest(c, r)
        PROVE  phase' = "VERIFY"
    BY <1>4 DEF RotRequest, Finish, Begin
  <1>5. ASSUME NEW c, NEW d, NEW r, PchRequest(c, d, r) \/ BmcRequest(c, d, r)
        PROVE  phase \in Live /\ phase' # "LOCKDOWN"
    BY <1>5 DEF PchRequest, BmcRequest, Running, Live, Refuse, Finish, Begin
  <1>6. ASSUME NEW c, NEW sel, ProvisionImage(c, sel)
        PROVE  phase' = "UNPROVISIONED"
    BY <1>6 DEF ProvisionImage, Begin
  <1>7. CASE Tampers
    <2>1. phase' = phase /\ phase \in Live /\ phase # "LOCKDOWN"
      BY <1>7 DEF Tampers, Tamper, Running, Live
    <2> QED
      BY <2>1 DEF KeyInv
  <1>8. CASE Requests
    <2>1. phase' \in {"VERIFY", "UNPROVISIONED"} \/ (phase \in Live /\ phase' # "LOCKDOWN")
      BY <1>4, <1>5, <1>6, <1>8, Zenon DEF Requests
    <2> QED
      BY <2>1 DEF KeyInv, Live
  <1> QED
    BY <1>1, <1>2, <1>3, <1>7, <1>8 DEF Handlers

-----------------------------------------------------------------------------
(* The writes.                                                             *)

LEMMA UfmDone ==
  ASSUME Shapes, NEW o, NEW ph, Fits(o, ph), Done(o)
  PROVE  /\ o.op = "cancel" =>
              /\ ufm'.parts = ufm.parts
              /\ ufm'.cancelled = ufm.cancelled \cup {<<o.policy, o.at[1], o.at[2]>>}
              /\ dead' = dead \cup {<<o.policy, Manifests[keym[o.at[1]]].keys[o.at[2] + 1]>>}
         /\ o.op = "part" => ufm'.parts = ufm.parts \cup {o.part}
         /\ o.op = "eraseUfm" => ufm'.parts = {} /\ dead' = {}
         /\ o.op \notin {"cancel", "eraseUfm"} => ufm'.cancelled = ufm.cancelled /\ dead' = dead
         /\ o.op \notin {"part", "eraseUfm"} => ufm'.parts = ufm.parts
         /\ o.op # "keym" => keym' = keym
  <1>k. o.op # "keym" => keym' = keym
    BY DEF Done
  <1>d. o.op \notin {"cancel", "eraseUfm"} => dead' = dead
    BY DEF Done
  <1>1. CASE o.op = "cancel"
    <2>1. /\ ufm' = [ufm EXCEPT !.cancelled = @ \cup {<<o.policy, o.at[1], o.at[2]>>}]
          /\ dead' = dead \cup {<<o.policy, Manifests[keym[o.at[1]]].keys[o.at[2] + 1]>>}
      BY <1>1 DEF Done
    <2> QED
      BY <1>1, <1>k, <2>1 DEF Shapes
  <1>2. CASE o.op = "svn"
    <2>1. ufm' = [ufm EXCEPT !.svn[o.policy] = o.svn]
      BY <1>2 DEF Done
    <2> QED
      BY <1>2, <1>k, <1>d, <2>1 DEF Shapes
  <1>3. CASE o.op = "part"
    <2>1. ufm' = [ufm EXCEPT !.parts = @ \cup {o.part}]
      BY <1>3 DEF Done
    <2> QED
      BY <1>3, <1>k, <1>d, <2>1 DEF Shapes
  <1>4. CASE o.op = "eraseUfm"
    <2>1. ufm' = ErasedUfm /\ dead' = {}
      BY <1>4 DEF Done
    <2> QED
      BY <1>4, <1>k, <2>1 DEF ErasedUfm
  <1>5. CASE o.op \notin {"cancel", "svn", "part", "eraseUfm"}
    <2>1. ufm' = ufm
      BY <1>5 DEF Done
    <2> QED
      BY <1>5, <1>k, <1>d, <2>1
  <1> QED
    BY <1>1, <1>2, <1>3, <1>4, <1>5

\* One write after the other, the plan is kept.
LEMMA KeysDone ==
  ASSUME FloorInv, KeyInv, ~lost, OpDone
  PROVE  /\ Planned(ops', keym', ufm', dead', phase')
         /\ ufm'.parts = {} => dead' = {}
         /\ phase' \in Live => ufm'.parts # {}
  <1> DEFINE o == Head(ops)
             rest == Tail(ops)
             k == After(ops, keym)
             l == After(rest, keym')
  <1>1. ops # <<>> /\ Done(o) /\ ops' = rest /\ phase' = phase
    BY DEF OpDone
  <1>2. /\ Queue(ops) /\ Queue(rest) /\ 1 \in DOMAIN ops /\ o = ops[1] /\ Fits(o, phase)
        /\ \A i \in DOMAIN rest : i \in Nat /\ i >= 1 /\ i + 1 \in DOMAIN ops /\ rest[i] = ops[i + 1]
    BY <1>1, HeadOf
  <1>3. \A s \in Slot : l[s] = k[s]
    BY <1>1, <1>2, AfterDone
  <1>4. /\ Laid(ops, keym, ufm, dead, phase)
        /\ NoErase(ops) => Good(k, ufm, dead)
        /\ ~NoErase(ops) => Filled(k)
        /\ ufm.parts = {} => dead = {}
        /\ phase \in Live => ufm.parts # {}
    BY DEF KeyInv, Planned
  <1>5. /\ o.op = "cancel" =>
             /\ ufm'.parts = ufm.parts
             /\ ufm'.cancelled = ufm.cancelled \cup {<<o.policy, o.at[1], o.at[2]>>}
             /\ dead' = dead \cup {<<o.policy, Manifests[keym[o.at[1]]].keys[o.at[2] + 1]>>}
        /\ o.op = "part" => ufm'.parts = ufm.parts \cup {o.part}
        /\ o.op = "eraseUfm" => ufm'.parts = {} /\ dead' = {}
        /\ o.op \notin {"cancel", "eraseUfm"} => ufm'.cancelled = ufm.cancelled /\ dead' = dead
        /\ o.op \notin {"part", "eraseUfm"} => ufm'.parts = ufm.parts
        /\ o.op # "keym" => keym' = keym
    BY <1>1, <1>2, UfmDone DEF FloorInv
  <1>6. o.op = "cancel" => \A i \in DOMAIN ops : ops[i].op \notin {"keym", "part", "eraseUfm", "area"}
    BY <1>2, <1>4 DEF Laid
  <1>k. o.op = "cancel" => \A s \in Slot : k[s] = keym[s]
    BY <1>2, <1>6, AfterDry
  <1>0. 0 \in Slot
    BY SlotsAssumption DEF Slot
  <1> HIDE DEF o, rest, k, l
  <1>7. \A i \in DOMAIN rest : i + 1 # 1 /\ rest[i].op # "eraseUfm"
    BY <1>2, <1>4 DEF Laid
  <1>8. NoErase(rest) /\ (o.op # "eraseUfm" => NoErase(ops))
    <2>1. \A i \in DOMAIN ops : ops[i].op = "eraseUfm" => i = 1
      BY <1>4 DEF Laid
    <2> QED
      BY <1>2, <1>7, <2>1 DEF NoErase
  <1>9. Good(l, ufm', dead')
    <2>1. CASE o.op = "eraseUfm"
      <3>1. ~NoErase(ops)
        BY <1>2, <2>1 DEF NoErase
      <3>2. Filled(l)
        BY <1>3, <1>4, <3>1, GoodSame
      <3> QED
        BY <1>5, <2>1, <3>2 DEF Good, Kept
    <2>2. CASE o.op # "eraseUfm"
      <3>1. Good(l, ufm, dead)
        BY <1>3, <1>4, <1>8, <2>2, GoodSame
      <3>2. CASE o.op = "cancel"
        <4>1. PICK s \in Slot, n \in Nat, key \in STRING : o.at = <<s, n - 1>> /\ FirstPlace(keym, s, n, key)
          BY <1>2, <1>4, <3>2 DEF Laid
        <4>2. o.at[1] = s /\ o.at[2] = n - 1 /\ o.at[2] + 1 = n /\ Manifests[keym[s]].keys[n] = key
          BY <4>1 DEF FirstPlace
        <4>3. /\ dead' = dead \cup {<<o.policy, key>>}
              /\ ufm'.cancelled = ufm.cancelled \cup {<<o.policy, s, n - 1>>} /\ ufm'.parts = ufm.parts
          BY <1>5, <3>2, <4>2
        <4>4. FirstPlace(l, s, n, key)
          BY <1>3, <1>k, <3>2, <4>1 DEF FirstPlace
        <4>5. ASSUME NEW x \in dead'
              PROVE  \E s2 \in Slot, i \in Nat : FirstPlace(l, s2, i, x[2]) /\ <<x[1], s2, i - 1>> \in ufm'.cancelled
          <5>1. CASE x \in dead
            <6>1. PICK s2 \in Slot, i \in Nat : FirstPlace(l, s2, i, x[2]) /\ <<x[1], s2, i - 1>> \in ufm.cancelled
              BY <3>1, <5>1 DEF Good, Kept
            <6> QED
              BY <4>3, <6>1
          <5>2. CASE x = <<o.policy, key>>
            <6>1. x[1] = o.policy /\ x[2] = key
              BY <5>2
            <6> QED
              BY <4>3, <4>4, <6>1
          <5> QED
            BY <4>3, <5>1, <5>2
        <4> QED
          BY <3>1, <4>3, <4>5 DEF Good, Kept
      <3>3. CASE o.op = "part"
        <4>1. l[0] # Blank
          BY <1>0, <1>2, <1>3, <1>4, <3>3 DEF Laid, k
        <4> QED
          BY <1>5, <3>1, <3>3, <4>1 DEF Good, Kept
      <3>4. CASE o.op \notin {"cancel", "part"}
        BY <1>5, <2>2, <3>1, <3>4 DEF Good, Kept
      <3> QED
        BY <3>2, <3>3, <3>4
    <2> QED
      BY <2>1, <2>2
  <1>10. Laid(rest, keym', ufm', dead', phase)
    <2>1. ASSUME NEW i \in DOMAIN rest, NEW j \in DOMAIN rest, i < j, Prec(rest[j])
          PROVE  Prec(rest[i])
      <3>1. i + 1 < j + 1
        BY <1>2, <2>1
      <3> QED
        BY <1>2, <1>4, <1>7, <2>1, <3>1 DEF Laid
    <2>2. ASSUME NEW i \in DOMAIN rest, rest[i].op = "part" PROVE l[0] # Blank
      BY <1>0, <1>2, <1>3, <1>4, <2>2 DEF Laid, k
    <2>3. ASSUME NEW i \in DOMAIN rest, rest[i].op = "cancel"
          PROVE  /\ ufm'.parts # {}
                 /\ \E s \in Slot, n \in Nat, key \in STRING : rest[i].at = <<s, n - 1>> /\ FirstPlace(keym', s, n, key)
      <3>1. i + 1 \in DOMAIN ops /\ rest[i] = ops[i + 1] /\ ops[i + 1].op = "cancel"
        BY <1>2, <2>3
      <3>2. o.op \notin {"keym", "part", "eraseUfm"}
        BY <1>2, <1>4, <3>1 DEF Laid
      <3>3. keym' = keym /\ ufm'.parts = ufm.parts
        BY <1>5, <3>2
      <3> QED
        BY <1>4, <3>1, <3>3 DEF Laid
    <2>4. ASSUME NEW i \in DOMAIN rest, IsRec(rest[i]), rest[i].what \in Images
          PROVE  ~Out(rest[i].what, dead')
      <3>1. i + 1 \in DOMAIN ops /\ rest[i] = ops[i + 1]
        BY <1>2, <2>4
      <3>2. ~Out(rest[i].what, dead)
        BY <1>4, <2>4, <3>1 DEF Laid
      <3>3. o.op # "cancel"
        BY <1>6, <2>4, <3>1 DEF IsRec
      <3>4. dead' = {} \/ dead' = dead
        BY <1>5, <3>3
      <3> QED
        BY <3>2, <3>4 DEF Out
    <2>5. ASSUME NEW i \in DOMAIN rest, NEW j \in DOMAIN rest, rest[i].op = "cancel"
          PROVE  rest[j].op \notin {"keym", "part", "eraseUfm", "area"}
      BY <1>2, <1>4, <2>5 DEF Laid
    <2> QED
      BY <1>7, <2>1, <2>2, <2>3, <2>4, <2>5 DEF Laid, l
  <1>11. Planned(rest, keym', ufm', dead', phase)
    BY <1>2, <1>8, <1>9, <1>10 DEF Planned, l
  <1>12. /\ ufm'.parts = {} => dead' = {}
         /\ phase \in Live => ufm'.parts # {}
    <2>1. CASE o.op = "cancel"
      <3>1. ufm.parts # {}
        BY <1>2, <1>4, <2>1 DEF Laid
      <3> QED
        BY <1>5, <2>1, <3>1
    <2>2. CASE o.op = "eraseUfm"
      <3>1. phase \notin Live
        BY <1>2, <1>4, <2>2 DEF Laid, Live
      <3> QED
        BY <1>5, <2>2, <3>1
    <2>3. CASE o.op = "part"
      BY <1>5, <2>3
    <2>4. CASE o.op \notin {"cancel", "eraseUfm", "part"}
      BY <1>4, <1>5, <2>4
    <2> QED
      BY <2>1, <2>2, <2>3, <2>4
  <1> QED
    BY <1>1, <1>11, <1>12

\* A write that fails or is cut off, and the rest given up: nothing was lost
\* unless it says so.
LEMMA KeysInterrupted ==
  ASSUME FloorInv, KeyInv, OpFails \/ PowerCut
  PROVE  KeyInv'
  <1> DEFINE o == Head(ops)
  <1>1. lost' => KeyInv'
    BY DEF KeyInv
  <1>2. ASSUME ~lost'
        PROVE  KeyInv'
    <2>1. /\ ~lost /\ ~Precious(ops)
          /\ Same \/ (ops # <<>> /\ Torn(o) /\ ~IsUfm(o))
      BY <1>2 DEF OpFails, PowerCut, IsUfm
    <2>2. ops # <<>> => ~Prec(o) /\ o = ops[1] /\ Fits(o, phase)
      BY <2>1, HeadOf DEF Precious, Prec
    <2>3. keym' = keym /\ ufm' = ufm /\ dead' = dead
      <3>1. CASE Same
        BY <3>1 DEF Same
      <3>2. CASE ops # <<>> /\ Torn(o) /\ ~IsUfm(o)
        <4>1. dead' = dead /\ ufm' = ufm
          BY <2>2, <3>2, TornEffect DEF FloorInv, Torn
        <4>2. keym' = keym
          BY <2>2, <3>2 DEF Torn, Prec
        <4> QED
          BY <4>1, <4>2
      <3> QED
        BY <2>1, <3>1, <3>2
    <2>4. Good(keym, ufm, dead)
      BY <2>1, <2>2, DryQueue DEF KeyInv
    <2>5. Sober(ops', dead)
      <3> DEFINE e == SetPending(Nothing)
      <3>1. e.op = "pending"
        BY DEF SetPending
      <3>2. ops' = <<e>> \/ ops' = <<>>
        BY DEF OpFails, PowerCut
      <3> HIDE DEF e
      <3> QED
        BY <3>1, <3>2, SoberEmpty, SoberOne DEF IsRec
    <2>6. Planned(ops', keym', ufm', dead', phase')
      BY <2>3, <2>4, <2>5, SoberPlanned
    <2>7. phase' = "VERIFY" \/ phase' = phase
      BY DEF OpFails, PowerCut
    <2>8. /\ ufm'.parts = {} => dead' = {}
          /\ phase' \in Live => ufm'.parts # {}
          /\ phase' # "LOCKDOWN"
      BY <2>1, <2>3, <2>7 DEF KeyInv, Live
    <2> QED
      BY <2>6, <2>8 DEF KeyInv
  <1> QED
    BY <1>1, <1>2

LEMMA KeyInit == Init => KeyInv
  <1> SUFFICES ASSUME Init PROVE KeyInv
    OBVIOUS
  <1>1. /\ \A s \in Slot : keym[s] \in DOMAIN Manifests \cup {Blank}
        /\ \A t, u \in Slot : t < u /\ keym[u] # Blank => keym[t] # Blank
        /\ ufm.parts # {} => keym[0] # Blank
        /\ ops = <<>> /\ phase = "VERIFY" /\ dead = {}
    BY ScenariosAssumption DEF Init
  <1>2. Good(keym, ufm, dead)
    BY <1>1 DEF Good, Filled, Kept
  <1>3. Planned(ops, keym, ufm, dead, phase)
    BY <1>1, <1>2, SoberEmpty, SoberPlanned
  <1> QED
    BY <1>1, <1>3 DEF KeyInv, Live

LEMMA KeyStep ==
  ASSUME KeysHaveOnePlace, FloorInv, KeyInv, [Next]_vars
  PROVE  KeyInv'
  <1>1. CASE Handlers
    <2>1. UNCHANGED <<keym, ufm, dead, lost>>
      BY <1>1, HandlersFrame DEF FloorInv, Frame
    <2>2. ~lost => Planned(ops', keym, ufm, dead, phase')
      BY <1>1, HandlersPlanned
    <2>3. /\ phase' = "LOCKDOWN" => lost
          /\ ~lost => (phase' \in Live => ufm.parts # {})
      BY <1>1, HandlersPhase
    <2> QED
      BY <2>1, <2>2, <2>3 DEF KeyInv
  <1>2. CASE OpDone
    <2>1. lost' = lost /\ phase' = phase
      BY <1>2 DEF OpDone
    <2>2. ~lost => /\ Planned(ops', keym', ufm', dead', phase')
                   /\ ufm'.parts = {} => dead' = {}
                   /\ phase' \in Live => ufm'.parts # {}
      BY <1>2, KeysDone
    <2> QED
      BY <2>1, <2>2 DEF KeyInv
  <1>3. CASE UNCHANGED vars
    <2>1. UNCHANGED <<ops, keym, ufm, dead, phase, lost>>
      BY <1>3 DEF vars
    <2> QED
      BY <2>1 DEF KeyInv
  <1> QED
    BY <1>1, <1>2, <1>3, NextSteps, KeysInterrupted

-----------------------------------------------------------------------------
(* What a step does.                                                       *)

CancelledAction ==
  ~lost' => /\ phase = "VERIFY_ACTIVE" /\ phase' = "RUNTIME" =>
                 ~ \E r \in Capsules[flash.active["pfm"]].regions : <<"PCH", r.key>> \in dead
            /\ flash'.recovery # flash.recovery /\ flash'.recovery \in Images =>
                 ~Cancelled(flash'.recovery)

LEMMA CancelledStep ==
  ASSUME KeysHaveOnePlace, FloorInv, KeyInv, [Next]_vars
  PROVE  CancelledAction
  <1> SUFFICES ASSUME ~lost' PROVE CancelledAction
    BY DEF CancelledAction
  <1>0. ~lost
    <2>1. CASE Handlers
      BY <2>1, HandlersFrame DEF FloorInv, Frame
    <2>2. CASE OpDone \/ OpFails \/ PowerCut \/ UNCHANGED vars
      BY <2>2 DEF OpDone, OpFails, PowerCut, vars
    <2> QED
      BY <2>1, <2>2, NextSteps
  <1>1. ASSUME phase = "VERIFY_ACTIVE", phase' = "RUNTIME",
               NEW r \in Capsules[flash.active["pfm"]].regions, <<"PCH", r.key>> \in dead
        PROVE  FALSE
    <2>1. VerifyActive
      <3>1. Handlers
        BY <1>1, NextSteps DEF OpDone, OpFails, PowerCut, vars
      <3>2. /\ ~VerifyKeys /\ ~VerifyRecovery /\ ~Recovery /\ ~UpdatePch /\ ~EraseCurrent /\ ~Reset /\ ~BootDone
            /\ ~Tampers
        BY <1>1 DEF VerifyKeys, VerifyRecovery, Recovery, UpdatePch, EraseCurrent, Reset, BootDone, Tampers,
                    Tamper, Running, Idle
      <3>3. ~Requests
        BY <1>1 DEF Requests, RotRequest, PchRequest, BmcRequest, ProvisionImage, Running, Idle
      <3> QED
        BY <3>1, <3>2, <3>3 DEF Handlers
    <2>2. ops = <<>> /\ ActiveOk
      <3>1. ops = <<>>
        BY <2>1 DEF VerifyActive, Idle
      <3> DEFINE ok == ActiveOk
      <3>2. phase' = CASE ~ram.recovered /\ ~(ok /\ ram.rec) -> "RECOVERY"
                       [] ok /\ (ram.recovered \/ ram.rec)   -> "RUNTIME"
                       [] OTHER                              -> "HELD"
        BY <2>1 DEF VerifyActive
      <3> HIDE DEF ok
      <3>3. ok
        BY <1>1, <3>2
      <3> QED
        BY <3>1, <3>3 DEF ok
    <2>3. Kept(keym, ufm, dead)
      BY <1>0, <2>2, DryQueue DEF KeyInv, Good
    <2>4. Usable("PCH", FindById(r.key, r.id))
      BY <1>1, <2>2 DEF ActiveOk, RegionsOk, PfmKeysUsable, SignedRegions
    <2> QED
      BY <1>1, <2>3, <2>4, CancelledUnusable
  <1>2. ASSUME flash'.recovery # flash.recovery, flash'.recovery \in Images
        PROVE  ~Cancelled(flash'.recovery)
    <2>1. flash'.recovery # "torn"
      BY <1>2, TornIsNoImage DEF Images
    <2>2. ~Handlers
      BY <1>2, <2>1, HandlersFrame DEF FloorInv, Frame
    <2>3. ~OpFails /\ ~PowerCut
      <3>1. ASSUME ops # <<>>, Torn(Head(ops)) PROVE FALSE
        BY <1>2, <2>1, <3>1, HeadOf, TornEffect DEF FloorInv
      <3>2. ~Same
        BY <1>2 DEF Same
      <3> QED
        BY <3>1, <3>2 DEF OpFails, PowerCut
    <2>4. OpDone
      BY <1>2, <2>2, <2>3, NextSteps DEF vars
    <2> DEFINE o == Head(ops)
    <2>5. ops # <<>> /\ Done(o) /\ o = ops[1] /\ 1 \in DOMAIN ops /\ Fits(o, phase)
      BY <2>4, HeadOf DEF OpDone
    <2>6. IsRec(o) /\ flash'.recovery = o.what
      BY <1>2, <2>5, DoneEffect DEF FloorInv
    <2> HIDE DEF o
    <2>7. ~Out(o.what, dead)
      BY <1>0, <1>2, <2>5, <2>6 DEF KeyInv, Planned, Laid
    <2> QED
      BY <2>6, <2>7 DEF Out, Cancelled
  <1> QED
    BY <1>1, <1>2 DEF CancelledAction

\* In every reachable state the key manifests are good, or will be when what
\* is planned is done, or a write to them or to the UFM was interrupted.
THEOREM KeyInvariant ==
  ASSUME KeysHaveOnePlace
  PROVE  Spec => []KeyInv
  <1>1. FloorInv /\ KeyInv /\ [Next]_vars => KeyInv'
    BY KeyStep
  <1> QED
    BY <1>1, FloorInvariant, KeyInit, PTL DEF Spec

\* A key cancelled for the host stays out, for any slots, manifests and
\* capsules: no image of it boots and none is written to the recovery region
\* (cerberus_pfr_cancel_csk_keys, verify_csk_key_id, cerberus_append_key_manifest).
THEOREM CancelledKeysStayOut ==
  ASSUME KeysHaveOnePlace
  PROVE  Spec => CancelledStaysOut
  <1>1. FloorInv /\ KeyInv /\ [Next]_vars => CancelledAction
    BY CancelledStep
  <1> QED
    BY <1>1, FloorInvariant, KeyInvariant, PTL DEF Spec, CancelledStaysOut, CancelledAction

\* A platform is locked down only if a write to the key manifests or to the UFM
\* was interrupted (handle_key_manifest_verification).
THEOREM LockdownNeedsLoss ==
  ASSUME KeysHaveOnePlace
  PROVE  Spec => [](phase = "LOCKDOWN" => lost)
  <1>1. KeyInv => (phase = "LOCKDOWN" => lost)
    BY DEF KeyInv
  <1> QED
    BY <1>1, KeyInvariant, PTL

-----------------------------------------------------------------------------
(* What readers find: every manifest that the RoT was given is in a slot,   *)
(* or will be, and the bits are those of keys that were cancelled.          *)

Stored(km, u, d, kn) ==
  /\ \A m \in kn : m \in DOMAIN Manifests /\ \E s \in Slot : km[s] = m
  /\ \A b \in u.cancelled : b[2] \in Slot =>
       km[b[2]] \in DOMAIN Manifests /\ <<b[1], Manifests[km[b[2]]].keys[b[3] + 1]>> \in d
Stores(o) == o.op = "keym" /\ o.what \in DOMAIN Manifests
Saved(q, km, u, d, kn) ==
  /\ Queue(q)
  /\ NoErase(q)  => Stored(After(q, km), u, d, kn)
  /\ ~NoErase(q) => Stored(km, u, d, kn)
  /\ \A i \in DOMAIN q : Stores(q[i]) =>
       /\ \E s \in Slot : After(q, km)[s] = q[i].what
       /\ NoErase(q) /\ (u.parts # {} \/ \E j \in DOMAIN q : j < i /\ q[j].op = "part")

StoredInv ==
  ~lost => Saved(ops, keym, ufm, dead, known) /\ (ufm.parts = {} => known = {})

LEMMA StoredSame ==
  ASSUME NEW km, NEW k2, NEW u, NEW d, NEW kn, \A s \in Slot : km[s] = k2[s], Stored(km, u, d, kn)
  PROVE  Stored(k2, u, d, kn)
  BY DEF Stored

\* Queues that do not touch the key manifests.
Quiet(q) == Queue(q) /\ \A i \in DOMAIN q : q[i].op \notin {"keym", "eraseUfm"}

LEMMA QuietEmpty == Quiet(<<>>)
  BY QueueShort DEF Quiet

LEMMA QuietConcat ==
  ASSUME NEW p, NEW q, Quiet(p), Quiet(q)
  PROVE  Quiet(p \o q)
  <1> DEFINE r == p \o q
  <1>j. Joined(p, q, r)
    BY QueueConcat DEF Quiet
  <1> HIDE DEF r
  <1>1. /\ Queue(r) /\ Len(p) \in Nat
        /\ \A i \in DOMAIN p : r[i] = p[i]
        /\ \A i \in DOMAIN q : r[Len(p) + i] = q[i]
        /\ \A i \in DOMAIN r : i \in Nat /\ (i \in DOMAIN p \/ (i > Len(p) /\ i - Len(p) \in DOMAIN q))
    BY <1>j DEF Joined
  <1>2. ASSUME NEW i \in DOMAIN r PROVE r[i].op \notin {"keym", "eraseUfm"}
    <2>1. i = Len(p) + (i - Len(p))
      BY <1>1
    <2> QED
      BY <1>1, <2>1 DEF Quiet
  <1> QED
    BY <1>1, <1>2 DEF Quiet, r

LEMMA SoberQuiet ==
  ASSUME NEW q, NEW d, Sober(q, d)
  PROVE  Quiet(q)
  BY DEF Sober, Quiet

LEMMA SavedQuiet ==
  ASSUME NEW q, NEW km, NEW u, NEW d, NEW kn, Quiet(q), Stored(km, u, d, kn)
  PROVE  Saved(q, km, u, d, kn)
  <1>1. Queue(q) /\ NoErase(q) /\ \A i \in DOMAIN q : q[i].op # "keym"
    BY DEF Quiet, NoErase
  <1>2. \A s \in Slot : km[s] = After(q, km)[s]
    BY <1>1, AfterDry
  <1>3. Stored(After(q, km), u, d, kn)
    BY <1>2, StoredSame
  <1> QED
    BY <1>1, <1>3 DEF Saved, Stores

LEMMA SavedMore ==
  ASSUME NEW q, NEW km, NEW u, NEW d, NEW kn, NEW z, Quiet(z), Saved(q, km, u, d, kn)
  PROVE  Saved(q \o z, km, u, d, kn)
  <1> DEFINE p == q \o z
  <1>1. Queue(q) /\ Queue(z) /\ \A i \in DOMAIN z : z[i].op \notin {"keym", "eraseUfm"}
    BY DEF Saved, Quiet
  <1>2. \A i \in DOMAIN z : z[i].op # "keym"
    BY <1>1
  <1>s. \A s \in Slot : After(p, km)[s] = After(q, km)[s]
    BY <1>1, <1>2, AfterMore
  <1>j. Joined(q, z, p)
    BY <1>1, QueueConcat
  <1> HIDE DEF p
  <1>q. /\ Queue(p) /\ Len(q) \in Nat /\ DOMAIN q = 1..Len(q)
        /\ \A i \in DOMAIN q : i \in DOMAIN p /\ p[i] = q[i]
        /\ \A i \in DOMAIN z : p[Len(q) + i] = z[i]
        /\ \A i \in DOMAIN p : i \in Nat /\ (i \in DOMAIN q \/ (i > Len(q) /\ i - Len(q) \in DOMAIN z))
    BY <1>j DEF Joined
  <1>d. \A i \in DOMAIN p : i \in DOMAIN q \/ p[i].op \notin {"keym", "eraseUfm"}
    <2> TAKE i \in DOMAIN p
    <2>1. i = Len(q) + (i - Len(q))
      BY <1>q
    <2> QED
      BY <1>1, <1>q, <2>1
  <1>3. NoErase(p) <=> NoErase(q)
    BY <1>d, <1>q DEF NoErase
  <1>4. Stored(After(q, km), u, d, kn) => Stored(After(p, km), u, d, kn)
    BY <1>s, StoredSame
  <1>5. ASSUME NEW i \in DOMAIN p, Stores(p[i])
        PROVE  /\ \E s \in Slot : After(p, km)[s] = p[i].what
               /\ NoErase(p) /\ (u.parts # {} \/ \E j \in DOMAIN p : j < i /\ p[j].op = "part")
    <2>1. i \in DOMAIN q /\ Stores(q[i]) /\ p[i] = q[i]
      BY <1>d, <1>q, <1>5 DEF Stores
    <2>2. /\ \E s \in Slot : After(q, km)[s] = q[i].what
          /\ NoErase(q) /\ (u.parts # {} \/ \E j \in DOMAIN q : j < i /\ q[j].op = "part")
      BY <2>1 DEF Saved
    <2> QED
      BY <1>3, <1>q, <1>s, <2>1, <2>2
  <1> QED
    BY <1>3, <1>4, <1>5, <1>q DEF Saved, p

\* cerberus_pfr_cancel_csk_keys
LEMMA CancelQuiet ==
  ASSUME NEW policy, NEW c \in DOMAIN Capsules
  PROVE  Quiet(CancelCertificate(c, policy))
  <1> DEFINE q == CancelOps(policy, Capsules[c].cert)
  <1>0. /\ Queue(q)
        /\ \A n \in DOMAIN q : \E s \in Slot, id \in Nat, k \in STRING :
             q[n] = CancelBit(policy, <<s, id>>) /\ Earliest(s, id, k, Capsules[c].cert.hash)
    BY CancelQueue
  <1>1. Queue(q) /\ \A n \in DOMAIN q : \E s, id : q[n] = CancelBit(policy, <<s, id>>)
    BY <1>0
  <1> HIDE DEF q
  <1>2. \A n \in DOMAIN q : q[n].op = "cancel"
    BY <1>1 DEF CancelBit
  <1>3. Quiet(q)
    BY <1>1, <1>2 DEF Quiet
  <1> QED
    BY <1>3, QuietEmpty DEF CancelCertificate, q

\* cerberus_append_key_manifest: the manifest comes to what is there.
LEMMA SavedAppend ==
  ASSUME Filled(keym), Stored(keym, ufm, dead, known), ufm.parts # {}, NEW m \in DOMAIN Manifests
  PROVE  Saved(AppendOps(m), keym, ufm, dead, known)
  <1> DEFINE q == AppendOps(m)
             k == After(q, keym)
  <1>1. CASE ~ \E s \in Slot : Free(s)
    BY <1>1, AppendFull, QuietEmpty, SavedQuiet
  <1>2. CASE \E s \in Slot : Free(s)
    <2>0. Blank \notin DOMAIN Manifests
      BY ManifestsAssumption DEF Blank
    <2>1. PICK f \in Slot :
            /\ \A s \in Slot : (f <= s => keym[s] = Blank) /\ (s < f => keym[s] # Blank) /\ s \in Nat
            /\ Queue(q)
            /\ \A i \in DOMAIN q :
                 /\ q[i].op = "keym"
                 /\ q[i].what \in {m, Blank} \/ \E s \in Slot : s < f /\ q[i].what = keym[s]
            /\ \A s \in Slot : k[s] = IF s = f THEN m ELSE keym[s]
      BY <1>2, AppendSlots
    <2> HIDE DEF q, k
    <2>2. \A s \in Slot : keym[s] \in DOMAIN Manifests => k[s] = keym[s] /\ s # f
      BY <2>0, <2>1
    <2>3. Stored(k, ufm, dead, known)
      <3>1. \A n \in known : n \in DOMAIN Manifests /\ \E s \in Slot : k[s] = n
        BY <2>2 DEF Stored
      <3>2. \A b \in ufm.cancelled : b[2] \in Slot =>
              k[b[2]] \in DOMAIN Manifests /\ <<b[1], Manifests[k[b[2]]].keys[b[3] + 1]>> \in dead
        BY <2>2 DEF Stored
      <3> QED
        BY <3>1, <3>2 DEF Stored
    <2>4. NoErase(q)
      BY <2>1 DEF NoErase
    <2>5. \A i \in DOMAIN q : Stores(q[i]) => \E s \in Slot : k[s] = q[i].what
      BY <2>0, <2>1, <2>2 DEF Stores
    <2> QED
      BY <2>1, <2>3, <2>4, <2>5 DEF Saved, q, k
  <1> QED
    BY <1>1, <1>2

\* erase_provision_flash
LEMMA SavedErase ==
  ASSUME Stored(keym, ufm, dead, known)
  PROVE  Saved(EraseOps, keym, ufm, dead, known)
  <1> DEFINE a == EraseUfm
             b == Erase(Slot)
             c == EraseState
             q == EraseOps
  <1>1. a.op = "eraseUfm" /\ b.op = "keym" /\ b.what = Blank /\ b.slots = Slot /\ c.op = "eraseState"
    BY WriteOps DEF EraseUfm, EraseState
  <1>2. q = <<a, b, c>>
    BY DEF EraseOps
  <1> HIDE DEF a, b, c, q
  <1>3. Queue(q) /\ DOMAIN q = {1, 2, 3} /\ q[1] = a /\ q[2] = b /\ q[3] = c
    BY <1>2, QueueShort
  <1>4. Blank \notin DOMAIN Manifests
    BY ManifestsAssumption DEF Blank
  <1>5. ~NoErase(q) /\ \A i \in DOMAIN q : ~Stores(q[i])
    BY <1>1, <1>3, <1>4 DEF NoErase, Stores
  <1> QED
    BY <1>3, <1>5 DEF Saved, q

\* cerberus_provisioning_root_key_action
LEMMA SavedProvision ==
  ASSUME Stored(keym, ufm, dead, known), ufm.parts = {} => known = {} /\ dead = {}, NEW c \in DOMAIN Capsules,
         Filled(keym)
  PROVE  Saved(ProvisionOps(c), keym, ufm, dead, known)
  <1> DEFINE m == Capsules[c].manifest
             a == SetPart("ROOT")
             b == SetPart("BMC")
             x == SetPart("PCH")
             e == Erase(Slot)
             w == Write(0, m)
             q == <<a, b, x, e, w>>
  <1>1. CASE ufm.parts # {}
    <2>1. ProvisionOps(c) = <<>>
      BY <1>1 DEF ProvisionOps
    <2> QED
      BY <2>1, QuietEmpty, SavedQuiet
  <1>2. CASE ufm.parts = {}
    <2>1. /\ a.op = "part" /\ b.op = "part" /\ x.op = "part"
          /\ e.op = "keym" /\ e.what = Blank /\ e.slots = Slot
          /\ w.op = "keym" /\ w.what = m /\ w.slots = {0}
      BY WriteOps DEF SetPart
    <2>2. ProvisionOps(c) = q
      BY <1>2 DEF ProvisionOps
    <2>m. m \in DOMAIN Manifests /\ Blank \notin DOMAIN Manifests
      BY CapsulesAssumption, ManifestsAssumption DEF Blank
    <2>z. 0 \in Slot
      BY SlotsAssumption DEF Slot
    <2> HIDE DEF m, a, b, x, e, w
    <2>3. /\ Queue(q) /\ DOMAIN q = {1, 2, 3, 4, 5}
          /\ q[1] = a /\ q[2] = b /\ q[3] = x /\ q[4] = e /\ q[5] = w
      BY QueueShort
    <2> HIDE DEF q
    <2>4. After(q, keym)[0] = m
      <3>1. Touch(q, 0, 5)
        BY <2>1, <2>3 DEF Touch, Touches
      <3> QED
        BY <2>1, <2>3, <2>z, <3>1, AfterCases
    <2>5. \A z \in ufm.cancelled : z[2] \notin Slot
      BY <1>2 DEF Stored
    <2>6. Stored(After(q, keym), ufm, dead, known)
      BY <1>2, <2>5 DEF Stored
    <2>7. NoErase(q)
      BY <2>1, <2>3 DEF NoErase
    <2>8. \A i \in DOMAIN q : Stores(q[i]) => i = 5
      BY <2>1, <2>3, <2>m DEF Stores
    <2>9. 1 \in DOMAIN q /\ 1 < 5 /\ q[1].op = "part" /\ q[5].what = m
      BY <2>1, <2>3
    <2> QED
      BY <2>2, <2>3, <2>4, <2>6, <2>7, <2>8, <2>9, <2>z DEF Saved
  <1> QED
    BY <1>1, <1>2

\* cerberus_hrot_update
LEMMA SavedHrot ==
  ASSUME Filled(keym), Stored(keym, ufm, dead, known), ufm.parts = {} => known = {} /\ dead = {},
         NEW c, NEW select
  PROVE  Saved(HrotUpdate(c, select), keym, ufm, dead, known)
  <1> DEFINE Ok(q) == Saved(q, keym, ufm, dead, known)
  <1>1. Ok(<<>>) /\ Ok(EraseOps)
    BY QuietEmpty, SavedQuiet, SavedErase
  <1>2. Is(c, "PROV") => Ok(ProvisionOps(c))
    BY SavedProvision DEF Is
  <1>3. ASSUME Provisioned, VerifyImage(c, "ROT")
        PROVE  Ok(HrotOps(c, select))
    <2>1. c \in DOMAIN Capsules /\ ufm.parts # {} /\ Capsules[c].manifest \in DOMAIN Manifests
      BY <1>3, CapsulesAssumption DEF VerifyImage, Provisioned, AllParts
    <2>2. Ok(CancelCertificate(c, "ROT")) /\ Ok(AppendOps(Capsules[c].manifest))
      BY <2>1, CancelQuiet, SavedQuiet, SavedAppend
    <2> DEFINE r == IF select = "SECONDARY" THEN SvnOps("ROT", Svn(c)) ELSE <<>>
    <2>3. Ok(RotOps(c, select) \o r)
      <3>1. Quiet(RotOps(c, select))
        <4>1. Sober(RotOps(c, select), {})
          BY SoberArea DEF RotOps
        <4> QED
          BY <4>1, SoberQuiet
      <3>2. Quiet(r)
        <4>1. Sober(r, {})
          BY SoberEmpty, SoberSvn
        <4> HIDE DEF r
        <4> QED
          BY <4>1, SoberQuiet
      <3> HIDE DEF r
      <3> QED
        BY <3>1, <3>2, QuietConcat, SavedQuiet
    <2>4. CASE Is(c, "HROT") /\ SvnOk("ROT", Svn(c))
      <3>1. HrotOps(c, select) = RotOps(c, select) \o r
        BY <2>4 DEF HrotOps, Is
      <3> HIDE DEF Ok
      <3> QED
        BY <2>3, <3>1
    <2>5. CASE ~(Is(c, "HROT") /\ SvnOk("ROT", Svn(c)))
      <3>1. HrotOps(c, select) \in {EraseOps, CancelCertificate(c, "ROT"), AppendOps(Capsules[c].manifest), <<>>}
        BY <2>5, Zenon DEF HrotOps
      <3> HIDE DEF Ok
      <3> QED
        BY <1>1, <2>2, <3>1
    <2> QED
      BY <2>4, <2>5
  <1> HIDE DEF Ok
  <1>4. Ok(HrotUpdate(c, select))
    BY <1>1, <1>2, <1>3 DEF HrotUpdate
  <1> QED
    BY <1>4 DEF Ok

\* update_firmware_image
LEMMA UpdateQuiet ==
  ASSUME NEW c
  PROVE  Quiet(UpdateOps(c))
  <1>1. ASSUME VerifyImage(c, "PCH") PROVE Quiet(CancelCertificate(c, "PCH"))
    BY <1>1, CancelQuiet DEF VerifyImage
  <1>2. ASSUME ImageOk(c)
        PROVE  /\ Quiet(UpdateActiveOps(c, ram.upd.dynamic))
               /\ Quiet(RecoverRecoveryOps(c) \o SvnOps("PCH", Svn(c)))
    <2>1. c \in DOMAIN Capsules
      BY <1>2 DEF ImageOk, Is
    <2>2. Sober(UpdateActiveOps(c, ram.upd.dynamic), {})
      BY <2>1, SecOpsSober DEF UpdateActiveOps
    <2>3. Sober(RecoverRecoveryOps(c), {})
      <3>1. ~Out(c, {})
        BY DEF Out
      <3> QED
        BY <3>1, SoberArea DEF RecoverRecoveryOps
    <2>4. Sober(RecoverRecoveryOps(c) \o SvnOps("PCH", Svn(c)), {})
      BY <2>3, SoberSvn, SoberConcat
    <2> QED
      BY <2>2, <2>4, SoberQuiet
  <1> QED
    BY <1>1, <1>2, QuietEmpty DEF UpdateOps

\* handle_update_requested
LEMMA SavedFinish ==
  ASSUME NEW c, NEW q, NEW pend, Finish(c, q, pend), Saved(q, keym, ufm, dead, known)
  PROVE  Saved(ops', keym, ufm, dead, known)
  <1> DEFINE p == IF Succeeds(c, q) THEN pend ELSE Nothing
             o == SetPending(p)
             z == IF p = pending THEN <<>> ELSE <<o>>
  <1>1. ops' = q \o z
    BY DEF Finish, Begin
  <1>2. o.op = "pending"
    BY DEF SetPending
  <1> HIDE DEF o, p
  <1>3. Quiet(z)
    BY <1>2, QueueShort DEF Quiet
  <1> HIDE DEF z
  <1> QED
    BY <1>1, <1>3, SavedMore

LEMMA HandlersSaved ==
  ASSUME KeysHaveOnePlace, FloorInv, KeyInv, StoredInv, ~lost, Handlers
  PROVE  Saved(ops', keym, ufm, dead, known)
  <1>f. ops = <<>>
    BY HandlersFrame DEF FloorInv, Frame
  <1>g. Filled(keym) /\ Kept(keym, ufm, dead)
    BY <1>f, DryQueue DEF KeyInv, Good
  <1>s. Stored(keym, ufm, dead, known)
    <2>1. Quiet(ops) /\ NoErase(ops)
      BY <1>f, QuietEmpty DEF Quiet, NoErase
    <2>2. \A s \in Slot : After(ops, keym)[s] = keym[s]
      BY <2>1, AfterDry DEF Quiet
    <2> QED
      BY <2>1, <2>2, StoredSame DEF StoredInv, Saved
  <1>i. ufm.parts = {} => known = {} /\ dead = {}
    BY DEF StoredInv, KeyInv
  <1>e. Saved(<<>>, keym, ufm, dead, known)
    BY <1>s, QuietEmpty, SavedQuiet
  <1>r. ASSUME Refuse PROVE Saved(ops', keym, ufm, dead, known)
    BY <1>e, <1>r, SavedFinish DEF Refuse
  <1>1. CASE VerifyKeys \/ VerifyActive \/ Reset
    <2>1. ops' = <<>>
      BY <1>1 DEF VerifyKeys, VerifyActive, Reset, Idle
    <2> QED
      BY <1>e, <2>1
  <1>2. CASE VerifyRecovery
    <2>1. ops' = <<>> \/ ops' = SvnOps("PCH", Svn(flash.recovery))
      BY <1>2 DEF VerifyRecovery
    <2>2. Quiet(ops')
      BY <2>1, QuietEmpty, SoberSvn, SoberQuiet
    <2> QED
      BY <1>s, <2>2, SavedQuiet
  <1>3. CASE Recovery
    <2>1. phase = "RECOVERY" /\ (ops' = <<>> \/ ops' = RecoverImage)
      BY <1>3 DEF Recovery, Idle
    <2>2. ram.rec => flash.recovery \in DOMAIN Capsules
      BY <2>1 DEF FloorInv, RecInv
    <2>3. Quiet(ops')
      BY <1>g, <2>1, <2>2, QuietEmpty, RecoverSober, SoberQuiet
    <2> QED
      BY <1>s, <2>3, SavedQuiet
  <1>4. CASE UpdatePch
    <2>1. Finish(flash.staging, UpdateOps(flash.staging), ram.upd.pend)
      BY <1>4 DEF UpdatePch
    <2>2. Saved(UpdateOps(flash.staging), keym, ufm, dead, known)
      BY <1>s, UpdateQuiet, SavedQuiet
    <2> QED
      BY <2>1, <2>2, SavedFinish
  <1>5. CASE EraseCurrent
    <2>1. ops' = EraseOps
      BY <1>5 DEF EraseCurrent, Begin
    <2> QED
      BY <1>s, <2>1, SavedErase
  <1>6. CASE BootDone
    <2>1. \/ Refuse
          \/ Finish(pending.what, HrotUpdate(pending.what, "SECONDARY"), Nothing)
          \/ Begin(<<>>, "UPDATE_PCH")
      BY <1>6, Zenon DEF BootDone
    <2>2. Saved(HrotUpdate(pending.what, "SECONDARY"), keym, ufm, dead, known)
      BY <1>g, <1>i, <1>s, SavedHrot
    <2> QED
      BY <1>e, <1>r, <2>1, <2>2, SavedFinish DEF Begin
  <1>7. ASSUME NEW c, NEW r, RotRequest(c, r)
        PROVE  Saved(ops', keym, ufm, dead, known)
    <2>1. Finish(c, HrotUpdate(c, "PRIMARY"), Pend("rotStaging", r, c))
      BY <1>7 DEF RotRequest
    <2>2. Saved(HrotUpdate(c, "PRIMARY"), keym, ufm, dead, known)
      BY <1>g, <1>i, <1>s, SavedHrot
    <2> QED
      BY <2>1, <2>2, SavedFinish
  <1>8. ASSUME NEW c, NEW d, NEW r, PchRequest(c, d, r) \/ BmcRequest(c, d, r)
        PROVE  Saved(ops', keym, ufm, dead, known)
    <2>1. Refuse \/ ops' = <<>> \/ ops' = StagePchOps(c)
      BY <1>8 DEF PchRequest, BmcRequest, Begin
    <2>2. Quiet(StagePchOps(c))
      <3>1. Sober(StagePchOps(c), {})
        BY SoberArea DEF StagePchOps
      <3> QED
        BY <3>1, SoberQuiet
    <2> QED
      BY <1>e, <1>r, <1>s, <2>1, <2>2, SavedQuiet
  <1>9. ASSUME NEW c, NEW sel, ProvisionImage(c, sel)
        PROVE  Saved(ops', keym, ufm, dead, known)
    <2>1. ops' = HrotUpdate(c, sel)
      BY <1>9 DEF ProvisionImage, Begin
    <2> QED
      BY <1>g, <1>i, <1>s, <2>1, SavedHrot
  <1>10. CASE Tampers
    <2>1. ops' = <<>>
      BY <1>10 DEF Tampers, Tamper, Running
    <2> QED
      BY <1>e, <2>1
  <1> QED
    BY <1>1, <1>2, <1>3, <1>4, <1>5, <1>6, <1>7, <1>8, <1>9, <1>10, Zenon DEF Handlers, Requests

LEMMA KnownKept ==
  ASSUME Handlers
  PROVE  known' = known
  <1>1. ASSUME NEW c, NEW r, RotRequest(c, r) PROVE known' = known
    BY <1>1 DEF RotRequest
  <1>2. ASSUME NEW c, NEW d, NEW r, PchRequest(c, d, r) \/ BmcRequest(c, d, r) PROVE known' = known
    BY <1>2 DEF PchRequest, BmcRequest
  <1>3. ASSUME NEW c, NEW sel, ProvisionImage(c, sel) PROVE known' = known
    BY <1>3 DEF ProvisionImage
  <1>4. ASSUME Tampers PROVE known' = known
    BY <1>4 DEF Tampers, Tamper
  <1>5. ASSUME VerifyKeys \/ VerifyRecovery \/ VerifyActive \/ Recovery \/ UpdatePch \/ EraseCurrent \/ Reset \/ BootDone
        PROVE  known' = known
    BY <1>5 DEF VerifyKeys, VerifyRecovery, VerifyActive, Recovery, UpdatePch, EraseCurrent, Reset, BootDone, Unchanged
  <1> QED
    BY <1>1, <1>2, <1>3, <1>4, <1>5, Zenon DEF Handlers, Requests

\* One write after the other.
LEMMA StoredDone ==
  ASSUME FloorInv, KeyInv, StoredInv, ~lost, OpDone
  PROVE  Saved(ops', keym', ufm', dead', known') /\ (ufm'.parts = {} => known' = {})
  <1> DEFINE o == Head(ops)
             rest == Tail(ops)
             k == After(ops, keym)
             l == After(rest, keym')
  <1>1. ops # <<>> /\ Done(o) /\ ops' = rest
    BY DEF OpDone
  <1>2. /\ Queue(ops) /\ Queue(rest) /\ 1 \in DOMAIN ops /\ o = ops[1] /\ Fits(o, phase)
        /\ \A i \in DOMAIN rest : i \in Nat /\ i >= 1 /\ i + 1 \in DOMAIN ops /\ rest[i] = ops[i + 1]
        /\ \A i \in DOMAIN ops : i \in Nat /\ (i = 1 \/ (i - 1 \in DOMAIN rest /\ rest[i - 1] = ops[i]))
    BY <1>1, HeadOf
  <1>3. \A s \in Slot : k[s] = l[s]
    BY <1>1, <1>2, AfterDone
  <1>4. /\ Laid(ops, keym, ufm, dead, phase)
        /\ NoErase(ops)  => Stored(k, ufm, dead, known)
        /\ ufm.parts = {} => known = {}
        /\ \A i \in DOMAIN ops : Stores(ops[i]) =>
             /\ \E s \in Slot : k[s] = ops[i].what
             /\ NoErase(ops) /\ (ufm.parts # {} \/ \E j \in DOMAIN ops : j < i /\ ops[j].op = "part")
    BY DEF KeyInv, Planned, StoredInv, Saved
  <1>5. /\ o.op = "cancel" =>
             /\ ufm'.parts = ufm.parts
             /\ ufm'.cancelled = ufm.cancelled \cup {<<o.policy, o.at[1], o.at[2]>>}
             /\ dead' = dead \cup {<<o.policy, Manifests[keym[o.at[1]]].keys[o.at[2] + 1]>>}
        /\ o.op = "part" => ufm'.parts = ufm.parts \cup {o.part}
        /\ o.op = "eraseUfm" => ufm'.parts = {} /\ dead' = {}
        /\ o.op \notin {"cancel", "eraseUfm"} => ufm'.cancelled = ufm.cancelled /\ dead' = dead
        /\ o.op \notin {"part", "eraseUfm"} => ufm'.parts = ufm.parts
    BY <1>1, <1>2, UfmDone DEF FloorInv
  <1>6. /\ Stores(o) => known' = known \cup {o.what}
        /\ o.op = "eraseUfm" => known' = {} /\ ufm'.cancelled = {}
        /\ ~Stores(o) /\ o.op # "eraseUfm" => known' = known
    <2>1. known' = CASE o.op = "keym" /\ o.what \in DOMAIN Manifests -> known \cup {o.what}
                     [] o.op = "eraseUfm"                            -> {}
                     [] OTHER                                        -> known
      BY <1>1 DEF Done
    <2>2. o.op = "eraseUfm" => ufm' = ErasedUfm
      BY <1>1 DEF Done
    <2> HIDE DEF o
    <2> QED
      BY <2>1, <2>2 DEF Stores, ErasedUfm
  <1>7. \A i \in DOMAIN rest : i + 1 # 1 /\ rest[i].op # "eraseUfm"
    BY <1>2, <1>4 DEF Laid
  <1>8. NoErase(rest) /\ (o.op # "eraseUfm" => NoErase(ops)) /\ (o.op = "eraseUfm" => ~NoErase(ops))
    <2>1. \A i \in DOMAIN ops : ops[i].op = "eraseUfm" => i = 1
      BY <1>4 DEF Laid
    <2> HIDE DEF o, rest
    <2> QED
      BY <1>2, <1>7, <2>1 DEF NoErase
  <1>9. o.op = "cancel" =>
          /\ \A s \in Slot : k[s] = keym[s]
          /\ \E s \in Slot, n \in Nat, key \in STRING : o.at = <<s, n - 1>> /\ FirstPlace(keym, s, n, key)
    <2>1. o.op = "cancel" => \A i \in DOMAIN ops : ops[i].op # "keym"
      BY <1>2, <1>4 DEF Laid
    <2> HIDE DEF o
    <2>2. o.op = "cancel" => \A s \in Slot : k[s] = keym[s]
      BY <1>2, <2>1, AfterDry
    <2> QED
      BY <1>2, <1>4, <2>2 DEF Laid
  <1> HIDE DEF o, rest, k, l
  <1>10. Stored(l, ufm', dead', known')
    <2>1. CASE o.op = "eraseUfm"
      BY <1>6, <2>1 DEF Stored
    <2>2. CASE o.op # "eraseUfm"
      <3>1. Stored(l, ufm, dead, known)
        BY <1>3, <1>4, <1>8, <2>2, StoredSame
      <3>2. CASE o.op = "cancel"
        <4>1. PICK s \in Slot, n \in Nat, key \in STRING : o.at = <<s, n - 1>> /\ FirstPlace(keym, s, n, key)
          BY <1>9, <3>2
        <4>2. o.at[1] = s /\ o.at[2] = n - 1
          BY <4>1
        <4> DEFINE b == <<o.policy, o.at[1], o.at[2]>>
                   x == <<o.policy, Manifests[keym[o.at[1]]].keys[o.at[2] + 1]>>
        <4>3. b[1] = o.policy /\ b[2] = s /\ b[3] = o.at[2] /\ l[s] = keym[s] /\ l[s] \in DOMAIN Manifests
          BY <1>3, <1>9, <3>2, <4>1, <4>2 DEF FirstPlace
        <4>4. <<b[1], Manifests[l[b[2]]].keys[b[3] + 1]>> = x
          BY <4>2, <4>3
        <4> HIDE DEF b, x
        <4>5. dead' = dead \cup {x} /\ ufm'.cancelled = ufm.cancelled \cup {b} /\ known' = known
          BY <1>5, <1>6, <3>2 DEF b, x, Stores
        <4>6. \A c \in ufm'.cancelled : c[2] \in Slot =>
                l[c[2]] \in DOMAIN Manifests /\ <<c[1], Manifests[l[c[2]]].keys[c[3] + 1]>> \in dead'
          BY <3>1, <4>3, <4>4, <4>5 DEF Stored
        <4>7. \A m \in known' : m \in DOMAIN Manifests /\ \E t \in Slot : l[t] = m
          BY <3>1, <4>5 DEF Stored
        <4> QED
          BY <4>6, <4>7 DEF Stored
      <3>3. CASE Stores(o)
        <4>1. PICK s \in Slot : l[s] = o.what
          BY <1>2, <1>3, <1>4, <3>3
        <4>2. /\ known' = known \cup {o.what} /\ o.what \in DOMAIN Manifests
              /\ ufm'.cancelled = ufm.cancelled /\ dead' = dead
          BY <1>5, <1>6, <3>3 DEF Stores
        <4> QED
          BY <3>1, <4>1, <4>2 DEF Stored
      <3>4. CASE o.op # "cancel" /\ ~Stores(o)
        <4>1. known' = known /\ ufm'.cancelled = ufm.cancelled /\ dead' = dead
          BY <1>5, <1>6, <2>2, <3>4
        <4> QED
          BY <3>1, <4>1 DEF Stored
      <3> QED
        BY <3>2, <3>3, <3>4
    <2> QED
      BY <2>1, <2>2
  <1>11. ASSUME NEW i \in DOMAIN rest, Stores(rest[i])
         PROVE  /\ \E s \in Slot : l[s] = rest[i].what
                /\ ufm'.parts # {} \/ \E j \in DOMAIN rest : j < i /\ rest[j].op = "part"
    <2>1. i + 1 \in DOMAIN ops /\ rest[i] = ops[i + 1] /\ i \in Nat
      BY <1>2
    <2>2. /\ \E s \in Slot : k[s] = ops[i + 1].what
          /\ NoErase(ops) /\ (ufm.parts # {} \/ \E j \in DOMAIN ops : j < i + 1 /\ ops[j].op = "part")
      BY <1>4, <1>11, <2>1
    <2>3. o.op # "eraseUfm"
      BY <1>8, <2>2
    <2>4. ufm.parts # {} => ufm'.parts # {}
      BY <1>5, <2>3
    <2>5. ASSUME NEW j \in DOMAIN ops, j < i + 1, ops[j].op = "part"
          PROVE  ufm'.parts # {} \/ \E n \in DOMAIN rest : n < i /\ rest[n].op = "part"
      <3>1. CASE j = 1
        BY <1>2, <1>5, <2>5, <3>1
      <3>2. CASE j # 1
        <4>1. j - 1 \in DOMAIN rest /\ rest[j - 1] = ops[j] /\ j \in Nat
          BY <1>2, <3>2
        <4>2. j - 1 < i
          BY <2>1, <2>5, <4>1
        <4> QED
          BY <2>5, <4>1, <4>2
      <3> QED
        BY <3>1, <3>2
    <2> QED
      BY <1>3, <2>1, <2>2, <2>4, <2>5
  <1>12. ufm'.parts = {} => known' = {}
    <2>1. CASE o.op = "eraseUfm"
      BY <1>6, <2>1
    <2>2. CASE o.op = "part"
      BY <1>5, <2>2
    <2>3. CASE Stores(o)
      <3>1. ufm.parts # {}
        BY <1>2, <1>4, <2>3
      <3>2. o.op \notin {"part", "eraseUfm"}
        BY <2>3 DEF Stores
      <3> QED
        BY <1>5, <3>1, <3>2
    <2>4. CASE o.op \notin {"part", "eraseUfm"} /\ ~Stores(o)
      BY <1>4, <1>5, <1>6, <2>4
    <2> QED
      BY <2>1, <2>2, <2>3, <2>4
  <1>13. Saved(rest, keym', ufm', dead', known')
    BY <1>2, <1>8, <1>10, <1>11 DEF Saved, l
  <1> QED
    BY <1>1, <1>12, <1>13

LEMMA StoredInterrupted ==
  ASSUME FloorInv, KeyInv, StoredInv, OpFails \/ PowerCut
  PROVE  StoredInv'
  <1> DEFINE o == Head(ops)
  <1>1. lost' => StoredInv'
    BY DEF StoredInv
  <1>2. ASSUME ~lost'
        PROVE  StoredInv'
    <2>1. /\ ~lost /\ ~Precious(ops)
          /\ Same \/ (ops # <<>> /\ Torn(o) /\ ~IsUfm(o))
      BY <1>2 DEF OpFails, PowerCut, IsUfm
    <2>2. ops # <<>> => ~Prec(o) /\ o = ops[1] /\ Fits(o, phase)
      BY <2>1, HeadOf DEF Precious, Prec
    <2>3. keym' = keym /\ ufm' = ufm /\ dead' = dead /\ known' = known
      <3>1. CASE Same
        BY <3>1 DEF Same
      <3>2. CASE ops # <<>> /\ Torn(o) /\ ~IsUfm(o)
        <4>1. dead' = dead /\ ufm' = ufm /\ known' = known
          BY <2>2, <3>2, TornEffect DEF FloorInv, Torn
        <4>2. keym' = keym
          BY <2>2, <3>2 DEF Torn, Prec
        <4> QED
          BY <4>1, <4>2
      <3> QED
        BY <2>1, <3>1, <3>2
    <2>4. Queue(ops) /\ (NoErase(ops) => \A i \in DOMAIN ops : ~Prec(ops[i]))
      BY <2>1, <2>2, DryQueue DEF KeyInv, Planned
    <2>5. Stored(keym, ufm, dead, known)
      <3>1. CASE NoErase(ops)
        <4>1. \A i \in DOMAIN ops : ops[i].op # "keym"
          BY <2>4, <3>1 DEF Prec
        <4>2. \A s \in Slot : After(ops, keym)[s] = keym[s]
          BY <2>4, <4>1, AfterDry
        <4> QED
          BY <2>1, <3>1, <4>2, StoredSame DEF StoredInv, Saved
      <3>2. CASE ~NoErase(ops)
        BY <2>1, <3>2 DEF StoredInv, Saved
      <3> QED
        BY <3>1, <3>2
    <2>6. Quiet(ops')
      <3> DEFINE e == SetPending(Nothing)
      <3>1. e.op = "pending"
        BY DEF SetPending
      <3>2. ops' = <<e>> \/ ops' = <<>>
        BY DEF OpFails, PowerCut
      <3> HIDE DEF e
      <3> QED
        BY <3>1, <3>2, QuietEmpty, QueueShort DEF Quiet
    <2>7. Saved(ops', keym', ufm', dead', known')
      BY <2>3, <2>5, <2>6, SavedQuiet
    <2> QED
      BY <2>1, <2>3, <2>7 DEF StoredInv
  <1> QED
    BY <1>1, <1>2

LEMMA StoredInit ==
  ASSUME FreshPlatforms, Init
  PROVE  StoredInv
  <1>1. PICK p \in Scenarios :
          /\ keym = p.keym /\ ufm = p.ufm /\ ops = <<>> /\ dead = {}
          /\ known = {keym[t] : t \in {s \in Slot : Present(s)}}
    BY DEF Init
  <1>2. /\ \A s \in Slot : keym[s] \in DOMAIN Manifests \cup {Blank}
        /\ ufm.cancelled = {} /\ (ufm.parts = {} => \A t \in Slot : keym[t] = Blank)
    BY <1>1, ScenariosAssumption DEF FreshPlatforms
  <1>3. Stored(keym, ufm, dead, known) /\ (ufm.parts = {} => known = {})
    BY <1>1, <1>2 DEF Stored, Present
  <1> QED
    BY <1>1, <1>3, QuietEmpty, SavedQuiet DEF StoredInv

LEMMA StoredStep ==
  ASSUME KeysHaveOnePlace, FloorInv, KeyInv, StoredInv, [Next]_vars
  PROVE  StoredInv'
  <1>1. CASE Handlers
    <2>1. UNCHANGED <<keym, ufm, dead, lost, known>>
      BY <1>1, HandlersFrame, KnownKept DEF FloorInv, Frame
    <2>2. ~lost => Saved(ops', keym, ufm, dead, known)
      BY <1>1, HandlersSaved
    <2> QED
      BY <2>1, <2>2 DEF StoredInv
  <1>2. CASE OpDone
    <2>1. lost' = lost
      BY <1>2 DEF OpDone, Done
    <2> QED
      BY <1>2, <2>1, StoredDone DEF StoredInv
  <1>3. CASE UNCHANGED vars
    <2>1. UNCHANGED <<ops, keym, ufm, dead, known, lost>>
      BY <1>3 DEF vars
    <2> QED
      BY <2>1 DEF StoredInv
  <1> QED
    BY <1>1, <1>2, <1>3, NextSteps, StoredInterrupted

\* In every reachable state the key manifests that the RoT was given are in
\* their slots, or will be when what is planned is done, and only cancelled
\* keys have bits, or a write to them or to the UFM was interrupted.
THEOREM StoredInvariant ==
  ASSUME KeysHaveOnePlace, FreshPlatforms
  PROVE  Spec => []StoredInv
  <1>1. FloorInv /\ KeyInv /\ StoredInv /\ [Next]_vars => StoredInv'
    BY StoredStep
  <1>2. Init => StoredInv
    BY StoredInit
  <1> QED
    BY <1>1, <1>2, FloorInvariant, KeyInvariant, PTL DEF Spec

-----------------------------------------------------------------------------
(* An image with nothing wrong is taken to be good.                        *)

\* A key of a manifest that the RoT was given, and not cancelled, is found and
\* usable (cerberus_pfr_find_key_manifest_id, verify_csk_key_id).
LEMMA ListedUsable ==
  ASSUME Stored(keym, ufm, dead, known), NEW p, NEW s \in Slot, NEW id \in Nat, NEW key,
         Lists(s, id, key), <<p, key>> \notin dead
  PROVE  Usable(p, <<s, id>>)
  <1>1. keym[s] \in DOMAIN Manifests /\ Manifests[keym[s]].keys[id + 1] = key
    BY DEF Lists, Whole
  <1> DEFINE b == <<p, s, id>>
  <1>2. b[1] = p /\ b[2] = s /\ b[3] = id
    OBVIOUS
  <1> HIDE DEF b
  <1>3. b \notin ufm.cancelled
    BY <1>1, <1>2 DEF Stored
  <1>4. <<s, id>> # None
    BY DEF None
  <1>5. <<s, id>>[1] = s /\ <<s, id>>[2] = id
    OBVIOUS
  <1> QED
    BY <1>3, <1>4, <1>5 DEF Usable, b

LEMMA KnownUsable ==
  ASSUME Stored(keym, ufm, dead, known), NEW m \in known, NEW i \in DOMAIN Manifests[m].keys,
         NEW p, <<p, Manifests[m].keys[i]>> \notin dead
  PROVE  /\ Usable(p, Find(Manifests[m].keys[i]))
         /\ i \in Nat /\ Usable(p, FindById(Manifests[m].keys[i], i - 1))
  <1> DEFINE key == Manifests[m].keys[i]
             slots == {t \in Slot : \E id \in 0..7 : Lists(t, id, key)}
             ids   == {id \in 0..7 : Lists(Min(slots), id, key)}
             found == {t \in Slot : Lists(t, i - 1, key)}
  <1>0. Slot \subseteq Nat
    BY SlotsAssumption DEF Slot
  <1>1. PICK s \in Slot : keym[s] = m /\ m \in DOMAIN Manifests
    BY DEF Stored
  <1>2. Manifests[m].keys \in Seq(STRING) /\ Len(Manifests[m].keys) <= 8
    BY <1>1, ManifestsAssumption
  <1>3. DOMAIN Manifests[m].keys = 1..Len(Manifests[m].keys) /\ Len(Manifests[m].keys) \in Nat
    BY <1>2, LenProperties
  <1>4. i - 1 \in 0..7 /\ i - 1 \in 0..Len(Manifests[m].keys) - 1 /\ (i - 1) + 1 = i
    BY <1>2, <1>3
  <1>5. Lists(s, i - 1, key)
    BY <1>1, <1>4 DEF Lists, Whole
  <1>6. Usable(p, Find(key))
    <2>1. slots # {} /\ slots \subseteq Nat /\ Find(key) = <<Min(slots), Min(ids)>>
      BY <1>0, <1>4, <1>5 DEF Find
    <2>2. Min(slots) \in slots
      <3> HIDE DEF slots
      <3> QED
        BY <2>1, LeastElement
    <2>3. ids # {} /\ ids \subseteq Nat
      <3>1. \A t \in slots : t \in Slot /\ \E id \in 0..7 : Lists(t, id, key)
        OBVIOUS
      <3> HIDE DEF slots
      <3>2. PICK id \in 0..7 : Lists(Min(slots), id, key)
        BY <2>2, <3>1
      <3>3. id \in ids
        BY <3>2
      <3>4. \A n \in ids : n \in 0..7
        OBVIOUS
      <3> HIDE DEF ids
      <3> QED
        BY <3>3, <3>4
    <2>4. Min(ids) \in ids
      <3> HIDE DEF ids
      <3> QED
        BY <2>3, LeastElement
    <2>5. Min(slots) \in Slot /\ Min(ids) \in Nat /\ Lists(Min(slots), Min(ids), key)
      <3>1. \A id \in ids : id \in Nat /\ Lists(Min(slots), id, key)
        OBVIOUS
      <3> HIDE DEF ids
      <3> QED
        BY <2>2, <2>4, <3>1
    <2> HIDE DEF slots, ids, key
    <2>6. Usable(p, <<Min(slots), Min(ids)>>)
      BY <2>5, ListedUsable DEF key
    <2> QED
      BY <2>1, <2>6
  <1>7. Usable(p, FindById(key, i - 1))
    <2>1. found # {} /\ found \subseteq Nat /\ FindById(key, i - 1) = <<Min(found), i - 1>>
      BY <1>0, <1>5 DEF FindById
    <2>2. Min(found) \in found
      <3> HIDE DEF found
      <3> QED
        BY <2>1, LeastElement
    <2>3. Min(found) \in Slot /\ i - 1 \in Nat /\ Lists(Min(found), i - 1, key)
      BY <1>4, <2>2
    <2> HIDE DEF found, key
    <2>4. Usable(p, <<Min(found), i - 1>>)
      BY <2>3, ListedUsable DEF key
    <2> QED
      BY <2>1, <2>4
  <1> QED
    BY <1>3, <1>6, <1>7

LEMMA SoundOk ==
  ASSUME ImagesComplete, KeyInv, StoredInv, ~lost, ops = <<>>, ufm.parts # {}, NEW c, Sound(c)
  PROVE  ImageOk(c)
  <1>1. Good(keym, ufm, dead)
    BY DryQueue DEF KeyInv
  <1>2. Stored(keym, ufm, dead, known)
    <2>1. Quiet(ops) /\ NoErase(ops)
      BY QuietEmpty DEF Quiet, NoErase
    <2>2. \A s \in Slot : After(ops, keym)[s] = keym[s]
      BY <2>1, AfterDry DEF Quiet
    <2> QED
      BY <2>1, <2>2, StoredSame DEF StoredInv, Saved
  <1>3. c \in DOMAIN Capsules /\ Capsules[c].format = "PCH" /\ c \in Images
    BY DEF Sound, Images
  <1>4. \A k \in KeysOf(c) : <<"PCH", k>> \notin dead
    BY DEF Sound, Cancelled
  <1>5. SignedByCsk(c, "PCH")
    <2>1. PICK m \in known : \E i \in DOMAIN Manifests[m].keys : Manifests[m].keys[i] = Capsules[c].signer
      BY DEF Sound
    <2>2. PICK i \in DOMAIN Manifests[m].keys : Manifests[m].keys[i] = Capsules[c].signer
      BY <2>1
    <2>3. <<"PCH", Manifests[m].keys[i]>> \notin dead
      BY <1>4, <2>2 DEF KeysOf
    <2> QED
      BY <1>2, <2>2, <2>3, KnownUsable DEF SignedByCsk
  <1>6. PfmKeysUsable(c)
    <2> SUFFICES ASSUME NEW r \in Capsules[c].regions PROVE Usable("PCH", FindById(r.key, r.id))
      BY DEF PfmKeysUsable, SignedRegions
    <2>1. PICK m \in known : r.id + 1 \in DOMAIN Manifests[m].keys /\ Manifests[m].keys[r.id + 1] = r.key
      BY DEF Sound
    <2>2. r.id \in Nat
      BY <1>3, CapsulesAssumption
    <2>3. <<"PCH", r.key>> \notin dead
      BY <1>4 DEF KeysOf
    <2> DEFINE i == r.id + 1
    <2>4. i - 1 = r.id /\ i \in DOMAIN Manifests[m].keys /\ Manifests[m].keys[i] = r.key
      BY <2>1, <2>2
    <2> HIDE DEF i
    <2>5. Usable("PCH", FindById(Manifests[m].keys[i], i - 1))
      BY <1>2, <2>3, <2>4, KnownUsable
    <2> QED
      BY <2>4, <2>5
  <1>7. HasPfm(c)
    BY <1>3 DEF ImagesComplete, Vouched, HasPfm
  <1>8. RootKeyThere
    <2>1. 0 \in Slot
      BY SlotsAssumption DEF Slot
    <2> QED
      BY <1>1, <2>1 DEF Good, Filled, RootKeyThere, Whole
  <1> QED
    BY <1>3, <1>5, <1>6, <1>7, <1>8 DEF ImageOk, Is, VerifyImage, Management, PfmSigned
-----------------------------------------------------------------------------
(* The verdicts as functions of the key manifests and the cancellation bits, *)
(* which no step of the boot changes.                                       *)

ListsAt(km, s, id, key) ==
  /\ km[s] \in DOMAIN Manifests /\ id \in 0..Len(Manifests[km[s]].keys) - 1
  /\ Manifests[km[s]].keys[id + 1] = key
FindByIdAt(km, key, id) ==
  LET found == {s \in Slot : ListsAt(km, s, id, key)} IN IF found = {} THEN None ELSE <<Min(found), id>>
FindAt(km, key) ==
  LET slots == {s \in Slot : \E id \in 0..7 : ListsAt(km, s, id, key)}
  IN IF slots = {} THEN None
     ELSE <<Min(slots), Min({id \in 0..7 : ListsAt(km, Min(slots), id, key)})>>
UsableAt(b, at) == at # None /\ <<"PCH", at[1], at[2]>> \notin b
KeysOkAt(c, km, b) == \A r \in Capsules[c].regions : UsableAt(b, FindByIdAt(km, r.key, r.id))
OkAt(c, km, b) ==
  /\ Is(c, "PCH") /\ UsableAt(b, FindAt(km, Capsules[c].signer)) /\ HasPfm(c)
  /\ km[0] \in DOMAIN Manifests /\ KeysOkAt(c, km, b)
ActAt(active, km, b) ==
  /\ Is(active["pfm"], "PCH") /\ km[0] \in DOMAIN Manifests /\ KeysOkAt(active["pfm"], km, b)
  /\ \A r \in Capsules[active["pfm"]].regions : r.must => active[r.sec] = active["pfm"]

LEMMA KeysView ==
  ASSUME NEW c
  PROVE  PfmKeysUsable(c) <=> KeysOkAt(c, keym, ufm.cancelled)
  <1>1. \A s, id, key : Lists(s, id, key) <=> ListsAt(keym, s, id, key)
    BY DEF Lists, ListsAt, Whole
  <1>2. ASSUME NEW key, NEW id PROVE FindById(key, id) = FindByIdAt(keym, key, id)
    <2>1. {s \in Slot : Lists(s, id, key)} = {s \in Slot : ListsAt(keym, s, id, key)}
      BY <1>1
    <2> QED
      BY <2>1 DEF FindById, FindByIdAt
  <1> QED
    BY <1>2 DEF PfmKeysUsable, SignedRegions, KeysOkAt, Usable, UsableAt

LEMMA OkView ==
  ASSUME NEW c
  PROVE  ImageOk(c) <=> OkAt(c, keym, ufm.cancelled)
  <1>1. \A s, id, key : Lists(s, id, key) <=> ListsAt(keym, s, id, key)
    BY DEF Lists, ListsAt, Whole
  <1>2. ASSUME NEW key PROVE Find(key) = FindAt(keym, key)
    <2> DEFINE slots == {s \in Slot : \E id \in 0..7 : Lists(s, id, key)}
    <2>1. slots = {s \in Slot : \E id \in 0..7 : ListsAt(keym, s, id, key)}
      BY <1>1
    <2>2. {id \in 0..7 : Lists(Min(slots), id, key)} = {id \in 0..7 : ListsAt(keym, Min(slots), id, key)}
      BY <1>1
    <2> QED
      BY <2>1, <2>2, Zenon DEF Find, FindAt
  <1>3. SignedByCsk(c, "PCH") <=> UsableAt(ufm.cancelled, FindAt(keym, Capsules[c].signer))
    BY <1>2 DEF SignedByCsk, Usable, UsableAt
  <1>4. Is(c, "PCH") => (VerifyImage(c, "PCH") <=> SignedByCsk(c, "PCH"))
    BY DEF Is, VerifyImage, Management
  <1> QED
    BY <1>3, <1>4, KeysView DEF ImageOk, OkAt, PfmSigned, RootKeyThere, Whole

LEMMA ActView == ActiveOk <=> ActAt(flash.active, keym, ufm.cancelled)
  <1>1. PfmKeysUsable(flash.active["pfm"]) <=> KeysOkAt(flash.active["pfm"], keym, ufm.cancelled)
    BY KeysView
  <1> QED
    BY <1>1 DEF ActiveOk, ActAt, RegionsOk, PfmSigned, RootKeyThere, Whole, SignedRegions

-----------------------------------------------------------------------------
(* Healing.  From a verdict on, what recover_image has still to do suffices  *)
(* for the active image to be good in the end, or there is no image to help. *)

Sources == {"recovery", "staging", "bmcStaging"}
NoneAt(f, km, b) == \A a \in Sources : ~OkAt(f[a], km, b)

\* With these writes, what an image's PFM vouches for is its.
Repaired(c, q, active) ==
  \A s \in Vouched(c) :
    /\ \A i \in DOMAIN q : q[i].op = "sec" /\ q[i].sec = s => q[i].what = c
    /\ active[s] = c \/ \E i \in DOMAIN q : q[i] = WriteSec(s, c)

\* Between two calls of recover_image, in a repair of the active region, and in
\* one of the recovery region.
MendIdle(r, f, km, b) ==
  /\ r.act => ActAt(f.active, km, b)
  /\ r.rec <=> OkAt(f.recovery, km, b)
  /\ r.calls \in 0..2
  /\ r.calls = 0 => r.act \/ NoneAt(f, km, b)
  /\ r.calls = 1 => r.act \/ r.rec \/ NoneAt(f, km, b)
MendActive(r, f, q, km, b) ==
  /\ r.rec /\ r.calls \in 0..1 /\ OkAt(f.recovery, km, b) /\ Repaired(f.recovery, q, f.active)
  /\ \A i \in DOMAIN q : q[i].op = "sec" \/ (q[i] = Mark("act") /\ i = Len(q))
  /\ q[Len(q)] = Mark("act")
MendRecovery(r, f, q, km, b) ==
  /\ r.act => ActAt(f.active, km, b)
  /\ r.calls \in 0..1 /\ (r.act \/ r.calls = 1)
  /\ \E c \in Images : OkAt(c, km, b) /\
       \/ q = <<WriteArea("staging", c), WriteArea("recovery", c), Mark("rec")>>
       \/ q = <<WriteArea("recovery", c), Mark("rec")>>
       \/ q = <<Mark("rec")>> /\ f.recovery = c
Mending(r, f, q, km, b) ==
  /\ q = <<>>  => MendIdle(r, f, km, b)
  /\ q # <<>> => MendActive(r, f, q, km, b) \/ MendRecovery(r, f, q, km, b)

Judging == {"VERIFY", "VERIFY_IMAGES", "VERIFY_ACTIVE"}
HealInv ==
  /\ ram.recovered => phase \in Judging \cup {"UNPROVISIONED", "LOCKDOWN"}
  /\ ram.recovered /\ phase = "VERIFY" => ops = <<>>
  /\ phase = "VERIFY_IMAGES" => ops = <<>>
  /\ phase = "VERIFY_ACTIVE" =>
       (\A i \in DOMAIN ops : ops[i].op = "svn") /\ (ram.rec <=> OkAt(flash.recovery, keym, ufm.cancelled))
  /\ ~failed =>
       /\ ram.recovered /\ phase \in Judging =>
            ActAt(flash.active, keym, ufm.cancelled) \/ NoneAt(flash, keym, ufm.cancelled)
       /\ phase = "RECOVERY" => Mending(ram, flash, ops, keym, ufm.cancelled)
-----------------------------------------------------------------------------
(* The boot's steps.                                                       *)

\* Outside the verification and the recovery nothing is mended.
LEMMA HealElsewhere ==
  ASSUME phase' \notin {"VERIFY_IMAGES", "VERIFY_ACTIVE", "RECOVERY"}, ~ram'.recovered
  PROVE  HealInv'
  BY DEF HealInv

\* How many regions are bad.
LEMMA BadRegions ==
  ASSUME NEW a, NEW r, a \in BOOLEAN, r \in BOOLEAN
  PROVE  LET n == Cardinality({x \in {"act", "rec"} : (x = "act" /\ ~a) \/ (x = "rec" /\ ~r)})
         IN  n \in 0..2 /\ (n = 0 => a /\ r) /\ (n = 1 => a \/ r)
  <1> DEFINE S == {x \in {"act", "rec"} : (x = "act" /\ ~a) \/ (x = "rec" /\ ~r)}
  <1>1. CASE a /\ r
    <2>1. S = {}
      BY <1>1
    <2> QED
      BY <1>1, <2>1, FS_EmptySet
  <1>2. CASE ~a /\ r
    <2>1. S = {"act"}
      BY <1>2
    <2>2. Cardinality({"act"}) = 1
      BY FS_Singleton
    <2>3. Cardinality(S) = 1
      BY <2>1, <2>2
    <2> QED
      BY <1>2, <2>3
  <1>3. CASE a /\ ~r
    <2>1. S = {"rec"}
      BY <1>3
    <2>2. Cardinality({"rec"}) = 1
      BY FS_Singleton
    <2>3. Cardinality(S) = 1
      BY <2>1, <2>2
    <2> QED
      BY <1>3, <2>3
  <1>4. CASE ~a /\ ~r
    <2>1. S = {"act"} \cup {"rec"}
      BY <1>4
    <2>2. IsFiniteSet({"act"}) /\ Cardinality({"act"}) = 1 /\ "rec" \notin {"act"}
      BY FS_Singleton
    <2>3. Cardinality(S) = 1 + 1
      BY <2>1, <2>2, FS_AddElement
    <2> QED
      BY <2>3
  <1> QED
    BY <1>1, <1>2, <1>3, <1>4

\* handle_image_verification
LEMMA HealVerifyActive ==
  ASSUME FloorInv, HealInv, VerifyActive
  PROVE  HealInv'
  <1> DEFINE ok == ActiveOk
             n == Cardinality({x \in {"act", "rec"} : (x = "act" /\ ~ok) \/ (x = "rec" /\ ~ram.rec)})
             km == keym
             b == ufm.cancelled
  <1>1. /\ phase = "VERIFY_ACTIVE" /\ ops = <<>> /\ ops' = <<>>
        /\ flash' = flash /\ keym' = keym /\ ufm' = ufm /\ failed' = failed
    BY DEF VerifyActive, Idle, Unchanged
  <1>2. ram' = [ram EXCEPT !.act = ok, !.restrict = @ /\ ok /\ ~ram.rec,
                           !.recovered = FALSE, !.clear = ~ok, !.calls = n]
    BY DEF VerifyActive
  <1>3. phase' \in {"RECOVERY", "RUNTIME", "HELD"}
    BY DEF VerifyActive
  <1> HIDE DEF ok, n
  <1>4. (ram'.act <=> ok) /\ ~ram'.recovered /\ ram'.calls = n /\ ram'.rec = ram.rec
    BY <1>2 DEF FloorInv, Shapes
  <1>5. (ok <=> ActAt(flash.active, km, b)) /\ (ram.rec <=> OkAt(flash.recovery, km, b))
    BY <1>1, ActView DEF ok, HealInv
  <1>6. n \in 0..2 /\ (n = 0 => ok /\ ram.rec) /\ (n = 1 => ok \/ ram.rec)
    <2> DEFINE r == ram.rec = TRUE
    <2>1. ok \in BOOLEAN /\ r \in BOOLEAN /\ (r <=> ram.rec)
      BY DEF ok, ActiveOk
    <2>2. n = Cardinality({x \in {"act", "rec"} : (x = "act" /\ ~ok) \/ (x = "rec" /\ ~r)})
      BY <2>1 DEF n
    <2> HIDE DEF r
    <2> QED
      BY <2>1, <2>2, BadRegions
  <1>7. MendIdle(ram', flash', keym', ufm'.cancelled)
    BY <1>1, <1>4, <1>5, <1>6 DEF MendIdle
  <1> QED
    BY <1>1, <1>3, <1>4, <1>7 DEF HealInv, Mending

LEMMA HealVerifyRecovery ==
  ASSUME FloorInv, HealInv, VerifyRecovery
  PROVE  HealInv'
  <1> DEFINE ok == ImageOk(flash.recovery)
  <1>1. /\ phase = "VERIFY_IMAGES" /\ phase' = "VERIFY_ACTIVE"
        /\ flash' = flash /\ keym' = keym /\ ufm' = ufm /\ failed' = failed
        /\ ram' = [ram EXCEPT !.rec = ok]
        /\ ops' = <<>> \/ ops' = SvnOps("PCH", Svn(flash.recovery))
    BY DEF VerifyRecovery, Idle, Unchanged
  <1> HIDE DEF ok
  <1>2. (ram'.rec <=> ok) /\ ram'.recovered = ram.recovered
    BY <1>1 DEF FloorInv, Shapes
  <1>3. ok <=> OkAt(flash.recovery, keym, ufm.cancelled)
    BY OkView DEF ok
  <1>4. \A i \in DOMAIN ops' : ops'[i].op = "svn"
    <2> DEFINE o == SetSvn("PCH", Svn(flash.recovery))
    <2>1. o.op = "svn"
      BY DEF SetSvn
    <2>2. ops' = <<>> \/ ops' = <<o>>
      BY <1>1 DEF SvnOps
    <2> HIDE DEF o
    <2> QED
      BY <2>1, <2>2, QueueShort
  <1> QED
    BY <1>1, <1>2, <1>3, <1>4 DEF HealInv, Judging

\* pfr_recover_active_region: what it writes is enough.
LEMMA RepairQueue ==
  ASSUME ImagesComplete, NEW c \in Images, NEW active
  PROVE  LET q == RecoverActiveOps(c) \o <<Mark("act")>>
         IN  /\ Repaired(c, q, active) /\ q # <<>> /\ q[Len(q)] = Mark("act")
             /\ \A i \in DOMAIN q : q[i].op = "sec" \/ (q[i] = Mark("act") /\ i = Len(q))
  <1> DEFINE p == RecoverActiveOps(c)
             z == <<Mark("act")>>
             q == p \o z
  <1>0. c \in DOMAIN Capsules
    BY DEF Images
  <1>1. /\ Queue(p)
        /\ \A i \in DOMAIN p : \E s \in Secs, w \in {c, "blank"} : p[i] = WriteSec(s, w)
        /\ \A s \in Secs :
             (\A j \in DOMAIN RwRegions(c) : RwRegions(c)[j].sec = s => RwRegions(c)[j].mode = "RESTORE") =>
               /\ \A i \in DOMAIN p : p[i].sec = s => p[i].what = c
               /\ \A n \in DOMAIN Capsules[c].secs : Capsules[c].secs[n] = s =>
                    \E i \in DOMAIN p : p[i] = WriteSec(s, c)
    BY <1>0, RecoverQueue
  <1>2. Queue(z) /\ DOMAIN z = {1} /\ z[1] = Mark("act") /\ Len(z) = 1
    BY QueueShort
  <1>3. Mark("act").op = "mark"
    BY DEF Mark
  <1>j. Joined(p, z, q)
    BY <1>1, <1>2, QueueConcat
  <1>4. \A i \in DOMAIN p : p[i].op = "sec"
    BY <1>1 DEF WriteSec
  <1> HIDE DEF p, z, q
  <1>5. /\ Queue(q) /\ Len(p) \in Nat
        /\ \A i \in DOMAIN p : i \in DOMAIN q /\ q[i] = p[i]
        /\ Len(p) + 1 \in DOMAIN q /\ q[Len(p) + 1] = Mark("act")
        /\ \A i \in DOMAIN q : i \in Nat /\ (i \in DOMAIN p \/ i = Len(p) + 1)
    BY <1>2, <1>j DEF Joined
  <1>6. Len(q) = Len(p) + 1
    <2>1. Len(q) \in Nat /\ DOMAIN q = 1..Len(q)
      BY <1>5, QueueParts
    <2>2. DOMAIN p = 1..Len(p)
      BY <1>j DEF Joined
    <2>3. Len(q) >= Len(p) + 1
      BY <1>5, <2>1
    <2>4. Len(q) \in DOMAIN q
      BY <1>5, <2>1, <2>3
    <2>5. Len(q) \in 1..Len(p) \/ Len(q) = Len(p) + 1
      BY <1>5, <2>2, <2>4
    <2> QED
      BY <1>5, <2>3, <2>5
  <1>7. ASSUME NEW s \in Vouched(c)
        PROVE  /\ \A i \in DOMAIN q : q[i].op = "sec" /\ q[i].sec = s => q[i].what = c
               /\ \E i \in DOMAIN q : q[i] = WriteSec(s, c)
    <2>1. PICK n \in DOMAIN Capsules[c].secs : Capsules[c].secs[n] = s
      BY DEF ImagesComplete
    <2>2. s \in Secs
      BY <1>0, <2>1, CapsulesAssumption, LenProperties
    <2>3. \A j \in DOMAIN RwRegions(c) : RwRegions(c)[j].sec = s => RwRegions(c)[j].mode = "RESTORE"
      BY DEF ImagesComplete, RwRegions
    <2>4. /\ \A i \in DOMAIN p : p[i].sec = s => p[i].what = c
          /\ \E i \in DOMAIN p : p[i] = WriteSec(s, c)
      BY <1>1, <2>1, <2>2, <2>3
    <2> QED
      BY <1>3, <1>5, <2>4
  <1>8. Repaired(c, q, active)
    BY <1>7 DEF Repaired
  <1>9. q # <<>>
    BY <1>5, QueueShort
  <1> QED
    BY <1>4, <1>5, <1>6, <1>8, <1>9 DEF p, q, z

LEMMA ShortConcat ==
  ASSUME NEW x, NEW y, NEW z
  PROVE  <<>> \o <<y>> = <<y>> /\ <<y>> \o <<z>> = <<y, z>> /\ <<x, y>> \o <<z>> = <<x, y, z>>
  <1> DEFINE T == {x, y, z}
  <1>1. <<y>> \in Seq(T) /\ Len(<<y>>) = 1 /\ <<y>>[1] = y
    OBVIOUS
  <1>2. <<z>> \in Seq(T) /\ Len(<<z>>) = 1 /\ <<z>>[1] = z
    OBVIOUS
  <1>3. <<y, z>> \in Seq(T) /\ Len(<<y, z>>) = 2 /\ <<y, z>>[1] = y /\ <<y, z>>[2] = z
    OBVIOUS
  <1>4. <<x, y>> \in Seq(T) /\ Len(<<x, y>>) = 2 /\ <<x, y>>[1] = x /\ <<x, y>>[2] = y
    OBVIOUS
  <1>5. /\ <<x, y, z>> \in Seq(T) /\ Len(<<x, y, z>>) = 3
        /\ <<x, y, z>>[1] = x /\ <<x, y, z>>[2] = y /\ <<x, y, z>>[3] = z
    OBVIOUS
  <1> DEFINE a == <<y>>
             b == <<z>>
             c == <<y, z>>
             d == <<x, y>>
             e == <<x, y, z>>
  <1> HIDE DEF T, a, b, c, d, e
  <1>6. <<>> \o a = a
    BY <1>1, ConcatEmptySeq DEF a
  <1>7. a \o b = c
    <2>1. /\ a \o b \in Seq(T) /\ Len(a \o b) = 2
          /\ \A i \in 1..2 : (a \o b)[i] = IF i <= 1 THEN a[i] ELSE b[i - 1]
      BY <1>1, <1>2, ConcatProperties DEF a, b
    <2>2. \A i \in 1..2 : (a \o b)[i] = c[i]
      BY <1>1, <1>2, <1>3, <2>1 DEF a, b, c
    <2> QED
      BY <1>3, <2>1, <2>2, SeqEqual DEF c
  <1>8. d \o b = e
    <2>1. /\ d \o b \in Seq(T) /\ Len(d \o b) = 3
          /\ \A i \in 1..3 : (d \o b)[i] = IF i <= 2 THEN d[i] ELSE b[i - 2]
      BY <1>4, <1>2, ConcatProperties DEF d, b
    <2>2. \A i \in 1..3 : (d \o b)[i] = e[i]
      BY <1>2, <1>4, <1>5, <2>1 DEF b, d, e
    <2> QED
      BY <1>5, <2>1, <2>2, SeqEqual DEF e
  <1> QED
    BY <1>6, <1>7, <1>8 DEF a, b, c, d, e

\* recover_image
LEMMA HealRecoverImage ==
  ASSUME ImagesComplete, MendIdle(ram, flash, keym, ufm.cancelled), ram.calls # 0,
         NEW r, (r.act <=> ram.act) /\ (r.rec <=> ram.rec) /\ r.calls = ram.calls - 1
  PROVE  Mending(r, flash, RecoverImage, keym, ufm.cancelled)
  <1> DEFINE km == keym
             b == ufm.cancelled
             staged == ImageOk(flash.staging)
             fetch  == ~staged /\ ~ram.act /\ ImageOk(flash.bmcStaging)
             from   == IF staged THEN flash.staging ELSE flash.bmcStaging
             helps  == (staged /\ (ram.act => StagedMatchesActive)) \/ fetch
  <1>1. /\ ram.act => ActAt(flash.active, km, b)
        /\ ram.rec <=> OkAt(flash.recovery, km, b)
        /\ ram.calls \in 1..2 /\ r.calls \in 0..1
        /\ ram.calls = 1 => ram.act \/ ram.rec \/ NoneAt(flash, km, b)
    BY DEF MendIdle
  <1>2. /\ staged <=> OkAt(flash.staging, km, b)
        /\ ImageOk(flash.bmcStaging) <=> OkAt(flash.bmcStaging, km, b)
    BY OkView
  <1>3. CASE ram.rec /\ ram.act
    <2>1. RecoverImage = <<>>
      BY <1>3 DEF RecoverImage
    <2> QED
      BY <1>1, <1>3, <2>1 DEF Mending, MendIdle
  <1>4. CASE ram.rec /\ ~ram.act
    <2> DEFINE q == RecoverActiveOps(flash.recovery) \o <<Mark("act")>>
    <2>1. RecoverImage = q
      BY <1>4 DEF RecoverImage
    <2>2. flash.recovery \in Images
      BY <1>1, <1>4 DEF OkAt, Is, Images
    <2>3. /\ Repaired(flash.recovery, q, flash.active) /\ q # <<>> /\ q[Len(q)] = Mark("act")
          /\ \A i \in DOMAIN q : q[i].op = "sec" \/ (q[i] = Mark("act") /\ i = Len(q))
      BY <2>2, RepairQueue
    <2> HIDE DEF q
    <2>4. MendActive(r, flash, q, km, b)
      BY <1>1, <1>4, <2>3 DEF MendActive
    <2> QED
      BY <2>1, <2>3, <2>4 DEF Mending
  <1>5. CASE ~ram.rec /\ helps
    <2> DEFINE p == IF fetch THEN StagePchOps(from) ELSE <<>>
               q == p \o RecoverRecoveryOps(from) \o <<Mark("rec")>>
    <2>1. RecoverImage = q
      BY <1>5 DEF RecoverImage
    <2>2. OkAt(from, km, b) /\ from \in Images
      BY <1>2, <1>5 DEF OkAt, Is, Images
    <2>3. \/ q = <<WriteArea("staging", from), WriteArea("recovery", from), Mark("rec")>>
          \/ q = <<WriteArea("recovery", from), Mark("rec")>>
      <3> DEFINE x == WriteArea("staging", from)
                 y == WriteArea("recovery", from)
                 z == Mark("rec")
      <3>1. p \in {<<>>, <<x>>} /\ q = p \o <<y>> \o <<z>>
        BY DEF StagePchOps, RecoverRecoveryOps
      <3> HIDE DEF x, y, z, p, q
      <3>2. <<>> \o <<y>> = <<y>> /\ <<x>> \o <<y>> = <<x, y>>
        BY ShortConcat
      <3>3. <<y>> \o <<z>> = <<y, z>> /\ <<x, y>> \o <<z>> = <<x, y, z>>
        BY ShortConcat
      <3>4. q = <<x, y, z>> \/ q = <<y, z>>
        BY <3>1, <3>2, <3>3
      <3> QED
        BY <3>4 DEF x, y, z
    <2>4. q # <<>>
      <3>1. \A x, y, z : <<x, y, z>> # <<>> /\ <<x, y>> # <<>>
        OBVIOUS
      <3> QED
        BY <2>3, <3>1
    <2>5. r.act \/ r.calls = 1
      <3>1. CASE ram.calls = 2
        BY <1>1, <3>1
      <3>2. CASE ram.calls = 1
        <4>1. ~NoneAt(flash, km, b)
          BY <1>2, <1>5 DEF NoneAt, Sources
        <4> QED
          BY <1>1, <1>5, <3>2, <4>1
      <3> QED
        BY <1>1, <3>1, <3>2
    <2> HIDE DEF from, q
    <2>6. MendRecovery(r, flash, q, km, b)
      BY <1>1, <2>2, <2>3, <2>5 DEF MendRecovery
    <2> QED
      BY <2>1, <2>4, <2>6 DEF Mending
  <1>6. CASE ~ram.rec /\ ~helps
    <2>1. RecoverImage = <<>>
      BY <1>6 DEF RecoverImage
    <2>2. ~ram.act => NoneAt(flash, km, b)
      BY <1>1, <1>2, <1>6 DEF NoneAt, Sources
    <2>3. MendIdle(r, flash, km, b)
      BY <1>1, <1>6, <2>2 DEF MendIdle
    <2> QED
      BY <2>1, <2>3 DEF Mending
  <1> QED
    BY <1>3, <1>4, <1>5, <1>6

\* handle_recovery
LEMMA HealRecovery ==
  ASSUME ImagesComplete, FloorInv, HealInv, Recovery
  PROVE  HealInv'
  <1>1. /\ phase = "RECOVERY" /\ ops = <<>>
        /\ flash' = flash /\ keym' = keym /\ ufm' = ufm /\ failed' = failed
    BY DEF Recovery, Idle
  <1>2. ~failed => MendIdle(ram, flash, keym, ufm.cancelled)
    BY <1>1 DEF HealInv, Mending
  <1>3. CASE ram.calls = 0
    <2>1. phase' = "VERIFY" /\ ops' = <<>> /\ ram' = [ram EXCEPT !.recovered = TRUE]
      BY <1>3 DEF Recovery
    <2>2. ~failed => ActAt(flash.active, keym, ufm.cancelled) \/ NoneAt(flash, keym, ufm.cancelled)
      BY <1>2, <1>3 DEF MendIdle
    <2> QED
      BY <1>1, <2>1, <2>2 DEF HealInv, Judging
  <1>4. CASE ram.calls # 0
    <2> DEFINE x == ram.restrict \/ (ram.act /\ ~ram.rec /\ RecoverImage = <<>>)
    <2>1. /\ phase' = phase /\ ops' = RecoverImage
          /\ ram' = [ram EXCEPT !.calls = @ - 1, !.restrict = x]
      BY <1>4 DEF Recovery
    <2> HIDE DEF x
    <2>2. ram'.act = ram.act /\ ram'.rec = ram.rec /\ ram'.calls = ram.calls - 1 /\ ram'.recovered = ram.recovered
      BY <2>1 DEF FloorInv, Shapes
    <2>3. ~failed => Mending(ram', flash, RecoverImage, keym, ufm.cancelled)
      BY <1>2, <1>4, <2>2, HealRecoverImage
    <2>4. ~ram.recovered
      BY <1>1 DEF HealInv, Judging
    <2> QED
      BY <1>1, <2>1, <2>2, <2>3, <2>4 DEF HealInv
  <1> QED
    BY <1>3, <1>4

LEMMA TailLength ==
  ASSUME NEW q, Queue(q), q # <<>>
  PROVE  Len(q) \in Nat \ {0} /\ Len(Tail(q)) = Len(q) - 1
  <1> DEFINE R == {q[i] : i \in DOMAIN q}
  <1>1. q \in Seq(R)
    BY DEF Queue
  <1> HIDE DEF R
  <1>2. Len(Tail(q)) = Len(q) - 1 /\ Len(q) \in Nat
    BY <1>1, HeadTailProperties, LenProperties
  <1>3. Len(q) # 0
    BY <1>1, EmptySeq
  <1> QED
    BY <1>2, <1>3

LEMMA RepairedActive ==
  ASSUME NEW c, NEW active, NEW km, NEW b, OkAt(c, km, b), \A s \in Vouched(c) : active[s] = c
  PROVE  ActAt(active, km, b)
  <1>1. active["pfm"] = c
    BY DEF Vouched
  <1>2. \A r \in Capsules[c].regions : r.must => active[r.sec] = c
    BY DEF Vouched
  <1> QED
    BY <1>1, <1>2 DEF OkAt, ActAt

\* What a write of the recovery of the active region leaves to be repaired.
LEMMA RepairStep ==
  ASSUME NEW c, NEW q, NEW active, Queue(q), q # <<>>, Repaired(c, q, active),
         Vouched(c) \subseteq DOMAIN active, q[1].op = "sec"
  PROVE  Repaired(c, Tail(q), [active EXCEPT ![q[1].sec] = q[1].what])
  <1> DEFINE o == q[1]
             rest == Tail(q)
             after == [active EXCEPT ![q[1].sec] = q[1].what]
  <1>1. /\ 1 \in DOMAIN q
        /\ \A i \in DOMAIN rest : i + 1 \in DOMAIN q /\ rest[i] = q[i + 1]
        /\ \A i \in DOMAIN q : i = 1 \/ (i - 1 \in DOMAIN rest /\ rest[i - 1] = q[i])
    BY QueueTail
  <1>2. \A s \in DOMAIN active : after[s] = IF s = o.sec THEN o.what ELSE active[s]
    OBVIOUS
  <1> HIDE DEF rest, after
  <1>3. ASSUME NEW s \in Vouched(c)
        PROVE  /\ \A i \in DOMAIN rest : rest[i].op = "sec" /\ rest[i].sec = s => rest[i].what = c
               /\ after[s] = c \/ \E i \in DOMAIN rest : rest[i] = WriteSec(s, c)
    <2>1. /\ \A i \in DOMAIN q : q[i].op = "sec" /\ q[i].sec = s => q[i].what = c
          /\ active[s] = c \/ \E i \in DOMAIN q : q[i] = WriteSec(s, c)
      BY DEF Repaired
    <2>2. \A i \in DOMAIN rest : rest[i].op = "sec" /\ rest[i].sec = s => rest[i].what = c
      BY <1>1, <2>1
    <2>3. CASE o.sec = s
      BY <1>1, <1>2, <2>1, <2>2, <2>3
    <2>4. CASE o.sec # s
      <3>1. after[s] = active[s] /\ q[1] # WriteSec(s, c)
        BY <1>2, <2>4 DEF WriteSec
      <3> QED
        BY <1>1, <2>1, <2>2, <3>1
    <2> QED
      BY <2>3, <2>4
  <1> QED
    BY <1>3 DEF Repaired, rest, after

LEMMA VouchedSecs ==
  ASSUME ImagesComplete, NEW c \in Images
  PROVE  Vouched(c) \subseteq Secs
  <1> SUFFICES ASSUME NEW s \in Vouched(c) PROVE s \in Secs
    OBVIOUS
  <1>1. PICK n \in DOMAIN Capsules[c].secs : Capsules[c].secs[n] = s
    BY DEF ImagesComplete
  <1>2. Capsules[c].secs \in Seq(Secs)
    BY CapsulesAssumption DEF Images
  <1> QED
    BY <1>1, <1>2, LenProperties

LEMMA MendActiveDone ==
  ASSUME ImagesComplete, FloorInv, OpDone, MendActive(ram, flash, ops, keym, ufm.cancelled)
  PROVE  Mending(ram', flash', ops', keym, ufm.cancelled)
  <1> DEFINE o == Head(ops)
             rest == Tail(ops)
             c == flash.recovery
             km == keym
             b == ufm.cancelled
  <1>1. ops # <<>> /\ Done(o) /\ ops' = rest
    BY DEF OpDone
  <1>2. /\ Queue(ops) /\ Queue(rest) /\ 1 \in DOMAIN ops /\ o = ops[1] /\ Fits(o, phase)
        /\ \A i \in DOMAIN rest : i \in Nat /\ i + 1 \in DOMAIN ops /\ rest[i] = ops[i + 1]
    BY <1>1, HeadOf
  <1>3. Len(ops) \in Nat \ {0} /\ Len(rest) = Len(ops) - 1 /\ DOMAIN rest = 1..Len(rest)
    BY <1>1, <1>2, TailLength, QueueParts
  <1>4. /\ ram.rec /\ ram.calls \in 0..1 /\ OkAt(c, km, b) /\ Repaired(c, ops, flash.active)
        /\ \A i \in DOMAIN ops : ops[i].op = "sec" \/ (ops[i] = Mark("act") /\ i = Len(ops))
        /\ ops[Len(ops)] = Mark("act")
    BY DEF MendActive
  <1>5. Mark("act").op = "mark" /\ Mark("act") # Mark("rec")
    BY DEF Mark
  <1>6. ram' = CASE o = Mark("act") -> [ram EXCEPT !.act = TRUE]
                 [] o = Mark("rec") -> [ram EXCEPT !.rec = TRUE]
                 [] OTHER           -> ram
    BY DEF OpDone
  <1>7. Mark("rec").op = "mark"
    BY DEF Mark
  <1> HIDE DEF o, rest
  <1>8. CASE o.op = "sec"
    <2>1. ram' = ram
      BY <1>5, <1>6, <1>7, <1>8
    <2>2. Len(ops) # 1
      BY <1>2, <1>4, <1>5, <1>8
    <2>3. Len(rest) \in Nat \ {0}
      BY <1>3, <2>2
    <2>4. rest # <<>> /\ rest[Len(rest)] = Mark("act")
      <3>1. Len(rest) \in DOMAIN rest /\ Len(rest) + 1 = Len(ops)
        BY <1>3, <2>3
      <3> QED
        BY <1>2, <1>4, <3>1, QueueShort
    <2>5. \A i \in DOMAIN rest : rest[i].op = "sec" \/ (rest[i] = Mark("act") /\ i = Len(rest))
      <3> TAKE i \in DOMAIN rest
      <3>1. i + 1 \in DOMAIN ops /\ rest[i] = ops[i + 1] /\ i \in Nat
        BY <1>2
      <3>2. i + 1 = Len(ops) => i = Len(rest)
        BY <1>3, <3>1
      <3> QED
        BY <1>4, <3>1, <3>2
    <2>6. flash'.recovery = c /\ flash'.active = [flash.active EXCEPT ![o.sec] = o.what]
      <3>1. ~IsRec(o)
        BY <1>8 DEF IsRec
      <3> QED
        BY <1>1, <1>2, <1>8, <3>1, DoneEffect DEF FloorInv
    <2>7. Vouched(c) \subseteq DOMAIN flash.active
      <3>1. c \in Images
        BY <1>4 DEF OkAt, Is, Images
      <3> QED
        BY <3>1, VouchedSecs DEF FloorInv, Shapes
    <2>8. Repaired(c, rest, flash'.active)
      <3>1. Repaired(c, Tail(ops), [flash.active EXCEPT ![ops[1].sec] = ops[1].what])
        BY <1>1, <1>2, <1>4, <1>8, <2>7, RepairStep
      <3> QED
        BY <1>2, <2>6, <3>1 DEF rest
    <2>9. MendActive(ram', flash', rest, km, b)
      BY <1>4, <2>1, <2>4, <2>5, <2>6, <2>8 DEF MendActive
    <2> QED
      BY <1>1, <2>4, <2>9 DEF Mending
  <1>9. CASE o.op # "sec"
    <2>1. o = Mark("act") /\ Len(ops) = 1
      BY <1>2, <1>4, <1>9
    <2>2. rest = <<>>
      <3>1. Len(rest) = 0
        BY <1>3, <2>1
      <3>2. rest \in Seq({rest[i] : i \in DOMAIN rest})
        BY <1>2 DEF Queue
      <3> QED
        BY <3>1, <3>2, EmptySeq
    <2>3. ram' = [ram EXCEPT !.act = TRUE]
      BY <1>5, <1>6, <2>1
    <2>4. ram'.act /\ ram'.rec = ram.rec /\ ram'.calls = ram.calls
      BY <2>3 DEF FloorInv, Shapes
    <2>5. flash' = flash
      BY <1>1, <1>5, <2>1 DEF Done
    <2>6. \A s \in Vouched(c) : flash.active[s] = c
      <3>1. \A i \in DOMAIN ops : ops[i].op = "mark"
        <4>1. DOMAIN ops = 1..1
          BY <1>2, <2>1, QueueParts
        <4>2. ops[1].op = "mark"
          BY <1>2, <1>5, <2>1
        <4>3. \A i \in 1..1 : i = 1
          OBVIOUS
        <4> QED
          BY <4>1, <4>2, <4>3
      <3>2. \A s : WriteSec(s, c).op = "sec"
        BY DEF WriteSec
      <3> QED
        BY <1>4, <3>1, <3>2 DEF Repaired
    <2>7. ActAt(flash.active, km, b)
      BY <1>4, <2>6, RepairedActive
    <2>8. MendIdle(ram', flash', km, b)
      BY <1>4, <2>4, <2>5, <2>7 DEF MendIdle
    <2> QED
      BY <1>1, <2>2, <2>8 DEF Mending
  <1> QED
    BY <1>8, <1>9

LEMMA MendRecoveryDone ==
  ASSUME FloorInv, OpDone, MendRecovery(ram, flash, ops, keym, ufm.cancelled)
  PROVE  Mending(ram', flash', ops', keym, ufm.cancelled)
  <1> DEFINE o == Head(ops)
             km == keym
             b == ufm.cancelled
  <1>1. ops # <<>> /\ Done(o) /\ ops' = Tail(ops) /\ Fits(o, phase)
    BY HeadOf DEF OpDone
  <1>2. /\ ram.act => ActAt(flash.active, km, b)
        /\ ram.calls \in 0..1 /\ (ram.act \/ ram.calls = 1)
    BY DEF MendRecovery
  <1>3. PICK c \in Images : OkAt(c, km, b) /\
          \/ ops = <<WriteArea("staging", c), WriteArea("recovery", c), Mark("rec")>>
          \/ ops = <<WriteArea("recovery", c), Mark("rec")>>
          \/ ops = <<Mark("rec")>> /\ flash.recovery = c
    BY DEF MendRecovery
  <1> DEFINE x == WriteArea("staging", c)
             y == WriteArea("recovery", c)
             z == Mark("rec")
  <1>4. /\ x.op = "area" /\ x.area = "staging" /\ y.op = "area" /\ y.area = "recovery" /\ y.what = c
        /\ z.op = "mark" /\ z # Mark("act") /\ Mark("act").op = "mark"
    BY DEF WriteArea, Mark
  <1>5. ram' = CASE o = Mark("act") -> [ram EXCEPT !.act = TRUE]
                 [] o = Mark("rec") -> [ram EXCEPT !.rec = TRUE]
                 [] OTHER           -> ram
    BY DEF OpDone
  <1>6. o.op # "sec" => flash'.active = flash.active
    BY <1>1, DoneEffect DEF FloorInv
  <1>7. flash'.recovery = IF IsRec(o) THEN o.what ELSE flash.recovery
    BY <1>1, DoneEffect DEF FloorInv
  <1>8. /\ Head(<<x, y, z>>) = x /\ Tail(<<x, y, z>>) = <<y, z>> /\ <<y, z>> # <<>>
        /\ Head(<<y, z>>) = y /\ Tail(<<y, z>>) = <<z>> /\ <<z>> # <<>>
        /\ Head(<<z>>) = z /\ Tail(<<z>>) = <<>>
    <2> HIDE DEF x, y, z
    <2> QED
      OBVIOUS
  <1> DEFINE Three == <<x, y, z>>
             Two   == <<y, z>>
             One   == <<z>>
  <1>9. ops = Three \/ ops = Two \/ (ops = One /\ flash.recovery = c)
    BY <1>3
  <1>10. \A r, f, q : MendRecovery(r, f, q, km, b) <=>
           /\ r.act => ActAt(f.active, km, b)
           /\ r.calls \in 0..1 /\ (r.act \/ r.calls = 1)
           /\ \E d \in Images : OkAt(d, km, b) /\
                \/ q = <<WriteArea("staging", d), WriteArea("recovery", d), Mark("rec")>>
                \/ q = <<WriteArea("recovery", d), Mark("rec")>>
                \/ q = <<Mark("rec")>> /\ f.recovery = d
    BY DEF MendRecovery
  <1>11. \A r, f : (r.act => ActAt(f.active, km, b)) /\ r.calls \in 0..1 /\ (r.act \/ r.calls = 1) =>
            /\ MendRecovery(r, f, Two, km, b)
            /\ f.recovery = c => MendRecovery(r, f, One, km, b)
    BY <1>3, <1>10
  <1>12. Head(Three) = x /\ Tail(Three) = Two /\ Two # <<>> /\ Head(Two) = y /\ Tail(Two) = One /\ One # <<>>
         /\ Head(One) = z /\ Tail(One) = <<>>
    BY <1>8
  <1> HIDE DEF Three, Two, One, x, y
  <1>13. CASE ops = Three
    <2>1. o = x /\ ops' = Two
      BY <1>1, <1>12, <1>13
    <2> HIDE DEF o
    <2>2. ram' = ram /\ flash'.active = flash.active
      BY <1>4, <1>5, <1>6, <2>1
    <2>3. MendRecovery(ram', flash', Two, km, b)
      BY <1>2, <1>11, <2>2
    <2> QED
      BY <1>12, <2>1, <2>3 DEF Mending
  <1>14. CASE ops = Two
    <2>1. o = y /\ ops' = One
      BY <1>1, <1>12, <1>14
    <2> HIDE DEF o
    <2>2. ram' = ram /\ flash'.active = flash.active /\ flash'.recovery = c
      BY <1>4, <1>5, <1>6, <1>7, <2>1 DEF IsRec
    <2>3. MendRecovery(ram', flash', One, km, b)
      BY <1>2, <1>11, <2>2
    <2> QED
      BY <1>12, <2>1, <2>3 DEF Mending
  <1>15. CASE ops = One /\ flash.recovery = c
    <2>1. o = z /\ ops' = <<>>
      BY <1>1, <1>12, <1>15
    <2> HIDE DEF o
    <2>2. ram' = [ram EXCEPT !.rec = TRUE] /\ flash'.active = flash.active /\ flash'.recovery = c
      BY <1>4, <1>5, <1>6, <1>7, <1>15, <2>1 DEF IsRec
    <2>3. ram'.rec /\ ram'.act = ram.act /\ ram'.calls = ram.calls
      BY <2>2 DEF FloorInv, Shapes
    <2>4. MendIdle(ram', flash', km, b)
      BY <1>2, <1>3, <2>2, <2>3 DEF MendIdle
    <2> QED
      BY <2>1, <2>4 DEF Mending
  <1> QED
    BY <1>9, <1>13, <1>14, <1>15

LEMMA HealDone ==
  ASSUME ImagesComplete, FloorInv, HealInv, OpDone
  PROVE  HealInv'
  <1> DEFINE o == Head(ops)
  <1>1. ops # <<>> /\ Done(o) /\ ops' = Tail(ops) /\ phase' = phase /\ failed' = failed
    BY DEF OpDone
  <1>2. /\ o = ops[1] /\ 1 \in DOMAIN ops /\ Fits(o, phase)
        /\ \A i \in DOMAIN Tail(ops) : i + 1 \in DOMAIN ops /\ Tail(ops)[i] = ops[i + 1]
    BY <1>1, HeadOf
  <1>3. /\ o.op # "keym" => keym' = keym
        /\ o.op \notin {"cancel", "eraseUfm"} => ufm'.cancelled = ufm.cancelled
    BY <1>1, <1>2, UfmDone DEF FloorInv
  <1>4. ram'.recovered = ram.recovered
    <2>1. \/ ram' = [ram EXCEPT !.act = TRUE]
          \/ ram' = [ram EXCEPT !.rec = TRUE]
          \/ ram' = ram
      BY DEF OpDone
    <2> QED
      BY <2>1 DEF FloorInv, Shapes
  <1>5. phase # "VERIFY_IMAGES" /\ ~(ram.recovered /\ phase = "VERIFY")
    BY <1>1 DEF HealInv
  <1>6. CASE phase = "VERIFY_ACTIVE"
    <2>1. (\A i \in DOMAIN ops : ops[i].op = "svn") /\ (ram.rec <=> OkAt(flash.recovery, keym, ufm.cancelled))
      BY <1>6 DEF HealInv
    <2>2. o.op = "svn"
      BY <1>2, <2>1
    <2>3. Mark("act").op = "mark" /\ Mark("rec").op = "mark"
      BY DEF Mark
    <2>4. flash' = flash
      BY <1>1, <2>2 DEF Done
    <2>5. ram' = CASE o = Mark("act") -> [ram EXCEPT !.act = TRUE]
                   [] o = Mark("rec") -> [ram EXCEPT !.rec = TRUE]
                   [] OTHER           -> ram
      BY DEF OpDone
    <2> HIDE DEF o
    <2>6. ram' = ram
      BY <2>2, <2>3, <2>5
    <2>7. keym' = keym /\ ufm'.cancelled = ufm.cancelled
      BY <1>3, <2>2
    <2>8. \A i \in DOMAIN ops' : ops'[i].op = "svn"
      BY <1>1, <1>2, <2>1
    <2>9. ~failed /\ ram.recovered =>
            ActAt(flash.active, keym, ufm.cancelled) \/ NoneAt(flash, keym, ufm.cancelled)
      BY <1>6 DEF HealInv, Judging
    <2> QED
      BY <1>1, <1>6, <2>1, <2>4, <2>6, <2>7, <2>8, <2>9 DEF HealInv, Judging
  <1>7. CASE phase = "RECOVERY"
    <2>1. ~ram.recovered
      BY <1>7 DEF HealInv, Judging
    <2>2. ASSUME ~failed
          PROVE  Mending(ram', flash', ops', keym', ufm'.cancelled)
      <3>1. \/ MendActive(ram, flash, ops, keym, ufm.cancelled)
            \/ MendRecovery(ram, flash, ops, keym, ufm.cancelled)
        BY <1>1, <1>7, <2>2 DEF HealInv, Mending
      <3>2. Mending(ram', flash', ops', keym, ufm.cancelled)
        BY <3>1, MendActiveDone, MendRecoveryDone
      <3>3. o.op \in {"sec", "area", "mark"}
        <4>1. CASE MendActive(ram, flash, ops, keym, ufm.cancelled)
          BY <1>2, <4>1 DEF MendActive, Mark
        <4>2. CASE MendRecovery(ram, flash, ops, keym, ufm.cancelled)
          <5>1. PICK c \in Images :
                  \/ ops = <<WriteArea("staging", c), WriteArea("recovery", c), Mark("rec")>>
                  \/ ops = <<WriteArea("recovery", c), Mark("rec")>>
                  \/ ops = <<Mark("rec")>>
            BY <4>2 DEF MendRecovery
          <5> DEFINE x == WriteArea("staging", c)
                     y == WriteArea("recovery", c)
                     z == Mark("rec")
          <5>2. x.op = "area" /\ y.op = "area" /\ z.op = "mark"
            BY DEF WriteArea, Mark
          <5>3. ops = <<x, y, z>> \/ ops = <<y, z>> \/ ops = <<z>>
            BY <5>1
          <5> HIDE DEF x, y, z
          <5> QED
            BY <5>2, <5>3
        <4> QED
          BY <3>1, <4>1, <4>2
      <3>4. keym' = keym /\ ufm'.cancelled = ufm.cancelled
        BY <1>3, <3>3
      <3> QED
        BY <3>2, <3>4
    <2> QED
      BY <1>1, <1>4, <1>7, <2>1, <2>2 DEF HealInv
  <1>8. CASE phase \notin {"VERIFY_IMAGES", "VERIFY_ACTIVE", "RECOVERY"}
    BY <1>1, <1>4, <1>5, <1>8 DEF HealInv, Judging
  <1> QED
    BY <1>5, <1>6, <1>7, <1>8

LEMMA HealFails ==
  ASSUME FloorInv, HealInv, OpFails
  PROVE  HealInv'
  <1>1. /\ ops # <<>> /\ Head(ops).op \in {"keym", "sec", "area"} /\ failed' = TRUE /\ ram' = ram
        /\ phase' = IF phase = "UPDATE_PCH" THEN "VERIFY" ELSE phase
    BY DEF OpFails
  <1>2. Head(ops) = ops[1] /\ 1 \in DOMAIN ops
    BY <1>1, HeadOf
  <1>3. phase \notin {"VERIFY_IMAGES", "VERIFY_ACTIVE"} /\ ~(ram.recovered /\ phase \in {"VERIFY", "UPDATE_PCH"})
    BY <1>1, <1>2 DEF HealInv, Judging
  <1> QED
    BY <1>1, <1>3 DEF HealInv

LEMMA HealHandlers ==
  ASSUME ImagesComplete, FloorInv, HealInv, Handlers
  PROVE  HealInv'
  <1>1. CASE VerifyKeys
    <2>1. /\ phase = "VERIFY" /\ ops = <<>> /\ ops' = <<>> /\ ram' = ram
          /\ flash' = flash /\ keym' = keym /\ ufm' = ufm /\ failed' = failed
          /\ phase' \in {"UNPROVISIONED", "LOCKDOWN", "VERIFY_IMAGES"}
      BY <1>1 DEF VerifyKeys, Idle, Unchanged
    <2> QED
      BY <2>1 DEF HealInv, Judging
  <1>2. CASE VerifyRecovery \/ VerifyActive \/ Recovery
    BY <1>2, HealVerifyRecovery, HealVerifyActive, HealRecovery
  <1>3. CASE UpdatePch
    <2>1. phase = "UPDATE_PCH" /\ phase' = "VERIFY" /\ ram' = ram
      BY <1>3 DEF UpdatePch, Idle, Finish, Begin
    <2> QED
      BY <2>1, HealElsewhere DEF HealInv, Judging
  <1>4. CASE EraseCurrent
    <2>1. phase = "UNPROVISIONED" /\ phase' = "UNPROVISIONED" /\ ram' = ram
      BY <1>4 DEF EraseCurrent, Idle, Begin
    <2> QED
      BY <2>1 DEF HealInv, Judging
  <1>5. CASE Reset
    <2>1. phase' = "VERIFY" /\ ram' = [ram EXCEPT !.recovered = FALSE]
      BY <1>5 DEF Reset
    <2>2. ~ram'.recovered
      BY <2>1 DEF FloorInv, Shapes
    <2> QED
      BY <2>1, <2>2, HealElsewhere
  <1>6. CASE BootDone
    <2> DEFINE u == [select |-> "SECONDARY", dynamic |-> FALSE, pend |-> Nothing]
    <2>1. phase = "RUNTIME" /\ ram' = [ram EXCEPT !.upd = u] /\ phase' \in {"VERIFY", "UPDATE_PCH"}
      BY <1>6 DEF BootDone, Refuse, Finish, Begin
    <2>2. ~ram.recovered
      BY <2>1 DEF HealInv, Judging
    <2> HIDE DEF u
    <2>3. ram'.recovered = ram.recovered
      BY <2>1 DEF FloorInv, Shapes
    <2> QED
      BY <2>1, <2>2, <2>3, HealElsewhere
  <1>7. ASSUME NEW c, NEW r, RotRequest(c, r)
        PROVE  HealInv'
    <2>1. phase \in {"RUNTIME", "HELD"} /\ phase' = "VERIFY" /\ ram' = ram
      BY <1>7 DEF RotRequest, Running, Finish, Begin
    <2> QED
      BY <2>1, HealElsewhere DEF HealInv, Judging
  <1>8. ASSUME NEW c, NEW d, NEW r, PchRequest(c, d, r) \/ BmcRequest(c, d, r)
        PROVE  HealInv'
    <2>1. /\ phase \in {"RUNTIME", "HELD"} /\ phase' \in {"VERIFY", "UPDATE_PCH"}
          /\ \E u : ram' = [ram EXCEPT !.upd = u]
      BY <1>8 DEF PchRequest, BmcRequest, Running, Refuse, Finish, Begin
    <2>2. ~ram.recovered
      BY <2>1 DEF HealInv, Judging
    <2>3. ram'.recovered = ram.recovered
      BY <2>1 DEF FloorInv, Shapes
    <2> QED
      BY <2>1, <2>2, <2>3, HealElsewhere
  <1>9. ASSUME NEW c, NEW sel, ProvisionImage(c, sel)
        PROVE  HealInv'
    <2>1. phase' = "UNPROVISIONED"
      BY <1>9 DEF ProvisionImage, Begin
    <2> QED
      BY <2>1 DEF HealInv, Judging
  <1>10. CASE Tampers
    <2>1. phase \in {"RUNTIME", "HELD"} /\ phase' = phase /\ ram' = ram
      BY <1>10 DEF Tampers, Tamper, Running
    <2> QED
      BY <2>1, HealElsewhere DEF HealInv, Judging
  <1> QED
    BY <1>1, <1>2, <1>3, <1>4, <1>5, <1>6, <1>7, <1>8, <1>9, <1>10, Zenon DEF Handlers, Requests

LEMMA HealStep ==
  ASSUME ImagesComplete, FloorInv, HealInv, [Next]_vars
  PROVE  HealInv'
  <1>1. CASE PowerCut
    <2>1. phase' = "VERIFY" /\ ram' = FreshRam
      BY <1>1 DEF PowerCut
    <2>2. ~ram'.recovered
      BY <2>1 DEF FreshRam
    <2> QED
      BY <2>1, <2>2, HealElsewhere
  <1>2. CASE UNCHANGED vars
    <2>1. UNCHANGED <<ops, keym, ufm, flash, ram, phase, failed>>
      BY <1>2 DEF vars
    <2> QED
      BY <2>1 DEF HealInv
  <1> QED
    BY <1>1, <1>2, NextSteps, HealHandlers, HealDone, HealFails

LEMMA HealInit == Init => HealInv
  <1> SUFFICES ASSUME Init PROVE HealInv
    OBVIOUS
  <1>1. phase = "VERIFY" /\ ram = FreshRam
    BY DEF Init
  <1> QED
    BY <1>1 DEF HealInv, FreshRam

\* What recover_image has done and has still to do leaves a good active image,
\* or there is none to help: in every reachable state.
THEOREM HealInvariant ==
  ASSUME ImagesComplete
  PROVE  Spec => []HealInv
  <1>1. FloorInv /\ HealInv /\ [Next]_vars => HealInv'
    BY HealStep
  <1> QED
    BY <1>1, FloorInvariant, HealInit, PTL DEF Spec

HealAction ==
  /\ phase' = "LOCKDOWN" => lost
  /\ phase = "VERIFY_ACTIVE" /\ phase' = "HELD" =>
       \/ lost \/ failed
       \/ ~ \E a \in {"recovery", "staging", "bmcStaging"} : Sound(flash[a])

LEMMA HealActionStep ==
  ASSUME ImagesComplete, FloorInv, KeyInv, StoredInv, HealInv, [Next]_vars
  PROVE  HealAction
  <1>1. ASSUME phase' = "LOCKDOWN" PROVE lost
    <2>1. CASE Handlers
      BY <1>1, <2>1, HandlersPhase
    <2>2. CASE OpDone \/ OpFails \/ PowerCut \/ UNCHANGED vars
      <3>1. phase' = phase \/ phase' = "VERIFY"
        BY <2>2 DEF OpDone, OpFails, PowerCut, vars
      <3> QED
        BY <1>1, <3>1 DEF KeyInv
    <2> QED
      BY <2>1, <2>2, NextSteps
  <1>2. ASSUME phase = "VERIFY_ACTIVE", phase' = "HELD", ~lost, ~failed,
               NEW a \in {"recovery", "staging", "bmcStaging"}, Sound(flash[a])
        PROVE  FALSE
    <2>1. VerifyActive
      <3>1. Handlers
        BY <1>2, NextSteps DEF OpDone, OpFails, PowerCut, vars
      <3>2. /\ ~VerifyKeys /\ ~VerifyRecovery /\ ~Recovery /\ ~UpdatePch /\ ~EraseCurrent /\ ~Reset /\ ~BootDone
            /\ ~Tampers
        BY <1>2 DEF VerifyKeys, VerifyRecovery, Recovery, UpdatePch, EraseCurrent, Reset, BootDone, Tampers,
                    Tamper, Running, Idle
      <3>3. ~Requests
        BY <1>2 DEF Requests, RotRequest, PchRequest, BmcRequest, ProvisionImage, Running, Idle
      <3> QED
        BY <3>1, <3>2, <3>3 DEF Handlers
    <2>2. ops = <<>> /\ ram.recovered /\ ~ActiveOk
      <3>1. ops = <<>>
        BY <2>1 DEF VerifyActive, Idle
      <3> DEFINE ok == ActiveOk
      <3>2. phase' = CASE ~ram.recovered /\ ~(ok /\ ram.rec) -> "RECOVERY"
                       [] ok /\ (ram.recovered \/ ram.rec)   -> "RUNTIME"
                       [] OTHER                              -> "HELD"
        BY <2>1 DEF VerifyActive
      <3> HIDE DEF ok
      <3>3. ~(~ram.recovered /\ ~(ok /\ ram.rec)) /\ ~(ok /\ (ram.recovered \/ ram.rec))
        BY <1>2, <3>2
      <3> QED
        BY <3>1, <3>3 DEF ok
    <2>3. NoneAt(flash, keym, ufm.cancelled)
      BY <1>2, <2>2, ActView DEF HealInv, Judging
    <2>4. ufm.parts # {}
      BY <1>2 DEF KeyInv, Live
    <2>5. ImageOk(flash[a])
      BY <1>2, <2>2, <2>4, SoundOk
    <2>6. OkAt(flash[a], keym, ufm.cancelled)
      BY <2>5, OkView
    <2> QED
      BY <2>3, <2>6 DEF NoneAt, Sources
  <1> QED
    BY <1>1, <1>2 DEF HealAction

\* The host is held only if a write was interrupted or failed, or if there is no
\* image that could help, and locked down only if a write was interrupted; for
\* any slots, manifests and capsules (handle_key_manifest_verification,
\* handle_recovery, recover_image, cerberus_append_key_manifest).
THEOREM HostHealsAlways ==
  ASSUME KeysHaveOnePlace, FreshPlatforms, ImagesComplete
  PROVE  Spec => HostHeals
  <1>1. FloorInv /\ KeyInv /\ StoredInv /\ HealInv /\ [Next]_vars => HealAction
    BY HealActionStep
  <1> QED
    BY <1>1, FloorInvariant, KeyInvariant, StoredInvariant, HealInvariant, PTL DEF Spec, HostHeals, HealAction
=============================================================================
