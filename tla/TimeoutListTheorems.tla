------------------------ MODULE TimeoutListTheorems ------------------------
(***************************************************************************)
(* What the operators of OsTime and TimeoutList compute, for lists of any  *)
(* length: the facts about the list of timeouts that the proofs about the  *)
(* loop rest on.                                                           *)
(***************************************************************************)
EXTENDS TimeoutList, TLAPS, SequenceTheorems, FiniteSetTheorems

-----------------------------------------------------------------------------
(* Natural numbers *)

\* A set of numbers that holds 0 and with each number its successor holds all
\* of them: otherwise, below a number that is missing, adding one maps a finite
\* set into itself without hitting 0.
LEMMA SetInduction ==
    ASSUME NEW S \in SUBSET Nat, 0 \in S, \A n \in S : n + 1 \in S
    PROVE  S = Nat
<1> SUFFICES ASSUME NEW m \in Nat, m \notin S
             PROVE  FALSE
    OBVIOUS
<1> DEFINE A == {n \in 0 .. m : n \in S}
           B == A \ {0}
           f == [n \in A |-> n + 1]
<1>1. IsFiniteSet(A)
    <2>1. A \in SUBSET (0 .. m)
        OBVIOUS
    <2>2. IsFiniteSet(0 .. m)
        BY FS_Interval
    <2> HIDE DEF A
    <2> QED BY <2>1, <2>2, FS_Subset
<1>2. 0 \in A
    OBVIOUS
<1>3. \A n \in A : n + 1 \in B
    OBVIOUS
<1>4. \A x, y \in A : x # y => f[x] # f[y]
    OBVIOUS
<1>5. f \in [A -> B]
    BY <1>3
<1> HIDE DEF A, f
<1>6. IsFiniteSet(B) /\ Cardinality(B) = Cardinality(A) - 1
    BY <1>1, <1>2, FS_RemoveElement
<1>7. Cardinality(A) \in Nat
    BY <1>1, FS_CardinalityType
<1> HIDE DEF B
<1>8. Cardinality(B) < Cardinality(A)
    BY <1>6, <1>7
<1>9. \E x, y \in A : x # y /\ f[x] = f[y]
    BY <1>1, <1>5, <1>6, <1>8, FS_PigeonHole
<1> QED BY <1>4, <1>9

\* A set of numbers that is not empty has a least element.
LEMMA LeastElement ==
    ASSUME NEW T \in SUBSET Nat, T # {}
    PROVE  \E x \in T : \A y \in T : x <= y
<1> SUFFICES ASSUME \A x \in T : \E y \in T : y < x
             PROVE  FALSE
    OBVIOUS
<1> DEFINE S == {n \in Nat : \A x \in T : n < x}
<1>1. 0 \in S
    <2> SUFFICES ASSUME NEW x \in T PROVE 0 < x
        OBVIOUS
    <2>1. PICK y \in T : y < x
        OBVIOUS
    <2> QED BY <2>1
<1>2. ASSUME NEW n \in S PROVE n + 1 \in S
    <2> SUFFICES ASSUME NEW x \in T PROVE n + 1 < x
        OBVIOUS
    <2>1. PICK y \in T : y < x
        OBVIOUS
    <2>2. n < y /\ n \in Nat
        OBVIOUS
    <2> QED BY <2>1, <2>2
<1>3. S = Nat
    <2>1. S \in SUBSET Nat
        OBVIOUS
    <2> HIDE DEF S
    <2> QED BY <1>1, <1>2, <2>1, SetInduction
<1>4. PICK x \in T : TRUE
    OBVIOUS
<1>5. x \in S
    BY <1>3
<1> QED BY <1>5

-----------------------------------------------------------------------------
(* Times *)

\* Before orders the times, and on normalised times it is linear.
LEMMA BeforeIsOrder ==
    /\ \A a \in Time : ~ Before(a, a)
    /\ \A a, b, c \in Time : Before(a, b) /\ Before(b, c) => Before(a, c)
    /\ \A a, b \in Time : Before(a, b) \/ Before(b, a) \/ a = b
    /\ NormalTime \subseteq Time
BY UsecAssumption DEF Before, Time, NormalTime

\* The carry loop of a registration normalises the time.
LEMMA AfterIsNormal ==
    ASSUME NEW now \in NormalTime, NEW secs \in Nat, NEW usecs \in Nat
    PROVE  After(now, secs, usecs) \in NormalTime
<1> DEFINE x == now.usec + usecs
<1>1. x \in Nat /\ now.sec \in Int
    BY UsecAssumption DEF NormalTime
<1> HIDE DEF x
<1>2. x \div Usec \in Int /\ x % Usec \in 0 .. Usec - 1
    BY <1>1, UsecAssumption
<1> QED BY <1>1, <1>2 DEF After, NormalTime, x

\* A time given as a delay from now is not before now.
LEMMA AfterIsNotBefore ==
    ASSUME NEW now \in NormalTime, NEW secs \in Nat, NEW usecs \in Nat
    PROVE  ~ Before(After(now, secs, usecs), now)
<1> DEFINE x == now.usec + usecs
<1>1. /\ x \in Nat
      /\ now.usec \in Nat
      /\ now.usec < Usec
      /\ now.usec <= x
      /\ now.sec \in Int
    BY UsecAssumption DEF NormalTime
<1> HIDE DEF x
<1>2. /\ x \div Usec \in Nat
      /\ x % Usec \in Nat
      /\ x = Usec * (x \div Usec) + (x % Usec)
    BY <1>1, UsecAssumption
<1>3. CASE secs + (x \div Usec) > 0
    BY <1>1, <1>2, <1>3 DEF After, Before, x
<1>4. CASE x \div Usec = 0 /\ secs = 0
    <2>1. x % Usec = x
        BY <1>1, <1>2, <1>4, UsecAssumption
    <2> QED BY <1>1, <1>2, <1>4, <2>1 DEF After, Before, x
<1> QED BY <1>2, <1>3, <1>4

\* A tick takes the clock forward.
LEMMA TickIsLater ==
    ASSUME NEW now \in NormalTime
    PROVE  Before(now, After(now, 0, 1))
<1> DEFINE x == now.usec + 1
<1>1. now.usec \in 0 .. Usec - 1 /\ now.sec \in Int /\ x \in Nat
    BY UsecAssumption DEF NormalTime
<1> HIDE DEF x
<1>2. /\ x \div Usec \in Nat
      /\ x % Usec \in Nat
      /\ x = Usec * (x \div Usec) + (x % Usec)
    BY <1>1, UsecAssumption
<1>3. CASE x \div Usec > 0
    BY <1>1, <1>2, <1>3 DEF After, Before, x
<1>4. CASE x \div Usec = 0
    <2>1. x % Usec = x
        BY <1>1, <1>2, <1>4, UsecAssumption
    <2> QED BY <1>1, <1>2, <1>4, <2>1 DEF After, Before, x
<1> QED BY <1>2, <1>3, <1>4

\* The time left until b, added to the present a, is b: one borrow and one
\* carry are enough for normalised times.
LEMMA AddSub ==
    ASSUME NEW a \in NormalTime, NEW b \in NormalTime
    PROVE  Add(a, Sub(b, a)) = b
BY UsecAssumption DEF NormalTime, Add, Sub

-----------------------------------------------------------------------------
(* Instants *)

\* A time given as a delay from t means the same instant as the delay itself.
LEMMA StartInstant ==
    ASSUME NEW t \in NormalTime, NEW secs \in Nat, NEW usecs \in Nat
    PROVE  Instant(t) + secs * Usec + usecs = Instant(After(t, secs, usecs))
<1> DEFINE x == t.usec + usecs
           d == x \div Usec
           m == x % Usec
<1>1. x \in Nat /\ t.usec \in Int /\ t.sec \in Int
    BY UsecAssumption DEF NormalTime
<1> HIDE DEF x
<1>2. d \in Int /\ m \in Int /\ x = Usec * d + m
    BY <1>1, UsecAssumption
<1> HIDE DEF d, m
<1>3. (t.sec + secs + d) * Usec = t.sec * Usec + secs * Usec + Usec * d
    BY <1>1, <1>2, UsecAssumption
<1>4. Instant(After(t, secs, usecs)) = (t.sec + secs + d) * Usec + m
    BY DEF Instant, After, x, d, m
<1>5. x = t.usec + usecs
    BY DEF x
<1> DEFINE a == t.sec * Usec
           b == secs * Usec
           c == Usec * d
<1>6. a \in Int /\ b \in Int /\ c \in Int
    BY <1>1, <1>2, UsecAssumption
<1>7. Instant(t) = a + t.usec
    BY DEF Instant
<1>8. /\ (t.sec + secs + d) * Usec = a + b + c
      /\ x = c + m
    BY <1>2, <1>3
<1> HIDE DEF a, b, c
<1>9. Instant(After(t, secs, usecs)) = a + b + c + m
    BY <1>4, <1>8
<1>10. secs * Usec = b
    BY DEF b
<1>11. t.usec + usecs = c + m
    BY <1>5, <1>8
<1> QED BY <1>1, <1>2, <1>6, <1>7, <1>9, <1>10, <1>11

\* The time left, taken from now, is the time.
LEMMA SubInstant ==
    ASSUME NEW a \in NormalTime, NEW b \in NormalTime
    PROVE  /\ Sub(a, b).sec \in Int
           /\ Sub(a, b).usec \in Int
           /\ Instant(b) + Sub(a, b).sec * Usec + Sub(a, b).usec = Instant(a)
<1>1. /\ a.sec \in Int /\ a.usec \in Int
      /\ b.sec \in Int /\ b.usec \in Int
      /\ Usec \in Int
    BY UsecAssumption DEF NormalTime
<1>2. /\ (a.sec - b.sec - 1) * Usec = a.sec * Usec - b.sec * Usec - Usec
      /\ (a.sec - b.sec) * Usec = a.sec * Usec - b.sec * Usec
    BY <1>1
<1>3. a.sec * Usec \in Int /\ b.sec * Usec \in Int
    BY <1>1
<1> QED BY <1>1, <1>2, <1>3 DEF Sub, Instant

\* An instant is a number, and a tick later is one more.
LEMMA InstantFacts ==
    ASSUME NEW t \in NormalTime
    PROVE  /\ Instant(t) \in Int
           /\ Instant(After(t, 0, 1)) = Instant(t) + 1
<1>1. t.sec \in Int /\ t.usec \in Int /\ Usec \in Int
    BY UsecAssumption DEF NormalTime
<1>2. t.sec * Usec \in Int
    BY <1>1
<1>3. Instant(t) \in Int
    BY <1>1, <1>2 DEF Instant
<1>4. Instant(t) + 0 * Usec + 1 = Instant(After(t, 0, 1))
    BY StartInstant
<1> QED BY <1>1, <1>3, <1>4

\* The earlier of two times is the smaller instant.
LEMMA BeforeInstant ==
    ASSUME NEW a \in NormalTime, NEW b \in NormalTime
    PROVE  Before(a, b) <=> Instant(a) < Instant(b)
<1>1. /\ a.sec \in Int /\ a.usec \in Int /\ b.sec \in Int /\ b.usec \in Int
      /\ 0 <= a.usec /\ a.usec < Usec /\ 0 <= b.usec /\ b.usec < Usec
      /\ Usec \in Int /\ a.sec * Usec \in Int /\ b.sec * Usec \in Int
    BY UsecAssumption DEF NormalTime
<1>2. ASSUME NEW x \in Int, NEW y \in Int, x < y
      PROVE  x * Usec + Usec <= y * Usec
    <2>1. x + 1 <= y /\ Usec \in Nat
        BY <1>2, UsecAssumption
    <2>2. (x + 1) * Usec <= y * Usec
        BY <2>1
    <2> QED BY <1>1, <2>2
<1>3. CASE a.sec < b.sec
    BY <1>1, <1>2, <1>3 DEF Before, Instant
<1>4. CASE b.sec < a.sec
    BY <1>1, <1>2, <1>4 DEF Before, Instant
<1>5. CASE a.sec = b.sec
    BY <1>1, <1>5 DEF Before, Instant
<1> QED BY <1>1, <1>3, <1>4, <1>5

-----------------------------------------------------------------------------
(* The insertion walk *)

\* The walk passes exactly the entries in front that are not later.
LEMMA InsertPosFacts ==
    ASSUME NEW E, NEW q \in Seq(E), NEW t
    PROVE  LET p == InsertPos(q, t)
           IN  /\ p \in 1 .. Len(q) + 1
               /\ \A i \in 1 .. Len(q) : i < p => ~ Before(t, q[i].time)
               /\ p <= Len(q) => Before(t, q[p].time)
<1> DEFINE later == {i \in 1 .. Len(q) : Before(t, q[i].time)}
<1>1. Len(q) \in Nat
    BY LenProperties
<1>2. CASE later = {}
    BY <1>1, <1>2 DEF InsertPos
<1>3. CASE later # {}
    <2>1. later \in SUBSET Nat
        BY <1>1
    <2>2. \E i \in later : \A j \in later : i <= j
        <3> HIDE DEF later
        <3> QED BY <1>3, <2>1, LeastElement
    <2>3. /\ InsertPos(q, t) \in later
          /\ \A j \in later : InsertPos(q, t) <= j
        BY <1>3, <2>2 DEF InsertPos
    <2> QED BY <1>1, <2>3
<1> QED BY <1>2, <1>3

\* The new entry stands at its position; the others keep their order.
LEMMA InsertFacts ==
    ASSUME NEW E, NEW q \in Seq(E), NEW e \in E
    PROVE  LET p == InsertPos(q, e.time)
           IN  /\ Insert(q, e) \in Seq(E)
               /\ Len(Insert(q, e)) = Len(q) + 1
               /\ \A i \in 1 .. Len(q) + 1 :
                      Insert(q, e)[i] = IF i < p THEN q[i]
                                        ELSE IF i = p THEN e ELSE q[i - 1]
<1> DEFINE p == InsertPos(q, e.time)
           front == SubSeq(q, 1, p - 1)
           back == SubSeq(q, p, Len(q))
<1>1. Len(q) \in Nat /\ p \in 1 .. Len(q) + 1
    BY InsertPosFacts, LenProperties
<1> HIDE DEF p
<1>2. /\ front \in Seq(E)
      /\ Len(front) = p - 1
      /\ \A i \in 1 .. p - 1 : front[i] = q[i]
    BY <1>1, SubSeqProperties, ElementOfSeq
<1>3. /\ back \in Seq(E)
      /\ Len(back) = Len(q) - p + 1
      /\ \A i \in 1 .. Len(q) - p + 1 : back[i] = q[p + i - 1]
    BY <1>1, SubSeqProperties, ElementOfSeq
<1> HIDE DEF front, back
<1>4. /\ <<e>> \in Seq(E)
      /\ Len(<<e>>) = 1
      /\ <<e>>[1] = e
    OBVIOUS
<1>5. /\ front \o <<e>> \in Seq(E)
      /\ Len(front \o <<e>>) = p
      /\ \A i \in 1 .. p : (front \o <<e>>)[i] = IF i < p THEN q[i] ELSE e
    BY <1>1, <1>2, <1>4, ConcatProperties
<1> DEFINE upto == front \o <<e>>
<1>6. Insert(q, e) = upto \o back
    BY DEF Insert, front, back, p
<1>7. Len(upto) + Len(back) = Len(q) + 1
    BY <1>1, <1>3, <1>5
<1>8. /\ upto \o back \in Seq(E)
      /\ Len(upto \o back) = Len(q) + 1
      /\ \A i \in 1 .. Len(q) + 1 :
             (upto \o back)[i] = IF i <= p THEN upto[i] ELSE back[i - p]
    <2>1. upto \in Seq(E) /\ Len(upto) = p
        BY <1>5
    <2> HIDE DEF upto
    <2>2. /\ upto \o back \in Seq(E)
          /\ Len(upto \o back) = Len(upto) + Len(back)
          /\ \A i \in 1 .. Len(upto) + Len(back) :
                 (upto \o back)[i] = IF i <= Len(upto) THEN upto[i] ELSE back[i - Len(upto)]
        BY <1>3, <2>1, ConcatProperties
    <2> QED BY <1>7, <2>1, <2>2
<1>9. ASSUME NEW i \in 1 .. Len(q) + 1
      PROVE  Insert(q, e)[i] = IF i < p THEN q[i]
                               ELSE IF i = p THEN e ELSE q[i - 1]
    <2>1. CASE i <= p
        BY <1>1, <1>5, <1>6, <1>8, <2>1
    <2>2. CASE ~ i <= p
        <3>1. Insert(q, e)[i] = back[i - p] /\ i - p \in 1 .. Len(q) - p + 1
            BY <1>1, <1>6, <1>8, <2>2
        <3>2. back[i - p] = q[p + (i - p) - 1]
            BY <1>3, <3>1
        <3> QED BY <1>1, <2>2, <3>1, <3>2
    <2> QED BY <2>1, <2>2
<1> QED BY <1>6, <1>8, <1>9 DEF p

\* Inserting adds the entry to the entries of the list.
LEMMA InsertEntries ==
    ASSUME NEW E, NEW q \in Seq(E), NEW e \in E
    PROVE  Entries(Insert(q, e)) = Entries(q) \cup {e}
<1> DEFINE p == InsertPos(q, e.time)
           r == Insert(q, e)
<1>1. Len(q) \in Nat /\ p \in 1 .. Len(q) + 1
    BY InsertPosFacts, LenProperties
<1>2. /\ Len(r) = Len(q) + 1
      /\ \A i \in 1 .. Len(q) + 1 :
             r[i] = IF i < p THEN q[i] ELSE IF i = p THEN e ELSE q[i - 1]
    BY InsertFacts
<1> HIDE DEF p, r
<1>3. ASSUME NEW i \in 1 .. Len(q)
      PROVE  \E j \in 1 .. Len(r) : r[j] = q[i]
    <2>1. CASE i < p
        BY <1>1, <1>2, <2>1
    <2>2. CASE ~ i < p
        <3>1. i + 1 \in 1 .. Len(q) + 1 /\ ~ i + 1 < p /\ i + 1 # p
            BY <1>1, <2>2
        <3>2. r[i + 1] = q[(i + 1) - 1]
            BY <1>2, <3>1
        <3> QED BY <1>1, <1>2, <3>1, <3>2
    <2> QED BY <2>1, <2>2
<1>4. \E j \in 1 .. Len(r) : r[j] = e
    BY <1>1, <1>2
<1>5. ASSUME NEW j \in 1 .. Len(r)
      PROVE  r[j] = e \/ \E i \in 1 .. Len(q) : r[j] = q[i]
    BY <1>1, <1>2
<1>6. /\ Entries(q) = {q[i] : i \in 1 .. Len(q)}
      /\ Entries(r) = {r[j] : j \in 1 .. Len(r)}
    BY DEF Entries
<1>7. Entries(r) = Entries(q) \cup {e}
    <2>1. \A x \in Entries(r) : x \in Entries(q) \cup {e}
        BY <1>5, <1>6
    <2>2. \A x \in Entries(q) \cup {e} : x \in Entries(r)
        BY <1>3, <1>4, <1>6
    <2> QED BY <2>1, <2>2
<1> QED BY <1>7 DEF r

-----------------------------------------------------------------------------
(* The unlinking walk *)

\* Every set of positions has an increasing enumeration, by induction on a
\* bound of the positions: the largest position, if it is in the set, comes
\* last.
LEMMA EnumerationExists ==
    \A n \in Nat : \A K \in SUBSET (1 .. n) :
        \E f \in [1 .. Cardinality(K) -> K] : Enumerates(f, K)
<1> DEFINE P(n) == \A K \in SUBSET (1 .. n) :
                       \E f \in [1 .. Cardinality(K) -> K] : Enumerates(f, K)
           S == {n \in Nat : P(n)}
<1>1. 0 \in S
    <2> SUFFICES ASSUME NEW K \in SUBSET (1 .. 0)
                 PROVE  \E f \in [1 .. Cardinality(K) -> K] : Enumerates(f, K)
        OBVIOUS
    <2>0. K = {}
        OBVIOUS
    <2>1. K = {} /\ Cardinality(K) = 0
        BY <2>0, FS_EmptySet
    <2> DEFINE f == [i \in 1 .. Cardinality(K) |-> i]
    <2>2. f \in [1 .. Cardinality(K) -> K]
        BY <2>1
    <2>3. Enumerates(f, K)
        BY <2>1 DEF Enumerates
    <2> QED BY <2>2, <2>3
<1>2. ASSUME NEW n \in Nat, P(n)
      PROVE  P(n + 1)
    <2>1. n \in Nat /\ P(n)
        BY <1>2
    <2> SUFFICES ASSUME NEW K \in SUBSET (1 .. n + 1)
                 PROVE  \E f \in [1 .. Cardinality(K) -> K] : Enumerates(f, K)
        OBVIOUS
    <2>2. CASE n + 1 \notin K
        <3>1. K \in SUBSET (1 .. n)
            BY <2>1, <2>2
        <3> QED BY <2>1, <3>1
    <2>3. CASE n + 1 \in K
        <3> DEFINE L == K \ {n + 1}
                   c == Cardinality(L)
        <3>1. L \in SUBSET (1 .. n)
            BY <2>1
        <3>2. IsFiniteSet(K)
            <4>1. IsFiniteSet(1 .. n + 1)
                BY <2>1, FS_Interval
            <4> QED BY <4>1, FS_Subset
        <3>3. c \in Nat /\ Cardinality(K) = c + 1
            <4>1. IsFiniteSet(L) /\ c = Cardinality(K) - 1
                BY <2>3, <3>2, FS_RemoveElement
            <4>2. Cardinality(K) \in Nat /\ c \in Nat
                BY <3>2, <4>1, FS_CardinalityType
            <4> QED BY <4>1, <4>2
        <3>4. PICK g \in [1 .. c -> L] : Enumerates(g, L)
            BY <2>1, <3>1
        <3>5. /\ \A i, j \in 1 .. c : i < j => g[i] < g[j]
              /\ \A k \in L : \E i \in 1 .. c : g[i] = k
            BY <3>4 DEF Enumerates
        <3> HIDE DEF c
        <3> DEFINE f == [i \in 1 .. c + 1 |-> IF i <= c THEN g[i] ELSE n + 1]
        <3>6. f \in [1 .. Cardinality(K) -> K]
            BY <2>3, <3>3
        <3>7. ASSUME NEW i \in 1 .. c + 1, NEW j \in 1 .. c + 1, i < j
              PROVE  f[i] < f[j]
            <4>1. i <= c /\ f[i] = g[i] /\ g[i] \in L
                BY <3>3, <3>7
            <4>2. CASE j <= c
                <5>1. g[i] < g[j]
                    BY <3>3, <3>5, <3>7, <4>1, <4>2
                <5> QED BY <4>1, <4>2, <5>1
            <4>3. CASE ~ j <= c
                <5>1. g[i] \in 1 .. n /\ f[j] = n + 1
                    BY <3>1, <4>1, <4>3
                <5> QED BY <2>1, <4>1, <5>1
            <4> QED BY <4>2, <4>3
        <3>8. ASSUME NEW k \in K
              PROVE  \E i \in 1 .. c + 1 : f[i] = k
            <4>1. CASE k = n + 1
                BY <3>3, <4>1
            <4>2. CASE k # n + 1
                <5>1. PICK i \in 1 .. c : g[i] = k
                    BY <3>5, <4>2
                <5> QED BY <3>3, <5>1
            <4> QED BY <4>1, <4>2
        <3> HIDE DEF f
        <3>9. Enumerates(f, K)
            BY <3>3, <3>7, <3>8 DEF Enumerates
        <3> QED BY <3>6, <3>9
    <2> QED BY <2>2, <2>3
<1>3. S = Nat
    <2>1. S \in SUBSET Nat
        OBVIOUS
    <2>2. \A n \in S : n + 1 \in S
        <3> HIDE DEF P
        <3> QED BY <1>2
    <2> HIDE DEF S
    <2> QED BY <1>1, <2>1, <2>2, SetInduction
<1> QED BY <1>3

\* f names, in increasing order, the positions of q whose entries r keeps:
\* exactly those of K.
Embeds(f, r, q, K) ==
    /\ f \in [1 .. Len(r) -> K]
    /\ \A i, j \in 1 .. Len(r) : i < j => f[i] < f[j]
    /\ \A k \in K : \E i \in 1 .. Len(r) : f[i] = k
    /\ \A i \in 1 .. Len(r) : r[i] = q[f[i]]

\* What is kept are the entries of the positions, once each and in order.
LEMMA KeepFacts ==
    ASSUME NEW E, NEW q \in Seq(E), NEW K \in SUBSET (1 .. Len(q))
    PROVE  /\ Keep(q, K) \in Seq(E)
           /\ \E f : Embeds(f, Keep(q, K), q, K)
<1> DEFINE c == Cardinality(K)
           f == Enumeration(K)
<1>1. Len(q) \in Nat
    BY LenProperties
<1>2. c \in Nat
    <2>1. IsFiniteSet(1 .. Len(q))
        BY <1>1, FS_Interval
    <2>2. IsFiniteSet(K)
        BY <2>1, FS_Subset
    <2> QED BY <2>2, FS_CardinalityType
<1>3. f \in [1 .. c -> K] /\ Enumerates(f, K)
    BY <1>1, EnumerationExists DEF Enumeration
<1>4. \A i, j \in 1 .. c : i < j => f[i] < f[j]
    BY <1>3 DEF Enumerates
<1>5. \A k \in K : \E i \in 1 .. c : f[i] = k
    BY <1>3 DEF Enumerates
<1>6. Keep(q, K) = [i \in 1 .. c |-> q[f[i]]]
    BY DEF Keep
<1> HIDE DEF c, f
<1>7. \A i \in 1 .. c : f[i] \in 1 .. Len(q) /\ q[f[i]] \in E
    BY <1>3, ElementOfSeq
<1>8. Keep(q, K) \in Seq(E) /\ Len(Keep(q, K)) = c
    BY <1>2, <1>6, <1>7
<1>9. \A i \in 1 .. c : Keep(q, K)[i] = q[f[i]]
    BY <1>6
<1>10. Embeds(f, Keep(q, K), q, K)
    BY <1>3, <1>4, <1>5, <1>8, <1>9 DEF Embeds
<1> QED BY <1>8, <1>10

\* A cancellation leaves the entries it does not match, once each and in order.
LEMMA RemainingFacts ==
    ASSUME NEW E, NEW q \in Seq(E), NEW h, NEW d, NEW u
    PROVE  LET r == Remaining(q, h, d, u)
           IN  /\ r \in Seq(E)
               /\ Entries(r) = {e \in Entries(q) : ~ Matches(e, h, d, u)}
               /\ \E f \in [1 .. Len(r) -> 1 .. Len(q)] :
                      /\ \A i, j \in 1 .. Len(r) : i < j => f[i] < f[j]
                      /\ \A i \in 1 .. Len(r) : r[i] = q[f[i]]
<1> DEFINE K == {i \in 1 .. Len(q) : ~ Matches(q[i], h, d, u)}
<1>1. K \in SUBSET (1 .. Len(q))
    OBVIOUS
<1>2. Remaining(q, h, d, u) = Keep(q, K)
    BY DEF Remaining
<1>3. \A i \in 1 .. Len(q) : i \in K <=> ~ Matches(q[i], h, d, u)
    OBVIOUS
<1> HIDE DEF K
<1>a. Keep(q, K) \in Seq(E) /\ \E f : Embeds(f, Keep(q, K), q, K)
    BY <1>1, KeepFacts
<1> DEFINE r == Keep(q, K)
<1>4. r \in Seq(E)
    BY <1>a
<1>b. PICK f : Embeds(f, Keep(q, K), q, K)
    BY <1>a
<1>5. /\ f \in [1 .. Len(r) -> K]
      /\ \A i, j \in 1 .. Len(r) : i < j => f[i] < f[j]
      /\ \A k \in K : \E i \in 1 .. Len(r) : f[i] = k
      /\ \A i \in 1 .. Len(r) : r[i] = q[f[i]]
    BY <1>b DEF Embeds
<1>c. Remaining(q, h, d, u) = r
    BY <1>2
<1> HIDE DEF r
<1>6. ASSUME NEW i \in 1 .. Len(r)
      PROVE  r[i] \in {e \in Entries(q) : ~ Matches(e, h, d, u)}
    BY <1>1, <1>3, <1>5 DEF Entries
<1>7. ASSUME NEW k \in 1 .. Len(q), ~ Matches(q[k], h, d, u)
      PROVE  q[k] \in Entries(r)
    <2>1. PICK i \in 1 .. Len(r) : f[i] = k
        BY <1>3, <1>5, <1>7
    <2> QED BY <1>5, <2>1 DEF Entries
<1>8. Entries(r) = {e \in Entries(q) : ~ Matches(e, h, d, u)}
    BY <1>6, <1>7 DEF Entries
<1>9. f \in [1 .. Len(r) -> 1 .. Len(q)]
    BY <1>1, <1>5
<1>10. \E g \in [1 .. Len(r) -> 1 .. Len(q)] :
           /\ \A i, j \in 1 .. Len(r) : i < j => g[i] < g[j]
           /\ \A i \in 1 .. Len(r) : r[i] = q[g[i]]
    BY <1>5, <1>9
<1> QED BY <1>c, <1>4, <1>8, <1>10

\* The head is popped: the rest is the list without its first entry.
LEMMA TailFacts ==
    ASSUME NEW E, NEW q \in Seq(E), q # <<>>
    PROVE  /\ Len(q) \in Nat \ {0}
           /\ Tail(q) \in Seq(E)
           /\ Len(Tail(q)) = Len(q) - 1
           /\ \A i \in 1 .. Len(Tail(q)) : Tail(q)[i] = q[i + 1]
           /\ Entries(q) = {q[1]} \cup Entries(Tail(q))
<1>1. Len(q) \in Nat \ {0}
    BY EmptySeq
<1>2. /\ Tail(q) \in Seq(E)
      /\ Len(Tail(q)) = Len(q) - 1
      /\ \A i \in 1 .. Len(Tail(q)) : Tail(q)[i] = q[i + 1]
    BY HeadTailProperties
<1>3. ASSUME NEW i \in 1 .. Len(q)
      PROVE  q[i] = q[1] \/ \E j \in 1 .. Len(Tail(q)) : q[i] = Tail(q)[j]
    <2>1. CASE i = 1
        BY <2>1
    <2>2. CASE i # 1
        <3>1. i - 1 \in 1 .. Len(Tail(q)) /\ (i - 1) + 1 = i
            BY <1>1, <1>2, <2>2
        <3> QED BY <1>2, <3>1
    <2> QED BY <2>1, <2>2
<1>4. ASSUME NEW j \in 1 .. Len(Tail(q))
      PROVE  j + 1 \in 1 .. Len(q) /\ Tail(q)[j] = q[j + 1]
    BY <1>1, <1>2
<1>5. 1 \in 1 .. Len(q)
    BY <1>1
<1>6. Entries(q) = {q[1]} \cup Entries(Tail(q))
    BY <1>3, <1>4, <1>5 DEF Entries
<1> QED BY <1>1, <1>2, <1>6

-----------------------------------------------------------------------------
(* The order and the blocks of a list of timeouts *)

\* e is to be served before f, when before holds the registrations.
Goes(e, f, before) == \/ Before(e.time, f.time)
                      \/ e.time = f.time /\ <<e.ptr, f.ptr>> \in before
Ordered(q, before) ==
    \A i, j \in 1 .. Len(q) : i < j => Goes(q[i], q[j], before)

\* No block is linked twice.
Apart(q) == \A i, j \in 1 .. Len(q) : q[i].ptr = q[j].ptr => i = j

\* What remains of before when the entries of gone are freed.
Without(before, gone) ==
    {r \in before : \A e \in gone : r[1] # e.ptr /\ r[2] # e.ptr}

\* An entry that goes before another is not later.
LEMMA GoesNotLater ==
    ASSUME NEW e, NEW f, NEW before, e.time \in NormalTime, f.time \in NormalTime,
           Goes(e, f, before)
    PROVE  ~ Before(f.time, e.time)
BY BeforeIsOrder DEF Goes

\* Entries of a list that are told apart are told apart by their blocks.
LEMMA ApartEntries ==
    ASSUME NEW q, Apart(q), NEW e \in Entries(q), NEW f \in Entries(q), e.ptr = f.ptr
    PROVE  e = f
BY DEF Apart, Entries

\* The head of an ordered list is due first.
LEMMA HeadFacts ==
    ASSUME NEW E, NEW q \in Seq(E), q # <<>>, NEW before, Ordered(q, before),
           \A e \in E : e.time \in NormalTime
    PROVE  /\ q[1] \in E /\ q[1] \in Entries(q)
           /\ \A e \in Entries(q) : e \in E /\ ~ Before(e.time, q[1].time)
<1>1. 1 \in 1 .. Len(q) /\ Len(q) \in Nat
    BY TailFacts
<1>2. \A i \in 1 .. Len(q) : q[i] \in E
    BY ElementOfSeq
<1>3. ASSUME NEW i \in 1 .. Len(q)
      PROVE  ~ Before(q[i].time, q[1].time)
    <2>1. CASE i = 1
        BY <1>1, <1>2, <2>1, BeforeIsOrder
    <2>2. CASE i # 1
        <3>1. Goes(q[1], q[i], before)
            BY <1>1, <2>2 DEF Ordered
        <3> QED BY <1>1, <1>2, <3>1, GoesNotLater
    <2> QED BY <2>1, <2>2
<1> QED BY <1>1, <1>2, <1>3 DEF Entries

\* A list that keeps some entries of an ordered list in their order is ordered.
LEMMA SublistOrdered ==
    ASSUME NEW E, NEW q \in Seq(E), NEW r \in Seq(E), NEW before, NEW gone,
           Apart(q), Ordered(q, before),
           NEW f \in [1 .. Len(r) -> 1 .. Len(q)],
           \A i, j \in 1 .. Len(r) : i < j => f[i] < f[j],
           \A i \in 1 .. Len(r) : r[i] = q[f[i]],
           \A i \in 1 .. Len(r) : \A e \in gone : r[i].ptr # e.ptr
    PROVE  Apart(r) /\ Ordered(r, Without(before, gone))
<1>1. Len(r) \in Nat /\ Len(q) \in Nat
    BY LenProperties
<1>2. ASSUME NEW i \in 1 .. Len(r), NEW j \in 1 .. Len(r), i < j
      PROVE  r[i].ptr # r[j].ptr /\ Goes(r[i], r[j], Without(before, gone))
    <2>1. /\ f[i] \in 1 .. Len(q) /\ f[j] \in 1 .. Len(q) /\ f[i] < f[j]
          /\ r[i] = q[f[i]] /\ r[j] = q[f[j]]
        BY <1>2
    <2>2. f[i] # f[j]
        BY <1>1, <2>1
    <2>3. r[i].ptr # r[j].ptr
        BY <2>1, <2>2 DEF Apart
    <2>4. Goes(r[i], r[j], before)
        BY <2>1 DEF Ordered
    <2>5. <<r[i].ptr, r[j].ptr>> \in before
              => <<r[i].ptr, r[j].ptr>> \in Without(before, gone)
        BY DEF Without
    <2> QED BY <2>3, <2>4, <2>5 DEF Goes
<1>3. ASSUME NEW i \in 1 .. Len(r), NEW j \in 1 .. Len(r), r[i].ptr = r[j].ptr
      PROVE  i = j
    <2>1. ~ i < j /\ ~ j < i
        BY <1>2, <1>3
    <2> QED BY <1>1, <2>1
<1> QED BY <1>2, <1>3 DEF Apart, Ordered

\* A cancellation keeps the order of what it leaves.
LEMMA RemainingOrdered ==
    ASSUME NEW E, NEW q \in Seq(E), NEW before, Apart(q), Ordered(q, before),
           NEW h, NEW d, NEW u
    PROVE  LET r == Remaining(q, h, d, u)
               gone == {e \in Entries(q) : Matches(e, h, d, u)}
           IN  Apart(r) /\ Ordered(r, Without(before, gone))
<1> DEFINE r == Remaining(q, h, d, u)
           gone == {e \in Entries(q) : Matches(e, h, d, u)}
<1>1. /\ r \in Seq(E)
      /\ Entries(r) = {e \in Entries(q) : ~ Matches(e, h, d, u)}
      /\ \E f \in [1 .. Len(r) -> 1 .. Len(q)] :
             /\ \A i, j \in 1 .. Len(r) : i < j => f[i] < f[j]
             /\ \A i \in 1 .. Len(r) : r[i] = q[f[i]]
    BY RemainingFacts
<1>2. ASSUME NEW i \in 1 .. Len(r), NEW e \in gone
      PROVE  r[i].ptr # e.ptr
    <2>1. r[i] \in Entries(q) /\ ~ Matches(r[i], h, d, u)
        BY <1>1 DEF Entries
    <2>2. e \in Entries(q) /\ Matches(e, h, d, u)
        OBVIOUS
    <2> QED BY <2>1, <2>2, ApartEntries
<1> HIDE DEF r, gone
<1>3. Apart(r) /\ Ordered(r, Without(before, gone))
    BY <1>1, <1>2, SublistOrdered
<1> QED BY <1>3 DEF r, gone

\* The pop of the head keeps the order of the rest; the head goes before it.
LEMMA TailOrdered ==
    ASSUME NEW E, NEW q \in Seq(E), q # <<>>, NEW before, Apart(q), Ordered(q, before)
    PROVE  /\ Apart(Tail(q)) /\ Ordered(Tail(q), Without(before, {q[1]}))
           /\ q[1] \in Entries(q) /\ Entries(Tail(q)) = Entries(q) \ {q[1]}
           /\ \A f \in Entries(Tail(q)) : f.ptr # q[1].ptr /\ Goes(q[1], f, before)
<1>1. /\ Len(q) \in Nat \ {0}
      /\ Tail(q) \in Seq(E)
      /\ Len(Tail(q)) = Len(q) - 1
      /\ \A i \in 1 .. Len(Tail(q)) : Tail(q)[i] = q[i + 1]
      /\ Entries(q) = {q[1]} \cup Entries(Tail(q))
    BY TailFacts
<1> DEFINE r == Tail(q)
           f == [i \in 1 .. Len(r) |-> i + 1]
<1>2. ASSUME NEW i \in 1 .. Len(r)
      PROVE  r[i].ptr # q[1].ptr /\ Goes(q[1], r[i], before)
    <2>1. i + 1 \in 1 .. Len(q) /\ 1 \in 1 .. Len(q) /\ 1 < i + 1 /\ r[i] = q[i + 1]
        BY <1>1
    <2> QED BY <2>1 DEF Apart, Ordered
<1>3. \A g \in Entries(r) : g.ptr # q[1].ptr /\ Goes(q[1], g, before)
    BY <1>2 DEF Entries
<1>4. q[1] \in Entries(q) /\ Entries(r) = Entries(q) \ {q[1]}
    BY <1>1, <1>3
<1>5. /\ f \in [1 .. Len(r) -> 1 .. Len(q)]
      /\ \A i, j \in 1 .. Len(r) : i < j => f[i] < f[j]
      /\ \A i \in 1 .. Len(r) : r[i] = q[f[i]]
    BY <1>1
<1>6. \A i \in 1 .. Len(r) : \A e \in {q[1]} : r[i].ptr # e.ptr
    BY <1>2
<1>7. r \in Seq(E)
    BY <1>1
<1> HIDE DEF f, r
<1>8. Apart(r) /\ Ordered(r, Without(before, {q[1]}))
    BY <1>5, <1>6, <1>7, SublistOrdered
<1> QED BY <1>3, <1>4, <1>8 DEF r

\* The insertion keeps the order, and the blocks apart: the entries in front
\* are not later and were registered before, those behind are later.
LEMMA InsertOrdered ==
    ASSUME NEW E, NEW q \in Seq(E), NEW e \in E, NEW before,
           Apart(q), Ordered(q, before),
           \A f \in E : f.time \in NormalTime,
           \A f \in Entries(q) : f.ptr # e.ptr
    PROVE  /\ Apart(Insert(q, e))
           /\ Ordered(Insert(q, e), before \cup {<<f.ptr, e.ptr>> : f \in Entries(q)})
<1> DEFINE p == InsertPos(q, e.time)
           r == Insert(q, e)
           after == before \cup {<<f.ptr, e.ptr>> : f \in Entries(q)}
<1>1. Len(q) \in Nat /\ \A i \in 1 .. Len(q) : q[i] \in E /\ q[i] \in Entries(q)
    BY LenProperties, ElementOfSeq DEF Entries
<1>2. /\ p \in 1 .. Len(q) + 1
      /\ \A i \in 1 .. Len(q) : i < p => ~ Before(e.time, q[i].time)
      /\ p <= Len(q) => Before(e.time, q[p].time)
    BY InsertPosFacts
<1>3. /\ Len(r) = Len(q) + 1
      /\ \A i \in 1 .. Len(q) + 1 :
             r[i] = IF i < p THEN q[i] ELSE IF i = p THEN e ELSE q[i - 1]
    BY InsertFacts
<1> HIDE DEF p, r
<1>4. ASSUME NEW k \in 1 .. Len(q), NEW l \in 1 .. Len(q), k < l
      PROVE  Goes(q[k], q[l], after)
    BY <1>4 DEF Ordered, Goes
<1>5. ASSUME NEW k \in 1 .. Len(q), k < p
      PROVE  Goes(q[k], e, after)
    <2>1. ~ Before(e.time, q[k].time)
        BY <1>2, <1>5
    <2>2. <<q[k].ptr, e.ptr>> \in after
        BY <1>1
    <2> HIDE DEF after
    <2> QED BY <1>1, <2>1, <2>2, BeforeIsOrder DEF Goes
<1>6. ASSUME NEW l \in 1 .. Len(q), p <= l
      PROVE  Goes(e, q[l], after)
    <2>1. p \in 1 .. Len(q) /\ Before(e.time, q[p].time)
        BY <1>1, <1>2, <1>6
    <2> HIDE DEF after
    <2>2. CASE l = p
        BY <2>1, <2>2 DEF Goes
    <2>3. CASE l # p
        <3>1. Goes(q[p], q[l], after)
            BY <1>1, <1>4, <1>6, <2>1, <2>3
        <3>2. ~ Before(q[l].time, q[p].time)
            BY <1>1, <2>1, <3>1, GoesNotLater
        <3> QED BY <1>1, <2>1, <3>2, BeforeIsOrder DEF Goes
    <2> QED BY <2>2, <2>3
<1> HIDE DEF after
<1>7. ASSUME NEW i \in 1 .. Len(r), NEW j \in 1 .. Len(r), i < j
      PROVE  r[i].ptr # r[j].ptr /\ Goes(r[i], r[j], after)
    <2>0. i \in 1 .. Len(q) + 1 /\ j \in 1 .. Len(q) + 1
        BY <1>3
    <2>1. CASE j < p
        <3>1. i \in 1 .. Len(q) /\ j \in 1 .. Len(q) /\ i < p /\ i # j
            BY <1>1, <1>2, <1>7, <2>1
        <3>2. r[i] = q[i] /\ r[j] = q[j]
            BY <1>3, <2>0, <2>1, <3>1
        <3> QED BY <1>4, <1>7, <3>1, <3>2 DEF Apart
    <2>2. CASE j = p
        <3>1. i \in 1 .. Len(q) /\ i < p
            BY <1>1, <1>2, <1>7, <2>2
        <3>2. r[i] = q[i] /\ r[j] = e
            BY <1>3, <2>0, <2>2, <3>1
        <3> QED BY <1>1, <1>5, <3>1, <3>2
    <2>3. CASE i = p
        <3>1. j - 1 \in 1 .. Len(q) /\ p <= j - 1 /\ ~ j < p /\ j # p
            BY <1>1, <1>2, <1>7, <2>0, <2>3
        <3>2. r[i] = e /\ r[j] = q[j - 1]
            BY <1>3, <2>0, <2>3, <3>1
        <3> QED BY <1>1, <1>6, <3>1, <3>2
    <2>4. CASE i < p /\ p < j
        <3>1. i \in 1 .. Len(q) /\ j - 1 \in 1 .. Len(q) /\ i < j - 1 /\ i # j - 1
            BY <1>1, <1>2, <1>7, <2>0, <2>4
        <3>2. r[i] = q[i] /\ r[j] = q[j - 1]
            BY <1>1, <1>2, <1>3, <2>0, <2>4
        <3> QED BY <1>4, <3>1, <3>2 DEF Apart
    <2>5. CASE p < i
        <3>1. /\ i - 1 \in 1 .. Len(q) /\ j - 1 \in 1 .. Len(q)
              /\ i - 1 < j - 1 /\ i - 1 # j - 1
            BY <1>1, <1>2, <1>7, <2>0, <2>5
        <3>2. r[i] = q[i - 1] /\ r[j] = q[j - 1]
            BY <1>1, <1>2, <1>3, <1>7, <2>0, <2>5
        <3> QED BY <1>4, <3>1, <3>2 DEF Apart
    <2> QED BY <1>1, <1>2, <1>7, <2>0, <2>1, <2>2, <2>3, <2>4, <2>5
<1>8. ASSUME NEW i \in 1 .. Len(r), NEW j \in 1 .. Len(r), r[i].ptr = r[j].ptr
      PROVE  i = j
    <2>1. ~ i < j /\ ~ j < i
        BY <1>7, <1>8
    <2> QED BY <1>1, <1>3, <2>1
<1>9. Apart(r) /\ Ordered(r, after)
    BY <1>7, <1>8 DEF Apart, Ordered
<1> QED BY <1>9 DEF r, after

=============================================================================
