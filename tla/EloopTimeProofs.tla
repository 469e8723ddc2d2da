-------------------------- MODULE EloopTimeProofs --------------------------
(***************************************************************************)
(* Proofs about the watchdog timeouts, for a list of any length: as long   *)
(* as no watchdog timeout fires, eloop.timeout_currentWDT points to the    *)
(* first of them and the watchdog runs for it.  And about timeouts while   *)
(* the wall clock is set: the list stays sorted, and none is called early  *)
(* or slept over by more than each change may cost.                        *)
(***************************************************************************)
EXTENDS MCEloopTime, TimeoutListTheorems

Sorted(q) == \A i, j \in 1 .. Len(q) : i < j => ~ Before(q[j].time, q[i].time)

Distinct(q) == \A i, j \in 1 .. Len(q) : q[i].ptr = q[j].ptr => i = j

\* Position i holds the first watchdog timeout of q.
IsFirst(i, q) == /\ q[i].bIsWDTimeout
                 /\ \A j \in 1 .. Len(q) : q[j].bIsWDTimeout => i <= j

NoneFlagged(q) == \A i \in 1 .. Len(q) : ~ q[i].bIsWDTimeout

\* A watchdog that expires at x runs for e, at time t.
Guards(e, x, t) == \/ x = Instant(e.time)
                   \/ /\ ~ Before(t, e.time)
                      /\ x \in Int
                      /\ x <= Instant(t)

\* What the two calls that maintain eloop.timeout_currentWDT keep up, in terms of
\* positions.
Guarded ==
    ~ fired =>
        \/ /\ NoneFlagged(timeout)
           /\ timeout_currentWDT = NoEntry
           /\ expires = NoEntry
        \/ \E i \in 1 .. Len(timeout) :
               /\ IsFirst(i, timeout)
               /\ timeout_currentWDT = timeout[i].ptr
               /\ Guards(timeout[i], expires, now)

Inv == /\ TypeOK
       /\ now.sec >= 1
       /\ Sorted(timeout)
       /\ Distinct(timeout)
       /\ Guarded

-----------------------------------------------------------------------------
(* The watchdog *)

\* Whatever GetTimeLeft returns, restarting the watchdog with it guards e.
LEMMA RestartGuards ==
    ASSUME now \in NormalTime, now.sec >= 1, NEW e,
           e.time \in NormalTime, RestartFor(e)
    PROVE  /\ timeout_currentWDT' = e.ptr
           /\ expires' \in Int
           /\ Guards(e, expires', now)
<1> DEFINE left == GetTimeLeft(e.time)
<1>1. /\ timeout_currentWDT' = e.ptr
      /\ expires' = Instant(now) + left.sec * Usec + left.usec
    BY DEF RestartFor, StartWDT
<1>2. now.sec \in Int /\ now.usec \in Int /\ Usec \in Int /\ Instant(now) \in Int
    BY UsecAssumption, InstantFacts DEF NormalTime
<1>3. e.time.sec \in Int /\ e.time.usec \in Int /\ Instant(e.time) \in Int
    BY InstantFacts DEF NormalTime
<1>4. CASE e.time.sec < now.sec \/ (e.time.usec < now.usec /\ e.time.sec <= 0)
    <2>1. left.sec = 0 /\ left.usec = 0
        BY <1>4 DEF GetTimeLeft
    <2>2. expires' = Instant(now)
        <3> HIDE DEF left
        <3> QED BY <1>1, <1>2, <2>1
    <2>3. ~ Before(now, e.time)
        BY <1>2, <1>3, <1>4 DEF Before
    <2> QED BY <1>1, <1>2, <2>2, <2>3 DEF Guards
<1>5. CASE ~ (e.time.sec < now.sec \/ (e.time.usec < now.usec /\ e.time.sec <= 0))
    <2>1. left = Sub(e.time, now)
        BY <1>5 DEF GetTimeLeft
    <2>2. expires' = Instant(e.time)
        <3> HIDE DEF left
        <3> QED BY <1>1, <2>1, SubInstant
    <2> QED BY <1>1, <1>3, <2>2 DEF Guards
<1> QED BY <1>4, <1>5

-----------------------------------------------------------------------------
(* The list *)

\* The walk for the first of some positions finds it.
LEMMA FirstFacts ==
    ASSUME NEW K \in SUBSET Nat, K # {}
    PROVE  First(K) \in K /\ \A j \in K : First(K) <= j
<1>1. \E i \in K : \A j \in K : i <= j
    BY LeastElement
<1> QED BY <1>1 DEF First

\* An entry that is linked with a fresh block keeps the list sorted and its
\* blocks distinct.
LEMMA InsertKeeps ==
    ASSUME NEW q \in Seq(Entry), NEW e \in Entry, Sorted(q), Distinct(q),
           \A i \in 1 .. Len(q) : q[i].ptr # e.ptr
    PROVE  Sorted(Insert(q, e)) /\ Distinct(Insert(q, e))
<1> DEFINE p == InsertPos(q, e.time)
           r == Insert(q, e)
           n == Len(q)
<1>0. \A i \in 1 .. n : q[i] \in Entry
    BY ElementOfSeq
<1>1. n \in Nat /\ \A i \in 1 .. n : q[i].time \in Time
    BY <1>0, LenProperties, BeforeIsOrder DEF Entry
<1>2. e.time \in Time
    BY BeforeIsOrder DEF Entry
<1>3. /\ p \in 1 .. n + 1
      /\ \A i \in 1 .. n : i < p => ~ Before(e.time, q[i].time)
      /\ p <= n => Before(e.time, q[p].time)
    BY InsertPosFacts
<1>4. /\ Len(r) = n + 1
      /\ \A i \in 1 .. n + 1 :
             r[i] = IF i < p THEN q[i] ELSE IF i = p THEN e ELSE q[i - 1]
    BY InsertFacts
<1> HIDE DEF p, r
<1>5. \A i \in 1 .. n : i >= p => Before(e.time, q[i].time)
    <2> SUFFICES ASSUME NEW i \in 1 .. n, i > p, ~ Before(e.time, q[i].time)
                 PROVE  FALSE
        BY <1>1, <1>3
    <2>1. p \in 1 .. n /\ p <= n
        BY <1>1, <1>3
    <2>2. ~ Before(q[i].time, q[p].time)
        BY <2>1 DEF Sorted
    <2>3. Before(e.time, q[p].time)
        BY <1>3, <2>1
    <2> QED BY <1>1, <1>2, <2>1, <2>2, <2>3, BeforeIsOrder
<1>6. \A i \in 1 .. n : i >= p => ~ Before(q[i].time, e.time)
    BY <1>1, <1>2, <1>5, BeforeIsOrder
<1>7. ASSUME NEW i \in 1 .. n + 1, NEW j \in 1 .. n + 1, i < j
      PROVE  ~ Before(r[j].time, r[i].time) /\ r[i].ptr # r[j].ptr
    <2>1. CASE j < p
        <3>1. i \in 1 .. n /\ j \in 1 .. n /\ r[i] = q[i] /\ r[j] = q[j]
            BY <1>1, <1>3, <1>4, <1>7, <2>1
        <3> QED BY <1>7, <3>1 DEF Sorted, Distinct
    <2>2. CASE j = p
        <3>1. i \in 1 .. n /\ i < p /\ r[i] = q[i] /\ r[j] = e
            BY <1>1, <1>3, <1>4, <1>7, <2>2
        <3> QED BY <1>3, <3>1
    <2>3. CASE j > p /\ i < p
        <3>1. i \in 1 .. n /\ j - 1 \in 1 .. n /\ i < j - 1
            BY <1>1, <1>3, <2>3
        <3>2. r[i] = q[i] /\ r[j] = q[j - 1]
            BY <1>1, <1>3, <1>4, <2>3
        <3> QED BY <3>1, <3>2 DEF Sorted, Distinct
    <2>4. CASE j > p /\ i = p
        <3>1. j - 1 \in 1 .. n /\ j - 1 >= p /\ r[i] = e /\ r[j] = q[j - 1]
            BY <1>1, <1>3, <1>4, <2>4
        <3> QED BY <1>6, <3>1
    <2>5. CASE j > p /\ i > p
        <3>1. i - 1 \in 1 .. n /\ j - 1 \in 1 .. n /\ i - 1 < j - 1
            BY <1>1, <1>3, <1>7, <2>5
        <3>2. r[i] = q[i - 1] /\ r[j] = q[j - 1]
            BY <1>1, <1>3, <1>4, <2>5
        <3> QED BY <3>1, <3>2 DEF Sorted, Distinct
    <2> QED BY <1>1, <1>3, <2>1, <2>2, <2>3, <2>4, <2>5
<1>8. Sorted(r)
    BY <1>4, <1>7 DEF Sorted
<1>9. Distinct(r)
    BY <1>1, <1>4, <1>7 DEF Distinct
<1> QED BY <1>8, <1>9 DEF r

\* So does a cancellation.
LEMMA RemainingKeeps ==
    ASSUME NEW q \in Seq(Entry), NEW h, NEW d, NEW u, Sorted(q), Distinct(q)
    PROVE  Sorted(Remaining(q, h, d, u)) /\ Distinct(Remaining(q, h, d, u))
<1> DEFINE r == Remaining(q, h, d, u)
<1>1. r \in Seq(Entry)
    BY RemainingFacts
<1>2. PICK f \in [1 .. Len(r) -> 1 .. Len(q)] :
          /\ \A i, j \in 1 .. Len(r) : i < j => f[i] < f[j]
          /\ \A i \in 1 .. Len(r) : r[i] = q[f[i]]
    BY RemainingFacts
<1> HIDE DEF r
<1>3. Len(r) \in Nat /\ Len(q) \in Nat
    BY <1>1, LenProperties
<1>4. Sorted(r)
    BY <1>2 DEF Sorted
<1>5. ASSUME NEW i \in 1 .. Len(r), NEW j \in 1 .. Len(r), i < j
      PROVE  r[i].ptr # r[j].ptr
    <2>1. f[i] \in 1 .. Len(q) /\ f[j] \in 1 .. Len(q) /\ f[i] < f[j]
        BY <1>2, <1>5
    <2>2. f[i] # f[j]
        BY <1>3, <2>1
    <2> QED BY <1>2, <2>1, <2>2 DEF Distinct
<1>6. Distinct(r)
    BY <1>3, <1>5 DEF Distinct
<1> QED BY <1>4, <1>6 DEF r

\* And the removal of the head.
LEMMA TailKeeps ==
    ASSUME NEW q \in Seq(Entry), q # <<>>, Sorted(q), Distinct(q)
    PROVE  Sorted(Tail(q)) /\ Distinct(Tail(q))
<1>1. /\ Len(q) \in Nat \ {0}
      /\ Len(Tail(q)) = Len(q) - 1
      /\ \A i \in 1 .. Len(Tail(q)) : Tail(q)[i] = q[i + 1]
    BY TailFacts, LenProperties
<1>2. \A i \in 1 .. Len(Tail(q)) : i + 1 \in 1 .. Len(q)
    BY <1>1
<1>3. Sorted(Tail(q))
    BY <1>1, <1>2 DEF Sorted
<1>4. ASSUME NEW i \in 1 .. Len(Tail(q)), NEW j \in 1 .. Len(Tail(q)),
             Tail(q)[i].ptr = Tail(q)[j].ptr
      PROVE  i = j
    <2>1. i + 1 = j + 1
        BY <1>1, <1>2, <1>4 DEF Distinct
    <2> QED BY <1>1, <2>1
<1> QED BY <1>3, <1>4 DEF Distinct

-----------------------------------------------------------------------------
(* Where the first watchdog timeout is *)

\* A cancellation leaves, as the first watchdog timeout, the first it does not
\* remove.
LEMMA FirstStays ==
    ASSUME NEW q \in Seq(Entry), NEW h, NEW d, NEW u, Distinct(q),
           NEW t \in 1 .. Len(q), q[t].bIsWDTimeout, ~ Matches(q[t], h, d, u),
           \A j \in 1 .. Len(q) :
               q[j].bIsWDTimeout /\ ~ Matches(q[j], h, d, u) => t <= j
    PROVE  \E k \in 1 .. Len(Remaining(q, h, d, u)) :
               /\ Remaining(q, h, d, u)[k] = q[t]
               /\ IsFirst(k, Remaining(q, h, d, u))
<1> DEFINE r == Remaining(q, h, d, u)
<1>1. /\ r \in Seq(Entry)
      /\ Entries(r) = {e \in Entries(q) : ~ Matches(e, h, d, u)}
      /\ \E f \in [1 .. Len(r) -> 1 .. Len(q)] :
             /\ \A i, j \in 1 .. Len(r) : i < j => f[i] < f[j]
             /\ \A i \in 1 .. Len(r) : r[i] = q[f[i]]
    BY RemainingFacts
<1> HIDE DEF r
<1>2. PICK f \in [1 .. Len(r) -> 1 .. Len(q)] :
          /\ \A i, j \in 1 .. Len(r) : i < j => f[i] < f[j]
          /\ \A i \in 1 .. Len(r) : r[i] = q[f[i]]
    BY <1>1
<1>3. Len(r) \in Nat /\ Len(q) \in Nat
    BY <1>1, LenProperties
<1>4. PICK k \in 1 .. Len(r) : r[k] = q[t]
    BY <1>1 DEF Entries
<1>5. f[k] \in 1 .. Len(q) /\ q[f[k]].ptr = q[t].ptr
    BY <1>2, <1>4
<1>6. f[k] = t
    BY <1>5 DEF Distinct
<1>7. ASSUME NEW l \in 1 .. Len(r), r[l].bIsWDTimeout
      PROVE  k <= l
    <2> SUFFICES ASSUME l < k PROVE FALSE
        BY <1>3
    <2>1. f[l] \in 1 .. Len(q) /\ r[l] = q[f[l]] /\ f[l] < t
        BY <1>2, <1>6
    <2>2. ~ Matches(r[l], h, d, u)
        BY <1>1 DEF Entries
    <2>3. t <= f[l]
        BY <1>7, <2>1, <2>2
    <2> QED BY <1>3, <2>1, <2>3
<1> QED BY <1>4, <1>7 DEF IsFirst, r

\* When it removes all of them, none is left.
LEMMA NoneStays ==
    ASSUME NEW q \in Seq(Entry), NEW h, NEW d, NEW u,
           \A j \in 1 .. Len(q) : q[j].bIsWDTimeout => Matches(q[j], h, d, u)
    PROVE  NoneFlagged(Remaining(q, h, d, u))
<1> DEFINE r == Remaining(q, h, d, u)
<1>1. Entries(r) = {e \in Entries(q) : ~ Matches(e, h, d, u)}
    BY RemainingFacts
<1> HIDE DEF r
<1>2. ASSUME NEW i \in 1 .. Len(r) PROVE ~ r[i].bIsWDTimeout
    <2>1. r[i] \in Entries(q) /\ ~ Matches(r[i], h, d, u)
        BY <1>1 DEF Entries
    <2> QED BY <2>1 DEF Entries
<1> QED BY <1>2 DEF NoneFlagged, r

\* An entry that is not a watchdog timeout only moves the first one.
LEMMA FirstMoves ==
    ASSUME NEW q \in Seq(Entry), NEW e \in Entry, NEW i \in 1 .. Len(q),
           IsFirst(i, q),
           e.bIsWDTimeout => i < InsertPos(q, e.time)
    PROVE  \E k \in 1 .. Len(Insert(q, e)) :
               Insert(q, e)[k] = q[i] /\ IsFirst(k, Insert(q, e))
<1> DEFINE p == InsertPos(q, e.time)
           r == Insert(q, e)
           k == IF i < p THEN i ELSE i + 1
<1>1. Len(q) \in Nat /\ p \in 1 .. Len(q) + 1
    BY LenProperties, InsertPosFacts
<1>2. /\ Len(r) = Len(q) + 1
      /\ \A j \in 1 .. Len(q) + 1 :
             r[j] = IF j < p THEN q[j] ELSE IF j = p THEN e ELSE q[j - 1]
    BY InsertFacts
<1>3. e.bIsWDTimeout => i < p
    OBVIOUS
<1> HIDE DEF p, r
<1>4. k \in 1 .. Len(r) /\ r[k] = q[i]
    BY <1>1, <1>2
<1>5. ASSUME NEW j \in 1 .. Len(r), r[j].bIsWDTimeout
      PROVE  k <= j
    <2>1. CASE j < p
        <3>1. j \in 1 .. Len(q) /\ q[j].bIsWDTimeout
            BY <1>1, <1>2, <1>5, <2>1
        <3>2. i <= j
            BY <3>1 DEF IsFirst
        <3> QED BY <1>1, <2>1, <3>2
    <2>2. CASE j = p
        <3>1. e.bIsWDTimeout
            BY <1>1, <1>2, <1>5, <2>2
        <3> QED BY <1>1, <1>3, <2>2, <3>1
    <2>3. CASE j > p
        <3>1. j - 1 \in 1 .. Len(q) /\ q[j - 1].bIsWDTimeout
            BY <1>1, <1>2, <1>5, <2>3
        <3>2. i <= j - 1
            BY <3>1 DEF IsFirst
        <3> QED BY <1>1, <2>3, <3>2
    <2> QED BY <1>1, <2>1, <2>2, <2>3
<1>6. q[i].bIsWDTimeout
    BY DEF IsFirst
<1> QED BY <1>4, <1>5, <1>6 DEF IsFirst, r

\* A watchdog timeout in front of all others is found by the walk of
\* OnRegisterWDT, and one behind another is not.
LEMMA NewIsFirst ==
    ASSUME NEW q \in Seq(Entry), NEW e \in Entry, e.bIsWDTimeout,
           \A j \in 1 .. Len(q) :
               q[j].bIsWDTimeout => j >= InsertPos(q, e.time)
    PROVE  \E k \in 1 .. Len(Insert(q, e)) :
               Insert(q, e)[k] = e /\ IsFirst(k, Insert(q, e))
<1> DEFINE p == InsertPos(q, e.time)
           r == Insert(q, e)
<1>1. Len(q) \in Nat /\ p \in 1 .. Len(q) + 1
    BY LenProperties, InsertPosFacts
<1>2. /\ Len(r) = Len(q) + 1
      /\ \A j \in 1 .. Len(q) + 1 :
             r[j] = IF j < p THEN q[j] ELSE IF j = p THEN e ELSE q[j - 1]
    BY InsertFacts
<1>3. \A j \in 1 .. Len(q) : q[j].bIsWDTimeout => j >= p
    OBVIOUS
<1> HIDE DEF p, r
<1>4. p \in 1 .. Len(r) /\ r[p] = e
    BY <1>1, <1>2
<1>5. ASSUME NEW j \in 1 .. Len(r), r[j].bIsWDTimeout
      PROVE  p <= j
    <2> SUFFICES ASSUME j < p PROVE FALSE
        BY <1>1, <1>2
    <2>1. j \in 1 .. Len(q) /\ q[j].bIsWDTimeout
        BY <1>1, <1>2, <1>5
    <2> QED BY <1>1, <1>3, <2>1
<1> QED BY <1>4, <1>5 DEF IsFirst, r

\* Where the walk for the first flagged entry stops.
LEMMA WalkFindsFirst ==
    ASSUME NEW q \in Seq(Entry), NEW i \in 1 .. Len(q), IsFirst(i, q)
    PROVE  First(Flagged(q)) = i
<1>1. Len(q) \in Nat
    BY LenProperties
<1>2. i \in Flagged(q) /\ Flagged(q) \in SUBSET Nat
    BY <1>1 DEF IsFirst, Flagged
<1>3. First(Flagged(q)) \in Flagged(q) /\ First(Flagged(q)) <= i
    BY <1>2, FirstFacts
<1>4. First(Flagged(q)) \in 1 .. Len(q) /\ q[First(Flagged(q))].bIsWDTimeout
    BY <1>3 DEF Flagged
<1>5. i <= First(Flagged(q))
    BY <1>4 DEF IsFirst
<1> QED BY <1>1, <1>3, <1>4, <1>5

-----------------------------------------------------------------------------
(* The steps *)

\* The entries of the list are entries.
LEMMA ListEntries ==
    ASSUME TypeOK, NEW i \in 1 .. Len(timeout)
    PROVE  /\ timeout[i] \in Entry
           /\ timeout[i].ptr \in Ptr
           /\ timeout[i].ptr # NoEntry
           /\ timeout[i].time \in NormalTime
<1>1. timeout[i] \in Entry
    BY ElementOfSeq DEF TypeOK
<1> QED BY <1>1, EloopWatchdogAssumption DEF Entry

\* A registration keeps the invariant, of a watchdog timeout or of another.
LEMMA RegisterStep ==
    ASSUME Inv, NEW d \in Delay, NEW h \in Handler \cup {WDTHandler},
           NEW data \in Ctx, NEW user \in Ctx, NEW wd \in BOOLEAN,
           wd <=> h = WDTHandler,
           eloop_register_timeout0(d[1], d[2], h, data, user, wd)
    PROVE  Inv'
<1>1. /\ timeout \in Seq(Entry)
      /\ now \in NormalTime
      /\ d[1] \in Nat /\ d[2] \in Nat
    BY EloopWatchdogAssumption DEF Inv, TypeOK
<1>2. PICK e \in Entry :
          /\ e.ptr \notin Allocated
          /\ e.handler = h /\ e.bIsWDTimeout = wd
          /\ e.time = After(now, d[1], d[2])
          /\ timeout' = Insert(timeout, e)
          /\ wd => OnRegisterWDT(e, d[1], d[2])
          /\ ~ wd => UNCHANGED <<timeout_currentWDT, expires>>
    <2>1. PICK p \in Ptr \ Allocated :
              LET e == [ptr |-> p, handler |-> h, eloop_data |-> data,
                        user_data |-> user, bIsWDTimeout |-> wd,
                        time |-> After(now, d[1], d[2])]
              IN  /\ timeout' = Insert(timeout, e)
                  /\ IF wd THEN OnRegisterWDT(e, d[1], d[2])
                     ELSE UNCHANGED <<timeout_currentWDT, expires>>
        BY DEF eloop_register_timeout0
    <2> DEFINE e == [ptr |-> p, handler |-> h, eloop_data |-> data,
                     user_data |-> user, bIsWDTimeout |-> wd,
                     time |-> After(now, d[1], d[2])]
    <2>2. After(now, d[1], d[2]) \in NormalTime
        BY <1>1, AfterIsNormal
    <2>3. /\ e \in Entry
          /\ e.ptr = p /\ e.handler = h /\ e.bIsWDTimeout = wd
          /\ e.time = After(now, d[1], d[2])
        BY <2>2 DEF Entry
    <2>4. /\ timeout' = Insert(timeout, e)
          /\ wd => OnRegisterWDT(e, d[1], d[2])
          /\ ~ wd => UNCHANGED <<timeout_currentWDT, expires>>
        BY <2>1
    <2> HIDE DEF e
    <2> QED BY <2>3, <2>4
<1>3. e.ptr \in Ptr /\ e.time \in NormalTime
    BY DEF Entry
<1>4. UNCHANGED <<now, firing, fired>>
    BY DEF eloop_register_timeout0
<1> DEFINE q == InsertPos(timeout, e.time)
<1>6. \A i \in 1 .. Len(timeout) : timeout[i].ptr # e.ptr
    BY <1>2 DEF Allocated, Entries
<1>7. /\ timeout' \in Seq(Entry)
      /\ Entries(timeout') = Entries(timeout) \cup {e}
    <2>1. Insert(timeout, e) \in Seq(Entry)
        BY <1>1, InsertFacts
    <2>2. Entries(Insert(timeout, e)) = Entries(timeout) \cup {e}
        BY <1>1, InsertEntries
    <2> QED BY <1>2, <2>1, <2>2
<1>8. Len(timeout) \in Nat /\ q \in 1 .. Len(timeout) + 1
    BY <1>1, LenProperties, InsertPosFacts
<1>9. (Sorted(timeout) /\ Distinct(timeout))'
    BY <1>1, <1>2, <1>6, InsertKeeps DEF Inv
<1>10. RestartFor(e) => /\ timeout_currentWDT' = e.ptr
                        /\ expires' \in Int
                        /\ Guards(e, expires', now)
    BY <1>1, <1>3, RestartGuards DEF Inv
<1>11. StartWDT(d[1], d[2]) => /\ expires' \in Int
                               /\ Guards(e, expires', now)
    BY <1>1, <1>2, <1>3, StartInstant, InstantFacts DEF StartWDT, Guards
<1> HIDE DEF q
<1>12. TypeOK'
    <2>1. timeout_currentWDT' \in Ptr \cup {NoEntry} /\ expires' \in Int \cup {NoEntry}
        BY <1>2, <1>3, <1>10, <1>11 DEF OnRegisterWDT, Inv, TypeOK
    <2>2. \A f \in Entries(timeout') : f.bIsWDTimeout <=> f.handler = WDTHandler
        BY <1>2, <1>7 DEF Inv, TypeOK
    <2> QED BY <1>4, <1>7, <2>1, <2>2 DEF Inv, TypeOK
<1>13. ASSUME wd, \A j \in 1 .. Len(timeout) :
                      timeout[j].bIsWDTimeout => j >= q
       PROVE  \E k \in 1 .. Len(timeout') : timeout'[k] = e /\ IsFirst(k, timeout')
    BY <1>1, <1>2, <1>13, NewIsFirst DEF q
<1>14. ASSUME NEW i \in 1 .. Len(timeout), IsFirst(i, timeout), wd => i < q
       PROVE  \E k \in 1 .. Len(timeout') :
                  timeout'[k] = timeout[i] /\ IsFirst(k, timeout')
    BY <1>1, <1>2, <1>14, FirstMoves DEF q
<1>15. Guarded'
    <2> DEFINE None == /\ NoneFlagged(timeout')
                       /\ timeout_currentWDT' = NoEntry
                       /\ expires' = NoEntry
               Some == \E k \in 1 .. Len(timeout') :
                           /\ IsFirst(k, timeout')
                           /\ timeout_currentWDT' = timeout'[k].ptr
                           /\ Guards(timeout'[k], expires', now)
    <2> SUFFICES ASSUME ~ fired PROVE None \/ Some
        BY <1>4 DEF Guarded
    <2>1. CASE NoneFlagged(timeout) /\ ~ wd
        <3>1. timeout_currentWDT' = NoEntry /\ expires' = NoEntry
            BY <1>2, <2>1 DEF Inv, Guarded, NoneFlagged, IsFirst
        <3>2. \A f \in Entries(timeout') : ~ f.bIsWDTimeout
            BY <1>2, <1>7, <2>1 DEF NoneFlagged, Entries
        <3>3. NoneFlagged(timeout')
            BY <3>2 DEF NoneFlagged, Entries
        <3> QED BY <3>1, <3>3
    <2>2. CASE NoneFlagged(timeout) /\ wd
        <3>1. timeout_currentWDT = NoEntry
            BY <2>2 DEF Inv, Guarded, NoneFlagged, IsFirst
        <3>2. timeout_currentWDT' = e.ptr /\ Guards(e, expires', now)
            BY <1>2, <1>11, <2>2, <3>1 DEF OnRegisterWDT
        <3>3. PICK k \in 1 .. Len(timeout') : timeout'[k] = e /\ IsFirst(k, timeout')
            BY <1>13, <2>2 DEF NoneFlagged
        <3> QED BY <3>2, <3>3
    <2>3. CASE ~ NoneFlagged(timeout)
        <3>1. PICK i \in 1 .. Len(timeout) :
                  /\ IsFirst(i, timeout)
                  /\ timeout_currentWDT = timeout[i].ptr
                  /\ Guards(timeout[i], expires, now)
            BY <2>3 DEF Inv, Guarded
        <3>2. timeout_currentWDT # NoEntry
            BY <3>1, ListEntries DEF Inv
        <3>3. CASE wd => i < q
            <4>1. PICK k \in 1 .. Len(timeout') :
                      timeout'[k] = timeout[i] /\ IsFirst(k, timeout')
                BY <1>14, <3>1, <3>3
            <4>2. wd => ~ TakesOver(e)
                <5>1. First(Flagged(timeout')) = k
                    BY <1>7, <4>1, WalkFindsFirst
                <5> QED BY <1>6, <4>1, <5>1 DEF TakesOver
            <4>3. UNCHANGED <<timeout_currentWDT, expires>>
                BY <1>2, <3>2, <4>2 DEF OnRegisterWDT
            <4> QED BY <3>1, <4>1, <4>3
        <3>4. CASE wd /\ ~ (i < q)
            <4>1. \A j \in 1 .. Len(timeout) : timeout[j].bIsWDTimeout => j >= q
                BY <1>8, <3>1, <3>4 DEF IsFirst
            <4>2. PICK k \in 1 .. Len(timeout') :
                      timeout'[k] = e /\ IsFirst(k, timeout')
                BY <1>13, <3>4, <4>1
            <4>3. TakesOver(e)
                BY <1>7, <4>2, WalkFindsFirst DEF TakesOver
            <4>4. RestartFor(e)
                BY <1>2, <3>2, <3>4, <4>3 DEF OnRegisterWDT
            <4> QED BY <1>10, <4>2, <4>4
        <3> QED BY <3>3, <3>4
    <2> QED BY <2>1, <2>2, <2>3
<1> QED BY <1>4, <1>9, <1>12, <1>15 DEF Inv

\* A cancellation keeps the invariant, with or without the flag.
LEMMA CancelStep ==
    ASSUME Inv, NEW h, NEW data, NEW user, NEW wd \in BOOLEAN,
           eloop_cancel_timeout0(h, data, user, wd)
    PROVE  Inv'
<1> DEFINE gone == {i \in 1 .. Len(timeout) :
                        /\ Matches(timeout[i], h, data, user)
                        /\ timeout[i].bIsWDTimeout \/ wd}
           current == {i \in gone : timeout[i].ptr = timeout_currentWDT}
           next == Successors(First(current), gone)
<1>1. /\ timeout \in Seq(Entry)
      /\ now \in NormalTime
      /\ Distinct(timeout)
      /\ Len(timeout) \in Nat
    BY LenProperties DEF Inv, TypeOK
<1>2. /\ timeout' = Remaining(timeout, h, data, user)
      /\ OnUnregisterWDT(gone)
      /\ UNCHANGED <<now, firing, fired>>
    BY DEF eloop_cancel_timeout0
<1>3. /\ current = {} => UNCHANGED <<timeout_currentWDT, expires>>
      /\ current # {} /\ next = {} =>
             timeout_currentWDT' = NoEntry /\ expires' = NoEntry
      /\ current # {} /\ next # {} => RestartFor(timeout[First(next)])
    BY <1>2 DEF OnUnregisterWDT, StopWDT
<1>4. (Sorted(timeout) /\ Distinct(timeout))'
    BY <1>1, <1>2, RemainingKeeps DEF Inv
<1>5. timeout' \in Seq(Entry) /\ Entries(timeout') \subseteq Entries(timeout)
    BY <1>1, <1>2, RemainingFacts
<1>6. \A k \in 1 .. Len(timeout) :
          k \in gone <=> /\ Matches(timeout[k], h, data, user)
                         /\ timeout[k].bIsWDTimeout \/ wd
    OBVIOUS
<1>7. \A k : k \in next <=> /\ k \in 1 .. Len(timeout)
                            /\ timeout[k].bIsWDTimeout
                            /\ ~ Matches(timeout[k], h, data, user)
                            /\ k > First(current)
    BY DEF Successors, Flagged
<1>8. \A k : k \in current <=> /\ k \in 1 .. Len(timeout)
                               /\ k \in gone
                               /\ timeout[k].ptr = timeout_currentWDT
    OBVIOUS
<1> HIDE DEF gone, current, next
<1>9. ASSUME current # {}, next # {}
      PROVE  /\ First(next) \in next
             /\ \A j \in next : First(next) <= j
             /\ First(next) \in 1 .. Len(timeout)
             /\ timeout_currentWDT' = timeout[First(next)].ptr
             /\ expires' \in Int
             /\ Guards(timeout[First(next)], expires', now)
    <2>1. next \in SUBSET Nat
        BY <1>1, <1>7
    <2>2. First(next) \in next /\ \A j \in next : First(next) <= j
        BY <1>9, <2>1, FirstFacts
    <2>3. First(next) \in 1 .. Len(timeout)
        BY <1>7, <2>2
    <2>4. PICK e \in Entry : e = timeout[First(next)]
        BY <2>3, ListEntries DEF Inv
    <2>5. RestartFor(e) /\ e.time \in NormalTime
        BY <1>3, <1>9, <2>4 DEF Entry
    <2>6. /\ timeout_currentWDT' = e.ptr
          /\ expires' \in Int
          /\ Guards(e, expires', now)
        BY <1>1, <2>5, RestartGuards DEF Inv
    <2> QED BY <2>2, <2>3, <2>4, <2>6
<1>10. TypeOK'
    <2>1. timeout_currentWDT' \in Ptr \cup {NoEntry} /\ expires' \in Int \cup {NoEntry}
        <3>1. CASE current # {} /\ next # {}
            BY <1>9, <3>1, ListEntries DEF Inv
        <3>2. CASE current = {} \/ next = {}
            BY <1>3, <3>2 DEF Inv, TypeOK
        <3> QED BY <3>1, <3>2
    <2> QED BY <1>2, <1>5, <2>1 DEF Inv, TypeOK
<1>11. Guarded'
    <2> DEFINE None == /\ NoneFlagged(timeout')
                       /\ timeout_currentWDT' = NoEntry
                       /\ expires' = NoEntry
               Some == \E k \in 1 .. Len(timeout') :
                           /\ IsFirst(k, timeout')
                           /\ timeout_currentWDT' = timeout'[k].ptr
                           /\ Guards(timeout'[k], expires', now)
    <2> SUFFICES ASSUME ~ fired PROVE None \/ Some
        BY <1>2 DEF Guarded
    <2>1. CASE NoneFlagged(timeout)
        <3>1. timeout_currentWDT = NoEntry /\ expires = NoEntry
            BY <2>1 DEF Inv, Guarded, NoneFlagged, IsFirst
        <3>2. current = {}
            BY <1>8, <3>1, ListEntries DEF Inv
        <3>3. NoneFlagged(timeout')
            BY <1>1, <1>2, <2>1, NoneStays DEF NoneFlagged
        <3> QED BY <1>3, <3>1, <3>2, <3>3
    <2>2. CASE ~ NoneFlagged(timeout)
        <3>1. PICK i \in 1 .. Len(timeout) :
                  /\ IsFirst(i, timeout)
                  /\ timeout_currentWDT = timeout[i].ptr
                  /\ Guards(timeout[i], expires, now)
            BY <2>2 DEF Inv, Guarded
        <3>2. timeout[i].bIsWDTimeout
            BY <3>1 DEF IsFirst
        <3>3. \A k \in current : k = i
            BY <1>1, <1>8, <3>1 DEF Distinct
        <3>4. CASE ~ Matches(timeout[i], h, data, user)
            <4>1. current = {}
                BY <1>6, <1>8, <3>3, <3>4
            <4>2. PICK k \in 1 .. Len(timeout') :
                      timeout'[k] = timeout[i] /\ IsFirst(k, timeout')
                BY <1>1, <1>2, <3>1, <3>2, <3>4, FirstStays DEF IsFirst
            <4> QED BY <1>3, <3>1, <4>1, <4>2
        <3>5. CASE Matches(timeout[i], h, data, user)
            <4>1. current = {i}
                BY <1>6, <1>8, <3>1, <3>2, <3>3, <3>5
            <4>2. First(current) = i
                <5>1. current \in SUBSET Nat
                    BY <1>1, <1>8
                <5> QED BY <4>1, <5>1, FirstFacts
            <4>3. \A j \in 1 .. Len(timeout) :
                      /\ timeout[j].bIsWDTimeout
                      /\ ~ Matches(timeout[j], h, data, user)
                      => j \in next
                BY <1>1, <1>7, <3>1, <3>5, <4>2 DEF IsFirst
            <4>4. CASE next = {}
                <5>1. NoneFlagged(timeout')
                    BY <1>1, <1>2, <4>3, <4>4, NoneStays
                <5> QED BY <1>3, <4>1, <4>4, <5>1
            <4>5. CASE next # {}
                <5>1. PICK t \in 1 .. Len(timeout) :
                          /\ t = First(next) /\ t \in next
                          /\ \A j \in next : t <= j
                          /\ timeout_currentWDT' = timeout[t].ptr
                          /\ Guards(timeout[t], expires', now)
                    BY <1>9, <4>1, <4>5
                <5>2. /\ timeout[t].bIsWDTimeout
                      /\ ~ Matches(timeout[t], h, data, user)
                    BY <1>7, <5>1
                <5>3. PICK k \in 1 .. Len(timeout') :
                          timeout'[k] = timeout[t] /\ IsFirst(k, timeout')
                    BY <1>1, <1>2, <4>3, <5>1, <5>2, FirstStays
                <5> QED BY <5>1, <5>3
            <4> QED BY <4>4, <4>5
        <3> QED BY <3>4, <3>5
    <2> QED BY <2>1, <2>2
<1> QED BY <1>2, <1>4, <1>10, <1>11 DEF Inv

\* So does popping the head: either it is a watchdog timeout, which fires, or the
\* first one moves up.
LEMMA ExpireStep ==
    ASSUME Inv, ExpireHead
    PROVE  Inv'
<1>1. /\ timeout \in Seq(Entry) /\ timeout # <<>>
      /\ timeout' = Tail(timeout)
      /\ fired' = (fired \/ timeout[1].bIsWDTimeout)
      /\ firing' = timeout[1].ptr
      /\ UNCHANGED <<now, timeout_currentWDT, expires>>
    BY DEF ExpireHead, Inv, TypeOK
<1>2. /\ Len(timeout) \in Nat \ {0}
      /\ timeout' \in Seq(Entry)
      /\ Len(timeout') = Len(timeout) - 1
      /\ \A i \in 1 .. Len(timeout') : timeout'[i] = timeout[i + 1]
      /\ Entries(timeout') \subseteq Entries(timeout)
    BY <1>1, TailFacts
<1>3. timeout[1] \in Entry /\ timeout[1].ptr \in Ptr
    BY <1>2, ListEntries DEF Inv
<1>4. (Sorted(timeout) /\ Distinct(timeout))'
    BY <1>1, TailKeeps DEF Inv
<1>5. TypeOK'
    BY <1>1, <1>2, <1>3 DEF Inv, TypeOK, Entry
<1>6. Guarded'
    <2> SUFFICES ASSUME ~ fired, ~ timeout[1].bIsWDTimeout PROVE Guarded'
        BY <1>1 DEF Guarded
    <2>1. CASE NoneFlagged(timeout)
        <3>1. timeout_currentWDT = NoEntry /\ expires = NoEntry
            BY <2>1 DEF Inv, Guarded, NoneFlagged, IsFirst
        <3>2. NoneFlagged(timeout')
            BY <1>2, <2>1 DEF NoneFlagged
        <3> QED BY <1>1, <3>1, <3>2 DEF Guarded, NoneFlagged
    <2>2. CASE ~ NoneFlagged(timeout)
        <3>1. PICK i \in 1 .. Len(timeout) :
                  /\ IsFirst(i, timeout)
                  /\ timeout_currentWDT = timeout[i].ptr
                  /\ Guards(timeout[i], expires, now)
            BY <2>2 DEF Inv, Guarded
        <3>2. i # 1
            BY <3>1 DEF IsFirst
        <3>3. i - 1 \in 1 .. Len(timeout') /\ timeout'[i - 1] = timeout[i]
            BY <1>2, <3>2
        <3>4. IsFirst(i - 1, timeout')
            <4>1. ASSUME NEW j \in 1 .. Len(timeout'), timeout'[j].bIsWDTimeout
                  PROVE  i - 1 <= j
                <5>1. j + 1 \in 1 .. Len(timeout) /\ timeout[j + 1].bIsWDTimeout
                    BY <1>2, <4>1
                <5>2. i <= j + 1
                    BY <3>1, <5>1 DEF IsFirst
                <5> QED BY <1>2, <5>2
            <4> QED BY <3>1, <3>3, <4>1 DEF IsFirst
        <3>5. \E k \in 1 .. Len(timeout') :
                  /\ IsFirst(k, timeout')
                  /\ timeout_currentWDT' = timeout'[k].ptr
                  /\ Guards(timeout'[k], expires', now')
            BY <1>1, <3>1, <3>3, <3>4
        <3> QED BY <3>5 DEF Guarded
    <2> QED BY <2>1, <2>2
<1> QED BY <1>1, <1>4, <1>5, <1>6 DEF Inv

\* Time passes: what was guarded is guarded, and what was overdue is overdue.
LEMMA TickStep ==
    ASSUME Inv, ClockTick
    PROVE  Inv'
<1>1. /\ now \in NormalTime
      /\ now' = After(now, 0, 1)
      /\ UNCHANGED <<timeout, timeout_currentWDT, firing, expires, fired>>
    BY DEF ClockTick, Inv, TypeOK
<1>2. now' \in NormalTime /\ Before(now, now') /\ Instant(now') = Instant(now) + 1
    BY <1>1, AfterIsNormal, TickIsLater, InstantFacts
<1>3. now.sec \in Int /\ now'.sec \in Int /\ Instant(now) \in Int
    BY <1>1, <1>2, InstantFacts DEF NormalTime
<1>4. now'.sec >= 1
    BY <1>2, <1>3 DEF Before, Inv
<1>5. TypeOK'
    BY <1>1, <1>2 DEF Inv, TypeOK
<1>6. ASSUME NEW i \in 1 .. Len(timeout), Guards(timeout[i], expires, now)
      PROVE  Guards(timeout[i], expires, now')
    <2>1. timeout[i].time \in NormalTime
        BY ListEntries DEF Inv
    <2>2. Before(now', timeout[i].time) => Before(now, timeout[i].time)
        BY <1>1, <1>2, <2>1, BeforeIsOrder
    <2> QED BY <1>2, <1>3, <1>6, <2>2 DEF Guards
<1>7. Guarded'
    BY <1>1, <1>6 DEF Guarded, Inv, NoneFlagged
<1> QED BY <1>1, <1>4, <1>5, <1>7 DEF Inv, Sorted, Distinct

-----------------------------------------------------------------------------
(* The theorems *)

\* The empty list needs no watchdog.
LEMMA InvInit == Init => Inv
<1> SUFFICES ASSUME Init PROVE Inv
    OBVIOUS
<1>1. now \in NormalTime /\ now.sec >= 1
    BY EloopWatchdogAssumption DEF Init
<1>2. timeout = <<>> /\ timeout \in Seq(Entry) /\ Len(timeout) = 0
    BY DEF Init
<1>3. Entries(timeout) = {}
    BY <1>2 DEF Entries
<1>4. TypeOK
    BY <1>1, <1>2, <1>3 DEF Init, TypeOK
<1>5. Sorted(timeout) /\ Distinct(timeout) /\ NoneFlagged(timeout)
    BY <1>2 DEF Sorted, Distinct, NoneFlagged
<1> QED BY <1>1, <1>4, <1>5 DEF Init, Inv, Guarded

\* Every step keeps the invariant.
LEMMA InvStep == Inv /\ [Next]_vars => Inv'
<1> SUFFICES ASSUME Inv, [Next]_vars PROVE Inv'
    OBVIOUS
<1>1. ASSUME NEW d \in Delay, NEW data \in Ctx, NEW user \in Ctx,
             eloop_register_watchdog_timeout(d[1], d[2], data, user)
      PROVE  Inv'
    BY <1>1, RegisterStep DEF eloop_register_watchdog_timeout
<1>2. ASSUME NEW d \in Delay, NEW data \in Ctx, NEW user \in Ctx, NEW h \in Handler,
             eloop_register_timeout(d[1], d[2], h, data, user)
      PROVE  Inv'
    <2>1. h # WDTHandler
        BY EloopWatchdogAssumption
    <2> QED BY <1>2, <2>1, RegisterStep DEF eloop_register_timeout
<1>3. ASSUME NEW data, NEW user, eloop_cancel_watchdog_timeout(data, user)
      PROVE  Inv'
    BY <1>3, CancelStep DEF eloop_cancel_watchdog_timeout
<1>4. ASSUME NEW data, NEW user, NEW h, eloop_cancel_timeout(h, data, user)
      PROVE  Inv'
    BY <1>4, CancelStep DEF eloop_cancel_timeout
<1>5. CASE ExpireHead
    BY <1>5, ExpireStep
<1>6. CASE HandlerReturns
    BY <1>6 DEF HandlerReturns, Inv, TypeOK, Sorted, Distinct, Guarded, NoneFlagged,
       IsFirst, Guards
<1>7. CASE ClockTick
    BY <1>7, TickStep
<1>8. CASE UNCHANGED vars
    BY <1>8 DEF vars, Inv, TypeOK, Sorted, Distinct, Guarded, NoneFlagged, IsFirst,
       Guards
<1> QED BY <1>1, <1>2, <1>3, <1>4, <1>5, <1>6, <1>7, <1>8 DEF Next

\* The invariant holds throughout.
LEMMA Invariance == Spec => []Inv
<1> QED BY InvInit, InvStep, PTL DEF Spec

\* The first watchdog timeout of a sorted list precedes all others.
LEMMA FirstIsNearest ==
    ASSUME Inv, NEW i \in 1 .. Len(timeout), IsFirst(i, timeout)
    PROVE  timeout[i] \in Watchdogs /\ Nearest(timeout[i])
<1>1. timeout[i] \in Watchdogs
    BY DEF IsFirst, Watchdogs, Entries
<1>2. ASSUME NEW f \in Watchdogs PROVE ~ Before(f.time, timeout[i].time)
    <2>1. PICK j \in 1 .. Len(timeout) : f = timeout[j] /\ timeout[j].bIsWDTimeout
        BY DEF Watchdogs, Entries
    <2>2. i <= j
        BY <2>1 DEF IsFirst
    <2>3. CASE i = j
        <3>1. timeout[i].time \in Time
            BY ListEntries, BeforeIsOrder DEF Inv
        <3> QED BY <2>1, <2>3, <3>1, BeforeIsOrder
    <2>4. CASE i < j
        BY <2>1, <2>4 DEF Inv, Sorted
    <2> QED BY <2>2, <2>3, <2>4
<1> QED BY <1>1, <1>2 DEF Nearest

\* The times in the list and on the watchdog keep their types.
THEOREM WatchdogTypes == Spec => []TypeOK
<1>1. Inv => TypeOK
    BY DEF Inv
<1> QED BY Invariance, <1>1, PTL

\* eloop.timeout_currentWDT is NULL or points to the nearest watchdog timeout
\* through all registrations and cancellations, several at once included, until
\* a watchdog timeout fires.
THEOREM PointerFollowsNearest == Spec => []CurrentIsNearest
<1>1. Inv => CurrentIsNearest
    <2> SUFFICES ASSUME Inv, ~ fired PROVE CurrentIsNearest
        BY DEF CurrentIsNearest
    <2>1. NoneFlagged(timeout) => Watchdogs = {}
        BY DEF NoneFlagged, Watchdogs, Entries
    <2> QED BY <2>1, FirstIsNearest DEF Inv, Guarded, CurrentIsNearest
<1> QED BY Invariance, <1>1, PTL

\* And the watchdog runs for that timeout: it resets the system when the nearest
\* watchdog timeout comes due, or at once if that has passed.
THEOREM WatchdogFollowsNearest == Spec => []WatchdogGuardsNearest
<1>1. Inv => WatchdogGuardsNearest
    <2> SUFFICES ASSUME Inv, ~ fired PROVE WatchdogGuardsNearest
        BY DEF WatchdogGuardsNearest
    <2>1. NoneFlagged(timeout) => Watchdogs = {}
        BY DEF NoneFlagged, Watchdogs, Entries
    <2>2. expires \in Int => expires # NoEntry
        BY EloopWatchdogAssumption
    <2> QED BY <2>1, <2>2, FirstIsNearest
            DEF Inv, Guarded, Guards, WatchdogGuardsNearest
<1> QED BY Invariance, <1>1, PTL

-----------------------------------------------------------------------------
(* Changes of the clock: the timeouts of EloopTimeChange *)

ClockEntry == [time : NormalTime, due : 0 .. Latest, missed : Int]

\* The true time a timeout will be called at, less what happens from now on.
Aim(e) == e.due + e.missed

LEMMA AimFacts == ASSUME NEW e \in ClockEntry PROVE Aim(e) \in Int
<1>1. e.due \in 0 .. Latest /\ e.missed \in Int
    BY DEF ClockEntry
<1>2. Latest \in Nat
    BY ClockAssumption DEF Clock!EloopTimeChangeAssumption
<1> QED BY <1>1, <1>2 DEF Aim

\* The operators on times and lists are those of the theorems.
LEMMA SameOperators ==
    /\ \A t : Clock!Instant(t) = Instant(t)
    /\ \A a, b : Clock!Before(a, b) <=> Before(a, b)
    /\ \A a, b : Clock!Add(a, b) = Add(a, b)
    /\ \A a, b : Clock!Sub(a, b) = Sub(a, b)
    /\ \A t, s, u : Clock!After(t, s, u) = After(t, s, u)
    /\ \A q, e : Clock!Insert(q, e) = Insert(q, e)
    /\ Clock!NormalTime = NormalTime
BY DEF Clock!Instant, Instant, Clock!Before, Before, Clock!Add, Add, Clock!Sub, Sub,
       Clock!After, After, Clock!Insert, Insert, Clock!InsertPos, InsertPos,
       Clock!NormalTime, NormalTime

\* Facts about numbers the provers need one by one.
LEMMA Division ==
    ASSUME NEW a \in Int, NEW n \in Nat \ {0}
    PROVE  /\ a \div n \in Int
           /\ a % n \in 0 .. n - 1
           /\ a = (a \div n) * n + (a % n)
OBVIOUS

LEMMA DivisionIsExact ==
    ASSUME NEW a \in Int, NEW n \in Nat \ {0}
    PROVE  (a * n) \div n = a
OBVIOUS

LEMMA ProductMonotonic ==
    ASSUME NEW a \in Int, NEW b \in Int, NEW n \in Nat, a <= b
    PROVE  a * n \in Int /\ b * n \in Int /\ a * n <= b * n
OBVIOUS

LEMMA ProductOfSum ==
    ASSUME NEW a \in Int, NEW b \in Int, NEW n \in Int
    PROVE  /\ a * n \in Int /\ b * n \in Int /\ (a + b) * n \in Int /\ (a - b) * n \in Int
           /\ (a + b) * n = a * n + b * n
           /\ (a - b) * n = a * n - b * n
OBVIOUS

\* A multiple of n that is closer to 0 than n is 0.
LEMMA SmallMultiple ==
    ASSUME NEW k \in Int, NEW n \in Nat \ {0}, - n < k * n, k * n < n
    PROVE  k = 0
<1>1. CASE k >= 1
    <2>1. 1 * n <= k * n
        BY <1>1, ProductMonotonic
    <2> QED BY <2>1
<1>2. CASE k <= -1
    <2>1. k * n <= (-1) * n
        BY <1>2, ProductMonotonic
    <2> QED BY <2>1
<1> QED BY <1>1, <1>2

-----------------------------------------------------------------------------
(* The two clocks *)

\* What the assumptions on the constants come to.
LEMMA ClockConstants ==
    /\ Usec \in Nat \ {0} /\ Hz \in Nat \ {0} /\ UInt \in Nat \ {0} /\ ULong \in Nat \ {0}
    /\ Slack \in Nat /\ Era \in Nat /\ Boot \in Nat /\ Start \in Nat
    /\ MaxSteps \in Nat /\ MaxTimers \in Nat /\ Latest \in Nat
    /\ Slack < Usec /\ Given \subseteq Nat \X Nat /\ Steps \subseteq Int
    /\ Clock!Tick \in Nat \ {0}
    /\ Usec = Clock!Tick * Hz
<1>1. /\ Usec \in Nat \ {0} /\ Hz \in Nat \ {0} /\ UInt \in Nat \ {0} /\ ULong \in Nat \ {0}
      /\ Usec % Hz = 0
    BY UsecAssumption, ClockAssumption DEF Clock!EloopTimeChangeAssumption
<1>2. /\ Slack \in Nat /\ Era \in Nat /\ Boot \in Nat /\ Start \in Nat
      /\ MaxSteps \in Nat /\ MaxTimers \in Nat /\ Latest \in Nat
      /\ Slack < Usec /\ Given \subseteq Nat \X Nat /\ Steps \subseteq Int
    BY ClockAssumption DEF Clock!EloopTimeChangeAssumption
<1>3. Usec \div Hz \in Int /\ Usec = (Usec \div Hz) * Hz
    BY <1>1, Division
<1>4. Usec \div Hz \in Nat \ {0}
    <2>1. ~ (Usec \div Hz <= 0)
        BY <1>1, <1>3, ProductMonotonic
    <2> QED BY <1>3, <2>1
<1> QED BY <1>1, <1>2, <1>3, <1>4 DEF Clock!Tick

\* The wall clock shows the true time plus what it was moved by.
LEMMA WallFacts ==
    ASSUME Start \in Nat, clock \in Int, offset \in Int
    PROVE  /\ Clock!WallClock \in NormalTime
           /\ Instant(Clock!WallClock) = Start + clock + offset
<1> DEFINE w == Start + clock + offset
<1>1. w \in Int /\ Usec \in Nat \ {0}
    BY UsecAssumption
<1> HIDE DEF w
<1>2. w \div Usec \in Int /\ w % Usec \in 0 .. Usec - 1 /\ w = (w \div Usec) * Usec + (w % Usec)
    BY <1>1, Division
<1>3. Clock!WallClock = [sec |-> w \div Usec, usec |-> w % Usec]
    BY DEF Clock!WallClock, w
<1>4. Clock!WallClock \in NormalTime /\ Instant(Clock!WallClock) = w
    BY <1>2, <1>3 DEF NormalTime, Instant
<1> QED BY <1>4 DEF w

\* What times() returns at the true time c.
TimesAt(c) == LET n == (Boot + (c \div Clock!Tick)) % ULong
              IN  IF 2 * n < ULong THEN n ELSE n - ULong

\* A reading of the ticks is the number of ticks less a multiple of the modulus.
LEMMA TimesFacts ==
    ASSUME NEW c \in Nat
    PROVE  /\ c \div Clock!Tick \in Nat
           /\ TimesAt(c) \in Int
           /\ - ULong <= 2 * TimesAt(c) /\ 2 * TimesAt(c) < ULong
           /\ \E m \in Int : TimesAt(c) = Boot + (c \div Clock!Tick) - m * ULong
<1> DEFINE s == c \div Clock!Tick
           n == (Boot + s) % ULong
           m == (Boot + s) \div ULong
<1>1. Clock!Tick \in Nat \ {0} /\ ULong \in Nat \ {0} /\ Boot \in Nat
    BY ClockConstants
<1>2. s \in Nat
    BY <1>1
<1> HIDE DEF s
<1>3. m \in Int /\ n \in 0 .. ULong - 1 /\ Boot + s = m * ULong + n
    <2>1. Boot + s \in Int
        BY <1>1, <1>2
    <2> QED BY <1>1, <2>1, Division
<1>4. TimesAt(c) = IF 2 * n < ULong THEN n ELSE n - ULong
    BY DEF TimesAt, s
<1> HIDE DEF n, m
<1>5. (m + 1) * ULong = m * ULong + ULong /\ m * ULong \in Int
    BY <1>1, <1>3
<1>6. CASE 2 * n < ULong
    <2>1. TimesAt(c) = n
        BY <1>4, <1>6
    <2>2. TimesAt(c) = Boot + s - m * ULong
        BY <2>1, <1>1, <1>2, <1>3, <1>5
    <2> QED BY <1>1, <1>2, <1>3, <1>6, <2>1, <2>2 DEF s
<1>7. CASE ~ (2 * n < ULong)
    <2>1. TimesAt(c) = n - ULong
        BY <1>4, <1>7
    <2>2. TimesAt(c) = Boot + s - (m + 1) * ULong
        BY <2>1, <1>1, <1>2, <1>3, <1>5
    <2>3. \E k \in Int : TimesAt(c) = Boot + s - k * ULong
        <3>1. m + 1 \in Int
            BY <1>3
        <3> QED BY <3>1, <2>2
    <2>4. TimesAt(c) \in Int /\ - ULong <= 2 * TimesAt(c) /\ 2 * TimesAt(c) < ULong
        BY <1>1, <1>3, <1>7, <2>1
    <2> QED BY <1>2, <2>3, <2>4 DEF s
<1> QED BY <1>6, <1>7

\* The ticks do not wrap more than once around while the model runs.
TicksComparable == Latest < ULong * Clock!Tick

\* The comparison counts ticks rightly: the modulus it assumes is that of the clock,
\* or the clock has ticked since the one before and has not wrapped around.
Counts == UInt = ULong \/ Clock!times > t0

\* The difference of two readings is the number of ticks between them.
LEMMA ElapsedTicks ==
    ASSUME TicksComparable, Counts,
           clock \in Nat, clock <= Latest,
           NEW c \in Nat, c <= clock, t0 = TimesAt(c)
    PROVE  Clock!ClockDiff(Clock!times) = (clock \div Clock!Tick) - (c \div Clock!Tick)
<1> DEFINE a == c \div Clock!Tick
           b == clock \div Clock!Tick
           t1 == TimesAt(clock)
<1>1. /\ Clock!Tick \in Nat \ {0} /\ ULong \in Nat \ {0} /\ Boot \in Nat /\ Latest \in Nat
    BY ClockConstants
<1>2. /\ a \in Nat /\ b \in Nat /\ t0 \in Int /\ t1 \in Int
      /\ - ULong <= 2 * t0 /\ 2 * t0 < ULong
      /\ - ULong <= 2 * t1 /\ 2 * t1 < ULong
    BY TimesFacts
<1>3. PICK m \in Int : t0 = Boot + a - m * ULong
    BY TimesFacts
<1>4. PICK k \in Int : t1 = Boot + b - k * ULong
    BY TimesFacts
<1>5. a <= b /\ b < ULong
    <2>1. /\ c = a * Clock!Tick + (c % Clock!Tick)
          /\ clock = b * Clock!Tick + (clock % Clock!Tick)
          /\ c % Clock!Tick \in 0 .. Clock!Tick - 1
          /\ clock % Clock!Tick \in 0 .. Clock!Tick - 1
        BY <1>1, Division
    <2> HIDE DEF a, b
    <2>2. ~ (b + 1 <= a)
        <3>1. (b + 1) * Clock!Tick = b * Clock!Tick + Clock!Tick /\ b * Clock!Tick \in Int
              /\ a * Clock!Tick \in Int
            BY <1>1, <1>2
        <3>2. b + 1 <= a => (b + 1) * Clock!Tick <= a * Clock!Tick
            BY <1>1, <1>2, ProductMonotonic
        <3> QED BY <1>1, <1>2, <2>1, <3>1, <3>2
    <2>3. ~ (ULong <= b)
        <3>1. ULong <= b => ULong * Clock!Tick <= b * Clock!Tick
            BY <1>1, <1>2, ProductMonotonic
        <3>2. b * Clock!Tick \in Int /\ ULong * Clock!Tick \in Int
            BY <1>1, <1>2
        <3> QED BY <1>1, <1>2, <2>1, <3>1, <3>2 DEF TicksComparable
    <2> QED BY <1>1, <1>2, <2>2, <2>3
<1>6. Clock!times = t1 /\ (UInt = ULong \/ t1 > t0)
    BY DEF Clock!times, TimesAt, Counts
<1>7. t1 - t0 = (b - a) - (k - m) * ULong
    <2> HIDE DEF a, b, t1
    <2>1. (k - m) * ULong = k * ULong - m * ULong /\ k * ULong \in Int /\ m * ULong \in Int
        BY <1>1, <1>3, <1>4
    <2> QED BY <1>1, <1>2, <1>3, <1>4, <2>1
<1> HIDE DEF a, b, t1
<1>8. (k - m) * ULong \in Int /\ k - m \in Int
    BY <1>1, <1>3, <1>4
<1>9. CASE t1 > t0
    <2>1. - ULong < (k - m) * ULong /\ (k - m) * ULong < ULong
        BY <1>1, <1>2, <1>5, <1>7, <1>8, <1>9
    <2>2. k - m = 0
        BY <1>1, <1>8, <2>1, SmallMultiple
    <2>3. t1 - t0 = b - a
        BY <1>1, <1>2, <1>7, <2>2
    <2> QED BY <1>6, <1>9, <2>3 DEF Clock!ClockDiff, a, b
<1>10. CASE ~ (t1 > t0)
    <2> DEFINE x == ULong - t0 + t1
               d == x \div ULong
    <2>0. UInt = ULong
        BY <1>6, <1>10
    <2>1. x \in Int /\ (UInt - 1) - t0 + t1 + 1 = x
        BY <1>1, <1>2, <2>0
    <2> HIDE DEF x
    <2>2. d \in Int /\ x % ULong \in 0 .. ULong - 1 /\ x = d * ULong + (x % ULong)
        BY <1>1, <2>1, Division
    <2> HIDE DEF d
    <2>3. (k - m + d - 1) * ULong = (k - m) * ULong + d * ULong - ULong /\ d * ULong \in Int
        <3>1. d - 1 \in Int /\ (d - 1) * ULong = d * ULong - ULong /\ d * ULong \in Int
            BY <1>1, <2>2
        <3>2. ((k - m) + (d - 1)) * ULong = (k - m) * ULong + (d - 1) * ULong
            BY <1>1, <1>8, <3>1, ProductOfSum
        <3>3. (k - m) + (d - 1) = k - m + d - 1
            BY <1>3, <1>4, <2>2
        <3> DEFINE p == (k - m) * ULong
                   q == d * ULong
                   r == (d - 1) * ULong
                   s == (k - m + d - 1) * ULong
        <3>4. s = ((k - m) + (d - 1)) * ULong
            BY <3>3
        <3>5. p \in Int /\ q \in Int /\ r = q - ULong /\ s = p + r
            BY <1>8, <3>1, <3>2, <3>4
        <3> HIDE DEF p, q, r, s
        <3>6. s = p + q - ULong /\ q \in Int
            BY <1>1, <3>5
        <3> QED BY <3>6 DEF p, q, s
    <2>4. (k - m + d - 1) * ULong = (b - a) - (x % ULong)
        <3> DEFINE p == (k - m) * ULong
                   q == d * ULong
                   r == x % ULong
                   s == (k - m + d - 1) * ULong
        <3>1. /\ p \in Int /\ q \in Int /\ r \in Int /\ s = p + q - ULong
              /\ t1 - t0 = (b - a) - p
            BY <1>1, <1>7, <1>8, <2>2, <2>3
        <3>2. ULong - t0 + t1 = q + r
            BY <2>2 DEF x
        <3>3. a \in Int /\ b \in Int /\ t0 \in Int /\ t1 \in Int /\ ULong \in Int
            BY <1>1, <1>2
        <3> HIDE DEF p, q, r, s
        <3>4. s = (b - a) - r
            BY <3>1, <3>2, <3>3
        <3> QED BY <3>4 DEF r, s
    <2>5. /\ k - m + d - 1 \in Int
          /\ - ULong < (k - m + d - 1) * ULong
          /\ (k - m + d - 1) * ULong < ULong
        BY <1>1, <1>2, <1>3, <1>4, <1>5, <2>2, <2>4
    <2>6. k - m + d - 1 = 0
        BY <1>1, <2>5, SmallMultiple
    <2>7. x % ULong = b - a
        BY <1>1, <1>2, <2>2, <2>4, <2>6
    <2>8. Clock!ClockDiff(t1) = ((UInt - 1) - t0 + t1 + 1) % ULong
        BY <1>10 DEF Clock!ClockDiff
    <2> QED BY <1>6, <2>1, <2>7, <2>8 DEF a, b
<1> QED BY <1>9, <1>10

-----------------------------------------------------------------------------
(* The comparison *)

\* A time with up to a whole second of microseconds, as ExpectedTime returns.
NearlyNormal == [sec : Int, usec : 0 .. Usec]

\* The expected time is as many ticks after the last comparison as have passed.
LEMMA ExpectedFacts ==
    ASSUME time0 \in NormalTime, NEW diff \in Nat
    PROVE  /\ Clock!ExpectedTime(diff) \in NearlyNormal
           /\ Instant(Clock!ExpectedTime(diff)) = Instant(time0) + diff * Clock!Tick
<1> DEFINE r == diff % Hz
           h == diff \div Hz
           u == r * Clock!Tick
           usec == time0.usec + u
<1>1. /\ Usec \in Nat \ {0} /\ Hz \in Nat \ {0} /\ Clock!Tick \in Nat \ {0}
      /\ Usec = Clock!Tick * Hz
    BY ClockConstants
<1>2. /\ time0.sec \in Int /\ time0.usec \in 0 .. Usec - 1
    BY DEF NormalTime
<1>3. h \in Int /\ r \in 0 .. Hz - 1 /\ diff = h * Hz + r
    BY <1>1, Division
<1> HIDE DEF r, h
<1>4. u \in Nat /\ u <= Usec - Clock!Tick
    <2>1. r * Clock!Tick <= (Hz - 1) * Clock!Tick /\ r * Clock!Tick \in Int
        BY <1>1, <1>3, ProductMonotonic
    <2>2. 0 * Clock!Tick <= r * Clock!Tick
        BY <1>1, <1>3, ProductMonotonic
    <2>3. (Hz - 1) * Clock!Tick = Usec - Clock!Tick
        BY <1>1
    <2> QED BY <1>1, <2>1, <2>2, <2>3
<1>5. (r * Usec) \div Hz = u
    <2>1. r * Usec = u * Hz
        BY <1>1, <1>3
    <2> QED BY <1>1, <1>4, <2>1, DivisionIsExact
<1> HIDE DEF u
<1>6. usec \in Nat /\ usec < 2 * Usec
    BY <1>1, <1>2, <1>4
<1>7. Clock!ExpectedTime(diff) =
          IF usec > Usec THEN [sec |-> time0.sec + h + 1, usec |-> usec - Usec]
                         ELSE [sec |-> time0.sec + h, usec |-> usec]
    BY <1>5 DEF Clock!ExpectedTime, r, h
<1>8. diff * Clock!Tick = h * Usec + u
    <2>1. (h * Hz + r) * Clock!Tick = (h * Hz) * Clock!Tick + r * Clock!Tick
        BY <1>1, <1>3, ProductOfSum
    <2>2. (h * Hz) * Clock!Tick = h * Usec
        BY <1>1, <1>3
    <2> QED BY <1>3, <2>1, <2>2 DEF u
<1>9. /\ (time0.sec + h) * Usec = time0.sec * Usec + h * Usec
      /\ (time0.sec + h + 1) * Usec = time0.sec * Usec + h * Usec + Usec
      /\ time0.sec * Usec \in Int /\ h * Usec \in Int
    <2>1. /\ (time0.sec + h) * Usec = time0.sec * Usec + h * Usec
          /\ time0.sec * Usec \in Int /\ h * Usec \in Int
          /\ (time0.sec + h) * Usec \in Int
        BY <1>1, <1>2, <1>3, ProductOfSum
    <2> DEFINE x == time0.sec + h
    <2>2. x \in Int
        BY <1>1, <1>2, <1>3
    <2> HIDE DEF x
    <2>3. (x + 1) * Usec = x * Usec + Usec
        BY <1>1, <2>2
    <2> QED BY <1>1, <2>1, <2>3 DEF x
<1>10. CASE usec > Usec
    <2>1. Clock!ExpectedTime(diff) = [sec |-> time0.sec + h + 1, usec |-> usec - Usec]
        BY <1>7, <1>10
    <2>2. Clock!ExpectedTime(diff) \in NearlyNormal
        BY <1>1, <1>2, <1>3, <1>6, <1>10, <2>1 DEF NearlyNormal
    <2>3. Instant(Clock!ExpectedTime(diff)) = (time0.sec + h + 1) * Usec + (usec - Usec)
        BY <2>1 DEF Instant
    <2>4. Instant(time0) = time0.sec * Usec + time0.usec
        BY DEF Instant
    <2> DEFINE x == time0.sec * Usec
               y == h * Usec
               z == (time0.sec + h + 1) * Usec
    <2>5. x \in Int /\ y \in Int /\ z = x + y + Usec
        BY <1>9
    <2>6. Instant(Clock!ExpectedTime(diff)) = z + (usec - Usec) /\ Instant(time0) = x + time0.usec
        BY <2>3, <2>4
    <2> HIDE DEF x, y, z
    <2>7. Instant(Clock!ExpectedTime(diff)) = Instant(time0) + (y + u)
        BY UsecAssumption, <1>2, <1>4, <2>5, <2>6
    <2>8. Instant(Clock!ExpectedTime(diff)) = Instant(time0) + (h * Usec + u)
        BY <2>7 DEF y
    <2> QED BY <1>8, <2>2, <2>8
<1>11. CASE ~ (usec > Usec)
    <2>1. Clock!ExpectedTime(diff) = [sec |-> time0.sec + h, usec |-> usec]
        BY <1>7, <1>11
    <2>2. Clock!ExpectedTime(diff) \in NearlyNormal
        BY <1>1, <1>2, <1>3, <1>6, <1>11, <2>1 DEF NearlyNormal
    <2>3. Instant(Clock!ExpectedTime(diff)) = (time0.sec + h) * Usec + usec
        BY <2>1 DEF Instant
    <2>4. Instant(time0) = time0.sec * Usec + time0.usec
        BY DEF Instant
    <2> QED BY <1>1, <1>2, <1>4, <1>8, <1>9, <2>2, <2>3, <2>4
<1> QED BY <1>10, <1>11

\* The distance between the two times the comparison takes, and the timeouts
\* moved by it.
Apartness(new, cur) == IF Before(cur, new) THEN Sub(new, cur) ELSE Sub(cur, new)
MovedTime(t, new, cur) == IF Before(cur, new) THEN Add(t, Sub(new, cur))
                                              ELSE Sub(t, Sub(cur, new))

\* The distance is not negative.
LEMMA ApartnessFacts ==
    ASSUME NEW new \in NormalTime, NEW cur \in NearlyNormal
    PROVE  /\ Instant(new) \in Int /\ Instant(cur) \in Int
           /\ Apartness(new, cur) \in [sec : Nat, usec : 0 .. Usec]
           /\ Before(cur, new) => Instant(Sub(new, cur)) = Instant(new) - Instant(cur)
           /\ ~ Before(cur, new) => Instant(Sub(cur, new)) = Instant(cur) - Instant(new)
           /\ Before(cur, new) => Sub(new, cur).usec < Usec
<1>1. /\ Usec \in Nat \ {0}
      /\ new.sec \in Int /\ new.usec \in 0 .. Usec - 1
      /\ cur.sec \in Int /\ cur.usec \in 0 .. Usec
    BY UsecAssumption DEF NormalTime, NearlyNormal
<1>2. /\ new.sec * Usec \in Int /\ cur.sec * Usec \in Int
      /\ Instant(new) \in Int /\ Instant(cur) \in Int
    BY <1>1 DEF Instant
<1>3. CASE Before(cur, new)
    <2> DEFINE d == Sub(new, cur)
    <2>1. /\ d.sec = new.sec - cur.sec - (IF new.usec < cur.usec THEN 1 ELSE 0)
          /\ d.usec = new.usec - cur.usec + (IF new.usec < cur.usec THEN Usec ELSE 0)
          /\ d = [sec |-> d.sec, usec |-> d.usec]
        BY <1>1 DEF Sub
    <2>2. d.sec \in Nat /\ d.usec \in 0 .. Usec /\ d.usec < Usec
        BY <1>1, <1>3, <2>1 DEF Before
    <2>3. Instant(d) = Instant(new) - Instant(cur)
        <3>1. d.sec * Usec = new.sec * Usec - cur.sec * Usec - (IF new.usec < cur.usec THEN Usec ELSE 0)
            BY <1>1, <2>1
        <3> QED BY <1>1, <1>2, <2>1, <3>1 DEF Instant
    <2>4. Apartness(new, cur) = d
        BY <1>3 DEF Apartness
    <2> HIDE DEF d
    <2>5. Apartness(new, cur) \in [sec : Nat, usec : 0 .. Usec]
        BY <2>1, <2>2, <2>4
    <2> QED BY <1>2, <1>3, <2>2, <2>3, <2>5 DEF d
<1>4. CASE ~ Before(cur, new)
    <2> DEFINE d == Sub(cur, new)
    <2>1. /\ d.sec = cur.sec - new.sec - (IF cur.usec < new.usec THEN 1 ELSE 0)
          /\ d.usec = cur.usec - new.usec + (IF cur.usec < new.usec THEN Usec ELSE 0)
          /\ d = [sec |-> d.sec, usec |-> d.usec]
        BY <1>1 DEF Sub
    <2>2. d.sec \in Nat /\ d.usec \in 0 .. Usec
        BY <1>1, <1>4, <2>1 DEF Before
    <2>3. Instant(d) = Instant(cur) - Instant(new)
        <3>1. d.sec * Usec = cur.sec * Usec - new.sec * Usec - (IF cur.usec < new.usec THEN Usec ELSE 0)
            BY <1>1, <2>1
        <3> QED BY <1>1, <1>2, <2>1, <3>1 DEF Instant
    <2>4. Apartness(new, cur) = d
        BY <1>4 DEF Apartness
    <2> HIDE DEF d
    <2>5. Apartness(new, cur) \in [sec : Nat, usec : 0 .. Usec]
        BY <2>1, <2>2, <2>4
    <2> QED BY <1>2, <1>4, <2>2, <2>3, <2>5 DEF d
<1> QED BY <1>3, <1>4

\* AddTime and SubTime carry and borrow once, which is enough for what is added to
\* and taken from the times of the list.
LEMMA AddFacts ==
    ASSUME NEW t \in NormalTime, NEW d \in [sec : Nat, usec : 0 .. Usec], d.usec < Usec
    PROVE  /\ Add(t, d) \in NormalTime
           /\ Instant(Add(t, d)) = Instant(t) + Instant(d)
<1> DEFINE m == Add(t, d)
<1>1. /\ Usec \in Nat \ {0}
      /\ d.sec \in Nat /\ d.usec \in 0 .. Usec
      /\ t.sec \in Int /\ t.usec \in 0 .. Usec - 1
    BY UsecAssumption DEF NormalTime
<1>2. /\ m.sec = t.sec + d.sec + (IF t.usec + d.usec >= Usec THEN 1 ELSE 0)
      /\ m.usec = t.usec + d.usec - (IF t.usec + d.usec >= Usec THEN Usec ELSE 0)
      /\ m = [sec |-> m.sec, usec |-> m.usec]
    BY <1>1 DEF Add
<1>3. t.sec * Usec \in Int /\ d.sec * Usec \in Int
    BY <1>1
<1> HIDE DEF m
<1>4. m.sec * Usec = t.sec * Usec + d.sec * Usec + (IF t.usec + d.usec >= Usec THEN Usec ELSE 0)
    BY <1>1, <1>2
<1>5. m \in NormalTime
    BY <1>1, <1>2 DEF NormalTime
<1>6. Instant(m) = Instant(t) + Instant(d)
    BY <1>1, <1>2, <1>3, <1>4 DEF Instant
<1> QED BY <1>5, <1>6 DEF m

LEMMA SubFacts ==
    ASSUME NEW t \in NormalTime, NEW d \in [sec : Nat, usec : 0 .. Usec]
    PROVE  /\ Sub(t, d) \in NormalTime
           /\ Instant(Sub(t, d)) = Instant(t) - Instant(d)
<1> DEFINE m == Sub(t, d)
<1>1. /\ Usec \in Nat \ {0}
      /\ d.sec \in Nat /\ d.usec \in 0 .. Usec
      /\ t.sec \in Int /\ t.usec \in 0 .. Usec - 1
    BY UsecAssumption DEF NormalTime
<1>2. /\ m.sec = t.sec - d.sec - (IF t.usec < d.usec THEN 1 ELSE 0)
      /\ m.usec = t.usec - d.usec + (IF t.usec < d.usec THEN Usec ELSE 0)
      /\ m = [sec |-> m.sec, usec |-> m.usec]
    BY <1>1 DEF Sub
<1>3. t.sec * Usec \in Int /\ d.sec * Usec \in Int
    BY <1>1
<1> HIDE DEF m
<1>4. m.sec * Usec = t.sec * Usec - d.sec * Usec - (IF t.usec < d.usec THEN Usec ELSE 0)
    BY <1>1, <1>2
<1>5. m \in NormalTime
    BY <1>1, <1>2 DEF NormalTime
<1>6. Instant(m) = Instant(t) - Instant(d)
    BY <1>1, <1>2, <1>3, <1>4 DEF Instant
<1> QED BY <1>5, <1>6 DEF m

\* A timeout is moved by the distance of the two times.
LEMMA MovedFacts ==
    ASSUME NEW new \in NormalTime, NEW cur \in NearlyNormal, NEW t \in NormalTime
    PROVE  /\ MovedTime(t, new, cur) \in NormalTime
           /\ Instant(MovedTime(t, new, cur)) = Instant(t) + (Instant(new) - Instant(cur))
<1>1. Instant(t) \in Int
    BY UsecAssumption DEF NormalTime, Instant
<1>2. CASE Before(cur, new)
    <2>1. Sub(new, cur) \in [sec : Nat, usec : 0 .. Usec] /\ Sub(new, cur).usec < Usec
        BY <1>2, ApartnessFacts DEF Apartness
    <2>2. Instant(Sub(new, cur)) = Instant(new) - Instant(cur)
        BY <1>2, ApartnessFacts
    <2> QED BY <1>2, <2>1, <2>2, AddFacts DEF MovedTime
<1>3. CASE ~ Before(cur, new)
    <2>1. Sub(cur, new) \in [sec : Nat, usec : 0 .. Usec]
        BY <1>3, ApartnessFacts DEF Apartness
    <2>2. Instant(Sub(cur, new)) = Instant(cur) - Instant(new)
        BY <1>3, ApartnessFacts
    <2>3. Instant(new) \in Int /\ Instant(cur) \in Int
        BY ApartnessFacts
    <2>4. /\ Sub(t, Sub(cur, new)) \in NormalTime
          /\ Instant(Sub(t, Sub(cur, new))) = Instant(t) - (Instant(cur) - Instant(new))
        BY <2>1, <2>2, SubFacts
    <2>5. MovedTime(t, new, cur) = Sub(t, Sub(cur, new))
        BY <1>3 DEF MovedTime
    <2> QED BY <1>1, <2>3, <2>4, <2>5
<1> QED BY <1>2, <1>3

\* What is ignored is a distance of no more than Slack.
LEMMA IgnoredFacts ==
    ASSUME NEW d \in [sec : Nat, usec : 0 .. Usec]
    PROVE  Instant(d) \in Nat /\ (Clock!Ignored(d) <=> Instant(d) <= Slack)
<1>1. Usec \in Nat \ {0} /\ Slack \in Nat /\ Slack < Usec
    BY ClockConstants
<1>0. d.sec \in Nat /\ d.usec \in 0 .. Usec
    OBVIOUS
<1>2. CASE d.sec = 0
    BY <1>0, <1>1, <1>2 DEF Clock!Ignored, Instant
<1>3. CASE d.sec >= 1
    <2>1. 1 * Usec <= d.sec * Usec /\ d.sec * Usec \in Int
        BY <1>0, <1>1, <1>3, ProductMonotonic
    <2> QED BY <1>0, <1>1, <1>3, <2>1 DEF Clock!Ignored, Instant
<1> QED BY <1>0, <1>2, <1>3

\* The list is on one side of the second that ends prehistory.
OneEra == Clock!OneEra(queue)

\* What the walk does with the list: it moves all of it, or leaves it.
LEMMA ShiftFacts ==
    ASSUME OneEra, queue \in Seq(ClockEntry),
           NEW new \in NormalTime, NEW cur \in NearlyNormal
    PROVE  LET r == Clock!Shift(queue, new, cur)
               d == Instant(new) - Instant(cur)
               m == IF - Slack <= d /\ d <= Slack THEN 0 ELSE d
           IN  /\ r \in Seq(ClockEntry)
               /\ Len(r) = Len(queue)
               /\ \A k \in 1 .. Len(queue) :
                      /\ Instant(r[k].time) = Instant(queue[k].time) + m
                      /\ Aim(r[k]) = Aim(queue[k])
<1> DEFINE r == Clock!Shift(queue, new, cur)
           d == Instant(new) - Instant(cur)
           m == IF - Slack <= d /\ d <= Slack THEN 0 ELSE d
           still == new = cur \/ Clock!Ignored(Apartness(new, cur))
           n == Len(queue)
<1>1. n \in Nat /\ \A k \in 1 .. n : queue[k] \in ClockEntry
    BY LenProperties, ElementOfSeq
<1>2. r = IF still THEN queue
          ELSE [k \in 1 .. n |-> IF Clock!Moves(queue, k)
                                 THEN [queue[k] EXCEPT !.time = MovedTime(@, new, cur)]
                                 ELSE queue[k]]
    BY SameOperators DEF Clock!Shift, Apartness, MovedTime
<1>3. /\ Instant(new) \in Int /\ Instant(cur) \in Int /\ Slack \in Nat
      /\ \A t \in NormalTime : Instant(t) \in Int
    BY ClockConstants, ApartnessFacts, InstantFacts
<1>4. still <=> - Slack <= d /\ d <= Slack
    <2> DEFINE a == Apartness(new, cur)
    <2>1. a \in [sec : Nat, usec : 0 .. Usec]
        BY ApartnessFacts
    <2>2. Instant(a) \in Nat /\ (Clock!Ignored(a) <=> Instant(a) <= Slack)
        BY <2>1, IgnoredFacts
    <2>3. Instant(a) = d \/ Instant(a) = - d
        BY <1>3, ApartnessFacts DEF Apartness
    <2> HIDE DEF a
    <2>4. new = cur => d = 0
        BY <1>3
    <2>5. still <=> new = cur \/ Clock!Ignored(a)
        BY DEF a
    <2> HIDE DEF still, d
    <2>6. d \in Int
        BY <1>3 DEF d
    <2> DEFINE i == Instant(a)
    <2>7. i \in Nat /\ (i = d \/ i = - d) /\ Slack \in Nat
        BY <1>3, <2>2, <2>3
    <2> HIDE DEF i
    <2>8. (i <= Slack <=> - Slack <= d /\ d <= Slack) /\ (d = 0 => i <= Slack)
        BY <2>6, <2>7
    <2>9. still <=> new = cur \/ i <= Slack
        BY <2>2, <2>5 DEF i
    <2> QED BY <2>4, <2>8, <2>9
<1> HIDE DEF r, still
<1>5. CASE still
    <2>1. m = 0
        BY <1>4, <1>5
    <2>2. r = queue
        BY <1>2, <1>5
    <2>3. \A k \in 1 .. n : Instant(queue[k].time) \in Int
        BY <1>1, <1>3 DEF ClockEntry
    <2> HIDE DEF m
    <2>4. \A k \in 1 .. n : Instant(queue[k].time) = Instant(queue[k].time) + m
        BY <2>1, <2>3
    <2> QED BY <2>2, <2>4 DEF r, m
<1>6. CASE ~ still
    <2>1. m = d
        BY <1>4, <1>6
    <2>2. ASSUME NEW k \in 1 .. n PROVE Clock!Moves(queue, k)
        <3>1. ASSUME NEW j \in 1 .. n PROVE queue[j].time.sec \in Int
            <4>1. queue[j] \in ClockEntry
                BY <1>1
            <4> QED BY <4>1 DEF ClockEntry, NormalTime
        <3>2. CASE queue[k].time.sec <= Era
            BY <3>2 DEF Clock!Moves
        <3>3. CASE ~ (queue[k].time.sec <= Era)
            <4>1. \A j \in 1 .. n : ~ (queue[j].time.sec <= Era)
                BY <3>3 DEF OneEra, Clock!OneEra
            <4>2. Era \in Nat
                BY ClockConstants
            <4> HIDE DEF n
            <4>3. ASSUME NEW j \in 1 .. k PROVE queue[j].time.sec > Era
                <5>1. j \in 1 .. n
                    BY <1>1
                <5> DEFINE secs == queue[j].time.sec
                <5>2. secs \in Int /\ ~ (secs <= Era)
                    BY <3>1, <4>1, <5>1
                <5> HIDE DEF secs
                <5>3. secs > Era
                    BY <4>2, <5>2
                <5> QED BY <5>3 DEF secs
            <4> QED BY <4>3 DEF Clock!Moves
        <3> QED BY <3>2, <3>3
    <2> DEFINE moved(k) == [queue[k] EXCEPT !.time = MovedTime(@, new, cur)]
    <2>3. r = [k \in 1 .. n |-> moved(k)]
        BY <1>2, <1>6, <2>2
    <2>4. ASSUME NEW k \in 1 .. n
          PROVE  /\ moved(k) \in ClockEntry
                 /\ moved(k).time = MovedTime(queue[k].time, new, cur)
                 /\ Aim(moved(k)) = Aim(queue[k])
                 /\ Instant(MovedTime(queue[k].time, new, cur)) = Instant(queue[k].time) + d
        <3>1. queue[k] \in ClockEntry /\ queue[k].time \in NormalTime
            BY <1>1 DEF ClockEntry
        <3>2. /\ MovedTime(queue[k].time, new, cur) \in NormalTime
              /\ Instant(MovedTime(queue[k].time, new, cur)) = Instant(queue[k].time) + d
            BY <3>1, MovedFacts
        <3> QED BY <3>1, <3>2 DEF ClockEntry, Aim
    <2> HIDE DEF moved
    <2>5. r \in Seq(ClockEntry) /\ Len(r) = n /\ \A k \in 1 .. n : r[k] = moved(k)
        BY <1>1, <2>3, <2>4
    <2>6. \A k \in 1 .. n : Instant(r[k].time) = Instant(queue[k].time) + d /\ Aim(r[k]) = Aim(queue[k])
        BY <2>4, <2>5
    <2> HIDE DEF m, d, n
    <2>7. \A k \in 1 .. n : Instant(r[k].time) = Instant(queue[k].time) + m /\ Aim(r[k]) = Aim(queue[k])
        BY <2>1, <2>6
    <2> QED BY <2>5, <2>7 DEF r, m, d, n
<1> QED BY <1>5, <1>6

-----------------------------------------------------------------------------
(* The list stays sorted *)

QueueInOrder ==
    \A j, k \in 1 .. Len(queue) : j < k => Instant(queue[j].time) <= Instant(queue[k].time)

OrderInv == Clock!Types /\ QueueInOrder

LEMMA ClockEntryFacts ==
    ASSUME NEW q \in Seq(ClockEntry)
    PROVE  /\ Len(q) \in Nat
           /\ \A k \in 1 .. Len(q) : /\ q[k] \in ClockEntry
                                     /\ q[k].time \in NormalTime
                                     /\ Instant(q[k].time) \in Int
                                     /\ Aim(q[k]) \in Int
<1>1. Len(q) \in Nat /\ \A k \in 1 .. Len(q) : q[k] \in ClockEntry
    BY LenProperties, ElementOfSeq
<1>2. \A k \in 1 .. Len(q) : q[k].time \in NormalTime /\ Aim(q[k]) \in Int
    BY <1>1, AimFacts DEF ClockEntry
<1> QED BY <1>1, <1>2, InstantFacts

\* What the types of EloopTimeChange say here.
LEMMA ClockTypes ==
    Clock!Types <=> /\ clock \in 0 .. Latest
                     /\ offset \in Int
                     /\ noticed \in Int
                     /\ queue \in Seq(ClockEntry)
                     /\ t0 \in Int
                     /\ time0 \in NormalTime
                     /\ wake \in Int
                     /\ place \in Clock!Places
                     /\ steps \in 0 .. MaxSteps
BY SameOperators DEF Clock!Types, ClockEntry

\* The list after a comparison, and by how much it was moved.
Moved(m) == /\ queue' \in Seq(ClockEntry)
            /\ Len(queue') = Len(queue)
            /\ \A k \in 1 .. Len(queue) :
                   /\ Instant(queue'[k].time) = Instant(queue[k].time) + m
                   /\ Aim(queue'[k]) = Aim(queue[k])

Difference == Instant(Clock!WallClock) - Instant(Clock!ExpectedTime(Clock!ClockDiff(Clock!times)))

MovedBy == IF - Slack <= Difference /\ Difference <= Slack THEN 0 ELSE Difference

\* A comparison moves the whole list.
LEMMA ComparisonMoves ==
    ASSUME OneEra, Clock!Types, queue' = Clock!Compared
    PROVE  Moved(MovedBy) /\ Difference \in Int
<1> DEFINE diff == Clock!ClockDiff(Clock!times)
           new == Clock!WallClock
           cur == Clock!ExpectedTime(diff)
<1>1. /\ clock \in Nat /\ offset \in Int /\ queue \in Seq(ClockEntry)
      /\ t0 \in Int /\ time0 \in NormalTime /\ Start \in Nat
      /\ UInt \in Nat \ {0} /\ ULong \in Nat \ {0}
    BY ClockTypes, ClockConstants
<1>2. Clock!times = TimesAt(clock) /\ Clock!times \in Int
    BY <1>1, TimesFacts DEF Clock!times, TimesAt
<1>3. diff \in Nat
    <2>1. CASE Clock!times > t0
        BY <1>1, <1>2, <2>1 DEF Clock!ClockDiff
    <2>2. CASE ~ (Clock!times > t0)
        <3> DEFINE x == (UInt - 1) - t0 + Clock!times + 1
        <3>1. x \in Int
            BY <1>1, <1>2
        <3>2. diff = x % ULong
            BY <2>2 DEF Clock!ClockDiff
        <3> HIDE DEF x, diff
        <3>3. x % ULong \in 0 .. ULong - 1
            BY <1>1, <3>1, Division
        <3> QED BY <1>1, <3>2, <3>3
    <2> QED BY <2>1, <2>2
<1> HIDE DEF diff
<1>4. new \in NormalTime /\ Instant(new) = Start + clock + offset
    BY <1>1, WallFacts
<1>5. cur \in NearlyNormal
    BY <1>1, <1>3, ExpectedFacts
<1>6. queue' = Clock!Shift(queue, new, cur)
    BY DEF Clock!Compared, diff
<1>7. Difference = Instant(new) - Instant(cur)
    BY DEF Difference, diff
<1> HIDE DEF new, cur
<1>8. Difference \in Int
    BY <1>4, <1>5, <1>7, ApartnessFacts
<1>9. Moved(MovedBy)
    BY <1>1, <1>4, <1>5, <1>6, <1>7, ShiftFacts DEF Moved, MovedBy
<1> QED BY <1>8, <1>9

\* And it reads the clocks for the next.
LEMMA ComparisonReads ==
    ASSUME Clock!Types, Clock!eloop_timeChangeAuto
    PROVE  /\ queue' = Clock!Compared
           /\ t0' = TimesAt(clock) /\ t0' \in Int
           /\ time0' \in NormalTime /\ Instant(time0') = Start + clock + offset
           /\ noticed' = offset
<1>1. clock \in Nat /\ offset \in Int /\ Start \in Nat
    BY ClockTypes, ClockConstants
<1>2. /\ queue' = Clock!Compared /\ t0' = Clock!times /\ time0' = Clock!WallClock
      /\ noticed' = offset
    BY DEF Clock!eloop_timeChangeAuto
<1>3. Clock!times = TimesAt(clock) /\ Clock!times \in Int
    BY <1>1, TimesFacts DEF Clock!times, TimesAt
<1>4. Clock!WallClock \in NormalTime /\ Instant(Clock!WallClock) = Start + clock + offset
    BY <1>1, WallFacts
<1> QED BY <1>2, <1>3, <1>4

\* The change of the clock that the times of the list are for.
Known == IF place = "out" THEN offset ELSE noticed

\* A registration links an entry whose time is the true time it aims at plus the
\* known change of the clock.
LEMMA RegistrationLinks ==
    ASSUME Clock!Types, NEW delay \in Given,
           Clock!eloop_register_timeout(delay[1], delay[2])
    PROVE  \E e \in ClockEntry : \E p \in 1 .. Len(queue) + 1 :
               /\ Instant(e.time) = Start + Aim(e) + Known
               /\ queue' \in Seq(ClockEntry)
               /\ Len(queue') = Len(queue) + 1
               /\ \A i \in 1 .. Len(queue) + 1 :
                      queue'[i] = IF i < p THEN queue[i] ELSE IF i = p THEN e ELSE queue[i - 1]
               /\ \A i \in 1 .. Len(queue) : i < p => ~ Before(e.time, queue[i].time)
               /\ p <= Len(queue) => Before(e.time, queue[p].time)
<1> DEFINE t == After(Clock!WallClock, delay[1], delay[2])
           x == clock + delay[1] * Usec + delay[2]
           u == IF place = "out" THEN 0 ELSE Clock!Unnoticed
           e == [time |-> t, due |-> x, missed |-> u]
           p == InsertPos(queue, e.time)
<1>1. /\ clock \in Nat /\ offset \in Int /\ queue \in Seq(ClockEntry)
      /\ Start \in Nat /\ Latest \in Nat /\ Usec \in Nat
      /\ delay[1] \in Nat /\ delay[2] \in Nat
    <2>1. /\ Start \in Nat /\ Latest \in Nat /\ Usec \in Nat /\ Given \subseteq Nat \X Nat
        BY ClockConstants
    <2>2. clock \in 0 .. Latest /\ offset \in Int /\ queue \in Seq(ClockEntry)
        BY ClockTypes
    <2>3. delay[1] \in Nat /\ delay[2] \in Nat
        BY <2>1
    <2> QED BY <2>1, <2>2, <2>3
<1>2. Clock!WallClock \in NormalTime /\ Instant(Clock!WallClock) = Start + clock + offset
    BY <1>1, WallFacts
<1>3. t \in NormalTime
    BY <1>1, <1>2, AfterIsNormal
<1>4. Instant(t) = Start + clock + offset + delay[1] * Usec + delay[2]
    <2> DEFINE w == Clock!WallClock
    <2>1. w \in NormalTime /\ Instant(w) = Start + clock + offset
        BY <1>2
    <2>2. t = After(w, delay[1], delay[2])
        OBVIOUS
    <2> HIDE DEF w, t
    <2> DEFINE secs == delay[1]
               usecs == delay[2]
    <2>3. t = After(w, secs, usecs) /\ secs \in Nat /\ usecs \in Nat
        BY <1>1, <2>2
    <2> HIDE DEF secs, usecs
    <2>4. Instant(w) + secs * Usec + usecs = Instant(t)
        BY <2>1, <2>3, StartInstant
    <2> QED BY <2>1, <2>4 DEF secs, usecs
<1>5. delay[1] * Usec \in Nat
    BY <1>1
<1>6. x \in 0 .. Latest
    <2>1. clock + delay[1] * Usec + delay[2] <= Latest
        BY DEF Clock!eloop_register_timeout
    <2> DEFINE y == delay[1] * Usec
    <2>2. /\ y \in Nat /\ clock + y + delay[2] <= Latest /\ x = clock + y + delay[2]
          /\ clock \in Nat /\ delay[2] \in Nat /\ Latest \in Nat
        BY <1>1, <1>5, <2>1
    <2> DEFINE z == delay[2]
    <2>3. z \in Nat /\ clock + y + z <= Latest /\ x = clock + y + z
        BY <2>2
    <2> HIDE DEF y, x, z, t, e, p
    <2> QED BY <2>2, <2>3
<1>7. Instant(t) = Start + x + offset
    <2> DEFINE y == delay[1] * Usec
               i == Instant(t)
    <2>1. y \in Nat /\ i = Start + clock + offset + y + delay[2] /\ x = clock + y + delay[2]
        BY <1>4, <1>5
    <2>2. clock \in Int /\ offset \in Int /\ Start \in Int /\ delay[2] \in Int
        BY <1>1
    <2> HIDE DEF y, x, t, e, p, i
    <2>3. i = Start + x + offset
        BY <2>1, <2>2
    <2> QED BY <2>3 DEF i
<1>8. queue' = Insert(queue, e)
    BY SameOperators DEF Clock!eloop_register_timeout
<1>12. u \in Int /\ offset = u + Known
    BY <1>1, ClockTypes DEF Clock!Unnoticed, Known
<1> HIDE DEF t, x, u
<1>9. e \in ClockEntry /\ Instant(e.time) = Start + Aim(e) + Known
    <2>1. e \in ClockEntry
        BY <1>3, <1>6, <1>12 DEF ClockEntry
    <2>2. Aim(e) = x + u /\ e.time = t
        BY DEF Aim
    <2>3. Known \in Int
        BY ClockTypes DEF Known
    <2> HIDE DEF e
    <2>4. Start + x + offset = Start + (x + u) + Known
        BY <1>1, <1>6, <1>12, <2>3
    <2> QED BY <1>7, <2>1, <2>2, <2>4
<1> HIDE DEF e
<1>10. /\ Insert(queue, e) \in Seq(ClockEntry)
       /\ Len(Insert(queue, e)) = Len(queue) + 1
       /\ \A i \in 1 .. Len(queue) + 1 :
              Insert(queue, e)[i] = IF i < p THEN queue[i] ELSE IF i = p THEN e ELSE queue[i - 1]
    BY <1>1, <1>9, InsertFacts
<1>11. /\ p \in 1 .. Len(queue) + 1
       /\ \A i \in 1 .. Len(queue) : i < p => ~ Before(e.time, queue[i].time)
       /\ p <= Len(queue) => Before(e.time, queue[p].time)
    BY <1>1, InsertPosFacts
<1> HIDE DEF p
<1> QED BY <1>8, <1>9, <1>10, <1>11

LEMMA ClockTypesInit == Clock!Init => OrderInv
<1> SUFFICES ASSUME Clock!Init PROVE OrderInv
    OBVIOUS
<1>1. /\ Latest \in Nat /\ MaxSteps \in Nat /\ Usec \in Nat \ {0}
    BY ClockConstants
<1>2. queue = <<>> /\ Len(queue) = 0 /\ queue \in Seq(ClockEntry)
    BY DEF Clock!Init
<1>3. time0 \in NormalTime
    BY <1>1 DEF Clock!Init, NormalTime
<1>4. Clock!Types
    BY <1>1, <1>2, <1>3, ClockTypes DEF Clock!Init, Clock!Places
<1> QED BY <1>2, <1>4 DEF OrderInv, QueueInOrder

\* The places before and behind the one an entry is linked at.
LEMMA PlacesAround ==
    ASSUME NEW n \in Nat, NEW p \in 1 .. n + 1, NEW i \in 1 .. n + 1
    PROVE  /\ i < p => i \in 1 .. n
           /\ i = p => ~ (i < p)
           /\ i > p => i - 1 \in 1 .. n /\ p <= i - 1 /\ ~ (i < p) /\ i # p
           /\ i < p \/ i = p \/ i > p
OBVIOUS

\* Types and order after a registration.
LEMMA OrderRegister ==
    ASSUME OrderInv, NEW delay \in Given,
           Clock!eloop_register_timeout(delay[1], delay[2])
    PROVE  queue' \in Seq(ClockEntry) /\ QueueInOrder'
<1> DEFINE n == Len(queue)
<1>1. PICK e \in ClockEntry, p \in 1 .. n + 1 :
          /\ Instant(e.time) = Start + Aim(e) + Known
          /\ queue' \in Seq(ClockEntry)
          /\ Len(queue') = n + 1
          /\ \A i \in 1 .. n + 1 :
                 queue'[i] = IF i < p THEN queue[i] ELSE IF i = p THEN e ELSE queue[i - 1]
          /\ \A i \in 1 .. n : i < p => ~ Before(e.time, queue[i].time)
          /\ p <= n => Before(e.time, queue[p].time)
    BY RegistrationLinks DEF OrderInv
<1>2. /\ n \in Nat
      /\ \A k \in 1 .. n : queue[k].time \in NormalTime /\ Instant(queue[k].time) \in Int
    <2>1. queue \in Seq(ClockEntry)
        BY ClockTypes DEF OrderInv
    <2> QED BY <2>1, ClockEntryFacts
<1>3. e.time \in NormalTime /\ Instant(e.time) \in Int
    BY InstantFacts DEF ClockEntry
<1>4. \A i \in 1 .. n : Before(e.time, queue[i].time) <=> Instant(e.time) < Instant(queue[i].time)
    BY <1>2, <1>3, BeforeInstant
<1>5. \A i \in 1 .. n : i < p => Instant(queue[i].time) <= Instant(e.time)
    <2> SUFFICES ASSUME NEW i \in 1 .. n, i < p
                 PROVE  Instant(queue[i].time) <= Instant(e.time)
        OBVIOUS
    <2>1. ~ Before(e.time, queue[i].time)
        BY <1>1
    <2>2. ~ (Instant(e.time) < Instant(queue[i].time))
        BY <1>4, <2>1
    <2> DEFINE a == Instant(e.time)
               b == Instant(queue[i].time)
    <2>3. a \in Int /\ b \in Int /\ ~ (a < b)
        BY <1>2, <1>3, <2>2
    <2> HIDE DEF a, b
    <2>4. b <= a
        BY <2>3
    <2> QED BY <2>4 DEF a, b
<1>6. \A i \in 1 .. n : p <= i => Instant(e.time) <= Instant(queue[i].time)
    <2> SUFFICES ASSUME NEW i \in 1 .. n, p <= i
                 PROVE  Instant(e.time) <= Instant(queue[i].time)
        OBVIOUS
    <2>1. p \in 1 .. n /\ Instant(e.time) < Instant(queue[p].time)
        <3>1. p \in 1 .. n
            BY <1>2
        <3> QED BY <1>1, <1>4, <3>1
    <2>2. Instant(queue[p].time) <= Instant(queue[i].time)
        <3>1. CASE p = i
            BY <1>2, <3>1
        <3>2. CASE p < i
            BY <2>1, <3>2 DEF OrderInv, QueueInOrder
        <3> QED BY <2>1, <3>1, <3>2
    <2> DEFINE a == Instant(e.time)
               b == Instant(queue[p].time)
               c == Instant(queue[i].time)
    <2>3. a \in Int /\ b \in Int /\ c \in Int /\ a < b /\ b <= c
        BY <1>2, <1>3, <2>1, <2>2
    <2> HIDE DEF a, b, c
    <2>4. a <= c
        BY <2>3
    <2> QED BY <2>4 DEF a, c
<1>7. \A i \in 1 .. n + 1 :
          /\ i < p => i \in 1 .. n /\ queue'[i] = queue[i]
          /\ i = p => queue'[i] = e
          /\ i > p => i - 1 \in 1 .. n /\ p <= i - 1 /\ queue'[i] = queue[i - 1]
    <2> SUFFICES ASSUME NEW i \in 1 .. n + 1
                 PROVE  /\ i < p => i \in 1 .. n /\ queue'[i] = queue[i]
                        /\ i = p => queue'[i] = e
                        /\ i > p => i - 1 \in 1 .. n /\ p <= i - 1 /\ queue'[i] = queue[i - 1]
        OBVIOUS
    <2>1. queue'[i] = IF i < p THEN queue[i] ELSE IF i = p THEN e ELSE queue[i - 1]
        BY <1>1
    <2> HIDE DEF n
    <2>2. /\ i < p => i \in 1 .. n
          /\ i = p => ~ (i < p)
          /\ i > p => i - 1 \in 1 .. n /\ p <= i - 1 /\ ~ (i < p) /\ i # p
        BY <1>2, PlacesAround
    <2> QED BY <2>1, <2>2
<1>8. ASSUME NEW j \in 1 .. n + 1, NEW k \in 1 .. n + 1, j < k
      PROVE  Instant(queue'[j].time) <= Instant(queue'[k].time)
    <2>1. CASE k < p
        <3>1. j < p
            BY <1>2, <1>8, <2>1
        <3>2. j \in 1 .. n /\ k \in 1 .. n /\ queue'[j] = queue[j] /\ queue'[k] = queue[k]
            BY <1>7, <2>1, <3>1
        <3> QED BY <1>8, <3>2 DEF OrderInv, QueueInOrder
    <2>2. CASE k = p
        <3>1. j \in 1 .. n /\ queue'[j] = queue[j] /\ queue'[k] = e
            BY <1>7, <1>8, <2>2
        <3> QED BY <1>5, <1>8, <2>2, <3>1
    <2>3. CASE k > p /\ j = p
        <3>1. k - 1 \in 1 .. n /\ p <= k - 1 /\ queue'[j] = e /\ queue'[k] = queue[k - 1]
            BY <1>7, <2>3
        <3> QED BY <1>6, <3>1
    <2>4. CASE k > p /\ j < p
        <3>1. /\ j \in 1 .. n /\ k - 1 \in 1 .. n /\ p <= k - 1
              /\ queue'[j] = queue[j] /\ queue'[k] = queue[k - 1]
            BY <1>7, <2>4
        <3> DEFINE a == Instant(queue[j].time)
                   b == Instant(e.time)
                   c == Instant(queue[k - 1].time)
        <3>2. a <= b
            BY <1>5, <2>4, <3>1
        <3>3. b <= c
            BY <1>6, <3>1
        <3>4. a \in Int /\ b \in Int /\ c \in Int
            BY <1>2, <1>3, <3>1
        <3> HIDE DEF a, b, c
        <3>5. a <= c
            BY <3>2, <3>3, <3>4
        <3> QED BY <3>1, <3>5 DEF a, c
    <2>5. CASE k > p /\ j > p
        <3>1. /\ j - 1 \in 1 .. n /\ k - 1 \in 1 .. n
              /\ queue'[j] = queue[j - 1] /\ queue'[k] = queue[k - 1]
            BY <1>7, <2>5
        <3>2. j - 1 < k - 1
            BY <1>8
        <3> QED BY <3>1, <3>2 DEF OrderInv, QueueInOrder
    <2>6. /\ k < p \/ k = p \/ k > p
          /\ j < p \/ j = p \/ j > p
        <3> HIDE DEF n
        <3> QED BY <1>2, PlacesAround
    <2> QED BY <2>1, <2>2, <2>3, <2>4, <2>5, <2>6
<1> QED BY <1>1, <1>8 DEF QueueInOrder

LEMMA OrderComparison ==
    ASSUME OneEra, OrderInv, queue' = Clock!Compared
    PROVE  queue' \in Seq(ClockEntry) /\ QueueInOrder'
<1> DEFINE m == MovedBy
<1>1. Moved(m) /\ m \in Int
    BY ComparisonMoves DEF OrderInv, MovedBy
<1> HIDE DEF m
<1>2. /\ Len(queue) \in Nat
      /\ \A k \in 1 .. Len(queue) : Instant(queue[k].time) \in Int
    <2>1. queue \in Seq(ClockEntry)
        BY ClockTypes DEF OrderInv
    <2> QED BY <2>1, ClockEntryFacts
<1>3. ASSUME NEW j \in 1 .. Len(queue), NEW k \in 1 .. Len(queue), j < k
      PROVE  Instant(queue'[j].time) <= Instant(queue'[k].time)
    <2> DEFINE a == Instant(queue[j].time)
               b == Instant(queue[k].time)
    <2>1. a <= b
        BY <1>3 DEF OrderInv, QueueInOrder
    <2>2. Instant(queue'[j].time) = a + m /\ Instant(queue'[k].time) = b + m
        BY <1>1 DEF Moved
    <2>3. a \in Int /\ b \in Int
        BY <1>2
    <2> HIDE DEF a, b
    <2>4. a + m <= b + m
        BY <1>1, <2>1, <2>3
    <2> QED BY <2>2, <2>4
<1> QED BY <1>1, <1>3 DEF Moved, QueueInOrder

\* Without its head the list is as sorted as with it.
LEMMA OrderExpire ==
    ASSUME OrderInv, Clock!ExpireHead
    PROVE  queue' \in Seq(ClockEntry) /\ QueueInOrder'
<1>1. queue \in Seq(ClockEntry)
    BY ClockTypes DEF OrderInv
<1>2. CASE queue' = queue
    BY <1>1, <1>2 DEF OrderInv, QueueInOrder
<1>3. CASE queue # <<>> /\ queue' = Tail(queue)
    <2>1. /\ Len(queue) \in Nat \ {0} /\ queue' \in Seq(ClockEntry)
          /\ Len(queue') = Len(queue) - 1
          /\ \A i \in 1 .. Len(queue') : queue'[i] = queue[i + 1]
        BY <1>1, <1>3, TailFacts
    <2>2. ASSUME NEW j \in 1 .. Len(queue'), NEW k \in 1 .. Len(queue'), j < k
          PROVE  Instant(queue'[j].time) <= Instant(queue'[k].time)
        <3>1. j + 1 \in 1 .. Len(queue) /\ k + 1 \in 1 .. Len(queue) /\ j + 1 < k + 1
            BY <2>1, <2>2
        <3>2. queue'[j] = queue[j + 1] /\ queue'[k] = queue[k + 1]
            BY <2>1
        <3> QED BY <3>1, <3>2 DEF OrderInv, QueueInOrder
    <2> QED BY <2>1, <2>2 DEF QueueInOrder
<1>4. queue' = queue \/ (queue # <<>> /\ queue' = Tail(queue))
    BY DEF Clock!ExpireHead, Clock!HeadDue
<1> QED BY <1>2, <1>3, <1>4

\* The loop misses a change of the clock.
LEMMA MissingFacts ==
    ASSUME queue \in Seq(ClockEntry), NEW amount \in Int,
           queue' = Clock!Missing(queue, amount)
    PROVE  /\ queue' \in Seq(ClockEntry)
           /\ Len(queue') = Len(queue) /\ Len(queue) \in Nat
           /\ \A k \in 1 .. Len(queue) : /\ queue'[k].time = queue[k].time
                                         /\ Aim(queue'[k]) = Aim(queue[k]) - amount
<1> DEFINE n == Len(queue)
           behind(k) == [queue[k] EXCEPT !.missed = @ - amount]
<1>1. n \in Nat /\ \A k \in 1 .. n : queue[k] \in ClockEntry
    BY LenProperties, ElementOfSeq
<1>2. queue' = [k \in 1 .. n |-> behind(k)]
    BY DEF Clock!Missing
<1>3. ASSUME NEW k \in 1 .. n
      PROVE  /\ behind(k) \in ClockEntry
             /\ behind(k).time = queue[k].time
             /\ Aim(behind(k)) = Aim(queue[k]) - amount
    <2> DEFINE e == queue[k]
    <2>1. /\ e \in ClockEntry /\ e.missed \in Int /\ e.due \in 0 .. Latest
          /\ Latest \in Nat
        BY <1>1, ClockConstants DEF ClockEntry
    <2>2. /\ behind(k) = [e EXCEPT !.missed = e.missed - amount]
          /\ e.missed - amount \in Int
        BY <2>1
    <2> HIDE DEF e, behind
    <2>3. /\ behind(k) \in ClockEntry /\ behind(k).time = e.time
          /\ behind(k).due = e.due /\ behind(k).missed = e.missed - amount
        BY <2>1, <2>2 DEF ClockEntry
    <2>4. Aim(behind(k)) = Aim(e) - amount
        BY <2>1, <2>3 DEF Aim
    <2> QED BY <2>3, <2>4 DEF e
<1> HIDE DEF behind
<1>4. queue' \in Seq(ClockEntry) /\ Len(queue') = n /\ \A k \in 1 .. n : queue'[k] = behind(k)
    BY <1>1, <1>2, <1>3
<1> QED BY <1>1, <1>3, <1>4

LEMMA OrderMissing ==
    ASSUME OrderInv, NEW amount \in Int, queue' = Clock!Missing(queue, amount)
    PROVE  queue' \in Seq(ClockEntry) /\ QueueInOrder'
<1>1. queue \in Seq(ClockEntry)
    BY ClockTypes DEF OrderInv
<1>2. /\ queue' \in Seq(ClockEntry) /\ Len(queue') = Len(queue)
      /\ \A k \in 1 .. Len(queue) : Instant(queue'[k].time) = Instant(queue[k].time)
    BY <1>1, MissingFacts
<1> QED BY <1>2 DEF OrderInv, QueueInOrder

\* What eloop_run leaves behind.
LEMMA ReturnTypes ==
    ASSUME Clock!Returns
    PROVE  /\ t0' = 0 /\ time0' \in NormalTime /\ noticed' = 0 /\ wake' = Latest
           /\ place' = "out" /\ clock' = clock /\ offset' = offset /\ steps' = steps
BY UsecAssumption DEF Clock!Returns, NormalTime

\* Types after a step; the walks of the list are the subject of the lemmas above.
LEMMA OrderStep ==
    ASSUME OneEra, OrderInv, [Clock!Next]_(Clock!vars)
    PROVE  OrderInv'
<1>1. /\ clock \in 0 .. Latest /\ offset \in Int /\ noticed \in Int /\ queue \in Seq(ClockEntry)
      /\ t0 \in Int /\ time0 \in NormalTime /\ wake \in Int /\ place \in Clock!Places
      /\ steps \in 0 .. MaxSteps /\ Start \in Nat /\ Latest \in Nat /\ MaxSteps \in Nat
    BY ClockTypes, ClockConstants DEF OrderInv
<1>2. ASSUME queue' \in Seq(ClockEntry), QueueInOrder', clock' \in 0 .. Latest,
             offset' \in Int, noticed' \in Int, t0' \in Int, time0' \in NormalTime, wake' \in Int,
             place' \in Clock!Places, steps' \in 0 .. MaxSteps
      PROVE  OrderInv'
    BY <1>2, SameOperators DEF OrderInv, Clock!Types, ClockEntry, Clock!Places
<1>3. ASSUME queue' = queue PROVE queue' \in Seq(ClockEntry) /\ QueueInOrder'
    BY <1>1, <1>3 DEF OrderInv, QueueInOrder
<1>4. ASSUME NEW delay \in Given, Clock!eloop_register_timeout(delay[1], delay[2])
      PROVE  OrderInv'
    <2>1. queue' \in Seq(ClockEntry) /\ QueueInOrder'
        BY <1>4, OrderRegister
    <2> QED BY <1>1, <1>2, <1>4, <2>1 DEF Clock!eloop_register_timeout
<1>5. CASE Clock!eloop_run
    <2>1. /\ queue' = queue /\ t0' = TimesAt(clock) /\ time0' = Clock!WallClock
          /\ noticed' = offset
        BY <1>5 DEF Clock!eloop_run, Clock!times, TimesAt
    <2>2. t0' \in Int /\ time0' \in NormalTime
        BY <1>1, <2>1, TimesFacts, WallFacts
    <2>3. place' \in Clock!Places
        BY <1>5 DEF Clock!eloop_run, Clock!Places
    <2> QED BY <1>1, <1>2, <1>3, <1>5, <2>1, <2>2, <2>3 DEF Clock!eloop_run
<1>6. CASE Clock!EnterSelect
    <2>1. /\ queue' \in Seq(ClockEntry) /\ QueueInOrder' /\ t0' \in Int /\ time0' \in NormalTime
          /\ noticed' \in Int
        BY <1>1, <1>6, OrderComparison, ComparisonReads DEF Clock!EnterSelect, OrderInv
    <2>2. wake' \in Int
        <3>1. CASE queue' = <<>>
            BY <1>1, <1>6, <3>1 DEF Clock!EnterSelect
        <3>2. CASE queue' # <<>> /\ Clock!Before(Clock!WallClock, queue'[1].time)
            <4> DEFINE d == Sub(queue'[1].time, Clock!WallClock)
            <4>1. queue'[1].time \in NormalTime /\ Clock!WallClock \in NormalTime
                BY <1>1, <2>1, <3>2, TailFacts, ClockEntryFacts, WallFacts
            <4>2. d.sec \in Int /\ d.usec \in Int
                BY <4>1, SubInstant
            <4>3. wake' = clock + Instant(d)
                BY <1>6, <3>2, SameOperators DEF Clock!EnterSelect
            <4> HIDE DEF d
            <4>4. Instant(d) \in Int
                BY <4>2, UsecAssumption DEF Instant
            <4> QED BY <1>1, <4>3, <4>4
        <3>3. CASE queue' # <<>> /\ ~ Clock!Before(Clock!WallClock, queue'[1].time)
            BY <1>1, <1>6, <3>3 DEF Clock!EnterSelect
        <3> QED BY <3>1, <3>2, <3>3
    <2>3. place' \in Clock!Places
        BY <1>6 DEF Clock!EnterSelect, Clock!Places
    <2> QED BY <1>1, <1>2, <1>6, <2>1, <2>2, <2>3 DEF Clock!EnterSelect
<1>7. CASE Clock!SelectReturns
    <2>1. /\ queue' \in Seq(ClockEntry) /\ QueueInOrder' /\ t0' \in Int /\ time0' \in NormalTime
          /\ noticed' \in Int
        BY <1>1, <1>7, OrderComparison, ComparisonReads DEF Clock!SelectReturns, OrderInv
    <2>2. place' \in Clock!Places
        BY <1>7 DEF Clock!SelectReturns, Clock!Places
    <2> QED BY <1>1, <1>2, <1>7, <2>1, <2>2 DEF Clock!SelectReturns
<1>8. CASE Clock!ExpireHead
    <2>1. queue' \in Seq(ClockEntry) /\ QueueInOrder'
        BY <1>8, OrderExpire
    <2>2. place' \in Clock!Places
        BY <1>8 DEF Clock!ExpireHead, Clock!Places
    <2> QED BY <1>1, <1>2, <1>8, <2>1, <2>2 DEF Clock!ExpireHead
<1>9. CASE Clock!CallbacksReturn
    <2>1. place' \in Clock!Places /\ queue' = queue
        BY <1>9 DEF Clock!CallbacksReturn, Clock!Places
    <2> QED BY <1>1, <1>2, <1>3, <1>9, <2>1 DEF Clock!CallbacksReturn
<1>10. CASE Clock!TimePasses
    <2>1. clock' \in 0 .. Latest /\ queue' = queue
        BY <1>1, <1>10 DEF Clock!TimePasses
    <2> QED BY <1>1, <1>2, <1>3, <1>10, <2>1 DEF Clock!TimePasses
<1>11. ASSUME NEW amount \in Steps, Clock!ClockIsSet(amount)
       PROVE  OrderInv'
    <2>1. amount \in Int
        BY ClockConstants
    <2>2. offset' \in Int /\ steps' \in 0 .. MaxSteps
        BY <1>1, <1>11, <2>1 DEF Clock!ClockIsSet
    <2>3. queue' \in Seq(ClockEntry) /\ QueueInOrder'
        <3>1. queue' = queue \/ queue' = Clock!Missing(queue, amount)
            BY <1>11 DEF Clock!ClockIsSet
        <3> QED BY <1>3, <2>1, <3>1, OrderMissing
    <2> QED BY <1>1, <1>2, <1>11, <2>2, <2>3 DEF Clock!ClockIsSet
<1>13. CASE Clock!LoopEnds
    <2>1. Clock!Unnoticed \in Int
        BY <1>1 DEF Clock!Unnoticed
    <2>2. queue' \in Seq(ClockEntry) /\ QueueInOrder'
        BY <1>13, <2>1, OrderMissing DEF Clock!LoopEnds
    <2> QED BY <1>1, <1>2, <1>13, <2>2, ReturnTypes DEF Clock!LoopEnds, Clock!Places
<1>14. CASE Clock!SelectFails
    <2>1. queue' \in Seq(ClockEntry) /\ QueueInOrder'
        BY <1>14, OrderComparison DEF Clock!SelectFails
    <2> QED BY <1>1, <1>2, <1>14, <2>1, ReturnTypes DEF Clock!SelectFails, Clock!Places
<1>12. CASE UNCHANGED Clock!vars
    <2>1. /\ clock' = clock /\ offset' = offset /\ noticed' = noticed
          /\ queue' = queue /\ t0' = t0
          /\ time0' = time0 /\ wake' = wake /\ place' = place /\ steps' = steps
        BY <1>12 DEF Clock!vars
    <2> QED BY <1>1, <1>2, <1>3, <2>1
<1> QED BY <1>4, <1>5, <1>6, <1>7, <1>8, <1>9, <1>10, <1>11, <1>12, <1>13, <1>14
        DEF Clock!Next, Clock!Step

\* As long as the list has not held times of both eras.
LEMMA EraStep ==
    ASSUME [Clock!Next]_(Clock!vars), ~ mixed', ~ mixed => OneEra
    PROVE  ~ mixed /\ OneEra /\ OneEra'
<1>1. CASE Clock!Next
    BY <1>1 DEF Clock!Next, OneEra
<1>2. CASE UNCHANGED Clock!vars
    BY <1>2 DEF Clock!vars, OneEra, Clock!OneEra
<1> QED BY <1>1, <1>2

OrderOfEra == ~ mixed => OneEra /\ OrderInv

\* However often the clock is set, wherever the thread is and by whatever amounts:
\* the times of the list stay normalised, and the list sorted, because AddTime and
\* SubTime carry and borrow once, also from an expected time with a whole second of
\* microseconds, and the walk of eloop_timeUpdate moves all of a list that does not
\* straddle the end of prehistory.
THEOREM ShiftKeepsOrder == Clock!Spec => [](Clock!TypeOK /\ StaysSorted)
<1>1. Clock!Init => OrderOfEra
    BY ClockTypesInit DEF Clock!Init, OrderOfEra, OneEra, Clock!OneEra
<1>2. OrderOfEra /\ [Clock!Next]_(Clock!vars) => OrderOfEra'
    BY EraStep, OrderStep DEF OrderOfEra
<1>3. OrderOfEra => Clock!TypeOK /\ StaysSorted
    <2> SUFFICES ASSUME OrderInv, ~ mixed, NEW j \in 1 .. Len(queue), NEW k \in 1 .. Len(queue), j < k
                 PROVE  ~ Clock!Before(queue[k].time, queue[j].time)
        BY DEF OrderOfEra, OrderInv, Clock!TypeOK, StaysSorted, Clock!StaysSorted
    <2> DEFINE a == queue[j].time
               b == queue[k].time
    <2>0. queue \in Seq(ClockEntry)
        BY ClockTypes DEF OrderInv
    <2>1. /\ a \in NormalTime /\ b \in NormalTime
          /\ Instant(a) \in Int /\ Instant(b) \in Int
        BY <2>0, ClockEntryFacts
    <2>2. Instant(a) <= Instant(b)
        BY DEF OrderInv, QueueInOrder
    <2> HIDE DEF a, b
    <2>4. Before(b, a) <=> Instant(b) < Instant(a)
        BY <2>1, BeforeInstant
    <2>5. ~ Before(b, a)
        BY <2>1, <2>2, <2>4
    <2>3. ~ Before(queue[k].time, queue[j].time)
        BY <2>5 DEF a, b
    <2> QED BY <2>3, SameOperators
<1> QED BY <1>1, <1>2, <1>3, PTL DEF Clock!Spec

-----------------------------------------------------------------------------
(* Neither early nor late *)

\* What the code and the system it runs on have in common with the model: a tick
\* is 10 ms, less than what is ignored.
ClockFits == TicksComparable /\ Clock!Tick <= Slack

\* Each comparison counts the ticks rightly.
CountsTicks == Clock!EnterSelect \/ Clock!SelectReturns \/ Clock!SelectFails => Counts

\* What a change of the clock may cost.
Cost == Slack + Clock!Tick

\* The times of the list are those it aims at, moved by o, but for s changes.
Near(o, s) ==
    \A k \in 1 .. Len(queue) :
        /\ - (s * Cost) <= Instant(queue[k].time) - (Start + Aim(queue[k]) + o)
        /\ Instant(queue[k].time) - (Start + Aim(queue[k]) + o) <= s * Cost

\* The last comparison was at the true time c, when the clock was o ahead; s of
\* the changes of the clock were before it.
TrackedBy(c, o, s) ==
    /\ c <= clock
    /\ s <= steps
    /\ o = Known
    /\ place # "out" => t0 = TimesAt(c) /\ Instant(time0) = Start + c + o
    /\ Near(o, s)
    /\ o # offset => s + 1 <= steps

Tracked == \E c \in Nat, o \in Int, s \in Nat : TrackedBy(c, o, s)

\* pselect gives up in time for all of the list.
WakesInTime ==
    place = "select" /\ clock < wake =>
        \A k \in 1 .. Len(queue) : wake <= Aim(queue[k]) + steps * Cost

ClockInv == ~ mixed => OneEra /\ OrderInv /\ Tracked /\ WakesInTime

\* A tick is the unit of the comparison, Slack what it ignores: the list is moved
\* as far as the clock was, but for one of each.
LEMMA MovedAsFar ==
    ASSUME ClockFits, Clock!Types, Counts,
           NEW c \in Nat, NEW o \in Int, c <= clock,
           t0 = TimesAt(c), Instant(time0) = Start + c + o
    PROVE  /\ MovedBy \in Int
           /\ - Cost <= MovedBy - (offset - o) /\ MovedBy - (offset - o) <= Cost
           /\ offset = o => MovedBy = 0
<1> DEFINE a == c \div Clock!Tick
           b == clock \div Clock!Tick
           diff == Clock!ClockDiff(Clock!times)
<1>1. /\ clock \in Nat /\ clock <= Latest /\ offset \in Int /\ Start \in Nat
      /\ time0 \in NormalTime /\ Clock!Tick \in Nat \ {0} /\ Slack \in Nat
      /\ Clock!Tick <= Slack /\ TicksComparable
    <2>1. clock \in 0 .. Latest /\ offset \in Int /\ time0 \in NormalTime
        BY ClockTypes
    <2>2. Start \in Nat /\ Clock!Tick \in Nat \ {0} /\ Slack \in Nat /\ Latest \in Nat
        BY ClockConstants
    <2>3. Clock!Tick <= Slack /\ TicksComparable
        BY DEF ClockFits
    <2>4. clock \in Nat /\ clock <= Latest
        BY <2>1, <2>2
    <2> QED BY <2>1, <2>2, <2>3, <2>4
<1>2. diff = b - a
    BY <1>1, ElapsedTicks
<1>3. /\ a \in Nat /\ b \in Nat
      /\ c = a * Clock!Tick + (c % Clock!Tick) /\ c % Clock!Tick \in 0 .. Clock!Tick - 1
      /\ clock = b * Clock!Tick + (clock % Clock!Tick)
      /\ clock % Clock!Tick \in 0 .. Clock!Tick - 1
    <2>1. a \in Nat /\ b \in Nat
        BY <1>1, TimesFacts
    <2>2. c \in Int /\ clock \in Int
        BY <1>1
    <2>3. c = a * Clock!Tick + (c % Clock!Tick) /\ c % Clock!Tick \in 0 .. Clock!Tick - 1
        BY <1>1, <2>2, Division
    <2>4. /\ clock = b * Clock!Tick + (clock % Clock!Tick)
          /\ clock % Clock!Tick \in 0 .. Clock!Tick - 1
        BY <1>1, <2>2, Division
    <2> QED BY <2>1, <2>3, <2>4
<1> HIDE DEF a, b, diff
<1> DEFINE x == a * Clock!Tick
           y == b * Clock!Tick
<1>4. x \in Int /\ y \in Int
    BY <1>1, <1>3
<1>5. diff * Clock!Tick = y - x
    BY <1>1, <1>2, <1>3, ProductOfSum
<1>6. a <= b
    <2>1. b + 1 <= a => (b + 1) * Clock!Tick <= x
        BY <1>1, <1>3, ProductMonotonic
    <2>2. (b + 1) * Clock!Tick = y + Clock!Tick
        BY <1>1, <1>3
    <2> HIDE DEF x, y
    <2>3. c = x + (c % Clock!Tick) /\ clock = y + (clock % Clock!Tick)
        BY <1>3 DEF x, y
    <2>4. ~ (b + 1 <= a)
        BY <1>1, <1>3, <1>4, <2>1, <2>2, <2>3
    <2> QED BY <1>3, <2>4
<1>7. Instant(Clock!ExpectedTime(diff)) = Start + c + o + (y - x)
    <2>1. diff \in Nat
        BY <1>2, <1>3, <1>6
    <2> QED BY <1>1, <1>5, <2>1, ExpectedFacts
<1>8. Difference = (Start + clock + offset) - (Start + c + o + (y - x))
    BY <1>1, <1>7, WallFacts DEF Difference, diff
<1>9. c = x + (c % Clock!Tick) /\ clock = y + (clock % Clock!Tick)
    BY <1>3
<1> HIDE DEF x, y
<1>10. Difference = (offset - o) + ((clock % Clock!Tick) - (c % Clock!Tick))
    <2> DEFINE p == clock % Clock!Tick
               q == c % Clock!Tick
    <2>1. p \in Int /\ q \in Int /\ c = x + q /\ clock = y + p
        BY <1>1, <1>3, <1>9
    <2>2. x \in Int /\ y \in Int /\ Start \in Int /\ offset \in Int
        BY <1>1, <1>4
    <2> HIDE DEF p, q
    <2>3. Difference = (offset - o) + (p - q)
        BY <1>8, <2>1, <2>2
    <2> QED BY <2>3 DEF p, q
<1>11. /\ Difference \in Int
       /\ - Clock!Tick < Difference - (offset - o)
       /\ Difference - (offset - o) < Clock!Tick
    BY <1>1, <1>3, <1>10
<1> QED BY <1>1, <1>11 DEF MovedBy, Cost

\* A list that was near stays near when it is moved, with the changes noticed now.
LEMMA NearMoved ==
    ASSUME queue \in Seq(ClockEntry),
           NEW o \in Int, NEW s \in Nat, NEW m \in Int, NEW n \in Nat, Near(o, s), Moved(m),
           NEW v \in Int,
           \/ n = s /\ m = 0 /\ v = o
           \/ /\ n = s + 1
              /\ - Cost <= m - (v - o)
              /\ m - (v - o) <= Cost
    PROVE  Near(v, n)'
<1> SUFFICES ASSUME NEW k \in 1 .. Len(queue')
             PROVE  /\ - (n * Cost) <= Instant(queue'[k].time) - (Start + Aim(queue'[k]) + v)
                    /\ Instant(queue'[k].time) - (Start + Aim(queue'[k]) + v) <= n * Cost
    BY DEF Near, Cost
<1>1. /\ k \in 1 .. Len(queue)
      /\ Instant(queue'[k].time) = Instant(queue[k].time) + m
      /\ Aim(queue'[k]) = Aim(queue[k])
    BY DEF Moved
<1> DEFINE x == s * Cost
           y == n * Cost
           i == Instant(queue[k].time)
           u == Aim(queue[k])
<1>2. - x <= i - (Start + u + o) /\ i - (Start + u + o) <= x
    BY <1>1 DEF Near
<1>3. i \in Int /\ u \in Int
    <2>1. \A j \in 1 .. Len(queue) : /\ Instant(queue[j].time) \in Int
                                      /\ Aim(queue[j]) \in Int
        BY ClockEntryFacts
    <2> QED BY <1>1, <2>1
<1>4. Start \in Int /\ Cost \in Int
    <2>1. Start \in Nat /\ Slack \in Nat /\ Clock!Tick \in Nat
        BY ClockConstants
    <2> QED BY <2>1 DEF Cost
<1>5. x \in Int /\ y \in Int /\ (n = s => y = x) /\ (n = s + 1 => y = x + Cost)
    BY <1>4
<1>6. /\ Instant(queue'[k].time) = i + m
      /\ Aim(queue'[k]) = u
    BY <1>1
<1> HIDE DEF x, y, i, u
<1>7. - y <= (i + m) - (Start + u + v) /\ (i + m) - (Start + u + v) <= y
    BY <1>2, <1>3, <1>4, <1>5
<1> QED BY <1>6, <1>7 DEF y

\* A larger number of changes grants more.
LEMMA CostGrows ==
    ASSUME NEW s \in Nat, NEW n \in Nat, s <= n
    PROVE  /\ Cost \in Nat /\ s * Cost \in Nat /\ n * Cost \in Nat
           /\ s * Cost <= n * Cost
<1>1. Cost \in Nat
    BY ClockConstants DEF Cost
<1>2. s * Cost \in Nat /\ n * Cost \in Nat
    BY <1>1
<1> QED BY <1>1, <1>2, ProductMonotonic

\* A comparison brings the list near to the present.
LEMMA TrackComparison ==
    ASSUME ClockFits, OneEra, OrderInv, Tracked, Counts,
           place # "out", queue' = Clock!Compared
    PROVE  \E v \in Int, n \in Nat : v = offset /\ n <= steps /\ Near(v, n)'
<1>1. PICK c \in Nat, o \in Int, s \in Nat : TrackedBy(c, o, s)
    BY DEF Tracked
<1>2. /\ queue \in Seq(ClockEntry) /\ offset \in Int /\ clock \in Nat /\ steps \in Nat
      /\ Clock!Types
    BY ClockTypes, ClockConstants DEF OrderInv
<1>3. /\ MovedBy \in Int
      /\ - Cost <= MovedBy - (offset - o) /\ MovedBy - (offset - o) <= Cost
      /\ offset = o => MovedBy = 0
    BY <1>1, <1>2, MovedAsFar DEF TrackedBy
<1>4. Moved(MovedBy)
    BY <1>2, ComparisonMoves
<1>5. Near(o, s)
    BY <1>1 DEF TrackedBy
<1>6. PICK v \in Int : v = offset
    BY <1>2
<1>7. PICK n \in Nat : /\ n <= steps
                       /\ \/ n = s /\ MovedBy = 0 /\ v = o
                          \/ /\ n = s + 1
                             /\ - Cost <= MovedBy - (v - o)
                             /\ MovedBy - (v - o) <= Cost
    <2>1. CASE v = o
        <3>1. s <= steps /\ s = s /\ MovedBy = 0
            BY <1>1, <1>3, <1>6, <2>1 DEF TrackedBy
        <3> QED BY <2>1, <3>1
    <2>2. CASE v # o
        <3>1. s + 1 \in Nat /\ s + 1 <= steps
            BY <1>1, <1>6, <2>2 DEF TrackedBy
        <3> QED BY <1>3, <1>6, <3>1
    <2> QED BY <2>1, <2>2
<1>8. Near(v, n)'
    BY <1>2, <1>3, <1>4, <1>5, <1>7, NearMoved
<1> QED BY <1>6, <1>7, <1>8

\* Whatever the loop misses, the list aims at it.
LEMMA NearMissing ==
    ASSUME OrderInv, NEW o \in Int, NEW s \in Nat, Near(o, s),
           NEW amount \in Int, queue' = Clock!Missing(queue, amount)
    PROVE  Near(o + amount, s)'
<1>1. queue \in Seq(ClockEntry) /\ Start \in Int
    BY ClockTypes, ClockConstants DEF OrderInv
<1>2. /\ Len(queue') = Len(queue)
      /\ \A k \in 1 .. Len(queue) : /\ queue'[k].time = queue[k].time
                                    /\ Aim(queue'[k]) = Aim(queue[k]) - amount
    BY <1>1, MissingFacts
<1> SUFFICES ASSUME NEW k \in 1 .. Len(queue')
             PROVE  /\ - (s * Cost) <= Instant(queue'[k].time) - (Start + Aim(queue'[k]) + (o + amount))
                    /\ Instant(queue'[k].time) - (Start + Aim(queue'[k]) + (o + amount)) <= s * Cost
    BY DEF Near, Cost
<1> DEFINE i == Instant(queue[k].time)
           u == Aim(queue[k])
           x == s * Cost
<1>3. k \in 1 .. Len(queue) /\ Instant(queue'[k].time) = i /\ Aim(queue'[k]) = u - amount
    BY <1>2
<1>4. i \in Int /\ u \in Int
    BY <1>1, <1>3, ClockEntryFacts
<1>5. - x <= i - (Start + u + o) /\ i - (Start + u + o) <= x
    BY <1>3 DEF Near
<1> HIDE DEF i, u, x
<1>6. Start + (u - amount) + (o + amount) = Start + u + o
    BY <1>1, <1>4
<1>7. - x <= i - (Start + (u - amount) + (o + amount)) /\ i - (Start + (u - amount) + (o + amount)) <= x
    BY <1>5, <1>6
<1> QED BY <1>3, <1>7 DEF x

\* A registration is near: its time is the one it aims at, moved by what is known.
LEMMA TrackRegister ==
    ASSUME OrderInv, NEW delay \in Given,
           Clock!eloop_register_timeout(delay[1], delay[2]),
           NEW o \in Int, NEW s \in Nat, Near(o, s), o = Known
    PROVE  Near(o, s)'
<1> DEFINE n == Len(queue)
           x == s * Cost
<1>1. PICK e \in ClockEntry, p \in 1 .. n + 1 :
          /\ Instant(e.time) = Start + Aim(e) + Known
          /\ queue' \in Seq(ClockEntry)
          /\ Len(queue') = n + 1
          /\ \A i \in 1 .. n + 1 :
                 queue'[i] = IF i < p THEN queue[i] ELSE IF i = p THEN e ELSE queue[i - 1]
          /\ \A i \in 1 .. n : i < p => ~ Before(e.time, queue[i].time)
          /\ p <= n => Before(e.time, queue[p].time)
    BY RegistrationLinks DEF OrderInv
<1>2. n \in Nat /\ x \in Nat
    <2>1. queue \in Seq(ClockEntry)
        BY ClockTypes DEF OrderInv
    <2>2. n \in Nat
        BY <2>1, LenProperties
    <2>3. s <= s
        OBVIOUS
    <2>4. x \in Nat
        BY <2>3, CostGrows
    <2> QED BY <2>2, <2>4
<1>3. Instant(e.time) \in Int /\ Aim(e) \in Int /\ Start \in Int
    <2>1. e.time \in NormalTime
        BY DEF ClockEntry
    <2> QED BY <2>1, InstantFacts, AimFacts, ClockConstants
<1>6. \A i \in 1 .. n : /\ - x <= Instant(queue[i].time) - (Start + Aim(queue[i]) + o)
                         /\ Instant(queue[i].time) - (Start + Aim(queue[i]) + o) <= x
    BY DEF Near
<1>4. ASSUME NEW k \in 1 .. n + 1
      PROVE  /\ - x <= Instant(queue'[k].time) - (Start + Aim(queue'[k]) + o)
             /\ Instant(queue'[k].time) - (Start + Aim(queue'[k]) + o) <= x
    <2>1. queue'[k] = IF k < p THEN queue[k] ELSE IF k = p THEN e ELSE queue[k - 1]
        BY <1>1
    <2>2. CASE k = p
        <3>1. queue'[k] = e
            BY <2>1, <2>2
        <3>2. Instant(e.time) - (Start + Aim(e) + o) = 0
            <4> DEFINE a == Instant(e.time)
                       b == Aim(e)
            <4>1. a = Start + b + o /\ a \in Int /\ b \in Int /\ Start \in Int
                BY <1>1, <1>3
            <4> HIDE DEF a, b
            <4>2. a - (Start + b + o) = 0
                BY <4>1
            <4> QED BY <4>2 DEF a, b
        <3> DEFINE y == Instant(e.time) - (Start + Aim(e) + o)
        <3>3. y = 0
            BY <3>2
        <3> HIDE DEF x, y
        <3>4. - x <= y /\ y <= x
            BY <1>2, <3>3
        <3> QED BY <3>1, <3>4 DEF y
    <2> HIDE DEF n, x
    <2>0. /\ k < p => k \in 1 .. n
          /\ k > p => k - 1 \in 1 .. n /\ ~ (k < p) /\ k # p
          /\ k < p \/ k = p \/ k > p
        BY <1>2, PlacesAround
    <2>3. CASE k < p
        <3>1. k \in 1 .. n /\ queue'[k] = queue[k]
            BY <2>0, <2>1, <2>3
        <3> QED BY <1>6, <3>1
    <2>4. CASE k > p
        <3>1. k - 1 \in 1 .. n /\ queue'[k] = queue[k - 1]
            BY <2>0, <2>1, <2>4
        <3> QED BY <1>6, <3>1
    <2> QED BY <2>0, <2>2, <2>3, <2>4
<1>5. \A k \in 1 .. Len(queue') :
          /\ - (s * Cost) <= Instant(queue'[k].time) - (Start + Aim(queue'[k]) + o)
          /\ Instant(queue'[k].time) - (Start + Aim(queue'[k]) + o) <= s * Cost
    BY <1>1, <1>4
<1> QED BY <1>5 DEF Near, Cost

LEMMA NearExpire ==
    ASSUME OrderInv, Clock!ExpireHead, NEW o \in Int, NEW s \in Nat, Near(o, s)
    PROVE  Near(o, s)'
<1>1. queue \in Seq(ClockEntry)
    BY ClockTypes DEF OrderInv
<1>2. CASE queue' = queue
    BY <1>2 DEF Near, Cost
<1>3. CASE queue # <<>> /\ queue' = Tail(queue)
    <2>1. /\ Len(queue) \in Nat \ {0}
          /\ Len(queue') = Len(queue) - 1
          /\ \A i \in 1 .. Len(queue') : queue'[i] = queue[i + 1]
        BY <1>1, <1>3, TailFacts
    <2>2. ASSUME NEW k \in 1 .. Len(queue')
          PROVE  k + 1 \in 1 .. Len(queue) /\ queue'[k] = queue[k + 1]
        BY <2>1
    <2> QED BY <2>2 DEF Near, Cost
<1>4. queue' = queue \/ (queue # <<>> /\ queue' = Tail(queue))
    BY DEF Clock!ExpireHead, Clock!HeadDue
<1> QED BY <1>2, <1>3, <1>4

\* Each step leaves the list tracked.
LEMMA TrackedStep ==
    ASSUME ClockFits, OneEra, OrderInv, Tracked,
           [Clock!Next]_(Clock!vars), [CountsTicks]_(Clock!vars)
    PROVE  Tracked'
<1>1. PICK c \in Nat, o \in Int, s \in Nat : TrackedBy(c, o, s)
    BY DEF Tracked
<1>2. clock \in Nat /\ offset \in Int /\ noticed \in Int /\ steps \in Nat
    BY ClockTypes, ClockConstants DEF OrderInv
<1>3. ASSUME NEW k \in Nat, NEW u \in Int, NEW n \in Nat, TrackedBy(k, u, n)'
      PROVE  Tracked'
    BY <1>3 DEF Tracked
<1>4. ASSUME NEW delay \in Given, Clock!eloop_register_timeout(delay[1], delay[2])
      PROVE  Tracked'
    <2>1. UNCHANGED <<clock, offset, noticed, t0, time0, wake, place, steps>>
        BY <1>4 DEF Clock!eloop_register_timeout
    <2>2. Near(o, s)'
        BY <1>1, <1>4, TrackRegister DEF TrackedBy
    <2>3. TrackedBy(c, o, s)'
        BY <1>1, <2>1, <2>2 DEF TrackedBy, Known
    <2> QED BY <1>3, <2>3
<1>5. ASSUME queue' = queue PROVE Near(o, s)'
    BY <1>1, <1>5 DEF TrackedBy, Near, Cost
<1>6. CASE Clock!eloop_run
    <2>1. /\ place = "out" /\ place' = "top" /\ t0' = TimesAt(clock) /\ time0' = Clock!WallClock
          /\ noticed' = offset
          /\ UNCHANGED <<clock, offset, queue, steps>>
        BY <1>6 DEF Clock!eloop_run, Clock!times, TimesAt
    <2>2. Instant(time0') = Start + clock + offset
        BY <1>2, <2>1, WallFacts, ClockConstants
    <2>3. o = offset
        BY <1>1, <2>1 DEF TrackedBy, Known
    <2>4. PICK t \in Nat : t = clock
        BY <1>2
    <2>5. TrackedBy(t, o, s)'
        BY <1>1, <1>2, <1>5, <2>1, <2>2, <2>3, <2>4 DEF TrackedBy, Known
    <2> QED BY <1>3, <2>5
<1>7. CASE Clock!EnterSelect \/ Clock!SelectReturns
    <2>1. /\ place # "out" /\ place' # "out" /\ Clock!eloop_timeChangeAuto
          /\ clock' = clock /\ offset' = offset /\ steps' = steps
        BY <1>7 DEF Clock!EnterSelect, Clock!SelectReturns
    <2>2. ~ UNCHANGED Clock!vars
        BY <1>7 DEF Clock!EnterSelect, Clock!SelectReturns, Clock!vars
    <2>3. Counts
        BY <1>7, <2>2 DEF CountsTicks
    <2>4. /\ queue' = Clock!Compared /\ t0' = TimesAt(clock)
          /\ Instant(time0') = Start + clock + offset /\ noticed' = offset
        BY <2>1, ComparisonReads DEF OrderInv
    <2>5. PICK v \in Int, n \in Nat : v = offset /\ n <= steps /\ Near(v, n)'
        BY <2>1, <2>3, <2>4, TrackComparison
    <2>6. PICK t \in Nat : t = clock
        BY <1>2
    <2>7. TrackedBy(t, v, n)'
        BY <1>2, <2>1, <2>4, <2>5, <2>6 DEF TrackedBy, Known
    <2> QED BY <1>3, <2>7
<1>13. CASE Clock!SelectFails
    <2>1. /\ place = "select" /\ queue' = Clock!Compared /\ place' = "out"
          /\ clock' = clock /\ offset' = offset /\ steps' = steps
        BY <1>13, ReturnTypes DEF Clock!SelectFails
    <2>2. ~ UNCHANGED Clock!vars
        BY <2>1 DEF Clock!vars
    <2>3. Counts
        BY <1>13, <2>2 DEF CountsTicks
    <2>4. PICK v \in Int, n \in Nat : v = offset /\ n <= steps /\ Near(v, n)'
        BY <2>1, <2>3, TrackComparison
    <2>5. TrackedBy(c, v, n)'
        BY <1>1, <1>2, <2>1, <2>4 DEF TrackedBy, Known
    <2> QED BY <1>3, <2>5
<1>14. CASE Clock!LoopEnds
    <2>1. /\ place = "top" /\ queue' = Clock!Missing(queue, Clock!Unnoticed) /\ place' = "out"
          /\ clock' = clock /\ offset' = offset /\ steps' = steps
        BY <1>14, ReturnTypes DEF Clock!LoopEnds
    <2>2. PICK u \in Int : u = Clock!Unnoticed
        BY <1>2 DEF Clock!Unnoticed
    <2>3. PICK v \in Int : v = o + u /\ v = offset
        BY <1>1, <1>2, <2>1, <2>2 DEF TrackedBy, Known, Clock!Unnoticed
    <2>4. Near(o + u, s)'
        BY <1>1, <2>1, <2>2, NearMissing DEF TrackedBy
    <2>5. TrackedBy(c, v, s)'
        BY <1>1, <1>2, <2>1, <2>3, <2>4 DEF TrackedBy, Known
    <2> QED BY <1>3, <2>5
<1>8. CASE Clock!ExpireHead
    <2>1. Near(o, s)'
        BY <1>1, <1>8, NearExpire DEF TrackedBy
    <2>2. /\ place = "expire" /\ place' = "callback"
          /\ UNCHANGED <<clock, offset, noticed, t0, time0, wake, steps>>
        BY <1>8 DEF Clock!ExpireHead
    <2>3. TrackedBy(c, o, s)'
        BY <1>1, <2>1, <2>2 DEF TrackedBy, Known
    <2> QED BY <1>3, <2>3
<1>9. CASE Clock!CallbacksReturn
    <2>1. /\ place = "callback" /\ place' = "top"
          /\ UNCHANGED <<clock, offset, noticed, queue, t0, time0, wake, steps>>
        BY <1>9 DEF Clock!CallbacksReturn
    <2>2. TrackedBy(c, o, s)'
        BY <1>1, <1>5, <2>1 DEF TrackedBy, Known
    <2> QED BY <1>3, <2>2
<1>10. CASE Clock!TimePasses
    <2>1. clock' = clock + 1 /\ UNCHANGED <<offset, noticed, queue, t0, time0, wake, place, steps>>
        BY <1>10 DEF Clock!TimePasses
    <2>2. c <= clock'
        BY <1>1, <1>2, <2>1 DEF TrackedBy
    <2>3. TrackedBy(c, o, s)'
        BY <1>1, <1>5, <2>1, <2>2 DEF TrackedBy, Known
    <2> QED BY <1>3, <2>3
<1>11. ASSUME NEW amount \in Steps, Clock!ClockIsSet(amount)
       PROVE  Tracked'
    <2>1. /\ steps' = steps + 1 /\ offset' = offset + amount
          /\ UNCHANGED <<clock, noticed, t0, time0, wake, place>>
          /\ amount \in Int
        BY <1>11, ClockConstants DEF Clock!ClockIsSet
    <2>2. s <= steps' /\ s + 1 <= steps'
        BY <1>1, <1>2, <2>1 DEF TrackedBy
    <2>3. CASE place # "out"
        <3>1. queue' = queue
            BY <1>11, <2>3 DEF Clock!ClockIsSet
        <3>2. TrackedBy(c, o, s)'
            BY <1>1, <1>5, <2>1, <2>2, <2>3, <3>1 DEF TrackedBy, Known
        <3> QED BY <1>3, <3>2
    <2>4. CASE place = "out"
        <3> DEFINE v == o + amount
        <3>1. queue' = Clock!Missing(queue, amount)
            BY <1>11, <2>4 DEF Clock!ClockIsSet
        <3>2. v \in Int /\ v = offset'
            BY <1>1, <1>2, <2>1, <2>4 DEF TrackedBy, Known
        <3>3. Near(v, s)'
            BY <1>1, <2>1, <3>1, NearMissing DEF TrackedBy
        <3> HIDE DEF v
        <3>4. TrackedBy(c, v, s)'
            BY <1>1, <2>1, <2>2, <2>4, <3>2, <3>3 DEF TrackedBy, Known
        <3> QED BY <1>3, <3>2, <3>4
    <2> QED BY <2>3, <2>4
<1>12. CASE UNCHANGED Clock!vars
    <2>1. UNCHANGED <<clock, offset, noticed, queue, t0, time0, wake, place, steps>>
        BY <1>12 DEF Clock!vars
    <2>2. TrackedBy(c, o, s)'
        BY <1>1, <1>5, <2>1 DEF TrackedBy, Known
    <2> QED BY <1>3, <2>2
<1> QED BY <1>4, <1>6, <1>7, <1>8, <1>9, <1>10, <1>11, <1>12, <1>13, <1>14
        DEF Clock!Next, Clock!Step

\* The time left until a is the distance of the two instants.
LEMMA TimeLeft ==
    ASSUME NEW a \in NormalTime, NEW b \in NormalTime, NEW i \in Int, NEW j \in Int,
           Instant(a) = i, Instant(b) = j
    PROVE  Instant(Sub(a, b)) = i - j
<1> DEFINE d == Sub(a, b)
           z == d.sec * Usec
           v == d.usec
<1>1. d.sec \in Int /\ d.usec \in Int /\ Instant(b) + d.sec * Usec + d.usec = Instant(a)
    BY SubInstant
<1> HIDE DEF d
<1>2. z \in Int /\ v \in Int /\ j + z + v = i
    BY <1>1, UsecAssumption
<1>3. Instant(d) = z + v
    BY DEF Instant
<1> HIDE DEF z, v
<1>4. z + v = i - j
    BY <1>2
<1> QED BY <1>3, <1>4 DEF d

\* The sleep is as long as the time left of the head, which is the first of all.
LEMMA WakesStep ==
    ASSUME ClockFits, OneEra, OrderInv, Tracked, WakesInTime,
           [Clock!Next]_(Clock!vars), [CountsTicks]_(Clock!vars)
    PROVE  WakesInTime'
<1> SUFFICES ASSUME place' = "select", clock' < wake', NEW k \in 1 .. Len(queue')
             PROVE  wake' <= Aim(queue'[k]) + steps' * Cost
    BY DEF WakesInTime, Cost
<1>1. /\ clock \in Nat /\ offset \in Int /\ steps \in Nat /\ wake \in Int /\ Start \in Nat
      /\ queue \in Seq(ClockEntry)
    BY ClockTypes, ClockConstants DEF OrderInv
<1>2. CASE Clock!EnterSelect
    <2>1. /\ place # "out" /\ Clock!eloop_timeChangeAuto
          /\ clock' = clock /\ offset' = offset /\ steps' = steps
        BY <1>2 DEF Clock!EnterSelect
    <2>2. Counts /\ queue' = Clock!Compared
        <3>1. ~ UNCHANGED Clock!vars
            BY <1>2 DEF Clock!EnterSelect, Clock!vars
        <3>2. Counts
            BY <1>2, <3>1 DEF CountsTicks
        <3> QED BY <2>1, <3>2, ComparisonReads DEF OrderInv
    <2>3. PICK v \in Int, n \in Nat : v = offset /\ n <= steps /\ Near(v, n)'
        BY <2>1, <2>2, TrackComparison
    <2>4. queue' \in Seq(ClockEntry) /\ QueueInOrder'
        BY <2>2, OrderComparison
    <2>5. /\ Len(queue') \in Nat /\ 1 \in 1 .. Len(queue') /\ queue' # <<>>
        BY <2>4, LenProperties, EmptySeq
    <2> DEFINE h == queue'[1].time
               i == Instant(queue'[k].time)
               j == Instant(h)
               u == Aim(queue'[k])
               x == n * Cost
               y == steps * Cost
    <2>6. h \in NormalTime /\ j \in Int /\ i \in Int /\ u \in Int
        <3>1. PICK q \in Seq(ClockEntry) : q = queue'
            BY <2>4
        <3>2. \A l \in 1 .. Len(q) : /\ q[l].time \in NormalTime
                                     /\ Instant(q[l].time) \in Int
                                     /\ Aim(q[l]) \in Int
            BY ClockEntryFacts
        <3>4. h \in NormalTime /\ j \in Int
            BY <2>5, <3>1, <3>2
        <3>5. i \in Int /\ u \in Int
            BY <3>1, <3>2
        <3> HIDE DEF i, j, u, h
        <3> QED BY <3>4, <3>5
    <2>7. j <= i
        <3>1. CASE k = 1
            BY <2>6, <3>1
        <3>2. CASE k # 1
            <4>1. 1 < k
                BY <2>5, <3>2
            <4> QED BY <2>4, <2>5, <4>1 DEF QueueInOrder
        <3> QED BY <3>1, <3>2
    <2>8. i - (Start + u + offset) <= x
        BY <2>3 DEF Near, Cost
    <2>9. x \in Nat /\ y \in Nat /\ x <= y
        BY <1>1, <2>3, CostGrows
    <2>10. Clock!WallClock \in NormalTime /\ Instant(Clock!WallClock) = Start + clock + offset
        BY <1>1, WallFacts
    <2>11. wake' = IF Before(Clock!WallClock, h) THEN clock + Instant(Sub(h, Clock!WallClock))
                                                 ELSE clock
        BY <1>2, <2>5, SameOperators DEF Clock!EnterSelect
    <2>12. Before(Clock!WallClock, h)
        BY <1>1, <2>1, <2>11
    <2>13. Instant(Sub(h, Clock!WallClock)) = j - (Start + clock + offset)
        <3> DEFINE w == Start + clock + offset
        <3>1. /\ h \in NormalTime /\ j \in Int /\ Instant(h) = j
              /\ Clock!WallClock \in NormalTime /\ Instant(Clock!WallClock) = w
            BY <2>6, <2>10
        <3>2. w \in Int
            BY <1>1
        <3> HIDE DEF w, h, j
        <3>3. Instant(Sub(h, Clock!WallClock)) = j - w
            BY <3>1, <3>2, TimeLeft
        <3> QED BY <3>3 DEF w
    <2>14. wake' = clock + (j - (Start + clock + offset))
        BY <2>11, <2>12, <2>13
    <2> HIDE DEF h, i, j, u, x, y
    <2>15. wake' <= u + y
        BY <1>1, <2>6, <2>7, <2>8, <2>9, <2>14
    <2> QED BY <2>1, <2>15 DEF u, y
<1>3. CASE /\ place = "select" /\ queue' = queue /\ wake' = wake
           /\ clock <= clock' /\ clock' \in Nat
           /\ steps <= steps' /\ steps' \in Nat
    <2>1. clock < wake
        BY <1>1, <1>3
    <2>2. wake <= Aim(queue[k]) + steps * Cost
        BY <1>3, <2>1 DEF WakesInTime
    <2>3. /\ steps * Cost \in Nat /\ steps' * Cost \in Nat /\ steps * Cost <= steps' * Cost
        BY <1>1, <1>3, CostGrows
    <2>4. Aim(queue[k]) \in Int
        BY <1>1, <1>3, ClockEntryFacts
    <2> DEFINE x == steps * Cost
               y == steps' * Cost
               u == Aim(queue[k])
    <2>5. /\ x \in Nat /\ y \in Nat /\ x <= y /\ wake <= u + x
          /\ u \in Int /\ wake \in Int
        BY <1>1, <2>2, <2>3, <2>4
    <2> HIDE DEF x, y, u
    <2>6. wake <= u + y
        BY <2>5
    <2> QED BY <1>3, <2>6 DEF y, u
<1>4. CASE Clock!TimePasses
    BY <1>1, <1>3, <1>4 DEF Clock!TimePasses
<1>5. ASSUME NEW amount \in Steps, Clock!ClockIsSet(amount)
      PROVE  wake' <= Aim(queue'[k]) + steps' * Cost
    BY <1>1, <1>3, <1>5 DEF Clock!ClockIsSet
<1>6. CASE UNCHANGED Clock!vars
    BY <1>1, <1>3, <1>6 DEF Clock!vars
<1>7. CASE \/ \E d \in Given : Clock!eloop_register_timeout(d[1], d[2])
           \/ Clock!eloop_run \/ Clock!SelectReturns \/ Clock!ExpireHead
           \/ Clock!CallbacksReturn \/ Clock!LoopEnds \/ Clock!SelectFails
    <2>1. place' # "select"
        BY <1>7 DEF Clock!eloop_register_timeout, Clock!eloop_run, Clock!SelectReturns,
           Clock!ExpireHead, Clock!CallbacksReturn, Clock!LoopEnds, Clock!SelectFails,
           Clock!Returns
    <2> QED BY <2>1
<1> QED BY <1>2, <1>4, <1>5, <1>6, <1>7 DEF Clock!Next, Clock!Step

\* The empty list is in order, and tracked.
LEMMA ClockInit == Clock!Init => ClockInv
<1> SUFFICES ASSUME Clock!Init PROVE ClockInv
    OBVIOUS
<1>1. OrderInv
    BY ClockTypesInit
<1>2. clock = 0 /\ offset = 0 /\ steps = 0 /\ place = "out" /\ queue = <<>> /\ Len(queue) = 0
    BY DEF Clock!Init
<1>3. TrackedBy(0, 0, 0)
    BY <1>2 DEF TrackedBy, Near, Known
<1>4. Tracked
    <2>1. 0 \in Nat /\ 0 \in Int
        OBVIOUS
    <2> QED BY <1>3, <2>1 DEF Tracked
<1>5. WakesInTime
    BY <1>2 DEF WakesInTime
<1>6. OneEra
    BY <1>2 DEF OneEra, Clock!OneEra
<1> QED BY <1>1, <1>4, <1>5, <1>6 DEF ClockInv

\* The comparisons of eloop_run keep the list where the changes of the clock put it,
\* and the sleep as short as its head allows.
THEOREM ClockInvariance ==
    ASSUME ClockFits
    PROVE  Clock!Spec /\ [][CountsTicks]_(Clock!vars) => []ClockInv
<1>1. Clock!Init => ClockInv
    BY ClockInit
<1>2. ClockInv /\ [Clock!Next]_(Clock!vars) /\ [CountsTicks]_(Clock!vars) => ClockInv'
    <2> SUFFICES ASSUME ClockInv, [Clock!Next]_(Clock!vars), [CountsTicks]_(Clock!vars), ~ mixed'
                 PROVE  (OneEra /\ OrderInv /\ Tracked /\ WakesInTime)'
        BY DEF ClockInv
    <2>1. ~ mixed /\ OneEra /\ OneEra'
        BY EraStep DEF ClockInv
    <2>2. OrderInv /\ Tracked /\ WakesInTime
        BY <2>1 DEF ClockInv
    <2>3. OrderInv'
        BY <2>1, <2>2, OrderStep
    <2>4. Tracked'
        BY <2>1, <2>2, TrackedStep
    <2>5. WakesInTime'
        BY <2>1, <2>2, WakesStep
    <2> QED BY <2>1, <2>3, <2>4, <2>5
<1> QED BY <1>1, <1>2, PTL DEF Clock!Spec

\* The loop does not sleep past the time a timeout was asked for by more than its
\* changes of the clock may cost and the loop has missed, for any number of changes,
\* at any time, and of timeouts: the comparison before pselect has moved the list,
\* and its head is the first.  The ticks must be counted rightly, which on a 64-bit
\* system takes a tick since the comparison before.
THEOREM NoneSleptOver ==
    ASSUME ClockFits
    PROVE  Clock!Spec /\ [][CountsTicks]_(Clock!vars) => []NotSleptOver
<1>1. ClockInv => NotSleptOver
    BY DEF ClockInv, WakesInTime, NotSleptOver, Clock!NotSleptOver, Clock!Tolerance, Cost, Aim
<1> QED BY <1>1, ClockInvariance, PTL

\* A timeout is not called before the time it was asked for, whatever the wall
\* clock is set to and whenever, but for what each change may cost and for what the
\* loop has not noticed: what is ignored is not moved, but neither is it counted
\* twice, because each comparison starts from the time the wall clock shows (time0).
THEOREM NoneCalledEarly ==
    ASSUME ClockFits
    PROVE  Clock!Spec /\ [][CountsTicks]_(Clock!vars) => []NotBeforeGivenTime
<1>1. ClockInv => NotBeforeGivenTime
    <2> SUFFICES ASSUME OrderInv, Tracked, place = "expire", Clock!HeadDue
                 PROVE  Aim(queue[1]) <= clock + (offset - noticed) + steps * Cost
        BY DEF ClockInv, NotBeforeGivenTime, Clock!NotBeforeGivenTime, Clock!Tolerance, Cost,
           Aim, Clock!Unnoticed
    <2>1. PICK c \in Nat, o \in Int, s \in Nat : TrackedBy(c, o, s)
        BY DEF Tracked
    <2>2. Near(noticed, s) /\ s <= steps
        BY <2>1 DEF TrackedBy, Known
    <2>3. /\ clock \in Nat /\ offset \in Int /\ noticed \in Int /\ steps \in Nat /\ Start \in Nat
          /\ queue \in Seq(ClockEntry)
        BY ClockTypes, ClockConstants DEF OrderInv
    <2>4. queue # <<>> /\ ~ Before(Clock!WallClock, queue[1].time)
        BY SameOperators DEF Clock!HeadDue
    <2>5. /\ 1 \in 1 .. Len(queue)
          /\ queue[1].time \in NormalTime /\ Instant(queue[1].time) \in Int
          /\ Aim(queue[1]) \in Int
        BY <2>3, <2>4, TailFacts, ClockEntryFacts
    <2>6. Clock!WallClock \in NormalTime /\ Instant(Clock!WallClock) = Start + clock + offset
        BY <2>3, WallFacts
    <2>7. ~ (Start + clock + offset < Instant(queue[1].time))
        BY <2>4, <2>5, <2>6, BeforeInstant
    <2> DEFINE x == s * Cost
               y == steps * Cost
               i == Instant(queue[1].time)
               u == Aim(queue[1])
    <2>8. x \in Nat /\ y \in Nat /\ x <= y
        BY <2>2, <2>3, CostGrows
    <2>9. - x <= i - (Start + u + noticed) /\ ~ (Start + clock + offset < i)
        BY <2>2, <2>5, <2>7 DEF Near
    <2>10. i \in Int /\ u \in Int
        BY <2>5
    <2> HIDE DEF x, y, i, u
    <2>11. u <= clock + (offset - noticed) + y
        BY <2>3, <2>8, <2>9, <2>10
    <2> QED BY <2>11 DEF u, y
<1> QED BY <1>1, ClockInvariance, PTL

-----------------------------------------------------------------------------
(* The instances together *)

\* What MCEloopTime checks is what EloopWatchdog and EloopTimeChange specify: either
\* starts as it does there and takes its own steps.
THEOREM EitherOnItsOwn == SpecAll => Spec /\ Clock!Spec
<1>1. InitAll => Init /\ Clock!Init
    BY DEF InitAll
<1>2. [NextAll]_allVars => [Next]_vars
    BY DEF NextAll, allVars, WatchdogInit
<1>3. [NextAll]_allVars => [Clock!Next]_(Clock!vars)
    BY DEF NextAll, allVars, ChangesInit, clockVars, Clock!vars
<1> QED BY <1>1, <1>2, <1>3, PTL DEF SpecAll, Spec, Clock!Spec

=============================================================================
