--------------------------- MODULE ProgramsProofs ---------------------------
(***************************************************************************)
(* Theorems about the programs of MCPrograms, each for every value of its  *)
(* constants: the stand-alone timers, the exception contexts of handlers,  *)
(* the sub-processes with their pid files, the debugging allocator, the    *)
(* C++ callback interface and the log file search.  Each part has an       *)
(* invariant, the proof that its steps keep it, one step per action, and   *)
(* the theorems that follow.                                               *)
(***************************************************************************)
EXTENDS MCPrograms, TimeoutListTheorems

-----------------------------------------------------------------------------
(***************************************************************************)
(* Stand-alone timers (NsTimers)                                           *)
(***************************************************************************)

\* The entries and the places of the loops; an entry is fired exactly while its
\* handler runs, or when the program has ended.
TimersTypeOK ==
    /\ now \in NormalTime
    /\ timeout \in [Loops -> Seq(Entry)]
    /\ firing \in [Loops -> Entry \cup {NoEntry}]
    /\ older \in [Loops -> SUBSET (Ptr \X Ptr)]
    /\ pc \in [Loops -> Places]
    /\ until \in [Loops -> Int]
    /\ \A l \in Loops : /\ firing[l] # NoEntry => pc[l] \in {"callback", "exited"}
                        /\ pc[l] = "callback" => firing[l] # NoEntry

\* The list of each loop uses each block once and is in the order of service.
ListsInOrder ==
    \A l \in Loops : Apart(timeout[l]) /\ Ordered(timeout[l], older[l])

-----------------------------------------------------------------------------
(* Steps of one loop *)

\* The times of entries are normalised.
LEMMA NsEntryTimes == \A e \in Entry : e.time \in NormalTime
BY DEF Entry

\* What eloop_register_timeout does to the list of l: e is linked.
NsLinks(l, e) ==
    /\ e \in Entry
    /\ \A f \in Entries(timeout[l]) : f.ptr # e.ptr
    /\ ~ Before(e.time, now)
    /\ timeout' = [timeout EXCEPT ![l] = Insert(timeout[l], e)]
    /\ older' = [older EXCEPT ![l] = older[l] \cup {<<f.ptr, e.ptr>> : f \in Entries(timeout[l])}]

\* eloop_register_timeout links a new entry with a fresh block.
LEMMA NsRegisterLinks ==
    ASSUME TimersTypeOK, NEW l \in Loops, NEW d \in Delay, NEW h \in Handler,
           eloop_register_timeout(l, d[1], d[2], h)
    PROVE  \E e : NsLinks(l, e)
<1>1. PICK p \in Ptr \ Allocated :
          /\ timeout' = [timeout EXCEPT ![l] = Insert(timeout[l],
                 [ptr |-> p, handler |-> h, eloop_data |-> l, user_data |-> l,
                  time |-> After(now, d[1], d[2])])]
          /\ older' = [older EXCEPT ![l] = older[l] \cup {<<f.ptr, p>> : f \in Pending(l)}]
    BY DEF eloop_register_timeout
<1> DEFINE e == [ptr |-> p, handler |-> h, eloop_data |-> l, user_data |-> l,
                 time |-> After(now, d[1], d[2])]
<1>2. d[1] \in Nat /\ d[2] \in Nat /\ now \in NormalTime
    BY NsTimersAssumption DEF TimersTypeOK
<1>3. After(now, d[1], d[2]) \in NormalTime /\ ~ Before(After(now, d[1], d[2]), now)
    BY <1>2, AfterIsNormal, AfterIsNotBefore
<1>4. /\ e \in Entry
      /\ e.ptr = p
      /\ e.time = After(now, d[1], d[2])
    BY <1>3 DEF Entry
<1>5. timeout' = [timeout EXCEPT ![l] = Insert(timeout[l], e)]
    BY <1>1
<1> HIDE DEF e
<1>6. ASSUME NEW f \in Entries(timeout[l]) PROVE f.ptr # e.ptr
    <2>1. f.ptr \in {g.ptr : g \in Pending(l)}
        BY DEF Pending
    <2>2. f.ptr \in Allocated
        BY <2>1 DEF Allocated
    <2> QED BY <1>4, <2>2
<1>7. older' = [older EXCEPT ![l] = older[l] \cup {<<f.ptr, e.ptr>> : f \in Entries(timeout[l])}]
    BY <1>1, <1>4, Zenon DEF Pending
<1>8. NsLinks(l, e)
    BY <1>3, <1>4, <1>5, <1>6, <1>7 DEF NsLinks
<1> QED BY <1>8

\* What eloop_cancel_timeout does to the list of l.
NsUnlinks(l, h) ==
    /\ timeout' = [timeout EXCEPT ![l] = Remaining(timeout[l], h, l, ALL)]
    /\ older' = [older EXCEPT ![l] =
           Without(older[l], {e \in Entries(timeout[l]) : Matches(e, h, l, ALL)})]

LEMMA NsCancelUnlinks ==
    ASSUME NEW l \in Loops, NEW h \in Handler, eloop_cancel_timeout(l, h)
    PROVE  NsUnlinks(l, h)
BY DEF eloop_cancel_timeout, NsUnlinks, OlderWithout, Without, Pending

\* What the pop of a due head does to the list of l.
NsPops(l) ==
    /\ timeout[l] # <<>> /\ ~ Before(now, timeout[l][1].time)
    /\ timeout' = [timeout EXCEPT ![l] = Tail(timeout[l])]
    /\ older' = [older EXCEPT ![l] = Without(older[l], {timeout[l][1]})]
    /\ firing' = [firing EXCEPT ![l] = timeout[l][1]]
    /\ pc' = [pc EXCEPT ![l] = "callback"]

LEMMA NsExpirePops ==
    ASSUME NEW l \in Loops, ExpireHead(l)
    PROVE  \/ NsPops(l)
           \/ UNCHANGED timers /\ pc' = [pc EXCEPT ![l] = "host"]
BY DEF ExpireHead, NsPops, OlderWithout, Without, Pending

\* The steps that touch no list.
ListStep(l) == \/ \E e : NsLinks(l, e)
               \/ \E h \in Handler : NsUnlinks(l, h)
               \/ NsPops(l)
               \/ destroy_timers(l)

-----------------------------------------------------------------------------
(* The lists *)

LEMMA TimersTypeInit == Init => TimersTypeOK
<1> SUFFICES ASSUME Init PROVE TimersTypeOK
    OBVIOUS
<1>1. now \in NormalTime
    BY UsecAssumption DEF Init, NormalTime
<1>2. timeout \in [Loops -> Seq(Entry)]
    BY DEF Init
<1> QED BY <1>1, <1>2 DEF Init, TimersTypeOK, Places

\* The time a poll may sleep is a number.
LEMMA NearestIsNumber ==
    ASSUME TimersTypeOK, NEW l \in Loops
    PROVE  find_nearest_timeout_ms(l) \in Int
<1>1. TimeLeft(l).sec \in Int /\ TimeLeft(l).usec \in Int
    <2>1. CASE timeout[l] # <<>> /\ Before(now, timeout[l][1].time)
        <3>1. timeout[l] \in Seq(Entry)
            BY DEF TimersTypeOK
        <3>2. timeout[l][1] \in Entry
            BY <2>1, <3>1, TailFacts, ElementOfSeq
        <3>3. timeout[l][1].time \in NormalTime /\ now \in NormalTime
            BY <3>2, NsEntryTimes DEF TimersTypeOK
        <3> QED BY <2>1, <3>3, SubInstant DEF TimeLeft
    <2>2. CASE ~ (timeout[l] # <<>> /\ Before(now, timeout[l][1].time))
        BY <2>2, NsTimersAssumption DEF TimeLeft
    <2> QED BY <2>1, <2>2
<1>2. Usec \in Nat \ {0} /\ Milli \in Nat \ {0} /\ UInt \in Nat \ {0}
    BY UsecAssumption, NsTimersAssumption
<1> DEFINE left == TimeLeft(l)
<1>3. left.sec \in Int /\ left.usec \in Int
    BY <1>1
<1> HIDE DEF left
<1>4. left.sec * (Usec \div Milli) + left.usec \div Milli \in Int
    BY <1>2, <1>3
<1>5. InMs(left) \in Int
    BY <1>2, <1>4 DEF InMs
<1> QED BY <1>2, <1>5 DEF find_nearest_timeout_ms, left

\* Registered, cancelled and popped lists are lists of entries.
LEMMA ListStepTypes ==
    ASSUME TimersTypeOK, NEW l \in Loops, ListStep(l)
    PROVE  /\ timeout' \in [Loops -> Seq(Entry)]
           /\ older' \in [Loops -> SUBSET (Ptr \X Ptr)]
           /\ \A k \in Loops \ {l} : timeout'[k] = timeout[k] /\ older'[k] = older[k]
<1>1. /\ timeout \in [Loops -> Seq(Entry)] /\ timeout[l] \in Seq(Entry)
      /\ older \in [Loops -> SUBSET (Ptr \X Ptr)] /\ older[l] \in SUBSET (Ptr \X Ptr)
    BY DEF TimersTypeOK
<1>2. \A f \in Entries(timeout[l]) : f \in Entry
    BY <1>1, ElementOfSeq DEF Entries
<1>3. \A gone : Without(older[l], gone) \in SUBSET (Ptr \X Ptr)
    BY <1>1 DEF Without
<1>4. ASSUME NEW e, NsLinks(l, e)
      PROVE  /\ timeout' = [timeout EXCEPT ![l] = Insert(timeout[l], e)]
             /\ Insert(timeout[l], e) \in Seq(Entry)
             /\ \E o \in SUBSET (Ptr \X Ptr) : older' = [older EXCEPT ![l] = o]
    <2>1. /\ e \in Entry
          /\ timeout' = [timeout EXCEPT ![l] = Insert(timeout[l], e)]
          /\ older' = [older EXCEPT ![l] =
                 older[l] \cup {<<f.ptr, e.ptr>> : f \in Entries(timeout[l])}]
        BY <1>4 DEF NsLinks
    <2>2. older[l] \cup {<<f.ptr, e.ptr>> : f \in Entries(timeout[l])} \in SUBSET (Ptr \X Ptr)
        BY <1>1, <1>2, <2>1 DEF Entry
    <2>3. Insert(timeout[l], e) \in Seq(Entry)
        BY <1>1, <2>1, InsertFacts
    <2> QED BY <2>1, <2>2, <2>3
<1>5. ASSUME NEW h \in Handler, NsUnlinks(l, h)
      PROVE  /\ timeout' = [timeout EXCEPT ![l] = Remaining(timeout[l], h, l, ALL)]
             /\ Remaining(timeout[l], h, l, ALL) \in Seq(Entry)
             /\ \E o \in SUBSET (Ptr \X Ptr) : older' = [older EXCEPT ![l] = o]
    BY <1>1, <1>3, <1>5, RemainingFacts DEF NsUnlinks
<1>6. ASSUME NsPops(l)
      PROVE  /\ timeout' = [timeout EXCEPT ![l] = Tail(timeout[l])]
             /\ Tail(timeout[l]) \in Seq(Entry)
             /\ \E o \in SUBSET (Ptr \X Ptr) : older' = [older EXCEPT ![l] = o]
    BY <1>1, <1>3, <1>6, TailFacts DEF NsPops
<1>7. ASSUME destroy_timers(l)
      PROVE  /\ timeout' = [timeout EXCEPT ![l] = <<>>]
             /\ <<>> \in Seq(Entry)
             /\ \E o \in SUBSET (Ptr \X Ptr) : older' = [older EXCEPT ![l] = o]
    <2>1. timeout' = [timeout EXCEPT ![l] = <<>>] /\ older' = [older EXCEPT ![l] = {}]
        BY <1>7 DEF destroy_timers
    <2>2. <<>> \in Seq(Entry) /\ {} \in SUBSET (Ptr \X Ptr)
        OBVIOUS
    <2> QED BY <2>1, <2>2
<1>8. /\ \E q \in Seq(Entry) : timeout' = [timeout EXCEPT ![l] = q]
      /\ \E o \in SUBSET (Ptr \X Ptr) : older' = [older EXCEPT ![l] = o]
    BY <1>4, <1>5, <1>6, <1>7 DEF ListStep
<1> QED BY <1>1, <1>8

\* The steps that touch no list leave the lists alone.
NoListStep ==
    \/ \E l \in Loops :
        \/ init_timers(l) \/ Poll(l) \/ expire_timers(l)
        \/ ExpireHead(l) /\ UNCHANGED timers /\ pc' = [pc EXCEPT ![l] = "host"]
        \/ HandlerReturns(l) \/ ScanEntry(l) \/ SignalHandlerReturns(l)
        \/ \E s \in Sig : eloop_register_signal(l, s)
    \/ \E s \in Sig : eloop_handle_signal(s)
    \/ eloop_handle_alarm \/ ClockTick \/ UNCHANGED vars

\* Every step is one of these, and what it does to the list of a loop.
LEMMA NsSteps ==
    ASSUME TimersTypeOK, [Next]_vars
    PROVE  \/ NoListStep
           \/ \E l \in Loops :
                  \/ destroy_timers(l)
                  \/ \E h \in Handler, d \in Delay :
                         eloop_register_timeout(l, d[1], d[2], h)
                  \/ \E h \in Handler : eloop_cancel_timeout(l, h)
                  \/ ExpireHead(l) /\ NsPops(l)
BY NsExpirePops DEF Next, NoListStep

LEMMA TimersTypeStep == ASSUME TimersTypeOK, [Next]_vars PROVE TimersTypeOK'
<1>1. ASSUME NEW l \in Loops, init_timers(l) PROVE TimersTypeOK'
    BY <1>1 DEF init_timers, TimersTypeOK, timers, Places
<1>2. ASSUME NEW l \in Loops, Poll(l) PROVE TimersTypeOK'
    <2>1. now \in NormalTime /\ Milli \in Int
        BY NsTimersAssumption DEF TimersTypeOK
    <2>2. Instant(now) \in Int /\ find_nearest_timeout_ms(l) \in Int
        BY <2>1, InstantFacts, NearestIsNumber
    <2>3. Instant(now) + find_nearest_timeout_ms(l) * Milli \in Int
        BY <2>1, <2>2
    <2> QED BY <1>2, <2>3 DEF Poll, TimersTypeOK, timers, Places
<1>3. ASSUME NEW l \in Loops, expire_timers(l) PROVE TimersTypeOK'
    <2>1. /\ pc[l] \in {"poll", "host"}
          /\ pc' = [pc EXCEPT ![l] = "signals"] \/ pc' = [pc EXCEPT ![l] = "timers"]
          /\ until' = [until EXCEPT ![l] = 0]
          /\ UNCHANGED <<now, timeout, firing, older>>
        BY <1>3 DEF expire_timers, timers
    <2>2. until' \in [Loops -> Int]
        BY <2>1 DEF TimersTypeOK
    <2>5. \E w \in Places : pc' = [pc EXCEPT ![l] = w]
        BY <2>1 DEF Places
    <2>6. pc' \in [Loops -> Places]
        BY <2>5 DEF TimersTypeOK
    <2>3. firing[l] = NoEntry /\ pc'[l] # "callback"
        BY <2>1 DEF TimersTypeOK
    <2>4. \A k \in Loops : k = l \/ pc'[k] = pc[k]
        BY <2>1 DEF TimersTypeOK
    <2> QED BY <2>1, <2>2, <2>3, <2>4, <2>6 DEF TimersTypeOK
<1>4. ASSUME NEW l \in Loops, ExpireHead(l), UNCHANGED timers, pc' = [pc EXCEPT ![l] = "host"]
      PROVE  TimersTypeOK'
    BY <1>4 DEF ExpireHead, TimersTypeOK, timers, Places
<1>5. ASSUME NEW l \in Loops, HandlerReturns(l) PROVE TimersTypeOK'
    BY <1>5 DEF HandlerReturns, TimersTypeOK, Places
<1>6. ASSUME NEW l \in Loops, ScanEntry(l) PROVE TimersTypeOK'
    <2>1. /\ pc[l] = "signals"
          /\ \/ pc' = [pc EXCEPT ![l] = "timers"]
             \/ pc' = [pc EXCEPT ![l] = "handler"]
             \/ pc' = pc
          /\ UNCHANGED <<now, timers, until>>
        BY <1>6 DEF ScanEntry
    <2> QED BY <2>1 DEF TimersTypeOK, timers, Places
<1>7. ASSUME NEW l \in Loops, SignalHandlerReturns(l) PROVE TimersTypeOK'
    BY <1>7 DEF SignalHandlerReturns, TimersTypeOK, timers, Places
<1>8. ASSUME NEW l \in Loops, NEW s \in Sig, eloop_register_signal(l, s) PROVE TimersTypeOK'
    BY <1>8 DEF eloop_register_signal, TimersTypeOK, timers
<1>9. ASSUME NEW s \in Sig, eloop_handle_signal(s) PROVE TimersTypeOK'
    BY <1>9 DEF eloop_handle_signal, TimersTypeOK, timers
<1>10. CASE eloop_handle_alarm
    BY <1>10 DEF eloop_handle_alarm, TimersTypeOK, timers, Places
<1>11. CASE ClockTick
    <2>1. now' \in NormalTime
        BY <1>11, AfterIsNormal DEF ClockTick, TimersTypeOK
    <2> QED BY <1>11, <2>1 DEF ClockTick, TimersTypeOK, timers
<1>12. CASE UNCHANGED vars
    BY <1>12 DEF vars, timers, TimersTypeOK
<1>13. ASSUME NEW l \in Loops, destroy_timers(l) PROVE TimersTypeOK'
    <2>1. ListStep(l)
        BY <1>13 DEF ListStep
    <2> QED BY <1>13, <2>1, ListStepTypes DEF destroy_timers, TimersTypeOK, Places
<1>14. ASSUME NEW l \in Loops, NEW d \in Delay, NEW h \in Handler,
              eloop_register_timeout(l, d[1], d[2], h)
       PROVE  TimersTypeOK'
    <2>1. ListStep(l)
        BY <1>14, NsRegisterLinks DEF ListStep
    <2> QED BY <1>14, <2>1, ListStepTypes DEF eloop_register_timeout, TimersTypeOK
<1>15. ASSUME NEW l \in Loops, NEW h \in Handler, eloop_cancel_timeout(l, h)
       PROVE  TimersTypeOK'
    <2>1. ListStep(l)
        BY <1>15, NsCancelUnlinks DEF ListStep
    <2> QED BY <1>15, <2>1, ListStepTypes DEF eloop_cancel_timeout, TimersTypeOK
<1>16. ASSUME NEW l \in Loops, ExpireHead(l), NsPops(l) PROVE TimersTypeOK'
    <2>1. ListStep(l) /\ timeout[l] \in Seq(Entry) /\ timeout[l] # <<>>
        BY <1>16 DEF ListStep, NsPops, TimersTypeOK
    <2>2. timeout[l][1] \in Entry /\ timeout[l][1] # NoEntry
        BY <2>1, TailFacts, ElementOfSeq, NsTimersAssumption
    <2>3. /\ pc[l] = "timers" /\ UNCHANGED <<now, until>>
          /\ firing' = [firing EXCEPT ![l] = timeout[l][1]]
          /\ pc' = [pc EXCEPT ![l] = "callback"]
        BY <1>16 DEF ExpireHead, NsPops
    <2> QED BY <2>1, <2>2, <2>3, ListStepTypes DEF TimersTypeOK, Places
<1> QED BY NsSteps, <1>1, <1>2, <1>3, <1>4, <1>5, <1>6, <1>7, <1>8, <1>9, <1>10, <1>11,
           <1>12, <1>13, <1>14, <1>15, <1>16 DEF NoListStep

\* A list that is touched stays in order, the others are left alone.
LEMMA ListsStep == ASSUME TimersTypeOK, ListsInOrder, [Next]_vars PROVE ListsInOrder'
<1>1. ASSUME UNCHANGED timers PROVE ListsInOrder'
    BY <1>1 DEF timers, ListsInOrder
<1>2. ASSUME NoListStep PROVE UNCHANGED <<timeout, older>>
    BY <1>2 DEF NoListStep, init_timers, Poll, expire_timers, HandlerReturns, ScanEntry,
       SignalHandlerReturns, eloop_register_signal, eloop_handle_signal,
       eloop_handle_alarm, ClockTick, vars, timers
<1>3. ASSUME NoListStep PROVE ListsInOrder'
    BY <1>2, <1>3 DEF ListsInOrder
<1>4. ASSUME NEW l \in Loops, ListStep(l), Apart(timeout'[l]), Ordered(timeout'[l], older'[l])
      PROVE  ListsInOrder'
    BY <1>4, ListStepTypes DEF ListsInOrder
<1>5. ASSUME NEW l \in Loops
      PROVE  /\ timeout[l] \in Seq(Entry) /\ Apart(timeout[l]) /\ Ordered(timeout[l], older[l])
             /\ l \in DOMAIN timeout /\ l \in DOMAIN older
    BY DEF TimersTypeOK, ListsInOrder
<1>6. ASSUME NEW l \in Loops, destroy_timers(l) PROVE ListsInOrder'
    <2>1. timeout'[l] = <<>> /\ older'[l] = {} /\ ListStep(l)
        BY <1>5, <1>6 DEF destroy_timers, ListStep
    <2>2. Apart(<<>>) /\ Ordered(<<>>, {})
        BY DEF Apart, Ordered
    <2> QED BY <1>4, <2>1, <2>2
<1>7. ASSUME NEW l \in Loops, NEW d \in Delay, NEW h \in Handler,
             eloop_register_timeout(l, d[1], d[2], h)
      PROVE  ListsInOrder'
    <2>1. PICK e : NsLinks(l, e)
        BY <1>7, NsRegisterLinks
    <2>2. /\ e \in Entry /\ ListStep(l)
          /\ \A f \in Entries(timeout[l]) : f.ptr # e.ptr
          /\ timeout'[l] = Insert(timeout[l], e)
          /\ older'[l] = older[l] \cup {<<f.ptr, e.ptr>> : f \in Entries(timeout[l])}
        BY <1>5, <2>1 DEF NsLinks, ListStep
    <2>3. /\ Apart(Insert(timeout[l], e))
          /\ Ordered(Insert(timeout[l], e),
                     older[l] \cup {<<f.ptr, e.ptr>> : f \in Entries(timeout[l])})
        BY <1>5, <2>2, NsEntryTimes, InsertOrdered
    <2> QED BY <1>4, <2>2, <2>3
<1>8. ASSUME NEW l \in Loops, NEW h \in Handler, eloop_cancel_timeout(l, h)
      PROVE  ListsInOrder'
    <2>1. NsUnlinks(l, h) /\ ListStep(l)
        BY <1>8, NsCancelUnlinks DEF ListStep
    <2>2. /\ timeout'[l] = Remaining(timeout[l], h, l, ALL)
          /\ older'[l] = Without(older[l], {e \in Entries(timeout[l]) : Matches(e, h, l, ALL)})
        BY <1>5, <2>1 DEF NsUnlinks
    <2>3. Apart(timeout'[l]) /\ Ordered(timeout'[l], older'[l])
        BY <1>5, <2>2, RemainingOrdered
    <2> QED BY <1>4, <2>1, <2>3
<1>9. ASSUME NEW l \in Loops, NsPops(l) PROVE ListsInOrder'
    <2>1. /\ ListStep(l) /\ timeout[l] # <<>>
          /\ timeout'[l] = Tail(timeout[l])
          /\ older'[l] = Without(older[l], {timeout[l][1]})
        BY <1>5, <1>9 DEF NsPops, ListStep
    <2>2. /\ Apart(Tail(timeout[l]))
          /\ Ordered(Tail(timeout[l]), Without(older[l], {timeout[l][1]}))
        BY <1>5, <2>1, TailOrdered
    <2> QED BY <1>4, <2>1, <2>2
<1> QED BY NsSteps, <1>3, <1>6, <1>7, <1>8, <1>9

-----------------------------------------------------------------------------
(* The sleep of the owner's poll *)

\* The time left of an entry that is not due is its distance, not negative.
LEMMA TimeLeftFacts ==
    ASSUME NEW a \in NormalTime, NEW b \in NormalTime, Before(b, a)
    PROVE  /\ Sub(a, b).sec \in Nat /\ Sub(a, b).usec \in Nat
           /\ Instant(b) + Sub(a, b).sec * Usec + Sub(a, b).usec = Instant(a)
<1>1. /\ a.sec \in Int /\ a.usec \in Nat /\ a.usec < Usec
      /\ b.sec \in Int /\ b.usec \in Nat /\ b.usec < Usec
      /\ Usec \in Nat
    BY UsecAssumption DEF NormalTime
<1>2. Sub(a, b).sec \in Nat /\ Sub(a, b).usec \in Nat
    BY <1>1 DEF Sub, Before
<1> QED BY <1>2, SubInstant

\* Milliseconds do not exceed the time they are cut from.
LEMMA InMsIsShort ==
    ASSUME NEW s \in Nat, NEW u \in Nat, NEW left, left.sec = s, left.usec = u
    PROVE  InMs(left) * Milli <= s * Usec + u
<1>1. /\ Usec \in Nat \ {0} /\ Milli \in Nat \ {0} /\ UInt \in Nat \ {0}
      /\ Usec % Milli = 0
    BY UsecAssumption, NsTimersAssumption
<1> DEFINE k == Usec \div Milli
           m == u \div Milli
           x == s * k + m
<1>2. k \in Nat /\ k * Milli = Usec
    BY <1>1
<1>3. m \in Nat /\ m * Milli <= u
    BY <1>1
<1> HIDE DEF k, m
<1>4. x \in Nat
    BY <1>2, <1>3
<1>5. x * Milli = s * (k * Milli) + m * Milli
    BY <1>1, <1>2, <1>3
<1> HIDE DEF x
<1>6. x % UInt \in Nat /\ x % UInt <= x
    BY <1>1, <1>4
<1>7. (x % UInt) * Milli <= x * Milli
    BY <1>1, <1>4, <1>6
<1>8. s * (k * Milli) + m * Milli <= s * Usec + u
    <2>1. s * (k * Milli) = s * Usec
        BY <1>2
    <2>2. s * Usec \in Nat /\ m * Milli \in Nat
        BY <1>1, <1>3
    <2> QED BY <1>3, <2>1, <2>2
<1>9. InMs(left) = x % UInt
    BY DEF InMs, x, k, m
<1>10. /\ (x % UInt) * Milli \in Int /\ x * Milli \in Int
       /\ s * Usec + u \in Int
    BY <1>1, <1>4, <1>6
<1> HIDE DEF k
<1> QED BY <1>5, <1>7, <1>8, <1>9, <1>10

\* The time that find_nearest_timeout_ms returns ends at or before every entry.
LEMMA NearestIsShort ==
    ASSUME TimersTypeOK, ListsInOrder, NEW l \in Loops, NEW e \in Pending(l)
    PROVE  LET wake == Instant(now) + find_nearest_timeout_ms(l) * Milli
           IN  wake <= Instant(now) \/ wake <= Instant(e.time)
<1> DEFINE head == timeout[l][1].time
           left == TimeLeft(l)
           ms == find_nearest_timeout_ms(l)
<1>1. /\ timeout[l] \in Seq(Entry) /\ Ordered(timeout[l], older[l])
      /\ timeout[l] # <<>> /\ e \in Entries(timeout[l])
    BY DEF TimersTypeOK, ListsInOrder, Pending, Entries
<1>2. /\ head \in NormalTime /\ now \in NormalTime /\ e.time \in NormalTime
      /\ ~ Before(e.time, head)
    BY <1>1, NsEntryTimes, HeadFacts DEF TimersTypeOK
<1>3. /\ Instant(head) \in Int /\ Instant(now) \in Int /\ Instant(e.time) \in Int
      /\ Instant(head) <= Instant(e.time)
    BY <1>2, InstantFacts, BeforeInstant
<1>4. /\ Usec \in Nat \ {0} /\ Milli \in Nat \ {0} /\ UInt \in Nat \ {0} /\ Far \in Nat \ {0}
      /\ (UInt - 1) * Milli <= Far * Usec
    BY UsecAssumption, NsTimersAssumption
<1>5. ASSUME ~ Before(now, head) PROVE Instant(now) + ms * Milli <= Instant(now)
    <2>1. left.sec = 0 /\ left.usec = 0
        BY <1>1, <1>5 DEF TimeLeft
    <2>2. ms = InMs(left)
        BY <1>4, <2>1 DEF find_nearest_timeout_ms
    <2> HIDE DEF left
    <2>3. InMs(left) * Milli <= 0 * Usec + 0
        BY <2>1, InMsIsShort
    <2>4. ms * Milli \in Int
        BY <1>4, NearestIsNumber
    <2> QED BY <1>3, <1>4, <2>2, <2>3, <2>4
<1>6. ASSUME Before(now, head) PROVE Instant(now) + ms * Milli <= Instant(head)
    <2>1. /\ left.sec \in Nat /\ left.usec \in Nat
          /\ Instant(now) + left.sec * Usec + left.usec = Instant(head)
        BY <1>1, <1>2, <1>6, TimeLeftFacts DEF TimeLeft
    <2> HIDE DEF left
    <2>2. ms * Milli <= left.sec * Usec + left.usec
        <3>1. CASE left.sec >= Far
            <4>1. ms = UInt - 1
                BY <3>1 DEF find_nearest_timeout_ms, left
            <4>2. Far * Usec <= left.sec * Usec
                BY <1>4, <2>1, <3>1
            <4>3. /\ Far * Usec \in Int /\ left.sec * Usec \in Int
                  /\ (UInt - 1) * Milli \in Int
                BY <1>4, <2>1
            <4> QED BY <1>4, <2>1, <4>1, <4>2, <4>3
        <3>2. CASE ~ left.sec >= Far
            <4>1. ms = InMs(left)
                BY <3>2 DEF find_nearest_timeout_ms, left
            <4> QED BY <2>1, <4>1, InMsIsShort
        <3> QED BY <3>1, <3>2
    <2>3. ms * Milli \in Int /\ left.sec * Usec \in Int
        BY <1>4, <2>1, NearestIsNumber
    <2> HIDE DEF ms, head
    <2> QED BY <1>3, <2>1, <2>2, <2>3
<1>7. ms * Milli \in Int
    BY <1>4, NearestIsNumber
<1> HIDE DEF ms, head
<1>8. Instant(now) + ms * Milli <= Instant(now) \/ Instant(now) + ms * Milli <= Instant(e.time)
    BY <1>3, <1>5, <1>6, <1>7
<1> QED BY <1>8 DEF ms

\* A poll that goes on keeps its time and its list: only the owner's thread
\* changes them, and it is in the poll.
LEMMA PollIsKept ==
    ASSUME TimersTypeOK, [Next]_vars, NEW l \in Loops, pc'[l] = "poll", ~ Poll(l)
    PROVE  pc[l] = "poll" /\ until'[l] = until[l] /\ timeout'[l] = timeout[l]
<1>1. \A k \in Loops : l \in DOMAIN pc /\ l \in DOMAIN until /\ l \in DOMAIN timeout
    BY DEF TimersTypeOK
<1>2. ASSUME NEW k \in Loops, ListStep(k), k # l PROVE timeout'[l] = timeout[l]
    BY <1>2, ListStepTypes
<1>3. ASSUME NEW k \in Loops, destroy_timers(k)
      PROVE  pc[l] = "poll" /\ until'[l] = until[l] /\ timeout'[l] = timeout[l]
    <2>1. k # l /\ pc[l] = "poll" /\ until'[l] = until[l]
        BY <1>1, <1>3 DEF destroy_timers
    <2> QED BY <1>2, <1>3, <2>1 DEF ListStep
<1>4. ASSUME NEW k \in Loops, NEW d \in Delay, NEW h \in Handler,
             eloop_register_timeout(k, d[1], d[2], h)
      PROVE  pc[l] = "poll" /\ until'[l] = until[l] /\ timeout'[l] = timeout[l]
    <2>1. k # l /\ pc[l] = "poll" /\ until'[l] = until[l]
        BY <1>4 DEF eloop_register_timeout, InApplication
    <2> QED BY <1>2, <1>4, <2>1, NsRegisterLinks DEF ListStep
<1>5. ASSUME NEW k \in Loops, NEW h \in Handler, eloop_cancel_timeout(k, h)
      PROVE  pc[l] = "poll" /\ until'[l] = until[l] /\ timeout'[l] = timeout[l]
    <2>1. k # l /\ pc[l] = "poll" /\ until'[l] = until[l]
        BY <1>5 DEF eloop_cancel_timeout, InApplication
    <2> QED BY <1>2, <1>5, <2>1, NsCancelUnlinks DEF ListStep
<1>6. ASSUME NEW k \in Loops, ExpireHead(k), NsPops(k)
      PROVE  pc[l] = "poll" /\ until'[l] = until[l] /\ timeout'[l] = timeout[l]
    <2>1. k # l /\ pc[l] = "poll" /\ until'[l] = until[l]
        BY <1>1, <1>6 DEF ExpireHead, NsPops
    <2> QED BY <1>2, <1>6, <2>1 DEF ListStep
<1>7. ASSUME NoListStep
      PROVE  pc[l] = "poll" /\ until'[l] = until[l] /\ timeout'[l] = timeout[l]
    <2>1. CASE \E k \in Loops : init_timers(k) \/ Poll(k) \/ HandlerReturns(k)
        BY <1>1, <2>1 DEF init_timers, Poll, HandlerReturns, timers
    <2>2. CASE \E k \in Loops : expire_timers(k)
        BY <1>1, <2>2 DEF expire_timers, timers
    <2>3. CASE \E k \in Loops :
                   \/ ExpireHead(k) /\ UNCHANGED timers /\ pc' = [pc EXCEPT ![k] = "host"]
                   \/ SignalHandlerReturns(k)
        BY <1>1, <2>3 DEF ExpireHead, SignalHandlerReturns, timers
    <2>4. CASE \E k \in Loops : ScanEntry(k)
        <3>1. PICK k \in Loops : /\ \/ pc' = [pc EXCEPT ![k] = "timers"]
                                    \/ pc' = [pc EXCEPT ![k] = "handler"]
                                    \/ pc' = pc
                                 /\ UNCHANGED <<timeout, until>>
            BY <2>4 DEF ScanEntry, timers
        <3> QED BY <1>1, <3>1
    <2>5. CASE \/ \E k \in Loops, s \in Sig : eloop_register_signal(k, s)
               \/ \E s \in Sig : eloop_handle_signal(s)
               \/ ClockTick \/ UNCHANGED vars
        BY <2>5 DEF eloop_register_signal, eloop_handle_signal, ClockTick, vars, timers
    <2>6. CASE eloop_handle_alarm
        BY <2>6 DEF eloop_handle_alarm
    <2> QED BY <1>7, <2>1, <2>2, <2>3, <2>4, <2>5, <2>6 DEF NoListStep
<1> QED BY NsSteps, <1>3, <1>4, <1>5, <1>6, <1>7

\* Only a tick moves the clock, and forward.
LEMMA ClockIsMonotone ==
    ASSUME TimersTypeOK, [Next]_vars
    PROVE  /\ now' = now \/ ClockTick
           /\ Instant(now) <= Instant(now')
<1>1. now' = now \/ ClockTick
    BY DEF Next, init_timers, destroy_timers, eloop_register_timeout, eloop_cancel_timeout,
       Poll, expire_timers, ExpireHead, HandlerReturns, eloop_register_signal, ScanEntry,
       SignalHandlerReturns, eloop_handle_signal, eloop_handle_alarm, vars
<1>2. Instant(now) \in Int /\ Instant(After(now, 0, 1)) = Instant(now) + 1
    BY InstantFacts DEF TimersTypeOK
<1>3. CASE now' = now
    BY <1>1, <1>2, <1>3
<1>4. CASE ClockTick
    BY <1>2, <1>4 DEF ClockTick
<1> QED BY <1>1, <1>3, <1>4

\* The time is right when the poll begins, and the list does not change while
\* it lasts.
LEMMA SleepsStep ==
    ASSUME TimersTypeOK, ListsInOrder, SleepsInTime, [Next]_vars
    PROVE  SleepsInTime'
<1> SUFFICES ASSUME NEW l \in Loops, pc'[l] = "poll", Instant(now') < until'[l],
                    NEW e \in Pending(l)'
             PROVE  until'[l] <= Instant(e.time)
    BY DEF SleepsInTime
<1>1. CASE Poll(l)
    <2>1. /\ until'[l] = Instant(now) + find_nearest_timeout_ms(l) * Milli
          /\ now' = now /\ e \in Pending(l)
        BY <1>1 DEF Poll, TimersTypeOK, timers, Pending
    <2>2. \/ until'[l] <= Instant(now)
          \/ until'[l] <= Instant(e.time)
        BY <2>1, NearestIsShort
    <2>3. until'[l] \in Int /\ Instant(now) \in Int
        BY <1>1, TimersTypeStep, InstantFacts DEF TimersTypeOK
    <2> QED BY <2>1, <2>2, <2>3
<1>2. CASE ~ Poll(l)
    <2>1. pc[l] = "poll" /\ until'[l] = until[l] /\ timeout'[l] = timeout[l]
        BY <1>2, PollIsKept
    <2>2. Instant(now) <= Instant(now')
        BY ClockIsMonotone
    <2>3. Pending(l)' = Pending(l)
        BY <2>1 DEF Pending
    <2>4. until[l] \in Int /\ Instant(now) \in Int /\ Instant(now') \in Int
        BY TimersTypeStep, InstantFacts DEF TimersTypeOK
    <2>5. Instant(now) < until[l] /\ e \in Pending(l)
        BY <2>1, <2>2, <2>3, <2>4
    <2> QED BY <2>1, <2>5 DEF SleepsInTime
<1> QED BY <1>1, <1>2

\* Only entries that are pending are known to be older than others.
OlderArePending ==
    \A l \in Loops : \A r \in older[l] : \E e \in Entries(timeout[l]) : r[1] = e.ptr

TimersInv == TimersTypeOK /\ ListsInOrder /\ OlderArePending /\ SleepsInTime

\* What is unlinked leaves no trace in the order.
LEMMA OlderStep == ASSUME TimersTypeOK, OlderArePending, [Next]_vars PROVE OlderArePending'
<1>1. ASSUME NoListStep PROVE OlderArePending'
    <2>1. UNCHANGED <<timeout, older>>
        BY <1>1 DEF NoListStep, init_timers, Poll, expire_timers, HandlerReturns, ScanEntry,
           SignalHandlerReturns, eloop_register_signal, eloop_handle_signal,
           eloop_handle_alarm, ClockTick, vars, timers
    <2> QED BY <2>1 DEF OlderArePending
<1>2. ASSUME NEW l \in Loops, ListStep(l),
             \A r \in older'[l] : \E e \in Entries(timeout'[l]) : r[1] = e.ptr
      PROVE  OlderArePending'
    <2> SUFFICES ASSUME NEW k \in Loops, NEW r \in older'[k]
                 PROVE  \E e \in Entries(timeout'[k]) : r[1] = e.ptr
        BY DEF OlderArePending
    <2>1. CASE k = l
        BY <1>2, <2>1
    <2>2. CASE k # l
        <3>1. timeout'[k] = timeout[k] /\ older'[k] = older[k]
            BY <1>2, <2>2, ListStepTypes
        <3> QED BY <3>1 DEF OlderArePending
    <2> QED BY <2>1, <2>2
<1>3. ASSUME NEW l \in Loops
      PROVE  /\ timeout[l] \in Seq(Entry) /\ l \in DOMAIN timeout /\ l \in DOMAIN older
             /\ \A r \in older[l] : \E e \in Entries(timeout[l]) : r[1] = e.ptr
    BY DEF TimersTypeOK, OlderArePending
<1>4. ASSUME NEW l \in Loops, destroy_timers(l) PROVE OlderArePending'
    <2>1. older'[l] = {} /\ ListStep(l)
        BY <1>3, <1>4 DEF destroy_timers, ListStep
    <2> QED BY <1>2, <2>1
<1>5. ASSUME NEW l \in Loops, NEW d \in Delay, NEW h \in Handler,
             eloop_register_timeout(l, d[1], d[2], h)
      PROVE  OlderArePending'
    <2>1. PICK e : NsLinks(l, e)
        BY <1>5, NsRegisterLinks
    <2>2. /\ e \in Entry /\ ListStep(l)
          /\ timeout'[l] = Insert(timeout[l], e)
          /\ older'[l] = older[l] \cup {<<f.ptr, e.ptr>> : f \in Entries(timeout[l])}
        BY <1>3, <2>1 DEF NsLinks, ListStep
    <2>3. Entries(timeout'[l]) = Entries(timeout[l]) \cup {e}
        BY <1>3, <2>2, InsertEntries
    <2>4. \A r \in older'[l] : \E f \in Entries(timeout'[l]) : r[1] = f.ptr
        BY <1>3, <2>2, <2>3
    <2> QED BY <1>2, <2>2, <2>4
<1>6. ASSUME NEW l \in Loops, NEW gone, ListStep(l),
             older'[l] = Without(older[l], gone),
             Entries(timeout[l]) \subseteq Entries(timeout'[l]) \cup gone
      PROVE  OlderArePending'
    <2>1. ASSUME NEW r \in older'[l] PROVE \E e \in Entries(timeout'[l]) : r[1] = e.ptr
        <3>1. r \in older[l] /\ \A g \in gone : r[1] # g.ptr
            BY <1>6, <2>1 DEF Without
        <3>2. PICK e \in Entries(timeout[l]) : r[1] = e.ptr
            BY <1>3, <3>1
        <3> QED BY <1>6, <3>1, <3>2
    <2> QED BY <1>2, <1>6, <2>1
<1>7. ASSUME NEW l \in Loops, NEW h \in Handler, eloop_cancel_timeout(l, h)
      PROVE  OlderArePending'
    <2> DEFINE gone == {e \in Entries(timeout[l]) : Matches(e, h, l, ALL)}
    <2>1. NsUnlinks(l, h) /\ ListStep(l)
        BY <1>7, NsCancelUnlinks DEF ListStep
    <2>2. timeout'[l] = Remaining(timeout[l], h, l, ALL) /\ older'[l] = Without(older[l], gone)
        BY <1>3, <2>1 DEF NsUnlinks
    <2>3. Entries(timeout'[l]) = {e \in Entries(timeout[l]) : ~ Matches(e, h, l, ALL)}
        BY <1>3, <2>2, RemainingFacts
    <2>4. Entries(timeout[l]) \subseteq Entries(timeout'[l]) \cup gone
        BY <2>3
    <2> HIDE DEF gone
    <2> QED BY <1>6, <2>1, <2>2, <2>4
<1>8. ASSUME NEW l \in Loops, NsPops(l) PROVE OlderArePending'
    <2>1. /\ ListStep(l) /\ timeout[l] # <<>>
          /\ timeout'[l] = Tail(timeout[l])
          /\ older'[l] = Without(older[l], {timeout[l][1]})
        BY <1>3, <1>8 DEF NsPops, ListStep
    <2>2. Entries(timeout[l]) = {timeout[l][1]} \cup Entries(timeout'[l])
        BY <1>3, <2>1, TailFacts
    <2> QED BY <1>6, <2>1, <2>2
<1> QED BY NsSteps, <1>1, <1>4, <1>5, <1>7, <1>8

LEMMA TimersInvStep == ASSUME TimersInv, [Next]_vars PROVE TimersInv'
BY TimersTypeStep, ListsStep, OlderStep, SleepsStep DEF TimersInv

LEMMA TimersInvInit == ASSUME Init PROVE TimersInv
<1>1. ListsInOrder /\ OlderArePending /\ SleepsInTime
    BY DEF Init, ListsInOrder, OlderArePending, Apart, Ordered, SleepsInTime
<1> QED BY <1>1, TimersTypeInit DEF TimersInv

\* find_nearest_timeout_ms cuts the time left of the head to milliseconds and to
\* an unsigned int, and gives its largest value when there is nothing to wait
\* for: none of this lets the owner of a loop sleep over a timeout, for any
\* number of timeouts, delays and widths of the integers.
THEOREM PollsAreShort == Spec => []SleepsInTime
<1>1. TimersInv => SleepsInTime
    BY DEF TimersInv
<1> QED BY TimersInvInit, TimersInvStep, <1>1, PTL DEF Spec

-----------------------------------------------------------------------------
(* The timer sets *)

\* What a step does to the pending entries P, their order O and the entry F that
\* is fired, in the terms of TimerSet; Q, R and G are those after the step.
Registers(P, Q, O, R) ==
    \E e \in Q \ P :
        /\ \A f \in P : f.ptr # e.ptr
        /\ ~ Before(e.time, now)
        /\ Q = P \cup {e}
        /\ R = O \cup {<<f.ptr, e.ptr>> : f \in P}
Fires(P, Q, O, R, G) ==
    \E e \in P :
        /\ ~ Before(now, e.time)
        /\ \A f \in P \ {e} : Goes(e, f, O)
        /\ Q = P \ {e}
        /\ R = Without(O, {e})
        /\ G = e
AsTimerSet(P, Q, O, R, F, G) ==
    \/ now' \in NormalTime /\ Before(now, now') /\ Q = P /\ R = O /\ G = F
    \/ now' = now /\ G = F /\ Registers(P, Q, O, R)
    \/ now' = now /\ G = F /\ Q \subseteq P /\ R = Without(O, P \ Q)
    \/ now' = now /\ F = NoEntry /\ Fires(P, Q, O, R, G)
    \/ now' = now /\ Q = P /\ R = O /\ (G = F \/ (F # NoEntry /\ G = NoEntry))

\* The lists of the loops are apart: a step of one leaves the other as it is.
LEMMA OtherLoop ==
    ASSUME TimersTypeOK, NEW l \in Loops, NEW k \in Loops \ {l}, ListStep(k),
           now' = now, firing'[l] = firing[l]
    PROVE  AsTimerSet(Entries(timeout[l]), Entries(timeout'[l]), older[l], older'[l],
                      firing[l], firing'[l])
<1>1. timeout'[l] = timeout[l] /\ older'[l] = older[l]
    BY ListStepTypes
<1> QED BY <1>1 DEF AsTimerSet

\* Every step is, for each loop, a step of a timer set or leaves it as it is.
LEMMA LoopIsTimerSet ==
    ASSUME TimersInv, [Next]_vars, NEW l \in Loops
    PROVE  AsTimerSet(Entries(timeout[l]), Entries(timeout'[l]), older[l], older'[l],
                      firing[l], firing'[l])
<1> DEFINE Step == AsTimerSet(Entries(timeout[l]), Entries(timeout'[l]),
                              older[l], older'[l], firing[l], firing'[l])
<1>0. /\ timeout[l] \in Seq(Entry) /\ Apart(timeout[l]) /\ Ordered(timeout[l], older[l])
      /\ \A k \in Loops : k \in DOMAIN timeout /\ k \in DOMAIN older /\ k \in DOMAIN firing
      /\ TimersTypeOK
    BY DEF TimersInv, TimersTypeOK, ListsInOrder
<1>1. ASSUME NEW k \in Loops, destroy_timers(k) PROVE Step
    <2>1. now' = now /\ firing' = firing
        BY <1>1 DEF destroy_timers
    <2>2. CASE k = l
        <3>1. timeout'[l] = <<>> /\ older'[l] = {}
            BY <1>0, <1>1, <2>2 DEF destroy_timers
        <3>2. Entries(timeout'[l]) = {}
            BY <3>1 DEF Entries
        <3>3. Without(older[l], Entries(timeout[l])) = {}
            BY DEF TimersInv, OlderArePending, Without
        <3>4. /\ Entries(timeout'[l]) \subseteq Entries(timeout[l])
              /\ Entries(timeout[l]) \ Entries(timeout'[l]) = Entries(timeout[l])
            BY <3>2
        <3>5. older'[l] = Without(older[l], Entries(timeout[l]) \ Entries(timeout'[l]))
            BY <3>1, <3>3, <3>4
        <3> QED BY <2>1, <3>4, <3>5 DEF AsTimerSet
    <2>3. CASE k # l
        BY <1>0, <1>1, <2>1, <2>3, OtherLoop DEF ListStep
    <2> QED BY <2>2, <2>3
<1>2. ASSUME NEW k \in Loops, NEW d \in Delay, NEW h \in Handler,
             eloop_register_timeout(k, d[1], d[2], h)
      PROVE  Step
    <2>1. now' = now /\ firing' = firing
        BY <1>2 DEF eloop_register_timeout
    <2>2. PICK e : NsLinks(k, e)
        BY <1>0, <1>2, NsRegisterLinks
    <2>3. CASE k = l
        <3>1. /\ e \in Entry /\ ~ Before(e.time, now)
              /\ \A f \in Entries(timeout[l]) : f.ptr # e.ptr
              /\ timeout'[l] = Insert(timeout[l], e)
              /\ older'[l] = older[l] \cup {<<f.ptr, e.ptr>> : f \in Entries(timeout[l])}
            BY <1>0, <2>2, <2>3 DEF NsLinks
        <3>2. Entries(timeout'[l]) = Entries(timeout[l]) \cup {e}
            BY <1>0, <3>1, InsertEntries
        <3>3. e \in Entries(timeout'[l]) \ Entries(timeout[l])
            BY <3>1, <3>2
        <3>4. Registers(Entries(timeout[l]), Entries(timeout'[l]), older[l], older'[l])
            BY <3>1, <3>2, <3>3 DEF Registers
        <3> QED BY <2>1, <3>4 DEF AsTimerSet
    <2>4. CASE k # l
        BY <1>0, <2>1, <2>2, <2>4, OtherLoop DEF ListStep
    <2> QED BY <2>3, <2>4
<1>3. ASSUME NEW k \in Loops, NEW h \in Handler, eloop_cancel_timeout(k, h) PROVE Step
    <2>1. now' = now /\ firing' = firing
        BY <1>3 DEF eloop_cancel_timeout
    <2>2. NsUnlinks(k, h)
        BY <1>3, NsCancelUnlinks
    <2>3. CASE k = l
        <3> DEFINE gone == {e \in Entries(timeout[l]) : Matches(e, h, l, ALL)}
        <3>1. /\ timeout'[l] = Remaining(timeout[l], h, l, ALL)
              /\ older'[l] = Without(older[l], gone)
            BY <1>0, <2>2, <2>3 DEF NsUnlinks
        <3>2. Entries(timeout'[l]) = {e \in Entries(timeout[l]) : ~ Matches(e, h, l, ALL)}
            BY <1>0, <3>1, RemainingFacts
        <3>3. Entries(timeout'[l]) \subseteq Entries(timeout[l])
              /\ Entries(timeout[l]) \ Entries(timeout'[l]) = gone
            BY <3>2
        <3> HIDE DEF gone
        <3> QED BY <2>1, <3>1, <3>3 DEF AsTimerSet
    <2>4. CASE k # l
        BY <1>0, <2>1, <2>2, <2>4, OtherLoop DEF ListStep
    <2> QED BY <2>3, <2>4
<1>4. ASSUME NEW k \in Loops, ExpireHead(k), NsPops(k) PROVE Step
    <2>1. now' = now /\ pc[k] = "timers"
        BY <1>4 DEF ExpireHead
    <2>2. CASE k = l
        <3> DEFINE e == timeout[l][1]
        <3>1. /\ timeout[l] # <<>> /\ ~ Before(now, e.time)
              /\ timeout'[l] = Tail(timeout[l])
              /\ older'[l] = Without(older[l], {e})
              /\ firing'[l] = e
            BY <1>0, <1>4, <2>2 DEF NsPops
        <3>2. /\ e \in Entries(timeout[l])
              /\ Entries(timeout'[l]) = Entries(timeout[l]) \ {e}
              /\ \A f \in Entries(timeout'[l]) : Goes(e, f, older[l])
            BY <1>0, <3>1, TailOrdered
        <3>3. firing[l] = NoEntry
            BY <1>0, <2>1, <2>2 DEF TimersTypeOK
        <3> HIDE DEF e
        <3>4. Fires(Entries(timeout[l]), Entries(timeout'[l]), older[l], older'[l], firing'[l])
            BY <3>1, <3>2 DEF Fires
        <3> QED BY <2>1, <3>3, <3>4 DEF AsTimerSet
    <2>3. CASE k # l
        <3>1. firing'[l] = firing[l]
            BY <1>0, <1>4, <2>3 DEF NsPops
        <3> QED BY <1>0, <1>4, <2>1, <2>3, <3>1, OtherLoop DEF ListStep
    <2> QED BY <2>2, <2>3
<1>5. ASSUME NoListStep PROVE Step
    <2>1. CASE \E k \in Loops : HandlerReturns(k)
        <3>1. PICK k \in Loops : HandlerReturns(k)
            BY <2>1
        <3>2. /\ now' = now /\ timeout' = timeout /\ older' = older
              /\ firing' = [firing EXCEPT ![k] = NoEntry] /\ pc[k] = "callback"
            BY <3>1 DEF HandlerReturns
        <3>3. firing'[l] = firing[l] \/ (firing[l] # NoEntry /\ firing'[l] = NoEntry)
            BY <1>0, <3>2 DEF TimersTypeOK
        <3> QED BY <3>2, <3>3 DEF AsTimerSet
    <2>2. CASE ClockTick
        <3>1. now' \in NormalTime /\ Before(now, now')
            BY <1>0, <2>2, TickIsLater, AfterIsNormal DEF ClockTick, TimersTypeOK
        <3>2. UNCHANGED timers
            BY <2>2 DEF ClockTick
        <3> QED BY <3>1, <3>2 DEF timers, AsTimerSet
    <2>3. CASE ~ ClockTick /\ ~ \E k \in Loops : HandlerReturns(k)
        <3>1. UNCHANGED <<now, timeout, firing, older>>
            BY <1>5, <2>3 DEF NoListStep, init_timers, Poll, expire_timers, ExpireHead,
               ScanEntry, SignalHandlerReturns, eloop_register_signal,
               eloop_handle_signal, eloop_handle_alarm, vars, timers
        <3> QED BY <3>1 DEF AsTimerSet
    <2> QED BY <2>1, <2>2, <2>3
<1> QED BY <1>0, NsSteps, <1>1, <1>2, <1>3, <1>4, <1>5

\* Every step is a step of the timer set of the first loop, or leaves it as it is.
LEMMA MainSetStep ==
    ASSUME AsTimerSet(Entries(timeout[Main]), Entries(timeout'[Main]), older[Main],
                      older'[Main], firing[Main], firing'[Main])
    PROVE  [MainTimers!Next]_MainTimers!vars
<1> DEFINE P == Entries(timeout[Main])
           Q == Entries(timeout'[Main])
<1>1. P = Pending(Main) /\ Q = Pending(Main)'
    BY DEF Pending
<1> HIDE DEF P, Q
<1>2. CASE now' \in NormalTime /\ Before(now, now') /\ Q = P
           /\ older'[Main] = older[Main] /\ firing'[Main] = firing[Main]
    BY <1>1, <1>2 DEF MainTimers!ClockAdvances, MainTimers!Next, Before, MainTimers!Before,
       NormalTime, MainTimers!NormalTime
<1>3. CASE now' = now /\ firing'[Main] = firing[Main]
           /\ Registers(P, Q, older[Main], older'[Main])
    <2>1. PICK e \in Q \ P :
           /\ \A f \in P : f.ptr # e.ptr
           /\ ~ Before(e.time, now)
           /\ Q = P \cup {e}
           /\ older'[Main] = older[Main] \cup {<<f.ptr, e.ptr>> : f \in P}
        BY <1>3 DEF Registers
    <2>2. ~ MainTimers!Before(e.time, now)
        BY <2>1 DEF Before, MainTimers!Before
    <2>3. MainTimers!Register
        BY <1>1, <1>3, <2>1, <2>2 DEF MainTimers!Register
    <2> QED BY <2>3 DEF MainTimers!Next
<1>4. CASE now' = now /\ firing'[Main] = firing[Main] /\ Q \subseteq P
           /\ older'[Main] = Without(older[Main], P \ Q)
    <2>1. MainTimers!Cancel
        BY <1>1, <1>4 DEF MainTimers!Cancel, MainTimers!OlderWithout, Without
    <2> QED BY <2>1 DEF MainTimers!Next
<1>5. CASE now' = now /\ firing[Main] = NoEntry
           /\ Fires(P, Q, older[Main], older'[Main], firing'[Main])
    <2>1. PICK e \in P :
           /\ ~ Before(now, e.time)
           /\ \A f \in P \ {e} : Goes(e, f, older[Main])
           /\ Q = P \ {e}
           /\ older'[Main] = Without(older[Main], {e})
           /\ firing'[Main] = e
        BY <1>5 DEF Fires
    <2>2. ~ MainTimers!Before(now, e.time)
        BY <2>1 DEF Before, MainTimers!Before
    <2>3. \A f \in P \ {e} : MainTimers!Precedes(e, f)
        BY <2>1 DEF Goes, MainTimers!Precedes, Before, MainTimers!Before
    <2>4. older'[Main] = MainTimers!OlderWithout({e})
        <3>1. Without(older[Main], {e}) = MainTimers!OlderWithout({e})
            BY DEF Without, MainTimers!OlderWithout
        <3> QED BY <2>1, <3>1
    <2>5. /\ e \in Pending(Main) /\ Pending(Main)' = Pending(Main) \ {e}
          /\ \A f \in Pending(Main) \ {e} : MainTimers!Precedes(e, f)
        BY <1>1, <2>1, <2>3
    <2>6. MainTimers!Fire
        BY <1>5, <2>1, <2>2, <2>4, <2>5, Zenon DEF MainTimers!Fire
    <2> QED BY <2>6 DEF MainTimers!Next
<1>6. CASE now' = now /\ Q = P /\ older'[Main] = older[Main] /\ firing[Main] # NoEntry
           /\ firing'[Main] = NoEntry
    BY <1>1, <1>6 DEF MainTimers!Done, MainTimers!Next
<1>7. CASE now' = now /\ Q = P /\ older'[Main] = older[Main] /\ firing'[Main] = firing[Main]
    BY <1>1, <1>7 DEF MainTimers!vars
<1>8. AsTimerSet(P, Q, older[Main], older'[Main], firing[Main], firing'[Main])
    BY DEF P, Q
<1> QED BY <1>2, <1>3, <1>4, <1>5, <1>6, <1>7, <1>8 DEF AsTimerSet

LEMMA MainSetInit == Init => MainTimers!Init
<1>1. [sec |-> 0, usec |-> 0] \in MainTimers!NormalTime
    BY UsecAssumption DEF MainTimers!NormalTime
<1>2. Entries(<<>>) = {}
    BY DEF Entries
<1> QED BY <1>1, <1>2 DEF Init, MainTimers!Init, Pending, Loops

\* Every step is a step of the timer set of the other loop, or leaves it as it is.
LEMMA ServerSetStep ==
    ASSUME AsTimerSet(Entries(timeout[Server]), Entries(timeout'[Server]), older[Server],
                      older'[Server], firing[Server], firing'[Server])
    PROVE  [ServerTimers!Next]_ServerTimers!vars
<1> DEFINE P == Entries(timeout[Server])
           Q == Entries(timeout'[Server])
<1>1. P = Pending(Server) /\ Q = Pending(Server)'
    BY DEF Pending
<1> HIDE DEF P, Q
<1>2. CASE now' \in NormalTime /\ Before(now, now') /\ Q = P
           /\ older'[Server] = older[Server] /\ firing'[Server] = firing[Server]
    BY <1>1, <1>2 DEF ServerTimers!ClockAdvances, ServerTimers!Next, Before, ServerTimers!Before,
       NormalTime, ServerTimers!NormalTime
<1>3. CASE now' = now /\ firing'[Server] = firing[Server]
           /\ Registers(P, Q, older[Server], older'[Server])
    <2>1. PICK e \in Q \ P :
           /\ \A f \in P : f.ptr # e.ptr
           /\ ~ Before(e.time, now)
           /\ Q = P \cup {e}
           /\ older'[Server] = older[Server] \cup {<<f.ptr, e.ptr>> : f \in P}
        BY <1>3 DEF Registers
    <2>2. ~ ServerTimers!Before(e.time, now)
        BY <2>1 DEF Before, ServerTimers!Before
    <2>3. ServerTimers!Register
        BY <1>1, <1>3, <2>1, <2>2 DEF ServerTimers!Register
    <2> QED BY <2>3 DEF ServerTimers!Next
<1>4. CASE now' = now /\ firing'[Server] = firing[Server] /\ Q \subseteq P
           /\ older'[Server] = Without(older[Server], P \ Q)
    <2>1. ServerTimers!Cancel
        BY <1>1, <1>4 DEF ServerTimers!Cancel, ServerTimers!OlderWithout, Without
    <2> QED BY <2>1 DEF ServerTimers!Next
<1>5. CASE now' = now /\ firing[Server] = NoEntry
           /\ Fires(P, Q, older[Server], older'[Server], firing'[Server])
    <2>1. PICK e \in P :
           /\ ~ Before(now, e.time)
           /\ \A f \in P \ {e} : Goes(e, f, older[Server])
           /\ Q = P \ {e}
           /\ older'[Server] = Without(older[Server], {e})
           /\ firing'[Server] = e
        BY <1>5 DEF Fires
    <2>2. ~ ServerTimers!Before(now, e.time)
        BY <2>1 DEF Before, ServerTimers!Before
    <2>3. \A f \in P \ {e} : ServerTimers!Precedes(e, f)
        BY <2>1 DEF Goes, ServerTimers!Precedes, Before, ServerTimers!Before
    <2>4. older'[Server] = ServerTimers!OlderWithout({e})
        <3>1. Without(older[Server], {e}) = ServerTimers!OlderWithout({e})
            BY DEF Without, ServerTimers!OlderWithout
        <3> QED BY <2>1, <3>1
    <2>5. /\ e \in Pending(Server) /\ Pending(Server)' = Pending(Server) \ {e}
          /\ \A f \in Pending(Server) \ {e} : ServerTimers!Precedes(e, f)
        BY <1>1, <2>1, <2>3
    <2>6. ServerTimers!Fire
        BY <1>5, <2>1, <2>2, <2>4, <2>5, Zenon DEF ServerTimers!Fire
    <2> QED BY <2>6 DEF ServerTimers!Next
<1>6. CASE now' = now /\ Q = P /\ older'[Server] = older[Server] /\ firing[Server] # NoEntry
           /\ firing'[Server] = NoEntry
    BY <1>1, <1>6 DEF ServerTimers!Done, ServerTimers!Next
<1>7. CASE now' = now /\ Q = P /\ older'[Server] = older[Server] /\ firing'[Server] = firing[Server]
    BY <1>1, <1>7 DEF ServerTimers!vars
<1>8. AsTimerSet(P, Q, older[Server], older'[Server], firing[Server], firing'[Server])
    BY DEF P, Q
<1> QED BY <1>2, <1>3, <1>4, <1>5, <1>6, <1>7, <1>8 DEF AsTimerSet

LEMMA ServerSetInit == Init => ServerTimers!Init
<1>1. [sec |-> 0, usec |-> 0] \in ServerTimers!NormalTime
    BY UsecAssumption DEF ServerTimers!NormalTime
<1>2. Entries(<<>>) = {}
    BY DEF Entries
<1> QED BY <1>1, <1>2 DEF Init, ServerTimers!Init, Pending, Loops

\* Each loop of the table implements a timer set of its own, whatever is done to
\* the other loop, whichever signals interrupt it and however long it polls:
\* eloop_register_timeout and eloop_cancel_timeout on any list of timeouts, and
\* expire_timers, which calls the head that is due.
THEOREM LoopsAreTimerSets == Spec => ImplementsTimerSets
<1>1. TimersInv /\ [Next]_vars => [MainTimers!Next]_MainTimers!vars
           /\ [ServerTimers!Next]_ServerTimers!vars
    <2> SUFFICES ASSUME TimersInv, [Next]_vars
                 PROVE  /\ [MainTimers!Next]_MainTimers!vars
           /\ [ServerTimers!Next]_ServerTimers!vars
        OBVIOUS
    <2>1. Main \in Loops /\ Server \in Loops
        BY DEF Loops
    <2> QED BY <2>1, LoopIsTimerSet, MainSetStep, ServerSetStep
<1>2. TimersInv /\ [Next]_vars => TimersInv'
    BY TimersInvStep
<1> QED BY TimersInvInit, MainSetInit, ServerSetInit, <1>1, <1>2,
           PTL DEF Spec, ImplementsTimerSets, MainTimers!Spec, ServerTimers!Spec

-----------------------------------------------------------------------------
(* The signals *)

\* An entry of the table of signals of a loop.
Noted == [sig : Sig, marked : BOOLEAN]

SignalsTypeOK ==
    /\ signals \in [Loops -> Seq(Noted)]
    /\ scan \in [Loops -> Nat]
    /\ pc \in [Loops -> Places]

\* Setting the field marked of an entry leaves the table a table.
LEMMA MarkFacts ==
    ASSUME NEW n \in Noted, NEW b \in BOOLEAN
    PROVE  [n EXCEPT !.marked = b] \in Noted /\ [n EXCEPT !.marked = b].marked = b
BY DEF Noted

\* eloop_handle_signal changes one entry of the first table, or none.
LEMMA HandleSignalTypes ==
    ASSUME SignalsTypeOK, NEW s \in Sig
    PROVE  Marked(s) \in [Loops -> Seq(Noted)]
<1> DEFINE q == signals[Main]
           at == {i \in DOMAIN q : q[i].sig = s}
           k == CHOOSE i \in at : \A j \in at : i <= j
<1>0. Main \in Loops /\ q \in Seq(Noted)
    BY DEF SignalsTypeOK, Loops
<1>1. CASE at = {}
    BY <1>1 DEF Marked, SignalsTypeOK
<1>2. CASE at # {}
    <2> DEFINE e == [q[k] EXCEPT !.marked = TRUE]
    <2>1. Marked(s) = [signals EXCEPT ![Main] = [q EXCEPT ![k] = e]]
        BY <1>2, Zenon DEF Marked
    <2>2. at \in SUBSET Nat /\ DOMAIN q = 1 .. Len(q)
        BY <1>0, LenProperties
    <2>3. \E i \in at : \A j \in at : i <= j
        <3> HIDE DEF at
        <3> QED BY <1>2, <2>2, LeastElement
    <2>4. k \in at
        <3> HIDE DEF at
        <3> QED BY <2>3
    <2>5. k \in 1 .. Len(q)
        BY <2>2, <2>4
    <2> HIDE DEF q, at, k
    <2>6. e \in Noted
        BY <1>0, <2>5, ElementOfSeq, MarkFacts
    <2> HIDE DEF e
    <2>7. [q EXCEPT ![k] = e] \in Seq(Noted)
        BY <1>0, <2>5, <2>6
    <2> QED BY <1>0, <2>1, <2>7 DEF SignalsTypeOK
<1> QED BY <1>1, <1>2

\* What the walk does to the entry it passes.
LEMMA ScanEntryFacts ==
    ASSUME SignalsTypeOK, NEW l \in Loops, ScanEntry(l), scan[l] <= Len(signals[l]), scan[l] >= 1
    PROVE  /\ signals' \in [Loops -> Seq(Noted)]
           /\ \A m \in Loops \ {l} : signals'[m] = signals[m]
           /\ DOMAIN signals'[l] = DOMAIN signals[l]
           /\ ~ signals'[l][scan[l]].marked
           /\ \A j \in DOMAIN signals[l] : j # scan[l] => signals'[l][j] = signals[l][j]
<1> DEFINE q == signals[l]
           k == scan[l]
           e == [q[k] EXCEPT !.marked = FALSE]
           r == [q EXCEPT ![k] = e]
<1>1. q \in Seq(Noted) /\ k \in Nat /\ Len(q) \in Nat
    BY LenProperties DEF SignalsTypeOK
<1>2. k \in 1 .. Len(q)
    BY <1>1
<1>3. CASE q[k].marked
    <2>1. ~ (k > Len(q))
        BY <1>2, <1>1
    <2>2. signals' = [signals EXCEPT ![l] = r]
        BY <1>3, <2>1, Zenon DEF ScanEntry
    <2> HIDE DEF q, k
    <2>5. e \in Noted /\ e.marked = FALSE
        BY <1>1, <1>2, ElementOfSeq, MarkFacts
    <2> HIDE DEF e
    <2>3. /\ r \in Seq(Noted) /\ DOMAIN r = DOMAIN q /\ r[k].marked = FALSE
          /\ \A j \in DOMAIN q : j # k => r[j] = q[j]
        BY <1>1, <1>2, <2>5, LenProperties
    <2> HIDE DEF r
    <2>4. signals'[l] = r /\ signals' \in [Loops -> Seq(Noted)]
          /\ \A m \in Loops \ {l} : signals'[m] = signals[m]
        BY <2>2, <2>3 DEF SignalsTypeOK
    <2> QED BY <2>3, <2>4 DEF q, k
<1>4. CASE ~ q[k].marked
    <2>1. ~ (k > Len(q))
        BY <1>2, <1>1
    <2>2. signals' = signals
        BY <1>4, <2>1, Zenon DEF ScanEntry
    <2> QED BY <1>4, <2>2 DEF SignalsTypeOK
<1> QED BY <1>3, <1>4

\* The walk starts with the first entry.
ScanStarts == \A l \in Loops : pc[l] \in {"signals", "handler"} => scan[l] >= 1

SignalsInv == SignalsTypeOK /\ ScanStarts /\ MarkedIsNoticed

\* A step of loop l that leaves its table and its flag alone, or clears the
\* flag as the walk begins.
LEMMA SignalsInvSame ==
    ASSUME SignalsInv, pc' \in [Loops -> Places], scan' \in [Loops -> Nat],
           signals' = signals,
           \A l \in Loops : pc'[l] \in {"signals", "handler"} => scan'[l] >= 1,
           \/ Main \in signaled'
           \/ pc'[Main] = "exited"
           \/ /\ Main \in signaled <=> Main \in signaled'
              /\ pc[Main] \in {"signals", "handler", "exited"}
                    => pc'[Main] = pc[Main] \/ {pc[Main], pc'[Main]} = {"signals", "handler"}
              /\ scan'[Main] = scan[Main]
           \/ pc'[Main] = "signals" /\ scan'[Main] = 1
    PROVE  SignalsInv'
<1>1. SignalsTypeOK' /\ ScanStarts'
    BY DEF SignalsInv, SignalsTypeOK, ScanStarts
<1>2. ASSUME NEW i \in DOMAIN signals'[Main], signals'[Main][i].marked
      PROVE  \/ Main \in signaled'
             \/ pc'[Main] = "exited"
             \/ (pc'[Main] \in {"signals", "handler"} /\ scan'[Main] <= i)
    <2>1. signals[Main] \in Seq(Noted) /\ i \in DOMAIN signals[Main]
        BY DEF SignalsInv, SignalsTypeOK, Loops
    <2>2. i \in Nat /\ i >= 1
        BY <2>1, LenProperties
    <2>3. \/ Main \in signaled
          \/ pc[Main] = "exited"
          \/ (pc[Main] \in {"signals", "handler"} /\ scan[Main] <= i)
        BY <1>2 DEF SignalsInv, MarkedIsNoticed
    <2> QED BY <2>2, <2>3
<1> QED BY <1>1, <1>2 DEF SignalsInv, MarkedIsNoticed

LEMMA SignalsInvInit == Init => SignalsInv
<1> SUFFICES ASSUME Init PROVE SignalsInv
    OBVIOUS
<1>1. signals \in [Loops -> Seq(Noted)] /\ signals[Main] = <<>>
    BY DEF Init, Loops
<1> QED BY <1>1 DEF Init, SignalsInv, SignalsTypeOK, ScanStarts, MarkedIsNoticed, Places

\* One step per action.  Only three disturb the marks: the walk, which clears the
\* entry it passes; expire_timers, which clears signaled as it starts the walk;
\* and eloop_handle_signal, which sets signaled with the mark.
LEMMA SignalsInvStep == ASSUME SignalsInv, [Next]_vars PROVE SignalsInv'
<1>0. /\ signals \in [Loops -> Seq(Noted)] /\ scan \in [Loops -> Nat]
      /\ pc \in [Loops -> Places] /\ Main \in Loops
      /\ \A l \in Loops : pc[l] \in {"signals", "handler"} => scan[l] >= 1
    BY DEF SignalsInv, SignalsTypeOK, ScanStarts, Loops
<1>1. ASSUME NEW l \in Loops, NEW w \in Places \ {"signals", "handler", "exited"},
             pc[l] \notin {"signals", "handler", "exited"},
             pc' = [pc EXCEPT ![l] = w],
             UNCHANGED <<signals, scan, signaled>>
      PROVE  SignalsInv'
    <2>1. pc' \in [Loops -> Places]
        BY <1>0, <1>1
    <2>2. \A m \in Loops : pc'[m] \in {"signals", "handler"} => scan'[m] >= 1
        BY <1>0, <1>1
    <2>3. pc[Main] \in {"signals", "handler", "exited"} => pc'[Main] = pc[Main]
        BY <1>0, <1>1
    <2> QED BY <1>0, <1>1, <2>1, <2>2, <2>3, SignalsInvSame
<1>2. ASSUME UNCHANGED <<pc, signals, scan, signaled>> PROVE SignalsInv'
    BY <1>0, <1>2, SignalsInvSame
<1>3. ASSUME NEW l \in Loops, init_timers(l) PROVE SignalsInv'
    <2>1. /\ pc[l] = "unused" /\ pc' = [pc EXCEPT ![l] = "host"]
          /\ signals' = [signals EXCEPT ![l] = <<>>]
          /\ signaled' = signaled \ {l} /\ scan' = scan
        BY <1>3 DEF init_timers
    <2>2. <<>> \in Seq(Noted) /\ "host" \in Places
        BY DEF Places
    <2>3. SignalsTypeOK' /\ ScanStarts'
        BY <1>0, <2>1, <2>2 DEF SignalsTypeOK, ScanStarts
    <2>4. CASE l = Main
        <3>1. signals'[Main] = <<>>
            BY <1>0, <2>1, <2>4
        <3>2. MarkedIsNoticed'
            BY <3>1 DEF MarkedIsNoticed
        <3> QED BY <2>3, <3>2 DEF SignalsInv
    <2>5. CASE l # Main
        <3>1. /\ signals'[Main] = signals[Main] /\ pc'[Main] = pc[Main]
              /\ scan'[Main] = scan[Main] /\ (Main \in signaled' <=> Main \in signaled)
            BY <1>0, <2>1, <2>5
        <3>2. MarkedIsNoticed'
            BY <3>1 DEF SignalsInv, MarkedIsNoticed
        <3> QED BY <2>3, <3>2 DEF SignalsInv
    <2> QED BY <2>4, <2>5
<1>4. ASSUME NEW l \in Loops, destroy_timers(l) PROVE SignalsInv'
    BY <1>1, <1>4 DEF destroy_timers, noted, Places
<1>5. ASSUME NEW l \in Loops, NEW d \in Delay, NEW h \in Handler,
             eloop_register_timeout(l, d[1], d[2], h)
      PROVE  SignalsInv'
    BY <1>2, <1>5 DEF eloop_register_timeout, noted
<1>6. ASSUME NEW l \in Loops, NEW h \in Handler, eloop_cancel_timeout(l, h) PROVE SignalsInv'
    BY <1>2, <1>6 DEF eloop_cancel_timeout, noted
<1>7. ASSUME NEW l \in Loops, Poll(l) PROVE SignalsInv'
    BY <1>1, <1>7 DEF Poll, noted, Places
<1>8. ASSUME NEW l \in Loops, expire_timers(l) PROVE SignalsInv'
    <2>1. CASE l \in signaled
        <3>1. /\ pc[l] \in {"poll", "host"} /\ pc' = [pc EXCEPT ![l] = "signals"]
              /\ scan' = [scan EXCEPT ![l] = 1] /\ signaled' = signaled \ {l}
              /\ signals' = signals
            BY <1>8, <2>1 DEF expire_timers
        <3>2. pc' \in [Loops -> Places] /\ scan' \in [Loops -> Nat]
            BY <1>0, <3>1 DEF Places
        <3>3. \A m \in Loops : pc'[m] \in {"signals", "handler"} => scan'[m] >= 1
            BY <1>0, <3>1
        <3>4. CASE l = Main
            BY <1>0, <3>1, <3>2, <3>3, <3>4, SignalsInvSame
        <3>5. CASE l # Main
            <4>1. /\ pc'[Main] = pc[Main] /\ scan'[Main] = scan[Main]
                  /\ (Main \in signaled <=> Main \in signaled')
                BY <1>0, <3>1, <3>5
            <4> QED BY <3>1, <3>2, <3>3, <4>1, SignalsInvSame
        <3> QED BY <3>4, <3>5
    <2>2. CASE l \notin signaled
        <3>1. /\ pc[l] \notin {"signals", "handler", "exited"}
              /\ pc' = [pc EXCEPT ![l] = "timers"]
              /\ UNCHANGED <<signals, scan, signaled>>
            BY <1>8, <2>2 DEF expire_timers
        <3> QED BY <1>1, <3>1 DEF Places
    <2> QED BY <2>1, <2>2
<1>9. ASSUME NEW l \in Loops, ExpireHead(l) PROVE SignalsInv'
    <2>1. /\ pc[l] = "timers"
          /\ pc' = [pc EXCEPT ![l] = "callback"] \/ pc' = [pc EXCEPT ![l] = "host"]
          /\ UNCHANGED <<signals, scan, signaled>>
        BY <1>9 DEF ExpireHead, noted
    <2> QED BY <1>1, <2>1 DEF Places
<1>10. ASSUME NEW l \in Loops, HandlerReturns(l) PROVE SignalsInv'
    BY <1>1, <1>10 DEF HandlerReturns, noted, Places
<1>11. ASSUME NEW l \in Loops, NEW s \in Sig, eloop_register_signal(l, s) PROVE SignalsInv'
    <2> DEFINE e == [sig |-> s, marked |-> FALSE]
               q == signals[l]
    <2>1. /\ signals' = [signals EXCEPT ![l] = Append(q, e)]
          /\ UNCHANGED <<pc, scan, signaled>>
        BY <1>11 DEF eloop_register_signal
    <2>2. e \in Noted /\ ~ e.marked /\ q \in Seq(Noted)
        BY <1>0 DEF Noted
    <2> HIDE DEF e, q
    <2>3. /\ Append(q, e) \in Seq(Noted)
          /\ DOMAIN Append(q, e) = DOMAIN q \cup {Len(q) + 1}
          /\ Append(q, e)[Len(q) + 1] = e
          /\ \A i \in DOMAIN q : Append(q, e)[i] = q[i]
        BY <2>2, AppendProperties, LenProperties
    <2>4. SignalsTypeOK' /\ ScanStarts'
        BY <1>0, <2>1, <2>3 DEF SignalsTypeOK, ScanStarts
    <2>5. ASSUME NEW i \in DOMAIN signals'[Main], signals'[Main][i].marked
          PROVE  i \in DOMAIN signals[Main] /\ signals[Main][i].marked
        <3>1. CASE l # Main
            BY <1>0, <2>1, <2>5, <3>1
        <3>2. CASE l = Main
            <4>1. signals'[Main] = Append(q, e) /\ q = signals[Main]
                BY <1>0, <2>1, <3>2 DEF q
            <4>2. i \in DOMAIN q \cup {Len(q) + 1} /\ Append(q, e)[i].marked
                BY <2>3, <2>5, <4>1
            <4>3. i \in DOMAIN q /\ q[i].marked
                BY <2>2, <2>3, <4>2
            <4> QED BY <4>1, <4>3
        <3> QED BY <3>1, <3>2
    <2>6. MarkedIsNoticed'
        BY <2>1, <2>5 DEF SignalsInv, MarkedIsNoticed
    <2> QED BY <2>4, <2>6 DEF SignalsInv
<1>12. ASSUME NEW l \in Loops, ScanEntry(l) PROVE SignalsInv'
    <2>1. /\ pc[l] = "signals" /\ scan[l] \in Nat /\ scan[l] >= 1
          /\ Len(signals[l]) \in Nat /\ DOMAIN signals[l] = 1 .. Len(signals[l])
        BY <1>0, <1>12, LenProperties DEF ScanEntry
    <2>2. CASE scan[l] > Len(signals[l])
        <3>1. /\ pc' = [pc EXCEPT ![l] = "timers"] /\ scan' = [scan EXCEPT ![l] = 0]
              /\ signaled' = signaled /\ signals' = signals
            BY <1>12, <2>2 DEF ScanEntry, StopScan
        <3>2. SignalsTypeOK' /\ ScanStarts'
            BY <1>0, <3>1 DEF SignalsTypeOK, ScanStarts, Places
        <3>3. CASE l = Main
            <4>1. ASSUME NEW i \in DOMAIN signals[Main], signals[Main][i].marked
                  PROVE  Main \in signaled
                <5>1. ~ (scan[Main] <= i) /\ pc[Main] # "exited"
                    BY <2>1, <2>2, <3>3
                <5> QED BY <4>1, <5>1 DEF SignalsInv, MarkedIsNoticed
            <4>2. MarkedIsNoticed'
                BY <3>1, <4>1 DEF MarkedIsNoticed
            <4> QED BY <3>2, <4>2 DEF SignalsInv
        <3>4. CASE l # Main
            <4>1. pc'[Main] = pc[Main] /\ scan'[Main] = scan[Main]
                BY <1>0, <3>1, <3>4
            <4>2. MarkedIsNoticed'
                BY <3>1, <4>1 DEF SignalsInv, MarkedIsNoticed
            <4> QED BY <3>2, <4>2 DEF SignalsInv
        <3> QED BY <3>3, <3>4
    <2>3. CASE ~ (scan[l] > Len(signals[l]))
        <3>1. /\ pc' = [pc EXCEPT ![l] = "handler"] \/ pc' = pc
              /\ scan' = [scan EXCEPT ![l] = scan[l] + 1]
              /\ signaled' = signaled
            BY <1>12, <2>3 DEF ScanEntry
        <3>2. /\ signals' \in [Loops -> Seq(Noted)]
              /\ \A m \in Loops \ {l} : signals'[m] = signals[m]
              /\ DOMAIN signals'[l] = DOMAIN signals[l]
              /\ ~ signals'[l][scan[l]].marked
              /\ \A j \in DOMAIN signals[l] : j # scan[l] => signals'[l][j] = signals[l][j]
            <4>1. scan[l] <= Len(signals[l])
                BY <2>1, <2>3
            <4> QED BY <1>12, <2>1, <4>1, ScanEntryFacts DEF SignalsInv
        <3>3. pc' \in [Loops -> Places] /\ scan' \in [Loops -> Nat]
            <4>1. \E w \in Places : pc' = [pc EXCEPT ![l] = w]
                <5>1. pc' = [pc EXCEPT ![l] = "handler"] \/ pc' = [pc EXCEPT ![l] = pc[l]]
                    BY <1>0, <3>1
                <5> QED BY <1>0, <5>1 DEF Places
            <4> QED BY <1>0, <2>1, <3>1, <4>1
        <3>4. pc'[l] \in {"signals", "handler"} /\ scan'[l] = scan[l] + 1
              /\ \A m \in Loops \ {l} : pc'[m] = pc[m] /\ scan'[m] = scan[m]
            BY <1>0, <2>1, <3>1
        <3>5. SignalsTypeOK' /\ ScanStarts'
            BY <1>0, <2>1, <3>2, <3>3, <3>4 DEF SignalsTypeOK, ScanStarts
        <3>6. CASE l = Main
            <4>1. ASSUME NEW i \in DOMAIN signals'[Main], signals'[Main][i].marked
                  PROVE  Main \in signaled' \/ scan'[Main] <= i
                <5>1. i \in DOMAIN signals[Main] /\ i # scan[Main] /\ signals[Main][i].marked
                    BY <3>2, <3>6, <4>1
                <5>2. Main \in signaled \/ scan[Main] <= i
                    BY <2>1, <3>6, <5>1 DEF SignalsInv, MarkedIsNoticed
                <5>3. i \in Nat
                    BY <2>1, <3>6, <5>1
                <5> QED BY <2>1, <3>1, <3>4, <3>6, <5>1, <5>2, <5>3
            <4>2. MarkedIsNoticed'
                BY <3>4, <3>6, <4>1 DEF MarkedIsNoticed
            <4> QED BY <3>5, <4>2 DEF SignalsInv
        <3>7. CASE l # Main
            <4>1. /\ pc'[Main] = pc[Main] /\ scan'[Main] = scan[Main]
                  /\ signals'[Main] = signals[Main]
                BY <1>0, <3>2, <3>4, <3>7
            <4>2. MarkedIsNoticed'
                BY <3>1, <4>1 DEF SignalsInv, MarkedIsNoticed
            <4> QED BY <3>5, <4>2 DEF SignalsInv
        <3> QED BY <3>6, <3>7
    <2> QED BY <2>2, <2>3
<1>13. ASSUME NEW l \in Loops, SignalHandlerReturns(l) PROVE SignalsInv'
    <2>1. /\ pc[l] = "handler" /\ pc' = [pc EXCEPT ![l] = "signals"]
          /\ UNCHANGED <<signals, scan, signaled>>
        BY <1>13 DEF SignalHandlerReturns, noted
    <2>2. /\ pc' \in [Loops -> Places]
          /\ \A m \in Loops : pc'[m] \in {"signals", "handler"} => scan'[m] >= 1
          /\ pc[Main] \in {"signals", "handler", "exited"}
                => pc'[Main] = pc[Main] \/ {pc[Main], pc'[Main]} = {"signals", "handler"}
        BY <1>0, <2>1 DEF Places
    <2> QED BY <1>0, <2>1, <2>2, SignalsInvSame
<1>14. ASSUME NEW s \in Sig, eloop_handle_signal(s) PROVE SignalsInv'
    <2>1. /\ signals' = Marked(s) /\ Main \in signaled' /\ UNCHANGED <<pc, scan>>
        BY <1>14 DEF eloop_handle_signal
    <2>2. Marked(s) \in [Loops -> Seq(Noted)]
        BY HandleSignalTypes DEF SignalsInv
    <2>3. SignalsTypeOK' /\ ScanStarts'
        BY <1>0, <2>1, <2>2 DEF SignalsTypeOK, ScanStarts
    <2> QED BY <2>1, <2>3 DEF SignalsInv, MarkedIsNoticed
<1>15. CASE eloop_handle_alarm
    <2>1. /\ pc' = [l \in Loops |-> "exited"] /\ UNCHANGED <<signals, scan, signaled>>
        BY <1>15 DEF eloop_handle_alarm, noted
    <2> QED BY <1>0, <2>1, SignalsInvSame DEF Places
<1>16. CASE ClockTick \/ UNCHANGED vars
    BY <1>2, <1>16 DEF ClockTick, vars, noted
<1> QED BY <1>3, <1>4, <1>5, <1>6, <1>7, <1>8, <1>9, <1>10, <1>11, <1>12, <1>13, <1>14,
           <1>15, <1>16 DEF Next

\* At whatever instant eloop_handle_signal marks an entry of the first table, in
\* the middle of eloop_process_pending_signals or of a handler it calls included,
\* the entry is ahead of this walk, or signaled is set and the next
\* expire_timers walks again: for tables of any length, in which a signal may
\* be registered twice.
THEOREM MarksAreNoticed == Spec => []MarkedIsNoticed
<1>1. SignalsInv => MarkedIsNoticed
    BY DEF SignalsInv
<1>2. SignalsInv /\ [Next]_vars => SignalsInv'
    BY SignalsInvStep
<1> QED BY SignalsInvInit, <1>1, <1>2, PTL DEF Spec

-----------------------------------------------------------------------------
(***************************************************************************)
(* Exception contexts (ExceptContext)                                      *)
(***************************************************************************)

Frame == [kind : Contexts!Wrapper \cup {"run", "try"}, slot : Nat, prev : Nat]

ContextsTypeOK ==
    /\ used \subseteq Contexts!Slots
    /\ penv \in [Contexts!Slots -> Nat]
    /\ stack \in Seq(Frame)
    /\ monitor \in MonitorType \cup {Off}
    /\ pending \in BOOLEAN
    /\ state \in {"running", "crashed", "exited"}
    /\ ended \in BOOLEAN
    /\ late \in BOOLEAN

\* While the monitor is set a handler of its type is on the stack, and no signal
\* keeps it from being cleared.
MonitorSet ==
    state = "running" /\ ~ late /\ monitor # Off =>
        /\ ~ pending
        /\ \E i \in DOMAIN stack : stack[i].kind \in MonitorType

\* k is the last Try of s in front of n, 0 if there is none.
IsLast(s, k, n) ==
    /\ k \in 0 .. n - 1
    /\ k # 0 => s[k].kind # "run"
    /\ \A j \in k + 1 .. n - 1 : s[j].kind = "run"

\* The first slot is the one that is found; its environments are the Trys.
FirstSlot ==
    state = "running" =>
        /\ stack = <<>> => 1 \notin used
        /\ stack # <<>> => stack[1].kind = "run"
        /\ stack # <<>> /\ ~ ended =>
               /\ 1 \in used
               /\ IsLast(stack, penv[1], Len(stack) + 1)
               /\ \A i \in Contexts!Trys :
                      stack[i].slot = 1 /\ IsLast(stack, stack[i].prev, i)

ContextsInv == ContextsTypeOK /\ MonitorSet /\ FirstSlot

-----------------------------------------------------------------------------
(* The table *)

\* The smallest slot is found.
LEMMA FirstIsFound ==
    ASSUME NEW S \in SUBSET Nat, 0 \notin S
    PROVE  /\ S # {} => Contexts!First(S) \in S
           /\ S = {} => Contexts!First(S) = 0
           /\ 1 \in S => Contexts!First(S) = 1
<1>1. S = {} => Contexts!First(S) = 0
    BY DEF Contexts!First, Contexts!None
<1>2. ASSUME S # {} PROVE Contexts!First(S) \in S /\ \A r \in S : Contexts!First(S) <= r
    <2>1. \E s \in S : \A r \in S : s <= r
        BY <1>2, LeastElement
    <2> QED BY <1>2, <2>1 DEF Contexts!First
<1>3. ASSUME 1 \in S PROVE Contexts!First(S) = 1
    <2>1. Contexts!First(S) \in S /\ Contexts!First(S) <= 1
        BY <1>2, <1>3
    <2>2. Contexts!First(S) \in Nat /\ Contexts!First(S) # 0
        BY <2>1
    <2> QED BY <2>1, <2>2
<1> QED BY <1>1, <1>2, <1>3

LEMMA SlotsFound ==
    ASSUME Contexts!ExceptContextAssumption, ContextsTypeOK
    PROVE  /\ Contexts!findstate \in Contexts!Slots \cup {0}
           /\ Contexts!findstate = 0 => used = {}
           /\ 1 \in used => Contexts!findstate = 1
           /\ Contexts!allocstate \in (Contexts!Slots \ used) \cup {0}
           /\ 1 \notin used => Contexts!allocstate = 1
           /\ 1 \notin Contexts!freestate
<1>1. /\ used \in SUBSET Nat /\ 0 \notin used
      /\ (Contexts!Slots \ used) \in SUBSET Nat /\ 0 \notin (Contexts!Slots \ used)
      /\ 1 \in Contexts!Slots
    BY DEF ContextsTypeOK, Contexts!Slots, Contexts!ExceptContextAssumption
<1>2. /\ Contexts!findstate \in Contexts!Slots \cup {0}
      /\ Contexts!findstate = 0 => used = {}
      /\ 1 \in used => Contexts!findstate = 1
    BY <1>1, FirstIsFound DEF Contexts!findstate, ContextsTypeOK
<1>3. /\ Contexts!allocstate \in (Contexts!Slots \ used) \cup {0}
      /\ 1 \notin used => Contexts!allocstate = 1
    BY <1>1, FirstIsFound DEF Contexts!allocstate
<1>4. 1 \notin Contexts!freestate
    BY <1>2 DEF Contexts!freestate
<1> QED BY <1>2, <1>3, <1>4

-----------------------------------------------------------------------------
(* The stack *)

\* A frame that is put on the stack.
LEMMA Pushed ==
    ASSUME ContextsTypeOK, NEW f \in Frame
    PROVE  LET s == Append(stack, f)
           IN  /\ s \in Seq(Frame) /\ s # <<>>
               /\ Len(s) = Len(stack) + 1
               /\ s[Len(s)] = f
               /\ \A i \in 1 .. Len(stack) : s[i] = stack[i]
BY DEF ContextsTypeOK

\* What is left in front of a frame.
LEMMA Popped ==
    ASSUME ContextsTypeOK, NEW k \in 1 .. Len(stack)
    PROVE  LET s == SubSeq(stack, 1, k - 1)
           IN  /\ s \in Seq(Frame)
               /\ Len(s) = k - 1
               /\ \A i \in 1 .. k - 1 : s[i] = stack[i]
               /\ s = <<>> => k = 1
BY DEF ContextsTypeOK

\* The last Try depends on the frames in front of n alone.
LEMMA LastInFront ==
    ASSUME NEW s, NEW t, NEW n \in Nat, NEW k, \A i \in 1 .. n - 1 : s[i] = t[i],
           IsLast(s, k, n)
    PROVE  IsLast(t, k, n)
BY DEF IsLast

\* The last Try of all is the largest.
LEMMA LastIsLargest ==
    ASSUME ContextsTypeOK, NEW k, IsLast(stack, k, Len(stack) + 1)
    PROVE  /\ k = 0 => Contexts!Trys = {}
           /\ k # 0 => Contexts!Trys # {} /\ Contexts!Largest(Contexts!Trys) = k
<1>1. Len(stack) \in Nat /\ DOMAIN stack = 1 .. Len(stack)
    BY DEF ContextsTypeOK
<1>2. k \in 0 .. Len(stack) /\ \A j \in Contexts!Trys : j \in 1 .. Len(stack) /\ j <= k
    BY <1>1 DEF IsLast, Contexts!Trys
<1>3. k # 0 => k \in Contexts!Trys
    BY <1>1, <1>2 DEF IsLast, Contexts!Trys
<1>4. k # 0 => Contexts!Largest(Contexts!Trys) = k
    <2> SUFFICES ASSUME k # 0, NEW i \in Contexts!Trys, \A j \in Contexts!Trys : j <= i
                 PROVE  i = k
        BY <1>2, <1>3 DEF Contexts!Largest
    <2> QED BY <1>2, <1>3
<1> QED BY <1>2, <1>3, <1>4

-----------------------------------------------------------------------------
(* Every step keeps the invariant *)

LEMMA ContextsInvInit ==
    ASSUME Contexts!ExceptContextAssumption, Contexts!Init
    PROVE  ContextsInv
<1>1. stack = <<>> /\ <<>> \in Seq(Frame) /\ used = {} /\ monitor = Off
    BY DEF Contexts!Init
<1>2. ContextsTypeOK
    BY <1>1 DEF Contexts!Init, ContextsTypeOK, Contexts!None
<1>3. MonitorSet /\ FirstSlot
    BY <1>1 DEF MonitorSet, FirstSlot
<1> QED BY <1>2, <1>3 DEF ContextsInv

\* A step that leaves the stack and the slots alone.
LEMMA StackKept ==
    ASSUME FirstSlot, UNCHANGED <<used, penv, stack, ended>>,
           state' = "running" => state = "running"
    PROVE  FirstSlot'
BY DEF FirstSlot, IsLast, Contexts!Trys

LEMMA StepRun ==
    ASSUME Contexts!ExceptContextAssumption, ContextsInv, Contexts!eloop_run
    PROVE  ContextsInv'
<1> DEFINE f == [kind |-> "run", slot |-> Contexts!allocstate, prev |-> Contexts!None]
<1>1. /\ stack' = Append(stack, f)
      /\ UNCHANGED <<monitor, pending, state, ended, late>>
      /\ used' = IF Contexts!allocstate = Contexts!None THEN used
                 ELSE used \cup {Contexts!allocstate}
      /\ penv' = IF Contexts!allocstate = Contexts!None THEN penv
                 ELSE [penv EXCEPT ![Contexts!allocstate] = Contexts!None]
    BY DEF Contexts!eloop_run
<1>2. /\ Contexts!allocstate \in (Contexts!Slots \ used) \cup {0}
      /\ 1 \notin used => Contexts!allocstate = 1
    BY SlotsFound DEF ContextsInv
<1>3. f \in Frame
    BY <1>2 DEF Frame, Contexts!Slots, Contexts!None
<1> HIDE DEF f
<1>4. /\ stack' \in Seq(Frame) /\ stack' # <<>>
      /\ Len(stack') = Len(stack) + 1
      /\ stack'[Len(stack')] = f
      /\ \A i \in 1 .. Len(stack) : stack'[i] = stack[i]
    BY <1>1, <1>3, Pushed DEF ContextsInv
<1>5. ContextsTypeOK'
    BY <1>1, <1>2, <1>4 DEF ContextsInv, ContextsTypeOK, Contexts!None
<1>6. MonitorSet'
    BY <1>1, <1>4 DEF ContextsInv, ContextsTypeOK, MonitorSet
<1>7. f.kind = "run"
    BY DEF f
<1>8. 1 \in Contexts!Slots /\ Len(stack) \in Nat
    BY DEF Contexts!Slots, Contexts!ExceptContextAssumption, ContextsInv, ContextsTypeOK
<1>9. FirstSlot'
    <2>3. ASSUME state = "running" PROVE stack'[1].kind = "run"
        <3>1. CASE stack = <<>>
            BY <1>4, <1>7, <3>1
        <3>2. CASE stack # <<>>
            <4>1. 1 \in 1 .. Len(stack)
                BY <1>8, <3>2 DEF ContextsInv, ContextsTypeOK
            <4> QED BY <1>4, <2>3, <3>2, <4>1 DEF ContextsInv, FirstSlot
        <3> QED BY <3>1, <3>2
    <2> SUFFICES ASSUME state = "running", ~ ended
                 PROVE  /\ 1 \in used'
                        /\ IsLast(stack', penv'[1], Len(stack') + 1)
                        /\ \A i \in Contexts!Trys' :
                               stack'[i].slot = 1 /\ IsLast(stack', stack'[i].prev, i)
        BY <1>1, <1>4, <2>3 DEF FirstSlot
    <2>1. CASE stack = <<>>
        <3>1. 1 \in used' /\ penv'[1] = 0
            BY <1>1, <1>2, <1>8, <2>1 DEF ContextsInv, FirstSlot, ContextsTypeOK, Contexts!None
        <3>2. Len(stack') = 1 /\ stack'[1].kind = "run"
            BY <1>4, <1>7, <2>1
        <3>3. Contexts!Trys' = {}
            <4>1. DOMAIN stack' = 1 .. Len(stack')
                BY <1>4
            <4>2. \A i \in DOMAIN stack' : i = 1
                BY <3>2, <4>1
            <4> QED BY <3>2, <4>2 DEF Contexts!Trys
        <3>4. IsLast(stack', 0, 2)
            BY <3>2 DEF IsLast
        <3> QED BY <3>1, <3>2, <3>3, <3>4
    <2>2. CASE stack # <<>>
        <3>1. /\ 1 \in used
              /\ IsLast(stack, penv[1], Len(stack) + 1)
              /\ \A i \in Contexts!Trys :
                     stack[i].slot = 1 /\ IsLast(stack, stack[i].prev, i)
            BY <2>2 DEF ContextsInv, FirstSlot
        <3>2. penv'[1] = penv[1] /\ 1 \in used'
            BY <1>1, <1>2, <1>8, <3>1 DEF ContextsInv, ContextsTypeOK, Contexts!None
        <3>3. IsLast(stack', penv'[1], Len(stack') + 1)
            BY <1>4, <1>7, <1>8, <3>1, <3>2 DEF IsLast
        <3>4. Contexts!Trys' = Contexts!Trys
            BY <1>4, <1>7, <1>8 DEF Contexts!Trys, ContextsInv, ContextsTypeOK
        <3>5. \A i \in Contexts!Trys : i \in 1 .. Len(stack)
            BY DEF Contexts!Trys, ContextsInv, ContextsTypeOK
        <3>6. \A i \in Contexts!Trys' : stack'[i].slot = 1 /\ IsLast(stack', stack'[i].prev, i)
            <4> SUFFICES ASSUME NEW i \in Contexts!Trys
                         PROVE  stack'[i].slot = 1 /\ IsLast(stack', stack'[i].prev, i)
                BY <3>4
            <4>1. i \in 1 .. Len(stack) /\ stack'[i] = stack[i]
                BY <1>4, <1>8, <3>5
            <4>2. \A j \in 1 .. i - 1 : j \in 1 .. Len(stack) /\ stack'[j] = stack[j]
                BY <1>4, <1>8, <4>1
            <4> QED BY <3>1, <4>1, <4>2 DEF IsLast
        <3> QED BY <3>2, <3>3, <3>6
    <2> QED BY <2>1, <2>2
<1> QED BY <1>5, <1>6, <1>9 DEF ContextsInv

LEMMA StepReturn ==
    ASSUME Contexts!ExceptContextAssumption, ContextsInv, Contexts!ReturnFromRun
    PROVE  ContextsInv'
<1>1. /\ stack # <<>> /\ Contexts!Top.kind = "run"
      /\ stack' = SubSeq(stack, 1, Len(stack) - 1)
      /\ used' = Contexts!freestate
      /\ ended' = (Len(stack) > 1)
      /\ UNCHANGED <<penv, monitor, pending, state, late>>
    BY DEF Contexts!ReturnFromRun, Contexts!InLoop
<1>2. Len(stack) \in 1 .. Len(stack)
    BY <1>1 DEF ContextsInv, ContextsTypeOK
<1>3. /\ stack' \in Seq(Frame)
      /\ Len(stack') = Len(stack) - 1
      /\ \A i \in 1 .. Len(stack) - 1 : stack'[i] = stack[i]
      /\ stack' = <<>> => Len(stack) = 1
    BY <1>1, <1>2, Popped DEF ContextsInv
<1>4. ContextsTypeOK'
    BY <1>1, <1>3 DEF ContextsInv, ContextsTypeOK, Contexts!freestate
<1>5. "run" \notin MonitorType
    BY DEF Contexts!ExceptContextAssumption
<1>6. MonitorSet'
    <2> SUFFICES ASSUME state = "running", ~ late, monitor # Off
                 PROVE  \E i \in 1 .. Len(stack) - 1 : stack[i].kind \in MonitorType
        <3>1. DOMAIN stack' = 1 .. Len(stack) - 1
            BY <1>3
        <3>2. (\E i \in 1 .. Len(stack) - 1 : stack[i].kind \in MonitorType)
                 => \E i \in DOMAIN stack' : stack'[i].kind \in MonitorType
            BY <1>3, <3>1
        <3> QED BY <1>1, <3>2 DEF ContextsInv, MonitorSet
    <2>1. PICK i \in 1 .. Len(stack) : stack[i].kind \in MonitorType
        BY DEF ContextsInv, ContextsTypeOK, MonitorSet
    <2>2. i # Len(stack)
        BY <1>1, <1>5, <2>1 DEF Contexts!Top
    <2> QED BY <1>2, <2>1, <2>2
<1>7. FirstSlot'
    <2>1. 1 \notin used'
        BY <1>1, SlotsFound DEF ContextsInv
    <2>2. stack' # <<>> => ended'
        <3> SUFFICES ASSUME stack' # <<>> PROVE Len(stack) > 1
            BY <1>1
        <3>1. Len(stack') # 0
            BY <1>3
        <3> QED BY <1>2, <1>3, <3>1
    <2>3. state = "running" /\ stack' # <<>> => stack'[1].kind = "run"
        <3> SUFFICES ASSUME state = "running", stack' # <<>> PROVE stack'[1] = stack[1]
            BY <1>1 DEF ContextsInv, FirstSlot
        <3>1. Len(stack') # 0
            BY <1>3
        <3> QED BY <1>2, <1>3, <3>1
    <2> QED BY <1>1, <2>1, <2>2, <2>3 DEF FirstSlot
<1> QED BY <1>4, <1>6, <1>7 DEF ContextsInv

-----------------------------------------------------------------------------
(* Trys *)

\* A Try that is entered notes itself in the slot that is found.
LEMMA TryEntered ==
    ASSUME Contexts!ExceptContextAssumption, ContextsTypeOK, FirstSlot, state = "running",
           stack # <<>>,
           NEW kind \in Contexts!Wrapper \cup {"try"}, Contexts!EnterTry(kind),
           UNCHANGED <<used, ended>>
    PROVE  /\ penv' \in [Contexts!Slots -> Nat]
           /\ stack' \in Seq(Frame)
           /\ state' \in {"running", "crashed"}
           /\ state' = "running" => /\ Len(stack') = Len(stack) + 1
                                    /\ stack'[Len(stack')].kind = kind
                                    /\ \A i \in 1 .. Len(stack) : stack'[i] = stack[i]
           /\ FirstSlot'
<1> DEFINE f == [kind |-> kind, slot |-> Contexts!findstate, prev |-> penv[Contexts!findstate]]
<1>1. CASE Contexts!findstate = Contexts!None
    <2>1. state' = "crashed" /\ UNCHANGED <<penv, stack>>
        BY <1>1 DEF Contexts!EnterTry
    <2> QED BY <2>1 DEF ContextsTypeOK, FirstSlot
<1>2. CASE Contexts!findstate # Contexts!None
    <2>1. /\ stack' = Append(stack, f)
          /\ penv' = [penv EXCEPT ![Contexts!findstate] = Len(stack) + 1]
          /\ state' = state
        BY <1>2 DEF Contexts!EnterTry
    <2>2. Contexts!findstate \in Contexts!Slots /\ (1 \in used => Contexts!findstate = 1)
        BY <1>2, SlotsFound DEF Contexts!None
    <2>3. /\ f \in Frame /\ f.kind = kind
          /\ f.slot = Contexts!findstate /\ f.prev = penv[Contexts!findstate]
        BY <2>2 DEF Frame, Contexts!Slots, ContextsTypeOK
    <2> HIDE DEF f
    <2>4. /\ stack' \in Seq(Frame) /\ stack' # <<>>
          /\ Len(stack') = Len(stack) + 1
          /\ stack'[Len(stack')] = f
          /\ \A i \in 1 .. Len(stack) : stack'[i] = stack[i]
        BY <2>1, <2>3, Pushed
    <2>5. Len(stack) \in Nat /\ 1 \in 1 .. Len(stack)
        BY DEF ContextsTypeOK
    <2>6. penv' \in [Contexts!Slots -> Nat]
        BY <2>1, <2>2, <2>5 DEF ContextsTypeOK
    <2>7. kind # "run"
        BY DEF Contexts!ExceptContextAssumption, Contexts!Wrapper
    <2>8. stack'[1].kind = "run"
        BY <2>4, <2>5 DEF FirstSlot
    <2>9. ASSUME ~ ended
          PROVE  /\ 1 \in used
                 /\ IsLast(stack', penv'[1], Len(stack') + 1)
                 /\ \A i \in Contexts!Trys' :
                        stack'[i].slot = 1 /\ IsLast(stack', stack'[i].prev, i)
        <3>1. /\ 1 \in used
              /\ IsLast(stack, penv[1], Len(stack) + 1)
              /\ \A i \in Contexts!Trys :
                     stack[i].slot = 1 /\ IsLast(stack, stack[i].prev, i)
            BY <2>9 DEF FirstSlot
        <3>2. Contexts!findstate = 1 /\ penv'[1] = Len(stack')
            BY <2>1, <2>2, <2>4, <3>1 DEF ContextsTypeOK
        <3>3. IsLast(stack', Len(stack'), Len(stack') + 1)
            BY <2>3, <2>4, <2>5, <2>7 DEF IsLast
        <3>4. ASSUME NEW i \in Contexts!Trys'
              PROVE  stack'[i].slot = 1 /\ IsLast(stack', stack'[i].prev, i)
            <4>1. i \in 1 .. Len(stack) + 1 /\ stack'[i].kind # "run"
                BY <2>4 DEF Contexts!Trys
            <4>2. CASE i = Len(stack) + 1
                <5>1. stack'[i].slot = 1 /\ stack'[i].prev = penv[1]
                    BY <2>3, <2>4, <3>2, <4>2
                <5>2. IsLast(stack', penv[1], Len(stack) + 1)
                    BY <2>4, <2>5, <3>1, LastInFront
                <5> QED BY <4>2, <5>1, <5>2
            <4>3. CASE i \in 1 .. Len(stack)
                <5>1. stack'[i] = stack[i] /\ i \in Contexts!Trys
                    BY <2>4, <4>1, <4>3 DEF Contexts!Trys, ContextsTypeOK
                <5>2. IsLast(stack, stack[i].prev, i) /\ stack[i].slot = 1
                    BY <3>1, <5>1
                <5>3. \A j \in 1 .. i - 1 : stack'[j] = stack[j]
                    BY <2>4, <2>5, <4>3
                <5>4. IsLast(stack', stack[i].prev, i)
                    BY <4>3, <5>2, <5>3, LastInFront
                <5> QED BY <5>1, <5>2, <5>4
            <4> QED BY <2>5, <4>1, <4>2, <4>3
        <3> QED BY <3>1, <3>2, <3>3, <3>4
    <2>10. FirstSlot'
        BY <2>4, <2>8, <2>9 DEF FirstSlot
    <2> QED BY <2>1, <2>3, <2>4, <2>6, <2>10
<1> QED BY <1>1, <1>2

\* The end of a Try notes the Try around it again.
LEMMA TryLeft ==
    ASSUME Contexts!ExceptContextAssumption, ContextsTypeOK, FirstSlot, state = "running",
           NEW k \in Contexts!Trys,
           stack' = SubSeq(stack, 1, k - 1), penv' = Contexts!Restored(k), UNCHANGED used,
           ended => ended'
    PROVE  /\ penv' \in [Contexts!Slots -> Nat]
           /\ stack' \in Seq(Frame)
           /\ Len(stack') = k - 1
           /\ \A i \in 1 .. k - 1 : stack'[i] = stack[i]
           /\ FirstSlot'
<1>1. /\ k \in 1 .. Len(stack) /\ stack[k] \in Frame /\ stack[k].kind # "run"
      /\ Len(stack) \in Nat /\ k \in Nat /\ DOMAIN stack = 1 .. Len(stack)
    BY DEF Contexts!Trys, ContextsTypeOK
<1>2. /\ stack' \in Seq(Frame)
      /\ Len(stack') = k - 1 /\ DOMAIN stack' = 1 .. k - 1
      /\ \A i \in 1 .. k - 1 : stack'[i] = stack[i]
    BY <1>1, Popped
<1>3. penv' \in [Contexts!Slots -> Nat]
    BY <1>1 DEF Contexts!Restored, ContextsTypeOK, Frame
<1>4. stack # <<>> /\ stack[1].kind = "run"
    BY <1>1 DEF FirstSlot
<1>5. k - 1 \in 1 .. Len(stack)
    <2>1. k # 1
        BY <1>1, <1>4
    <2> QED BY <1>1, <2>1
<1>6. stack' # <<>> /\ stack'[1].kind = "run"
    BY <1>2, <1>4, <1>5
<1>7. ASSUME ~ ended'
      PROVE  /\ 1 \in used
             /\ IsLast(stack', penv'[1], Len(stack') + 1)
             /\ \A i \in Contexts!Trys' :
                    stack'[i].slot = 1 /\ IsLast(stack', stack'[i].prev, i)
    <2>1. /\ 1 \in used
          /\ stack[k].slot = 1 /\ IsLast(stack, stack[k].prev, k)
          /\ \A i \in Contexts!Trys :
                 stack[i].slot = 1 /\ IsLast(stack, stack[i].prev, i)
        BY <1>4, <1>7 DEF FirstSlot
    <2>2. penv'[1] = stack[k].prev
        BY <2>1 DEF Contexts!Restored, ContextsTypeOK
    <2>3. IsLast(stack', stack[k].prev, k)
        BY <1>1, <1>2, <2>1, LastInFront
    <2>4. ASSUME NEW i \in Contexts!Trys'
          PROVE  stack'[i].slot = 1 /\ IsLast(stack', stack'[i].prev, i)
        <3>1. i \in 1 .. k - 1 /\ stack'[i].kind # "run"
            BY <1>2 DEF Contexts!Trys
        <3>2. stack'[i] = stack[i] /\ i \in Contexts!Trys
            BY <1>1, <1>2, <3>1 DEF Contexts!Trys, ContextsTypeOK
        <3>3. \A j \in 1 .. i - 1 : stack'[j] = stack[j]
            BY <1>1, <1>2, <3>1
        <3>4. IsLast(stack', stack[i].prev, i)
            <4>1. i \in Nat /\ IsLast(stack, stack[i].prev, i)
                BY <1>1, <2>1, <3>1, <3>2
            <4> QED BY <3>3, <4>1, LastInFront
        <3> QED BY <2>1, <3>2, <3>4
    <2>5. Len(stack') + 1 = k
        BY <1>1, <1>2
    <2> QED BY <2>1, <2>2, <2>3, <2>4, <2>5
<1>8. FirstSlot'
    BY <1>6, <1>7 DEF FirstSlot
<1> QED BY <1>2, <1>3, <1>8

-----------------------------------------------------------------------------
(* Handlers and exceptions *)

\* The monitor after a step that pushes a handler or a Try, or leaves the stack.
LEMMA MonitorStillSet ==
    ASSUME ContextsTypeOK, MonitorSet, state = "running", stack' \in Seq(Frame),
           NEW n \in 0 .. Len(stack), Len(stack') >= n,
           \A i \in 1 .. n : stack'[i] = stack[i],
           \A i \in n + 1 .. Len(stack) : stack[i].kind \notin MonitorType,
           monitor' = monitor, pending' = pending, late => late'
    PROVE  MonitorSet'
<1> SUFFICES ASSUME ~ late, monitor # Off
             PROVE  /\ ~ pending
                    /\ \E i \in DOMAIN stack' : stack'[i].kind \in MonitorType
    BY DEF MonitorSet
<1>1. ~ pending
    BY DEF MonitorSet
<1>2. PICK i \in 1 .. Len(stack) : stack[i].kind \in MonitorType
    BY DEF MonitorSet, ContextsTypeOK
<1>3. Len(stack) \in Nat /\ Len(stack') \in Nat /\ DOMAIN stack' = 1 .. Len(stack')
    BY DEF ContextsTypeOK
<1>4. i \in 1 .. n
    BY <1>2, <1>3
<1>5. i \in DOMAIN stack' /\ stack'[i].kind \in MonitorType
    BY <1>2, <1>3, <1>4
<1> QED BY <1>1, <1>5

LEMMA StepHandler ==
    ASSUME Contexts!ExceptContextAssumption, ContextsInv, NEW type \in Contexts!Wrapper,
           Contexts!call_eloop_handler(type)
    PROVE  ContextsInv'
<1>1. /\ state = "running" /\ stack # <<>> /\ Contexts!EnterTry(type)
      /\ UNCHANGED <<used, pending, ended, late>>
    BY DEF Contexts!call_eloop_handler, Contexts!InLoop
<1>2. /\ penv' \in [Contexts!Slots -> Nat]
      /\ stack' \in Seq(Frame)
      /\ state' \in {"running", "crashed"}
      /\ state' = "running" => /\ Len(stack') = Len(stack) + 1
                               /\ stack'[Len(stack')].kind = type
                               /\ \A i \in 1 .. Len(stack) : stack'[i] = stack[i]
      /\ FirstSlot'
    BY <1>1, TryEntered DEF ContextsInv
<1>3. \/ monitor' = monitor
      \/ state' = "running" /\ monitor' = type /\ type \in MonitorType /\ ~ pending
    BY DEF Contexts!call_eloop_handler, Contexts!SetPendingMonitor, Contexts!Wrapper
<1>4. ContextsTypeOK'
    BY <1>1, <1>2, <1>3 DEF ContextsInv, ContextsTypeOK
<1>5. MonitorSet'
    <2>1. CASE state' # "running"
        BY <2>1 DEF MonitorSet
    <2>2. CASE state' = "running" /\ monitor' = monitor
        <3>1. Len(stack) \in Nat
            BY DEF ContextsInv, ContextsTypeOK
        <3> QED BY <1>1, <1>2, <2>2, <3>1, MonitorStillSet DEF ContextsInv
    <2>3. CASE state' = "running" /\ monitor' = type /\ type \in MonitorType /\ ~ pending
        <3>1. Len(stack') \in DOMAIN stack'
            BY <1>2, <2>3 DEF ContextsInv, ContextsTypeOK
        <3> QED BY <1>1, <1>2, <2>3, <3>1 DEF MonitorSet
    <2> QED BY <1>3, <2>1, <2>2, <2>3
<1> QED BY <1>2, <1>4, <1>5 DEF ContextsInv

LEMMA StepTry ==
    ASSUME Contexts!ExceptContextAssumption, ContextsInv, Contexts!Try
    PROVE  ContextsInv'
<1>1. /\ state = "running" /\ stack # <<>> /\ Contexts!EnterTry("try")
      /\ UNCHANGED <<used, monitor, pending, ended, late>>
    BY DEF Contexts!Try, Contexts!InHandler
<1>2. /\ penv' \in [Contexts!Slots -> Nat]
      /\ stack' \in Seq(Frame)
      /\ state' \in {"running", "crashed"}
      /\ state' = "running" => /\ Len(stack') = Len(stack) + 1
                               /\ \A i \in 1 .. Len(stack) : stack'[i] = stack[i]
      /\ FirstSlot'
    BY <1>1, TryEntered DEF ContextsInv
<1>3. ContextsTypeOK'
    BY <1>1, <1>2 DEF ContextsInv, ContextsTypeOK
<1>4. MonitorSet'
    <2>1. CASE state' # "running"
        BY <2>1 DEF MonitorSet
    <2>2. CASE state' = "running"
        <3>1. Len(stack) \in Nat
            BY DEF ContextsInv, ContextsTypeOK
        <3> QED BY <1>1, <1>2, <2>2, <3>1, MonitorStillSet DEF ContextsInv
    <2> QED BY <2>1, <2>2
<1> QED BY <1>2, <1>3, <1>4 DEF ContextsInv

LEMMA StepLeave ==
    ASSUME Contexts!ExceptContextAssumption, ContextsInv, Contexts!LeaveTry
    PROVE  ContextsInv'
<1>1. /\ state = "running" /\ stack # <<>> /\ Contexts!Top.kind # "run"
      /\ penv' = Contexts!Restored(Len(stack))
      /\ stack' = SubSeq(stack, 1, Len(stack) - 1)
      /\ UNCHANGED <<used, pending, state, ended, late>>
    BY DEF Contexts!LeaveTry, Contexts!InHandler
<1>2. PICK n \in Nat : n = Len(stack) /\ n # 0
    BY <1>1 DEF ContextsInv, ContextsTypeOK
<1>3. n \in Contexts!Trys
    BY <1>1, <1>2 DEF Contexts!Trys, Contexts!Top, ContextsInv, ContextsTypeOK
<1>4. /\ penv' \in [Contexts!Slots -> Nat]
      /\ stack' \in Seq(Frame)
      /\ Len(stack') = n - 1
      /\ \A i \in 1 .. n - 1 : stack'[i] = stack[i]
      /\ FirstSlot'
    BY <1>1, <1>2, <1>3, TryLeft DEF ContextsInv
<1>5. \/ Contexts!Top.kind \in MonitorType /\ (monitor' = Off \/ (monitor' = monitor /\ pending))
      \/ monitor' = monitor /\ (monitor = Off \/ Contexts!Top.kind \notin MonitorType)
    BY DEF Contexts!LeaveTry, Contexts!ClrPendingMonitor
<1>6. ContextsTypeOK'
    BY <1>1, <1>4, <1>5 DEF ContextsInv, ContextsTypeOK
<1>7. MonitorSet'
    <2>1. CASE monitor' = Off \/ (monitor' = monitor /\ pending)
        BY <1>1, <2>1 DEF ContextsInv, MonitorSet
    <2>2. CASE monitor' = monitor /\ monitor = Off
        BY <2>2 DEF MonitorSet
    <2>3. CASE monitor' = monitor /\ Contexts!Top.kind \notin MonitorType
        <3>1. stack[n].kind \notin MonitorType
            BY <1>2, <2>3 DEF Contexts!Top
        <3>2. n - 1 \in 0 .. Len(stack) /\ \A i \in (n - 1) + 1 .. Len(stack) : i = n
            BY <1>2
        <3>3. \A i \in (n - 1) + 1 .. Len(stack) : stack[i].kind \notin MonitorType
            BY <3>1, <3>2
        <3>4. Len(stack') >= n - 1
            BY <1>2, <1>4
        <3> QED BY <1>1, <1>4, <2>3, <3>2, <3>3, <3>4, MonitorStillSet DEF ContextsInv
    <2> QED BY <1>5, <2>1, <2>2, <2>3
<1> QED BY <1>4, <1>6, <1>7 DEF ContextsInv

\* A jump, to whatever is noted in a slot.
LEMMA StepJump ==
    ASSUME Contexts!ExceptContextAssumption, ContextsInv, state = "running",
           NEW slot \in Contexts!Slots, Contexts!Jump(slot),
           UNCHANGED <<used, monitor, pending, ended>>
    PROVE  ContextsInv'
<1>1. PICK k \in Nat : k = penv[slot]
    BY DEF ContextsInv, ContextsTypeOK
<1>2. CASE k = Contexts!None \/ k > Len(stack) \/ stack[k].slot # slot \/ stack[k].kind = "run"
    <2>1. state' = "crashed" /\ UNCHANGED <<stack, penv, late>>
        BY <1>1, <1>2 DEF Contexts!Jump
    <2> QED BY <2>1 DEF ContextsInv, ContextsTypeOK, MonitorSet, FirstSlot
<1>3. CASE ~ (\/ k = Contexts!None \/ k > Len(stack)
              \/ stack[k].slot # slot \/ stack[k].kind = "run")
    <2>1. /\ penv' = Contexts!Restored(k)
          /\ stack' = SubSeq(stack, 1, k - 1)
          /\ state' = IF stack[k].kind = "try" THEN "running" ELSE "exited"
          /\ late' = (late \/ \E i \in Contexts!Handlers : i > k)
        BY <1>1, <1>3 DEF Contexts!Jump
    <2>2. Len(stack) \in Nat /\ k \in 1 .. Len(stack) /\ k \in Contexts!Trys
        BY <1>1, <1>3 DEF ContextsInv, ContextsTypeOK, Contexts!Trys, Contexts!None
    <2>3. ended' = ended /\ late' \in BOOLEAN /\ (late => late')
        BY <2>1 DEF ContextsInv, ContextsTypeOK
    <2>4. /\ penv' \in [Contexts!Slots -> Nat]
          /\ stack' \in Seq(Frame)
          /\ Len(stack') = k - 1
          /\ \A i \in 1 .. k - 1 : stack'[i] = stack[i]
          /\ FirstSlot'
        BY <2>1, <2>2, <2>3, TryLeft DEF ContextsInv
    <2>5. ContextsTypeOK'
        BY <2>1, <2>3, <2>4 DEF ContextsInv, ContextsTypeOK
    <2>6. MonitorSet'
        <3> SUFFICES ASSUME state' = "running", ~ late' PROVE MonitorSet'
            BY DEF MonitorSet
        <3>1. stack[k].kind = "try" /\ "try" \notin MonitorType
            BY <2>1 DEF Contexts!ExceptContextAssumption
        <3>2. \A i \in 1 .. Len(stack) : i > k => stack[i].kind \notin MonitorType
            <4>1. \A i \in Contexts!Handlers : ~ (i > k)
                BY <2>1
            <4>2. \A i \in 1 .. Len(stack) :
                      stack[i].kind \in MonitorType => i \in Contexts!Handlers
                BY DEF Contexts!Handlers, Contexts!Wrapper, ContextsInv, ContextsTypeOK
            <4> QED BY <4>1, <4>2
        <3>3. k - 1 \in 0 .. Len(stack) /\ \A i \in (k - 1) + 1 .. Len(stack) :
                                              i \in 1 .. Len(stack) /\ (i = k \/ i > k)
            BY <2>2
        <3>4. \A i \in (k - 1) + 1 .. Len(stack) : stack[i].kind \notin MonitorType
            BY <3>1, <3>2, <3>3
        <3>5. Len(stack') >= k - 1
            BY <2>2, <2>4
        <3> QED BY <2>3, <2>4, <3>3, <3>4, <3>5, MonitorStillSet DEF ContextsInv
    <2> QED BY <2>4, <2>5, <2>6 DEF ContextsInv
<1> QED BY <1>2, <1>3

LEMMA ContextsInvStep ==
    ASSUME Contexts!ExceptContextAssumption, ContextsInv, [Contexts!Next]_(Contexts!vars)
    PROVE  ContextsInv'
<1>1. CASE Contexts!eloop_run
    BY <1>1, StepRun
<1>2. CASE Contexts!ReturnFromRun
    BY <1>2, StepReturn
<1>3. ASSUME NEW type \in Contexts!Wrapper, Contexts!call_eloop_handler(type) PROVE ContextsInv'
    BY <1>3, StepHandler
<1>4. CASE Contexts!Try
    BY <1>4, StepTry
<1>5. CASE Contexts!LeaveTry
    BY <1>5, StepLeave
<1>6. CASE Contexts!Throw
    <2>1. CASE Contexts!findstate = Contexts!None
        <3>1. state' = "crashed" /\ UNCHANGED <<used, penv, stack, ended, late, monitor, pending>>
            BY <1>6, <2>1 DEF Contexts!Throw
        <3> QED BY <3>1 DEF ContextsInv, ContextsTypeOK, MonitorSet, FirstSlot
    <2>2. CASE Contexts!findstate # Contexts!None
        <3>1. /\ state = "running" /\ Contexts!Jump(Contexts!findstate)
              /\ UNCHANGED <<used, monitor, pending, ended>>
            BY <1>6, <2>2 DEF Contexts!Throw
        <3>2. PICK s \in Contexts!Slots : s = Contexts!findstate
            BY <2>2, SlotsFound DEF ContextsInv, Contexts!None
        <3> QED BY <3>1, <3>2, StepJump
    <2> QED BY <2>1, <2>2
<1>7. CASE Contexts!sighandler
    <2>1. /\ state = "running" /\ Contexts!findstate # Contexts!None
          /\ Contexts!Jump(Contexts!findstate)
          /\ UNCHANGED <<used, monitor, pending, ended>>
        BY <1>7 DEF Contexts!sighandler
    <2>2. PICK s \in Contexts!Slots : s = Contexts!findstate
        BY <2>1, SlotsFound DEF ContextsInv, Contexts!None
    <2> QED BY <2>1, <2>2, StepJump
<1>8. CASE Contexts!TermArrives
    <2>1. /\ late' = (late \/ Contexts!Handlers # {}) /\ pending' = TRUE /\ state = "running"
          /\ UNCHANGED <<used, penv, stack, monitor, state, ended>>
        BY <1>8 DEF Contexts!TermArrives, Contexts!slots
    <2>2. ContextsTypeOK'
        BY <2>1 DEF ContextsInv, ContextsTypeOK
    <2>3. MonitorSet'
        BY <2>1 DEF ContextsInv, MonitorSet, Contexts!Handlers, Contexts!Wrapper
    <2> QED BY <2>1, <2>2, <2>3, StackKept DEF ContextsInv
<1>9. CASE Contexts!TermProcessed
    <2>1. /\ pending' = FALSE
          /\ UNCHANGED <<used, penv, stack, monitor, state, ended, late>>
        BY <1>9 DEF Contexts!TermProcessed, Contexts!slots
    <2>2. ContextsTypeOK' /\ MonitorSet'
        BY <2>1 DEF ContextsInv, ContextsTypeOK, MonitorSet
    <2> QED BY <2>1, <2>2, StackKept DEF ContextsInv
<1>10. CASE UNCHANGED Contexts!vars
    <2>1. UNCHANGED <<used, penv, stack, monitor, pending, state, ended, late>>
        BY <1>10 DEF Contexts!vars, Contexts!slots
    <2>2. ContextsTypeOK' /\ MonitorSet'
        BY <2>1 DEF ContextsInv, ContextsTypeOK, MonitorSet
    <2> QED BY <2>1, <2>2, StackKept DEF ContextsInv
<1> QED BY <1>1, <1>2, <1>3, <1>4, <1>5, <1>6, <1>7, <1>8, <1>9, <1>10 DEF Contexts!Next

\* An exception finds the first slot, which notes the innermost Try.
LEMMA StepThrow ==
    ASSUME Contexts!ExceptContextAssumption, ContextsInv,
           Contexts!Throw \/ Contexts!sighandler, Contexts!Trys # {}, ~ ended,
           NEW k, k = Contexts!Largest(Contexts!Trys)
    PROVE  /\ stack' = SubSeq(stack, 1, k - 1)
           /\ state' = IF stack[k].kind = "try" THEN "running" ELSE "exited"
<1>1. state = "running" /\ stack # <<>>
    BY DEF Contexts!Throw, Contexts!sighandler, Contexts!InHandler
<1>2. /\ 1 \in used
      /\ IsLast(stack, penv[1], Len(stack) + 1)
      /\ \A i \in Contexts!Trys : stack[i].slot = 1
    BY <1>1 DEF ContextsInv, FirstSlot
<1>3. Contexts!findstate = 1
    BY <1>2, SlotsFound DEF ContextsInv
<1>4. Contexts!Jump(1)
    BY <1>3 DEF Contexts!Throw, Contexts!sighandler, Contexts!None
<1>5. penv[1] = k /\ k # 0
    BY <1>2, LastIsLargest DEF ContextsInv
<1>6. Len(stack) \in Nat /\ k \in 0 .. Len(stack) /\ stack[k].kind # "run"
    BY <1>2, <1>5 DEF IsLast, ContextsInv, ContextsTypeOK
<1>7. k \in Contexts!Trys /\ stack[k].slot = 1
    BY <1>2, <1>5, <1>6 DEF Contexts!Trys, ContextsInv, ContextsTypeOK
<1>8. ~ (k = Contexts!None \/ k > Len(stack) \/ stack[k].slot # 1 \/ stack[k].kind = "run")
    BY <1>5, <1>6, <1>7 DEF Contexts!None
<1> QED BY <1>4, <1>5, <1>8 DEF Contexts!Jump

\* The slots, the frames and the monitor, for every table of slots and every
\* nesting of loops, handlers and Trys.
THEOREM ContextsInvariant == Contexts!Spec => []ContextsInv
<1>1. Contexts!Init => ContextsInv
    BY ConstantsAssumption, ContextsInvInit
<1>2. ContextsInv /\ [Contexts!Next]_(Contexts!vars) => ContextsInv'
    BY ConstantsAssumption, ContextsInvStep
<1> QED BY <1>1, <1>2, PTL DEF Contexts!Spec

\* Outside of handlers the pending monitor is off, unless a termination signal
\* came while one ran or an exception went past one (SetPendingMonitor,
\* ClrPendingMonitor).
THEOREM MonitorIsCleared == Contexts!Spec => []MonitorGuardsHandlers
<1>1. ContextsInv => MonitorGuardsHandlers
    BY DEF ContextsInv, MonitorSet, MonitorGuardsHandlers, Contexts!MonitorGuardsHandlers,
       Contexts!Handlers, Contexts!Wrapper
<1> QED BY <1>1, ContextsInvariant, PTL

\* An exception or a signal, whichever it is, reaches the innermost Try until an
\* eloop_run nested in a handler has ended, however many slots there are and
\* however they are taken (findstate, Throw, sighandler).
THEOREM InnermostTryCatches == Contexts!Spec => InnermostUntilNestedEnds
<1> DEFINE Reached ==
               (Contexts!Throw \/ Contexts!sighandler) /\ Contexts!Trys # {} /\ ~ ended =>
                   Contexts!JumpToInnermost
<1>1. ContextsInv => Reached
    BY ConstantsAssumption, StepThrow DEF Contexts!JumpToInnermost
<1>2. InnermostUntilNestedEnds <=> [][Reached]_(Contexts!vars)
    BY DEF InnermostUntilNestedEnds, Contexts!InnermostUntilNestedEnds
<1> HIDE DEF Reached
<1> QED BY <1>1, ContextsInvariant, <1>2, PTL

-----------------------------------------------------------------------------
(***************************************************************************)
(* Sub-processes (SubProcess)                                              *)
(***************************************************************************)

ProcessesTypeOK ==
    /\ proc \in [Pid -> Processes!States]
    /\ started \in [Pid -> File \cup {Absent}]
    /\ pidFile \in [File -> Pid \cup {Absent, NoPid}]
    /\ place \in {"idle", "forked", "waiting"}
    /\ current \in File \cup {Absent}
    /\ child \in Pid \cup {NoPid}

\* The pid in a file is that of a child started with the file.
Own(p, f) == p \in Processes!Children /\ started[p] = f

\* The child that is about to be noted is one of its file.
ForkedIsOwn ==
    place = "forked" =>
        /\ current \in File
        /\ child # NoPid => Own(child, current)

\* No file names the child that is waited for, and its number becomes free.
WaitedIsUnnamed ==
    place = "waiting" =>
        /\ child \in Processes!Children
        /\ \A f \in File : Processes!Noted(f) # child

ProcessesInv ==
    ProcessesTypeOK /\ Processes!PidFilesNameChildren /\ ForkedIsOwn /\ WaitedIsUnnamed

-----------------------------------------------------------------------------
\* The pid that a file holds is a process number, and never that of a fork that
\* failed.
LEMMA NotedPid ==
    ASSUME Processes!SubProcessAssumption, ProcessesTypeOK, NEW f \in File,
           Processes!Noted(f) # NoPid
    PROVE  Processes!Noted(f) \in Pid /\ Processes!Noted(f) = pidFile[f]
BY DEF Processes!SubProcessAssumption, ProcessesTypeOK, Processes!Noted

LEMMA ProcessesInvInit ==
    ASSUME Processes!SubProcessAssumption, Processes!Init
    PROVE  ProcessesInv
<1>1. ProcessesTypeOK
    BY DEF Processes!Init, ProcessesTypeOK, Processes!States
<1>2. \A f \in File : Processes!Noted(f) = NoPid
    BY DEF Processes!Init, Processes!Noted
<1> QED BY <1>1, <1>2 DEF Processes!Init, ProcessesInv, Processes!PidFilesNameChildren,
           ForkedIsOwn, WaitedIsUnnamed

\* Children come and go, and files are removed, without a file naming anything
\* it did not name before: what a step must not do to a child that is named or
\* noted by the program.
LEMMA FilesRemoved ==
    ASSUME Processes!SubProcessAssumption, ProcessesInv,
           ProcessesTypeOK',
           \A p \in Processes!Children : p \in Processes!Children' /\ started'[p] = started[p],
           \A f \in File : pidFile'[f] \in {pidFile[f], Absent},
           UNCHANGED <<place, current, child>>
    PROVE  ProcessesInv'
<1>1. \A f \in File : Processes!Noted(f)' # NoPid => Processes!Noted(f)' = Processes!Noted(f)
    BY DEF Processes!Noted, Processes!SubProcessAssumption
<1>2. Processes!PidFilesNameChildren'
    BY <1>1 DEF ProcessesInv, Processes!PidFilesNameChildren
<1>3. ForkedIsOwn'
    BY DEF ProcessesInv, ForkedIsOwn, Own
<1>4. WaitedIsUnnamed'
    <2> SUFFICES ASSUME place' = "waiting" PROVE WaitedIsUnnamed'
        BY DEF WaitedIsUnnamed
    <2>1. child \in Pid /\ child # NoPid /\ child \in Processes!Children
        BY DEF ProcessesInv, WaitedIsUnnamed, Processes!Children, Processes!SubProcessAssumption
    <2> QED BY <1>1, <2>1 DEF ProcessesInv, WaitedIsUnnamed
<1> QED BY <1>2, <1>3, <1>4 DEF ProcessesInv

LEMMA ProcessesInvStep ==
    ASSUME Processes!SubProcessAssumption, ProcessesInv, [Processes!Next]_(Processes!vars)
    PROVE  ProcessesInv'
<1> USE Processes!SubProcessAssumption
<1>1. ASSUME NEW f \in File, Processes!run_sub_process(f) PROVE ProcessesInv'
    <2>1. ProcessesTypeOK'
        BY <1>1 DEF ProcessesInv, ProcessesTypeOK, Processes!run_sub_process, Processes!States
    <2>2. \A p \in Processes!Children : p \in Processes!Children' /\ started'[p] = started[p]
        BY <1>1 DEF ProcessesInv, ProcessesTypeOK, Processes!run_sub_process, Processes!Children
    <2>3. \A g \in File : Processes!Noted(g)' = Processes!Noted(g)
        BY <1>1 DEF Processes!run_sub_process, Processes!Noted
    <2>4. Processes!PidFilesNameChildren'
        BY <2>2, <2>3 DEF ProcessesInv, Processes!PidFilesNameChildren
    <2>5. child' # NoPid => Own(child, current)'
        BY <1>1 DEF ProcessesInv, ProcessesTypeOK, Processes!run_sub_process, Own,
           Processes!Children, Processes!States
    <2>6. ForkedIsOwn' /\ WaitedIsUnnamed'
        BY <1>1, <2>5 DEF Processes!run_sub_process, ForkedIsOwn, WaitedIsUnnamed
    <2> QED BY <2>1, <2>4, <2>6 DEF ProcessesInv
<1>2. ASSUME Processes!safe_fork PROVE ProcessesInv'
    <2>1. ProcessesTypeOK'
        BY <1>2 DEF ProcessesInv, ProcessesTypeOK, Processes!safe_fork
    <2>2. \A g \in File : \/ Processes!Noted(g)' = Processes!Noted(g)
                          \/ g = current /\ Processes!Noted(g)' = child
        BY <1>2 DEF ProcessesInv, ProcessesTypeOK, Processes!safe_fork, Processes!Noted,
           Processes!SubProcessAssumption
    <2>3. Processes!Children' = Processes!Children /\ started' = started
        BY <1>2 DEF Processes!safe_fork, Processes!Children
    <2>4. Processes!PidFilesNameChildren'
        BY <1>2, <2>2, <2>3 DEF ProcessesInv, Processes!PidFilesNameChildren, ForkedIsOwn,
           Own, Processes!safe_fork
    <2>5. ForkedIsOwn' /\ WaitedIsUnnamed'
        BY <1>2 DEF Processes!safe_fork, ForkedIsOwn, WaitedIsUnnamed
    <2> QED BY <2>1, <2>4, <2>5 DEF ProcessesInv
<1>3. ASSUME NEW p \in Pid, Processes!execvp(p) \/ Processes!exit(p) PROVE ProcessesInv'
    <2>1. ProcessesTypeOK'
        BY <1>3 DEF ProcessesInv, ProcessesTypeOK, Processes!execvp, Processes!exit,
           Processes!States
    <2>2. \A q \in Processes!Children : q \in Processes!Children' /\ started'[q] = started[q]
        BY <1>3 DEF ProcessesInv, ProcessesTypeOK, Processes!execvp, Processes!exit,
           Processes!Children
    <2> QED BY <1>3, <2>1, <2>2, FilesRemoved DEF Processes!execvp, Processes!exit
<1>4. ASSUME NEW p \in Pid, Processes!execvpFails(p) PROVE ProcessesInv'
    <2>1. ProcessesTypeOK'
        BY <1>4 DEF ProcessesInv, ProcessesTypeOK, Processes!execvpFails, Processes!States
    <2>2. \A q \in Processes!Children : q \in Processes!Children' /\ started'[q] = started[q]
        BY <1>4 DEF ProcessesInv, ProcessesTypeOK, Processes!execvpFails, Processes!Children
    <2>3. \A f \in File : pidFile'[f] \in {pidFile[f], Absent}
        BY <1>4 DEF ProcessesInv, ProcessesTypeOK, Processes!execvpFails
    <2> QED BY <1>4, <2>1, <2>2, <2>3, FilesRemoved DEF Processes!execvpFails
<1>5. ASSUME NEW f \in File, Processes!kill_sub_process(f) PROVE ProcessesInv'
    <2>1. ASSUME NEW p \in Pid PROVE proc'[p] \in {proc[p], "free", "zombie"}
        BY <1>5 DEF Processes!kill_sub_process, Processes!Children
    <2>2. proc' \in [Pid -> Processes!States]
        <3> DEFINE Killed(p) ==
                CASE p # Processes!Noted(f) \/ proc[p] = "free" -> proc[p]
                  [] p = Processes!Noted(f) /\ proc[p] = "foreign" -> "free"
                  [] p = Processes!Noted(f) /\ p \in Processes!Children -> "zombie"
        <3>1. proc' = [p \in Pid |-> Killed(p)]
            BY <1>5, Zenon DEF Processes!kill_sub_process
        <3>2. \A p \in Pid : proc'[p] = Killed(p)
            BY <3>1
        <3>3. \A p \in Pid : Killed(p) \in Processes!States
            BY <2>1, <3>2 DEF ProcessesInv, ProcessesTypeOK, Processes!States
        <3> HIDE DEF Killed
        <3> QED BY <3>1, <3>3
    <2>3. ProcessesTypeOK'
        BY <1>5, <2>2 DEF ProcessesInv, ProcessesTypeOK, Processes!kill_sub_process,
           Processes!States
    <2>4. \A q \in Processes!Children : q \in Processes!Children' /\ started'[q] = started[q]
        BY <1>5 DEF ProcessesInv, ProcessesTypeOK, Processes!kill_sub_process,
           Processes!Children
    <2>5. \A g \in File : pidFile'[g] \in {pidFile[g], Absent}
        BY <1>5 DEF ProcessesInv, ProcessesTypeOK, Processes!kill_sub_process
    <2> QED BY <1>5, <2>3, <2>4, <2>5, FilesRemoved DEF Processes!kill_sub_process
<1>6. ASSUME NEW f \in File, Processes!wait_sub_process(f) PROVE ProcessesInv'
    <2>1. ProcessesTypeOK'
        BY <1>6 DEF ProcessesInv, ProcessesTypeOK, Processes!wait_sub_process,
           Processes!FileOfWait, Processes!Children
    <2>2. \A g \in File : \/ g = f /\ Processes!Noted(g)' = NoPid
                          \/ g # f /\ Processes!Noted(g)' = Processes!Noted(g)
        BY <1>6 DEF ProcessesInv, ProcessesTypeOK, Processes!wait_sub_process,
           Processes!FileOfWait, Processes!Noted
    <2>3. Processes!Children' = Processes!Children /\ started' = started
        BY <1>6 DEF Processes!wait_sub_process, Processes!Children
    <2>4. Processes!PidFilesNameChildren'
        BY <2>2, <2>3 DEF ProcessesInv, Processes!PidFilesNameChildren
    <2>5. ForkedIsOwn'
        BY <1>6 DEF Processes!wait_sub_process, ForkedIsOwn
    <2>6. WaitedIsUnnamed'
        <3> SUFFICES ASSUME place' = "waiting", NEW g \in File
                     PROVE  child' \in Processes!Children' /\ Processes!Noted(g)' # child'
            BY DEF WaitedIsUnnamed
        <3>1. Processes!Noted(f) \in Processes!Children /\ child' = Processes!Noted(f)
            BY <1>6 DEF Processes!wait_sub_process
        <3>2. Processes!Noted(f) \in Pid /\ Processes!Noted(f) # NoPid
            BY <3>1 DEF Processes!Children, Processes!SubProcessAssumption
        <3>3. g # f => Processes!Noted(g) # Processes!Noted(f)
            BY <3>2 DEF ProcessesInv, Processes!PidFilesNameChildren
        <3> QED BY <2>2, <2>3, <3>1, <3>2, <3>3
    <2> QED BY <2>1, <2>4, <2>5, <2>6 DEF ProcessesInv
<1>7. ASSUME Processes!waitpid PROVE ProcessesInv'
    <2>1. ProcessesTypeOK'
        BY <1>7 DEF ProcessesInv, ProcessesTypeOK, Processes!waitpid, Processes!States
    <2>2. \A q \in Processes!Children :
              q # child => q \in Processes!Children' /\ started'[q] = started[q]
        BY <1>7 DEF ProcessesInv, ProcessesTypeOK, Processes!waitpid, Processes!Children
    <2>3. \A g \in File : Processes!Noted(g)' = Processes!Noted(g) /\ Processes!Noted(g) # child
        BY <1>7 DEF ProcessesInv, WaitedIsUnnamed, Processes!waitpid, Processes!Noted
    <2>4. Processes!PidFilesNameChildren'
        BY <2>2, <2>3 DEF ProcessesInv, Processes!PidFilesNameChildren
    <2>5. ForkedIsOwn' /\ WaitedIsUnnamed'
        BY <1>7 DEF Processes!waitpid, ForkedIsOwn, WaitedIsUnnamed
    <2> QED BY <2>1, <2>4, <2>5 DEF ProcessesInv
<1>8. ASSUME NEW p \in Pid, Processes!Foreign(p) PROVE ProcessesInv'
    <2>1. ProcessesTypeOK'
        BY <1>8 DEF ProcessesInv, ProcessesTypeOK, Processes!Foreign, Processes!States
    <2>2. \A q \in Processes!Children : q \in Processes!Children' /\ started'[q] = started[q]
        BY <1>8 DEF ProcessesInv, ProcessesTypeOK, Processes!Foreign, Processes!Children
    <2> QED BY <1>8, <2>1, <2>2, FilesRemoved DEF Processes!Foreign
<1>9. ASSUME UNCHANGED Processes!vars PROVE ProcessesInv'
    BY <1>9 DEF Processes!vars, ProcessesInv, ProcessesTypeOK, Processes!PidFilesNameChildren,
       ForkedIsOwn, WaitedIsUnnamed,
                Own, Processes!Noted, Processes!Children
<1> QED BY <1>1, <1>2, <1>3, <1>4, <1>5, <1>6, <1>7, <1>8, <1>9
        DEF Processes!Next, Processes!check_sub_process

\* A pid file names a child that was started with it and was not waited for, in
\* whatever order children fail, end, are killed and are started again with the
\* same file: no other process is killed (kill_sub_process).
THEOREM FilesNameOwnChildren == Processes!Spec => []PidFilesNameChildren
<1>1. Processes!Init => ProcessesInv
    BY ConstantsAssumption, ProcessesInvInit
<1>2. ProcessesInv /\ [Processes!Next]_(Processes!vars) => ProcessesInv'
    BY ConstantsAssumption, ProcessesInvStep
<1>3. ProcessesInv => PidFilesNameChildren
    BY DEF ProcessesInv, PidFilesNameChildren
<1> QED BY <1>1, <1>2, <1>3, PTL DEF Processes!Spec

-----------------------------------------------------------------------------
(***************************************************************************)
(* The debugging allocator (DbgMalloc)                                     *)
(***************************************************************************)

\* The blocks, those that are in use in a memory m, and the memories.
Block == Memory!PoolBlock \cup HeapBlock
InUse(m) == m.uses \cup {b \in HeapBlock : m.heap[b] # NULL}
Memories == [uses : SUBSET Memory!PoolBlock, idxs : [Memory!Pools -> 0 .. PoolSlots - 1],
             heap : [HeapBlock -> Nat \cup {NULL}]]

MemTypeOK ==
    /\ mem \in Memories
    /\ held \in [Ref -> [block : Block \cup {NULL}, size : Nat]]
    /\ overrun \in BOOLEAN

\* What a pointer holds is in use and has the room that was asked for.
HeldHasRoom ==
    \A r \in Ref : held[r].block # NULL =>
        held[r].block \in InUse(mem) /\ held[r].size <= Memory!Room(mem, held[r].block)

\* A pointer without a block is as at the start.
NullIsNothing == \A r \in Ref : held[r].block = NULL => held[r] = Memory!Nothing

\* No two pointers hold the same block, and every block in use is held.
BlockHeldOnce ==
    \A r, s \in Ref : held[r].block # NULL /\ held[r].block = held[s].block => r = s
NoneLost == \A b \in InUse(mem) : \E r \in Ref : held[r].block = b

MemInv == MemTypeOK /\ HeldHasRoom /\ NullIsNothing /\ BlockHeldOnce /\ NoneLost

-----------------------------------------------------------------------------
\* Units hold what they are rounded up for.
LEMMA RoundedHolds ==
    ASSUME Memory!DbgMallocAssumption, NEW size \in Nat PROVE size <= Memory!Rounded(size)
<1>1. Unit \in Nat /\ Unit > 0
    BY DEF Memory!DbgMallocAssumption
<1> DEFINE n == size + Unit - 1
<1>2. n \in Nat
    BY <1>1
<1>3. n \div Unit \in Int /\ n % Unit \in 0 .. Unit - 1 /\ n = Unit * (n \div Unit) + (n % Unit)
    BY <1>1, <1>2
<1> QED BY <1>1, <1>3 DEF Memory!Rounded

\* tmalloc gives out a free block with its size, or nothing.
LEMMA MallocGives ==
    ASSUME Memory!DbgMallocAssumption, NEW m \in Memories, NEW size \in Nat,
           NEW a \in Memory!tmalloc(m, size)
    PROVE  /\ a.mem \in Memories
           /\ a.block \in HeapBlock \cup {NULL}
           /\ a.block = NULL => a.mem = m
           /\ a.block # NULL =>
                  /\ a.block \notin InUse(m)
                  /\ InUse(a.mem) = InUse(m) \cup {a.block}
                  /\ size <= Memory!Room(a.mem, a.block)
           /\ \A b \in InUse(m) : Memory!Noted(a.mem, b) = Memory!Noted(m, b)
<1>1. CASE a.block = NULL
    <2>1. a = [mem |-> m, block |-> NULL]
        BY <1>1 DEF Memory!tmalloc, Memory!DbgMallocAssumption
    <2> QED BY <2>1
<1>2. CASE a.block # NULL
    <2>1. PICK b \in HeapBlock : m.heap[b] = NULL
                 /\ a = [mem |-> [m EXCEPT !.heap[b] = size], block |-> b]
        BY <1>2 DEF Memory!tmalloc
    <2>2. b \notin Memory!PoolBlock /\ b # NULL /\ size # NULL
        BY DEF Memory!DbgMallocAssumption
    <2>3. /\ a.mem.uses = m.uses /\ a.mem.heap = [m.heap EXCEPT ![b] = size]
          /\ a.mem \in Memories /\ a.block = b
        BY <2>1 DEF Memories
    <2>4. /\ a.mem.heap \in [HeapBlock -> Nat \cup {NULL}]
          /\ m.heap \in [HeapBlock -> Nat \cup {NULL}]
          /\ m.uses \subseteq Memory!PoolBlock
        BY <2>3 DEF Memories
    <2>5. a.block \notin InUse(m)
        BY <2>1, <2>2, <2>3, <2>4 DEF InUse
    <2>6. InUse(a.mem) = InUse(m) \cup {b}
        BY <2>2, <2>3, <2>4 DEF InUse
    <2>7. Memory!Noted(a.mem, b) = size
        BY <2>2, <2>3, <2>4 DEF Memory!Noted
    <2>8. size <= Memory!Room(a.mem, b)
        BY <2>7, RoundedHolds DEF Memory!Room
    <2>9. \A c \in InUse(m) : Memory!Noted(a.mem, c) = Memory!Noted(m, c)
        BY <2>1, <2>3, <2>4, <2>5 DEF Memory!Noted, InUse
    <2> QED BY <2>2, <2>3, <2>5, <2>6, <2>8, <2>9
<1> QED BY <1>1, <1>2

\* So does tpool_alloc, from its pools first.
LEMMA PoolGives ==
    ASSUME Memory!DbgMallocAssumption, NEW m \in Memories, NEW size \in Nat,
           NEW a \in Memory!tpool_alloc(m, size)
    PROVE  /\ a.mem \in Memories
           /\ a.block \in Block \cup {NULL}
           /\ a.block = NULL => InUse(a.mem) = InUse(m)
           /\ a.block # NULL =>
                  /\ a.block \notin InUse(m)
                  /\ InUse(a.mem) = InUse(m) \cup {a.block}
                  /\ size <= Memory!Room(a.mem, a.block)
           /\ \A b \in InUse(m) : Memory!Noted(a.mem, b) = Memory!Noted(m, b)
<1>0. PoolSlots \in Nat /\ PoolSlots > 0
    BY DEF Memory!DbgMallocAssumption
<1>1. CASE \A i \in Memory!Pools : PoolSize[i] # size
    <2>1. a \in Memory!tmalloc(m, size)
        BY <1>1 DEF Memory!tpool_alloc
    <2> QED BY <2>1, MallocGives DEF Block
<1>2. CASE ~ \A i \in Memory!Pools : PoolSize[i] # size
    <2> DEFINE i == CHOOSE k \in Memory!Pools : PoolSize[k] = size
               from == m.idxs[i]
               unused == {j \in 0 .. PoolSlots - 1 : <<i, (from + j) % PoolSlots>> \notin m.uses}
               j == CHOOSE k \in unused : \A l \in unused : k <= l
               moved == [m EXCEPT !.idxs[i] = (@ + 1) % PoolSlots]
               b == <<i, (from + j) % PoolSlots>>
               taken == [m EXCEPT !.uses = @ \cup {b}, !.idxs[i] = (from + j + 1) % PoolSlots]
    <2>1. i \in Memory!Pools /\ PoolSize[i] = size
        BY <1>2
    <2>2. from \in 0 .. PoolSlots - 1
        BY <2>1 DEF Memories
    <2>3. IF unused = {} THEN a \in Memory!tmalloc(moved, size)
          ELSE a = [mem |-> taken, block |-> b]
        BY <1>2 DEF Memory!tpool_alloc, Memory!PoolAddress
    <2>4. CASE unused = {}
        <3>1. moved \in Memories
            <4> DEFINE idxs == [m.idxs EXCEPT ![i] = (from + 1) % PoolSlots]
            <4>1. moved = [m EXCEPT !.idxs = idxs]
                OBVIOUS
            <4> HIDE DEF i
            <4>2. m.idxs \in [Memory!Pools -> 0 .. PoolSlots - 1]
                BY DEF Memories
            <4>3. (from + 1) % PoolSlots \in 0 .. PoolSlots - 1
                BY <1>0, <2>2
            <4>4. idxs \in [Memory!Pools -> 0 .. PoolSlots - 1]
                BY <4>2, <4>3
            <4> HIDE DEF idxs, moved
            <4> QED BY <4>1, <4>4 DEF Memories
        <3>2. moved.uses = m.uses /\ moved.heap = m.heap
            BY DEF Memories
        <3>3. InUse(moved) = InUse(m) /\ \A c : Memory!Noted(moved, c) = Memory!Noted(m, c)
            BY <3>2 DEF InUse, Memory!Noted
        <3> HIDE DEF moved
        <3>4. a \in Memory!tmalloc(moved, size)
            BY <2>3, <2>4
        <3> QED BY <3>1, <3>3, <3>4, MallocGives DEF Block
    <2>5. CASE unused # {}
        <3> HIDE DEF i, from
        <3>1. unused \subseteq Nat
            BY <1>0
        <3>2. \E k \in unused : \A l \in unused : k <= l
            BY <2>5, <3>1, LeastElement
        <3>3. j \in unused
            BY <3>2
        <3>4. j \in 0 .. PoolSlots - 1 /\ b \notin m.uses
            BY <3>3
        <3> HIDE DEF j
        <3>5. (from + j) % PoolSlots \in 0 .. PoolSlots - 1
              /\ (from + j + 1) % PoolSlots \in 0 .. PoolSlots - 1
            BY <1>0, <2>2, <3>4
        <3>6. b \in Memory!PoolBlock /\ b[1] = i
            BY <2>1, <3>5 DEF Memory!PoolBlock
        <3> HIDE DEF b
        <3>8. /\ taken \in Memories
              /\ taken.uses = m.uses \cup {b} /\ taken.heap = m.heap
            BY <2>1, <3>5, <3>6 DEF Memories
        <3> HIDE DEF taken, moved, unused
        <3>7. a.mem = taken /\ a.block = b
            BY <2>3, <2>5
        <3>9. b \notin HeapBlock /\ b # NULL
            BY <3>6 DEF Memory!DbgMallocAssumption
        <3>10. b \notin InUse(m) /\ InUse(taken) = InUse(m) \cup {b}
            BY <3>4, <3>8, <3>9 DEF InUse
        <3>11. \A c : Memory!Noted(taken, c) = Memory!Noted(m, c)
            BY <3>8 DEF Memory!Noted
        <3>12. size <= Memory!Room(taken, b)
            BY <2>1, <3>6 DEF Memory!Room, Memory!Noted, Memory!DbgMallocAssumption
        <3> QED BY <3>6, <3>7, <3>8, <3>9, <3>10, <3>11, <3>12 DEF Block
    <2> QED BY <2>4, <2>5
<1> QED BY <1>1, <1>2

\* What is given back is free, and nothing else is.
LEMMA FreeGivesBack ==
    ASSUME Memory!DbgMallocAssumption, NEW m \in Memories, NEW b \in Block \cup {NULL}
    PROVE  /\ Memory!tpool_free(m, b) \in Memories
           /\ InUse(Memory!tpool_free(m, b)) = InUse(m) \ {b}
           /\ \A c \in InUse(m) \ {b} : Memory!Noted(Memory!tpool_free(m, b), c) = Memory!Noted(m, c)
<1>1. CASE b = NULL
    <2>1. b \notin Memory!PoolBlock /\ b \notin HeapBlock
        BY <1>1 DEF Memory!DbgMallocAssumption
    <2>2. Memory!tpool_free(m, b) = m
        BY <1>1, <2>1 DEF Memory!tpool_free
    <2>3. b \notin InUse(m)
        BY <2>1 DEF InUse, Memories
    <2> QED BY <2>2, <2>3
<1>2. CASE b \in Memory!PoolBlock
    <2>1. b \notin HeapBlock /\ b # NULL
        BY <1>2 DEF Memory!DbgMallocAssumption
    <2> DEFINE n == [m EXCEPT !.uses = @ \ {b}]
    <2>2. Memory!tpool_free(m, b) = n
        BY <1>2, <2>1, Zenon DEF Memory!tpool_free
    <2>3. n \in Memories /\ n.uses = m.uses \ {b} /\ n.heap = m.heap
        BY DEF Memories
    <2> HIDE DEF n
    <2> QED BY <2>1, <2>2, <2>3 DEF InUse, Memory!Noted
<1>3. CASE b \in HeapBlock
    <2>1. b \notin Memory!PoolBlock /\ b # NULL
        BY <1>3 DEF Memory!DbgMallocAssumption
    <2> DEFINE n == [m EXCEPT !.heap[b] = NULL]
    <2>2. Memory!tpool_free(m, b) = n
        BY <1>3, <2>1, Zenon DEF Memory!tpool_free
    <2>3. n \in Memories /\ n.uses = m.uses /\ n.heap = [m.heap EXCEPT ![b] = NULL]
        BY <1>3 DEF Memories
    <2>4. m.heap \in [HeapBlock -> Nat \cup {NULL}] /\ m.uses \subseteq Memory!PoolBlock
        BY DEF Memories
    <2> HIDE DEF n
    <2> QED BY <1>3, <2>1, <2>2, <2>3, <2>4 DEF InUse, Memory!Noted
<1> QED BY <1>1, <1>2, <1>3 DEF Block

-----------------------------------------------------------------------------
\* At the start nothing is in use.
LEMMA MemInvInit == ASSUME Memory!DbgMallocAssumption, Memory!Init PROVE MemInv
<1>1. PoolSlots \in Nat /\ PoolSlots > 0
    BY DEF Memory!DbgMallocAssumption
<1>2. /\ mem.uses = {} /\ mem.idxs = [i \in Memory!Pools |-> 0]
      /\ mem.heap = [b \in HeapBlock |-> NULL] /\ mem \in Memories
    BY <1>1 DEF Memory!Init, Memory!NoBlocks, Memories
<1>3. InUse(mem) = {}
    BY <1>2 DEF InUse
<1>4. \A r \in Ref : held[r] = Memory!Nothing /\ held[r].block = NULL
    BY DEF Memory!Init, Memory!Nothing
<1>5. MemTypeOK
    BY <1>2 DEF Memory!Init, MemTypeOK, Memory!Nothing
<1> QED BY <1>3, <1>4, <1>5
        DEF MemInv, HeldHasRoom, NullIsNothing, BlockHeldOnce, NoneLost

\* A pointer gives up what it holds, if anything, for a block that was free: r
\* held old, which is free in the memory m before or after the block is got.
LEMMA Exchanged ==
    ASSUME Memory!DbgMallocAssumption, MemInv, NEW r \in Ref, NEW size \in Nat,
           NEW a \in Memory!tpool_alloc(mem, size),
           mem' = Memory!tpool_free(a.mem, held[r].block),
           held' = [held EXCEPT ![r] = IF a.block = NULL THEN Memory!Nothing
                                       ELSE [block |-> a.block, size |-> size]],
           overrun' \in BOOLEAN
    PROVE  MemInv'
<1> DEFINE old == held[r].block
           got == IF a.block = NULL THEN Memory!Nothing ELSE [block |-> a.block, size |-> size]
<1>1. /\ mem \in Memories /\ held \in [Ref -> [block : Block \cup {NULL}, size : Nat]]
      /\ old \in Block \cup {NULL}
    BY DEF MemInv, MemTypeOK
<1>2. /\ a.mem \in Memories
      /\ a.block \in Block \cup {NULL}
      /\ a.block = NULL => InUse(a.mem) = InUse(mem)
      /\ a.block # NULL =>
             /\ a.block \notin InUse(mem)
             /\ InUse(a.mem) = InUse(mem) \cup {a.block}
             /\ size <= Memory!Room(a.mem, a.block)
      /\ \A b \in InUse(mem) : Memory!Noted(a.mem, b) = Memory!Noted(mem, b)
    BY <1>1, PoolGives
<1>3. /\ mem' \in Memories
      /\ InUse(mem') = InUse(a.mem) \ {old}
      /\ \A c \in InUse(a.mem) \ {old} : Memory!Noted(mem', c) = Memory!Noted(a.mem, c)
    BY <1>1, <1>2, FreeGivesBack
<1>4. /\ got \in [block : Block \cup {NULL}, size : Nat]
      /\ got.block = a.block
      /\ a.block # NULL => got.size = size
      /\ a.block = NULL => got = Memory!Nothing
    BY <1>2 DEF Memory!Nothing
<1>5. /\ held' = [held EXCEPT ![r] = got]
      /\ held'[r] = got /\ \A s \in Ref \ {r} : held'[s] = held[s]
    BY <1>1
<1> HIDE DEF got
<1>6. MemTypeOK'
    BY <1>1, <1>3, <1>4, <1>5 DEF MemTypeOK
<1>7. \A s \in Ref : held[s].block # NULL => held[s].block \in InUse(mem)
    BY DEF MemInv, HeldHasRoom
<1>8. NULL \notin InUse(mem)
    BY <1>1 DEF InUse, Memories, Memory!DbgMallocAssumption
<1>9. \A s \in Ref \ {r} : held[s].block # NULL => held[s].block # old /\ held[s].block # a.block
    BY <1>2, <1>7 DEF MemInv, BlockHeldOnce
<1>10. a.block # NULL => a.block # old
    BY <1>2, <1>7
<1>11. HeldHasRoom'
    <2> SUFFICES ASSUME NEW s \in Ref, held'[s].block # NULL
                 PROVE  held'[s].block \in InUse(mem')
                        /\ held'[s].size <= Memory!Room(mem', held'[s].block)
        BY DEF HeldHasRoom
    <2>1. CASE s = r
        BY <1>2, <1>3, <1>4, <1>5, <1>10, <2>1 DEF Memory!Room
    <2>2. CASE s # r
        <3>1. held[s].block \in InUse(mem) /\ held[s].size <= Memory!Room(mem, held[s].block)
            BY <1>5, <2>2 DEF MemInv, HeldHasRoom
        <3>2. held[s].block \in InUse(a.mem) \ {old}
            BY <1>2, <1>5, <1>9, <2>2, <3>1
        <3>3. Memory!Noted(mem', held[s].block) = Memory!Noted(mem, held[s].block)
            BY <1>2, <1>3, <3>1, <3>2
        <3> QED BY <1>3, <1>5, <2>2, <3>1, <3>2, <3>3 DEF Memory!Room
    <2> QED BY <2>1, <2>2
<1>12. NullIsNothing'
    BY <1>4, <1>5 DEF MemInv, NullIsNothing
<1>13. BlockHeldOnce'
    BY <1>4, <1>5, <1>9 DEF MemInv, BlockHeldOnce
<1>14. NoneLost'
    <2> SUFFICES ASSUME NEW b \in InUse(mem') PROVE \E s \in Ref : held'[s].block = b
        BY DEF NoneLost
    <2>1. CASE b = a.block
        BY <1>4, <1>5, <2>1
    <2>2. CASE b # a.block
        <3>1. b \in InUse(mem) /\ b # old
            BY <1>2, <1>3, <2>2
        <3>2. PICK s \in Ref : held[s].block = b
            BY <3>1 DEF MemInv, NoneLost
        <3> QED BY <1>5, <3>1, <3>2
    <2> QED BY <2>1, <2>2
<1> QED BY <1>6, <1>11, <1>12, <1>13, <1>14 DEF MemInv

\* tpool_alloc, tpool_realloc, which frees the old block after it got the new
\* one, and tpool_free exchange what one pointer holds.
LEMMA MemInvStep ==
    ASSUME Memory!DbgMallocAssumption, MemInv, [Memory!Next]_(Memory!vars)
    PROVE  MemInv'
<1>1. ASSUME NEW r \in Ref, NEW size \in Nat, Memory!my_malloc(r, size) PROVE MemInv'
    <2>1. PICK a \in Memory!tpool_alloc(mem, size) :
              /\ mem' = a.mem
              /\ held' = [held EXCEPT ![r] = IF a.block = NULL THEN Memory!Nothing
                                             ELSE [block |-> a.block, size |-> size]]
        BY <1>1 DEF Memory!my_malloc
    <2>2. held[r].block = NULL
        BY <1>1 DEF Memory!my_malloc, Memory!Nothing
    <2>3. Memory!tpool_free(a.mem, held[r].block) = a.mem
        <3>1. NULL \notin Memory!PoolBlock /\ NULL \notin HeapBlock
            BY DEF Memory!DbgMallocAssumption
        <3> QED BY <2>2, <3>1, Zenon DEF Memory!tpool_free
    <2>4. overrun' \in BOOLEAN
        BY <1>1 DEF Memory!my_malloc, MemInv, MemTypeOK
    <2> QED BY <2>1, <2>3, <2>4, Exchanged
<1>2. ASSUME NEW r \in Ref, NEW size \in Nat, Memory!my_realloc(r, size) PROVE MemInv'
    <2>1. PICK a \in Memory!tpool_alloc(mem, size) :
              /\ mem' = Memory!tpool_free(a.mem, held[r].block)
              /\ held' = [held EXCEPT ![r] = IF a.block = NULL THEN Memory!Nothing
                                             ELSE [block |-> a.block, size |-> size]]
              /\ overrun' = (a.block # NULL
                                /\ Memory!Noted(mem, held[r].block) > Memory!Room(a.mem, a.block))
        BY <1>2 DEF Memory!my_realloc
    <2>2. overrun' \in BOOLEAN
        BY <2>1
    <2> QED BY <2>1, <2>2, Exchanged
<1>3. ASSUME NEW r \in Ref, Memory!my_free(r) PROVE MemInv'
    <2> DEFINE b == held[r].block
    <2>1. /\ mem \in Memories /\ b \in Block \cup {NULL}
          /\ held \in [Ref -> [block : Block \cup {NULL}, size : Nat]]
        BY DEF MemInv, MemTypeOK
    <2>2. /\ mem' \in Memories /\ InUse(mem') = InUse(mem) \ {b}
          /\ \A c \in InUse(mem) \ {b} : Memory!Noted(mem', c) = Memory!Noted(mem, c)
        BY <1>3, <2>1, FreeGivesBack DEF Memory!my_free
    <2>3. /\ held'[r] = Memory!Nothing /\ \A s \in Ref \ {r} : held'[s] = held[s]
          /\ Memory!Nothing.block = NULL
        BY <1>3, <2>1 DEF Memory!my_free, Memory!Nothing
    <2>4. MemTypeOK'
        BY <1>3, <2>1, <2>2 DEF MemInv, MemTypeOK, Memory!my_free, Memory!Nothing
    <2>5. HeldHasRoom'
        <3> SUFFICES ASSUME NEW s \in Ref, held'[s].block # NULL
                     PROVE  held'[s].block \in InUse(mem')
                            /\ held'[s].size <= Memory!Room(mem', held'[s].block)
            BY DEF HeldHasRoom
        <3>1. s # r /\ held'[s] = held[s]
            BY <2>3
        <3>2. held[s].block \in InUse(mem) /\ held[s].size <= Memory!Room(mem, held[s].block)
            BY <3>1 DEF MemInv, HeldHasRoom
        <3>3. held[s].block # b
            BY <3>1 DEF MemInv, BlockHeldOnce
        <3> QED BY <2>2, <3>1, <3>2, <3>3 DEF Memory!Room
    <2>6. NullIsNothing' /\ BlockHeldOnce'
        BY <2>3 DEF MemInv, NullIsNothing, BlockHeldOnce
    <2>7. NoneLost'
        BY <2>2, <2>3 DEF MemInv, NoneLost
    <2> QED BY <2>4, <2>5, <2>6, <2>7 DEF MemInv
<1>4. ASSUME UNCHANGED Memory!vars PROVE MemInv'
    BY <1>4 DEF Memory!vars, MemInv, MemTypeOK, HeldHasRoom, NullIsNothing, BlockHeldOnce,
       NoneLost,
                InUse, Memory!Room, Memory!Noted
<1>5. \A size \in Size : size \in Nat /\ 2 * size \in Nat
    BY DEF Memory!DbgMallocAssumption
<1> QED BY <1>1, <1>2, <1>3, <1>4, <1>5 DEF Memory!Next, Memory!my_calloc

\* Who holds a block in use is its owner, and has what was asked for.
LEMMA MemInvImplies == ASSUME Memory!DbgMallocAssumption, MemInv PROVE Memory!BlocksHaveOneOwner
<1> DEFINE owners(b) == {r \in Ref : held[r].block = b}
<1>1. ASSUME NEW b \in InUse(mem) PROVE \E r \in Ref : owners(b) = {r}
    <2>1. b # NULL
        BY DEF InUse, MemInv, MemTypeOK, Memories, Memory!DbgMallocAssumption
    <2>2. PICK r \in Ref : held[r].block = b
        BY DEF MemInv, NoneLost
    <2>3. owners(b) = {r}
        BY <2>1, <2>2 DEF MemInv, BlockHeldOnce
    <2> QED BY <2>3
<1>2. ASSUME NEW r \in Ref, held[r] # Memory!Nothing
      PROVE  held[r].block \in InUse(mem) /\ held[r].size <= Memory!Room(mem, held[r].block)
    BY <1>2 DEF MemInv, NullIsNothing, HeldHasRoom
<1> QED BY <1>1, <1>2 DEF Memory!BlocksHaveOneOwner, InUse

\* Every block the debugging allocator has given out has one owner, who has at
\* least the room asked for, and none is lost, whether it comes from a pool or
\* from the heap (tpool_alloc, tpool_realloc, tpool_free).
THEOREM BlocksKept == Memory!Spec => []BlocksHaveOneOwner
<1>1. Memory!Init => MemInv
    BY ConstantsAssumption, MemInvInit
<1>2. MemInv /\ [Memory!Next]_(Memory!vars) => MemInv'
    BY ConstantsAssumption, MemInvStep
<1>3. MemInv => BlocksHaveOneOwner
    BY ConstantsAssumption, MemInvImplies DEF BlocksHaveOneOwner
<1> QED BY <1>1, <1>2, <1>3, PTL DEF Memory!Spec

-----------------------------------------------------------------------------
(***************************************************************************)
(* The callback interface (CallbackItf)                                    *)
(***************************************************************************)

\* PairsOwned, pair by pair.
EachPairOwned ==
    /\ \A h \in registered : h.via \in Pairs => pair[h.via] # NoPair /\ h.via \notin kept
    /\ \A p \in kept : pair[p] # NoPair
    /\ \A p \in Pairs : pair[p] # NoPair /\ p \notin kept => \E h \in registered : h.via = p
    /\ \A h, k \in registered : h.via = k.via /\ h.via \in Pairs => h = k

\* The object of a registration exists, and its context leads to it.
HeldLeadsHome ==
    \A h \in registered :
        /\ h.obj \in alive
        /\ h.via \in Objects => h.via = h.obj
        /\ h.via \in Pairs => pair[h.via].obj = h.obj

\* One registration for what an object waits for, and for a socket or signal.
PairHeldOnce ==
    \A h, k \in registered :
        h.kind = k.kind /\ h.key = k.key /\ (h.kind = "timeout" => h.obj = k.obj) => h = k

\* The loop has what the application holds.
LoopIsHeld == loop = {Callbacks!Entry(h.kind, h.key, h.via) : h \in registered}

\* No timeout that the application holds was called.
HeldNotHandled ==
    \A h \in registered : h.kind = "timeout" /\ h.via \in Pairs => ~ pair[h.via].uiHandled

HeldSound == HeldLeadsHome /\ PairHeldOnce /\ LoopIsHeld /\ HeldNotHandled
PairInv == Callbacks!TypeOK /\ EachPairOwned

-----------------------------------------------------------------------------
(* Pairs *)

\* No pair is in use at the start.
LEMMA PairInvInit == ASSUME Callbacks!Init PROVE PairInv
BY DEF Callbacks!Init, PairInv, Callbacks!TypeOK, EachPairOwned

\* The case of a registration decides what is taken out of the loop.
LEMMA LoopWithoutCases ==
    ASSUME Callbacks!CallbackItfAssumption, Callbacks!TypeOK, NEW h \in registered, NEW b
    PROVE  /\ h.kind = "timeout" /\ h.via \in Pairs
                 => Callbacks!LoopWithout(h, b) = Callbacks!TimeoutsLeft(h.via, h.key, b)
           /\ h.kind = "timeout" /\ h.via \in Objects
                 => Callbacks!LoopWithout(h, b) = Callbacks!Cancelled(h.via, h.key)
           /\ h.kind \in {"read", "write"}
                 => Callbacks!LoopWithout(h, b) = Callbacks!SocketsLeft(h.kind, h.key)
           /\ h.kind = "signal" => Callbacks!LoopWithout(h, b) = loop
           /\ h.kind \in {"timeout", "read", "write", "signal"}
           /\ h.via \in Pairs \/ h.via \in Objects
<1>1. h.kind \in {"timeout", "read", "write", "signal"} /\ (h.via \in Pairs \/ h.via \in Objects)
    BY DEF Callbacks!TypeOK, Callbacks!Kind, Callbacks!Via
<1>2. h.via \in Pairs => h.via \notin Objects
    BY DEF Callbacks!CallbackItfAssumption
<1> QED BY <1>1, <1>2 DEF Callbacks!LoopWithout

\* An unregistration adds nothing to the loop.
LEMMA LoopShrinks ==
    ASSUME Callbacks!CallbackItfAssumption, Callbacks!TypeOK, NEW h \in registered, NEW b
    PROVE  Callbacks!LoopWithout(h, b) \subseteq loop
<1>1. \A via, key : Callbacks!Cancelled(via, key) \subseteq loop
    BY DEF Callbacks!Cancelled
<1>2. \A p, key : Callbacks!TimeoutsLeft(p, key, b) \subseteq loop
    BY <1>1 DEF Callbacks!TimeoutsLeft
<1>3. \A kind, key : Callbacks!SocketsLeft(kind, key) \subseteq loop
    BY DEF Callbacks!SocketsLeft
<1> QED BY <1>1, <1>2, <1>3, LoopWithoutCases

LEMMA CallbacksTypeStep ==
    ASSUME Callbacks!CallbackItfAssumption, PairInv, [Callbacks!Next]_(Callbacks!vars)
    PROVE  Callbacks!TypeOK'
<1> USE DEF PairInv, Callbacks!TypeOK
<1>1. ASSUME NEW o \in Objects, Callbacks!Constructor(o) \/ Callbacks!Destructor(o)
      PROVE  Callbacks!TypeOK'
    BY <1>1 DEF Callbacks!Constructor, Callbacks!Destructor
<1>2. ASSUME NEW kind \in Callbacks!Kind, NEW key \in Keys, NEW o \in Objects,
             Callbacks!RegisterId(kind, key, o)
      PROVE  Callbacks!TypeOK'
    BY <1>2 DEF Callbacks!RegisterId, Callbacks!Entry, Callbacks!Handle, Callbacks!Via
<1>3. ASSUME NEW kind \in Callbacks!Kind, NEW key \in Keys, NEW o \in Objects, NEW p \in Pairs,
             Callbacks!RegisterCb(kind, key, o, p)
      PROVE  Callbacks!TypeOK'
    <2>1. Callbacks!Fresh(p, o) \in Callbacks!EloopIntFuncPair
        BY DEF Callbacks!Fresh, Callbacks!EloopIntFuncPair
    <2> QED BY <1>3, <2>1 DEF Callbacks!RegisterCb, Callbacks!Entry, Callbacks!Handle,
               Callbacks!Via
<1>4. ASSUME NEW h \in registered, Callbacks!UnregisterId(h) PROVE Callbacks!TypeOK'
    <2>1. Callbacks!LoopWithout(h, TRUE) \subseteq loop
        BY LoopShrinks
    <2> QED BY <1>4, <2>1 DEF Callbacks!UnregisterId
<1>5. ASSUME NEW h \in registered, NEW b \in BOOLEAN, Callbacks!UnregisterCb(h, b)
      PROVE  Callbacks!TypeOK'
    <2>1. Callbacks!LoopWithout(h, b) \subseteq loop
        BY LoopShrinks
    <2> QED BY <1>5, <2>1 DEF Callbacks!UnregisterCb, Callbacks!Deleted
<1>6. ASSUME NEW p \in Pairs, NEW key \in Keys, Callbacks!TimeoutUnregisterCb(p, key)
      PROVE  Callbacks!TypeOK'
    BY <1>6 DEF Callbacks!TimeoutUnregisterCb, Callbacks!TimeoutsLeft, Callbacks!Cancelled,
       Callbacks!Deleted
<1>7. ASSUME NEW e \in loop, Callbacks!Call(e) PROVE Callbacks!TypeOK'
    <2> DEFINE o == Callbacks!Target(e.via)
    <2>1. e.via \in Pairs => pair[e.via] \in Callbacks!EloopIntFuncPair \cup {NoPair}
        OBVIOUS
    <2>2. o \in Objects \cup {NoPair}
        BY <2>1 DEF Callbacks!Target, Callbacks!Via, Callbacks!EloopIntFuncPair
    <2>3. pair' \in [Pairs -> Callbacks!EloopIntFuncPair \cup {NoPair}]
        <3>1. CASE e.via \in Pairs /\ o # NoPair
            <4>1. pair[e.via] \in Callbacks!EloopIntFuncPair
                BY <2>1, <3>1 DEF Callbacks!CallbackItfAssumption, Callbacks!Target
            <4>2. pair' = [pair EXCEPT ![e.via].uiHandled = TRUE]
                BY <1>7, <3>1 DEF Callbacks!Call
            <4>3. [pair[e.via] EXCEPT !.uiHandled = TRUE] \in Callbacks!EloopIntFuncPair
                BY <4>1 DEF Callbacks!EloopIntFuncPair
            <4> QED BY <4>2, <4>3
        <3>2. CASE ~ (e.via \in Pairs /\ o # NoPair)
            BY <1>7, <3>2 DEF Callbacks!Call
        <3> QED BY <3>1, <3>2
    <2>4. called' \in [kind : Callbacks!Kind, key : Keys, obj : Objects \cup {NoPair}]
        BY <1>7, <2>2 DEF Callbacks!Call
    <2>5. loop' \subseteq loop /\ registered' \subseteq registered /\ kept' \subseteq Pairs
        BY <1>7 DEF Callbacks!Call
    <2> QED BY <1>7, <2>3, <2>4, <2>5 DEF Callbacks!Call
<1>8. CASE UNCHANGED Callbacks!vars
    BY <1>8 DEF Callbacks!vars
<1> QED BY <1>1, <1>2, <1>3, <1>4, <1>5, <1>6, <1>7, <1>8 DEF Callbacks!Next

\* A pair that is unregistered or called for a timeout is deleted, others are as
\* they were.
LEMMA PairInvStep ==
    ASSUME Callbacks!CallbackItfAssumption, PairInv, [Callbacks!Next]_(Callbacks!vars)
    PROVE  PairInv'
<1>1. Callbacks!TypeOK'
    BY CallbacksTypeStep
<1> SUFFICES EachPairOwned'
    BY <1>1 DEF PairInv
<1>2. CASE UNCHANGED <<pair, registered, kept>>
    BY <1>2 DEF PairInv, EachPairOwned
<1>3. ASSUME NEW kind \in Callbacks!Kind, NEW key \in Keys, NEW o \in Objects,
             Callbacks!RegisterId(kind, key, o)
      PROVE  EachPairOwned'
    <2>1. o \notin Pairs
        BY DEF Callbacks!CallbackItfAssumption
    <2> QED BY <1>3, <2>1 DEF Callbacks!RegisterId, Callbacks!Handle, PairInv, EachPairOwned
<1>4. ASSUME NEW kind \in Callbacks!Kind, NEW key \in Keys, NEW o \in Objects, NEW p \in Pairs,
             Callbacks!RegisterCb(kind, key, o, p)
      PROVE  EachPairOwned'
    <2>1. Callbacks!Fresh(p, o) # NoPair
        <3>1. Callbacks!Fresh(p, o) \in Callbacks!EloopIntFuncPair
            BY DEF Callbacks!Fresh, Callbacks!EloopIntFuncPair
        <3> QED BY <3>1 DEF Callbacks!CallbackItfAssumption
    <2>2. \A h \in registered : h.via # p
        BY <1>4 DEF Callbacks!RegisterCb, PairInv, EachPairOwned
    <2>3. CASE /\ registered' = registered \cup {Callbacks!Handle(kind, key, o, p)}
               /\ pair' = [pair EXCEPT ![p] = Callbacks!Fresh(p, o)]
        <3>1. Callbacks!Handle(kind, key, o, p).via = p
            BY DEF Callbacks!Handle
        <3>2. kept' = kept \ {p}
            BY <1>4 DEF Callbacks!RegisterCb
        <3> QED BY <2>1, <2>2, <2>3, <3>1, <3>2 DEF PairInv, Callbacks!TypeOK, EachPairOwned
    <2>4. CASE registered' = registered /\ pair' = [pair EXCEPT ![p] = NoPair]
        <3>1. kept' = kept \ {p}
            BY <1>4 DEF Callbacks!RegisterCb
        <3> QED BY <2>2, <2>4, <3>1 DEF PairInv, Callbacks!TypeOK, EachPairOwned
    <2> QED BY <1>4, <2>3, <2>4 DEF Callbacks!RegisterCb
<1>5. ASSUME NEW h \in registered, Callbacks!UnregisterId(h) PROVE EachPairOwned'
    <2>1. h.via \notin Pairs
        BY <1>5 DEF Callbacks!CallbackItfAssumption, Callbacks!UnregisterId
    <2> QED BY <1>5, <2>1 DEF Callbacks!UnregisterId, PairInv, EachPairOwned
<1>6. ASSUME NEW h \in registered, NEW b \in BOOLEAN, Callbacks!UnregisterCb(h, b)
      PROVE  EachPairOwned'
    BY <1>6 DEF Callbacks!UnregisterCb, Callbacks!Deleted, PairInv, Callbacks!TypeOK,
       EachPairOwned
<1>7. ASSUME NEW p \in Pairs, NEW key \in Keys, Callbacks!TimeoutUnregisterCb(p, key)
      PROVE  EachPairOwned'
    BY <1>7 DEF Callbacks!TimeoutUnregisterCb, Callbacks!Deleted, PairInv, Callbacks!TypeOK,
       EachPairOwned
<1>8. ASSUME NEW e \in loop, Callbacks!Call(e) PROVE EachPairOwned'
    <2> DEFINE o == Callbacks!Target(e.via)
               h == Callbacks!Handle(e.kind, e.key, o, e.via)
    <2>1. \A p \in Pairs : pair'[p] = NoPair <=> pair[p] = NoPair
        <3>1. CASE e.via \in Pairs /\ o # NoPair
            <4>1. pair' = [pair EXCEPT ![e.via].uiHandled = TRUE]
                BY <1>8, <3>1 DEF Callbacks!Call
            <4>2. pair[e.via] \in Callbacks!EloopIntFuncPair
                BY <3>1 DEF Callbacks!CallbackItfAssumption, Callbacks!Target, PairInv,
                   Callbacks!TypeOK
            <4>3. [pair[e.via] EXCEPT !.uiHandled = TRUE] \in Callbacks!EloopIntFuncPair
                BY <4>2 DEF Callbacks!EloopIntFuncPair
            <4> QED BY <4>1, <4>2, <4>3 DEF Callbacks!CallbackItfAssumption, PairInv,
                   Callbacks!TypeOK
        <3>2. CASE ~ (e.via \in Pairs /\ o # NoPair)
            BY <1>8, <3>2 DEF Callbacks!Call
        <3> QED BY <3>1, <3>2
    <2>2. CASE h \in registered /\ e.kind = "timeout"
        <3>1. registered' = registered \ {h} /\ kept' = kept \cup ({e.via} \cap Pairs)
            BY <1>8, <2>2 DEF Callbacks!Call
        <3>2. h.via = e.via
            BY DEF Callbacks!Handle
        <3> HIDE DEF h
        <3> QED BY <2>1, <2>2, <3>1, <3>2 DEF PairInv, Callbacks!TypeOK, EachPairOwned
    <2>3. CASE ~ (h \in registered /\ e.kind = "timeout")
        <3>1. registered' = registered /\ kept' = kept
            BY <1>8, <2>3 DEF Callbacks!Call
        <3> QED BY <2>1, <3>1 DEF PairInv, Callbacks!TypeOK, EachPairOwned
    <2> QED BY <2>2, <2>3
<1> QED BY <1>2, <1>3, <1>4, <1>5, <1>6, <1>7, <1>8 DEF Callbacks!Next, Callbacks!Constructor,
           Callbacks!Destructor, Callbacks!vars

\* Each pair that EloopRegisterCb allocates belongs to one registration until it
\* is unregistered or its timeout is called, and is then deleted: none is shared
\* and none is lost (eloop_callback_itf.h).
THEOREM PairsStayOwned == Callbacks!Spec => []PairsOwned
<1>1. Callbacks!Init => PairInv
    BY PairInvInit
<1>2. PairInv /\ [Callbacks!Next]_(Callbacks!vars) => PairInv'
    BY ConstantsAssumption, PairInvStep
<1>3. PairInv => PairsOwned
    BY ConstantsAssumption DEF PairInv, Callbacks!TypeOK, EachPairOwned, PairsOwned,
       Callbacks!PairsOwned
<1> QED BY <1>1, <1>2, <1>3, PTL DEF Callbacks!Spec

-----------------------------------------------------------------------------
(* Calls *)

CallInv == PairInv /\ HeldSound

LEMMA CallInvInit == ASSUME Callbacks!Init PROVE CallInv
BY PairInvInit DEF Callbacks!Init, CallInv, HeldSound, HeldLeadsHome, PairHeldOnce,
   LoopIsHeld, HeldNotHandled

\* A registration adds to the loop what the application holds then.
LEMMA RegisterSound ==
    ASSUME Callbacks!CallbackItfAssumption, CallInv,
           NEW kind \in Callbacks!Kind, NEW key \in Keys, NEW o \in Objects,
           NEW via \in Callbacks!Via,
           o \in alive, Callbacks!Unused(kind, key, o),
           via \in Objects => via = o /\ pair' = pair,
           via \in Pairs => /\ \A h \in registered : h.via # via
                            /\ pair' = [pair EXCEPT ![via] = Callbacks!Fresh(via, o)],
           loop' = loop \cup {Callbacks!Entry(kind, key, via)},
           registered' = registered \cup {Callbacks!Handle(kind, key, o, via)},
           alive' = alive
    PROVE  HeldSound'
<1> DEFINE n == Callbacks!Handle(kind, key, o, via)
<1>0. n.kind = kind /\ n.key = key /\ n.obj = o /\ n.via = via
      /\ Callbacks!Entry(n.kind, n.key, n.via) = Callbacks!Entry(kind, key, via)
    BY DEF Callbacks!Handle
<1>1. /\ \A h \in registered : h.via \in Pairs => pair'[h.via] = pair[h.via]
      /\ via \in Pairs => pair'[via] = Callbacks!Fresh(via, o)
      /\ Callbacks!Fresh(via, o).obj = o /\ ~ Callbacks!Fresh(via, o).uiHandled
    <2>1. via \in Objects \/ via \in Pairs
        BY DEF Callbacks!Via
    <2> QED BY <2>1 DEF CallInv, PairInv, Callbacks!TypeOK, Callbacks!Fresh
<1> HIDE DEF n
<1>2. registered' = registered \cup {n}
    BY DEF n
<1>3. HeldLeadsHome'
    BY <1>0, <1>1, <1>2 DEF CallInv, HeldSound, HeldLeadsHome
<1>4. PairHeldOnce'
    BY <1>0, <1>2 DEF CallInv, HeldSound, PairHeldOnce, Callbacks!Unused
<1>5. LoopIsHeld'
    BY <1>0, <1>2 DEF CallInv, HeldSound, LoopIsHeld
<1>6. HeldNotHandled'
    BY <1>0, <1>1, <1>2 DEF CallInv, HeldSound, HeldNotHandled
<1> QED BY <1>3, <1>4, <1>5, <1>6 DEF HeldSound

\* An unregistration takes out of the loop what it is for, and nothing else.
LEMMA UnregisterTakesOut ==
    ASSUME Callbacks!CallbackItfAssumption, CallInv, NEW h \in registered, NEW b,
           h.kind # "signal"
    PROVE  Callbacks!LoopWithout(h, b)
           = {Callbacks!Entry(k.kind, k.key, k.via) : k \in registered \ {h}}
<1>0. loop = {Callbacks!Entry(k.kind, k.key, k.via) : k \in registered}
    BY DEF CallInv, HeldSound, LoopIsHeld
<1>1. CASE h.kind = "timeout"
    <2>1. Callbacks!LoopWithout(h, b) = loop \ {Callbacks!Entry(h.kind, h.key, h.via)}
        <3>1. h.via \in Pairs => ~ pair[h.via].uiHandled
            BY <1>1 DEF CallInv, HeldSound, HeldNotHandled
        <3> QED BY <1>1, <3>1, LoopWithoutCases DEF CallInv, PairInv, Callbacks!TimeoutsLeft,
                   Callbacks!Cancelled
    <2>2. ASSUME NEW k \in registered, Callbacks!Entry(k.kind, k.key,
                 k.via) = Callbacks!Entry(h.kind, h.key, h.via)
          PROVE  k = h
        <3>1. k.kind = h.kind /\ k.key = h.key /\ k.via = h.via
            BY <2>2 DEF Callbacks!Entry
        <3>2. CASE h.via \in Pairs
            BY <3>1, <3>2 DEF CallInv, PairInv, EachPairOwned
        <3>3. CASE h.via \in Objects
            BY <3>1, <3>3 DEF CallInv, HeldSound, HeldLeadsHome, PairHeldOnce
        <3> QED BY <3>2, <3>3, LoopWithoutCases DEF CallInv, PairInv
    <2> QED BY <1>0, <2>1, <2>2
<1>2. CASE h.kind \in {"read", "write"}
    <2>1. Callbacks!LoopWithout(h, b) = {e \in loop : ~ (e.kind = h.kind /\ e.key = h.key)}
        BY <1>2, LoopWithoutCases DEF CallInv, PairInv, Callbacks!SocketsLeft
    <2>2. ASSUME NEW k \in registered, k.kind = h.kind, k.key = h.key PROVE k = h
        BY <1>2, <2>2 DEF CallInv, HeldSound, PairHeldOnce
    <2>3. \A k \in registered : Callbacks!Entry(k.kind, k.key, k.via).kind = k.kind
                          /\ Callbacks!Entry(k.kind, k.key, k.via).key = k.key
        BY DEF Callbacks!Entry
    <2> QED BY <1>0, <2>1, <2>2, <2>3
<1> QED BY <1>1, <1>2, LoopWithoutCases DEF CallInv, PairInv

\* What the application still holds after it is as before.
LEMMA UnregisterSound ==
    ASSUME Callbacks!CallbackItfAssumption, CallInv, NEW h \in registered,
           \A k \in registered \ {h} : k.via \in Pairs => pair'[k.via] = pair[k.via],
           loop' = {Callbacks!Entry(k.kind, k.key, k.via) : k \in registered \ {h}},
           registered' = registered \ {h},
           alive' = alive
    PROVE  HeldSound'
BY DEF CallInv, HeldSound, HeldLeadsHome, PairHeldOnce, LoopIsHeld, HeldNotHandled

\* What the loop calls is held, and the context of the call leads to the object.
LEMMA CallOfHeld ==
    ASSUME Callbacks!CallbackItfAssumption, CallInv, NEW e \in loop
    PROVE  \E h \in registered : /\ e = Callbacks!Entry(h.kind, h.key, h.via)
                           /\ e.kind = h.kind /\ e.key = h.key /\ e.via = h.via
                           /\ Callbacks!Target(e.via) = h.obj /\ h.obj \in alive
                           /\ Callbacks!Handle(e.kind, e.key, Callbacks!Target(e.via), e.via) = h
<1>1. PICK h \in registered : e = Callbacks!Entry(h.kind, h.key, h.via)
    BY DEF CallInv, HeldSound, LoopIsHeld
<1>2. e.kind = h.kind /\ e.key = h.key /\ e.via = h.via
    BY <1>1 DEF Callbacks!Entry
<1>3. h \in [kind : Callbacks!Kind, key : Keys, obj : Objects, via : Callbacks!Via]
    BY DEF CallInv, PairInv, Callbacks!TypeOK
<1>4. Callbacks!Target(h.via) = h.obj /\ h.obj \in alive
    <2>1. h.via \in Pairs \/ h.via \in Objects
        BY <1>3 DEF Callbacks!Via
    <2> QED BY <2>1 DEF CallInv, PairInv, EachPairOwned, HeldSound, HeldLeadsHome,
               Callbacks!Target
<1>5. Callbacks!Handle(h.kind, h.key, h.obj, h.via) = h
    BY <1>3 DEF Callbacks!Handle
<1> QED BY <1>1, <1>2, <1>4, <1>5

LEMMA CallInvStep ==
    ASSUME Callbacks!CallbackItfAssumption, KeepSignals, CallInv,
           [Callbacks!Next]_(Callbacks!vars) PROVE CallInv'
<1>1. PairInv'
    BY PairInvStep DEF CallInv
<1> SUFFICES HeldSound'
    BY <1>1 DEF CallInv
<1> USE DEF CallInv
<1>2. ASSUME NEW o \in Objects, Callbacks!Constructor(o) PROVE HeldSound'
    BY <1>2 DEF Callbacks!Constructor, HeldSound, HeldLeadsHome, PairHeldOnce, LoopIsHeld,
       HeldNotHandled
<1>3. ASSUME NEW o \in Objects, Callbacks!Destructor(o) PROVE HeldSound'
    BY <1>3 DEF Callbacks!Destructor, HeldSound, HeldLeadsHome, PairHeldOnce, LoopIsHeld,
       HeldNotHandled
<1>4. ASSUME NEW kind \in Callbacks!Kind, NEW key \in Keys, NEW o \in Objects,
             Callbacks!RegisterId(kind, key, o)
      PROVE  HeldSound'
    <2>1. o \notin Pairs /\ o \in Callbacks!Via
        BY DEF Callbacks!CallbackItfAssumption, Callbacks!Via
    <2> QED BY <1>4, <2>1, RegisterSound DEF Callbacks!RegisterId
<1>5. ASSUME NEW kind \in Callbacks!Kind, NEW key \in Keys, NEW o \in Objects, NEW p \in Pairs,
             Callbacks!RegisterCb(kind, key, o, p)
      PROVE  HeldSound'
    <2>1. p \notin Objects /\ p \in Callbacks!Via
        BY DEF Callbacks!CallbackItfAssumption, Callbacks!Via
    <2>2. \A h \in registered : h.via # p
        BY <1>5 DEF Callbacks!RegisterCb, PairInv, EachPairOwned
    <2>3. o \in alive /\ Callbacks!Unused(kind, key, o) /\ alive' = alive
        BY <1>5 DEF Callbacks!RegisterCb
    <2>4. CASE /\ loop' = loop \cup {Callbacks!Entry(kind, key, p)}
               /\ registered' = registered \cup {Callbacks!Handle(kind, key, o, p)}
               /\ pair' = [pair EXCEPT ![p] = Callbacks!Fresh(p, o)]
        BY <2>1, <2>2, <2>3, <2>4, RegisterSound
    <2>5. CASE pair' = [pair EXCEPT ![p] = NoPair] /\ UNCHANGED <<loop, registered>>
        BY <2>2, <2>3, <2>5
        DEF PairInv, Callbacks!TypeOK, HeldSound, HeldLeadsHome, PairHeldOnce, LoopIsHeld,
            HeldNotHandled
    <2> QED BY <1>5, <2>4, <2>5 DEF Callbacks!RegisterCb
<1>6. ASSUME NEW h \in registered, Callbacks!UnregisterId(h) PROVE HeldSound'
    BY <1>6, UnregisterTakesOut, UnregisterSound DEF Callbacks!UnregisterId
<1>7. ASSUME NEW h \in registered, NEW b \in BOOLEAN, Callbacks!UnregisterCb(h, b)
      PROVE  HeldSound'
    <2>1. \A k \in registered \ {h} : k.via \in Pairs => k.via # h.via
        BY DEF PairInv, EachPairOwned
    <2>2. \A k \in registered \ {h} : k.via \in Pairs => pair'[k.via] = pair[k.via]
        BY <1>7, <2>1 DEF Callbacks!UnregisterCb, Callbacks!Deleted, PairInv, Callbacks!TypeOK
    <2> QED BY <1>7, <2>2, UnregisterTakesOut, UnregisterSound DEF Callbacks!UnregisterCb
<1>8. ASSUME NEW p \in Pairs, NEW key \in Keys, Callbacks!TimeoutUnregisterCb(p, key)
      PROVE  HeldSound'
    <2>1. \A h \in registered : h.via # p
        BY <1>8 DEF Callbacks!TimeoutUnregisterCb, PairInv, EachPairOwned
    <2>2. \A e \in loop : e.via # p
        BY <2>1 DEF HeldSound, LoopIsHeld, Callbacks!Entry
    <2>3. loop' = loop
        BY <1>8, <2>2 DEF Callbacks!TimeoutUnregisterCb, Callbacks!TimeoutsLeft,
           Callbacks!Cancelled, Callbacks!Entry
    <2>4. /\ registered' = registered /\ alive' = alive
          /\ \A h \in registered : h.via \in Pairs => pair'[h.via] = pair[h.via]
        BY <1>8, <2>1 DEF Callbacks!TimeoutUnregisterCb, Callbacks!Deleted, PairInv,
           Callbacks!TypeOK
    <2> QED BY <2>3, <2>4 DEF HeldSound, HeldLeadsHome, PairHeldOnce, LoopIsHeld, HeldNotHandled
<1>9. ASSUME NEW e \in loop, Callbacks!Call(e) PROVE HeldSound'
    <2>1. PICK h \in registered : /\ e = Callbacks!Entry(h.kind, h.key, h.via)
                           /\ e.kind = h.kind /\ e.key = h.key /\ e.via = h.via
                           /\ Callbacks!Target(e.via) = h.obj /\ h.obj \in alive
                           /\ Callbacks!Handle(e.kind, e.key, Callbacks!Target(e.via), e.via) = h
        BY CallOfHeld
    <2>2. alive' = alive
        BY <1>9 DEF Callbacks!Call
    <2>3. \A k \in registered \ {h} : k.via \in Pairs => pair'[k.via] = pair[k.via]
        <3>1. \A k \in registered \ {h} : k.via \in Pairs => k.via # e.via
            BY <2>1 DEF PairInv, EachPairOwned
        <3> QED BY <1>9, <3>1 DEF Callbacks!Call, PairInv, Callbacks!TypeOK
    <2>4. CASE e.kind = "timeout"
        <3>1. registered' = registered \ {h} /\ loop' = loop \ {e}
            BY <1>9, <2>1, <2>4 DEF Callbacks!Call
        <3>2. loop' = {Callbacks!Entry(k.kind, k.key, k.via) : k \in registered \ {h}}
            <4>1. ASSUME NEW k \in registered, Callbacks!Entry(k.kind, k.key, k.via) = e
                  PROVE  k = h
                <5>1. k.kind = h.kind /\ k.key = h.key /\ k.via = h.via
                    BY <2>1, <4>1 DEF Callbacks!Entry
                <5>2. h.via \in Pairs \/ h.via \in Objects
                    BY DEF PairInv, Callbacks!TypeOK, Callbacks!Via
                <5>3. CASE h.via \in Pairs
                    BY <5>1, <5>3 DEF PairInv, EachPairOwned
                <5>4. CASE h.via \in Objects
                    <6>1. k.obj = h.obj
                        BY <5>1, <5>4 DEF HeldSound, HeldLeadsHome
                    <6> QED BY <5>1, <6>1 DEF HeldSound, PairHeldOnce
                <5> QED BY <5>2, <5>3, <5>4
            <4>2. loop = {Callbacks!Entry(k.kind, k.key, k.via) : k \in registered}
                BY DEF HeldSound, LoopIsHeld
            <4> QED BY <2>1, <3>1, <4>1, <4>2
        <3> QED BY <2>2, <2>3, <3>1, <3>2, UnregisterSound
    <2>5. CASE e.kind # "timeout"
        <3>1. registered' = registered /\ loop' = loop
            BY <1>9, <2>5 DEF Callbacks!Call
        <3>2. h.via \in Pairs => pair'[h.via].obj = pair[h.via].obj
            <4> SUFFICES ASSUME h.via \in Pairs PROVE pair'[h.via].obj = pair[h.via].obj
                OBVIOUS
            <4>1. pair[h.via] \in Callbacks!EloopIntFuncPair
                BY DEF PairInv, Callbacks!TypeOK, EachPairOwned
            <4>2. pair'[h.via] \in {pair[h.via], [pair[h.via] EXCEPT !.uiHandled = TRUE]}
                BY <1>9, <2>1 DEF Callbacks!Call, PairInv, Callbacks!TypeOK
            <4> QED BY <4>1, <4>2 DEF Callbacks!EloopIntFuncPair
        <3>3. h.kind # "timeout"
            BY <2>1, <2>5
        <3>4. HeldLeadsHome'
            BY <2>2, <2>3, <3>1, <3>2 DEF HeldSound, HeldLeadsHome
        <3>5. PairHeldOnce' /\ LoopIsHeld'
            BY <3>1 DEF HeldSound, PairHeldOnce, LoopIsHeld
        <3>6. HeldNotHandled'
            BY <2>3, <3>1, <3>3 DEF HeldSound, HeldNotHandled
        <3> QED BY <3>4, <3>5, <3>6 DEF HeldSound
    <2> QED BY <2>4, <2>5
<1>10. CASE UNCHANGED Callbacks!vars
    BY <1>10 DEF Callbacks!vars, HeldSound, HeldLeadsHome, PairHeldOnce, LoopIsHeld,
       HeldNotHandled
<1> QED BY <1>2, <1>3, <1>4, <1>5, <1>6, <1>7, <1>8, <1>9, <1>10 DEF Callbacks!Next

\* A registration as the registry sees it.
Seen(h) == [kind |-> h.kind, key |-> h.key, obj |-> h.obj]

\* The application holds no two that look the same.
LEMMA SeenApart ==
    ASSUME CallInv, NEW h \in registered, NEW k \in registered, Seen(h) = Seen(k) PROVE h = k
<1>1. h.kind = k.kind /\ h.key = k.key /\ h.obj = k.obj
    BY DEF Seen
<1> QED BY <1>1 DEF CallInv, HeldSound, PairHeldOnce

\* Every step is a step of the registry or leaves it as it is.
LEMMA CallsRefine ==
    ASSUME Callbacks!CallbackItfAssumption, KeepSignals, CallInv,
           [Callbacks!Next]_(Callbacks!vars)
    PROVE  [Callbacks!R!Next]_<<
               {[kind |-> h.kind, key |-> h.key, obj |-> h.obj] : h \in registered}, called>>
<1> DEFINE seen == {[kind |-> h.kind, key |-> h.key, obj |-> h.obj] : h \in registered}
<1>0. seen = {Seen(h) : h \in registered} /\ seen' = {Seen(h) : h \in registered'}
    BY DEF Seen
<1> HIDE DEF seen
<1>1. ASSUME UNCHANGED <<registered, called>> PROVE UNCHANGED <<seen, called>>
    BY <1>0, <1>1
<1>2. ASSUME NEW kind \in Callbacks!Kind, NEW key \in Keys, NEW o \in Objects, NEW via,
             Callbacks!Unused(kind, key, o),
             registered' = registered \cup {Callbacks!Handle(kind, key, o, via)},
             called' = called
      PROVE  Callbacks!R!Next
    <2> DEFINE r == [kind |-> kind, key |-> key, obj |-> o]
    <2>1. r \in Callbacks!Registration /\ Seen(Callbacks!Handle(kind, key, o, via)) = r
        BY DEF Callbacks!Registration, Seen, Callbacks!Handle
    <2>2. r \notin seen
        BY <1>0, <1>2 DEF Callbacks!Unused, Seen
    <2>3. seen' = seen \cup {r}
        BY <1>0, <1>2, <2>1
    <2>4. Callbacks!R!Register(r)
        BY <1>2, <2>2, <2>3 DEF Callbacks!R!Register, seen
    <2> QED BY <2>1, <2>4 DEF Callbacks!R!Next
<1>3. ASSUME NEW h \in registered, registered' = registered \ {h}
      PROVE  /\ Seen(h) \in Callbacks!Registration /\ Seen(h) \in seen
             /\ seen' = seen \ {Seen(h)}
    <2>1. Seen(h) \in Callbacks!Registration
        BY DEF CallInv, PairInv, Callbacks!TypeOK, Callbacks!Registration, Seen
    <2>2. \A k \in registered \ {h} : Seen(k) # Seen(h)
        BY SeenApart
    <2> QED BY <1>0, <1>3, <2>1, <2>2
<1>4. ASSUME NEW h \in registered, registered' = registered \ {h}, called' = called
      PROVE  Callbacks!R!Next
    <2>1. Callbacks!R!Unregister(Seen(h))
        BY <1>3, <1>4 DEF Callbacks!R!Unregister, seen
    <2> QED BY <1>3, <1>4, <2>1 DEF Callbacks!R!Next
<1>5. ASSUME NEW o \in Objects, Callbacks!Constructor(o) \/ Callbacks!Destructor(o)
      PROVE  UNCHANGED <<seen, called>>
    BY <1>1, <1>5 DEF Callbacks!Constructor, Callbacks!Destructor
<1>6. ASSUME NEW kind \in Callbacks!Kind, NEW key \in Keys, NEW o \in Objects,
             Callbacks!RegisterId(kind, key, o)
      PROVE  Callbacks!R!Next
    BY <1>2, <1>6 DEF Callbacks!RegisterId
<1>7. ASSUME NEW kind \in Callbacks!Kind, NEW key \in Keys, NEW o \in Objects, NEW p \in Pairs,
             Callbacks!RegisterCb(kind, key, o, p)
      PROVE  Callbacks!R!Next \/ UNCHANGED <<seen, called>>
    BY <1>1, <1>2, <1>7 DEF Callbacks!RegisterCb
<1>8. ASSUME NEW h \in registered, Callbacks!UnregisterId(h) PROVE Callbacks!R!Next
    BY <1>4, <1>8 DEF Callbacks!UnregisterId
<1>9. ASSUME NEW h \in registered, NEW b \in BOOLEAN, Callbacks!UnregisterCb(h, b)
      PROVE  Callbacks!R!Next
    BY <1>4, <1>9 DEF Callbacks!UnregisterCb
<1>10. ASSUME NEW p \in Pairs, NEW key \in Keys, Callbacks!TimeoutUnregisterCb(p, key)
       PROVE  UNCHANGED <<seen, called>>
    BY <1>1, <1>10 DEF Callbacks!TimeoutUnregisterCb
<1>11. ASSUME NEW e \in loop, Callbacks!Call(e) PROVE Callbacks!R!Next
    <2>1. PICK h \in registered : /\ e = Callbacks!Entry(h.kind, h.key, h.via)
                           /\ e.kind = h.kind /\ e.key = h.key /\ e.via = h.via
                           /\ Callbacks!Target(e.via) = h.obj /\ h.obj \in alive
                           /\ Callbacks!Handle(e.kind, e.key, Callbacks!Target(e.via), e.via) = h
        BY CallOfHeld
    <2>2. called' = Seen(h) /\ Seen(h).kind = e.kind
        BY <1>11, <2>1 DEF Callbacks!Call, Seen
    <2>3. Seen(h) \in Callbacks!Registration /\ Seen(h) \in seen
        BY <1>0 DEF CallInv, PairInv, Callbacks!TypeOK, Callbacks!Registration, Seen
    <2>4. CASE e.kind = "timeout"
        <3>1. registered' = registered \ {h}
            BY <1>11, <2>1, <2>4 DEF Callbacks!Call
        <3> QED BY <1>3, <2>2, <2>3, <2>4, <3>1 DEF Callbacks!R!Next, Callbacks!R!Call, seen
    <2>5. CASE e.kind # "timeout"
        <3>1. registered' = registered
            BY <1>11, <2>5 DEF Callbacks!Call
        <3>2. seen' = seen
            BY <1>0, <3>1
        <3> QED BY <2>2, <2>3, <2>5, <3>2 DEF Callbacks!R!Next, Callbacks!R!Call, seen
    <2> QED BY <2>4, <2>5
<1>12. CASE UNCHANGED Callbacks!vars
    BY <1>1, <1>12 DEF Callbacks!vars
<1> USE DEF seen
<1> QED BY <1>5, <1>6, <1>7, <1>8, <1>9, <1>10, <1>11, <1>12 DEF Callbacks!Next

\* The wrappers implement the registry of CallbackRegistry: a method of an object
\* is called only while the object is registered for what it is called for, and
\* a timeout once (EloopRegister..., EloopUnregister... and the static
\* functions the loop calls).  Signals cannot be unregistered from the loop, so
\* this is for programs that keep them.
THEOREM RegistryImplemented == ASSUME KeepSignals PROVE Callbacks!Spec => ImplementsRegistry
<1>1. Callbacks!Init => CallInv
    BY CallInvInit
<1>2. CallInv /\ [Callbacks!Next]_(Callbacks!vars) => CallInv'
    BY ConstantsAssumption, CallInvStep
<1>3. Callbacks!Init => Callbacks!R!Init
    BY DEF Callbacks!Init, Callbacks!R!Init
<1>4. CallInv /\ [Callbacks!Next]_(Callbacks!vars)
        => [Callbacks!R!Next]_<<
               {[kind |-> h.kind, key |-> h.key, obj |-> h.obj] : h \in registered}, called>>
    BY ConstantsAssumption, CallsRefine
<1> QED BY <1>1, <1>2, <1>3, <1>4,
           PTL DEF Callbacks!Spec, ImplementsRegistry, Callbacks!ImplementsRegistry,
                   Callbacks!R!Spec

-----------------------------------------------------------------------------
(***************************************************************************)
(* The log file search (LfsRead)                                           *)
(***************************************************************************)

\* The lines of the log.
LogLine == [t : Nat, off : Nat, len : Nat, match : BOOLEAN]

\* The lines follow each other without gaps, with increasing times.
LogSound ==
    /\ log \in Seq(LogLine)
    /\ \A n \in DOMAIN log : /\ log[n].t > 0
                             /\ \E w \in Writes : log[n].len = w.len + Stamp
    /\ \A n, m \in DOMAIN log : n < m => log[n].t < log[m].t /\ Lfs!End(n) <= log[m].off
    /\ \A n \in DOMAIN log : n + 1 \in DOMAIN log => log[n + 1].off = Lfs!End(n)
    /\ log # <<>> => log[1].off = 0
    /\ Lfs!LogSize \in Nat /\ Lfs!LogSize <= MaxSize

\* What lfs, block and the lines of out may be.
LfsRec == [pc : {"closed", "open", "from", "to", "next", "range", "blocks", "done"},
           known : Nat, from : Nat, to : Nat, t_offset : Nat, all : BOOLEAN, soff : Int, eoff : Int]
BlockRec == [at : Int, off : Int, next : Nat \ {0}]
OutRec == [line : Nat, t : Nat]

LfsTypes ==
    /\ lfs \in LfsRec
    /\ range \in [lo : Nat, hi : Nat, count : Nat]
    /\ block \in BlockRec
    /\ out \in Seq(OutRec)
    /\ lfs.pc # "closed" => lfs.known \in DOMAIN log
    /\ block.next <= Len(log) + 1

Ranged == {"range", "blocks", "done"}

\* The beginning of the range, where it was found.
StartFound ==
    lfs.pc \in Ranged \cup {"to", "next"} =>
        /\ lfs.soff = Beyond \/ \E n \in 1 .. lfs.known : lfs.soff = log[n].off
        /\ \A n \in 1 .. lfs.known : lfs.soff <= log[n].off <=> lfs.from <= log[n].t

\* What is sought lies between the ends of what is searched.
SearchSound ==
    /\ lfs.pc = "from" => Lfs!ft <= lfs.from
    /\ lfs.pc = "to" => lfs.to < Lfs!lt
    /\ lfs.pc = "next" => lfs.to # Lfs!lt
    /\ lfs.pc \in Lfs!Searches =>
           /\ 1 <= range.lo /\ range.lo <= range.hi /\ range.hi <= lfs.known
           /\ range.lo = 1 \/ log[range.lo].t < Lfs!Sought
           /\ range.hi = lfs.known \/ Lfs!Sought < log[range.hi].t

\* The end of the range, where it was found.
EndFound ==
    lfs.pc \in Ranged =>
        /\ \A n \in 1 .. lfs.known :
               /\ log[n].t <= lfs.to => log[n].off < lfs.eoff
               /\ log[n].off < lfs.eoff => log[n].t <= lfs.to \/ n = lfs.known
        /\ IF lfs.to > Lfs!lt THEN lfs.eoff = Beyond ELSE lfs.eoff <= Lfs!FileSize

\* A search narrows with each read.
SearchNarrows ==
    lfs.pc \in Lfs!Searches => range.count + (range.hi - range.lo) < lfs.known

\* What was read ends between the start of the next line and the end of the
\* range; off counts a line that was cut twice.
BlockSound ==
    lfs.pc = "blocks" =>
        /\ lfs.soff < lfs.eoff
        /\ lfs.soff <= Lfs!Start(block.next) /\ Lfs!Start(block.next) <= block.at
        /\ block.at <= Lfs!LogSize /\ block.at <= block.off /\ block.at <= lfs.eoff
        /\ \A k \in DOMAIN out : out[k].line < block.next
        /\ lfs.eoff = Beyond => \A n \in 1 .. Len(log) + 1 :
               Lfs!Start(n) <= block.at /\ (n \in DOMAIN log => block.at < Lfs!End(n))
                   => block.off <= block.at + Lfs!Start(n)

\* Nothing is written out before the range is known.
NothingOut == lfs.pc \in Lfs!Searches \cup {"range"} => out = <<>>

LfsInv ==
    /\ LogSound /\ LfsTypes /\ StartFound /\ SearchSound /\ EndFound
    /\ BlockSound /\ NothingOut /\ Lfs!WrittenInOrder /\ Lfs!ReadToEnd

-----------------------------------------------------------------------------
\* The lengths that are written.
LEMMA LenFacts ==
    ASSUME Lfs!LfsReadAssumption
    PROVE  /\ DATA_SIZE \in Nat /\ BULK_BUF_SIZE \in Nat /\ Sector \in Nat \ {0}
           /\ Stamp \in Nat \ {0}
           /\ MaxSize \in Nat /\ Beyond \in Nat /\ 2 * MaxSize + BULK_BUF_SIZE < Beyond
           /\ \A w \in Writes : /\ w.len \in Nat /\ w.gap \in Nat \ {0} /\ w.match \in BOOLEAN
                                /\ w.len + 2 * Stamp <= DATA_SIZE
                                /\ w.len + Stamp + Sector < BULK_BUF_SIZE
BY DEF Lfs!LfsReadAssumption

\* A line: it has a length, and lines come in the order of their times.
LEMMA LineFacts ==
    ASSUME Lfs!LfsReadAssumption, LogSound, NEW n \in DOMAIN log
    PROVE  /\ n \in Nat /\ n >= 1 /\ n <= Len(log) /\ Len(log) \in Nat
           /\ DOMAIN log = 1 .. Len(log)
           /\ log[n].t \in Nat /\ log[n].off \in Nat /\ log[n].len \in Nat
           /\ log[n].match \in BOOLEAN
           /\ log[n].len > 0 /\ log[n].t > 0
           /\ log[n].len + Sector < BULK_BUF_SIZE
           /\ Lfs!End(n) = log[n].off + log[n].len
<1>1. log \in Seq(LogLine)
    BY DEF LogSound
<1>2. log[n] \in LogLine /\ DOMAIN log = 1 .. Len(log) /\ Len(log) \in Nat
    BY <1>1
<1>3. PICK w \in Writes : log[n].len = w.len + Stamp
    BY DEF LogSound
<1>4. w.len \in Nat /\ Stamp \in Nat \ {0} /\ w.len + Stamp + Sector < BULK_BUF_SIZE
    BY LenFacts
<1>5. log[n].t > 0
    BY DEF LogSound
<1> QED BY <1>2, <1>3, <1>4, <1>5 DEF LogLine, Lfs!End

\* The first of two lines has the earlier time and ends before the other starts.
LEMMA LinesOrdered ==
    ASSUME Lfs!LfsReadAssumption, LogSound, NEW n \in DOMAIN log, NEW m \in DOMAIN log
    PROVE  /\ n < m <=> log[n].t < log[m].t
           /\ n < m <=> log[n].off < log[m].off
           /\ n < m => Lfs!End(n) <= log[m].off
<1>1. /\ n \in Nat /\ m \in Nat
      /\ log[n].t \in Nat /\ log[n].off \in Nat /\ log[n].len \in Nat /\ log[n].len > 0
      /\ log[m].t \in Nat /\ log[m].off \in Nat /\ log[m].len \in Nat /\ log[m].len > 0
      /\ Lfs!End(n) = log[n].off + log[n].len /\ Lfs!End(m) = log[m].off + log[m].len
    BY LineFacts
<1>2. /\ n < m => log[n].t < log[m].t /\ Lfs!End(n) <= log[m].off
      /\ m < n => log[m].t < log[n].t /\ Lfs!End(m) <= log[n].off
    BY DEF LogSound
<1> QED BY <1>1, <1>2

\* Where the lines start, the one that is to be written among them.
LEMMA StartFacts ==
    ASSUME Lfs!LfsReadAssumption, LogSound
    PROVE  /\ Len(log) \in Nat
           /\ \A n \in 1 .. Len(log) + 1 :
                  /\ Lfs!Start(n) \in Nat /\ Lfs!Start(n) <= Lfs!LogSize
                  /\ n \in DOMAIN log => /\ Lfs!Start(n) = log[n].off /\ Lfs!End(n) = Lfs!Start(n + 1)
                                         /\ Lfs!Start(n) < Lfs!End(n) /\ n + 1 \in 1 .. Len(log) + 1
                  /\ n \notin DOMAIN log => n = Len(log) + 1 /\ Lfs!Start(n) = Lfs!LogSize
           /\ \A n, m \in 1 .. Len(log) + 1 : n <= m => Lfs!Start(n) <= Lfs!Start(m)
           /\ Lfs!Start(1) = 0
<1>1. log \in Seq(LogLine) /\ Len(log) \in Nat /\ DOMAIN log = 1 .. Len(log)
    <2>1. log \in Seq(LogLine)
        BY DEF LogSound
    <2> QED BY <2>1
<1>2. Lfs!LogSize \in Nat /\ Lfs!LogSize = Lfs!Start(Len(log) + 1)
    BY DEF LogSound, Lfs!LogSize
<1>3. Len(log) + 1 \notin DOMAIN log
    BY <1>1
<1>4. ASSUME log # <<>>
      PROVE  Len(log) \in DOMAIN log /\ Lfs!LogSize = Lfs!End(Len(log))
    <2>1. Len(log) \in DOMAIN log
        BY <1>1, <1>4
    <2> QED BY <2>1, <1>2, <1>3, <1>4 DEF Lfs!Start
<1>5. ASSUME NEW n \in DOMAIN log
      PROVE  /\ Lfs!Start(n) = log[n].off /\ Lfs!Start(n) \in Nat /\ Lfs!Start(n) < Lfs!End(n)
             /\ Lfs!End(n) <= Lfs!LogSize
             /\ Lfs!End(n) = Lfs!Start(n + 1)
    <2>1. log # <<>>
        BY <1>1
    <2>2. /\ Lfs!Start(n) = log[n].off /\ log[n].off \in Nat /\ log[n].len \in Nat /\ log[n].len > 0
          /\ Lfs!End(n) = log[n].off + log[n].len
        BY LineFacts DEF Lfs!Start
    <2>3. Len(log) \in DOMAIN log /\ Lfs!LogSize = Lfs!End(Len(log))
        BY <1>4, <2>1
    <2>4. /\ log[Len(log)].off \in Nat /\ log[Len(log)].len \in Nat
          /\ Lfs!End(Len(log)) = log[Len(log)].off + log[Len(log)].len
        BY <2>3, LineFacts
    <2>5. n < Len(log) => Lfs!End(n) <= log[Len(log)].off
        BY <2>3, LinesOrdered
    <2>6. CASE n = Len(log)
        <3>1. n + 1 \notin DOMAIN log
            BY <2>6, <1>3
        <3>2. Lfs!Start(n + 1) = Lfs!End(n)
            BY <3>1, <2>1, <2>6 DEF Lfs!Start
        <3> QED BY <2>2, <2>3, <2>6, <3>2
    <2>7. CASE n < Len(log)
        <3>1. n + 1 \in DOMAIN log
            BY <1>1, <2>7
        <3>2. Lfs!Start(n + 1) = Lfs!End(n)
            BY <3>1 DEF Lfs!Start, LogSound
        <3> QED BY <2>2, <2>3, <2>4, <2>5, <2>7, <3>2
    <2> QED BY <1>1, <2>6, <2>7
<1>6. ASSUME NEW n \in 1 .. Len(log) + 1, n \notin DOMAIN log
      PROVE  n = Len(log) + 1 /\ Lfs!Start(n) = Lfs!LogSize
    BY <1>1, <1>2, <1>6
<1>7. ASSUME NEW n \in 1 .. Len(log) + 1, NEW m \in 1 .. Len(log) + 1, n <= m
      PROVE  Lfs!Start(n) <= Lfs!Start(m)
    <2>1. CASE m \notin DOMAIN log
        <3>1. Lfs!Start(m) = Lfs!LogSize
            BY <1>6, <2>1
        <3>2. Lfs!Start(n) <= Lfs!LogSize
            BY <1>2, <1>5, <1>6
        <3> QED BY <3>1, <3>2
    <2>2. CASE m \in DOMAIN log /\ n < m
        <3>1. n \in DOMAIN log
            BY <1>1, <2>2
        <3>2. /\ Lfs!Start(n) = log[n].off /\ Lfs!Start(m) = log[m].off
              /\ log[n].off < log[m].off /\ log[n].off \in Nat /\ log[m].off \in Nat
            BY <1>5, <2>2, <3>1, LinesOrdered, LineFacts
        <3> QED BY <3>2
    <2>3. CASE m \in DOMAIN log /\ n = m
        BY <1>5, <2>3
    <2> QED BY <1>1, <1>7, <2>1, <2>2, <2>3
<1>8. Lfs!Start(1) = 0
    <2>1. CASE log = <<>>
        BY <2>1, <1>1 DEF Lfs!Start
    <2>2. CASE log # <<>>
        <3>1. 1 \in DOMAIN log
            BY <1>1, <2>2
        <3> QED BY <3>1, <2>2 DEF Lfs!Start, LogSound
    <2> QED BY <2>1, <2>2
<1>9. \A n \in 1 .. Len(log) + 1 :
                  /\ Lfs!Start(n) \in Nat /\ Lfs!Start(n) <= Lfs!LogSize
                  /\ n \in DOMAIN log => /\ Lfs!Start(n) = log[n].off /\ Lfs!End(n) = Lfs!Start(n + 1)
                                         /\ Lfs!Start(n) < Lfs!End(n) /\ n + 1 \in 1 .. Len(log) + 1
                  /\ n \notin DOMAIN log => n = Len(log) + 1 /\ Lfs!Start(n) = Lfs!LogSize
    <2> SUFFICES ASSUME NEW n \in 1 .. Len(log) + 1
                 PROVE  /\ Lfs!Start(n) \in Nat /\ Lfs!Start(n) <= Lfs!LogSize
                        /\ n \in DOMAIN log => /\ Lfs!Start(n) = log[n].off /\ Lfs!End(n) = Lfs!Start(n + 1)
                                               /\ Lfs!Start(n) < Lfs!End(n)
                                               /\ n + 1 \in 1 .. Len(log) + 1
                        /\ n \notin DOMAIN log => n = Len(log) + 1 /\ Lfs!Start(n) = Lfs!LogSize
        OBVIOUS
    <2>1. CASE n \in DOMAIN log
        <3>1. log[n].off \in Nat /\ log[n].len \in Nat /\ Lfs!End(n) = log[n].off + log[n].len
            BY <2>1, LineFacts
        <3> QED BY <1>1, <1>2, <1>5, <2>1, <3>1
    <2>2. CASE n \notin DOMAIN log
        BY <1>2, <1>6, <2>2
    <2> QED BY <2>1, <2>2
<1> QED BY <1>1, <1>7, <1>8, <1>9

-----------------------------------------------------------------------------
\* Appending a line leaves the others where they are.
LEMMA LineWritten ==
    ASSUME Lfs!LfsReadAssumption, LogSound, NEW w \in Writes, Lfs!lfs_write_out(w)
    PROVE  /\ log' \in Seq(LogLine) /\ Len(log') = Len(log) + 1 /\ DOMAIN log' = 1 .. Len(log) + 1
           /\ \A n \in DOMAIN log : n \in DOMAIN log' /\ log'[n] = log[n] /\ Lfs!End(n)' = Lfs!End(n)
           /\ \A n \in 1 .. Len(log) + 1 : Lfs!Start(n)' = Lfs!Start(n)
           /\ log'[Len(log) + 1].off = Lfs!LogSize /\ log'[Len(log) + 1].len = w.len + Stamp
           /\ log'[Len(log) + 1].t > 0
           /\ \A n \in DOMAIN log : log[n].t < log'[Len(log) + 1].t
           /\ Lfs!LogSize' = Lfs!LogSize + w.len + Stamp
<1> DEFINE t == (IF log = <<>> THEN 0 ELSE log[Len(log)].t) + w.gap
           new == [t |-> t, off |-> Lfs!LogSize, len |-> w.len + Stamp, match |-> w.match]
           len == Len(log)
<1>1. log \in Seq(LogLine) /\ len \in Nat /\ DOMAIN log = 1 .. len
    <2>1. log \in Seq(LogLine)
        BY DEF LogSound
    <2> QED BY <2>1
<1>2. log' = Append(log, new)
    BY DEF Lfs!lfs_write_out
<1>3. /\ Lfs!LogSize \in Nat /\ w.len \in Nat /\ Stamp \in Nat /\ w.gap \in Nat \ {0}
      /\ w.match \in BOOLEAN
    BY LenFacts DEF LogSound
<1>4. t \in Nat /\ t > 0 /\ \A n \in DOMAIN log : log[n].t < t
    <2>1. CASE log = <<>>
        BY <1>3, <2>1
    <2>2. CASE log # <<>>
        <3>1. len \in DOMAIN log
            BY <1>1, <2>2
        <3>2. log[len].t \in Nat
            BY <3>1, LineFacts
        <3>3. t = log[len].t + w.gap
            BY <2>2
        <3>4. ASSUME NEW n \in DOMAIN log PROVE log[n].t < t
            <4>1. log[n].t \in Nat /\ (n < len <=> log[n].t < log[len].t) /\ n \in Nat /\ n <= len
                BY <3>1, LineFacts, LinesOrdered
            <4>2. n = len => log[n].t = log[len].t
                OBVIOUS
            <4> HIDE DEF t
            <4> QED BY <1>1, <1>3, <3>2, <3>3, <4>1, <4>2
        <3> HIDE DEF t
        <3> QED BY <1>3, <3>2, <3>3, <3>4
    <2> QED BY <2>1, <2>2
<1>5. new \in LogLine /\ new.off = Lfs!LogSize /\ new.len = w.len + Stamp /\ new.t = t
    BY <1>3, <1>4 DEF LogLine
<1> HIDE DEF new, t
<1>6. /\ log' \in Seq(LogLine) /\ Len(log') = len + 1 /\ DOMAIN log' = 1 .. len + 1
      /\ \A n \in DOMAIN log : log'[n] = log[n]
      /\ log'[len + 1] = new
    BY <1>1, <1>2, <1>5
<1>7. \A n \in DOMAIN log : n \in DOMAIN log' /\ log'[n] = log[n] /\ Lfs!End(n)' = Lfs!End(n)
    BY <1>1, <1>6 DEF Lfs!End
<1>8. ASSUME NEW n \in 1 .. len + 1 PROVE Lfs!Start(n)' = Lfs!Start(n)
    <2>1. n \in DOMAIN log' /\ Lfs!Start(n)' = log'[n].off
        BY <1>6, <1>8 DEF Lfs!Start
    <2>2. CASE n \in DOMAIN log
        BY <1>6, <2>1, <2>2 DEF Lfs!Start
    <2>3. CASE n \notin DOMAIN log
        <3>1. n = len + 1
            BY <1>1, <1>8, <2>3
        <3> QED BY <1>5, <1>6, <2>1, <3>1 DEF Lfs!LogSize
    <2> QED BY <2>2, <2>3
<1>9. Lfs!LogSize' = Lfs!LogSize + w.len + Stamp
    <2>1. Len(log') + 1 \notin DOMAIN log' /\ log' # <<>>
        BY <1>1, <1>6
    <2>2. Lfs!LogSize' = log'[Len(log')].off + log'[Len(log')].len
        BY <2>1 DEF Lfs!LogSize, Lfs!Start, Lfs!End
    <2> QED BY <1>3, <1>5, <1>6, <2>2
<1> QED BY <1>4, <1>5, <1>6, <1>7, <1>8, <1>9

\* The log stays sound when a line is appended.
LEMMA LogStaysSound ==
    ASSUME Lfs!LfsReadAssumption, LogSound, NEW w \in Writes, Lfs!lfs_write_out(w)
    PROVE  LogSound'
<1> DEFINE len == Len(log)
<1>1. /\ log' \in Seq(LogLine) /\ Len(log') = len + 1 /\ DOMAIN log' = 1 .. len + 1
      /\ \A n \in DOMAIN log : log'[n] = log[n] /\ Lfs!End(n)' = Lfs!End(n)
      /\ log'[len + 1].off = Lfs!LogSize /\ log'[len + 1].len = w.len + Stamp
      /\ log'[len + 1].t > 0
      /\ \A n \in DOMAIN log : log[n].t < log'[len + 1].t
      /\ Lfs!LogSize' = Lfs!LogSize + w.len + Stamp
    BY LineWritten
<1>2. log \in Seq(LogLine) /\ len \in Nat /\ DOMAIN log = 1 .. len
    <2>1. log \in Seq(LogLine)
        BY DEF LogSound
    <2> QED BY <2>1
<1>3. \A n \in DOMAIN log' : n \in DOMAIN log \/ n = len + 1
    BY <1>1, <1>2
<1>4. Lfs!LogSize \in Nat /\ w.len \in Nat /\ Stamp \in Nat /\ Lfs!LogSize + w.len + Stamp <= MaxSize
    BY LenFacts DEF LogSound, Lfs!lfs_write_out
<1>5. \A n \in DOMAIN log' : log'[n].t > 0 /\ \E v \in Writes : log'[n].len = v.len + Stamp
    <2> SUFFICES ASSUME NEW n \in DOMAIN log'
                 PROVE  log'[n].t > 0 /\ \E v \in Writes : log'[n].len = v.len + Stamp
        OBVIOUS
    <2>1. CASE n \in DOMAIN log
        BY <1>1, <2>1 DEF LogSound
    <2>2. CASE n = len + 1
        BY <1>1, <2>2
    <2> QED BY <1>3, <2>1, <2>2
<1>6. ASSUME NEW n \in DOMAIN log PROVE Lfs!End(n) <= Lfs!LogSize
    <2>1. /\ n \in 1 .. len + 1 /\ Lfs!End(n) = Lfs!Start(n + 1) /\ n + 1 \in 1 .. len + 1
        BY <1>2, StartFacts
    <2> QED BY <2>1, StartFacts
<1>7. \A n, m \in DOMAIN log' : n < m => log'[n].t < log'[m].t /\ Lfs!End(n)' <= log'[m].off
    <2> SUFFICES ASSUME NEW n \in DOMAIN log', NEW m \in DOMAIN log', n < m
                 PROVE  log'[n].t < log'[m].t /\ Lfs!End(n)' <= log'[m].off
        OBVIOUS
    <2>1. n \in DOMAIN log
        BY <1>1, <1>2
    <2>2. CASE m \in DOMAIN log
        BY <1>1, <2>1, <2>2 DEF LogSound
    <2>3. CASE m = len + 1
        BY <1>1, <1>6, <2>1, <2>3
    <2> QED BY <1>3, <2>2, <2>3
<1>8. \A n \in DOMAIN log' : n + 1 \in DOMAIN log' => log'[n + 1].off = Lfs!End(n)'
    <2> SUFFICES ASSUME NEW n \in DOMAIN log', n + 1 \in DOMAIN log'
                 PROVE  log'[n + 1].off = Lfs!End(n)'
        OBVIOUS
    <2>1. n \in DOMAIN log /\ Lfs!End(n)' = Lfs!End(n)
        BY <1>1, <1>2
    <2>2. CASE n + 1 \in DOMAIN log
        BY <1>1, <2>1, <2>2 DEF LogSound
    <2>3. CASE n + 1 = len + 1
        <3>1. Lfs!End(n) = Lfs!Start(n + 1)
            BY <1>2, <2>1, StartFacts
        <3> QED BY <1>1, <2>1, <2>3, <3>1 DEF Lfs!LogSize
    <2> QED BY <1>3, <2>2, <2>3
<1>9. log'[1].off = 0
    <2>1. CASE log = <<>>
        <3>1. len = 0
            BY <2>1
        <3>2. Lfs!LogSize = Lfs!Start(1)
            BY <3>1 DEF Lfs!LogSize
        <3>3. Lfs!LogSize = 0
            BY <3>2, StartFacts
        <3> QED BY <1>1, <3>1, <3>3
    <2>2. CASE log # <<>>
        <3>1. 1 \in DOMAIN log
            BY <1>2, <2>2
        <3> QED BY <1>1, <3>1, <2>2 DEF LogSound
    <2> QED BY <2>1, <2>2
<1> QED BY <1>1, <1>4, <1>5, <1>7, <1>8, <1>9 DEF LogSound

\* What was found in the log stays found when a line is appended.
LEMMA LfsWriteStep ==
    ASSUME Lfs!LfsReadAssumption, LfsInv, NEW w \in Writes, Lfs!lfs_write_out(w)
    PROVE  LfsInv'
<1> DEFINE len == Len(log)
<1>1. /\ LogSound /\ LfsTypes /\ StartFound /\ SearchSound /\ EndFound
      /\ BlockSound /\ NothingOut /\ Lfs!WrittenInOrder /\ Lfs!ReadToEnd
    BY DEF LfsInv
<1>2. /\ Len(log') = len + 1 /\ DOMAIN log' = 1 .. len + 1
      /\ \A n \in DOMAIN log : n \in DOMAIN log' /\ log'[n] = log[n] /\ Lfs!End(n)' = Lfs!End(n)
      /\ \A n \in 1 .. len + 1 : Lfs!Start(n)' = Lfs!Start(n)
      /\ Lfs!LogSize' = Lfs!LogSize + w.len + Stamp
    BY <1>1, LineWritten
<1>3. len \in Nat /\ DOMAIN log = 1 .. len
    <2>1. log \in Seq(LogLine)
        BY <1>1 DEF LogSound
    <2> QED BY <2>1
<1>4. lfs' = lfs /\ range' = range /\ block' = block /\ out' = out
    BY DEF Lfs!lfs_write_out
<1>5. Lfs!LogSize \in Nat /\ w.len \in Nat /\ Stamp \in Nat \ {0}
    BY <1>1, LenFacts DEF LogSound
<1>6. LogSound'
    BY <1>1, LogStaysSound
<1>7. LfsTypes'
    BY <1>1, <1>2, <1>3, <1>4 DEF LfsTypes, BlockRec
<1>15. NothingOut'
    BY <1>1, <1>4 DEF NothingOut
<1>8. ASSUME lfs.pc # "closed"
      PROVE  /\ lfs.known \in DOMAIN log /\ lfs.known \in Nat
             /\ \A n \in 1 .. lfs.known : n \in DOMAIN log /\ log'[n] = log[n]
             /\ Lfs!lt' = Lfs!lt /\ Lfs!ft' = Lfs!ft /\ Lfs!FileSize' = Lfs!FileSize
    <2>1. lfs.known \in DOMAIN log
        BY <1>1, <1>8 DEF LfsTypes
    <2>2. 1 \in DOMAIN log
        BY <1>3, <2>1
    <2> QED BY <1>2, <1>3, <1>4, <2>1, <2>2 DEF Lfs!lt, Lfs!ft, Lfs!FileSize
<1>9. StartFound'
    BY <1>1, <1>4, <1>8 DEF StartFound, Ranged
<1>10. SearchSound'
    <2>1. CASE lfs.pc \in Lfs!Searches
        <3>1. range.lo \in 1 .. lfs.known /\ range.hi \in 1 .. lfs.known
            BY <1>1, <2>1 DEF SearchSound, LfsTypes, LfsRec
        <3>2. log'[range.lo] = log[range.lo] /\ log'[range.hi] = log[range.hi]
            BY <1>8, <2>1, <3>1 DEF Lfs!Searches
        <3> QED BY <1>1, <1>4, <1>8, <2>1, <3>2 DEF SearchSound, Lfs!Searches, Lfs!Sought
    <2>2. CASE lfs.pc \notin Lfs!Searches
        BY <1>1, <1>4, <2>2 DEF SearchSound, Lfs!Searches
    <2> QED BY <2>1, <2>2
<1>11. EndFound'
    BY <1>1, <1>4, <1>8 DEF EndFound, Ranged
<1>12. BlockSound'
    <2>1. SUFFICES ASSUME lfs.pc = "blocks" PROVE BlockSound'
        BY <1>4 DEF BlockSound
    <2>2. block.next \in 1 .. len + 1 /\ block.at \in Int /\ block.off \in Int
        BY <1>1, <1>3 DEF LfsTypes, BlockRec
    <2>3. Lfs!Start(block.next)' = Lfs!Start(block.next)
        BY <1>2, <1>4, <2>2
    <2>4. block.at <= Lfs!LogSize'
        BY <1>1, <1>2, <1>5, <2>1, <2>2 DEF BlockSound
    <2>5. ASSUME lfs.eoff = Beyond, NEW n \in 1 .. len + 2, Lfs!Start(n)' <= block.at,
                 n \in DOMAIN log' => block.at < Lfs!End(n)'
          PROVE  block.off <= block.at + Lfs!Start(n)'
        <3>1. CASE n \in DOMAIN log
            BY <1>1, <1>2, <2>1, <2>5, <3>1, StartFacts DEF BlockSound
        <3>2. CASE n = len + 1
            <4>1. n \notin DOMAIN log /\ n \in 1 .. len + 1 /\ Lfs!Start(n)' = Lfs!Start(n)
                BY <1>2, <1>3, <3>2
            <4> QED BY <1>1, <2>1, <2>5, <4>1 DEF BlockSound
        <3>3. CASE n = len + 2
            <4>1. Lfs!Start(n)' = Lfs!LogSize'
                BY <1>2, <3>3 DEF Lfs!LogSize
            <4>2. block.at <= Lfs!LogSize
                BY <1>1, <2>1 DEF BlockSound
            <4> QED BY <1>2, <1>5, <2>2, <2>5, <4>1, <4>2
        <3> QED BY <1>3, <3>1, <3>2, <3>3
    <2> QED BY <1>1, <1>2, <1>4, <2>1, <2>3, <2>4, <2>5 DEF BlockSound
<1>13. Lfs!WrittenInOrder'
    <2>1. SUFFICES ASSUME lfs.pc \in {"blocks", "done"} PROVE Lfs!WrittenInOrder'
        BY <1>4 DEF Lfs!WrittenInOrder
    <2>2. \A n \in DOMAIN log : Lfs!Wanted(n)' <=> Lfs!Wanted(n)
        BY <1>2, <1>4 DEF Lfs!Wanted, Lfs!InRange
    <2>3. \A k \in DOMAIN out :
               /\ out[k].line \in DOMAIN log' /\ Lfs!Wanted(out[k].line)'
               /\ out[k].t = log'[out[k].line].t + lfs.t_offset
               /\ \A m \in DOMAIN out : k < m => out[k].line < out[m].line
        <3>1. SUFFICES ASSUME NEW k \in DOMAIN out
                       PROVE  /\ out[k].line \in DOMAIN log' /\ Lfs!Wanted(out[k].line)'
                              /\ out[k].t = log'[out[k].line].t + lfs.t_offset
                              /\ \A m \in DOMAIN out : k < m => out[k].line < out[m].line
            OBVIOUS
        <3>2. out[k].line \in DOMAIN log /\ Lfs!Wanted(out[k].line)
            BY <1>1, <2>1 DEF Lfs!WrittenInOrder
        <3>3. PICK l \in DOMAIN log : l = out[k].line
            BY <3>2
        <3>4. Lfs!Wanted(l)' /\ l' = out'[k].line
            BY <1>4, <2>2, <3>2, <3>3
        <3> QED BY <1>1, <1>2, <1>4, <2>1, <3>2, <3>3, <3>4 DEF Lfs!WrittenInOrder, Lfs!Wanted,
                   Lfs!InRange
    <2>4. ASSUME lfs.pc = "blocks" \/ out # <<>>, NEW n \in DOMAIN log', Lfs!Wanted(n)', n < block.next
          PROVE  \E k \in DOMAIN out : out[k].line = n
        <3>1. n \in DOMAIN log
            BY <1>1, <1>2, <1>3, <2>4 DEF LfsTypes, BlockRec
        <3> QED BY <1>1, <2>1, <2>2, <2>4, <3>1 DEF Lfs!WrittenInOrder
    <2> QED BY <1>4, <2>1, <2>3, <2>4 DEF Lfs!WrittenInOrder
<1>14. Lfs!ReadToEnd'
    <2>1. SUFFICES ASSUME lfs.pc = "done" PROVE Lfs!ReadToEnd'
        BY <1>4 DEF Lfs!ReadToEnd
    <2> QED BY <1>1, <1>4, <1>8, <2>1 DEF Lfs!ReadToEnd, Lfs!InRange
<1> QED BY <1>6, <1>7, <1>9, <1>10, <1>11, <1>12, <1>13, <1>14, <1>15 DEF LfsInv

-----------------------------------------------------------------------------
\* The lines that were there when the log was opened.
LEMMA KnownFacts ==
    ASSUME Lfs!LfsReadAssumption, LogSound, lfs.known \in DOMAIN log
    PROVE  /\ lfs.known \in Nat /\ lfs.known >= 1 /\ 1 \in DOMAIN log
           /\ \A n \in 1 .. lfs.known :
                  /\ n \in DOMAIN log /\ log[n].t \in Nat /\ log[n].off \in Nat
                  /\ Lfs!ft <= log[n].t /\ log[n].t <= Lfs!lt /\ log[n].t > 0
                  /\ log[n].off < Lfs!FileSize /\ log[n].off < Beyond
                  /\ n # lfs.known => log[n].t < Lfs!lt
                  /\ \A m \in 1 .. lfs.known : /\ log[n].off <= log[m].off <=> n <= m
                                               /\ log[n].t <= log[m].t <=> n <= m
           /\ Lfs!ft \in Nat /\ Lfs!lt \in Nat /\ Lfs!lt > 0 /\ Lfs!FileSize \in Nat
           /\ Lfs!FileSize <= Lfs!LogSize /\ Lfs!FileSize < Beyond
<1>1. DOMAIN log = 1 .. Len(log) /\ Len(log) \in Nat /\ lfs.known \in Nat /\ lfs.known >= 1
    BY LineFacts
<1>2. 1 \in DOMAIN log
    BY <1>1
<1>3. /\ Lfs!lt = log[lfs.known].t /\ Lfs!ft = log[1].t
      /\ Lfs!FileSize = log[lfs.known].off + log[lfs.known].len
      /\ Lfs!lt \in Nat /\ Lfs!ft \in Nat /\ Lfs!lt > 0 /\ log[lfs.known].off \in Nat
      /\ log[lfs.known].len \in Nat
      /\ log[lfs.known].len > 0
    BY <1>2, LineFacts DEF Lfs!lt, Lfs!ft, Lfs!FileSize
<1>4. Lfs!FileSize \in Nat /\ Lfs!FileSize <= Lfs!LogSize
    <2>1. /\ lfs.known + 1 \in 1 .. Len(log) + 1 /\ lfs.known \in 1 .. Len(log) + 1
        BY <1>1
    <2>2. Lfs!FileSize = Lfs!Start(lfs.known + 1)
        BY <2>1, StartFacts DEF Lfs!FileSize
    <2> QED BY <2>1, <2>2, StartFacts
<1>5. Lfs!LogSize \in Nat /\ Lfs!LogSize < Beyond
    <2>1. Lfs!LogSize \in Nat /\ Lfs!LogSize <= MaxSize
        BY DEF LogSound
    <2>2. /\ MaxSize \in Nat /\ Beyond \in Nat /\ BULK_BUF_SIZE \in Nat
          /\ 2 * MaxSize + BULK_BUF_SIZE < Beyond
        BY LenFacts
    <2> QED BY <2>1, <2>2
<1>6. Beyond \in Nat
    BY LenFacts
<1>7. ASSUME NEW n \in 1 .. lfs.known
      PROVE  /\ n \in DOMAIN log /\ log[n].t \in Nat /\ log[n].off \in Nat
             /\ Lfs!ft <= log[n].t /\ log[n].t <= Lfs!lt /\ log[n].t > 0
             /\ log[n].off < Lfs!FileSize /\ log[n].off < Beyond
             /\ n # lfs.known => log[n].t < Lfs!lt
    <2>1. n \in DOMAIN log /\ n \in Nat /\ n >= 1 /\ n <= lfs.known
        BY <1>1
    <2>2. log[n].t \in Nat /\ log[n].off \in Nat /\ log[n].t > 0
        BY <2>1, LineFacts
    <2>3. /\ n < lfs.known <=> log[n].t < log[lfs.known].t
          /\ n < lfs.known <=> log[n].off < log[lfs.known].off
          /\ 1 < n <=> log[1].t < log[n].t
        BY <1>2, <2>1, LinesOrdered
    <2>4. n = lfs.known => log[n].t = log[lfs.known].t /\ log[n].off = log[lfs.known].off
        OBVIOUS
    <2>5. n = 1 => log[n].t = log[1].t
        OBVIOUS
    <2>6. Lfs!ft <= log[n].t
        BY <1>3, <2>1, <2>2, <2>3, <2>5
    <2>7. /\ log[n].off <= log[lfs.known].off
          /\ log[n].t <= Lfs!lt /\ (n # lfs.known => log[n].t < Lfs!lt)
        <3>1. CASE n = lfs.known
            BY <1>3, <2>2, <3>1
        <3>2. CASE n < lfs.known
            <4>1. log[n].t < log[lfs.known].t /\ log[n].off < log[lfs.known].off
                BY <2>3, <3>2
            <4>2. log[n].t < Lfs!lt
                BY <1>3, <4>1
            <4> QED BY <1>3, <2>2, <4>1, <4>2
        <3> QED BY <1>1, <2>1, <3>1, <3>2
    <2>8. log[lfs.known].off < Lfs!FileSize /\ Lfs!FileSize < Beyond
        BY <1>3, <1>4, <1>5, <1>6
    <2> QED BY <1>3, <1>4, <1>6, <2>1, <2>2, <2>6, <2>7, <2>8
<1>8. ASSUME NEW n \in 1 .. lfs.known, NEW m \in 1 .. lfs.known
      PROVE  /\ log[n].off <= log[m].off <=> n <= m
             /\ log[n].t <= log[m].t <=> n <= m
    <2>1. n \in DOMAIN log /\ m \in DOMAIN log /\ n \in Nat /\ m \in Nat
        BY <1>1
    <2>2. log[n].off \in Nat /\ log[m].off \in Nat /\ log[n].t \in Nat /\ log[m].t \in Nat
        BY <1>7
    <2>3. (m < n <=> log[m].t < log[n].t) /\ (m < n <=> log[m].off < log[n].off)
        BY <2>1, LinesOrdered
    <2> QED BY <2>1, <2>2, <2>3
<1> QED BY <1>1, <1>2, <1>3, <1>4, <1>5, <1>6, <1>7, <1>8

\* The search for the end of the range begins, or the end is that of the file.
LEMMA StartIsFound ==
    ASSUME Lfs!LfsReadAssumption, LogSound, lfs.known \in DOMAIN log,
           NEW l \in LfsRec, l.known = lfs.known, NEW soff \in Int,
           soff = Beyond \/ \E n \in 1 .. lfs.known : soff = log[n].off,
           \A n \in 1 .. lfs.known : soff <= log[n].off <=> l.from <= log[n].t,
           log' = log, lfs' = Lfs!WithStart(l, soff), range' = Lfs!Whole(lfs),
           block' \in BlockRec, block'.next <= Len(log) + 1, out' = <<>>
    PROVE  LfsInv' /\ SearchNarrows'
<1> DEFINE N == lfs.known
<1>1. /\ N \in Nat /\ N >= 1 /\ Lfs!ft \in Nat /\ Lfs!lt \in Nat /\ Lfs!FileSize \in Nat
      /\ \A n \in 1 .. N : log[n].t <= Lfs!lt /\ log[n].off < Lfs!FileSize
    BY KnownFacts
<1>2. l.to \in Nat
    BY DEF LfsRec
<1>3. /\ l.to > Lfs!lt => lfs' = [l EXCEPT !.soff = soff, !.pc = "next"]
      /\ l.to = Lfs!lt => lfs' = [l EXCEPT !.soff = soff, !.pc = "range", !.eoff = Lfs!FileSize]
      /\ l.to < Lfs!lt => lfs' = [l EXCEPT !.soff = soff, !.pc = "to"]
    BY <1>1, <1>2 DEF Lfs!WithStart
<1>4. /\ lfs' \in LfsRec /\ lfs'.known = N /\ lfs'.from = l.from /\ lfs'.to = l.to
      /\ lfs'.soff = soff
      /\ \/ l.to > Lfs!lt /\ lfs'.pc = "next"
         \/ l.to = Lfs!lt /\ lfs'.pc = "range" /\ lfs'.eoff = Lfs!FileSize
         \/ l.to < Lfs!lt /\ lfs'.pc = "to"
    <2>1. CASE l.to > Lfs!lt
        <3>1. lfs' = [l EXCEPT !.soff = soff, !.pc = "next"]
            BY <1>3, <2>1
        <3> QED BY <2>1, <3>1 DEF LfsRec
    <2>2. CASE l.to = Lfs!lt
        <3>1. lfs' = [l EXCEPT !.soff = soff, !.pc = "range", !.eoff = Lfs!FileSize]
            BY <1>3, <2>2
        <3>2. Lfs!FileSize \in Int
            BY <1>1
        <3> QED BY <2>2, <3>1, <3>2 DEF LfsRec
    <2>3. CASE l.to < Lfs!lt
        <3>1. lfs' = [l EXCEPT !.soff = soff, !.pc = "to"]
            BY <1>3, <2>3
        <3> QED BY <2>3, <3>1 DEF LfsRec
    <2> QED BY <1>1, <1>2, <2>1, <2>2, <2>3
<1>5. Lfs!lt' = Lfs!lt /\ Lfs!ft' = Lfs!ft /\ Lfs!FileSize' = Lfs!FileSize
    BY <1>4 DEF Lfs!lt, Lfs!ft, Lfs!FileSize, Lfs!End
<1>6. range' = [lo |-> 1, hi |-> N, count |-> 0]
    BY DEF Lfs!Whole
<1>7. LogSound'
    BY DEF LogSound, Lfs!LogSize, Lfs!Start, Lfs!End
<1>8. LfsTypes'
    BY <1>1, <1>4, <1>6 DEF LfsTypes, LfsRec, BlockRec
<1>9. StartFound'
    BY <1>4 DEF StartFound
<1>10. SearchSound' /\ SearchNarrows'
    BY <1>1, <1>2, <1>4, <1>5, <1>6 DEF SearchSound, SearchNarrows, Lfs!Searches
<1>11. EndFound'
    <2>1. CASE lfs'.pc # "range"
        BY <1>4, <2>1 DEF EndFound, Ranged
    <2>2. CASE lfs'.pc = "range"
        <3>1. lfs'.eoff = Lfs!FileSize /\ l.to = Lfs!lt /\ lfs'.to = Lfs!lt /\ lfs'.known = N
            BY <1>1, <1>2, <1>4, <2>2
        <3>2. \A n \in 1 .. N : log[n].t <= lfs'.to /\ log[n].off < lfs'.eoff
            BY <1>1, <3>1
        <3>3. ~ (lfs'.to > Lfs!lt') /\ lfs'.eoff <= Lfs!FileSize'
            BY <1>1, <1>5, <3>1
        <3> QED BY <3>1, <3>2, <3>3 DEF EndFound
    <2> QED BY <2>1, <2>2
<1>12. BlockSound' /\ NothingOut' /\ Lfs!WrittenInOrder' /\ Lfs!ReadToEnd'
    BY <1>4 DEF BlockSound, NothingOut, Lfs!WrittenInOrder, Lfs!ReadToEnd
<1> QED BY <1>7, <1>8, <1>9, <1>10, <1>11, <1>12 DEF LfsInv

\* A position and a time are right for the time that is sought.
RightPosition(off, mt) ==
    /\ \/ off = Lfs!Before /\ mt = 0 /\ Lfs!Sought < Lfs!ft
       \/ off = Beyond /\ mt = 0 /\ Lfs!Sought > Lfs!lt
       \/ \E n \in 1 .. lfs.known : off = log[n].off /\ mt = log[n].t /\ Lfs!Sought <= mt
    /\ \A n \in 1 .. lfs.known : off <= log[n].off <=> Lfs!Sought <= log[n].t

\* A search that returns the right position begins the next one or ends the range.
LEMMA ReturnStep ==
    ASSUME Lfs!LfsReadAssumption, LfsInv, lfs.pc \in Lfs!Searches, NEW off \in Int, NEW mt \in Nat,
           RightPosition(off, mt), Lfs!Returns(off, mt), UNCHANGED <<log, block, out>>
    PROVE  LfsInv' /\ SearchNarrows'
<1> DEFINE N == lfs.known
<1>1. LogSound /\ LfsTypes /\ StartFound /\ SearchSound /\ NothingOut
    BY DEF LfsInv
<1>2. /\ lfs \in LfsRec /\ N \in DOMAIN log /\ block \in BlockRec /\ block.next <= Len(log) + 1
      /\ out = <<>>
    BY <1>1 DEF LfsTypes, Lfs!Searches, LfsRec, BlockRec, NothingOut
<1>3. /\ N \in Nat /\ N >= 1 /\ Lfs!ft \in Nat /\ Lfs!lt \in Nat /\ Lfs!lt > 0
      /\ Lfs!FileSize \in Nat /\ Lfs!FileSize < Beyond
      /\ \A n \in 1 .. N : /\ log[n].t \in Nat /\ log[n].off \in Nat
                           /\ Lfs!ft <= log[n].t /\ log[n].t <= Lfs!lt /\ log[n].t > 0
                           /\ log[n].off < Lfs!FileSize
                           /\ n # N => log[n].t < Lfs!lt
                           /\ \A m \in 1 .. N : /\ log[n].off <= log[m].off <=> n <= m
                                                /\ log[n].t <= log[m].t <=> n <= m
    BY <1>1, <1>2, KnownFacts
<1>4. Beyond \in Nat /\ lfs.from \in Nat /\ lfs.to \in Nat
    BY <1>2, LenFacts DEF LfsRec
<1>5. range' = [lo |-> 1, hi |-> N, count |-> 0] /\ log' = log /\ block' = block /\ out' = out
    BY DEF Lfs!Returns, Lfs!Whole
<1>6. LogSound'
    BY <1>1, <1>5 DEF LogSound, Lfs!LogSize, Lfs!Start, Lfs!End
<1>7. CASE lfs.pc = "from"
    <2>1. Lfs!Sought = lfs.from /\ lfs' = Lfs!WithStart(lfs, off)
        BY <1>7 DEF Lfs!Sought, Lfs!Returns
    <2>2. off = Beyond \/ \E n \in 1 .. N : off = log[n].off
        BY <1>1, <1>3, <1>4, <1>7, <2>1 DEF RightPosition, SearchSound
    <2>3. \A n \in 1 .. N : off <= log[n].off <=> lfs.from <= log[n].t
        BY <2>1 DEF RightPosition
    <2>4. range' = Lfs!Whole(lfs)
        BY DEF Lfs!Returns
    <2> HIDE DEF N
    <2> QED BY <1>1, <1>2, <1>5, <2>1, <2>2, <2>3, <2>4, StartIsFound DEF N
<1>8. ASSUME lfs.pc \in {"to", "next"}, NEW step \in {"next", "range"}, NEW eoff \in Int,
             lfs' = [lfs EXCEPT !.pc = step, !.eoff = eoff],
             step = "next" => lfs.to # Lfs!lt,
             step = "range" => /\ \A n \in 1 .. N :
                                    /\ log[n].t <= lfs.to => log[n].off < eoff
                                    /\ log[n].off < eoff => log[n].t <= lfs.to \/ n = N
                             /\ IF lfs.to > Lfs!lt THEN eoff = Beyond ELSE eoff <= Lfs!FileSize
      PROVE  LfsInv' /\ SearchNarrows'
    <2>1. /\ lfs' \in LfsRec /\ lfs'.known = N /\ lfs'.from = lfs.from /\ lfs'.to = lfs.to
          /\ lfs'.soff = lfs.soff /\ lfs'.pc = step /\ lfs'.eoff = eoff
        BY <1>2, <1>8 DEF LfsRec
    <2>2. Lfs!lt' = Lfs!lt /\ Lfs!ft' = Lfs!ft /\ Lfs!FileSize' = Lfs!FileSize
        BY <1>5, <2>1 DEF Lfs!lt, Lfs!ft, Lfs!FileSize, Lfs!End
    <2>3. LfsTypes'
        BY <1>2, <1>3, <1>5, <2>1 DEF LfsTypes, LfsRec, BlockRec
    <2>4. StartFound'
        BY <1>1, <1>5, <1>8, <2>1 DEF StartFound
    <2>5. SearchSound' /\ SearchNarrows'
        BY <1>3, <1>5, <1>8, <2>1, <2>2 DEF SearchSound, SearchNarrows, Lfs!Searches
    <2>6. EndFound'
        <3>1. CASE step = "next"
            BY <2>1, <3>1 DEF EndFound, Ranged
        <3>2. CASE step = "range"
            BY <1>5, <1>8, <2>1, <2>2, <3>2 DEF EndFound
        <3> QED BY <3>1, <3>2
    <2>7. BlockSound' /\ NothingOut' /\ Lfs!WrittenInOrder' /\ Lfs!ReadToEnd'
        BY <1>2, <1>5, <2>1 DEF BlockSound, NothingOut, Lfs!WrittenInOrder, Lfs!ReadToEnd
    <2> QED BY <1>6, <2>3, <2>4, <2>5, <2>6, <2>7 DEF LfsInv
<1>9. CASE lfs.pc = "to"
    <2>1. Lfs!Sought = lfs.to /\ lfs' = Lfs!WithEnd(lfs, off, mt) /\ lfs.to < Lfs!lt
        BY <1>1, <1>9 DEF Lfs!Sought, Lfs!Returns, SearchSound
    <2>2. PICK m \in 0 .. N : /\ m = 0 => off = Lfs!Before /\ mt = 0 /\ lfs.to < Lfs!ft
                              /\ m # 0 => off = log[m].off /\ mt = log[m].t /\ lfs.to <= mt
        <3>1. CASE off = Lfs!Before /\ mt = 0 /\ Lfs!Sought < Lfs!ft
            BY <1>3, <2>1, <3>1
        <3>2. CASE \E n \in 1 .. N : off = log[n].off /\ mt = log[n].t /\ Lfs!Sought <= mt
            BY <1>3, <2>1, <3>2
        <3> QED BY <1>3, <1>4, <2>1, <3>1, <3>2 DEF RightPosition
    <2>3. \A n \in 1 .. N : off <= log[n].off <=> lfs.to <= log[n].t
        BY <2>1 DEF RightPosition
    <2>4. CASE mt = Lfs!lt
        <3>1. lfs' = [lfs EXCEPT !.pc = "range", !.eoff = Lfs!FileSize]
            BY <2>1, <2>4 DEF Lfs!WithEnd
        <3>2. m = N
            BY <1>3, <2>2, <2>4
        <3>3. \A n \in 1 .. N : log[n].t <= lfs.to \/ n = N
            <4> SUFFICES ASSUME NEW n \in 1 .. N, n # N PROVE log[n].t <= lfs.to
                OBVIOUS
            <4>1. ~ (off <= log[n].off)
                BY <1>3, <2>2, <3>2
            <4> QED BY <1>3, <1>4, <2>3, <4>1
        <3>4. /\ ~ (lfs.to > Lfs!lt) /\ Lfs!FileSize \in Int
              /\ \A n \in 1 .. N : log[n].off < Lfs!FileSize
            BY <1>3, <1>4, <2>1
        <3>5. PICK e \in Int : e = Lfs!FileSize
            BY <3>4
        <3>6. lfs' = [lfs EXCEPT !.pc = "range", !.eoff = e] /\ e <= Lfs!FileSize
            BY <1>3, <3>1, <3>5
        <3>7. \A n \in 1 .. N : log[n].off < e /\ (log[n].t <= lfs.to \/ n = N)
            BY <3>3, <3>4, <3>5
        <3> QED BY <1>8, <1>9, <3>4, <3>6, <3>7
    <2>5. CASE mt # Lfs!lt /\ mt = lfs.to
        <3>1. lfs' = [lfs EXCEPT !.pc = "next"]
            BY <2>1, <2>5 DEF Lfs!WithEnd
        <3>2. lfs' = [lfs EXCEPT !.pc = "next", !.eoff = lfs.eoff] /\ lfs.eoff \in Int
            BY <1>2, <3>1 DEF LfsRec
        <3> QED BY <1>8, <1>9, <2>5, <3>2
    <2>6. CASE mt # Lfs!lt /\ mt # lfs.to
        <3>1. lfs' = [lfs EXCEPT !.pc = "range", !.eoff = off]
            BY <2>1, <2>6 DEF Lfs!WithEnd
        <3>2. ASSUME NEW n \in 1 .. N PROVE log[n].off < off <=> log[n].t <= lfs.to
            <4>1. log[n].t # lfs.to
                <5> SUFFICES ASSUME log[n].t = lfs.to PROVE FALSE
                    OBVIOUS
                <5>1. off <= log[n].off
                    BY <1>4, <2>3
                <5>2. m # 0
                    BY <1>3, <2>2
                <5>3. m \in 1 .. N /\ log[m].off <= log[n].off
                    BY <2>2, <5>1, <5>2
                <5>4. log[m].t <= log[n].t
                    BY <1>3, <5>3
                <5> QED BY <1>3, <1>4, <2>2, <2>6, <5>2, <5>3, <5>4
            <4> QED BY <1>3, <1>4, <2>3, <4>1
        <3>3. off <= Lfs!FileSize
            BY <1>3, <2>2 DEF Lfs!Before
        <3>4. ~ (lfs.to > Lfs!lt)
            BY <1>3, <1>4, <2>1
        <3> QED BY <1>8, <1>9, <3>1, <3>2, <3>3, <3>4
    <2> QED BY <2>4, <2>5, <2>6
<1>10. CASE lfs.pc = "next"
    <2>1. /\ Lfs!Sought = lfs.to + 1 /\ lfs' = [lfs EXCEPT !.pc = "range", !.eoff = off]
          /\ lfs.to # Lfs!lt
        BY <1>1, <1>10 DEF Lfs!Sought, Lfs!Returns, SearchSound
    <2>2. \A n \in 1 .. N : log[n].off < off <=> log[n].t <= lfs.to
        BY <1>3, <1>4, <2>1 DEF RightPosition
    <2>3. CASE lfs.to > Lfs!lt
        <3>1. off = Beyond
            BY <1>3, <1>4, <2>1, <2>3 DEF RightPosition
        <3> QED BY <1>8, <1>10, <2>1, <2>2, <2>3, <3>1
    <2>4. CASE lfs.to < Lfs!lt
        <3>1. off <= Lfs!FileSize
            BY <1>3, <1>4, <2>1, <2>4 DEF RightPosition, Lfs!Before
        <3>2. ~ (lfs.to > Lfs!lt)
            BY <1>3, <1>4, <2>4
        <3> QED BY <1>8, <1>10, <2>1, <2>2, <3>1, <3>2
    <2> QED BY <1>3, <1>4, <2>1, <2>3, <2>4
<1> QED BY <1>7, <1>9, <1>10 DEF Lfs!Searches

-----------------------------------------------------------------------------
\* The line that getNearSeq finds between two lines.
LEMMA NearSeqFacts ==
    ASSUME Lfs!LfsReadAssumption, LogSound, lfs.known \in DOMAIN log,
           NEW lo \in 1 .. lfs.known, NEW hi \in 1 .. lfs.known, NEW n \in DOMAIN log, NEW off \in Nat,
           Lfs!getNearSeq(n, off), log[lo].off <= off, off <= log[hi].off
    PROVE  n \in lo .. hi /\ n \in 1 .. lfs.known /\ (log[lo].off < off => lo < n)
<1>1. /\ lfs.known \in Nat /\ lo \in DOMAIN log /\ hi \in DOMAIN log
      /\ log[lo].off \in Nat /\ log[hi].off \in Nat
    BY KnownFacts
<1>2. n \in Nat /\ n >= 1 /\ log[n].off \in Nat /\ DOMAIN log = 1 .. Len(log) /\ Len(log) \in Nat
    BY LineFacts
<1>3. log[n].off >= off /\ (n > 1 => log[n - 1].off < off)
    BY DEF Lfs!getNearSeq
<1>4. lo <= n
    <2>1. n < lo <=> log[n].off < log[lo].off
        BY <1>1, LinesOrdered
    <2> QED BY <1>1, <1>2, <1>3, <2>1
<1>5. n <= hi
    <2> SUFFICES ASSUME n > hi PROVE FALSE
        BY <1>2
    <2>1. n - 1 \in DOMAIN log /\ n > 1 /\ hi <= n - 1
        BY <1>1, <1>2
    <2>2. log[n - 1].off < off /\ log[n - 1].off \in Nat
        BY <1>3, <2>1, LineFacts
    <2>3. n - 1 < hi <=> log[n - 1].off < log[hi].off
        BY <1>1, <2>1, LinesOrdered
    <2> QED BY <1>1, <1>2, <2>1, <2>2, <2>3
<1>6. log[lo].off < off => lo < n
    <2>1. lo = n => log[lo].off = log[n].off
        OBVIOUS
    <2> QED BY <1>1, <1>2, <1>3, <1>4, <2>1
<1> QED BY <1>1, <1>2, <1>4, <1>5, <1>6

\* A step of a search narrows it or returns the right position.
LEMMA SeekStep ==
    ASSUME Lfs!LfsReadAssumption, LfsInv, Lfs!Seek
    PROVE  LfsInv' /\ (Lfs!ShortLines /\ SearchNarrows => SearchNarrows')
<1> DEFINE N == lfs.known
<1>1. LogSound /\ LfsTypes /\ StartFound /\ SearchSound /\ NothingOut
    BY DEF LfsInv
<1>2. lfs.pc \in Lfs!Searches /\ log' = log /\ block' = block /\ out' = out
    BY DEF Lfs!Seek
<1>3. /\ lfs \in LfsRec /\ N \in DOMAIN log /\ block \in BlockRec /\ block.next <= Len(log) + 1
      /\ out \in Seq(OutRec) /\ range \in [lo : Nat, hi : Nat, count : Nat]
    BY <1>1, <1>2 DEF LfsTypes, Lfs!Searches, LfsRec, BlockRec
<1>4. /\ N \in Nat /\ N >= 1 /\ Lfs!ft \in Nat /\ Lfs!lt \in Nat /\ Lfs!FileSize \in Nat
      /\ \A n \in 1 .. N : /\ log[n].t \in Nat /\ log[n].off \in Nat /\ n \in DOMAIN log
                           /\ Lfs!ft <= log[n].t /\ log[n].t <= Lfs!lt /\ log[n].off < Beyond
                           /\ \A m \in 1 .. N : /\ log[n].off <= log[m].off <=> n <= m
                                                /\ log[n].t <= log[m].t <=> n <= m
    BY <1>1, <1>3, KnownFacts
<1>5. Beyond \in Nat /\ Lfs!Sought \in Nat
    <2>1. lfs.from \in Nat /\ lfs.to \in Nat
        BY <1>3 DEF LfsRec
    <2> QED BY <1>2, <2>1, LenFacts DEF Lfs!Sought, Lfs!Searches
<1>6. PICK lo \in 1 .. N, hi \in 1 .. N : lo = range.lo /\ hi = range.hi
    BY <1>1, <1>2, <1>3, <1>4 DEF SearchSound
<1>7. lo <= hi /\ (lo = 1 \/ log[lo].t < Lfs!Sought) /\ (hi = N \/ Lfs!Sought < log[hi].t)
    BY <1>1, <1>2, <1>6 DEF SearchSound
<1>8. ASSUME NEW off \in Int, NEW mt \in Nat, RightPosition(off, mt), Lfs!Returns(off, mt)
      PROVE  LfsInv' /\ SearchNarrows'
    BY <1>2, <1>8, ReturnStep
<1>9. ASSUME NEW n \in 1 .. N, Lfs!Sought <= log[n].t,
             \A m \in 1 .. N : m < n => log[m].t < Lfs!Sought,
             Lfs!Returns(log[n].off, log[n].t)
      PROVE  LfsInv' /\ SearchNarrows'
    <2>1. PICK off \in Int, mt \in Nat : off = log[n].off /\ mt = log[n].t
        BY <1>4
    <2>2. \A m \in 1 .. N : off <= log[m].off <=> Lfs!Sought <= log[m].t
        <3> SUFFICES ASSUME NEW m \in 1 .. N PROVE off <= log[m].off <=> Lfs!Sought <= log[m].t
            OBVIOUS
        <3>1. off <= log[m].off <=> n <= m
            BY <1>4, <2>1
        <3>2. n <= m => log[n].t <= log[m].t
            BY <1>4
        <3> QED BY <1>4, <1>5, <1>9, <3>1, <3>2
    <2>3. RightPosition(off, mt)
        BY <1>9, <2>1, <2>2 DEF RightPosition
    <2> QED BY <1>8, <1>9, <2>1, <2>3
<1>10. CASE Lfs!Sought < log[range.lo].t /\ Lfs!Returns(Lfs!Before, 0)
    <2>1. lo = 1
        BY <1>4, <1>5, <1>6, <1>7, <1>10
    <2>2. Lfs!Sought < Lfs!ft
        BY <1>6, <1>10, <2>1 DEF Lfs!ft
    <2>3. \A m \in 1 .. N : Lfs!Before <= log[m].off /\ Lfs!Sought <= log[m].t
        BY <1>4, <1>5, <2>2 DEF Lfs!Before
    <2>4. RightPosition(Lfs!Before, 0) /\ Lfs!Before \in Int
        BY <2>2, <2>3 DEF RightPosition, Lfs!Before
    <2> QED BY <1>8, <1>10, <2>4
<1>11. CASE Lfs!Sought > log[range.hi].t /\ Lfs!Returns(Beyond, 0)
    <2>1. hi = N
        BY <1>4, <1>5, <1>6, <1>7, <1>11
    <2>2. Lfs!Sought > Lfs!lt
        BY <1>6, <1>11, <2>1 DEF Lfs!lt
    <2>3. \A m \in 1 .. N : ~ (Beyond <= log[m].off) /\ ~ (Lfs!Sought <= log[m].t)
        BY <1>4, <1>5, <2>2
    <2>4. RightPosition(Beyond, 0) /\ Beyond \in Int
        BY <1>5, <2>2, <2>3 DEF RightPosition
    <2> QED BY <1>8, <1>11, <2>4
<1>12. CASE Lfs!Sought = log[range.lo].t /\ Lfs!Returns(log[range.lo].off, log[range.lo].t)
    <2>1. \A m \in 1 .. N : m < lo => log[m].t < Lfs!Sought
        BY <1>4, <1>5, <1>6, <1>12
    <2> QED BY <1>4, <1>5, <1>6, <1>9, <1>12, <2>1
<1>13. CASE Lfs!Sought = log[range.hi].t /\ Lfs!Returns(log[range.hi].off, log[range.hi].t)
    <2>1. \A m \in 1 .. N : m < hi => log[m].t < Lfs!Sought
        BY <1>4, <1>5, <1>6, <1>13
    <2> QED BY <1>4, <1>5, <1>6, <1>9, <1>13, <2>1
<1>17. /\ range.lo = lo /\ range.hi = hi /\ lo \in Nat /\ hi \in Nat /\ N \in Nat
       /\ range.count \in Nat
    BY <1>3, <1>4, <1>6
<1>14. ASSUME log[lo].t < Lfs!Sought, Lfs!Sought < log[hi].t,
              NEW r \in [lo : Nat, hi : Nat, count : Nat], range' = r, UNCHANGED lfs,
              r.lo \in 1 .. N, r.hi \in 1 .. N, r.lo <= r.hi,
              log[r.lo].t < Lfs!Sought, Lfs!Sought < log[r.hi].t
       PROVE  LfsInv'
    <2>1. /\ lfs' = lfs /\ Lfs!lt' = Lfs!lt /\ Lfs!ft' = Lfs!ft /\ Lfs!FileSize' = Lfs!FileSize
          /\ Lfs!Sought' = Lfs!Sought
          /\ LogSound'
        BY <1>1, <1>2, <1>14 DEF Lfs!lt, Lfs!ft, Lfs!FileSize, Lfs!Sought, Lfs!End, LogSound,
           Lfs!LogSize, Lfs!Start
    <2>2. LfsTypes'
        BY <1>1, <1>2, <1>14 DEF LfsTypes
    <2>3. StartFound'
        BY <1>1, <1>2, <1>14 DEF StartFound
    <2>4. SearchSound'
        BY <1>1, <1>2, <1>14, <2>1 DEF SearchSound
    <2>5. EndFound' /\ BlockSound' /\ NothingOut' /\ Lfs!WrittenInOrder' /\ Lfs!ReadToEnd'
        BY <1>1, <1>2, <2>1 DEF EndFound, BlockSound, NothingOut, Lfs!WrittenInOrder,
           Lfs!ReadToEnd, Lfs!Searches, Ranged
    <2> QED BY <2>1, <2>2, <2>3, <2>4, <2>5 DEF LfsInv
<1>15. ASSUME log[lo].t < Lfs!Sought, Lfs!Sought < log[hi].t, NEW n \in DOMAIN log,
              Lfs!getNearSeq(n, log[lo].off + 1),
              IF log[n].t = log[hi].t \/ log[n].t >= Lfs!Sought
              THEN Lfs!Returns(log[n].off, log[n].t)
              ELSE range' = [range EXCEPT !.lo = n, !.count = @ + 1] /\ UNCHANGED lfs
       PROVE  LfsInv' /\ (Lfs!ShortLines /\ SearchNarrows => SearchNarrows')
    <2>1. lo < hi
        <3>1. ~ (log[hi].t <= log[lo].t)
            BY <1>4, <1>5, <1>15
        <3> QED BY <1>4, <3>1
    <2>2. log[lo].off < log[hi].off /\ log[lo].off \in Nat /\ log[hi].off \in Nat
        <3>1. ~ (log[hi].off <= log[lo].off)
            BY <1>4, <2>1
        <3> QED BY <1>4, <3>1
    <2>3. n \in 1 .. N /\ lo < n /\ n <= hi
        <3>1. PICK off \in Nat : off = log[lo].off + 1
            BY <2>2
        <3>2. /\ Lfs!getNearSeq(n, off) /\ log[lo].off <= off /\ off <= log[hi].off
              /\ log[lo].off < off
            BY <1>15, <2>2, <3>1
        <3> QED BY <1>1, <1>3, <1>4, <3>2, NearSeqFacts
    <2>4. ASSUME NEW m \in 1 .. N, m < n PROVE log[m].t < Lfs!Sought
        <3>1. log[n - 1].off < log[lo].off + 1
            BY <1>4, <2>3 , <1>15 DEF Lfs!getNearSeq
        <3>2. n - 1 \in 1 .. N /\ m <= n - 1
            BY <1>4, <2>3, <2>4
        <3>3. log[n - 1].off <= log[lo].off
            BY <1>4, <2>2, <3>1, <3>2
        <3>4. n - 1 <= lo
            BY <1>4, <3>2, <3>3
        <3>5. log[m].t <= log[lo].t
            BY <1>4, <3>2, <3>4
        <3> QED BY <1>4, <1>5, <1>15, <3>5
    <2>5. CASE log[n].t >= Lfs!Sought
        <3>1. Lfs!Returns(log[n].off, log[n].t)
            BY <1>15, <2>5
        <3>2. Lfs!Sought <= log[n].t
            BY <1>4, <1>5, <2>3, <2>5
        <3> QED BY <1>9, <2>3, <2>4, <3>1, <3>2
    <2>6. CASE ~ (log[n].t >= Lfs!Sought)
        <3>1. /\ range' = [range EXCEPT !.lo = n, !.count = @ + 1] /\ UNCHANGED lfs
              /\ log[n].t < Lfs!Sought
            BY <1>4, <1>5, <1>15, <2>3, <2>6
        <3>2. /\ range' \in [lo : Nat, hi : Nat, count : Nat]
              /\ range'.lo = n /\ range'.hi = hi /\ range'.count = range.count + 1
            <4>1. PICK c \in Nat : c = range.count + 1
                BY <1>17
            <4>2. range' = [range EXCEPT !.lo = n, !.count = c]
                BY <3>1, <4>1
            <4>3. n \in Nat
                BY <1>4, <2>3
            <4> QED BY <1>3, <1>17, <4>1, <4>2, <4>3
        <3>3. LfsInv'
            <4>1. PICK r \in [lo : Nat, hi : Nat, count : Nat] : r = range'
                BY <3>2
            <4>2. r.lo = n /\ r.hi = hi
                BY <3>2, <4>1
            <4> QED BY <1>14, <1>15, <2>3, <3>1, <4>1, <4>2
        <3>4. SearchNarrows => SearchNarrows'
            BY <1>2, <1>4, <1>17, <2>3, <3>1, <3>2 DEF SearchNarrows
        <3> QED BY <3>3, <3>4
    <2> QED BY <2>5, <2>6
<1>16. ASSUME log[lo].t < Lfs!Sought, Lfs!Sought < log[hi].t,
              ~ (log[hi].off - log[lo].off < DATA_SIZE - 1),
              NEW n \in DOMAIN log,
              Lfs!getNearSeq(n, (log[lo].off + log[hi].off) \div 2),
              \/ Lfs!Sought = log[n].t /\ Lfs!Returns(log[n].off, log[n].t)
              \/ Lfs!Sought < log[n].t /\ range' = [range EXCEPT !.hi = n, !.count = @ + 1] /\ UNCHANGED lfs
              \/ Lfs!Sought > log[n].t /\ range' = [range EXCEPT !.lo = n, !.count = @ + 1] /\ UNCHANGED lfs
       PROVE  LfsInv' /\ (Lfs!ShortLines /\ SearchNarrows => SearchNarrows')
    <2>1. lo < hi
        <3>1. ~ (log[hi].t <= log[lo].t)
            BY <1>4, <1>5, <1>16
        <3> QED BY <1>4, <3>1
    <2>2. log[lo].off < log[hi].off /\ log[lo].off \in Nat /\ log[hi].off \in Nat
        <3>1. ~ (log[hi].off <= log[lo].off)
            BY <1>4, <2>1
        <3> QED BY <1>4, <3>1
    <2>3. PICK off \in Nat : off = (log[lo].off + log[hi].off) \div 2
        BY <2>2
    <2>4. /\ log[lo].off <= off /\ off <= log[hi].off
          /\ log[lo].off + 1 < log[hi].off => log[lo].off < off
          /\ 2 * off <= log[lo].off + log[hi].off
        BY <2>2, <2>3
    <2>5. Lfs!getNearSeq(n, off)
        BY <1>16, <2>3
    <2>6. n \in lo .. hi /\ n \in 1 .. N /\ (log[lo].off < off => lo < n)
        BY <1>1, <1>3, <2>4, <2>5, NearSeqFacts
    <2>7. log[n].t \in Nat /\ n \in Nat /\ lo <= n /\ n <= hi
        BY <1>4, <2>6
    <2>8. CASE Lfs!Sought = log[n].t /\ Lfs!Returns(log[n].off, log[n].t)
        <3>1. \A m \in 1 .. N : m < n => log[m].t < Lfs!Sought
            BY <1>4, <1>5, <2>6, <2>8
        <3> QED BY <1>5, <1>9, <2>6, <2>8, <3>1
    <2>9. CASE /\ Lfs!Sought < log[n].t
               /\ range' = [range EXCEPT !.hi = n, !.count = @ + 1]
               /\ UNCHANGED lfs
        <3>1. /\ range' \in [lo : Nat, hi : Nat, count : Nat]
              /\ range'.lo = lo /\ range'.hi = n /\ range'.count = range.count + 1
            <4>1. PICK c \in Nat : c = range.count + 1
                BY <1>17
            <4>2. range' = [range EXCEPT !.hi = n, !.count = c]
                BY <2>9, <4>1
            <4>3. n \in Nat
                BY <2>7
            <4> QED BY <1>3, <1>17, <4>1, <4>2, <4>3
        <3>2. LfsInv'
            <4>1. PICK r \in [lo : Nat, hi : Nat, count : Nat] : r = range'
                BY <3>1
            <4>2. r.lo = lo /\ r.hi = n
                BY <3>1, <4>1
            <4> QED BY <1>14, <1>16, <2>6, <2>7, <2>9, <4>1, <4>2
        <3>3. ASSUME Lfs!ShortLines PROVE n < hi
            <4> SUFFICES ASSUME n = hi PROVE FALSE
                BY <2>7
            <4>1. hi - 1 \in 1 .. N /\ hi > 1
                BY <1>4, <2>1
            <4>2. log[hi - 1].off < off
                BY <2>5, <4>1 DEF Lfs!getNearSeq
            <4>3. hi - 1 \in DOMAIN log /\ hi \in DOMAIN log /\ (hi - 1) + 1 = hi
                BY <1>4, <4>1
            <4>4. /\ log[hi].off = Lfs!End(hi - 1)
                  /\ Lfs!End(hi - 1) = log[hi - 1].off + log[hi - 1].len
                BY <1>1, <4>3, LineFacts DEF LogSound
            <4>5. PICK w \in Writes : log[hi - 1].len = w.len + Stamp
                BY <1>1, <4>3 DEF LogSound
            <4>6. /\ 2 * (w.len + Stamp) < DATA_SIZE /\ w.len \in Nat /\ Stamp \in Nat
                  /\ DATA_SIZE \in Nat
                BY <3>3, LenFacts DEF Lfs!ShortLines
            <4>7. log[hi - 1].off \in Nat
                BY <1>4, <4>1
            <4>8. log[hi].off - log[lo].off >= DATA_SIZE - 1
                BY <1>16, <2>2, <4>6
            <4> QED BY <2>2, <2>4, <4>2, <4>4, <4>5, <4>6, <4>7, <4>8
        <3>4. Lfs!ShortLines /\ SearchNarrows => SearchNarrows'
            BY <1>2, <1>17, <2>7, <2>9, <3>1, <3>3 DEF SearchNarrows
        <3> QED BY <3>2, <3>4
    <2>10. CASE /\ Lfs!Sought > log[n].t
                /\ range' = [range EXCEPT !.lo = n, !.count = @ + 1]
                /\ UNCHANGED lfs
        <3>1. /\ range' \in [lo : Nat, hi : Nat, count : Nat]
              /\ range'.lo = n /\ range'.hi = hi /\ range'.count = range.count + 1
            <4>1. PICK c \in Nat : c = range.count + 1
                BY <1>17
            <4>2. range' = [range EXCEPT !.lo = n, !.count = c]
                BY <2>10, <4>1
            <4>3. n \in Nat
                BY <2>7
            <4> QED BY <1>3, <1>17, <4>1, <4>2, <4>3
        <3>2. log[n].t < Lfs!Sought
            BY <1>5, <2>7, <2>10
        <3>3. LfsInv'
            <4>1. PICK r \in [lo : Nat, hi : Nat, count : Nat] : r = range'
                BY <3>1
            <4>2. r.lo = n /\ r.hi = hi
                BY <3>1, <4>1
            <4> QED BY <1>14, <1>16, <2>6, <2>7, <2>10, <3>2, <4>1, <4>2
        <3>4. ASSUME Lfs!ShortLines PROVE lo < n
            <4>1. lo \in DOMAIN log
                BY <1>4
            <4>2. PICK w \in Writes : log[lo].len = w.len + Stamp
                BY <1>1, <4>1 DEF LogSound
            <4>3. /\ 2 * (w.len + Stamp) < DATA_SIZE /\ w.len \in Nat /\ Stamp \in Nat \ {0}
                  /\ DATA_SIZE \in Nat
                BY <3>4, LenFacts DEF Lfs!ShortLines
            <4>4. DATA_SIZE >= 3
                BY <4>3
            <4>5. log[hi].off - log[lo].off >= DATA_SIZE - 1
                BY <1>16, <2>2, <4>3
            <4>6. log[lo].off + 1 < log[hi].off
                BY <2>2, <4>3, <4>4, <4>5
            <4> QED BY <2>4, <2>6, <4>6
        <3>5. Lfs!ShortLines /\ SearchNarrows => SearchNarrows'
            BY <1>2, <1>17, <2>7, <2>10, <3>1, <3>4 DEF SearchNarrows
        <3> QED BY <3>3, <3>5
    <2> QED BY <1>16, <2>8, <2>9, <2>10
<1> QED BY <1>6, <1>10, <1>11, <1>12, <1>13, <1>15, <1>16 DEF Lfs!Seek

-----------------------------------------------------------------------------
\* Nothing is written or read yet.
LEMMA LfsInvInit ==
    ASSUME Lfs!LfsReadAssumption, Lfs!Init
    PROVE  LfsInv /\ SearchNarrows
<1>1. /\ log = <<>> /\ out = <<>> /\ lfs = Lfs!Closed /\ range = [lo |-> 1, hi |-> 0, count |-> 0]
      /\ block = [at |-> 0, off |-> 0, next |-> 1] /\ lfs.pc = "closed"
    BY DEF Lfs!Init, Lfs!Whole, Lfs!Closed, Lfs!Unread
<1>2. DOMAIN log = {} /\ Len(log) = 0 /\ log \in Seq(LogLine)
    BY <1>1
<1>3. Lfs!LogSize = 0 /\ MaxSize \in Nat
    BY <1>1, <1>2, LenFacts DEF Lfs!LogSize, Lfs!Start
<1>4. LogSound
    BY <1>1, <1>2, <1>3 DEF LogSound
<1>5. LfsTypes
    <2>1. lfs \in LfsRec
        BY <1>1 DEF LfsRec, Lfs!Closed
    <2>2. /\ block \in BlockRec /\ range \in [lo : Nat, hi : Nat, count : Nat]
          /\ block.next <= Len(log) + 1
        BY <1>1, <1>2 DEF BlockRec
    <2>3. out \in Seq(OutRec)
        BY <1>1
    <2> QED BY <1>1, <2>1, <2>2, <2>3 DEF LfsTypes
<1> QED BY <1>1, <1>4, <1>5 DEF LfsInv, StartFound, SearchSound, EndFound, BlockSound, NothingOut,
        Lfs!WrittenInOrder, Lfs!ReadToEnd, SearchNarrows, Lfs!Searches, Ranged

\* Opening and closing the log.
LEMMA LfsIdleStep ==
    ASSUME Lfs!LfsReadAssumption, LfsInv, Lfs!lfs_read_open \/ Lfs!lfs_read_close
    PROVE  LfsInv' /\ SearchNarrows'
<1>1. LogSound /\ LfsTypes
    BY DEF LfsInv
<1>2. log' = log /\ range' = range /\ block' = block /\ out' = out
    BY DEF Lfs!lfs_read_open, Lfs!lfs_read_close
<1>3. /\ lfs' \in LfsRec /\ lfs'.pc \in {"closed", "open"}
      /\ lfs'.pc # "closed" => lfs'.known \in DOMAIN log
    <2>1. log \in Seq(LogLine)
        BY <1>1 DEF LogSound
    <2>2. Len(log) \in Nat /\ (log # <<>> => Len(log) \in DOMAIN log)
        BY <2>1
    <2>3. CASE Lfs!lfs_read_open
        <3>1. lfs' = [pc |-> "open", known |-> Len(log), from |-> 0, to |-> 0, t_offset |-> 0,
                      all |-> FALSE, soff |-> 0, eoff |-> 0]
            BY <2>3 DEF Lfs!lfs_read_open, Lfs!Closed
        <3>2. log # <<>>
            BY <2>3 DEF Lfs!lfs_read_open
        <3> QED BY <2>2, <3>1, <3>2 DEF LfsRec
    <2>4. CASE Lfs!lfs_read_close
        BY <2>4 DEF Lfs!lfs_read_close, Lfs!Closed, LfsRec
    <2> QED BY <2>3, <2>4
<1>4. LogSound'
    BY <1>1, <1>2 DEF LogSound, Lfs!LogSize, Lfs!Start, Lfs!End
<1>5. LfsTypes'
    BY <1>1, <1>2, <1>3 DEF LfsTypes
<1> QED BY <1>3, <1>4, <1>5 DEF LfsInv, StartFound, SearchSound, EndFound, BlockSound, NothingOut,
        Lfs!WrittenInOrder, Lfs!ReadToEnd, SearchNarrows, Lfs!Searches, Ranged

\* A call begins its search.
LEMMA ReadInStep ==
    ASSUME Lfs!LfsReadAssumption, LfsInv, NEW st \in Nat, NEW et \in Nat, NEW opt \in {0, 1, 2},
           NEW t_offset \in Nat, Lfs!lfs_read_in(st, et, opt, t_offset)
    PROVE  LfsInv' /\ SearchNarrows'
<1>1. LogSound /\ LfsTypes
    BY DEF LfsInv
<1>2. /\ lfs.pc \in {"open", "done"} /\ t_offset <= st /\ t_offset <= et /\ range' = Lfs!Whole(lfs)
      /\ log' = log /\ block' = [at |-> 0, off |-> 0, next |-> 1] /\ out' = <<>>
    BY DEF Lfs!lfs_read_in, Lfs!Unread
<1>3. lfs \in LfsRec /\ lfs.known \in DOMAIN log
    BY <1>1, <1>2 DEF LfsTypes
<1>4. /\ lfs.known \in Nat /\ lfs.known >= 1 /\ Lfs!ft \in Nat /\ Lfs!lt \in Nat
      /\ \A n \in 1 .. lfs.known : log[n].t \in Nat /\ Lfs!ft <= log[n].t /\ log[n].off \in Nat
    BY <1>1, <1>3, KnownFacts
<1>5. log \in Seq(LogLine) /\ Len(log) \in Nat
    <2>1. log \in Seq(LogLine)
        BY <1>1 DEF LogSound
    <2> QED BY <2>1
<1>6. PICK from \in Nat : from = CASE opt = 1 -> Lfs!ft [] opt = 2 -> Lfs!lt [] opt = 0 -> st - t_offset
    <2>1. st - t_offset \in Nat
        BY <1>2
    <2>2. opt = 1 \/ opt = 2 \/ opt = 0
        OBVIOUS
    <2> QED BY <1>4, <2>1, <2>2
<1>7. PICK to \in Nat : to = IF opt = 0 THEN et - t_offset ELSE from + 1
    <2>1. et - t_offset \in Nat /\ from + 1 \in Nat
        BY <1>2
    <2> QED BY <2>1
<1>8. PICK by \in Nat : by = IF opt = 0 THEN t_offset ELSE 0
    OBVIOUS
<1>13. PICK all \in BOOLEAN : all = (opt # 0)
    OBVIOUS
<1>9. PICK l \in LfsRec :
          /\ l = [pc |-> "from", known |-> lfs.known, from |-> from, to |-> to, t_offset |-> by,
                  all |-> all, soff |-> 0, eoff |-> 0]
          /\ l.known = lfs.known /\ l.from = from /\ l.to = to /\ l.pc = "from"
    <2> DEFINE new == [pc |-> "from", known |-> lfs.known, from |-> from, to |-> to, t_offset |-> by,
                       all |-> all, soff |-> 0, eoff |-> 0]
    <2>1. new \in LfsRec
        BY <1>4 DEF LfsRec
    <2>2. new.known = lfs.known /\ new.from = from /\ new.to = to /\ new.pc = "from"
        OBVIOUS
    <2> HIDE DEF new
    <2>3. PICK l \in LfsRec : l = new
        BY <2>1
    <2> QED BY <2>2, <2>3 DEF new
<1>10. lfs' = IF from < Lfs!ft THEN Lfs!WithStart(l, 0) ELSE l
    BY <1>6, <1>7, <1>8, <1>9, <1>13 DEF Lfs!lfs_read_in
<1>11. CASE from < Lfs!ft
    <2>1. \E n \in 1 .. lfs.known : 0 = log[n].off
        <3>1. log # <<>> /\ 1 \in 1 .. lfs.known
            BY <1>3, <1>4
        <3>2. log[1].off = 0
            BY <1>1, <3>1 DEF LogSound
        <3> QED BY <3>1, <3>2
    <2>2. \A n \in 1 .. lfs.known : 0 <= log[n].off <=> l.from <= log[n].t
        BY <1>4, <1>9, <1>11
    <2>3. block' \in BlockRec /\ block'.next <= Len(log) + 1
        BY <1>2, <1>5 DEF BlockRec
    <2>4. lfs' = Lfs!WithStart(l, 0)
        BY <1>10, <1>11
    <2>5. PICK soff \in Int : soff = 0
        OBVIOUS
    <2>6. /\ \E n \in 1 .. lfs.known : soff = log[n].off
          /\ \A n \in 1 .. lfs.known : soff <= log[n].off <=> l.from <= log[n].t
          /\ lfs' = Lfs!WithStart(l, soff)
        BY <2>1, <2>2, <2>4, <2>5
    <2> QED BY <1>1, <1>2, <1>3, <1>9, <2>3, <2>6, StartIsFound
<1>12. CASE ~ (from < Lfs!ft)
    <2>1. lfs' = l /\ lfs'.pc = "from" /\ lfs'.known = lfs.known /\ lfs'.from = from
        BY <1>9, <1>10, <1>12
    <2>2. LogSound' /\ Lfs!ft' = Lfs!ft
        BY <1>1, <1>2, <2>1 DEF LogSound, Lfs!LogSize, Lfs!Start, Lfs!End, Lfs!ft
    <2>3. range' = [lo |-> 1, hi |-> lfs.known, count |-> 0]
        BY <1>2 DEF Lfs!Whole
    <2>4. LfsTypes'
        <3>1. block' \in BlockRec /\ block'.next <= Len(log) + 1
            BY <1>2, <1>5 DEF BlockRec
        <3>2. range' \in [lo : Nat, hi : Nat, count : Nat]
            BY <1>4, <2>3
        <3>3. out' \in Seq(OutRec)
            BY <1>2
        <3> QED BY <1>2, <1>3, <1>9, <2>1, <3>1, <3>2, <3>3 DEF LfsTypes
    <2>5. SearchSound' /\ SearchNarrows'
        BY <1>4, <1>12, <2>1, <2>2, <2>3 DEF SearchSound, SearchNarrows
    <2> QED BY <1>2, <2>1, <2>2, <2>4, <2>5 DEF LfsInv, StartFound, EndFound, BlockSound,
               NothingOut,
            Lfs!WrittenInOrder, Lfs!ReadToEnd, Ranged
<1> QED BY <1>11, <1>12

-----------------------------------------------------------------------------
\* What a step keeps that leaves the log and the range as they are.
LEMMA RangeStays ==
    ASSUME Lfs!LfsReadAssumption, LfsInv, lfs.pc \in Ranged, NEW step \in Ranged,
           lfs' = [lfs EXCEPT !.pc = step], log' = log, range' = range
    PROVE  /\ lfs' \in LfsRec /\ lfs'.pc = step /\ lfs'.known = lfs.known /\ lfs'.to = lfs.to
           /\ lfs'.from = lfs.from /\ lfs'.soff = lfs.soff /\ lfs'.eoff = lfs.eoff
           /\ lfs'.all = lfs.all
           /\ lfs'.t_offset = lfs.t_offset
           /\ LogSound' /\ StartFound' /\ SearchSound' /\ SearchNarrows' /\ EndFound'
           /\ Lfs!lt' = Lfs!lt /\ lfs.known \in DOMAIN log /\ Lfs!LogSize' = Lfs!LogSize
           /\ \A n : (Lfs!InRange(n)' <=> Lfs!InRange(n)) /\ (Lfs!Wanted(n)' <=> Lfs!Wanted(n))
           /\ \A n : Lfs!Start(n)' = Lfs!Start(n) /\ Lfs!End(n)' = Lfs!End(n)
<1>1. LogSound /\ LfsTypes /\ StartFound /\ EndFound
    BY DEF LfsInv
<1>2. lfs \in LfsRec /\ lfs.known \in DOMAIN log
    BY <1>1 DEF LfsTypes, Ranged
<1>3. /\ lfs' \in LfsRec /\ lfs'.pc = step /\ lfs'.known = lfs.known /\ lfs'.to = lfs.to
      /\ lfs'.from = lfs.from /\ lfs'.soff = lfs.soff /\ lfs'.eoff = lfs.eoff /\ lfs'.all = lfs.all
      /\ lfs'.t_offset = lfs.t_offset
    BY <1>2 DEF LfsRec, Ranged
<1>4. /\ \A n : Lfs!Start(n)' = Lfs!Start(n) /\ Lfs!End(n)' = Lfs!End(n)
      /\ Lfs!LogSize' = Lfs!LogSize /\ Lfs!lt' = Lfs!lt /\ Lfs!FileSize' = Lfs!FileSize
    BY <1>3 DEF Lfs!Start, Lfs!End, Lfs!LogSize, Lfs!lt, Lfs!FileSize
<1>5. LogSound'
    BY <1>1, <1>4 DEF LogSound
<1>6. StartFound'
    BY <1>1, <1>3 DEF StartFound
<1>7. EndFound'
    BY <1>1, <1>3, <1>4 DEF EndFound
<1>8. SearchSound' /\ SearchNarrows'
    BY <1>3 DEF SearchSound, SearchNarrows, Lfs!Searches, Ranged
<1>9. \A n : (Lfs!InRange(n)' <=> Lfs!InRange(n)) /\ (Lfs!Wanted(n)' <=> Lfs!Wanted(n))
    BY <1>3 DEF Lfs!InRange, Lfs!Wanted
<1> QED BY <1>2, <1>3, <1>4, <1>5, <1>6, <1>7, <1>8, <1>9

\* The reading of a range begins with its first line.
LEMMA Filter2Step ==
    ASSUME Lfs!LfsReadAssumption, LfsInv, Lfs!filter2
    PROVE  LfsInv' /\ SearchNarrows'
<1>1. LogSound /\ LfsTypes /\ StartFound /\ NothingOut
    BY DEF LfsInv
<1>2. lfs.pc = "range" /\ log' = log /\ range' = range /\ out' = out /\ out = <<>>
    BY <1>1 DEF Lfs!filter2, NothingOut
<1>3. PICK step \in {"blocks", "done"} : step = IF lfs.soff < lfs.eoff THEN "blocks" ELSE "done"
    OBVIOUS
<1>4. lfs' = [lfs EXCEPT !.pc = step]
    BY <1>3 DEF Lfs!filter2
<1>5. PICK n \in 1 .. Len(log) + 1 : /\ Lfs!Start(n) = lfs.soff \/ lfs.soff >= lfs.eoff
                                     /\ block' = [at |-> lfs.soff, off |-> lfs.soff, next |-> n]
    BY DEF Lfs!filter2
<1>6. /\ lfs' \in LfsRec /\ lfs'.pc = step /\ lfs'.known = lfs.known
      /\ lfs'.soff = lfs.soff /\ lfs'.eoff = lfs.eoff
      /\ LogSound' /\ StartFound' /\ SearchSound' /\ SearchNarrows' /\ EndFound'
      /\ lfs.known \in DOMAIN log /\ Lfs!LogSize' = Lfs!LogSize
      /\ \A m : (Lfs!InRange(m)' <=> Lfs!InRange(m)) /\ (Lfs!Wanted(m)' <=> Lfs!Wanted(m))
      /\ \A m : Lfs!Start(m)' = Lfs!Start(m) /\ Lfs!End(m)' = Lfs!End(m)
    BY <1>2, <1>3, <1>4, RangeStays DEF Ranged
<1>7. /\ Len(log) \in Nat
      /\ \A m \in 1 .. Len(log) + 1 : /\ Lfs!Start(m) \in Nat /\ Lfs!Start(m) <= Lfs!LogSize
                                      /\ m \in DOMAIN log => Lfs!Start(m) = log[m].off /\ Lfs!Start(m) < Lfs!End(m)
                                            /\ Lfs!End(m) = Lfs!Start(m + 1)
                                            /\ m + 1 \in 1 .. Len(log) + 1
      /\ \A k, m \in 1 .. Len(log) + 1 : k <= m => Lfs!Start(k) <= Lfs!Start(m)
    BY <1>1, StartFacts
<1>8. lfs.soff \in Int /\ lfs.eoff \in Int
    BY <1>1 DEF LfsTypes, LfsRec
<1>9. /\ block'.at = lfs.soff /\ block'.off = lfs.soff /\ block'.next = n
      /\ block' \in BlockRec
    BY <1>5, <1>7, <1>8 DEF BlockRec
<1>10. LfsTypes'
    BY <1>1, <1>2, <1>5, <1>6, <1>7, <1>9 DEF LfsTypes
<1>11. NothingOut'
    BY <1>2 DEF NothingOut
<1>12. DOMAIN out = {}
    BY <1>2
<1>13. ASSUME lfs.soff < lfs.eoff, NEW m \in DOMAIN log, Lfs!Wanted(m) PROVE ~ (m < n)
    <2> SUFFICES ASSUME m < n PROVE FALSE
        OBVIOUS
    <2>1. m \in Nat /\ m >= 1 /\ m \in 1 .. Len(log) + 1 /\ log[m].off \in Nat
        BY <1>1, LineFacts
    <2>2. /\ Lfs!Start(m) = log[m].off /\ Lfs!Start(m) < Lfs!End(m)
          /\ Lfs!End(m) = Lfs!Start(m + 1) /\ m + 1 \in 1 .. Len(log) + 1
        BY <1>7, <2>1
    <2>3. m + 1 <= n
        BY <1>5, <2>1
    <2>4. Lfs!Start(m + 1) <= Lfs!Start(n)
        BY <1>7, <2>2, <2>3
    <2>5. lfs.soff <= log[m].off
        BY <1>13 DEF Lfs!Wanted, Lfs!InRange
    <2>6. Lfs!Start(n) = lfs.soff
        BY <1>5, <1>8, <1>13
    <2>7. Lfs!Start(m + 1) \in Nat /\ Lfs!Start(m) \in Nat
        BY <1>7, <2>1, <2>2
    <2> QED BY <1>8, <2>2, <2>4, <2>5, <2>6, <2>7
<1>14. Lfs!WrittenInOrder'
    <2>1. step = "blocks" => \A m \in DOMAIN log' : ~ (Lfs!Wanted(m)' /\ m < block'.next)
        BY <1>2, <1>3, <1>6, <1>9, <1>13
    <2> QED BY <1>2, <1>3, <1>6, <1>12, <2>1 DEF Lfs!WrittenInOrder
<1>15. Lfs!ReadToEnd'
    <2>1. ASSUME step = "done", NEW m \in 1 .. lfs.known PROVE ~ Lfs!InRange(m)
        <3>1. ~ (lfs.soff < lfs.eoff)
            BY <1>3, <2>1
        <3>2. log[m].off \in Nat
            BY <1>1, <1>6, KnownFacts
        <3> QED BY <1>8, <3>1, <3>2 DEF Lfs!InRange
    <2> QED BY <1>6, <2>1 DEF Lfs!ReadToEnd
<1>16. BlockSound'
    <2>1. CASE step = "done"
        BY <1>6, <2>1 DEF BlockSound
    <2>2. CASE step = "blocks"
        <3>1. lfs.soff < lfs.eoff
            BY <1>3, <2>2
        <3>2. Lfs!Start(n) = lfs.soff /\ lfs.soff \in Nat /\ lfs.soff <= Lfs!LogSize
            BY <1>5, <1>7, <1>8, <3>1
        <3>3. Lfs!LogSize \in Nat
            BY <1>1 DEF LogSound
        <3>4. /\ lfs'.soff < lfs'.eoff /\ lfs'.soff <= Lfs!Start(block.next)'
              /\ Lfs!Start(block.next)' <= block'.at
            BY <1>6, <1>9, <3>1, <3>2
        <3>5. block'.at <= Lfs!LogSize' /\ block'.at <= block'.off /\ block'.at <= lfs'.eoff
            BY <1>6, <1>8, <1>9, <3>1, <3>2
        <3>6. ASSUME NEW m \in 1 .. Len(log) + 1 PROVE block'.off <= block'.at + Lfs!Start(m)'
            <4>1. Lfs!Start(m)' = Lfs!Start(m) /\ Lfs!Start(m) \in Nat
                BY <1>6, <1>7
            <4> QED BY <1>9, <3>2, <4>1
        <3> QED BY <1>2, <1>12, <3>4, <3>5, <3>6 DEF BlockSound
    <2> QED BY <1>3, <2>1, <2>2
<1> QED BY <1>6, <1>10, <1>11, <1>14, <1>15, <1>16 DEF LfsInv

-----------------------------------------------------------------------------
\* The lines that are written out.
LEMMA OutfilterStep ==
    ASSUME Lfs!LfsReadAssumption, LfsInv, Lfs!outfilter
    PROVE  LfsInv' /\ SearchNarrows'
<1>1. LogSound /\ LfsTypes /\ BlockSound /\ Lfs!WrittenInOrder
    BY DEF LfsInv
<1>2. /\ lfs.pc = "blocks" /\ log' = log /\ lfs' = lfs /\ range' = range
      /\ block' = [block EXCEPT !.next = block.next + 1]
    BY DEF Lfs!outfilter
<1>3. /\ lfs' = [lfs EXCEPT !.pc = "blocks"]
    BY <1>1, <1>2 DEF LfsTypes, LfsRec
<1>4. /\ LogSound' /\ StartFound' /\ SearchSound' /\ SearchNarrows' /\ EndFound'
      /\ lfs.known \in DOMAIN log /\ Lfs!LogSize' = Lfs!LogSize
      /\ \A m : (Lfs!InRange(m)' <=> Lfs!InRange(m)) /\ (Lfs!Wanted(m)' <=> Lfs!Wanted(m))
      /\ \A m : Lfs!Start(m)' = Lfs!Start(m) /\ Lfs!End(m)' = Lfs!End(m)
    BY <1>2, <1>3, RangeStays DEF Ranged
<1>5. PICK n \in DOMAIN log : n = block.next /\ Lfs!End(n) <= block.at
    BY DEF Lfs!outfilter, Lfs!Buffered
<1>6. /\ n \in Nat /\ n >= 1 /\ n \in 1 .. Len(log) + 1 /\ n + 1 \in 1 .. Len(log) + 1
      /\ Len(log) \in Nat
      /\ Lfs!Start(n) = log[n].off /\ Lfs!End(n) = Lfs!Start(n + 1) /\ Lfs!Start(n) < Lfs!End(n)
      /\ Lfs!Start(n) \in Nat /\ Lfs!Start(n + 1) \in Nat /\ log[n].t \in Nat
      /\ DOMAIN log = 1 .. Len(log)
    <2>1. /\ n \in Nat /\ n >= 1 /\ n <= Len(log) /\ Len(log) \in Nat /\ log[n].t \in Nat
          /\ DOMAIN log = 1 .. Len(log)
        BY <1>1, LineFacts
    <2>2. n \in 1 .. Len(log) + 1
        BY <2>1
    <2> QED BY <1>1, <2>1, <2>2, StartFacts
<1>7. /\ lfs.soff \in Int /\ lfs.eoff \in Int /\ block.at \in Int /\ block.off \in Int
      /\ lfs.t_offset \in Nat
    BY <1>1 DEF LfsTypes, LfsRec, BlockRec
<1>8. /\ block' \in BlockRec /\ block'.at = block.at /\ block'.off = block.off
      /\ block'.next = n + 1
    <2>1. PICK m \in Nat \ {0} : m = n + 1
        BY <1>6
    <2>2. block' = [block EXCEPT !.next = m]
        BY <1>2, <1>5, <2>1
    <2>3. block \in BlockRec
        BY <1>1 DEF LfsTypes
    <2> QED BY <2>1, <2>2, <2>3 DEF BlockRec
<1>9. Lfs!InRange(n)
    BY <1>1, <1>2, <1>5, <1>6, <1>7 DEF BlockSound, Lfs!InRange
<1>10. PICK o \in OutRec : o = [line |-> n, t |-> log[n].t + lfs.t_offset]
    <2>1. PICK t \in Nat : t = log[n].t + lfs.t_offset
        BY <1>6, <1>7
    <2>2. [line |-> n, t |-> t] \in OutRec
        BY <1>6 DEF OutRec
    <2> QED BY <2>1, <2>2
<1>11. o.line = n /\ o.t = log[n].t + lfs.t_offset
    BY <1>10
<1>12. out' = IF Lfs!Wanted(n) THEN Append(out, o) ELSE out
    <2>1. Lfs!Wanted(n) <=> lfs.all \/ log[n].match
        BY <1>9 DEF Lfs!Wanted
    <2> QED BY <1>5, <1>10, <2>1 DEF Lfs!outfilter
<1>13. out \in Seq(OutRec) /\ Len(out) \in Nat /\ DOMAIN out = 1 .. Len(out)
    <2>1. out \in Seq(OutRec)
        BY <1>1 DEF LfsTypes
    <2> QED BY <2>1
<1>14. /\ out' \in Seq(OutRec)
       /\ DOMAIN out' = 1 .. Len(out) + (IF Lfs!Wanted(n) THEN 1 ELSE 0)
       /\ \A k \in DOMAIN out : k \in DOMAIN out' /\ out'[k] = out[k]
       /\ Lfs!Wanted(n) => Len(out) + 1 \in DOMAIN out' /\ out'[Len(out) + 1] = o
    <2>1. CASE Lfs!Wanted(n)
        <3>1. out' = Append(out, o)
            BY <1>12, <2>1
        <3> QED BY <1>13, <2>1, <3>1
    <2>2. CASE ~ Lfs!Wanted(n)
        <3>1. out' = out
            BY <1>12, <2>2
        <3> QED BY <1>13, <2>2, <3>1
    <2> QED BY <2>1, <2>2
<1>15. \A k \in DOMAIN out' : k \in DOMAIN out \/ (k = Len(out) + 1 /\ Lfs!Wanted(n) /\ out'[k] = o)
    BY <1>13, <1>14
<1>16. LfsTypes'
    BY <1>1, <1>2, <1>6, <1>8, <1>14 DEF LfsTypes
<1>17. \A k \in DOMAIN out : out[k].line \in Nat /\ out[k].line < n
    <2> SUFFICES ASSUME NEW k \in DOMAIN out PROVE out[k].line \in Nat /\ out[k].line < n
        OBVIOUS
    <2>1. out[k] \in OutRec
        BY <1>13
    <2>2. out[k].line < n
        BY <1>1, <1>2, <1>5 DEF BlockSound
    <2> QED BY <2>1, <2>2 DEF OutRec
<1>18. \A k \in DOMAIN out' : out'[k].line \in Nat /\ out'[k].line < n + 1
    <2> SUFFICES ASSUME NEW k \in DOMAIN out' PROVE out'[k].line \in Nat /\ out'[k].line < n + 1
        OBVIOUS
    <2>1. CASE k \in DOMAIN out
        <3>1. out'[k] = out[k] /\ out[k].line \in Nat /\ out[k].line < n
            BY <1>14, <1>17, <2>1
        <3> QED BY <1>6, <3>1
    <2>2. CASE out'[k] = o
        BY <1>6, <1>11, <2>2
    <2> QED BY <1>15, <2>1, <2>2
<1>19. BlockSound'
    <2>1. lfs.soff <= Lfs!Start(n + 1) /\ Lfs!Start(n + 1) <= block.at
        BY <1>1, <1>2, <1>5, <1>6, <1>7 DEF BlockSound
    <2>2. lfs'.soff <= Lfs!Start(block.next)' /\ Lfs!Start(block.next)' <= block'.at
        BY <1>2, <1>4, <1>8, <2>1
    <2>3. /\ lfs.soff < lfs.eoff /\ block.at <= Lfs!LogSize /\ block.at <= block.off
          /\ block.at <= lfs.eoff
        BY <1>1, <1>2 DEF BlockSound
    <2>4. ASSUME lfs.eoff = Beyond, NEW m \in 1 .. Len(log) + 1,
                 Lfs!Start(m) <= block.at /\ (m \in DOMAIN log => block.at < Lfs!End(m))
          PROVE  block.off <= block.at + Lfs!Start(m)
        BY <1>1, <1>2, <2>4 DEF BlockSound
    <2> QED BY <1>2, <1>4, <1>8, <1>18, <2>2, <2>3, <2>4 DEF BlockSound
<1>20. Lfs!WrittenInOrder'
    <2>1. ASSUME NEW k \in DOMAIN out'
          PROVE  /\ out'[k].line \in DOMAIN log /\ Lfs!Wanted(out'[k].line)
                 /\ out'[k].t = log[out'[k].line].t + lfs.t_offset
                 /\ \A m \in DOMAIN out' : k < m => out'[k].line < out'[m].line
        <3>1. CASE k \in DOMAIN out
            <4>1. /\ out[k].line \in DOMAIN log /\ Lfs!Wanted(out[k].line)
                  /\ out[k].t = log[out[k].line].t + lfs.t_offset
                  /\ \A m \in DOMAIN out : k < m => out[k].line < out[m].line
                BY <1>1, <1>2, <3>1 DEF Lfs!WrittenInOrder
            <4>2. out'[k] = out[k] /\ out[k].line < n
                BY <1>14, <1>17, <3>1
            <4>3. ASSUME NEW m \in DOMAIN out', k < m PROVE out'[k].line < out'[m].line
                <5>1. CASE m \in DOMAIN out
                    BY <1>14, <4>1, <4>2, <4>3, <5>1
                <5>2. CASE out'[m] = o
                    BY <1>11, <4>2, <5>2
                <5> QED BY <1>15, <5>1, <5>2
            <4> QED BY <4>1, <4>2, <4>3
        <3>2. CASE k = Len(out) + 1 /\ Lfs!Wanted(n) /\ out'[k] = o
            <4>1. \A m \in DOMAIN out' : ~ (k < m)
                BY <1>13, <1>14, <3>2
            <4> QED BY <1>11, <3>2, <4>1
        <3> QED BY <1>15, <3>1, <3>2
    <2>2. ASSUME NEW m \in DOMAIN log, Lfs!Wanted(m), m < n + 1
          PROVE  \E k \in DOMAIN out' : out'[k].line = m
        <3>1. CASE m = n
            BY <1>11, <1>14, <2>2, <3>1
        <3>2. CASE m < n
            <4>1. PICK k \in DOMAIN out : out[k].line = m
                BY <1>1, <1>2, <1>5, <2>2, <3>2 DEF Lfs!WrittenInOrder
            <4> QED BY <1>14, <4>1
        <3> QED BY <1>6, <2>2, <3>1, <3>2
    <2>3. ASSUME NEW k \in DOMAIN out' PROVE Lfs!Wanted(out[k].line)'
        <3>1. PICK m \in DOMAIN log : m = out'[k].line
            BY <2>1
        <3>2. Lfs!Wanted(m)
            BY <2>1, <3>1
        <3>3. Lfs!Wanted(m)'
            BY <1>4, <3>2
        <3> QED BY <3>1, <3>3
    <2> QED BY <1>2, <1>4, <1>8, <2>1, <2>2, <2>3 DEF Lfs!WrittenInOrder
<1>21. NothingOut' /\ Lfs!ReadToEnd'
    BY <1>2 DEF NothingOut, Lfs!ReadToEnd, Lfs!Searches
<1> QED BY <1>4, <1>16, <1>19, <1>20, <1>21 DEF LfsInv

\* When the range has no end, a block reaches the end of a line that was cut.
LEMMA ToReadFacts ==
    ASSUME Lfs!LfsReadAssumption, LogSound, block \in BlockRec, lfs.eoff = Beyond,
           block.next \in DOMAIN log, Lfs!Start(block.next) <= block.at, block.at < Lfs!End(block.next),
           block.at <= block.off, block.off <= block.at + Lfs!Start(block.next)
    PROVE  Lfs!ToRead(block.at - Lfs!Start(block.next)) >= Lfs!End(block.next) - block.at
<1> DEFINE n == block.next
           rest == block.at - Lfs!Start(n)
           pad == IF block.off % Sector = 0 THEN 0 ELSE Sector - (block.off % Sector)
<1>1. /\ Lfs!Start(n) = log[n].off /\ log[n].off \in Nat /\ log[n].len \in Nat
      /\ Lfs!End(n) = log[n].off + log[n].len /\ Lfs!End(n) <= Lfs!LogSize /\ Lfs!LogSize \in Nat
      /\ log[n].len + Sector < BULK_BUF_SIZE
    <2>1. n \in 1 .. Len(log) + 1 /\ n + 1 \in 1 .. Len(log) + 1
        BY LineFacts
    <2>2. Lfs!End(n) = Lfs!Start(n + 1) /\ Lfs!Start(n + 1) <= Lfs!LogSize /\ Lfs!Start(n) = log[n].off
        BY <2>1, StartFacts
    <2> QED BY <2>2, LineFacts DEF LogSound
<1>2. block.at \in Nat /\ block.off \in Nat /\ rest \in Nat
    BY <1>1 DEF BlockRec
<1>3. Sector \in Nat \ {0} /\ BULK_BUF_SIZE \in Nat /\ Beyond \in Nat /\ MaxSize \in Nat
      /\ 2 * MaxSize + BULK_BUF_SIZE < Beyond /\ Lfs!LogSize <= MaxSize
    BY LenFacts DEF LogSound
<1>4. pad \in Nat /\ pad < Sector
    BY <1>2, <1>3
<1>5. BULK_BUF_SIZE - rest - 1 < Beyond - block.off
    BY <1>1, <1>2, <1>3
<1>6. Lfs!ToRead(rest) = BULK_BUF_SIZE - rest - 1 - pad
    BY <1>5 DEF Lfs!ToRead
<1> HIDE DEF pad
<1>7. Lfs!ToRead(rest) >= Lfs!End(n) - block.at
    BY <1>1, <1>2, <1>3, <1>4, <1>6
<1> QED BY <1>7

\* The file is read up to a byte before the end of the range, or to its end.
LEMMA ReadBlockStep ==
    ASSUME Lfs!LfsReadAssumption, LfsInv, Lfs!ReadBlock
    PROVE  LfsInv' /\ SearchNarrows'
<1> DEFINE n == block.next
           rest == block.at - Lfs!Start(n)
           toRead == Lfs!ToRead(rest)
           len == IF toRead < Lfs!LogSize - block.at THEN toRead ELSE Lfs!LogSize - block.at
<1>1. LogSound /\ LfsTypes /\ BlockSound /\ Lfs!WrittenInOrder
    BY DEF LfsInv
<1>2. lfs.pc = "blocks" /\ ~ Lfs!Buffered(n) /\ log' = log /\ range' = range
    BY DEF Lfs!ReadBlock
<1>3. lfs \in LfsRec /\ block \in BlockRec /\ n \in 1 .. Len(log) + 1 /\ Len(log) \in Nat
    <2>1. log \in Seq(LogLine)
        BY <1>1 DEF LogSound
    <2> QED BY <1>1, <2>1 DEF LfsTypes, BlockRec
<1>4. /\ Lfs!Start(n) \in Nat /\ Lfs!LogSize \in Nat /\ Lfs!LogSize <= MaxSize /\ MaxSize \in Nat
      /\ Beyond \in Nat
      /\ BULK_BUF_SIZE \in Nat /\ 2 * MaxSize + BULK_BUF_SIZE < Beyond
      /\ block.at \in Nat /\ block.off \in Nat /\ rest \in Nat
      /\ lfs.soff \in Int /\ lfs.eoff \in Int
      /\ Sector \in Nat \ {0}
    <2>1. Lfs!Start(n) \in Nat /\ Lfs!LogSize \in Nat /\ Lfs!LogSize <= MaxSize
        BY <1>1, <1>3, StartFacts DEF LogSound
    <2>2. Lfs!Start(n) <= block.at /\ block.at <= block.off
        BY <1>1, <1>2 DEF BlockSound
    <2>3. block.at \in Int /\ block.off \in Int /\ lfs.soff \in Int /\ lfs.eoff \in Int
        BY <1>3 DEF BlockRec, LfsRec
    <2> QED BY <2>1, <2>2, <2>3, LenFacts
<1>5. /\ lfs.soff < lfs.eoff /\ lfs.soff <= Lfs!Start(n) /\ Lfs!Start(n) <= block.at
      /\ block.at <= Lfs!LogSize /\ block.at <= block.off /\ block.at <= lfs.eoff
      /\ \A k \in DOMAIN out : out[k].line < n
      /\ n \in DOMAIN log => block.at < Lfs!End(n)
      /\ lfs.eoff = Beyond => block.off <= block.at + Lfs!Start(n)
    <2>1. n \in DOMAIN log => ~ (Lfs!End(n) <= block.at)
        BY <1>2 DEF Lfs!Buffered
    <2>2. n \in DOMAIN log => Lfs!End(n) \in Int
        BY <1>1, LineFacts
    <2>3. n \in DOMAIN log => block.at < Lfs!End(n)
        BY <1>4, <2>1, <2>2
    <2>4. Lfs!Start(n) <= block.at
        BY <1>1, <1>2 DEF BlockSound
    <2> QED BY <1>1, <1>2, <1>3, <2>3, <2>4 DEF BlockSound
<1>6. /\ n \notin DOMAIN log => Lfs!Start(n) = Lfs!LogSize
      /\ n \notin DOMAIN log => n = Len(log) + 1
      /\ n \in DOMAIN log => Lfs!End(n) <= Lfs!LogSize /\ Lfs!End(n) \in Int
                             /\ Lfs!End(n) = Lfs!Start(n + 1) /\ n + 1 \in 1 .. Len(log) + 1
    <2>1. \A m \in 1 .. Len(log) + 1 : Lfs!Start(m) <= Lfs!LogSize
        BY <1>1, StartFacts
    <2>2. n \in DOMAIN log => Lfs!End(n) = Lfs!Start(n + 1) /\ n + 1 \in 1 .. Len(log) + 1
        BY <1>1, <1>3, StartFacts
    <2>3. n \in DOMAIN log => Lfs!End(n) \in Int
        BY <1>1, LineFacts
    <2>4. n \notin DOMAIN log => n = Len(log) + 1 /\ Lfs!Start(n) = Lfs!LogSize
        BY <1>1, <1>3, StartFacts
    <2> QED BY <2>1, <2>2, <2>3, <2>4
<1>7. toRead \in Int /\ toRead <= lfs.eoff - block.off /\ len \in Int
    <2>1. block.off % Sector \in 0 .. Sector - 1
        BY <1>4
    <2>2. toRead \in Int /\ toRead <= lfs.eoff - block.off
        BY <1>4, <2>1 DEF Lfs!ToRead
    <2> HIDE DEF toRead
    <2> QED BY <1>4, <2>2
<1>8. lfs.eoff = Beyond /\ n \in DOMAIN log => toRead >= Lfs!End(n) - block.at
    BY <1>1, <1>3, <1>5, ToReadFacts
<1> HIDE DEF toRead
<1>9. CASE /\ block.off < lfs.eoff /\ len > 0
           /\ block' = [block EXCEPT !.at = @ + len, !.off = @ + rest + len]
           /\ UNCHANGED <<lfs, out>>
    <2>1. /\ LogSound' /\ StartFound' /\ SearchSound' /\ SearchNarrows' /\ EndFound'
          /\ Lfs!LogSize' = Lfs!LogSize
          /\ \A m : (Lfs!InRange(m)' <=> Lfs!InRange(m)) /\ (Lfs!Wanted(m)' <=> Lfs!Wanted(m))
          /\ \A m : Lfs!Start(m)' = Lfs!Start(m) /\ Lfs!End(m)' = Lfs!End(m)
        <3>1. lfs' = [lfs EXCEPT !.pc = "blocks"]
            BY <1>2, <1>3, <1>9 DEF LfsRec
        <3> QED BY <1>2, <3>1, RangeStays DEF Ranged
    <2>2. PICK at \in Int, off \in Int : at = block.at + len /\ off = block.off + rest + len
        BY <1>4, <1>7
    <2>3. block' = [block EXCEPT !.at = at, !.off = off]
        BY <1>9, <2>2
    <2>4. block'.at = at /\ block'.off = off /\ block'.next = n /\ block' \in BlockRec
        BY <1>3, <2>3 DEF BlockRec
    <2>5. LfsTypes'
        BY <1>1, <1>2, <1>9, <2>4 DEF LfsTypes
    <2>6. len > 0 /\ len <= Lfs!LogSize - block.at /\ len <= toRead /\ (len = toRead \/ len = Lfs!LogSize - block.at)
        BY <1>4, <1>7, <1>9
    <2> HIDE DEF len
    <2>7. at <= Lfs!LogSize /\ at <= lfs.eoff /\ at <= off /\ Lfs!Start(n) <= at
        BY <1>4, <1>5, <1>7, <2>2, <2>6
    <2>8. ASSUME lfs.eoff = Beyond, NEW m \in 1 .. Len(log) + 1,
                 Lfs!Start(m) <= at, m \in DOMAIN log => at < Lfs!End(m)
          PROVE  off <= at + Lfs!Start(m)
        <3>1. Lfs!Start(m) \in Nat /\ Lfs!Start(m) <= Lfs!LogSize
            BY <1>1, StartFacts
        <3>2. n \in DOMAIN log
            <4>1. n \notin DOMAIN log => Lfs!LogSize - block.at <= 0
                BY <1>4, <1>5, <1>6
            <4> QED BY <1>4, <1>7, <2>6, <4>1
        <3>3. block.at <= Lfs!Start(m)
            <4>1. CASE len = Lfs!LogSize - block.at
                <5>1. at = Lfs!LogSize
                    <6>1. at = block.at + len
                        BY <2>2
                    <6>2. block.at \in Nat /\ Lfs!LogSize \in Nat
                        BY <1>4
                    <6> QED BY <4>1, <6>1, <6>2
                <5>2. m \notin DOMAIN log
                    <6> SUFFICES ASSUME m \in DOMAIN log PROVE FALSE
                        OBVIOUS
                    <6>1. Lfs!End(m) = Lfs!Start(m + 1) /\ m + 1 \in 1 .. Len(log) + 1
                        BY <1>1, StartFacts
                    <6>2. Lfs!Start(m + 1) \in Nat /\ Lfs!Start(m + 1) <= Lfs!LogSize
                        BY <1>1, <6>1, StartFacts
                    <6> QED BY <1>4, <2>8, <5>1, <6>1, <6>2
                <5>3. Lfs!Start(m) = Lfs!LogSize
                    BY <1>1, <5>2, StartFacts
                <5> QED BY <1>5, <5>3
            <4>2. CASE len = toRead
                <5>1. Lfs!End(n) <= at
                    BY <1>4, <1>6, <1>7, <1>8, <2>2, <2>8, <3>2, <4>2
                <5>2. n < m
                    <6> SUFFICES ASSUME m <= n PROVE FALSE
                        BY <1>3
                    <6>1. m \in DOMAIN log
                        BY <1>1, <1>3, <3>2, LineFacts
                    <6>2. /\ Lfs!End(m) = Lfs!Start(m + 1) /\ m + 1 \in 1 .. Len(log) + 1
                          /\ m + 1 <= n + 1
                        BY <1>1, <1>3, <6>1, StartFacts
                    <6>3. Lfs!Start(m + 1) <= Lfs!Start(n + 1) /\ Lfs!Start(m + 1) \in Nat
                        BY <1>1, <1>6, <3>2, <6>2, StartFacts
                    <6> QED BY <1>6, <2>8, <3>2, <5>1, <6>1, <6>2, <6>3
                <5>3. n + 1 <= m
                    BY <1>3, <5>2
                <5>4. Lfs!Start(n + 1) <= Lfs!Start(m)
                    BY <1>1, <1>6, <3>2, <5>3, StartFacts
                <5> QED BY <1>4, <1>5, <1>6, <3>1, <3>2, <5>4
            <4> QED BY <2>6, <4>1, <4>2
        <3>4. block.off <= block.at + Lfs!Start(n)
            BY <1>5, <2>8
        <3>5. /\ off = block.off + (block.at - Lfs!Start(n)) + len /\ at = block.at + len
              /\ len \in Int
            BY <1>7, <2>2
        <3>6. block.at \in Nat /\ block.off \in Nat /\ Lfs!Start(n) \in Nat
            BY <1>4
        <3>7. /\ Lfs!Start(m) \in Nat /\ block.at <= Lfs!Start(m)
              /\ block.off <= block.at + Lfs!Start(n)
              /\ off = block.off + (block.at - Lfs!Start(n)) + len /\ at = block.at + len
              /\ len \in Int /\ block.at \in Nat /\ block.off \in Nat /\ Lfs!Start(n) \in Nat
            BY <3>1, <3>3, <3>4, <3>5, <3>6
        <3>8. PICK s \in Nat, t \in Nat, a \in Nat, b \in Nat, c \in Int :
                  s = Lfs!Start(n) /\ t = Lfs!Start(m) /\ a = block.at /\ b = block.off /\ c = len
            BY <3>7
        <3>9. a <= t /\ b <= a + s /\ off = b + (a - s) + c /\ at = a + c
            BY <3>7, <3>8
        <3>10. off <= at + t
            BY <3>9
        <3> QED BY <3>8, <3>10
    <2>9. BlockSound'
        <3>1. lfs'.soff <= Lfs!Start(block.next)' /\ Lfs!Start(block.next)' <= block'.at
            BY <1>5, <1>9, <2>1, <2>4, <2>7
        <3> QED BY <1>2, <1>5, <1>9, <2>1, <2>4, <2>7, <2>8, <3>1 DEF BlockSound
    <2>10. Lfs!WrittenInOrder'
        <3>1. ASSUME NEW k \in DOMAIN out PROVE Lfs!Wanted(out[k].line)'
            <4>1. PICK m \in DOMAIN log : m = out[k].line /\ Lfs!Wanted(m)
                BY <1>1, <1>2 DEF Lfs!WrittenInOrder
            <4>2. Lfs!Wanted(m)'
                BY <2>1, <4>1
            <4> QED BY <1>9, <4>1, <4>2
        <3> QED BY <1>1, <1>2, <1>9, <2>1, <2>4, <3>1 DEF Lfs!WrittenInOrder
    <2>11. NothingOut' /\ Lfs!ReadToEnd'
        BY <1>2, <1>9 DEF NothingOut, Lfs!ReadToEnd, Lfs!Searches
    <2> QED BY <2>1, <2>5, <2>9, <2>10, <2>11 DEF LfsInv
<1>10. CASE /\ block.off >= lfs.eoff \/ len <= 0
            /\ lfs' = [lfs EXCEPT !.pc = "done"]
            /\ out' \in {out, <<>>}
            /\ UNCHANGED block
    <2>1. /\ lfs' \in LfsRec /\ lfs'.pc = "done" /\ lfs'.known = lfs.known /\ lfs'.to = lfs.to
          /\ lfs'.t_offset = lfs.t_offset /\ lfs'.eoff = lfs.eoff
          /\ LogSound' /\ StartFound' /\ SearchSound' /\ SearchNarrows' /\ EndFound'
          /\ Lfs!lt' = Lfs!lt /\ lfs.known \in DOMAIN log
          /\ \A m : (Lfs!InRange(m)' <=> Lfs!InRange(m)) /\ (Lfs!Wanted(m)' <=> Lfs!Wanted(m))
        BY <1>2, <1>10, RangeStays DEF Ranged
    <2>2. LfsTypes'
        <3>1. out' \in Seq(OutRec)
            <4>1. out \in Seq(OutRec)
                BY <1>1 DEF LfsTypes
            <4>2. out' = out \/ out' = <<>>
                BY <1>10
            <4>3. CASE out' = out
                BY <4>1, <4>3
            <4>4. CASE out' = <<>>
                BY <4>4
            <4> QED BY <4>2, <4>3, <4>4
        <3> QED BY <1>1, <1>2, <1>10, <2>1, <3>1 DEF LfsTypes
    <2>3. BlockSound' /\ NothingOut'
        BY <2>1 DEF BlockSound, NothingOut, Lfs!Searches
    <2>4. Lfs!WrittenInOrder'
        <3>1. CASE out' = <<>>
            <4>1. DOMAIN out' = {}
                BY <3>1
            <4> QED BY <2>1, <3>1, <4>1 DEF Lfs!WrittenInOrder
        <3>2. CASE out' = out
            <4>1. ASSUME NEW k \in DOMAIN out PROVE Lfs!Wanted(out[k].line)'
                <5>1. PICK m \in DOMAIN log : m = out[k].line /\ Lfs!Wanted(m)
                    BY <1>1, <1>2 DEF Lfs!WrittenInOrder
                <5>2. Lfs!Wanted(m)'
                    BY <2>1, <5>1
                <5> QED BY <3>2, <5>1, <5>2
            <4> QED BY <1>1, <1>2, <1>10, <2>1, <3>2, <4>1 DEF Lfs!WrittenInOrder
        <3> QED BY <1>10, <3>1, <3>2
    <2>5. Lfs!ReadToEnd'
        <3> SUFFICES ASSUME lfs.to > Lfs!lt PROVE \A m \in 1 .. lfs.known : m < n
            BY <1>10, <2>1 DEF Lfs!ReadToEnd
        <3>1. lfs.eoff = Beyond
            BY <1>2 DEF LfsInv, EndFound, Ranged
        <3>2. block.off <= block.at + Lfs!Start(n) /\ block.off < lfs.eoff
            BY <1>4, <1>5, <3>1
        <3>3. len <= 0
            BY <1>4, <1>10, <3>2
        <3>4. n \notin DOMAIN log
            <4> SUFFICES ASSUME n \in DOMAIN log PROVE FALSE
                OBVIOUS
            <4>1. /\ toRead >= Lfs!End(n) - block.at /\ block.at < Lfs!End(n)
                  /\ Lfs!End(n) <= Lfs!LogSize /\ Lfs!End(n) \in Int
                BY <1>5, <1>6, <1>8, <3>1
            <4>2. toRead > 0 /\ Lfs!LogSize - block.at > 0
                BY <1>4, <1>7, <4>1
            <4> QED BY <1>4, <1>7, <3>3, <4>2
        <3>5. n = Len(log) + 1
            BY <1>6, <3>4
        <3>6. lfs.known \in Nat /\ lfs.known <= Len(log)
            BY <1>1, <2>1, LineFacts
        <3> QED BY <1>3, <3>5, <3>6
    <2> QED BY <2>1, <2>2, <2>3, <2>4, <2>5 DEF LfsInv
<1> QED BY <1>9, <1>10 DEF Lfs!ReadBlock, toRead

-----------------------------------------------------------------------------
\* Every step keeps the invariant, and searches that narrow if lines are short.
LEMMA LfsInvStep ==
    ASSUME Lfs!LfsReadAssumption, LfsInv, [Lfs!Next]_(Lfs!vars)
    PROVE  LfsInv' /\ (Lfs!ShortLines /\ SearchNarrows => SearchNarrows')
<1>1. CASE UNCHANGED Lfs!vars
    <2>1. log' = log /\ lfs' = lfs /\ range' = range /\ block' = block /\ out' = out
        BY <1>1 DEF Lfs!vars
    <2>2. LogSound' /\ LfsTypes' /\ StartFound' /\ SearchSound'
        BY <2>1 DEF LfsInv, LogSound, Lfs!LogSize, Lfs!Start, Lfs!End, LfsTypes, StartFound,
           SearchSound, Lfs!Sought, Lfs!ft, Lfs!lt
    <2>3. EndFound' /\ BlockSound' /\ NothingOut' /\ Lfs!WrittenInOrder' /\ Lfs!ReadToEnd'
        BY <2>1 DEF LfsInv, EndFound, Lfs!lt, Lfs!FileSize, Lfs!End, BlockSound, Lfs!Start,
           Lfs!LogSize, NothingOut, Lfs!WrittenInOrder,
           Lfs!Wanted, Lfs!InRange, Lfs!ReadToEnd
    <2> QED BY <2>1, <2>2, <2>3 DEF LfsInv, SearchNarrows
<1>2. ASSUME NEW w \in Writes, Lfs!lfs_write_out(w)
      PROVE  LfsInv' /\ (SearchNarrows => SearchNarrows')
    <2>1. LfsInv'
        BY <1>2, LfsWriteStep
    <2>2. lfs' = lfs /\ range' = range
        BY <1>2 DEF Lfs!lfs_write_out
    <2> QED BY <2>1, <2>2 DEF SearchNarrows
<1>3. CASE Lfs!lfs_read_open \/ Lfs!lfs_read_close
    BY <1>3, LfsIdleStep
<1>4. ASSUME NEW st \in Times, NEW et \in Times, NEW t_offset \in Offsets,
             Lfs!lfs_read_in(st, et, 0, t_offset)
      PROVE  LfsInv' /\ SearchNarrows'
    <2>1. st \in Nat /\ et \in Nat /\ t_offset \in Nat /\ 0 \in {0, 1, 2}
        BY DEF Lfs!LfsReadAssumption
    <2> QED BY <1>4, <2>1, ReadInStep
<1>5. ASSUME NEW opt \in {1, 2}, Lfs!lfs_read_in(0, 0, opt, 0)
      PROVE  LfsInv' /\ SearchNarrows'
    <2>1. 0 \in Nat /\ opt \in {0, 1, 2}
        OBVIOUS
    <2> QED BY <1>5, <2>1, ReadInStep
<1>6. CASE Lfs!Seek
    BY <1>6, SeekStep
<1>7. CASE Lfs!filter2
    BY <1>7, Filter2Step
<1>8. CASE Lfs!outfilter
    BY <1>8, OutfilterStep
<1>9. CASE Lfs!ReadBlock
    BY <1>9, ReadBlockStep
<1> QED BY <1>1, <1>2, <1>3, <1>4, <1>5, <1>6, <1>7, <1>8, <1>9 DEF Lfs!Next

\* The range lies between where its first and its last line were found.
LEMMA RangeIsRight ==
    ASSUME Lfs!LfsReadAssumption, LfsInv
    PROVE  Lfs!RangeHolds
<1> SUFFICES ASSUME lfs.pc \in Ranged, NEW n \in DOMAIN log
             PROVE  /\ n <= lfs.known /\ lfs.from <= log[n].t /\ log[n].t <= lfs.to => Lfs!InRange(n)
                    /\ Lfs!InRange(n) => /\ lfs.from <= log[n].t
                                     /\ \/ log[n].t <= lfs.to
                                        \/ n = lfs.known
                                        \/ n > lfs.known /\ lfs.to > Lfs!lt
    BY DEF Lfs!RangeHolds, Ranged
<1>1. LogSound /\ lfs \in LfsRec /\ lfs.known \in DOMAIN log /\ StartFound /\ EndFound
    BY DEF LfsInv, LfsTypes, Ranged
<1>2. /\ lfs.known \in Nat /\ Lfs!lt \in Nat /\ Lfs!FileSize \in Nat /\ Lfs!FileSize <= Lfs!LogSize
      /\ Lfs!FileSize < Beyond
      /\ \A m \in 1 .. lfs.known : m \in DOMAIN log /\ log[m].t \in Nat /\ log[m].off \in Nat
    BY <1>1, KnownFacts
<1>3. n \in Nat /\ n >= 1 /\ log[n].t \in Nat /\ log[n].off \in Nat
    BY <1>1, LineFacts
<1>4. /\ lfs.from \in Nat /\ lfs.to \in Nat /\ lfs.soff \in Int /\ lfs.eoff \in Int
      /\ Beyond \in Nat
    BY <1>1, LenFacts DEF LfsRec
<1>5. CASE n <= lfs.known
    <2>1. n \in 1 .. lfs.known
        BY <1>2, <1>3, <1>5
    <2>2. lfs.soff <= log[n].off <=> lfs.from <= log[n].t
        BY <1>1, <2>1 DEF StartFound
    <2>3. /\ log[n].t <= lfs.to => log[n].off < lfs.eoff
          /\ log[n].off < lfs.eoff => log[n].t <= lfs.to \/ n = lfs.known
        BY <1>1, <2>1 DEF EndFound
    <2> QED BY <1>5, <2>2, <2>3 DEF Lfs!InRange
<1>6. CASE n > lfs.known
    <2> SUFFICES ASSUME Lfs!InRange(n) PROVE lfs.from <= log[n].t /\ lfs.to > Lfs!lt
        BY <1>2, <1>3, <1>6
    <2>1. lfs.soff <= log[n].off /\ log[n].off < lfs.eoff
        BY DEF Lfs!InRange
    <2>2. Lfs!FileSize <= log[n].off
        BY <1>1, <1>2, <1>3, <1>6, LinesOrdered DEF Lfs!FileSize
    <2>3. lfs.to > Lfs!lt
        <3> SUFFICES ASSUME ~ (lfs.to > Lfs!lt) PROVE FALSE
            OBVIOUS
        <3>1. lfs.eoff <= Lfs!FileSize
            BY <1>1 DEF EndFound
        <3> QED BY <1>2, <1>3, <1>4, <2>1, <2>2, <3>1
    <2>4. log[n].off < Beyond
        <3>1. lfs.eoff = Beyond
            BY <1>1, <2>3 DEF EndFound
        <3> QED BY <2>1, <3>1
    <2>5. PICK m \in 1 .. lfs.known : lfs.soff = log[m].off
        <3>1. lfs.soff # Beyond
            BY <1>3, <1>4, <2>1, <2>4
        <3> QED BY <1>1, <3>1 DEF StartFound
    <2>6. lfs.from <= log[m].t
        <3>1. lfs.soff <= log[m].off
            BY <1>2, <2>5
        <3> QED BY <1>1, <3>1 DEF StartFound
    <2>7. log[m].t < log[n].t /\ log[m].t \in Nat
        <3>1. m \in DOMAIN log /\ m < n /\ log[m].t \in Nat
            BY <1>2, <1>3, <1>6
        <3> QED BY <1>1, <3>1, LinesOrdered
    <2> QED BY <1>3, <1>4, <2>3, <2>6, <2>7
<1> QED BY <1>2, <1>3, <1>5, <1>6

\* A search that narrows is short.
LEMMA SearchIsRight ==
    ASSUME LfsInv, SearchNarrows
    PROVE  Lfs!SearchIsShort
<1> SUFFICES ASSUME lfs.pc \in Lfs!Searches PROVE range.count < lfs.known
    BY DEF Lfs!SearchIsShort
<1>1. range \in [lo : Nat, hi : Nat, count : Nat] /\ lfs.known \in Nat
    BY DEF LfsInv, LfsTypes, LfsRec
<1>2. range.lo <= range.hi /\ range.count + (range.hi - range.lo) < lfs.known
    BY DEF LfsInv, SearchSound, SearchNarrows
<1>3. range.lo \in Nat /\ range.hi \in Nat /\ range.count \in Nat
    BY <1>1
<1> QED BY <1>1, <1>2, <1>3

-----------------------------------------------------------------------------
\* The range that filter1 hands on holds the lines between the two times that
\* were there when the log was opened, and no others but the last line or what
\* was appended behind it, however often the file grows between the reads of
\* the search (filter1, getSeqPosition, getNearSeq of lfs_read.c).
THEOREM RangesHoldTheLines == Lfs!Spec => []Lfs!RangeHolds
<1>1. Lfs!Init => LfsInv
    BY ConstantsAssumption, LfsInvInit
<1>2. LfsInv /\ [Lfs!Next]_(Lfs!vars) => LfsInv'
    BY ConstantsAssumption, LfsInvStep
<1>3. LfsInv => Lfs!RangeHolds
    BY ConstantsAssumption, RangeIsRight
<1> QED BY <1>1, <1>2, <1>3, PTL DEF Lfs!Spec

\* With it a search reads the file less often than it has lines, if half of what
\* is read holds the end of a line: it never comes back to the same range
\* (_getSeqPosition of lfs_read.c, which calls itself).
THEOREM RangesAreFound == ASSUME Lfs!ShortLines PROVE Lfs!Spec => []RangesFound
<1>1. Lfs!Init => LfsInv /\ SearchNarrows
    BY ConstantsAssumption, LfsInvInit
<1>2. LfsInv /\ SearchNarrows /\ [Lfs!Next]_(Lfs!vars) => (LfsInv /\ SearchNarrows)'
    BY ConstantsAssumption, LfsInvStep
<1>3. LfsInv /\ SearchNarrows => RangesFound
    BY ConstantsAssumption, RangeIsRight, SearchIsRight DEF RangesFound, Lfs!RangesFound
<1> QED BY <1>1, <1>2, <1>3, PTL DEF Lfs!Spec

\* What lfs_read_in returns are lines of the range, each whole, once, in order
\* and with its local time, and none in front of the next line is missing; when
\* the end is later than the last line, all lines are read, whatever is appended
\* meanwhile (filter2, outfilter of lfs_read.c).
THEOREM LinesAreWhole == Lfs!Spec => []RangesInWholeLines
<1>1. Lfs!Init => LfsInv
    BY ConstantsAssumption, LfsInvInit
<1>2. LfsInv /\ [Lfs!Next]_(Lfs!vars) => LfsInv'
    BY ConstantsAssumption, LfsInvStep
<1>3. LfsInv => RangesInWholeLines
    BY DEF LfsInv, RangesInWholeLines, Lfs!RangesInWholeLines
<1> QED BY <1>1, <1>2, <1>3, PTL DEF Lfs!Spec

-----------------------------------------------------------------------------
(***************************************************************************)
(* The instances together                                                  *)
(***************************************************************************)

\* What MCPrograms checks is what each of the modules specifies: the instances
\* start as theirs and take their steps, so the theorems above hold of SpecAll.
THEOREM EachOnItsOwn ==
    SpecAll => /\ Spec /\ Contexts!Spec /\ Processes!Spec /\ Memory!Spec /\ Callbacks!Spec
               /\ Lfs!Spec /\ Codecs!Spec
<1>1. InitAll => /\ Init /\ Contexts!Init /\ Processes!Init /\ Memory!Init /\ Callbacks!Init
                 /\ Lfs!Init /\ Codecs!Init
    BY DEF InitAll
<1>2. [NextAll]_allVars => [Next]_vars
    BY DEF NextAll, allVars, TimersInit
<1>3. [NextAll]_allVars => [Contexts!Next]_(Contexts!vars)
    BY DEF NextAll, allVars, ContextsInit, contextVars, Contexts!vars, Contexts!slots
<1>4. [NextAll]_allVars => [Processes!Next]_(Processes!vars)
    BY DEF NextAll, allVars, ProcessesInit, processVars, Processes!vars
<1>5. [NextAll]_allVars => [Memory!Next]_(Memory!vars)
    BY DEF NextAll, allVars, MemoryInit, memoryVars, Memory!vars
<1>6. [NextAll]_allVars => [Callbacks!Next]_(Callbacks!vars)
    BY DEF NextAll, allVars, CallbacksInit, callbackVars, Callbacks!vars
<1>7. [NextAll]_allVars => [Lfs!Next]_(Lfs!vars)
    BY DEF NextAll, allVars, ReadsInit, readVars, Lfs!vars
<1>8. [NextAll]_allVars => [Codecs!Next]_input
    BY DEF NextAll, allVars, CodecsInit
<1> QED BY <1>1, <1>2, <1>3, <1>4, <1>5, <1>6, <1>7, <1>8,
           PTL DEF SpecAll, Spec, Contexts!Spec, Processes!Spec, Memory!Spec, Callbacks!Spec,
                   Lfs!Spec, Codecs!Spec

=============================================================================
