------------------------- MODULE EloopTimeoutProofs -------------------------
(***************************************************************************)
(* Proofs about the timeouts of the event loop, for any number of blocks,  *)
(* handlers, contexts and delays and for a list of any length: the types,  *)
(* the order of the list, the use of the blocks, the length of the sleep,  *)
(* and that list and loop implement the abstract timer set.                *)
(***************************************************************************)
EXTENDS EloopTimeout, TimeoutListTheorems

-----------------------------------------------------------------------------
(* Facts about states of the right type *)

\* The entries of the list have normalised times and blocks of the heap.
LEMMA EntryTimes ==
    ASSUME TypeOK, NEW i \in 1 .. Len(timeout)
    PROVE  timeout[i] \in Entry /\ timeout[i].time \in NormalTime
<1>1. timeout \in Seq(Entry)
    BY DEF TypeOK
<1>2. timeout[i] \in Entry
    BY <1>1, ElementOfSeq
<1> QED BY <1>2 DEF Entry

\* An entry that eloop_register_timeout links is an entry.
LEMMA NewEntry ==
    ASSUME TypeOK, NEW p \in Ptr, NEW d \in Delay, NEW h \in Handler,
           NEW data \in Ctx, NEW user \in Ctx
    PROVE  [ptr |-> p, handler |-> h, eloop_data |-> data, user_data |-> user,
            time |-> After(now, d[1], d[2])] \in Entry
<1>1. d[1] \in Nat /\ d[2] \in Nat
    BY EloopTimeoutAssumption
<1>2. After(now, d[1], d[2]) \in NormalTime
    BY <1>1, AfterIsNormal DEF TypeOK
<1> QED BY <1>2 DEF Entry

\* What eloop_register_timeout does: e is linked where the insertion walk stops.
Links(e) ==
    /\ e.ptr \notin Allocated
    /\ ~ Before(e.time, now)
    /\ timeout' = Insert(timeout, e)
    /\ older' = older \cup {<<f.ptr, e.ptr>> : f \in Pending}
    /\ Pending' = Pending \cup {e}

\* eloop_register_timeout links some entry with a fresh block.
LEMMA RegisterLinks ==
    ASSUME TypeOK, NEW h \in Handler, NEW d \in Delay, NEW data \in Ctx,
           NEW user \in Ctx, eloop_register_timeout(d[1], d[2], h, data, user)
    PROVE  \E e \in Entry : Links(e)
<1>1. timeout \in Seq(Entry) /\ now \in NormalTime
    BY DEF TypeOK
<1>2. PICK p \in Ptr \ Allocated :
          /\ timeout' = Insert(timeout,
                 [ptr |-> p, handler |-> h, eloop_data |-> data,
                  user_data |-> user, time |-> After(now, d[1], d[2])])
          /\ older' = older \cup {<<f.ptr, p>> : f \in Pending}
    BY DEF eloop_register_timeout
<1> DEFINE e == [ptr |-> p, handler |-> h, eloop_data |-> data,
                 user_data |-> user, time |-> After(now, d[1], d[2])]
<1>3. /\ e \in Entry
      /\ e.ptr = p
      /\ e.time = After(now, d[1], d[2])
    BY NewEntry
<1>4. timeout' = Insert(timeout, e)
    BY <1>2
<1>5. ~ Before(e.time, now)
    BY <1>1, <1>3, AfterIsNotBefore, EloopTimeoutAssumption
<1> HIDE DEF e
<1>6. Entries(Insert(timeout, e)) = Pending \cup {e}
    BY <1>1, <1>3, InsertEntries DEF Pending
<1>7. Links(e)
    BY <1>2, <1>3, <1>4, <1>5, <1>6 DEF Links, Pending
<1> QED BY <1>3, <1>7

-----------------------------------------------------------------------------
(* Type correctness *)

\* The initial state is of the right type.
LEMMA TypeInit == Init => TypeOK
<1> SUFFICES ASSUME Init PROVE TypeOK
    OBVIOUS
<1>1. now \in NormalTime
    BY UsecAssumption DEF Init, NormalTime
<1>2. timeout \in Seq(Entry)
    BY DEF Init
<1> QED BY <1>1, <1>2 DEF Init, TypeOK, Places

\* Every step of the loop, of the application and of the clock keeps the types.
LEMMA TypeStep == TypeOK /\ [Next]_vars => TypeOK'
<1> USE DEF stops
<1> SUFFICES ASSUME TypeOK, [Next]_vars PROVE TypeOK'
    OBVIOUS
<1>1. ASSUME NEW h \in Handler, NEW d \in Delay, NEW data \in Ctx, NEW user \in Ctx,
             eloop_register_timeout(d[1], d[2], h, data, user)
      PROVE  TypeOK'
    <2>1. PICK p \in Ptr :
              /\ timeout' = Insert(timeout,
                     [ptr |-> p, handler |-> h, eloop_data |-> data,
                      user_data |-> user, time |-> After(now, d[1], d[2])])
              /\ older' = older \cup {<<f.ptr, p>> : f \in Pending}
        BY <1>1 DEF eloop_register_timeout
    <2>2. timeout' \in Seq(Entry)
        BY <2>1, NewEntry, InsertFacts DEF TypeOK
    <2>3. \A f \in Pending : f.ptr \in Ptr
        BY EntryTimes DEF Pending, Entries, Entry
    <2>4. older' \in SUBSET (Ptr \X Ptr)
        BY <2>1, <2>3 DEF TypeOK
    <2> QED BY <1>1, <2>2, <2>4 DEF eloop_register_timeout, TypeOK
<1>2. ASSUME NEW h \in Handler, NEW data, NEW user,
             eloop_cancel_timeout(h, data, user)
      PROVE  TypeOK'
    <2>1. timeout' \in Seq(Entry)
        BY <1>2, RemainingFacts DEF eloop_cancel_timeout, TypeOK
    <2>2. older' \in SUBSET (Ptr \X Ptr)
        BY <1>2 DEF eloop_cancel_timeout, OlderWithout, TypeOK
    <2> QED BY <1>2, <2>1, <2>2 DEF eloop_cancel_timeout, TypeOK
<1>3. CASE eloop_run
    BY <1>3 DEF eloop_run, TypeOK, Places
<1>11. CASE LoopEnds
    BY <1>11 DEF LoopEnds, TypeOK, Places
<1>12. CASE SelectFails
    BY <1>12 DEF SelectFails, TypeOK, Places
<1>13. CASE eloop_terminate \/ \E set \in BOOLEAN : eloop_tmp_terminate(set)
    BY <1>13 DEF eloop_terminate, eloop_tmp_terminate, TypeOK
<1>4. CASE EnterSelect
    <2>1. deadline' \in NormalTime \cup {NoEntry}
        <3>1. CASE timeout = <<>>
            BY <1>4, <3>1 DEF EnterSelect
        <3>2. CASE timeout # <<>>
            <4>1. 1 \in 1 .. Len(timeout)
                BY <3>2, TailFacts DEF TypeOK
            <4>2. Add(now, Sub(timeout[1].time, now)) = timeout[1].time
                BY <4>1, EntryTimes, AddSub DEF TypeOK
            <4> QED BY <1>4, <3>2, <4>1, <4>2, EntryTimes DEF EnterSelect, TypeOK
        <3> QED BY <3>1, <3>2
    <2> QED BY <1>4, <2>1 DEF EnterSelect, TypeOK, Places
<1>5. CASE SelectTimesOut \/ SelectInterrupted
    BY <1>5 DEF SelectTimesOut, SelectInterrupted, ReturnFromSelect, TypeOK, Places
<1>6. CASE ExpireHead
    <2>1. CASE timeout # <<>> /\ ~ Before(now, timeout[1].time)
        <3>1. Tail(timeout) \in Seq(Entry) /\ 1 \in 1 .. Len(timeout)
            BY <2>1, TailFacts DEF TypeOK
        <3>2. timeout[1] \in Entry /\ timeout[1] # NoEntry
            BY <3>1, EntryTimes, NoEntryAssumption
        <3>3. older' \in SUBSET (Ptr \X Ptr)
            BY <1>6, <2>1 DEF ExpireHead, OlderWithout, TypeOK
        <3> QED BY <1>6, <2>1, <3>1, <3>2, <3>3 DEF ExpireHead, TypeOK, Places
    <2>2. CASE ~ (timeout # <<>> /\ ~ Before(now, timeout[1].time))
        BY <1>6, <2>2 DEF ExpireHead, TypeOK, Places
    <2> QED BY <2>1, <2>2
<1>7. CASE HandlerReturns
    BY <1>7 DEF HandlerReturns, TypeOK, Places
<1>8. CASE Dispatched
    BY <1>8 DEF Dispatched, TypeOK, Places
<1>9. CASE ClockTick
    <2>1. now' \in NormalTime
        BY <1>9, AfterIsNormal DEF ClockTick, TypeOK
    <2> QED BY <1>9, <2>1 DEF ClockTick, TypeOK
<1>10. CASE UNCHANGED vars
    BY <1>10 DEF vars, TypeOK
<1>14. CASE Application
    BY <1>1, <1>2, <1>13, <1>14, EloopTimeoutAssumption DEF Application
<1> QED
    BY <1>3, <1>4, <1>5, <1>6, <1>7, <1>8, <1>9, <1>10, <1>11, <1>12, <1>14 DEF Next

\* Every variable keeps its type, whatever is registered and cancelled: the
\* times in the list and the deadline of pselect stay normalised, and an entry
\* is being fired exactly while the loop is in a timeout handler.
THEOREM TypeCorrect == Spec => []TypeOK
<1> QED BY TypeInit, TypeStep, PTL DEF Spec

-----------------------------------------------------------------------------
(* The blocks and the order of the list *)

\* NoDoubleUse and ServiceOrder are those of any list with distinct blocks, in
\* the order of its registrations.
LEMMA ListFacts ==
    ASSUME TypeOK, NoDoubleUse, ServiceOrder
    PROVE  /\ timeout \in Seq(Entry)
           /\ Apart(timeout)
           /\ Ordered(timeout, older)
           /\ \A e \in Entry : e.time \in NormalTime
BY DEF TypeOK, NoDoubleUse, ServiceOrder, Precedes, Apart, Ordered, Goes, Entry

\* The empty list uses no block and is ordered.
LEMMA ListInit == Init => NoDoubleUse /\ ServiceOrder
BY DEF Init, NoDoubleUse, Pending, Entries, ServiceOrder

\* No registration, cancellation or step of eloop_run uses a block twice or
\* changes the order: an insertion keeps it by its place, a cancellation and the
\* pop of the head because they leave a part of the list.
LEMMA ListStep ==
    TypeOK /\ NoDoubleUse /\ ServiceOrder /\ [Next]_vars => NoDoubleUse' /\ ServiceOrder'
<1> SUFFICES ASSUME TypeOK, NoDoubleUse, ServiceOrder, [Next]_vars
             PROVE  /\ Apart(timeout') /\ Ordered(timeout', older')
                    /\ firing' # NoEntry => \A e \in Entries(timeout') : e.ptr # firing'.ptr
    BY DEF NoDoubleUse, Pending, Apart, ServiceOrder, Precedes, Ordered, Goes
<1>0. /\ timeout \in Seq(Entry) /\ Apart(timeout) /\ Ordered(timeout, older)
      /\ \A e \in Entry : e.time \in NormalTime
      /\ firing # NoEntry => \A e \in Entries(timeout) : e.ptr # firing.ptr
    BY ListFacts DEF NoDoubleUse, Pending
<1>1. ASSUME NEW h \in Handler, NEW d \in Delay, NEW data \in Ctx, NEW user \in Ctx,
             eloop_register_timeout(d[1], d[2], h, data, user)
      PROVE  /\ Apart(timeout') /\ Ordered(timeout', older')
             /\ firing' # NoEntry => \A e \in Entries(timeout') : e.ptr # firing'.ptr
    <2>1. PICK e \in Entry : Links(e)
        BY <1>1, RegisterLinks
    <2>2. /\ e.ptr \notin Allocated
          /\ timeout' = Insert(timeout, e)
          /\ older' = older \cup {<<f.ptr, e.ptr>> : f \in Entries(timeout)}
          /\ Entries(timeout') = Entries(timeout) \cup {e}
        BY <2>1 DEF Links, Pending
    <2>3. \A f \in Entries(timeout) : f.ptr # e.ptr
        BY <2>2 DEF Allocated, Pending
    <2>4. Apart(timeout') /\ Ordered(timeout', older')
        BY <1>0, <2>2, <2>3, InsertOrdered
    <2>5. firing' = firing /\ (firing # NoEntry => e.ptr # firing.ptr)
        BY <1>1, <2>2 DEF eloop_register_timeout, Allocated
    <2> QED BY <1>0, <2>2, <2>4, <2>5
<1>2. ASSUME NEW h \in Handler, NEW data, NEW user,
             eloop_cancel_timeout(h, data, user)
      PROVE  /\ Apart(timeout') /\ Ordered(timeout', older')
             /\ firing' # NoEntry => \A e \in Entries(timeout') : e.ptr # firing'.ptr
    <2>1. /\ timeout' = Remaining(timeout, h, data, user) /\ firing' = firing
          /\ older' = Without(older, {e \in Entries(timeout) : Matches(e, h, data, user)})
        BY <1>2 DEF eloop_cancel_timeout, OlderWithout, Without, Pending
    <2>2. Entries(timeout') \subseteq Entries(timeout)
        BY <1>0, <2>1, RemainingFacts
    <2>3. Apart(timeout') /\ Ordered(timeout', older')
        BY <1>0, <2>1, RemainingOrdered
    <2> QED BY <1>0, <2>1, <2>2, <2>3
<1>3. CASE ExpireHead /\ timeout # <<>> /\ ~ Before(now, timeout[1].time)
    <2>1. /\ timeout' = Tail(timeout) /\ firing' = timeout[1]
          /\ older' = Without(older, {timeout[1]})
        BY <1>3 DEF ExpireHead, OlderWithout, Without
    <2> QED BY <1>0, <1>3, <2>1, TailOrdered
<1>4. ASSUME timeout' = timeout, older' = older, firing' \in {firing, NoEntry}
      PROVE  /\ Apart(timeout') /\ Ordered(timeout', older')
             /\ firing' # NoEntry => \A e \in Entries(timeout') : e.ptr # firing'.ptr
    BY <1>0, <1>4
<1>5. CASE \E h \in Handler : \/ \E d \in Delay, a \in Data :
                                    eloop_register_timeout(d[1], d[2], h, a[1], a[2])
                             \/ \E data, user \in Ctx \cup {ALL} :
                                    eloop_cancel_timeout(h, data, user)
    BY <1>1, <1>2, <1>5, EloopTimeoutAssumption
<1>6. CASE eloop_terminate \/ \E set \in BOOLEAN : eloop_tmp_terminate(set)
    BY <1>4, <1>6 DEF eloop_terminate, eloop_tmp_terminate
<1>7. CASE ExpireHead /\ ~ (timeout # <<>> /\ ~ Before(now, timeout[1].time))
    BY <1>4, <1>7 DEF ExpireHead
<1>8. CASE \/ eloop_run \/ LoopEnds \/ EnterSelect \/ SelectTimesOut \/ SelectInterrupted
           \/ SelectFails \/ HandlerReturns \/ Dispatched \/ ClockTick \/ UNCHANGED vars
    BY <1>4, <1>8 DEF eloop_run, LoopEnds, EnterSelect, SelectTimesOut, SelectInterrupted,
       SelectFails, ReturnFromSelect, HandlerReturns, Dispatched, ClockTick, vars
<1>9. CASE Application
    BY <1>5, <1>6, <1>9 DEF Application
<1> QED BY <1>3, <1>7, <1>8, <1>9 DEF Next

\* The order and the blocks of the list are kept together.
LEMMA ListInvariance == Spec => [](TypeOK /\ NoDoubleUse /\ ServiceOrder)
<1>1. TypeOK /\ NoDoubleUse /\ ServiceOrder /\ [Next]_vars
          => (TypeOK /\ NoDoubleUse /\ ServiceOrder)'
    BY TypeStep, ListStep
<1> QED BY TypeInit, ListInit, <1>1, PTL DEF Spec

\* No block is linked twice, and the block whose handler runs is not linked:
\* cancelling from within a handler never frees the entry that eloop_run frees
\* when the handler returns.
THEOREM BlocksUsedOnce == Spec => []NoDoubleUse
BY ListInvariance, PTL

\* The list is sorted by time and, among equal times, by registration, however
\* registrations, cancellations and calls of handlers are interleaved.
THEOREM OrderOfService == Spec => []ServiceOrder
BY ListInvariance, PTL

-----------------------------------------------------------------------------
(* The sleep *)

\* The head of the list is due first.
LEMMA HeadIsFirst ==
    ASSUME TypeOK, ServiceOrder, timeout # <<>>
    PROVE  /\ timeout[1] \in Pending
           /\ timeout[1].time \in NormalTime
           /\ \A e \in Pending : /\ e.time \in NormalTime
                                 /\ ~ Before(e.time, timeout[1].time)
<1>1. /\ timeout \in Seq(Entry) /\ Ordered(timeout, older)
      /\ \A e \in Entry : e.time \in NormalTime
    BY DEF TypeOK, ServiceOrder, Precedes, Ordered, Goes, Entry
<1> QED BY <1>1, HeadFacts DEF Pending

\* The loop does not sleep initially.
LEMMA SleepInit == Init => NoOversleep
BY DEF Init, NoOversleep

\* The deadline is right when pselect is entered and stays right: the list does
\* not change while the loop sleeps.
LEMMA SleepStep ==
    TypeOK /\ ServiceOrder /\ NoOversleep /\ [Next]_vars => NoOversleep'
<1> SUFFICES ASSUME TypeOK, ServiceOrder, NoOversleep, [Next]_vars
             PROVE  NoOversleep'
    OBVIOUS
<1>1. CASE EnterSelect
    <2>1. now' = now /\ timeout' = timeout /\ Pending' = Pending
        BY <1>1 DEF EnterSelect, Pending
    <2>2. CASE timeout = <<>>
        BY <2>1, <2>2 DEF NoOversleep, Pending, Entries
    <2>3. CASE timeout # <<>> /\ Before(now, timeout[1].time)
        <3>1. deadline' = timeout[1].time
            BY <1>1, <2>3, HeadIsFirst, AddSub DEF EnterSelect, TypeOK
        <3>2. deadline' # NoEntry
            BY <2>3, <3>1, HeadIsFirst, NoEntryAssumption
        <3> QED BY <2>1, <2>3, <3>1, <3>2, HeadIsFirst DEF NoOversleep
    <2>4. CASE timeout # <<>> /\ ~ Before(now, timeout[1].time)
        <3>1. deadline' = now /\ now \in NormalTime
            BY <1>1, <2>4 DEF EnterSelect, TypeOK
        <3>2. deadline' # NoEntry
            BY <3>1, NoEntryAssumption
        <3>3. ~ Before(now', deadline')
            BY <2>1, <3>1, BeforeIsOrder
        <3> QED BY <3>2, <3>3 DEF NoOversleep
    <2> QED BY <2>2, <2>3, <2>4
<1>2. CASE ClockTick
    <2>1. now \in NormalTime /\ now' \in NormalTime /\ Before(now, now')
        BY <1>2, TickIsLater, AfterIsNormal DEF ClockTick, TypeOK
    <2>2. pc' = pc /\ deadline' = deadline /\ Pending' = Pending
        BY <1>2 DEF ClockTick, Pending
    <2>3. deadline' # NoEntry /\ Before(now', deadline') => Before(now, deadline)
        BY <2>1, <2>2, BeforeIsOrder DEF TypeOK
    <2> QED BY <2>2, <2>3 DEF NoOversleep
<1>3. CASE UNCHANGED vars
    BY <1>3 DEF vars, NoOversleep, Pending
<1>4. CASE \/ Application \/ eloop_run \/ LoopEnds \/ SelectTimesOut
           \/ SelectInterrupted \/ SelectFails \/ ExpireHead \/ HandlerReturns \/ Dispatched
    <2>1. pc' # "select"
        BY <1>4 DEF Application, eloop_register_timeout, eloop_cancel_timeout, eloop_terminate,
           eloop_tmp_terminate, InApplication, eloop_run, LoopEnds, SelectTimesOut,
           SelectInterrupted, SelectFails, ReturnFromSelect, ExpireHead, HandlerReturns, Dispatched
    <2> QED BY <2>1 DEF NoOversleep
<1> QED BY <1>1, <1>2, <1>3, <1>4 DEF Next

\* The inductive invariant of the timeouts.
Inv == TypeOK /\ NoDoubleUse /\ ServiceOrder /\ NoOversleep

\* The four parts of Inv are inductive together.
LEMMA Invariance == Spec => []Inv
<1>1. Init => Inv
    BY TypeInit, ListInit, SleepInit DEF Inv
<1>2. Inv /\ [Next]_vars => Inv'
    BY TypeStep, ListStep, SleepStep DEF Inv
<1> QED BY <1>1, <1>2, PTL DEF Spec

\* The time left of the head, which bounds the sleep in pselect, bounds it for
\* the whole list: nothing comes due before the loop wakes up.
THEOREM SleepIsShort == Spec => []NoOversleep
<1>1. Inv => NoOversleep
    BY DEF Inv
<1> QED BY Invariance, <1>1, PTL

\* An iteration of eloop_run that calls no timeout handler leaves none due.
THEOREM HeadSpeaksForAll == Spec => NoneDueWhenNoneFires
<1>1. ASSUME Inv, [Next]_vars, pc = "signals", pc' = "dispatch", NEW e \in Pending
      PROVE  Before(now, e.time)
    <2>1. ExpireHead
        BY <1>1 DEF Next, Application, eloop_register_timeout, eloop_cancel_timeout,
           eloop_terminate, eloop_tmp_terminate, eloop_run, LoopEnds, EnterSelect,
           SelectTimesOut, SelectInterrupted, SelectFails, ReturnFromSelect, HandlerReturns, Dispatched,
           ClockTick, vars
    <2>2. timeout # <<>>
        BY DEF Pending, Entries
    <2>3. Before(now, timeout[1].time)
        BY <1>1, <2>1, <2>2 DEF ExpireHead
    <2>4. /\ now \in Time /\ e.time \in Time /\ timeout[1].time \in Time
          /\ ~ Before(e.time, timeout[1].time)
        BY <1>1, <2>2, HeadIsFirst, BeforeIsOrder DEF Inv, TypeOK
    <2> QED BY <2>3, <2>4, BeforeIsOrder
<1>2. Inv /\ [Next]_vars
          => [ (pc = "signals" /\ pc' = "dispatch") =>
                   \A e \in Pending : Before(now, e.time) ]_vars
    BY <1>1
<1> QED BY Invariance, <1>2, PTL DEF Spec, NoneDueWhenNoneFires

-----------------------------------------------------------------------------
(* The abstract timer set *)

\* The initial state is an initial state of the timer set.
LEMMA AbstractInit == Init => Timers!Init
BY UsecAssumption
DEF Init, Timers!Init, Pending, Entries, NormalTime, Timers!NormalTime

\* eloop_register_timeout registers a timer of the timer set.
LEMMA AbstractRegister ==
    ASSUME Inv, NEW h \in Handler, NEW d \in Delay, NEW data \in Ctx,
           NEW user \in Ctx, eloop_register_timeout(d[1], d[2], h, data, user)
    PROVE  Timers!Register
<1>1. PICK e \in Entry : Links(e)
    BY RegisterLinks DEF Inv
<1>2. \A f \in Pending : f.ptr # e.ptr
    BY <1>1 DEF Links, Allocated
<1>3. Pending' = Pending \cup {e} /\ e \in Pending' \ Pending
    BY <1>1, <1>2 DEF Links
<1>4. ~ Timers!Before(e.time, now)
    BY <1>1 DEF Links, Before, Timers!Before
<1>5. older' = older \cup {<<f.ptr, e.ptr>> : f \in Pending}
    BY <1>1 DEF Links
<1>6. UNCHANGED <<now, firing>>
    BY DEF eloop_register_timeout
<1> QED BY <1>2, <1>3, <1>4, <1>5, <1>6 DEF Timers!Register

\* eloop_cancel_timeout cancels timers of the timer set.
LEMMA AbstractCancel ==
    ASSUME Inv, NEW h \in Handler, NEW data, NEW user,
           eloop_cancel_timeout(h, data, user)
    PROVE  Timers!Cancel
<1> DEFINE gone == {e \in Pending : Matches(e, h, data, user)}
<1>1. timeout \in Seq(Entry)
    BY DEF Inv, TypeOK
<1>2. timeout' = Remaining(timeout, h, data, user) /\ older' = OlderWithout(gone)
    BY DEF eloop_cancel_timeout
<1>3. Pending' = {e \in Pending : ~ Matches(e, h, data, user)}
    BY <1>1, <1>2, RemainingFacts DEF Pending
<1>4. Pending' \subseteq Pending /\ Pending \ Pending' = gone
    BY <1>3
<1>5. UNCHANGED <<now, firing>>
    BY DEF eloop_cancel_timeout
<1> QED BY <1>2, <1>4, <1>5 DEF Timers!Cancel, OlderWithout, Timers!OlderWithout

\* The pop of a due head fires the first timer of the timer set.
LEMMA AbstractFire ==
    ASSUME Inv, ExpireHead, timeout # <<>>, ~ Before(now, timeout[1].time)
    PROVE  Timers!Fire
<1> DEFINE e == timeout[1]
<1>1. /\ firing = NoEntry
      /\ firing' = e
      /\ timeout' = Tail(timeout)
      /\ older' = OlderWithout({e})
      /\ now' = now
    BY DEF ExpireHead, Inv, TypeOK
<1>2. /\ e \in Pending /\ Pending' = Pending \ {e}
      /\ \A f \in Pending' : Goes(e, f, older)
    BY <1>1, ListFacts, TailOrdered DEF Inv, Pending
<1>3. \A f \in Pending \ {e} : Timers!Precedes(e, f)
    BY <1>2 DEF Goes, Timers!Precedes, Before, Timers!Before
<1>4. ~ Timers!Before(now, e.time)
    BY DEF Before, Timers!Before
<1>5. older' = Timers!OlderWithout({e})
    BY <1>1 DEF OlderWithout, Timers!OlderWithout
<1> HIDE DEF e
<1> QED BY <1>1, <1>2, <1>3, <1>4, <1>5 DEF Timers!Fire

\* Every step is a step of the timer set, or leaves it as it is.
LEMMA AbstractStep == Inv /\ [Next]_vars => [Timers!Next]_Timers!vars
<1> SUFFICES ASSUME Inv, [Next]_vars PROVE [Timers!Next]_Timers!vars
    OBVIOUS
<1>1. CASE Application
    <2>1. CASE eloop_terminate \/ \E set \in BOOLEAN : eloop_tmp_terminate(set)
        BY <2>1 DEF eloop_terminate, eloop_tmp_terminate, Pending, Timers!vars
    <2> QED BY <1>1, <2>1, AbstractRegister, AbstractCancel, EloopTimeoutAssumption
            DEF Application, Timers!Next
<1>2. CASE ExpireHead
    <2>1. CASE timeout # <<>> /\ ~ Before(now, timeout[1].time)
        BY <1>2, <2>1, AbstractFire DEF Timers!Next
    <2>2. CASE ~ (timeout # <<>> /\ ~ Before(now, timeout[1].time))
        BY <1>2, <2>2 DEF ExpireHead, Pending, Timers!vars
    <2> QED BY <2>1, <2>2
<1>3. CASE HandlerReturns
    <2>1. Timers!Done
        BY <1>3 DEF HandlerReturns, Inv, TypeOK, Pending, Timers!Done
    <2> QED BY <2>1 DEF Timers!Next
<1>4. CASE ClockTick
    <2>1. Before(now, now') /\ now' \in NormalTime
        BY <1>4, TickIsLater, AfterIsNormal DEF ClockTick, Inv, TypeOK
    <2>2. Timers!ClockAdvances
        BY <1>4, <2>1 DEF ClockTick, Pending, Timers!ClockAdvances, Before,
           Timers!Before, NormalTime, Timers!NormalTime
    <2> QED BY <2>2 DEF Timers!Next
<1>5. CASE \/ eloop_run \/ LoopEnds \/ EnterSelect \/ SelectTimesOut \/ SelectInterrupted
           \/ SelectFails \/ Dispatched \/ UNCHANGED vars
    BY <1>5 DEF eloop_run, LoopEnds, EnterSelect, SelectTimesOut, SelectInterrupted,
       SelectFails, ReturnFromSelect, Dispatched, vars, Pending, Timers!vars
<1> QED BY <1>1, <1>2, <1>3, <1>4, <1>5 DEF Next

\* The sorted list, its insertion and unlinking walks and the loop that pops one
\* due head per iteration implement the timer set of TimerSet: the timers are
\* called in the order of their times and registrations, none before its time,
\* none after it was cancelled.
THEOREM ListImplementsTimerSet == Spec => ImplementsTimerSet
<1>1. Inv /\ [Next]_vars => [Timers!Next]_Timers!vars
    BY AbstractStep
<1> QED BY Invariance, AbstractInit, <1>1, PTL DEF Spec, ImplementsTimerSet, Timers!Spec

=============================================================================
