------------------------- MODULE EloopSignalProofs -------------------------
(***************************************************************************)
(* Proofs about signals, for any set of signals, any number of entries and *)
(* every place at which a signal may interrupt the thread: no mark that    *)
(* the handler could make is lost, however often a signal is registered    *)
(* and wherever os_realloc moves the table, and the alarm runs as long as  *)
(* a termination signal is pending.                                        *)
(***************************************************************************)
EXTENDS EloopSignal, TLAPS

\* A handler is installed for a signal that has its entry.
HasEntry ==
    reg # NoReg /\ reg.step = "publish" => \E k \in DOMAIN signals : signals[k].sig = reg.sig

\* In the step from alarm(0) to the reset of pending_terminate it still is set.
Disarmed == pc = "unpend" => pending_terminate /\ ~ armed

\* The scan is at an index; the callback under way is that of an entry.
Scanned ==
    /\ pc = "scan" => i >= 1
    /\ pc = "sighandler" => i \in 1 .. Len(signals)

MarkInv == TypeOK /\ HasEntry /\ Scanned /\ NoMarkLost

AlarmInv == /\ armed \in BOOLEAN /\ pending_terminate \in BOOLEAN
            /\ AlarmTracksPending /\ Disarmed

-----------------------------------------------------------------------------
(* The table of signals *)

\* The handler leaves every entry in its place, and marks the one of its signal.
LEMMA MarkFacts ==
    ASSUME TypeOK, NEW s \in Sig
    PROVE  /\ Mark(signals, s) \in Seq(Entry)
           /\ Len(Mark(signals, s)) = Len(signals)
           /\ \A k \in DOMAIN signals :
                  /\ Mark(signals, s)[k].sig = signals[k].sig
                  /\ Mark(signals, s)[k].owed = (signals[k].owed \/ signals[k].sig = s)
                  /\ Mark(signals, s)[k].signaled =
                         (signals[k].signaled \/ (~ freed /\ k \in FirstEntry(signals, s)))
                  /\ Mark(signals, s)[k].dropped =
                         IF signals[k].sig = s
                         THEN freed /\ (signals[k].dropped \/ ~ signals[k].owed)
                         ELSE signals[k].dropped
<1> DEFINE drops(k) == IF signals[k].sig = s
                       THEN freed /\ (signals[k].dropped \/ ~ signals[k].owed)
                       ELSE signals[k].dropped
<1> DEFINE m(k) == [signals[k] EXCEPT !.signaled = @ \/ (~ freed /\ k \in FirstEntry(signals, s)),
                                      !.owed = @ \/ signals[k].sig = s,
                                      !.dropped = IF signals[k].sig = s
                                                  THEN freed /\ (@ \/ ~ signals[k].owed)
                                                  ELSE @]
<1>1. Len(signals) \in Nat /\ DOMAIN signals = 1 .. Len(signals)
    BY DEF TypeOK
<1>2. Mark(signals, s) = [k \in 1 .. Len(signals) |-> m(k)]
    BY <1>1 DEF Mark
<1>3. ASSUME NEW k \in 1 .. Len(signals)
      PROVE  /\ m(k) \in Entry
             /\ m(k).sig = signals[k].sig
             /\ m(k).owed = (signals[k].owed \/ signals[k].sig = s)
             /\ m(k).signaled = (signals[k].signaled \/ (~ freed /\ k \in FirstEntry(signals, s)))
             /\ m(k).dropped = drops(k)
    <2>1. signals[k] \in Entry
        BY <1>1 DEF TypeOK
    <2> DEFINE marked == signals[k].signaled \/ (~ freed /\ k \in FirstEntry(signals, s))
               owes == signals[k].owed \/ signals[k].sig = s
    <2>2. marked \in BOOLEAN /\ owes \in BOOLEAN
        BY Zenon
    <2>5. drops(k) \in BOOLEAN
        <3>1. signals[k].dropped \in BOOLEAN
            BY <2>1 DEF Entry
        <3>2. (freed /\ (signals[k].dropped \/ ~ signals[k].owed)) \in BOOLEAN
            BY Zenon
        <3> QED BY <3>1, <3>2, Zenon
    <2>3. m(k) = [signals[k] EXCEPT !.signaled = marked, !.owed = owes, !.dropped = drops(k)]
        BY Zenon
    <2> HIDE DEF m, marked, owes, drops
    <2>4. /\ m(k) \in Entry /\ m(k).sig = signals[k].sig /\ m(k).owed = owes
          /\ m(k).signaled = marked /\ m(k).dropped = drops(k)
        BY <2>1, <2>2, <2>3, <2>5 DEF Entry
    <2> QED BY <2>4 DEF marked, owes
<1> HIDE DEF m
<1>4. Mark(signals, s) \in Seq(Entry) /\ Len(Mark(signals, s)) = Len(signals)
    BY <1>1, <1>2, <1>3
<1> QED BY <1>1, <1>2, <1>3, <1>4

-----------------------------------------------------------------------------
(* The marks *)

LEMMA MarkInit == ASSUME Init PROVE MarkInv
<1>1. <<>> \in Seq(Entry) /\ Len(<<>>) = 0 /\ DOMAIN <<>> = {}
    OBVIOUS
<1>2. TypeOK
    <2>1. signals = <<>> /\ i \in 0 .. Len(signals) + 1
        BY <1>1 DEF Init
    <2>2. {freed, signaled, pending_terminate, armed, terminate, killed} \subseteq BOOLEAN
        BY DEF Init
    <2> QED BY <1>1, <2>1, <2>2 DEF Init, TypeOK, Places
<1>3. HasEntry /\ Scanned /\ NoMarkLost
    BY <1>1 DEF Init, HasEntry, Scanned, NoMarkLost
<1> QED BY <1>2, <1>3 DEF MarkInv

\* A step that leaves the table and the registration alone.
LEMMA TableKept ==
    ASSUME MarkInv, UNCHANGED <<signals, freed, installed, reg>>,
           signaled' \in BOOLEAN, pending_terminate' \in BOOLEAN, armed' \in BOOLEAN,
           terminate' \in BOOLEAN, killed' \in BOOLEAN,
           pc' \in Places, i' \in 0 .. Len(signals) + 1,
           pc' \in {"scan", "sighandler"} =>
               (pc' = "scan" /\ i' >= 1) \/ (pc' = pc /\ i' = i),
           NoMarkLost'
    PROVE  MarkInv'
BY DEF Scanned, MarkInv, TypeOK, HasEntry

LEMMA MarkStep ==
    ASSUME MarkInv, [Next]_vars PROVE MarkInv'
<1> USE DEF MarkInv
<1>0. Len(signals) \in Nat /\ DOMAIN signals = 1 .. Len(signals)
    BY DEF TypeOK
<1>1. ASSUME NEW s \in Sig, eloop_handle_signal(s) PROVE MarkInv'
    <2>1. /\ signals' = Mark(signals, s) /\ signaled' = TRUE
          /\ pending_terminate' \in BOOLEAN /\ armed' \in BOOLEAN
          /\ pc' = IF pc = "select" THEN "process" ELSE pc
          /\ UNCHANGED <<freed, installed, terminate, i, reg, killed>>
        BY <1>1 DEF eloop_handle_signal
    <2>2. /\ signals' \in Seq(Entry) /\ Len(signals') = Len(signals)
          /\ DOMAIN signals' = DOMAIN signals
          /\ \A k \in DOMAIN signals :
                 /\ signals'[k].sig = signals[k].sig
                 /\ signals'[k].owed = (signals[k].owed \/ signals[k].sig = s)
                 /\ signals'[k].signaled =
                        (signals[k].signaled \/ (~ freed /\ k \in FirstEntry(signals, s)))
                 /\ signals'[k].dropped = IF signals[k].sig = s
                                          THEN freed /\ (signals[k].dropped \/ ~ signals[k].owed)
                                          ELSE signals[k].dropped
        BY <1>0, <2>1, MarkFacts
    <2>3. installed' \subseteq {signals'[k].sig : k \in DOMAIN signals'}
        BY <2>1, <2>2 DEF TypeOK
    <2>4. TypeOK'
        BY <2>1, <2>2, <2>3 DEF TypeOK, Places
    <2>5. HasEntry'
        BY <2>1, <2>2 DEF HasEntry
    <2>6. ASSUME NEW k \in DOMAIN signals, Noted(k)' PROVE signals'[k].signaled
        <3>1. Foremost(k) /\ signals'[k].owed /\ ~ signals'[k].dropped
            BY <1>0, <2>2, <2>6 DEF Noted, Foremost
        <3>2. CASE signals[k].sig = s /\ ~ freed
            <4>1. k \in FirstEntry(signals, s)
                BY <3>1, <3>2 DEF FirstEntry, Foremost
            <4> QED BY <2>2, <3>2, <4>1
        <3>3. CASE signals[k].sig # s \/ freed
            <4>1. signals[k].owed /\ ~ signals[k].dropped
                BY <2>2, <3>1, <3>3
            <4> QED BY <2>2, <3>1, <4>1 DEF Noted, NoMarkLost
        <3> QED BY <3>2, <3>3
    <2>7. NoMarkLost'
        BY <2>1, <2>2, <2>6 DEF NoMarkLost
    <2>8. Scanned'
        BY <2>1, <2>2 DEF Scanned
    <2> QED BY <2>1, <2>4, <2>5, <2>7, <2>8
<1>2. ASSUME NEW s \in Sig, RegisterRealloc(s) PROVE MarkInv'
    <2>1. /\ reg' = [sig |-> s, step |-> "realloc"] /\ freed' \in BOOLEAN
          /\ UNCHANGED <<signals, installed, signaled, pending_terminate, armed,
                         terminate, pc, i, killed>>
        BY <1>2 DEF RegisterRealloc
    <2>2. TypeOK'
        BY <2>1 DEF TypeOK
    <2>3. HasEntry' /\ NoMarkLost' /\ Scanned'
        BY <2>1 DEF HasEntry, NoMarkLost, Noted, Foremost, ScanWillReach, Scanned
    <2> QED BY <2>2, <2>3
<1>3. CASE RegisterPublish
    <2> DEFINE e == [sig |-> reg.sig, signaled |-> FALSE, owed |-> FALSE, dropped |-> FALSE]
    <2>1. /\ reg # NoReg /\ reg.step = "realloc"
          /\ signals' = Append(signals, e) /\ freed' = FALSE
          /\ reg' = [reg EXCEPT !.step = "publish"]
          /\ UNCHANGED <<installed, signaled, pending_terminate, armed, terminate, pc, i, killed>>
        BY <1>3 DEF RegisterPublish
    <2>2. reg \in [sig : Sig, step : {"realloc", "publish"}]
        BY <2>1 DEF TypeOK
    <2>3. e \in Entry /\ e.sig = reg.sig /\ e.owed = FALSE
        BY <2>2 DEF Entry
    <2>4. reg' \in [sig : Sig, step : {"realloc", "publish"}] /\ reg'.step = "publish"
        BY <2>1, <2>2
    <2> HIDE DEF e
    <2>5. /\ signals' \in Seq(Entry) /\ Len(signals') = Len(signals) + 1
          /\ DOMAIN signals' = 1 .. Len(signals) + 1
          /\ \A k \in DOMAIN signals : signals'[k] = signals[k]
          /\ signals'[Len(signals) + 1] = e
        BY <1>0, <2>1, <2>3 DEF TypeOK
    <2>6. DOMAIN signals \subseteq DOMAIN signals'
        BY <1>0, <2>5
    <2>7. installed' \subseteq {signals'[k].sig : k \in DOMAIN signals'}
        BY <2>1, <2>5, <2>6 DEF TypeOK
    <2>8. i' \in 0 .. Len(signals') + 1
        BY <1>0, <2>1, <2>5 DEF TypeOK
    <2>9. TypeOK'
        BY <2>1, <2>4, <2>5, <2>7, <2>8 DEF TypeOK
    <2>10. \A k \in DOMAIN signals' : k \in DOMAIN signals \/ k = Len(signals) + 1
        BY <1>0, <2>5
    <2>11. HasEntry'
        BY <1>0, <2>1, <2>3, <2>4, <2>5 DEF HasEntry
    <2>14. ASSUME NEW k \in DOMAIN signals', Noted(k)'
           PROVE  k \in DOMAIN signals /\ Noted(k) /\ signals'[k] = signals[k]
        <3>1. signals'[k].owed
            BY <2>14 DEF Noted
        <3>2. k \in DOMAIN signals /\ signals'[k] = signals[k]
            BY <2>3, <2>5, <2>10, <3>1
        <3>3. \A j \in 1 .. k - 1 : j \in DOMAIN signals
            BY <1>0, <3>2
        <3> QED BY <2>5, <2>14, <3>2, <3>3 DEF Noted, Foremost
    <2>12. NoMarkLost'
        BY <2>1, <2>14 DEF NoMarkLost, Noted, Foremost, ScanWillReach
    <2>13. Scanned'
        BY <1>0, <2>1, <2>5 DEF Scanned, TypeOK
    <2> QED BY <2>1, <2>9, <2>11, <2>12, <2>13
<1>4. CASE RegisterInstall
    <2>1. /\ reg # NoReg /\ reg.step = "publish"
          /\ installed' = installed \cup {reg.sig} /\ reg' = NoReg
          /\ UNCHANGED <<signals, freed, signaled, pending_terminate, armed, terminate, pc, i,
                         killed>>
        BY <1>4 DEF RegisterInstall
    <2>2. reg \in [sig : Sig, step : {"realloc", "publish"}]
        BY <2>1 DEF TypeOK
    <2>3. installed' \subseteq {signals'[k].sig : k \in DOMAIN signals'}
        BY <2>1 DEF TypeOK, HasEntry
    <2>4. TypeOK'
        BY <2>1, <2>3 DEF TypeOK
    <2> QED BY <2>1, <2>4 DEF HasEntry, NoMarkLost, Noted, Foremost, ScanWillReach, Scanned
<1>5. CASE eloop_handle_alarm
    <2>1. /\ killed' = TRUE
          /\ UNCHANGED <<signals, freed, installed, signaled, pending_terminate, armed,
                         terminate, pc, i, reg>>
        BY <1>5 DEF eloop_handle_alarm
    <2>2. NoMarkLost'
        BY <2>1 DEF NoMarkLost, Noted, Foremost, ScanWillReach
    <2> QED BY <2>1, <2>2, TableKept DEF TypeOK
<1>6. CASE eloop_terminate
    <2>1. /\ terminate' = TRUE
          /\ UNCHANGED <<signals, freed, installed, signaled, pending_terminate, armed,
                         pc, i, reg, killed>>
        BY <1>6 DEF eloop_terminate
    <2>2. NoMarkLost'
        BY <2>1 DEF NoMarkLost, Noted, Foremost, ScanWillReach
    <2> QED BY <2>1, <2>2, TableKept DEF TypeOK
<1>7. ASSUME NEW from, NEW to \in {"out", "top", "select", "process", "callback"}, Goto(from, to),
             from \in {"out", "top", "select", "process", "callback"}
      PROVE  MarkInv'
    <2>1. /\ pc = from /\ pc' = to
          /\ UNCHANGED <<signals, freed, installed, signaled, pending_terminate, armed,
                         terminate, i, reg, killed>>
        BY <1>7 DEF Goto
    <2>2. \A k \in DOMAIN signals : ~ ScanWillReach(k)
        BY <1>7, <2>1 DEF ScanWillReach
    <2>3. NoMarkLost'
        BY <2>1, <2>2 DEF NoMarkLost, Noted, Foremost
    <2>4. pc' \in Places /\ pc' \notin {"scan", "sighandler"}
        BY <1>7, <2>1 DEF Places
    <2> QED BY <2>1, <2>3, <2>4, TableKept DEF TypeOK
<1>8. CASE eloop_run \/ LoopEnds \/ EnterSelect \/ SelectReturns \/ NothingPending \/ CallbacksReturn
    BY <1>7, <1>8 DEF eloop_run, LoopEnds, EnterSelect, SelectReturns, NothingPending,
                      CallbacksReturn
<1>9. CASE ClearSignaled
    <2>1. /\ signaled' = FALSE /\ pc' = "disarm"
          /\ UNCHANGED <<signals, freed, installed, pending_terminate, armed, terminate,
                         i, reg, killed>>
        BY <1>9 DEF ClearSignaled
    <2>2. NoMarkLost'
        BY <2>1 DEF NoMarkLost, Noted, Foremost, ScanWillReach
    <2>3. pc' \in Places /\ pc' \notin {"scan", "sighandler"}
        BY <2>1 DEF Places
    <2> QED BY <2>1, <2>2, <2>3, TableKept DEF TypeOK
<1>10. CASE Disarm
    <2>1. /\ pc = "disarm" /\ armed' \in BOOLEAN
          /\ (pc' = "unpend" /\ i' = i) \/ (pc' = "scan" /\ i' = 1)
          /\ UNCHANGED <<signals, freed, installed, signaled, pending_terminate, terminate,
                         reg, killed>>
        BY <1>10 DEF Disarm, TypeOK
    <2>2. NoMarkLost'
        BY <1>0, <2>1 DEF NoMarkLost, Noted, Foremost, ScanWillReach
    <2>3. /\ pc' \in Places /\ i' \in 0 .. Len(signals) + 1
          /\ pc' # "sighandler" /\ (pc' = "scan" => i' >= 1)
        BY <1>0, <2>1 DEF TypeOK, Places
    <2> QED BY <2>1, <2>2, <2>3, TableKept DEF TypeOK
<1>11. CASE Unpend
    <2>1. /\ pc = "unpend" /\ pending_terminate' = FALSE /\ pc' = "scan" /\ i' = 1
          /\ UNCHANGED <<signals, freed, installed, signaled, armed, terminate, reg, killed>>
        BY <1>11 DEF Unpend
    <2>2. NoMarkLost'
        BY <1>0, <2>1 DEF NoMarkLost, Noted, Foremost, ScanWillReach
    <2>3. pc' \in Places /\ i' \in 0 .. Len(signals) + 1 /\ i' >= 1
        BY <1>0, <2>1 DEF Places
    <2> QED BY <2>1, <2>2, <2>3, TableKept DEF TypeOK
<1>12. CASE CallMarked
    <2>1. /\ pc = "scan" /\ i <= Len(signals) /\ pc' = "sighandler"
          /\ signals' = [signals EXCEPT ![i].signaled = FALSE, ![i].owed = FALSE,
                                      ![i].dropped = FALSE]
          /\ UNCHANGED <<freed, installed, signaled, pending_terminate, armed, terminate, i,
                         reg, killed>>
        BY <1>12 DEF CallMarked
    <2>2. PICK n \in 1 .. Len(signals) : n = i
        BY <1>0, <2>1 DEF TypeOK, Scanned
    <2>3. /\ signals' \in Seq(Entry) /\ Len(signals') = Len(signals)
          /\ DOMAIN signals' = DOMAIN signals
          /\ \A k \in DOMAIN signals :
                 /\ signals'[k].sig = signals[k].sig
                 /\ k # n => signals'[k] = signals[k]
                 /\ k = n => signals'[k].owed = FALSE
        <3> DEFINE e == [signals[n] EXCEPT !.signaled = FALSE, !.owed = FALSE, !.dropped = FALSE]
        <3>1. signals[n] \in Entry
            BY <1>0, <2>2 DEF TypeOK
        <3>2. e \in Entry /\ e.sig = signals[n].sig /\ e.owed = FALSE
            BY <3>1 DEF Entry
        <3>3. signals' = [signals EXCEPT ![n] = e]
            BY <1>0, <2>1, <2>2, <3>1 DEF TypeOK, Entry
        <3> HIDE DEF e
        <3> QED BY <1>0, <2>2, <3>2, <3>3 DEF TypeOK
    <2>4. installed' \subseteq {signals'[k].sig : k \in DOMAIN signals'}
        BY <2>1, <2>3 DEF TypeOK
    <2>5. TypeOK'
        BY <2>1, <2>3, <2>4 DEF TypeOK, Places
    <2>6. HasEntry'
        BY <2>1, <2>3 DEF HasEntry
    <2>7. Scanned'
        BY <2>1, <2>2, <2>3 DEF Scanned
    <2>8. NoMarkLost'
        <3> SUFFICES ASSUME NEW k \in DOMAIN signals, Noted(k)'
                     PROVE  signals'[k].signaled /\ (signaled' \/ ScanWillReach(k)')
            BY <2>3 DEF NoMarkLost
        <3>4. signals'[k].owed /\ Foremost(k)
            BY <1>0, <2>3 DEF Noted, Foremost
        <3>1. k # n /\ signals'[k] = signals[k] /\ Noted(k)
            BY <2>3, <3>4 DEF Noted
        <3>2. signals[k].signaled /\ (signaled \/ n <= k)
            BY <2>1, <2>2, <3>1 DEF NoMarkLost, Noted, Foremost, ScanWillReach
        <3>3. k \in Nat
            BY <1>0
        <3> QED BY <2>1, <2>2, <3>1, <3>2, <3>3 DEF ScanWillReach
    <2> QED BY <2>1, <2>5, <2>6, <2>7, <2>8
<1>13. CASE NextEntry
    <2>1. /\ \/ pc = "scan" /\ i <= Len(signals) /\ ~ signals[i].signaled
             \/ pc = "sighandler"
          /\ pc' = "scan" /\ i' = i + 1
          /\ UNCHANGED <<signals, freed, installed, signaled, pending_terminate, armed,
                         terminate, reg, killed>>
        BY <1>13 DEF NextEntry
    <2>2. i \in Nat /\ i <= Len(signals) /\ (pc = "scan" => i \in 1 .. Len(signals))
        BY <1>0, <2>1 DEF TypeOK, Scanned
    <2>3. ASSUME NEW k \in DOMAIN signals, Noted(k), ~ signaled PROVE i + 1 <= k
        <3>1. signals[k].signaled /\ ScanWillReach(k) /\ k \in Nat
            BY <1>0, <2>3 DEF NoMarkLost
        <3>2. pc = "scan" => i # k
            BY <2>1, <3>1
        <3> QED BY <2>1, <2>2, <3>1, <3>2 DEF ScanWillReach
    <2>4. NoMarkLost'
        BY <2>1, <2>3 DEF NoMarkLost, Noted, Foremost, ScanWillReach
    <2>5. pc' \in Places /\ i' \in 0 .. Len(signals) + 1 /\ i' >= 1
        BY <1>0, <2>1, <2>2 DEF Places
    <2> QED BY <2>1, <2>4, <2>5, TableKept DEF TypeOK
<1>14. CASE EndScan
    <2>1. /\ pc = "scan" /\ i > Len(signals) /\ pc' = "callback" /\ i' = 0
          /\ UNCHANGED <<signals, freed, installed, signaled, pending_terminate, armed,
                         terminate, reg, killed>>
        BY <1>14 DEF EndScan
    <2>2. \A k \in DOMAIN signals : ~ ScanWillReach(k)
        BY <1>0, <2>1 DEF ScanWillReach, TypeOK
    <2>3. NoMarkLost'
        BY <2>1, <2>2 DEF NoMarkLost, Noted, Foremost
    <2>4. pc' \in Places /\ pc' \notin {"scan", "sighandler"} /\ i' \in 0 .. Len(signals) + 1
        BY <1>0, <2>1 DEF Places
    <2> QED BY <2>1, <2>3, <2>4, TableKept DEF TypeOK
<1>15. CASE UNCHANGED vars
    BY <1>15, TableKept DEF vars, TypeOK, NoMarkLost, Noted, Foremost, ScanWillReach
<1> QED BY <1>1, <1>2, <1>3, <1>4, <1>5, <1>6, <1>8, <1>9, <1>10, <1>11, <1>12, <1>13, <1>14,
           <1>15 DEF Next, Register, Loop

-----------------------------------------------------------------------------
(* The alarm *)

LEMMA AlarmInit == ASSUME Init PROVE AlarmInv
BY DEF Init, AlarmInv, AlarmTracksPending, Disarmed

LEMMA AlarmStep == ASSUME AlarmInv, [Next]_vars PROVE AlarmInv'
<1> USE DEF AlarmInv, AlarmTracksPending, Disarmed
<1>1. ASSUME NEW s \in Sig, eloop_handle_signal(s) PROVE AlarmInv'
    BY <1>1 DEF eloop_handle_signal
<1>2. CASE eloop_handle_alarm \/ eloop_terminate
    BY <1>2 DEF eloop_handle_alarm, eloop_terminate
<1>3. CASE Register
    <2>1. UNCHANGED <<armed, pending_terminate, pc>>
        BY <1>3 DEF Register, RegisterRealloc, RegisterPublish, RegisterInstall
    <2> QED BY <2>1
<1>4. CASE Disarm
    BY <1>4 DEF Disarm
<1>5. CASE Unpend
    BY <1>5 DEF Unpend
<1>6. CASE eloop_run \/ LoopEnds \/ EnterSelect \/ SelectReturns \/ NothingPending
           \/ CallbacksReturn
    BY <1>6 DEF eloop_run, LoopEnds, EnterSelect, SelectReturns, NothingPending, CallbacksReturn,
                Goto
<1>7. CASE ClearSignaled \/ CallMarked \/ NextEntry \/ EndScan
    BY <1>7 DEF ClearSignaled, CallMarked, NextEntry, EndScan
<1>8. CASE UNCHANGED vars
    BY <1>8 DEF vars
<1> QED BY <1>1, <1>2, <1>3, <1>4, <1>5, <1>6, <1>7, <1>8 DEF Next, Loop

-----------------------------------------------------------------------------
(* Theorems *)

\* A signal that the handler could note stays on record until its callback is
\* called, at whatever point it interrupts the thread, however often signals are
\* registered and wherever os_realloc puts the table.
THEOREM MarksAreKept == Spec => []NoMarkLost
<1>1. Init => MarkInv
    BY MarkInit
<1>2. MarkInv /\ [Next]_vars => MarkInv'
    BY MarkStep
<1>3. MarkInv => NoMarkLost
    BY DEF MarkInv
<1> QED BY <1>1, <1>2, <1>3, PTL DEF Spec

\* The alarm that kills the process runs as long as a termination signal counts
\* as pending and no longer, but between alarm(0) and the reset that follows.
THEOREM AlarmIsPending == Spec => []AlarmTracksPending
<1>1. Init => AlarmInv
    BY AlarmInit
<1>2. AlarmInv /\ [Next]_vars => AlarmInv'
    BY AlarmStep
<1>3. AlarmInv => AlarmTracksPending
    BY DEF AlarmInv
<1> QED BY <1>1, <1>2, <1>3, PTL DEF Spec

=============================================================================
