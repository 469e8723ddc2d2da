---------------------------- MODULE EloopSignal ----------------------------
(***************************************************************************)
(* Signals in eloop/eloop.c: eloop_handle_signal runs asynchronously, at   *)
(* any point of the thread that runs the loop, and leaves marks; the loop  *)
(* finds the marks in eloop_process_pending_signals and calls the          *)
(* registered callbacks; SIGINT and SIGTERM arm an alarm that kills the    *)
(* process unless they are processed in two seconds.                       *)
(*                                                                         *)
(* Two instructions of the thread are one step here only where a signal    *)
(* between them has the effect of a signal before or after both.  Time     *)
(* passes only in pselect and in application code.                         *)
(***************************************************************************)
EXTENDS Naturals, Sequences, FiniteSets

CONSTANTS Sig,          (* the signals the application registers *)
          TermSig,      (* of these, SIGINT and SIGTERM *)
          MaxPerSig,    (* bound: registrations of one signal *)
          OtherEvents,  (* does pselect return for timeouts or sockets? *)
          NoReg         (* no registration is under way *)

ASSUME EloopSignalAssumption ==
    /\ TermSig \subseteq Sig
    /\ MaxPerSig \in Nat \ {0}
    /\ OtherEvents \in BOOLEAN

VARIABLES signals,   (* eloop.signals: the entries up to eloop.signal_count *)
          freed,     (* eloop.signals still points to the block realloc freed *)
          installed, (* the signals whose handler is eloop_handle_signal *)
          signaled,  (* eloop.signaled # 0 *)
          pending_terminate,
          armed,     (* alarm(2) is running *)
          terminate, (* eloop.terminate *)
          pc,        (* where the thread is *)
          i,         (* the index of the scan *)
          reg,       (* the registration under way in application code *)
          killed     (* eloop_handle_alarm has called exit(1) *)

vars == <<signals, freed, installed, signaled, pending_terminate, armed,
          terminate, pc, i, reg, killed>>

\* struct eloop_signal.  History: owed says that the signal was received and
\* the callback has not been called since; dropped, that it was received then
\* only while eloop.signals pointed to the block that realloc had freed.
Entry == [sig : Sig, signaled : BOOLEAN, owed : BOOLEAN, dropped : BOOLEAN]

\* out: not in eloop_run; top: from the loop's condition to pselect; select: in
\* pselect; process, disarm, unpend, scan: in eloop_process_pending_signals;
\* sighandler: in the callback of a signal; callback: the rest of the iteration.
Places == {"out", "top", "select", "process", "disarm", "unpend", "scan",
           "sighandler", "callback"}

InApplication == pc \in {"out", "sighandler", "callback"}

\* The thread can take a step outside of eloop_register_signal.
Running == ~ killed /\ reg = NoReg

Init == /\ signals = <<>>
        /\ freed = FALSE
        /\ installed = {}
        /\ signaled = FALSE
        /\ pending_terminate = FALSE
        /\ armed = FALSE
        /\ terminate = FALSE
        /\ pc = "out"
        /\ i = 0
        /\ reg = NoReg
        /\ killed = FALSE

-----------------------------------------------------------------------------
(* The asynchronous handlers *)

\* Mutation of FirstEntry: the handler's loop breaks at the first entry of all.
FirstEntryOfTable(tab, s) == {k \in DOMAIN tab : k = 1 /\ tab[k].sig = s}

\* The first entry of the signal, where the handler's loop breaks.
FirstEntry(tab, s) == {k \in DOMAIN tab : /\ tab[k].sig = s
                                          /\ \A j \in 1 .. k - 1 : tab[j].sig # s}

\* The walk marks the first entry of the signal.  While eloop.signals points to
\* the block that realloc has freed, the mark goes to the freed block and is not
\* in its copy.
Mark(tab, s) ==
    [k \in DOMAIN tab |->
        [tab[k] EXCEPT !.signaled = @ \/ (~ freed /\ k \in FirstEntry(tab, s)),
                       !.owed = @ \/ tab[k].sig = s,
                       !.dropped = IF tab[k].sig = s
                                   THEN freed /\ (@ \/ ~ tab[k].owed)
                                   ELSE @]]

eloop_handle_signal(s) ==
    /\ ~ killed
    /\ s \in installed
    /\ LET arms == s \in TermSig /\ ~ pending_terminate
       IN  /\ pending_terminate' = (pending_terminate \/ arms)
           /\ armed' = (armed \/ arms)
    /\ signaled' = TRUE
    /\ signals' = Mark(signals, s)
    /\ pc' = IF pc = "select" THEN "process" ELSE pc   \* EINTR
    /\ UNCHANGED <<freed, installed, terminate, i, reg, killed>>

\* Two seconds after alarm(2).
eloop_handle_alarm ==
    /\ ~ killed
    /\ armed
    /\ pc \in {"out", "select", "sighandler", "callback"}
    /\ killed' = TRUE
    /\ UNCHANGED <<signals, freed, installed, signaled, pending_terminate, armed,
                   terminate, pc, i, reg>>

-----------------------------------------------------------------------------
(* eloop_register_signal, called by the application; the thread may be      *)
(* interrupted between its statements                                       *)

\* os_realloc may leave the block where it is or move it.
RegisterRealloc(s) ==
    /\ Running
    /\ InApplication
    /\ Cardinality({k \in DOMAIN signals : signals[k].sig = s}) < MaxPerSig
    /\ reg' = [sig |-> s, step |-> "realloc"]
    /\ freed' \in {FALSE, signals # <<>>}
    /\ UNCHANGED <<signals, installed, signaled, pending_terminate, armed,
                   terminate, pc, i, killed>>

\* signal_count++ and signals = tmp.
RegisterPublish ==
    /\ ~ killed
    /\ reg # NoReg
    /\ reg.step = "realloc"
    /\ signals' = Append(signals,
                         [sig |-> reg.sig, signaled |-> FALSE, owed |-> FALSE,
                          dropped |-> FALSE])
    /\ freed' = FALSE
    /\ reg' = [reg EXCEPT !.step = "publish"]
    /\ UNCHANGED <<installed, signaled, pending_terminate, armed, terminate, pc,
                   i, killed>>

\* signal(sig, eloop_handle_signal).
RegisterInstall ==
    /\ ~ killed
    /\ reg # NoReg
    /\ reg.step = "publish"
    /\ installed' = installed \cup {reg.sig}
    /\ reg' = NoReg
    /\ UNCHANGED <<signals, freed, signaled, pending_terminate, armed, terminate,
                   pc, i, killed>>

eloop_terminate ==
    /\ Running
    /\ InApplication
    /\ terminate' = TRUE
    /\ UNCHANGED <<signals, freed, installed, signaled, pending_terminate, armed,
                   pc, i, reg, killed>>

-----------------------------------------------------------------------------
(* eloop_run and eloop_process_pending_signals *)

\* A step of the thread from one place to another that changes nothing else.
Goto(from, to) ==
    /\ Running
    /\ pc = from
    /\ pc' = to
    /\ UNCHANGED <<signals, freed, installed, signaled, pending_terminate, armed,
                   terminate, i, reg, killed>>

eloop_run == Goto("out", "top")

\* Sockets or timeouts are registered throughout, so only terminate ends it.
LoopEnds == terminate /\ Goto("top", "out")

\* pselect is called with no signal mask: a signal that came before stays unseen.
EnterSelect == ~ terminate /\ Goto("top", "select")

SelectReturns == OtherEvents /\ Goto("select", "process")

NothingPending == ~ signaled /\ Goto("process", "callback")

\* eloop.signaled = 0
ClearSignaled ==
    /\ Running
    /\ pc = "process"
    /\ signaled
    /\ signaled' = FALSE
    /\ pc' = "disarm"
    /\ UNCHANGED <<signals, freed, installed, pending_terminate, armed, terminate,
                   i, reg, killed>>

\* Mutation of Disarm: pending_terminate is reset, the alarm is not.
DisarmForgotten ==
    /\ Running
    /\ pc = "disarm"
    /\ pc' = IF pending_terminate THEN "unpend" ELSE "scan"
    /\ i' = IF pending_terminate THEN i ELSE 1
    /\ UNCHANGED <<signals, freed, installed, signaled, pending_terminate, armed,
                   terminate, reg, killed>>

\* if (pending_terminate) alarm(0)
Disarm ==
    /\ Running
    /\ pc = "disarm"
    /\ IF pending_terminate
       THEN pc' = "unpend" /\ armed' = FALSE /\ i' = i
       ELSE pc' = "scan" /\ i' = 1 /\ armed' = armed
    /\ UNCHANGED <<signals, freed, installed, signaled, pending_terminate,
                   terminate, reg, killed>>

\* pending_terminate = 0
Unpend ==
    /\ Running
    /\ pc = "unpend"
    /\ pending_terminate' = FALSE
    /\ pc' = "scan"
    /\ i' = 1
    /\ UNCHANGED <<signals, freed, installed, signaled, armed, terminate, reg,
                   killed>>

\* The mark is removed before the callback is called.
CallMarked ==
    /\ Running
    /\ pc = "scan"
    /\ i <= Len(signals)
    /\ signals[i].signaled
    /\ signals' = [signals EXCEPT ![i].signaled = FALSE, ![i].owed = FALSE,
                                ![i].dropped = FALSE]
    /\ pc' = "sighandler"
    /\ UNCHANGED <<freed, installed, signaled, pending_terminate, armed,
                   terminate, i, reg, killed>>

NextEntry ==
    /\ Running
    /\ \/ pc = "scan" /\ i <= Len(signals) /\ ~ signals[i].signaled
       \/ pc = "sighandler"
    /\ pc' = "scan"
    /\ i' = i + 1
    /\ UNCHANGED <<signals, freed, installed, signaled, pending_terminate, armed,
                   terminate, reg, killed>>

\* Mutation of EndScan: eloop.signaled is cleared after the scan.
EndScanClears ==
    /\ Running
    /\ pc = "scan"
    /\ i > Len(signals)
    /\ pc' = "callback"
    /\ i' = 0
    /\ signaled' = FALSE
    /\ UNCHANGED <<signals, freed, installed, pending_terminate, armed, terminate,
                   reg, killed>>

EndScan ==
    /\ Running
    /\ pc = "scan"
    /\ i > Len(signals)
    /\ pc' = "callback"
    /\ i' = 0
    /\ UNCHANGED <<signals, freed, installed, signaled, pending_terminate, armed,
                   terminate, reg, killed>>

CallbacksReturn == Goto("callback", "top")

-----------------------------------------------------------------------------
Loop == \/ LoopEnds
        \/ EnterSelect
        \/ SelectReturns
        \/ NothingPending
        \/ ClearSignaled
        \/ Disarm
        \/ Unpend
        \/ CallMarked
        \/ NextEntry
        \/ EndScan
        \/ CallbacksReturn

Register == \/ \E s \in Sig : RegisterRealloc(s)
            \/ RegisterPublish
            \/ RegisterInstall

Next == \/ \E s \in Sig : eloop_handle_signal(s)
        \/ eloop_handle_alarm
        \/ Register
        \/ eloop_terminate
        \/ eloop_run
        \/ Loop

Spec == Init /\ [][Next]_vars

\* The thread is scheduled, application code returns, and when OtherEvents
\* holds pselect returns; signals and the application may do nothing at all.
FairSpec == /\ Spec
            /\ WF_vars(Loop)
            /\ WF_vars(RegisterPublish)
            /\ WF_vars(RegisterInstall)

-----------------------------------------------------------------------------
(* Properties *)

\* Types; eloop_handle_signal is installed only for signals that have an entry.
TypeOK ==
    /\ signals \in Seq(Entry)
    /\ installed \subseteq {signals[k].sig : k \in DOMAIN signals}
    /\ {freed, signaled, pending_terminate, armed, terminate, killed}
          \subseteq BOOLEAN
    /\ pc \in Places
    /\ i \in 0 .. Len(signals) + 1
    /\ reg \in {NoReg} \cup [sig : Sig, step : {"realloc", "publish"}]

\* The first registration of its signal.
Foremost(k) == k \in DOMAIN signals /\ \A j \in 1 .. k - 1 : signals[j].sig # signals[k].sig

\* The signal of the k-th registration was received, and its callback has not
\* been called since; the handler could note that in the table.
Owed(k) == k \in DOMAIN signals /\ signals[k].owed
Noted(k) == Foremost(k) /\ signals[k].owed /\ ~ signals[k].dropped

\* A signal that the handler could note, at whatever point it came, is on record
\* where the loop will find it: its entry is marked, and either the scan has yet
\* to pass the entry or eloop.signaled brings the loop to a new scan.  This is
\* why eloop_process_pending_signals clears eloop.signaled before the scan and
\* the mark before the callback.
ScanWillReach(k) == \/ pc \in {"disarm", "unpend"}
                    \/ pc = "scan" /\ i <= k
                    \/ pc = "sighandler" /\ i < k
NoMarkLost ==
    \A k \in DOMAIN signals :
        Noted(k) => signals[k].signaled /\ (signaled \/ ScanWillReach(k))

\* The alarm runs exactly as long as a termination signal counts as pending,
\* but for the instant between alarm(0) and the reset of pending_terminate.
AlarmTracksPending ==
    /\ armed => pending_terminate
    /\ pending_terminate => armed \/ pc = "unpend"

\* The program has left the loop or was ended by the alarm.
Over == pc = "out" \/ killed

\* "Register a callback function that will be called when a signal is received"
\* (eloop.h): each registration's, unless the program ends first.
SignalCalled == \A k \in 1 .. MaxPerSig * Cardinality(Sig) : Owed(k) ~> (~ Owed(k) \/ Over)

\* The same for the first registration of a signal and for a signal that does not
\* come between the os_realloc of a registration and the assignment of the table
\* (eloop_handle_signal, eloop_register_signal).
NotedIsCalled == \A k \in 1 .. MaxPerSig * Cardinality(Sig) : Noted(k) ~> (~ Owed(k) \/ Over)

=============================================================================
