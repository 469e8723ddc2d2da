--------------------------- MODULE ExceptContext ---------------------------
(***************************************************************************)
(* The exceptions of eloop/cexcept.h and eloop/cexceptNew.c as the loop    *)
(* uses them.  Each call of eloop_run takes a slot of g_state; the wrapper *)
(* around each handler finds a slot again and sets up a Try on it, as      *)
(* application code below it may; a Throw, from a call or from a signal,   *)
(* finds a slot too and jumps to the environment that is noted there.  All *)
(* threads share one id (EXCEPT_FOR_PID), and a handler may call eloop_run *)
(* again, so that several slots belong to the one id.                      *)
(***************************************************************************)
EXTENDS Integers, Sequences, FiniteSets

CONSTANTS MAX_THREAD,  (* slots of g_state: 20 in the code *)
          MonitorType, (* 1, 2: types of wrapper that set the pending monitor *)
          Off,         (* -1: no monitor *)
          TermHandler, (* the wrapper of a SIGINT or SIGTERM handler, which does not *)
          MaxDepth     (* bound: calls of eloop_run, wrappers and Trys in each other *)

ExceptContextAssumption ==
    /\ MAX_THREAD \in Nat \ {0}
    /\ Off \notin MonitorType
    /\ TermHandler \notin MonitorType
    /\ {"run", "try"} \cap (MonitorType \cup {TermHandler}) = {}

VARIABLES used,    (* the slots whose pid is the process *)
          penv,    (* of each slot: the frame of the stack it notes, 0 for none *)
          stack,   (* the frames of the thread *)
          monitor, (* g_PendingMonitorType *)
          pending_terminate,
          state,   (* running, or how the program ended *)
          ended,   (* history: a nested eloop_run has ended *)
          late     (* history: pending_terminate was set while a handler ran, or
                      a jump went past a handler *)

slots == <<used, penv>>
vars == <<slots, stack, monitor, pending_terminate, state, ended, late>>

Slots == 1 .. MAX_THREAD
None == 0

\* A frame is a call of eloop_run, the Try of a wrapper or one of application
\* code; prev is exception__prev.
Wrapper == MonitorType \cup {TermHandler}
Top == stack[Len(stack)]
InLoop == stack # <<>> /\ Top.kind = "run"
InHandler == stack # <<>> /\ Top.kind # "run"
Trys == {i \in DOMAIN stack : stack[i].kind # "run"}
Handlers == {i \in DOMAIN stack : stack[i].kind \in Wrapper}
Largest(S) == CHOOSE i \in S : \A j \in S : j <= i
Room == Len(stack) < MaxDepth

Init == /\ used = {}
        /\ penv = [s \in Slots |-> None]
        /\ stack = <<>>
        /\ monitor = Off
        /\ pending_terminate = FALSE
        /\ state = "running"
        /\ ended = FALSE
        /\ late = FALSE

-----------------------------------------------------------------------------
(* The table *)

First(S) == IF S = {} THEN None ELSE CHOOSE s \in S : \A r \in S : s <= r

\* Mutation of findstate: the slot that was taken last.
findstateLast == IF used = {} THEN None ELSE Largest(used)

allocstate == First(Slots \ used)
findstate == First(used)

\* What freestate leaves: the first slot of the id goes, whichever it is.
freestate == used \ {findstate}

-----------------------------------------------------------------------------
(* eloop_run and the wrappers *)

\* main or a handler calls eloop_run; without a free slot it runs all the same.
eloop_run ==
    /\ state = "running" /\ ~ InLoop /\ Room
    /\ stack' = Append(stack, [kind |-> "run", slot |-> allocstate, prev |-> None])
    /\ IF allocstate = None
       THEN UNCHANGED <<used, penv>>
       ELSE /\ used' = used \cup {allocstate}
            /\ penv' = [penv EXCEPT ![allocstate] = None]
    /\ UNCHANGED <<monitor, pending_terminate, state, ended, late>>

\* The loop ends, DEL_THREAD_EXCEPT_CONTEXT.
ReturnFromRun ==
    /\ state = "running" /\ InLoop
    /\ stack' = SubSeq(stack, 1, Len(stack) - 1)
    /\ used' = freestate
    /\ ended' = (Len(stack) > 1)
    /\ UNCHANGED <<penv, monitor, pending_terminate, state, late>>

\* Try on the slot that is found; without one the context is NULL.
EnterTry(kind) ==
    IF findstate = None
    THEN /\ state' = "crashed"
         /\ UNCHANGED <<penv, stack>>
    ELSE /\ stack' = Append(stack, [kind |-> kind, slot |-> findstate,
                                    prev |-> penv[findstate]])
         /\ penv' = [penv EXCEPT ![findstate] = Len(stack) + 1]
         /\ UNCHANGED state

\* Mutation of SetPendingMonitor: a pending signal is not looked at.
SetPendingMonitorAnyhow(type) == monitor' = IF monitor # Off THEN monitor ELSE type

\* SetPendingMonitor, ClrPendingMonitor: both refuse when a signal is pending.
SetPendingMonitor(type) ==
    monitor' = IF monitor # Off \/ pending_terminate THEN monitor ELSE type

ClrPendingMonitor(type) ==
    monitor' = IF monitor = Off \/ pending_terminate THEN monitor ELSE Off

\* call_eloop_sock_handler, call_eloop_timeout_handler, call_eloop_signal_handler.
call_eloop_handler(type) ==
    /\ state = "running" /\ InLoop /\ Room
    /\ EnterTry(type)
    /\ IF type = TermHandler \/ state' # "running"
       THEN UNCHANGED monitor
       ELSE SetPendingMonitor(type)
    /\ UNCHANGED <<used, pending_terminate, ended, late>>

\* Application code below a handler tries something.
Try == /\ state = "running" /\ InHandler /\ Room
       /\ EnterTry("try")
       /\ UNCHANGED <<used, monitor, pending_terminate, ended, late>>

\* The end of the Try of frame k: what it noted before is noted again.
Restored(k) == [penv EXCEPT ![stack[k].slot] = stack[k].prev]

\* The handler, or what was tried, returns without an exception.
LeaveTry ==
    /\ state = "running" /\ InHandler
    /\ penv' = Restored(Len(stack))
    /\ stack' = SubSeq(stack, 1, Len(stack) - 1)
    /\ IF Top.kind \in MonitorType THEN ClrPendingMonitor(Top.kind) ELSE UNCHANGED monitor
    /\ UNCHANGED <<used, pending_terminate, state, ended, late>>

-----------------------------------------------------------------------------
(* Throw *)

\* longjmp to the frame noted in the slot, if there is one and it still is on
\* the stack: the Catch of application code goes on behind its Try, that of a
\* wrapper ends the program.
Jump(slot) ==
    LET k == penv[slot]
    IN  IF k = None \/ k > Len(stack) \/ stack[k].slot # slot \/ stack[k].kind = "run"
        THEN /\ state' = "crashed"
             /\ UNCHANGED <<stack, penv, late>>
        ELSE /\ penv' = Restored(k)
             /\ stack' = SubSeq(stack, 1, k - 1)
             /\ state' = IF stack[k].kind = "try" THEN "running" ELSE "exited"
             /\ late' = (late \/ \E i \in Handlers : i > k)

\* Code that finds its slot throws; without one its context is NULL.
Throw ==
    /\ state = "running" /\ InHandler
    /\ IF findstate = None
       THEN /\ state' = "crashed"
            /\ UNCHANGED <<penv, stack, late>>
       ELSE Jump(findstate)
    /\ UNCHANGED <<used, monitor, pending_terminate, ended>>

\* A signal of the thread's own doing, in a handler or in eloop_run, is thrown
\* from the signal's handler; siglongjmp unblocks it, so that the next one is
\* thrown as well.  Without a slot the handler just returns.
sighandler ==
    /\ state = "running" /\ stack # <<>>
    /\ findstate # None
    /\ Jump(findstate)
    /\ UNCHANGED <<used, monitor, pending_terminate, ended>>

-----------------------------------------------------------------------------
(* Termination signals *)

\* eloop_handle_signal
TermArrives ==
    /\ state = "running" /\ ~ pending_terminate
    /\ pending_terminate' = TRUE
    /\ late' = (late \/ Handlers # {})
    /\ UNCHANGED <<slots, stack, monitor, state, ended>>

\* eloop_process_pending_signals
TermProcessed ==
    /\ state = "running" /\ InLoop /\ pending_terminate
    /\ pending_terminate' = FALSE
    /\ UNCHANGED <<slots, stack, monitor, state, ended, late>>

-----------------------------------------------------------------------------
Next == \/ eloop_run
        \/ ReturnFromRun
        \/ \E type \in Wrapper : call_eloop_handler(type)
        \/ Try
        \/ LeaveTry
        \/ Throw
        \/ sighandler
        \/ TermArrives
        \/ TermProcessed

Spec == Init /\ [][Next]_vars

-----------------------------------------------------------------------------
(* Properties *)

\* The jump to the Catch of the innermost Try: application code goes on behind
\* it, in a wrapper the program ends.
JumpToInnermost ==
    LET k == Largest(Trys)
    IN  /\ stack' = SubSeq(stack, 1, k - 1)
        /\ state' = IF stack[k].kind = "try" THEN "running" ELSE "exited"

\* "Throw jumps back to the Catch clause of the innermost enclosing Try clause"
\* (cexcept.h), wherever there is one: in a handler, in an eloop_run called from
\* it, and after such a loop has ended.
ThrowReachesInnermost == [][(Throw \/ sighandler) /\ Trys # {} => JumpToInnermost]_vars

\* The same until an eloop_run nested in a handler has ended, and with that has
\* given back the slot of another (freestate).
InnermostUntilNestedEnds ==
    [][(Throw \/ sighandler) /\ Trys # {} /\ ~ ended => JumpToInnermost]_vars

\* Outside of handlers the pending monitor is off, unless a termination signal
\* came while one ran or an exception went past one (SetPendingMonitor,
\* ClrPendingMonitor).
MonitorGuardsHandlers ==
    state = "running" /\ Handlers = {} /\ ~ late => monitor = Off

=============================================================================
