----------------------------- MODULE EloopSock -----------------------------
(***************************************************************************)
(* The socket tables of eloop/eloop.c and the loop that serves them:       *)
(* registration, eloop.max_sock, the fd sets given to pselect, and the     *)
(* dispatch of the three tables, whose handlers change the tables while    *)
(* they are walked.  File descriptors are closed and their numbers reused  *)
(* by the application.  Timeouts and signals appear as callbacks that run  *)
(* between pselect and the dispatch and may do what any handler may, which *)
(* includes to run the loop themselves.                                    *)
(***************************************************************************)
EXTENDS Integers, Sequences, FiniteSets, SequencesExt

CONSTANTS Sock,            (* file descriptor numbers *)
          Used,            (* bound: the <<socket, event type>> the application uses *)
          MaxPerSock,      (* bound: registrations of one socket in one table *)
          MaxChanges,      (* bound: registrations; 0 for no bound *)
          MaxNested,       (* bound: runs of the loop inside a run *)
          CloseRegistered  (* may the application close a registered socket? *)

ASSUME EloopSockAssumption ==
    /\ Sock \subseteq Nat
    /\ Used \subseteq Sock \X {"read", "write", "exception"}
    /\ MaxPerSock \in Nat \ {0}
    /\ MaxChanges \in Nat /\ MaxNested \in Nat
    /\ CloseRegistered \in BOOLEAN

VARIABLES table,     (* [type -> the sequence of registered sockets] *)
          changed,   (* [type -> has the table changed since its dispatch began] *)
          max_sock,  (* eloop.max_sock *)
          terminate, (* eloop.terminate *)
          tmp_terminate,
          pc,        (* where the thread that runs the loop is *)
          fds,       (* [type -> rfds, wfds, efds]: asked for, then reported *)
          cur,       (* the table being dispatched, and the entry called in it *)
          nested,    (* history: a handler of this iteration has run the loop *)
          outer,     (* the runs whose handlers run the loop, innermost first *)
          open,      (* environment: the open file descriptors *)
          ready,     (* environment: [type -> the sockets that are ready] *)
          changes    (* registrations so far, when they are bounded *)

loop == <<table, changed, max_sock, terminate, tmp_terminate>>

\* What a run of the loop has of its own: rfds, wfds, efds and where it is.
run == <<pc, fds, cur, nested, outer>>
vars == <<loop, run, open, ready, changes>>

\* eloop_event_type.
Type == {"read", "write", "exception"}

\* An entry remembers when it was registered, which the code does not: "polled"
\* once an fd set was made from it, until then the table whose dispatch was
\* running, or "callback".
Entry == [sock : Sock, born : Type \cup {"polled", "callback"}]

\* The table whose dispatch is running, the place in it and the entry called.
NoCall == [type |-> "read", i |-> 0, sock |-> -1, born |-> "polled"]

NoSockets == [t \in Type |-> {}]

\* out: not in eloop_run; top: at the loop's condition; select: in pselect;
\* callbacks: signal and timeout handlers, before the dispatch; skip: the same
\* when pselect reported nothing; dispatch: walking a table; handler: in the
\* handler of a socket.
Places == {"out", "top", "select", "callbacks", "skip", "dispatch", "handler"}

\* Application code runs here.
InApplication == pc \in {"out", "callbacks", "skip", "handler"}

Socks(t) == {table[t][i].sock : i \in 1 .. Len(table[t])}
NothingRegistered == \A t \in Type : table[t] = <<>>

Init == /\ table = [t \in Type |-> <<>>]
        /\ changed = [t \in Type |-> FALSE]
        /\ max_sock = 0
        /\ terminate = FALSE
        /\ tmp_terminate = FALSE
        /\ pc = "out"
        /\ fds = NoSockets
        /\ cur = NoCall
        /\ nested = FALSE
        /\ outer = <<>>
        /\ open = {}
        /\ ready = NoSockets
        /\ changes = 0

-----------------------------------------------------------------------------
(* The functions of eloop.h *)

\* A change of a table counts against the bound, if there is one.
CountChange == IF MaxChanges = 0 THEN UNCHANGED changes
               ELSE changes < MaxChanges /\ changes' = changes + 1

\* eloop_sock_table_add_sock: the entry goes behind the others.
Added(s, t) ==
    LET born == IF pc = "handler" THEN cur.type ELSE "callback"
    IN  [table EXCEPT ![t] = Append(@, [sock |-> s, born |-> born])]

\* Out of memory the call returns -1 and changes nothing.
eloop_register_sock(s, t) ==
    /\ InApplication
    /\ s \in open
    /\ Cardinality({i \in 1 .. Len(table[t]) : table[t][i].sock = s}) < MaxPerSock
    /\ CountChange
    /\ table' = Added(s, t)
    /\ max_sock' = IF s > max_sock THEN s ELSE max_sock
    /\ changed' = [changed EXCEPT ![t] = TRUE]
    /\ UNCHANGED <<terminate, tmp_terminate, run, open, ready>>

\* Mutation of Largest: the readers only.
LargestReader(tab) == LET S == {tab["read"][i].sock : i \in 1 .. Len(tab["read"])}
                      IN  IF S = {} THEN -1 ELSE Max(S)

\* The largest registered socket, -1 without any (eloop_recalc_max_sock).
Largest(tab) ==
    LET S == UNION {{tab[t][i].sock : i \in 1 .. Len(tab[t])} : t \in Type}
    IN  IF S = {} THEN -1 ELSE Max(S)

\* Mutation of Removes: a removal does not count as a change of the table.
RemovesUnnoticed(t, s) == FALSE

\* Without an entry of the socket eloop_sock_table_remove_sock returns before it
\* sets changed.
Removes(t, s) == s \in Socks(t)

\* eloop_sock_table_remove_sock: the first entry of the socket, if there is one.
Removed(s, t) ==
    [table EXCEPT ![t] = RemoveFirstMatch(@, LAMBDA e : e.sock = s)]

\* eloop.max_sock is computed again even if nothing was removed.
eloop_unregister_sock(s, t) ==
    /\ InApplication
    /\ table' = Removed(s, t)
    /\ max_sock' = Largest(table')
    /\ changed' = [changed EXCEPT ![t] = @ \/ Removes(t, s)]
    /\ UNCHANGED <<terminate, tmp_terminate, run, open, ready, changes>>

eloop_terminate ==
    /\ InApplication
    /\ terminate' = TRUE
    /\ UNCHANGED <<table, changed, max_sock, tmp_terminate, run, open, ready,
                   changes>>

eloop_tmp_terminate(val) ==
    /\ InApplication
    /\ tmp_terminate' = val
    /\ UNCHANGED <<table, changed, max_sock, terminate, run, open, ready, changes>>

-----------------------------------------------------------------------------
(* The application's sockets, and the system that makes them ready *)

Open(s) == /\ InApplication
           /\ s \notin open
           /\ open' = open \cup {s}
           /\ UNCHANGED <<loop, run, ready, changes>>

Close(s) == /\ InApplication
            /\ s \in open
            /\ CloseRegistered \/ \A t \in Type : s \notin Socks(t)
            /\ open' = open \ {s}
            /\ ready' = [t \in Type |-> ready[t] \ {s}]
            /\ UNCHANGED <<loop, run, changes>>

\* A handler reads all there is, or fills what could be written.
Drain == /\ pc = "handler"
         /\ ready' = [ready EXCEPT ![cur.type] = @ \ {cur.sock}]
         /\ UNCHANGED <<loop, run, open, changes>>

BecomesReady(s, t) == /\ s \in open \ ready[t]
                      /\ ready' = [ready EXCEPT ![t] = @ \cup {s}]
                      /\ UNCHANGED <<loop, run, open, changes>>

-----------------------------------------------------------------------------
(* eloop_run *)

\* Called by main, or by a handler, which then waits for this run to return.
eloop_run ==
    /\ InApplication
    /\ IF pc = "out" THEN UNCHANGED outer
       ELSE /\ Len(outer) < MaxNested
            /\ outer' = <<[pc |-> pc, fds |-> fds, cur |-> cur]>> \o outer
    /\ pc' = "top"
    /\ fds' = NoSockets
    /\ cur' = NoCall
    /\ nested' = FALSE
    /\ UNCHANGED <<loop, open, ready, changes>>

\* eloop_run returns to main, or to the handler that called it.
Returns ==
    /\ IF outer = <<>>
       THEN /\ pc' = "out" /\ fds' = NoSockets /\ cur' = NoCall
            /\ nested' = FALSE
            /\ UNCHANGED outer
       ELSE /\ pc' = Head(outer).pc /\ fds' = Head(outer).fds /\ cur' = Head(outer).cur
            /\ nested' = TRUE
            /\ outer' = Tail(outer)
    /\ UNCHANGED <<loop, open, ready, changes>>

\* Mutation of ToldToStop: eloop_terminate is not looked at.
ToldToStopForNow == tmp_terminate

ToldToStop == tmp_terminate \/ terminate

\* The loop's condition is false.  With empty tables the loop ends unless a
\* timeout is registered.
MayEnd == ToldToStop \/ NothingRegistered

LoopEnds == /\ pc = "top"
            /\ MayEnd
            /\ Returns

\* eloop_sock_table_set_fds for the three tables, and the call of pselect.
\* Only sockets below max_sock + 1 are looked at.
EnterSelect ==
    /\ pc = "top"
    /\ ~ ToldToStop
    /\ fds' = [t \in Type |-> {s \in Socks(t) : s < max_sock + 1}]
    /\ table' = [t \in Type |-> [i \in 1 .. Len(table[t]) |->
                                    [table[t][i] EXCEPT !.born = "polled"]]]
    /\ pc' = "select"
    /\ nested' = FALSE
    /\ UNCHANGED <<changed, max_sock, terminate, tmp_terminate, cur, outer, open,
                   ready, changes>>

\* A set names a socket that is not open: pselect fails with EBADF and the
\* loop is left.
SelectFails == /\ pc = "select"
               /\ \E t \in Type : ~ (fds[t] \subseteq open)
               /\ Returns

\* pselect reports the sockets that are ready.
SelectReports ==
    /\ pc = "select"
    /\ \A t \in Type : fds[t] \subseteq open
    /\ \E t \in Type : fds[t] \cap ready[t] # {}
    /\ fds' = [t \in Type |-> fds[t] \cap ready[t]]
    /\ pc' = "callbacks"
    /\ UNCHANGED <<loop, cur, nested, outer, open, ready, changes>>

\* pselect returns 0, or -1 with EINTR, which it does only while no socket is
\* ready: no table is dispatched.
SelectReportsNothing ==
    /\ pc = "select"
    /\ \A t \in Type : fds[t] \subseteq open \ ready[t]
    /\ pc' = "skip"
    /\ fds' = NoSockets
    /\ UNCHANGED <<loop, cur, nested, outer, open, ready, changes>>

\* The iteration is over.  An fd set is cleared when its table is left, rather
\* than where the next iteration begins (memset, FD_ZERO): nothing reads it in
\* between.
EndIteration == /\ pc' = "top"
                /\ cur' = NoCall
                /\ fds' = NoSockets
                /\ UNCHANGED changed

Continue == /\ pc = "skip"
            /\ EndIteration
            /\ UNCHANGED <<table, max_sock, terminate, tmp_terminate, nested, outer,
                           open, ready, changes>>

\* The dispatch of table t begins with changed = 0; after the last table the
\* iteration ends.
BeginTable(t) == /\ pc' = "dispatch"
                 /\ cur' = [NoCall EXCEPT !.type = t]
                 /\ changed' = [changed EXCEPT ![t] = FALSE]
                 /\ fds' = IF pc = "callbacks" THEN fds
                           ELSE [fds EXCEPT ![cur.type] = {}]

LeaveTable(t) ==
    CASE t = "read"      -> BeginTable("write")
      [] t = "write"     -> BeginTable("exception")
      [] t = "exception" -> EndIteration

BeginDispatch ==
    /\ pc = "callbacks"
    /\ BeginTable("read")
    /\ UNCHANGED <<table, max_sock, terminate, tmp_terminate, nested, outer,
                   open, ready, changes>>

\* The entries behind the current one whose socket was reported.
Reported == {i \in cur.i + 1 .. Len(table[cur.type]) :
                 table[cur.type][i].sock \in fds[cur.type]}

CallHandler ==
    /\ pc = "dispatch"
    /\ Reported # {}
    /\ LET i == Min(Reported)
           e == table[cur.type][i]
       IN  cur' = [type |-> cur.type, i |-> i, sock |-> e.sock, born |-> e.born]
    /\ pc' = "handler"
    /\ UNCHANGED <<loop, fds, nested, outer, open, ready, changes>>

EndOfTable ==
    /\ pc = "dispatch"
    /\ Reported = {}
    /\ LeaveTable(cur.type)
    /\ UNCHANGED <<table, max_sock, terminate, tmp_terminate, nested, outer,
                   open, ready, changes>>

\* Mutations of StopsWalk: the walk goes on whatever the handler did; it stops
\* after every handler.
StopsNever(t) == FALSE
StopsAlways(t) == TRUE

\* if (table->changed) break, after each handler.
StopsWalk(t) == changed[t]

\* After a handler that changed its own table the rest of the table is left to
\* the next iteration.
HandlerReturns ==
    /\ pc = "handler"
    /\ IF StopsWalk(cur.type)
       THEN LeaveTable(cur.type)
       ELSE pc' = "dispatch" /\ UNCHANGED <<cur, changed, fds>>
    /\ UNCHANGED <<table, max_sock, terminate, tmp_terminate, nested, outer,
                   open, ready, changes>>

-----------------------------------------------------------------------------
Application ==
    \/ \E u \in Used : \/ eloop_register_sock(u[1], u[2])
                     \/ eloop_unregister_sock(u[1], u[2])
    \/ eloop_terminate
    \/ \E val \in BOOLEAN : eloop_tmp_terminate(val)
    \/ \E s \in Sock : Open(s) \/ Close(s)
    \/ Drain

Next == \/ Application
        \/ \E u \in Used : BecomesReady(u[1], u[2])
        \/ eloop_run
        \/ LoopEnds
        \/ EnterSelect
        \/ SelectFails
        \/ SelectReports
        \/ SelectReportsNothing
        \/ Continue
        \/ BeginDispatch
        \/ CallHandler
        \/ EndOfTable
        \/ HandlerReturns

Spec == Init /\ [][Next]_vars

\* The thread of the loop is scheduled, and the handlers return, however often
\* they run the loop themselves.  pselect need not return while no socket is
\* ready, and main need not call eloop_run.
Fairness == /\ WF_vars(LoopEnds)
            /\ WF_vars(EnterSelect)
            /\ WF_vars(SelectFails)
            /\ WF_vars(SelectReports)
            /\ SF_vars(Continue)
            /\ SF_vars(BeginDispatch)
            /\ WF_vars(CallHandler)
            /\ WF_vars(EndOfTable)
            /\ SF_vars(HandlerReturns)

FairSpec == Spec /\ Fairness

-----------------------------------------------------------------------------
(* Properties *)

\* Types; a socket that is not open is not ready.
TypeOK ==
    /\ \A t \in Type : table[t] \in Seq(Entry)
    /\ changed \in [Type -> BOOLEAN]
    /\ max_sock \in Sock \cup {-1, 0}
    /\ terminate \in BOOLEAN /\ tmp_terminate \in BOOLEAN
    /\ pc \in Places
    /\ fds \in [Type -> SUBSET Sock]
    /\ nested \in BOOLEAN
    /\ \A i \in 1 .. Len(outer) : outer[i].pc \in {"callbacks", "skip", "handler"}
    /\ open \subseteq Sock
    /\ ready \in [Type -> SUBSET open]

\* eloop.max_sock covers every registered socket of the three tables, so that
\* pselect looks at all of them.
MaxSockCovers == \A t \in Type : \A s \in Socks(t) : s <= max_sock

\* An entry that a handler adds to the table being dispatched is not called in
\* that dispatch: it was in no fd set, and the loop over the table stops at the
\* change (table->changed).  A handler that runs the loop itself has its change
\* forgotten: the dispatch of the inner run begins with changed = 0.
NotCalledInOwnDispatch == pc = "handler" /\ ~ nested => cur.born # cur.type

\* Walking a table while its handlers change it never leaves it: the entry that
\* is called is in the table, and as long as the handler has left the table
\* alone, and has not run the loop, it is still the one at the place the walk
\* continues from.
WalkStaysInTable ==
    pc \in {"handler", "dispatch"} /\ cur.i > 0 /\ ~ changed[cur.type] /\ ~ nested =>
        /\ cur.i <= Len(table[cur.type])
        /\ table[cur.type][cur.i].sock = cur.sock

\* eloop_terminate takes effect without pselect having to return once more, in
\* all the runs of the loop there are.
TerminateEndsRun == terminate ~> pc = "out"

\* A socket that stays registered for reading and ready is served again and
\* again as long as the loop runs.
Waiting(s) == /\ pc # "out"
              /\ s \in Socks("read")
              /\ s \in ready["read"]
Served(s) == pc = "handler" /\ cur.type = "read" /\ cur.sock = s
ReadySocketServed == \A s \in Sock : Waiting(s) ~> (Served(s) \/ ~ Waiting(s))

=============================================================================
