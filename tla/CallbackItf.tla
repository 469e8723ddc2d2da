----------------------------- MODULE CallbackItf -----------------------------
(***************************************************************************)
(* eloop/eloop_callback_itf.h: C++ objects whose methods the loop calls.   *)
(* The loop gets a function of this file and, as its context, either a pair*)
(* (object and method) that is allocated for the registration, or the      *)
(* object itself.  Pairs are deleted when the registration is taken back,  *)
(* or kept by the application, which may use them again.  uiHandled tells  *)
(* whether the timeout of a pair was called: it is no longer in the loop.  *)
(*                                                                         *)
(* The application does what the comments of the file ask for: it unregis- *)
(* ters what it registered before it deletes the object, once, and it gives*)
(* a pair to one registration at a time.                                   *)
(***************************************************************************)
EXTENDS FiniteSets

CONSTANTS Objects,     (* blocks of memory for objects *)
          Pairs,       (* blocks of memory for pairs *)
          Keys,        (* timer ids, sockets, signals *)
          None,        (* no call yet, something deleted that is called, or no pair *)
          KeepSignals  (* the application does not unregister signals *)

Kind == {"timeout", "read", "write", "signal"}
Via == Pairs \cup Objects
Registration == [kind : Kind, key : Keys, obj : Objects]
EloopIntFuncPair == [obj : Objects, uiHandled : BOOLEAN]

CallbackItfAssumption ==
    /\ Objects \cap Pairs = {}
    /\ None \notin Objects \cup EloopIntFuncPair
    /\ KeepSignals \in BOOLEAN

VARIABLES alive,  (* the objects that exist *)
          pair,   (* what each block is: None or [obj, uiHandled] *)
          loop,   (* registrations in the event loop: [kind, key, via] *)
          held,   (* registrations the application has not taken back and
                     that were not used up *)
          kept,   (* pairs the application keeps without a registration *)
          called  (* the last call: [kind, key, obj] *)

vars == <<alive, pair, loop, held, kept, called>>

Init == /\ alive = {}
        /\ pair = [p \in Pairs |-> None]
        /\ loop = {}
        /\ held = {}
        /\ kept = {}
        /\ called = None

-----------------------------------------------------------------------------
(* Objects *)

Constructor(o) == /\ o \notin alive
                  /\ alive' = alive \cup {o}
                  /\ UNCHANGED <<pair, loop, held, kept, called>>

\* The destructors of the interface do nothing.
Destructor(o) == /\ o \in alive
                 /\ \A h \in held : h.obj # o
                 /\ \A p \in kept : pair[p].obj # o
                 /\ alive' = alive \ {o}
                 /\ UNCHANGED <<pair, loop, held, kept, called>>

-----------------------------------------------------------------------------
(* Registration *)

Entry(kind, key, via) == [kind |-> kind, key |-> key, via |-> via]
Handle(kind, key, o, via) == [kind |-> kind, key |-> key, obj |-> o, via |-> via]

\* One reader and one writer for a socket, one callback for a signal.
Unused(kind, key, o) ==
    \A h \in held : h.kind = kind /\ h.key = key => kind = "timeout" /\ h.obj # o

\* What a pair says when it is given to a registration.
\* Mutation of Fresh: uiHandled stays as the last registration left it.
FreshUnlessReused(p, o) ==
    [obj |-> o, uiHandled |-> IF pair[p] = None THEN FALSE ELSE pair[p].uiHandled]

Fresh(p, o) == [obj |-> o, uiHandled |-> FALSE]

\* TimeoutRegisterCb, ReadRegister, WriteRegister, SignalRegister with a pair: a
\* new one, or one that the application kept.  When the loop refuses, the pair
\* is deleted.
RegisterCb(kind, key, o, p) ==
    /\ o \in alive
    /\ Unused(kind, key, o)
    /\ pair[p] = None \/ p \in kept
    /\ kept' = kept \ {p}
    /\ \/ /\ loop' = loop \cup {Entry(kind, key, p)}
          /\ held' = held \cup {Handle(kind, key, o, p)}
          /\ pair' = [pair EXCEPT ![p] = Fresh(p, o)]
       \/ /\ pair' = [pair EXCEPT ![p] = None]
          /\ UNCHANGED <<loop, held>>
    /\ UNCHANGED <<alive, called>>

\* The same with the object as the context.
RegisterId(kind, key, o) ==
    /\ o \in alive
    /\ Unused(kind, key, o)
    /\ loop' = loop \cup {Entry(kind, key, o)}
    /\ held' = held \cup {Handle(kind, key, o, o)}
    /\ UNCHANGED <<alive, pair, kept, called>>

-----------------------------------------------------------------------------
(* Unregistration *)

\* eloop_cancel_timeout takes out what has the same context and id.
Cancelled(via, key) == loop \ {Entry("timeout", key, via)}

TimeoutsLeft(p, key, bCtxFree) == IF pair[p].uiHandled THEN loop ELSE Cancelled(p, key)

\* eloop_unregister_sock takes out the entry of the socket.
SocketsLeft(kind, key) == {e \in loop : ~ (e.kind = kind /\ e.key = key)}

\* The loop has no function that takes a signal back.
LoopWithout(h, bCtxFree) ==
    CASE h.kind = "timeout" /\ h.via \in Pairs -> TimeoutsLeft(h.via, h.key, bCtxFree)
      [] h.kind = "timeout" /\ h.via \in Objects -> Cancelled(h.via, h.key)
      [] h.kind \in {"read", "write"} -> SocketsLeft(h.kind, h.key)
      [] h.kind = "signal" -> loop

\* The pair is deleted, or kept.
\* Mutation of Deleted: a pair whose timeout was called is forgotten.
DeletedUnlessHandled(p) == IF pair[p].uiHandled THEN pair ELSE [pair EXCEPT ![p] = None]

Deleted(p) == [pair EXCEPT ![p] = None]

UnregisterCb(h, bCtxFree) ==
    /\ h \in held /\ h.via \in Pairs
    /\ KeepSignals => h.kind # "signal"
    /\ held' = held \ {h}
    /\ loop' = LoopWithout(h, bCtxFree)
    /\ IF bCtxFree
       THEN pair' = Deleted(h.via) /\ UNCHANGED kept
       ELSE kept' = kept \cup {h.via} /\ UNCHANGED pair
    /\ UNCHANGED <<alive, called>>

UnregisterId(h) ==
    /\ h \in held /\ h.via \in Objects
    /\ KeepSignals => h.kind # "signal"
    /\ held' = held \ {h}
    /\ loop' = LoopWithout(h, TRUE)
    /\ UNCHANGED <<alive, pair, kept, called>>

\* TimeoutUnregisterCb for a pair whose timeout was called or taken back: only
\* the pair is deleted, unless a timeout with that id is found.
TimeoutUnregisterCb(p, key) ==
    /\ p \in kept
    /\ loop' = TimeoutsLeft(p, key, TRUE)
    /\ pair' = Deleted(p)
    /\ kept' = kept \ {p}
    /\ UNCHANGED <<alive, held, called>>

-----------------------------------------------------------------------------
(* Calls *)

\* The object that a registration in the loop leads to now.
Target(via) == IF via \in Objects THEN via
               ELSE IF pair[via] = None THEN None ELSE pair[via].obj

\* OnTimeoutCallbackFuncDynamic, OnSocketReceiveFuncDynamic and the others: the
\* loop has taken a timeout out of its list before it calls it.
Call(e) ==
    LET o == Target(e.via)
        isTimeout == e.kind = "timeout"
    IN  /\ e \in loop
        /\ called' = [kind |-> e.kind, key |-> e.key,
                      obj |-> IF o \in alive THEN o ELSE None]
        /\ loop' = IF isTimeout THEN loop \ {e} ELSE loop
        /\ pair' = IF e.via \in Pairs /\ o # None
                   THEN [pair EXCEPT ![e.via].uiHandled = TRUE] ELSE pair
        /\ LET h == Handle(e.kind, e.key, o, e.via)
           IN  IF isTimeout /\ h \in held
               THEN /\ held' = held \ {h}
                    /\ kept' = kept \cup ({e.via} \cap Pairs)
               ELSE UNCHANGED <<held, kept>>
        /\ UNCHANGED alive

Next ==
    \/ \E o \in Objects : Constructor(o) \/ Destructor(o)
    \/ \E kind \in Kind, key \in Keys, o \in Objects :
           \/ RegisterId(kind, key, o)
           \/ \E p \in Pairs : RegisterCb(kind, key, o, p)
    \/ \E h \in held : UnregisterId(h) \/ \E bCtxFree \in BOOLEAN : UnregisterCb(h, bCtxFree)
    \/ \E p \in Pairs, key \in Keys : TimeoutUnregisterCb(p, key)
    \/ \E e \in loop : Call(e)

Spec == Init /\ [][Next]_vars

-----------------------------------------------------------------------------
(* Properties *)

TypeOK ==
    /\ alive \subseteq Objects
    /\ pair \in [Pairs -> EloopIntFuncPair \cup {None}]
    /\ loop \subseteq [kind : Kind, key : Keys, via : Via]
    /\ held \subseteq [kind : Kind, key : Keys, obj : Objects, via : Via]
    /\ kept \subseteq Pairs
    /\ called \in [kind : Kind, key : Keys, obj : Objects \cup {None}] \cup {None}

\* The pairs that exist are those the application can still delete: every
\* registration with a pair leads to a pair of its own, and none is lost
\* (EloopIntFuncPair, uiHandled).
PairsOwned ==
    LET used == {h.via : h \in held} \cap Pairs
    IN  /\ {p \in Pairs : pair[p] # None} = used \cup kept
        /\ used \cap kept = {}
        /\ \A h, k \in held : h.via = k.via /\ h.via \in Pairs => h = k

R == INSTANCE CallbackRegistry WITH
         registered <- {[kind |-> h.kind, key |-> h.key, obj |-> h.obj] : h \in held}

\* A method is called only on an object that exists and is registered for the
\* call, whatever the loop had registered before ("called with registered
\* state").
ImplementsRegistry == R!Spec

=============================================================================
