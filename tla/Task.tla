-------------------------------- MODULE Task --------------------------------
(***************************************************************************)
(* The tasks of eloop/context.c (USE_LIBTASK_LITE): contexts with a stack  *)
(* of their own that run in the thread of eloop_run.  A task sleeps by     *)
(* registering a timeout, and a read socket if it wants, with its context  *)
(* as the handler's argument and switching to the default context, which   *)
(* is the thread's own stack; the handler switches back.  A task may leave *)
(* a callback that the default context calls before it goes on.            *)
(*                                                                         *)
(* The stack of the default context is frames: every switch from it leaves *)
(* a frame of switch2task that waits for its task to switch back, and every*)
(* callback one in which it runs.  Only the last frame can go on.          *)
(*                                                                         *)
(* The library checks nothing: a task may be destroyed while it sleeps or  *)
(* after its end, or be resumed by its own callback.  misused records that *)
(* the application has done so, and broken that the library then uses a    *)
(* context after its end, which is undefined behaviour.                    *)
(***************************************************************************)
EXTENDS Integers, Sequences, FiniteSets

CONSTANTS Tasks,    (* the contexts make_task returns *)
          Default,  (* default_ctx *)
          Null,     (* NULL *)
          UserData, (* values of callback_ctx, 0 is NULL *)
          Word,     (* a pointer is cut to an int: its value modulo Word *)
          MaxFrames (* bound: callbacks and switches on top of each other *)

ASSUME TaskAssumption ==
    /\ Default \notin Tasks
    /\ Null \notin Tasks \cup {Default}
    /\ UserData \subseteq Nat
    /\ Word \in Nat \ {0}
    /\ MaxFrames \in Nat \ {0}

VARIABLES default_ctx,  (* the default context is allocated *)
          cur_task_ctx, (* the context that runs *)
          onExit,       (* g_OnExit_task_callback is set *)
          pc,           (* where each task is *)
          frames,       (* the stack of the default context *)
          bIsTimeout,   (* ctx->bIsTimeout *)
          callback,     (* ctx->callback is set *)
          bCompleted,   (* ctx->bCompleted *)
          callback_ctx, (* the argument of the sleep of a task *)
          timeouts,     (* <<t, d>>: a timeout for t with user data d waits *)
          socks,        (* the tasks with a read socket registered *)
          ended,        (* defaultloop_task_final was called *)
          misused,      (* history: tasks used against the rules *)
          broken        (* the program has used a context after its end *)

vars == <<default_ctx, cur_task_ctx, onExit, pc, frames, bIsTimeout, callback,
          bCompleted, callback_ctx, timeouts, socks, ended, misused, broken>>

\* A task that is cut was freed in its sleep.
Place == {"none", "new", "run", "sleep", "wait", "exit", "freed", "cut"}

Frame == [at : {"switch", "callback", "onexit"}, ctx : Tasks]

Init == /\ default_ctx = FALSE
        /\ cur_task_ctx = Null
        /\ onExit = FALSE
        /\ pc = [t \in Tasks |-> "none"]
        /\ frames = <<>>
        /\ bIsTimeout = [t \in Tasks |-> 0]
        /\ callback = [t \in Tasks |-> FALSE]
        /\ bCompleted = [t \in Tasks |-> FALSE]
        /\ callback_ctx = [t \in Tasks |-> 0]
        /\ timeouts = {}
        /\ socks = {}
        /\ ended = FALSE
        /\ misused = {}
        /\ broken = FALSE

-----------------------------------------------------------------------------
(* Switching *)

\* The thread is in eloop_run, or in the callback on top of the stack.
InLoop == frames = <<>>
OnDefault == cur_task_ctx \in {Default, Null} /\ ~ broken
Top == frames[Len(frames)]
Below == SubSeq(frames, 1, Len(frames) - 1)

\* The frame a switch leaves on the stack of the default context looks, after
\* the task has switched back, at newCtx.
LeftFrame(t) == [at |-> "switch", ctx |-> t]

\* A sleep that ends cancels its timeout unless it was the timeout that woke it
\* with no user data.
\* Mutations of CancelledBy: only a socket's handler leaves something to cancel;
\* all timeouts with the handler of tasks are cancelled.
CancelledBySock(t, woken) ==
    IF pc[t] = "sleep" /\ woken = 0 THEN {<<t, callback_ctx[t]>>} ELSE {}
CancelledForAll(t, woken) == IF pc[t] = "sleep" /\ woken # 1 THEN timeouts ELSE {}

CancelledBy(t, woken) ==
    IF pc[t] = "sleep" /\ woken # 1 THEN {<<t, callback_ctx[t]>>} ELSE {}

\* Mutation of MaySwitch: the caller is not compared with the running context.
MaySwitchAnyhow == TRUE

MaySwitch == cur_task_ctx = Default

\* switch2task from the default context, with what the task does on its own
\* before its next step.  fired is the timeout that wakes t, woken what its
\* handler left in bIsTimeout.
switch2task(t, fired, woken) ==
    IF MaySwitch
    THEN /\ cur_task_ctx' = t
         /\ frames' = Append(frames, LeftFrame(t))
         /\ pc' = [pc EXCEPT ![t] = "run"]
         /\ timeouts' = (timeouts \ fired) \ CancelledBy(t, woken)
    ELSE /\ timeouts' = timeouts \ fired
         /\ UNCHANGED <<cur_task_ctx, pc, frames>>

\* A task that is over must not be resumed: exit_task would return, or the
\* context is not there any more.
Over(t) == pc[t] \in {"exit", "freed", "cut"}

\* The program goes on with a context that is over.
Breaks == /\ broken' = TRUE
          /\ UNCHANGED <<cur_task_ctx, pc, frames, callback>>

Freed(p, t) == [p EXCEPT ![t] = "freed"]

\* ifCompleted_task up to its first call of the application, if it makes one.
\* The task that gives control back is in state p with callback h.
ifCompleted_task(t, p, h, completed) ==
    LET at(f) == frames' = Append(Below, [at |-> f, ctx |-> t])
    IN  \/ h /\ at("callback") /\ pc' = p
        \/ ~ h /\ completed /\ onExit /\ at("onexit") /\ pc' = p
        \/ ~ h /\ completed /\ ~ onExit /\ frames' = Below /\ pc' = Freed(p, t)
        \/ ~ h /\ ~ completed /\ frames' = Below /\ pc' = p

\* callback_on_defaultloop: the task leaves its callback and switches to the
\* default context, which goes on in the frame that waits there.
callback_on_defaultloop(t, place, h, completed) ==
    /\ cur_task_ctx' = Default
    /\ callback' = [callback EXCEPT ![t] = h]
    /\ bCompleted' = [bCompleted EXCEPT ![t] = completed]
    /\ ifCompleted_task(Top.ctx, [pc EXCEPT ![t] = place],
                        callback'[Top.ctx], bCompleted'[Top.ctx])
    /\ UNCHANGED <<default_ctx, onExit, ended, broken>>

-----------------------------------------------------------------------------
(* The default context *)

defaultloop_task_init(hasExit) ==
    /\ InLoop /\ OnDefault /\ ~ ended
    /\ default_ctx' = TRUE
    /\ onExit' = hasExit
    /\ cur_task_ctx' = IF cur_task_ctx = Null THEN Default ELSE cur_task_ctx
    /\ UNCHANGED <<pc, frames, bIsTimeout, callback, bCompleted, callback_ctx,
                   timeouts, socks, ended, misused, broken>>

defaultloop_task_final ==
    /\ InLoop /\ OnDefault
    /\ default_ctx' = FALSE
    /\ onExit' = FALSE
    /\ cur_task_ctx' = Null
    /\ ended' = TRUE
    /\ UNCHANGED <<pc, frames, bIsTimeout, callback, bCompleted, callback_ctx,
                   timeouts, socks, misused, broken>>

make_task(t) ==
    /\ ~ broken
    /\ pc[t] = "none"
    /\ pc' = [pc EXCEPT ![t] = "new"]
    /\ UNCHANGED <<default_ctx, cur_task_ctx, onExit, frames, bIsTimeout, callback,
                   bCompleted, callback_ctx, timeouts, socks, ended, misused, broken>>

\* The rules that nothing checks: a task is destroyed before it has run or while
\* it waits without a socket, it is resumed while it is suspended, and neither
\* by a callback that is called for it.
NoFrame(t) == \A i \in 1 .. Len(frames) : frames[i].ctx # t
MayDestroy(t) == pc[t] \in {"new", "wait"} /\ t \notin socks /\ NoFrame(t)
MayResume(t) == pc[t] \in {"new", "sleep", "wait"} /\ NoFrame(t)

Keeps(t, rule) == misused' = IF rule THEN misused ELSE misused \cup {t}

\* The application destroys a task with the context it has kept, whatever the
\* task does; so does the destructor of a task object, TaskStopSelf.
destroy_task(t) ==
    /\ ~ broken
    /\ pc[t] # "none"
    /\ Keeps(t, MayDestroy(t))
    /\ \/ /\ pc[t] \in {"run", "freed", "cut"}
          /\ Breaks
       \/ /\ pc[t] \in {"new", "sleep", "wait", "exit"}
          /\ pc' = [pc EXCEPT ![t] = IF pc[t] = "sleep" THEN "cut" ELSE "freed"]
          /\ UNCHANGED <<cur_task_ctx, frames, callback, broken>>
    /\ UNCHANGED <<default_ctx, onExit, bIsTimeout, bCompleted, callback_ctx,
                   timeouts, socks, ended>>

\* The default context switches to t; a switch that is refused looks at nothing.
Resumes(t, fired, woken) ==
    \/ /\ MaySwitch /\ Over(t)
       /\ Breaks
       /\ timeouts' = timeouts \ fired
    \/ /\ ~ MaySwitch \/ ~ Over(t)
       /\ switch2task(t, fired, woken)
       /\ UNCHANGED <<callback, broken>>

\* From any context, once the library is initialised: the application, or a
\* callback, resumes a task.
sched_task(t) ==
    /\ ~ broken /\ cur_task_ctx # Null
    /\ pc[t] # "none"
    /\ Len(frames) < MaxFrames
    /\ Keeps(t, ~ MaySwitch \/ MayResume(t))
    /\ Resumes(t, {}, bIsTimeout[t])
    /\ UNCHANGED <<default_ctx, onExit, bIsTimeout, bCompleted, callback_ctx,
                   socks, ended>>

\* A switch that is refused leaves the task new.
start_task(t) ==
    /\ ~ broken
    /\ pc[t] = "new"
    /\ Len(frames) < MaxFrames
    /\ default_ctx' = TRUE
    /\ Keeps(t, ~ MaySwitch \/ MayResume(t))
    /\ Resumes(t, {}, bIsTimeout[t])
    /\ UNCHANGED <<onExit, bIsTimeout, bCompleted, callback_ctx, socks, ended>>

\* defaultloop_handler_for_task: the handlers of the loop write into the context
\* of their task and resume it, in a default context that they make.
Handler(t, fired, woken) ==
    /\ InLoop /\ OnDefault
    /\ bIsTimeout' = [bIsTimeout EXCEPT ![t] = woken]
    /\ default_ctx' = TRUE
    /\ \/ pc[t] \in {"freed", "cut"} /\ Breaks /\ timeouts' = timeouts \ fired
       \/ pc[t] \notin {"freed", "cut"} /\ Resumes(t, fired, woken)
    /\ UNCHANGED <<onExit, bCompleted, callback_ctx, socks, ended, misused>>

\* The loop calls defaultloop_timeout_handler_for_task, whose argument the
\* task finds in bIsTimeout, cut to 32 bits.
TimeoutFires(t) ==
    \E d \in UserData : /\ <<t, d>> \in timeouts
                        /\ Handler(t, {<<t, d>>}, IF d # 0 THEN d % Word ELSE 1)

\* The loop calls defaultloop_sock_handler_for_task.
SockFires(t) == t \in socks /\ Handler(t, {}, 0)

\* The rest of ifCompleted_task, when the application's function returns.
CallbackReturns(depth) ==
    /\ ~ InLoop /\ cur_task_ctx = Default /\ ~ broken
    /\ Len(frames) = depth
    /\ LET t == Top.ctx
       IN  \/ pc[t] \in {"freed", "cut"} /\ Breaks
           \/ /\ pc[t] \notin {"freed", "cut"}
              /\ callback' = IF Top.at = "callback"
                             THEN [callback EXCEPT ![t] = FALSE] ELSE callback
              /\ pc' = IF bCompleted[t] THEN Freed(pc, t) ELSE pc
              /\ frames' = Below
              /\ UNCHANGED <<cur_task_ctx, broken>>
    /\ UNCHANGED <<default_ctx, onExit, bIsTimeout, bCompleted, callback_ctx,
                   timeouts, socks, ended, misused>>

-----------------------------------------------------------------------------
(* A task *)

Runs(t) == cur_task_ctx = t /\ pc[t] = "run" /\ ~ broken

\* sleep_task_on_defaultloop up to the switch.
sleep_task_on_defaultloop(t, d, h) ==
    /\ Runs(t)
    /\ timeouts' = timeouts \cup {<<t, d>>}
    /\ callback_ctx' = [callback_ctx EXCEPT ![t] = d]
    /\ bIsTimeout' = [bIsTimeout EXCEPT ![t] = -1]
    /\ callback_on_defaultloop(t, "sleep", h, FALSE)
    /\ UNCHANGED <<socks, misused>>

\* callback_on_defaultloop, or sched_defaultloop: woken by its socket or by
\* the callback of another task.
Wait(t, h) ==
    /\ Runs(t)
    /\ callback_on_defaultloop(t, "wait", h, FALSE)
    /\ UNCHANGED <<bIsTimeout, callback_ctx, timeouts, socks, misused>>

\* By the rules a task unregisters its socket before it ends.
exit_task(t, h) ==
    /\ Runs(t)
    /\ Keeps(t, t \notin socks)
    /\ callback_on_defaultloop(t, "exit", h, TRUE)
    /\ UNCHANGED <<bIsTimeout, callback_ctx, timeouts, socks>>

defaultloop_register_read_sock(t) ==
    /\ Runs(t)
    /\ socks' = socks \cup {t}
    /\ UNCHANGED <<default_ctx, cur_task_ctx, onExit, pc, frames, bIsTimeout,
                   callback, bCompleted, callback_ctx, timeouts, ended,
                   misused, broken>>

defaultloop_unregister_read_sock(t) ==
    /\ Runs(t)
    /\ socks' = socks \ {t}
    /\ UNCHANGED <<default_ctx, cur_task_ctx, onExit, pc, frames, bIsTimeout,
                   callback, bCompleted, callback_ctx, timeouts, ended,
                   misused, broken>>

Yields(t) ==
    \E h \in BOOLEAN : \/ \E d \in UserData : sleep_task_on_defaultloop(t, d, h)
                       \/ Wait(t, h)
                       \/ exit_task(t, h)

Depth == 1 .. MaxFrames

Next ==
    \/ \E hasExit \in BOOLEAN : defaultloop_task_init(hasExit)
    \/ defaultloop_task_final
    \/ \E depth \in Depth : CallbackReturns(depth)
    \/ \E t \in Tasks : \/ make_task(t)
                        \/ start_task(t)
                        \/ destroy_task(t)
                        \/ sched_task(t)
                        \/ TimeoutFires(t)
                        \/ SockFires(t)
                        \/ Yields(t)
                        \/ defaultloop_register_read_sock(t)
                        \/ defaultloop_unregister_read_sock(t)

Spec == Init /\ [][Next]_vars

\* The loop serves every timeout (EloopTimeout!NoStarvation); a task gives
\* control back, and a callback returns, as the application must see to.
FairSpec == /\ Spec
            /\ \A depth \in Depth : SF_vars(CallbackReturns(depth))
            /\ \A t \in Tasks : SF_vars(TimeoutFires(t)) /\ WF_vars(Yields(t))

-----------------------------------------------------------------------------
(* Properties *)

TypeOK ==
    /\ default_ctx \in BOOLEAN
    /\ cur_task_ctx \in Tasks \cup {Default, Null}
    /\ onExit \in BOOLEAN
    /\ pc \in [Tasks -> Place]
    /\ frames \in Seq(Frame)
    /\ bIsTimeout \in [Tasks -> Int]
    /\ callback \in [Tasks -> BOOLEAN]
    /\ bCompleted \in [Tasks -> BOOLEAN]
    /\ callback_ctx \in [Tasks -> UserData \cup {0}]
    /\ timeouts \subseteq Tasks \X UserData
    /\ socks \subseteq Tasks
    /\ ended \in BOOLEAN
    /\ misused \subseteq Tasks
    /\ broken \in BOOLEAN

\* A task leaves no timeout behind in the loop: while it runs the one of its last
\* sleep is gone, whichever event woke it (sleep_task_on_defaultloop), and so it
\* stays after its end, unless the application destroys it in its sleep.
NothingLeftBehind ==
    \A t \in Tasks : pc[t] \in {"run", "exit", "freed"} =>
        \A d \in UserData : <<t, d>> \notin timeouts

\* Tasks are coroutines, and what the library does wrong it does with a task that
\* the application has misused (ifCompleted_task, defaultloop_handler_for_task).
Lifecycle(t) ==
    CASE pc[t] = "none" -> "none"
      [] pc[t] \in {"new", "sleep", "wait"} -> "suspended"
      [] pc[t] = "run" -> "running"
      [] pc[t] = "exit" -> "ended"
      [] pc[t] \in {"freed", "cut"} -> "gone"

C == INSTANCE Coroutine WITH state <- [t \in Tasks |-> Lifecycle(t)]

ImplementsCoroutine == C!Spec

\* A task that sleeps is woken, unless the library is shut down or has used a
\* context after its end.
SleepEnds == \A t \in Tasks : pc[t] = "sleep" ~> pc[t] # "sleep" \/ ended \/ broken

=============================================================================
