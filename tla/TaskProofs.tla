----------------------------- MODULE TaskProofs -----------------------------
(***************************************************************************)
(* Proofs about tasks, for any number of them: a task leaves no timeout    *)
(* behind, and each is a coroutine, whatever the application does, until   *)
(* it has misused a task and the library goes on with it.                  *)
(***************************************************************************)
EXTENDS Task, TLAPS

\* The task that runs is the current context, and the default context waits for
\* it in its last frame.
Control ==
    /\ \A t \in Tasks : pc[t] = "run" <=> cur_task_ctx = t
    /\ cur_task_ctx \in Tasks => frames # <<>> /\ Top.ctx = cur_task_ctx

\* A task completes by exit_task alone.
Completed == \A t \in Tasks : bCompleted[t] => Over(t)

\* A timeout that waits is that of the sleep its task is in, or was destroyed
\* in, and nothing has told the task that it has fired.
TimeoutsOfSleeps ==
    \A t \in Tasks, d \in UserData :
        <<t, d>> \in timeouts =>
            pc[t] \in {"sleep", "cut"} /\ d = callback_ctx[t] /\ bIsTimeout[t] # 1

\* The rules have been broken for a task that was cut, for one that is over with
\* a socket, for one with two frames and for one that was freed with a frame.
RulesOf ==
    /\ \A t \in Tasks : pc[t] = "cut" => t \in misused
    /\ \A t \in socks : pc[t] \in {"run", "sleep", "wait"} \/ (Over(t) /\ t \in misused)

FramesOK ==
    /\ \A i, j \in 1 .. Len(frames) :
           i # j /\ frames[i].ctx = frames[j].ctx => frames[i].ctx \in misused
    /\ \A i \in 1 .. Len(frames) :
           pc[frames[i].ctx] \in {"freed", "cut"} => frames[i].ctx \in misused

Inv == TypeOK /\ Control /\ Completed /\ TimeoutsOfSleeps /\ RulesOf /\ FramesOK

-----------------------------------------------------------------------------
(* Steps that change little *)

LEMMA InvInit == ASSUME Init PROVE Inv
<1>1. Null \notin Tasks
    BY TaskAssumption
<1>2. TypeOK
    <2>1. frames \in Seq(Frame)
        BY DEF Init
    <2>2. pc \in [Tasks -> Place]
        BY DEF Init, Place
    <2>3. /\ bIsTimeout \in [Tasks -> Int]
          /\ callback \in [Tasks -> BOOLEAN]
          /\ bCompleted \in [Tasks -> BOOLEAN]
          /\ callback_ctx \in [Tasks -> UserData \cup {0}]
        BY DEF Init
    <2>4. /\ default_ctx \in BOOLEAN
          /\ cur_task_ctx \in Tasks \cup {Default, Null}
          /\ onExit \in BOOLEAN
          /\ timeouts \subseteq Tasks \X UserData
          /\ socks \subseteq Tasks
          /\ ended \in BOOLEAN
          /\ misused \subseteq Tasks
          /\ broken \in BOOLEAN
        BY DEF Init
    <2> QED BY <2>1, <2>2, <2>3, <2>4 DEF TypeOK
<1>3. Control
    BY <1>1 DEF Init, Control
<1>4. Completed /\ TimeoutsOfSleeps /\ RulesOf /\ FramesOK
    BY DEF Init, Completed, TimeoutsOfSleeps, RulesOf, FramesOK
<1> QED BY <1>2, <1>3, <1>4 DEF Inv

\* The context, the tasks and what they wait for stay.
LEMMA TasksKept ==
    ASSUME Inv, UNCHANGED <<cur_task_ctx, pc, frames, bIsTimeout, callback, bCompleted,
                            callback_ctx, timeouts, socks>>,
           default_ctx' \in BOOLEAN, onExit' \in BOOLEAN, ended' \in BOOLEAN,
           broken' \in BOOLEAN, misused \subseteq misused', misused' \subseteq Tasks
    PROVE  Inv'
<1> USE DEF Inv
<1>1. TypeOK' /\ Control'
    BY DEF TypeOK, Control, Top
<1>2. Completed' /\ TimeoutsOfSleeps'
    BY DEF Completed, TimeoutsOfSleeps, Over
<1>3. RulesOf' /\ FramesOK'
    BY DEF RulesOf, FramesOK, Over
<1> QED BY <1>1, <1>2, <1>3

\* The library begins or ends in the default context.
LEMMA DefaultKept ==
    ASSUME Inv, cur_task_ctx \in {Default, Null}, cur_task_ctx' \in {Default, Null},
           UNCHANGED <<pc, frames, bIsTimeout, callback, bCompleted, callback_ctx, timeouts,
                       socks, misused, broken>>,
           default_ctx' \in BOOLEAN, onExit' \in BOOLEAN, ended' \in BOOLEAN
    PROVE  Inv'
<1> USE DEF Inv
<1>1. Default \notin Tasks /\ Null \notin Tasks
    BY TaskAssumption
<1>2. TypeOK' /\ Control'
    BY <1>1 DEF TypeOK, Control, Top
<1>3. Completed' /\ TimeoutsOfSleeps'
    BY DEF Completed, TimeoutsOfSleeps, Over
<1>4. RulesOf' /\ FramesOK'
    BY DEF RulesOf, FramesOK, Over
<1> QED BY <1>2, <1>3, <1>4

\* Every frame waits for a task.
LEMMA FramesOfTasks ==
    ASSUME TypeOK
    PROVE  \A i \in 1 .. Len(frames) : frames[i] \in Frame /\ frames[i].ctx \in Tasks
<1>1. \A i \in 1 .. Len(frames) : frames[i] \in Frame
    BY DEF TypeOK
<1>2. \A f \in Frame : f.ctx \in Tasks
    BY DEF Frame
<1> QED BY <1>1, <1>2

\* A frame on top of the stack for a task that has none, or is misused.
LEMMA Pushed ==
    ASSUME TypeOK, FramesOK, NEW t \in Tasks, frames' = Append(frames, LeftFrame(t)),
           pc' = [pc EXCEPT ![t] = "run"], misused \subseteq misused',
           NoFrame(t) \/ t \in misused'
    PROVE  FramesOK'
<1>1. /\ Len(frames) \in Nat /\ Len(frames') = Len(frames) + 1
      /\ \A i \in 1 .. Len(frames) : frames[i] \in Frame /\ frames'[i] = frames[i]
      /\ frames'[Len(frames) + 1] = LeftFrame(t)
    BY DEF TypeOK
<1>2. /\ \A i \in 1 .. Len(frames') : i \in 1 .. Len(frames) \/ i = Len(frames) + 1
      /\ LeftFrame(t).ctx = t
    BY <1>1 DEF LeftFrame
<1>3. /\ \A u \in Tasks : pc'[u] = IF u = t THEN "run" ELSE pc[u]
      /\ \A i \in 1 .. Len(frames) : frames[i].ctx \in Tasks
    BY <1>1 DEF TypeOK, Frame
<1>4. \A i, j \in 1 .. Len(frames') :
          i # j /\ frames'[i].ctx = frames'[j].ctx => frames'[i].ctx \in misused'
    BY <1>1, <1>2 DEF FramesOK, NoFrame
<1>5. \A i \in 1 .. Len(frames') :
          pc'[frames'[i].ctx] \in {"freed", "cut"} => frames'[i].ctx \in misused'
    BY <1>1, <1>2, <1>3 DEF FramesOK
<1> QED BY <1>4, <1>5 DEF FramesOK

\* A switch to a task that does not run and is not over, which keeps the rules
\* or is noted.
LEMMA Switched ==
    ASSUME Inv, NEW t \in Tasks, MaySwitch => pc[t] \in {"new", "sleep", "wait"},
           NEW fired, NEW woken, switch2task(t, fired, woken),
           \A d \in UserData : <<t, d>> \in timeouts \ fired => woken # 1 /\ bIsTimeout'[t] # 1,
           bIsTimeout' \in [Tasks -> Int],
           \A u \in Tasks : u # t => bIsTimeout'[u] = bIsTimeout[u],
           default_ctx' \in BOOLEAN,
           misused \subseteq misused', misused' \subseteq Tasks,
           MaySwitch => NoFrame(t) \/ t \in misused',
           UNCHANGED <<onExit, callback, bCompleted, callback_ctx, socks, ended, broken>>
    PROVE  Inv'
<1> USE DEF Inv
<1>1. Default \notin Tasks
    BY TaskAssumption
<1>2. timeouts' \subseteq timeouts \ fired
    BY DEF switch2task
<1>3. CASE cur_task_ctx = Default
    <2> pc[t] \in {"new", "sleep", "wait"}
        BY <1>3 DEF MaySwitch
    <2>1. /\ cur_task_ctx' = t
          /\ frames' = Append(frames, LeftFrame(t))
          /\ pc' = [pc EXCEPT ![t] = "run"]
          /\ timeouts' = (timeouts \ fired) \ CancelledBy(t, woken)
        BY <1>3 DEF switch2task, MaySwitch
    <2>2. LeftFrame(t) \in Frame /\ LeftFrame(t).ctx = t
        BY DEF LeftFrame, Frame
    <2>3. /\ frames' \in Seq(Frame) /\ frames' # <<>>
          /\ frames'[Len(frames')].ctx = t
        <3>1. frames \in Seq(Frame)
            BY DEF TypeOK
        <3> HIDE DEF TypeOK
        <3> QED BY <2>1, <2>2, <3>1
    <2>4. /\ pc' \in [Tasks -> Place] /\ pc'[t] = "run"
          /\ \A u \in Tasks : u # t => pc'[u] = pc[u]
        BY <2>1 DEF Place, TypeOK
    <2>5. TypeOK'
        BY <1>2, <2>1, <2>3, <2>4 DEF TypeOK
    <2>6. \A u \in Tasks : pc[u] # "run"
        BY <1>1, <1>3 DEF Control
    <2>7. Control'
        BY <2>1, <2>3, <2>4, <2>6 DEF Control, Top
    <2>8. Completed' /\ RulesOf'
        BY <2>4 DEF Completed, RulesOf, TypeOK, Over
    <2>9. \A d \in UserData : <<t, d>> \notin timeouts'
        <3> SUFFICES ASSUME NEW d \in UserData, <<t, d>> \in timeouts \ fired
                     PROVE  <<t, d>> \in CancelledBy(t, woken)
            BY <2>1
        <3>1. woken # 1 /\ pc[t] = "sleep" /\ d = callback_ctx[t]
            BY DEF TimeoutsOfSleeps
        <3> QED BY <3>1 DEF CancelledBy
    <2>10. TimeoutsOfSleeps'
        BY <1>2, <2>4, <2>9 DEF TimeoutsOfSleeps
    <2>11. FramesOK'
        BY <1>3, <2>1, Pushed DEF MaySwitch
    <2> QED BY <2>5, <2>7, <2>8, <2>10, <2>11
<1>4. CASE cur_task_ctx # Default
    <2>1. timeouts' = timeouts \ fired /\ UNCHANGED <<cur_task_ctx, pc, frames>>
        BY <1>4 DEF switch2task, MaySwitch
    <2>2. TypeOK'
        BY <1>2, <2>1 DEF TypeOK
    <2>3. Control'
        BY <2>1 DEF Control, Top
    <2>4. Completed' /\ RulesOf' /\ FramesOK'
        BY <2>1 DEF Completed, RulesOf, FramesOK, Over
    <2>5. TimeoutsOfSleeps'
        <3> SUFFICES ASSUME NEW u \in Tasks, NEW d \in UserData, <<u, d>> \in timeouts \ fired
                     PROVE  /\ pc'[u] \in {"sleep", "cut"}
                            /\ d = callback_ctx[u] /\ bIsTimeout'[u] # 1
            BY <2>1 DEF TimeoutsOfSleeps
        <3>1. pc[u] \in {"sleep", "cut"} /\ d = callback_ctx[u] /\ bIsTimeout[u] # 1
            BY DEF TimeoutsOfSleeps
        <3> QED BY <2>1, <3>1
    <2> QED BY <2>2, <2>3, <2>4, <2>5
<1> QED BY <1>3, <1>4

\* The program goes on with a context that is over: nothing is promised then,
\* but the invariant stays.
LEMMA BrokenKeeps ==
    ASSUME Inv, Breaks, default_ctx' \in BOOLEAN, bIsTimeout' \in [Tasks -> Int],
           timeouts' \subseteq timeouts,
           \A u \in Tasks, d \in UserData : <<u, d>> \in timeouts' => bIsTimeout'[u] # 1,
           misused \subseteq misused', misused' \subseteq Tasks,
           UNCHANGED <<onExit, bCompleted, callback_ctx, socks, ended>>
    PROVE  Inv'
<1> USE DEF Inv
<1>1. broken' = TRUE /\ UNCHANGED <<cur_task_ctx, pc, frames, callback>>
    BY DEF Breaks
<1>2. TypeOK'
    BY <1>1 DEF TypeOK
<1>3. Control'
    BY <1>1 DEF Control, Top
<1>4. Completed' /\ RulesOf' /\ FramesOK'
    BY <1>1 DEF Completed, RulesOf, FramesOK, Over
<1>5. TimeoutsOfSleeps'
    BY <1>1 DEF TimeoutsOfSleeps
<1> QED BY <1>2, <1>3, <1>4, <1>5

\* The stack without its last frame.
LEMMA BelowIsSeq ==
    ASSUME frames \in Seq(Frame), frames # <<>>
    PROVE  Below \in Seq(Frame)
<1>1. /\ Len(frames) \in Nat /\ Len(frames) # 0
      /\ \A i \in 1 .. Len(frames) : frames[i] \in Frame
    OBVIOUS
<1>2. Len(frames) - 1 \in Nat
    BY <1>1
<1>3. Below = [i \in 1 .. (Len(frames) - 1) |-> frames[i]]
    BY <1>1, <1>2 DEF Below
<1>4. Below \in [1 .. (Len(frames) - 1) -> Frame]
    BY <1>1, <1>3
<1> QED BY <1>2, <1>4

\* The last frame goes, or becomes another one of its task; a task that is freed
\* loses its last frame.
LEMMA Popped ==
    ASSUME TypeOK, FramesOK, frames # <<>>, NEW t, t = Top.ctx,
           \/ frames' = Below
           \/ \E f : frames' = Append(Below, [at |-> f, ctx |-> t]),
           \A u \in Tasks : u # t => pc'[u] = pc[u],
           pc'[t] \in {"freed", "cut"} => frames' = Below,
           misused \subseteq misused'
    PROVE  FramesOK'
<1> DEFINE n == Len(frames)
<1>1. /\ n \in Nat /\ n # 0 /\ n \in 1 .. n
      /\ \A i \in 1 .. n : frames[i] \in Frame /\ frames[i].ctx \in Tasks
    <2>1. n \in Nat /\ n # 0
        BY DEF TypeOK
    <2> QED BY <2>1, FramesOfTasks
<1>2. /\ Len(Below) = n - 1 /\ Below \in Seq(Frame)
      /\ \A i \in 1 .. n - 1 : Below[i] = frames[i] /\ i \in 1 .. n /\ i # n
    <2>1. Below = [i \in 1 .. (n - 1) |-> frames[i]]
        BY <1>1 DEF Below
    <2>2. Below \in Seq(Frame)
        BY BelowIsSeq DEF TypeOK
    <2> QED BY <1>1, <2>1, <2>2
<1>3. frames[n].ctx = t
    BY DEF Top
<1> HIDE DEF n
<1>4. CASE frames' = Below
    <2>1. \A i \in 1 .. n - 1 : frames[i].ctx = t => t \in misused
        BY <1>1, <1>2, <1>3 DEF FramesOK, n
    <2>2. /\ Len(frames') = n - 1
          /\ \A i \in 1 .. n - 1 : /\ frames'[i] = frames[i] /\ i \in 1 .. Len(frames)
                                   /\ frames[i].ctx \in Tasks
        BY <1>1, <1>2, <1>4 DEF n
    <2> QED BY <2>1, <2>2 DEF FramesOK
<1>5. ASSUME NEW f, frames' = Append(Below, [at |-> f, ctx |-> t]), frames' # Below
      PROVE  FramesOK'
    <2>1. /\ Len(frames') = n
          /\ \A i \in 1 .. n - 1 : frames'[i] = frames[i]
          /\ frames'[n] = [at |-> f, ctx |-> t]
        BY <1>1, <1>2, <1>5
    <2>2. \A i \in 1 .. n : frames'[i].ctx = frames[i].ctx
        <3>1. \A i \in 1 .. n : i \in 1 .. n - 1 \/ i = n
            BY <1>1
        <3> QED BY <1>3, <2>1, <3>1
    <2>3. pc'[t] \notin {"freed", "cut"}
        BY <1>5
    <2>4. \A i \in 1 .. n : frames[i].ctx \in Tasks
        BY <1>1
    <2> QED BY <2>1, <2>2, <2>3, <2>4 DEF FramesOK, n
<1> QED BY <1>4, <1>5

\* A task gives control back.
LEMMA GivenBack ==
    ASSUME Inv, NEW t \in Tasks, pc[t] = "run", NEW place \in {"sleep", "wait", "exit"},
           NEW h \in BOOLEAN, NEW completed \in BOOLEAN, completed <=> place = "exit",
           callback_on_defaultloop(t, place, h, completed),
           place = "exit" => t \notin socks \/ t \in misused',
           misused \subseteq misused', misused' \subseteq Tasks,
           timeouts' \subseteq Tasks \X UserData,
           \A u \in Tasks, d \in UserData :
               u # t /\ <<u, d>> \in timeouts' => <<u, d>> \in timeouts,
           \A d \in UserData :
               <<t, d>> \in timeouts' =>
                   place = "sleep" /\ d = callback_ctx'[t] /\ bIsTimeout'[t] # 1,
           bIsTimeout' \in [Tasks -> Int], callback_ctx' \in [Tasks -> UserData \cup {0}],
           \A u \in Tasks : u # t => /\ bIsTimeout'[u] = bIsTimeout[u]
                                     /\ callback_ctx'[u] = callback_ctx[u],
           UNCHANGED socks
    PROVE  /\ Inv'
           /\ \/ pc' = [pc EXCEPT ![t] = place]
              \/ place = "exit" /\ pc' = [pc EXCEPT ![t] = "freed"]
<1> USE DEF Inv
<1> DEFINE p == [pc EXCEPT ![t] = place]
<1>1. cur_task_ctx = t /\ frames # <<>> /\ Top.ctx = t
    BY DEF Control
<1>2. /\ cur_task_ctx' = Default
      /\ callback' = [callback EXCEPT ![t] = h]
      /\ bCompleted' = [bCompleted EXCEPT ![t] = completed]
      /\ ifCompleted_task(t, p, callback'[t], bCompleted'[t])
      /\ UNCHANGED <<default_ctx, onExit, ended, broken>>
    BY <1>1 DEF callback_on_defaultloop
<1>3. /\ callback' \in [Tasks -> BOOLEAN] /\ bCompleted' \in [Tasks -> BOOLEAN]
      /\ bCompleted'[t] = completed
      /\ \A u \in Tasks : u # t => bCompleted'[u] = bCompleted[u]
    BY <1>2 DEF TypeOK
<1>4. /\ p \in [Tasks -> Place] /\ p[t] = place
      /\ \A u \in Tasks : u # t => p[u] = pc[u]
    BY DEF TypeOK, Place
<1>5. /\ pc' = p \/ (completed /\ pc' = Freed(p, t))
      /\ \/ frames' = Below
         \/ \E f \in {"callback", "onexit"} : frames' = Append(Below, [at |-> f, ctx |-> t])
    BY <1>2, <1>3 DEF ifCompleted_task
<1>6. /\ Freed(p, t) = [pc EXCEPT ![t] = "freed"]
      /\ Freed(p, t) \in [Tasks -> Place] /\ Freed(p, t)[t] = "freed"
      /\ \A u \in Tasks : u # t => Freed(p, t)[u] = pc[u]
    BY DEF Freed, TypeOK, Place
<1>7. /\ pc' \in [Tasks -> Place]
      /\ pc'[t] = place \/ (completed /\ pc'[t] = "freed")
      /\ \A u \in Tasks : u # t => pc'[u] = pc[u]
    <2> HIDE DEF p
    <2>1. CASE pc' = p
        BY <1>4, <2>1
    <2>2. CASE completed /\ pc' = Freed(p, t)
        BY <1>6, <2>2
    <2> QED BY <1>5, <2>1, <2>2
<1>8. frames' \in Seq(Frame)
    <2>1. Below \in Seq(Frame)
        <3>1. frames \in Seq(Frame) /\ frames # <<>>
            BY <1>1 DEF TypeOK
        <3> QED BY <3>1, BelowIsSeq
    <2>2. CASE frames' = Below
        BY <2>1, <2>2
    <2>3. ASSUME NEW f \in {"callback", "onexit"},
                 frames' = Append(Below, [at |-> f, ctx |-> t])
          PROVE  frames' \in Seq(Frame)
        <3>1. [at |-> f, ctx |-> t] \in Frame
            BY DEF Frame
        <3> HIDE DEF p
        <3> QED BY <2>1, <2>3, <3>1
    <2> QED BY <1>5, <2>2, <2>3
<1>9. TypeOK'
    BY <1>2, <1>3, <1>7, <1>8 DEF TypeOK
<1>10. Default \notin Tasks
    BY TaskAssumption
<1>11. Control'
    <2>1. \A u \in Tasks : u # t => pc[u] # "run"
        BY <1>1 DEF Control
    <2>2. \A u \in Tasks : pc'[u] # "run"
        BY <1>7, <2>1
    <2> QED BY <1>2, <1>10, <2>2 DEF Control
<1>12. Completed'
    BY <1>3, <1>7 DEF Completed, Over
<1>13. RulesOf'
    BY <1>7 DEF RulesOf, TypeOK, Over
<1>16. FramesOK'
    <2>1. pc'[t] \in {"freed", "cut"} => frames' = Below
        <3>1. pc' # p => frames' = Below
            BY <1>2 DEF ifCompleted_task
        <3>2. p[t] \notin {"freed", "cut"}
            BY <1>4
        <3> HIDE DEF p
        <3> QED BY <3>1, <3>2
    <2> HIDE DEF p
    <2> QED BY <1>1, <1>5, <1>7, <2>1, Popped
<1>14. TimeoutsOfSleeps'
    BY <1>7 DEF TimeoutsOfSleeps
<1>15. \/ pc' = [pc EXCEPT ![t] = place]
       \/ place = "exit" /\ pc' = [pc EXCEPT ![t] = "freed"]
    BY <1>5, <1>6
<1> QED BY <1>9, <1>11, <1>12, <1>13, <1>14, <1>15, <1>16

-----------------------------------------------------------------------------
(* Every step *)

\* Where the tasks are after a step: a switch moves one that does not run while
\* the default context does, and no other step makes one run; the library breaks
\* over a task that runs or is over and has been misused.
NobodyRuns == \A t \in Tasks : pc[t] # "run"

Move(t, from, to) == pc[t] \in from /\ \E s \in to : pc' = [pc EXCEPT ![t] = s]

OneMoves ==
    \E t \in Tasks : \/ Move(t, {"none"}, {"new"})
                     \/ NobodyRuns /\ Move(t, {"new", "sleep", "wait"}, {"run"})
                     \/ Move(t, {"run"}, {"sleep", "wait", "exit", "freed"})
                     \/ Move(t, {"new", "sleep", "wait", "exit"}, {"freed", "cut"})

Moved ==
    /\ ~ broken /\ misused \subseteq misused' /\ misused' \subseteq Tasks
    /\ \/ UNCHANGED broken /\ (UNCHANGED pc \/ OneMoves)
       \/ /\ broken' = TRUE /\ UNCHANGED pc
          /\ \E t \in misused' : pc[t] \in {"run", "exit", "freed", "cut"}

LEMMA MadeKeeps ==
    ASSUME Inv, NEW t \in Tasks, make_task(t)
    PROVE  Inv' /\ Moved
<1>1. /\ ~ broken /\ pc[t] = "none" /\ pc' = [pc EXCEPT ![t] = "new"]
      /\ UNCHANGED <<default_ctx, cur_task_ctx, onExit, frames, bIsTimeout, callback,
                     bCompleted, callback_ctx, timeouts, socks, ended, misused, broken>>
    BY DEF make_task
<1>2. /\ pc' \in [Tasks -> Place] /\ pc'[t] = "new"
      /\ \A u \in Tasks : u # t => pc'[u] = pc[u]
    BY <1>1 DEF Inv, TypeOK, Place
<1>3. TypeOK'
    BY <1>1, <1>2 DEF Inv, TypeOK
<1>4. Control'
    BY <1>1, <1>2 DEF Inv, Control, Top
<1>5. Completed' /\ RulesOf'
    BY <1>1, <1>2 DEF Inv, TypeOK, Completed, RulesOf, Over
<1>6. TimeoutsOfSleeps'
    BY <1>1, <1>2 DEF Inv, TimeoutsOfSleeps
<1>7. FramesOK'
    <2>1. \A i \in 1 .. Len(frames) : frames[i].ctx \in Tasks
        BY FramesOfTasks DEF Inv
    <2>2. \A u \in Tasks : pc'[u] \in {"freed", "cut"} => pc[u] \in {"freed", "cut"}
        BY <1>2
    <2> QED BY <1>1, <2>1, <2>2 DEF Inv, FramesOK
<1>8. Moved
    BY <1>1 DEF Moved, OneMoves, Move, Inv, TypeOK
<1> QED BY <1>3, <1>4, <1>5, <1>6, <1>7, <1>8 DEF Inv

\* A task is destroyed by the rules or that is noted.
LEMMA DestroyedKeeps ==
    ASSUME Inv, NEW t \in Tasks, destroy_task(t)
    PROVE  Inv' /\ Moved
<1>1. /\ ~ broken /\ Keeps(t, MayDestroy(t))
      /\ UNCHANGED <<default_ctx, onExit, bIsTimeout, bCompleted, callback_ctx,
                     timeouts, socks, ended>>
    BY DEF destroy_task
<1>2. /\ misused \subseteq misused' /\ misused' \subseteq Tasks
      /\ MayDestroy(t) \/ t \in misused'
    BY <1>1 DEF Keeps, Inv, TypeOK
<1>3. CASE pc[t] \in {"run", "freed", "cut"} /\ Breaks
    <2>1. t \in misused'
        BY <1>2, <1>3 DEF MayDestroy
    <2>2. /\ default_ctx' \in BOOLEAN /\ bIsTimeout' \in [Tasks -> Int]
          /\ timeouts' \subseteq timeouts
          /\ \A u \in Tasks, d \in UserData : <<u, d>> \in timeouts' => bIsTimeout'[u] # 1
        BY <1>1 DEF Inv, TypeOK, TimeoutsOfSleeps
    <2>3. Inv'
        BY <1>1, <1>2, <1>3, <2>2, BrokenKeeps
    <2>4. Moved
        BY <1>1, <1>2, <1>3, <2>1 DEF Moved, Breaks
    <2> QED BY <2>3, <2>4
<1>4. CASE /\ pc[t] \in {"new", "sleep", "wait", "exit"}
           /\ pc' = [pc EXCEPT ![t] = IF pc[t] = "sleep" THEN "cut" ELSE "freed"]
           /\ UNCHANGED <<cur_task_ctx, frames, callback, broken>>
    <2>1. /\ pc' \in [Tasks -> Place]
          /\ pc'[t] = IF pc[t] = "sleep" THEN "cut" ELSE "freed"
          /\ \A u \in Tasks : u # t => pc'[u] = pc[u]
        BY <1>4 DEF Inv, TypeOK, Place
    <2>2. TypeOK'
        BY <1>1, <1>2, <1>4, <2>1 DEF Inv, TypeOK
    <2>3. Control'
        <3>1. \A u \in Tasks : pc'[u] = "run" <=> pc[u] = "run"
            BY <1>4, <2>1
        <3> QED BY <1>4, <3>1 DEF Inv, Control, Top
    <2>4. Completed'
        BY <1>1, <2>1 DEF Inv, Completed, Over
    <2>5. TimeoutsOfSleeps'
        BY <1>1, <1>4, <2>1 DEF Inv, TimeoutsOfSleeps
    <2>6. RulesOf'
        BY <1>1, <1>2, <1>4, <2>1 DEF Inv, TypeOK, RulesOf, MayDestroy, Over
    <2>7. FramesOK'
        <3>1. \A i \in 1 .. Len(frames) : frames[i].ctx \in Tasks
            BY FramesOfTasks DEF Inv
        <3>2. \A i \in 1 .. Len(frames) : frames[i].ctx = t => t \in misused'
            BY <1>2 DEF MayDestroy, NoFrame
        <3> QED BY <1>2, <1>4, <2>1, <3>1, <3>2 DEF Inv, FramesOK
    <2>8. Moved
        BY <1>1, <1>2, <1>4 DEF Moved, OneMoves, Move
    <2> QED BY <2>2, <2>3, <2>4, <2>5, <2>6, <2>7, <2>8 DEF Inv
<1> QED BY <1>3, <1>4 DEF destroy_task

\* A switch, which breaks the library if the task is over and it is made.
LEMMA Resumed ==
    ASSUME Inv, ~ broken, NEW t \in Tasks, pc[t] # "none", NEW fired, NEW woken,
           Resumes(t, fired, woken),
           \A d \in UserData : <<t, d>> \in timeouts \ fired => woken # 1 /\ bIsTimeout'[t] # 1,
           bIsTimeout' \in [Tasks -> Int],
           \A u \in Tasks : u # t => bIsTimeout'[u] = bIsTimeout[u],
           default_ctx' \in BOOLEAN,
           misused \subseteq misused', misused' \subseteq Tasks,
           MaySwitch => (~ Over(t) /\ NoFrame(t)) \/ t \in misused',
           UNCHANGED <<onExit, bCompleted, callback_ctx, socks, ended>>
    PROVE  Inv' /\ Moved
<1>1. CASE MaySwitch /\ Over(t) /\ Breaks /\ timeouts' = timeouts \ fired
    <2>1. \A u \in Tasks, d \in UserData : <<u, d>> \in timeouts' => bIsTimeout'[u] # 1
        BY <1>1 DEF Inv, TimeoutsOfSleeps
    <2>2. timeouts' \subseteq timeouts
        BY <1>1
    <2>3. Inv'
        BY <1>1, <2>1, <2>2, BrokenKeeps
    <2>4. Moved
        BY <1>1 DEF Moved, Breaks, Over
    <2> QED BY <2>3, <2>4
<1>2. CASE /\ ~ MaySwitch \/ ~ Over(t)
           /\ switch2task(t, fired, woken)
           /\ UNCHANGED <<callback, broken>>
    <2>1. MaySwitch => NobodyRuns
        <3>1. Default \notin Tasks
            BY TaskAssumption
        <3> QED BY <3>1 DEF MaySwitch, NobodyRuns, Inv, Control
    <2>2. MaySwitch => pc[t] \in {"new", "sleep", "wait"}
        <3>1. pc[t] \in Place
            BY DEF Inv, TypeOK
        <3> QED BY <1>2, <2>1, <3>1 DEF NobodyRuns, Place, Over
    <2>3. Inv'
        BY <1>2, <2>2, Switched
    <2>4. UNCHANGED pc \/ OneMoves
        BY <1>2, <2>1, <2>2 DEF switch2task, OneMoves, Move
    <2> QED BY <1>2, <2>3, <2>4 DEF Moved
<1> QED BY <1>1, <1>2 DEF Resumes

\* The application or a callback starts or resumes a task.
LEMMA BegunKeeps ==
    ASSUME Inv, NEW t \in Tasks, start_task(t) \/ sched_task(t)
    PROVE  Inv' /\ Moved
<1>1. /\ ~ broken /\ pc[t] # "none"
      /\ Keeps(t, ~ MaySwitch \/ MayResume(t))
      /\ Resumes(t, {}, bIsTimeout[t])
      /\ default_ctx' \in BOOLEAN
      /\ UNCHANGED <<onExit, bIsTimeout, bCompleted, callback_ctx, socks, ended>>
    BY DEF start_task, sched_task, Inv, TypeOK
<1>2. /\ misused \subseteq misused' /\ misused' \subseteq Tasks
      /\ MaySwitch => MayResume(t) \/ t \in misused'
    BY <1>1 DEF Keeps, Inv, TypeOK
<1>3. MaySwitch => (~ Over(t) /\ NoFrame(t)) \/ t \in misused'
    BY <1>2 DEF MayResume, Over
<1>4. /\ bIsTimeout' \in [Tasks -> Int]
      /\ \A u \in Tasks : u # t => bIsTimeout'[u] = bIsTimeout[u]
      /\ \A d \in UserData :
             <<t, d>> \in timeouts \ {} => bIsTimeout[t] # 1 /\ bIsTimeout'[t] # 1
    BY <1>1 DEF Inv, TypeOK, TimeoutsOfSleeps
<1> QED BY <1>1, <1>2, <1>3, <1>4, Resumed

\* The handlers of the loop resume a task that waits, or one that is over and was
\* misused.
LEMMA HandlerKeeps ==
    ASSUME Inv, NEW t \in Tasks, NEW fired, NEW woken \in Int, Handler(t, fired, woken),
           pc[t] \in {"sleep", "wait"} \/ (Over(t) /\ t \in misused),
           \A d \in UserData : <<t, d>> \in timeouts \ fired => woken # 1
    PROVE  Inv' /\ Moved
<1>1. /\ frames = <<>> /\ ~ broken
      /\ bIsTimeout' = [bIsTimeout EXCEPT ![t] = woken]
      /\ default_ctx' \in BOOLEAN
      /\ UNCHANGED <<onExit, bCompleted, callback_ctx, socks, ended, misused>>
    BY DEF Handler, InLoop, OnDefault
<1>2. /\ bIsTimeout' \in [Tasks -> Int] /\ bIsTimeout'[t] = woken
      /\ \A u \in Tasks : u # t => bIsTimeout'[u] = bIsTimeout[u]
    BY <1>1 DEF Inv, TypeOK
<1>3. NoFrame(t)
    BY <1>1 DEF NoFrame
<1>4. misused \subseteq misused' /\ misused' \subseteq Tasks
    BY <1>1 DEF Inv, TypeOK
<1>5. CASE pc[t] \in {"freed", "cut"} /\ Breaks /\ timeouts' = timeouts \ fired
    <2>1. \A u \in Tasks, d \in UserData : <<u, d>> \in timeouts' => bIsTimeout'[u] # 1
        BY <1>2, <1>5 DEF Inv, TimeoutsOfSleeps
    <2>2. timeouts' \subseteq timeouts
        BY <1>5
    <2>3. Inv'
        BY <1>1, <1>2, <1>4, <1>5, <2>1, <2>2, BrokenKeeps
    <2>4. Moved
        BY <1>1, <1>4, <1>5 DEF Moved, Breaks
    <2> QED BY <2>3, <2>4
<1>6. CASE pc[t] \notin {"freed", "cut"} /\ Resumes(t, fired, woken)
    <2>1. (~ Over(t) /\ NoFrame(t)) \/ t \in misused'
        BY <1>1, <1>3 DEF Over
    <2>2. pc[t] # "none"
        BY DEF Over
    <2>3. \A d \in UserData :
              <<t, d>> \in timeouts \ fired => woken # 1 /\ bIsTimeout'[t] # 1
        BY <1>2
    <2> QED BY <1>1, <1>2, <1>4, <1>6, <2>1, <2>2, <2>3, Resumed
<1> QED BY <1>5, <1>6 DEF Handler

LEMMA TimeoutFiresKeeps ==
    ASSUME Inv, NEW t \in Tasks, TimeoutFires(t)
    PROVE  Inv' /\ Moved
<1> PICK d \in UserData : /\ <<t, d>> \in timeouts
                          /\ Handler(t, {<<t, d>>}, IF d # 0 THEN d % Word ELSE 1)
    BY DEF TimeoutFires
<1>1. (IF d # 0 THEN d % Word ELSE 1) \in Int
    BY TaskAssumption
<1>2. pc[t] \in {"sleep", "cut"} /\ \A e \in UserData : <<t, e>> \notin timeouts \ {<<t, d>>}
    BY DEF Inv, TimeoutsOfSleeps
<1>3. pc[t] \in {"sleep", "wait"} \/ (Over(t) /\ t \in misused)
    BY <1>2 DEF Inv, RulesOf, Over
<1> QED BY <1>1, <1>2, <1>3, HandlerKeeps

LEMMA SockFiresKeeps ==
    ASSUME Inv, NEW t \in Tasks, SockFires(t)
    PROVE  Inv' /\ Moved
<1>1. t \in socks /\ Handler(t, {}, 0)
    BY DEF SockFires
<1>2. pc[t] # "run"
    <2>1. Default \notin Tasks /\ Null \notin Tasks
        BY TaskAssumption
    <2> QED BY <1>1, <2>1 DEF Handler, OnDefault, Inv, Control
<1>3. pc[t] \in {"sleep", "wait"} \/ (Over(t) /\ t \in misused)
    BY <1>1, <1>2 DEF Inv, RulesOf
<1>4. 0 \in Int /\ 0 # 1
    OBVIOUS
<1> QED BY <1>1, <1>3, <1>4, HandlerKeeps

LEMMA CallbackReturnsKeeps ==
    ASSUME Inv, NEW depth \in Depth, CallbackReturns(depth)
    PROVE  Inv' /\ Moved
<1> DEFINE t == Top.ctx
<1>1. /\ frames # <<>> /\ cur_task_ctx = Default /\ ~ broken
      /\ UNCHANGED <<default_ctx, onExit, bIsTimeout, bCompleted, callback_ctx,
                     timeouts, socks, ended, misused>>
    BY DEF CallbackReturns, InLoop
<1>2. Default \notin Tasks
    BY TaskAssumption
<1>3. t \in Tasks /\ frames[Len(frames)].ctx = t /\ Len(frames) \in 1 .. Len(frames)
    <2>1. /\ Len(frames) \in 1 .. Len(frames)
          /\ \A i \in 1 .. Len(frames) : frames[i] \in Frame
        BY <1>1 DEF Inv, TypeOK
    <2> QED BY <2>1 DEF Top, Frame
<1>4. misused \subseteq misused' /\ misused' \subseteq Tasks
    BY <1>1 DEF Inv, TypeOK
<1>5. CASE pc[t] \in {"freed", "cut"} /\ Breaks
    <2>1. t \in misused'
        <3> HIDE DEF t
        <3> QED BY <1>1, <1>3, <1>5 DEF Inv, FramesOK
    <2>2. /\ default_ctx' \in BOOLEAN /\ bIsTimeout' \in [Tasks -> Int]
          /\ timeouts' \subseteq timeouts
          /\ \A u \in Tasks, d \in UserData : <<u, d>> \in timeouts' => bIsTimeout'[u] # 1
        BY <1>1 DEF Inv, TypeOK, TimeoutsOfSleeps
    <2>3. Inv'
        BY <1>1, <1>4, <1>5, <2>2, BrokenKeeps
    <2>4. Moved
        <3> HIDE DEF t
        <3> QED BY <1>1, <1>4, <1>5, <2>1 DEF Moved, Breaks
    <2> QED BY <2>3, <2>4
<1>6. CASE /\ pc[t] \notin {"freed", "cut"}
           /\ callback' = IF Top.at = "callback"
                          THEN [callback EXCEPT ![t] = FALSE] ELSE callback
           /\ pc' = IF bCompleted[t] THEN Freed(pc, t) ELSE pc
           /\ frames' = Below
           /\ UNCHANGED <<cur_task_ctx, broken>>
    <2>1. callback' \in [Tasks -> BOOLEAN]
        BY <1>6 DEF Inv, TypeOK
    <2>2. frames' \in Seq(Frame)
        <3>1. frames \in Seq(Frame) /\ frames # <<>>
            BY <1>1 DEF Inv, TypeOK
        <3> QED BY <1>6, <3>1, BelowIsSeq
    <2> t = Top.ctx
        OBVIOUS
    <2> HIDE DEF t
    <2>3. bCompleted[t] => pc[t] = "exit"
        BY <1>3, <1>6 DEF Inv, Completed, Over
    <2>4. /\ pc' \in [Tasks -> Place]
          /\ \A u \in Tasks : u # t => pc'[u] = pc[u]
          /\ pc'[t] = IF bCompleted[t] THEN "freed" ELSE pc[t]
        BY <1>3, <1>6 DEF Inv, TypeOK, Freed, Place
    <2>5. TypeOK'
        BY <1>1, <1>4, <1>6, <2>1, <2>2, <2>4 DEF Inv, TypeOK
    <2>6. Control'
        <3>1. \A u \in Tasks : pc'[u] = "run" <=> pc[u] = "run"
            BY <2>3, <2>4
        <3> QED BY <1>1, <1>2, <1>6, <3>1 DEF Inv, Control
    <2>7. Completed' /\ TimeoutsOfSleeps'
        BY <1>1, <2>3, <2>4 DEF Inv, Completed, TimeoutsOfSleeps, Over
    <2>8. RulesOf'
        BY <1>1, <2>3, <2>4 DEF Inv, TypeOK, RulesOf, Over
    <2>9. FramesOK'
        BY <1>1, <1>4, <1>6, <2>4, Popped DEF Inv
    <2>10. UNCHANGED pc \/ OneMoves
        BY <1>3, <1>6, <2>3 DEF OneMoves, Move, Freed
    <2> QED BY <1>1, <1>4, <1>6, <2>5, <2>6, <2>7, <2>8, <2>9, <2>10 DEF Inv, Moved
<1> QED BY <1>5, <1>6 DEF CallbackReturns

\* A task that runs gives control back, three ways.
LEMMA SleepsKeeps ==
    ASSUME Inv, NEW t \in Tasks, NEW d \in UserData, NEW h \in BOOLEAN,
           sleep_task_on_defaultloop(t, d, h)
    PROVE  Inv' /\ pc' = [pc EXCEPT ![t] = "sleep"]
<1>1. /\ pc[t] = "run" /\ timeouts' = timeouts \cup {<<t, d>>}
      /\ callback_ctx' = [callback_ctx EXCEPT ![t] = d]
      /\ bIsTimeout' = [bIsTimeout EXCEPT ![t] = -1]
      /\ callback_on_defaultloop(t, "sleep", h, FALSE)
      /\ UNCHANGED <<socks, misused>>
    BY DEF sleep_task_on_defaultloop, Runs
<1>2. /\ timeouts' \subseteq Tasks \X UserData
      /\ misused \subseteq misused' /\ misused' \subseteq Tasks
    BY <1>1 DEF Inv, TypeOK
<1>3. /\ bIsTimeout' \in [Tasks -> Int] /\ bIsTimeout'[t] = -1
      /\ callback_ctx' \in [Tasks -> UserData \cup {0}] /\ callback_ctx'[t] = d
      /\ \A u \in Tasks : u # t => /\ bIsTimeout'[u] = bIsTimeout[u]
                                   /\ callback_ctx'[u] = callback_ctx[u]
    BY <1>1 DEF Inv, TypeOK
<1>4. \A e \in UserData : <<t, e>> \notin timeouts
    BY <1>1 DEF Inv, TimeoutsOfSleeps
<1>5. -1 # 1
    OBVIOUS
<1>6. /\ \A u \in Tasks, e \in UserData :
             u # t /\ <<u, e>> \in timeouts' => <<u, e>> \in timeouts
      /\ \A e \in UserData :
             <<t, e>> \in timeouts' => e = callback_ctx'[t] /\ bIsTimeout'[t] # 1
    BY <1>1, <1>3, <1>4, <1>5
<1>7. /\ pc[t] = "run" /\ callback_on_defaultloop(t, "sleep", h, FALSE)
      /\ UNCHANGED socks
    BY <1>1
<1>8. \A e \in UserData :
          <<t, e>> \in timeouts' =>
              "sleep" = "sleep" /\ e = callback_ctx'[t] /\ bIsTimeout'[t] # 1
    BY <1>6
<1>9. /\ bIsTimeout' \in [Tasks -> Int] /\ callback_ctx' \in [Tasks -> UserData \cup {0}]
      /\ \A u \in Tasks : u # t => /\ bIsTimeout'[u] = bIsTimeout[u]
                                   /\ callback_ctx'[u] = callback_ctx[u]
    BY <1>3
<1> QED BY <1>2, <1>6, <1>7, <1>8, <1>9, GivenBack

LEMMA WaitsKeeps ==
    ASSUME Inv, NEW t \in Tasks, NEW h \in BOOLEAN, Wait(t, h)
    PROVE  Inv' /\ pc' = [pc EXCEPT ![t] = "wait"]
<1>1. /\ pc[t] = "run" /\ callback_on_defaultloop(t, "wait", h, FALSE)
      /\ UNCHANGED <<bIsTimeout, callback_ctx, timeouts, socks, misused>>
    BY DEF Wait, Runs
<1>2. \A u \in Tasks, e \in UserData : <<u, e>> \in timeouts' => u # t /\ <<u, e>> \in timeouts
    BY <1>1 DEF Inv, TimeoutsOfSleeps
<1>3. /\ timeouts' \subseteq Tasks \X UserData
      /\ bIsTimeout' \in [Tasks -> Int] /\ callback_ctx' \in [Tasks -> UserData \cup {0}]
      /\ misused \subseteq misused' /\ misused' \subseteq Tasks
    BY <1>1 DEF Inv, TypeOK
<1> QED BY <1>1, <1>2, <1>3, GivenBack

LEMMA ExitsKeeps ==
    ASSUME Inv, NEW t \in Tasks, NEW h \in BOOLEAN, exit_task(t, h)
    PROVE  Inv' /\ \E s \in {"exit", "freed"} : pc' = [pc EXCEPT ![t] = s]
<1>1. /\ pc[t] = "run" /\ Keeps(t, t \notin socks)
      /\ callback_on_defaultloop(t, "exit", h, TRUE)
      /\ UNCHANGED <<bIsTimeout, callback_ctx, timeouts, socks>>
    BY DEF exit_task, Runs
<1>2. \A u \in Tasks, e \in UserData : <<u, e>> \in timeouts' => u # t /\ <<u, e>> \in timeouts
    BY <1>1 DEF Inv, TimeoutsOfSleeps
<1>3. /\ timeouts' \subseteq Tasks \X UserData
      /\ bIsTimeout' \in [Tasks -> Int] /\ callback_ctx' \in [Tasks -> UserData \cup {0}]
    BY <1>1 DEF Inv, TypeOK
<1>4. /\ misused \subseteq misused' /\ misused' \subseteq Tasks
      /\ t \notin socks \/ t \in misused'
    BY <1>1 DEF Keeps, Inv, TypeOK
<1> QED BY <1>1, <1>2, <1>3, <1>4, GivenBack

LEMMA YieldsKeeps ==
    ASSUME Inv, NEW t \in Tasks, Yields(t)
    PROVE  Inv' /\ Moved
<1> PICK h \in BOOLEAN : \/ \E d \in UserData : sleep_task_on_defaultloop(t, d, h)
                         \/ Wait(t, h)
                         \/ exit_task(t, h)
    BY DEF Yields
<1>1. /\ pc[t] = "run" /\ ~ broken /\ UNCHANGED broken
      /\ misused' = misused \/ misused' = misused \cup {t}
    BY DEF sleep_task_on_defaultloop, Wait, exit_task, Runs, Keeps, callback_on_defaultloop
<1>2. ASSUME Move(t, {"run"}, {"sleep", "wait", "exit", "freed"})
      PROVE  Moved
    BY <1>1, <1>2 DEF Moved, OneMoves, Inv, TypeOK
<1>3. ASSUME NEW d \in UserData, sleep_task_on_defaultloop(t, d, h)
      PROVE  Inv' /\ Moved
    BY <1>1, <1>2, <1>3, SleepsKeeps DEF Move
<1>4. CASE Wait(t, h)
    BY <1>1, <1>2, <1>4, WaitsKeeps DEF Move
<1>5. CASE exit_task(t, h)
    BY <1>1, <1>2, <1>5, ExitsKeeps DEF Move
<1> QED BY <1>3, <1>4, <1>5

LEMMA SocksKeep ==
    ASSUME Inv, NEW t \in Tasks,
           defaultloop_register_read_sock(t) \/ defaultloop_unregister_read_sock(t)
    PROVE  Inv' /\ Moved
<1>1. /\ pc[t] = "run" /\ ~ broken /\ socks' \subseteq socks \cup {t}
      /\ UNCHANGED <<default_ctx, cur_task_ctx, onExit, pc, frames, bIsTimeout,
                     callback, bCompleted, callback_ctx, timeouts, ended, misused, broken>>
    BY DEF defaultloop_register_read_sock, defaultloop_unregister_read_sock, Runs
<1>2. TypeOK' /\ Completed' /\ TimeoutsOfSleeps'
    BY <1>1 DEF Inv, TypeOK, Completed, TimeoutsOfSleeps, Over
<1>3. Control' /\ RulesOf' /\ FramesOK'
    BY <1>1 DEF Inv, Control, Top, RulesOf, FramesOK, Over
<1>4. Moved
    BY <1>1 DEF Moved, Inv, TypeOK
<1> QED BY <1>2, <1>3, <1>4 DEF Inv

\* Next, disjunct by disjunct.
LEMMA Step ==
    ASSUME Inv, Next
    PROVE  Inv' /\ Moved
<1>1. ASSUME NEW hasExit \in BOOLEAN, defaultloop_task_init(hasExit)
      PROVE  Inv' /\ Moved
    BY <1>1, DefaultKept
    DEF defaultloop_task_init, OnDefault, Moved, Inv, TypeOK
<1>2. CASE defaultloop_task_final
    BY <1>2, DefaultKept
    DEF defaultloop_task_final, OnDefault, Moved, Inv, TypeOK
<1>3. ASSUME NEW depth \in Depth, CallbackReturns(depth)
      PROVE  Inv' /\ Moved
    BY <1>3, CallbackReturnsKeeps
<1>4. ASSUME NEW t \in Tasks,
             \/ make_task(t)
             \/ start_task(t)
             \/ destroy_task(t)
             \/ sched_task(t)
             \/ TimeoutFires(t)
             \/ SockFires(t)
             \/ Yields(t)
             \/ defaultloop_register_read_sock(t)
             \/ defaultloop_unregister_read_sock(t)
      PROVE  Inv' /\ Moved
    BY <1>4, MadeKeeps, BegunKeeps, DestroyedKeeps, TimeoutFiresKeeps, SockFiresKeeps,
       YieldsKeeps, SocksKeep
<1> QED BY <1>1, <1>2, <1>3, <1>4 DEF Next

\* The parts of the invariant hold of every reachable state.
THEOREM Invariant == Spec => []Inv
<1>1. Init => Inv
    BY InvInit
<1>2. Inv /\ [Next]_vars => Inv'
    <2>1. ASSUME Inv, UNCHANGED vars
          PROVE  Inv'
        BY <2>1, TasksKept DEF vars, Inv, TypeOK
    <2> QED BY <2>1, Step
<1> QED BY <1>1, <1>2, PTL DEF Spec

\* A task that runs, has ended or was freed, other than in its sleep, has no
\* timeout in the loop.
THEOREM NothingLeft == Spec => []NothingLeftBehind
<1>1. Inv => NothingLeftBehind
    BY DEF Inv, TimeoutsOfSleeps, NothingLeftBehind
<1> QED BY <1>1, Invariant, PTL

-----------------------------------------------------------------------------
(* Tasks are coroutines *)

Lives == [t \in Tasks |-> Lifecycle(t)]

\* What the lives say of the places.
LEMMA LivesOf ==
    ASSUME Inv, NEW t \in Tasks
    PROVE  /\ Lives[t] = Lifecycle(t)
           /\ Lives[t] = "none" <=> pc[t] = "none"
           /\ Lives[t] = "suspended" <=> pc[t] \in {"new", "sleep", "wait"}
           /\ Lives[t] = "running" <=> pc[t] = "run"
           /\ Lives[t] = "ended" <=> pc[t] = "exit"
           /\ Lives[t] = "gone" <=> pc[t] \in {"freed", "cut"}
<1>1. pc[t] \in {"none", "new", "run", "sleep", "wait", "exit", "freed", "cut"}
    BY DEF Inv, TypeOK, Place
<1> QED BY <1>1 DEF Lives, Lifecycle

\* A task that moves changes its own life alone.
LEMMA LivesMove ==
    ASSUME Inv, NEW t \in Tasks, NEW s \in Place, pc' = [pc EXCEPT ![t] = s]
    PROVE  Lives' = [Lives EXCEPT ![t] = Lives'[t]] /\ pc'[t] = s
<1>1. pc'[t] = s /\ \A u \in Tasks : u # t => pc'[u] = pc[u]
    BY DEF Inv, TypeOK
<1>2. \A u \in Tasks : u # t => Lifecycle(u)' = Lifecycle(u)
    BY <1>1 DEF Lifecycle
<1> QED BY <1>1, <1>2 DEF Lives

LEMMA LivesKept ==
    ASSUME UNCHANGED pc
    PROVE  UNCHANGED Lives
<1>1. \A t \in Tasks : Lifecycle(t)' = Lifecycle(t)
    BY DEF Lifecycle
<1> QED BY <1>1 DEF Lives

LEMMA MoveOfCoroutine ==
    ASSUME Inv, Inv', OneMoves
    PROVE  C!Works
<1>1. ASSUME NEW t \in Tasks, NEW s \in Place, pc' = [pc EXCEPT ![t] = s]
      PROVE  Lives' = [Lives EXCEPT ![t] = Lives'[t]] /\ pc'[t] = s
    BY <1>1, LivesMove
<1>2. ASSUME NEW t \in Tasks, Move(t, {"none"}, {"new"})
      PROVE  C!Works
    <2>1. pc[t] = "none" /\ pc' = [pc EXCEPT ![t] = "new"] /\ "new" \in Place
        BY <1>2 DEF Move, Place
    <2>2. Lives' = [Lives EXCEPT ![t] = Lives'[t]] /\ pc'[t] = "new"
        BY <1>1, <2>1
    <2>3. Lives[t] = "none" /\ Lives'[t] = "suspended"
        BY <2>1, <2>2, LivesOf DEF Lives, Lifecycle
    <2> QED BY <2>2, <2>3 DEF C!Works, C!Create, Lives
<1>3. ASSUME NEW t \in Tasks, NobodyRuns, Move(t, {"new", "sleep", "wait"}, {"run"})
      PROVE  C!Works
    <2>1. /\ pc[t] \in {"new", "sleep", "wait"}
          /\ pc' = [pc EXCEPT ![t] = "run"] /\ "run" \in Place
        BY <1>3 DEF Move, Place
    <2>2. Lives' = [Lives EXCEPT ![t] = Lives'[t]] /\ pc'[t] = "run"
        BY <1>1, <2>1
    <2>3. Lives[t] = "suspended" /\ Lives'[t] = "running"
        BY <2>1, <2>2, LivesOf DEF Lives, Lifecycle
    <2>4. \A u \in Tasks : Lives[u] # "running"
        BY <1>3, LivesOf DEF NobodyRuns
    <2> QED BY <2>2, <2>3, <2>4 DEF C!Works, C!Resume, C!NobodyRuns, Lives
<1>4. ASSUME NEW t \in Tasks, Move(t, {"run"}, {"sleep", "wait", "exit", "freed"})
      PROVE  C!Works
    <2>1. PICK s \in {"sleep", "wait", "exit", "freed"} : pc' = [pc EXCEPT ![t] = s]
        BY <1>4 DEF Move
    <2>2. Lives' = [Lives EXCEPT ![t] = Lives'[t]] /\ pc'[t] = s
        BY <1>1, <2>1 DEF Place
    <2>3. Lives[t] = "running" /\ Lives'[t] \in {"suspended", "ended", "gone"}
        BY <1>4, <2>2, LivesOf DEF Move, Lives, Lifecycle
    <2> QED BY <2>2, <2>3 DEF C!Works, C!Suspend, C!End, Lives
<1>5. ASSUME NEW t \in Tasks, Move(t, {"new", "sleep", "wait", "exit"}, {"freed", "cut"})
      PROVE  C!Works
    <2>1. PICK s \in {"freed", "cut"} : pc' = [pc EXCEPT ![t] = s]
        BY <1>5 DEF Move
    <2>2. Lives' = [Lives EXCEPT ![t] = Lives'[t]] /\ pc'[t] = s
        BY <1>1, <2>1 DEF Place
    <2>3. Lives[t] \in {"suspended", "ended"} /\ Lives'[t] = "gone"
        BY <1>5, <2>2, LivesOf DEF Move, Lives, Lifecycle
    <2> QED BY <2>2, <2>3 DEF C!Works, C!Dispose, Lives
<1> QED BY <1>2, <1>3, <1>4, <1>5 DEF OneMoves

LEMMA StepOfCoroutine ==
    ASSUME Inv, Inv', Moved
    PROVE  C!Next
<1>1. CASE UNCHANGED broken /\ UNCHANGED pc
    <2>1. UNCHANGED Lives
        BY <1>1, LivesKept
    <2> QED BY <1>1, <2>1 DEF C!Next, Moved, Lives
<1>2. CASE UNCHANGED broken /\ OneMoves
    <2>1. C!Works
        BY <1>2, MoveOfCoroutine
    <2> QED BY <1>2, <2>1 DEF C!Next, Moved
<1>3. CASE /\ broken' = TRUE /\ UNCHANGED pc
           /\ \E t \in misused' : pc[t] \in {"run", "exit", "freed", "cut"}
    <2>1. UNCHANGED Lives
        BY <1>3, LivesKept
    <2>2. \E t \in misused' : Lives[t] \in {"running", "ended", "gone"}
        BY <1>3, LivesOf DEF Moved
    <2>3. C!Break
        BY <1>3, <2>1, <2>2 DEF C!Break, Lives
    <2> QED BY <2>3 DEF C!Next, Moved
<1> QED BY <1>1, <1>2, <1>3 DEF Moved

\* Whatever the handlers, the callbacks and the tasks do, each task is a
\* coroutine, and the library breaks over a task that has been misused alone.
THEOREM TasksAreCoroutines == Spec => ImplementsCoroutine
<1>1. Init => C!Init
    BY DEF Init, Lifecycle, C!Init
<1>2. Inv /\ Inv' /\ [Next]_vars => [C!Next]_<<Lives, misused, broken>>
    <2>1. ASSUME UNCHANGED vars
          PROVE  UNCHANGED <<Lives, misused, broken>>
        BY <2>1, LivesKept DEF vars
    <2> QED BY <2>1, Step, StepOfCoroutine
<1> QED BY <1>1, <1>2, Invariant, PTL DEF Spec, C!Spec, ImplementsCoroutine, Lives
=============================================================================
