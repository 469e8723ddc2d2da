# A verification of event_loop

event_loop is a C library around the event loop of hostapd: one thread waits in
`pselect` and calls the handlers that were registered for sockets, timeouts and
signals. Beside the loop it has green threads (tasks) that sleep on the loop, a
DNS client written as such tasks, exceptions for C, a C++ interface, and some
programs and tools that use it. This directory holds TLA+ models of the parts
that keep state or compute something that is easy to get wrong, the TLC
configurations that check them on small instances, and TLAPS proofs about all of
them but the codecs, for instances of any size.

## The system

| Component | Source | State | Operations | What makes it correct |
|---|---|---|---|---|
| timeouts | `eloop/eloop.c` | list `eloop.timeout`, sorted by time | register, cancel, the sleep and the call of the head in `eloop_run` | called in the order of time and registration, never early, none overslept, none starved, no block used twice |
| sockets | `eloop/eloop.c` | tables `readers`, `writers`, `exceptions`, `max_sock` | register, unregister, dispatch | every registered socket is polled; a table may change while it is walked; a ready socket is served |
| signals | `eloop/eloop.c` | table `signals`, `signaled`, `pending_terminate`, the alarm | register, asynchronous handler, processing | no signal is lost; the alarm kills only what hangs |
| changes of the clock | `eloop/eloop.c` | `t0`, `time0` of `eloop_run`, the times in the list | `eloop_timeChangeAuto` twice per iteration | timeouts keep their distance when the clock is set |
| watchdog | `eloop/eloop.c` | `timeout_currentWDT` | register, cancel, fire | the hardware watchdog runs for the nearest watchdog timeout |
| callback wrappers | `eloop/eloop.c` | `g_PendingMonitorType` | around each handler | set only while a handler runs |
| tasks | `eloop/context.c` | `cur_task_ctx`, `default_ctx`, a context per task | start, sleep, switch, exit | one context runs; a task that ended is not resumed; its timeout does not outlive its sleep |
| DNS client | `eloop/dns.c` | globals `ns`, `id`, `__nameserver`; a context per lookup | lookup with retries over servers and search domains | an answer is taken for the query it answers; every lookup ends; the caller's buffer holds what was answered |
| exception contexts | `eloop/cexceptNew.c` | `g_state`, 20 slots by process | allocate, find, free; Try, Throw | a throw reaches the innermost Try |
| C++ interface | `eloop/eloop_callback_itf.h` | pairs (object, method) with `uiHandled` | register, unregister, call, destructors | no callback into an object that was deleted; no pair leaked |
| stand-alone timers | `ns_support/ns_timer_support.c` | a table of loops: timeouts and signals, no sockets | register, cancel, `find_nearest_timeout_ms`, `expire_timers` | each loop serves as the timeouts above do; no poll sleeps too long |
| log file search | `logfile/lfs_read.c` | a file sorted by time, to which others append; `lfs_ctx`: first and last line, size, range, buffer | open, binary search for two times, reading in blocks, close | the search ends; the lines between the two times, whole, each once |
| log server | `etc/ns_log_server.c` | a buffer per connection | receive, frame, answer | requests are framed whatever the pieces |
| web socket codec and relay | `etc/ws_*.c`, `etc/nc.c` | buffers | encode, decode, relay | decoding inverts encoding; pieces reassemble |
| serial port bridge | `etc/unix_UART.c` | a buffer of one line | receive | lines are framed whatever the pieces |
| sub-processes | `etc/unixProcess.c` | pid files | start, kill, wait, check | the process killed is the one started |
| debugging allocator | `etc/tdxagwDbgMalloc.cpp` | pools of blocks, sizes in front of blocks | malloc, calloc, realloc, free | a block has one owner and the room asked for |
| operating system layer | `eloop/os_internal.c`, `eloop/common.c` | none | memory, strings, hex, addresses | as the C library; conversions are inverses |
| JSON string filters | `etc/jss_*.c` | none | a text into a JSON string and back | conversions are inverses |

How they interact: everything runs in the thread of `eloop_run`, except the
signal handlers, which interrupt it anywhere. A handler may call any function
of `eloop.h`, so each component sees its state change in the middle of its own
walk. Tasks and the DNS client use timeouts and read sockets; the watchdog is a
flag on timeouts; the C++ interface passes objects as contexts; the wrappers
stand between the loop and every handler and set up a Try there. One iteration
of the loop is: test of the condition, comparison of the clocks, computation of
the sleep and of the fd sets, `pselect`, comparison of the clocks, pending
signals, at most one timeout, and, if `pselect` reported something, the three
tables.

What is hard to test in it: handlers that change what the loop is walking;
facts read before `pselect`, before a handler or before a yield and used after
it (the time left, the fd sets, the DNS client's globals); signals between any
two statements; the clock; tasks that are resumed by one of two events while
the other is still registered; jumps out of nested handlers; pid numbers that
are used again; messages cut anywhere. `PROJECT.json` lists each at its line,
with the properties that watch it, or the reason why none does.

## The modules

The loop (`eloop/eloop.c`):

- `OsTime`: `struct os_time` and its arithmetic. A time is normalised when its
  microseconds are less than `Usec`.
- `TimeoutList`: the insertion and the unlinking walk as operators on
  sequences. A walk over the linked list is a choice of positions: `InsertPos` is
  where the insertion loop breaks, `Remaining` what the cancellation loop leaves.
- `TimerSet`: the abstract timeout service. Timers are a set with an order of
  registration; the timer that fires is due and precedes all others.
- `EloopTimeout`: the list and the part of `eloop_run` that serves it. `pc` is
  the place of the thread; `InApplication` are the places where handlers run and
  may call `eloop.h`, `eloop_terminate` and `eloop_tmp_terminate` included; the loop
  ends when it is told to, when nothing is left to wait for, and when `pselect` fails.
  `firing` is the entry `eloop_run` has popped and not freed.
  `older` is a history variable: which block was registered before which.
- `EloopSock`: the tables, `max_sock`, the fd sets and the dispatch, one step for
  each call of a handler. Descriptors are numbers that the application opens
  and closes, so a number can be reused. An entry carries the history `born`,
  when it was registered relative to the polls and dispatches. Timeout and
  signal handlers are the place `callbacks`. Any handler may call `eloop_run`: the
  run that called it waits in `outer` with its place and its fd sets, while tables and
  `max_sock` are shared. `nested` is a history: a handler of this iteration has run
  the loop, and with that reset the mark by which the walk knows that its table has
  changed (`eloop.c:249`).
- `EloopSignal`: the handlers run at any step of the thread. Registration is
  three steps (realloc, publish, install), processing one step per statement that
  a signal can fall between. `os_realloc` moves the table or leaves it (`freed`).
  `owed` is a history: received, not yet called; `dropped` says that it was received
  only while the handler saw the freed block.
- `EloopTimeChange`: a wall clock that is set wherever the thread is, clock ticks that
  wrap, the two comparisons of each iteration, and a loop that ends and is run again.
  True time is a variable of the model; a timeout remembers the true time it was
  asked for (`due`), and how much of the clock's changes the loop missed of it
  (`missed`, and `noticed` for the loop).
- `EloopWatchdog`: timeouts with the flag `bIsWDTimeout`, the pointer
  `timeout_currentWDT` and the watchdog outside, of which only the instant is
  kept at which it resets the system. A cancellation calls `OnUnregisterWDT` for
  each entry it removes; the model takes the walk in one step, with the outcome
  of the last call. `fired` is a history: a watchdog timeout was called.

What is built on the loop:

- `Coroutine`: the abstract task: made, running, suspended, ended, gone.
- `Task` (`context.c`): `frames` is the stack of the default context: a frame for
  each switch that waits to be switched back and for each callback under way. A
  handler's switch and what the task does before its own next step are one action.
  The library checks nothing, and the model forbids nothing: the application may
  destroy a task at any time, also with the destructor of a task object, which
  keeps the context of a task that has ended; and it may resume any task from any
  callback. `misused` records that it has broken the rules, `broken` that the library
  then used a context after its end, which is undefined behaviour.
- `DnsLookup` (`dns.c`): `gethostbyname_ext_async` and the blocking
  `gethostbyname_ext`. `running` has the thread; `ctx` holds the locals of each
  lookup, copied from and written back to `ns`, `id` and `__nameserver` where the
  code does. The network (`asked`) loses, delays and reorders answers. Lookups overlap
  in any way; `before` and `crossed` are histories of how they did.
- `CallbackRegistry` and `CallbackItf` (`eloop_callback_itf.h`): the abstract
  registry of callbacks, and the pairs that implement it. `held` is what the
  application knows to be registered, `loop` what the loop has.
- `ExceptContext` (`cexcept.h`, `cexceptNew.c` and the wrappers of `eloop.c`): the
  stack of the thread, with a frame for each `eloop_run`, wrapper and Try, and the
  slots of `g_state`, whose `penv` is the frame a Throw jumps to.

The programs beside it:

- `NsTimers` (`ns_timer_support.c`): two loops, each in a thread of its own, polled
  by the programs that own them; every signal is noted in the first loop.
  It uses `TimeoutList`, and each of its loops is a `TimerSet`.
- `SubProcess` (`unixProcess.c`): processes with their numbers, the pid files, and
  the program in the middle of a fork or a wait.
- `DbgMalloc` (`tdxagwDbgMalloc.cpp`): pools, heap blocks, and the pointers of the
  program.

- `LfsRead`: a log as a sequence of lines with times and lengths, to which lines
  are appended at any time; a reader that opens it, seeks for a time read by read
  (`Seek`, with the arguments of `_getSeqPosition` as `range`), reads the range block
  by block (`ReadBlock`) and line by line (`outfilter`), and closes it.

Algorithms, as operators with a reference definition beside each:

- `DnsMessage`: names with compression, headers, questions, records, and the
  layout of `struct hostent` in the caller's buffer.
- `WsFrame`: frames encoded and decoded byte by byte. `LineStream`: the readers of
  the log server, the serial port and `nc`. Each is a record of a buffer that is
  folded over the pieces of a stream.
- `HexText`, `OsString`: the conversions of `common.c` and the JSON filters, and
  the functions of `os_internal.c`.

`TimeoutListTheorems` and the modules that end in `Proofs` hold the proofs, and
`MC*` the constants for TLC. `MCCodecs` gives the algorithms one bounded input
after the other; `MCPrograms` is `NsTimers`, `ExceptContext`, `SubProcess`,
`DbgMalloc`, `CallbackItf`, `LfsRead` and `MCCodecs` side by side, of which a behaviour
exercises one, and `MCEloopTime` is `EloopWatchdog` and `EloopTimeChange` in the same manner.

Definitions keep the names of the code. `map` in `PROJECT.json` gives the lines
of each. An operator under a comment that begins with "Mutation of" is a wrong
version of the definition it names, such as a walk that compares seconds only;
no specification uses it. It documents which mistake each property catches.

## What the runs show

| Run | Properties |
|---|---|
| `EloopTimeout` | types, `ServiceOrder`, `NoDoubleUse`, `NoOversleep`, `NoneDueWhenNoneFires`, `NoStarvation`; the list implements `TimerSet` |
| `EloopSock` | `MaxSockCovers`, `NotCalledInOwnDispatch`, `WalkStaysInTable`, `TerminateEndsRun`, `ReadySocketServed` |
| `EloopSignal` | `NoMarkLost`, `AlarmTracksPending`, `NotedIsCalled` |
| `EloopTime` | `CurrentIsNearest`, `WatchdogGuardsNearest`; `NotBeforeGivenTime`, `NotSleptOver`, `StaysSorted` |
| `Task` | `NothingLeftBehind`, `SleepEnds`; tasks implement `Coroutine` |
| `DnsLookup` | `AnswersLastQuery`, `AsksChosenServer`, `LookupEnds` |
| `Programs` | `InnermostUntilNestedEnds`, `MonitorGuardsHandlers`, `SleepsInTime`, `MarkedIsNoticed`, `PidFilesNameChildren`, `BlocksHaveOneOwner`, `PairsOwned`, `RangesFound`, `RangesInWholeLines`, `TextsSurvive`, `AddressesSurvive`, `StreamSurvives`; both loops of timers implement `TimerSet`; the pairs implement `CallbackRegistry` |

Five runs end in a counterexample; each is a disagreement between the code and
what a header or a definition says, listed under `findings`:

- `EloopTimeChange_lp64`: `0xFFFFFFFF` is not the maximum of a 64-bit
  `unsigned long`: two readings of the same tick look 2^32 ticks apart, and every
  timeout is called early although nobody has touched the clock.
- `CallbackItf_signals`: `SignalUnregister` deletes the pair that the loop keeps,
  and the next signal is delivered through it.
- `LfsRead_long`: the writer accepts lines of up to 32768 bytes
  (`MAX_LOGLINE_SIZE`). When the middle of a range lies in a long line, the next line
  may be the end of the range, and `_getSeqPosition` calls itself with the arguments
  it has: the search never ends. Lines shorter than half of `DATA_SIZE` are safe
  (`ShortLines`); that is a theorem.
- `EloopSignal_twice`: `eloop_handle_signal` leaves its loop at the first entry of the
  signal (688), so that a second registration of the same signal is accepted and
  never called. The same property fails for a signal that comes while
  `eloop_register_signal` has moved the table and not yet assigned it (734 to 746):
  the mark is made in the freed block. `eloop.h` promises a call when a signal is
  received. `NotedIsCalled` is what remains true.
- `ExceptContext_nested`: `freestate` frees the first slot of the process. When an
  `eloop_run` nested in a handler returns, that is the outer loop's, and a Throw in the
  rest of the handler does not reach the innermost Try, as `cexcept.h` promises.
  `InnermostUntilNestedEnds` is what remains true.

### What the properties grant

Some of what the code does is modelled and excepted by name in a property or by
a constant, because nothing in the repository says that it should be otherwise:

- The fd sets of `pselect` are used after handlers ran that may have closed a
  socket whose number was then reused (`eloop.c:251`): the new handler is called
  without data. `NotCalledInOwnDispatch` is about one table only.
- A registered descriptor that was closed makes `pselect` fail and ends
  `eloop_run` (865). `ReadySocketServed` is about a loop that runs.
- `NoMarkLost` and `NotedIsCalled` are about the first registration of a signal, and
  not about signals that come while `os_realloc` has moved the table. A SIGTERM just
  before `pselect` is not seen before the next event (848), so that the alarm kills an
  idle process: `OtherEvents = TRUE` says that there are other events. A second SIGTERM
  during the scan is called in that scan, and its alarm stays armed (703).
- A handler that changes a table and then runs the loop itself has its change
  forgotten, because the inner dispatch begins with `changed = 0` (249): the walk may
  call an entry that was never polled, or leave the table. `NotCalledInOwnDispatch`
  and `WalkStaysInTable` grant the rest of such an iteration (`nested`).
- A timeout registered between a change of the clock and its detection is shifted
  although it has the new time (811), and a change while no `eloop_run` runs is
  never detected (792). `NotBeforeGivenTime` and `NotSleptOver` grant each timeout
  what the loop has missed of it in this way, and no more; they, and `StaysSorted`,
  are silent once the list has straddled the second 1000000000 (`mixed`), when
  `eloop_timeUpdate` moves a part of it only.
- A watchdog timeout that fires is popped without `OnUnregisterWDT` (882): the
  pointer dangles. `EloopWatchdog` says nothing once one has fired; the watchdog is
  presumed to have reset the system.
- `GetTimeLeft` returns -1 seconds and some microseconds for a time less than a
  second ago; the model adds them up, as an `eloop_restartWDT` has to.
- `SetPendingMonitor` and `ClrPendingMonitor` refuse while a termination signal is
  pending, and a Throw skips the second: the monitor stays set (`late`). The
  handler of a nested loop clears the monitor of the one around it.
- `InnermostUntilNestedEnds` grants what follows the return of a nested `eloop_run`
  (`ended`), which the run `ExceptContext_nested` shows.
- A task that the application misuses may bring the library to use a context after
  its end (`broken`): a task destroyed in its sleep leaves its timeout, whose handler
  resumes the freed context; a task destroyed after its end, as a task object's
  destructor does, is freed twice; a task resumed or destroyed by the callback that
  is called for it is looked at once more (`context.c:170`). `ImplementsCoroutine` says
  that nothing else breaks; `NothingLeftBehind` is about tasks that run or have ended.
- A lookup for the second server overwrites the head of the list for its time, so
  that a lookup for the first one that starts meanwhile asks the second; and each
  lookup puts back the head it has saved (`dns.c:1586`). That is right as long as
  lookups end in the reverse order of their starts, as blocking calls do. It goes
  wrong when one for the second server and another end in the order they began
  (`CrossedByEnd`), and when the list is read, by a blocking lookup, under one for
  the second server or with other servers in `resolv.conf` (`CrossedByReading`).
  `AsksChosenServer` holds until then, and neither exception can be dropped: without
  it TLC finds a query to the wrong server.
- On Linux `waitpid` refuses `WNOWAIT`, so that `check_sub_process` never sees how
  a child ended and killed children stay zombies until they are waited for.
- `my_realloc` that makes a block smaller by more than a unit writes behind it
  (`overrun`), after which `BlocksHaveOneOwner` is silent.
- A range of the log includes the last line when none lies between it and the second
  time (`filter1`, line 258), and lines appended since the log was opened when that
  time is later; `RangeHolds` names both. When the range ends inside the file, a block
  that begins inside a sector is read too short (line 323), and lines at the end of
  the range may be missing: `ReadToEnd` is about ranges to the end of the file.
- A line as long as the serial port's buffer is never ended, and the port stalls.

### Bounds

- Timeouts: three blocks give lists of three entries, enough for an insertion in
  front, in the middle, behind and between equals, and for a cancellation that
  takes several. Two pairs of arguments, which differ in one, tell a cancellation
  for one pair from one for all (`ALL`). A second has two microseconds so that carries
  and borrows happen; `Horizon` bounds the clock and the times in the list. The theorems
  remove these bounds.
- Sockets: two descriptors, at most two registrations of each; both are read and the
  larger is written (`Used`). What a dispatch can get wrong needs one socket that is
  called and one that is changed; two tables show the effect of one table's handlers
  on the next, and that of a maximum over one table only. One run of the loop inside
  another (`MaxNested`). The application registers at most `MaxChanges` times: without
  that bound `ReadySocketServed` is false, because the dispatch of a table stops when
  a handler has changed the table and starts again at the front, so that a handler
  that always changes it starves the sockets behind its own. The theorems remove the
  bounds from the safety properties.
- Signals: one ordinary signal and one that terminates, each registered up to twice
  (`MaxPerSig`), so that entries lie behind the first of their signal and the table
  moves under an entry that is marked.
- Clock: four microseconds to a second, two ticks to a second, `unsigned long`
  with 16 values so that the ticks wrap within the run, an `Era` of 50 seconds
  for the 1000000000 of the code. Two timeouts and two changes of the clock, which is
  set from 1970 to the present, set back by two seconds, or changed by too little to
  notice. `Latest` bounds true time. `Tolerance` grants each change of the clock what
  the code ignores (0.9 s) and one tick of rounding, and nothing when the clock is
  left alone.
- Watchdog: three blocks, so that a cancellation can take the current entry, its
  successor, or both, and leave a third; the clock starts at the end of second one,
  because `GetTimeLeft` treats the first second of 1970 apart, and so that delays
  carry. Blocks are interchangeable and form the symmetry set; there is no liveness
  in this run.
- Tasks: two, so that one can resume or destroy the other from its callback; user data
  0 and 4 with `Word = 4`: NULL, and a pointer whose low word is 0. Two frames: a
  callback and a switch under it.
- Lookups: two, over two servers and a search domain, one try each, so that a
  lookup sends up to four queries, and four ids, the fewest `IdsOutlastLookup`
  permits, so that they wrap; one change of `resolv.conf` among four contents, of
  which one lists the same server twice.
- `MCCodecs`: names of three labels of two bytes; four records in a buffer of every
  length around what they need; frames at the borders of the three forms of a
  length (the sizes are parameters); every way to cut two requests, lines or
  frames into pieces.
- `Programs`: four microseconds to the second and two to the millisecond, three
  values for `unsigned int` and two seconds that are for ever, so that a wait is cut
  and wraps; two blocks for the timeouts of both loops, and one signal. Two slots of
  `g_state`, so that a second nested `eloop_run` finds none, and six frames in each
  other (the same in `ExceptContext_nested`). Three processes with two files. Pools of
  two blocks, the second made one byte
  too small as the 25-byte pool of the code is, a unit of three bytes, three
  pointers. Two objects, two pairs and one key, so that a block can be used again for
  another object. Five lines of two lengths, seven bytes to find a line, so that a
  range is halved and walked line by line, and blocks of nine bytes, with sectors of
  two, that cut lines. Only the blocks of timeouts are a symmetry set.

Runs without the check for deadlock are those in which the system may stop: at
a bound (`EloopTime`, `EloopTimeChange_lp64`), because the program ends
(`Programs`, `ExceptContext_nested`, and by the alarm in `EloopSignal`), or
because it has used a context after its end (`Task`).

### Fairness

The steps of the loop are weakly fair: it is one thread that the system
schedules, and a handler returns (the documentation asks handlers not to block).
`pselect` returns when its timeout has elapsed, when a polled socket is ready or a
descriptor is bad; nothing is assumed when none of this is so, and nothing is
assumed of the application, of signals or of sockets. In `EloopSock` the return of a
handler is strongly fair: it may run the loop itself, again and again, and when the
inner run has ended it must go on. For the timeouts the clock
is weakly fair, it advances. In `EloopSignal` the constant `OtherEvents` says
that `pselect` returns for a reason other than signals, such as a periodic
timeout.

`Task` assumes of the loop what `EloopTimeout!NoStarvation` shows: a timeout that
waits is called. The loop is left and entered in between, so `TimeoutFires` is not
enabled all the time, and its fairness is strong. That a callback returns is
strongly fair for the same reason: it may be interrupted by others, and must finish
when it has its turn. That a task which runs gives control back is weakly fair:
nothing else runs until it does.
`DnsLookup` rests on `Task!SleepEnds` in the same way: a lookup that
has the thread goes on, and the time it gave to `select` ends. Nothing is assumed
of the network. `Programs`, the clock and the watchdog have no liveness
property.

## What is proved

The theorems are about every instance: any number of blocks, sockets, signals,
tasks, frames, processes and files, any delays, and no bound where the modules have
one for TLC. They assume what the modules state of their constants, and nothing
else unless it is named here.

`EloopTimeoutProofs`, about `EloopTimeout`, where `Usec` is positive
(`UsecAssumption`), delays are pairs of naturals and `NoEntry`, the model of `NULL`,
is neither an entry nor a time (`EloopTimeoutAssumption`):

- `TypeCorrect`, `BlocksUsedOnce`, `OrderOfService`, `SleepIsShort`: the four
  invariants of the run `EloopTimeout`;
- `HeadSpeaksForAll`: an iteration that calls no handler leaves none due;
- `ListImplementsTimerSet`: `Spec` implies the specification of `TimerSet`.

The inductive invariant is `Inv`, the conjunction of the four. They need each
other: the sleep is right because the head of the list is the earliest, which is
`ServiceOrder`; the order survives a cancellation or a pop because `older`
forgets exactly the blocks that are gone, which is true because no block is
linked twice, `NoDoubleUse`; and the comparisons mean what they should because
times are normalised, `TypeOK`. Each part has an Init lemma and a Step lemma with
a case for each action; `Invariance` puts them together.

`EloopTimeProofs` proves about `EloopWatchdog` that the pointer and the watchdog
are those of the nearest watchdog timeout until one fires (`PointerFollowsNearest`,
`WatchdogFollowsNearest`), and the types (`WatchdogTypes`). Its invariant states the
pointer by position: it is the first flagged entry of the list (`Guarded`); that
this entry is the nearest needs the list to be sorted, that a removal finds its
position needs the blocks to be distinct, and that the watchdog is restarted rightly
needs the present to be after 1970 (`now.sec >= 1`).

The second half of the module is about `EloopTimeChange`, whose instance is `Clock`.
Its three invariants are proved for any delays, any amounts the clock is set by, any
number of changes wherever the thread is, and any number of runs of the loop, as long
as the list has stayed on one side of the second 1000000000 (`OneEra`; the walk of
`eloop_timeUpdate` moves a part of a list that straddles it):

- `ShiftKeepsOrder`: `StaysSorted`, without an assumption. `OrderInv` is the types and
  the order of the instants; it needs that one carry or borrow normalises a time, even
  where the expected time has a whole second of microseconds (`ExpectedFacts`), and
  that a comparison moves every entry by the same amount (`ShiftFacts`).
- `NoneCalledEarly`, `NoneSleptOver`: `NotBeforeGivenTime` and `NotSleptOver`.
  `Tracked` says at which true time the last comparison was and how far the clock
  was ahead then, and that every time in the list is the true one it aims at (`Aim`:
  what was asked for, and what the loop has missed) moved as far, but for one `Cost`
  (what is ignored and a tick) for each change noticed; `WakesInTime` says that the
  sleep ends in time for the whole list, which is in order. `MovedAsFar` is the step
  between: two readings in ticks tell how far the clock was set, but for one tick.

The last two assume `ClockFits`: the run is shorter than one wrap of the ticks
(`TicksComparable`), and a tick, 10 ms, is no more than the 0.9 s that are ignored. And
they are about the behaviours in which every comparison counts the ticks rightly
(`CountsTicks`): either `0xFFFFFFFF` is the maximum of `unsigned long`, or the ticks have
advanced since the last comparison and have not wrapped. That excludes what the run
`EloopTimeChange_lp64` shows and no more. Nothing is assumed of when the clock is set.
The run `EloopTime` is an instance of all of these. `EitherOnItsOwn`
says that what the run checks is what the two modules specify.

`EloopSockProofs` proves the three safety properties of the run `EloopSock`
(`MaxSockIsKept`, `AddedLater`, `WalkIsSafe`). `Origins` is what makes the second
inductive: at each place of an iteration it bounds where the entries of the tables
may come from; an entry that was born in the dispatch of its own table is there only
when that table is marked as changed, and then the walk ends, unless a handler has run
the loop, which forgets the mark (`nested`). Runs inside runs may have any depth: the
frames in `outer` are typed, and what an outer run knows of its tables is
granted when it goes on. `MaxSockCovers` is kept
when the entry of the largest socket is unregistered because the new maximum is
taken over all three tables.

`EloopSignalProofs` proves `MarksAreKept` and `AlarmIsPending`, for any signals, any
number of registrations of each and an `os_realloc` that moves the table or not;
neither assumes anything. `MarkFacts` says what the handler's walk does to a table: it
marks the first entry of its signal, which is the only one `NoMarkLost` speaks of.
`HasEntry` ties a registration to the entry it has made. `AlarmInv` names the instant
between `alarm(0)` and the reset of the flag.

`TaskProofs` proves `NothingLeft` and `TasksAreCoroutines`, the refinement of
`Coroutine`. `Control` says that the task which runs is the current context and that
the last frame of the default context waits for it; so a task that gives control back
returns to its own frame, and `ifCompleted_task` looks at the task that has just run.
`TimeoutsOfSleeps` says that a waiting timeout is the one of the sleep its task is in,
or was destroyed in, and that `bIsTimeout` does not claim that it has fired; so
cancelling one entry when a sleep ends is enough. Nothing is assumed of the
application: `RulesOf` and `FramesOK` say which rule it must have broken before the
library can meet a context after its end, in the loop or in a frame of the default
context. `Moved` lists the moves a step can make in the life of a task,
and each is a step of `Coroutine`.

`DnsLookupProofs` proves `AnswersAreSolicited` and `ChosenServerIsAsked`. The first
is about ids that wrap: `IdsInv` says that the queries of a lookup are no older, in
steps of `id`, than the tries it has made, so that its last query is the only one
with its id as long as a lookup has no more tries than there are ids. This is
`IdsOutlastLookup`; the code sends at most 4 * 3 * 5 = 60 queries per lookup, of
65536 ids. The second assumes nothing of how lookups overlap; `HeadsInOrder` says that
as long as none have crossed the heads are kept as on a stack: each lookup has put
aside the head that the lookups before it (`before`) have left, so that the last one
to end puts back the one of the list.

`ProgramsProofs` is about six of the modules of the run `Programs`, with the
assumptions they state and, for those of `MCPrograms`, `ConstantsAssumption`.
`EachOnItsOwn` says that what the run checks is what the modules specify.

- `NsTimers`: `PollsAreShort`, `LoopsAreTimerSets`, `MarksAreNoticed`. `TimersInv` is
  to each loop what `Inv` is to `EloopTimeout`: its list is in order, the history
  `older` is about the blocks that are linked, and the poll is short because the
  head is the earliest. A poll is cut to milliseconds and to an `unsigned int`;
  that the largest of them is not beyond "for ever" is an assumption of the
  module. `SignalsInv` says of a marked entry that the walk will still come to it or
  that `signaled` asks for another walk.
- `ExceptContext`: `MonitorIsCleared`, `InnermostTryCatches`. `FirstSlot` says that
  until a nested `eloop_run` has ended the first slot of the process notes the
  innermost Try, and that each Try remembers the one around it. The slots that
  nested loops take do no harm because `findstate` takes the first. Signals that
  become exceptions may come any number of times; the run `ExceptContext_nested`
  shows why the theorem ends where a nested loop does.
- `SubProcess`: `FilesNameOwnChildren`, a pid file names a child that was started with
  this file and not waited for. What has to be remembered is the program in the
  middle of a fork (`ForkedIsOwn`: the child to be noted is the file's) and of a
  wait (`WaitedIsUnnamed`: no file names the child whose number becomes free).
- `DbgMalloc`: `BlocksKept`. `MemInv` says that the blocks in use, of the pools and of
  the heap, are the blocks that pointers hold, each one pointer, and that each has
  the room asked for; it needs that a pool's block is at least what it was made for,
  rounded up to the unit.
- `CallbackItf`: `PairsStayOwned` and `RegistryImplemented`. `PairInv` says that a pair
  belongs to one registration, `CallInv` that what the application knows to be
  registered is what the loop would call: each entry of the loop leads to its own
  pair, and the pair to the object. The second is for programs that keep their
  signals (`KeepSignals`); the run `CallbackItf_signals` shows why.

- `LfsRead`: `RangesHoldTheLines`, `RangesAreFound` and `LinesAreWhole`, for logs of any
  length and any appending while they are searched and read. `LogSound` says that the
  lines lie behind each other and that their times increase, so that offsets and
  times order them alike. `SearchSound` says that the line sought is between the two
  ends of `range`, which are lines the log had when it was opened; when a search
  returns, `StartFound` and `EndFound` say on which side of the position each line is.
  `SearchNarrows` bounds the reads by the lines that are out of `range`; it assumes
  `ShortLines`, because only then the line found in the middle is never the upper end of
  `range`. `BlockSound` says that the buffer holds the file from the beginning of the
  next line to where it was read (`at`), and that `off`, which counts the part of a
  line that was kept in the buffer twice, is so little ahead that it does not reach
  `0xFFFFFFFE` before the file ends. Three facts are about what the reader does:
  `RightPosition`, what a search returns; that a block brings the end of the next line,
  since the buffer holds a line and a sector; and that the reader stops only behind
  all lines it knew, when the range goes to the end of the file.

`TimeoutListTheorems` holds the facts about the operators of the list: the order of
times, the carry and the borrow (`AddSub`, `AfterIsNormal`), the insertion
(`InsertFacts`) and the cancellation (`RemainingFacts`). A cancellation is defined
by an increasing enumeration of the positions that stay; that one exists is
`EnumerationExists`, an induction over a bound of the positions. The induction
theorems of the library take an operator as a parameter, which the provers cannot
instantiate, so `SetInduction` states induction for a set of numbers, and is
proved by the pigeonhole principle for finite sets; where a smallest number is
needed, `WellFoundedInduction` gives it.

Only model-checked are the liveness properties (liveness and `ENABLED` are beyond the
prover), and the three properties of `MCCodecs` (`TextsSurvive`, `AddressesSurvive`,
`StreamSurvives`): the codecs are folds and recursive functions, and what these
compute are facts by induction over data. That a search of the log ends is proved as
a bound of its reads.

## What is not modelled

`PROJECT.json` names every part and the reason. Of the repository:

- `os_unix.c`, `os_none.c`, `os_win32.c`, `includes.h`: wrappers of the C library,
  without state. `asm.S` and the `*-ucontext.h` files: registers and stacks of each
  processor, from libtask; `Task` models what they do, a switch of stacks.
- `cur_strftime.c`, `test64.c`, `unit_test_support.c`, `unixSigProc.c`,
  `cygwin_backtrace.c`, `mutex_lock.c`, the samples and the build files: nothing in
  the library uses them.
- `net_skeleton.h`, `iobuf.h`, `internal.h`: of other projects. The programs that
  use them are modelled from the bytes they receive to the bytes they send.
- `eloop_run_with_mySocket` is compiled out. `eloop_timeChange` prints and does
  nothing in this configuration.

Within the modelled parts:

- Threads other than the loop's (the code only prints a warning for them), out of
  memory beyond "the call changes nothing", the Windows variants, and messages.
  Integers are unbounded, except where their width decides something: clock ticks,
  milliseconds of a poll, ids, pointers cut to an int.
- `eloop_destroy` frees everything and leaves the pointers; no call may follow it.
- A handler of a timeout or signal that runs the loop itself, which `EloopSock` and
  `ExceptContext` have, is not in `EloopTimeout`, `EloopSignal` and `EloopTimeChange`: an
  inner run has a `t0` and a `time0` of its own, so that both runs would shift the
  list for the same change of the clock.
- `Task`: a switch from one task directly to another (`context.c:280`), which no
  function of the library makes. Task objects (`eloop_callback_itf.h:437`) as far as
  they go beyond contexts: `RunFunc` takes the context for the object (430), so that
  `Run` is not reached; their destructor is a `destroy_task` of whatever context
  the object was made with.
- `DnsLookup`, `DnsMessage`: `/etc/hosts` and `/etc/resolv.conf` as texts, the look-up
  by address, and answers with a CNAME and no address (after which the freed name is
  used again, `dns.c:1375`).
- `CallbackItf`: the watchdog variants, a `GetSocketFd()` that changes, and two
  registrations that share a pair.
- `ExceptContext`: back traces, and forked children, which have another pid and find
  no slot.
- `NsTimers`: the poll of the other library beyond its waiting, the stubs for sockets.
- `LfsRead`: the formatting and parsing of time stamps and texts, the test program;
  two lines with the same time; an append in the middle of `init_lfs`; an empty file;
  lines so long that `getNearSeq` finds no line end in `DATA_SIZE` bytes; files of
  more than 4 GB, inside which `0xFFFFFFFE` would lie. That memory for the lines
  is refused or too small is the empty result of `ReadBlock`.
- `WsFrame`, `LineStream`: the JSON checks of the filters, the settings of the port,
  typed lines longer than `nc`'s buffer, a stream whose first byte is not a frame's.
- `SubProcess`: the handler of SIGCHLD, and pid files left by an earlier run.

## How to go on

Worth proving next: that a list which straddles the second 1000000000 is moved in
such a way that it becomes sorted again, or an instance that shows where it does not.
Worth modelling next: the composition of timeouts, sockets and signals in one loop,
with runs inside runs, and a lookup as a task of `Task` instead of a process of its own.
