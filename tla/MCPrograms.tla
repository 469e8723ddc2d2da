----------------------------- MODULE MCPrograms -----------------------------
(* Instances of NsTimers, ExceptContext, SubProcess, DbgMalloc, CallbackItf, *)
(* LfsRead and of the codecs for TLC.  They share nothing: a behaviour takes *)
(* steps of one of them only.                                                *)
EXTENDS NsTimers, TLC

CONSTANTS MAX_THREAD, MonitorType, Off, TermHandler, MaxDepth,
          Pid, File, Absent, NoPid,
          PoolSlots, Unit, PoolSize, MadeFor, Size, HeapBlock, Ref, NULL,
          Objects, Pairs, Keys, NoPair, KeepSignals,
          DATA_SIZE, BULK_BUF_SIZE, Sector, MAX_LOGLINE_SIZE, Stamp, Beyond,
          Writes, Times, Offsets, MaxLines, MaxSize

VARIABLES used, penv, stack, monitor, pending, state, ended, late,
          proc, started, pidFile, place, current, child,
          mem, held, overrun,
          alive, pair, loop, registered, kept, called,
          log, lfs, range, block, out,
          input

contextVars == <<used, penv, stack, monitor, pending, state, ended, late>>
processVars == <<proc, started, pidFile, place, current, child>>
memoryVars == <<mem, held, overrun>>
callbackVars == <<alive, pair, loop, registered, kept, called>>
readVars == <<log, lfs, range, block, out>>
allVars == <<vars, contextVars, processVars, memoryVars, callbackVars, readVars,
             input>>

Contexts == INSTANCE ExceptContext WITH pending_terminate <- pending
Processes == INSTANCE SubProcess
Memory == INSTANCE DbgMalloc
Callbacks == INSTANCE CallbackItf WITH held <- registered, None <- NoPair
Lfs == INSTANCE LfsRead

\* Two bytes to an address, a pointer and a mask, four to the aliases; lengths to
\* the base of 2, of which those over 1 take a longer form.
Codecs == INSTANCE MCCodecs WITH
              In <- 2, Ptr <- 2, ALIAS_DIM <- 4, NameRoom <- 12, T_A <- 1,
              ShortMax <- 1, Base <- 2, MaskLen <- 2,
              Nul <- 0, NewLine <- 10, Brace <- 123, PING <- <<3, 4>>,
              TcpRoom <- 5, SerialMax <- 3, LineMax <- 6,
              Colon <- 58, Underscore <- 95, SsidMax <- 4

ASSUME ConstantsAssumption ==
    /\ Contexts!ExceptContextAssumption
    /\ Processes!SubProcessAssumption
    /\ Memory!DbgMallocAssumption
    /\ Callbacks!CallbackItfAssumption
    /\ Lfs!LfsReadAssumption
    /\ Codecs!DnsMessageAssumption /\ Codecs!WsFrameAssumption
    /\ Codecs!LineStreamAssumption /\ Codecs!HexTextAssumption

\* The programs that have not made a step yet.
TimersInit == Init /\ UNCHANGED vars
ContextsInit == Contexts!Init /\ UNCHANGED contextVars
ProcessesInit == Processes!Init /\ UNCHANGED processVars
MemoryInit == Memory!Init /\ UNCHANGED memoryVars
CallbacksInit == Callbacks!Init /\ UNCHANGED callbackVars
ReadsInit == Lfs!Init /\ UNCHANGED readVars
CodecsInit == Codecs!Init /\ UNCHANGED input

InitAll ==
    /\ Init /\ Contexts!Init /\ Processes!Init /\ Memory!Init /\ Callbacks!Init
    /\ Lfs!Init /\ Codecs!Init
NextAll ==
    \/ /\ ContextsInit /\ ProcessesInit /\ MemoryInit /\ CallbacksInit /\ ReadsInit /\ CodecsInit
       /\ Next
    \/ /\ TimersInit /\ ProcessesInit /\ MemoryInit /\ CallbacksInit /\ ReadsInit /\ CodecsInit
       /\ Contexts!Next
    \/ /\ TimersInit /\ ContextsInit /\ MemoryInit /\ CallbacksInit /\ ReadsInit /\ CodecsInit
       /\ Processes!Next
    \/ /\ TimersInit /\ ContextsInit /\ ProcessesInit /\ CallbacksInit /\ ReadsInit /\ CodecsInit
       /\ Memory!Next
    \/ /\ TimersInit /\ ContextsInit /\ ProcessesInit /\ MemoryInit /\ ReadsInit /\ CodecsInit
       /\ Callbacks!Next
    \/ /\ TimersInit /\ ContextsInit /\ ProcessesInit /\ MemoryInit /\ CallbacksInit /\ CodecsInit
       /\ Lfs!Next
    \/ /\ TimersInit /\ ContextsInit /\ ProcessesInit /\ MemoryInit /\ CallbacksInit /\ ReadsInit
       /\ Codecs!Next
SpecAll == InitAll /\ [][NextAll]_allVars

\* With four microseconds to the second.
DelayNs == {<<0, 1>>, <<1, 0>>}

\* With three bytes to the unit; the second pool's blocks are made one too small.
PoolSizes == <<1, 2>>
MadeFors == <<1, 1>>

\* Lines of two lengths, one of them with the text that is looked for.
LfsWrites == {[len |-> 1, match |-> TRUE, gap |-> 1], [len |-> 2, match |-> FALSE, gap |-> 2]}

Symmetry == Permutations(Ptr)

-----------------------------------------------------------------------------
(* The properties of the instances; those of NsTimers are its own *)

\* An application outside of handlers is not monitored (eloop.c, cexceptNew.c).
MonitorGuardsHandlers == Contexts!MonitorGuardsHandlers

\* A Throw jumps to the innermost Try until a nested eloop_run has ended
\* (cexceptNew.c).
InnermostUntilNestedEnds == Contexts!InnermostUntilNestedEnds

\* kill_sub_process reaches the program's own children only (unixProcess.c).
PidFilesNameChildren == Processes!PidFilesNameChildren

\* No block is given out twice or lost (tdxagwDbgMalloc.cpp).
BlocksHaveOneOwner == Memory!BlocksHaveOneOwner

\* No pair is lost or shared (eloop_callback_itf.h).
PairsOwned == Callbacks!PairsOwned

\* A method is called on an object only while it is registered for it
\* (eloop_callback_itf.h).
ImplementsRegistry == Callbacks!ImplementsRegistry

\* Names, texts and bytes are read as they were written (dns.c, jss_encode.c,
\* common.c, os_internal.c).
TextsSurvive == Codecs!TextsSurvive

\* A lookup returns the addresses it is answered with (__dns_lookup,
\* gethostbyname_r_2).
AddressesSurvive == Codecs!AddressesSurvive

\* A stream carries the same however it is cut (ws_decode.c, ns_log_server.c,
\* unix_UART.c, nc.c).
StreamSurvives == Codecs!StreamSurvives

\* The search finds the lines between two times, and it ends (filter1).
RangesFound == Lfs!RangesFound

\* What is read are these lines, whole, each once and in order; the last when
\* the end of the file is asked for (filter2, lfs_read_in).
RangesInWholeLines == Lfs!RangesInWholeLines
=============================================================================
