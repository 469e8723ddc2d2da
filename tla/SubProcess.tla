----------------------------- MODULE SubProcess -----------------------------
(***************************************************************************)
(* The sub-processes of etc/unixProcess.c.  The program notes the pid of   *)
(* each child in a file; it kills, waits for and checks children by the    *)
(* names of the files alone.  A child that cannot execute its program      *)
(* removes the file of its own accord.  A pid is free again only when the  *)
(* program has waited for the child, and then any other process may get it.*)
(*                                                                         *)
(* Modelled for Linux, where waitpid refuses WNOWAIT (EINVAL), and for the *)
(* single fork (USE_DEFAULT_FORK is 0).                                    *)
(***************************************************************************)
EXTENDS Integers

CONSTANTS Pid,     (* process numbers *)
          File,    (* names of pid files *)
          Absent,  (* there is no such file *)
          NoPid    (* -1: what fork returns when it fails *)

SubProcessAssumption == Absent \notin Pid \cup {NoPid} /\ NoPid \notin Pid

VARIABLES proc,       (* what each pid is *)
          started,    (* history: the file that each child was started with *)
          pidFile,    (* what is in each file *)
          place,      (* where the program is *)
          current,    (* the file it is called with there *)
          child       (* the pid it waits for there *)

vars == <<proc, started, pidFile, place, current, child>>

\* free; foreign: another process; forked: a child that has not come to
\* execvp; failing: one whose execvp failed; running; zombie: not waited for.
States == {"free", "foreign", "forked", "failing", "running", "zombie"}
Children == {p \in Pid : proc[p] \notin {"free", "foreign"}}

Init == /\ proc = [p \in Pid |-> "free"]
        /\ started = [p \in Pid |-> Absent]
        /\ pidFile = [f \in File |-> Absent]
        /\ place = "idle"
        /\ current = Absent
        /\ child = NoPid

-----------------------------------------------------------------------------
(* run_sub_process *)

\* fork, which may fail.
run_sub_process(f) ==
    /\ place = "idle"
    /\ \/ \E p \in Pid :
              /\ proc[p] = "free"
              /\ proc' = [proc EXCEPT ![p] = "forked"]
              /\ started' = [started EXCEPT ![p] = f]
              /\ child' = p
       \/ UNCHANGED <<proc, started>> /\ child' = NoPid
    /\ place' = "forked"
    /\ current' = f
    /\ UNCHANGED pidFile

\* safe_fork writes the pid, or the -1 of a fork that failed, unless the file
\* cannot be written; the child may have run meanwhile.  The second that
\* run_sub_process sleeps and the file it reads change its result alone.
safe_fork ==
    /\ place = "forked"
    /\ \/ pidFile' = [pidFile EXCEPT ![current] = child]
       \/ UNCHANGED pidFile
    /\ place' = "idle"
    /\ current' = Absent
    /\ child' = NoPid
    /\ UNCHANGED <<proc, started>>

-----------------------------------------------------------------------------
(* The child *)

execvp(p) ==
    /\ proc[p] = "forked"
    /\ proc' = [proc EXCEPT ![p] = "running"]
    /\ UNCHANGED <<started, pidFile, place, current, child>>

\* execvp returned; the file goes, whatever it says.
execvpFails(p) ==
    /\ proc[p] = "forked"
    /\ proc' = [proc EXCEPT ![p] = "failing"]
    /\ pidFile' = [pidFile EXCEPT ![started[p]] = Absent]
    /\ UNCHANGED <<started, place, current, child>>

exit(p) ==
    /\ proc[p] \in {"failing", "running"}
    /\ proc' = [proc EXCEPT ![p] = "zombie"]
    /\ UNCHANGED <<started, pidFile, place, current, child>>

-----------------------------------------------------------------------------
(* The other calls, by the file *)

\* The pid in a file, NoPid if it has none.
Noted(f) == IF pidFile[f] = Absent THEN NoPid ELSE pidFile[f]

\* Mutation of FileOfWait: the file is left where it is.
FileOfWaitKept(f) == pidFile

\* wait_sub_process removes the file before it waits.
FileOfWait(f) == [pidFile EXCEPT ![f] = Absent]

\* SIGKILL reaches whatever process has the pid; a child is not waited for.
kill_sub_process(f) ==
    /\ place = "idle"
    /\ pidFile' = [pidFile EXCEPT ![f] = Absent]
    /\ proc' = [p \in Pid |->
                   CASE p # Noted(f) \/ proc[p] = "free" -> proc[p]
                     [] p = Noted(f) /\ proc[p] = "foreign" -> "free"
                     [] p = Noted(f) /\ p \in Children -> "zombie"]
    /\ UNCHANGED <<started, place, current, child>>

wait_sub_process(f) ==
    /\ place = "idle"
    /\ pidFile' = FileOfWait(f)
    /\ IF Noted(f) \in Children
       THEN /\ place' = "waiting"
            /\ current' = f
            /\ child' = Noted(f)
       ELSE UNCHANGED <<place, current, child>>
    /\ UNCHANGED <<proc, started>>

\* waitpid returns: the pid is free.
waitpid ==
    /\ place = "waiting"
    /\ proc[child] = "zombie"
    /\ proc' = [proc EXCEPT ![child] = "free"]
    /\ started' = [started EXCEPT ![child] = Absent]
    /\ place' = "idle"
    /\ current' = Absent
    /\ child' = NoPid
    /\ UNCHANGED pidFile

\* check_sub_process looks into the file; its waitpid is refused.
check_sub_process(f) == place = "idle" /\ UNCHANGED vars

-----------------------------------------------------------------------------
\* Other processes come and go.
Foreign(p) ==
    /\ \/ proc[p] = "free" /\ proc' = [proc EXCEPT ![p] = "foreign"]
       \/ proc[p] = "foreign" /\ proc' = [proc EXCEPT ![p] = "free"]
    /\ UNCHANGED <<started, pidFile, place, current, child>>

Next == \/ \E f \in File : \/ run_sub_process(f)
                           \/ kill_sub_process(f)
                           \/ wait_sub_process(f)
                           \/ check_sub_process(f)
        \/ safe_fork
        \/ waitpid
        \/ \E p \in Pid : execvp(p) \/ execvpFails(p) \/ exit(p) \/ Foreign(p)

Spec == Init /\ [][Next]_vars

-----------------------------------------------------------------------------
(* Property *)

\* A pid that is noted in a file is that of a child started with this file and
\* not waited for, however children fail, end and are started again with a file
\* in use: kill_sub_process never hits another process (unixProcess.c).
PidFilesNameChildren ==
    \A f \in File : Noted(f) # NoPid =>
        Noted(f) \in Children /\ started[Noted(f)] = f

=============================================================================
