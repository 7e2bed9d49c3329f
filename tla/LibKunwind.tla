------------------------------ MODULE LibKunwind ------------------------------
(***************************************************************************)
(* libkunwind (src/libkunwind/src/libkunwind.c and find_proc_info.c) above the       *)
(* loading of modules in the kernel: what kunwind_init_proc_info returns, the       *)
(* handle it gives and the file that it opens, closes or leaves open.              *)
(*                                                                         *)
(* One thread calls the library; a thread that has the file open already gets      *)
(* EBUSY from kunwind_debug_open.  A thread with use = "file" does without the      *)
(* library and gives any ioctls to a file of its own.                              *)
(***************************************************************************)
EXTENDS ModuleLoad

VARIABLES
    use,        \* "library" or "file"
    lib,        \* "app", or where in the library the thread is; "exited"
    pinfo,      \* the argument of kunwind_init_proc_info
    file,       \* whether the thread has the file open
    handle,     \* whether the caller has a handle
    ret,        \* what kunwind_init_proc_info returned last
    lost        \* whether an ioctl of kunwind_init_proc_info has failed

libVars == <<use, lib, pinfo, file, handle, ret, lost>>

NULL == 0
Crash == -1
EBUSY == 16     \* errno is positive

LibInit ==
    /\ Init
    /\ use \in {"library", "file"}
    /\ lib = "app" /\ pinfo = NULL
    /\ file = FALSE /\ handle = FALSE /\ ret = 0 /\ lost = FALSE

-----------------------------------------------------------------------------
(* find_proc_info.  The objects of a process are a sequence: has each got a        *)
(* PT_GNU_EH_FRAME?  The result is the number of load segments.                    *)

Objects == UNION {[1 .. n -> BOOLEAN] : n \in 1 .. MaxSegments}

\* extract_unwind_info ends the iteration at an object without; then the list is
\* freed, which reads its first element.
find_proc_info(objects) ==
    IF \A i \in DOMAIN objects : objects[i] THEN Len(objects)
    ELSE IF objects[1] THEN NULL ELSE Crash

-----------------------------------------------------------------------------
(* kunwind_init_proc_info *)

CallerFree == use = "library" /\ lib = "app" /\ step \in {"idle", "released"}

\* fopen: kunwind_debug_open finds the thread registered.
Busy == file

FopenFails ==
    /\ CallerFree
    /\ ret' \in IF Busy THEN {EBUSY} ELSE {-ENOMEM}
    /\ UNCHANGED <<vars, use, lib, pinfo, file, handle, lost>>

Fopen(p) ==
    /\ CallerFree /\ calls < MaxCalls /\ p # Crash
    /\ ~Busy /\ Open /\ UNCHANGED differs
    /\ lib' = "ioctl" /\ pinfo' = p /\ file' = TRUE
    /\ UNCHANGED <<use, handle, ret, lost>>

\* With NULL the kernel goes through the vmas, of which there may be any number.
Ioctl ==
    /\ lib = "ioctl"
    /\ \/ pinfo = NULL /\ \E n \in 0 .. MaxSegments : Begin("task", n)
       \/ pinfo # NULL /\ Begin("proc_info", pinfo)
       \/ pinfo # NULL /\ \E error \in {EFAULT, ENOMEM} : Unreadable(error)
    /\ UNCHANGED differs
    /\ lib' = "answer"
    /\ UNCHANGED <<use, pinfo, file, handle, ret, lost>>

Answered == lib = "answer" /\ step = "idle"

\* "if (ret < 0)": ioctl(2) returns -1 for any error, and the file stays open.
IoctlFailed ==
    /\ Answered /\ res < 0
    /\ ret' = -1 /\ lost' = TRUE
    /\ lib' = "app"
    /\ UNCHANGED <<vars, use, pinfo, file, handle>>

CallocFails_NoClose ==
    /\ Answered /\ res >= 0
    /\ ret' = ENOMEM /\ lib' = "app"
    /\ UNCHANGED <<vars, use, pinfo, file, handle, lost>>

CallocFails ==
    /\ Answered /\ res >= 0
    /\ Release /\ UNCHANGED differs
    /\ ret' = ENOMEM /\ lib' = "closing"
    /\ UNCHANGED <<use, pinfo, file, handle, lost>>

\* res is positive when vmap has failed.
Succeed_AnswerZero ==
    /\ Answered /\ res >= 0
    /\ ret' = 0 /\ handle' = TRUE
    /\ lib' = "app"
    /\ UNCHANGED <<vars, use, pinfo, file, lost>>

Succeed ==
    /\ Answered /\ res >= 0
    /\ ret' = res /\ handle' = TRUE
    /\ lib' = "app"
    /\ UNCHANGED <<vars, use, pinfo, file, lost>>

-----------------------------------------------------------------------------
(* kunwind_close, and the end of the process *)

kunwind_close ==
    /\ CallerFree /\ handle
    /\ Release /\ UNCHANGED differs
    /\ handle' = FALSE /\ lib' = "closing"
    /\ UNCHANGED <<use, pinfo, file, ret, lost>>

Closed ==
    /\ lib = "closing" /\ step = "released"
    /\ file' = FALSE /\ lib' = "app"
    /\ UNCHANGED <<vars, use, pinfo, handle, ret, lost>>

\* The kernel closes the file.  A process also ends when find_proc_info crashes.
Exit ==
    /\ CallerFree
    /\ IF file THEN Release /\ UNCHANGED differs ELSE UNCHANGED vars
    /\ lib' = "exited" /\ file' = FALSE /\ handle' = FALSE /\ lost' = FALSE
    /\ UNCHANGED <<use, pinfo, ret>>

-----------------------------------------------------------------------------
Library ==
    \/ Ioctl \/ IoctlFailed \/ CallocFails \/ Succeed \/ Closed
    \/ Work /\ UNCHANGED <<differs, libVars>>

LibNext ==
    \/ FopenFails \/ kunwind_close \/ Exit
    \/ \E p \in {NULL} \cup {find_proc_info(o) : o \in Objects} : Fopen(p)
    \/ Library
    \/ use = "file" /\ Call /\ UNCHANGED <<differs, libVars>>

LibSpec == LibInit /\ [][LibNext]_<<vars, libVars>>

-----------------------------------------------------------------------------
\* kunwind_init_proc_info answers 0 only with a handle, the file open, and every
\* segment of the proc_info loaded and mapped: a caller that accepts 0 alone can
\* unwind through all of them.  Anything else it may answer promises less.
ZeroMeansReady ==
    use = "library" /\ lib = "app" /\ step = "idle" /\ call = "proc_info" /\ ret = 0 =>
        handle /\ file /\ Len(listed) = wanted /\ LoadedIsMapped

\* The file is open as long as the caller has a handle to close it with.  It is open
\* without one only where an ioctl has failed; this thread then gets no handle any
\* more.
FileAccounted ==
    use = "library" /\ lib = "app" =>
        /\ file = (step # "released") /\ file = (handle \/ lost)
        /\ ~(handle /\ lost)
=============================================================================
