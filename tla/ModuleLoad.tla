------------------------------ MODULE ModuleLoad ------------------------------
(***************************************************************************)
(* Loading the modules of a process and releasing them: src/src/modules.c,       *)
(* src/src/iterate_phdr.c, kunwind_proc_info_ioctl of src/src/kunwind-debug.c.     *)
(*                                                                         *)
(* Every call that can fail may fail.  A module owns its struct, the array of      *)
(* page pointers, a reference to each pinned page and a kernel mapping; each is    *)
(* a counter, so that what is released twice goes below zero.  A NULL or an        *)
(* unmapped address that the code uses is an oops, which ends the behaviour.       *)
(***************************************************************************)
EXTENDS Integers, Sequences, FiniteSets

CONSTANTS
    MaxModules,     \* bound: modules allocated in all
    MaxCalls,       \* bound: ioctls
    MaxSegments,    \* bound: load segments, or vmas, in one ioctl
    Pages           \* pages of a module's vma

ASSUME ModuleLoadAssumption ==
    /\ {MaxModules, MaxCalls, MaxSegments} \subseteq Nat /\ Pages \in Nat \ {0}

VARIABLES
    step,       \* where the code is
    call,       \* the ioctl: "none", "proc_info", "task"
    left,       \* its segments, or vmas, still to do
    wanted,     \* modules on the list when all its segments are loaded
    res,        \* the result so far; between calls, that of the last one
    cur,        \* the module being loaded
    own,        \* what each module owns
    page,       \* what iterate_phdr owns of the page of headers
    listed,     \* stp_modules
    calls,
    differs     \* whether user memory may read differently than the mapping

vars == <<step, call, left, wanted, res, cur, own, page, listed, calls, differs>>

Ids == 1 .. MaxModules
ENOMEM == -12
EFAULT == -14
EINVAL == -22

Nothing == [struct |-> 0, pages |-> 0, pins |-> 0, vmap |-> 0, npages |-> 0]
NoPage == [pins |-> 0, vmap |-> 0]

Init ==
    /\ step = "released" /\ call = "none" /\ left = 0 /\ wanted = 0 /\ res = 0
    /\ cur = 0 /\ own = [i \in Ids |-> Nothing] /\ page = NoPage
    /\ listed = <<>> /\ calls = 0
    /\ differs \in BOOLEAN

Goto(from, to) == step = from /\ step' = to

Keep == UNCHANGED <<call, left, wanted, listed, calls>>

Oops(from) ==
    Goto(from, "oops") /\ Keep /\ UNCHANGED <<res, cur, own, page>>

-----------------------------------------------------------------------------
(* The file is opened, and the ioctls *)

\* kunwind_debug_open with init_proc_unwind_info: an empty list.
Open ==
    /\ Goto("released", "idle")
    /\ listed' = <<>>
    /\ UNCHANGED <<call, left, wanted, res, cur, own, page, calls>>

Begin(c, n) ==
    /\ calls < MaxCalls
    /\ Goto("idle", IF c = "task" THEN "vma" ELSE "segment")
    /\ call' = c /\ left' = n /\ res' = 0 /\ calls' = calls + 1
    /\ wanted' = Len(listed) + n
    /\ UNCHANGED <<cur, own, page, listed>>

\* kunwind_proc_info_ioctl cannot read the proc_info, or has no memory for it.
Unreadable(error) ==
    /\ calls < MaxCalls /\ Goto("idle", "idle")
    /\ call' = "proc_info" /\ left' = 0 /\ res' = error /\ calls' = calls + 1
    /\ wanted' = Len(listed)
    /\ UNCHANGED <<cur, own, page, listed>>

\* init_modules_from_proc_info
NextSegment ==
    /\ left > 0 /\ Goto("segment", "alloc")
    /\ Keep /\ UNCHANGED <<res, cur, own, page>>

LastSegment ==
    /\ left = 0 /\ Goto("segment", "idle")
    /\ res' = 0
    /\ Keep /\ UNCHANGED <<cur, own, page>>

-----------------------------------------------------------------------------
(* iterate_phdr with add_module *)

LastVma ==
    /\ left = 0 /\ Goto("vma", "idle")
    /\ Keep /\ UNCHANGED <<res, cur, own, page>>

\* vm_pgoff is not 0, or the page cannot be had.
SkipVma ==
    /\ left > 0 /\ Goto("vma", "vma")
    /\ left' = left - 1
    /\ UNCHANGED <<call, wanted, res, cur, own, page, listed, calls>>

PinHeaders ==
    /\ left > 0 /\ Goto("vma", "headers")
    /\ page' = [page EXCEPT !.pins = @ + 1]
    /\ Keep /\ UNCHANGED <<res, cur, own>>

MapHeadersFails ==
    /\ Goto("headers", "put")
    /\ Keep /\ UNCHANGED <<res, cur, own, page>>

MapHeaders ==
    /\ Goto("headers", "phdrs")
    /\ page' = [page EXCEPT !.vmap = @ + 1]
    /\ Keep /\ UNCHANGED <<res, cur, own>>

\* Not an ELF file, or one without PT_GNU_EH_FRAME.
NoUnwindInfo ==
    /\ Goto("phdrs", "unmap")
    /\ Keep /\ UNCHANGED <<res, cur, own, page>>

HasUnwindInfo ==
    /\ Goto("phdrs", "alloc")
    /\ Keep /\ UNCHANGED <<res, cur, own, page>>

UnmapHeaders ==
    /\ Goto("unmap", "put")
    /\ page' = [page EXCEPT !.vmap = @ - 1]
    /\ Keep /\ UNCHANGED <<res, cur, own>>

PutHeaders ==
    /\ step = "put"
    /\ page' = [page EXCEPT !.pins = @ - 1]
    /\ step' = IF res # 0 THEN "idle" ELSE "vma"
    /\ left' = left - 1
    /\ UNCHANGED <<call, wanted, res, cur, own, listed, calls>>

-----------------------------------------------------------------------------
(* init_kunwind_stp_module *)

Free == {i \in Ids : own[i] = Nothing /\ \A k \in DOMAIN listed : listed[k] # i}

AllocModule ==
    /\ Goto("alloc", "find_vma")
    /\ Free # {} /\ cur' = CHOOSE i \in Free : TRUE
    /\ own' = [own EXCEPT ![cur'].struct = 1]
    /\ Keep /\ UNCHANGED <<res, page>>

\* add_module reports it; init_modules_from_proc_info goes on with NULL.
AllocModuleFails ==
    \/ /\ call = "task" /\ Goto("alloc", "unmap")
       /\ res' = ENOMEM
       /\ Keep /\ UNCHANGED <<cur, own, page>>
    \/ call = "proc_info" /\ Oops("alloc")

\* find_vma may find nothing, and its result is used.
NoVma == Oops("find_vma")

AllocPagesFails ==
    /\ Goto("find_vma", "out")
    /\ res' = ENOMEM
    /\ Keep /\ UNCHANGED <<cur, own, page>>

AllocPages ==
    /\ Goto("find_vma", "pin")
    /\ own' = [own EXCEPT ![cur].pages = @ + 1]
    /\ Keep /\ UNCHANGED <<res, cur, page>>

PinFails ==
    /\ Goto("pin", "free_pages")
    /\ res' = EFAULT
    /\ Keep /\ UNCHANGED <<cur, own, page>>

\* __get_user_pages_unlocked may pin fewer pages than it was asked for.  npages is what
\* the code counts by from here on, first in a local variable and then in the module.
Pin(n) ==
    /\ Goto("pin", "vmap")
    /\ res' = n
    /\ own' = [own EXCEPT ![cur].pins = @ + n, ![cur].npages = n]
    /\ Keep /\ UNCHANGED <<cur, page>>

\* res is still the number of pages.
VmapFails ==
    /\ Goto("vmap", "put_pages")
    /\ Keep /\ UNCHANGED <<res, cur, own, page>>

Vmap ==
    /\ Goto("vmap", "eh_frame")
    /\ own' = [own EXCEPT ![cur].vmap = @ + 1]
    /\ Keep /\ UNCHANGED <<res, cur, page>>

\* The caller's proc_info gives the place of eh_frame: nothing is read.
EhFrameGiven ==
    /\ call = "proc_info" /\ Goto("eh_frame", "test")
    /\ Keep /\ UNCHANGED <<res, cur, own, page>>

\* eh_frame_from_hdr
EhFrameFound ==
    /\ Goto("eh_frame", "test")
    /\ res' = 0
    /\ Keep /\ UNCHANGED <<cur, own, page>>

EhFrameNotFound_NoError ==
    /\ Goto("eh_frame", "vunmap")
    /\ res' = 0
    /\ Keep /\ UNCHANGED <<cur, own, page>>

EhFrameNotFound ==
    /\ Goto("eh_frame", "vunmap")
    /\ res' = EINVAL
    /\ Keep /\ UNCHANGED <<cur, own, page>>

\* The header lies behind the pages that were pinned.
HeaderNotMapped ==
    /\ step \in {"eh_frame", "test"} /\ own[cur].npages < Pages
    /\ Oops(step)

TestFaults ==
    /\ Goto("test", "vunmap")
    /\ res' = EFAULT
    /\ Keep /\ UNCHANGED <<cur, own, page>>

TestSame ==
    /\ Goto("test", "add")
    /\ res' = 0
    /\ Keep /\ UNCHANGED <<cur, own, page>>

\* "Bad eh_frame virtual kernel address.": res is what get_user returned.
TestDiffers ==
    /\ differs /\ Goto("test", "vunmap")
    /\ res' = 0
    /\ Keep /\ UNCHANGED <<cur, own, page>>

-----------------------------------------------------------------------------
(* The labels at its end, and what the callers make of the result *)

OutVunmap ==
    /\ Goto("vunmap", "put_pages")
    /\ own' = [own EXCEPT ![cur].vmap = @ - 1]
    /\ Keep /\ UNCHANGED <<res, cur, page>>

OutPutPages_Forgotten ==
    /\ Goto("put_pages", "free_pages")
    /\ Keep /\ UNCHANGED <<res, cur, own, page>>

OutPutPages ==
    /\ Goto("put_pages", "free_pages")
    /\ own' = [own EXCEPT ![cur].pins = @ - own[cur].npages]
    /\ Keep /\ UNCHANGED <<res, cur, page>>

OutFreePages ==
    /\ Goto("free_pages", "out")
    /\ own' = [own EXCEPT ![cur].pages = @ - 1]
    /\ Keep /\ UNCHANGED <<res, cur, page>>

\* kfree(mod): its npages are gone with it.
FreeModule(i) == own' = [own EXCEPT ![i].struct = @ - 1, ![i].npages = 0]

OutZero ==
    /\ res = 0 /\ Goto("out", "add")
    /\ Keep /\ UNCHANGED <<res, cur, own, page>>

\* add_module returns 0 all the same; init_modules_from_proc_info gives up.
OutError ==
    /\ res # 0 /\ step = "out"
    /\ FreeModule(cur)
    /\ step' = IF call = "task" THEN "unmap" ELSE "idle"
    /\ res' = IF call = "task" THEN 0 ELSE res
    /\ Keep /\ UNCHANGED <<cur, page>>

Add ==
    /\ Goto("add", IF call = "task" THEN "unmap" ELSE "segment")
    /\ listed' = Append(listed, cur)
    /\ left' = IF call = "task" THEN left ELSE left - 1
    /\ UNCHANGED <<call, wanted, res, cur, own, page, calls>>

-----------------------------------------------------------------------------
(* release_unwind_info *)

Release ==
    /\ Goto("idle", "release")
    /\ call' = "none" /\ left' = 0 /\ wanted' = 0 /\ res' = 0 /\ cur' = 0
    /\ UNCHANGED <<own, page, listed, calls>>

\* close_kunwind_stp_module, list_del and kfree for the first module.
CloseModule ==
    /\ listed # <<>> /\ Goto("release", "release")
    /\ LET i == Head(listed)
       IN  own' = [own EXCEPT ![i] = [struct |-> @.struct - 1, pages |-> @.pages - 1,
                                      pins |-> @.pins - @.npages, vmap |-> @.vmap - 1,
                                      npages |-> 0]]
    /\ listed' = Tail(listed)
    /\ UNCHANGED <<call, left, wanted, res, cur, page, calls>>

Released ==
    /\ listed = <<>> /\ Goto("release", "released")
    /\ Keep /\ UNCHANGED <<res, cur, own, page>>

-----------------------------------------------------------------------------
\* What a process asks for.
Call ==
    \/ Open
    \/ \E c \in {"proc_info", "task"}, n \in 0 .. MaxSegments : Begin(c, n)
    \/ \E error \in {EFAULT, ENOMEM} : Unreadable(error)
    \/ Release

\* What the kernel does for it.
Work ==
    \/ NextSegment \/ LastSegment
    \/ LastVma \/ SkipVma \/ PinHeaders \/ MapHeadersFails \/ MapHeaders
    \/ NoUnwindInfo \/ HasUnwindInfo \/ UnmapHeaders \/ PutHeaders
    \/ AllocModule \/ AllocModuleFails \/ NoVma \/ AllocPagesFails \/ AllocPages
    \/ PinFails \/ (\E n \in 1 .. Pages : Pin(n)) \/ VmapFails \/ Vmap
    \/ EhFrameGiven \/ EhFrameFound \/ EhFrameNotFound \/ HeaderNotMapped
    \/ TestFaults \/ TestSame \/ TestDiffers
    \/ OutVunmap \/ OutPutPages \/ OutFreePages \/ OutZero \/ OutError \/ Add
    \/ CloseModule \/ Released

Next == (Call \/ Work) /\ UNCHANGED differs

Spec == Init /\ [][Next]_vars

-----------------------------------------------------------------------------
\* A module that is on stp_modules, where an unwind looks for it, is mapped and
\* holds its pages: "vmap the pages containing the eh_frame for direct access".
ListedIsMapped ==
    \A k \in DOMAIN listed :
        LET o == own[listed[k]]
        IN  o.struct = 1 /\ o.pages = 1 /\ o.vmap = 1 /\ o.pins = o.npages /\ o.npages > 0

\* Whatever step of init_kunwind_stp_module fails, what it leaves on stp_modules is
\* mapped, while user memory reads as the mapping does.
LoadedIsMapped == ~differs => ListedIsMapped

\* Whatever failed on the way, between ioctls nothing is held but by the modules
\* on the list; once release_unwind_info is through nothing is held.
NothingStray ==
    ~differs /\ step \in {"idle", "released"} =>
        /\ page = NoPage
        /\ \A i \in Ids : own[i] # Nothing => \E k \in DOMAIN listed : listed[k] = i

\* The proc_info ioctl answers 0 only when every segment is on the list.
ZeroMeansAll ==
    step = "idle" /\ call = "proc_info" /\ res = 0 => Len(listed) = wanted
=============================================================================
