------------------------------- MODULE KunwMap -------------------------------
(***************************************************************************)
(* The registry kunw_map and the life of a /proc/kunwind_debug file           *)
(* (src/src/kunwind-debug.c): open registers the unwind information of a       *)
(* process, release unregisters and frees it, the ioctls use it through the    *)
(* file, save_stack_trace_kunwind finds it through the registry.              *)
(*                                                                         *)
(* The k-th open creates a file, a kunwind_proc_modules and a kunw_map_val;     *)
(* k names all three.  All pids hash to one bucket: that is where operations   *)
(* meet, and other buckets are independent.  Threads run the file operations   *)
(* one memory access or call at a time.  save_stack_trace_kunwind runs inside    *)
(* a thread, at any point of what that thread does (it is called from a         *)
(* tracepoint), and the thread goes on when it returns.                       *)
(*                                                                         *)
(* kmalloc of the mods (two pages) may fail.  The kzalloc of a kunw_map_val,   *)
(* whose result is not checked, is of the size the kernel never refuses.       *)
(***************************************************************************)
EXTENDS Hlist

CONSTANTS
    Threads,        \* the pids
    MaxOpens,       \* bound: number of calls of open
    Modes           \* how programs use the file: see mode

Opens == 1 .. MaxOpens

ASSUME KunwMapAssumption ==
    /\ MaxOpens \in Nat
    /\ Modes \subseteq [serialized : BOOLEAN, openerCloses : BOOLEAN, maxTraces : Nat]

VARIABLES
    file,       \* open call |-> state of the struct file
    private,    \* open call |-> file->private_data (the mods it points to, or Nil)
    mods,       \* open call |-> "none", "live" or "freed"
    tgid,       \* open call |-> pid of the caller, the key its kunw_map_val holds
    vals,       \* the open calls whose kunw_map_val is allocated
    bucket,     \* the bucket of kunw_map
    pc,         \* thread |-> where it is in a file operation
    loc,        \* thread |-> its local variables there
    trace,      \* thread |-> the save_stack_trace_kunwind running in it
    traces,     \* thread |-> how many it has started
    mode        \* .serialized: opens and releases do not overlap (the lock the FIXME
                \* asks for); .openerCloses: who opened a file drops its last reference;
                \* .maxTraces: bound, stack traces taken in each thread

vars == <<file, private, mods, tgid, vals, bucket, pc, loc, trace, traces, mode>>

\* f: the file, cur: the node a traversal stands on, or the mods in use;
\* next, pprev: what an hlist operation read; wait: readers synchronize_rcu waits for.
NoLocals == [f |-> Nil, cur |-> Nil, next |-> Nil, pprev |-> Nil, wait |-> {}]

NoTrace == [st |-> "off", cur |-> Nil]

Init ==
    /\ file = [k \in Opens |-> "unused"]
    /\ private = [k \in Opens |-> Nil]
    /\ mods = [k \in Opens |-> "none"]
    /\ tgid = [k \in Opens |-> Nil]
    /\ vals = {}
    /\ bucket = EmptyBucket(Opens)
    /\ pc = [t \in Threads |-> "idle"]
    /\ loc = [t \in Threads |-> NoLocals]
    /\ trace = [t \in Threads |-> NoTrace]
    /\ traces = [t \in Threads |-> 0]
    /\ mode \in Modes

-----------------------------------------------------------------------------
(* What the steps are made of. *)

\* A thread takes a step of a file operation: no handler runs inside it.
At(t, label) == pc[t] = label /\ trace[t].st = "off"

Goto(t, label) == pc' = [pc EXCEPT ![t] = label]

Return(t) == Goto(t, "idle") /\ loc' = [loc EXCEPT ![t] = NoLocals]

Inside == {t \in Threads : pc[t] \notin {"idle", "ioctl"}}

MayEnter(t) == At(t, "idle") /\ (mode.serialized => Inside = {})

\* The RCU readers: a save_stack_trace_kunwind, or the thread's own operation.
\* The kernels the module is built for have no preemptible RCU: a reader that may
\* sleep (an unwind allocates cache entries, unregister calls synchronize_rcu)
\* does not hold off a grace period.
Readers ==
    {<<"trace", t>> : t \in {u \in Threads : trace[u].st = "find"}}
    \cup
    {<<"op", t>> : t \in {u \in Threads :
        pc[u] \in {"reg_find", "unreg_find", "unreg_unlink", "unreg_back", "unreg_wait"}}}

\* Reader r leaves its section: no grace period waits for it any more.
Quiesce(l, r) == [u \in Threads |-> [l[u] EXCEPT !.wait = @ \ {r}]]

\* kunwind_process_find: first is read when it is called, then one node at a time.
StartFind(t, label, f) ==
    /\ Goto(t, label)
    /\ loc' = [loc EXCEPT ![t] = [NoLocals EXCEPT !.f = f, !.cur = bucket.first]]

Finding == {"open_find", "reg_find", "unreg_find"}

FindNext(t) ==
    /\ pc[t] \in Finding /\ trace[t].st = "off"
    /\ loc[t].cur # Nil /\ tgid[loc[t].cur] # t
    /\ loc' = [loc EXCEPT ![t].cur = bucket.next[loc[t].cur]]
    /\ UNCHANGED <<file, private, mods, tgid, bucket, pc, trace, traces, vals>>

Found(t) == loc[t].cur # Nil /\ tgid[loc[t].cur] = t

NotFound(t) == loc[t].cur = Nil

-----------------------------------------------------------------------------
(* kunwind_debug_open *)

Open(t, k) ==
    /\ MayEnter(t)
    /\ file[k] = "unused" /\ (k > 1 => file[k - 1] # "unused")
    /\ file' = [file EXCEPT ![k] = "opening"]
    /\ tgid' = [tgid EXCEPT ![k] = t]
    /\ StartFind(t, "open_find", k)
    /\ UNCHANGED <<private, mods, bucket, trace, traces, vals>>

OpenFails(t) ==
    /\ file' = [file EXCEPT ![loc[t].f] = "failed"]
    /\ Return(t)
    /\ UNCHANGED <<private, mods, tgid, bucket, trace, traces, vals>>

OpenBusy(t) == At(t, "open_find") /\ Found(t) /\ OpenFails(t)

OpenNoMem(t) == At(t, "open_find") /\ NotFound(t) /\ OpenFails(t)

OpenAlloc_NoBusyTest(t) ==
    /\ At(t, "open_find")
    /\ mods' = [mods EXCEPT ![loc[t].f] = "live"]
    /\ StartFind(t, "reg_find", loc[t].f)
    /\ UNCHANGED <<file, private, tgid, bucket, trace, traces, vals>>

\* kmalloc and init_proc_unwind_info; then kunwind_process_register looks again.
OpenAlloc(t) ==
    /\ At(t, "open_find") /\ NotFound(t)
    /\ mods' = [mods EXCEPT ![loc[t].f] = "live"]
    /\ StartFind(t, "reg_find", loc[t].f)
    /\ UNCHANGED <<file, private, tgid, bucket, trace, traces, vals>>

\* Already registered: kunwind_process_register returns, and open succeeds.
RegisterSkips(t) ==
    /\ At(t, "reg_find") /\ Found(t)
    /\ Goto(t, "open_ret")
    /\ loc' = Quiesce(loc, <<"op", t>>)
    /\ UNCHANGED <<file, private, mods, tgid, bucket, trace, traces, vals>>

\* rcu_read_unlock, kzalloc of the val, and the first accesses of hash_add_rcu.
RegisterLink(t) ==
    /\ At(t, "reg_find") /\ NotFound(t)
    /\ vals' = vals \cup {loc[t].f}
    /\ bucket' = AddLink(bucket, loc[t].f)
    /\ loc' = Quiesce([loc EXCEPT ![t].next = bucket.first], <<"op", t>>)
    /\ Goto(t, "reg_publish")
    /\ UNCHANGED <<file, private, mods, tgid, trace, traces>>

RegisterPublish_Forgotten(t) ==
    /\ At(t, "reg_publish")
    /\ Goto(t, "reg_back")
    /\ UNCHANGED <<file, private, mods, tgid, bucket, loc, trace, traces, vals>>

RegisterPublish(t) ==
    /\ At(t, "reg_publish")
    /\ bucket' = AddPublish(bucket, loc[t].f)
    /\ Goto(t, "reg_back")
    /\ UNCHANGED <<file, private, mods, tgid, loc, trace, traces, vals>>

RegisterBack(t) ==
    /\ At(t, "reg_back")
    /\ bucket' = AddBack(bucket, loc[t].f, loc[t].next)
    /\ Goto(t, "open_ret")
    /\ UNCHANGED <<file, private, mods, tgid, loc, trace, traces, vals>>

\* file->private_data = mods, and open returns.
OpenReturns(t) ==
    /\ At(t, "open_ret")
    /\ private' = [private EXCEPT ![loc[t].f] = loc[t].f]
    /\ file' = [file EXCEPT ![loc[t].f] = "open"]
    /\ Return(t)
    /\ UNCHANGED <<mods, tgid, bucket, trace, traces, vals>>

-----------------------------------------------------------------------------
(* kunwind_debug_release, called when the last reference to the file goes away *)

Release(t, k) ==
    /\ MayEnter(t)
    /\ file[k] = "open"
    /\ \A u \in Threads : pc[u] = "ioctl" => loc[u].f # k
    /\ mode.openerCloses => tgid[k] = t
    /\ file' = [file EXCEPT ![k] = "closing"]
    /\ StartFind(t, "unreg_find", k)
    /\ UNCHANGED <<private, mods, tgid, bucket, trace, traces, vals>>

UnregisterNothing(t) ==
    /\ At(t, "unreg_find") /\ NotFound(t)
    /\ Goto(t, "rel_ret")
    /\ loc' = Quiesce(loc, <<"op", t>>)
    /\ UNCHANGED <<file, private, mods, tgid, bucket, trace, traces, vals>>

UnregisterFound_FreesFirst(t) ==
    /\ At(t, "unreg_find") /\ Found(t)
    /\ mods' = [mods EXCEPT ![loc[t].cur] = "freed"]
    /\ loc' = [loc EXCEPT ![t].next = bucket.next[loc[t].cur],
                          ![t].pprev = bucket.pprev[loc[t].cur]]
    /\ Goto(t, IF bucket.pprev[loc[t].cur] = Nil THEN "unreg_wait" ELSE "unreg_unlink")
    /\ UNCHANGED <<file, private, tgid, bucket, trace, traces, vals>>

\* hash_del_rcu reads the node's links; a node that is not hashed is left alone.
UnregisterFound(t) ==
    /\ At(t, "unreg_find") /\ Found(t)
    /\ loc' = [loc EXCEPT ![t].next = bucket.next[loc[t].cur],
                          ![t].pprev = bucket.pprev[loc[t].cur]]
    /\ Goto(t, IF bucket.pprev[loc[t].cur] = Nil THEN "unreg_wait" ELSE "unreg_unlink")
    /\ UNCHANGED <<file, private, mods, tgid, bucket, trace, traces, vals>>

UnregisterUnlink(t) ==
    /\ At(t, "unreg_unlink")
    /\ bucket' = DelUnlink(bucket, loc[t].cur, loc[t].next, loc[t].pprev)
    /\ Goto(t, "unreg_back")
    /\ UNCHANGED <<file, private, mods, tgid, loc, trace, traces, vals>>

UnregisterBack(t) ==
    /\ At(t, "unreg_back")
    /\ bucket' = DelBack(bucket, loc[t].cur, loc[t].next, loc[t].pprev)
    /\ Goto(t, "unreg_wait")
    /\ UNCHANGED <<file, private, mods, tgid, loc, trace, traces, vals>>

\* The reader that calls synchronize_rcu holds it off: preemptible RCU.
SynchronizeRcu_WaitsForItself(t) ==
    /\ At(t, "unreg_wait")
    /\ loc' = [loc EXCEPT ![t].wait = Readers]
    /\ Goto(t, "unreg_sync")
    /\ UNCHANGED <<file, private, mods, tgid, bucket, trace, traces, vals>>

\* synchronize_rcu, called inside the read-side section: it waits for the readers
\* there are now, and returns when all of them have left.
SynchronizeRcu(t) ==
    /\ At(t, "unreg_wait")
    /\ loc' = [Quiesce(loc, <<"op", t>>) EXCEPT ![t].wait = Readers \ {<<"op", t>>}]
    /\ Goto(t, "unreg_sync")
    /\ UNCHANGED <<file, private, mods, tgid, bucket, trace, traces, vals>>

UnregisterFrees_Leak(t) ==
    /\ At(t, "unreg_sync") /\ loc[t].wait = {}
    /\ Goto(t, "rel_ret")
    /\ loc' = Quiesce(loc, <<"op", t>>)
    /\ UNCHANGED <<file, private, mods, tgid, bucket, trace, traces, vals>>

\* release_unwind_info(val->mods).
UnregisterFrees(t) ==
    /\ At(t, "unreg_sync") /\ loc[t].wait = {}
    /\ mods' = [mods EXCEPT ![loc[t].cur] = "freed"]
    /\ Goto(t, "rel_ret")
    /\ loc' = Quiesce(loc, <<"op", t>>)
    /\ UNCHANGED <<file, private, tgid, bucket, trace, traces, vals>>

ReleaseReturns(t) ==
    /\ At(t, "rel_ret")
    /\ private' = [private EXCEPT ![loc[t].f] = Nil]
    /\ file' = [file EXCEPT ![loc[t].f] = "closed"]
    /\ Return(t)
    /\ UNCHANGED <<mods, tgid, bucket, trace, traces, vals>>

-----------------------------------------------------------------------------
(* The ioctls, which use file->private_data, in any thread that has the file. *)

Ioctl(t, k) ==
    /\ At(t, "idle") /\ file[k] = "open"
    /\ Goto(t, "ioctl")
    /\ loc' = [loc EXCEPT ![t] = [NoLocals EXCEPT !.f = k, !.cur = private[k]]]
    /\ UNCHANGED <<file, private, mods, tgid, bucket, trace, traces, vals>>

IoctlReturns(t) ==
    /\ At(t, "ioctl") /\ Return(t)
    /\ UNCHANGED <<file, private, mods, tgid, bucket, trace, traces, vals>>

-----------------------------------------------------------------------------
(* save_stack_trace_kunwind *)

TraceStart(t) ==
    /\ trace[t].st = "off" /\ traces[t] < mode.maxTraces
    /\ trace' = [trace EXCEPT ![t] = [st |-> "find", cur |-> bucket.first]]
    /\ traces' = [traces EXCEPT ![t] = @ + 1]
    /\ UNCHANGED <<file, private, mods, tgid, bucket, pc, loc, vals>>

TraceNext(t) ==
    /\ trace[t].st = "find" /\ trace[t].cur # Nil /\ tgid[trace[t].cur] # t
    /\ trace' = [trace EXCEPT ![t].cur = bucket.next[trace[t].cur]]
    /\ UNCHANGED <<file, private, mods, tgid, bucket, pc, loc, traces, vals>>

\* The process is not registered: no entries.
TraceMiss(t) ==
    /\ trace[t].st = "find" /\ trace[t].cur = Nil
    /\ trace' = [trace EXCEPT ![t] = NoTrace]
    /\ loc' = Quiesce(loc, <<"trace", t>>)
    /\ UNCHANGED <<file, private, mods, tgid, bucket, pc, traces, vals>>

\* do_current_unwind with val->mods.
TraceHit(t) ==
    /\ trace[t].st = "find" /\ trace[t].cur # Nil /\ tgid[trace[t].cur] = t
    /\ trace' = [trace EXCEPT ![t].st = "use"]
    /\ loc' = Quiesce(loc, <<"trace", t>>)
    /\ UNCHANGED <<file, private, mods, tgid, bucket, pc, traces, vals>>

TraceReturns(t) ==
    /\ trace[t].st = "use"
    /\ trace' = [trace EXCEPT ![t] = NoTrace]
    /\ loc' = Quiesce(loc, <<"trace", t>>)
    /\ UNCHANGED <<file, private, mods, tgid, bucket, pc, traces, vals>>

-----------------------------------------------------------------------------
\* The steps a thread takes by itself once an operation or a trace has begun.
Step(t) ==
    \/ FindNext(t) \/ OpenBusy(t) \/ OpenNoMem(t) \/ OpenAlloc(t)
    \/ RegisterSkips(t) \/ RegisterLink(t) \/ RegisterPublish(t) \/ RegisterBack(t)
    \/ OpenReturns(t)
    \/ UnregisterNothing(t) \/ UnregisterFound(t) \/ UnregisterUnlink(t)
    \/ UnregisterBack(t) \/ SynchronizeRcu(t) \/ UnregisterFrees(t)
    \/ ReleaseReturns(t) \/ IoctlReturns(t)
    \/ TraceNext(t) \/ TraceMiss(t) \/ TraceHit(t) \/ TraceReturns(t)

\* What programs and tracepoints begin.
Call(t) == TraceStart(t) \/ \E k \in Opens : Open(t, k) \/ Release(t, k) \/ Ioctl(t, k)

Next == (\E t \in Threads : Step(t) \/ Call(t)) /\ UNCHANGED mode

\* The kernel runs every thread that can run; nothing obliges a program to make
\* another call.
Spec == Init /\ [][Next]_vars /\ \A t \in Threads : WF_vars(Step(t) /\ UNCHANGED mode)

-----------------------------------------------------------------------------
\* Programs that keep to one thread per file, under a lock.
Orderly == mode.serialized /\ mode.openerCloses

\* No ioctl and no save_stack_trace_kunwind works on a kunwind_proc_modules that
\* release_unwind_info has freed, if the use is orderly.
NoUseAfterFree ==
    Orderly => \A t \in Threads :
        /\ pc[t] = "ioctl" => mods[loc[t].cur] = "live"
        /\ trace[t].st = "use" => mods[trace[t].cur] = "live"

\* "shortcut: keep mods pointer in the file" (kunwind-debug.c:125): while a file
\* is open, its private_data and the registry lead to the same live mods.
ShortcutAgrees ==
    \A k \in Opens :
        file[k] = "open" =>
            /\ private[k] = k /\ mods[k] = "live"
            /\ k \in Chain(bucket)
            /\ \A j \in Chain(bucket) : tgid[j] = tgid[k] => j = k

\* While the use of the file is orderly, kunwind_debug_open and _release keep the
\* file and the registry in agreement.
FilesAgree == Orderly => ShortcutAgrees

\* The registry never leads to freed mods: a val is unlinked before its mods are
\* freed and stays unlinked, whichever thread closes a file.  (Every find in the
\* code dereferences what it finds.)
RegistryLive == mode.serialized => \A k \in Chain(bucket) : mods[k] = "live"

\* When the use is orderly, every file is closed and nobody is inside, the registry is
\* empty and all mods have been freed.  The kunw_map_vals have not: unregister unlinks
\* a val and frees only its mods, so one stays behind for every file that was open.
AllReleased ==
    /\ Orderly /\ Inside = {}
    /\ \A k \in Opens : file[k] \in {"unused", "failed", "closed"}
    =>
        /\ bucket.first = Nil
        /\ \A k \in Opens : mods[k] # "live"
        /\ vals = {k \in Opens : file[k] = "closed"}

\* While a thread's own file is open, save_stack_trace_kunwind in that thread
\* finds the registration, whatever other threads register and unregister in an
\* orderly way.
OwnRegistrationFound ==
    [][Orderly => \A t \in Threads :
        trace[t].st = "find" /\ trace'[t].st = "off" =>
            \A k \in Opens : tgid[k] = t => file[k] # "open"]_vars

\* However opens and releases race in the bucket, it never becomes a cycle; and
\* between serialized ones, by whichever threads, it is a proper list.
BucketIntact ==
    /\ Ends(bucket)
    /\ mode.serialized /\ Inside = {} => WellLinked(bucket)

\* open and release return: no traversal is endless, and synchronize_rcu ends.
OperationsReturn == \A t \in Threads : pc[t] # "idle" ~> pc[t] = "idle"
=============================================================================
