----------------------------- MODULE KunwMapInv ------------------------------
(***************************************************************************)
(* The inductive invariant of KunwMap, and what each of its steps does.    *)
(*                                                                         *)
(* Opens and releases that race (kunwind-debug.c:57) keep little: the list *)
(* has no cycle, because every link leads to a node that was linked        *)
(* earlier (RankExists).  Under the lock the FIXME asks for, the list is   *)
(* whole but for the one pprev that the running operation has yet to store *)
(* (Serial).  When each file also stays with its thread, the registration  *)
(* follows the file (KeptInOrder).                                         *)
(***************************************************************************)
EXTENDS KunwMap
-----------------------------------------------------------------------------
(* The inductive invariant *)

FileStates == {"unused", "opening", "failed", "open", "closing", "closed"}

OpenOps == {"open_find", "reg_find", "reg_publish", "reg_back", "open_ret"}
ReleaseOps == {"unreg_find", "unreg_unlink", "unreg_back", "unreg_wait", "unreg_sync", "rel_ret"}
Ops == OpenOps \cup ReleaseOps

Link == Opens \cup {Nil}

Waits == SUBSET ({"trace", "op"} \X Threads)

Locals == [f : Link, cur : Link, next : Link, pprev : Link \cup {HeadPtr}, wait : Waits]

Buckets == [first : Link, next : [Opens -> Link], pprev : [Opens -> Link \cup {HeadPtr}]]

TypeOK ==
    /\ file \in [Opens -> FileStates]
    /\ private \in [Opens -> Link]
    /\ mods \in [Opens -> {"none", "live", "freed"}]
    /\ tgid \in [Opens -> Threads \cup {Nil}]
    /\ bucket \in Buckets
    /\ pc \in [Threads -> Ops \cup {"idle", "ioctl"}]
    /\ loc \in [Threads -> Locals]
    /\ trace \in [Threads -> [st : {"off", "find", "use"}, cur : Link]]
    /\ mode \in [serialized : BOOLEAN, openerCloses : BOOLEAN, maxTraces : Nat]

\* A step of t leaves alone what the other threads are doing.
Kept(u) ==
    /\ pc'[u] = pc[u] /\ trace'[u] = trace[u]
    /\ loc'[u].f = loc[u].f /\ loc'[u].cur = loc[u].cur
    /\ loc'[u].next = loc[u].next /\ loc'[u].pprev = loc[u].pprev

OthersKept(t) == \A u \in Threads \ {t} : Kept(u)

\* The file a thread opens or releases is in the state that belongs to the operation.
OpOK(t) ==
    /\ pc[t] # "idle" => loc[t].f \in Opens
    /\ pc[t] \in OpenOps => file[loc[t].f] = "opening" /\ tgid[loc[t].f] = t
    /\ pc[t] \in ReleaseOps =>
        file[loc[t].f] = "closing" /\ (mode.openerCloses => tgid[loc[t].f] = t)
    /\ pc[t] = "ioctl" => file[loc[t].f] = "open"
    /\ pc[t] \in {"unreg_unlink", "unreg_back", "unreg_wait", "unreg_sync"} => loc[t].cur \in Opens
    /\ pc[t] \in {"unreg_unlink", "unreg_back"} => loc[t].pprev # Nil

\* Each open or closing file belongs to one thread's operation.
OpsOK ==
    /\ \A t \in Threads : OpOK(t)
    /\ \A t, u \in Threads :
        pc[t] \in Ops /\ pc[u] \in Ops /\ loc[t].f = loc[u].f => t = u

\* rank orders the nodes by when they were linked, 0 being "not yet": nothing leads to
\* such a node.
Refers(rank, n) == n \in Opens => rank[n] > 0

Above(rank, n, m) == n \in Opens /\ m \in Opens => rank[m] < rank[n]

RankOfOp(rank, t) ==
    /\ pc[t] \in {"open_find", "reg_find"} => rank[loc[t].f] = 0
    /\ pc[t] \in Finding => Refers(rank, loc[t].cur)
    /\ pc[t] \in {"reg_publish", "reg_back"} =>
        /\ rank[loc[t].f] > 0
        /\ Refers(rank, loc[t].next)
        /\ Above(rank, loc[t].f, loc[t].next)
    /\ pc[t] \in {"unreg_unlink", "unreg_back"} =>
        /\ Refers(rank, loc[t].cur) /\ Refers(rank, loc[t].next) /\ Refers(rank, loc[t].pprev)
        /\ Above(rank, loc[t].cur, loc[t].next) /\ Above(rank, loc[t].pprev, loc[t].cur)
    /\ trace[t].st # "off" => Refers(rank, trace[t].cur)

RankedBucket(rank, h) ==
    /\ Refers(rank, h.first)
    /\ \A n \in Opens :
        /\ Refers(rank, h.next[n]) /\ Refers(rank, h.pprev[n])
        /\ Above(rank, n, h.next[n]) /\ Above(rank, h.pprev[n], n)

Ranked(rank) ==
    /\ RankedBucket(rank, bucket)
    /\ \A n \in Opens : file[n] = "unused" => rank[n] = 0
    /\ \A t \in Threads : RankOfOp(rank, t)

RankExists == \E rank \in [Opens -> Nat] : Ranked(rank)

-----------------------------------------------------------------------------
\* Of the nodes of t's process, a traversal at n still finds those that are in the list.
Sees(t, n) ==
    \A j \in Opens : tgid[j] = t => (j \in Reach(bucket, n) <=> j \in Chain(bucket))

\* pprev leads back, but for the node skip.
LinksBack(h, skip) ==
    /\ h.first \in Opens \ {skip} => h.pprev[h.first] = HeadPtr
    /\ \A n \in Chain(h) : h.next[n] \in Opens \ {skip} => h.pprev[h.next[n]] = n

\* What the one thread that is inside an operation is about to do to the list.
SerialOp(t) ==
    /\ pc[t] \in Finding => Sees(t, loc[t].cur)
    /\ pc[t] \in {"reg_find", "reg_publish"} => \A j \in Chain(bucket) : tgid[j] # t
    /\ pc[t] \in {"reg_find", "reg_publish", "reg_back", "open_ret"} => mods[loc[t].f] = "live"
    /\ pc[t] = "reg_publish" =>
        /\ loc[t].f \notin Chain(bucket)
        /\ bucket.next[loc[t].f] = bucket.first /\ loc[t].next = bucket.first
        /\ bucket.pprev[loc[t].f] = HeadPtr
    /\ pc[t] = "reg_back" => bucket.first = loc[t].f /\ bucket.next[loc[t].f] = loc[t].next
    /\ pc[t] = "unreg_unlink" =>
        /\ loc[t].cur \in Chain(bucket)
        /\ loc[t].next = bucket.next[loc[t].cur] /\ loc[t].pprev = bucket.pprev[loc[t].cur]
    /\ pc[t] \in {"unreg_back", "unreg_wait", "unreg_sync"} => loc[t].cur \notin Chain(bucket)
    /\ pc[t] = "unreg_back" /\ loc[t].next # Nil =>
        /\ bucket.first = loc[t].next => loc[t].pprev = HeadPtr
        /\ \A n \in Chain(bucket) : bucket.next[n] = loc[t].next => loc[t].pprev = n

\* The list holds live mods, at most one for each process.
Registered ==
    /\ \A k \in Chain(bucket) : mods[k] = "live"
    /\ \A j, k \in Chain(bucket) : tgid[j] = tgid[k] => j = k

\* Between its last two stores, an operation leaves one pprev behind.
Behind == {"reg_back", "unreg_back"}

Serial ==
    /\ \A t, u \in Threads : pc[t] \in Ops /\ pc[u] \in Ops => t = u
    /\ \A t \in Threads : SerialOp(t)
    /\ Registered
    /\ \A t \in Threads : pc[t] \in Behind => LinksBack(bucket, loc[t].next)
    /\ (\A t \in Threads : pc[t] \notin Behind) => LinksBack(bucket, Nil)

-----------------------------------------------------------------------------
\* With one thread per file, the registration follows the file.
OrderlyOp(t) ==
    /\ pc[t] = "open_find" => mods[loc[t].f] # "live"
    /\ pc[t] \in {"reg_back", "open_ret", "unreg_find", "unreg_unlink"} =>
        loc[t].f \in Chain(bucket)
    /\ pc[t] \in {"unreg_unlink", "unreg_back", "unreg_wait", "unreg_sync"} => loc[t].cur = loc[t].f
    /\ pc[t] = "rel_ret" => mods[loc[t].f] # "live" /\ loc[t].f \notin Chain(bucket)
    /\ pc[t] = "ioctl" => loc[t].cur = loc[t].f
    /\ trace[t].st = "find" => Sees(t, trace[t].cur)
    /\ trace[t].st = "use" =>
        trace[t].cur \in Opens /\ tgid[trace[t].cur] = t /\ mods[trace[t].cur] = "live"

OrderlyFile(k) ==
    /\ file[k] = "open" => private[k] = k /\ mods[k] = "live" /\ k \in Chain(bucket)
    /\ file[k] \in {"unused", "failed", "closed"} => mods[k] # "live" /\ k \notin Chain(bucket)

KeptInOrder == (\A t \in Threads : OrderlyOp(t)) /\ \A k \in Opens : OrderlyFile(k)

IInv ==
    /\ TypeOK /\ OpsOK /\ RankExists
    /\ mode.serialized => Serial
    /\ Orderly => KeptInOrder

\* A val is allocated when it is linked, and stays: no file without one is closed.
ValOp(t) ==
    /\ pc[t] \in {"open_find", "reg_find"} => loc[t].f \notin vals
    /\ pc[t] \in {"reg_publish", "reg_back"} => loc[t].f \in vals
    /\ Orderly /\ pc[t] = "open_ret" => loc[t].f \in vals

ValFile(k) ==
    /\ k \in vals => file[k] \notin {"unused", "failed"}
    /\ Orderly /\ file[k] \in {"open", "closing", "closed"} => k \in vals

ValsStay ==
    /\ vals \subseteq Opens
    /\ \A t \in Threads : ValOp(t)
    /\ \A k \in Opens : ValFile(k)

-----------------------------------------------------------------------------
(* What each step does *)

\* Two records of locals that differ at most in the readers waited for.
SameLocals(l, m) == m.f = l.f /\ m.cur = l.cur /\ m.next = l.next /\ m.pprev = l.pprev

\* Where t is after a step, and its locals.
Now(t, label, f, cur, next, pprev) ==
    /\ pc'[t] = label
    /\ loc'[t].f = f /\ loc'[t].cur = cur /\ loc'[t].next = next /\ loc'[t].pprev = pprev

\* A step of t that takes it to label with the locals r, and may end a reader's section,
\* is nothing to the other threads.
Moves(t, label, r) ==
    /\ pc' \in [Threads -> Ops \cup {"idle", "ioctl"}] /\ loc' \in [Threads -> Locals]
    /\ OthersKept(t) /\ Now(t, label, r.f, r.cur, r.next, r.pprev)

FindNextEffect(t) ==
    /\ pc[t] \in Finding /\ trace[t].st = "off"
    /\ loc[t].cur \in Opens /\ tgid[loc[t].cur] # t
    /\ Now(t, pc[t], loc[t].f, bucket.next[loc[t].cur], loc[t].next, loc[t].pprev)
    /\ UNCHANGED <<file, private, mods, tgid, bucket, trace, vals>>

OpenFailsEffect(t) ==
    /\ pc[t] = "open_find" /\ trace[t].st = "off"
    /\ Now(t, "idle", Nil, Nil, Nil, Nil)
    /\ file' = [file EXCEPT ![loc[t].f] = "failed"]
    /\ UNCHANGED <<private, mods, tgid, bucket, trace, vals>>

OpenAllocEffect(t) ==
    /\ pc[t] = "open_find" /\ trace[t].st = "off"
    /\ loc[t].cur = Nil
    /\ Now(t, "reg_find", loc[t].f, bucket.first, Nil, Nil)
    /\ mods' = [mods EXCEPT ![loc[t].f] = "live"]
    /\ UNCHANGED <<file, private, tgid, bucket, trace, vals>>

RegisterSkipsEffect(t) ==
    /\ pc[t] = "reg_find" /\ trace[t].st = "off"
    /\ loc[t].cur \in Opens /\ tgid[loc[t].cur] = t
    /\ Now(t, "open_ret", loc[t].f, loc[t].cur, loc[t].next, loc[t].pprev)
    /\ UNCHANGED <<file, private, mods, tgid, bucket, trace, vals>>

RegisterLinkEffect(t) ==
    /\ pc[t] = "reg_find" /\ trace[t].st = "off"
    /\ loc[t].cur = Nil
    /\ Now(t, "reg_publish", loc[t].f, loc[t].cur, bucket.first, loc[t].pprev)
    /\ vals' = vals \cup {loc[t].f}
    /\ bucket' = AddLink(bucket, loc[t].f)
    /\ UNCHANGED <<file, private, mods, tgid, trace>>

RegisterPublishEffect(t) ==
    /\ pc[t] = "reg_publish" /\ trace[t].st = "off"
    /\ Now(t, "reg_back", loc[t].f, loc[t].cur, loc[t].next, loc[t].pprev)
    /\ bucket' = AddPublish(bucket, loc[t].f)
    /\ UNCHANGED <<file, private, mods, tgid, trace, vals>>

RegisterBackEffect(t) ==
    /\ pc[t] = "reg_back" /\ trace[t].st = "off"
    /\ Now(t, "open_ret", loc[t].f, loc[t].cur, loc[t].next, loc[t].pprev)
    /\ bucket' = AddBack(bucket, loc[t].f, loc[t].next)
    /\ UNCHANGED <<file, private, mods, tgid, trace, vals>>

OpenReturnsEffect(t) ==
    /\ pc[t] = "open_ret" /\ trace[t].st = "off"
    /\ Now(t, "idle", Nil, Nil, Nil, Nil)
    /\ private' = [private EXCEPT ![loc[t].f] = loc[t].f]
    /\ file' = [file EXCEPT ![loc[t].f] = "open"]
    /\ UNCHANGED <<mods, tgid, bucket, trace, vals>>

UnregisterNothingEffect(t) ==
    /\ pc[t] = "unreg_find" /\ trace[t].st = "off"
    /\ loc[t].cur = Nil
    /\ Now(t, "rel_ret", loc[t].f, loc[t].cur, loc[t].next, loc[t].pprev)
    /\ UNCHANGED <<file, private, mods, tgid, bucket, trace, vals>>

UnregisterFoundEffect(t) ==
    /\ pc[t] = "unreg_find" /\ trace[t].st = "off"
    /\ loc[t].cur \in Opens /\ tgid[loc[t].cur] = t
    /\ Now(t, IF bucket.pprev[loc[t].cur] = Nil THEN "unreg_wait" ELSE "unreg_unlink",
           loc[t].f, loc[t].cur, bucket.next[loc[t].cur], bucket.pprev[loc[t].cur])
    /\ UNCHANGED <<file, private, mods, tgid, bucket, trace, vals>>

UnregisterUnlinkEffect(t) ==
    /\ pc[t] = "unreg_unlink" /\ trace[t].st = "off"
    /\ Now(t, "unreg_back", loc[t].f, loc[t].cur, loc[t].next, loc[t].pprev)
    /\ bucket' = DelUnlink(bucket, loc[t].cur, loc[t].next, loc[t].pprev)
    /\ UNCHANGED <<file, private, mods, tgid, trace, vals>>

UnregisterBackEffect(t) ==
    /\ pc[t] = "unreg_back" /\ trace[t].st = "off"
    /\ Now(t, "unreg_wait", loc[t].f, loc[t].cur, loc[t].next, loc[t].pprev)
    /\ bucket' = DelBack(bucket, loc[t].cur, loc[t].next, loc[t].pprev)
    /\ UNCHANGED <<file, private, mods, tgid, trace, vals>>

SynchronizeRcuEffect(t) ==
    /\ pc[t] = "unreg_wait" /\ trace[t].st = "off"
    /\ Now(t, "unreg_sync", loc[t].f, loc[t].cur, loc[t].next, loc[t].pprev)
    /\ UNCHANGED <<file, private, mods, tgid, bucket, trace, vals>>

UnregisterFreesEffect(t) ==
    /\ pc[t] = "unreg_sync" /\ trace[t].st = "off"
    /\ Now(t, "rel_ret", loc[t].f, loc[t].cur, loc[t].next, loc[t].pprev)
    /\ mods' = [mods EXCEPT ![loc[t].cur] = "freed"]
    /\ UNCHANGED <<file, private, tgid, bucket, trace, vals>>

ReleaseReturnsEffect(t) ==
    /\ pc[t] = "rel_ret" /\ trace[t].st = "off"
    /\ Now(t, "idle", Nil, Nil, Nil, Nil)
    /\ private' = [private EXCEPT ![loc[t].f] = Nil]
    /\ file' = [file EXCEPT ![loc[t].f] = "closed"]
    /\ UNCHANGED <<mods, tgid, bucket, trace, vals>>

IoctlReturnsEffect(t) ==
    /\ pc[t] = "ioctl" /\ trace[t].st = "off"
    /\ Now(t, "idle", Nil, Nil, Nil, Nil)
    /\ UNCHANGED <<file, private, mods, tgid, bucket, trace, vals>>

OpenEffect(t, k) ==
    /\ trace[t].st = "off"
    /\ pc[t] = "idle"
    /\ file[k] = "unused"
    /\ mode.serialized => Inside = {}
    /\ Now(t, "open_find", k, bucket.first, Nil, Nil)
    /\ file' = [file EXCEPT ![k] = "opening"]
    /\ tgid' = [tgid EXCEPT ![k] = t]
    /\ UNCHANGED <<private, mods, bucket, trace, vals>>

ReleaseEffect(t, k) ==
    /\ trace[t].st = "off"
    /\ pc[t] = "idle"
    /\ file[k] = "open"
    /\ mode.serialized => Inside = {}
    /\ \A u \in Threads : pc[u] = "ioctl" => loc[u].f # k
    /\ mode.openerCloses => tgid[k] = t
    /\ Now(t, "unreg_find", k, bucket.first, Nil, Nil)
    /\ file' = [file EXCEPT ![k] = "closing"]
    /\ UNCHANGED <<private, mods, tgid, bucket, trace, vals>>

IoctlEffect(t, k) ==
    /\ trace[t].st = "off"
    /\ pc[t] = "idle"
    /\ file[k] = "open"
    /\ Now(t, "ioctl", k, private[k], Nil, Nil)
    /\ UNCHANGED <<file, private, mods, tgid, bucket, trace, vals>>

TraceStartEffect(t) ==
    /\ trace[t].st = "off"
    /\ trace'[t] = [st |-> "find", cur |-> bucket.first]
    /\ Now(t, pc[t], loc[t].f, loc[t].cur, loc[t].next, loc[t].pprev)
    /\ UNCHANGED <<file, private, mods, tgid, bucket, vals>>

TraceNextEffect(t) ==
    /\ trace[t].st = "find"
    /\ trace[t].cur \in Opens
    /\ tgid[trace[t].cur] # t
    /\ trace'[t] = [trace[t] EXCEPT !.cur = bucket.next[trace[t].cur]]
    /\ Now(t, pc[t], loc[t].f, loc[t].cur, loc[t].next, loc[t].pprev)
    /\ UNCHANGED <<file, private, mods, tgid, bucket, vals>>

TraceMissEffect(t) ==
    /\ trace[t].st = "find"
    /\ trace[t].cur = Nil
    /\ trace'[t] = NoTrace
    /\ Now(t, pc[t], loc[t].f, loc[t].cur, loc[t].next, loc[t].pprev)
    /\ UNCHANGED <<file, private, mods, tgid, bucket, vals>>

TraceHitEffect(t) ==
    /\ trace[t].st = "find"
    /\ trace[t].cur \in Opens
    /\ tgid[trace[t].cur] = t
    /\ trace'[t] = [trace[t] EXCEPT !.st = "use"]
    /\ Now(t, pc[t], loc[t].f, loc[t].cur, loc[t].next, loc[t].pprev)
    /\ UNCHANGED <<file, private, mods, tgid, bucket, vals>>

TraceReturnsEffect(t) ==
    /\ trace[t].st = "use"
    /\ trace'[t] = NoTrace
    /\ Now(t, pc[t], loc[t].f, loc[t].cur, loc[t].next, loc[t].pprev)
    /\ UNCHANGED <<file, private, mods, tgid, bucket, vals>>

Effect(t) ==
    \/ FindNextEffect(t) \/ OpenFailsEffect(t) \/ OpenAllocEffect(t)
    \/ RegisterSkipsEffect(t) \/ RegisterLinkEffect(t) \/ RegisterPublishEffect(t)
    \/ RegisterBackEffect(t) \/ OpenReturnsEffect(t) \/ UnregisterNothingEffect(t)
    \/ UnregisterFoundEffect(t) \/ UnregisterUnlinkEffect(t) \/ UnregisterBackEffect(t)
    \/ SynchronizeRcuEffect(t) \/ UnregisterFreesEffect(t) \/ ReleaseReturnsEffect(t)
    \/ IoctlReturnsEffect(t) \/ TraceStartEffect(t) \/ TraceNextEffect(t)
    \/ TraceMissEffect(t) \/ TraceHitEffect(t) \/ TraceReturnsEffect(t)
    \/ \E k \in Opens : OpenEffect(t, k) \/ ReleaseEffect(t, k) \/ IoctlEffect(t, k)

=============================================================================
