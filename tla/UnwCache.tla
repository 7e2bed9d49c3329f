------------------------------- MODULE UnwCache -------------------------------
(***************************************************************************)
(* The cache of recovered frames, unw_cache (src/src/modules.c): a hash table   *)
(* of a kunwind_proc_modules, from a pc to the rules that recover its caller's   *)
(* registers.  Every thread that unwinds through the same file looks pcs up,    *)
(* and adds the ones it misses, without a lock; release_unwind_info clears it.   *)
(*                                                                         *)
(* One bucket is modelled, all Pcs hash to it.  Entries are numbered in the      *)
(* order hash_add_rcu first writes to them; before that an entry is known only    *)
(* to the thread that fills it.                                              *)
(***************************************************************************)
EXTENDS Hlist, FiniteSets

CONSTANTS
    Threads,        \* threads that share the file
    Pcs,            \* program counters looked up
    MaxCached      \* bound: entries allocated

ASSUME UnwCacheAssumption == MaxCached \in Nat

Entries == 1 .. MaxCached

VARIABLES
    bucket,     \* the hash bucket
    frame,      \* entry |-> its struct tdep_frame
    used,       \* how many entries hash_add_rcu has begun with
    st,         \* thread |-> where it is
    loc,        \* thread |-> the pc it looks up, the entry it stands on, hlist locals,
                \* and the frame of the entry it fills
    life,       \* of the kunwind_proc_modules
    ccur,       \* the entry unw_cache_clear stands on
    queued,     \* entries passed to call_rcu
    freed       \* entries that unw_cache_entry_rcu_free has freed

vars == <<bucket, frame, used, st, loc, life, ccur, queued, freed>>

\* kzalloc's zeroes; and the frame the unwinder computes for a pc: its rules are
\* a function of the pc, the modules being mapped once.
ZeroFrame == [pc |-> Nil, rules |-> Nil]
FrameOf(p) == [pc |-> p, rules |-> p]

NoLocals == [pc |-> Nil, cur |-> Nil, first |-> Nil, new |-> Nil, own |-> ZeroFrame]

Init ==
    /\ bucket = EmptyBucket(Entries)
    /\ frame = [n \in Entries |-> ZeroFrame]
    /\ used = 0
    /\ st = [t \in Threads |-> "idle"]
    /\ loc = [t \in Threads |-> NoLocals]
    /\ life = "open"
    /\ ccur = Nil
    /\ queued = {} /\ freed = {}

-----------------------------------------------------------------------------
(* __unwind_frame's use of the cache, in thread t *)

ReleaseState == <<life, ccur, queued, freed>>

Goto(t, label) == st' = [st EXCEPT ![t] = label]

Done(t) == Goto(t, "idle") /\ loc' = [loc EXCEPT ![t] = NoLocals]

\* unw_cache_find_entry reads the bucket's first entry, then follows next.
Lookup(t, p) ==
    /\ life = "open" /\ st[t] = "idle"
    /\ Goto(t, "find")
    /\ loc' = [loc EXCEPT ![t] = [pc |-> p, cur |-> bucket.first, first |-> Nil, new |-> Nil,
                                  own |-> ZeroFrame]]
    /\ UNCHANGED <<bucket, frame, used, ReleaseState>>

Matches(t) == loc[t].cur # Nil /\ frame[loc[t].cur].pc = loc[t].pc

FindNext(t) ==
    /\ st[t] \in {"find", "add_find"}
    /\ loc[t].cur # Nil /\ ~Matches(t)
    /\ loc' = [loc EXCEPT ![t].cur = bucket.next[loc[t].cur]]
    /\ UNCHANGED <<bucket, frame, used, st, ReleaseState>>

\* Fast path: apply_tdep_state reads the entry.
Hit(t) ==
    /\ st[t] = "find" /\ Matches(t)
    /\ Goto(t, "apply")
    /\ UNCHANGED <<bucket, frame, used, loc, ReleaseState>>

Applied(t) ==
    /\ st[t] = "apply" /\ Done(t)
    /\ UNCHANGED <<bucket, frame, used, ReleaseState>>

\* Slow path; a frame that is not a standard one is not cached.
MissNotCached(t) ==
    /\ st[t] = "find" /\ loc[t].cur = Nil /\ Done(t)
    /\ UNCHANGED <<bucket, frame, used, ReleaseState>>

\* A standard frame: unw_cache_add_entry, which looks again.
MissAdd(t) ==
    /\ st[t] = "find" /\ loc[t].cur = Nil
    /\ Goto(t, "add_find")
    /\ loc' = [loc EXCEPT ![t].cur = bucket.first]
    /\ UNCHANGED <<bucket, frame, used, ReleaseState>>

AddFinds(t) ==
    /\ st[t] = "add_find" /\ Matches(t) /\ Done(t)
    /\ UNCHANGED <<bucket, frame, used, ReleaseState>>

AddNoMem(t) ==
    /\ st[t] = "add_find" /\ loc[t].cur = Nil /\ Done(t)
    /\ UNCHANGED <<bucket, frame, used, ReleaseState>>

\* Where a thread has an entry that no other can reach.
Private == {"add_copy", "add_rules", "add_link"}

\* kzalloc.
AddAlloc(t) ==
    /\ st[t] = "add_find" /\ loc[t].cur = Nil
    /\ used + Cardinality({u \in Threads : st[u] \in Private}) < MaxCached
    /\ loc' = [loc EXCEPT ![t].own = ZeroFrame]
    /\ Goto(t, "add_copy")
    /\ UNCHANGED <<bucket, frame, used, ReleaseState>>

\* entry->frame = *frame copies a word at a time: the pc first.
AddCopyPc(t) ==
    /\ st[t] = "add_copy"
    /\ loc' = [loc EXCEPT ![t].own = [ZeroFrame EXCEPT !.pc = loc[t].pc]]
    /\ Goto(t, "add_rules")
    /\ UNCHANGED <<bucket, frame, used, ReleaseState>>

\* The entry is added with its pc, and the rules follow when it can be found.
AddCopyRules_AfterAdding(t) ==
    \/ /\ st[t] = "add_rules"
       /\ Goto(t, "add_link")
       /\ UNCHANGED <<bucket, frame, used, loc, ReleaseState>>
    \/ /\ st[t] = "add_back" /\ frame[loc[t].new] # FrameOf(loc[t].pc)
       /\ frame' = [frame EXCEPT ![loc[t].new] = FrameOf(loc[t].pc)]
       /\ UNCHANGED <<bucket, used, st, loc, ReleaseState>>

AddCopyRules(t) ==
    /\ st[t] = "add_rules"
    /\ loc' = [loc EXCEPT ![t].own = FrameOf(loc[t].pc)]
    /\ Goto(t, "add_link")
    /\ UNCHANGED <<bucket, frame, used, ReleaseState>>

\* The accesses of hash_add_rcu up to the publication.
AddLinked(t) ==
    /\ st[t] = "add_link" /\ used < MaxCached
    /\ used' = used + 1
    /\ frame' = [frame EXCEPT ![used + 1] = loc[t].own]
    /\ bucket' = AddLink(bucket, used + 1)
    /\ loc' = [loc EXCEPT ![t] = [pc |-> loc[t].pc, cur |-> Nil,
                                  first |-> bucket.first, new |-> used + 1,
                                  own |-> ZeroFrame]]
    /\ Goto(t, "add_publish")
    /\ UNCHANGED ReleaseState

AddPublished(t) ==
    /\ st[t] = "add_publish"
    /\ bucket' = AddPublish(bucket, loc[t].new)
    /\ Goto(t, "add_back")
    /\ UNCHANGED <<frame, used, loc, ReleaseState>>

AddReturns(t) ==
    /\ st[t] = "add_back"
    /\ bucket' = AddBack(bucket, loc[t].new, loc[t].first)
    /\ Done(t)
    /\ UNCHANGED <<frame, used, ReleaseState>>

-----------------------------------------------------------------------------
(* release_unwind_info: unw_cache_clear, then kfree of the mods *)

Unwinding == {t \in Threads : st[t] # "idle"}

\* release runs when no ioctl is in progress, after unregistration has made sure
\* that no stack trace will find the mods.
ClearStart ==
    /\ life = "open" /\ Unwinding = {}
    /\ life' = "clearing"
    /\ ccur' = bucket.first
    /\ UNCHANGED <<bucket, frame, used, st, loc, queued, freed>>

\* hash_del_rcu and call_rcu of the entry.
ClearEntry ==
    /\ life = "clearing" /\ ccur # Nil
    /\ bucket' = DelInit(bucket, ccur)
    /\ queued' = queued \cup {ccur}
    /\ life' = "advancing"
    /\ UNCHANGED <<frame, used, st, loc, ccur, freed>>

ClearNext_Stays ==
    /\ life = "advancing"
    /\ life' = "clearing"
    /\ UNCHANGED <<bucket, frame, used, st, loc, ccur, queued, freed>>

\* hash_for_each_rcu goes on through the next of the entry just queued.
ClearNext ==
    /\ life = "advancing"
    /\ life' = "clearing"
    /\ ccur' = bucket.next[ccur]
    /\ UNCHANGED <<bucket, frame, used, st, loc, queued, freed>>

\* The end of the read-side section; synchronize_rcu; kfree(mods).
ClearEnd ==
    /\ life = "clearing" /\ ccur = Nil
    /\ life' = "freed"
    /\ UNCHANGED <<bucket, frame, used, st, loc, ccur, queued, freed>>

\* kfree in place of call_rcu.
RcuFree_NoGracePeriod(n) ==
    /\ n \in queued \ freed
    /\ freed' = freed \cup {n}
    /\ UNCHANGED <<bucket, frame, used, st, loc, life, ccur, queued>>

\* unw_cache_entry_rcu_free: called once the read-side section of unw_cache_clear
\* has ended.
RcuFree(n) ==
    /\ n \in queued \ freed /\ life \notin {"clearing", "advancing"}
    /\ freed' = freed \cup {n}
    /\ UNCHANGED <<bucket, frame, used, st, loc, life, ccur, queued>>

-----------------------------------------------------------------------------
Step(t) ==
    \/ FindNext(t) \/ Hit(t) \/ Applied(t) \/ MissNotCached(t) \/ MissAdd(t)
    \/ AddFinds(t) \/ AddNoMem(t) \/ AddAlloc(t) \/ AddCopyPc(t) \/ AddCopyRules(t)
    \/ AddLinked(t) \/ AddPublished(t) \/ AddReturns(t)

Clear == ClearEntry \/ ClearNext \/ ClearEnd

Next ==
    \/ \E t \in Threads : Step(t) \/ \E p \in Pcs : Lookup(t, p)
    \/ ClearStart \/ Clear
    \/ \E n \in Entries : RcuFree(n)

\* Threads run, the release that has begun goes on, and RCU calls its callbacks.
Spec ==
    /\ Init /\ [][Next]_vars
    /\ \A t \in Threads : WF_vars(Step(t))
    /\ WF_vars(Clear)
    /\ \A n \in Entries : WF_vars(RcuFree(n))

-----------------------------------------------------------------------------
Labels == {"idle", "find", "apply", "add_find", "add_publish", "add_back"} \cup Private

Ptr == Entries \cup {Nil}

Frames == [pc : Pcs \cup {Nil}, rules : Pcs \cup {Nil}]

Locals == [pc : Pcs \cup {Nil}, cur : Ptr, first : Ptr, new : Ptr, own : Frames]

\* Types of the cache and of the threads' locals.
TypeOK ==
    /\ bucket \in [first : Ptr, next : [Entries -> Ptr], pprev : [Entries -> Ptr \cup {HeadPtr}]]
    /\ frame \in [Entries -> Frames]
    /\ used \in 0 .. MaxCached
    /\ st \in [Threads -> Labels]
    /\ loc \in [Threads -> Locals]
    /\ life \in {"open", "clearing", "advancing", "freed"}
    /\ ccur \in Ptr
    /\ queued \subseteq Entries /\ freed \subseteq Entries

\* However lookups interleave with additions, which fill an entry a word at a time and
\* then link it in three more accesses: the fast path of __unwind_frame applies a
\* complete frame, computed for the pc looked up, from an entry that is not freed.
HitIsRight ==
    \A t \in Threads :
        st[t] = "apply" =>
            /\ loc[t].cur \in Entries \ freed
            /\ frame[loc[t].cur] = FrameOf(loc[t].pc)

\* unw_cache_clear stands on entries that are not freed yet, unlinks through a
\* pprev that leads to one, and passes no entry to call_rcu twice, even where
\* racing additions left a stale pprev behind.
ClearSafe ==
    life \in {"clearing", "advancing"} /\ ccur # Nil =>
        /\ ccur \in (1 .. used) \ freed
        /\ life = "clearing" =>
            /\ ccur \notin queued
            /\ bucket.pprev[ccur] \in ((1 .. used) \ freed) \cup {HeadPtr}

\* However additions race and whatever the clear has unlinked, next leads to an
\* older entry and pprev, stale or not, to a newer one: no traversal can be
\* endless, and unlinking through a stale pprev cannot make one so.
LinksDescend ==
    /\ bucket.first <= used
    /\ \A n \in 1 .. used :
        /\ bucket.next[n] < n
        /\ bucket.pprev[n] \in {Nil, HeadPtr} \cup ((n + 1) .. used)
        /\ bucket.pprev[n] = Nil => n \in queued

\* A lookup or an addition that has begun ends: no traversal is endless.
LookupsEnd == \A t \in Threads : st[t] # "idle" ~> st[t] = "idle"

\* A release that has begun ends, and what it unlinked is freed.
ClearEnds == life = "clearing" ~> life = "freed" /\ queued = freed
=============================================================================
