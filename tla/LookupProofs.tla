----------------------------- MODULE LookupProofs -----------------------------
(***************************************************************************)
(* How __unwind_frame finds what it needs to know of a pc: in the frame cache,      *)
(* or with _stp_search_fde in the search table of a module.                      *)
(*                                                                         *)
(* The lock-free use of unw_cache is safe for any number of threads, pcs and    *)
(* entries.  The invariant speaks of single entries only: entries are ordered    *)
(* by the moment their next is set, next leads down, pprev leads up.  Lost       *)
(* additions and stale pprevs keep that order, so it needs no lock.  With one      *)
(* thread at a time nothing is lost: the bucket is every entry, the last first.    *)
(*                                                                         *)
(* _stp_search_fde, for every header, table, module and pc: the window invariant   *)
(* of the loop, the correctness of the FDE it returns, and that it implements      *)
(* FdeLookup.                                                               *)
(***************************************************************************)
EXTENDS MCUnwCache, FdeSearch, TLAPS

-----------------------------------------------------------------------------
(* The frame cache *)

Filled == 1 .. used

\* How much of the frame a thread's own entry holds.
OwnOK(label, l) ==
    /\ label \in Private => l.cur = Nil
    /\ label = "add_link" => l.own = FrameOf(l.pc)

\* What a thread's locals say of the entries.
LocalsOK ==
    \A t \in Threads :
        /\ loc[t].cur <= used
        /\ st[t] # "idle" => loc[t].pc \in Pcs /\ life = "open"
        /\ st[t] = "apply" => Matches(t)
        /\ st[t] \in {"add_publish", "add_back"} =>
            loc[t].new \in Filled /\ loc[t].first < loc[t].new
        /\ OwnOK(st[t], loc[t])

\* What the release has done so far.
ReleaseOK ==
    /\ queued \subseteq Filled
    /\ life = "open" => queued = {}
    /\ life # "freed" => freed = {}
    /\ ccur <= used
    /\ life = "clearing" => \A n \in queued : ccur < n
    /\ life = "advancing" => ccur # Nil /\ ccur \in queued /\ \A n \in queued : ccur <= n

FramesOK == \A n \in Filled : \E p \in Pcs : frame[n] = FrameOf(p)

CacheInv == TypeOK /\ LinksDescend /\ FramesOK /\ LocalsOK /\ ReleaseOK

\* The cache of a freshly opened file satisfies the invariant.
LEMMA CacheInit == Init => CacheInv
BY UnwCacheAssumption
   DEF Init, CacheInv, TypeOK, LinksDescend, FramesOK, LocalsOK, ReleaseOK, Filled,
       EmptyBucket, Entries, Ptr, Labels, NoLocals, ZeroFrame, Nil, HeadPtr, Matches,
       Locals, Frames, OwnOK, Private

\* Entries are positive and Nil is below them: a pointer is a number up to MaxCached.
LEMMA PtrIsNat == Ptr = 0 .. MaxCached /\ Entries = 1 .. MaxCached
BY UnwCacheAssumption DEF Ptr, Entries, Nil

\* Frames, whole or empty, are frames.
LEMMA FrameType ==
    /\ ZeroFrame \in Frames /\ \A p \in Pcs : FrameOf(p) \in Frames
    /\ \A p \in Pcs : [ZeroFrame EXCEPT !.pc = p] \in Frames
BY DEF ZeroFrame, FrameOf, Frames

\* A step that writes neither the bucket nor the entries keeps the invariant when
\* the locals of the one thread that moves are right.
LEMMA LocalStep ==
    ASSUME CacheInv, UNCHANGED <<bucket, frame, used, ReleaseState>>,
           NEW t \in Threads, NEW label \in Labels,
           NEW l \in Locals,
           st' = [st EXCEPT ![t] = label], loc' = [loc EXCEPT ![t] = l],
           l.cur <= used,
           label # "idle" => l.pc \in Pcs /\ life = "open",
           label = "apply" => l.cur # Nil /\ frame[l.cur].pc = l.pc,
           label \notin {"add_publish", "add_back"}, OwnOK(label, l)
    PROVE  CacheInv'
<1>1. TypeOK'
  BY Zenon DEF CacheInv, TypeOK, ReleaseState
<1>2. LinksDescend' /\ FramesOK' /\ ReleaseOK'
  BY Zenon DEF CacheInv, LinksDescend, FramesOK, ReleaseOK, Filled, ReleaseState
<1>3. LocalsOK'
  <2> SUFFICES ASSUME NEW u \in Threads
      PROVE  /\ loc'[u].cur <= used'
             /\ st'[u] # "idle" => loc'[u].pc \in Pcs /\ life' = "open"
             /\ st'[u] = "apply" => loc'[u].cur # Nil /\ frame'[loc'[u].cur].pc = loc'[u].pc
             /\ st'[u] \in {"add_publish", "add_back"} =>
                  loc'[u].new \in Filled' /\ loc'[u].first < loc'[u].new
             /\ OwnOK(st'[u], loc'[u])
    BY Zenon DEF LocalsOK, Matches
  <2>1. CASE u = t
    BY <2>1, Zenon DEF CacheInv, TypeOK, ReleaseState
  <2>2. CASE u # t
    BY <2>2, Zenon DEF CacheInv, TypeOK, LocalsOK, Matches, ReleaseState, Filled
  <2> QED BY <2>1, <2>2, Zenon
<1> QED BY <1>1, <1>2, <1>3, Zenon DEF CacheInv

\* A thread that searches has no entry of its own.
LEMMA NotPrivate ==
    \A l : /\ "idle" \in Labels /\ OwnOK("idle", l)
          /\ "find" \in Labels /\ OwnOK("find", l)
          /\ "apply" \in Labels /\ OwnOK("apply", l)
          /\ "add_find" \in Labels /\ OwnOK("add_find", l)
BY Zenon DEF Labels, OwnOK, Private

\* The steps of a lookup and of the search of an addition.
LEMMA LookupInv ==
    ASSUME CacheInv, NEW t \in Threads, NEW p \in Pcs, Lookup(t, p)
    PROVE  CacheInv'
<1> DEFINE l == [pc |-> p, cur |-> bucket.first, first |-> Nil, new |-> Nil, own |-> ZeroFrame]
<1>1. l \in Locals /\ l.pc = p
      /\ l.cur <= used
  BY FrameType, Zenon DEF CacheInv, TypeOK, LinksDescend, Locals, Ptr
<1>2. loc' = [loc EXCEPT ![t] = l] /\ st' = [st EXCEPT ![t] = "find"] /\ life = "open"
      /\ UNCHANGED <<bucket, frame, used, ReleaseState>>
  BY Zenon DEF Lookup, Goto
<1> HIDE DEF l
<1> QED BY <1>1, <1>2, LocalStep, NotPrivate, Zenon

\* A thread that is done keeps nothing.
LEMMA DoneInv ==
    ASSUME CacheInv, NEW t \in Threads, Done(t), UNCHANGED <<bucket, frame, used, ReleaseState>>
    PROVE  CacheInv'
<1>1. NoLocals \in Locals
      /\ NoLocals.cur <= used
  <2>1. NoLocals \in Locals
    BY FrameType, Zenon DEF NoLocals, Locals, Ptr
  <2> QED BY <2>1, PtrIsNat DEF CacheInv, TypeOK, NoLocals, Nil
<1>2. loc' = [loc EXCEPT ![t] = NoLocals] /\ st' = [st EXCEPT ![t] = "idle"]
  BY Zenon DEF Done, Goto
<1> HIDE DEF NoLocals
<1> QED BY <1>1, <1>2, LocalStep, NotPrivate, Zenon

\* A step of unw_cache_find_entry along the bucket preserves the invariant.
LEMMA FindNextInv ==
    ASSUME CacheInv, NEW t \in Threads, FindNext(t)
    PROVE  CacheInv'
<1> DEFINE l == [loc[t] EXCEPT !.cur = bucket.next[loc[t].cur]]
<1>1. loc[t] \in Locals
      /\ loc[t].cur \in Filled
  BY PtrIsNat DEF CacheInv, TypeOK, LocalsOK, Locals, FindNext, Filled, Nil
<1>2. bucket.next[loc[t].cur] \in Ptr /\ bucket.next[loc[t].cur] <= used
  <2>1. loc[t].cur \in Entries /\ used \in 0 .. MaxCached /\ loc[t].cur \in 1 .. used
    BY <1>1, UnwCacheAssumption DEF CacheInv, TypeOK, Filled, Entries
  <2>2. bucket.next[loc[t].cur] \in Ptr /\ bucket.next[loc[t].cur] < loc[t].cur
    BY <2>1, Zenon DEF CacheInv, TypeOK, LinksDescend
  <2> QED BY <2>1, <2>2, PtrIsNat, UnwCacheAssumption
<1>3. l \in Locals /\ l.pc = loc[t].pc
      /\ l.cur <= used
  BY <1>1, <1>2, Zenon DEF Locals
<1>4. loc' = [loc EXCEPT ![t] = l] /\ st' = [st EXCEPT ![t] = st[t]]
      /\ UNCHANGED <<bucket, frame, used, ReleaseState>>
  BY Zenon DEF FindNext, CacheInv, TypeOK
<1>5. st[t] \in {"find", "add_find"} /\ l.pc \in Pcs /\ life = "open"
  BY <1>3, Zenon DEF FindNext, CacheInv, LocalsOK
<1> HIDE DEF l
<1> QED BY <1>3, <1>4, <1>5, LocalStep, NotPrivate, Zenon

\* Taking the frame of the entry found, as __unwind_frame does, preserves it.
LEMMA HitInv ==
    ASSUME CacheInv, NEW t \in Threads, Hit(t)
    PROVE  CacheInv'
<1>1. loc[t] \in Locals
      /\ loc[t].cur <= used /\ loc[t].pc \in Pcs /\ life = "open"
  BY Zenon DEF CacheInv, TypeOK, LocalsOK, Hit
<1>2. loc' = [loc EXCEPT ![t] = loc[t]] /\ st' = [st EXCEPT ![t] = "apply"]
      /\ UNCHANGED <<bucket, frame, used, ReleaseState>>
  BY Zenon DEF Hit, Goto, CacheInv, TypeOK
<1> QED BY <1>1, <1>2, LocalStep, NotPrivate, Zenon DEF Hit, Matches

\* Going on to unw_cache_add_entry after a miss preserves it.
LEMMA MissAddInv ==
    ASSUME CacheInv, NEW t \in Threads, MissAdd(t)
    PROVE  CacheInv'
<1> DEFINE l == [loc[t] EXCEPT !.cur = bucket.first]
<1>1. l \in Locals /\ l.pc = loc[t].pc
      /\ l.cur <= used
  BY Zenon DEF CacheInv, TypeOK, LinksDescend, Locals
<1>2. loc' = [loc EXCEPT ![t] = l] /\ st' = [st EXCEPT ![t] = "add_find"]
      /\ UNCHANGED <<bucket, frame, used, ReleaseState>>
  BY Zenon DEF MissAdd, Goto, CacheInv, TypeOK
<1>3. loc[t].pc \in Pcs /\ life = "open"
  BY Zenon DEF CacheInv, LocalsOK, MissAdd
<1> HIDE DEF l
<1> QED BY <1>1, <1>2, <1>3, LocalStep, NotPrivate, Zenon

\* kzalloc, and the copy of the frame to the thread's own entry.
LEMMA AddFillInv ==
    ASSUME CacheInv, NEW t \in Threads, AddAlloc(t) \/ AddCopyPc(t) \/ AddCopyRules(t)
    PROVE  CacheInv'
<1>1. /\ loc[t] \in Locals /\ loc[t].cur <= used /\ loc[t].pc \in Pcs /\ life = "open"
      /\ loc[t].cur = Nil
      /\ UNCHANGED <<bucket, frame, used, ReleaseState>>
  BY Zenon DEF AddAlloc, AddCopyPc, AddCopyRules, CacheInv, TypeOK, LocalsOK, OwnOK, Private
<1>2. ASSUME NEW o \in Frames, NEW label \in Private,
             loc' = [loc EXCEPT ![t].own = o], st' = [st EXCEPT ![t] = label],
             label = "add_link" => o = FrameOf(loc[t].pc)
      PROVE  CacheInv'
  <2> DEFINE l == [loc[t] EXCEPT !.own = o]
  <2>1. /\ l \in Locals /\ l.cur = loc[t].cur /\ l.pc = loc[t].pc /\ l.own = o
        /\ loc' = [loc EXCEPT ![t] = l]
    BY <1>1, <1>2, Zenon DEF Locals
  <2>2. label \in Labels /\ label \notin {"apply", "add_publish", "add_back"}
    BY Zenon DEF Labels, Private
  <2> HIDE DEF l
  <2>3. OwnOK(label, l)
    BY <1>1, <1>2, <2>1, Zenon DEF OwnOK
  <2> QED BY <1>1, <1>2, <2>1, <2>2, <2>3, LocalStep, Zenon
<1>3. CASE AddAlloc(t)
  BY <1>2, <1>3, FrameType, Zenon DEF AddAlloc, Goto, Private
<1>4. CASE AddCopyPc(t)
  BY <1>1, <1>2, <1>4, FrameType, Zenon DEF AddCopyPc, Goto, Private
<1>5. CASE AddCopyRules(t)
  BY <1>1, <1>2, <1>5, FrameType, Zenon DEF AddCopyRules, Goto, Private
<1> QED BY <1>3, <1>4, <1>5, Zenon

\* The first accesses of hash_add_rcu: the new entry is above all others, and its
\* next is one of those.
LEMMA AddLinkedInv ==
    ASSUME CacheInv, NEW t \in Threads, AddLinked(t)
    PROVE  CacheInv'
<1> DEFINE n == used + 1
<1>1. /\ used \in Nat /\ n \in Entries /\ n \in Ptr /\ used' = n /\ n \notin Filled
      /\ Filled' = Filled \cup {n} /\ MaxCached \in Nat /\ n \in 0 .. MaxCached
  BY UnwCacheAssumption DEF AddLinked, CacheInv, TypeOK, Entries, Ptr, Filled
<1>2. /\ bucket' = [first |-> bucket.first,
                    next |-> [bucket.next EXCEPT ![n] = bucket.first],
                    pprev |-> [bucket.pprev EXCEPT ![n] = HeadPtr]]
  BY Zenon DEF AddLinked, AddLink, CacheInv, TypeOK
<1>3. /\ frame' = [frame EXCEPT ![n] = FrameOf(loc[t].pc)]
      /\ st' = [st EXCEPT ![t] = "add_publish"]
      /\ UNCHANGED <<life, ccur, queued, freed>>
  BY Zenon DEF AddLinked, Goto, ReleaseState, CacheInv, LocalsOK, OwnOK
<1>4. loc[t].pc \in Pcs /\ life = "open" /\ queued = {} /\ freed = {}
  BY Zenon DEF AddLinked, CacheInv, LocalsOK, ReleaseOK
<1>5. loc' = [loc EXCEPT ![t] = [pc |-> loc[t].pc, cur |-> Nil,
                                  first |-> bucket.first, new |-> n, own |-> ZeroFrame]]
  BY Zenon DEF AddLinked
<1>6. bucket.first \in Ptr /\ bucket.first \in Nat /\ bucket.first < n
  BY <1>1, PtrIsNat DEF CacheInv, TypeOK, LinksDescend
<1> HIDE DEF n
<1>7. TypeOK'
  <2>1. bucket' \in [first : Ptr, next : [Entries -> Ptr], pprev : [Entries -> Ptr \cup {HeadPtr}]]
    BY <1>1, <1>2, <1>6, Zenon DEF CacheInv, TypeOK
  <2>2. frame' \in [Entries -> Frames]
    BY <1>1, <1>3, <1>4, FrameType, Zenon DEF CacheInv, TypeOK
  <2>3. loc' \in [Threads -> Locals]
    <3>1. Nil \in Ptr
      BY Zenon DEF Ptr
    <3> QED BY <3>1, <1>1, <1>4, <1>5, <1>6, FrameType, Zenon DEF CacheInv, TypeOK, Locals
  <2>4. st' \in [Threads -> Labels]
    BY <1>3, Zenon DEF CacheInv, TypeOK, Labels
  <2> QED BY <1>1, <1>3, <2>1, <2>2, <2>3, <2>4, Zenon DEF CacheInv, TypeOK
<1>8. LinksDescend'
  <2>1. bucket'.first <= used'
    BY <1>1, <1>2, <1>6
  <2>2. ASSUME NEW m \in Filled'
        PROVE  /\ bucket'.next[m] < m
               /\ bucket'.pprev[m] \in {Nil, HeadPtr} \cup ((m + 1) .. used')
               /\ bucket'.pprev[m] = Nil => m \in queued'
    <3>1. CASE m = n
      BY <3>1, <1>1, <1>2, <1>6 DEF CacheInv, TypeOK, Nil, HeadPtr
    <3>2. CASE m # n
      <4>1. m \in Filled /\ m \in Entries
        <5>1. m \in Filled
          BY <3>2, <1>1, Zenon
        <5> QED BY <5>1, <1>1, UnwCacheAssumption DEF Filled, Entries, n
      <4>2. bucket'.next[m] = bucket.next[m] /\ bucket'.pprev[m] = bucket.pprev[m]
        BY <3>2, <4>1, <1>2, Zenon DEF CacheInv, TypeOK
      <4> QED BY <4>1, <4>2, <1>1, <1>3 DEF CacheInv, LinksDescend, Filled, n
    <3> QED BY <3>1, <3>2, Zenon
  <2> QED BY <2>1, <2>2, Zenon DEF LinksDescend, Filled
<1>9. FramesOK'
  BY <1>1, <1>3, <1>4 DEF CacheInv, TypeOK, FramesOK
<1>10. ReleaseOK'
  <2>1. ccur \in Nat /\ ccur <= used
    BY PtrIsNat DEF CacheInv, TypeOK, ReleaseOK
  <2>2. ccur' <= used' /\ queued' = {} /\ freed' = {} /\ life' = "open"
    BY <2>1, <1>1, <1>3, <1>4 DEF n
  <2> QED BY <2>2, Zenon DEF ReleaseOK
<1>11. LocalsOK'
  <2> SUFFICES ASSUME NEW u \in Threads
      PROVE  /\ loc'[u].cur <= used'
             /\ st'[u] # "idle" => loc'[u].pc \in Pcs /\ life' = "open"
             /\ st'[u] = "apply" => loc'[u].cur # Nil /\ frame'[loc'[u].cur].pc = loc'[u].pc
             /\ st'[u] \in {"add_publish", "add_back"} =>
                  loc'[u].new \in Filled' /\ loc'[u].first < loc'[u].new
             /\ OwnOK(st'[u], loc'[u])
    BY Zenon DEF LocalsOK, Matches
  <2>0. loc[u] \in Locals
        /\ loc[u].cur \in Nat /\ loc[u].cur <= used /\ loc[u].cur <= used'
    BY <1>1, PtrIsNat DEF CacheInv, TypeOK, LocalsOK, Locals, n
  <2>1. CASE u = t
    BY <2>0, <2>1, <1>1, <1>3, <1>4, <1>5, <1>6 DEF CacheInv, TypeOK, Nil, OwnOK, Private
  <2>2. CASE u # t
    <3>1. loc'[u] = loc[u] /\ st'[u] = st[u]
      BY <2>2, <1>3, <1>5, Zenon DEF CacheInv, TypeOK
    <3>2. loc[u].cur # Nil => loc[u].cur \in Entries /\ loc[u].cur # n
      BY <2>0, <1>1, PtrIsNat DEF Locals, n, Nil
    <3>3. loc[u].cur # Nil => frame'[loc[u].cur] = frame[loc[u].cur]
      BY <3>2, <1>3, Zenon DEF CacheInv, TypeOK
    <3> QED BY <2>0, <3>1, <3>3, <1>1, <1>3, ZenonT(60) DEF CacheInv, LocalsOK, Matches
  <2> QED BY <2>1, <2>2, Zenon
<1> QED BY <1>7, <1>8, <1>9, <1>10, <1>11, Zenon DEF CacheInv

\* The publication of the new entry.
LEMMA AddPublishedInv ==
    ASSUME CacheInv, NEW t \in Threads, AddPublished(t)
    PROVE  CacheInv'
<1> DEFINE n == loc[t].new
<1>1. /\ n \in Filled /\ n \in Ptr /\ n <= used /\ loc[t].first < n
      /\ loc[t].pc \in Pcs /\ life = "open"
  BY DEF AddPublished, CacheInv, TypeOK, LocalsOK, Locals, Filled
<1>2. bucket' = [first |-> n, next |-> bucket.next, pprev |-> bucket.pprev]
  BY Zenon DEF AddPublished, AddPublish, CacheInv, TypeOK
<1>3. st' = [st EXCEPT ![t] = "add_back"] /\ st[t] = "add_publish"
      /\ UNCHANGED <<frame, used, loc, life, ccur, queued, freed>>
  BY Zenon DEF AddPublished, Goto, ReleaseState
<1> HIDE DEF n
<1>4. TypeOK'
  <2>1. bucket' \in [first : Ptr, next : [Entries -> Ptr], pprev : [Entries -> Ptr \cup {HeadPtr}]]
    BY <1>1, <1>2, Zenon DEF CacheInv, TypeOK
  <2>2. st' \in [Threads -> Labels]
    BY <1>3, Zenon DEF CacheInv, TypeOK, Labels
  <2> QED BY <1>3, <2>1, <2>2, Zenon DEF CacheInv, TypeOK
<1>5. LinksDescend'
  BY <1>1, <1>2, <1>3, Zenon DEF CacheInv, LinksDescend
<1>6. FramesOK' /\ ReleaseOK'
  BY <1>3, Zenon DEF CacheInv, FramesOK, ReleaseOK, Filled
<1>7. LocalsOK'
  BY <1>1, <1>3, Zenon DEF CacheInv, TypeOK, LocalsOK, Matches, Filled, OwnOK, Private
<1> QED BY <1>4, <1>5, <1>6, <1>7, Zenon DEF CacheInv

\* The last access of hash_add_rcu: the pprev it writes leads up, however old the
\* first it read is.
LEMMA AddReturnsInv ==
    ASSUME CacheInv, NEW t \in Threads, AddReturns(t)
    PROVE  CacheInv'
<1> DEFINE n == loc[t].new
           f == loc[t].first
<1>1. /\ n \in Filled /\ f < n /\ n \in Ptr /\ f \in Ptr
      /\ used \in 0 .. MaxCached
  BY Zenon DEF AddReturns, CacheInv, TypeOK, LocalsOK, Locals
<1>2. UNCHANGED <<frame, used, life, ccur, queued, freed>> /\ Done(t)
      /\ bucket' = AddBack(bucket, n, f)
  BY Zenon DEF AddReturns, ReleaseState
<1>3. CASE f = Nil
  <2>1. UNCHANGED <<bucket, frame, used, ReleaseState>>
    BY <1>2, <1>3, Zenon DEF AddBack, ReleaseState
  <2> QED BY <2>1, <1>2, DoneInv, Zenon
<1>4. CASE f # Nil
  <2>1. f \in Entries /\ f \in Nat /\ n \in (f + 1) .. used /\ f \in Filled
    BY <1>1, <1>4, PtrIsNat, UnwCacheAssumption DEF Ptr, Filled, Nil
  <2>2. bucket' = [first |-> bucket.first, next |-> bucket.next,
                   pprev |-> [bucket.pprev EXCEPT ![f] = n]]
    BY <1>2, <1>4, Zenon DEF AddBack, CacheInv, TypeOK
  <2> DEFINE l == NoLocals
  <2>3. st' = [st EXCEPT ![t] = "idle"] /\ loc' = [loc EXCEPT ![t] = l]
    BY <1>2, Zenon DEF Done, Goto
  <2>4. l \in Locals /\ l.cur = 0
    BY FrameType, Zenon DEF NoLocals, Locals, Ptr, Nil
  <2> HIDE DEF n, f, l
  <2>5. TypeOK'
    <3>1. bucket' \in [first : Ptr, next : [Entries -> Ptr],
                       pprev : [Entries -> Ptr \cup {HeadPtr}]]
      BY <1>1, <2>1, <2>2, Zenon DEF CacheInv, TypeOK
    <3>2. st' \in [Threads -> Labels]
          /\ loc' \in [Threads -> Locals]
      BY <2>3, <2>4, Zenon DEF CacheInv, TypeOK, Labels
    <3> QED BY <1>2, <3>1, <3>2, Zenon DEF CacheInv, TypeOK
  <2>6. LinksDescend'
    <3> SUFFICES ASSUME NEW m \in 1 .. used
                 PROVE  /\ bucket'.next[m] < m
                        /\ bucket'.pprev[m] \in {Nil, HeadPtr} \cup ((m + 1) .. used)
                        /\ bucket'.pprev[m] = Nil => m \in queued
      BY <1>2, <2>2 DEF CacheInv, LinksDescend
    <3>1. m \in Entries
      BY <1>1, PtrIsNat, UnwCacheAssumption
    <3>2. CASE m = f
      BY <2>1, <2>2, <3>1, <3>2 DEF CacheInv, TypeOK, LinksDescend, Nil
    <3>3. CASE m # f
      BY <2>2, <3>1, <3>3, Zenon DEF CacheInv, TypeOK, LinksDescend
    <3> QED BY <3>2, <3>3, Zenon
  <2>7. FramesOK' /\ ReleaseOK'
    BY <1>2, Zenon DEF CacheInv, FramesOK, ReleaseOK, Filled
  <2>8. LocalsOK'
    BY <1>1, <1>2, <2>3, <2>4 DEF CacheInv, TypeOK, LocalsOK, Matches, Filled, OwnOK, Private
  <2> QED BY <2>5, <2>6, <2>7, <2>8, Zenon DEF CacheInv
<1> QED BY <1>3, <1>4, Zenon

\* hash_del_rcu and call_rcu of the entry unw_cache_clear stands on: what comes
\* before it is linked to what comes after, further down.
LEMMA ClearEntryInv ==
    ASSUME CacheInv, ClearEntry
    PROVE  CacheInv'
<1> DEFINE n == ccur
           nx == bucket.next[n]
           pp == bucket.pprev[n]
<1>1. /\ n \in Filled /\ n \in Entries /\ used \in 0 .. MaxCached /\ n \notin queued
      /\ nx \in Ptr /\ nx \in Nat /\ nx < n
      /\ \A m \in queued : n < m
  <2>1. n \in Entries /\ used \in 0 .. MaxCached /\ n <= used /\ n # Nil
        /\ \A m \in queued : n < m
    BY Zenon DEF ClearEntry, CacheInv, TypeOK, ReleaseOK, Ptr
  <2>2. n \in Filled /\ n \in Nat
    BY <2>1, PtrIsNat, UnwCacheAssumption DEF Filled
  <2>3. nx \in Ptr /\ nx < n
    BY <2>1, <2>2, Zenon DEF CacheInv, TypeOK, LinksDescend, Filled
  <2>4. nx \in Nat
    BY <2>3, PtrIsNat
  <2>5. n \notin queued
    BY <2>1, <2>2
  <2> QED BY <2>1, <2>2, <2>3, <2>4, <2>5, Zenon
<1>2. pp # Nil /\ (pp = HeadPtr \/ pp \in (n + 1) .. used)
  BY <1>1, Zenon DEF CacheInv, LinksDescend, Filled
<1>3. pp # HeadPtr => pp \in Entries
  BY <1>1, <1>2, PtrIsNat, UnwCacheAssumption DEF Filled
<1>4. /\ queued' = queued \cup {n} /\ life' = "advancing" /\ life = "clearing"
      /\ UNCHANGED <<frame, used, st, loc, ccur, freed>>
      /\ bucket' = DelBack(DelUnlink(bucket, n, nx, pp), n, nx, pp)
  BY <1>2, Zenon DEF ClearEntry, DelInit
<1> HIDE DEF n, nx, pp
<1>5. PICK b \in [first : Ptr, next : [Entries -> Ptr], pprev : [Entries -> Ptr \cup {HeadPtr}]] :
        /\ b = DelUnlink(bucket, n, nx, pp)
        /\ b.pprev = bucket.pprev
        /\ b.first = bucket.first \/ b.first = nx
        /\ \A m \in Entries : b.next[m] = bucket.next[m] \/ (m = pp /\ b.next[m] = nx)
  <2>1. CASE pp = HeadPtr
    <3> DEFINE b == [first |-> nx, next |-> bucket.next, pprev |-> bucket.pprev]
    <3>1. b = DelUnlink(bucket, n, nx, pp)
      BY <2>1, Zenon DEF DelUnlink, CacheInv, TypeOK
    <3>2. b \in [first : Ptr, next : [Entries -> Ptr], pprev : [Entries -> Ptr \cup {HeadPtr}]]
      BY <1>1, Zenon DEF CacheInv, TypeOK
    <3> QED BY <3>1, <3>2, Zenon
  <2>2. CASE pp # HeadPtr
    <3> DEFINE b == [first |-> bucket.first, next |-> [bucket.next EXCEPT ![pp] = nx],
                     pprev |-> bucket.pprev]
    <3>1. b = DelUnlink(bucket, n, nx, pp)
      BY <2>2, Zenon DEF DelUnlink, CacheInv, TypeOK
    <3>2. b \in [first : Ptr, next : [Entries -> Ptr], pprev : [Entries -> Ptr \cup {HeadPtr}]]
      BY <1>1, <1>3, <2>2, Zenon DEF CacheInv, TypeOK
    <3>3. \A m \in Entries : b.next[m] = bucket.next[m] \/ (m = pp /\ b.next[m] = nx)
      BY <1>3, <2>2, Zenon DEF CacheInv, TypeOK
    <3> QED BY <3>1, <3>2, <3>3, Zenon
  <2> QED BY <2>1, <2>2, Zenon
<1>6. /\ bucket' \in [first : Ptr, next : [Entries -> Ptr], pprev : [Entries -> Ptr \cup {HeadPtr}]]
      /\ bucket'.first = b.first /\ bucket'.next = b.next
      /\ bucket'.pprev[n] = Nil
      /\ \A m \in Entries \ {n} :
            bucket'.pprev[m] = bucket.pprev[m] \/ (m = nx /\ bucket'.pprev[m] = pp)
  <2>0. Nil \in Ptr /\ pp \in Ptr \cup {HeadPtr}
    BY <1>3, Zenon DEF Ptr
  <2>1. CASE nx = Nil
    <3>1. bucket' = [first |-> b.first, next |-> b.next,
                     pprev |-> [bucket.pprev EXCEPT ![n] = Nil]]
      BY <1>4, <1>5, <2>1, Zenon DEF DelBack
    <3> QED BY <3>1, <1>1, <1>5, <2>0, Zenon DEF CacheInv, TypeOK
  <2>2. CASE nx # Nil
    <3>0. nx \in Entries
      BY <1>1, <2>2, Zenon DEF Ptr
    <3>1. bucket' = [first |-> b.first, next |-> b.next,
                     pprev |-> [[bucket.pprev EXCEPT ![nx] = pp] EXCEPT ![n] = Nil]]
      BY <1>4, <1>5, <2>2, Zenon DEF DelBack
    <3> QED BY <3>0, <3>1, <1>1, <1>5, <2>0, Zenon DEF CacheInv, TypeOK
  <2> QED BY <2>1, <2>2, Zenon
<1>7. TypeOK'
  BY <1>1, <1>4, <1>6, Zenon DEF CacheInv, TypeOK
<1>8. LinksDescend'
  <2>1. bucket'.first <= used'
    BY <1>1, <1>4, <1>5, <1>6 DEF CacheInv, LinksDescend, Filled
  <2>2. ASSUME NEW m \in 1 .. used
        PROVE  /\ bucket'.next[m] < m
               /\ bucket'.pprev[m] \in {Nil, HeadPtr} \cup ((m + 1) .. used)
               /\ bucket'.pprev[m] = Nil => m \in queued'
    <3>1. m \in Entries /\ m \in Nat
      BY <1>1, PtrIsNat, UnwCacheAssumption
    <3>2. bucket.next[m] < m /\ bucket.pprev[m] \in {Nil, HeadPtr} \cup ((m + 1) .. used)
          /\ (bucket.pprev[m] = Nil => m \in queued)
      BY Zenon DEF CacheInv, LinksDescend
    <3>3. bucket'.next[m] < m
      <4>1. CASE bucket'.next[m] = bucket.next[m]
        BY <4>1, <3>2, Zenon
      <4>2. CASE m = pp /\ bucket'.next[m] = nx
        BY <4>2, <1>1, <1>2, <3>1 DEF HeadPtr, Filled
      <4> QED BY <4>1, <4>2, <1>5, <1>6, <3>1, Zenon
    <3>4. CASE m = n
      BY <3>3, <3>4, <1>4, <1>6, Zenon
    <3>5. CASE m # n /\ bucket'.pprev[m] = bucket.pprev[m]
      BY <3>2, <3>3, <3>5, <1>4, Zenon
    <3>6. CASE m # n /\ m = nx /\ bucket'.pprev[m] = pp
      BY <3>1, <3>3, <3>6, <1>1, <1>2 DEF Filled
    <3> QED BY <3>1, <3>4, <3>5, <3>6, <1>6, Zenon
  <2> QED BY <2>1, <2>2, <1>4, Zenon DEF LinksDescend
<1>9. FramesOK' /\ LocalsOK'
  BY <1>4, Zenon DEF CacheInv, FramesOK, LocalsOK, Filled, Matches
<1>10. ReleaseOK'
  <2>1. queued \subseteq Filled /\ ccur = n /\ freed = {} /\ n \in Nat /\ n # Nil
        /\ n <= used
    BY <1>1, <1>4 DEF CacheInv, ReleaseOK, n, Filled, Nil
  <2>2. \A m \in queued' : n <= m
    BY <1>1, <1>4, <2>1 DEF Filled
  <2> QED BY <1>1, <1>4, <2>1, <2>2, Zenon DEF ReleaseOK, Filled
<1> QED BY <1>7, <1>8, <1>9, <1>10, Zenon DEF CacheInv

\* The other steps of the release.
LEMMA ClearOtherInv ==
    ASSUME CacheInv, ClearStart \/ ClearNext \/ ClearEnd \/ \E n \in Entries : RcuFree(n)
    PROVE  CacheInv'
<1>1. UNCHANGED <<bucket, frame, used, st, loc>> /\ queued' = queued
  BY Zenon DEF ClearStart, ClearNext, ClearEnd, RcuFree
<1>2. CASE ClearStart
  <2>1. \A t \in Threads : st[t] = "idle"
    BY <1>2, Zenon DEF ClearStart, Unwinding
  <2>2. LocalsOK' /\ FramesOK' /\ LinksDescend'
    BY <1>1, <2>1, Zenon DEF CacheInv, LocalsOK, FramesOK, LinksDescend, Filled, Matches
  <2> QED BY <1>1, <1>2, <2>2, Zenon DEF ClearStart, CacheInv, TypeOK, ReleaseOK, LinksDescend, Filled
<1>3. CASE ClearNext
  <2>1. ccur \in Filled /\ ccur \in Entries /\ used \in Nat
    BY <1>3, UnwCacheAssumption DEF ClearNext, CacheInv, TypeOK, ReleaseOK, Filled, Ptr
  <2>2. bucket.next[ccur] \in Ptr /\ bucket.next[ccur] < ccur
    BY <2>1, Zenon DEF CacheInv, TypeOK, LinksDescend, Filled
  <2>3. \A n \in queued : ccur <= n /\ n \in Nat
    <3>1. queued \subseteq 1 .. used /\ \A n \in queued : ccur <= n
      BY <1>3, Zenon DEF ClearNext, CacheInv, ReleaseOK, Filled
    <3> QED BY <3>1
  <2>4. bucket.next[ccur] \in Nat /\ bucket.next[ccur] <= used
        /\ \A n \in queued : bucket.next[ccur] < n
    BY <2>1, <2>2, <2>3, PtrIsNat DEF Filled
  <2>5. LocalsOK' /\ FramesOK' /\ LinksDescend'
    BY <1>1, <1>3, Zenon DEF ClearNext, CacheInv, LocalsOK, FramesOK, LinksDescend, Filled, Matches
  <2>6. ReleaseOK'
    BY <1>1, <1>3, <2>4, Zenon DEF ClearNext, CacheInv, ReleaseOK, Filled
  <2>7. TypeOK'
    BY <1>1, <1>3, <2>2, Zenon DEF ClearNext, CacheInv, TypeOK
  <2> QED BY <2>5, <2>6, <2>7, Zenon DEF CacheInv
<1>4. CASE ClearEnd
  <2>1. LocalsOK' /\ FramesOK' /\ LinksDescend'
    BY <1>1, <1>4, Zenon DEF ClearEnd, CacheInv, LocalsOK, FramesOK, LinksDescend, Filled, Matches
  <2> QED BY <1>1, <1>4, <2>1, Zenon DEF ClearEnd, CacheInv, TypeOK, ReleaseOK, Filled
<1>5. CASE \E n \in Entries : RcuFree(n)
  <2>1. PICK n \in Entries : RcuFree(n)
    BY <1>5, Zenon
  <2>2. LocalsOK' /\ FramesOK' /\ LinksDescend' /\ life' = life
    BY <1>1, <2>1, Zenon DEF RcuFree, CacheInv, LocalsOK, FramesOK, LinksDescend, Filled, Matches
  <2>3. life = "freed"
    BY <2>1, Zenon DEF RcuFree, CacheInv, TypeOK, ReleaseOK
  <2> QED BY <1>1, <2>1, <2>2, <2>3, Zenon DEF RcuFree, CacheInv, TypeOK, ReleaseOK, Filled
<1> QED BY <1>2, <1>3, <1>4, <1>5, Zenon

\* Every step of the cache's users and of its release preserves the invariant.
LEMMA CacheStep == CacheInv /\ [Next]_vars => CacheInv'
<1> SUFFICES ASSUME CacheInv, [Next]_vars PROVE CacheInv'
  BY Zenon
<1>1. CASE UNCHANGED vars
  BY <1>1, Zenon DEF vars, CacheInv, TypeOK, LinksDescend, FramesOK, LocalsOK, ReleaseOK, Filled, Matches
<1>2. ASSUME NEW t \in Threads, Step(t) PROVE CacheInv'
  <2>1. CASE Applied(t) \/ MissNotCached(t) \/ AddFinds(t) \/ AddNoMem(t)
    BY <2>1, DoneInv, Zenon DEF Applied, MissNotCached, AddFinds, AddNoMem
  <2> QED BY <1>2, <2>1, FindNextInv, HitInv, MissAddInv, AddFillInv, AddLinkedInv,
             AddPublishedInv, AddReturnsInv, Zenon DEF Step
<1>3. ASSUME NEW t \in Threads, NEW p \in Pcs, Lookup(t, p) PROVE CacheInv'
  BY <1>3, LookupInv, Zenon
<1>4. CASE ClearStart \/ Clear \/ \E n \in Entries : RcuFree(n)
  BY <1>4, ClearEntryInv, ClearOtherInv, Zenon DEF Clear
<1> QED BY <1>1, <1>2, <1>3, <1>4, Zenon DEF Next

\* The invariant holds in every reachable state of the cache.
THEOREM CacheInvariant == Spec => []CacheInv
BY CacheInit, CacheStep, PTL DEF Spec

\* For any threads, however their additions fill and link entries, the fast path of __unwind_frame applies a complete
\* frame, computed for the pc looked up, from an entry that is not freed.
THEOREM CacheHitIsRight == Spec => []HitIsRight
<1>1. CacheInv => HitIsRight
  <2> SUFFICES ASSUME CacheInv, NEW t \in Threads, st[t] = "apply"
               PROVE  loc[t].cur \in Entries \ freed /\ frame[loc[t].cur] = FrameOf(loc[t].pc)
    BY Zenon DEF HitIsRight
  <2>1. loc[t].cur \in Ptr /\ loc[t].cur # Nil /\ loc[t].cur <= used
        /\ frame[loc[t].cur].pc = loc[t].pc /\ freed = {} /\ used \in 0 .. MaxCached
    BY Zenon DEF CacheInv, TypeOK, LocalsOK, Locals, ReleaseOK, Matches
  <2>2. loc[t].cur \in Entries /\ loc[t].cur \in Filled
    BY <2>1, PtrIsNat, UnwCacheAssumption DEF Ptr, Filled, Nil
  <2>3. PICK p \in Pcs : frame[loc[t].cur] = FrameOf(p)
    BY <2>2, Zenon DEF CacheInv, FramesOK
  <2> QED BY <2>1, <2>2, <2>3 DEF FrameOf
<1> QED BY <1>1, CacheInvariant, PTL

\* unw_cache_clear never stands on a freed entry, never queues an entry twice, and
\* always unlinks through a pointer of the cache, stale as it may be.
THEOREM CacheClearSafe == Spec => []ClearSafe
<1>1. CacheInv => ClearSafe
  <2> SUFFICES ASSUME CacheInv, life \in {"clearing", "advancing"}, ccur # Nil
               PROVE  /\ ccur \in (1 .. used) \ freed
                      /\ life = "clearing" =>
                            /\ ccur \notin queued
                            /\ bucket.pprev[ccur] \in ((1 .. used) \ freed) \cup {HeadPtr}
    BY Zenon DEF ClearSafe
  <2>1. ccur \in Nat /\ ccur <= used /\ freed = {} /\ used \in Nat
    BY PtrIsNat, UnwCacheAssumption DEF CacheInv, TypeOK, ReleaseOK
  <2>2. ccur \in 1 .. used
    BY <2>1 DEF Nil
  <2>3. life = "clearing" => ccur \notin queued
    BY <2>1 DEF CacheInv, ReleaseOK
  <2>4. /\ bucket.pprev[ccur] \in {Nil, HeadPtr} \cup ((ccur + 1) .. used)
        /\ bucket.pprev[ccur] = Nil => ccur \in queued
    BY <2>2, Zenon DEF CacheInv, LinksDescend
  <2> QED BY <2>1, <2>2, <2>3, <2>4
<1> QED BY <1>1, CacheInvariant, PTL

\* Lost additions and stale pprevs never make a traversal of the cache endless:
\* every next leads to an older entry.
THEOREM CacheLinksDescend == Spec => []LinksDescend
<1>1. CacheInv => LinksDescend
  BY Zenon DEF CacheInv
<1> QED BY <1>1, CacheInvariant, PTL

-----------------------------------------------------------------------------
(* The cache with one thread at a time *)

Adding == {"add_publish", "add_back"}

Searching == {"find", "add_find"} \cup Private

\* The pprevs of entries 1 to k lead back through them, in the order of their numbers.
Backwards(k) == \A n \in 1 .. k : bucket.pprev[n] = IF n = k THEN HeadPtr ELSE n + 1

\* A search has left no entry for its pc behind; an addition is that of the last entry.
AloneOp(t) ==
    /\ st[t] \in Searching =>
        \A n \in Filled : frame[n].pc = loc[t].pc => n <= loc[t].cur
    /\ st[t] = "add_publish" => bucket.first = used - 1
    /\ st[t] = "add_back" => bucket.first = used
    /\ st[t] \in Adding =>
        /\ used # 0 /\ loc[t].new = used /\ loc[t].first = used - 1
        /\ bucket.pprev[used] = HeadPtr /\ Backwards(used - 1)

\* The bucket holds the entries from the last to the first, and the release has passed
\* on those above the one it stands on.
Exact ==
    /\ \A t, u \in Threads : st[t] # "idle" /\ st[u] # "idle" => t = u
    /\ \A t \in Threads : AloneOp(t)
    /\ \A m, n \in Filled : frame[m].pc = frame[n].pc => m = n
    /\ \A n \in Filled : bucket.next[n] = n - 1
    /\ life = "open" /\ (\A t \in Threads : st[t] \notin Adding) =>
        bucket.first = used /\ Backwards(used)
    /\ life = "clearing" =>
        bucket.first = ccur /\ Backwards(ccur) /\ queued = (ccur + 1) .. used
    /\ life = "advancing" =>
        bucket.first = ccur - 1 /\ Backwards(ccur - 1) /\ queued = ccur .. used
    /\ life = "freed" => queued = 1 .. used

\* There is no entry below the first.
LEMMA NoneBelow == \A n : n \notin 1 .. 0
BY SMT

\* Numbers, and entries that exist.
LEMMA CacheNumbers ==
    ASSUME CacheInv
    PROVE  /\ used \in Nat /\ used <= MaxCached /\ MaxCached \in Nat /\ ccur \in Nat
           /\ \A n \in Filled : n \in Entries /\ n \in Nat /\ n # 0
BY UnwCacheAssumption, PtrIsNat DEF CacheInv, TypeOK, Filled

\* A step of a thread that leaves the bucket and the entries alone.
LEMMA ExactLocal ==
    ASSUME CacheInv, Exact, UNCHANGED <<bucket, frame, used, ReleaseState>>,
           NEW t \in Threads, NEW label, label \notin Adding, st[t] \notin Adding,
           st' = [st EXCEPT ![t] = label], \A u \in Threads \ {t} : loc'[u] = loc[u],
           label # "idle" => \A u \in Threads \ {t} : st[u] = "idle",
           label \in Searching =>
                \A n \in Filled : frame[n].pc = loc'[t].pc => n <= loc'[t].cur
    PROVE  Exact'
<1>1. /\ bucket' = bucket /\ frame' = frame /\ used' = used /\ life' = life /\ ccur' = ccur
      /\ queued' = queued /\ Filled' = Filled
  BY Zenon DEF ReleaseState, Filled
<1>2. st'[t] = label /\ \A u \in Threads \ {t} : st'[u] = st[u]
  BY Zenon DEF CacheInv, TypeOK
<1>3. \A k : Backwards(k)' <=> Backwards(k)
  BY <1>1, Zenon DEF Backwards
<1>4. \A u, v \in Threads : st'[u] # "idle" /\ st'[v] # "idle" => u = v
  <2> SUFFICES ASSUME NEW u \in Threads, NEW v \in Threads, st'[u] # "idle", st'[v] # "idle"
               PROVE  u = v
    BY Zenon
  <2>1. CASE u = t \/ v = t
    BY <1>2, <2>1, Zenon
  <2>2. CASE u # t /\ v # t
    BY <1>2, <2>2, Zenon DEF Exact
  <2> QED
    BY <2>1, <2>2, Zenon
<1>5. \A u \in Threads : AloneOp(u)'
  <2> TAKE u \in Threads
  <2>1. CASE u = t
    <3>1. label # "add_publish" /\ label # "add_back"
      BY Zenon DEF Adding
    <3> QED
      BY <1>1, <1>2, <2>1, <3>1, Zenon DEF AloneOp, Adding
  <2>2. CASE u # t
    <3>1. AloneOp(u) /\ st'[u] = st[u] /\ loc'[u] = loc[u]
      BY <1>2, <2>2, Zenon DEF Exact
    <3> QED
      BY <1>1, <1>3, <3>1, Zenon DEF AloneOp
  <2> QED
    BY <2>1, <2>2, Zenon
<1>6. (\A u \in Threads : st'[u] \notin Adding) => (\A u \in Threads : st[u] \notin Adding)
  BY <1>2, Zenon
<1>7. /\ \A m, n \in Filled' : frame'[m].pc = frame'[n].pc => m = n
      /\ \A n \in Filled' : bucket'.next[n] = n - 1
  <2>1. /\ \A m, n \in Filled : frame[m].pc = frame[n].pc => m = n
        /\ \A n \in Filled : bucket.next[n] = n - 1
    BY Zenon DEF Exact
  <2>2. bucket' = bucket /\ frame' = frame /\ Filled' = Filled
    BY <1>1, Zenon
  <2>3. \A m, n \in Filled : frame'[m].pc = frame'[n].pc => m = n
    BY <2>1, <2>2, Zenon
  <2>4. \A n \in Filled : bucket'.next[n] = n - 1
    BY <2>1, <2>2, Zenon
  <2> QED
    BY <2>2, <2>3, <2>4, Zenon
<1>8. /\ life' = "open" /\ (\A u \in Threads : st'[u] \notin Adding) =>
            bucket'.first = used' /\ Backwards(used)'
      /\ life' = "clearing" =>
            bucket'.first = ccur' /\ Backwards(ccur)' /\ queued' = (ccur' + 1) .. used'
  BY <1>1, <1>3, <1>6, Zenon DEF Exact
<1>9. /\ life' = "advancing" =>
            /\ bucket'.first = ccur' - 1 /\ Backwards(ccur - 1)'
            /\ queued' = ccur' .. used'
      /\ life' = "freed" => queued' = 1 .. used'
  BY <1>1, <1>3, Zenon DEF Exact
<1> QED
  BY <1>4, <1>5, <1>7, <1>8, <1>9, Zenon DEF Exact

\* The steps of a thread that leave them alone.
LEMMA ExactSearch ==
    ASSUME CacheInv, Exact, NEW t \in Threads,
           \/ FindNext(t) \/ Hit(t) \/ Applied(t) \/ MissNotCached(t) \/ MissAdd(t)
           \/ AddFinds(t) \/ AddNoMem(t) \/ AddAlloc(t) \/ AddCopyPc(t) \/ AddCopyRules(t)
    PROVE  Exact'
<1>1. /\ st[t] \in {"apply"} \cup Searching /\ st[t] \notin Adding
      /\ UNCHANGED <<bucket, frame, used, ReleaseState>>
      /\ \A u \in Threads \ {t} : loc'[u] = loc[u]
  BY Zenon DEF FindNext, Hit, Applied, MissNotCached, MissAdd, AddFinds, AddNoMem, Done, Adding,
         AddAlloc, AddCopyPc, AddCopyRules, Searching, Private, CacheInv, TypeOK
<1>2. /\ st[t] # "idle" /\ (\A u \in Threads \ {t} : st[u] = "idle") /\ st \in [Threads -> Labels]
      /\ loc[t] \in Locals
      /\ loc \in [Threads -> Locals]
      /\ life = "open"
  BY <1>1, Zenon DEF Exact, CacheInv, TypeOK, LocalsOK, Searching, Private
<1>3. CASE FindNext(t)
  <2>1. /\ st' = [st EXCEPT ![t] = st[t]] /\ st[t] \in {"find", "add_find"}
        /\ loc'[t].pc = loc[t].pc /\ loc'[t].cur = bucket.next[loc[t].cur]
        /\ loc[t].cur # Nil /\ frame[loc[t].cur].pc # loc[t].pc
    BY <1>2, <1>3, Zenon DEF FindNext, Matches, Locals
  <2>2. loc[t].cur \in Filled /\ loc[t].cur \in Nat
    <3>1. loc[t].cur \in Ptr /\ loc[t].cur <= used /\ used \in Nat /\ MaxCached \in Nat
      BY <1>2, CacheNumbers, Zenon DEF CacheInv, LocalsOK, Locals
    <3>2. loc[t].cur \in Nat /\ loc[t].cur # 0
      BY <2>1, <3>1, PtrIsNat DEF Nil
    <3> QED
      BY <3>1, <3>2 DEF Filled
  <2>3. loc'[t].cur = loc[t].cur - 1
    BY <2>1, <2>2, Zenon DEF Exact
  <2>4. ASSUME NEW n \in Filled, frame[n].pc = loc'[t].pc PROVE n <= loc'[t].cur
    <3>1. n <= loc[t].cur /\ n # loc[t].cur
      BY <2>1, <2>4, Zenon DEF Exact, AloneOp, Searching
    <3> QED
      BY <2>2, <2>3, <3>1, CacheNumbers
  <2> QED
    BY <1>1, <1>2, <2>1, <2>4, ExactLocal, Zenon
<1>4. CASE MissAdd(t)
  <2>1. st' = [st EXCEPT ![t] = "add_find"] /\ loc'[t].cur = bucket.first
    BY <1>2, <1>4, Zenon DEF MissAdd, Goto, Locals
  <2>2. \A u \in Threads : st[u] \notin Adding
    BY <1>1, <1>2, Zenon DEF Adding
  <2>3. bucket.first = used
    BY <1>2, <2>2, Zenon DEF Exact
  <2>4. ASSUME NEW n \in Filled PROVE n <= loc'[t].cur
    BY <2>1, <2>3, CacheNumbers DEF Filled
  <2> QED
    BY <1>1, <1>2, <2>1, <2>4, ExactLocal, Zenon DEF Adding
<1>5. CASE Hit(t)
  <2>1. st' = [st EXCEPT ![t] = "apply"]
    BY <1>5, Zenon DEF Hit, Goto
  <2> QED
    BY <1>1, <1>2, <2>1, ExactLocal, Zenon DEF Adding, Searching, Private
<1>6. CASE Applied(t) \/ MissNotCached(t) \/ AddFinds(t) \/ AddNoMem(t)
  <2>1. st' = [st EXCEPT ![t] = "idle"]
    BY <1>6, Zenon DEF Applied, MissNotCached, AddFinds, AddNoMem, Done, Goto
  <2> QED
    BY <1>1, <1>2, <2>1, ExactLocal, Zenon DEF Adding, Searching, Private
<1>7. CASE AddAlloc(t) \/ AddCopyPc(t) \/ AddCopyRules(t)
  <2>1. /\ st[t] \in Searching /\ loc'[t].pc = loc[t].pc /\ loc'[t].cur = loc[t].cur
        /\ \E label \in Private : st' = [st EXCEPT ![t] = label]
    <3>1. st[t] \in Searching
      BY <1>7, Zenon DEF AddAlloc, AddCopyPc, AddCopyRules, Searching, Private
    <3>2. \E label \in Private : st' = [st EXCEPT ![t] = label]
      BY <1>7, Zenon DEF AddAlloc, AddCopyPc, AddCopyRules, Goto, Private
    <3>3. \E o : loc' = [loc EXCEPT ![t].own = o]
      BY <1>7, Zenon DEF AddAlloc, AddCopyPc, AddCopyRules
    <3>4. PICK o : loc' = [loc EXCEPT ![t].own = o]
      BY <3>3, Zenon
    <3>5. loc'[t] = [loc[t] EXCEPT !.own = o]
      BY <1>2, <3>4, Zenon
    <3>6. loc'[t].pc = loc[t].pc /\ loc'[t].cur = loc[t].cur
      BY <1>2, <3>5, Zenon DEF Locals
    <3> QED BY <3>1, <3>2, <3>6, Zenon
  <2>2. PICK label \in Private : st' = [st EXCEPT ![t] = label]
    BY <2>1, Zenon
  <2>3. label \notin Adding
    BY Zenon DEF Adding, Private
  <2>4. \A n \in Filled : frame[n].pc = loc'[t].pc => n <= loc'[t].cur
    BY <2>1, Zenon DEF Exact, AloneOp
  <2> QED
    BY <1>1, <1>2, <2>2, <2>3, <2>4, ExactLocal, Zenon
<1> QED
  BY <1>3, <1>4, <1>5, <1>6, <1>7, Zenon

\* A lookup begins when no thread is at work, with the last entry.
LEMMA ExactLookup ==
    ASSUME CacheInv, Exact, NEW t \in Threads, NEW p \in Pcs, Lookup(t, p),
           \A u \in Threads : st[u] = "idle"
    PROVE  Exact'
<1>1. /\ st[t] = "idle" /\ st' = [st EXCEPT ![t] = "find"] /\ life = "open"
      /\ loc' = [loc EXCEPT ![t] = [pc |-> p, cur |-> bucket.first, first |-> Nil, new |-> Nil,
                                    own |-> ZeroFrame]]
      /\ UNCHANGED <<bucket, frame, used, ReleaseState>>
  BY Zenon DEF Lookup, Goto
<1>2. loc'[t].cur = bucket.first /\ \A u \in Threads \ {t} : loc'[u] = loc[u]
  BY <1>1, Zenon DEF CacheInv, TypeOK
<1>3. bucket.first = used
  BY <1>1, Zenon DEF Exact, Adding
<1>4. \A n \in Filled : n <= loc'[t].cur
  BY <1>2, <1>3, CacheNumbers DEF Filled
<1> QED
  BY <1>1, <1>2, <1>4, ExactLocal, Zenon DEF Adding

\* A step of a thread that adds: no other is at work, and the cache is open.
LEMMA ExactWrite ==
    ASSUME CacheInv, CacheInv', Exact, NEW t \in Threads, st[t] # "idle", NEW label,
           st' = [st EXCEPT ![t] = label], life' = life, AloneOp(t)',
           (\A m, n \in Filled : frame[m].pc = frame[n].pc => m = n)',
           (\A n \in Filled : bucket.next[n] = n - 1)',
           label \notin Adding => (bucket.first = used /\ Backwards(used))'
    PROVE  Exact'
<1>1. life = "open" /\ \A u \in Threads \ {t} : st[u] = "idle"
  BY Zenon DEF Exact, CacheInv, LocalsOK
<1>2. st'[t] = label /\ \A u \in Threads \ {t} : st'[u] = "idle"
  BY <1>1, Zenon DEF CacheInv, TypeOK
<1>3. \A u \in Threads : AloneOp(u)'
  BY <1>2 DEF AloneOp, Adding, Searching, Private
<1> QED
  BY <1>1, <1>2, <1>3, ZenonT(60) DEF Exact

\* The first stores of hash_add_rcu.
LEMMA ExactLinked ==
    ASSUME CacheInv, CacheInv', Exact, NEW t \in Threads, AddLinked(t)
    PROVE  Exact'
<1>1. /\ st[t] = "add_link" /\ loc[t].cur = Nil /\ used < MaxCached /\ used' = used + 1
      /\ frame' = [frame EXCEPT ![used + 1] = FrameOf(loc[t].pc)]
      /\ bucket' = AddLink(bucket, used + 1)
      /\ st' = [st EXCEPT ![t] = "add_publish"] /\ life' = life
      /\ loc' = [loc EXCEPT ![t] = [pc |-> loc[t].pc, cur |-> Nil,
                                    first |-> bucket.first, new |-> used + 1,
                                    own |-> ZeroFrame]]
  BY Zenon DEF AddLinked, Goto, ReleaseState, CacheInv, LocalsOK, OwnOK, Private
<1>2. /\ used \in Nat /\ MaxCached \in Nat /\ used + 1 \in Entries
      /\ \A n \in Filled : n \in Entries /\ n \in Nat /\ n # 0
  BY <1>1, CacheNumbers DEF Entries
<1>3. /\ frame \in [Entries -> Frames]
      /\ bucket.next \in [Entries -> Ptr] /\ bucket.pprev \in [Entries -> Ptr \cup {HeadPtr}]
      /\ bucket \in [first : Ptr, next : [Entries -> Ptr], pprev : [Entries -> Ptr \cup {HeadPtr}]]
      /\ st \in [Threads -> Labels] /\ life = "open"
      /\ loc \in [Threads -> Locals]
  BY <1>1, Zenon DEF CacheInv, TypeOK, LocalsOK
<1>4. /\ bucket'.first = bucket.first
      /\ bucket'.next = [bucket.next EXCEPT ![used + 1] = bucket.first]
      /\ bucket'.pprev = [bucket.pprev EXCEPT ![used + 1] = HeadPtr]
  BY <1>1, <1>3, Zenon DEF AddLink
<1>5. \A u \in Threads : st[u] \notin Adding
  BY <1>1, Zenon DEF Exact, Adding
<1>6. bucket.first = used /\ Backwards(used)
  BY <1>3, <1>5, Zenon DEF Exact
<1>7. \A n \in Filled' : n \in Filled \/ n = used + 1
  BY <1>1, <1>2 DEF Filled
<1>8. used + 1 \notin Filled
  BY <1>2 DEF Filled
<1>9. /\ frame'[used + 1].pc = loc[t].pc
      /\ \A n \in Filled : frame'[n] = frame[n] /\ frame[n].pc # loc[t].pc
  <2>1. frame'[used + 1].pc = loc[t].pc /\ \A n \in Filled : frame'[n] = frame[n]
    BY <1>1, <1>2, <1>3, <1>8, Zenon DEF FrameOf
  <2>2. ASSUME NEW n \in Filled, frame[n].pc = loc[t].pc PROVE FALSE
    <3>1. n <= Nil
      BY <1>1, <2>2, Zenon DEF Exact, AloneOp, Searching, Private
    <3> QED
      BY <1>2, <3>1 DEF Nil
  <2> QED
    BY <2>1, <2>2, Zenon
<1>10. (\A m, n \in Filled : frame[m].pc = frame[n].pc => m = n)'
  <2> SUFFICES ASSUME NEW m \in Filled', NEW n \in Filled', frame'[m].pc = frame'[n].pc
               PROVE  m = n
    BY Zenon
  <2>1. CASE m \in Filled /\ n \in Filled
    BY <1>9, <2>1, ZenonT(60) DEF Exact
  <2>2. CASE m = used + 1 \/ n = used + 1
    BY <1>7, <1>9, <2>2, Zenon
  <2> QED
    BY <1>7, <2>1, <2>2, Zenon
<1>11. (\A n \in Filled : bucket.next[n] = n - 1)'
  <2> SUFFICES ASSUME NEW n \in Filled' PROVE bucket'.next[n] = n - 1
    BY Zenon
  <2>1. CASE n = used + 1
    BY <1>2, <1>3, <1>4, <1>6, <2>1
  <2>2. CASE n \in Filled
    BY <1>2, <1>3, <1>4, <1>8, <2>2, Zenon DEF Exact
  <2> QED
    BY <1>7, <2>1, <2>2, Zenon
<1>12. bucket'.pprev[used + 1] = HeadPtr /\ \A n \in Filled : bucket'.pprev[n] = bucket.pprev[n]
  BY <1>2, <1>3, <1>4, <1>8, Zenon
<1>13. used' - 1 = used /\ used' # 0
  BY <1>1, <1>2
<1>14. (Backwards(used - 1))'
  BY <1>6, <1>12, <1>13, Zenon DEF Backwards, Filled
<1>15. AloneOp(t)'
  <2>1. st'[t] = "add_publish" /\ loc'[t].new = used' /\ loc'[t].first = used
    BY <1>1, <1>3, <1>6, Zenon
  <2> QED
    BY <1>1, <1>4, <1>6, <1>12, <1>13, <1>14, <2>1, Zenon DEF AloneOp, Searching, Private
<1> QED
  BY <1>1, <1>10, <1>11, <1>15, ExactWrite, Zenon DEF Adding

\* Its publication in the head, and the last store.
LEMMA ExactPublished ==
    ASSUME CacheInv, CacheInv', Exact, NEW t \in Threads, AddPublished(t)
    PROVE  Exact'
<1>1. /\ st[t] = "add_publish" /\ bucket' = AddPublish(bucket, loc[t].new)
      /\ st' = [st EXCEPT ![t] = "add_back"] /\ frame' = frame /\ used' = used /\ loc' = loc
      /\ life' = life /\ Filled' = Filled
  BY Zenon DEF AddPublished, Goto, ReleaseState, Filled
<1>2. /\ used # 0 /\ loc[t].new = used /\ loc[t].first = used - 1
      /\ bucket.pprev[used] = HeadPtr /\ Backwards(used - 1)
  BY <1>1, Zenon DEF Exact, AloneOp, Adding
<1>3. bucket'.first = used /\ bucket'.next = bucket.next /\ bucket'.pprev = bucket.pprev
  BY <1>1, <1>2, Zenon DEF AddPublish, CacheInv, TypeOK
<1>4. (Backwards(used - 1))'
  BY <1>1, <1>2, <1>3, Zenon DEF Backwards
<1>5. st'[t] = "add_back"
  BY <1>1, Zenon DEF CacheInv, TypeOK
<1>6. AloneOp(t)'
  BY <1>1, <1>2, <1>3, <1>4, <1>5, Zenon DEF AloneOp, Searching, Private
<1>7. /\ (\A m, n \in Filled : frame[m].pc = frame[n].pc => m = n)'
      /\ (\A n \in Filled : bucket.next[n] = n - 1)'
  BY <1>1, <1>3, ZenonT(60) DEF Exact
<1> QED
  BY <1>1, <1>6, <1>7, ExactWrite, Zenon DEF Adding

LEMMA ExactReturns ==
    ASSUME CacheInv, CacheInv', Exact, NEW t \in Threads, AddReturns(t)
    PROVE  Exact'
<1>1. /\ st[t] = "add_back" /\ bucket' = AddBack(bucket, loc[t].new, loc[t].first)
      /\ st' = [st EXCEPT ![t] = "idle"] /\ frame' = frame /\ used' = used
      /\ life' = life /\ Filled' = Filled
  BY Zenon DEF AddReturns, Done, Goto, ReleaseState, Filled
<1>2. /\ used # 0 /\ loc[t].new = used /\ loc[t].first = used - 1 /\ bucket.first = used
      /\ bucket.pprev[used] = HeadPtr /\ Backwards(used - 1)
  BY <1>1, Zenon DEF Exact, AloneOp, Adding
<1>3. /\ bucket'.first = bucket.first /\ bucket'.next = bucket.next
      /\ bucket'.pprev = IF used = 1 THEN bucket.pprev
                         ELSE [bucket.pprev EXCEPT ![used - 1] = used]
  BY <1>1, <1>2, CacheNumbers DEF AddBack, CacheInv, TypeOK, Nil
<1>4. used \in Nat /\ \A n \in 1 .. used : n \in Entries
  BY CacheNumbers, Zenon DEF Filled
<1>5. bucket.pprev \in [Entries -> Ptr \cup {HeadPtr}]
  BY Zenon DEF CacheInv, TypeOK
<1>6. (Backwards(used))'
  <2> SUFFICES ASSUME NEW n \in 1 .. used
               PROVE  bucket'.pprev[n] = IF n = used THEN HeadPtr ELSE n + 1
    BY <1>1, Zenon DEF Backwards
  <2>1. CASE n = used
    BY <1>2, <1>3, <1>4, <1>5, <2>1
  <2>2. CASE n = used - 1
    BY <1>3, <1>4, <1>5, <2>2
  <2>3. CASE n # used /\ n # used - 1
    <3>1. n \in 1 .. used - 1
      BY <1>4, <2>3
    <3>2. bucket.pprev[n] = n + 1
      BY <1>2, <2>3, <3>1, Zenon DEF Backwards
    <3> QED
      BY <1>3, <1>4, <1>5, <2>3, <3>2, Zenon
  <2> QED
    BY <2>1, <2>2, <2>3, Zenon
<1>7. st'[t] = "idle"
  BY <1>1, Zenon DEF CacheInv, TypeOK
<1>8. AloneOp(t)'
  BY <1>7, Zenon DEF AloneOp, Adding, Searching, Private
<1>9. /\ (\A m, n \in Filled : frame[m].pc = frame[n].pc => m = n)'
      /\ (\A n \in Filled : bucket.next[n] = n - 1)'
  BY <1>1, <1>3, Zenon DEF Exact
<1>10. bucket'.first = used'
  BY <1>1, <1>2, <1>3, Zenon
<1> QED
  BY <1>1, <1>6, <1>8, <1>9, <1>10, ExactWrite, Zenon DEF Adding

\* unw_cache_clear begins with the last entry, unlinks it, and goes on to the one before.
LEMMA ExactClear ==
    ASSUME CacheInv, CacheInv', Exact, ClearStart \/ Clear \/ \E n \in Entries : RcuFree(n)
    PROVE  Exact'
<1>0. /\ frame' = frame /\ used' = used /\ st' = st /\ loc' = loc /\ Filled' = Filled
      /\ used \in Nat /\ ccur \in Nat /\ ccur <= used
      /\ \A n \in 1 .. used : n \in Entries
  BY CacheNumbers, Zenon DEF ClearStart, Clear, ClearEntry, ClearNext, ClearEnd, RcuFree, Filled,
                      CacheInv, ReleaseOK
<1>1. ASSUME \A t \in Threads : st[t] = "idle",
             (\A n \in Filled : bucket.next[n] = n - 1)', life' # "open",
             (life = "clearing" =>
                bucket.first = ccur /\ Backwards(ccur) /\ queued = (ccur + 1) .. used)',
             (life = "advancing" =>
                bucket.first = ccur - 1 /\ Backwards(ccur - 1) /\ queued = ccur .. used)',
             (life = "freed" => queued = 1 .. used)'
      PROVE  Exact'
  BY <1>0, <1>1, Zenon DEF Exact, AloneOp, Adding, Searching, Private
<1>2. \A n \in Filled : bucket.next[n] = n - 1
  BY Zenon DEF Exact
<1>3. CASE ClearStart
  <2>1. /\ life = "open" /\ life' = "clearing" /\ ccur' = bucket.first /\ bucket' = bucket
        /\ queued' = queued /\ queued = {} /\ \A t \in Threads : st[t] = "idle"
    BY <1>3, Zenon DEF ClearStart, Unwinding, CacheInv, ReleaseOK
  <2>2. bucket.first = used /\ Backwards(used)
    BY <2>1, Zenon DEF Exact, Adding
  <2>3. queued' = (ccur' + 1) .. used
    BY <1>0, <2>1, <2>2
  <2>4. (Backwards(ccur))'
    BY <2>1, <2>2, Zenon DEF Backwards
  <2> QED
    BY <1>0, <1>1, <1>2, <2>1, <2>2, <2>3, <2>4, Zenon
<1>4. life # "open" => \A t \in Threads : st[t] = "idle"
  BY Zenon DEF CacheInv, LocalsOK
<1>5. CASE ClearEntry
  <2>1. /\ life = "clearing" /\ life' = "advancing" /\ ccur # Nil /\ ccur' = ccur
        /\ bucket' = DelInit(bucket, ccur) /\ queued' = queued \cup {ccur}
    BY <1>5, Zenon DEF ClearEntry
  <2>2. bucket.first = ccur /\ Backwards(ccur) /\ queued = (ccur + 1) .. used
    BY <2>1, Zenon DEF Exact
  <2>3. ccur \in 1 .. used /\ ccur \in 1 .. ccur
    BY <1>0, <2>1 DEF Nil
  <2>4. bucket.pprev[ccur] = HeadPtr /\ bucket.next[ccur] = ccur - 1
    BY <1>2, <2>2, <2>3, Zenon DEF Backwards, Filled
  <2>5. /\ bucket'.first = ccur - 1 /\ bucket'.next = bucket.next
        /\ bucket'.pprev = [(IF ccur = 1 THEN bucket.pprev
                             ELSE [bucket.pprev EXCEPT ![ccur - 1] = HeadPtr])
                                EXCEPT ![ccur] = Nil]
    BY <1>0, <2>1, <2>3, <2>4 DEF DelInit, DelBack, DelUnlink, CacheInv, TypeOK, Nil, HeadPtr
  <2>6. bucket.pprev \in [Entries -> Ptr \cup {HeadPtr}]
    BY Zenon DEF CacheInv, TypeOK
  <2>7. ASSUME NEW n \in 1 .. ccur - 1
        PROVE  bucket'.pprev[n] = IF n = ccur - 1 THEN HeadPtr ELSE n + 1
    <3>1. n \in Entries /\ ccur \in Entries /\ n # ccur /\ n \in 1 .. ccur /\ ccur # 1
      BY <1>0, <2>3
    <3>2. bucket.pprev[n] = n + 1
      BY <2>2, <3>1, Zenon DEF Backwards
    <3> QED
      BY <2>5, <2>6, <3>1, <3>2, Zenon
  <2>8. (Backwards(ccur - 1))'
    BY <2>1, <2>7, Zenon DEF Backwards
  <2>9. queued' = ccur .. used
    BY <1>0, <2>1, <2>2, <2>3
  <2> QED
    BY <1>0, <1>1, <1>2, <1>4, <2>1, <2>5, <2>8, <2>9, Zenon
<1>6. CASE ClearNext
  <2>1. /\ life = "advancing" /\ life' = "clearing" /\ ccur' = bucket.next[ccur]
        /\ bucket' = bucket /\ queued' = queued /\ ccur # 0
    BY <1>6, Zenon DEF ClearNext, CacheInv, ReleaseOK, Nil
  <2>2. bucket.first = ccur - 1 /\ Backwards(ccur - 1) /\ queued = ccur .. used
    BY <2>1, Zenon DEF Exact
  <2>3. ccur' = ccur - 1 /\ ccur' + 1 = ccur
    BY <1>0, <1>2, <2>1 DEF Filled
  <2>4. (Backwards(ccur))'
    BY <2>1, <2>2, <2>3, Zenon DEF Backwards
  <2> QED
    BY <1>0, <1>1, <1>2, <1>4, <2>1, <2>2, <2>3, <2>4, Zenon
<1>7. CASE ClearEnd
  <2>1. life = "clearing" /\ life' = "freed" /\ ccur = 0 /\ bucket' = bucket /\ queued' = queued
    BY <1>7, Zenon DEF ClearEnd, Nil
  <2>2. queued = 1 .. used
    BY <2>1 DEF Exact
  <2> QED
    BY <1>0, <1>1, <1>2, <1>4, <2>1, <2>2, Zenon
<1>8. CASE \E n \in Entries : RcuFree(n)
  <2>1. bucket' = bucket /\ life' = life /\ ccur' = ccur /\ queued' = queued
    BY <1>8, Zenon DEF RcuFree
  <2>2. \A k : Backwards(k)' <=> Backwards(k)
    BY <2>1, Zenon DEF Backwards
  <2> QED
    BY <1>0, <2>1, <2>2, Zenon DEF Exact, AloneOp
<1> QED
  BY <1>3, <1>5, <1>6, <1>7, <1>8, Zenon DEF Clear

\* With one thread at a time, unw_cache_add_entry never allocates a second entry for a pc
\* and unw_cache_clear passes every entry to call_rcu, for any threads, pcs and entries.
THEOREM CacheAloneIsExact == MCSpec => []AloneIsExact
<1>1. MCInit => CacheInv /\ (alone => Exact)
  <2> SUFFICES ASSUME MCInit PROVE CacheInv /\ Exact
    BY Zenon
  <2>1. CacheInv
    BY CacheInit, Zenon DEF MCInit
  <2>2. /\ used = 0 /\ life = "open" /\ bucket.first = 0 /\ Filled = {}
        /\ \A t \in Threads : st[t] = "idle"
    BY DEF MCInit, Init, EmptyBucket, Filled, Nil
  <2>3. Backwards(0)
    BY NoneBelow, Zenon DEF Backwards
  <2> QED
    BY <2>1, <2>2, <2>3, Zenon DEF Exact, AloneOp, Adding, Searching, Private
<1>2. CacheInv /\ [MCNext]_MCVars => CacheInv'
  BY CacheStep, Zenon DEF MCNext, MCVars, vars
<1>3. CacheInv /\ CacheInv' /\ (alone => Exact) /\ [MCNext]_MCVars => (alone => Exact)'
  <2> SUFFICES ASSUME CacheInv, CacheInv', alone => Exact, [MCNext]_MCVars, alone'
               PROVE  Exact'
    BY Zenon
  <2>1. alone /\ Exact
    BY Zenon DEF MCNext, MCVars
  <2>2. CASE UNCHANGED vars
    <3>1. /\ bucket' = bucket /\ frame' = frame /\ used' = used /\ st' = st /\ loc' = loc
          /\ life' = life /\ ccur' = ccur /\ queued' = queued /\ Filled' = Filled
      BY <2>2, Zenon DEF vars, Filled
    <3>2. \A k : Backwards(k)' <=> Backwards(k)
      BY <3>1, Zenon DEF Backwards
    <3> QED
      BY <2>1, <3>1, <3>2, Zenon DEF Exact, AloneOp
  <2>3. ASSUME NEW t \in Threads, Step(t) PROVE Exact'
    BY <2>1, <2>3, ExactSearch, ExactLinked, ExactPublished, ExactReturns, Zenon DEF Step
  <2>4. ASSUME NEW t \in Threads, NEW p \in Pcs, Lookup(t, p), Waits PROVE Exact'
    <3>1. st[t] = "idle" /\ st'[t] # "idle"
      BY <2>4, Zenon DEF Lookup, Goto, CacheInv, TypeOK
    <3>2. \A u \in Threads : st[u] = "idle"
      BY <2>4, <3>1, Zenon DEF Waits
    <3> QED
      BY <2>1, <2>4, <3>2, ExactLookup, Zenon
  <2>5. CASE ClearStart \/ Clear \/ \E n \in Entries : RcuFree(n)
    BY <2>1, <2>5, ExactClear, Zenon
  <2> QED
    BY <2>1, <2>2, <2>3, <2>4, <2>5, Zenon DEF MCNext, MCVars, Next
<1>4. (alone => Exact) => AloneIsExact
  BY Zenon DEF Exact, AloneIsExact, Filled
<1> QED
  BY <1>1, <1>2, <1>3, <1>4, PTL DEF MCSpec

-----------------------------------------------------------------------------
(* Decoded values are words. *)

\* Unsigned arithmetic of the module stays in the address space.
LEMMA WrapType ==
    ASSUME NEW x \in Int PROVE x % WordMod \in Word
  BY WordModAssumption, SMT DEF Word

\* read_ptr_sect returns an unsigned long, whatever the field and encoding.
LEMMA ReadPtrSectType ==
    ASSUME NEW field \in Field, NEW enc \in Encoding,
           NEW at \in Int, NEW text \in Int, NEW data \in Int
    PROVE  ReadPtrSect(field, enc, at, text, data) \in Word
<1> DEFINE base  == [absptr |-> 0, pcrel |-> at, textrel |-> text, datarel |-> data]
           value == (Extend(field.raw, enc) + base[enc.adjust]) % WordMod
<1>1. 0 \in Word
  BY WordModAssumption DEF Word
<1>2. Extend(field.raw, enc) \in Int
  BY FormModAssumption DEF Extend, Field, Encoding, Forms
<1>3. ASSUME enc.adjust # "other" PROVE value \in Word
  <2>1. enc.adjust \in {"absptr", "pcrel", "textrel", "datarel"}
    BY <1>3, Zenon DEF Encoding, Adjusts
  <2>2. base["absptr"] = 0 /\ base["pcrel"] = at /\ base["textrel"] = text /\ base["datarel"] = data
    BY Zenon
  <2>3. 0 \in Int
    BY SMT
  <2>4. base[enc.adjust] \in Int
    BY <2>1, <2>2, <2>3, Zenon
  <2> QED
    BY <1>2, <2>4, WrapType
<1>4. ASSUME value \in DOMAIN UserMem PROVE UserMem[value] \in Word
  BY <1>4, UserMemAssumption, Zenon
<1> QED
  BY <1>1, <1>3, <1>4, Zenon DEF ReadPtrSect

\* adjust_start_loc returns an unsigned long.
LEMMA AdjustStartLocType ==
    ASSUME NEW start \in Word, NEW enc \in Encoding, NEW mod \in Module
    PROVE  AdjustStartLoc(start, enc, mod) \in Word
<1>1. 0 \in Word /\ Word \subseteq Int
  BY WordModAssumption DEF Word
<1>2. start \in Int /\ mod.kbuf \in Int /\ mod.offset \in Int /\ mod.vm_start \in Int
  BY <1>1, Zenon DEF Module
<1> DEFINE rel == IF enc.adjust = "pcrel" THEN start - mod.kbuf + mod.offset ELSE start
           abs == IF mod.dynamic THEN rel + mod.vm_start ELSE rel
<1>3. abs \in Int
  BY <1>2
<1>4. abs % WordMod \in Word
  BY <1>3, WrapType, Zenon
<1> QED
  BY <1>1, <1>4, Zenon DEF AdjustStartLoc

-----------------------------------------------------------------------------
(* The table. *)

\* The kernel addresses of an entry's fields are numbers.
LEMMA CellLocType ==
    ASSUME NEW q \in Inputs, HeaderOK(q), NEW i \in Nat, NEW col \in {0, 1}
    PROVE  CellLoc(q, i, col) \in Int
<1>1. q.hdr.table \in Int
  BY InputsAssumption, WordModAssumption DEF Header, Word
<1>2. 2 \in Int /\ 4 \in Int /\ 8 \in Int
  BY SMT
<1>3. TableSize(q) \in Int
  BY <1>2, Zenon DEF TableSize
<1>4. (2 * (i - 1) + col) \in Int
  OBVIOUS
<1>5. \A a, b, c \in Int : a + b * c \in Int
  OBVIOUS
<1> QED
  BY <1>1, <1>3, <1>4, <1>5, Zenon DEF CellLoc

\* The fields of a table are read in the encoding the header gives: 4-byte data in a
\* 32-bit task too, since the entries are as long.
LEMMA ReadPtrIs ==
    ASSUME NEW q \in Inputs, NEW field, NEW at
    PROVE  ReadPtr(q, field, q.hdr.enc, at)
             = ReadPtrSect(field, q.hdr.enc, at, 0, q.hdr.offset)
<1>1. q.hdr.enc.form = "data4" => TableSize(q) \in {0, 4}
  BY Zenon DEF TableSize
<1>2. ReadAs(q.hdr.enc, q.compat, TableSize(q)) = q.hdr.enc
  BY <1>1, Zenon DEF ReadAs
<1> QED
  BY <1>2, Zenon DEF ReadPtr

\* Every entry of an accepted table has a start and an FDE address.
LEMMA EntryType ==
    ASSUME NEW q \in Inputs, HeaderOK(q), NEW i \in 1 .. Len(q.tab)
    PROVE  Start(q, i) \in Word /\ FdeAddr(q, i) \in Word
<1>1. /\ q.tab \in Seq([start : Field, off : Field])
      /\ q.hdr \in Header
      /\ q.mod \in Module
  BY InputsAssumption, Zenon
<1>2. q.tab[i] \in [start : Field, off : Field]
  <2> DEFINE cells == [start : Field, off : Field]
  <2>1. q.tab \in Seq(cells) /\ i \in 1 .. Len(q.tab)
    BY <1>1, Zenon
  <2> HIDE DEF cells
  <2>2. q.tab[i] \in cells
    BY <2>1
  <2> QED
    BY <2>2, Zenon DEF cells
<1>3. q.tab[i].start \in Field /\ q.tab[i].off \in Field
  BY <1>2, Zenon
<1>4. q.hdr.enc \in Encoding /\ q.hdr.offset \in Int
  BY <1>1, WordModAssumption DEF Header, Word
<1>5. CellLoc(q, i, 0) \in Int /\ CellLoc(q, i, 1) \in Int
  <2>1. i \in Nat
    BY <1>1
  <2> QED
    BY <2>1, CellLocType, Zenon
<1>6. ReadPtrSect(q.tab[i].start, q.hdr.enc, CellLoc(q, i, 0), 0, q.hdr.offset) \in Word
  BY <1>3, <1>4, <1>5, ReadPtrSectType
<1>7. Start(q, i) \in Word
  BY <1>1, <1>4, <1>6, AdjustStartLocType, ReadPtrIs, Zenon DEF Start
<1> DEFINE off == ReadPtrSect(q.tab[i].off, q.hdr.enc, CellLoc(q, i, 1), 0, q.hdr.offset)
<1>8. off \in Word
  BY <1>3, <1>4, <1>5, ReadPtrSectType
<1>9. off - q.mod.offset + q.mod.kbuf \in Int
  <2> HIDE DEF off
  <2> QED
    BY <1>1, <1>8, WordModAssumption DEF Module, Word
<1> QED
  BY <1>7, <1>9, WrapType, ReadPtrIs, Zenon DEF FdeAddr

-----------------------------------------------------------------------------
(* The invariant of the search. *)

SearchInv == SearchTypeOK /\ Window /\ FoundCovers

\* The facts about an input the steps below need.
LEMMA InputFacts ==
    ASSUME NEW q \in Inputs
    PROVE  /\ q.pc \in Nat
           /\ Len(q.tab) \in Nat
           /\ HeaderOK(q) => EntryCount(q) = Len(q.tab) /\ Len(q.tab) >= 1
           /\ 0 \in Word /\ Word \subseteq Nat
<1>1. q.pc \in Word
  BY InputsAssumption, Zenon
<1>2. 0 \in Word /\ Word \subseteq Nat
  BY WordModAssumption DEF Word
<1>3. Len(q.tab) \in Nat
  <2>1. q.tab \in Seq([start : Field, off : Field])
    BY InputsAssumption, Zenon
  <2> QED
    BY <2>1
<1>4. HeaderOK(q) => EntryCount(q) = Len(q.tab) /\ Len(q.tab) # 0
  BY Zenon DEF HeaderOK
<1>5. Len(q.tab) # 0 => Len(q.tab) >= 1
  BY <1>3
<1> QED
  BY <1>1, <1>2, <1>3, <1>4, <1>5, Zenon

\* Half of a window lies inside it.
LEMMA HalfType ==
    ASSUME NEW k \in Nat, k >= 1 PROVE k \div 2 \in Nat /\ k \div 2 < k
  OBVIOUS

\* The search starts with nothing found and nothing read.
LEMMA InitInv == SearchInit => SearchInv
<1> SUFFICES ASSUME SearchInit PROVE SearchInv
  BY Zenon
<1>1. in \in Inputs
  BY Zenon DEF SearchInit
<1>2. 0 \in Word
  BY <1>1, InputFacts, Zenon
<1> QED
  BY <1>1, <1>2, Zenon DEF SearchInit, SearchInv, SearchTypeOK, Phases, Window, FoundCovers, NULL

\* The header checks open the window on the whole table.
LEMMA CheckHeaderInv == SearchInv /\ CheckHeader => SearchInv'
<1> SUFFICES ASSUME SearchInv, CheckHeader PROVE SearchInv'
  BY Zenon
<1>1. in \in Inputs /\ ptr = 1 /\ fde = NULL /\ num \in Nat /\ fde \in Word
  BY Zenon DEF SearchInv, SearchTypeOK, Window, CheckHeader
<1>2. in' = in /\ ptr' = 1 /\ fde' = NULL /\ fde' \in Word
  BY <1>1, Zenon DEF CheckHeader
<1>3. CASE HeaderOK(in)
  <2>1. phase' = "loop" /\ num' = Len(in.tab) /\ Len(in.tab) \in Nat /\ Len(in.tab) >= 1
    BY <1>1, <1>3, InputFacts, Zenon DEF CheckHeader
  <2>2. Probe' \in 1 .. Len(in.tab)
    <3>1. Probe' = 1 + num' \div 2
      BY <1>2, Zenon DEF Probe
    <3>2. num' \div 2 \in Nat /\ num' \div 2 < num'
      BY <2>1, HalfType, Zenon
    <3>3. \A d, k \in Nat : d < k => 1 + d \in 1 .. k
      OBVIOUS
    <3> QED
      BY <2>1, <3>1, <3>2, <3>3, Zenon
  <2>3. SearchTypeOK'
    BY <1>1, <1>2, <2>1, <2>2 DEF SearchTypeOK, Phases
  <2>4. Window'
    <3>1. ~(ptr' + num' <= Len(in'.tab))
      BY <1>2, <2>1
    <3>2. num' > 1 \/ num' = 1
      <4>1. \A k \in Nat : k >= 1 => k > 1 \/ k = 1
        OBVIOUS
      <4> QED
        BY <2>1, <4>1, Zenon
    <3>3. HeaderOK(in')
      BY <1>2, <1>3, Zenon
    <3> QED
      BY <1>2, <2>1, <3>1, <3>2, <3>3, Zenon DEF Window
  <2> QED
    BY <1>2, <2>1, <2>3, <2>4, Zenon DEF SearchInv, FoundCovers
<1>4. CASE ~HeaderOK(in)
  BY <1>1, <1>2, <1>4, Zenon DEF CheckHeader, SearchInv, SearchTypeOK, Phases, Window, FoundCovers
<1> QED
  BY <1>3, <1>4, Zenon

\* An iteration keeps pc in the window and makes the window smaller.
LEMMA HalveInv == SearchInv /\ Halve => SearchInv'
<1> SUFFICES ASSUME SearchInv, Halve PROVE SearchInv'
  BY Zenon
<1> DEFINE n == Len(in.tab)
           p == Probe
<1>1. /\ in \in Inputs /\ in' = in /\ fde' = fde /\ fde = NULL /\ fde \in Word
      /\ phase = "loop" /\ HeaderOK(in)
      /\ ptr \in 1 .. n /\ num \in Nat /\ num >= 1 /\ ptr + num <= n + 1
      /\ p \in 1 .. n
  BY DEF SearchInv, SearchTypeOK, Window, Halve
<1>2. n \in Nat /\ in.pc \in Nat /\ Word \subseteq Nat
  BY <1>1, InputFacts, Zenon
<1>3. Start(in, p) \in Nat
  BY <1>1, <1>2, EntryType, Zenon
<1>4. p = ptr + num \div 2 /\ num \div 2 \in Nat /\ num \div 2 < num
  BY <1>1 DEF Probe
<1>5. CASE Start(in, p) = 0
  <2>1. phase' = "done" /\ ptr' = ptr /\ num' = num
    BY <1>5, Zenon DEF Halve
  <2> QED
    BY <1>1, <1>2, <2>1, Zenon DEF SearchInv, SearchTypeOK, Phases, Window, FoundCovers
<1>6. CASE Start(in, p) # 0 /\ in.pc < Start(in, p)
  <2>1. num' = num \div 2 /\ ptr' = ptr /\ phase' = IF num' > 1 THEN "loop" ELSE "last"
    BY <1>6, Zenon DEF Halve, GoLeft, LowerHalf
  <2>2. ptr' + num' = p /\ num' \in Nat
    BY <1>4, <2>1, Zenon
  <2>3. num' > 1 \/ num' = 1 \/ (num' = 0 /\ ptr' = 1)
    BY <1>1, <1>4, <2>1 DEF SearchInv, Window
  <2>4. ptr' = 1 \/ (Start(in, ptr') # 0 /\ Start(in, ptr') <= in.pc)
    BY <1>1, <2>1, Zenon DEF SearchInv, Window
  <2>5. in.pc < Start(in, ptr' + num')
    BY <1>6, <2>2, Zenon
  <2>6. phase' = "loop" => Probe' \in 1 .. n
    BY <1>1, <1>2, <1>4, <2>1, <2>2 DEF Probe
  <2>7. SearchTypeOK'
    BY <1>1, <1>2, <2>1, <2>2, <2>6 DEF SearchTypeOK, Phases
  <2>8. Window'
    BY <1>1, <2>1, <2>2, <2>3, <2>4, <2>5, Zenon DEF Window
  <2> QED
    BY <1>1, <2>1, <2>7, <2>8, Zenon DEF SearchInv, FoundCovers
<1>7. CASE Start(in, p) # 0 /\ in.pc >= Start(in, p)
  <2>1. num' = (num + 1) \div 2 /\ ptr' = p /\ phase' = IF num' > 1 THEN "loop" ELSE "last"
    BY <1>2, <1>3, <1>7 DEF Halve, GoLeft, UpperHalf
  <2>2. ptr' + num' = ptr + num /\ num' \in Nat /\ num' >= 1
    BY <1>1, <1>4, <2>1
  <2>3. ptr' + num' <= n => in.pc < Start(in, ptr' + num')
    BY <1>1, <2>2, Zenon DEF SearchInv, Window
  <2>4. phase' = "loop" => Probe' \in 1 .. n
    <3>1. num' > 1 => num' \div 2 \in Nat /\ num' \div 2 < num'
      BY <2>2, HalfType, Zenon
    <3> QED
      BY <1>1, <1>2, <2>1, <2>2, <3>1 DEF Probe
  <2>5. SearchTypeOK'
    BY <1>1, <1>2, <2>1, <2>2, <2>4 DEF SearchTypeOK, Phases
  <2>6. Window'
    BY <1>1, <1>2, <1>3, <1>7, <2>1, <2>2, <2>3 DEF Window
  <2> QED
    BY <1>1, <2>1, <2>5, <2>6, Zenon DEF SearchInv, FoundCovers
<1> QED
  BY <1>2, <1>3, <1>5, <1>6, <1>7

\* The entry taken covers pc: it starts at or before pc by the final test, and
\* the window ends behind it.
LEMMA TakeLastInv == SearchInv /\ TakeLast => SearchInv'
<1> SUFFICES ASSUME SearchInv, TakeLast PROVE SearchInv'
  BY Zenon
<1>1. /\ in \in Inputs /\ in' = in /\ ptr' = ptr /\ num' = num
      /\ phase = "last" /\ phase' = "check" /\ HeaderOK(in)
      /\ ptr \in 1 .. Len(in.tab) /\ ptr \in Nat /\ num \in Nat
  BY Zenon DEF SearchInv, SearchTypeOK, Window, TakeLast
<1>2. in.pc \in Nat /\ Len(in.tab) \in Nat /\ 0 \in Word /\ Word \subseteq Nat
  BY <1>1, InputFacts, Zenon
<1>3. Start(in, ptr) \in Nat /\ FdeAddr(in, ptr) \in Word
  BY <1>1, <1>2, EntryType, Zenon
<1>4. fde' \in Word
  BY <1>2, <1>3, Zenon DEF TakeLast, NULL
<1>5. ASSUME LastEntryOK PROVE Covers(in, ptr)
  <2>1. num = 1 /\ Start(in, ptr) # 0 /\ Start(in, ptr) <= in.pc
    BY <1>2, <1>3, <1>5, Zenon DEF LastEntryOK
  <2>2. ptr < Len(in.tab) => in.pc < Start(in, ptr + 1)
    BY <1>1, <1>2, <2>1 DEF SearchInv, Window
  <2> QED
    BY <2>1, <2>2, Zenon DEF Covers
<1>6. FoundCovers'
  BY <1>1, <1>5, Zenon DEF FoundCovers, TakeLast
<1> QED
  BY <1>1, <1>4, <1>6, Zenon DEF SearchInv, SearchTypeOK, Phases, Window

\* check_fde decides whether the FDE is returned and changes nothing else.
LEMMA CheckFdeInv == SearchInv /\ CheckFde => SearchInv'
<1> SUFFICES ASSUME SearchInv, CheckFde PROVE SearchInv'
  BY Zenon
<1>1. 0 \in Word
  BY InputFacts, Zenon DEF SearchInv, SearchTypeOK
<1> QED
  BY <1>1, Zenon DEF CheckFde, SearchInv, SearchTypeOK, Phases, Window, FoundCovers, NULL

\* The invariant of the search is inductive: _stp_search_fde keeps pc in its
\* window, and what it takes from the table covers pc.
THEOREM SearchInvariant == SearchSpec => []SearchInv
<1>1. SearchInv /\ [SearchNext]_searchVars => SearchInv'
  <2> SUFFICES ASSUME SearchInv, [SearchNext]_searchVars PROVE SearchInv'
    BY Zenon
  <2>1. CASE UNCHANGED searchVars
    BY <2>1, Zenon DEF SearchInv, SearchTypeOK, Probe, Window, FoundCovers, searchVars
  <2> QED
    BY <2>1, CheckHeaderInv, HalveInv, TakeLastInv, CheckFdeInv, Zenon DEF SearchNext
<1> QED
  BY InitInv, <1>1, PTL DEF SearchSpec

\* In a sorted table a covering entry separates the entries that start at or
\* before pc from those that start after it.
LEMMA CoveringEntryOfSorted ==
    ASSUME NEW q \in Inputs, HeaderOK(q), Sorted(q),
           NEW i \in 1 .. Len(q.tab), Covers(q, i),
           NEW j \in 1 .. Len(q.tab)
    PROVE  Start(q, j) <= q.pc <=> j <= i
<1> DEFINE n == Len(q.tab)
           S(k) == Start(q, k)
<1>1. n \in Nat /\ q.pc \in Nat
  BY InputFacts, Zenon
<1>2. \A k \in 1 .. n : S(k) \in Nat
  BY EntryType, InputFacts, Zenon
<1>3. \A k, l \in 1 .. n : k < l => S(k) < S(l)
  BY Zenon DEF Sorted
<1>4. S(i) <= q.pc /\ (i < n => q.pc < S(i + 1))
  BY Zenon DEF Covers
<1> HIDE DEF n, S
<1>5. i \in 1 .. n /\ j \in 1 .. n
  BY Zenon DEF n
<1>6. CASE j <= i
  BY <1>1, <1>2, <1>3, <1>4, <1>5, <1>6 DEF S
<1>7. CASE j > i
  <2>1. i + 1 \in 1 .. n /\ i < n
    BY <1>1, <1>5, <1>7
  <2>2. S(i + 1) <= S(j)
    BY <1>2, <1>3, <1>5, <1>7, <2>1
  <2> QED
    BY <1>1, <1>2, <1>4, <1>5, <1>7, <2>1, <2>2 DEF S
<1> QED
  BY <1>1, <1>5, <1>6, <1>7

\* Whatever the table, the FDE _stp_search_fde takes is that of an entry that
\* covers pc, and the FDE it returns passed check_fde.
THEOREM SearchFoundCovers == SearchSpec => []FoundCovers
<1>1. SearchInv => FoundCovers
  BY Zenon DEF SearchInv
<1> QED
  BY SearchInvariant, <1>1, PTL

\* For every sorted table, the FDE _stp_search_fde returns is real and is the
\* one whose code contains pc.
THEOREM SearchIsRight == SearchSpec => []FoundIsTheRightOne
<1>1. SearchInv => FoundIsTheRightOne
  <2> SUFFICES ASSUME SearchInv, phase = "done", fde # NULL, Sorted(in)
               PROVE  \E i \in 1 .. Len(in.tab) :
                        /\ fde = FdeAddr(in, i)
                        /\ RealFde(in, fde)
                        /\ \A j \in 1 .. Len(in.tab) : Start(in, j) <= in.pc <=> j <= i
    BY Zenon DEF FoundIsTheRightOne
  <2>1. in \in Inputs /\ HeaderOK(in) /\ RealFde(in, fde)
    BY Zenon DEF SearchInv, SearchTypeOK, FoundCovers
  <2>2. PICK i \in 1 .. Len(in.tab) : Covers(in, i) /\ fde = FdeAddr(in, i)
    BY Zenon DEF SearchInv, FoundCovers
  <2>3. \A j \in 1 .. Len(in.tab) : Start(in, j) <= in.pc <=> j <= i
    BY <2>1, <2>2, CoveringEntryOfSorted, Zenon
  <2> QED
    BY <2>1, <2>2, <2>3, Zenon
<1> QED
  BY SearchInvariant, <1>1, PTL

\* _stp_search_fde implements the one-step lookup its caller relies on.
THEOREM SearchImplementsLookup == SearchSpec => ImplementsLookup
<1> DEFINE answer == IF phase = "done" THEN fde ELSE -1
<1>1. SearchInit => Answer!Init
  BY Zenon DEF SearchInit, Answer!Init, Answer!Pending
<1>2. SearchInv /\ SearchInv' /\ [SearchNext]_searchVars => [Answer!Next]_(Answer!vars)
  <2> SUFFICES ASSUME SearchInv, SearchInv', [SearchNext]_searchVars
               PROVE  Answer!Next \/ UNCHANGED Answer!vars
    BY Zenon
  <2>1. CASE CheckHeader /\ ~HeaderOK(in)
    BY <2>1, Zenon DEF CheckHeader, SearchInv, Window, Answer!Next, Answer!AnswerNull,
                Answer!MayAnswerNull, Answer!Pending
  <2>2. CASE CheckHeader /\ HeaderOK(in)
    BY <2>2, Zenon DEF CheckHeader, Answer!vars
  <2>3. CASE Halve /\ Start(in, Probe) = 0
    <3>1. Probe \in 1 .. Len(in.tab) /\ fde = NULL
      BY <2>3, Zenon DEF Halve, SearchInv, SearchTypeOK, Window
    <3>2. phase = "loop" /\ phase' = "done" /\ in' = in /\ fde' = fde
      BY <2>3, Zenon DEF Halve
    <3> QED
      BY <2>3, <3>1, <3>2, Zenon DEF Answer!Next, Answer!AnswerNull, Answer!MayAnswerNull,
                              Answer!Pending
  <2>4. CASE Halve /\ Start(in, Probe) # 0
    <3>1. phase = "loop" /\ phase' # "done" /\ in' = in
      BY <2>4, Zenon DEF Halve
    <3> QED
      BY <3>1, Zenon DEF Answer!vars
  <2>5. CASE TakeLast
    BY <2>5, Zenon DEF TakeLast, Answer!vars
  <2>6. CASE CheckFde
    <3>1. phase = "check" /\ in' = in
      BY <2>6, Zenon DEF CheckFde
    <3>2. CASE fde = NULL
      BY <2>6, <3>1, <3>2, Zenon DEF CheckFde, Answer!vars
    <3>3. CASE fde # NULL
      <4>1. HeaderOK(in)
        BY <3>1, <3>3, Zenon DEF SearchInv, FoundCovers
      <4>2. PICK i \in 1 .. Len(in.tab) : Covers(in, i) /\ fde = FdeAddr(in, i)
        BY <3>1, <3>3, Zenon DEF SearchInv, FoundCovers
      <4>3. phase' = "done" /\ fde' = IF RealFde(in, fde) THEN fde ELSE NULL
        BY <2>6, <3>3, Zenon DEF CheckFde
      <4>4. CASE RealFde(in, fde)
        BY <3>1, <4>1, <4>2, <4>3, <4>4, Zenon DEF Answer!Next, Answer!AnswerFde, Answer!Pending
      <4>5. CASE ~RealFde(in, fde)
        BY <3>1, <4>2, <4>3, <4>5, Zenon DEF Answer!Next, Answer!AnswerNull,
                                      Answer!MayAnswerNull, Answer!Pending
      <4> QED
        BY <4>4, <4>5, Zenon
    <3> QED
      BY <3>2, <3>3, Zenon
  <2>7. CASE UNCHANGED searchVars
    BY <2>7, Zenon DEF searchVars, Answer!vars
  <2> QED
    BY <2>1, <2>2, <2>3, <2>4, <2>5, <2>6, <2>7, Zenon DEF SearchNext
<1> QED
  BY SearchInvariant, <1>1, <1>2, PTL DEF SearchSpec, ImplementsLookup, Answer!Spec

-----------------------------------------------------------------------------
(* Relocation: the kernel reads a table that was written for user addresses. *)

\* Arithmetic on unsigned long leaves alone what is in range already.
LEMMA NoWrap ==
    ASSUME NEW x \in Word PROVE x % WordMod = x
  BY WordModAssumption, SMT DEF Word

\* A distance from the header, added to the header's offset again by read_ptr_sect,
\* is the distance of the target from the start of the vma.
LEMMA FromHeader ==
    ASSUME NEW target \in Word, NEW vm \in Nat, NEW offset \in Nat, vm < target
    PROVE  /\ (target - (vm + offset)) + offset = target - vm
           /\ target - vm \in Word /\ target - vm # 0
           /\ (target - vm) + vm = target
  BY WordModAssumption, SMT DEF Word

\* A distance from a field, added to the field's kernel address, is the target's place
\* in the mapping; the mapping taken out again, it is the target.
LEMMA FromField ==
    ASSUME NEW target \in Nat, NEW vm \in Nat, NEW vmap \in Nat, NEW at \in Int,
           NEW offset \in Nat, vm < target
    PROVE  /\ (target - (vm + (at - vmap))) + at = vmap + target - vm
           /\ vmap + target - vm # 0
           /\ (vmap + target - vm) - (vmap + offset) + offset + vm = target
  BY SMT

\* read_ptr_sect and adjust_start_loc on a complete field that holds the distance of a
\* target from the header, in a dynamic module.
LEMMA DecodeDatarel ==
    ASSUME NEW field, NEW enc, NEW mod, NEW at, NEW data \in Nat, NEW target \in Word,
           field.fits, ~enc.indirect, enc.form \notin {"omit", "bad"},
           mod.dynamic, mod.vm_start \in Nat, mod.vm_start < target,
           enc.adjust = "datarel",
           Extend(field.raw, enc) = target - (mod.vm_start + data)
    PROVE  AdjustStartLoc(ReadPtrSect(field, enc, at, 0, data), enc, mod) = target
<1> DEFINE x == Extend(field.raw, enc)
           r == ReadPtrSect(field, enc, at, 0, data)
           vm == mod.vm_start
<1>1. r = (x + data) % WordMod
  <2>1. [absptr |-> 0, pcrel |-> at, textrel |-> 0, datarel |-> data]["datarel"] = data
    BY Zenon
  <2> QED
    BY <2>1, Zenon DEF ReadPtrSect
<1>2. r # 0 => AdjustStartLoc(r, enc, mod) = (r + vm) % WordMod
  <2> HIDE DEF r
  <2> QED
    BY Zenon DEF AdjustStartLoc
<1>3. x = target - (vm + data) /\ vm \in Nat /\ vm < target
  BY Zenon
<1> HIDE DEF x, r, vm
<1>4. x + data = target - vm /\ target - vm \in Word /\ target - vm # 0 /\ (target - vm) + vm = target
  BY <1>3, FromHeader
<1>5. r = target - vm
  BY <1>1, <1>4, NoWrap, Zenon
<1>6. AdjustStartLoc(r, enc, mod) = target
  BY <1>2, <1>4, <1>5, NoWrap, Zenon
<1> QED
  BY <1>6, Zenon DEF r

\* The same for a field that holds the distance from its own user address, at its kernel
\* address at in a mapping that starts at vmap.
LEMMA DecodePcrel ==
    ASSUME NEW field, NEW enc, NEW mod, NEW at \in Int, NEW data, NEW target \in Word,
           NEW vmap \in Nat,
           field.fits, ~enc.indirect, enc.form \notin {"omit", "bad"},
           mod.dynamic, mod.vm_start \in Nat, mod.offset \in Nat, mod.vm_start < target,
           mod.kbuf = vmap + mod.offset, vmap + target - mod.vm_start \in Word,
           enc.adjust = "pcrel",
           Extend(field.raw, enc) = target - (mod.vm_start + (at - vmap))
    PROVE  AdjustStartLoc(ReadPtrSect(field, enc, at, 0, data), enc, mod) = target
<1> DEFINE x == Extend(field.raw, enc)
           r == ReadPtrSect(field, enc, at, 0, data)
           vm == mod.vm_start
           off == mod.offset
<1>1. r = (x + at) % WordMod
  <2>1. [absptr |-> 0, pcrel |-> at, textrel |-> 0, datarel |-> data]["pcrel"] = at
    BY Zenon
  <2> QED
    BY <2>1, Zenon DEF ReadPtrSect
<1>2. r # 0 => AdjustStartLoc(r, enc, mod) = (r - (vmap + off) + off + vm) % WordMod
  <2> HIDE DEF r
  <2> QED
    BY Zenon DEF AdjustStartLoc
<1>3. /\ x = target - (vm + (at - vmap)) /\ vm \in Nat /\ vm < target /\ off \in Nat
      /\ vmap + target - vm \in Word
  BY Zenon
<1> HIDE DEF x, r, vm, off
<1>4. target \in Nat
  BY WordModAssumption DEF Word
<1>5. /\ x + at = vmap + target - vm /\ vmap + target - vm # 0
      /\ (vmap + target - vm) - (vmap + off) + off + vm = target
  BY <1>3, <1>4, FromField
<1>6. r = vmap + target - vm
  BY <1>1, <1>3, <1>5, NoWrap, Zenon
<1>7. AdjustStartLoc(r, enc, mod) = target
  BY <1>2, <1>5, <1>6, NoWrap, Zenon
<1> QED
  BY <1>7, Zenon DEF r

\* The numbers that the decoding of an entry's start works with.
LEMMA StartNumbers ==
    ASSUME NEW q \in Inputs, HeaderOK(q), NEW i \in 1 .. Len(q.tab)
    PROVE  /\ q.mod.vm_start \in Nat /\ q.mod.offset \in Nat /\ q.hdr.offset \in Nat
           /\ CellLoc(q, i, 0) \in Int
           /\ q.hdr.enc.form \notin {"omit", "bad"}
<1>1. q.mod \in Module /\ q.hdr \in Header /\ Len(q.tab) \in Nat
  BY InputFacts, InputsAssumption, Zenon
<1>2. q.mod.vm_start \in Nat /\ q.mod.offset \in Nat /\ q.hdr.offset \in Nat
  BY <1>1, WordModAssumption DEF Module, Header, Word
<1>3. i \in Nat /\ 0 \in {0, 1}
  BY <1>1
<1>4. CellLoc(q, i, 0) \in Int
  BY <1>3, CellLocType, Zenon
<1>5. q.hdr.enc.form \notin {"omit", "bad"}
  BY Zenon DEF HeaderOK, TableForms
<1> QED
  BY <1>2, <1>4, <1>5, Zenon

\* For a dynamic module mapped by init_kunwind_stp_module at vmap, a field that
\* encodes a user address relative to the header (datarel) or to itself (pcrel)
\* is decoded by read_ptr_sect and adjust_start_loc to that address, provided
\* the mapping does not wrap around the address space.
THEOREM Relocation ==
    ASSUME NEW q \in Inputs, HeaderOK(q), NEW i \in 1 .. Len(q.tab),
           NEW vmap \in Nat, NEW target \in Word,
           q.mod.dynamic, q.mod.kbuf = vmap + q.mod.offset,
           q.mod.vm_start < target, vmap + target - q.mod.vm_start \in Word,
           q.tab[i].start.fits, ~q.hdr.enc.indirect,
           \/ /\ q.hdr.enc.adjust = "datarel"
              /\ Extend(q.tab[i].start.raw, q.hdr.enc)
                    = target - (q.mod.vm_start + q.hdr.offset)
           \/ /\ q.hdr.enc.adjust = "pcrel"
              /\ Extend(q.tab[i].start.raw, q.hdr.enc)
                    = target - (q.mod.vm_start + (CellLoc(q, i, 0) - vmap))
    PROVE  Start(q, i) = target
<1> DEFINE at == CellLoc(q, i, 0)
           enc == q.hdr.enc
           field == q.tab[i].start
           mod == q.mod
<1>1. /\ mod.vm_start \in Nat /\ mod.offset \in Nat /\ q.hdr.offset \in Nat /\ at \in Int
      /\ enc.form \notin {"omit", "bad"}
  BY StartNumbers, Zenon
<1>2. Start(q, i) = AdjustStartLoc(ReadPtrSect(field, enc, at, 0, q.hdr.offset), enc, mod)
  BY ReadPtrIs, Zenon DEF Start
<1>3. /\ field.fits /\ ~enc.indirect /\ mod.dynamic /\ mod.vm_start < target
      /\ mod.kbuf = vmap + mod.offset /\ vmap + target - mod.vm_start \in Word
  BY Zenon
<1>4. CASE enc.adjust = "datarel"
  <2>1. Extend(field.raw, enc) = target - (mod.vm_start + q.hdr.offset)
    BY <1>4, Zenon
  <2> HIDE DEF at, enc, field, mod
  <2> QED
    BY <1>1, <1>2, <1>3, <1>4, <2>1, DecodeDatarel, Zenon
<1>5. CASE enc.adjust = "pcrel"
  <2>1. Extend(field.raw, enc) = target - (mod.vm_start + (at - vmap))
    BY <1>5, Zenon
  <2> HIDE DEF at, enc, field, mod
  <2> QED
    BY <1>1, <1>2, <1>3, <1>5, <2>1, DecodePcrel, Zenon
<1> QED
  BY <1>4, <1>5, Zenon
=============================================================================
