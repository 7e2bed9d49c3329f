---------------------------- MODULE KunwMapProofs ----------------------------
(***************************************************************************)
(* Proofs about KunwMap, third part: the invariant, and the safety         *)
(* properties of the registry that follow from it, for any threads and     *)
(* number of opens.                                                        *)
(***************************************************************************)
EXTENDS KunwMapLists
-----------------------------------------------------------------------------
(* The operations one at a time, continued *)

\* The first store of hash_del_rcu takes the node out.
LEMMA SerialUnlink ==
    ASSUME TypeOK, TypeOK', OpsOK, RankExists, Serial, NEW t \in Threads, OthersKept(t),
           UnregisterUnlinkEffect(t)
    PROVE  Serial' /\ Chain(bucket') = Chain(bucket) \ {loc[t].cur}
<1>1. /\ pc[t] = "unreg_unlink" /\ pc[t] \in Ops /\ pc[t] \notin Behind
      /\ pc'[t] = "unreg_back" /\ pc'[t] \in Behind
      /\ loc'[t].cur = loc[t].cur /\ loc'[t].next = loc[t].next /\ loc'[t].pprev = loc[t].pprev
      /\ bucket' = DelUnlink(bucket, loc[t].cur, loc[t].next, loc[t].pprev)
      /\ UNCHANGED <<mods, tgid>>
  BY Zenon DEF UnregisterUnlinkEffect, Now, Behind, Ops, ReleaseOps
<1>2. /\ \A u \in Threads \ {t} : pc[u] \notin Ops
      /\ SerialOp(t) /\ Registered /\ LinksBack(bucket, Nil)
  BY <1>1, SerialTurn, Zenon
<1>3. /\ bucket \in Buckets /\ bucket' \in Buckets
      /\ loc[t].cur \in Chain(bucket)
      /\ loc[t].next = bucket.next[loc[t].cur] /\ loc[t].pprev = bucket.pprev[loc[t].cur]
  BY <1>1, <1>2, Zenon DEF TypeOK, SerialOp
<1>4. PICK rank \in [Opens -> Nat] : RankedBucket(rank, bucket)
  BY Zenon DEF RankExists, Ranked
<1>5. Removed(bucket, bucket', loc[t].cur, loc[t].next, loc[t].pprev)
  BY <1>1, <1>2, <1>3, <1>4, UnlinkRemoves, Zenon
<1>6. SerialOp(t)'
  BY <1>1, <1>5, Zenon DEF SerialOp, Finding, Removed
<1>7. Registered' /\ LinksBack(bucket', IF pc'[t] \in Behind THEN loc'[t].next ELSE Nil)
  BY <1>1, <1>2, <1>5, Zenon DEF Registered, Removed
<1>8. Chain(bucket') = Chain(bucket) \ {loc[t].cur}
  BY <1>5, Zenon DEF Removed
<1> QED
  BY <1>2, <1>6, <1>7, <1>8, SerialActs, Zenon

\* Its last stores.
LEMMA SerialDelBack ==
    ASSUME TypeOK, TypeOK', OpsOK, RankExists, Serial, NEW t \in Threads, OthersKept(t),
           UnregisterBackEffect(t)
    PROVE  Serial'
<1>1. /\ pc[t] = "unreg_back" /\ pc[t] \in Ops /\ pc[t] \in Behind
      /\ pc'[t] = "unreg_wait" /\ pc'[t] \notin Behind /\ loc'[t].cur = loc[t].cur
      /\ bucket' = DelBack(bucket, loc[t].cur, loc[t].next, loc[t].pprev)
      /\ UNCHANGED <<mods, tgid>>
  BY Zenon DEF UnregisterBackEffect, Now, Behind, Ops, ReleaseOps
<1>2. /\ \A u \in Threads \ {t} : pc[u] \notin Ops
      /\ SerialOp(t) /\ Registered /\ LinksBack(bucket, loc[t].next)
  BY <1>1, SerialTurn, Zenon
<1>3. /\ bucket \in Buckets /\ bucket' \in Buckets /\ loc[t].cur \in Opens
      /\ loc[t].next \in Link /\ loc[t].pprev \in Link \cup {HeadPtr}
  BY <1>1, Zenon DEF TypeOK, OpsOK, OpOK, Locals
<1>4. /\ loc[t].cur \notin Chain(bucket)
      /\ loc[t].next # Nil =>
            /\ bucket.first = loc[t].next => loc[t].pprev = HeadPtr
            /\ \A n \in Chain(bucket) : bucket.next[n] = loc[t].next => loc[t].pprev = n
  BY <1>1, <1>2, Zenon DEF SerialOp
<1>5. loc[t].next # loc[t].cur
  <2>1. PICK rank \in [Opens -> Nat] : Ranked(rank)
    BY Zenon DEF RankExists
  <2>2. Above(rank, loc[t].cur, loc[t].next)
    BY <1>1, <2>1, Zenon DEF Ranked, RankOfOp
  <2> QED BY <1>3, <2>1, <2>2 DEF Above
<1>6. Chain(bucket') = Chain(bucket) /\ LinksBack(bucket', Nil)
  BY <1>1, <1>2, <1>3, <1>4, <1>5, DelBackCompletes
<1>7. SerialOp(t)'
  BY <1>1, <1>4, <1>6, Zenon DEF SerialOp, Finding
<1>8. Registered' /\ LinksBack(bucket', IF pc'[t] \in Behind THEN loc'[t].next ELSE Nil)
  BY <1>1, <1>2, <1>6, Zenon DEF Registered
<1> QED
  BY <1>2, <1>7, <1>8, SerialActs, Zenon

\* What is freed is out of the list.
LEMMA SerialFrees ==
    ASSUME TypeOK, TypeOK', OpsOK, Serial, NEW t \in Threads,
           OthersKept(t), UnregisterFreesEffect(t)
    PROVE  Serial'
<1>1. /\ pc[t] = "unreg_sync" /\ pc[t] \in Ops /\ pc[t] \notin Behind
      /\ pc'[t] = "rel_ret" /\ pc'[t] \notin Behind
      /\ mods' = [mods EXCEPT ![loc[t].cur] = "freed"] /\ UNCHANGED <<bucket, tgid>>
  BY Zenon DEF UnregisterFreesEffect, Now, Behind, Ops, ReleaseOps
<1>2. /\ \A u \in Threads \ {t} : pc[u] \notin Ops
      /\ SerialOp(t) /\ Registered /\ LinksBack(bucket, Nil)
  BY <1>1, SerialTurn, Zenon
<1>3. loc[t].cur \notin Chain(bucket) /\ Chain(bucket) \subseteq Opens
      /\ mods \in [Opens -> {"none", "live", "freed"}]
  BY <1>1, <1>2, ChainIs, Zenon DEF TypeOK, SerialOp
<1>4. SerialOp(t)'
  BY <1>1, Zenon DEF SerialOp, Finding
<1>5. Registered' /\ LinksBack(bucket', IF pc'[t] \in Behind THEN loc'[t].next ELSE Nil)
  BY <1>1, <1>2, <1>3, Zenon DEF Registered
<1> QED
  BY <1>2, <1>4, <1>5, SerialActs, Zenon

\* Every step.
LEMMA SerialStep ==
    ASSUME TypeOK, TypeOK', OpsOK, RankExists, Serial, mode.serialized,
           NEW t \in Threads, OthersKept(t), Effect(t)
    PROVE  Serial'
<1>1. CASE \/ IoctlReturnsEffect(t) \/ TraceStartEffect(t) \/ TraceNextEffect(t)
           \/ TraceMissEffect(t) \/ TraceHitEffect(t) \/ TraceReturnsEffect(t)
           \/ \E k \in Opens : IoctlEffect(t, k)
  <2>1. UNCHANGED <<bucket, mods, tgid>>
    BY <1>1, Zenon DEF IoctlReturnsEffect, TraceStartEffect, TraceNextEffect, TraceMissEffect,
                TraceHitEffect, TraceReturnsEffect, IoctlEffect
  <2>2. \/ pc'[t] = pc[t] /\ SameLocals(loc[t], loc'[t])
        \/ pc[t] \notin Ops /\ pc'[t] \notin Ops
    BY <1>1, Zenon DEF IoctlReturnsEffect, TraceStartEffect, TraceNextEffect, TraceMissEffect,
                TraceHitEffect, TraceReturnsEffect, IoctlEffect, Now, SameLocals,
                Ops, OpenOps, ReleaseOps
  <2>3. \A u \in Threads \ {t} : pc'[u] = pc[u] /\ SameLocals(loc[u], loc'[u])
    BY Zenon DEF OthersKept, Kept, SameLocals
  <2>4. \A u \in Threads : \/ pc'[u] = pc[u] /\ SameLocals(loc[u], loc'[u])
                           \/ pc[u] \notin Ops /\ pc'[u] \notin Ops
    BY <2>2, <2>3, Zenon
  <2> QED BY <2>1, <2>4, SerialQuiet, Zenon
<1>2. CASE \E k \in Opens : OpenEffect(t, k) \/ ReleaseEffect(t, k)
  <2>1. PICK k \in Opens : OpenEffect(t, k) \/ ReleaseEffect(t, k)
    BY <1>2, Zenon
  <2>2. Inside = {}
    BY <2>1, Zenon DEF OpenEffect, ReleaseEffect
  <2> QED BY <2>1, <2>2, SerialBegins, Zenon
<1>3. CASE \/ FindNextEffect(t) \/ OpenFailsEffect(t) \/ OpenReturnsEffect(t)
           \/ UnregisterNothingEffect(t) \/ SynchronizeRcuEffect(t) \/ ReleaseReturnsEffect(t)
  BY <1>3, SerialMoves, Zenon
<1>4. CASE OpenAllocEffect(t)
  BY <1>4, SerialAlloc, Zenon
<1>5. CASE RegisterSkipsEffect(t) \/ RegisterLinkEffect(t)
  BY <1>5, SerialLink, Zenon
<1>6. CASE RegisterPublishEffect(t)
  BY <1>6, SerialPublish, Zenon
<1>7. CASE RegisterBackEffect(t)
  BY <1>7, SerialAddBack, Zenon
<1>8. CASE UnregisterFoundEffect(t)
  BY <1>8, SerialFound, Zenon
<1>9. CASE UnregisterUnlinkEffect(t)
  BY <1>9, SerialUnlink, Zenon
<1>10. CASE UnregisterBackEffect(t)
  BY <1>10, SerialDelBack, Zenon
<1>11. CASE UnregisterFreesEffect(t)
  BY <1>11, SerialFrees, Zenon
<1> QED
  BY <1>1, <1>2, <1>3, <1>4, <1>5, <1>6, <1>7, <1>8, <1>9, <1>10, <1>11, Zenon DEF Effect

-----------------------------------------------------------------------------
(* One thread per file *)

\* No step of another thread hides the registrations of u from a stack trace in u.
LEMMA SeesKept ==
    ASSUME TypeOK, TypeOK', OpsOK, RankExists, Serial, mode.openerCloses,
           NEW t \in Threads, OthersKept(t), OrderlyOp(t), Effect(t),
           NEW u \in Threads \ {t}, trace[u].st = "find", Sees(u, trace[u].cur)
    PROVE  Sees(u, trace[u].cur)'
<1> DEFINE x == trace[u].cur
<1>1. trace'[u] = trace[u] /\ x \in Link /\ bucket \in Buckets /\ bucket' \in Buckets
  BY Zenon DEF OthersKept, Kept, TypeOK
<1>2. SUFFICES \A j \in Opens : tgid'[j] = u => (j \in Reach(bucket', x) <=> j \in Chain(bucket'))
  BY <1>1, Zenon DEF Sees
<1>3. \A j \in Opens :
        tgid'[j] = u => tgid[j] = u /\ (j \in Reach(bucket, x) <=> j \in Chain(bucket))
  <2>1. \A j \in Opens : tgid'[j] = u => tgid[j] = u
    BY Frame DEF OpenEffect, TypeOK
  <2> QED BY <2>1, Zenon DEF Sees
<1>4. PICK rank \in [Opens -> Nat] : Ranked(rank)
  BY Zenon DEF RankExists
<1>5. /\ RankedBucket(rank, bucket) /\ Refers(rank, x)
      /\ Refers(rank, bucket.first) /\ bucket.first \in Link
  BY <1>1, <1>4, Zenon DEF Ranked, RankOfOp, RankedBucket, Buckets
<1>6. CASE RegisterLinkEffect(t)
  <2>1. /\ bucket' = AddLink(bucket, loc[t].f) /\ loc[t].f \in Opens /\ rank[loc[t].f] = 0
    BY <1>4, <1>6, ZenonT(60) DEF RegisterLinkEffect, OpsOK, OpOK, Ranked, RankOfOp
  <2>2. loc[t].f \notin Reach(bucket, x) /\ loc[t].f \notin Reach(bucket, bucket.first)
    BY <1>1, <1>5, <2>1, RankReach
  <2>3. /\ bucket'.next = [bucket.next EXCEPT ![loc[t].f] = bucket.first]
        /\ bucket'.first = bucket.first
    BY <1>1, <2>1, Zenon DEF AddLink, Buckets
  <2>4. Reach(bucket', x) = Reach(bucket, x) /\ Chain(bucket') = Chain(bucket)
    BY <1>1, <1>5, <2>1, <2>2, <2>3, LinkOutside DEF Chain
  <2> QED BY <1>3, <2>4, Zenon
<1>7. CASE RegisterPublishEffect(t)
  <2>1. bucket'.next = bucket.next /\ loc[t].f \in Opens /\ tgid[loc[t].f] = t
    BY <1>1, <1>7, Zenon DEF RegisterPublishEffect, AddPublish, OpsOK, OpOK, OpenOps, Buckets
  <2>2. Chain(bucket') = Chain(bucket) \cup {loc[t].f} /\ Reach(bucket', x) = Reach(bucket, x)
    BY <1>7, <2>1, SerialPublish, ReachByNext
  <2> QED BY <1>3, <2>1, <2>2, Zenon
<1>8. CASE UnregisterUnlinkEffect(t)
  <2>1. /\ pc[t] = "unreg_unlink" /\ pc[t] \in Ops /\ pc[t] \notin Behind
        /\ bucket' = DelUnlink(bucket, loc[t].cur, loc[t].next, loc[t].pprev)
    BY <1>8, Zenon DEF UnregisterUnlinkEffect, Ops, ReleaseOps, Behind
  <2>2. SerialOp(t) /\ LinksBack(bucket, Nil)
    BY <2>1, SerialTurn, Zenon
  <2>3. /\ loc[t].cur \in Chain(bucket)
        /\ loc[t].next = bucket.next[loc[t].cur] /\ loc[t].pprev = bucket.pprev[loc[t].cur]
    BY <2>1, <2>2, ZenonT(60) DEF SerialOp
  <2>4. /\ Reach(bucket', x) \subseteq Reach(bucket, x)
        /\ Reach(bucket, x) \subseteq Reach(bucket', x) \cup {loc[t].cur}
    BY <1>1, <1>5, <2>1, <2>2, <2>3, UnlinkReach
  <2>5. Chain(bucket') = Chain(bucket) \ {loc[t].cur}
    BY <1>8, SerialUnlink, ZenonT(60)
  <2>6. tgid[loc[t].cur] = t
    BY <2>1 DEF OrderlyOp, OpsOK, OpOK, ReleaseOps
  <2> QED BY <1>3, <2>4, <2>5, <2>6, Zenon
<1>9. CASE ~RegisterLinkEffect(t) /\ ~RegisterPublishEffect(t) /\ ~UnregisterUnlinkEffect(t)
  <2>1. bucket'.first = bucket.first /\ bucket'.next = bucket.next
    <3>1. CASE RegisterBackEffect(t)
      BY <1>1, <3>1, Zenon DEF RegisterBackEffect, AddBack, Buckets
    <3>2. CASE UnregisterBackEffect(t)
      <4>1. /\ loc[t].cur \in Opens /\ loc[t].next \in Link /\ loc[t].pprev \in Link \cup {HeadPtr}
            /\ loc[t].next # loc[t].cur
            /\ bucket' = DelBack(bucket, loc[t].cur, loc[t].next, loc[t].pprev)
        BY <1>4, <3>2 DEF UnregisterBackEffect, TypeOK, Locals, OpsOK, OpOK, Ranked, RankOfOp, Above
      <4>2. bucket \in Buckets
        BY <1>1, Zenon
      <4> DEFINE g == DelBack(bucket, loc[t].cur, loc[t].next, loc[t].pprev)
      <4>3. g.first = bucket.first /\ g.next = bucket.next
        BY <4>2, Zenon DEF DelBack, Buckets
      <4>4. bucket' = g
        BY <4>1, Zenon
      <4> HIDE DEF g
      <4> QED BY <4>3, <4>4, ZenonT(60)
    <3>3. CASE ~RegisterBackEffect(t) /\ ~UnregisterBackEffect(t)
      BY <1>9, <3>3, Frame, Zenon
    <3> QED BY <3>1, <3>2, <3>3, Zenon
  <2>2. Reach(bucket', x) = Reach(bucket, x) /\ Chain(bucket') = Chain(bucket)
    BY <2>1, ReachByNext, ZenonT(60) DEF Chain
  <2> QED BY <1>3, <2>2, Zenon
<1> QED
  BY <1>6, <1>7, <1>8, <1>9, Zenon

\* What a step changes, of the mods and of who opened what.
LEMMA ModsStep ==
    ASSUME TypeOK, TypeOK', OpsOK, NEW t \in Threads, OthersKept(t), OrderlyOp(t), Effect(t),
           mode.openerCloses, \A k \in Opens : OrderlyFile(k), NEW n \in Opens
    PROVE  /\ tgid[n] # t /\ mods[n] = "live" => mods'[n] = "live" /\ tgid'[n] = tgid[n]
           /\ mods'[n] # mods[n] => pc[t] \in Ops /\ n = loc[t].f
<1>1. CASE OpenAllocEffect(t)
  <2>1. loc[t].f \in Opens /\ tgid[loc[t].f] = t /\ pc[t] \in Ops
    BY <1>1, Zenon DEF OpenAllocEffect, OpsOK, OpOK, Ops, OpenOps
  <2>2. mods' = [mods EXCEPT ![loc[t].f] = "live"] /\ tgid' = tgid /\ DOMAIN mods = Opens
    BY <1>1, Zenon DEF OpenAllocEffect, TypeOK
  <2> QED BY <2>1, <2>2, Zenon
<1>2. CASE UnregisterFreesEffect(t)
  <2>1. loc[t].f \in Opens /\ tgid[loc[t].f] = t /\ pc[t] \in Ops
    BY <1>2, Zenon DEF UnregisterFreesEffect, OpsOK, OpOK, Ops, ReleaseOps
  <2>2. loc[t].cur = loc[t].f
    BY <1>2 DEF UnregisterFreesEffect, OrderlyOp
  <2>3. mods' = [mods EXCEPT ![loc[t].cur] = "freed"] /\ tgid' = tgid /\ DOMAIN mods = Opens
    BY <1>2, Zenon DEF UnregisterFreesEffect, TypeOK
  <2> QED BY <2>1, <2>2, <2>3, Zenon
<1>3. CASE \E k \in Opens : OpenEffect(t, k)
  BY <1>3 DEF OpenEffect, OrderlyFile, TypeOK
<1>4. CASE ~OpenAllocEffect(t) /\ ~UnregisterFreesEffect(t) /\ ~ \E k \in Opens : OpenEffect(t, k)
  BY <1>4, Frame, Zenon
<1> QED
  BY <1>1, <1>2, <1>3, <1>4, Zenon

\* ... of the list ...
LEMMA ChainStep ==
    ASSUME TypeOK, TypeOK', OpsOK, RankExists, Serial, NEW t \in Threads, OthersKept(t),
           OrderlyOp(t), Effect(t)
    PROVE  /\ pc[t] \notin Ops => Chain(bucket') = Chain(bucket)
           /\ \A n \in Opens \ {loc[t].f} : n \in Chain(bucket') <=> n \in Chain(bucket)
           /\ pc[t] \notin {"reg_publish", "unreg_unlink"} => Chain(bucket') = Chain(bucket)
<1>1. CASE RegisterLinkEffect(t)
  BY <1>1, SerialLink, Zenon
<1>2. CASE RegisterPublishEffect(t)
  BY <1>2, SerialPublish, Zenon DEF RegisterPublishEffect, Ops, OpenOps
<1>3. CASE UnregisterUnlinkEffect(t)
  BY <1>3, SerialUnlink, Zenon DEF UnregisterUnlinkEffect, OrderlyOp, Ops, ReleaseOps
<1>4. CASE RegisterBackEffect(t)
  <2>1. bucket'.first = bucket.first /\ bucket'.next = bucket.next
    BY <1>4, Zenon DEF RegisterBackEffect, AddBack, Buckets, TypeOK
  <2> QED BY <2>1, ReachByNext, ZenonT(60) DEF Chain
<1>5. CASE UnregisterBackEffect(t)
  <2>1. PICK rank \in [Opens -> Nat] : Ranked(rank)
    BY Zenon DEF RankExists
  <2>2. /\ loc[t].cur \in Opens /\ loc[t].next \in Link /\ loc[t].pprev \in Link \cup {HeadPtr}
        /\ loc[t].next # loc[t].cur /\ bucket \in Buckets
        /\ bucket' = DelBack(bucket, loc[t].cur, loc[t].next, loc[t].pprev)
    BY <1>5, <2>1 DEF UnregisterBackEffect, TypeOK, Locals, OpsOK, OpOK, Ranked, RankOfOp, Above
  <2>3. bucket'.first = bucket.first /\ bucket'.next = bucket.next
    <3> DEFINE g == DelBack(bucket, loc[t].cur, loc[t].next, loc[t].pprev)
    <3>1. bucket \in Buckets
      BY <2>2, Zenon
    <3>2. g.first = bucket.first /\ g.next = bucket.next
      BY <3>1, Zenon DEF DelBack, Buckets
    <3>3. bucket' = g
      BY <2>2, Zenon
    <3> HIDE DEF g
    <3> QED BY <3>2, <3>3, Zenon
  <2> QED BY <2>3, ReachByNext, ZenonT(60) DEF Chain
<1>6. CASE /\ ~RegisterLinkEffect(t) /\ ~RegisterPublishEffect(t) /\ ~RegisterBackEffect(t)
           /\ ~UnregisterUnlinkEffect(t) /\ ~UnregisterBackEffect(t)
  BY <1>6, Frame, Zenon
<1> QED
  BY <1>1, <1>2, <1>3, <1>4, <1>5, <1>6, Zenon

\* ... and of what the other threads rely on.
LEMMA OrderlyOthers ==
    ASSUME TypeOK, TypeOK', OpsOK, RankExists, Serial, KeptInOrder, Orderly,
           NEW t \in Threads, OthersKept(t), Effect(t), NEW u \in Threads \ {t}
    PROVE  OrderlyOp(u)'
<1>1. OrderlyOp(t) /\ OrderlyOp(u) /\ Kept(u) /\ mode.openerCloses /\ mode.serialized
      /\ \A k \in Opens : OrderlyFile(k)
  BY Zenon DEF KeptInOrder, OthersKept, Orderly
<1>2. pc[u] \in Ops =>
        /\ pc[t] \notin Ops
        /\ loc[u].f \in Opens /\ mods'[loc[u].f] = mods[loc[u].f] /\ Chain(bucket') = Chain(bucket)
  <2> SUFFICES ASSUME pc[u] \in Ops
               PROVE  /\ pc[t] \notin Ops /\ loc[u].f \in Opens
                      /\ mods'[loc[u].f] = mods[loc[u].f] /\ Chain(bucket') = Chain(bucket)
    BY Zenon
  <2>1. pc[t] \notin Ops
    BY Zenon DEF Serial
  <2>2. loc[u].f \in Opens
    BY Zenon DEF OpsOK, OpOK, Ops, OpenOps, ReleaseOps
  <2> QED BY <1>1, <2>1, <2>2, ModsStep, ChainStep, Zenon
<1>3. trace[u].st = "find" => Sees(u, trace[u].cur)'
  <2>1. trace[u].st = "find" => Sees(u, trace[u].cur)
    BY <1>1, Zenon DEF OrderlyOp
  <2> QED BY <1>1, <2>1, SeesKept, Zenon
<1>4. trace[u].st = "use" =>
        trace[u].cur \in Opens /\ tgid'[trace[u].cur] = u /\ mods'[trace[u].cur] = "live"
  <2>1. trace[u].st = "use" =>
          trace[u].cur \in Opens /\ tgid[trace[u].cur] = u /\ mods[trace[u].cur] = "live"
    BY <1>1, Zenon DEF OrderlyOp
  <2> QED BY <1>1, <2>1, ModsStep, ZenonT(60)
<1> QED
  BY <1>1, <1>2, <1>3, <1>4, ZenonT(60) DEF OrderlyOp, Kept, Ops, OpenOps, ReleaseOps

\* release finds its own registration, and no other.
LEMMA ReleaseFindsOwn ==
    ASSUME TypeOK, TypeOK', OpsOK, Serial, NEW t \in Threads,
           OthersKept(t), OrderlyOp(t), mode.openerCloses
    PROVE  /\ ~UnregisterNothingEffect(t)
           /\ UnregisterFoundEffect(t) => loc[t].cur = loc[t].f /\ pc'[t] = "unreg_unlink"
<1> SUFFICES ASSUME pc[t] = "unreg_find"
             PROVE  /\ ~UnregisterNothingEffect(t)
                    /\ UnregisterFoundEffect(t) => loc[t].cur = loc[t].f /\ pc'[t] = "unreg_unlink"
  BY Zenon DEF UnregisterNothingEffect, UnregisterFoundEffect
<1>1. /\ loc[t].f \in Chain(bucket) /\ tgid[loc[t].f] = t /\ bucket \in Buckets
      /\ pc[t] \in Finding /\ pc[t] \in Ops
  BY Zenon DEF OrderlyOp, OpsOK, OpOK, ReleaseOps, TypeOK, Finding, Ops
<1>2. Sees(t, loc[t].cur) /\ Registered
  BY <1>1, Zenon DEF Serial, SerialOp
<1>3. ~UnregisterNothingEffect(t)
  BY <1>1, <1>2, SeesEnds, Zenon DEF UnregisterNothingEffect
<1>4. ASSUME UnregisterFoundEffect(t) PROVE loc[t].cur = loc[t].f /\ pc'[t] = "unreg_unlink"
  <2>1. loc[t].cur \in Chain(bucket) /\ pc'[t] = "unreg_unlink" /\ tgid[loc[t].cur] = t
    BY <1>4, SerialFound, Zenon DEF UnregisterFoundEffect
  <2> QED BY <1>1, <1>2, <2>1, Zenon DEF Registered
<1> QED
  BY <1>3, <1>4, Zenon

\* What a thread's own step leaves it with.
LEMMA OrderlySelf ==
    ASSUME TypeOK, TypeOK', OpsOK, RankExists, Serial, KeptInOrder, Orderly,
           NEW t \in Threads, OthersKept(t), Effect(t)
    PROVE  OrderlyOp(t)'
<1>1. OrderlyOp(t) /\ mode.openerCloses /\ (\A k \in Opens : OrderlyFile(k)) /\ bucket \in Buckets
      /\ trace[t] \in [st : {"off", "find", "use"}, cur : Link]
  BY Zenon DEF KeptInOrder, Orderly, TypeOK
<1>2. /\ pc[t] # "idle" => loc[t].f \in Opens
      /\ mods \in [Opens -> {"none", "live", "freed"}]
  BY Zenon DEF OpsOK, OpOK, TypeOK
<1>3. CASE FindNextEffect(t)
  BY <1>1, <1>3, Zenon DEF FindNextEffect, Now, OrderlyOp, Finding
<1>4. CASE \/ OpenFailsEffect(t) \/ OpenAllocEffect(t)
           \/ OpenReturnsEffect(t) \/ ReleaseReturnsEffect(t)
           \/ IoctlReturnsEffect(t) \/ RegisterLinkEffect(t)
  BY <1>4, Zenon DEF OpenFailsEffect, OpenAllocEffect, OpenReturnsEffect, ReleaseReturnsEffect,
              IoctlReturnsEffect, RegisterLinkEffect, Now, OrderlyOp
<1>5. CASE RegisterSkipsEffect(t)
  BY <1>5, SerialLink, Zenon
<1>6. CASE RegisterPublishEffect(t)
  BY <1>6, SerialPublish, Zenon DEF RegisterPublishEffect, Now, OrderlyOp
<1>7. CASE RegisterBackEffect(t)
  <2>1. Chain(bucket') = Chain(bucket)
    BY <1>1, <1>7, ChainStep, Zenon DEF RegisterBackEffect
  <2> QED BY <1>1, <1>7, <2>1, Zenon DEF RegisterBackEffect, Now, OrderlyOp
<1>8. CASE UnregisterNothingEffect(t)
  BY <1>1, <1>8, ReleaseFindsOwn, Zenon
<1>9. CASE UnregisterFoundEffect(t)
  <2>1. loc[t].cur = loc[t].f /\ pc'[t] = "unreg_unlink"
    BY <1>1, <1>9, ReleaseFindsOwn, Zenon
  <2> QED BY <1>1, <1>9, <2>1, Zenon DEF UnregisterFoundEffect, Now, OrderlyOp
<1>10. CASE UnregisterUnlinkEffect(t) \/ UnregisterBackEffect(t) \/ SynchronizeRcuEffect(t)
  BY <1>1, <1>10, Zenon
  DEF UnregisterUnlinkEffect, UnregisterBackEffect, SynchronizeRcuEffect, Now, OrderlyOp
<1>11. CASE UnregisterFreesEffect(t)
  <2>1. loc[t].cur \notin Chain(bucket) /\ loc[t].cur = loc[t].f
    BY <1>1, <1>11, ZenonT(60) DEF UnregisterFreesEffect, OrderlyOp, Serial, SerialOp
  <2> QED BY <1>1, <1>2, <1>11, <2>1, Zenon DEF UnregisterFreesEffect, Now, OrderlyOp
<1>12. ASSUME NEW k \in Opens, OpenEffect(t, k) \/ ReleaseEffect(t, k) \/ IoctlEffect(t, k)
       PROVE  OrderlyOp(t)'
  <2>1. OrderlyFile(k)
    BY <1>1, Zenon
  <2> QED BY <1>12, <2>1, Zenon DEF OpenEffect, ReleaseEffect, IoctlEffect, Now, OrderlyOp, OrderlyFile
<1>13. ASSUME \/ TraceStartEffect(t) \/ TraceNextEffect(t) \/ TraceMissEffect(t)
              \/ TraceHitEffect(t) \/ TraceReturnsEffect(t)
       PROVE  OrderlyOp(t)'
  <2>1. /\ pc'[t] = pc[t] /\ loc'[t].f = loc[t].f /\ loc'[t].cur = loc[t].cur
        /\ UNCHANGED <<mods, tgid, bucket>>
    BY <1>13, Zenon DEF TraceStartEffect, TraceNextEffect, TraceMissEffect, TraceHitEffect,
                 TraceReturnsEffect, Now
  <2>2. trace'[t].st = "find" => Sees(t, trace'[t].cur)
    <3>1. CASE TraceStartEffect(t)
      BY <1>1, <3>1, SeesEnds DEF TraceStartEffect
    <3>2. CASE TraceNextEffect(t)
      BY <1>1, <3>2, SeesOn, Zenon DEF TraceNextEffect, OrderlyOp
    <3>3. CASE TraceMissEffect(t) \/ TraceHitEffect(t) \/ TraceReturnsEffect(t)
      BY <1>1, <3>3 DEF TraceMissEffect, TraceHitEffect, TraceReturnsEffect, NoTrace
    <3> QED BY <1>13, <3>1, <3>2, <3>3, ZenonT(60)
  <2>3. trace'[t].st = "use" =>
          trace'[t].cur \in Opens /\ tgid[trace'[t].cur] = t /\ mods[trace'[t].cur] = "live"
    <3>1. CASE TraceHitEffect(t)
      <4>1. /\ trace'[t].cur = trace[t].cur /\ trace[t].cur \in Opens /\ tgid[trace[t].cur] = t
            /\ Sees(t, trace[t].cur)
        BY <1>1, <3>1, Zenon DEF TraceHitEffect, OrderlyOp
      <4>2. trace[t].cur \in Chain(bucket)
        BY <1>1, <4>1, SeesEnds, Zenon
      <4> QED BY <4>1, <4>2, Zenon DEF Serial, Registered
    <3>2. CASE \/ TraceStartEffect(t) \/ TraceNextEffect(t)
               \/ TraceMissEffect(t) \/ TraceReturnsEffect(t)
      BY <1>1, <3>2
      DEF TraceStartEffect, TraceNextEffect, TraceMissEffect, TraceReturnsEffect, NoTrace
    <3> QED BY <1>13, <3>1, <3>2, Zenon
  <2>4. trace'[t].st = "find" => Sees(t, trace[t].cur)'
    BY <2>1, <2>2, Zenon DEF Sees
  <2> QED BY <1>1, <2>1, <2>3, <2>4, Zenon DEF OrderlyOp
<1> QED
  BY <1>3, <1>4, <1>5, <1>6, <1>7, <1>8, <1>9, <1>10, <1>11, <1>12, <1>13, ZenonT(60) DEF Effect

\* A file's registration comes and goes with it.
LEMMA OrderlyFiles ==
    ASSUME TypeOK, TypeOK', OpsOK, RankExists, Serial, KeptInOrder, Orderly,
           NEW t \in Threads, OthersKept(t), Effect(t), NEW k \in Opens
    PROVE  OrderlyFile(k)'
<1>1. OrderlyOp(t) /\ mode.openerCloses /\ OrderlyFile(k) /\ (\A n \in Opens : OrderlyFile(n))
  BY Zenon DEF KeptInOrder, Orderly
<1>2. CASE pc[t] \in Ops /\ loc[t].f = k
  <2>1. file[k] \in {"opening", "closing"} /\ loc[t].f \in Opens
    BY <1>2, Zenon DEF OpsOK, OpOK, Ops
  <2>2. CASE OpenFailsEffect(t)
    <3>1. PICK rank \in [Opens -> Nat] : Ranked(rank)
      BY Zenon DEF RankExists
    <3>2. rank[k] = 0 /\ RankedBucket(rank, bucket)
      BY <1>2, <2>2, <3>1, Zenon DEF Ranked, RankOfOp, OpenFailsEffect
    <3>3. bucket \in Buckets /\ bucket.first \in Link /\ Refers(rank, bucket.first)
      BY <3>2, Zenon DEF TypeOK, Buckets, RankedBucket
    <3>4. k \notin Chain(bucket)
      BY <3>2, <3>3, RankReach DEF Chain
    <3> QED BY <1>1, <1>2, <2>2, <3>4, Zenon DEF OpenFailsEffect, OrderlyFile, OrderlyOp, TypeOK
  <2>3. CASE OpenReturnsEffect(t)
    <3>1. mods[k] = "live"
      BY <1>2, <2>3, ZenonT(60) DEF OpenReturnsEffect, Serial, SerialOp
    <3> QED BY <1>1, <1>2, <2>3, <3>1, Zenon DEF OpenReturnsEffect, OrderlyFile, OrderlyOp, TypeOK
  <2>4. CASE ReleaseReturnsEffect(t)
    BY <1>1, <1>2, <2>4, Zenon DEF ReleaseReturnsEffect, OrderlyFile, OrderlyOp, TypeOK
  <2>5. CASE ~OpenFailsEffect(t) /\ ~OpenReturnsEffect(t) /\ ~ReleaseReturnsEffect(t)
    <3>1. file'[k] = file[k]
      <4>1. file' = file \/ \E n \in Opens : OpenEffect(t, n) \/ ReleaseEffect(t, n)
        BY <2>5, Frame, Zenon
      <4> QED BY <1>2, <4>1, Zenon DEF OpenEffect, ReleaseEffect, Ops, OpenOps, ReleaseOps
    <3> QED BY <2>1, <3>1, Zenon DEF OrderlyFile
  <2> QED BY <2>2, <2>3, <2>4, <2>5, Zenon
<1>3. CASE ~(pc[t] \in Ops /\ loc[t].f = k)
  <2>1. mods'[k] = mods[k] /\ (k \in Chain(bucket') <=> k \in Chain(bucket))
    <3>1. mods'[k] = mods[k]
      BY <1>1, <1>3, ModsStep, Zenon
    <3>2. k \in Chain(bucket') <=> k \in Chain(bucket)
      BY <1>1, <1>3, ChainStep, Zenon
    <3> QED BY <3>1, <3>2, Zenon
  <2>2. \/ file'[k] = file[k] /\ private'[k] = private[k]
        \/ file'[k] \in {"opening", "closing"}
    <3>1. \/ UNCHANGED <<file, private>>
          \/ OpenFailsEffect(t) \/ OpenReturnsEffect(t) \/ ReleaseReturnsEffect(t)
          \/ \E n \in Opens : OpenEffect(t, n) \/ ReleaseEffect(t, n)
      BY Frame, Zenon
    <3>2. CASE OpenFailsEffect(t) \/ OpenReturnsEffect(t) \/ ReleaseReturnsEffect(t)
      BY <1>3, <3>2 DEF OpenFailsEffect, OpenReturnsEffect, ReleaseReturnsEffect, Ops, OpenOps,
                        ReleaseOps, TypeOK
    <3>3. CASE \E n \in Opens : OpenEffect(t, n) \/ ReleaseEffect(t, n)
      BY <3>3 DEF OpenEffect, ReleaseEffect, TypeOK
    <3> QED BY <3>1, <3>2, <3>3, Zenon
  <2> QED BY <1>1, <2>1, <2>2, Zenon DEF OrderlyFile
<1> QED
  BY <1>2, <1>3, Zenon

-----------------------------------------------------------------------------
INSTANCE WellFoundedInduction

\* A set of natural numbers that is not empty has a smallest member.  (It takes the
\* place of induction.)
LEMMA Smallest ==
    ASSUME NEW T, T \subseteq Nat, T # {}
    PROVE  \E x \in T : \A y \in T : x <= y
<1>1. \E x \in T : \A y \in T : ~(<<y, x>> \in OpToRel(<, Nat))
  BY NatLessThanWellFounded, WFMin, Zenon
<1>2. ASSUME NEW x \in T, NEW y \in T, ~(<<y, x>> \in OpToRel(<, Nat)) PROVE x <= y
  BY <1>2 DEF OpToRel
<1> QED
  BY <1>1, <1>2, Zenon

-----------------------------------------------------------------------------
(* The invariant, and what follows from it *)

\* The registry starts empty, with no operation running.
LEMMA InitOK == Init => IInv
<1> SUFFICES ASSUME Init PROVE IInv
  BY Zenon
<1> DEFINE zero == [n \in Opens |-> 0]
<1>1. TypeOK
  BY KunwMapAssumption, NoLocalsType, Zenon
  DEF Init, TypeOK, FileStates, Link, Buckets, EmptyBucket, NoTrace
<1>2. \A t \in Threads : pc[t] = "idle" /\ trace[t].st = "off"
  BY Zenon DEF Init, NoTrace
<1>3. bucket.first = Nil /\ \A n \in Opens : bucket.next[n] = Nil /\ bucket.pprev[n] = Nil
  BY Zenon DEF Init, EmptyBucket
<1>4. Chain(bucket) = {}
  BY <1>1, <1>3, ReachNil, Zenon DEF Chain, TypeOK
<1>5. OpsOK
  BY <1>2, Zenon DEF OpsOK, OpOK, Ops, OpenOps, ReleaseOps
<1>6. RankExists
  <2>1. RankedBucket(zero, bucket)
    BY <1>3, NodeNotNil, Zenon DEF RankedBucket, Refers, Above
  <2>2. \A t \in Threads : RankOfOp(zero, t)
    BY <1>2, Zenon DEF RankOfOp, Finding
  <2>3. zero \in [Opens -> Nat] /\ \A n \in Opens : zero[n] = 0
    BY Zenon
  <2> QED BY <2>1, <2>2, <2>3, Zenon DEF RankExists, Ranked
<1>7. Serial
  <2>1. LinksBack(bucket, Nil)
    BY <1>3, <1>4, NodeNotNil, Zenon DEF LinksBack
  <2> QED
    BY <1>2, <1>4, <2>1, ZenonT(60)
    DEF Serial, SerialOp, Registered, Behind, Finding, Ops, OpenOps, ReleaseOps
<1>8. KeptInOrder
  BY <1>2, <1>4, Zenon DEF Init, KeptInOrder, OrderlyOp, OrderlyFile
<1> QED
  BY <1>1, <1>5, <1>6, <1>7, <1>8, Zenon DEF IInv

\* Every step of a thread, and every step of a stack trace in it, keeps the invariant.
LEMMA StepOK == IInv /\ [Next]_vars => IInv'
<1> SUFFICES ASSUME IInv, [Next]_vars PROVE IInv'
  BY Zenon
<1>1. CASE Next
  <2>1. PICK t \in Threads : Step(t) \/ Call(t)
    BY <1>1, Zenon DEF Next
  <2>2. UNCHANGED mode /\ TypeOK /\ OpsOK /\ RankExists
    BY <1>1, Zenon DEF Next, IInv
  <2>3. TypeOK' /\ OthersKept(t) /\ Effect(t)
    BY <2>1, <2>2, StepDoes, Zenon
  <2>4. OpsOK' /\ RankExists'
    BY <2>2, <2>3, OpsStep, RankStep, Zenon
  <2>5. mode'.serialized => Serial'
    BY <2>2, <2>3, SerialStep, Zenon DEF IInv
  <2>6. Orderly' => KeptInOrder'
    <3> SUFFICES ASSUME Orderly' PROVE KeptInOrder'
      BY Zenon
    <3>1. Orderly /\ Serial /\ KeptInOrder
      BY <2>2, Zenon DEF Orderly, IInv
    <3>2. \A u \in Threads : OrderlyOp(u)'
      BY <2>2, <2>3, <3>1, OrderlyOthers, OrderlySelf, Zenon
    <3>3. \A k \in Opens : OrderlyFile(k)'
      BY <2>2, <2>3, <3>1, OrderlyFiles, Zenon
    <3> QED BY <3>2, <3>3, Zenon DEF KeptInOrder
  <2> QED BY <2>3, <2>4, <2>5, <2>6, Zenon DEF IInv
<1>2. CASE UNCHANGED vars
  <2>0. /\ file' = file /\ private' = private /\ mods' = mods /\ tgid' = tgid
        /\ bucket' = bucket /\ pc' = pc /\ loc' = loc /\ trace' = trace /\ mode' = mode
    BY <1>2, Zenon DEF vars
  <2>1. TypeOK' /\ OpsOK' /\ RankExists'
    <3>1. TypeOK'
      BY <2>0, Zenon DEF IInv, TypeOK
    <3>2. OpsOK'
      BY <2>0, Zenon DEF IInv, OpsOK, OpOK
    <3>3. RankExists'
      BY <2>0 DEF IInv, RankExists, Ranked, RankOfOp
    <3> QED BY <3>1, <3>2, <3>3, Zenon
  <2>2. mode'.serialized => Serial'
    <3>1. ASSUME NEW t \in Threads, SerialOp(t) PROVE SerialOp(t)'
      BY <2>0, <3>1, Zenon DEF SerialOp, Sees
    <3>2. Registered => Registered'
      BY <2>0, Zenon DEF Registered
    <3> QED BY <2>0, <3>1, <3>2, Zenon DEF IInv, Serial
  <2>3. Orderly' => KeptInOrder'
    <3>1. ASSUME NEW t \in Threads, OrderlyOp(t) PROVE OrderlyOp(t)'
      BY <2>0, <3>1, Zenon DEF OrderlyOp, Sees
    <3>2. ASSUME NEW k \in Opens, OrderlyFile(k) PROVE OrderlyFile(k)'
      BY <2>0, <3>2, Zenon DEF OrderlyFile
    <3> QED BY <2>0, <3>1, <3>2, Zenon DEF IInv, Orderly, KeptInOrder
  <2> QED BY <2>1, <2>2, <2>3, Zenon DEF IInv
<1> QED
  BY <1>1, <1>2, Zenon

\* The invariant holds of every behaviour, in every mode of use.
THEOREM Invariance == Spec => []IInv
  BY InitOK, StepOK, PTL DEF Spec

\* A list whose links go down in rank ends.
LEMMA RankedEnds ==
    ASSUME bucket \in Buckets, RankExists
    PROVE  Ends(bucket)
<1> SUFFICES ASSUME bucket.first # Nil PROVE \E n \in Chain(bucket) : bucket.next[n] = Nil
  BY Zenon DEF Ends
<1>1. PICK rank \in [Opens -> Nat] : RankedBucket(rank, bucket)
  BY Zenon DEF RankExists, Ranked
<1> DEFINE T == {rank[n] : n \in Chain(bucket)}
<1>2. T \subseteq Nat /\ T # {}
  BY ChainIs, Zenon
<1>3. PICK x \in T : \A y \in T : x <= y
  BY <1>2, Smallest, Zenon
<1>4. PICK n \in Chain(bucket) : rank[n] = x
  BY Zenon
<1>5. bucket.next[n] \in Chain(bucket) => rank[n] <= rank[bucket.next[n]]
  BY <1>3, <1>4, Zenon
<1>6. Above(rank, n, bucket.next[n]) /\ n \in Opens /\ bucket.next[n] \in Chain(bucket) \cup {Nil}
  BY <1>1, ChainIs, Zenon DEF RankedBucket
<1>7. bucket.next[n] \notin Chain(bucket)
  BY <1>5, <1>6, ChainIs DEF Above
<1> QED
  BY <1>6, <1>7, Zenon

\* Whatever opens and releases race in the bucket of kunw_map, it never becomes a cycle;
\* between serialized ones, by whichever threads, it is a proper list.
THEOREM BucketStaysIntact == Spec => []BucketIntact
<1>1. IInv => BucketIntact
  <2> SUFFICES ASSUME IInv PROVE BucketIntact
    BY Zenon
  <2>1. bucket \in Buckets /\ Ends(bucket)
    BY RankedEnds, Zenon DEF IInv, TypeOK
  <2>2. ASSUME mode.serialized, Inside = {} PROVE WellLinked(bucket)
    <3>1. \A t \in Threads : pc[t] \notin Behind
      BY <2>2, Zenon DEF Inside, Behind
    <3>2. LinksBack(bucket, Nil)
      BY <2>2, <3>1, Zenon DEF IInv, Serial
    <3> QED BY <2>1, <3>2, PprevIs, Zenon DEF WellLinked
  <2> QED BY <2>1, <2>2, Zenon DEF BucketIntact
<1> QED
  BY <1>1, Invariance, PTL

\* With opens and releases serialized, kunwind_process_find never comes to mods that
\* release_unwind_info has freed, whichever thread closes a file.
THEOREM RegistryStaysLive == Spec => []RegistryLive
<1>1. IInv => RegistryLive
  BY Zenon DEF IInv, Serial, Registered, RegistryLive
<1> QED
  BY <1>1, Invariance, PTL

\* In orderly use no ioctl, through file->private_data, and no save_stack_trace_kunwind,
\* through the registry, works on freed mods.
THEOREM NoUseAfterFreeEver == Spec => []NoUseAfterFree
<1>1. IInv => NoUseAfterFree
  <2> SUFFICES ASSUME IInv, Orderly, NEW t \in Threads
               PROVE  /\ pc[t] = "ioctl" => mods[loc[t].cur] = "live"
                      /\ trace[t].st = "use" => mods[trace[t].cur] = "live"
    BY Zenon DEF NoUseAfterFree
  <2>1. OrderlyOp(t) /\ OpOK(t) /\ \A k \in Opens : OrderlyFile(k)
    BY Zenon DEF IInv, KeptInOrder, OpsOK
  <2> QED BY <2>1, Zenon DEF OrderlyOp, OpOK, OrderlyFile
<1> QED
  BY <1>1, Invariance, PTL

\* In orderly use private_data of an open file and kunw_map lead to the same live mods,
\* the only ones registered for that pid.
THEOREM FilesAlwaysAgree == Spec => []FilesAgree
<1>1. IInv => FilesAgree
  BY Zenon DEF IInv, KeptInOrder, OrderlyFile, Orderly, Serial, Registered, FilesAgree, ShortcutAgrees
<1> QED
  BY <1>1, Invariance, PTL

\* What a step does to the vals: the one that links a node has allocated it.
LEMMA ValsChange ==
    ASSUME NEW t \in Threads, Effect(t)
    PROVE  vals' = vals \/ (RegisterLinkEffect(t) /\ vals' = vals \cup {loc[t].f})
  BY Zenon
  DEF Effect, FindNextEffect, OpenFailsEffect, OpenAllocEffect, RegisterSkipsEffect,
      RegisterLinkEffect, RegisterPublishEffect, RegisterBackEffect, OpenReturnsEffect,
      UnregisterNothingEffect, UnregisterFoundEffect, UnregisterUnlinkEffect,
      UnregisterBackEffect, SynchronizeRcuEffect, UnregisterFreesEffect,
      ReleaseReturnsEffect, IoctlReturnsEffect, TraceStartEffect, TraceNextEffect,
      TraceMissEffect, TraceHitEffect, TraceReturnsEffect, OpenEffect, ReleaseEffect,
      IoctlEffect

\* The thread that takes the step; in orderly use register finds nothing and links.
LEMMA ValsSelf ==
    ASSUME IInv, UNCHANGED mode, ValsStay, NEW t \in Threads, TypeOK', OthersKept(t), Effect(t)
    PROVE  ValOp(t)'
<1>1. ValOp(t) /\ OpOK(t) /\ (\A k \in Opens : ValFile(k)) /\ (Orderly' <=> Orderly)
  BY Zenon DEF ValsStay, IInv, OpsOK, Orderly
<1>2. CASE \/ FindNextEffect(t) \/ OpenFailsEffect(t) \/ OpenReturnsEffect(t)
           \/ UnregisterNothingEffect(t) \/ UnregisterFoundEffect(t)
           \/ UnregisterUnlinkEffect(t) \/ UnregisterBackEffect(t) \/ SynchronizeRcuEffect(t)
           \/ UnregisterFreesEffect(t) \/ ReleaseReturnsEffect(t) \/ IoctlReturnsEffect(t)
  BY <1>1, <1>2, ZenonT(60)
  DEF FindNextEffect, OpenFailsEffect, OpenReturnsEffect, UnregisterNothingEffect,
      UnregisterFoundEffect, UnregisterUnlinkEffect, UnregisterBackEffect,
      SynchronizeRcuEffect, UnregisterFreesEffect, ReleaseReturnsEffect,
      IoctlReturnsEffect, Now, ValOp, Finding
<1>3. CASE OpenAllocEffect(t)
  BY <1>1, <1>3, Zenon DEF OpenAllocEffect, Now, ValOp
<1>4. CASE RegisterLinkEffect(t)
  BY <1>1, <1>4, Zenon DEF RegisterLinkEffect, Now, ValOp
<1>5. CASE RegisterPublishEffect(t) \/ RegisterBackEffect(t)
  BY <1>1, <1>5, Zenon DEF RegisterPublishEffect, RegisterBackEffect, Now, ValOp
<1>6. CASE RegisterSkipsEffect(t)
  <2>1. ~Orderly
    BY <1>6, SerialLink, Zenon DEF IInv, Orderly
  <2> QED BY <1>1, <1>6, <2>1, Zenon DEF RegisterSkipsEffect, Now, ValOp
<1>7. ASSUME NEW k \in Opens, OpenEffect(t, k) \/ ReleaseEffect(t, k) \/ IoctlEffect(t, k)
      PROVE  ValOp(t)'
  <2>1. ValFile(k)
    BY <1>1, Zenon
  <2> QED BY <1>7, <2>1, Zenon DEF OpenEffect, ReleaseEffect, IoctlEffect, Now, ValOp, ValFile
<1>8. CASE \/ TraceStartEffect(t) \/ TraceNextEffect(t) \/ TraceMissEffect(t)
           \/ TraceHitEffect(t) \/ TraceReturnsEffect(t)
  <2>1. pc'[t] = pc[t] /\ loc'[t].f = loc[t].f /\ vals' = vals
    BY <1>8, Zenon DEF TraceStartEffect, TraceNextEffect, TraceMissEffect, TraceHitEffect,
                TraceReturnsEffect, Now
  <2> QED BY <1>1, <2>1, Zenon DEF ValOp
<1> QED
  BY <1>2, <1>3, <1>4, <1>5, <1>6, <1>7, <1>8, ZenonT(60) DEF Effect

\* Another thread keeps its val or the want of it: it works on another file.
LEMMA ValsOthers ==
    ASSUME IInv, UNCHANGED mode, ValsStay, NEW t \in Threads, OthersKept(t), Effect(t),
           NEW u \in Threads \ {t}
    PROVE  ValOp(u)'
<1>1. /\ ValOp(u) /\ pc'[u] = pc[u] /\ loc'[u].f = loc[u].f /\ (Orderly' <=> Orderly)
  BY Zenon DEF ValsStay, OthersKept, Kept, Orderly
<1>2. CASE vals' = vals
  BY <1>1, <1>2, Zenon DEF ValOp
<1>3. CASE RegisterLinkEffect(t) /\ vals' = vals \cup {loc[t].f}
  <2>1. pc[u] \in {"open_find", "reg_find"} => loc[u].f # loc[t].f
    BY <1>3, Zenon DEF RegisterLinkEffect, IInv, OpsOK, Ops, OpenOps
  <2> QED BY <1>1, <1>3, <2>1, Zenon DEF ValOp
<1> QED
  BY <1>2, <1>3, ValsChange, Zenon

\* A file has its val from when it is linked on.
LEMMA ValsFiles ==
    ASSUME IInv, UNCHANGED mode, ValsStay, NEW t \in Threads, OthersKept(t), Effect(t),
           NEW k \in Opens
    PROVE  ValFile(k)'
<1>1. /\ ValOp(t) /\ OpOK(t) /\ ValFile(k) /\ (Orderly' <=> Orderly)
      /\ file \in [Opens -> FileStates]
  BY Zenon DEF ValsStay, IInv, OpsOK, Orderly, TypeOK
<1>2. CASE RegisterLinkEffect(t)
  <2>1. file[loc[t].f] = "opening" /\ vals' = vals \cup {loc[t].f} /\ file' = file
    BY <1>1, <1>2, Zenon DEF RegisterLinkEffect, OpOK, OpenOps
  <2> QED BY <1>1, <2>1, Zenon DEF ValFile
<1>3. CASE ~RegisterLinkEffect(t)
  <2>1. vals' = vals
    BY <1>3, ValsChange, Zenon
  <2>2. \/ file' = file
        \/ OpenFailsEffect(t) \/ OpenReturnsEffect(t) \/ ReleaseReturnsEffect(t)
        \/ \E n \in Opens : OpenEffect(t, n) \/ ReleaseEffect(t, n)
    BY Frame, Zenon
  <2>3. CASE OpenFailsEffect(t)
    <3>1. loc[t].f \notin vals /\ file' = [file EXCEPT ![loc[t].f] = "failed"]
      BY <1>1, <2>3, Zenon DEF OpenFailsEffect, ValOp
    <3>2. k = loc[t].f \/ file'[k] = file[k]
      BY <1>1, <3>1, Zenon
    <3>3. k = loc[t].f => file'[k] = "failed"
      BY <1>1, <3>1, Zenon
    <3> QED BY <1>1, <2>1, <3>1, <3>2, <3>3, Zenon DEF ValFile
  <2>4. CASE OpenReturnsEffect(t)
    <3>1. /\ Orderly => loc[t].f \in vals
          /\ file' = [file EXCEPT ![loc[t].f] = "open"]
      BY <1>1, <2>4, Zenon DEF OpenReturnsEffect, ValOp
    <3>2. k = loc[t].f \/ file'[k] = file[k]
      BY <1>1, <3>1, Zenon
    <3>3. k = loc[t].f => file'[k] = "open"
      BY <1>1, <3>1, Zenon
    <3> QED BY <1>1, <2>1, <3>1, <3>2, <3>3, Zenon DEF ValFile
  <2>5. CASE ReleaseReturnsEffect(t)
    <3>1. /\ file[loc[t].f] = "closing"
          /\ file' = [file EXCEPT ![loc[t].f] = "closed"]
      BY <1>1, <2>5, Zenon DEF ReleaseReturnsEffect, OpOK, ReleaseOps
    <3>2. k = loc[t].f \/ file'[k] = file[k]
      BY <1>1, <3>1, Zenon
    <3>3. k = loc[t].f => file'[k] = "closed"
      BY <1>1, <3>1, Zenon
    <3> QED BY <1>1, <2>1, <3>1, <3>2, <3>3, Zenon DEF ValFile
  <2>6. ASSUME NEW n \in Opens, OpenEffect(t, n) \/ ReleaseEffect(t, n) PROVE ValFile(k)'
    <3>1. \/ file[n] = "unused" /\ file' = [file EXCEPT ![n] = "opening"]
          \/ file[n] = "open" /\ file' = [file EXCEPT ![n] = "closing"]
      BY <2>6, Zenon DEF OpenEffect, ReleaseEffect
    <3>2. \/ file'[k] = file[k] \/ (file[k] = "unused" /\ file'[k] = "opening")
          \/ (file[k] = "open" /\ file'[k] = "closing")
      BY <1>1, <3>1, Zenon
    <3> QED BY <1>1, <2>1, <3>2, Zenon DEF ValFile
  <2> QED BY <1>1, <2>1, <2>2, <2>3, <2>4, <2>5, <2>6, Zenon DEF ValFile
<1> QED
  BY <1>2, <1>3, Zenon

\* Every file that was open keeps its val, and no other file has one.
LEMMA ValsInvariance == Spec => []ValsStay
<1>1. Init => ValsStay
  BY Zenon DEF Init, ValsStay, ValOp, ValFile
<1>2. IInv /\ ValsStay /\ [Next]_vars => ValsStay'
  <2> SUFFICES ASSUME IInv, ValsStay, [Next]_vars PROVE ValsStay'
    BY Zenon
  <2>1. CASE Next
    <3>1. PICK t \in Threads : Step(t) \/ Call(t)
      BY <2>1, Zenon DEF Next
    <3>2. UNCHANGED mode /\ TypeOK /\ OpsOK /\ RankExists
      BY <2>1, Zenon DEF Next, IInv
    <3>3. TypeOK' /\ OthersKept(t) /\ Effect(t)
      BY <3>1, <3>2, StepDoes, Zenon
    <3>4. \A u \in Threads : ValOp(u)'
      BY <3>2, <3>3, ValsSelf, ValsOthers, Zenon
    <3>5. \A k \in Opens : ValFile(k)'
      BY <3>2, <3>3, ValsFiles, Zenon
    <3>6. vals' \subseteq Opens
      <4>1. RegisterLinkEffect(t) => loc[t].f \in Opens
        BY <3>2, Zenon DEF RegisterLinkEffect, OpsOK, OpOK
      <4> QED BY <3>3, <4>1, ValsChange, Zenon DEF ValsStay
    <3> QED BY <3>4, <3>5, <3>6, Zenon DEF ValsStay
  <2>2. CASE UNCHANGED vars
    <3>1. file' = file /\ vals' = vals /\ pc' = pc /\ loc' = loc /\ mode' = mode
      BY <2>2, Zenon DEF vars
    <3> QED BY <3>1, Zenon DEF ValsStay, ValOp, ValFile, Orderly
  <2> QED BY <2>1, <2>2, Zenon
<1> QED
  BY <1>1, <1>2, Invariance, PTL DEF Spec

\* In orderly use, when every file has been closed and no operation runs, the registry is
\* empty and all mods that kunwind_debug_open allocated are freed, while each of those
\* files has left its kunw_map_val behind.
THEOREM AllIsReleased == Spec => []AllReleased
<1>1. IInv /\ ValsStay => AllReleased
  <2> SUFFICES ASSUME IInv, ValsStay, Orderly,
                      \A k \in Opens : file[k] \in {"unused", "failed", "closed"}
               PROVE  /\ bucket.first = Nil /\ (\A k \in Opens : mods[k] # "live")
                      /\ vals = {k \in Opens : file[k] = "closed"}
    BY Zenon DEF AllReleased
  <2>1. \A k \in Opens : mods[k] # "live" /\ k \notin Chain(bucket)
    BY Zenon DEF IInv, KeptInOrder, OrderlyFile
  <2>2. bucket.first \in Chain(bucket) \cup {Nil} /\ Chain(bucket) \subseteq Opens
    BY ChainIs, Zenon DEF IInv, TypeOK
  <2>3. vals = {k \in Opens : file[k] = "closed"}
    BY Zenon DEF ValsStay, ValFile
  <2> QED BY <2>1, <2>2, <2>3, Zenon
<1> QED
  BY <1>1, Invariance, ValsInvariance, PTL

\* In orderly use save_stack_trace_kunwind in a thread whose own file is open does not
\* miss its registration, though other threads change the list under the traversal.
THEOREM OwnRegistrationIsFound == Spec => OwnRegistrationFound
<1>1. ASSUME IInv, [Next]_vars, Orderly, NEW t \in Threads,
             trace[t].st = "find", trace'[t].st = "off", NEW k \in Opens, tgid[k] = t
      PROVE  file[k] # "open"
  <2>1. Next
    BY <1>1, Zenon DEF vars
  <2>2. PICK u \in Threads : Step(u) \/ Call(u)
    BY <2>1, Zenon DEF Next
  <2>3. OthersKept(u) /\ Effect(u)
    BY <1>1, <2>1, <2>2, StepDoes, Zenon DEF IInv, Next
  <2>4. u = t
    BY <1>1, <2>3, Zenon DEF OthersKept, Kept
  <2>5. trace[t] \in [st : {"off", "find", "use"}, cur : Link] /\ bucket \in Buckets
    BY <1>1, Zenon DEF IInv, TypeOK
  <2>6. trace[t].cur = Nil
    <3>1. \/ trace' = trace \/ TraceStartEffect(t) \/ TraceNextEffect(t)
          \/ TraceMissEffect(t) \/ TraceHitEffect(t) \/ TraceReturnsEffect(t)
      BY <2>3, <2>4, Frame, Zenon
    <3> QED BY <1>1, <2>5, <3>1, Zenon DEF TraceStartEffect, TraceNextEffect, TraceMissEffect,
                                    TraceHitEffect, TraceReturnsEffect
  <2>7. Sees(t, Nil) /\ OrderlyFile(k)
    BY <1>1, <2>6, Zenon DEF IInv, KeptInOrder, OrderlyOp
  <2>8. \A j \in Chain(bucket) : tgid[j] # t
    BY <2>5, <2>7, SeesEnds, Zenon
  <2> QED BY <1>1, <2>7, <2>8, Zenon DEF OrderlyFile
<1>2. IInv /\ [Next]_vars =>
        [Orderly => \A t \in Threads :
            trace[t].st = "find" /\ trace'[t].st = "off" =>
                \A k \in Opens : tgid[k] = t => file[k] # "open"]_vars
  BY <1>1, Zenon
<1> QED
  BY <1>2, Invariance, PTL DEF Spec, OwnRegistrationFound
=============================================================================
