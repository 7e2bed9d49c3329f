---------------------------- MODULE KunwMapSteps -----------------------------
(***************************************************************************)
(* Proofs about KunwMap, first part: every step of a thread is one of the  *)
(* effects of KunwMapInv, it leaves each operation with a file in the      *)
(* right state (OpsStep), and it leads no link of the bucket upwards       *)
(* (RankStep).                                                             *)
(***************************************************************************)
EXTENDS KunwMapInv, TLAPS
-----------------------------------------------------------------------------
\* The two values a link can have besides a node.
LEMMA NodeNotNil == Nil \notin Opens /\ HeadPtr \notin Opens /\ Nil # HeadPtr
  BY KunwMapAssumption DEF Opens, Nil, HeadPtr

\* A step of t that changes no file another thread is inside of, and leaves t's own
\* file in the state of its operation.
LEMMA OpsKept ==
    ASSUME TypeOK, OpsOK, NEW t \in Threads, OthersKept(t), UNCHANGED mode,
           \A u \in Threads \ {t} : pc[u] # "idle" =>
                file'[loc[u].f] = file[loc[u].f] /\ tgid'[loc[u].f] = tgid[loc[u].f],
           OpOK(t)',
           pc'[t] \in Ops => \A u \in Threads \ {t} : pc[u] \in Ops => loc[u].f # loc'[t].f
    PROVE  OpsOK'
<1>1. ASSUME NEW u \in Threads \ {t} PROVE OpOK(u)'
  <2>1. OpOK(u) /\ Kept(u)
    BY Zenon DEF OpsOK, OthersKept
  <2>2. pc[u] # "idle" => file'[loc[u].f] = file[loc[u].f] /\ tgid'[loc[u].f] = tgid[loc[u].f]
    BY Zenon
  <2>3. "idle" \notin OpenOps /\ "idle" \notin ReleaseOps
    BY Zenon DEF OpenOps, ReleaseOps
  <2> QED
    BY <2>1, <2>2, <2>3, Zenon DEF OpOK, Kept
<1>2. ASSUME NEW u \in Threads, NEW v \in Threads,
             pc'[u] \in Ops, pc'[v] \in Ops, loc'[u].f = loc'[v].f
      PROVE  u = v
  BY <1>2 DEF OpsOK, OthersKept, Kept
<1> QED
  BY <1>1, <1>2, Zenon DEF OpsOK

\* A step of t that changes no file, and goes on with its operation on the same file.
LEMMA OpsSame ==
    ASSUME TypeOK, OpsOK, NEW t \in Threads, OthersKept(t), UNCHANGED <<mode, file, tgid>>,
           OpOK(t)', pc'[t] \in Ops => pc[t] \in Ops /\ loc'[t].f = loc[t].f
    PROVE  OpsOK'
<1>1. \A u \in Threads \ {t} : pc[u] # "idle" =>
          file'[loc[u].f] = file[loc[u].f] /\ tgid'[loc[u].f] = tgid[loc[u].f]
  BY Zenon
<1>2. ASSUME pc'[t] \in Ops, NEW u \in Threads \ {t}, pc[u] \in Ops PROVE loc[u].f # loc'[t].f
  BY <1>2, Zenon DEF OpsOK
<1> QED
  BY <1>1, <1>2, OpsKept, Zenon

\* open, release and ioctl hold their file in the state that belongs to them, and no two
\* threads open or release the same one.
LEMMA OpsStep ==
    ASSUME TypeOK, OpsOK, NEW t \in Threads, OthersKept(t), Effect(t), UNCHANGED mode
    PROVE  OpsOK'
<1>0. /\ OpOK(t)
      /\ \A u \in Threads \ {t} :
            /\ pc[u] # "idle" => file[loc[u].f] \in {"opening", "closing", "open"}
            /\ pc[u] \in Ops => file[loc[u].f] \in {"opening", "closing"}
            /\ pc[u] \in Ops /\ pc[t] \in Ops => loc[u].f # loc[t].f
            /\ pc[u] \notin Ops \cup {"idle"} => file[loc[u].f] = "open" /\ pc[u] = "ioctl"
  <2>1. OpOK(t)
    BY Zenon DEF OpsOK
  <2>2. ASSUME NEW u \in Threads \ {t}
        PROVE  /\ pc[u] # "idle" => file[loc[u].f] \in {"opening", "closing", "open"}
               /\ pc[u] \in Ops => file[loc[u].f] \in {"opening", "closing"}
               /\ pc[u] \notin Ops \cup {"idle"} => file[loc[u].f] = "open" /\ pc[u] = "ioctl"
    <3>1. OpOK(u) /\ pc[u] \in Ops \cup {"idle", "ioctl"}
      BY Zenon DEF OpsOK, TypeOK
    <3> QED
      BY <3>1, Zenon DEF OpOK, Ops
  <2>3. ASSUME NEW u \in Threads \ {t}, pc[u] \in Ops, pc[t] \in Ops PROVE loc[u].f # loc[t].f
    BY <2>3, Zenon DEF OpsOK
  <2> QED
    BY <2>1, <2>2, <2>3, Zenon
<1> USE DEF OpOK, Now, Ops, OpenOps, ReleaseOps
<1>1a. CASE FindNextEffect(t)
  <2>1. file' = file /\ tgid' = tgid /\ loc'[t].f = loc[t].f /\ pc[t] \in Ops
    BY <1>1a, Zenon DEF FindNextEffect, Finding
  <2>2. OpOK(t)'
    BY <1>0, <1>1a, <2>1, Zenon DEF FindNextEffect, Finding
  <2> QED
    BY <2>1, <2>2, OpsSame, Zenon
<1>1b. CASE OpenAllocEffect(t)
  <2>1. file' = file /\ tgid' = tgid /\ loc'[t].f = loc[t].f /\ pc[t] \in Ops
    BY <1>1b, Zenon DEF OpenAllocEffect
  <2>2. OpOK(t)'
    BY <1>0, <1>1b, <2>1, Zenon DEF OpenAllocEffect
  <2> QED
    BY <2>1, <2>2, OpsSame, Zenon
<1>1c. CASE RegisterSkipsEffect(t)
  <2>1. file' = file /\ tgid' = tgid /\ loc'[t].f = loc[t].f /\ pc[t] \in Ops
    BY <1>1c, Zenon DEF RegisterSkipsEffect
  <2>2. OpOK(t)'
    BY <1>0, <1>1c, <2>1, Zenon DEF RegisterSkipsEffect
  <2> QED
    BY <2>1, <2>2, OpsSame, Zenon
<1>1d. CASE RegisterLinkEffect(t)
  <2>1. file' = file /\ tgid' = tgid /\ loc'[t].f = loc[t].f /\ pc[t] \in Ops
    BY <1>1d, Zenon DEF RegisterLinkEffect
  <2>2. OpOK(t)'
    BY <1>0, <1>1d, <2>1, Zenon DEF RegisterLinkEffect
  <2> QED
    BY <2>1, <2>2, OpsSame, Zenon
<1>1e. CASE RegisterPublishEffect(t)
  <2>1. file' = file /\ tgid' = tgid /\ loc'[t].f = loc[t].f /\ pc[t] \in Ops
    BY <1>1e, Zenon DEF RegisterPublishEffect
  <2>2. OpOK(t)'
    BY <1>0, <1>1e, <2>1, Zenon DEF RegisterPublishEffect
  <2> QED
    BY <2>1, <2>2, OpsSame, Zenon
<1>1f. CASE RegisterBackEffect(t)
  <2>1. file' = file /\ tgid' = tgid /\ loc'[t].f = loc[t].f /\ pc[t] \in Ops
    BY <1>1f, Zenon DEF RegisterBackEffect
  <2>2. OpOK(t)'
    BY <1>0, <1>1f, <2>1, Zenon DEF RegisterBackEffect
  <2> QED
    BY <2>1, <2>2, OpsSame, Zenon
<1>2a. CASE UnregisterNothingEffect(t)
  <2>1. file' = file /\ tgid' = tgid /\ loc'[t].f = loc[t].f /\ pc[t] \in Ops
    BY <1>2a, Zenon DEF UnregisterNothingEffect
  <2>2. OpOK(t)'
    BY <1>0, <1>2a, <2>1, Zenon DEF UnregisterNothingEffect
  <2> QED
    BY <2>1, <2>2, OpsSame, Zenon
<1>2b. CASE UnregisterFoundEffect(t)
  <2>1. file' = file /\ tgid' = tgid /\ loc'[t].f = loc[t].f /\ pc[t] \in Ops
    BY <1>2b, Zenon DEF UnregisterFoundEffect
  <2>2. OpOK(t)'
    BY <1>0, <1>2b, <2>1, Zenon DEF UnregisterFoundEffect
  <2> QED
    BY <2>1, <2>2, OpsSame, Zenon
<1>2c. CASE UnregisterUnlinkEffect(t)
  <2>1. file' = file /\ tgid' = tgid /\ loc'[t].f = loc[t].f /\ pc[t] \in Ops
    BY <1>2c, Zenon DEF UnregisterUnlinkEffect
  <2>2. OpOK(t)'
    BY <1>0, <1>2c, <2>1, Zenon DEF UnregisterUnlinkEffect
  <2> QED
    BY <2>1, <2>2, OpsSame, Zenon
<1>2d. CASE UnregisterBackEffect(t)
  <2>1. file' = file /\ tgid' = tgid /\ loc'[t].f = loc[t].f /\ pc[t] \in Ops
    BY <1>2d, Zenon DEF UnregisterBackEffect
  <2>2. OpOK(t)'
    BY <1>0, <1>2d, <2>1, Zenon DEF UnregisterBackEffect
  <2> QED
    BY <2>1, <2>2, OpsSame, Zenon
<1>2e. CASE SynchronizeRcuEffect(t)
  <2>1. file' = file /\ tgid' = tgid /\ loc'[t].f = loc[t].f /\ pc[t] \in Ops
    BY <1>2e, Zenon DEF SynchronizeRcuEffect
  <2>2. OpOK(t)'
    BY <1>0, <1>2e, <2>1, Zenon DEF SynchronizeRcuEffect
  <2> QED
    BY <2>1, <2>2, OpsSame, Zenon
<1>2f. CASE UnregisterFreesEffect(t)
  <2>1. file' = file /\ tgid' = tgid /\ loc'[t].f = loc[t].f /\ pc[t] \in Ops
    BY <1>2f, Zenon DEF UnregisterFreesEffect
  <2>2. OpOK(t)'
    BY <1>0, <1>2f, <2>1, Zenon DEF UnregisterFreesEffect
  <2> QED
    BY <2>1, <2>2, OpsSame, Zenon
<1>3. CASE \/ OpenFailsEffect(t) \/ OpenReturnsEffect(t) \/ ReleaseReturnsEffect(t)
  <2>1. pc'[t] = "idle" /\ OpOK(t)'
    BY <1>3, Zenon DEF OpenFailsEffect, OpenReturnsEffect, ReleaseReturnsEffect
  <2>2. \A u \in Threads \ {t} : pc[u] # "idle" =>
            file'[loc[u].f] = file[loc[u].f] /\ tgid'[loc[u].f] = tgid[loc[u].f]
    <3>1. \A u \in Threads \ {t} : pc[u] # "idle" => loc[u].f \in Opens \ {loc[t].f}
      BY <1>0, <1>3 DEF OpsOK, OpenFailsEffect, OpenReturnsEffect, ReleaseReturnsEffect, TypeOK
    <3> QED
      BY <1>3, <3>1, Zenon DEF OpenFailsEffect, OpenReturnsEffect, ReleaseReturnsEffect, TypeOK
  <2> QED
    BY <2>1, <2>2, OpsKept, Zenon
<1>4. CASE \/ IoctlReturnsEffect(t)
           \/ TraceStartEffect(t) \/ TraceNextEffect(t) \/ TraceMissEffect(t)
           \/ TraceHitEffect(t) \/ TraceReturnsEffect(t)
  <2>1. file' = file /\ tgid' = tgid
    BY <1>4, Zenon DEF IoctlReturnsEffect, TraceStartEffect, TraceNextEffect, TraceMissEffect,
                       TraceHitEffect, TraceReturnsEffect
  <2>2. CASE pc'[t] = "idle"
    <3>1. OpOK(t)' /\ pc'[t] \notin Ops
      BY <2>2, Zenon
    <3> QED
      BY <2>1, <3>1, OpsSame, Zenon
  <2>3. CASE ~IoctlReturnsEffect(t)
    <3>1. Now(t, pc[t], loc[t].f, loc[t].cur, loc[t].next, loc[t].pprev)
      BY <1>4, <2>3, Zenon DEF TraceStartEffect, TraceNextEffect, TraceMissEffect,
                               TraceHitEffect, TraceReturnsEffect
    <3>2. OpOK(t)'
      BY <1>0, <2>1, <3>1, Zenon
    <3> QED
      BY <2>1, <3>1, <3>2, OpsSame, Zenon
  <2> QED
    BY <2>2, <2>3, Zenon DEF IoctlReturnsEffect
<1>5. ASSUME NEW k \in Opens, OpenEffect(t, k) PROVE OpsOK'
  <2>1. \A u \in Threads \ {t} : pc[u] # "idle" => loc[u].f # k
    BY <1>0, <1>5, ZenonT(60) DEF OpenEffect, TypeOK
  <2>2. \A u \in Threads \ {t} : pc[u] # "idle" =>
            file'[loc[u].f] = file[loc[u].f] /\ tgid'[loc[u].f] = tgid[loc[u].f]
    BY <1>5, <2>1 DEF OpenEffect, TypeOK
  <2>3. pc'[t] = "open_find" /\ loc'[t].f = k
    BY <1>5, Zenon DEF OpenEffect
  <2>4. OpOK(t)'
    BY <1>5, <2>3, Zenon DEF OpenEffect, TypeOK
  <2>5. \A u \in Threads \ {t} : pc[u] \in Ops => loc[u].f # loc'[t].f
    BY <2>1, <2>3, Zenon
  <2> QED
    BY <2>2, <2>4, <2>5, OpsKept, Zenon
<1>6. ASSUME NEW k \in Opens, ReleaseEffect(t, k) PROVE OpsOK'
  <2>1. \A u \in Threads \ {t} : pc[u] # "idle" => loc[u].f # k
    BY <1>0, <1>6, ZenonT(60) DEF ReleaseEffect, TypeOK
  <2>2. \A u \in Threads \ {t} : pc[u] # "idle" =>
            file'[loc[u].f] = file[loc[u].f] /\ tgid'[loc[u].f] = tgid[loc[u].f]
    BY <1>6, <2>1 DEF ReleaseEffect, TypeOK
  <2>3. pc'[t] = "unreg_find" /\ loc'[t].f = k
    BY <1>6, Zenon DEF ReleaseEffect
  <2>4. OpOK(t)'
    BY <1>6, <2>3, Zenon DEF ReleaseEffect, TypeOK
  <2>5. \A u \in Threads \ {t} : pc[u] \in Ops => loc[u].f # loc'[t].f
    BY <2>1, <2>3, Zenon
  <2> QED
    BY <2>2, <2>4, <2>5, OpsKept, Zenon
<1>7. ASSUME NEW k \in Opens, IoctlEffect(t, k) PROVE OpsOK'
  BY <1>0, <1>7, OpsKept, Zenon DEF IoctlEffect, TypeOK
<1> QED
  BY <1>1a, <1>1b, <1>1c, <1>1d, <1>1e, <1>1f, <1>2a, <1>2b, <1>2c, <1>2d, <1>2e, <1>2f,
     <1>3, <1>4, <1>5, <1>6, <1>7, Zenon DEF Effect

-----------------------------------------------------------------------------
(* The rank of what the list links *)

\* hlist_add_head_rcu: first is set to a node that has been linked.
LEMMA RankPublish ==
    ASSUME NEW rank \in [Opens -> Nat], NEW h \in Buckets, RankedBucket(rank, h),
           NEW n \in Opens, rank[n] > 0
    PROVE  RankedBucket(rank, AddPublish(h, n))
  BY Zenon DEF RankedBucket, Refers, AddPublish, Buckets

\* hlist_add_head_rcu: the pprev of the node that was first is set to the new one, which
\* is higher.
LEMMA RankAddBack ==
    ASSUME NEW rank \in [Opens -> Nat], NEW h \in Buckets, RankedBucket(rank, h),
           NEW n \in Opens, rank[n] > 0, NEW first \in Link, Above(rank, n, first)
    PROVE  RankedBucket(rank, AddBack(h, n, first))
<1>1. CASE first = Nil
  BY <1>1, Zenon DEF AddBack
<1>2. CASE first \in Opens
  <2> DEFINE g == [h EXCEPT !.pprev[first] = n]
  <2>1. /\ g.first = h.first /\ g.next = h.next /\ g.pprev[first] = n
        /\ \A m \in Opens \ {first} : g.pprev[m] = h.pprev[m]
    BY <1>2, Zenon DEF Buckets
  <2>2. AddBack(h, n, first) = g
    BY <1>2, NodeNotNil, Zenon DEF AddBack
  <2> HIDE DEF g
  <2>3. RankedBucket(rank, g)
    BY <1>2, <2>1, Zenon DEF RankedBucket, Refers, Above
  <2> QED BY <2>2, <2>3, Zenon
<1> QED
  BY <1>1, <1>2, Zenon DEF Link

\* The locals of a thread that unlinks c.
RankedDel(rank, c, next, pprev) ==
    /\ Refers(rank, next) /\ Refers(rank, pprev)
    /\ Above(rank, c, next) /\ Above(rank, pprev, c)

\* __hlist_del: what led to the node is set to lead to its next, which is lower still.
\* Nothing is assumed of how fresh next and pprev are.
LEMMA RankUnlink ==
    ASSUME NEW rank \in [Opens -> Nat], NEW h \in Buckets, RankedBucket(rank, h),
           NEW c \in Opens, NEW next \in Link, NEW pprev \in Opens \cup {HeadPtr},
           RankedDel(rank, c, next, pprev)
    PROVE  RankedBucket(rank, DelUnlink(h, c, next, pprev))
<1>1. CASE pprev = HeadPtr
  <2> DEFINE g == [h EXCEPT !.first = next]
  <2>1. g.first = next /\ g.next = h.next /\ g.pprev = h.pprev
    BY Zenon DEF Buckets
  <2>2. DelUnlink(h, c, next, pprev) = g
    BY <1>1, Zenon DEF DelUnlink
  <2> HIDE DEF g
  <2>3. RankedBucket(rank, g)
    BY <2>1, Zenon DEF RankedBucket, RankedDel, Refers
  <2> QED BY <2>2, <2>3, Zenon
<1>2. CASE pprev \in Opens
  <2> DEFINE g == [h EXCEPT !.next[pprev] = next]
  <2>1. /\ g.first = h.first /\ g.pprev = h.pprev /\ g.next[pprev] = next
        /\ \A m \in Opens \ {pprev} : g.next[m] = h.next[m]
    BY <1>2, Zenon DEF Buckets
  <2>2. DelUnlink(h, c, next, pprev) = g
    BY <1>2, NodeNotNil, Zenon DEF DelUnlink
  <2> HIDE DEF g
  <2>3. Above(rank, pprev, next)
    BY <1>2 DEF RankedDel, Above
  <2>4. RankedBucket(rank, g)
    BY <1>2, <2>1, <2>3, Zenon DEF RankedBucket, RankedDel, Refers, Above
  <2> QED BY <2>2, <2>4, Zenon
<1> QED
  BY <1>1, <1>2, Zenon

\* What the last stores of hlist_del_rcu change.
LEMMA DelBackIs ==
    ASSUME NEW h \in Buckets, NEW c \in Opens, NEW next \in Link, NEW pprev \in Link \cup {HeadPtr},
           next # c, NEW g, g = DelBack(h, c, next, pprev)
    PROVE  /\ g.first = h.first /\ g.next = h.next
           /\ g.pprev[c] = Nil /\ (next \in Opens => g.pprev[next] = pprev)
           /\ \A m \in Opens \ {c, next} : g.pprev[m] = h.pprev[m]
<1>1. CASE next = Nil
  <2>1. g = [h EXCEPT !.pprev[c] = Nil]
    BY <1>1, Zenon DEF DelBack
  <2> QED BY <1>1, <2>1, NodeNotNil, Zenon DEF Buckets
<1>2. CASE next \in Opens
  BY <1>2, NodeNotNil, Zenon DEF DelBack, Buckets
<1> QED
  BY <1>1, <1>2, Zenon DEF Link

\* __hlist_del: the next node's pprev is set to lead past the node.
LEMMA RankDelBack ==
    ASSUME NEW rank \in [Opens -> Nat], NEW h \in Buckets, RankedBucket(rank, h),
           NEW c \in Opens, NEW next \in Link, NEW pprev \in Opens \cup {HeadPtr},
           RankedDel(rank, c, next, pprev)
    PROVE  RankedBucket(rank, DelBack(h, c, next, pprev))
<1> DEFINE g == DelBack(h, c, next, pprev)
<1>1. next # c
  BY DEF RankedDel, Above
<1>2. /\ g.first = h.first /\ g.next = h.next
      /\ g.pprev[c] = Nil /\ (next \in Opens => g.pprev[next] = pprev)
      /\ \A m \in Opens \ {c, next} : g.pprev[m] = h.pprev[m]
  BY <1>1, DelBackIs DEF Link
<1> HIDE DEF g
<1>3. next \in Opens => Above(rank, pprev, next)
  BY DEF RankedDel, Above, Link
<1>4. RankedBucket(rank, g)
  BY <1>2, <1>3, NodeNotNil DEF RankedBucket, RankedDel, Refers, Above
<1> QED
  BY <1>4, Zenon DEF g

-----------------------------------------------------------------------------
(* The rank *)

\* A step that leaves the rank as it is.
LEMMA RankKept ==
    ASSUME NEW rank \in [Opens -> Nat], Ranked(rank), NEW t \in Threads, OthersKept(t),
           RankedBucket(rank, bucket'), RankOfOp(rank, t)',
           \A n \in Opens : file'[n] = "unused" => file[n] = "unused"
    PROVE  Ranked(rank)'
<1>1. ASSUME NEW u \in Threads \ {t} PROVE RankOfOp(rank, u)'
  BY DEF Ranked, OthersKept, Kept, RankOfOp
<1> QED
  BY <1>1, Zenon DEF Ranked

\* The node that is linked becomes the highest.
LEMMA RankLink ==
    ASSUME TypeOK, OpsOK, NEW rank \in [Opens -> Nat], Ranked(rank), NEW t \in Threads,
           OthersKept(t), RegisterLinkEffect(t)
    PROVE  RankExists'
<1> DEFINE f == loc[t].f
           high == IF bucket.first = Nil THEN 1 ELSE rank[bucket.first] + 1
<1>1. /\ f \in Opens /\ rank[f] = 0 /\ file[f] = "opening" /\ bucket \in Buckets
      /\ bucket.first \in Link /\ RankedBucket(rank, bucket)
  BY Zenon DEF RegisterLinkEffect, Ranked, RankOfOp, OpsOK, OpOK, OpenOps, TypeOK, Buckets
<1>2. /\ high \in Nat /\ high > 0
      /\ bucket.first \in Opens => rank[bucket.first] < high /\ rank[bucket.first] > 0
  BY <1>1, NodeNotNil DEF Link, RankedBucket, Refers
<1> HIDE DEF high
<1>3. PICK new \in [Opens -> Nat] : new[f] = high /\ \A n \in Opens \ {f} : new[n] = rank[n]
  <2> DEFINE r == [rank EXCEPT ![f] = high]
  <2>1. r \in [Opens -> Nat] /\ r[f] = high /\ \A n \in Opens \ {f} : r[n] = rank[n]
    BY <1>1, <1>2, Zenon
  <2> HIDE DEF r
  <2> QED BY <2>1, Zenon
<1>4. \A n : Refers(rank, n) => n # f /\ Refers(new, n)
  BY <1>1, <1>3 DEF Refers
<1>5. \A n, m : Refers(rank, n) /\ Refers(rank, m) /\ Above(rank, n, m) => Above(new, n, m)
  BY <1>3, <1>4 DEF Above
<1>6. /\ bucket'.first = bucket.first
      /\ bucket'.next[f] = bucket.first /\ bucket'.pprev[f] = HeadPtr
      /\ \A n \in Opens \ {f} :
            bucket'.next[n] = bucket.next[n] /\ bucket'.pprev[n] = bucket.pprev[n]
  BY <1>1, Zenon DEF RegisterLinkEffect, AddLink, Buckets
<1>7. RankedBucket(new, bucket')
  <2>1. Refers(new, bucket'.first)
    BY <1>1, <1>4, <1>6, Zenon DEF RankedBucket
  <2>2. ASSUME NEW n \in Opens \ {f}
        PROVE  /\ Refers(new, bucket'.next[n]) /\ Refers(new, bucket'.pprev[n])
               /\ Above(new, n, bucket'.next[n]) /\ Above(new, bucket'.pprev[n], n)
    <3>1. /\ Refers(rank, bucket.next[n]) /\ Refers(rank, bucket.pprev[n])
          /\ Above(rank, n, bucket.next[n]) /\ Above(rank, bucket.pprev[n], n)
      BY <1>1, Zenon DEF RankedBucket
    <3>2. /\ Refers(new, bucket.next[n]) /\ Refers(new, bucket.pprev[n])
          /\ bucket.next[n] # f /\ bucket.pprev[n] # f
      BY <1>4, <3>1, Zenon
    <3>3. Above(new, n, bucket.next[n]) /\ Above(new, bucket.pprev[n], n)
      BY <1>3, <3>1, <3>2, Zenon DEF Above
    <3> QED BY <1>6, <3>2, <3>3, Zenon
  <2>3. /\ Refers(new, bucket'.next[f]) /\ Refers(new, bucket'.pprev[f])
        /\ Above(new, f, bucket'.next[f]) /\ Above(new, bucket'.pprev[f], f)
    <3>1. Refers(new, HeadPtr) /\ Above(new, HeadPtr, f)
      BY NodeNotNil, Zenon DEF Refers, Above
    <3>2. Refers(new, bucket.first) /\ bucket.first # f
      BY <1>1, <1>4, Zenon DEF RankedBucket
    <3>3. Above(new, f, bucket.first)
      BY <1>2, <1>3, <3>2, Zenon DEF Above
    <3> QED BY <1>6, <3>1, <3>2, <3>3, Zenon
  <2> QED BY <2>1, <2>2, <2>3, Zenon DEF RankedBucket
<1>8. ASSUME NEW u \in Threads \ {t} PROVE RankOfOp(new, u)'
  <2>1. RankOfOp(rank, u) /\ Kept(u)
    BY Zenon DEF Ranked, OthersKept
  <2>2. pc[u] \in Ops => loc[u].f \in Opens \ {f}
    BY DEF OpsOK, OpOK, RegisterLinkEffect, Ops, OpenOps, ReleaseOps
  <2>3. pc[u] \in {"unreg_unlink", "unreg_back"} => loc[u].cur \in Opens
    BY Zenon DEF OpsOK, OpOK
  <2>4. pc[u] \in {"open_find", "reg_find"} => new[loc[u].f] = 0
    BY <1>3, <2>1, <2>2, Zenon DEF RankOfOp, Ops, OpenOps
  <2>5. /\ pc[u] \in Finding => Refers(new, loc[u].cur)
        /\ trace[u].st # "off" => Refers(new, trace[u].cur)
    BY <1>4, <2>1, Zenon DEF RankOfOp
  <2>6. pc[u] \in {"reg_publish", "reg_back"} =>
            /\ new[loc[u].f] > 0 /\ Refers(new, loc[u].next)
            /\ Above(new, loc[u].f, loc[u].next)
    BY <1>3, <1>4, <2>1, <2>2, Zenon DEF RankOfOp, Ops, OpenOps, Above
  <2>7. pc[u] \in {"unreg_unlink", "unreg_back"} =>
            /\ Refers(new, loc[u].cur) /\ Refers(new, loc[u].next) /\ Refers(new, loc[u].pprev)
            /\ Above(new, loc[u].cur, loc[u].next) /\ Above(new, loc[u].pprev, loc[u].cur)
    <3> SUFFICES ASSUME pc[u] \in {"unreg_unlink", "unreg_back"}
                 PROVE  /\ Refers(new, loc[u].cur) /\ Refers(new, loc[u].next)
                        /\ Refers(new, loc[u].pprev)
                        /\ Above(new, loc[u].cur, loc[u].next)
                        /\ Above(new, loc[u].pprev, loc[u].cur)
      BY Zenon
    <3>1. /\ Refers(rank, loc[u].next) /\ Refers(rank, loc[u].pprev) /\ Refers(rank, loc[u].cur)
          /\ Above(rank, loc[u].cur, loc[u].next) /\ Above(rank, loc[u].pprev, loc[u].cur)
      BY <2>1, Zenon DEF RankOfOp
    <3> QED BY <1>4, <1>5, <3>1, Zenon
  <2> QED
    BY <2>1, <2>4, <2>5, <2>6, <2>7, Zenon DEF RankOfOp, Kept
<1>9. RankOfOp(new, t)'
  <2>1. /\ pc'[t] = "reg_publish" /\ loc'[t].f = f /\ loc'[t].next = bucket.first
        /\ trace'[t].st = "off"
    BY Zenon DEF RegisterLinkEffect, Now
  <2>2. Refers(new, bucket.first) /\ bucket.first # f
    BY <1>1, <1>4, Zenon DEF RankedBucket
  <2> QED
    BY <1>1, <1>2, <1>3, <2>1, <2>2, Zenon DEF RankOfOp, Finding, Above
<1>10. \A n \in Opens : file'[n] = "unused" => new[n] = 0
  BY <1>1, <1>3, Zenon DEF RegisterLinkEffect, Ranked
<1> QED
  BY <1>3, <1>7, <1>8, <1>9, <1>10, Zenon DEF RankExists, Ranked

\* A step that leaves the bucket as it is, and takes t where its rank is known.
LEMMA RankQuiet ==
    ASSUME NEW rank \in [Opens -> Nat], Ranked(rank), NEW t \in Threads, OthersKept(t),
           bucket' = bucket, RankOfOp(rank, t)',
           \A n \in Opens : file'[n] = "unused" => file[n] = "unused"
    PROVE  RankExists'
  BY RankKept, Zenon DEF RankExists, Ranked

\* However operations race, the nodes can be ranked so that every link, and every link a
\* thread has read and will store, leads down.
LEMMA RankStep ==
    ASSUME TypeOK, OpsOK, RankExists, NEW t \in Threads, OthersKept(t), Effect(t), TypeOK'
    PROVE  RankExists'
<1>0. PICK rank \in [Opens -> Nat] : Ranked(rank)
  BY Zenon DEF RankExists
<1>a. /\ RankedBucket(rank, bucket) /\ RankOfOp(rank, t)
      /\ \A n \in Opens : file[n] = "unused" => rank[n] = 0
      /\ OpOK(t) /\ loc[t] \in Locals /\ bucket \in Buckets /\ file \in [Opens -> FileStates]
      /\ trace[t] \in [st : {"off", "find", "use"}, cur : Link]
  BY <1>0, Zenon DEF Ranked, OpsOK, TypeOK
<1>4. CASE \/ TraceStartEffect(t) \/ TraceNextEffect(t) \/ TraceMissEffect(t)
           \/ TraceHitEffect(t) \/ TraceReturnsEffect(t)
  <2>1. RankOfOp(rank, t)'
    <3>1. CASE TraceStartEffect(t) \/ TraceNextEffect(t)
      BY <1>a, <3>1 DEF TraceStartEffect, TraceNextEffect, Now, RankOfOp, RankedBucket
    <3>2. CASE TraceMissEffect(t) \/ TraceHitEffect(t) \/ TraceReturnsEffect(t)
      BY <1>a, <3>2 DEF TraceMissEffect, TraceHitEffect, TraceReturnsEffect, NoTrace, Now, RankOfOp
    <3> QED
      BY <1>4, <3>1, <3>2, Zenon
  <2>2. bucket' = bucket /\ file' = file
    BY <1>4, Zenon DEF TraceStartEffect, TraceNextEffect, TraceMissEffect, TraceHitEffect,
                TraceReturnsEffect
  <2> QED
    BY <1>0, <2>1, <2>2, RankQuiet, Zenon
<1>1. CASE \/ FindNextEffect(t) \/ OpenAllocEffect(t) \/ UnregisterFoundEffect(t)
  <2>1. RankOfOp(rank, t)'
    BY <1>a, <1>1, Zenon DEF FindNextEffect, OpenAllocEffect, UnregisterFoundEffect, Now, RankOfOp,
                     Finding, OpOK, OpenOps, RankedBucket, Refers
  <2>2. bucket' = bucket /\ \A n \in Opens : file'[n] = "unused" => file[n] = "unused"
    BY <1>a, <1>1, Zenon DEF FindNextEffect, OpenAllocEffect, UnregisterFoundEffect
  <2> QED
    BY <1>0, <2>1, <2>2, RankQuiet, Zenon
<1>2. CASE \/ OpenFailsEffect(t) \/ OpenReturnsEffect(t) \/ ReleaseReturnsEffect(t)
  <2>1. RankOfOp(rank, t)'
    BY <1>a, <1>2, Zenon DEF OpenFailsEffect, OpenReturnsEffect, ReleaseReturnsEffect, Now, RankOfOp,
                     Finding, OpOK, OpenOps, RankedBucket, Refers
  <2>2. bucket' = bucket /\ \A n \in Opens : file'[n] = "unused" => file[n] = "unused"
    BY <1>a, <1>2, Zenon DEF OpenFailsEffect, OpenReturnsEffect, ReleaseReturnsEffect
  <2> QED
    BY <1>0, <2>1, <2>2, RankQuiet, Zenon
<1>3. CASE \/ IoctlReturnsEffect(t) \/ RegisterSkipsEffect(t) \/ UnregisterNothingEffect(t)
           \/ SynchronizeRcuEffect(t) \/ UnregisterFreesEffect(t)
  <2>1. RankOfOp(rank, t)'
    BY <1>a, <1>3, Zenon DEF IoctlReturnsEffect, RegisterSkipsEffect, UnregisterNothingEffect,
                SynchronizeRcuEffect, UnregisterFreesEffect, Now, RankOfOp,
                     Finding, OpOK, OpenOps, RankedBucket, Refers
  <2>2. bucket' = bucket /\ \A n \in Opens : file'[n] = "unused" => file[n] = "unused"
    BY <1>a, <1>3, Zenon DEF IoctlReturnsEffect, RegisterSkipsEffect, UnregisterNothingEffect,
                SynchronizeRcuEffect, UnregisterFreesEffect
  <2> QED
    BY <1>0, <2>1, <2>2, RankQuiet, Zenon
<1>5. ASSUME NEW k \in Opens, OpenEffect(t, k) \/ ReleaseEffect(t, k) \/ IoctlEffect(t, k)
     PROVE  RankExists'
  <2>1. RankOfOp(rank, t)'
    BY <1>a, <1>5, Zenon DEF OpenEffect, ReleaseEffect, IoctlEffect, Now, RankOfOp,
                     Finding, OpOK, OpenOps, RankedBucket, Refers
  <2>2. bucket' = bucket /\ \A n \in Opens : file'[n] = "unused" => file[n] = "unused"
    BY <1>a, <1>5, Zenon DEF OpenEffect, ReleaseEffect, IoctlEffect
  <2> QED
    BY <1>0, <2>1, <2>2, RankQuiet, Zenon
<1>6. CASE RegisterPublishEffect(t)
  <2>1. RankedBucket(rank, bucket')
    BY <1>a, <1>6, RankPublish, Zenon DEF RegisterPublishEffect, RankOfOp, OpOK, Locals, OpenOps
  <2>2. RankOfOp(rank, t)'
    BY <1>a, <1>6, Zenon DEF RegisterPublishEffect, Now, RankOfOp, Finding
  <2> QED BY <1>0, <1>6, <2>1, <2>2, RankKept, Zenon DEF RegisterPublishEffect, RankExists
<1>7. CASE RegisterBackEffect(t)
  <2>1. RankedBucket(rank, bucket')
    BY <1>a, <1>7, RankAddBack, Zenon DEF RegisterBackEffect, RankOfOp, OpOK, Locals, OpenOps
  <2>2. RankOfOp(rank, t)'
    BY <1>a, <1>7, Zenon DEF RegisterBackEffect, Now, RankOfOp, Finding
  <2> QED BY <1>0, <1>7, <2>1, <2>2, RankKept, Zenon DEF RegisterBackEffect, RankExists
<1>8. CASE UnregisterUnlinkEffect(t)
  <2>1. /\ loc[t].cur \in Opens /\ loc[t].next \in Link /\ loc[t].pprev \in Opens \cup {HeadPtr}
        /\ RankedDel(rank, loc[t].cur, loc[t].next, loc[t].pprev)
    BY <1>a, <1>8, Zenon DEF UnregisterUnlinkEffect, RankOfOp, RankedDel, OpOK, Locals, Link
  <2>2. RankedBucket(rank, bucket')
    BY <1>a, <1>8, <2>1, RankUnlink, Zenon DEF UnregisterUnlinkEffect
  <2>3. RankOfOp(rank, t)'
    BY <1>a, <1>8, Zenon DEF UnregisterUnlinkEffect, Now, RankOfOp, Finding
  <2> QED BY <1>0, <1>8, <2>2, <2>3, RankKept, Zenon DEF UnregisterUnlinkEffect, RankExists
<1>9. CASE UnregisterBackEffect(t)
  <2>1. /\ loc[t].cur \in Opens /\ loc[t].next \in Link /\ loc[t].pprev \in Opens \cup {HeadPtr}
        /\ RankedDel(rank, loc[t].cur, loc[t].next, loc[t].pprev)
    BY <1>a, <1>9, Zenon DEF UnregisterBackEffect, RankOfOp, RankedDel, OpOK, Locals, Link
  <2>2. RankedBucket(rank, bucket')
    BY <1>a, <1>9, <2>1, RankDelBack, Zenon DEF UnregisterBackEffect
  <2>3. RankOfOp(rank, t)'
    BY <1>a, <1>9, Zenon DEF UnregisterBackEffect, Now, RankOfOp, Finding
  <2> QED BY <1>0, <1>9, <2>2, <2>3, RankKept, Zenon DEF UnregisterBackEffect, RankExists
<1>10. CASE RegisterLinkEffect(t)
  BY <1>0, <1>10, RankLink, Zenon
<1> QED
  BY <1>1, <1>2, <1>3, <1>4, <1>5, <1>6, <1>7, <1>8, <1>9, <1>10, Zenon DEF Effect

-----------------------------------------------------------------------------
(* Every step does what its effect says *)

\* The end of a reader's section changes nothing but who waits for it.
LEMMA QuiesceType ==
    ASSUME NEW l \in [Threads -> Locals], NEW r
    PROVE  /\ Quiesce(l, r) \in [Threads -> Locals]
           /\ \A u \in Threads : SameLocals(l[u], Quiesce(l, r)[u])
<1>1. \A w \in Waits : w \ {r} \in Waits
  BY Zenon DEF Waits
<1> QED
  BY <1>1, Zenon DEF Quiesce, Locals, SameLocals

\* A thread that is in no operation has locals of the right kind.
LEMMA NoLocalsType == NoLocals \in Locals
  BY Zenon DEF NoLocals, Locals, Link, Waits

\* A step of t gives it the locals r, and may end a reader's section.
LEMMA LocStep ==
    ASSUME NEW l \in [Threads -> Locals], NEW m, NEW t \in Threads, NEW r \in Locals,
           m = [l EXCEPT ![t] = r] \/ \E q : m = Quiesce([l EXCEPT ![t] = r], q)
    PROVE  /\ m \in [Threads -> Locals]
           /\ SameLocals(r, m[t])
           /\ \A u \in Threads \ {t} : SameLocals(l[u], m[u])
<1> DEFINE e == [l EXCEPT ![t] = r]
<1>1. e \in [Threads -> Locals] /\ e[t] = r /\ \A u \in Threads \ {t} : e[u] = l[u]
  BY Zenon
<1> HIDE DEF e
<1>2. m = e \/ \E q : m = Quiesce(e, q)
  BY Zenon DEF e
<1> QED
  BY <1>1, <1>2, QuiesceType DEF SameLocals

\* A step that sets t's label and locals is nothing to the other threads.
LEMMA MovesTo ==
    ASSUME TypeOK, NEW t \in Threads, NEW label \in Ops \cup {"idle", "ioctl"}, NEW r \in Locals,
           pc' = [pc EXCEPT ![t] = label],
           loc' = [loc EXCEPT ![t] = r] \/ \E q : loc' = Quiesce([loc EXCEPT ![t] = r], q),
           \A u \in Threads \ {t} : trace'[u] = trace[u]
    PROVE  Moves(t, label, r)
<1>1. /\ loc' \in [Threads -> Locals] /\ SameLocals(r, loc'[t])
      /\ \A u \in Threads \ {t} : SameLocals(loc[u], loc'[u])
  BY LocStep, Zenon DEF TypeOK
<1> QED
  BY <1>1, Zenon DEF Moves, TypeOK, OthersKept, Kept, Now, SameLocals

\* The types of what a step reads.
LEMMA Reads ==
    ASSUME TypeOK, NEW t \in Threads
    PROVE  /\ loc[t] \in Locals /\ loc[t].f \in Link /\ loc[t].cur \in Link
           /\ pc[t] \in Ops \cup {"idle", "ioctl"}
           /\ bucket.first \in Link /\ trace[t].cur \in Link
           /\ \A n \in Opens : /\ bucket.next[n] \in Link /\ bucket.pprev[n] \in Link \cup {HeadPtr}
                               /\ private[n] \in Link
  BY Zenon DEF TypeOK, Locals, Buckets

\* Every step of t is one of these.
LEMMA StepDoes ==
    ASSUME TypeOK, OpsOK, NEW t \in Threads, Step(t) \/ Call(t), UNCHANGED mode
    PROVE  TypeOK' /\ OthersKept(t) /\ Effect(t)
<1>1. ASSUME FindNext(t)
     PROVE  TypeOK' /\ OthersKept(t) /\ FindNextEffect(t)
  <2> DEFINE r == [loc[t] EXCEPT !.cur = bucket.next[loc[t].cur]]
  <2>1. r \in Locals
    BY <1>1, Reads, NoLocalsType, ZenonT(60) DEF FindNext, Link, Locals
  <2>2. Moves(t, pc[t], r)
    <3>1. loc' = [loc EXCEPT ![t] = r]
      BY <1>1, Zenon DEF FindNext, TypeOK
    <3>2. pc' = [pc EXCEPT ![t] = pc[t]] /\ \A u \in Threads \ {t} : trace'[u] = trace[u]
      BY <1>1, Zenon DEF FindNext, TypeOK, Goto
    <3>3. pc[t] \in Ops \cup {"idle", "ioctl"}
      BY Reads, Zenon DEF Ops, OpenOps, ReleaseOps
    <3> QED
      BY <2>1, <3>1, <3>2, <3>3, MovesTo, Zenon
  <2>4. TypeOK'
    BY <1>1, <2>2, Reads, Zenon DEF Moves, FindNext, TypeOK, FileStates
  <2> QED
    BY <1>1, <2>2, <2>4, Reads DEF Moves, FindNextEffect, FindNext, At, Link
<1>2. ASSUME OpenBusy(t) \/ OpenNoMem(t)
     PROVE  TypeOK' /\ OthersKept(t) /\ OpenFailsEffect(t)
  <2> DEFINE r == NoLocals
  <2>1. r \in Locals
    BY Reads, NoLocalsType, Zenon DEF Locals
  <2>2. Moves(t, "idle", r)
    <3>1. loc' = [loc EXCEPT ![t] = r]
      BY <1>2, Zenon DEF OpenBusy, OpenNoMem, OpenFails, Return, TypeOK
    <3>2. pc' = [pc EXCEPT ![t] = "idle"] /\ \A u \in Threads \ {t} : trace'[u] = trace[u]
      BY <1>2, Zenon DEF OpenBusy, OpenNoMem, OpenFails, Return, TypeOK, Goto
    <3>3. "idle" \in Ops \cup {"idle", "ioctl"}
      BY Reads, ZenonT(60) DEF Ops, OpenOps, ReleaseOps
    <3> QED
      BY <2>1, <3>1, <3>2, <3>3, MovesTo, Zenon
  <2>4. TypeOK'
    BY <1>2, <2>2, Reads DEF Moves, OpenBusy, OpenNoMem, OpenFails, Return, TypeOK, FileStates
  <2> QED
    BY <1>2, <2>2, <2>4, Reads, Zenon
    DEF Moves, OpenFailsEffect, OpenBusy, OpenNoMem, OpenFails, Return, At, Link, NoLocals
<1>3. ASSUME OpenAlloc(t)
     PROVE  TypeOK' /\ OthersKept(t) /\ OpenAllocEffect(t)
  <2> DEFINE r == [NoLocals EXCEPT !.f = loc[t].f, !.cur = bucket.first]
  <2>1. r \in Locals
    BY Reads, NoLocalsType, Zenon DEF Locals
  <2>2. Moves(t, "reg_find", r)
    <3>1. loc' = [loc EXCEPT ![t] = r]
      BY <1>3, Zenon DEF OpenAlloc, StartFind, NotFound, TypeOK
    <3>2. pc' = [pc EXCEPT ![t] = "reg_find"] /\ \A u \in Threads \ {t} : trace'[u] = trace[u]
      BY <1>3, Zenon DEF OpenAlloc, StartFind, NotFound, TypeOK, Goto
    <3>3. "reg_find" \in Ops \cup {"idle", "ioctl"}
      BY Reads, Zenon DEF Ops, OpenOps, ReleaseOps
    <3> QED
      BY <2>1, <3>1, <3>2, <3>3, MovesTo, Zenon
  <2>4. TypeOK'
    BY <1>3, <2>2, Reads, Zenon DEF Moves, OpenAlloc, StartFind, NotFound, TypeOK, FileStates
  <2> QED
    BY <1>3, <2>2, <2>4, Reads, Zenon
    DEF Moves, OpenAllocEffect, OpenAlloc, StartFind, NotFound, At, Link, NoLocals
<1>4. ASSUME RegisterSkips(t)
     PROVE  TypeOK' /\ OthersKept(t) /\ RegisterSkipsEffect(t)
  <2>1. loc[t] \in Locals
    BY Reads, Zenon
  <2>2. Moves(t, "open_ret", loc[t])
    <3>1. loc' = Quiesce([loc EXCEPT ![t] = loc[t]], <<"op", t>>)
      BY <1>4, Zenon DEF RegisterSkips, Found, TypeOK
    <3>2. pc' = [pc EXCEPT ![t] = "open_ret"] /\ \A u \in Threads \ {t} : trace'[u] = trace[u]
      BY <1>4, Zenon DEF RegisterSkips, Found, TypeOK, Goto
    <3>3. "open_ret" \in Ops \cup {"idle", "ioctl"}
      BY Reads, Zenon DEF Ops, OpenOps, ReleaseOps
    <3> QED
      BY <2>1, <3>1, <3>2, <3>3, MovesTo, Zenon
  <2>4. TypeOK'
    BY <1>4, <2>2, Reads, Zenon DEF Moves, RegisterSkips, Found, TypeOK, FileStates
  <2> QED
    BY <1>4, <2>2, <2>4, Reads, Zenon DEF Moves, RegisterSkipsEffect, RegisterSkips, Found, At, Link
<1>5. ASSUME RegisterLink(t)
     PROVE  TypeOK' /\ OthersKept(t) /\ RegisterLinkEffect(t)
  <2> DEFINE r == [loc[t] EXCEPT !.next = bucket.first]
  <2>1. r \in Locals
    BY Reads, NoLocalsType, Zenon DEF Locals
  <2>2. Moves(t, "reg_publish", r)
    <3>1. loc' = Quiesce([loc EXCEPT ![t] = r], <<"op", t>>)
      BY <1>5, Zenon DEF RegisterLink, NotFound, TypeOK
    <3>2. pc' = [pc EXCEPT ![t] = "reg_publish"] /\ \A u \in Threads \ {t} : trace'[u] = trace[u]
      BY <1>5, Zenon DEF RegisterLink, NotFound, TypeOK, Goto
    <3>3. "reg_publish" \in Ops \cup {"idle", "ioctl"}
      BY Reads, Zenon DEF Ops, OpenOps, ReleaseOps
    <3> QED
      BY <2>1, <3>1, <3>2, <3>3, MovesTo, Zenon
  <2>3. bucket' \in Buckets
    BY <1>5, Reads, Zenon DEF RegisterLink, AddLink, TypeOK, Buckets, Link, Locals
  <2>4. TypeOK'
    BY <1>5, <2>2, <2>3, Reads, Zenon DEF Moves, RegisterLink, NotFound, TypeOK, FileStates
  <2> QED
    BY <1>5, <2>2, <2>4, Reads DEF Moves, RegisterLinkEffect, RegisterLink, NotFound, At, Link
<1>6. ASSUME RegisterPublish(t)
     PROVE  TypeOK' /\ OthersKept(t) /\ RegisterPublishEffect(t)
  <2>1. loc[t] \in Locals
    BY Reads, Zenon
  <2>2. Moves(t, "reg_back", loc[t])
    <3>1. loc' = [loc EXCEPT ![t] = loc[t]]
      BY <1>6, Zenon DEF RegisterPublish, TypeOK
    <3>2. pc' = [pc EXCEPT ![t] = "reg_back"] /\ \A u \in Threads \ {t} : trace'[u] = trace[u]
      BY <1>6, Zenon DEF RegisterPublish, TypeOK, Goto
    <3>3. "reg_back" \in Ops \cup {"idle", "ioctl"}
      BY Reads, Zenon DEF Ops, OpenOps, ReleaseOps
    <3> QED
      BY <2>1, <3>1, <3>2, <3>3, MovesTo, Zenon
  <2>3. bucket' \in Buckets
    BY <1>6, Reads, Zenon DEF RegisterPublish, AddPublish, TypeOK, Buckets, Link, Locals
  <2>4. TypeOK'
    BY <1>6, <2>2, <2>3, Reads, Zenon DEF Moves, RegisterPublish, TypeOK, FileStates
  <2> QED
    BY <1>6, <2>2, <2>4, Reads, Zenon DEF Moves, RegisterPublishEffect, RegisterPublish, At, Link
<1>7. ASSUME RegisterBack(t)
     PROVE  TypeOK' /\ OthersKept(t) /\ RegisterBackEffect(t)
  <2>1. loc[t] \in Locals
    BY Reads, Zenon
  <2>2. Moves(t, "open_ret", loc[t])
    <3>1. loc' = [loc EXCEPT ![t] = loc[t]]
      BY <1>7, Zenon DEF RegisterBack, TypeOK
    <3>2. pc' = [pc EXCEPT ![t] = "open_ret"] /\ \A u \in Threads \ {t} : trace'[u] = trace[u]
      BY <1>7, Zenon DEF RegisterBack, TypeOK, Goto
    <3>3. "open_ret" \in Ops \cup {"idle", "ioctl"}
      BY Reads, Zenon DEF Ops, OpenOps, ReleaseOps
    <3> QED
      BY <2>1, <3>1, <3>2, <3>3, MovesTo, Zenon
  <2>3. bucket' \in Buckets
    BY <1>7, Reads, Zenon DEF RegisterBack, AddBack, TypeOK, Buckets, Link, Locals
  <2>4. TypeOK'
    BY <1>7, <2>2, <2>3, Reads, Zenon DEF Moves, RegisterBack, TypeOK, FileStates
  <2> QED
    BY <1>7, <2>2, <2>4, Reads, Zenon DEF Moves, RegisterBackEffect, RegisterBack, At, Link
<1>8. ASSUME OpenReturns(t)
     PROVE  TypeOK' /\ OthersKept(t) /\ OpenReturnsEffect(t)
  <2> DEFINE r == NoLocals
  <2>1. r \in Locals
    BY Reads, NoLocalsType, Zenon DEF Locals
  <2>2. Moves(t, "idle", r)
    <3>1. loc' = [loc EXCEPT ![t] = r]
      BY <1>8, Zenon DEF OpenReturns, Return, TypeOK
    <3>2. pc' = [pc EXCEPT ![t] = "idle"] /\ \A u \in Threads \ {t} : trace'[u] = trace[u]
      BY <1>8, Zenon DEF OpenReturns, Return, TypeOK, Goto
    <3>3. "idle" \in Ops \cup {"idle", "ioctl"}
      BY Reads, Zenon DEF Ops, OpenOps, ReleaseOps
    <3> QED
      BY <2>1, <3>1, <3>2, <3>3, MovesTo, Zenon
  <2>4. TypeOK'
    BY <1>8, <2>2, Reads, Zenon DEF Moves, OpenReturns, Return, TypeOK, FileStates, Link
  <2> QED
    BY <1>8, <2>2, <2>4, Reads, Zenon
    DEF Moves, OpenReturnsEffect, OpenReturns, Return, At, Link, NoLocals
<1>9. ASSUME UnregisterNothing(t)
     PROVE  TypeOK' /\ OthersKept(t) /\ UnregisterNothingEffect(t)
  <2>1. loc[t] \in Locals
    BY Reads, Zenon
  <2>2. Moves(t, "rel_ret", loc[t])
    <3>1. loc' = Quiesce([loc EXCEPT ![t] = loc[t]], <<"op", t>>)
      BY <1>9, Zenon DEF UnregisterNothing, NotFound, TypeOK
    <3>2. pc' = [pc EXCEPT ![t] = "rel_ret"] /\ \A u \in Threads \ {t} : trace'[u] = trace[u]
      BY <1>9, Zenon DEF UnregisterNothing, NotFound, TypeOK, Goto
    <3>3. "rel_ret" \in Ops \cup {"idle", "ioctl"}
      BY Reads, Zenon DEF Ops, OpenOps, ReleaseOps
    <3> QED
      BY <2>1, <3>1, <3>2, <3>3, MovesTo, Zenon
  <2>4. TypeOK'
    BY <1>9, <2>2, Reads, ZenonT(60) DEF Moves, UnregisterNothing, NotFound, TypeOK, FileStates
  <2> QED
    BY <1>9, <2>2, <2>4, Reads, Zenon
    DEF Moves, UnregisterNothingEffect, UnregisterNothing, NotFound, At, Link
<1>10. ASSUME UnregisterFound(t)
     PROVE  TypeOK' /\ OthersKept(t) /\ UnregisterFoundEffect(t)
  <2> DEFINE r == [loc[t] EXCEPT !.next = bucket.next[loc[t].cur],
      !.pprev = bucket.pprev[loc[t].cur]]
  <2>1. r \in Locals
    BY <1>10, Reads, NoLocalsType, Zenon DEF UnregisterFound, Found, Link, Locals
  <2>2. Moves(t, IF bucket.pprev[loc[t].cur] = Nil THEN "unreg_wait" ELSE "unreg_unlink", r)
    <3>1. loc' = [loc EXCEPT ![t] = r]
      BY <1>10, Zenon DEF UnregisterFound, Found, TypeOK
    <3>2. /\ pc' = [pc EXCEPT ![t] = IF bucket.pprev[loc[t].cur] = Nil
                                      THEN "unreg_wait" ELSE "unreg_unlink"]
          /\ \A u \in Threads \ {t} : trace'[u] = trace[u]
      BY <1>10, Zenon DEF UnregisterFound, Found, TypeOK, Goto
    <3>3. (IF bucket.pprev[loc[t].cur] = Nil THEN "unreg_wait" ELSE "unreg_unlink")
            \in Ops \cup {"idle", "ioctl"}
      BY Reads, Zenon DEF Ops, OpenOps, ReleaseOps
    <3> QED
      BY <2>1, <3>1, <3>2, <3>3, MovesTo, Zenon
  <2>4. TypeOK'
    BY <1>10, <2>2, Reads, Zenon DEF Moves, UnregisterFound, Found, TypeOK, FileStates
  <2> QED
    BY <1>10, <2>2, <2>4, Reads DEF Moves, UnregisterFoundEffect, UnregisterFound, Found, At, Link
<1>11. ASSUME UnregisterUnlink(t)
     PROVE  TypeOK' /\ OthersKept(t) /\ UnregisterUnlinkEffect(t)
  <2>1. loc[t] \in Locals
    BY Reads, Zenon
  <2>2. Moves(t, "unreg_back", loc[t])
    <3>1. loc' = [loc EXCEPT ![t] = loc[t]]
      BY <1>11, Zenon DEF UnregisterUnlink, TypeOK
    <3>2. pc' = [pc EXCEPT ![t] = "unreg_back"] /\ \A u \in Threads \ {t} : trace'[u] = trace[u]
      BY <1>11, Zenon DEF UnregisterUnlink, TypeOK, Goto
    <3>3. "unreg_back" \in Ops \cup {"idle", "ioctl"}
      BY Reads, Zenon DEF Ops, OpenOps, ReleaseOps
    <3> QED
      BY <2>1, <3>1, <3>2, <3>3, MovesTo, Zenon
  <2>3. bucket' \in Buckets
    BY <1>11, Reads, Zenon DEF UnregisterUnlink, DelUnlink, TypeOK, Buckets, Link, Locals
  <2>4. TypeOK'
    BY <1>11, <2>2, <2>3, Reads, Zenon DEF Moves, UnregisterUnlink, TypeOK, FileStates
  <2> QED
    BY <1>11, <2>2, <2>4, Reads, Zenon DEF Moves, UnregisterUnlinkEffect, UnregisterUnlink, At, Link
<1>12. ASSUME UnregisterBack(t)
     PROVE  TypeOK' /\ OthersKept(t) /\ UnregisterBackEffect(t)
  <2>1. loc[t] \in Locals
    BY Reads, Zenon
  <2>2. Moves(t, "unreg_wait", loc[t])
    <3>1. loc' = [loc EXCEPT ![t] = loc[t]]
      BY <1>12, Zenon DEF UnregisterBack, TypeOK
    <3>2. pc' = [pc EXCEPT ![t] = "unreg_wait"] /\ \A u \in Threads \ {t} : trace'[u] = trace[u]
      BY <1>12, Zenon DEF UnregisterBack, TypeOK, Goto
    <3>3. "unreg_wait" \in Ops \cup {"idle", "ioctl"}
      BY Reads, Zenon DEF Ops, OpenOps, ReleaseOps
    <3> QED
      BY <2>1, <3>1, <3>2, <3>3, MovesTo, Zenon
  <2>3. bucket' \in Buckets
    BY <1>12, Reads, Zenon DEF UnregisterBack, DelBack, TypeOK, Buckets, Link, Locals
  <2>4. TypeOK'
    BY <1>12, <2>2, <2>3, Reads, Zenon DEF Moves, UnregisterBack, TypeOK, FileStates
  <2> QED
    BY <1>12, <2>2, <2>4, Reads, Zenon DEF Moves, UnregisterBackEffect, UnregisterBack, At, Link
<1>13. ASSUME SynchronizeRcu(t)
     PROVE  TypeOK' /\ OthersKept(t) /\ SynchronizeRcuEffect(t)
  <2> DEFINE r == [loc[t] EXCEPT !.wait = Readers \ {<<"op", t>>}]
  <2>1. r \in Locals
    <3>1. Readers \ {<<"op", t>>} \in Waits
      BY DEF Readers, Waits
    <3> QED
      BY <3>1, Reads, Zenon DEF Locals
  <2>2. Moves(t, "unreg_sync", r)
    <3>1. loc' = Quiesce([loc EXCEPT ![t] = r], <<"op", t>>)
      <4> DEFINE e == <<"op", t>>
                 q == Quiesce(loc, e)
      <4>1. loc' = [q EXCEPT ![t].wait = Readers \ {e}]
        BY <1>13, Zenon DEF SynchronizeRcu
      <4>2. ASSUME NEW u \in Threads
            PROVE  loc'[u] = [([loc EXCEPT ![t] = r])[u] EXCEPT !.wait = @ \ {e}]
        <5>1. CASE u = t
          <6>1. q[t] = [loc[t] EXCEPT !.wait = loc[t].wait \ {e}] /\ loc[t] \in Locals
            BY Reads, Zenon DEF Quiesce
          <6>2. loc'[t] = [q[t] EXCEPT !.wait = Readers \ {e}]
            BY <4>1, Zenon DEF Quiesce
          <6> QED BY <5>1, <6>1, <6>2, ZenonT(60) DEF Locals, TypeOK
        <5>2. CASE u # t
          BY <4>1, <5>2, Zenon DEF Quiesce, TypeOK
        <5> QED BY <5>1, <5>2, Zenon
      <4>3. loc' = [u \in Threads |-> loc'[u]]
        BY <4>1, Zenon DEF Quiesce
      <4> QED BY <4>2, <4>3, Zenon DEF Quiesce
    <3> QED
      BY <1>13, <2>1, <3>1, MovesTo, Zenon DEF SynchronizeRcu, Goto, Ops, OpenOps, ReleaseOps
  <2>4. TypeOK'
    BY <1>13, <2>2, Reads, Zenon DEF Moves, SynchronizeRcu, TypeOK, FileStates
  <2> QED
    BY <1>13, <2>2, <2>4, Reads DEF Moves, SynchronizeRcuEffect, SynchronizeRcu, At, Link
<1>14. ASSUME UnregisterFrees(t)
     PROVE  TypeOK' /\ OthersKept(t) /\ UnregisterFreesEffect(t)
  <2>1. loc[t] \in Locals
    BY Reads, Zenon
  <2>2. Moves(t, "rel_ret", loc[t])
    <3>1. loc' = Quiesce([loc EXCEPT ![t] = loc[t]], <<"op", t>>)
      BY <1>14, Zenon DEF UnregisterFrees, TypeOK
    <3>2. pc' = [pc EXCEPT ![t] = "rel_ret"] /\ \A u \in Threads \ {t} : trace'[u] = trace[u]
      BY <1>14, Zenon DEF UnregisterFrees, TypeOK, Goto
    <3>3. "rel_ret" \in Ops \cup {"idle", "ioctl"}
      BY Reads, Zenon DEF Ops, OpenOps, ReleaseOps
    <3> QED
      BY <2>1, <3>1, <3>2, <3>3, MovesTo, Zenon
  <2>4. TypeOK'
    BY <1>14, <2>2, Reads, Zenon DEF Moves, UnregisterFrees, TypeOK, FileStates
  <2> QED
    BY <1>14, <2>2, <2>4, Reads, Zenon DEF Moves, UnregisterFreesEffect, UnregisterFrees, At, Link
<1>15. ASSUME ReleaseReturns(t)
     PROVE  TypeOK' /\ OthersKept(t) /\ ReleaseReturnsEffect(t)
  <2> DEFINE r == NoLocals
  <2>1. r \in Locals
    BY Reads, NoLocalsType, Zenon DEF Locals
  <2>2. Moves(t, "idle", r)
    <3>1. loc' = [loc EXCEPT ![t] = r]
      BY <1>15, Zenon DEF ReleaseReturns, Return, TypeOK
    <3>2. pc' = [pc EXCEPT ![t] = "idle"] /\ \A u \in Threads \ {t} : trace'[u] = trace[u]
      BY <1>15, Zenon DEF ReleaseReturns, Return, TypeOK, Goto
    <3>3. "idle" \in Ops \cup {"idle", "ioctl"}
      BY Reads, Zenon DEF Ops, OpenOps, ReleaseOps
    <3> QED
      BY <2>1, <3>1, <3>2, <3>3, MovesTo, Zenon
  <2>4. TypeOK'
    BY <1>15, <2>2, Reads, Zenon DEF Moves, ReleaseReturns, Return, TypeOK, FileStates, Link
  <2> QED
    BY <1>15, <2>2, <2>4, Reads, Zenon
    DEF Moves, ReleaseReturnsEffect, ReleaseReturns, Return, At, Link, NoLocals
<1>16. ASSUME IoctlReturns(t)
     PROVE  TypeOK' /\ OthersKept(t) /\ IoctlReturnsEffect(t)
  <2> DEFINE r == NoLocals
  <2>1. r \in Locals
    BY Reads, NoLocalsType, Zenon DEF Locals
  <2>2. Moves(t, "idle", r)
    <3>1. loc' = [loc EXCEPT ![t] = r]
      BY <1>16, Zenon DEF IoctlReturns, Return, TypeOK
    <3>2. pc' = [pc EXCEPT ![t] = "idle"] /\ \A u \in Threads \ {t} : trace'[u] = trace[u]
      BY <1>16, Zenon DEF IoctlReturns, Return, TypeOK, Goto
    <3>3. "idle" \in Ops \cup {"idle", "ioctl"}
      BY Reads, Zenon DEF Ops, OpenOps, ReleaseOps
    <3> QED
      BY <2>1, <3>1, <3>2, <3>3, MovesTo, Zenon
  <2>4. TypeOK'
    BY <1>16, <2>2, Reads, Zenon DEF Moves, IoctlReturns, Return, TypeOK, FileStates
  <2> QED
    BY <1>16, <2>2, <2>4, Reads, Zenon
    DEF Moves, IoctlReturnsEffect, IoctlReturns, Return, At, Link, NoLocals
<1>17. ASSUME NEW k \in Opens, Open(t, k)
     PROVE  TypeOK' /\ OthersKept(t) /\ OpenEffect(t, k)
  <2> DEFINE r == [NoLocals EXCEPT !.f = k, !.cur = bucket.first]
  <2>1. r \in Locals
    BY Reads, NoLocalsType, Zenon DEF Link, Locals
  <2>2. Moves(t, "open_find", r)
    <3>1. loc' = [loc EXCEPT ![t] = r]
      BY <1>17, Zenon DEF Open, MayEnter, StartFind, TypeOK
    <3>2. pc' = [pc EXCEPT ![t] = "open_find"] /\ \A u \in Threads \ {t} : trace'[u] = trace[u]
      BY <1>17, Zenon DEF Open, MayEnter, StartFind, TypeOK, Goto
    <3>3. "open_find" \in Ops \cup {"idle", "ioctl"}
      BY Reads, Zenon DEF Ops, OpenOps, ReleaseOps
    <3> QED
      BY <2>1, <3>1, <3>2, <3>3, MovesTo, Zenon
  <2>4. TypeOK'
    BY <1>17, <2>2, Reads, Zenon DEF Moves, Open, MayEnter, StartFind, TypeOK, FileStates, Link
  <2> QED
    BY <1>17, <2>2, <2>4, Reads, Zenon
    DEF Moves, OpenEffect, Open, MayEnter, StartFind, At, Link, NoLocals
<1>18. ASSUME NEW k \in Opens, Release(t, k)
     PROVE  TypeOK' /\ OthersKept(t) /\ ReleaseEffect(t, k)
  <2> DEFINE r == [NoLocals EXCEPT !.f = k, !.cur = bucket.first]
  <2>1. r \in Locals
    BY Reads, NoLocalsType, Zenon DEF Link, Locals
  <2>2. Moves(t, "unreg_find", r)
    <3>1. loc' = [loc EXCEPT ![t] = r]
      BY <1>18, Zenon DEF Release, MayEnter, StartFind, TypeOK
    <3>2. pc' = [pc EXCEPT ![t] = "unreg_find"] /\ \A u \in Threads \ {t} : trace'[u] = trace[u]
      BY <1>18, Zenon DEF Release, MayEnter, StartFind, TypeOK, Goto
    <3>3. "unreg_find" \in Ops \cup {"idle", "ioctl"}
      BY Reads, Zenon DEF Ops, OpenOps, ReleaseOps
    <3> QED
      BY <2>1, <3>1, <3>2, <3>3, MovesTo, Zenon
  <2>4. TypeOK'
    BY <1>18, <2>2, Reads, Zenon DEF Moves, Release, MayEnter, StartFind, TypeOK, FileStates, Link
  <2> QED
    BY <1>18, <2>2, <2>4, Reads, Zenon
    DEF Moves, ReleaseEffect, Release, MayEnter, StartFind, At, Link, NoLocals
<1>19. ASSUME NEW k \in Opens, Ioctl(t, k)
     PROVE  TypeOK' /\ OthersKept(t) /\ IoctlEffect(t, k)
  <2> DEFINE r == [NoLocals EXCEPT !.f = k, !.cur = private[k]]
  <2>1. r \in Locals
    BY Reads, NoLocalsType, Zenon DEF Link, Locals
  <2>2. Moves(t, "ioctl", r)
    <3>1. loc' = [loc EXCEPT ![t] = r]
      BY <1>19, Zenon DEF Ioctl, TypeOK
    <3>2. pc' = [pc EXCEPT ![t] = "ioctl"] /\ \A u \in Threads \ {t} : trace'[u] = trace[u]
      BY <1>19, Zenon DEF Ioctl, TypeOK, Goto
    <3>3. "ioctl" \in Ops \cup {"idle", "ioctl"}
      BY Reads, Zenon DEF Ops, OpenOps, ReleaseOps
    <3> QED
      BY <2>1, <3>1, <3>2, <3>3, MovesTo, Zenon
  <2>4. TypeOK'
    BY <1>19, <2>2, Reads, Zenon DEF Moves, Ioctl, TypeOK, FileStates, Link
  <2> QED
    BY <1>19, <2>2, <2>4, Reads, Zenon DEF Moves, IoctlEffect, Ioctl, At, Link, NoLocals
<1>20. ASSUME TraceStart(t)
     PROVE  TypeOK' /\ OthersKept(t) /\ TraceStartEffect(t)
  <2>1. loc[t] \in Locals
    BY Reads, Zenon
  <2>2. Moves(t, pc[t], loc[t])
    <3>1. loc' = [loc EXCEPT ![t] = loc[t]]
      BY <1>20, Zenon DEF TraceStart, TypeOK
    <3>2. pc' = [pc EXCEPT ![t] = pc[t]] /\ \A u \in Threads \ {t} : trace'[u] = trace[u]
      BY <1>20, Zenon DEF TraceStart, TypeOK
    <3>3. pc[t] \in Ops \cup {"idle", "ioctl"}
      BY Reads, Zenon DEF Ops, OpenOps, ReleaseOps
    <3> QED
      BY <2>1, <3>1, <3>2, <3>3, MovesTo, Zenon
  <2>3. trace' \in [Threads -> [st : {"off", "find", "use"},
      cur : Link]] /\ trace'[t] = [st |-> "find", cur |-> bucket.first]
    BY <1>20, Reads, Zenon DEF TraceStart, TypeOK, Link, NoTrace
  <2>4. TypeOK'
    BY <1>20, <2>2, <2>3, Reads, Zenon DEF Moves, TraceStart, TypeOK, FileStates
  <2> QED
    BY <1>20, <2>2, <2>3, <2>4, Reads, Zenon DEF Moves, TraceStartEffect, TraceStart, Link
<1>21. ASSUME TraceNext(t)
     PROVE  TypeOK' /\ OthersKept(t) /\ TraceNextEffect(t)
  <2>1. loc[t] \in Locals
    BY Reads, Zenon
  <2>2. Moves(t, pc[t], loc[t])
    <3>1. loc' = [loc EXCEPT ![t] = loc[t]]
      BY <1>21, Zenon DEF TraceNext, TypeOK
    <3>2. pc' = [pc EXCEPT ![t] = pc[t]] /\ \A u \in Threads \ {t} : trace'[u] = trace[u]
      BY <1>21, Zenon DEF TraceNext, TypeOK
    <3>3. pc[t] \in Ops \cup {"idle", "ioctl"}
      BY Reads, Zenon DEF Ops, OpenOps, ReleaseOps
    <3> QED
      BY <2>1, <3>1, <3>2, <3>3, MovesTo, Zenon
  <2>3. trace' \in [Threads -> [st : {"off", "find", "use"},
      cur : Link]] /\ trace'[t] = [trace[t] EXCEPT !.cur = bucket.next[trace[t].cur]]
    BY <1>21, Reads DEF TraceNext, TypeOK, Link, NoTrace
  <2>4. TypeOK'
    BY <1>21, <2>2, <2>3, Reads, Zenon DEF Moves, TraceNext, TypeOK, FileStates
  <2> QED
    BY <1>21, <2>2, <2>3, <2>4, Reads, Zenon DEF Moves, TraceNextEffect, TraceNext, Link
<1>22. ASSUME TraceMiss(t)
     PROVE  TypeOK' /\ OthersKept(t) /\ TraceMissEffect(t)
  <2>1. loc[t] \in Locals
    BY Reads, Zenon
  <2>2. Moves(t, pc[t], loc[t])
    <3>1. loc' = Quiesce([loc EXCEPT ![t] = loc[t]], <<"trace", t>>)
      BY <1>22, Zenon DEF TraceMiss, TypeOK
    <3>2. pc' = [pc EXCEPT ![t] = pc[t]] /\ \A u \in Threads \ {t} : trace'[u] = trace[u]
      BY <1>22, Zenon DEF TraceMiss, TypeOK
    <3>3. pc[t] \in Ops \cup {"idle", "ioctl"}
      BY Reads, Zenon DEF Ops, OpenOps, ReleaseOps
    <3> QED
      BY <2>1, <3>1, <3>2, <3>3, MovesTo, Zenon
  <2>3. trace' \in [Threads -> [st : {"off", "find", "use"}, cur : Link]] /\ trace'[t] = NoTrace
    BY <1>22, Reads, Zenon DEF TraceMiss, TypeOK, Link, NoTrace
  <2>4. TypeOK'
    BY <1>22, <2>2, <2>3, Reads, Zenon DEF Moves, TraceMiss, TypeOK, FileStates
  <2> QED
    BY <1>22, <2>2, <2>3, <2>4, Reads, Zenon DEF Moves, TraceMissEffect, TraceMiss, Link
<1>23. ASSUME TraceHit(t)
     PROVE  TypeOK' /\ OthersKept(t) /\ TraceHitEffect(t)
  <2>1. loc[t] \in Locals
    BY Reads, Zenon
  <2>2. Moves(t, pc[t], loc[t])
    <3>1. loc' = Quiesce([loc EXCEPT ![t] = loc[t]], <<"trace", t>>)
      BY <1>23, Zenon DEF TraceHit, TypeOK
    <3>2. pc' = [pc EXCEPT ![t] = pc[t]] /\ \A u \in Threads \ {t} : trace'[u] = trace[u]
      BY <1>23, Zenon DEF TraceHit, TypeOK
    <3>3. pc[t] \in Ops \cup {"idle", "ioctl"}
      BY Reads, Zenon DEF Ops, OpenOps, ReleaseOps
    <3> QED
      BY <2>1, <3>1, <3>2, <3>3, MovesTo, Zenon
  <2>3. trace' \in [Threads -> [st : {"off", "find", "use"},
      cur : Link]] /\ trace'[t] = [trace[t] EXCEPT !.st = "use"]
    BY <1>23, Reads DEF TraceHit, TypeOK, Link, NoTrace
  <2>4. TypeOK'
    BY <1>23, <2>2, <2>3, Reads, Zenon DEF Moves, TraceHit, TypeOK, FileStates
  <2> QED
    BY <1>23, <2>2, <2>3, <2>4, Reads, Zenon DEF Moves, TraceHitEffect, TraceHit, Link
<1>24. ASSUME TraceReturns(t)
     PROVE  TypeOK' /\ OthersKept(t) /\ TraceReturnsEffect(t)
  <2>1. loc[t] \in Locals
    BY Reads, Zenon
  <2>2. Moves(t, pc[t], loc[t])
    <3>1. loc' = Quiesce([loc EXCEPT ![t] = loc[t]], <<"trace", t>>)
      BY <1>24, Zenon DEF TraceReturns, TypeOK
    <3>2. pc' = [pc EXCEPT ![t] = pc[t]] /\ \A u \in Threads \ {t} : trace'[u] = trace[u]
      BY <1>24, Zenon DEF TraceReturns, TypeOK
    <3>3. pc[t] \in Ops \cup {"idle", "ioctl"}
      BY Reads, Zenon DEF Ops, OpenOps, ReleaseOps
    <3> QED
      BY <2>1, <3>1, <3>2, <3>3, MovesTo, Zenon
  <2>3. trace' \in [Threads -> [st : {"off", "find", "use"}, cur : Link]] /\ trace'[t] = NoTrace
    BY <1>24, Reads, Zenon DEF TraceReturns, TypeOK, Link, NoTrace
  <2>4. TypeOK'
    BY <1>24, <2>2, <2>3, Reads, Zenon DEF Moves, TraceReturns, TypeOK, FileStates
  <2> QED
    BY <1>24, <2>2, <2>3, <2>4, Reads, Zenon DEF Moves, TraceReturnsEffect, TraceReturns, Link
<1> QED
  BY <1>1, <1>2, <1>3, <1>4, <1>5, <1>6, <1>7, <1>8, <1>9, <1>10, <1>11, <1>12, <1>13, <1>14,
      <1>15, <1>16, <1>17, <1>18, <1>19, <1>20, <1>21, <1>22, <1>23, <1>24, ZenonT(60)
  DEF Effect, Step, Call

\* What a step may change, and which steps do.
LEMMA Frame ==
    ASSUME NEW t \in Threads, Effect(t)
    PROVE  /\ \/ bucket' = bucket
              \/ RegisterLinkEffect(t) \/ RegisterPublishEffect(t) \/ RegisterBackEffect(t)
              \/ UnregisterUnlinkEffect(t) \/ UnregisterBackEffect(t)
           /\ mods' = mods \/ OpenAllocEffect(t) \/ UnregisterFreesEffect(t)
           /\ tgid' = tgid \/ \E k \in Opens : OpenEffect(t, k)
           /\ \/ UNCHANGED <<file, private>>
              \/ OpenFailsEffect(t) \/ OpenReturnsEffect(t) \/ ReleaseReturnsEffect(t)
              \/ \E k \in Opens : OpenEffect(t, k) \/ ReleaseEffect(t, k)
           /\ \/ trace' = trace \/ TraceStartEffect(t) \/ TraceNextEffect(t)
              \/ TraceMissEffect(t) \/ TraceHitEffect(t) \/ TraceReturnsEffect(t)
  BY Zenon DEF Effect, FindNextEffect, OpenFailsEffect, OpenAllocEffect, RegisterSkipsEffect,
     RegisterLinkEffect, RegisterPublishEffect, RegisterBackEffect, OpenReturnsEffect,
     UnregisterNothingEffect, UnregisterFoundEffect, UnregisterUnlinkEffect,
     UnregisterBackEffect, SynchronizeRcuEffect, UnregisterFreesEffect,
     ReleaseReturnsEffect, IoctlReturnsEffect, TraceStartEffect, TraceNextEffect,
     TraceMissEffect, TraceHitEffect, TraceReturnsEffect, OpenEffect, ReleaseEffect,
     IoctlEffect

=============================================================================
