---------------------------- MODULE KunwMapLists -----------------------------
(***************************************************************************)
(* Proofs about KunwMap, second part: what a traversal of the bucket       *)
(* reaches, what each store of hlist_add_head_rcu and hlist_del_rcu does   *)
(* to that, and the steps of a kunwind_process_register and a              *)
(* kunwind_process_unregister that no other one interrupts.                *)
(***************************************************************************)
EXTENDS KunwMapSteps
-----------------------------------------------------------------------------
(* What a traversal reaches *)

\* A traversal does not leave the nodes it reaches.
LEMMA ReachClosed ==
    ASSUME NEW h \in Buckets, NEW n \in Link
    PROVE  Closed(h, n, Reach(h, n)) /\ Reach(h, n) \subseteq Opens
<1> DEFINE closed == {S \in SUBSET Opens : Closed(h, n, S)}
<1>1. DOMAIN h.next = Opens /\ h.next \in [Opens -> Link]
  BY Zenon DEF Buckets
<1>2. Reach(h, n) = {m \in Opens : \A S \in closed : m \in S}
  BY <1>1, Zenon DEF Reach
<1>3. n \in Reach(h, n) \cup {Nil}
  <2>1. \A S \in closed : n \in S \cup {Nil}
    BY Zenon DEF Closed
  <2> QED BY <1>2, <2>1, Zenon DEF Link
<1>4. ASSUME NEW m \in Reach(h, n) PROVE h.next[m] \in Reach(h, n) \cup {Nil}
  <2>1. m \in Opens /\ \A S \in closed : m \in S
    BY <1>2, Zenon
  <2>2. \A S \in closed : h.next[m] \in S \cup {Nil}
    BY <2>1, Zenon DEF Closed
  <2>3. h.next[m] \in Link
    BY <1>1, <2>1, Zenon
  <2> QED BY <1>2, <2>2, <2>3, Zenon DEF Link
<1> QED
  BY <1>2, <1>3, <1>4, Zenon DEF Closed

\* What it reaches is within any set it does not leave.
LEMMA ReachLeast ==
    ASSUME NEW h \in Buckets, NEW n \in Link, NEW S \in SUBSET Opens, Closed(h, n, S)
    PROVE  Reach(h, n) \subseteq S
<1>1. DOMAIN h.next = Opens
  BY Zenon DEF Buckets
<1> QED
  BY <1>1, Zenon DEF Reach

\* A traversal at the end reaches nothing.
LEMMA ReachNil ==
    ASSUME NEW h \in Buckets
    PROVE  Reach(h, Nil) = {}
<1>1. Closed(h, Nil, {}) /\ Nil \in Link
  BY Zenon DEF Closed, Link
<1>2. Reach(h, Nil) \subseteq {}
  BY <1>1, ReachLeast, Zenon
<1> QED
  BY <1>2, Zenon

\* From a node, it reaches the node and what it reaches from the next one.
LEMMA ReachStep ==
    ASSUME NEW h \in Buckets, NEW n \in Opens
    PROVE  /\ n \in Reach(h, n) /\ n # Nil
           /\ Reach(h, n) = {n} \cup Reach(h, h.next[n])
<1>1. n \in Link /\ h.next[n] \in Link /\ n # Nil
  BY NodeNotNil, Zenon DEF Buckets, Link
<1>2. n \in Reach(h, n) /\ h.next[n] \in Reach(h, n) \cup {Nil}
  BY <1>1, ReachClosed, Zenon DEF Closed
<1>3. Closed(h, h.next[n], Reach(h, n))
  BY <1>1, <1>2, ReachClosed, Zenon DEF Closed
<1>4. Reach(h, h.next[n]) \subseteq Reach(h, n)
  BY <1>1, <1>3, ReachClosed, ReachLeast, Zenon
<1>5. Closed(h, n, {n} \cup Reach(h, h.next[n]))
  BY <1>1, ReachClosed, Zenon DEF Closed
<1>6. Reach(h, n) \subseteq {n} \cup Reach(h, h.next[n])
  BY <1>1, <1>5, ReachClosed, ReachLeast, Zenon
<1> QED
  BY <1>1, <1>2, <1>4, <1>6, Zenon

\* It does not look at pprev.
LEMMA ReachByNext ==
    ASSUME NEW h, NEW g, g.next = h.next, NEW n
    PROVE  Reach(g, n) = Reach(h, n)
  BY Zenon DEF Reach, Closed

\* Linking a node that it does not reach changes nothing.
LEMMA LinkOutside ==
    ASSUME NEW h \in Buckets, NEW g \in Buckets, NEW x \in Link, NEW n \in Opens, NEW v \in Link,
           g.next = [h.next EXCEPT ![n] = v], n \notin Reach(h, x)
    PROVE  Reach(g, x) = Reach(h, x)
<1>1. \A m \in Opens \ {n} : g.next[m] = h.next[m]
  BY Zenon DEF Buckets
<1>2. Closed(g, x, Reach(h, x)) /\ Reach(h, x) \subseteq Opens
  BY <1>1, ReachClosed, Zenon DEF Closed
<1>3. Reach(g, x) \subseteq Reach(h, x)
  BY <1>2, ReachLeast, Zenon
<1>4. Closed(h, x, Reach(g, x)) /\ Reach(g, x) \subseteq Opens
  <2>1. Closed(g, x, Reach(g, x)) /\ Reach(g, x) \subseteq Opens
    BY ReachClosed, Zenon
  <2>2. \A m \in Reach(g, x) : m # n /\ g.next[m] = h.next[m]
    BY <1>1, <1>3, <2>1, Zenon
  <2> QED BY <2>1, <2>2, Zenon DEF Closed
<1>5. Reach(h, x) \subseteq Reach(g, x)
  BY <1>4, ReachLeast, Zenon
<1> QED
  BY <1>3, <1>5, Zenon

\* Leading p, which led to c, past c: a traversal, wherever it stands, misses at most c.
LEMMA Bypass ==
    ASSUME NEW h \in Buckets, NEW g \in Buckets, NEW x \in Link, NEW p \in Opens, NEW c \in Opens,
           h.next[p] = c, p # c, g.next = [h.next EXCEPT ![p] = h.next[c]]
    PROVE  Reach(g, x) \subseteq Reach(h, x) /\ Reach(h, x) \subseteq Reach(g, x) \cup {c}
<1>1. /\ \A m \in Opens \ {p} : g.next[m] = h.next[m]
      /\ g.next[p] = h.next[c] /\ g.next[c] = h.next[c]
      /\ c # Nil
  BY NodeNotNil, Zenon DEF Buckets
<1>2. Closed(g, x, Reach(h, x)) /\ Reach(h, x) \subseteq Opens
  BY <1>1, ReachClosed DEF Closed
<1>3. Reach(g, x) \subseteq Reach(h, x)
  BY <1>2, ReachLeast, Zenon
<1>4. Closed(g, x, Reach(g, x)) /\ Reach(g, x) \subseteq Opens
  BY ReachClosed, Zenon
<1>5. CASE p \in Reach(g, x) \/ c \in Reach(g, x)
  <2>1. Closed(h, x, Reach(g, x) \cup {c})
    BY <1>1, <1>4, <1>5, Zenon DEF Closed
  <2> QED BY <1>3, <1>4, <2>1, ReachLeast
<1>6. CASE p \notin Reach(g, x) /\ c \notin Reach(g, x)
  <2>1. Closed(h, x, Reach(g, x))
    BY <1>1, <1>4, <1>6, Zenon DEF Closed
  <2> QED BY <1>3, <1>4, <2>1, ReachLeast, Zenon
<1> QED
  BY <1>5, <1>6, Zenon

\* A node of the list is the first one, or another node of the list leads to it.
LEMMA HasPredecessor ==
    ASSUME NEW h \in Buckets, NEW n \in Chain(h), h.first # n
    PROVE  \E m \in Chain(h) : h.next[m] = n
<1> SUFFICES ASSUME \A m \in Chain(h) : h.next[m] # n PROVE FALSE
  BY Zenon
<1>1. h.first \in Link
  BY Zenon DEF Buckets
<1>2. Closed(h, h.first, Chain(h)) /\ Chain(h) \subseteq Opens
  BY <1>1, ReachClosed, Zenon DEF Chain
<1>3. Closed(h, h.first, Chain(h) \ {n})
  BY <1>2, Zenon DEF Closed
<1>4. Chain(h) \subseteq Chain(h) \ {n}
  BY <1>1, <1>2, <1>3, ReachLeast DEF Chain
<1> QED
  BY <1>4, Zenon

-----------------------------------------------------------------------------
(* What the list operations do to a ranked list that nothing else changes *)

\* A traversal goes down in rank.
LEMMA RankReach ==
    ASSUME NEW rank \in [Opens -> Nat], NEW h \in Buckets, RankedBucket(rank, h),
           NEW x \in Link, Refers(rank, x)
    PROVE  \A m \in Reach(h, x) :
               m \in Opens /\ rank[m] > 0 /\ (x \in Opens => rank[m] <= rank[x])
<1> DEFINE S == {m \in Opens : rank[m] > 0 /\ (x \in Opens => rank[m] <= rank[x])}
<1>1. x \in S \cup {Nil}
  BY DEF Link, Refers
<1>2. ASSUME NEW m \in S PROVE h.next[m] \in S \cup {Nil}
  <2>1. h.next[m] \in Link /\ Refers(rank, h.next[m]) /\ Above(rank, m, h.next[m])
    BY Zenon DEF RankedBucket, Buckets
  <2> QED BY <2>1 DEF Link, Refers, Above
<1>3. S \in SUBSET Opens /\ Closed(h, x, S)
  BY <1>1, <1>2, Zenon DEF Closed
<1>4. Reach(h, x) \subseteq S
  BY <1>3, ReachLeast, Zenon
<1> QED
  BY <1>4, Zenon

\* It does not come back to where it has been.
LEMMA NoReturn ==
    ASSUME NEW rank \in [Opens -> Nat], NEW h \in Buckets, RankedBucket(rank, h), NEW n \in Opens
    PROVE  n \notin Reach(h, h.next[n])
<1>1. h.next[n] \in Link /\ Refers(rank, h.next[n]) /\ Above(rank, n, h.next[n])
  BY Zenon DEF RankedBucket, Buckets
<1>2. CASE h.next[n] = Nil
  BY <1>2, ReachNil, Zenon
<1>3. CASE h.next[n] \in Opens
  <2>1. rank[h.next[n]] < rank[n] /\ rank[n] \in Nat /\ rank[h.next[n]] \in Nat
    BY <1>1, <1>3, Zenon DEF Above
  <2>2. n \in Reach(h, h.next[n]) => rank[n] <= rank[h.next[n]]
    BY <1>1, <1>3, RankReach, Zenon
  <2> QED BY <2>1, <2>2
<1> QED
  BY <1>1, <1>2, <1>3, Zenon DEF Link

\* The first node of a list is the highest: no node of the list leads to it.
LEMMA NothingBeforeFirst ==
    ASSUME NEW rank \in [Opens -> Nat], NEW h \in Buckets, RankedBucket(rank, h),
           NEW x \in Opens, Refers(rank, x), NEW n \in Reach(h, x)
    PROVE  h.next[n] # x
<1>1. n \in Opens /\ rank[n] <= rank[x] /\ x \in Link
  BY RankReach, Zenon DEF Link
<1>2. Above(rank, n, h.next[n])
  BY <1>1, Zenon DEF RankedBucket
<1> QED
  BY <1>1, <1>2 DEF Above

\* What is in the chain, and where its nodes lead.
LEMMA ChainIs ==
    ASSUME NEW h \in Buckets
    PROVE  /\ Chain(h) \subseteq Opens /\ h.first \in Chain(h) \cup {Nil}
           /\ \A n \in Chain(h) : h.next[n] \in Chain(h) \cup {Nil}
<1>1. h.first \in Link
  BY Zenon DEF Buckets
<1> QED
  BY <1>1, ReachClosed, Zenon DEF Chain, Closed

\* hlist_add_head_rcu, the node's own links: readers do not notice.
LEMMA LinkKeeps ==
    ASSUME NEW h \in Buckets, NEW n \in Opens, n \notin Chain(h),
           NEW g \in Buckets, g = AddLink(h, n)
    PROVE  /\ Chain(g) = Chain(h) /\ (LinksBack(h, Nil) => LinksBack(g, Nil))
           /\ g.first = h.first /\ g.next[n] = h.first /\ g.pprev[n] = HeadPtr
<1>1. /\ g.first = h.first /\ g.next = [h.next EXCEPT ![n] = h.first]
      /\ g.pprev = [h.pprev EXCEPT ![n] = HeadPtr] /\ h.first \in Link
      /\ h.next \in [Opens -> Link] /\ h.pprev \in [Opens -> Link \cup {HeadPtr}]
  BY Zenon DEF AddLink, Buckets
<1>2. Chain(g) = Chain(h)
  BY <1>1, LinkOutside DEF Chain
<1>3. ASSUME LinksBack(h, Nil) PROVE LinksBack(g, Nil)
  BY <1>1, <1>2, <1>3, ChainIs DEF LinksBack
<1> QED
  BY <1>1, <1>2, <1>3, Zenon

\* The store to first adds the node.
LEMMA PublishAdds ==
    ASSUME NEW h \in Buckets, NEW n \in Opens, n \notin Chain(h), h.next[n] = h.first,
           h.pprev[n] = HeadPtr, LinksBack(h, Nil), NEW g \in Buckets, g = AddPublish(h, n)
    PROVE  /\ Chain(g) = Chain(h) \cup {n} /\ LinksBack(g, h.first)
           /\ g.first = n /\ g.next = h.next
<1>1. g.first = n /\ g.next = h.next /\ g.pprev = h.pprev
  BY Zenon DEF AddPublish, Buckets
<1>2. Chain(g) = Chain(h) \cup {n}
  BY <1>1, ReachByNext, ReachStep DEF Chain
<1>3. LinksBack(g, h.first)
  BY <1>1, <1>2, ChainIs, NodeNotNil, ZenonT(60) DEF LinksBack
<1> QED
  BY <1>1, <1>2, <1>3, Zenon

\* The store to the old first node's pprev makes the list whole again.
LEMMA BackCompletes ==
    ASSUME NEW rank \in [Opens -> Nat], NEW h \in Buckets, RankedBucket(rank, h), NEW n \in Opens,
           NEW next \in Link, h.first = n, h.next[n] = next, LinksBack(h, next),
           NEW g \in Buckets, g = AddBack(h, n, next)
    PROVE  Chain(g) = Chain(h) /\ LinksBack(g, Nil)
<1>1. CASE next = Nil
  BY <1>1, Zenon DEF AddBack
<1>2. CASE next \in Opens
  <2>1. /\ g.first = h.first /\ g.next = h.next /\ g.pprev[next] = n
        /\ \A m \in Opens \ {next} : g.pprev[m] = h.pprev[m]
    BY <1>2, NodeNotNil, Zenon DEF AddBack, Buckets
  <2>2. Chain(g) = Chain(h)
    BY <2>1, ReachByNext DEF Chain
  <2>3. Chain(h) = {n} \cup Reach(h, next) /\ n # next
    <3>1. n \in Link /\ Chain(h) = {n} \cup Reach(h, next)
      BY ReachStep, Zenon DEF Chain, Link
    <3>2. next \in Reach(h, next) /\ n \notin Reach(h, next)
      BY <1>2, ReachStep, NoReturn, Zenon
    <3> QED BY <3>1, <3>2, Zenon
  <2>4. \A m \in Reach(h, next) : h.next[m] # next
    BY <1>2, NothingBeforeFirst, ZenonT(60) DEF RankedBucket
  <2>5. g.pprev[g.first] = HeadPtr
    BY <2>1, <2>3 DEF LinksBack
  <2>6. ASSUME NEW m \in Chain(g), g.next[m] \in Opens PROVE g.pprev[g.next[m]] = m
    <3>1. CASE g.next[m] = next
      BY <2>1, <2>2, <2>3, <2>4, <3>1
    <3>2. CASE g.next[m] # next
      BY <2>1, <2>2, <2>6, <3>2 DEF LinksBack
    <3> QED BY <3>1, <3>2, Zenon
  <2> QED
    BY <2>2, <2>5, <2>6, Zenon DEF LinksBack
<1> QED
  BY <1>1, <1>2, Zenon DEF Link

\* In a whole list, pprev of a node leads to the one place that leads to it.
LEMMA PprevIs ==
    ASSUME NEW h \in Buckets, LinksBack(h, Nil), NEW c \in Chain(h)
    PROVE  /\ c \in Opens
           /\ h.first = c => h.pprev[c] = HeadPtr
           /\ h.first # c => h.pprev[c] \in Chain(h) /\ h.next[h.pprev[c]] = c
           /\ \A m \in Chain(h) : h.next[m] = c => h.pprev[c] = m
<1>1. c \in Opens \ {Nil}
  BY ChainIs, NodeNotNil, Zenon
<1>2. \A m \in Chain(h) : h.next[m] = c => h.pprev[c] = m
  BY <1>1, Zenon DEF LinksBack
<1>3. h.first # c => \E m \in Chain(h) : h.next[m] = c
  BY HasPredecessor, Zenon
<1> QED
  BY <1>1, <1>2, <1>3, Zenon DEF LinksBack

\* hlist_del_init_rcu, the store that removes the node.
Removed(h, g, c, next, pprev) ==
    /\ Chain(g) = Chain(h) \ {c} /\ LinksBack(g, next)
    /\ next # Nil =>
        /\ g.first = next => pprev = HeadPtr
        /\ \A n \in Chain(g) : g.next[n] = next => pprev = n

\* The store of __hlist_del that unlinks the first node ...
LEMMA UnlinkFirst ==
    ASSUME NEW rank \in [Opens -> Nat], NEW h \in Buckets, RankedBucket(rank, h), LinksBack(h, Nil),
           NEW c \in Opens, h.first = c, NEW g \in Buckets,
           g.first = h.next[c], g.next = h.next, g.pprev = h.pprev
    PROVE  Removed(h, g, c, h.next[c], HeadPtr)
<1>1. h.next[c] \in Link /\ Refers(rank, h.next[c])
  BY Zenon DEF Buckets, RankedBucket
<1>2. Chain(g) = Reach(h, h.next[c])
  BY ReachByNext, ZenonT(60) DEF Chain
<1>3. Chain(g) = Chain(h) \ {c}
  BY <1>2, ReachStep, NoReturn DEF Chain
<1>4. LinksBack(g, h.next[c])
  BY <1>3, ChainIs, NodeNotNil, Zenon DEF LinksBack
<1>5. ASSUME h.next[c] # Nil, NEW n \in Chain(g), g.next[n] = h.next[c] PROVE FALSE
  BY <1>1, <1>2, <1>5, NothingBeforeFirst, Zenon DEF Link
<1> QED
  BY <1>3, <1>4, <1>5, Zenon DEF Removed

\* ... or a later one ...
LEMMA UnlinkLater ==
    ASSUME NEW rank \in [Opens -> Nat], NEW h \in Buckets, RankedBucket(rank, h), LinksBack(h, Nil),
           NEW c \in Chain(h), h.first # c, NEW p \in Chain(h), h.next[p] = c, h.pprev[c] = p,
           NEW g \in Buckets,
           g.first = h.first, g.next = [h.next EXCEPT ![p] = h.next[c]], g.pprev = h.pprev
    PROVE  Removed(h, g, c, h.next[c], p)
<1>1. /\ c \in Opens /\ p \in Opens /\ h.next[c] \in Link /\ h.first \in Link
      /\ g.next[p] = h.next[c] /\ \A m \in Opens \ {p} : g.next[m] = h.next[m]
  BY ChainIs, Zenon DEF Buckets
<1>2. h.next[c] # c /\ p # c
  BY <1>1, NoReturn, ReachStep
<1>3. Chain(g) \subseteq Chain(h) /\ Chain(h) \subseteq Chain(g) \cup {c}
  BY <1>1, <1>2, Bypass DEF Chain
<1>4. \A m \in Chain(h) : h.next[m] = c => m = p
  BY PprevIs, ZenonT(60)
<1>5. Closed(g, g.first, Chain(h) \ {c})
  <2>1. g.first \in (Chain(h) \ {c}) \cup {Nil}
    BY ChainIs, Zenon
  <2>2. ASSUME NEW m \in Chain(h) \ {c} PROVE g.next[m] \in (Chain(h) \ {c}) \cup {Nil}
    <3>1. CASE m = p
      BY <1>1, <1>2, <3>1, ChainIs, Zenon
    <3>2. CASE m # p
      BY <1>1, <1>4, <3>2, ChainIs
    <3> QED BY <3>1, <3>2, Zenon
  <2> QED BY <2>1, <2>2, Zenon DEF Closed
<1>6. Chain(g) = Chain(h) \ {c}
  <2>1. Chain(h) \ {c} \in SUBSET Opens /\ g.first \in Link
    BY <1>1, ChainIs, Zenon
  <2>2. Chain(g) \subseteq Chain(h) \ {c}
    BY <1>5, <2>1, ReachLeast DEF Chain
  <2> QED BY <1>3, <2>2, Zenon
<1>7. LinksBack(g, h.next[c])
  BY <1>1, <1>6, ChainIs, NodeNotNil DEF LinksBack
<1>8. ASSUME h.next[c] # Nil, g.first = h.next[c] PROVE FALSE
  <2>1. h.first \in Opens /\ Refers(rank, h.first) /\ c \in Reach(h, h.first)
    BY <1>1, <1>8, Zenon DEF Chain, RankedBucket, Link
  <2> QED BY <1>8, <2>1, NothingBeforeFirst
<1>9. ASSUME h.next[c] # Nil, NEW n \in Chain(g), g.next[n] = h.next[c] PROVE p = n
  <2>1. h.next[c] \in Chain(h)
    BY <1>9, ChainIs, Zenon
  <2>2. CASE n # p
    BY <1>1, <1>6, <1>9, <2>1, <2>2, ChainIs, PprevIs
  <2> QED BY <2>2, Zenon
<1> QED
  BY <1>6, <1>7, <1>8, <1>9, Zenon DEF Removed

\* ... takes that node, and no other, from a whole list.
LEMMA UnlinkRemoves ==
    ASSUME NEW rank \in [Opens -> Nat], NEW h \in Buckets, RankedBucket(rank, h), LinksBack(h, Nil),
           NEW c \in Chain(h), NEW g \in Buckets, g = DelUnlink(h, c, h.next[c], h.pprev[c])
    PROVE  Removed(h, g, c, h.next[c], h.pprev[c])
<1>1. c \in Opens /\ h.next \in [Opens -> Link] /\ h.first \in Link
  BY ChainIs, Zenon DEF Buckets
<1>2. CASE h.first = c
  <2>1. h.pprev[c] = HeadPtr
    BY <1>2, PprevIs, Zenon
  <2>2. g.first = h.next[c] /\ g.next = h.next /\ g.pprev = h.pprev
    BY <2>1, Zenon DEF DelUnlink, Buckets
  <2> QED BY <1>1, <1>2, <2>1, <2>2, UnlinkFirst, Zenon
<1>3. CASE h.first # c
  <2>1. h.pprev[c] \in Chain(h) /\ h.next[h.pprev[c]] = c /\ h.pprev[c] # HeadPtr
    BY <1>3, PprevIs, ChainIs, NodeNotNil
  <2>2. g.first = h.first /\ g.next = [h.next EXCEPT ![h.pprev[c]] = h.next[c]] /\ g.pprev = h.pprev
    BY <2>1, Zenon DEF DelUnlink, Buckets
  <2> QED BY <1>3, <2>1, <2>2, UnlinkLater, Zenon
<1> QED
  BY <1>2, <1>3, Zenon

\* The stores to pprev make the list whole again.
LEMMA DelBackCompletes ==
    ASSUME NEW h \in Buckets, NEW c \in Opens, NEW next \in Link, NEW pprev \in Link \cup {HeadPtr},
           next # c, c \notin Chain(h), LinksBack(h, next),
           next # Nil =>
               /\ h.first = next => pprev = HeadPtr
               /\ \A n \in Chain(h) : h.next[n] = next => pprev = n,
           NEW g \in Buckets, g = DelBack(h, c, next, pprev)
    PROVE  Chain(g) = Chain(h) /\ LinksBack(g, Nil)
<1>1. /\ g.first = h.first /\ g.next = h.next
      /\ next \in Opens => g.pprev[next] = pprev
      /\ \A m \in Opens \ {c, next} : g.pprev[m] = h.pprev[m]
  BY DelBackIs
<1>2. Chain(g) = Chain(h)
  BY <1>1, ReachByNext DEF Chain
<1>3. g.first \in Opens => g.first # c /\ g.pprev[g.first] = HeadPtr
  BY <1>1, ChainIs, NodeNotNil DEF LinksBack
<1>4. ASSUME NEW n \in Chain(g), g.next[n] \in Opens PROVE g.pprev[g.next[n]] = n
  <2>1. g.next[n] # c /\ n \in Chain(h) /\ g.next[n] = h.next[n]
    BY <1>1, <1>2, <1>4, ChainIs, NodeNotNil
  <2>2. CASE g.next[n] = next
    BY <1>1, <1>4, <2>1, <2>2, NodeNotNil, Zenon
  <2>3. CASE g.next[n] # next
    BY <1>1, <1>4, <2>1, <2>3, Zenon DEF LinksBack
  <2> QED BY <2>2, <2>3, Zenon
<1> QED
  BY <1>2, <1>3, <1>4, Zenon DEF LinksBack

\* Taking a node out of the list takes it, and no other, from the traversals.
LEMMA UnlinkReach ==
    ASSUME NEW rank \in [Opens -> Nat], NEW h \in Buckets, RankedBucket(rank, h), LinksBack(h, Nil),
           NEW c \in Chain(h), NEW g \in Buckets, g = DelUnlink(h, c, h.next[c], h.pprev[c]),
           NEW x \in Link
    PROVE  Reach(g, x) \subseteq Reach(h, x) /\ Reach(h, x) \subseteq Reach(g, x) \cup {c}
<1>1. c \in Opens /\ h.next \in [Opens -> Link]
  BY ChainIs, Zenon DEF Buckets
<1>2. CASE h.first = c
  <2>1. h.pprev[c] = HeadPtr
    BY <1>2, PprevIs, Zenon
  <2>2. g.next = h.next
    BY <2>1, Zenon DEF DelUnlink, Buckets
  <2> QED BY <2>2, ReachByNext, Zenon
<1>3. CASE h.first # c
  <2>1. h.pprev[c] \in Chain(h) /\ h.next[h.pprev[c]] = c /\ h.pprev[c] \in Opens
    BY <1>3, PprevIs, ChainIs, Zenon
  <2>2. g.next = [h.next EXCEPT ![h.pprev[c]] = h.next[c]]
    BY <2>1, NodeNotNil, Zenon DEF DelUnlink, Buckets
  <2>3. h.pprev[c] # c
    BY <1>1, <2>1, NoReturn, ReachStep
  <2> QED BY <1>1, <2>1, <2>2, <2>3, Bypass
<1> QED
  BY <1>2, <1>3, Zenon

-----------------------------------------------------------------------------
(* The operations one at a time *)

\* A step that is not of an operation changes nothing in the registry.
LEMMA SerialQuiet ==
    ASSUME Serial, UNCHANGED <<bucket, mods, tgid>>,
           \A u \in Threads : \/ pc'[u] = pc[u] /\ SameLocals(loc[u], loc'[u])
                              \/ pc[u] \notin Ops /\ pc'[u] \notin Ops
    PROVE  Serial'
<1>1. ASSUME NEW u \in Threads PROVE SerialOp(u)'
  <2>1. CASE pc'[u] = pc[u] /\ SameLocals(loc[u], loc'[u])
    <3>1. SerialOp(u)
      BY Zenon DEF Serial
    <3> QED BY <2>1, <3>1, Zenon DEF SerialOp, SameLocals, Sees
  <2>2. CASE pc'[u] \notin Ops
    BY <2>2, Zenon DEF SerialOp, Ops, OpenOps, ReleaseOps, Finding
  <2> QED BY <2>1, <2>2, Zenon
<1>2. \A u \in Threads :
        /\ pc'[u] \in Ops => pc[u] \in Ops
        /\ pc'[u] \in Behind => pc[u] \in Behind /\ loc'[u].next = loc[u].next
        /\ pc[u] \in Behind => pc'[u] \in Behind
  BY Zenon DEF Behind, Ops, OpenOps, ReleaseOps, SameLocals
<1>3. Registered'
  BY Zenon DEF Serial, Registered
<1> QED
  BY <1>1, <1>2, <1>3, Zenon DEF Serial

\* A step of the one thread that is in an operation.
LEMMA SerialActs ==
    ASSUME NEW t \in Threads, OthersKept(t), \A u \in Threads \ {t} : pc[u] \notin Ops,
           SerialOp(t)', Registered',
           LinksBack(bucket', IF pc'[t] \in Behind THEN loc'[t].next ELSE Nil)
    PROVE  Serial'
<1>1. \A u \in Threads \ {t} : pc'[u] \notin Ops /\ pc'[u] \notin Behind
  BY Zenon DEF OthersKept, Kept, Behind, Ops, OpenOps, ReleaseOps
<1>2. ASSUME NEW u \in Threads \ {t} PROVE SerialOp(u)'
  BY <1>1, Zenon DEF SerialOp, Ops, OpenOps, ReleaseOps, Finding
<1> QED
  BY <1>1, <1>2, Zenon DEF Serial

\* What such a step starts from.
LEMMA SerialTurn ==
    ASSUME Serial, NEW t \in Threads, pc[t] \in Ops \/ Inside = {},
           pc[t] \in Ops \cup {"idle"}, TypeOK
    PROVE  /\ \A u \in Threads \ {t} : pc[u] \notin Ops
           /\ SerialOp(t) /\ Registered
           /\ LinksBack(bucket, IF pc[t] \in Behind THEN loc[t].next ELSE Nil)
<1>1. \A u \in Threads \ {t} : pc[u] \notin Ops
  <2>1. CASE pc[t] \in Ops
    BY <2>1, Zenon DEF Serial
  <2>2. CASE Inside = {}
    BY <2>2, Zenon DEF Inside, Ops, OpenOps, ReleaseOps
  <2> QED BY <2>1, <2>2, Zenon
<1>2. \A u \in Threads \ {t} : pc[u] \notin Behind
  BY <1>1, Zenon DEF Behind, Ops, OpenOps, ReleaseOps
<1>3. LinksBack(bucket, IF pc[t] \in Behind THEN loc[t].next ELSE Nil)
  BY <1>2, Zenon DEF Serial
<1> QED
  BY <1>1, <1>3, Zenon DEF Serial

\* A traversal that passes a node of another process still sees its own.
LEMMA SeesOn ==
    ASSUME bucket \in Buckets, NEW t \in Threads, NEW n \in Opens, tgid[n] # t, Sees(t, n)
    PROVE  Sees(t, bucket.next[n])
  BY ReachStep, ZenonT(60) DEF Sees

\* One that starts sees all there is; one that has ended has seen it.
LEMMA SeesEnds ==
    ASSUME bucket \in Buckets, NEW t \in Threads
    PROVE  /\ Sees(t, bucket.first)
           /\ Sees(t, Nil) => \A j \in Chain(bucket) : tgid[j] # t
           /\ \A n \in Opens : Sees(t, n) /\ tgid[n] = t => n \in Chain(bucket)
<1>1. Sees(t, bucket.first)
  BY Zenon DEF Sees, Chain
<1>2. Sees(t, Nil) => \A j \in Chain(bucket) : tgid[j] # t
  BY ReachNil, ChainIs, Zenon DEF Sees
<1>3. \A n \in Opens : Sees(t, n) /\ tgid[n] = t => n \in Chain(bucket)
  BY ReachStep, Zenon DEF Sees
<1> QED
  BY <1>1, <1>2, <1>3, Zenon

\* Finding, and the steps that only move on.
LEMMA SerialMoves ==
    ASSUME TypeOK, TypeOK', OpsOK, Serial, NEW t \in Threads, OthersKept(t),
           \/ FindNextEffect(t) \/ OpenFailsEffect(t) \/ OpenReturnsEffect(t)
           \/ UnregisterNothingEffect(t) \/ SynchronizeRcuEffect(t) \/ ReleaseReturnsEffect(t)
    PROVE  Serial'
<1>1. pc[t] \in Ops /\ pc[t] \notin Behind /\ pc'[t] \notin Behind
  BY Zenon DEF FindNextEffect, OpenFailsEffect, OpenReturnsEffect, UnregisterNothingEffect,
         SynchronizeRcuEffect, ReleaseReturnsEffect, Now, Behind, Finding, Ops, OpenOps, ReleaseOps
<1>2. /\ \A u \in Threads \ {t} : pc[u] \notin Ops
      /\ SerialOp(t) /\ Registered /\ LinksBack(bucket, Nil)
  BY <1>1, SerialTurn, Zenon
<1>3. UNCHANGED <<bucket, mods, tgid>>
  BY Zenon DEF FindNextEffect, OpenFailsEffect, OpenReturnsEffect, UnregisterNothingEffect,
         SynchronizeRcuEffect, ReleaseReturnsEffect
<1>4. SerialOp(t)'
  <2>1. CASE FindNextEffect(t)
    <3>1. /\ pc[t] \in Finding /\ pc'[t] = pc[t] /\ loc[t].cur \in Opens /\ tgid[loc[t].cur] # t
          /\ loc'[t].f = loc[t].f /\ loc'[t].cur = bucket.next[loc[t].cur]
      BY <2>1, Zenon DEF FindNextEffect, Now
    <3>2. Sees(t, bucket.next[loc[t].cur])
      BY <1>2, <3>1, SeesOn, Zenon DEF SerialOp, TypeOK
    <3>3. Sees(t, loc[t].cur)'
      BY <1>3, <3>1, <3>2, Zenon DEF Sees
    <3> QED BY <1>2, <1>3, <3>1, <3>3, Zenon DEF SerialOp, Finding
  <2>2. CASE SynchronizeRcuEffect(t)
    BY <1>2, <1>3, <2>2, Zenon DEF SerialOp, Finding, SynchronizeRcuEffect, Now
  <2>3. CASE ~FindNextEffect(t) /\ ~SynchronizeRcuEffect(t)
    BY <2>3, Zenon DEF SerialOp, Finding, OpenFailsEffect, OpenReturnsEffect, UnregisterNothingEffect,
                ReleaseReturnsEffect, Now
  <2> QED BY <2>1, <2>2, <2>3, Zenon
<1>5. Registered' /\ LinksBack(bucket', IF pc'[t] \in Behind THEN loc'[t].next ELSE Nil)
  BY <1>1, <1>2, <1>3, Zenon DEF Registered
<1> QED
  BY <1>2, <1>4, <1>5, SerialActs, Zenon

\* open and release begin.
LEMMA SerialBegins ==
    ASSUME TypeOK, TypeOK', RankExists, Serial, Inside = {}, NEW t \in Threads, OthersKept(t),
           NEW k \in Opens, OpenEffect(t, k) \/ ReleaseEffect(t, k)
    PROVE  Serial'
<1>1. pc[t] = "idle" /\ pc[t] \notin Behind /\ pc'[t] \in {"open_find", "unreg_find"}
      /\ loc'[t].cur = bucket.first /\ UNCHANGED <<bucket, mods>> /\ pc'[t] \notin Behind
  BY Zenon DEF OpenEffect, ReleaseEffect, Now, Behind
<1>2. /\ \A u \in Threads \ {t} : pc[u] \notin Ops
      /\ Registered /\ LinksBack(bucket, Nil)
  BY <1>1, SerialTurn, Zenon
<1>3. \A n \in Chain(bucket) : tgid'[n] = tgid[n]
  <2>1. CASE OpenEffect(t, k)
    <3>1. PICK rank \in [Opens -> Nat] : Ranked(rank)
      BY Zenon DEF RankExists
    <3>2. rank[k] = 0
      BY <2>1, <3>1, Zenon DEF Ranked, OpenEffect
    <3>3. bucket \in Buckets /\ bucket.first \in Link /\ Refers(rank, bucket.first)
          /\ RankedBucket(rank, bucket)
      BY <3>1, Zenon DEF TypeOK, Buckets, Ranked, RankedBucket
    <3>4. k \notin Chain(bucket)
      BY <3>2, <3>3, RankReach DEF Chain
    <3> QED BY <2>1, <3>3, <3>4, ChainIs, ZenonT(60) DEF OpenEffect, TypeOK
  <2>2. CASE ReleaseEffect(t, k)
    BY <2>2, Zenon DEF ReleaseEffect
  <2> QED BY <2>1, <2>2, Zenon
<1>4. SerialOp(t)'
  <2>1. Sees(t, loc[t].cur)'
    BY <1>1, Zenon DEF Sees, Chain
  <2> QED BY <1>1, <2>1, Zenon DEF SerialOp
<1>5. Registered' /\ LinksBack(bucket', IF pc'[t] \in Behind THEN loc'[t].next ELSE Nil)
  BY <1>1, <1>2, <1>3, Zenon DEF Registered
<1> QED
  BY <1>2, <1>4, <1>5, SerialActs, Zenon

\* open allocates, and looks again.
LEMMA SerialAlloc ==
    ASSUME TypeOK, TypeOK', OpsOK, Serial, NEW t \in Threads, OthersKept(t), OpenAllocEffect(t)
    PROVE  Serial'
<1>1. /\ pc[t] \in Ops /\ pc[t] = "open_find" /\ pc'[t] = "reg_find"
      /\ pc[t] \notin Behind /\ pc'[t] \notin Behind
      /\ loc[t].cur = Nil /\ loc'[t].cur = bucket.first /\ loc'[t].f = loc[t].f
      /\ UNCHANGED <<bucket, tgid>> /\ mods' = [mods EXCEPT ![loc[t].f] = "live"]
  BY Zenon DEF OpenAllocEffect, Now, Behind, Ops, OpenOps
<1>2. /\ \A u \in Threads \ {t} : pc[u] \notin Ops
      /\ SerialOp(t) /\ Registered /\ LinksBack(bucket, Nil)
  BY <1>1, SerialTurn, Zenon
<1>3. bucket \in Buckets /\ Chain(bucket) \subseteq Opens /\ loc[t].f \in Opens
      /\ mods \in [Opens -> {"none", "live", "freed"}]
  BY <1>1, ChainIs, Zenon DEF TypeOK, OpsOK, OpOK
<1>4. \A j \in Chain(bucket) : tgid[j] # t
  BY <1>1, <1>2, <1>3, SeesEnds, Zenon DEF SerialOp, Finding
<1>5. Sees(t, loc[t].cur)'
  BY <1>1, Zenon DEF Sees, Chain
<1>6. SerialOp(t)'
  BY <1>1, <1>3, <1>4, <1>5, Zenon DEF SerialOp
<1>7. Registered' /\ LinksBack(bucket', IF pc'[t] \in Behind THEN loc'[t].next ELSE Nil)
  BY <1>1, <1>2, <1>3, Zenon DEF Registered
<1> QED
  BY <1>2, <1>6, <1>7, SerialActs, Zenon

\* The second look finds nothing either, and the node is linked.
LEMMA SerialLink ==
    ASSUME TypeOK, TypeOK', OpsOK, Serial, NEW t \in Threads, OthersKept(t),
           RegisterSkipsEffect(t) \/ RegisterLinkEffect(t)
    PROVE  Serial' /\ ~RegisterSkipsEffect(t) /\ Chain(bucket') = Chain(bucket)
<1>1. pc[t] = "reg_find" /\ pc[t] \in Ops /\ pc[t] \notin Behind /\ pc'[t] \notin Behind
  BY Zenon DEF RegisterSkipsEffect, RegisterLinkEffect, Now, Behind, Ops, OpenOps
<1>2. /\ \A u \in Threads \ {t} : pc[u] \notin Ops
      /\ SerialOp(t) /\ Registered /\ LinksBack(bucket, Nil)
  BY <1>1, SerialTurn, Zenon
<1>3. /\ bucket \in Buckets /\ bucket' \in Buckets /\ loc[t].f \in Opens /\ tgid[loc[t].f] = t
  BY <1>1, Zenon DEF TypeOK, OpsOK, OpOK, OpenOps
<1>4. \A j \in Chain(bucket) : tgid[j] # t
  BY <1>1, <1>2, Zenon DEF SerialOp
<1>5. ~RegisterSkipsEffect(t)
  BY <1>1, <1>2, <1>3, <1>4, SeesEnds, Zenon DEF SerialOp, Finding, RegisterSkipsEffect
<1>6. /\ pc'[t] = "reg_publish" /\ loc'[t].f = loc[t].f /\ loc'[t].next = bucket.first
      /\ bucket' = AddLink(bucket, loc[t].f) /\ UNCHANGED <<mods, tgid>>
  BY <1>5, Zenon DEF RegisterLinkEffect, Now
<1>7. /\ Chain(bucket') = Chain(bucket) /\ LinksBack(bucket', Nil)
      /\ bucket'.first = bucket.first
      /\ bucket'.next[loc[t].f] = bucket.first /\ bucket'.pprev[loc[t].f] = HeadPtr
  BY <1>2, <1>3, <1>4, <1>6, LinkKeeps
<1>8. SerialOp(t)'
  BY <1>1, <1>2, <1>3, <1>4, <1>6, <1>7, Zenon DEF SerialOp, Finding
<1>9. Registered' /\ LinksBack(bucket', IF pc'[t] \in Behind THEN loc'[t].next ELSE Nil)
  BY <1>1, <1>2, <1>6, <1>7, Zenon DEF Registered
<1> QED
  BY <1>2, <1>5, <1>7, <1>8, <1>9, SerialActs, Zenon

\* The node is published.
LEMMA SerialPublish ==
    ASSUME TypeOK, TypeOK', OpsOK, Serial, NEW t \in Threads,
           OthersKept(t), RegisterPublishEffect(t)
    PROVE  Serial' /\ Chain(bucket') = Chain(bucket) \cup {loc[t].f}
<1>1. /\ pc[t] = "reg_publish" /\ pc[t] \in Ops /\ pc[t] \notin Behind
      /\ pc'[t] = "reg_back" /\ pc'[t] \in Behind
      /\ loc'[t].f = loc[t].f /\ loc'[t].next = loc[t].next
      /\ bucket' = AddPublish(bucket, loc[t].f) /\ UNCHANGED <<mods, tgid>>
  BY Zenon DEF RegisterPublishEffect, Now, Behind, Ops, OpenOps
<1>2. /\ \A u \in Threads \ {t} : pc[u] \notin Ops
      /\ SerialOp(t) /\ Registered /\ LinksBack(bucket, Nil)
  BY <1>1, SerialTurn, Zenon
<1>3. /\ bucket \in Buckets /\ bucket' \in Buckets /\ loc[t].f \in Opens /\ tgid[loc[t].f] = t
  BY <1>1, Zenon DEF TypeOK, OpsOK, OpOK, OpenOps
<1>4. /\ \A j \in Chain(bucket) : tgid[j] # t
      /\ mods[loc[t].f] = "live" /\ loc[t].f \notin Chain(bucket)
      /\ bucket.next[loc[t].f] = bucket.first /\ loc[t].next = bucket.first
      /\ bucket.pprev[loc[t].f] = HeadPtr
  BY <1>1, <1>2, Zenon DEF SerialOp
<1>5. /\ Chain(bucket') = Chain(bucket) \cup {loc[t].f} /\ LinksBack(bucket', bucket.first)
      /\ bucket'.first = loc[t].f /\ bucket'.next = bucket.next
  BY <1>1, <1>2, <1>3, <1>4, PublishAdds
<1>6. SerialOp(t)'
  BY <1>1, <1>4, <1>5, Zenon DEF SerialOp, Finding
<1>7. Registered'
  BY <1>1, <1>2, <1>3, <1>4, <1>5 DEF Registered
<1>8. LinksBack(bucket', IF pc'[t] \in Behind THEN loc'[t].next ELSE Nil)
  <2>1. loc'[t].next = bucket.first
    BY <1>1, <1>4, Zenon
  <2> QED BY <1>1, <1>5, <2>1, Zenon
<1> QED
  BY <1>2, <1>5, <1>6, <1>7, <1>8, SerialActs, Zenon

\* The last store of hash_add_rcu.
LEMMA SerialAddBack ==
    ASSUME TypeOK, TypeOK', OpsOK, RankExists, Serial, NEW t \in Threads, OthersKept(t),
           RegisterBackEffect(t)
    PROVE  Serial'
<1>1. /\ pc[t] = "reg_back" /\ pc[t] \in Ops /\ pc[t] \in Behind
      /\ pc'[t] = "open_ret" /\ pc'[t] \notin Behind /\ loc'[t].f = loc[t].f
      /\ bucket' = AddBack(bucket, loc[t].f, loc[t].next) /\ UNCHANGED <<mods, tgid>>
  BY Zenon DEF RegisterBackEffect, Now, Behind, Ops, OpenOps
<1>2. /\ \A u \in Threads \ {t} : pc[u] \notin Ops
      /\ SerialOp(t) /\ Registered /\ LinksBack(bucket, loc[t].next)
  BY <1>1, SerialTurn, Zenon
<1>3. /\ bucket \in Buckets /\ bucket' \in Buckets /\ loc[t].f \in Opens /\ loc[t].next \in Link
      /\ mods[loc[t].f] = "live"
      /\ bucket.first = loc[t].f /\ bucket.next[loc[t].f] = loc[t].next
  BY <1>1, <1>2, Zenon DEF TypeOK, OpsOK, OpOK, Locals, SerialOp
<1>4. PICK rank \in [Opens -> Nat] : RankedBucket(rank, bucket)
  BY Zenon DEF RankExists, Ranked
<1>5. Chain(bucket') = Chain(bucket) /\ LinksBack(bucket', Nil)
  BY <1>1, <1>2, <1>3, <1>4, BackCompletes, Zenon
<1>6. SerialOp(t)'
  BY <1>1, <1>3, Zenon DEF SerialOp, Finding
<1>7. Registered' /\ LinksBack(bucket', IF pc'[t] \in Behind THEN loc'[t].next ELSE Nil)
  BY <1>1, <1>2, <1>5, Zenon DEF Registered
<1> QED
  BY <1>2, <1>6, <1>7, SerialActs, Zenon

\* What release finds is in the list, and hashed.
LEMMA SerialFound ==
    ASSUME TypeOK, TypeOK', OpsOK, Serial, NEW t \in Threads,
           OthersKept(t), UnregisterFoundEffect(t)
    PROVE  /\ Serial' /\ loc[t].cur \in Chain(bucket) /\ pc'[t] = "unreg_unlink"
<1>1. /\ pc[t] = "unreg_find" /\ pc[t] \in Ops /\ pc[t] \notin Behind
      /\ loc[t].cur \in Opens /\ tgid[loc[t].cur] = t
      /\ loc'[t].cur = loc[t].cur /\ loc'[t].next = bucket.next[loc[t].cur]
      /\ loc'[t].pprev = bucket.pprev[loc[t].cur]
      /\ pc'[t] = IF bucket.pprev[loc[t].cur] = Nil THEN "unreg_wait" ELSE "unreg_unlink"
      /\ UNCHANGED <<bucket, mods, tgid>>
  BY Zenon DEF UnregisterFoundEffect, Now, Behind, Ops, ReleaseOps
<1>2. /\ \A u \in Threads \ {t} : pc[u] \notin Ops
      /\ SerialOp(t) /\ Registered /\ LinksBack(bucket, Nil)
  BY <1>1, SerialTurn, Zenon
<1>3. bucket \in Buckets
  BY Zenon DEF TypeOK
<1>4. loc[t].cur \in Chain(bucket)
  BY <1>1, <1>2, <1>3, SeesEnds, Zenon DEF SerialOp, Finding
<1>5. pc'[t] = "unreg_unlink" /\ pc'[t] \notin Behind
  <2>1. bucket.pprev[loc[t].cur] # Nil
    BY <1>2, <1>3, <1>4, PprevIs, ChainIs, NodeNotNil
  <2> QED BY <1>1, <2>1, Zenon DEF Behind
<1>6. SerialOp(t)'
  BY <1>1, <1>4, <1>5, Zenon DEF SerialOp, Finding
<1>7. Registered' /\ LinksBack(bucket', IF pc'[t] \in Behind THEN loc'[t].next ELSE Nil)
  BY <1>1, <1>2, <1>5, Zenon DEF Registered
<1> QED
  BY <1>2, <1>4, <1>5, <1>6, <1>7, SerialActs, Zenon

=============================================================================
