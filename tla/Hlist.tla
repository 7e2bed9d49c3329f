-------------------------------- MODULE Hlist --------------------------------
(***************************************************************************)
(* A bucket of a kernel hash table, the hlist of <linux/rculist.h>, one       *)
(* memory access per operator.  The source calls it through hash_add_rcu,     *)
(* hash_del_rcu and hash_for_each(_possible)_rcu and takes no lock around     *)
(* the calls, so the accesses of several threads interleave.                 *)
(*                                                                         *)
(* A bucket is a record: first, and for every node next and pprev.  Nodes are  *)
(* positive numbers; pprev of a node is the node (or HeadPtr) whose pointer leads  *)
(* to it, Nil when it is not hashed.                                         *)
(***************************************************************************)
EXTENDS Integers

Nil == 0
HeadPtr == -1

EmptyBucket(nodes) ==
    [first |-> Nil, next |-> [n \in nodes |-> Nil], pprev |-> [n \in nodes |-> Nil]]

\* hlist_add_head_rcu: n->next = first, n->pprev = &h->first; then h->first = n;
\* then first->pprev = &n->next, with the first that was read at the beginning.
AddLink_ReadsFirstLate(h, n) == [h EXCEPT !.next[n] = n, !.pprev[n] = HeadPtr]

AddLink(h, n) == [h EXCEPT !.next[n] = h.first, !.pprev[n] = HeadPtr]

AddPublish(h, n) == [h EXCEPT !.first = n]

AddBack(h, n, first) == IF first = Nil THEN h ELSE [h EXCEPT !.pprev[first] = n]

\* hlist_del_init_rcu of a hashed n: *pprev = next, with the next and pprev that
\* were read at the beginning; then next->pprev = pprev and n->pprev = NULL.
\* n->next is kept for readers that stand on n.
DelUnlink(h, n, next, pprev) ==
    IF pprev = HeadPtr THEN [h EXCEPT !.first = next] ELSE [h EXCEPT !.next[pprev] = next]

\* hash_del in place of hash_del_rcu.
DelBack_NotRcu(h, n, next, pprev) ==
    LET g == IF next = Nil THEN h ELSE [h EXCEPT !.pprev[next] = pprev]
    IN  [g EXCEPT !.pprev[n] = Nil, !.next[n] = Nil]

DelBack(h, n, next, pprev) ==
    LET g == IF next = Nil THEN h ELSE [h EXCEPT !.pprev[next] = pprev]
    IN  [g EXCEPT !.pprev[n] = Nil]

\* The whole of hlist_del_init_rcu, where nothing interferes.
DelInit(h, n) ==
    IF h.pprev[n] = Nil
    THEN h
    ELSE DelBack(DelUnlink(h, n, h.next[n], h.pprev[n]), n, h.next[n], h.pprev[n])

\* A set of nodes that a traversal does not leave, if it starts at n.
Closed(h, n, nodes) ==
    /\ n \in nodes \cup {Nil}
    /\ \A m \in nodes : h.next[m] \in nodes \cup {Nil}

\* The nodes a traversal that stands at n would visit, n included: the least such set.
Reach(h, n) ==
    LET nodes == DOMAIN h.next
        closed == {S \in SUBSET nodes : Closed(h, n, S)}
    IN  {m \in nodes : \A S \in closed : m \in S}

\* The nodes a traversal that starts now would visit.
Chain(h) == Reach(h, h.first)

\* A traversal that starts now ends.
Ends(h) == h.first # Nil => \E n \in Chain(h) : h.next[n] = Nil

\* The list a bucket with no operation in progress must be: it ends, and every
\* pprev leads back.
WellLinked(h) ==
    /\ Ends(h)
    /\ \A n \in Chain(h) :
        IF h.first = n THEN h.pprev[n] = HeadPtr
                       ELSE h.pprev[n] \in Chain(h) /\ h.next[h.pprev[n]] = n
=============================================================================
