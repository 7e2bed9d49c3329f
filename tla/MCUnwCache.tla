------------------------------ MODULE MCUnwCache ------------------------------
(***************************************************************************)
(* UnwCache with two threads, in two modes: as the code lets them, and with one   *)
(* lookup, and the addition it leads to, at a time.                            *)
(***************************************************************************)
EXTENDS UnwCache

CONSTANTS t1, t2

TwoThreads == {t1, t2}

VARIABLE alone      \* one thread at a time

MCVars == <<vars, alone>>

MCInit == Init /\ alone \in BOOLEAN

\* Thread t begins only when no other thread is at work.
Waits ==
    \A t \in Threads :
        st[t] = "idle" /\ st'[t] # "idle" => \A u \in Threads : st[u] = "idle"

MCNext == Next /\ UNCHANGED alone /\ (alone => Waits)

\* The fairness of Spec; Step, Clear and RcuFree begin no lookup.
MCSpec ==
    /\ MCInit /\ [][MCNext]_MCVars
    /\ \A t \in Threads : WF_MCVars(Step(t) /\ UNCHANGED alone)
    /\ WF_MCVars(Clear /\ UNCHANGED alone)
    /\ \A n \in Entries : WF_MCVars(RcuFree(n) /\ UNCHANGED alone)

\* With one thread at a time in the cache, unw_cache_add_entry never allocates a
\* second entry for a pc, and unw_cache_clear passes every entry that was ever
\* allocated to call_rcu: nothing leaks.
AloneIsExact ==
    alone =>
        /\ life = "open" => \A m, n \in 1 .. used : frame[m].pc = frame[n].pc => m = n
        /\ life = "freed" => queued = 1 .. used
=============================================================================
