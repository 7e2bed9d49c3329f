------------------------------ MODULE FdeLookup ------------------------------
(***************************************************************************)
(* What _stp_search_fde promises its caller: in one step, either the FDE of *)
(* an entry that covers pc, checked to be a real FDE, or NULL.  NULL is an    *)
(* answer only when the header or a start in the table is unusable, when the  *)
(* table begins after pc, or when a covering entry points to no real FDE.     *)
(***************************************************************************)
EXTENDS Integers, Sequences

CONSTANTS
    NULL,
    HeaderOK(_),        \* the header describes a table that can be searched
    Start(_, _),        \* the first address of an entry's code
    FdeAddr(_, _),      \* where the entry's FDE is
    Covers(_, _),       \* the entry is the one for the pc
    RealFde(_, _)       \* there is an FDE at that address

VARIABLES
    in,         \* the search, whichever it is: header, table, module, pc
    answer      \* Pending, then the FDE's address or NULL

vars == <<in, answer>>

Pending == -1

Init == answer = Pending

MayAnswerNull ==
    \/ ~HeaderOK(in)
    \/ \E i \in 1 .. Len(in.tab) : Start(in, i) = 0
    \/ in.pc < Start(in, 1)
    \/ \E i \in 1 .. Len(in.tab) : Covers(in, i) /\ ~RealFde(in, FdeAddr(in, i))

AnswerFde ==
    \E i \in 1 .. Len(in.tab) :
        /\ HeaderOK(in)
        /\ Covers(in, i)
        /\ RealFde(in, FdeAddr(in, i))
        /\ answer' = FdeAddr(in, i)

AnswerNull == MayAnswerNull /\ answer' = NULL

Next == answer = Pending /\ in' = in /\ (AnswerFde \/ AnswerNull)

Spec == Init /\ [][Next]_vars
=============================================================================
