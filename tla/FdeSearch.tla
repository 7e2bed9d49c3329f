------------------------------ MODULE FdeSearch ------------------------------
(***************************************************************************)
(* _stp_search_fde (src/src/unwind.c): the binary search of .eh_frame_hdr    *)
(* for the FDE of a program counter.  One action per part of the function:    *)
(* the header checks, an iteration of the do-while loop, the final test of     *)
(* the remaining entry, and check_fde.  Entries are numbered from 1.           *)
(***************************************************************************)
EXTENDS EhTable

VARIABLES
    in,         \* the arguments: header, table, module, pc
    phase,      \* where the function is
    ptr,        \* the first entry of the window still searched
    num,        \* the number of entries in the window
    fde         \* the FDE found, a kernel address or NULL

searchVars == <<in, phase, ptr, num, fde>>

Phases == {"header", "loop", "last", "check", "done", "fault"}

SearchInit ==
    /\ in \in Inputs
    /\ phase = "header"
    /\ ptr = 1 /\ num = 0
    /\ fde = NULL

-----------------------------------------------------------------------------
UpperHalf_RoundedDown(n) == n \div 2

UpperHalf(n) == (n + 1) \div 2

LowerHalf_Forgotten(n) == n

LowerHalf(n) == n \div 2

\* The probe, and the comparison that decides which half is kept.
Probe == ptr + num \div 2

GoLeft(start) == in.pc < start

CheckHeader ==
    /\ phase = "header"
    /\ IF HeaderOK(in)
       THEN phase' = "loop" /\ num' = EntryCount(in)
       ELSE phase' = "done" /\ num' = num
    /\ UNCHANGED <<in, ptr, fde>>

\* One iteration; a start that cannot be decoded ends the search with NULL.
Halve ==
    /\ phase = "loop"
    /\ LET start == Start(in, Probe)
       IN  \/ /\ start = 0
              /\ phase' = "done"
              /\ UNCHANGED <<ptr, num>>
           \/ /\ start # 0
              /\ IF GoLeft(start)
                 THEN num' = LowerHalf(num) /\ ptr' = ptr
                 ELSE num' = UpperHalf(num) /\ ptr' = Probe
              /\ phase' = IF num' > 1 THEN "loop" ELSE "last"
    /\ UNCHANGED <<in, fde>>

\* The entry the loop left, if pc is not before it.
LastEntryOK_NoPcTest == num = 1 /\ Start(in, ptr) # 0

LastEntryOK ==
    num = 1 /\ Start(in, ptr) # 0 /\ in.pc >= Start(in, ptr)

TakeLast ==
    /\ phase = "last"
    /\ fde' = IF LastEntryOK THEN FdeAddr(in, ptr) ELSE NULL
    /\ phase' = "check"
    /\ UNCHANGED <<in, ptr, num>>

\* check_fde is called whether or not an FDE was found, and reads *fde.
CheckFde ==
    /\ phase = "check"
    /\ IF fde = NULL
       THEN phase' = "fault" /\ fde' = fde
       ELSE /\ phase' = "done"
            /\ fde' = IF RealFde(in, fde) THEN fde ELSE NULL
    /\ UNCHANGED <<in, ptr, num>>

SearchNext == CheckHeader \/ Halve \/ TakeLast \/ CheckFde

\* The function runs to completion: each of its steps is eventually taken.
SearchSpec == SearchInit /\ [][SearchNext]_searchVars /\ WF_searchVars(SearchNext)

-----------------------------------------------------------------------------
\* Types of the function's locals; the window stays inside the table, so every
\* read_ptr_sect of the loop reads an entry of the table.
SearchTypeOK ==
    /\ in \in Inputs
    /\ phase \in Phases
    /\ ptr \in Nat /\ num \in Nat
    /\ fde \in Word
    /\ phase \in {"loop", "last"} => ptr \in 1 .. Len(in.tab)
                                     /\ ptr + num <= Len(in.tab) + 1
    /\ phase = "loop" => Probe \in 1 .. Len(in.tab)

\* The loop of _stp_search_fde keeps pc inside the window: every entry the
\* search gave up to the left starts at or before pc, the first one given up to
\* the right starts after it.  This needs no sorted table.
Window ==
    /\ phase = "header" => ptr = 1
    /\ phase \in {"header", "loop", "last"} => fde = NULL
    /\ phase \in {"loop", "last"} =>
        /\ HeaderOK(in)
        /\ phase = "loop" => num > 1 \/ (num = 1 /\ ptr = 1)
        /\ phase = "last" => num = 1 \/ (num = 0 /\ ptr = 1)
        /\ ptr = 1 \/ (Start(in, ptr) # 0 /\ Start(in, ptr) <= in.pc)
        /\ ptr + num <= Len(in.tab) => in.pc < Start(in, ptr + num)

\* Whatever the table, what _stp_search_fde takes from it for check_fde, and
\* returns if check_fde agrees, is the FDE of an entry that covers pc.
FoundCovers ==
    phase \in {"check", "done"} /\ fde # NULL =>
        /\ HeaderOK(in)
        /\ \E i \in 1 .. Len(in.tab) : Covers(in, i) /\ fde = FdeAddr(in, i)
        /\ phase = "done" => RealFde(in, fde)

\* When _stp_search_fde returns an FDE for a table sorted as the linker sorts
\* it, the FDE is real (check_fde) and is that of the one entry whose code
\* contains pc: all entries before start at or before pc, all after start
\* after it.
FoundIsTheRightOne ==
    phase = "done" /\ fde # NULL /\ Sorted(in) =>
        \E i \in 1 .. Len(in.tab) :
            /\ fde = FdeAddr(in, i)
            /\ RealFde(in, fde)
            /\ \A j \in 1 .. Len(in.tab) : Start(in, j) <= in.pc <=> j <= i

\* A search that faults never answers.
Answer == INSTANCE FdeLookup
          WITH answer <- IF phase = "done" THEN fde ELSE -1

\* _stp_search_fde does what its caller relies on: one lookup, answered with a
\* covering entry's FDE or, for one of the listed reasons, with NULL.
ImplementsLookup == Answer!Spec

\* The do-while loop of _stp_search_fde ends for every table, sorted or not, and
\* with it the function.
Terminates == <>(phase \in {"done", "fault"})

\* "fde not found or invalid" (unwind.c:1675) is a case __unwind_frame handles:
\* a pc without FDE gets NULL from _stp_search_fde, not a fault.
NotFoundIsAnswered == phase # "fault"
=============================================================================
