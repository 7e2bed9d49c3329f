----------------------------- MODULE MCUnwindWalk -----------------------------
(***************************************************************************)
(* A small program for UnwindWalk: two adjacent modules and code outside of them. *)
(***************************************************************************)
EXTENDS UnwindWalk

Same == [where |-> "same", off |-> 0]
Nowhere == [where |-> "nowhere", off |-> 0]
At(off) == [where |-> "memory", off |-> off]

\* Frames addressed through sp, through bp with bp saved, and through another
\* register; size words large.
BySp(f, size) ==
    [fn |-> f, size |-> size, past |-> FALSE, call_frame |-> 1, bad |-> "nothing",
     cfa |-> [reg |-> "sp", off |-> size], bp |-> Same, sp |-> Same, ra |-> At(-1)]

Pushed(f, size) == [BySp(f, size) EXCEPT !.bp = At(-2)]

ByBp(f, size) == [Pushed(f, size) EXCEPT !.cfa = [reg |-> "bp", off |-> 2]]

ByOther(f, size) == [BySp(f, size) EXCEPT !.cfa = [reg |-> "other", off |-> 1]]

Bottom(f) == [BySp(f, 1) EXCEPT !.ra = Nowhere]

Bad(rule, what) == [rule EXCEPT !.bad = what]

\* 9 and 20 hold the modules' headers.  init has no FDE and lies before all that have
\* one.  g ends with a call that does not return; h follows it.  26 is a hole between
\* functions.  Code generated at run time begins where the second module ends, at 32, and
\* at 40, where no module is near.  51 is in a module without a search table.
MCCode ==
    [p \in 10 .. 19 \cup 21 .. 27 \cup 29 .. 32 \cup {40, 41, 51} |->
        CASE p = 10 -> BySp("init", 1)
          [] p \in {11, 12} -> Bottom("start")
          [] p = 13 -> BySp("main", 1)
          [] p = 14 -> Pushed("main", 2)
          [] p \in {15, 16} -> ByBp("main", 3)
          [] p = 17 -> BySp("f", 1)
          [] p \in {18, 19} -> BySp("f", 2)
          [] p = 21 -> BySp("g", 1)
          [] p = 22 -> ByBp("g", 3)
          [] p = 23 -> BySp("h", 1)
          [] p = 24 -> BySp("h", 3)
          [] p = 25 -> ByOther("aligned", 3)
          [] p = 26 -> [BySp("hole", 1) EXCEPT !.past = TRUE]
          [] p = 27 -> [ByOther("sigreturn", 2) EXCEPT !.call_frame = 0]
          [] p = 29 -> Bad(BySp("a", 1), "entry")
          [] p = 30 -> Bad(BySp("b", 1), "program")
          [] p = 31 -> Bad(ByOther("c", 3), "cfa")
          [] p = 32 -> BySp("generated", 1)
          [] p \in {40, 41} -> BySp("generated", 2)
          [] p = 51 -> BySp("tableless", 1)]

MCModules ==
    <<[start |-> 9, end |-> 20, table |-> TRUE, first |-> 11],
      [start |-> 20, end |-> 32, table |-> TRUE, first |-> 21],
      [start |-> 50, end |-> 53, table |-> FALSE, first |-> 51]>>

MCOrdinary ==
    {<<18, 16, 12>>, <<17, 19, 16, 12>>, <<14, 19, 16, 12>>, <<15, 16, 0>>,
     <<25, 16, 12>>, <<17, 41, 16, 12>>, <<26, 16, 12>>, <<24, 28, 16, 12>>,
     <<10, 12>>, <<29, 12>>, <<30, 12>>, <<31, 12>>, <<32, 16, 12>>, <<51, 12>>}

\* Chains through g's call that does not return: the return address is in h.
MCNoReturn == {<<18, 23, 12>>, <<18, 23, 16, 12>>}

MCChains == MCOrdinary \cup MCNoReturn

\* The program keeps to the conventions.
ASSUME MCConventional == \A c \in Chains : Conventional(c)

ASSUME MCReturns == \A c \in Chains : Returns(c) <=> c \in MCOrdinary
=============================================================================
