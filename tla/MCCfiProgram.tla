----------------------------- MODULE MCCfiProgram -----------------------------
(***************************************************************************)
(* CfiProgram with every FDE program of up to five instructions that move between  *)
(* rows, and of up to three of any kind; two CIE programs, one of which leaves    *)
(* a row on the stack.                                                       *)
(***************************************************************************)
EXTENDS CfiProgram

MCRegs == {"bp", "ra"}
MCRules == {"same", "nowhere", "memory1", "memory2"}
MCUnreal == {"ra"}

Op(o) == [op |-> o]
Rule(r, rule) == [op |-> "rule", reg |-> r, rule |-> rule]
Advance(d) == [op |-> "advance", delta |-> d]
Remember_ == Op("remember")
RestoreState_ == Op("restore_state")
DefCfa == [op |-> "def_cfa", reg |-> "bp", off |-> 1]
CfaOffset == [op |-> "cfa_offset", off |-> 2]
CfaExpr == [op |-> "cfa_expr", off |-> 7]

UpTo(insns, n) == UNION {[1 .. m -> insns] : m \in 0 .. n}

Cies ==
    {<<DefCfa, Rule("ra", "memory1")>>,
     <<Rule("bp", "memory1"), Remember_, Rule("bp", "memory2")>>}

\* The instructions that move between rows, with those that tell rows apart.
RowInsns ==
    {Remember_, RestoreState_, Advance(1), Rule("bp", "memory2"),
     [op |-> "restore", reg |-> "bp"]}

\* One instruction of every kind.
AllInsns ==
    {Op("nop"), Op("unknown"), Op("stray_expr"), Advance(0), Advance(2),
     [op |-> "set_loc", loc |-> 0], [op |-> "set_loc", loc |-> 12], Rule("bp", "nowhere"),
     CfaExpr, DefCfa, CfaOffset, [op |-> "cfa_register", reg |-> "ra"],
     Remember_, RestoreState_}

MCInputs ==
    [cie : Cies, fde : UpTo(RowInsns, 5), start : {10}, end : {12}, pc : {10, 11}]
    \cup [cie : Cies, fde : UpTo(AllInsns, 3), start : {10}, end : {12}, pc : {11}]
    \cup [cie : {<<>>}, fde : {[n \in 1 .. 6 |-> Op("nop")]}, start : {10}, end : {12},
          pc : {10}]
=============================================================================
