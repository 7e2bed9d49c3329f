------------------------------- MODULE CfiInsn -------------------------------
(***************************************************************************)
(* Call frame instructions and the row of rules they edit: unwind_reg_state of  *)
(* src/src/unwind/unwind.h and the cases of run_cfi_program in src/src/unwind.c.  *)
(*                                                                         *)
(* An instruction is a record, one byte long.  The ones that give a register a   *)
(* rule (DW_CFA_offset, _val_offset, _same_value, _undefined, _register,         *)
(* _expression and their variants) differ only in the rule: they are op "rule".   *)
(* DW_CFA_nop and GNU_args_size, and rules for registers outside of reg_info that  *)
(* are no expressions, change nothing: op "nop".  An expression for such a         *)
(* register, or one that does not fit, is op "stray_expr".  What makes result 0     *)
(* whatever the state is (an unknown opcode, an operand cut off by the end) is op  *)
(* "unknown".  Locations are in units of codeAlign.                             *)
(***************************************************************************)
EXTENDS Integers, Sequences

CONSTANTS
    Regs,           \* the registers of reg_info
    Rules,          \* the rules a register can have
    Same,           \* the rule a register has before any instruction,
    Nowhere,        \* and the one of the registers that are not real ones
    Unreal,         \* the registers from UNW_NR_REAL_REGS on
    Inputs          \* CIE and FDE programs, with the FDE's range and the pc

ASSUME CfiInsnAssumption == {Same, Nowhere} \subseteq Rules /\ Regs # {}

\* badCFA: the register number is one past the last.
BadCfa == [expr |-> FALSE, reg |-> "none", off |-> 1]

\* With expr, off stands for the expression: cfa and cfa_expr are a union.
Cfa == [expr : BOOLEAN, reg : Regs \cup {"none"}, off : Int]

Row == [cfa : Cfa, regs : [Regs -> Rules]]

Insn ==
    [op : {"nop", "remember", "restore_state", "unknown", "stray_expr"}]
    \cup [op : {"advance"}, delta : Nat]
    \cup [op : {"set_loc"}, loc : Nat]
    \cup [op : {"rule"}, reg : Regs, rule : Rules]
    \cup [op : {"restore"}, reg : Regs]
    \cup [op : {"def_cfa"}, reg : Regs, off : Int]
    \cup [op : {"cfa_offset", "cfa_expr"}, off : Int]
    \cup [op : {"cfa_register"}, reg : Regs]

Moves(i) == i.op \in {"advance", "set_loc"}

\* The FDE found covers the pc (FdeSearch), and a CIE's instructions, shared by many
\* functions, name no location.
ASSUME CfiInputsAssumption ==
    /\ Inputs \subseteq
         [cie : Seq(Insn), fde : Seq(Insn), start : Nat, end : Nat, pc : Nat \ {0}]
    /\ \A in \in Inputs :
         /\ in.start <= in.pc
         /\ \A n \in DOMAIN in.cie : ~Moves(in.cie[n])

\* state after memset; __unwind_frame then fills the row at depth 0.
ZeroRow ==
    [cfa |-> [expr |-> FALSE, reg |-> CHOOSE r \in Regs : TRUE, off |-> 0],
     regs |-> [r \in Regs |-> Same]]

FirstRow ==
    [cfa |-> BadCfa,
     regs |-> [r \in Regs |-> IF r \in Unreal THEN Nowhere ELSE Same]]

\* advance_loc; the other instructions leave the location.
LocAfter(i, loc) ==
    CASE i.op = "advance" -> loc + i.delta
      [] i.op = "set_loc" -> i.loc
      [] OTHER -> loc

\* The instructions run_cfi_program gives up at.
Refused(i) ==
    \/ i.op = "unknown"
    \/ i.op = "advance" /\ i.delta = 0
    \/ i.op = "set_loc" /\ i.loc = 0

\* DW_CFA_def_cfa_offset and DW_CFA_def_cfa_register after an expression: the
\* code warns and goes on without having read the operand.  Nor does it step over the
\* expression it has no use for, or whose length it takes for wrong.
LosesStep(i, row) ==
    \/ i.op = "stray_expr"
    \/ i.op \in {"cfa_offset", "cfa_register"} /\ row.cfa.expr

WithRule(row, r, rule) == [cfa |-> row.cfa, regs |-> [row.regs EXCEPT ![r] = rule]]

WithCfa(row, expr, r, off) ==
    [cfa |-> [expr |-> expr, reg |-> r, off |-> off], regs |-> row.regs]

\* The row after an instruction that does not touch the stack of rows.
\* DW_CFA_restore takes the rule the CIE gave the register.
Edit(i, row, cieRegs) ==
    CASE i.op = "rule" -> WithRule(row, i.reg, i.rule)
      [] i.op = "restore" -> WithRule(row, i.reg, cieRegs[i.reg])
      [] i.op = "def_cfa" -> WithCfa(row, FALSE, i.reg, i.off)
      [] i.op = "cfa_offset" -> WithCfa(row, FALSE, row.cfa.reg, i.off)
      [] i.op = "cfa_register" -> WithCfa(row, FALSE, i.reg, row.cfa.off)
      [] i.op = "cfa_expr" -> WithCfa(row, TRUE, "none", i.off)
      [] OTHER -> row
=============================================================================
