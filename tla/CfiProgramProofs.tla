--------------------------- MODULE CfiProgramProofs ---------------------------
(***************************************************************************)
(* For every pair of programs, every set of registers and rules, and every limit  *)
(* on the stack: run_cfi_program stays within its array, computes the row of      *)
(* CfiTable, and that row is the one the programs define for the pc.             *)
(***************************************************************************)
EXTENDS CfiProgram, TLAPS

\* The instruction at ptr is one of the program's.
LEMMA InsnType ==
    ASSUME TypeOK, Running, ptr <= Len(Program)
    PROVE  Program[ptr] \in Insn
<1>1. in.cie \in Seq(Insn) /\ in.fde \in Seq(Insn)
  BY CfiInputsAssumption, Zenon DEF TypeOK
<1>2. Program \in Seq(Insn)
  BY <1>1, Zenon DEF Program
<1>3. ptr \in 1 .. Len(Program)
  BY <1>2 DEF TypeOK
<1> QED BY <1>2, <1>3

\* Changing a register's rule (set_offset_rule and the like) gives a row.
LEMMA WithRuleType ==
    ASSUME NEW row \in Row, NEW r \in Regs, NEW rule \in Rules
    PROVE  WithRule(row, r, rule) \in Row
BY Zenon DEF WithRule, Row

\* Changing the CFA (the DW_CFA_def_cfa cases) gives a row.
LEMMA WithCfaType ==
    ASSUME NEW row \in Row, NEW e \in BOOLEAN, NEW r \in Regs \cup {"none"}, NEW o \in Int
    PROVE  WithCfa(row, e, r, o) \in Row
BY Zenon DEF WithCfa, Row, Cfa

\* Every instruction that edits the row gives a row.
LEMMA EditType ==
    ASSUME NEW i \in Insn, NEW row \in Row, NEW cr \in [Regs -> Rules]
    PROVE  Edit(i, row, cr) \in Row
<1>0. row.cfa.reg \in Regs \cup {"none"} /\ row.cfa.off \in Int
  BY Zenon DEF Row, Cfa
<1>1. CASE i.op = "rule"
  <2>1. i.reg \in Regs /\ i.rule \in Rules
    BY <1>1, Zenon DEF Insn
  <2> QED BY <1>1, <2>1, WithRuleType, Zenon DEF Edit
<1>2. CASE i.op = "restore"
  <2>1. i.reg \in Regs
    BY <1>2, Zenon DEF Insn
  <2> QED BY <1>2, <2>1, WithRuleType, Zenon DEF Edit
<1>3. CASE i.op = "def_cfa"
  <2>1. i.reg \in Regs /\ i.off \in Int
    BY <1>3, Zenon DEF Insn
  <2> QED BY <1>3, <2>1, WithCfaType, Zenon DEF Edit
<1>4. CASE i.op = "cfa_offset"
  <2>1. i.off \in Int
    BY <1>4, Zenon DEF Insn
  <2> QED BY <1>0, <1>4, <2>1, WithCfaType, Zenon DEF Edit
<1>5. CASE i.op = "cfa_register"
  <2>1. i.reg \in Regs
    BY <1>5, Zenon DEF Insn
  <2> QED BY <1>0, <1>5, <2>1, WithCfaType, Zenon DEF Edit
<1>6. CASE i.op = "cfa_expr"
  <2>1. i.off \in Int
    BY <1>6, Zenon DEF Insn
  <2> QED BY <1>6, <2>1, WithCfaType, Zenon DEF Edit
<1>7. CASE i.op \notin {"rule", "restore", "def_cfa", "cfa_offset", "cfa_register", "cfa_expr"}
  BY <1>7, Zenon DEF Edit
<1> QED BY <1>1, <1>2, <1>3, <1>4, <1>5, <1>6, <1>7, Zenon

\* A location stays a location: advance_loc adds, DW_CFA_set_loc replaces.
LEMMA LocType ==
    ASSUME NEW i \in Insn, NEW l \in Nat
    PROVE  LocAfter(i, l) \in Nat
<1>1. CASE i.op = "advance"
  <2>1. i.delta \in Nat
    BY <1>1, Zenon DEF Insn
  <2> QED BY <1>1, <2>1 DEF LocAfter
<1>2. CASE i.op = "set_loc"
  <2>1. i.loc \in Nat
    BY <1>2, Zenon DEF Insn
  <2> QED BY <1>2, <2>1, Zenon DEF LocAfter
<1>3. CASE i.op \notin {"advance", "set_loc"}
  BY <1>3, Zenon DEF LocAfter
<1> QED BY <1>1, <1>2, <1>3, Zenon

\* The rows state holds after memset and before the CIE's instructions.
LEMMA FirstRows == FirstRow \in Row /\ ZeroRow \in Row
<1>1. (CHOOSE r \in Regs : TRUE) \in Regs
  BY CfiInsnAssumption, Zenon
<1>2. ZeroRow \in Row
  BY <1>1, CfiInsnAssumption DEF ZeroRow, Row, Cfa
<1>3. FirstRow \in Row
  BY CfiInsnAssumption DEF FirstRow, BadCfa, Row, Cfa
<1> QED BY <1>2, <1>3, Zenon

\* state as __unwind_frame prepares it.
LEMMA ProgramInit == Init => TypeOK
<1> SUFFICES ASSUME Init PROVE TypeOK
  BY Zenon
<1>1. in.start \in Nat
  BY CfiInputsAssumption, Zenon DEF Init
<1>2. ZeroRow.regs \in [Regs -> Rules]
  BY FirstRows, Zenon DEF Row
<1>3. reg \in [Depths -> Row]
  BY FirstRows, Zenon DEF Init
<1>4. stackDepth \in Depths
  BY CfiProgramAssumption DEF Init, Depths
<1> QED BY <1>1, <1>2, <1>3, <1>4 DEF Init, TypeOK, Phases

\* No instruction, and no end of a program, leaves the array.
LEMMA ProgramStep == TypeOK /\ [Next]_vars => TypeOK'
<1> SUFFICES ASSUME TypeOK, [Next]_vars PROVE TypeOK'
  BY Zenon
<1> USE DEF TypeOK
<1>0. ASSUME Running PROVE stackDepth \in Depths /\ REG_STATE \in Row
  BY <1>0, Zenon DEF Running, REG_STATE
<1>1. ASSUME NEW o \in Phases, Give(o), stackDepth \in Depths PROVE TypeOK'
  BY <1>1, Zenon DEF Give
<1>2. CASE TooMany
  BY <1>0, <1>1, <1>2, Zenon DEF TooMany, Phases
<1>3. CASE Execute
  <2>1. Program[ptr] \in Insn
    BY <1>3, InsnType, Zenon DEF Execute
  <2>2. Edit(Program[ptr], REG_STATE, cie_regs) \in Row
    BY <1>0, <1>3, <2>1, EditType, Zenon DEF Execute
  <2>3. LocAfter(Program[ptr], loc) \in Nat
    BY <2>1, LocType, Zenon
  <2> QED BY <1>0, <1>3, <2>2, <2>3 DEF Execute, Continue, Running, Phases
<1>4. CASE Remember
  <2>1. stackDepth + 1 \in Depths
    BY <1>0, <1>4, CfiProgramAssumption DEF Remember, At, Depths
  <2> QED BY <1>0, <1>4, <2>1 DEF Remember, At, Continue, Running, Phases
<1>5. CASE RememberTooMany
  <2>1. stackDepth + 1 = MaxDepth
    BY <1>0, <1>5, CfiProgramAssumption DEF RememberTooMany, At, Depths
  <2> QED BY <1>5, <2>1, Zenon DEF RememberTooMany, Phases
<1>6. CASE RestoreState
  <2>1. stackDepth - 1 \in Depths
    BY <1>0, <1>6, CfiProgramAssumption DEF RestoreState, At, Depths
  <2> QED BY <1>6, <2>1 DEF RestoreState, At, Continue, Running, Phases
<1>7. CASE RestoreUnbalanced
  BY <1>0, <1>1, <1>7, Zenon DEF RestoreUnbalanced, At, Phases
<1>8. CASE Refuse
  BY <1>0, <1>1, <1>8, Zenon DEF Refuse, Phases
<1>9. CASE LoseStep
  BY <1>0, <1>1, <1>9, Zenon DEF LoseStep, Phases
<1>10. CASE EndCie
  <2>1. REG_STATE.regs \in [Regs -> Rules]
    BY <1>0, <1>10, Zenon DEF EndCie, Running, Row
  <2> QED BY <1>0, <1>10, <2>1 DEF EndCie, Running, Phases
<1>11. CASE EndFde
  BY <1>0, <1>1, <1>11, Zenon DEF EndFde, Running, Phases
<1>12. CASE CheckEnd
  BY <1>1, <1>12, Zenon DEF CheckEnd, Phases
<1>13. CASE UNCHANGED vars
  BY <1>13, Zenon DEF vars
<1> QED BY <1>2, <1>3, <1>4, <1>5, <1>6, <1>7, <1>8, <1>9, <1>10, <1>11, <1>12, <1>13, Zenon DEF Next

\* run_cfi_program never uses a row outside of state->reg, and every row holds a
\* rule for every register.
THEOREM ProgramTyped == Spec => []TypeOK
<1>1. Init => TypeOK
  BY ProgramInit, Zenon
<1>2. TypeOK /\ [Next]_vars => TypeOK'
  BY ProgramStep, Zenon
<1> QED BY <1>1, <1>2, PTL DEF Spec

-----------------------------------------------------------------------------
\* While run_cfi_program runs the location is not behind the pc; it has returned 1
\* for the FDE at the end of the instructions or once the location was behind it.
UpToPc ==
    /\ Running => loc <= in.pc
    /\ phase = "check" => ptr > Len(in.fde) \/ loc > in.pc

\* A CIE's instructions leave the location.
LEMMA CieStays ==
    ASSUME TypeOK, phase = "cie", ptr <= Len(in.cie)
    PROVE  LocAfter(in.cie[ptr], loc) = loc
<1>1. in.cie \in Seq(Insn)
  BY CfiInputsAssumption, Zenon DEF TypeOK
<1>2. ptr \in DOMAIN in.cie
  BY <1>1 DEF TypeOK
<1>3. ~Moves(in.cie[ptr])
  BY <1>2, CfiInputsAssumption, Zenon DEF TypeOK
<1> QED BY <1>3, Zenon DEF Moves, LocAfter

\* The loop of run_cfi_program returns at the first location behind targetLoc.
LEMMA UpToPcStep == TypeOK /\ UpToPc /\ [Next]_vars => UpToPc'
<1> SUFFICES ASSUME TypeOK, UpToPc, [Next]_vars PROVE UpToPc'
  BY Zenon
<1>0. in.pc \in Nat /\ loc \in Nat
  BY CfiInputsAssumption, Zenon DEF TypeOK
<1>1. ASSUME NEW o \in {"failed", "lost", "done"}, Give(o) PROVE UpToPc'
  BY <1>1, Zenon DEF Give, UpToPc, Running
<1>2. ASSUME NEW l \in Nat, Running, Continue(l), in' = in, phase = "cie" => l <= in.pc
      PROVE  UpToPc'
  BY <1>0, <1>2 DEF Continue, Reached, UpToPc, Running
<1>3. CASE Execute
  <2>1. Program[ptr] \in Insn
    BY <1>3, InsnType, Zenon DEF Execute
  <2>2. LocAfter(Program[ptr], loc) \in Nat
    BY <1>0, <2>1, LocType, Zenon
  <2>3. phase = "cie" => LocAfter(Program[ptr], loc) <= in.pc
    BY <1>3, CieStays, Zenon DEF Execute, Program, UpToPc, Running
  <2> QED BY <1>2, <1>3, <2>2, <2>3, Zenon DEF Execute
<1>4. CASE Remember \/ RestoreState
  BY <1>0, <1>2, <1>4, Zenon DEF Remember, RestoreState, At, UpToPc
<1>5. CASE TooMany \/ RestoreUnbalanced \/ Refuse \/ LoseStep \/ CheckEnd
  BY <1>1, <1>5, Zenon DEF TooMany, RestoreUnbalanced, Refuse, LoseStep, CheckEnd
<1>6. CASE RememberTooMany
  BY <1>6, Zenon DEF RememberTooMany, UpToPc, Running
<1>7. CASE EndCie
  BY <1>7, Zenon DEF EndCie, UpToPc, Running
<1>8. CASE EndFde
  BY <1>8, Zenon DEF EndFde, Give, UpToPc, Running
<1>9. CASE UNCHANGED vars
  BY <1>9, Zenon DEF vars, UpToPc, Running
<1> QED BY <1>3, <1>4, <1>5, <1>6, <1>7, <1>8, <1>9, Zenon DEF Next

\* The rows below the current one, as a sequence.
Below(f, n) == [d \in 1 .. n |-> f[d - 1]]

\* Keeping one more row is appending it.
LEMMA Push ==
    ASSUME NEW f, NEW n \in Nat
    PROVE  Below(f, n + 1) = Append(Below(f, n), f[n])
BY DEF Below

\* Going back one row is dropping the last.
LEMMA Pop ==
    ASSUME NEW f, NEW n \in Nat \ {0}
    PROVE  /\ Below(f, n) # <<>>
           /\ Below(f, n)[Len(Below(f, n))] = f[n - 1]
           /\ SubSeq(Below(f, n), 1, Len(Below(f, n)) - 1) = Below(f, n - 1)
BY DEF Below

-----------------------------------------------------------------------------
\* The operators on instructions and rows that CfiTable sees are those of
\* run_cfi_program: CfiInsn reaches both modules.
LEMMA SameOperators ==
    /\ Table!FirstRow = FirstRow /\ Table!ZeroRow = ZeroRow
    /\ \A i : Table!Refused(i) <=> Refused(i)
    /\ \A i, row : Table!LosesStep(i, row) <=> LosesStep(i, row)
    /\ \A i, l : Table!LocAfter(i, l) = LocAfter(i, l)
    /\ \A i, row, cr : Table!Edit(i, row, cr) = Edit(i, row, cr)
<1>1. Table!FirstRow = FirstRow /\ Table!ZeroRow = ZeroRow
  BY Zenon DEF Table!FirstRow, FirstRow, Table!BadCfa, BadCfa, Table!ZeroRow, ZeroRow
<1>2. \A i : Table!Refused(i) <=> Refused(i)
  BY Zenon DEF Table!Refused, Refused
<1>3. \A i, row : Table!LosesStep(i, row) <=> LosesStep(i, row)
  BY Zenon DEF Table!LosesStep, LosesStep
<1>4. \A i, l : Table!LocAfter(i, l) = LocAfter(i, l)
  BY Zenon DEF Table!LocAfter, LocAfter
<1>5. \A i, row, cr : Table!Edit(i, row, cr) = Edit(i, row, cr)
  BY ZenonT(60) DEF Table!Edit, Edit, Table!WithRule, WithRule, Table!WithCfa, WithCfa
<1> QED BY <1>1, <1>2, <1>3, <1>4, <1>5, Zenon

\* The array with its depth is a stack with no row on it.
LEMMA TableInit == Init => Table!Init
<1> SUFFICES ASSUME Init PROVE Table!Init
  BY Zenon
<1>1. Top = 0 /\ 0 \in Depths
  BY CfiProgramAssumption DEF Init, Top, Depths
<1>2. reg[Top] = FirstRow
  BY <1>1, Zenon DEF Init
<1>3. [d \in 1 .. Top |-> reg[d - 1]] = <<>>
  BY <1>1
<1> QED BY <1>2, <1>3, SameOperators, Zenon DEF Init, Table!Init

\* Giving up, and going past the end of the instructions, changes no row.
LEMMA TableGive ==
    ASSUME TypeOK, NEW o, Give(o)
    PROVE  /\ UNCHANGED <<in, ptr, loc, cie_regs, stackDepth, reg>>
           /\ Top' = Top /\ phase' = o
BY Zenon DEF Give, Top

\* Every instruction run_cfi_program executes is one step of the stack of rows.
LEMMA TableStep == TypeOK /\ UpToPc /\ [Next]_vars => [Table!Next]_(Table!vars)
<1> SUFFICES ASSUME TypeOK, UpToPc, [Next]_vars PROVE [Table!Next]_(Table!vars)
  BY Zenon
<1> DEFINE aphase == IF phase = "check" THEN "fde" ELSE phase
           rows == [d \in 1 .. Top |-> reg[d - 1]]
<1>0. ASSUME Running
      PROVE  /\ aphase = phase /\ stackDepth \in Depths /\ Top = stackDepth
             /\ Table!Running /\ Table!Program = Program /\ ~Table!Behind
  <2>1. stackDepth \in Depths /\ stackDepth \in Nat
    BY <1>0, CfiProgramAssumption DEF TypeOK, Running, Depths
  <2>2. Top = stackDepth
    BY <2>1, CfiProgramAssumption DEF Top, Depths
  <2>3. in.pc \in Nat /\ loc \in Nat
    BY CfiInputsAssumption, Zenon DEF TypeOK
  <2> QED BY <1>0, <2>1, <2>2, <2>3
          DEF Running, UpToPc, Table!Running, Table!Program, Program, Table!Behind
<1>1. ASSUME NEW o \in {"failed", "lost"}, Running, Give(o) PROVE Table!Next
  <2>1. reg[Top]' = reg[Top] /\ rows' = rows
    BY <1>1, TableGive, Zenon
  <2> QED BY <1>0, <1>1, <2>1, TableGive, Zenon DEF Table!Next, Table!Fail, Give
<1>2. CASE TooMany \/ RestoreUnbalanced \/ Refuse \/ LoseStep
  BY <1>1, <1>2, Zenon DEF TooMany, RestoreUnbalanced, Refuse, LoseStep, At
<1>3. ASSUME NEW l, Running, Continue(l) PROVE aphase' = aphase /\ ptr' = ptr + 1 /\ loc' = l
  BY <1>3, Zenon DEF Continue, Reached, Running
<1>4. CASE Execute
  <2> DEFINE i == Program[ptr]
  <2>1. Running /\ ptr <= Len(Program) /\ Top' = Top /\ Top \in Depths
    BY <1>0, <1>4, Zenon DEF Execute, Top
  <2>2. reg'[Top] = Edit(i, reg[Top], cie_regs)
    BY <1>0, <1>4, <2>1, Zenon DEF Execute, REG_STATE, TypeOK
  <2>3. rows' = rows
    <3>1. ASSUME NEW d \in 1 .. Top PROVE reg'[d - 1] = reg[d - 1]
      BY <1>0, <1>4, <2>1, CfiProgramAssumption DEF Execute, TypeOK, Depths
    <3> QED BY <2>1, <3>1, Zenon
  <2>4. ~Refused(i) /\ ~LosesStep(i, reg[Top]) /\ i.op \notin {"remember", "restore_state"}
    BY <1>0, <1>4, <2>1, Zenon DEF Execute, REG_STATE
  <2>5. aphase' = aphase /\ ptr' = ptr + 1 /\ loc' = LocAfter(i, loc)
    BY <1>3, <1>4, <2>1, Zenon DEF Execute
  <2>6. Table!Apply
    BY <1>0, <1>4, <2>1, <2>2, <2>3, <2>4, <2>5, SameOperators, Zenon DEF Table!Apply, Execute
  <2> QED BY <2>6, Zenon DEF Table!Next
<1>5. CASE Remember
  <2> DEFINE i == Program[ptr]
  <2>1. Running /\ ptr <= Len(Program) /\ i.op = "remember" /\ Top = stackDepth
    BY <1>0, <1>5, Zenon DEF Remember, At
  <2>2. stackDepth \in Nat /\ stackDepth + 1 \in Depths /\ Top' = stackDepth + 1
    BY <1>0, <1>5, <2>1, CfiProgramAssumption DEF Remember, Depths, Top
  <2>3. reg'[Top'] = reg[Top]
    BY <1>5, <2>1, <2>2, Zenon DEF Remember, REG_STATE, TypeOK
  <2>4. rows' = Append(rows, reg[Top])
    <3>1. ASSUME NEW d \in 1 .. stackDepth + 1 PROVE reg'[d - 1] = reg[d - 1]
      BY <1>5, <2>2 DEF Remember, TypeOK, Depths
    <3>2. rows' = Below(reg, stackDepth + 1)
      BY <2>2, <3>1, Zenon DEF Below
    <3>3. rows = Below(reg, stackDepth)
      BY <2>1, Zenon DEF Below
    <3>4. Below(reg, stackDepth + 1) = Append(Below(reg, stackDepth), reg[stackDepth])
      BY <2>2, Push, Zenon
    <3> HIDE DEF rows
    <3> QED BY <2>1, <3>2, <3>3, <3>4, Zenon
  <2>5. ~Refused(i) /\ ~LosesStep(i, reg[Top]) /\ LocAfter(i, loc) = loc
    BY <2>1, Zenon DEF Refused, LosesStep, LocAfter
  <2>6. aphase' = aphase /\ ptr' = ptr + 1 /\ loc' = loc
    BY <1>3, <1>5, <2>1, Zenon DEF Remember
  <2>7. Table!Apply
    BY <1>0, <1>5, <2>1, <2>3, <2>4, <2>5, <2>6, SameOperators, Zenon DEF Table!Apply, Remember
  <2> QED BY <2>7, Zenon DEF Table!Next
<1>6. CASE RestoreState
  <2> DEFINE i == Program[ptr]
  <2>1. Running /\ ptr <= Len(Program) /\ i.op = "restore_state" /\ Top = stackDepth
    BY <1>0, <1>6, Zenon DEF RestoreState, At
  <2>2. stackDepth \in Nat \ {0} /\ Top' = stackDepth - 1
    BY <1>0, <1>6, <2>1, CfiProgramAssumption DEF RestoreState, Depths, Top
  <2>3. reg' = reg /\ rows = Below(reg, stackDepth) /\ rows' = Below(reg, stackDepth - 1)
    BY <1>6, <2>1, <2>2, Zenon DEF RestoreState, Below
  <2>4. /\ rows # <<>> /\ reg'[Top'] = rows[Len(rows)]
        /\ rows' = SubSeq(rows, 1, Len(rows) - 1)
    <3> DEFINE below == Below(reg, stackDepth)
    <3>1. /\ below # <<>> /\ below[Len(below)] = reg[stackDepth - 1]
          /\ SubSeq(below, 1, Len(below) - 1) = Below(reg, stackDepth - 1)
      BY <2>2, Pop, Zenon
    <3> HIDE DEF rows
    <3> QED BY <2>2, <2>3, <3>1, Zenon
  <2>5. ~Refused(i) /\ ~LosesStep(i, reg[Top]) /\ LocAfter(i, loc) = loc
    BY <2>1, Zenon DEF Refused, LosesStep, LocAfter
  <2>6. aphase' = aphase /\ ptr' = ptr + 1 /\ loc' = loc
    BY <1>3, <1>6, <2>1, Zenon DEF RestoreState
  <2>7. Table!Apply
    BY <1>0, <1>6, <2>1, <2>4, <2>5, <2>6, SameOperators, Zenon DEF Table!Apply, RestoreState
  <2> QED BY <2>7, Zenon DEF Table!Next
<1>7. CASE RememberTooMany
  <2>1. Running /\ phase' = "failed" /\ reg' = reg
    BY <1>7, Zenon DEF RememberTooMany, At
  <2>2. stackDepth + 1 = MaxDepth /\ Top' = Top
    BY <1>0, <1>7, <2>1, CfiProgramAssumption DEF RememberTooMany, Depths, Top
  <2>3. reg[Top]' = reg[Top] /\ rows' = rows
    BY <2>1, <2>2, Zenon
  <2> QED BY <1>0, <1>7, <2>1, <2>3, Zenon DEF RememberTooMany, Table!Next, Table!Fail
<1>8. CASE EndCie
  <2>1. Running /\ phase = "cie" /\ phase' = "fde" /\ Top' = Top /\ reg' = reg
    BY <1>8, Zenon DEF EndCie, Running, Top
  <2>2. reg[Top]' = reg[Top] /\ rows' = rows /\ cie_regs' = reg[Top].regs
    BY <1>0, <1>8, <2>1, Zenon DEF EndCie, REG_STATE
  <2> QED BY <1>8, <2>1, <2>2, Zenon DEF EndCie, Table!Next, Table!EndCie
<1>9. CASE EndFde
  <2>1. phase = "fde" /\ Give("check")
    BY <1>9, Zenon DEF EndFde
  <2>2. UNCHANGED <<in, aphase, ptr, loc, cie_regs, reg[Top], rows>>
    BY <2>1, TableGive, Zenon
  <2> QED BY <2>2, Zenon DEF Table!vars
<1>10. CASE CheckEnd
  <2>1. phase = "check" /\ Give(IF loc > in.end THEN "failed" ELSE "done")
    BY <1>10, Zenon DEF CheckEnd
  <2>2. UNCHANGED <<in, ptr, loc, cie_regs, reg[Top], rows>>
    BY <2>1, TableGive, Zenon
  <2>3. CASE loc > in.end
    BY <2>1, <2>2, <2>3, TableGive DEF Table!Next, Table!Fail, Table!Running
  <2>4. CASE ~(loc > in.end)
    <3>1. in.end \in Nat /\ loc \in Nat
      BY CfiInputsAssumption, Zenon DEF TypeOK
    <3>2. phase' = "done" /\ loc <= in.end
      BY <2>1, <2>4, <3>1, TableGive
    <3> QED BY <2>1, <2>2, <3>2, Zenon DEF UpToPc, Table!Next, Table!Finish, Table!Behind
  <2> QED BY <2>3, <2>4, Zenon
<1>11. CASE UNCHANGED vars
  <2>1. UNCHANGED <<in, aphase, ptr, loc, cie_regs, reg[Top], rows>>
    BY <1>11, Zenon DEF vars, Top
  <2> QED BY <2>1, Zenon DEF Table!vars
<1> QED BY <1>2, <1>4, <1>5, <1>6, <1>7, <1>8, <1>9, <1>10, <1>11, Zenon DEF Next

\* run_cfi_program's array of rows implements the stack of rows of CfiTable, for
\* all programs and any STP_MAX_STACK_DEPTH: it refuses, or its row is the pc's.
THEOREM ProgramImplementsTable == Spec => ImplementsTable
<1>1. Init => UpToPc
  BY CfiInputsAssumption, Zenon DEF Init, UpToPc, Running
<1>2. TypeOK /\ UpToPc /\ [Next]_vars => UpToPc'
  BY UpToPcStep, Zenon
<1>3. Init => Table!Init
  BY TableInit, Zenon
<1>4. TypeOK /\ UpToPc /\ [Next]_vars => [Table!Next]_(Table!vars)
  BY TableStep, Zenon
<1>5. Spec => []TypeOK
  BY ProgramTyped, Zenon
<1> QED BY <1>1, <1>2, <1>3, <1>4, <1>5, PTL DEF Spec, ImplementsTable, Table!Spec

-----------------------------------------------------------------------------
(* The row the programs define for the pc *)

INSTANCE WellFoundedInduction

\* A set of natural numbers that is not empty has a smallest member.
LEMMA Smallest ==
    ASSUME NEW T, T \subseteq Nat, T # {}
    PROVE  \E x \in T : \A y \in T : x <= y
<1>1. \E x \in T : \A y \in T : ~(<<y, x>> \in OpToRel(<, Nat))
  BY NatLessThanWellFounded, WFMin, Zenon
<1>2. ASSUME NEW x \in T, NEW y \in T, ~(<<y, x>> \in OpToRel(<, Nat)) PROVE x <= y
  BY <1>2 DEF OpToRel
<1> QED
  BY <1>1, <1>2, Zenon

\* Induction: if each value of h is in S when the earlier ones are, all are.
LEMMA Inductive ==
    ASSUME NEW N \in Nat, NEW S, NEW h,
           \A n \in 0 .. N : (\A j \in 0 .. (n - 1) : h[j] \in S) => h[n] \in S
    PROVE  \A n \in 0 .. N : h[n] \in S
<1> DEFINE Bad == {n \in 0 .. N : h[n] \notin S}
<1> SUFFICES ASSUME Bad # {} PROVE FALSE
  BY Zenon
<1>1. Bad \subseteq Nat
  OBVIOUS
<1>2. PICK k \in Bad : \A y \in Bad : k <= y
  BY <1>1, Smallest, Zenon
<1>3. k \in 0 .. N /\ h[k] \notin S
  BY <1>2, Zenon
<1>4. \A j \in 0 .. (k - 1) : j \in 0 .. N /\ ~(k <= j)
  BY <1>3
<1>5. \A j \in 0 .. (k - 1) : h[j] \in S
  BY <1>2, <1>4, Zenon
<1> QED
  BY <1>3, <1>5, Zenon

\* f below n.
Prefix(f, n) == [j \in 0 .. (n - 1) |-> f[j]]

\* f is the function on 0 .. k that starts with x and goes on as g says.
Follows(f, k, x, g) ==
    f[0] = x /\ \A n \in 1 .. k : f[n] = g[n][Prefix(f, n)]

\* There is a function whose values g determines from the earlier ones.
LEMMA Recursion ==
    ASSUME NEW N \in Nat, NEW S, NEW x \in S,
           NEW g, \A n \in 1 .. N : g[n] \in [[0 .. (n - 1) -> S] -> S]
    PROVE  \E f \in [0 .. N -> S] : Follows(f, N, x, g)
<1> DEFINE Bad == {k \in 0 .. N : ~ \E f \in [0 .. k -> S] : Follows(f, k, x, g)}
<1>1. \E f \in [0 .. 0 -> S] : Follows(f, 0, x, g)
  <2> DEFINE f == [j \in 0 .. 0 |-> x]
  <2>1. f \in [0 .. 0 -> S] /\ f[0] = x /\ \A n : n \notin 1 .. 0
    OBVIOUS
  <2> QED
    BY <2>1, Zenon DEF Follows
<1>2. ASSUME NEW k \in 0 .. N, k # 0, NEW f \in [0 .. (k - 1) -> S], Follows(f, k - 1, x, g)
      PROVE  \E h \in [0 .. k -> S] : Follows(h, k, x, g)
  <2> DEFINE h == [j \in 0 .. k |-> IF j = k THEN g[k][Prefix(f, k)] ELSE f[j]]
  <2>1. Prefix(f, k) \in [0 .. (k - 1) -> S] /\ k \in 1 .. N
    BY <1>2 DEF Prefix
  <2>2. g[k][Prefix(f, k)] \in S
    BY <2>1, Zenon
  <2>3. \A j \in 0 .. k : j # k => j \in 0 .. (k - 1)
    OBVIOUS
  <2>4. h \in [0 .. k -> S]
    BY <2>2, <2>3, Zenon
  <2>5. h[k] = g[k][Prefix(f, k)] /\ \A j \in 0 .. k : j # k => h[j] = f[j]
    OBVIOUS
  <2> HIDE DEF h
  <2>6. ASSUME NEW n \in 1 .. k PROVE Prefix(h, n) = Prefix(f, n)
    <3>1. \A j \in 0 .. (n - 1) : j \in 0 .. k /\ j # k
      OBVIOUS
    <3>2. \A j \in 0 .. (n - 1) : h[j] = f[j]
      BY <2>5, <3>1, Zenon
    <3> QED
      BY <3>2, Zenon DEF Prefix
  <2>7. ASSUME NEW n \in 1 .. k PROVE h[n] = g[n][Prefix(h, n)]
    <3>1. CASE n = k
      BY <2>5, <2>6, <3>1, Zenon
    <3>2. CASE n # k
      <4>1. n \in 1 .. (k - 1) /\ n \in 0 .. k
        BY <3>2
      <4> QED
        BY <1>2, <2>5, <2>6, <3>2, <4>1, Zenon DEF Follows
    <3> QED
      BY <3>1, <3>2, Zenon
  <2>8. h[0] = x
    <3>1. 0 \in 0 .. k /\ 0 # k
      BY <1>2
    <3> QED
      BY <1>2, <2>5, <3>1, Zenon DEF Follows
  <2> QED
    BY <2>4, <2>7, <2>8, Zenon DEF Follows
<1>3. Bad = {}
  <2> SUFFICES ASSUME Bad # {} PROVE FALSE
    BY Zenon
  <2>0. Bad \subseteq Nat
    OBVIOUS
  <2>1. PICK k \in Bad : \A y \in Bad : k <= y
    BY <2>0, Smallest, Zenon
  <2>2. k \in 0 .. N /\ ~ \E f \in [0 .. k -> S] : Follows(f, k, x, g)
    BY <2>1, Zenon
  <2>3. k # 0
    BY <1>1, <2>2, Zenon
  <2>4. k - 1 \in 0 .. N /\ ~(k <= k - 1)
    BY <2>2, <2>3
  <2>5. \E f \in [0 .. (k - 1) -> S] : Follows(f, k - 1, x, g)
    BY <2>1, <2>4, Zenon
  <2> QED
    BY <1>2, <2>2, <2>3, <2>5, Zenon
<1>4. N \in 0 .. N
  OBVIOUS
<1> QED
  BY <1>3, <1>4, Zenon

\* The two programs, one after the other.
LEMMA BothIs ==
    ASSUME in \in Inputs
    PROVE  /\ in.cie \in Seq(Insn) /\ in.fde \in Seq(Insn) /\ Both \in Seq(Insn)
           /\ Len(in.cie) \in Nat /\ Len(in.fde) \in Nat
           /\ Len(Both) = Len(in.cie) + Len(in.fde)
           /\ \A n \in 1 .. Len(Both) : Both[n] \in Insn
           /\ \A n \in 1 .. Len(in.cie) : Both[n] = in.cie[n]
           /\ \A n \in 1 .. Len(in.fde) : Both[Len(in.cie) + n] = in.fde[n]
<1>1. in.cie \in Seq(Insn) /\ in.fde \in Seq(Insn)
  BY CfiInputsAssumption, Zenon
<1>2. /\ Both \in Seq(Insn) /\ Len(in.cie) \in Nat /\ Len(in.fde) \in Nat
      /\ Len(Both) = Len(in.cie) + Len(in.fde)
      /\ \A n \in 1 .. Len(in.cie) : Both[n] = in.cie[n]
      /\ \A n \in 1 .. Len(in.fde) : Both[Len(in.cie) + n] = in.fde[n]
  <2> DEFINE s == in.cie
             t == in.fde
  <2>1. s \in Seq(Insn) /\ t \in Seq(Insn) /\ Both = s \o t
    BY <1>1, Zenon DEF Both
  <2> HIDE DEF s, t
  <2>2. Both \in Seq(Insn) /\ Len(s) \in Nat /\ Len(t) \in Nat /\ Len(Both) = Len(s) + Len(t)
    BY <2>1
  <2>3. ASSUME NEW n \in 1 .. Len(s) PROVE Both[n] = s[n]
    BY <2>1
  <2>4. ASSUME NEW n \in 1 .. Len(t) PROVE Both[Len(s) + n] = t[n]
    BY <2>1
  <2> QED
    BY <2>2, <2>3, <2>4, Zenon DEF s, t
<1>3. ASSUME NEW n \in 1 .. Len(Both) PROVE Both[n] \in Insn
  <2>1. Both \in Seq(Insn)
    BY <1>2, Zenon
  <2> QED
    BY <2>1
<1> QED
  BY <1>1, <1>2, <1>3, Zenon

\* The depth before an instruction and after it.
LEMMA DepthIs ==
    ASSUME in \in Inputs
    PROVE  /\ DepthAt \in [0 .. Len(Both) -> Int] /\ DepthAt[0] = 0
           /\ \A n \in 1 .. Len(Both) : DepthAt[n] = DepthAt[n - 1] + Turn(Both[n])
<1> DEFINE N == Len(Both)
           g == [n \in 1 .. N |-> [p \in [0 .. (n - 1) -> Int] |-> p[n - 1] + Turn(Both[n])]]
           IsDepth(f) == f = [n \in 0 .. N |-> IF n = 0 THEN 0 ELSE f[n - 1] + Turn(Both[n])]
<1>1. N \in Nat
  BY BothIs
<1>2. \A i : Turn(i) \in Int
  BY DEF Turn
<1> HIDE DEF N
<1>3. ASSUME NEW n \in 1 .. N
      PROVE  g[n] \in [[0 .. (n - 1) -> Int] -> Int]
  <2>1. n - 1 \in 0 .. (n - 1)
    BY <1>1
  <2> QED
    BY <1>2, <2>1
<1>4. PICK f \in [0 .. N -> Int] : Follows(f, N, 0, g)
  <2>1. 0 \in Int
    OBVIOUS
  <2> HIDE DEF g
  <2> QED
    BY <1>1, <1>3, <2>1, Recursion, Zenon
<1>5. ASSUME NEW n \in 1 .. N PROVE f[n] = f[n - 1] + Turn(Both[n])
  <2>1. Prefix(f, n) \in [0 .. (n - 1) -> Int] /\ Prefix(f, n)[n - 1] = f[n - 1]
    BY <1>1 DEF Prefix
  <2>2. g[n][Prefix(f, n)] = Prefix(f, n)[n - 1] + Turn(Both[n])
    BY <2>1, Zenon
  <2>3. f[n] = g[n][Prefix(f, n)]
    BY <1>4, Zenon DEF Follows
  <2> QED
    BY <2>1, <2>2, <2>3, Zenon
<1>6. IsDepth(f)
  <2>1. f[0] = 0
    BY <1>4, Zenon DEF Follows
  <2>2. ASSUME NEW n \in 0 .. N, n # 0 PROVE n \in 1 .. N
    BY <2>2, <1>1
  <2>3. \A n \in 0 .. N : f[n] = IF n = 0 THEN 0 ELSE f[n - 1] + Turn(Both[n])
    BY <1>5, <2>1, <2>2, Zenon
  <2>4. f = [n \in 0 .. N |-> f[n]]
    BY <1>4, Zenon
  <2> QED
    BY <2>3, <2>4, Zenon
<1>7. DepthAt = CHOOSE h : IsDepth(h)
  BY Zenon DEF DepthAt, N
<1>8. IsDepth(DepthAt)
  BY <1>6, <1>7, Zenon
<1> HIDE DEF IsDepth
<1>9. DepthAt = [n \in 0 .. N |-> IF n = 0 THEN 0 ELSE DepthAt[n - 1] + Turn(Both[n])]
  BY <1>8, Zenon DEF IsDepth
<1>10. /\ 0 \in 0 .. N /\ \A n \in 1 .. N : n \in 0 .. N /\ n # 0
  BY <1>1
<1>11. DepthAt[0] = 0 /\ \A n \in 1 .. N : DepthAt[n] = DepthAt[n - 1] + Turn(Both[n])
  BY <1>9, <1>10, Zenon
<1>12. ASSUME NEW n \in 0 .. N, \A j \in 0 .. (n - 1) : DepthAt[j] \in Int PROVE DepthAt[n] \in Int
  <2>1. n # 0 => n - 1 \in 0 .. (n - 1) /\ n \in 1 .. N
    BY <1>1
  <2> QED
    BY <1>2, <1>11, <1>12, <2>1
<1>13. \A n \in 0 .. N : DepthAt[n] \in Int
  BY <1>1, <1>12, Inductive, Zenon
<1>14. DepthAt \in [0 .. N -> Int]
  BY <1>9, <1>13, Zenon
<1> QED
  BY <1>11, <1>14, Zenon DEF N

\* The location before an instruction and after it.
LEMMA LocIs ==
    ASSUME in \in Inputs
    PROVE  /\ LocAt \in [0 .. Len(Both) -> Nat] /\ LocAt[0] = in.start
           /\ \A n \in 1 .. Len(Both) : LocAt[n] = LocAfter(Both[n], LocAt[n - 1])
<1> DEFINE N == Len(Both)
           g == [n \in 1 .. N |-> [p \in [0 .. (n - 1) -> Nat] |-> LocAfter(Both[n], p[n - 1])]]
           IsLoc(f) == f = [n \in 0 .. N |->
               IF n = 0 THEN in.start ELSE LocAfter(Both[n], f[n - 1])]
<1>1. N \in Nat
  BY BothIs
<1>2. /\ in.start \in Nat
      /\ \A n \in 1 .. N, m \in Nat : LocAfter(Both[n], m) \in Nat
  BY BothIs, LocType, CfiInputsAssumption, Zenon
<1> HIDE DEF N
<1>3. ASSUME NEW n \in 1 .. N
      PROVE  g[n] \in [[0 .. (n - 1) -> Nat] -> Nat]
  <2>1. n - 1 \in 0 .. (n - 1)
    BY <1>1
  <2> QED
    BY <1>2, <2>1, Zenon
<1>4. PICK f \in [0 .. N -> Nat] : Follows(f, N, in.start, g)
  <2> HIDE DEF g
  <2> QED
    BY <1>1, <1>2, <1>3, Recursion, Zenon
<1>5. ASSUME NEW n \in 1 .. N PROVE f[n] = LocAfter(Both[n], f[n - 1])
  <2>1. Prefix(f, n) \in [0 .. (n - 1) -> Nat] /\ Prefix(f, n)[n - 1] = f[n - 1]
    BY <1>1 DEF Prefix
  <2>2. g[n][Prefix(f, n)] = LocAfter(Both[n], Prefix(f, n)[n - 1])
    BY <2>1, Zenon
  <2>3. f[n] = g[n][Prefix(f, n)]
    BY <1>4, Zenon DEF Follows
  <2> QED
    BY <2>1, <2>2, <2>3, Zenon
<1>6. IsLoc(f)
  <2>1. f[0] = in.start
    BY <1>4, Zenon DEF Follows
  <2>2. ASSUME NEW n \in 0 .. N, n # 0 PROVE n \in 1 .. N
    BY <2>2, <1>1
  <2>3. \A n \in 0 .. N : f[n] = IF n = 0 THEN in.start ELSE LocAfter(Both[n], f[n - 1])
    BY <1>5, <2>1, <2>2, Zenon
  <2>4. f = [n \in 0 .. N |-> f[n]]
    BY <1>4, Zenon
  <2> QED
    BY <2>3, <2>4, Zenon
<1>7. LocAt = CHOOSE h : IsLoc(h)
  BY Zenon DEF LocAt, N
<1>8. IsLoc(LocAt)
  BY <1>6, <1>7, Zenon
<1> HIDE DEF IsLoc
<1>9. LocAt = [n \in 0 .. N |-> IF n = 0 THEN in.start ELSE LocAfter(Both[n], LocAt[n - 1])]
  BY <1>8, Zenon DEF IsLoc
<1>10. /\ 0 \in 0 .. N /\ \A n \in 1 .. N : n \in 0 .. N /\ n # 0
  BY <1>1
<1>11. LocAt[0] = in.start /\ \A n \in 1 .. N : LocAt[n] = LocAfter(Both[n], LocAt[n - 1])
  BY <1>9, <1>10, Zenon
<1>12. ASSUME NEW n \in 0 .. N, \A j \in 0 .. (n - 1) : LocAt[j] \in Nat PROVE LocAt[n] \in Nat
  <2>1. n # 0 => n - 1 \in 0 .. (n - 1) /\ n \in 1 .. N
    BY <1>1
  <2>2. CASE n = 0
    BY <1>2, <1>11, <2>2, Zenon
  <2>3. CASE n # 0
    <3>1. LocAt[n - 1] \in Nat /\ LocAt[n] = LocAfter(Both[n], LocAt[n - 1])
      BY <1>11, <1>12, <2>1, <2>3, Zenon
    <3> QED
      BY <1>2, <2>1, <2>3, <3>1, Zenon
  <2> QED
    BY <2>2, <2>3, Zenon
<1>13. \A n \in 0 .. N : LocAt[n] \in Nat
  BY <1>1, <1>12, Inductive, Zenon
<1>14. LocAt \in [0 .. N -> Nat]
  BY <1>9, <1>13, Zenon
<1> QED
  BY <1>11, <1>14, Zenon DEF N

\* The row after instruction n, from the rows p before it.
RowStep(n, p) ==
    IF Both[n].op = "restore_state"
    THEN IF \E m \in 1 .. n - 1 : Opens(m, n) THEN p[Opening(n) - 1] ELSE FirstRow
    ELSE Edit(Both[n], p[n - 1],
              IF n <= Len(in.cie) THEN ZeroRow.regs ELSE p[Len(in.cie)].regs)

\* It depends on earlier rows only, and is a row.
LEMMA RowStepBack ==
    ASSUME in \in Inputs, NEW n \in 1 .. Len(Both), NEW p, NEW q,
           \A j \in 0 .. (n - 1) : p[j] = q[j] /\ q[j] \in Row
    PROVE  RowStep(n, p) = RowStep(n, q) /\ RowStep(n, q) \in Row
<1>0. n \in Nat
  OBVIOUS
<1>1. Len(in.cie) \in Nat /\ Both[n] \in Insn /\ n \in Nat
  BY <1>0, BothIs, Zenon
<1>2. CASE Both[n].op = "restore_state" /\ \E m \in 1 .. n - 1 : Opens(m, n)
  <2>1. Opening(n) \in 1 .. n - 1
    BY <1>2, Zenon DEF Opening
  <2>2. Opening(n) - 1 \in 0 .. (n - 1)
    BY <1>1, <2>1
  <2> QED
    BY <1>2, <2>2, Zenon DEF RowStep
<1>3. CASE Both[n].op = "restore_state" /\ ~\E m \in 1 .. n - 1 : Opens(m, n)
  BY <1>3, FirstRows, Zenon DEF RowStep
<1>4. CASE Both[n].op # "restore_state"
  <2>1. n - 1 \in 0 .. (n - 1)
    BY <1>1
  <2>2. ~(n <= Len(in.cie)) => Len(in.cie) \in 0 .. (n - 1)
    BY <1>1
  <2>3. \A row \in Row : row.regs \in [Regs -> Rules]
    BY Zenon DEF Row
  <2> DEFINE cr == IF n <= Len(in.cie) THEN ZeroRow.regs ELSE q[Len(in.cie)].regs
  <2>4. cr \in [Regs -> Rules]
    BY <2>2, <2>3, FirstRows, Zenon
  <2>5. Edit(Both[n], q[n - 1], cr) \in Row
    BY <1>1, <2>1, <2>4, EditType, Zenon
  <2> QED
    BY <1>4, <2>1, <2>2, <2>5, Zenon DEF RowStep
<1> QED
  BY <1>2, <1>3, <1>4, Zenon

\* The row before an instruction and after it.
LEMMA RowIs ==
    ASSUME in \in Inputs
    PROVE  /\ RowAt \in [0 .. Len(Both) -> Row] /\ RowAt[0] = FirstRow
           /\ \A n \in 1 .. Len(Both) : RowAt[n] = RowStep(n, RowAt)
<1> DEFINE N == Len(Both)
           g == [n \in 1 .. N |-> [p \in [0 .. (n - 1) -> Row] |-> RowStep(n, p)]]
           IsRow(f) == f = [n \in 0 .. N |->
               IF n = 0 \/ (Both[n].op = "restore_state" /\ ~\E m \in 1 .. n - 1 : Opens(m, n))
               THEN FirstRow
               ELSE IF Both[n].op = "restore_state" THEN f[Opening(n) - 1]
               ELSE Edit(Both[n], f[n - 1],
                         IF n <= Len(in.cie) THEN ZeroRow.regs ELSE f[Len(in.cie)].regs)]
<1>1. N \in Nat
  BY BothIs
<1>2. ASSUME NEW n \in 1 .. N, NEW p, NEW q, \A j \in 0 .. (n - 1) : p[j] = q[j] /\ q[j] \in Row
      PROVE  RowStep(n, p) = RowStep(n, q) /\ RowStep(n, q) \in Row
  BY <1>2, RowStepBack, Zenon
<1> HIDE DEF N
<1>3. ASSUME NEW n \in 1 .. N
      PROVE  g[n] \in [[0 .. (n - 1) -> Row] -> Row]
  <2>1. ASSUME NEW p \in [0 .. (n - 1) -> Row] PROVE RowStep(n, p) \in Row
    BY <1>2, Zenon
  <2> QED
    BY <2>1, Zenon
<1>4. PICK f \in [0 .. N -> Row] : Follows(f, N, FirstRow, g)
  <2> HIDE DEF g
  <2> QED
    BY <1>1, <1>3, FirstRows, Recursion, Zenon
<1>5. ASSUME NEW n \in 1 .. N PROVE f[n] = RowStep(n, f)
  <2>1. \A j \in 0 .. (n - 1) : j \in 0 .. N
    BY <1>1
  <2>2. /\ Prefix(f, n) \in [0 .. (n - 1) -> Row]
        /\ \A j \in 0 .. (n - 1) : Prefix(f, n)[j] = f[j] /\ f[j] \in Row
    BY <2>1, Zenon DEF Prefix
  <2>3. g[n][Prefix(f, n)] = RowStep(n, Prefix(f, n))
    BY <2>2, Zenon
  <2>4. f[n] = g[n][Prefix(f, n)]
    BY <1>4, Zenon DEF Follows
  <2>5. RowStep(n, Prefix(f, n)) = RowStep(n, f)
    BY <1>2, <2>2, Zenon
  <2> QED
    BY <2>3, <2>4, <2>5, Zenon
<1>6. IsRow(f)
  <2>1. f[0] = FirstRow
    BY <1>4, Zenon DEF Follows
  <2>2. ASSUME NEW n \in 0 .. N, n # 0 PROVE n \in 1 .. N
    BY <2>2, <1>1
  <2>3. \A n \in 0 .. N : f[n] =
               IF n = 0 \/ (Both[n].op = "restore_state" /\ ~\E m \in 1 .. n - 1 : Opens(m, n))
               THEN FirstRow
               ELSE IF Both[n].op = "restore_state" THEN f[Opening(n) - 1]
               ELSE Edit(Both[n], f[n - 1],
                         IF n <= Len(in.cie) THEN ZeroRow.regs ELSE f[Len(in.cie)].regs)
    BY <1>5, <2>1, <2>2, Zenon DEF RowStep
  <2>4. f = [n \in 0 .. N |-> f[n]]
    BY <1>4, Zenon
  <2> QED
    BY <2>3, <2>4, Zenon
<1>7. RowAt = CHOOSE h : IsRow(h)
  BY Zenon DEF RowAt, N
<1>8. IsRow(RowAt)
  BY <1>6, <1>7, Zenon
<1>9. /\ 0 \in 0 .. N /\ \A n \in 1 .. N : n \in 0 .. N /\ n # 0
  BY <1>1
<1>10. RowAt[0] = FirstRow /\ \A n \in 1 .. N : RowAt[n] = RowStep(n, RowAt)
  BY <1>8, <1>9, Zenon DEF RowStep
<1>11. RowAt = [n \in 0 .. N |-> RowAt[n]]
  BY <1>8, Zenon
<1>12. ASSUME NEW n \in 0 .. N, \A j \in 0 .. (n - 1) : RowAt[j] \in Row PROVE RowAt[n] \in Row
  <2>1. n # 0 => n \in 1 .. N
    BY <1>1
  <2> QED
    BY <1>2, <1>10, <1>12, <2>1, FirstRows, ZenonT(60)
<1>13. \A n \in 0 .. N : RowAt[n] \in Row
  BY <1>1, <1>12, Inductive, Zenon
<1>14. RowAt \in [0 .. N -> Row]
  BY <1>11, <1>13, Zenon
<1> QED
  BY <1>10, <1>14, Zenon DEF N

\* A restore_state closes one remember_state: the depth is lower before any later one
\* of the same depth.
LEMMA OneOpening ==
    ASSUME in \in Inputs, NEW n \in 1 .. Len(Both), NEW m \in 1 .. n - 1, Opens(m, n)
    PROVE  Opening(n) = m
<1> DEFINE c == Opening(n)
<1>1. c \in 1 .. n - 1 /\ Opens(c, n)
  BY Zenon DEF Opening
<1> HIDE DEF c
<1>2. ASSUME NEW a \in 1 .. n - 1, NEW b \in 1 .. n - 1, Opens(a, n), Opens(b, n), a < b
      PROVE  FALSE
  <2>1. b - 1 \in a .. n - 1 /\ b \in 1 .. Len(Both) /\ b - 1 \in 0 .. Len(Both)
    BY <1>2
  <2>2. DepthAt[b] = DepthAt[b - 1] + 1 /\ DepthAt[b - 1] \in Int
    BY <1>2, <2>1, DepthIs, Zenon DEF Opens, Turn
  <2>3. DepthAt[b] = DepthAt[a] /\ DepthAt[b - 1] >= DepthAt[a]
    BY <1>2, <2>1, Zenon DEF Opens
  <2> QED
    BY <2>2, <2>3
<1>3. ~(c < m) /\ ~(m < c)
  BY <1>1, <1>2, Zenon
<1>4. c = m
  BY <1>1, <1>3
<1> QED
  BY <1>4, Zenon DEF c

\* The instructions run_cfi_program has executed, over both programs.
Pos == IF phase = "cie" THEN ptr - 1 ELSE Len(in.cie) + ptr - 1

\* Row d - 1 of the array is what a remember_state that is still open saved.
Saved(d) ==
    \E m \in 1 .. Pos :
        /\ Both[m].op = "remember" /\ DepthAt[m] = d
        /\ \A j \in m .. Pos : DepthAt[j] >= d
        /\ reg[d - 1] = RowAt[m - 1]

\* The state after Pos instructions is what the programs define for there.
Follow ==
    phase \notin {"failed", "lost"} =>
        /\ Pos \in 0 .. Len(Both) /\ (phase = "cie" => Pos <= Len(in.cie))
        /\ stackDepth = DepthAt[Pos] /\ loc = LocAt[Pos] /\ reg[stackDepth] = RowAt[Pos]
        /\ cie_regs = IF phase = "cie" THEN ZeroRow.regs ELSE RowAt[Len(in.cie)].regs
        /\ \A d \in 1 .. stackDepth : Saved(d)
        /\ phase # "cie" => \A j \in Len(in.cie) .. Pos - 1 : LocAt[j] <= in.pc
        /\ phase \in {"check", "done"} => Pos = Len(Both) \/ LocAt[Pos] > in.pc

\* What the programs define does not change while they run.
LEMMA SameInput ==
    ASSUME in' = in
    PROVE  Both' = Both /\ DepthAt' = DepthAt /\ LocAt' = LocAt /\ RowAt' = RowAt
<1>1. Both' = Both
  BY Zenon DEF Both
<1>2. DepthAt' = DepthAt /\ LocAt' = LocAt
  BY <1>1, ZenonT(60) DEF DepthAt, LocAt
<1>3. RowAt' = RowAt
  <2> DEFINE IsOpen(b, dt, m, n) ==
                 /\ b[m].op = "remember" /\ dt[m] = dt[n - 1]
                 /\ \A j \in m .. n - 1 : dt[j] >= dt[m]
             Rows(i, b, dt) ==
                 LET row[n \in 0 .. Len(b)] ==
                         IF \/ n = 0
                            \/ (/\ b[n].op = "restore_state"
                                /\ ~\E m \in 1 .. n - 1 : IsOpen(b, dt, m, n))
                         THEN FirstRow
                         ELSE IF b[n].op = "restore_state"
                         THEN row[(CHOOSE m \in 1 .. n - 1 : IsOpen(b, dt, m, n)) - 1]
                         ELSE Edit(b[n], row[n - 1],
                                   IF n <= Len(i.cie) THEN ZeroRow.regs
                                   ELSE row[Len(i.cie)].regs)
                 IN  row
  <2>1. RowAt = Rows(in, Both, DepthAt)
    BY Zenon DEF RowAt, Opening, Opens
  <2>2. RowAt' = Rows(in', Both', DepthAt')
    BY Zenon DEF RowAt, Opening, Opens
  <2> HIDE DEF Rows
  <2> QED
    BY <1>1, <1>2, <2>1, <2>2, Zenon
<1> QED
  BY <1>1, <1>2, <1>3, Zenon

\* Before the first instruction.
LEMMA FollowInit == Init => Follow
<1> SUFFICES ASSUME Init PROVE Follow
  BY Zenon
<1>1. in \in Inputs /\ phase = "cie" /\ ptr = 1 /\ stackDepth = 0 /\ loc = in.start
  BY Zenon DEF Init
<1>2. Pos = 0 /\ Len(Both) \in Nat /\ Len(in.cie) \in Nat
  BY <1>1, BothIs DEF Pos
<1>3. reg[0] = FirstRow /\ cie_regs = ZeroRow.regs
  BY CfiProgramAssumption DEF Init, Depths
<1>4. DepthAt[0] = 0 /\ LocAt[0] = in.start /\ RowAt[0] = FirstRow
  BY <1>1, DepthIs, LocIs, RowIs, Zenon
<1> QED
  BY <1>1, <1>2, <1>3, <1>4 DEF Follow

\* One instruction later.
LEMMA After ==
    ASSUME in \in Inputs, NEW n \in Nat, n + 1 \in 1 .. Len(Both)
    PROVE  /\ DepthAt[n] \in Int
           /\ DepthAt[n + 1] = DepthAt[n] + Turn(Both[n + 1])
           /\ LocAt[n + 1] = LocAfter(Both[n + 1], LocAt[n])
           /\ RowAt[n + 1] = RowStep(n + 1, RowAt)
<1>1. (n + 1) - 1 = n /\ n \in 0 .. Len(Both)
  BY BothIs
<1>2. DepthAt[n] \in Int
  BY <1>1, DepthIs, Zenon
<1>3. ASSUME NEW k \in 1 .. Len(Both), k - 1 = n
      PROVE  /\ DepthAt[k] = DepthAt[n] + Turn(Both[k])
             /\ LocAt[k] = LocAfter(Both[k], LocAt[n])
             /\ RowAt[k] = RowStep(k, RowAt)
  <2>1. DepthAt[k] = DepthAt[k - 1] + Turn(Both[k])
    BY DepthIs, Zenon
  <2>2. LocAt[k] = LocAfter(Both[k], LocAt[k - 1])
    BY LocIs, Zenon
  <2>3. RowAt[k] = RowStep(k, RowAt)
    BY RowIs, Zenon
  <2> QED
    BY <1>3, <2>1, <2>2, <2>3, Zenon
<1>4. n + 1 \in 1 .. Len(Both) /\ (n + 1) - 1 = n
  BY <1>1, Zenon
<1> QED
  BY <1>2, <1>3, <1>4, Zenon

\* The next instruction is the one after the first Pos of both programs.
LEMMA NextIs ==
    ASSUME TypeOK, Running, ptr <= Len(Program)
    PROVE  /\ Pos \in Nat /\ Pos + 1 \in 1 .. Len(Both) /\ Both[Pos + 1] = Program[ptr]
           /\ phase = "cie" => Pos + 1 <= Len(in.cie)
<1> DEFINE a == Len(in.cie)
           b == Len(in.fde)
<1>1. in \in Inputs /\ ptr \in Nat \ {0} /\ phase \in {"cie", "fde"}
  BY Zenon DEF TypeOK, Running
<1>2. a \in Nat /\ b \in Nat /\ Len(Both) = a + b
  BY <1>1, BothIs, Zenon
<1>3. CASE phase = "cie"
  <2>1. Program = in.cie /\ Pos = ptr - 1
    BY <1>3, Zenon DEF Program, Pos
  <2>2. ptr <= a
    BY <2>1, Zenon
  <2> HIDE DEF a, b
  <2>3. ptr \in 1 .. a /\ ptr \in 1 .. a + b
    BY <1>1, <1>2, <2>2
  <2>4. ptr - 1 \in Nat /\ (ptr - 1) + 1 = ptr
    BY <1>1
  <2>5. Both[ptr] = in.cie[ptr]
    BY <1>1, <2>3, BothIs, Zenon DEF a
  <2> QED
    BY <1>2, <2>1, <2>2, <2>3, <2>4, <2>5, Zenon DEF a
<1>4. CASE phase = "fde"
  <2>1. Program = in.fde /\ Pos = a + ptr - 1 /\ phase # "cie"
    BY <1>4, Zenon DEF Program, Pos
  <2>2. ptr <= b
    BY <2>1, Zenon
  <2> HIDE DEF a, b
  <2>3. ptr \in 1 .. b /\ a + ptr \in 1 .. a + b
    BY <1>1, <1>2, <2>2
  <2>4. a + ptr - 1 \in Nat /\ (a + ptr - 1) + 1 = a + ptr
    BY <1>1, <1>2
  <2>5. Both[a + ptr] = in.fde[ptr]
    BY <1>1, <2>3, BothIs, Zenon DEF a, b
  <2> QED
    BY <1>2, <2>1, <2>3, <2>4, <2>5, Zenon
<1> QED
  BY <1>1, <1>3, <1>4, Zenon

\* An instruction that does to the array what the programs mean by it.
LEMMA FollowOn ==
    ASSUME TypeOK, UpToPc, Follow, Running, ptr <= Len(Program),
           in' = in, cie_regs' = cie_regs, NEW i, i = Program[ptr],
           Continue(LocAfter(i, loc)), stackDepth' = stackDepth + Turn(i),
           reg'[stackDepth'] = RowStep(Pos + 1, RowAt),
           \A d \in 1 .. stackDepth : reg'[d - 1] = reg[d - 1] \/ d > stackDepth',
           i.op = "remember" => reg'[stackDepth] = reg[stackDepth]
    PROVE  Follow'
<1>1. /\ in \in Inputs /\ ptr \in Nat \ {0} /\ phase \in {"cie", "fde"} /\ loc \in Nat
      /\ Len(in.cie) \in Nat /\ Len(in.fde) \in Nat /\ Len(Both) = Len(in.cie) + Len(in.fde)
  BY BothIs, Zenon DEF TypeOK, Running
<1>2. /\ Pos \in Nat /\ Pos + 1 \in 1 .. Len(Both) /\ Both[Pos + 1] = i
      /\ phase = "cie" => Pos + 1 <= Len(in.cie)
  BY NextIs, Zenon
<1>3. /\ phase' \in {"cie", "fde", "check"} /\ (phase' = "cie" <=> phase = "cie")
      /\ Pos' = Pos + 1 /\ loc' = LocAfter(i, loc)
      /\ phase' = "check" => in.pc < loc'
  BY <1>1 DEF Continue, Reached, Pos
<1>4. Both' = Both /\ DepthAt' = DepthAt /\ LocAt' = LocAt /\ RowAt' = RowAt
  BY SameInput, Zenon
<1>5. /\ stackDepth = DepthAt[Pos] /\ loc = LocAt[Pos] /\ reg[stackDepth] = RowAt[Pos]
      /\ cie_regs = IF phase = "cie" THEN ZeroRow.regs ELSE RowAt[Len(in.cie)].regs
      /\ \A d \in 1 .. stackDepth : Saved(d)
      /\ phase # "cie" => \A j \in Len(in.cie) .. Pos - 1 : LocAt[j] <= in.pc
  BY <1>1, Zenon DEF Follow
<1>6. /\ DepthAt[Pos + 1] = stackDepth' /\ LocAt[Pos + 1] = loc'
      /\ RowAt[Pos + 1] = reg'[stackDepth']
  <2>1. /\ DepthAt[Pos + 1] = DepthAt[Pos] + Turn(i)
        /\ LocAt[Pos + 1] = LocAfter(i, LocAt[Pos])
        /\ RowAt[Pos + 1] = RowStep(Pos + 1, RowAt)
    BY <1>1, <1>2, After, Zenon
  <2> QED
    BY <1>3, <1>5, <2>1, Zenon
<1>7. ASSUME NEW d \in 1 .. stackDepth' PROVE Saved(d)'
  <2>1. /\ stackDepth \in Int /\ stackDepth' \in Int /\ stackDepth' <= stackDepth + 1
        /\ stackDepth' = stackDepth + 1 => i.op = "remember"
    <3>1. DepthAt[Pos] \in Int
      BY <1>1, <1>2, After, Zenon
    <3> QED
      BY <1>5, <3>1 DEF Turn
  <2> SUFFICES \E m \in 1 .. Pos + 1 :
                   /\ Both[m].op = "remember" /\ DepthAt[m] = d
                   /\ \A j \in m .. Pos + 1 : DepthAt[j] >= d
                   /\ reg'[d - 1] = RowAt[m - 1]
    BY <1>3, <1>4, Zenon DEF Saved
  <2>2. CASE d <= stackDepth
    <3>1. Saved(d)
      BY <1>5, <2>1, <2>2
    <3>2. PICK m \in 1 .. Pos :
              /\ Both[m].op = "remember" /\ DepthAt[m] = d
              /\ \A j \in m .. Pos : DepthAt[j] >= d
              /\ reg[d - 1] = RowAt[m - 1]
      BY <3>1, Zenon DEF Saved
    <3>3. m \in 1 .. Pos + 1 /\ \A j \in m .. Pos + 1 : j \in m .. Pos \/ j = Pos + 1
      BY <1>2
    <3>4. \A j \in m .. Pos + 1 : DepthAt[j] >= d
      BY <1>6, <2>1, <3>2, <3>3
    <3>5. reg'[d - 1] = reg[d - 1]
      BY <2>1, <2>2
    <3> QED
      BY <3>2, <3>3, <3>4, <3>5, Zenon
  <2>3. CASE d = stackDepth + 1
    <3>1. stackDepth' = stackDepth + 1 /\ i.op = "remember" /\ d - 1 = stackDepth
      BY <2>1, <2>3
    <3>0. Pos + 1 \in 1 .. Pos + 1
      BY <1>2
    <3>2. \A j \in Pos + 1 .. Pos + 1 : j = Pos + 1
      BY <1>2
    <3>3. (Pos + 1) - 1 = Pos
      BY <1>2
    <3>4. \A j \in Pos + 1 .. Pos + 1 : DepthAt[j] >= d
      BY <1>6, <2>1, <2>3, <3>1, <3>2, Zenon
    <3>5. reg'[d - 1] = RowAt[(Pos + 1) - 1]
      BY <1>5, <3>1, <3>3, Zenon
    <3>6. Both[Pos + 1].op = "remember" /\ DepthAt[Pos + 1] = d
      BY <1>2, <1>6, <2>3, <3>1, Zenon
    <3> WITNESS Pos + 1 \in 1 .. Pos + 1
    <3> QED
      BY <3>4, <3>5, <3>6, Zenon
  <2> QED
    BY <2>1, <2>2, <2>3
<1>8. phase # "cie" => \A j \in Len(in.cie) .. (Pos + 1) - 1 : LocAt[j] <= in.pc
  <2>1. loc <= in.pc
    BY Zenon DEF UpToPc
  <2>2. \A j \in Len(in.cie) .. (Pos + 1) - 1 : j \in Len(in.cie) .. Pos - 1 \/ j = Pos
    BY <1>1, <1>2
  <2> QED
    BY <1>5, <2>1, <2>2, Zenon
<1>9. Pos + 1 \in 0 .. Len(Both)
  BY <1>2
<1>10. phase' = "check" => LocAt[Pos + 1] > in.pc
  BY <1>3, <1>6, CfiInputsAssumption, Zenon DEF TypeOK
<1> QED
  BY <1>2, <1>3, <1>4, <1>5, <1>6, <1>7, <1>8, <1>9, <1>10, Zenon DEF Follow

\* Execute, Remember and RestoreState are such instructions.
LEMMA FollowExecute == TypeOK /\ UpToPc /\ Follow /\ Execute => Follow'
<1> SUFFICES ASSUME TypeOK, UpToPc, Follow, Execute PROVE Follow'
  BY Zenon
<1> DEFINE i == Program[ptr]
<1>1. /\ Running /\ ptr <= Len(Program) /\ in' = in /\ cie_regs' = cie_regs
      /\ stackDepth' = stackDepth /\ i.op # "remember" /\ i.op # "restore_state"
      /\ Continue(LocAfter(i, loc))
      /\ reg' = [reg EXCEPT ![stackDepth] = Edit(i, REG_STATE, cie_regs)]
  BY Zenon DEF Execute
<1>2. stackDepth \in Depths /\ reg \in [Depths -> Row] /\ stackDepth \in Int
  BY <1>1 DEF TypeOK, Running, Depths
<1>3. /\ Pos \in Nat /\ Pos + 1 \in 1 .. Len(Both) /\ Both[Pos + 1] = i
      /\ phase = "cie" => Pos + 1 <= Len(in.cie)
  BY <1>1, NextIs, Zenon
<1>4. /\ reg[stackDepth] = RowAt[Pos]
      /\ cie_regs = IF phase = "cie" THEN ZeroRow.regs ELSE RowAt[Len(in.cie)].regs
  BY <1>1, Zenon DEF Follow, Running
<1>5. (phase = "cie") <=> (Pos + 1 <= Len(in.cie))
  <2>1. Len(in.cie) \in Nat /\ ptr \in Nat \ {0}
    BY BothIs, Zenon DEF TypeOK
  <2> QED
    BY <1>3, <2>1 DEF Pos
<1>6. (Pos + 1) - 1 = Pos
  BY <1>3
<1>7. RowStep(Pos + 1, RowAt) = Edit(i, reg[stackDepth], cie_regs)
  BY <1>1, <1>3, <1>4, <1>5, <1>6, Zenon DEF RowStep
<1>8. reg'[stackDepth'] = RowStep(Pos + 1, RowAt)
  BY <1>1, <1>2, <1>7, Zenon DEF REG_STATE
<1>9. stackDepth' = stackDepth + Turn(i)
  BY <1>1, <1>2 DEF Turn
<1>10. \A d \in 1 .. stackDepth : reg'[d - 1] = reg[d - 1] \/ d > stackDepth'
  <2> TAKE d \in 1 .. stackDepth
  <2>1. d - 1 \in Depths /\ d - 1 # stackDepth
    BY <1>2, CfiProgramAssumption DEF Depths
  <2> QED
    BY <1>1, <1>2, <2>1, Zenon
<1> HIDE DEF i
<1>11. i.op = "remember" => reg'[stackDepth] = reg[stackDepth]
  BY <1>1, Zenon
<1> QED
  BY <1>1, <1>8, <1>9, <1>10, <1>11, FollowOn, Zenon DEF i

LEMMA FollowRemember == TypeOK /\ UpToPc /\ Follow /\ Remember => Follow'
<1> SUFFICES ASSUME TypeOK, UpToPc, Follow, Remember PROVE Follow'
  BY Zenon
<1> DEFINE i == Program[ptr]
<1>1. /\ Running /\ ptr <= Len(Program) /\ in' = in /\ cie_regs' = cie_regs
      /\ stackDepth' = stackDepth + 1 /\ stackDepth + 1 < MaxDepth /\ i.op = "remember"
      /\ Continue(loc) /\ reg' = [reg EXCEPT ![stackDepth + 1] = REG_STATE]
  BY Zenon DEF Remember, At
<1>2. stackDepth \in Depths /\ reg \in [Depths -> Row] /\ stackDepth \in Int
  BY <1>1 DEF TypeOK, Running, Depths
<1>3. /\ Pos \in Nat /\ Pos + 1 \in 1 .. Len(Both) /\ Both[Pos + 1] = i
  BY <1>1, NextIs, Zenon
<1>4. reg[stackDepth] = RowAt[Pos]
  BY <1>1, Zenon DEF Follow, Running
<1>5. (Pos + 1) - 1 = Pos
  BY <1>3
<1>6. RowStep(Pos + 1, RowAt) = reg[stackDepth] /\ LocAfter(i, loc) = loc
  BY <1>1, <1>3, <1>4, <1>5, Zenon DEF RowStep, Edit, LocAfter
<1>7. stackDepth + 1 \in Depths /\ stackDepth + 1 # stackDepth
  BY <1>1, <1>2, CfiProgramAssumption DEF Depths
<1>8. reg'[stackDepth'] = RowStep(Pos + 1, RowAt) /\ reg'[stackDepth] = reg[stackDepth]
  BY <1>1, <1>2, <1>6, <1>7, Zenon DEF REG_STATE
<1>9. stackDepth' = stackDepth + Turn(i)
  BY <1>1, <1>2, Zenon DEF Turn
<1>10. \A d \in 1 .. stackDepth : reg'[d - 1] = reg[d - 1] \/ d > stackDepth'
  <2> TAKE d \in 1 .. stackDepth
  <2>1. d - 1 \in Depths /\ d - 1 # stackDepth + 1
    BY <1>2, CfiProgramAssumption DEF Depths
  <2> QED
    BY <1>1, <1>2, <2>1, Zenon
<1> HIDE DEF i
<1>11. Continue(LocAfter(i, loc))
  BY <1>1, <1>6, Zenon
<1> QED
  BY <1>1, <1>8, <1>9, <1>10, <1>11, FollowOn, Zenon DEF i

LEMMA FollowRestore == TypeOK /\ UpToPc /\ Follow /\ RestoreState => Follow'
<1> SUFFICES ASSUME TypeOK, UpToPc, Follow, RestoreState PROVE Follow'
  BY Zenon
<1> DEFINE i == Program[ptr]
<1>1. /\ Running /\ ptr <= Len(Program) /\ in' = in /\ cie_regs' = cie_regs
      /\ stackDepth' = stackDepth - 1 /\ stackDepth # 0 /\ i.op = "restore_state"
      /\ Continue(loc) /\ reg' = reg
  BY Zenon DEF RestoreState, At
<1>2. stackDepth \in Nat /\ stackDepth \in 1 .. stackDepth /\ in \in Inputs
  BY <1>1 DEF TypeOK, Running, Depths
<1>3. /\ Pos \in Nat /\ Pos + 1 \in 1 .. Len(Both) /\ Both[Pos + 1] = i
  BY <1>1, NextIs, Zenon
<1>4. stackDepth = DepthAt[Pos] /\ Saved(stackDepth)
  BY <1>1, <1>2, Zenon DEF Follow, Running
<1>5. (Pos + 1) - 1 = Pos
  BY <1>3
<1>6. PICK m \in 1 .. Pos :
          /\ Both[m].op = "remember" /\ DepthAt[m] = stackDepth
          /\ \A j \in m .. Pos : DepthAt[j] >= stackDepth
          /\ reg[stackDepth - 1] = RowAt[m - 1]
  BY <1>4, Zenon DEF Saved
<1>7. m \in 1 .. (Pos + 1) - 1 /\ Opens(m, Pos + 1)
  BY <1>4, <1>5, <1>6, Zenon DEF Opens
<1>8. Opening(Pos + 1) = m
  BY <1>2, <1>3, <1>7, OneOpening, Zenon
<1>9. RowStep(Pos + 1, RowAt) = RowAt[m - 1]
  BY <1>1, <1>3, <1>7, <1>8, Zenon DEF RowStep
<1>10. stackDepth' = stackDepth + Turn(i) /\ LocAfter(i, loc) = loc
  BY <1>1, <1>2, Zenon DEF Turn, LocAfter
<1> HIDE DEF i
<1>11. Continue(LocAfter(i, loc)) /\ reg'[stackDepth'] = RowStep(Pos + 1, RowAt)
  BY <1>1, <1>6, <1>9, <1>10, Zenon
<1>12. \A d \in 1 .. stackDepth : reg'[d - 1] = reg[d - 1] \/ d > stackDepth'
  BY <1>1, Zenon
<1>13. i.op = "remember" => reg'[stackDepth] = reg[stackDepth]
  BY <1>1, Zenon
<1>14. stackDepth' = stackDepth + Turn(i)
  BY <1>10, Zenon
<1> QED
  BY <1>1, <1>11, <1>12, <1>13, <1>14, FollowOn, Zenon DEF i

\* The ends of the two programs leave the row and the position alone.
LEMMA FollowEnd ==
    TypeOK /\ Follow /\ (EndCie \/ EndFde \/ CheckEnd \/ UNCHANGED vars) => Follow'
<1> SUFFICES ASSUME TypeOK, Follow, EndCie \/ EndFde \/ CheckEnd \/ UNCHANGED vars
             PROVE  Follow'
  BY Zenon
<1> USE DEF Saved
<1>1. in \in Inputs /\ ptr \in Nat \ {0}
  BY Zenon DEF TypeOK
<1>2. /\ in' = in /\ loc' = loc /\ stackDepth' = stackDepth /\ reg' = reg
      /\ phase \in {"failed", "lost"} => phase' \in {"failed", "lost"}
  BY Zenon DEF EndCie, EndFde, CheckEnd, Give, vars
<1>3. Both' = Both /\ DepthAt' = DepthAt /\ LocAt' = LocAt /\ RowAt' = RowAt
  BY <1>2, SameInput, Zenon
<1>4. Len(in.cie) \in Nat /\ Len(in.fde) \in Nat /\ Len(Both) = Len(in.cie) + Len(in.fde)
  BY <1>1, BothIs, Zenon
<1>5. CASE phase' \in {"failed", "lost"}
  BY <1>5, Zenon DEF Follow
<1>6. CASE phase' \notin {"failed", "lost"}
  <2>1. /\ Pos \in 0 .. Len(Both) /\ (phase = "cie" => Pos <= Len(in.cie))
        /\ stackDepth = DepthAt[Pos] /\ loc = LocAt[Pos] /\ reg[stackDepth] = RowAt[Pos]
        /\ cie_regs = IF phase = "cie" THEN ZeroRow.regs ELSE RowAt[Len(in.cie)].regs
        /\ \A d \in 1 .. stackDepth : Saved(d)
        /\ phase # "cie" => \A j \in Len(in.cie) .. Pos - 1 : LocAt[j] <= in.pc
        /\ phase \in {"check", "done"} => Pos = Len(Both) \/ LocAt[Pos] > in.pc
    BY <1>2, <1>6, Zenon DEF Follow
  <2>2. Pos' = Pos
    <3>1. CASE EndCie
      BY <1>1, <1>4, <2>1, <3>1 DEF EndCie, Pos
    <3>2. CASE EndFde \/ CheckEnd \/ UNCHANGED vars
      BY <1>1, <1>4, <3>2, Zenon DEF EndFde, CheckEnd, Give, vars, Pos
    <3> QED
      BY <3>1, <3>2, Zenon
  <2>3. \A d \in 1 .. stackDepth : Saved(d)'
    BY <1>2, <1>3, <2>1, <2>2, ZenonT(60)
  <2>4. /\ cie_regs' = IF phase' = "cie" THEN ZeroRow.regs ELSE RowAt[Len(in.cie)].regs
        /\ phase' = "cie" => Pos <= Len(in.cie)
    <3>1. CASE EndCie
      <4>1. Pos = Len(in.cie) /\ phase' = "fde" /\ cie_regs' = reg[stackDepth].regs
        BY <1>1, <1>4, <2>1, <3>1 DEF EndCie, Pos, REG_STATE
      <4> QED
        BY <2>1, <4>1, Zenon
    <3>2. CASE EndFde \/ CheckEnd \/ UNCHANGED vars
      BY <2>1, <3>2, Zenon DEF EndFde, CheckEnd, Give, vars
    <3> QED
      BY <3>1, <3>2, Zenon
  <2>5. phase' # "cie" => \A j \in Len(in.cie) .. Pos - 1 : LocAt[j] <= in.pc
    <3>1. CASE EndCie
      BY <1>1, <1>4, <2>1, <3>1 DEF EndCie, Pos
    <3>2. CASE EndFde \/ CheckEnd \/ UNCHANGED vars
      BY <2>1, <3>2, Zenon DEF EndFde, CheckEnd, Give, vars
    <3> QED
      BY <3>1, <3>2, Zenon
  <2>6. phase' \in {"check", "done"} => Pos = Len(Both) \/ LocAt[Pos] > in.pc
    <3>1. CASE EndFde
      <4> DEFINE a == Len(in.cie)
                 b == Len(in.fde)
                 c == Len(Both)
      <4>1. ptr > b /\ Pos = a + ptr - 1
        BY <3>1, Zenon DEF EndFde, Pos
      <4>2. a \in Nat /\ b \in Nat /\ c = a + b /\ Pos \in 0 .. c
        BY <1>4, <2>1, Zenon
      <4> HIDE DEF a, b, c
      <4>3. Pos = c
        BY <1>1, <4>1, <4>2
      <4> QED
        BY <4>3, Zenon DEF c
    <3>2. CASE EndCie \/ CheckEnd \/ UNCHANGED vars
      BY <2>1, <3>2, Zenon DEF EndCie, CheckEnd, Give, vars
    <3> QED
      BY <3>1, <3>2, Zenon
  <2> QED
    BY <1>2, <1>3, <2>1, <2>2, <2>3, <2>4, <2>5, <2>6, Zenon DEF Follow
<1> QED
  BY <1>5, <1>6, Zenon

LEMMA FollowStep == TypeOK /\ UpToPc /\ Follow /\ [Next]_vars => Follow'
<1> SUFFICES ASSUME TypeOK, UpToPc, Follow, [Next]_vars PROVE Follow'
  BY Zenon
<1>1. CASE TooMany \/ RememberTooMany \/ RestoreUnbalanced \/ Refuse \/ LoseStep
  <2>1. phase' \in {"failed", "lost"}
    BY <1>1, Zenon DEF TooMany, RememberTooMany, RestoreUnbalanced, Refuse, LoseStep, Give
  <2> QED
    BY <2>1, Zenon DEF Follow
<1>2. CASE Execute
  BY <1>2, FollowExecute, Zenon
<1>3. CASE Remember
  BY <1>3, FollowRemember, Zenon
<1>4. CASE RestoreState
  BY <1>4, FollowRestore, Zenon
<1>5. CASE EndCie \/ EndFde \/ CheckEnd \/ UNCHANGED vars
  BY <1>5, FollowEnd, Zenon
<1> QED
  BY <1>1, <1>2, <1>3, <1>4, <1>5, Zenon DEF Next

\* When the programs are done, the instructions executed are those that apply to the pc.
LEMMA FollowRight == TypeOK /\ Follow => RowIsRight
<1> SUFFICES ASSUME TypeOK, Follow, phase = "done" PROVE reg[stackDepth] = RowAt[Applies]
  BY Zenon DEF RowIsRight, REG_STATE
<1> DEFINE ns == {n \in Len(in.cie) .. Len(Both) :
                      \A j \in Len(in.cie) .. n - 1 : LocAt[j] <= in.pc}
<1>1. in \in Inputs /\ ptr \in Nat \ {0} /\ Pos = Len(in.cie) + ptr - 1
  BY Zenon DEF TypeOK, Pos
<1>2. Len(in.cie) \in Nat /\ Len(Both) \in Nat /\ Pos \in 0 .. Len(Both)
  BY <1>1, BothIs DEF Follow
<1>3. /\ reg[stackDepth] = RowAt[Pos]
      /\ \A j \in Len(in.cie) .. Pos - 1 : LocAt[j] <= in.pc
      /\ Pos = Len(Both) \/ LocAt[Pos] > in.pc
  BY Zenon DEF Follow
<1>4. Pos \in ns
  <2>1. Pos \in Len(in.cie) .. Len(Both)
    BY <1>1, <1>2
  <2> QED
    BY <1>3, <2>1, Zenon
<1>5. ASSUME NEW m \in ns PROVE m <= Pos
  <2>1. m \in Len(in.cie) .. Len(Both) /\ \A j \in Len(in.cie) .. m - 1 : LocAt[j] <= in.pc
    BY <1>5, Zenon
  <2>2. SUFFICES ASSUME m > Pos PROVE FALSE
    BY <1>2, <2>1
  <2>3. Pos \in Len(in.cie) .. m - 1 /\ Pos # Len(Both)
    BY <1>1, <1>2, <2>1, <2>2
  <2>4. LocAt[Pos] <= in.pc /\ LocAt[Pos] > in.pc
    BY <1>3, <2>1, <2>3, Zenon
  <2>5. LocAt[Pos] \in Nat /\ in.pc \in Nat
    BY <1>1, <1>2, LocIs, CfiInputsAssumption, Zenon
  <2> QED
    BY <2>4, <2>5
<1>6. Applies \in ns /\ \A m \in ns : m <= Applies
  BY <1>4, <1>5, Zenon DEF Applies
<1>7. Applies <= Pos /\ Pos <= Applies /\ Applies \in Int
  BY <1>4, <1>5, <1>6
<1> HIDE DEF ns
<1>8. Applies = Pos
  BY <1>2, <1>7
<1> QED
  BY <1>3, <1>8, Zenon

\* When run_cfi_program has run both programs, the row of the pc it leaves in REG_STATE
\* is the one that the programs define by matching each restore_state with its
\* remember_state and each restore with the CIE's rule, for programs of any length.
THEOREM RowIsAlwaysRight == Spec => []RowIsRight
<1>1. Init => TypeOK /\ UpToPc /\ Follow
  BY ProgramInit, FollowInit, CfiInputsAssumption, Zenon DEF Init, UpToPc, Running
<1>2. TypeOK /\ UpToPc /\ Follow /\ [Next]_vars => (TypeOK /\ UpToPc /\ Follow)'
  BY ProgramStep, UpToPcStep, FollowStep, Zenon
<1>3. TypeOK /\ UpToPc /\ Follow => RowIsRight
  BY FollowRight, Zenon
<1> QED
  BY <1>1, <1>2, <1>3, PTL DEF Spec
=============================================================================
