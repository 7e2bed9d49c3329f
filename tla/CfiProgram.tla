------------------------------ MODULE CfiProgram ------------------------------
(***************************************************************************)
(* run_cfi_program of src/src/unwind.c, as __unwind_frame runs it: over the CIE's *)
(* instructions, then over the FDE's up to the pc.  The rows live in an array,    *)
(* and state->stackDepth says which is the current one.                         *)
(***************************************************************************)
EXTENDS CfiInsn

CONSTANTS
    MaxDepth,       \* STP_MAX_STACK_DEPTH
    MaxCfi          \* MAX_CFI

ASSUME CfiProgramAssumption == MaxDepth \in Nat \ {0} /\ MaxCfi \in Nat

VARIABLES
    in,             \* the programs, the FDE's range, the pc
    phase,
    ptr,            \* the next instruction
    loc,            \* state->loc
    cie_regs,       \* state->cie_regs
    stackDepth,     \* state->stackDepth
    reg             \* state->reg

vars == <<in, phase, ptr, loc, cie_regs, stackDepth, reg>>

Depths == 0 .. (MaxDepth - 1)

\* "cie", "fde": run_cfi_program runs; "check": it has returned 1 for the FDE.
Init ==
    /\ in \in Inputs
    /\ phase = "cie" /\ ptr = 1 /\ loc = in.start
    /\ cie_regs = ZeroRow.regs
    /\ stackDepth = 0
    /\ reg = [d \in Depths |-> IF d = 0 THEN FirstRow ELSE ZeroRow]

Program == IF phase = "cie" THEN in.cie ELSE in.fde

Running == phase \in {"cie", "fde"}

REG_STATE == reg[stackDepth]

TooLong == Len(Program) > MaxCfi

Reached_AtTarget(newLoc) == phase = "fde" /\ in.pc <= newLoc

\* targetLoc is 0 while the CIE runs, which stops nowhere.
Reached(newLoc) == phase = "fde" /\ in.pc < newLoc

\* After an instruction: return 1 when the pc is reached, or go round the loop.
Continue(newLoc) ==
    /\ loc' = newLoc
    /\ ptr' = ptr + 1
    /\ phase' = IF Reached(newLoc) THEN "check" ELSE phase

At(op) == Running /\ ~TooLong /\ ptr <= Len(Program) /\ Program[ptr].op = op

Give(outcome) ==
    /\ phase' = outcome
    /\ UNCHANGED <<in, ptr, loc, cie_regs, stackDepth, reg>>

TooMany == Running /\ TooLong /\ Give("failed")

\* An instruction that edits the current row or moves the location.
Execute ==
    /\ Running /\ ~TooLong /\ ptr <= Len(Program)
    /\ LET i == Program[ptr]
       IN  /\ i.op \notin {"remember", "restore_state"}
           /\ ~Refused(i) /\ ~LosesStep(i, REG_STATE)
           /\ reg' = [reg EXCEPT ![stackDepth] = Edit(i, REG_STATE, cie_regs)]
           /\ Continue(LocAfter(i, loc))
    /\ UNCHANGED <<in, cie_regs, stackDepth>>

Remember_TooDeep ==
    /\ At("remember") /\ stackDepth < MaxDepth
    /\ stackDepth' = stackDepth + 1
    /\ reg' = [reg EXCEPT ![stackDepth + 1] = REG_STATE]
    /\ Continue(loc)
    /\ UNCHANGED <<in, cie_regs>>

Remember ==
    /\ At("remember") /\ stackDepth + 1 < MaxDepth
    /\ stackDepth' = stackDepth + 1
    /\ reg' = [reg EXCEPT ![stackDepth + 1] = REG_STATE]
    /\ Continue(loc)
    /\ UNCHANGED <<in, cie_regs>>

RememberTooMany_OneEarly ==
    /\ At("remember") /\ stackDepth + 2 >= MaxDepth
    /\ stackDepth' = stackDepth + 1
    /\ phase' = "failed"
    /\ UNCHANGED <<in, ptr, loc, cie_regs, reg>>

\* The depth is counted up before it is tested.
RememberTooMany ==
    /\ At("remember") /\ stackDepth + 1 >= MaxDepth
    /\ stackDepth' = stackDepth + 1
    /\ phase' = "failed"
    /\ UNCHANGED <<in, ptr, loc, cie_regs, reg>>

RestoreState ==
    /\ At("restore_state") /\ stackDepth # 0
    /\ stackDepth' = stackDepth - 1
    /\ Continue(loc)
    /\ UNCHANGED <<in, cie_regs, reg>>

RestoreUnbalanced == At("restore_state") /\ stackDepth = 0 /\ Give("failed")

Refuse ==
    /\ Running /\ ~TooLong /\ ptr <= Len(Program) /\ Refused(Program[ptr])
    /\ Give("failed")

\* From here on bytes of an operand are taken for instructions: not modelled.
LoseStep ==
    /\ Running /\ ~TooLong /\ ptr <= Len(Program) /\ LosesStep(Program[ptr], REG_STATE)
    /\ Give("lost")

EndCie_NotKept ==
    /\ phase = "cie" /\ ~TooLong /\ ptr > Len(in.cie)
    /\ phase' = "fde" /\ ptr' = 1
    /\ UNCHANGED <<in, loc, cie_regs, stackDepth, reg>>

\* The CIE's rules are kept for DW_CFA_restore.
EndCie ==
    /\ phase = "cie" /\ ~TooLong /\ ptr > Len(in.cie)
    /\ phase' = "fde" /\ ptr' = 1
    /\ cie_regs' = REG_STATE.regs
    /\ UNCHANGED <<in, loc, stackDepth, reg>>

EndFde == phase = "fde" /\ ~TooLong /\ ptr > Len(in.fde) /\ Give("check")

\* state->loc > endLoc is an error, even when the row was found before it.
CheckEnd == phase = "check" /\ Give(IF loc > in.end THEN "failed" ELSE "done")

Next ==
    \/ TooMany \/ Execute \/ Remember \/ RememberTooMany
    \/ RestoreState \/ RestoreUnbalanced \/ Refuse \/ LoseStep
    \/ EndCie \/ EndFde \/ CheckEnd

Spec == Init /\ [][Next]_vars /\ WF_vars(Next)

-----------------------------------------------------------------------------
Phases == {"cie", "fde", "check", "done", "failed", "lost"}

\* Types; no instruction is run with a stackDepth outside of state->reg.
TypeOK ==
    /\ in \in Inputs
    /\ phase \in Phases
    /\ ptr \in Nat \ {0} /\ loc \in Nat
    /\ cie_regs \in [Regs -> Rules]
    /\ stackDepth \in Depths \/ (phase = "failed" /\ stackDepth = MaxDepth)
    /\ reg \in [Depths -> Row]

\* The row in use; the count that failed is one too high.
Top == IF stackDepth = MaxDepth THEN MaxDepth - 1 ELSE stackDepth

Table ==
    INSTANCE CfiTable WITH
        phase <- IF phase = "check" THEN "fde" ELSE phase,
        k <- ptr, cieRegs <- cie_regs,
        current <- reg[Top],
        remembered <- [d \in 1 .. Top |-> reg[d - 1]]

\* run_cfi_program's array and stackDepth implement a stack of rows: what
\* DW_CFA_remember_state saved is what DW_CFA_restore_state brings back, and no
\* instruction of a location behind the pc is applied.
ImplementsTable == Table!Spec

-----------------------------------------------------------------------------
(* The row the two programs define for the pc, by matching every restore_state
   with its remember_state; there is no stack in this definition. *)

Both == in.cie \o in.fde

\* How far an instruction goes up or down between remembered rows.
Turn(i) ==
    CASE i.op = "remember" -> 1
      [] i.op = "restore_state" -> -1
      [] OTHER -> 0

DepthAt ==
    LET depth[n \in 0 .. Len(Both)] == IF n = 0 THEN 0 ELSE depth[n - 1] + Turn(Both[n])
    IN  depth

LocAt ==
    LET at[n \in 0 .. Len(Both)] == IF n = 0 THEN in.start ELSE LocAfter(Both[n], at[n - 1])
    IN  at

\* m is the remember_state that the restore_state n closes.
Opens(m, n) ==
    /\ Both[m].op = "remember" /\ DepthAt[m] = DepthAt[n - 1]
    /\ \A j \in m .. n - 1 : DepthAt[j] >= DepthAt[m]

Opening(n) == CHOOSE m \in 1 .. n - 1 : Opens(m, n)

\* A restore_state that closes nothing is never applied: its row does not matter.
RowAt ==
    LET row[n \in 0 .. Len(Both)] ==
            IF n = 0 \/ (Both[n].op = "restore_state" /\ ~\E m \in 1 .. n - 1 : Opens(m, n))
            THEN FirstRow
            ELSE IF Both[n].op = "restore_state" THEN row[Opening(n) - 1]
            ELSE Edit(Both[n], row[n - 1],
                      IF n <= Len(in.cie) THEN ZeroRow.regs ELSE row[Len(in.cie)].regs)
    IN  row

\* How many instructions belong to locations up to the pc.
Applies ==
    LET ns == {n \in Len(in.cie) .. Len(Both) :
                   \A j \in Len(in.cie) .. n - 1 : LocAt[j] <= in.pc}
    IN  CHOOSE n \in ns : \A m \in ns : m <= n

\* When run_cfi_program succeeds twice, REG_STATE is the row of the pc: registers a
\* DW_CFA_restore names have the CIE's rule, those between a remember_state and
\* its restore_state are as if nothing had happened.
RowIsRight == phase = "done" => REG_STATE = RowAt[Applies]

\* Known instructions within MAX_CFI, whose remember_state nest less than
\* STP_MAX_STACK_DEPTH deep.
Plain ==
    /\ Len(in.cie) <= MaxCfi /\ Len(in.fde) <= MaxCfi
    /\ \A n \in DOMAIN Both :
         ~Refused(Both[n]) /\ DepthAt[n] \in Depths

\* Both runs of run_cfi_program end, whatever the instructions are, and not with the
\* refusal of a program that is Plain, unless it runs past the end of the function.
EndsWell ==
    <>(phase \in {"done", "failed", "lost"} /\ (phase = "failed" => ~Plain \/ loc > in.end))
=============================================================================
