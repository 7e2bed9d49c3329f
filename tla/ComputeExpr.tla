----------------------------- MODULE ComputeExpr -----------------------------
(***************************************************************************)
(* compute_expr of src/src/unwind.c: the stack machine for DWARF expressions,     *)
(* and the check of the expression's length by the call frame instruction that    *)
(* holds it (DW_CFA_def_cfa_expression, or set_expr_rule for a register's rule).   *)
(* An input is the code from the expression's length byte to the end of the       *)
(* instructions, and what the instruction and the task are.  One action per kind   *)
(* of operation; positions in the code count from 1.                            *)
(***************************************************************************)
EXTENDS ExprOps

CONSTANTS
    Inputs,         \* [code, from, compat]
    MaxStack,       \* MAX_EXPR_STACK
    Frame,          \* the frame's registers, by index in reg_info
    ReadableAddrs,       \* the user addresses _stp_read_address can read
    Garbage         \* what a slot of stack that was never written may hold

ASSUME ComputeExprAssumption ==
    /\ MaxStack \in Nat \ {0}
    /\ \A in \in Inputs :
          in.code \in Seq(Byte) /\ in.code # <<>> /\ in.from \in {"cfa", "rule"}

VARIABLES
    in,         \* the arguments
    exprPhase,
    expr,       \* the position of the next byte
    end,        \* the position after the expression
    sp,         \* the number of slots in use
    stack,      \* the slots, from 0
    result,     \* *result
    read,       \* the position of the last byte read (history)
    reach       \* the number of slots up to the highest one touched (history)

exprVars == <<in, exprPhase, expr, end, sp, stack, result, read, reach>>

Slots == 0 .. (MaxStack - 1)
Unwritten == -1

ExprInit ==
    /\ in \in Inputs
    /\ exprPhase = "insn" /\ expr = 1 /\ end = 1
    /\ sp = 0 /\ stack = [i \in Slots |-> Unwritten]
    /\ result = 0 /\ read = 0 /\ reach = 0

CodeEnd == Len(in.code) + 1

-----------------------------------------------------------------------------
(* The instruction with the expression, and the beginning of compute_expr *)

\* Sanity check that the expression falls completely inside known data.  Behind a
\* number that does not fit, end - ptr is -1, the largest number in this comparison.
LengthOK(r) ==
    IF in.from = "cfa"
    THEN r.cur < CodeEnd /\ CodeEnd - r.cur >= r.val
    ELSE r.cur > CodeEnd \/ CodeEnd - r.cur >= r.val

ReadLength ==
    /\ exprPhase = "insn"
    /\ LET r == get_uleb128(in.code, 1, CodeEnd)
       IN  /\ exprPhase' = IF LengthOK(r) THEN "start" ELSE "refused"
           /\ read' = r.seen
    /\ UNCHANGED <<in, expr, end, sp, stack, result, reach>>

\* compute_expr reads the length again, with no end.  A length that does not end
\* within the instructions leads it out of them: not followed further.
Start ==
    /\ exprPhase = "start"
    /\ LET r == get_uleb128(in.code, 1, CodeEnd)
       IN  IF r.whole
           THEN exprPhase' = "run" /\ expr' = r.cur /\ end' = r.cur + r.val /\ read' = r.seen
           ELSE exprPhase' = "off" /\ read' = CodeEnd /\ UNCHANGED <<expr, end>>
    /\ UNCHANGED <<in, sp, stack, result, reach>>

-----------------------------------------------------------------------------
(* What the operations are made of *)

Running == exprPhase = "run" /\ expr < end

At(op) == Running /\ in.code[expr] = Op[op]

arg == expr + 1

NEED_Less(n) == end - arg >= n - 1

NEED(n) == end - arg >= n

\* return 1, or a trap of the processor, after reading as far as position seen.
Leave(outcome, seen) ==
    /\ exprPhase' = outcome /\ read' = seen
    /\ UNCHANGED <<in, expr, end, sp, stack, result, reach>>

Fail(seen) == Leave("failed", seen)

\* The k-th slot from the top.
Top(k) == stack[sp - k]

Room_OneMore(n) == n <= MaxStack + 1

Room(n) == n <= MaxStack

\* The slots below n have been touched, or more before.
Touch(n) == reach' = IF n > reach THEN n ELSE reach

\* POP n slots and PUSH the values vals, then go on at next.
Operate(n, vals, next, seen) ==
    IF sp < n THEN Fail(seen)
    ELSE IF ~Room(sp - n + Len(vals)) THEN Fail(seen)
    ELSE LET base == sp - n
         IN  /\ stack' = [i \in Slots |-> IF i >= base /\ i - base < Len(vals)
                                          THEN vals[i - base + 1] ELSE stack[i]]
             /\ sp' = base + Len(vals) /\ expr' = next /\ read' = seen
             /\ Touch(base + Len(vals))
             /\ UNCHANGED <<in, exprPhase, end, result>>

\* PUSH(f(POP)): PUSH tests for room before POP makes it.  (C leaves the order of
\* the two changes of sp open; gcc pops first.)
Replace(v, next, seen) ==
    IF sp = MaxStack THEN Fail(seen) ELSE Operate(1, <<v>>, next, seen)

-----------------------------------------------------------------------------
(* The operations *)

Nop == At("nop") /\ Operate(0, <<>>, arg, expr)

\* The jump of DW_OP_skip and of DW_OP_bra; never backwards.
Jump_Anywhere(n) ==
    IF ~NEED(2) THEN Fail(expr)
    ELSE LET off == Signed(Constant(in.code, arg, 2, TRUE))
         IN  IF off > end - (arg + 2) THEN Fail(arg + 1)
             ELSE Operate(n, <<>>, arg + 2 + off, arg + 1)

Jump(n) ==
    IF ~NEED(2) THEN Fail(expr)
    ELSE LET off == Signed(Constant(in.code, arg, 2, TRUE))
         IN  IF off < 0 \/ off > end - (arg + 2) THEN Fail(arg + 1)
             ELSE Operate(n, <<>>, arg + 2 + off, arg + 1)

Skip == At("skip") /\ Jump(0)

\* When the branch is not taken the offset is not skipped either.
Bra ==
    /\ At("bra")
    /\ IF sp = 0 THEN Fail(expr)
       ELSE IF Top(1) = 0 THEN Operate(1, <<>>, arg, expr)
       ELSE Jump(1)

Dup == At("dup") /\ Operate(1, <<Top(1), Top(1)>>, arg, expr)

Drop == At("drop") /\ Operate(1, <<>>, arg, expr)

Swap == At("swap") /\ Operate(2, <<Top(1), Top(2)>>, arg, expr)

\* value = stack[sp - n], which is the n-th slot from the top, or for 0 the slot above:
\* on a full stack, the word behind the array.  Then PUSH finds no room.
Pick(n, next) ==
    IF n >= sp THEN Fail(next - 1)
    ELSE IF sp = MaxStack
         THEN /\ exprPhase' = "failed" /\ read' = next - 1 /\ Touch(sp - n + 1)
              /\ UNCHANGED <<in, expr, end, sp, stack, result>>
    ELSE IF stack[sp - n] # Unwritten THEN Operate(0, <<stack[sp - n]>>, next, next - 1)
    ELSE \E v \in Garbage : Operate(0, <<v>>, next, next - 1)

OverPick ==
    \/ At("over") /\ Pick(1, arg)
    \/ At("pick") /\ ~NEED(1) /\ Fail(expr)
    \/ At("pick") /\ NEED(1) /\ Pick(in.code[arg], arg + 1)

Const(op) ==
    /\ At(op)
    /\ LET n == Width[op]
       IN  IF ~NEED(n) THEN Fail(expr)
           ELSE Operate(0, <<Constant(in.code, arg, n, op \in {"const1s", "const2s", "const4s"})>>,
                        arg + n, arg + n - 1)

Constu ==
    /\ At("constu")
    /\ LET r == get_uleb128(in.code, arg, end) IN Operate(0, <<r.val>>, r.cur, r.seen)

Consts ==
    /\ At("consts")
    /\ LET r == get_sleb128(in.code, arg, end) IN Operate(0, <<r.val>>, r.cur, r.seen)

Lit ==
    /\ Running /\ in.code[expr] \in Lits
    /\ Operate(0, <<in.code[expr] - 48>>, arg, expr)

PlusUconst ==
    /\ At("plus_uconst")
    /\ LET r == get_uleb128(in.code, arg, end)
       IN  Replace((r.val + Top(1)) % WordMax, r.cur, r.seen)

\* A division by 0 is refused; the one whose quotient does not fit traps.
Binop(op) ==
    /\ At(op)
    /\ IF sp >= 2 /\ op \in {"mod", "div"} /\ Top(1) = 0 THEN Fail(expr)
       ELSE IF sp >= 2 /\ op = "div" /\ Top(1) = WordMax - 1 /\ 2 * Top(2) = WordMax
            THEN Leave("trap", expr)
       ELSE Operate(2, <<BinaryOp(op, Top(2), Top(1))>>, arg, expr)

Unop(op) ==
    /\ At(op)
    /\ IF op = "abs" THEN Operate(1, <<UnaryOp(op, Top(1))>>, arg, expr)
       ELSE Replace(UnaryOp(op, Top(1)), arg, expr)

BregOffset(r, p, seen) ==
    LET i == RegIndex(r, in.compat)
        off == get_sleb128(in.code, p, end)
    IN  IF i >= NrRegs THEN Fail(seen)
        ELSE Operate(0, <<(Frame[i] + off.val) % WordMax>>, off.cur,
                     IF off.seen < p THEN seen ELSE off.seen)

Breg ==
    \/ Running /\ in.code[expr] \in Bregs /\ BregOffset(in.code[expr] - 112, arg, expr)
    \/ /\ At("bregx")
       /\ LET r == get_uleb128(in.code, arg, end) IN BregOffset(r.val, r.cur, r.seen)

\* The value is read but not pushed.
DerefSize(n, next) ==
    IF n \notin {1, 2, 4, 8} \/ sp = 0 THEN Fail(next - 1)
    ELSE IF Top(1) \notin ReadableAddrs THEN Fail(next - 1)
    ELSE Operate(1, <<>>, next, next - 1)

Deref ==
    \/ At("deref") /\ DerefSize(8, arg)
    \/ At("deref_size") /\ ~NEED(1) /\ Fail(expr)
    \/ At("deref_size") /\ NEED(1) /\ DerefSize(in.code[arg], arg + 1)

\* DW_OP_rot, and every byte that is not an operation.
Known == {Op[op] : op \in DOMAIN Op \ {"rot"}} \cup Lits \cup Bregs

Unimplemented == Running /\ in.code[expr] \notin Known /\ Fail(expr)

\* *result = POP
Finish ==
    /\ exprPhase = "run" /\ expr >= end
    /\ IF sp = 0 THEN Fail(read)
       ELSE /\ exprPhase' = "done" /\ result' = Top(1) /\ sp' = sp - 1
            /\ UNCHANGED <<in, expr, end, stack, read, reach>>

ExprNext ==
    \/ ReadLength \/ Start
    \/ Nop \/ Skip \/ Bra \/ Dup \/ Drop \/ Swap \/ OverPick
    \/ (\E op \in DOMAIN Width : Const(op)) \/ Constu \/ Consts \/ Lit \/ PlusUconst
    \/ (\E op \in Binary : Binop(op)) \/ (\E op \in Unary : Unop(op))
    \/ Breg \/ Deref \/ Unimplemented \/ Finish

ExprSpec == ExprInit /\ [][ExprNext]_exprVars /\ WF_exprVars(ExprNext)

-----------------------------------------------------------------------------
Phases == {"insn", "start", "refused", "off", "run", "done", "failed", "trap"}

\* Types; sp never leaves the array stack, as PUSH and POP test it.
TypeOK ==
    /\ exprPhase \in Phases
    /\ expr \in Nat /\ end \in Nat /\ read \in Nat /\ reach \in Nat
    /\ sp \in 0 .. MaxStack
    /\ DOMAIN stack = Slots

\* No operation touches a word outside of the array stack, with one exception, which
\* line 1186 of unwind.c makes by reading before PUSH tests for room: DW_OP_pick of 0
\* with all slots in use.  That one reads the word behind the array, and the value goes
\* nowhere, as the expression fails there.
StackKept ==
    reach > MaxStack =>
        /\ reach = MaxStack + 1 /\ exprPhase = "failed" /\ sp = MaxStack
        /\ in.code[read - 1] = Op.pick /\ in.code[read] = 0

\* "We previously validated the length, so we won't read off the end": once the
\* instruction accepted the length, compute_expr reads no byte behind the expression,
\* and the expression lies within the instructions.  The comment is wrong for the one
\* case where compute_expr does read off the end (phase "off"): the length of a
\* register's rule, which set_expr_rule accepts though its number is cut off by the end
\* of the instructions or does not fit in a word.  DW_CFA_def_cfa_expression refuses it.
InBlock ==
    /\ exprPhase \in {"run", "done", "failed", "trap"} => read < end /\ end <= CodeEnd
    /\ exprPhase = "off" => in.from = "rule" /\ ~get_uleb128(in.code, 1, CodeEnd).whole

\* Every operation takes expr further, as there are no backward branches; a number
\* that does not fit takes it to end + 1, and no further.
Forward == [][exprPhase = "run" /\ exprPhase' = "run" => expr < expr' /\ expr' <= end' + 1]_exprVars

=============================================================================
