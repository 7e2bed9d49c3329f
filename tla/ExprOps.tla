------------------------------- MODULE ExprOps -------------------------------
(***************************************************************************)
(* The operations of DWARF expressions: their codes (src/src/unwind/unwind.h),   *)
(* what compute_expr of src/src/unwind.c computes for those that only compute,    *)
(* and the registers they may name.  Stack slots are words: of type long in the   *)
(* code, read here as unsigned except where Signed says otherwise.               *)
(***************************************************************************)
EXTENDS Leb128, Sequences

Lits == 48 .. 79        \* DW_OP_lit0 ... DW_OP_lit31
Bregs == 112 .. 143     \* DW_OP_breg0 ... DW_OP_breg31

Op == [addr |-> 3, deref |-> 6, const1u |-> 8, const1s |-> 9, const2u |-> 10,
       const2s |-> 11, const4u |-> 12, const4s |-> 13, const8u |-> 14, const8s |-> 15,
       constu |-> 16, consts |-> 17, dup |-> 18, drop |-> 19, over |-> 20, pick |-> 21,
       swap |-> 22, rot |-> 23, abs |-> 25, and |-> 26, div |-> 27, minus |-> 28,
       mod |-> 29, mul |-> 30, neg |-> 31, not |-> 32, or |-> 33, plus |-> 34,
       plus_uconst |-> 35, shl |-> 36, shr |-> 37, shra |-> 38, xor |-> 39, bra |-> 40,
       eq |-> 41, ge |-> 42, gt |-> 43, le |-> 44, lt |-> 45, ne |-> 46, skip |-> 47,
       bregx |-> 146, deref_size |-> 148, nop |-> 150]

\* Bytes of the constant that follows.
Width == [addr |-> 8, const1u |-> 1, const1s |-> 1, const2u |-> 2, const2s |-> 2,
          const4u |-> 4, const4s |-> 4, const8u |-> 8, const8s |-> 8]

Binary == {"eq", "ne", "ge", "gt", "le", "lt", "and", "or", "xor", "plus", "minus",
           "mul", "shl", "shra", "shr", "mod", "div"}
Unary == {"not", "neg", "abs"}

\* The constant in the n bytes from position p, the lowest first, as memcpy to a
\* signed or unsigned type of n bytes and the conversion to a word make it.
Constant(s, p, n, signed) ==
    LET bytes[i \in 0 .. n] ==
            IF i = n THEN (IF signed /\ s[p + n - 1] >= 128 THEN WordMax - 1 ELSE 0)
            ELSE (s[p + i] + 256 * bytes[i + 1]) % WordMax
    IN  bytes[0]

Truth(b) == IF b THEN 1 ELSE 0

\* Division of long rounds towards zero.
Quotient(a, b) ==
    IF (a < 0) = (b < 0)
    THEN (IF a < 0 THEN -a ELSE a) \div (IF b < 0 THEN -b ELSE b)
    ELSE -((IF a < 0 THEN -a ELSE a) \div (IF b < 0 THEN -b ELSE b))

\* a is the second entry of the stack, b the top.
BinaryOp(op, a, b) ==
    LET sa == Signed(a)
        sb == Signed(b)
        v == CASE op = "eq" -> Truth(a = b)
               [] op = "ne" -> Truth(a # b)
               [] op = "ge" -> Truth(sa >= sb)
               [] op = "gt" -> Truth(sa > sb)
               [] op = "le" -> Truth(sa <= sb)
               [] op = "lt" -> Truth(sa < sb)
               [] op = "and" -> OfBits(Bits(a) \cap Bits(b))
               [] op = "or" -> OfBits(Bits(a) \cup Bits(b))
               [] op = "xor" -> OfBits((Bits(a) \cup Bits(b)) \ (Bits(a) \cap Bits(b)))
               [] op = "plus" -> a + b
               [] op = "minus" -> a - b
               [] op = "mul" -> a * b
               [] op = "shl" -> a * 2 ^ (b % WordBits)
               [] op = "shra" -> sa \div 2 ^ (b % WordBits)
               [] op = "shr" -> a \div 2 ^ (b % WordBits)
               [] op = "mod" -> a % b
               [] op = "div" -> Quotient(sa, sb)
    IN  v % WordMax

UnaryOp(op, a) ==
    CASE op = "not" -> WordMax - 1 - a
      [] op = "neg" -> (-a) % WordMax
      [] op = "abs" -> IF Signed(a) < 0 THEN WordMax - a ELSE a

-----------------------------------------------------------------------------
NrRegs == 17            \* ARRAY_SIZE(reg_info)

\* reg_info: the registers in the order of the x86_64 DWARF numbers, from 0.
RegInfo == <<"ax", "dx", "cx", "bx", "si", "di", "bp", "sp", "r8", "r9", "r10", "r11",
             "r12", "r13", "r14", "r15", "ip">>

COMPAT_REG_MAP_Identity(r) == r

\* From the DWARF numbers of a 32-bit task to reg_info.
COMPAT_REG_MAP(r) ==
    IF r \in 9 .. 16 THEN r
    ELSE IF r \in 0 .. 8 THEN <<0, 2, 1, 3, 7, 6, 4, 5, 16>>[r + 1]
    ELSE 9999

RegIndex(r, compat) == IF compat THEN COMPAT_REG_MAP(r) ELSE r
=============================================================================
