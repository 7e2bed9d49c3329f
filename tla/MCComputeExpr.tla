---------------------------- MODULE MCComputeExpr ----------------------------
(***************************************************************************)
(* ComputeExpr in words of 15 bits with an int of 11, which cut numbers of seven  *)
(* bits a byte where 64 and 32 do: the sign of a number of one byte fits in the    *)
(* int, that of longer ones does not, and a third byte has room for one bit.      *)
(*                                                                         *)
(* Programs are lists of operations, encoded: every operation on every pair of     *)
(* boundary values, numbers at the boundaries of their encodings, and all lists    *)
(* of up to four operations that move control and the stack.  Then come blocks     *)
(* of arbitrary bytes, and lengths that do not match.                           *)
(***************************************************************************)
EXTENDS ComputeExpr, ExprRef

NoOps == <<[op |-> "none"]>>

Do(o) == [op |-> o]
Lit_(n) == [op |-> "lit", n |-> n]
Num(o, n, pad) == [op |-> o, n |-> n, pad |-> pad]
Push(v) == [op |-> "const2u", n |-> v]

UpTo(S, n) == UNION {[1 .. m -> S] : m \in 0 .. n}

Boundary == {0, 1, 3, 16384, 32767}

\* Each operation after zero, one, two or three values; three fill the stack.
OneOp ==
    {Do(o) : o \in Binary \cup Unary \cup {"nop", "dup", "drop", "swap", "over", "rot", "deref"}}
    \cup {[op |-> o, n |-> n] : o \in {"pick", "deref_size"}, n \in {0, 1, 2, 3}}
    \cup {[op |-> o, n |-> 200] : o \in {"addr", "const1u", "const2u", "const4u", "const8u"}}
    \cup {[op |-> o, n |-> -3] : o \in {"const1s", "const2s", "const4s", "const8s"}}

Singles ==
    {<<o>> : o \in OneOp} \cup {<<Push(a), o>> : a \in Boundary, o \in OneOp}
    \cup {<<Push(a), Push(b), o>> : a \in Boundary, b \in Boundary, o \in OneOp}
    \cup {<<Lit_(1), Lit_(2), Lit_(3), o>> : o \in OneOp}

\* Numbers around every place where their encodings grow or stop fitting.
Numbers ==
    {<<Num("constu", n, pad)>> : n \in {0, 63, 64, 127, 128, 16383, 16384, 32767}, pad \in 0 .. 2}
    \cup {<<Num("consts", n, pad)>> :
            n \in {-16384, -8193, -65, -64, -1, 0, 63, 64, 8191, 8192, 16383}, pad \in 0 .. 1}
    \cup {<<Lit_(1), Num("plus_uconst", n, 0)>> : n \in {0, 127, 128, 32767}}
    \cup {<<[op |-> o, r |-> r, n |-> n, pad |-> 0]>> :
            o \in {"breg", "bregx"}, r \in 0 .. 8, n \in {-64, -1, 0, 64}}

Control ==
    {Lit_(0), Lit_(5), Do("dup"), Do("drop"), Do("swap"), Do("neg"),
     [op |-> "skip", n |-> 1], [op |-> "bra", n |-> 1], [op |-> "skip", n |-> -3]}

\* Jumps stay within the program.
Lands(ops) == \A i \in DOMAIN ops : ops[i].op \in {"skip", "bra"} => i + ops[i].n <= Len(ops)

Programs == Singles \cup Numbers \cup {ops \in UpTo(Control, 4) : Lands(ops)}

Block(bytes, length, rest) == Uleb(length, 0) \o bytes \o rest

Encoded ==
    LET Of(ops, compat) == LET bytes == Encode(ops)
                           IN  [code |-> Block(bytes, Len(bytes), <<>>), from |-> "cfa",
                                compat |-> compat, ops |-> ops]
    IN  {Of(ops, FALSE) : ops \in Programs} \cup {Of(ops, TRUE) : ops \in Numbers}

\* Bytes that end in the middle of something, or are nothing.
RawBytes == {0, 1, 255, 128, 48, Op.pick, Op.const1u, Op.const2u, Op.addr, Op.constu,
             Op.consts, Op.plus_uconst, Op.skip, Op.bregx, Op.deref_size, 112}

Raw ==
    {[code |-> Block(bytes, length, <<48>>), from |-> from, compat |-> FALSE, ops |-> NoOps] :
        bytes \in UpTo(RawBytes, 2), length \in 0 .. 4, from \in {"cfa", "rule"}}
    \cup {[code |-> code, from |-> from, compat |-> FALSE, ops |-> NoOps] :
        code \in {<<128>>, <<129>>, <<255, 255, 127, 48>>, <<129, 0, 49>>}, from \in {"cfa", "rule"}}

MCInputs == Encoded \cup Raw

MCFrame == [i \in 0 .. 16 |-> 100 + i]
MCRefFrame == [r \in {RegInfo[i] : i \in 1 .. 17} |->
                 100 + (CHOOSE i \in 1 .. 17 : RegInfo[i] = r) - 1]
MCGarbage == {0, 9}
MCReadableAddrs == {3, 32767}
-----------------------------------------------------------------------------
\* compute_expr gives an expression its DWARF value, or refuses one that has none
\* (an empty stack, a division by 0, more than MAX_EXPR_STACK entries); numbers are
\* decoded as they were encoded, and 32-bit register numbers name their register.
ValueIsRight ==
    in.ops # NoOps /\ exprPhase \in {"done", "failed", "trap"} =>
        LET m == Meaning(in.ops, in.compat)
        IN  CASE m.kind = "value" -> exprPhase = "done" /\ result = m.st[Len(m.st)]
              [] m.kind = "undefined" -> exprPhase = "failed"
              [] OTHER -> TRUE
=============================================================================
