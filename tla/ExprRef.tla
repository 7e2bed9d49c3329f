------------------------------- MODULE ExprRef -------------------------------
(***************************************************************************)
(* What a DWARF expression means: a list of operations, its value on a stack that *)
(* is a sequence, and its encoding.  Operations of src/src/unwind/unwind.h with   *)
(* their operands as numbers; jumps count operations; registers have names.       *)
(*                                                                         *)
(* Where compute_expr is known to depart from this meaning the outcome is        *)
(* "departs": DW_OP_over, DW_OP_pick, DW_OP_deref and DW_OP_deref_size,            *)
(* DW_OP_bra that is not taken, backward jumps, negative numbers whose sign does   *)
(* not fit in an int, shifts by more than a word, the quotient that does not fit,   *)
(* and PUSH of a POP on a full stack.                                           *)
(***************************************************************************)
EXTENDS ExprOps, LebRef

CONSTANTS RefStack, RefFrame    \* depth of the stack, register name |-> value

\* The registers of a 32-bit task in the order of its DWARF numbers, from 0.
RegInfo32 == <<"ax", "cx", "dx", "bx", "sp", "bp", "si", "di", "ip">>

RegName(r, compat) == IF compat THEN RegInfo32[r + 1] ELSE RegInfo[r + 1]

-----------------------------------------------------------------------------
\* An operation; off is the offset of a jump.
EncodeOp(o, off) ==
    CASE o.op = "lit" -> <<48 + o.n>>
      [] o.op = "breg" -> <<112 + o.r>> \o Sleb(o.n, o.pad)
      [] o.op = "bregx" -> <<Op.bregx>> \o Uleb(o.r, 0) \o Sleb(o.n, o.pad)
      [] o.op \in {"constu", "plus_uconst"} -> <<Op[o.op]>> \o Uleb(o.n, o.pad)
      [] o.op = "consts" -> <<Op.consts>> \o Sleb(o.n, o.pad)
      [] o.op \in DOMAIN Width -> <<Op[o.op]>> \o LittleEndian(o.n, Width[o.op])
      [] o.op \in {"skip", "bra"} -> <<Op[o.op]>> \o LittleEndian(off, 2)
      [] o.op \in {"pick", "deref_size"} -> <<Op[o.op], o.n>>
      [] OTHER -> <<Op[o.op]>>

Encode(ops) ==
    LET code[i \in 1 .. Len(ops) + 1] ==
            IF i > Len(ops) THEN <<>>
            ELSE LET o == ops[i]
                     rest == code[i + 1]
                     off == IF o.op \notin {"skip", "bra"} THEN 0
                            ELSE IF o.n < 0 THEN o.n
                            ELSE Len(rest) - Len(code[i + 1 + o.n])
                 IN  EncodeOp(o, off) \o rest
    IN  code[1]

-----------------------------------------------------------------------------
\* A negative number whose sign bit lies within the int that extends it.
SignFits(n, pad) == n >= 0 \/ Group * Len(Sleb(n, pad)) <= IntBits

\* What an operation takes from the stack, and what it puts there.
Takes(o) ==
    CASE o.op \in Binary \cup {"swap"} -> 2
      [] o.op \in Unary \cup {"dup", "drop", "bra", "plus_uconst"} -> 1
      [] OTHER -> 0

Puts(o, a, b, compat) ==
    CASE o.op \in Binary -> <<BinaryOp(o.op, a, b)>>
      [] o.op \in Unary -> <<UnaryOp(o.op, b)>>
      [] o.op = "swap" -> <<b, a>>
      [] o.op = "dup" -> <<b, b>>
      [] o.op = "plus_uconst" -> <<(b + o.n) % WordMax>>
      [] o.op \in {"lit", "constu", "consts"} \cup DOMAIN Width -> <<o.n % WordMax>>
      [] o.op \in {"breg", "bregx"} -> <<(RefFrame[RegName(o.r, compat)] + o.n) % WordMax>>
      [] OTHER -> <<>>

OpDeparts(o, depth, a, b) ==
    \/ o.op \in {"over", "pick", "deref", "deref_size"}
    \/ o.op = "bra" /\ b = 0
    \/ o.op \in {"skip", "bra"} /\ o.n < 0
    \/ o.op \in {"consts", "breg", "bregx"} /\ ~SignFits(o.n, o.pad)
    \/ o.op \in {"shl", "shr", "shra"} /\ b >= WordBits
    \/ o.op = "div" /\ b = WordMax - 1 /\ 2 * a = WordMax
    \/ o.op \in {"not", "neg", "plus_uconst"} /\ depth = RefStack

\* Operation o, the j-th, on the state s: what there is on the stack, what comes next.
Perform(o, j, s, compat) ==
    LET n == Len(s.st)
        a == IF n >= 2 THEN s.st[n - 1] ELSE 0
        b == IF n >= 1 THEN s.st[n] ELSE 0
        after == SubSeq(s.st, 1, n - Takes(o)) \o Puts(o, a, b, compat)
    IN  IF OpDeparts(o, n, a, b) THEN [s EXCEPT !.kind = "departs"]
        ELSE IF \/ n < Takes(o) \/ o.op = "rot"
                \/ o.op \in {"mod", "div"} /\ b = 0
                \/ Len(after) > RefStack
             THEN [s EXCEPT !.kind = "undefined"]
        ELSE [s EXCEPT !.st = after,
                       !.next = j + 1 + (IF o.op \in {"skip", "bra"} THEN o.n ELSE 0)]

\* The operations in turn, except those that are jumped over.
Meaning(ops, compat) ==
    LET state[j \in 0 .. Len(ops)] ==
            IF j = 0 THEN [kind |-> "value", next |-> 1, st |-> <<>>]
            ELSE LET s == state[j - 1]
                 IN  IF s.kind # "value" \/ s.next # j THEN s
                     ELSE Perform(ops[j], j, s, compat)
        last == state[Len(ops)]
    IN  IF last.kind = "value" /\ last.st = <<>> THEN [last EXCEPT !.kind = "undefined"]
        ELSE last
=============================================================================
