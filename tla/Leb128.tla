------------------------------- MODULE Leb128 -------------------------------
(***************************************************************************)
(* get_uleb128 and get_sleb128 of src/src/unwind.c.  A number is a row of bytes, *)
(* seven bits of it in each, the lowest first; a byte of 128 or more says that   *)
(* another follows.  The decoders loop over the bytes s[p], s[p+1], ... before    *)
(* position end, and leave the position after the number, or end + 1 when a       *)
(* group does not fit in the word.  A number cut off by end is taken as it is.     *)
(*                                                                         *)
(* A word is its set of bits, so that |= is union.  WordBits is 64 and IntBits     *)
(* 32 in the code.  Shifts by the width or more are undefined in C; the counts     *)
(* are taken modulo the width, as the shift instructions of x86_64 do.           *)
(***************************************************************************)
EXTENDS Integers, FiniteSetsExt

CONSTANTS WordBits, IntBits

WordMax == 2 ^ WordBits

\* The last conjunct is a fact of arithmetic; the provers know nothing of powers.
ASSUME Leb128Assumption ==
    WordBits \in Nat \ {0} /\ IntBits \in Nat \ {0} /\ WordMax \in Nat \ {0}

Group == 7
Byte == 0 .. 255

Bits(n) == {i \in 0 .. (WordBits - 1) : (n \div 2 ^ i) % 2 = 1}

OfBits(bits) ==
    LET word[b \in SUBSET (0 .. (WordBits - 1))] ==
            IF b = {} THEN 0
            ELSE (IF 0 \in b THEN 1 ELSE 0) + 2 * word[{i - 1 : i \in b \ {0}}]
    IN  word[bits]

\* A word as a signed number.
Signed(w) == IF 2 * w >= WordMax THEN w - WordMax ELSE w

Payload(b) == b % 128
More(b) == b >= 128

\* The group of byte b at this shift has bits outside of the word.
TooBig(b, shift) ==
    /\ shift + Group > WordBits
    /\ Payload(b) >= 2 ^ ((WordBits - shift) % IntBits)

GroupBits(b, shift) ==
    {i + (shift % WordBits) : i \in Bits(Payload(b))} \cap 0 .. (WordBits - 1)

\* The bytes either loop may stop at.
Stops(s, p, end) ==
    {c \in p .. (end - 1) : ~More(s[c]) \/ TooBig(s[c], Group * (c - p))}

\* The loop both share: the bits gathered, the position left, the last byte seen,
\* and whether that byte ends the number.
Gather(s, p, end) ==
    LET stops == Stops(s, p, end)
        c == Min(stops)
        Upto(n) == UNION {GroupBits(s[i], Group * (i - p)) : i \in p .. n}
    IN  IF p >= end THEN [bits |-> {}, cur |-> p, seen |-> p - 1, whole |-> FALSE]
        ELSE IF stops = {}
             THEN [bits |-> Upto(end - 1), cur |-> end, seen |-> end - 1, whole |-> FALSE]
        ELSE IF TooBig(s[c], Group * (c - p))
             THEN [bits |-> Upto(c - 1), cur |-> end + 1, seen |-> c, whole |-> FALSE]
        ELSE [bits |-> Upto(c), cur |-> c + 1, seen |-> c, whole |-> TRUE]

get_uleb128(s, p, end) ==
    LET g == Gather(s, p, end)
    IN  [val |-> OfBits(g.bits), cur |-> g.cur, seen |-> g.seen, whole |-> g.whole]

\* -(cur_val & 0x40) << shift is an int: what does not fit in it is lost, and the
\* rest is extended to the word.
SignBits(shift) ==
    LET lowest == (shift % IntBits) + 6
    IN  IF lowest < IntBits THEN lowest .. (WordBits - 1) ELSE {}

get_sleb128(s, p, end) ==
    LET g == Gather(s, p, end)
        negative == g.whole /\ Payload(s[g.seen]) >= 64
        sign == IF negative THEN SignBits(Group * (g.seen - p)) ELSE {}
    IN  [val |-> OfBits(g.bits \cup sign), cur |-> g.cur, seen |-> g.seen, whole |-> g.whole]
=============================================================================
