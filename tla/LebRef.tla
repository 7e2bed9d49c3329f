------------------------------- MODULE LebRef -------------------------------
(***************************************************************************)
(* How numbers are written in .eh_frame: in groups of seven bits (LEB128), and in  *)
(* a fixed number of bytes.                                                  *)
(***************************************************************************)
EXTENDS Integers, FiniteSetsExt

\* The k lowest groups of n, all but the last with the bit that says more follow.
Groups(n, k) ==
    [i \in 1 .. k |-> ((n \div 128 ^ (i - 1)) % 128) + (IF i < k THEN 128 ELSE 0)]

\* n in as few groups as hold it, and pad needless ones.
Uleb(n, pad) == Groups(n, pad + Min({k \in 1 .. 4 : n < 128 ^ k}))

Sleb(n, pad) ==
    Groups(n, pad + Min({k \in 1 .. 4 : n \div (64 * 128 ^ (k - 1)) \in {-1, 0}}))

LittleEndian(n, bytes) ==
    [i \in 1 .. bytes |-> (IF i <= 3 THEN n \div 256 ^ (i - 1) ELSE n \div 256 ^ 3) % 256]
=============================================================================
