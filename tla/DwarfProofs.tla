----------------------------- MODULE DwarfProofs ------------------------------
(***************************************************************************)
(* Proofs about reading DWARF from an image, for any bytes: where          *)
(* get_uleb128 and get_sleb128 stop and what they look at; that the        *)
(* records check_fde and cie_for_fde accept, and the instructions          *)
(* parse_fde_cie finds in them, lie in the section; and that compute_expr  *)
(* stays within its stack and within the block whose length was checked,   *)
(* and goes forward.                                                       *)
(***************************************************************************)
EXTENDS ComputeExpr, EhFrame, WellFoundedInduction, TLAPS

\* A set of natural numbers that is not empty has a smallest member.  With it, the
\* smallest counterexample takes the place of induction below.
LEMMA Smallest ==
    ASSUME NEW T, T \subseteq Nat, T # {}
    PROVE  \E x \in T : \A y \in T : x <= y
<1>1. \E x \in T : \A y \in T : ~(<<y, x>> \in OpToRel(<, Nat))
  BY NatLessThanWellFounded, WFMin, Zenon
<1>2. ASSUME NEW x \in T, NEW y \in T, ~(<<y, x>> \in OpToRel(<, Nat)) PROVE x <= y
  BY <1>2 DEF OpToRel
<1> QED
  BY <1>1, <1>2, Zenon

\* Min, which picks the byte a decoder stops at, is the smallest member.
LEMMA MinIsSmallest ==
    ASSUME NEW T, T \subseteq Nat, T # {}
    PROVE  Min(T) \in T /\ \A y \in T : Min(T) <= y
  BY Smallest, Zenon DEF Min

-----------------------------------------------------------------------------
(* The word of a set of bits *)

Shifted(b) == {i - 1 : i \in b \ {0}}

Below(k) == SUBSET (0 .. (k - 1))

\* word satisfies the equation that defines it in OfBits, on the subsets of 0..k-1.
IsWord(word, k) ==
    word = [b \in Below(k) |->
              IF b = {} THEN 0 ELSE (IF 0 \in b THEN 1 ELSE 0) + 2 * word[Shifted(b)]]

\* Dropping the lowest bit leaves one bit less.
LEMMA ShiftedType ==
    ASSUME NEW k \in Nat, NEW b \in Below(k + 1)
    PROVE  Shifted(b) \in Below(k)
  BY DEF Shifted, Below

\* A non-empty set of bits below 1 or more stays below when it is shifted.
LEMMA ShiftedBelow ==
    ASSUME NEW k \in Nat, NEW b \in Below(k)
    PROVE  Shifted(b) \in Below(k)
  BY DEF Shifted, Below

\* The equation has a solution for every width.
LEMMA WordExists ==
    ASSUME NEW k \in Nat
    PROVE  \E word : IsWord(word, k)
<1> DEFINE Bad == {n \in Nat : ~ \E word : IsWord(word, n)}
<1>1. \E word : IsWord(word, 0)
  <2> DEFINE w == [b \in Below(0) |-> 0]
  <2>1. \A b \in Below(0) : b = {}
    BY DEF Below
  <2>2. w = [b \in Below(0) |->
              IF b = {} THEN 0 ELSE (IF 0 \in b THEN 1 ELSE 0) + 2 * w[Shifted(b)]]
    BY <2>1, Zenon
  <2> QED
    BY <2>2, Zenon DEF IsWord
<1>2. ASSUME NEW n \in Nat, NEW v, IsWord(v, n) PROVE \E word : IsWord(word, n + 1)
  <2> DEFINE Step(f, b) == IF b = {} THEN 0 ELSE (IF 0 \in b THEN 1 ELSE 0) + 2 * f[Shifted(b)]
             w == [b \in Below(n + 1) |-> Step(v, b)]
  <2>1. v = [b \in Below(n) |-> Step(v, b)]
    BY <1>2, Zenon DEF IsWord
  <2>2. Below(n) \subseteq Below(n + 1)
    BY DEF Below
  <2>3. \A b \in Below(n) : v[b] = Step(v, b)
    <3> HIDE DEF Step
    <3> QED BY <2>1, Zenon
  <2>4. \A b \in Below(n) : w[b] = v[b]
    <3> HIDE DEF Step
    <3> QED BY <2>2, <2>3, Zenon
  <2>5. \A b \in Below(n + 1) : w[Shifted(b)] = v[Shifted(b)]
    <3> HIDE DEF w
    <3> QED BY <2>4, ShiftedType, Zenon
  <2>6. \A b \in Below(n + 1) : Step(w, b) = Step(v, b)
    <3> HIDE DEF w
    <3> QED BY <2>5, Zenon
  <2>7. w = [b \in Below(n + 1) |-> Step(w, b)]
    <3> HIDE DEF Step
    <3> QED BY <2>6, Zenon
  <2>8. IsWord(w, n + 1)
    <3> HIDE DEF w
    <3> QED BY <2>7, Zenon DEF IsWord
  <2> QED
    BY <2>8, Zenon
<1>3. Bad = {}
  <2> SUFFICES ASSUME Bad # {} PROVE FALSE
    BY Zenon
  <2>1. PICK x \in Bad : \A y \in Bad : x <= y
    BY Smallest, Zenon
  <2>2. x \in Nat /\ ~ \E word : IsWord(word, x)
    BY Zenon
  <2>3. x # 0
    BY <1>1, <2>2, Zenon
  <2>4. x - 1 \in Nat /\ x - 1 \notin Bad
    <3> HIDE DEF Bad
    <3> QED BY <2>1, <2>2, <2>3
  <2>5. PICK v : IsWord(v, x - 1)
    BY <2>4, Zenon
  <2>6. x = (x - 1) + 1
    BY <2>2
  <2> QED
    BY <1>2, <2>2, <2>4, <2>5, <2>6, Zenon
<1> QED
  BY <1>3, Zenon

\* The word of a set of bits is a natural number.
LEMMA OfBitsType ==
    ASSUME NEW bits \in SUBSET (0 .. (WordBits - 1))
    PROVE  OfBits(bits) \in Nat
<1> DEFINE word == CHOOSE w : IsWord(w, WordBits)
           Bad == {n \in Nat : \E b \in Below(WordBits) : b \in Below(n) /\ word[b] \notin Nat}
<1>1. IsWord(word, WordBits)
  BY WordExists, Leb128Assumption, Zenon
<1>2. OfBits(bits) = word[bits]
  BY Zenon DEF OfBits, IsWord, Shifted, Below
<1> HIDE DEF word
<1>3. ASSUME NEW b \in Below(WordBits)
      PROVE  word[b] = IF b = {} THEN 0 ELSE (IF 0 \in b THEN 1 ELSE 0) + 2 * word[Shifted(b)]
  BY <1>1, Zenon DEF IsWord
<1>4. Bad = {}
  <2> SUFFICES ASSUME Bad # {} PROVE FALSE
    BY Zenon
  <2>1. PICK x \in Bad : \A y \in Bad : x <= y
    BY Smallest, Zenon
  <2>2. PICK b \in Below(WordBits) : b \in Below(x) /\ word[b] \notin Nat
    BY Zenon
  <2>3. x \in Nat
    BY Zenon
  <2>4. b # {}
    BY <1>3, <2>2
  <2>5. x # 0
    <3>1. \A c \in Below(0) : c = {}
      BY DEF Below
    <3> QED BY <2>2, <2>4, <3>1, Zenon
  <2>6. x - 1 \in Nat /\ x - 1 \notin Bad
    <3> HIDE DEF Bad
    <3> QED BY <2>1, <2>3, <2>5
  <2>7. Shifted(b) \in Below(x - 1)
    <3>1. b \in Below((x - 1) + 1)
      BY <2>2, <2>3
    <3> QED BY <3>1, <2>6, ShiftedType, Zenon
  <2>8. Shifted(b) \in Below(WordBits)
    BY ShiftedBelow, Leb128Assumption, Zenon
  <2>9. word[Shifted(b)] \in Nat
    BY <2>6, <2>7, <2>8, Zenon
  <2>10. word[b] = (IF 0 \in b THEN 1 ELSE 0) + 2 * word[Shifted(b)]
    BY <1>3, <2>4, Zenon
  <2> QED
    BY <2>2, <2>9, <2>10
<1>5. bits \in Below(WordBits) /\ WordBits \in Nat
  BY Leb128Assumption, Zenon DEF Below
<1> QED
  BY <1>2, <1>4, <1>5, Zenon

-----------------------------------------------------------------------------
(* The decoders *)

\* The decoder that started at p and left cur looked at no byte from stop on, took at
\* least one byte when there was one, and left the position after the bytes it saw,
\* or stop + 1.
Bounded(p, stop, cur, seen, whole) ==
    /\ cur \in Nat /\ seen \in Int
    /\ p < stop => p <= seen /\ seen < stop /\ p < cur /\ cur <= stop + 1
    /\ p >= stop => seen = p - 1 /\ cur = p
    /\ whole => cur = seen + 1 /\ cur <= stop
    /\ ~whole => cur >= stop

\* The loop that get_uleb128 and get_sleb128 share.
LEMMA GatherBounds ==
    ASSUME NEW s, NEW p \in Nat, NEW stop \in Nat, NEW g, g = Gather(s, p, stop)
    PROVE  /\ Bounded(p, stop, g.cur, g.seen, g.whole)
           /\ g.bits \in SUBSET (0 .. (WordBits - 1))
<1> DEFINE stops == Stops(s, p, stop)
           c == Min(stops)
           Upto(n) == UNION {GroupBits(s[i], Group * (i - p)) : i \in p .. n}
<1>1. \A n : Upto(n) \in SUBSET (0 .. (WordBits - 1))
  BY Zenon DEF GroupBits
<1>2. stops \subseteq Nat /\ \A x \in stops : p <= x /\ x <= stop - 1
  BY DEF Stops
<1>3. stops # {} => c \in stops
  BY <1>2, MinIsSmallest, Zenon
<1>4. g = IF p >= stop THEN [bits |-> {}, cur |-> p, seen |-> p - 1, whole |-> FALSE]
          ELSE IF stops = {}
               THEN [bits |-> Upto(stop - 1), cur |-> stop, seen |-> stop - 1, whole |-> FALSE]
          ELSE IF TooBig(s[c], Group * (c - p))
               THEN [bits |-> Upto(c - 1), cur |-> stop + 1, seen |-> c, whole |-> FALSE]
          ELSE [bits |-> Upto(c), cur |-> c + 1, seen |-> c, whole |-> TRUE]
  BY Zenon DEF Gather
<1>5. stops # {} => c \in Nat /\ p <= c /\ c <= stop - 1
  BY <1>2, <1>3, Zenon
<1> HIDE DEF stops, c, Upto
<1>6. g.bits \in SUBSET (0 .. (WordBits - 1))
  <2>1. {} \in SUBSET (0 .. (WordBits - 1))
    BY Zenon
  <2>2. g.bits \in {{}, Upto(stop - 1), Upto(c - 1), Upto(c)}
    BY <1>4
  <2> QED BY <1>1, <2>1, <2>2, Zenon
<1>7. CASE p >= stop
  <2>1. g.cur = p /\ g.seen = p - 1 /\ g.whole = FALSE
    BY <1>4, <1>7
  <2> QED BY <1>6, <1>7, <2>1 DEF Bounded
<1>8. CASE p < stop /\ stops = {}
  <2>1. g.cur = stop /\ g.seen = stop - 1 /\ g.whole = FALSE
    BY <1>4, <1>8
  <2> QED BY <1>6, <1>8, <2>1 DEF Bounded
<1>9. CASE p < stop /\ stops # {}
  <2>1. \/ g.cur = stop + 1 /\ g.seen = c /\ g.whole = FALSE
        \/ g.cur = c + 1 /\ g.seen = c /\ g.whole = TRUE
    BY <1>4, <1>9
  <2> QED BY <1>5, <1>6, <1>9, <2>1 DEF Bounded
<1> QED
  BY <1>7, <1>8, <1>9

\* get_uleb128 returns a natural number, reads only before stop, and moves on.
LEMMA UlebBounds ==
    ASSUME NEW s, NEW p \in Nat, NEW stop \in Nat, NEW r, r = get_uleb128(s, p, stop)
    PROVE  r.val \in Nat /\ Bounded(p, stop, r.cur, r.seen, r.whole)
<1> DEFINE g == Gather(s, p, stop)
<1>1. r = [val |-> OfBits(g.bits), cur |-> g.cur, seen |-> g.seen, whole |-> g.whole]
  BY Zenon DEF get_uleb128
<1>2. Bounded(p, stop, g.cur, g.seen, g.whole) /\ OfBits(g.bits) \in Nat
  BY GatherBounds, OfBitsType, Zenon
<1> HIDE DEF g
<1>3. r.val = OfBits(g.bits) /\ r.cur = g.cur /\ r.seen = g.seen /\ r.whole = g.whole
  BY <1>1
<1> QED
  BY <1>2, <1>3, Zenon

\* get_sleb128 reads only before stop, and moves on.
LEMMA SlebBounds ==
    ASSUME NEW s, NEW p \in Nat, NEW stop \in Nat, NEW r, r = get_sleb128(s, p, stop)
    PROVE  Bounded(p, stop, r.cur, r.seen, r.whole)
<1> DEFINE g == Gather(s, p, stop)
<1>1. r.cur = g.cur /\ r.seen = g.seen /\ r.whole = g.whole
  BY Zenon DEF get_sleb128
<1>2. Bounded(p, stop, g.cur, g.seen, g.whole)
  BY GatherBounds, Zenon
<1> HIDE DEF g
<1> QED
  BY <1>1, <1>2, Zenon


-----------------------------------------------------------------------------
(* check_fde, cie_for_fde and parse_fde_cie: numbers of a fixed width *)

\* f is the function that defines Constant, on lo .. n.
IsBytes(f, s, p, n, lo) ==
    f = [i \in lo .. n |->
            IF i = n THEN (IF FALSE /\ s[p + n - 1] >= 128 THEN WordMax - 1 ELSE 0)
            ELSE (s[p + i] + 256 * f[i + 1]) % WordMax]

\* The function exists: it is built from the last byte to the first.
LEMMA BytesExist ==
    ASSUME NEW s, NEW p \in Nat, NEW n \in Nat
    PROVE  \E f : IsBytes(f, s, p, n, 0)
<1> DEFINE Bad == {k \in 0 .. n : ~ \E f : IsBytes(f, s, p, n, n - k)}
<1>1. \E f : IsBytes(f, s, p, n, n - 0)
  <2> DEFINE f == [i \in n .. n |-> 0]
  <2>1. \A i \in n .. n : i = n
    OBVIOUS
  <2>2. n - 0 = n
    OBVIOUS
  <2>3. f = [i \in n .. n |->
            IF i = n THEN (IF FALSE /\ s[p + n - 1] >= 128 THEN WordMax - 1 ELSE 0)
            ELSE (s[p + i] + 256 * f[i + 1]) % WordMax]
    BY <2>1, Zenon
  <2> QED
    BY <2>2, <2>3, Zenon DEF IsBytes
<1>2. ASSUME NEW k \in 0 .. n, k # 0, \E f : IsBytes(f, s, p, n, n - (k - 1))
      PROVE  \E f : IsBytes(f, s, p, n, n - k)
  <2> DEFINE lo == n - k
             Val(f, i) == IF i = n THEN (IF FALSE /\ s[p + n - 1] >= 128 THEN WordMax - 1 ELSE 0)
                          ELSE (s[p + i] + 256 * f[i + 1]) % WordMax
  <2>1. n - (k - 1) = lo + 1 /\ lo \in Int /\ lo < n
    BY <1>2
  <2>2. PICK f : IsBytes(f, s, p, n, lo + 1)
    BY <1>2, <2>1, Zenon
  <2>3. f = [i \in (lo + 1) .. n |-> Val(f, i)]
    BY <2>2, Zenon DEF IsBytes
  <2> DEFINE g == [i \in lo .. n |-> IF i = lo THEN Val(f, lo) ELSE f[i]]
  <2> HIDE DEF lo
  <2>4. /\ g[lo] = Val(f, lo)
        /\ \A i \in lo .. n : i # lo => g[i] = f[i]
        /\ g = [i \in lo .. n |-> g[i]]
    BY <2>1
  <2> HIDE DEF g
  <2>5. ASSUME NEW i \in lo .. n PROVE g[i] = Val(g, i)
    <3>1. i # lo => g[i] = Val(f, i)
      <4>1. i # lo => i \in (lo + 1) .. n
        BY <2>1
      <4>2. i # lo => f[i] = Val(f, i)
        <5> HIDE DEF Val
        <5> QED BY <2>3, <4>1, Zenon
      <4> QED BY <2>4, <4>2, ZenonT(60)
    <3>2. g[i] = Val(f, i)
      BY <2>4, <3>1, ZenonT(60)
    <3>3. i # n => g[i + 1] = f[i + 1]
      <4>1. i # n => i + 1 \in lo .. n /\ i + 1 # lo
        BY <2>1
      <4> QED BY <2>4, <4>1, Zenon
    <3> QED
      BY <3>2, <3>3, ZenonT(60)
  <2>6. [i \in lo .. n |-> g[i]] = [i \in lo .. n |-> Val(g, i)]
    BY <2>5, ZenonT(60)
  <2>7. IsBytes(g, s, p, n, lo)
    BY <2>4, <2>6, Zenon DEF IsBytes
  <2> QED
    BY <2>7, Zenon DEF lo
<1>3. Bad = {}
  <2> SUFFICES ASSUME Bad # {} PROVE FALSE
    BY Zenon
  <2>0. Bad \subseteq Nat
    OBVIOUS
  <2>1. PICK k \in Bad : \A y \in Bad : k <= y
    BY <2>0, Smallest, Zenon
  <2>2. k \in 0 .. n /\ ~ \E f : IsBytes(f, s, p, n, n - k)
    BY <2>1, Zenon
  <2>3. k # 0
    BY <1>1, <2>2, Zenon
  <2>4. k - 1 \in 0 .. n /\ ~(k <= k - 1)
    BY <2>2, <2>3
  <2>5. \E f : IsBytes(f, s, p, n, n - (k - 1))
    BY <2>1, <2>4, Zenon
  <2> QED
    BY <1>2, <2>2, <2>3, <2>5, Zenon
<1>4. n \in 0 .. n /\ n - n = 0
  OBVIOUS
<1>5. \E f : IsBytes(f, s, p, n, n - n)
  BY <1>3, <1>4, Zenon
<1> QED
  BY <1>4, <1>5, Zenon

\* What is read from bytes is a natural number.
LEMMA ConstantNat ==
    ASSUME NEW s, NEW p \in Nat, NEW n \in Nat, \A i \in 0 .. (n - 1) : s[p + i] \in Nat
    PROVE  Constant(s, p, n, FALSE) \in Nat
<1> DEFINE f == CHOOSE g : IsBytes(g, s, p, n, 0)
           Bad == {k \in 0 .. n : f[n - k] \notin Nat}
<1>1. IsBytes(f, s, p, n, 0)
  BY BytesExist, Zenon
<1>2. Constant(s, p, n, FALSE) = f[0]
  BY Zenon DEF Constant, IsBytes
<1> HIDE DEF f
<1>3. ASSUME NEW i \in 0 .. n
      PROVE  f[i] = IF i = n THEN (IF FALSE /\ s[p + n - 1] >= 128 THEN WordMax - 1 ELSE 0)
                    ELSE (s[p + i] + 256 * f[i + 1]) % WordMax
  BY <1>1, ZenonT(60) DEF IsBytes
<1>4. Bad = {}
  <2> SUFFICES ASSUME Bad # {} PROVE FALSE
    BY Zenon
  <2>0. Bad \subseteq Nat
    OBVIOUS
  <2>1. PICK k \in Bad : \A y \in Bad : k <= y
    BY <2>0, Smallest, Zenon
  <2>2. k \in 0 .. n /\ f[n - k] \notin Nat
    BY <2>1, Zenon
  <2>3. k # 0
    <3>1. n \in 0 .. n /\ n - 0 = n
      OBVIOUS
    <3>2. f[n] = 0
      BY <3>1, <1>3, Zenon
    <3> QED BY <2>2, <3>1, <3>2
  <2> DEFINE i == n - k
  <2>4. k - 1 \in 0 .. n /\ ~(k <= k - 1) /\ n - (k - 1) = i + 1 /\ i \in 0 .. (n - 1)
    BY <2>2, <2>3
  <2>5. f[i + 1] \in Nat
    BY <2>1, <2>4, Zenon
  <2> HIDE DEF i
  <2>6. i \in 0 .. n /\ i # n
    BY <2>4
  <2>7. f[i] = (s[p + i] + 256 * f[i + 1]) % WordMax
    BY <1>3, <2>6, ZenonT(60)
  <2>8. s[p + i] \in Nat
    BY <2>4, Zenon
  <2>9. f[i] \in Nat
    BY <2>5, <2>7, <2>8, Leb128Assumption
  <2> QED
    BY <2>2, <2>9, Zenon DEF i
<1>5. n \in 0 .. n /\ n - n = 0
  OBVIOUS
<1> QED
  BY <1>2, <1>4, <1>5, Zenon

-----------------------------------------------------------------------------
(* The inductive invariant of EhFrame *)

InCie == {"code", "data", "reg", "auglen", "aug"}
InFde == {"range", "fdeaug"}
Parsed == {"parsed", "done", "cfi"}

\* The scan goes up from the section's start.
ScanOK ==
    \/ ptr = ehf.kbuf
    \/ ehf.kbuf \in DOMAIN mem /\ ptr \in Nat /\ ehf.kbuf <= ptr

SectionOK == ehf.kbuf \in DOMAIN mem /\ ehf.size \in Nat /\ ehf.kbuf + ehf.size < WordMod

FdeOK == Mapped(fde, 2 * U32) /\ check_fde(fde)

CieOK ==
    /\ cie \in Nat /\ RecordEnd(cie) \in Nat
    /\ ehf.kbuf <= cie /\ RecordEnd(cie) < fde + U32 /\ ehf.kbuf < fde

HeadOK ==
    /\ {"end", "start"} \subseteq DOMAIN head /\ {"end", "start", "augLen"} \subseteq DOMAIN out
    /\ head.end = RecordEnd(cie) /\ out.end = RecordEnd(fde)
    /\ ciePtr \in Nat /\ cie + 2 * U32 < ciePtr

\* The FDE's pointers have been read up to fdePtr.
FdePtrOK ==
    /\ ciePtr = head.start
    /\ fdePtr \in Nat /\ fde + 2 * U32 <= fdePtr /\ fdePtr <= out.end

IInv ==
    /\ img \in Images /\ DOMAIN ehf = {"kbuf", "offset", "size"}
    /\ phase = "scan" => ScanOK
    /\ phase \in {"loaded", "fde"} \/ Accepted => SectionOK
    /\ phase = "fde" \/ Accepted => FdeOK
    /\ Accepted => CieOK
    /\ phase \in InCie \cup InFde \cup Parsed => HeadOK
    /\ phase = "aug" => head.start \in Nat
    /\ phase \in InFde => FdePtrOK
    /\ InsnsInside

-----------------------------------------------------------------------------
(* Reading the image *)

\* A remainder is at most the number it is taken of.
LEMMA ModBound ==
    ASSUME NEW x \in Nat, NEW m \in Nat \ {0}
    PROVE  x % m \in Nat /\ x % m <= x
<1>1. x % m \in 0 .. (m - 1)
  OBVIOUS
<1>2. CASE x < m
  <2>1. x % m = x
    BY <1>2
  <2> QED BY <2>1
<1>3. CASE x >= m
  BY <1>1, <1>3
<1> QED
  BY <1>2, <1>3

\* The bytes of the image are an interval.
LEMMA Interval ==
    ASSUME img \in Images
    PROVE  /\ DOMAIN mem \subseteq Nat
           /\ \A a \in DOMAIN mem, b \in DOMAIN mem, x \in Int :
                a <= x /\ x <= b => x \in DOMAIN mem
           /\ \A x \in DOMAIN mem : mem[x] \in Nat
<1> DEFINE hi == Base + img.vm_end - img.vm_start - 1
<1>1. img.vm_start \in Nat /\ img.vm_end \in Nat /\ mem \in [Base .. hi -> Byte]
  BY ImagesAssumption, Zenon DEF mem
<1>2. Base \in Nat /\ hi \in Int
  BY <1>1, EhBytesAssumption
<1> HIDE DEF hi
<1>3. DOMAIN mem = Base .. hi /\ \A x \in Base .. hi : mem[x] \in Byte
  BY <1>1, Zenon
<1>4. DOMAIN mem \subseteq Nat
  BY <1>2, <1>3
<1>5. ASSUME NEW a \in DOMAIN mem, NEW b \in DOMAIN mem, NEW x \in Int, a <= x, x <= b
      PROVE  x \in DOMAIN mem
  BY <1>2, <1>3, <1>5
<1>6. ASSUME NEW x \in DOMAIN mem PROVE mem[x] \in Nat
  <2>1. mem[x] \in Byte
    BY <1>3, Zenon
  <2>2. \A y \in Byte : y \in Nat
    BY DEF Byte
  <2> QED BY <2>1, <2>2, Zenon
<1> QED
  BY <1>4, <1>5, <1>6, Zenon

\* A length that lies in the image is a natural number.
LEMMA U32Nat ==
    ASSUME img \in Images, NEW p, Mapped(p, U32)
    PROVE  ReadU32(mem, p) \in Nat
<1>1. p \in DOMAIN mem /\ p + U32 - 1 \in DOMAIN mem /\ p \in Nat /\ U32 \in Nat
  BY Interval, EhBytesAssumption, Zenon DEF Mapped
<1>2. ASSUME NEW i \in 0 .. (U32 - 1) PROVE mem[p + i] \in Nat
  <2>1. p + i \in Int /\ p <= p + i /\ p + i <= p + U32 - 1
    BY <1>1
  <2> QED BY <1>1, <2>1, Interval, Zenon
<1> QED
  BY <1>1, <1>2, ConstantNat, Zenon DEF ReadU32

\* So is a long one.
LEMMA ULongNat ==
    ASSUME img \in Images, NEW p, Mapped(p, ULong)
    PROVE  ReadULong(mem, p) \in Nat
<1>1. p \in DOMAIN mem /\ p + ULong - 1 \in DOMAIN mem /\ p \in Nat /\ ULong \in Nat
  BY Interval, EhBytesAssumption, ZenonT(60) DEF Mapped
<1>2. ASSUME NEW i \in 0 .. (ULong - 1) PROVE mem[p + i] \in Nat
  <2>1. p + i \in Int /\ p <= p + i /\ p + i <= p + ULong - 1
    BY <1>1
  <2> QED BY <1>1, <2>1, Interval, Zenon
<1> QED
  BY <1>1, <1>2, ConstantNat, Zenon DEF ReadULong

\* read_pointer moves on, up to the end at most, or stays.
LEMMA PointerMoves ==
    ASSUME NEW m, NEW loc \in Nat, NEW stop \in Nat, NEW ty, NEW compat,
           NEW r, r = read_pointer(m, loc, stop, ty, compat)
    PROVE  r.cur \in Nat /\ loc <= r.cur /\ (r.cur <= stop \/ r.cur = loc)
<1> DEFINE enc == ReadAs(DecodeEnc(ty), compat, 0)
           field == FieldAt(m, loc, stop, enc, compat)
<1>1. r = Decoded(field, enc, loc, 0, 0)
  BY Zenon DEF read_pointer, read_ptr_sect
<1> HIDE DEF enc
<1>2. field.cur \in Nat /\ loc <= field.cur /\ (field.fits => field.cur <= stop)
  <2>1. CASE enc.form = "leb128" /\ enc.signed
    <3> DEFINE leb == get_sleb128(m, loc, stop)
    <3>1. leb.cur \in Nat /\ loc <= leb.cur
      BY SlebBounds DEF Bounded
    <3> HIDE DEF leb
    <3>2. field = AsField(leb, stop)
      BY <2>1, Zenon DEF FieldAt, leb
    <3> HIDE DEF field
    <3>3. field.cur = leb.cur /\ (field.fits <=> leb.cur <= stop)
      BY <3>2, Zenon DEF AsField
    <3> QED BY <3>1, <3>3, Zenon
  <2>2. CASE enc.form = "leb128" /\ ~enc.signed
    <3> DEFINE leb == get_uleb128(m, loc, stop)
    <3>1. leb.cur \in Nat /\ loc <= leb.cur
      BY UlebBounds DEF Bounded
    <3> HIDE DEF leb
    <3>2. field = AsField(leb, stop)
      BY <2>2, Zenon DEF FieldAt, leb
    <3> HIDE DEF field
    <3>3. field.cur = leb.cur /\ (field.fits <=> leb.cur <= stop)
      BY <3>2, Zenon DEF AsField
    <3> QED BY <3>1, <3>3, Zenon
  <2>3. CASE enc.form # "leb128"
    <3> DEFINE n == FormBytes(enc.form, compat)
    <3>1. n \in Nat
      BY EhBytesAssumption DEF FormBytes
    <3> HIDE DEF n
    <3>2. field = IF loc + n <= stop
                  THEN [raw |-> Constant(m, loc, n, FALSE), fits |-> TRUE, cur |-> loc + n]
                  ELSE [raw |-> 0, fits |-> FALSE, cur |-> loc]
      BY <2>3, Zenon DEF FieldAt, n
    <3> HIDE DEF field
    <3> QED BY <3>1, <3>2
  <2> QED BY <2>1, <2>2, <2>3, Zenon
<1> HIDE DEF field
<1>3. r.cur = loc \/ (field.fits /\ r.cur = field.cur)
  <2> DEFINE val == ReadPtrSect(field, enc, loc, 0, 0)
  <2>1. \/ r = [val |-> 0, cur |-> loc]
        \/ field.fits /\ r = [val |-> val, cur |-> field.cur]
    BY <1>1, Zenon DEF Decoded
  <2> HIDE DEF val
  <2> QED BY <2>1
<1> QED
  BY <1>2, <1>3

-----------------------------------------------------------------------------
(* The steps *)

\* The section and the records stay what they are while they are parsed.
LEMMA Same ==
    ASSUME img' = img, ehf' = ehf
    PROVE  /\ SectionOK => SectionOK'
           /\ fde' = fde /\ FdeOK => FdeOK'
           /\ fde' = fde /\ cie' = cie /\ CieOK => CieOK'
           /\ cie' = cie => RecordEnd(cie)' = RecordEnd(cie)
           /\ fde' = fde => RecordEnd(fde)' = RecordEnd(fde)
<1>1. mem' = mem
  BY Zenon DEF mem
<1>2. \A p, q : p = q => RecordEnd(p)' = RecordEnd(q)
  BY <1>1, Zenon DEF RecordEnd
<1> QED
  BY <1>1, <1>2, Zenon DEF SectionOK, FdeOK, CieOK, Mapped, check_fde, has_cie_id, InTable

\* What check_fde lets through ends in the section, and has room for its pointers.
LEMMA FdeBounds ==
    ASSUME img \in Images, SectionOK, FdeOK
    PROVE  /\ fde \in Nat /\ U32 \in Nat \ {0} /\ RecordEnd(fde) \in Nat
           /\ fde + 2 * U32 <= RecordEnd(fde)
           /\ RecordEnd(fde) <= ehf.kbuf + ehf.size
           /\ RecordEnd(fde) < WordMod
           /\ Mapped(fde, U32) /\ Mapped(fde + U32, U32)
           /\ ReadU32(mem, fde + U32) \in Nat \ {0}
<1>1. U32 \in Nat \ {0} /\ WordMod \in Nat
  BY EhBytesAssumption, WordModAssumption, Zenon
<1>2. fde \in DOMAIN mem /\ fde \in Nat /\ fde + 2 * U32 - 1 \in DOMAIN mem
  BY Interval, Zenon DEF FdeOK, Mapped
<1>3. Mapped(fde, U32) /\ Mapped(fde + U32, U32)
  <2>1. /\ fde + U32 - 1 \in Int /\ fde <= fde + U32 - 1 /\ fde + U32 - 1 <= fde + 2 * U32 - 1
        /\ fde + U32 \in Int /\ fde <= fde + U32 /\ fde + U32 <= fde + 2 * U32 - 1
        /\ (fde + U32) + U32 - 1 = fde + 2 * U32 - 1
    BY <1>1, <1>2
  <2>2. fde + U32 - 1 \in DOMAIN mem /\ fde + U32 \in DOMAIN mem
    BY <1>2, <2>1, Interval, Zenon
  <2> QED BY <1>2, <2>1, <2>2, Zenon DEF Mapped
<1>4. ReadU32(mem, fde) \in Nat /\ ReadU32(mem, fde + U32) \in Nat
  BY <1>3, U32Nat, Zenon
<1>5. /\ ReadU32(mem, fde) # 0 /\ ReadU32(mem, fde) % U32 = 0
      /\ ReadU32(mem, fde + U32) # 0
      /\ RecordEnd(fde) <= ehf.kbuf + ehf.size
  BY Zenon DEF FdeOK, check_fde, has_cie_id, InTable
<1>6. ehf.kbuf + ehf.size < WordMod /\ ehf.kbuf \in Nat /\ ehf.size \in Nat
  BY Interval, Zenon DEF SectionOK
<1>7. ReadU32(mem, fde) >= U32
  <2> DEFINE n == ReadU32(mem, fde)
  <2> HIDE DEF n
  <2>1. n \in Nat /\ n # 0 /\ n % U32 = 0
    BY <1>4, <1>5, Zenon DEF n
  <2>2. n >= U32
    BY <2>1, <1>1
  <2> QED BY <2>2, Zenon DEF n
<1>8. RecordEnd(fde) = fde + U32 + ReadU32(mem, fde)
  BY Zenon DEF RecordEnd
<1> HIDE DEF RecordEnd
<1> QED
  BY <1>1, <1>2, <1>3, <1>4, <1>5, <1>6, <1>7, <1>8

\* cie_for_fde: a CIE that passes its tests lies between the section's start and the
\* FDE's CIE_pointer.
LEMMA CieBounds ==
    ASSUME img \in Images, SectionOK, FdeOK, NEW back, back = ReadU32(mem, fde + U32),
           NEW c, c = fde + U32 - back,
           CiePointerOK(back), InTable(c), CieSizeOK(ReadU32(mem, c), back)
    PROVE  /\ c \in Nat /\ RecordEnd(c) \in Nat
           /\ ehf.kbuf <= c /\ RecordEnd(c) < fde + U32 /\ ehf.kbuf < fde
<1>1. /\ fde \in Nat /\ U32 \in Nat \ {0} /\ back \in Nat \ {0}
      /\ Mapped(fde, U32) /\ WordMod \in Nat \ {0}
  BY FdeBounds, WordModAssumption, Zenon
<1>2. back >= U32
  <2>1. back % U32 = 0
    BY Zenon DEF CiePointerOK
  <2> QED BY <1>1, <2>1
<1>3. c \in Int /\ c <= fde /\ c + U32 - 1 <= fde + U32 - 1 /\ c <= c + U32 - 1
  BY <1>1, <1>2
<1>4. ehf.kbuf <= c /\ ehf.kbuf \in DOMAIN mem /\ ehf.kbuf \in Nat
  BY Interval, Zenon DEF InTable, SectionOK
<1>5. Mapped(c, U32)
  <2>1. fde \in DOMAIN mem /\ fde + U32 - 1 \in DOMAIN mem
    BY <1>1, Zenon DEF Mapped
  <2>2. c \in DOMAIN mem
    BY <1>3, <1>4, <2>1, Interval, Zenon
  <2>3. c + U32 - 1 \in DOMAIN mem
    BY <1>1, <1>3, <2>1, <2>2, Interval
  <2> QED BY <2>2, <2>3, Zenon DEF Mapped
<1> DEFINE size == ReadU32(mem, c)
<1>6. size \in Nat
  BY <1>5, U32Nat, Zenon
<1>7. size > U32 + 4 /\ size < (back - U32) % WordMod
  BY Zenon DEF CieSizeOK
<1>8. RecordEnd(c) = c + U32 + size
  BY Zenon DEF RecordEnd
<1> HIDE DEF size
<1>9. (back - U32) % WordMod \in Nat /\ (back - U32) % WordMod <= back - U32
  <2>1. back - U32 \in Nat
    BY <1>1, <1>2
  <2> QED BY <1>1, <2>1, ModBound, Zenon
<1>10. c + U32 + size < fde + U32
  <2>1. size < back - U32
    BY <1>1, <1>6, <1>7, <1>9
  <2> QED BY <1>1, <1>6, <2>1
<1>11. c \in Nat
  BY <1>3, <1>4
<1> QED
  BY <1>1, <1>4, <1>6, <1>7, <1>8, <1>10, <1>11

\* Loading a module and searching its table establish what the parser relies on.
LEMMA Loads ==
    ASSUME IInv, ReadHeader \/ Scan
    PROVE  IInv'
<1>1. img \in Images /\ DOMAIN ehf = {"kbuf", "offset", "size"} /\ img' = img
  BY Zenon DEF IInv, ReadHeader, Scan
<1>2. mem' = mem
  BY <1>1, Zenon DEF mem
<1>3. CASE ReadHeader
  <2>1. /\ phase' = "scan" /\ DOMAIN ehf' = {"kbuf", "offset", "size"} /\ ptr' = ehf'.kbuf
    BY <1>1, <1>3, Zenon DEF ReadHeader
  <2> QED
    BY <1>1, <2>1, Zenon DEF IInv, ScanOK, Accepted, InsnsInside, InCie, InFde, Parsed
<1>4. CASE Scan /\ phase' \in {"off", "einval"}
  <2>1. ehf' = ehf
    BY <1>4, Zenon DEF Scan
  <2> QED
    BY <1>1, <1>4, <2>1, Zenon DEF IInv, Accepted, InsnsInside, InCie, InFde, Parsed
<1>5. CASE Scan /\ phase' \notin {"off", "einval"}
  <2> DEFINE r == RecordAt(ptr)
             len == EhLen(r.end)
  <2>1. Readable /\ ~NoProgress(r.end) /\ ptr' = r.end
    BY <1>5, Zenon DEF Scan
  <2>2. /\ r.size # 0 => phase' = "scan" /\ ehf' = ehf
        /\ r.size = 0 => phase' = "loaded" /\ ehf' = [ehf EXCEPT !.size = len % (U32Max + 1)]
    BY <1>5, Zenon DEF Scan
  <2>3. phase = "scan" /\ ScanOK
    BY <1>5, Zenon DEF Scan, IInv
  <2>4. Mapped(ptr, U32) /\ ptr \in DOMAIN mem /\ ptr \in Nat
    BY <1>1, <2>1, Interval, Zenon DEF Readable, Mapped
  <2>5. ehf.kbuf \in DOMAIN mem /\ ehf.kbuf \in Nat /\ ehf.kbuf <= ptr
    BY <1>1, <2>3, <2>4, Interval DEF ScanOK
  <2>6. r.end \in Nat /\ r.end < WordMod
    <3>1. \A x \in Int : x % WordMod \in Nat /\ x % WordMod < WordMod
      BY WordModAssumption
    <3>2. U32 \in Nat /\ ULong \in Nat
      BY EhBytesAssumption, Zenon
    <3>3. CASE ReadU32(mem, ptr) = U32Max
      <4> DEFINE long == ReadULong(mem, ptr + U32)
      <4>1. long \in Nat
        BY <1>1, <2>1, <3>3, ULongNat, Zenon DEF Readable
      <4> HIDE DEF long
      <4>2. r.end = (ptr + U32 + ULong + long) % WordMod
        BY <3>3, Zenon DEF RecordAt, long
      <4> QED BY <2>4, <3>1, <3>2, <4>1, <4>2
    <3>4. CASE ReadU32(mem, ptr) # U32Max
      <4> DEFINE short == ReadU32(mem, ptr)
      <4>1. short \in Nat
        BY <1>1, <2>4, U32Nat, Zenon
      <4>2. r.end = (ptr + U32 + short) % WordMod
        BY <3>4, Zenon DEF RecordAt
      <4> HIDE DEF short
      <4> QED BY <2>4, <3>1, <3>2, <4>1, <4>2
    <3> QED BY <3>3, <3>4, Zenon
  <2>7. ptr < r.end
    BY <2>1, <2>4, <2>6 DEF NoProgress
  <2>8. len % (U32Max + 1) \in Nat /\ len % (U32Max + 1) <= r.end - ehf.kbuf
    <3>1. len = (r.end - ehf.kbuf) % WordMod
      BY Zenon DEF EhLen
    <3> HIDE DEF r, len
    <3>2. r.end - ehf.kbuf \in Nat
      BY <2>4, <2>5, <2>6, <2>7
    <3>3. len \in Nat /\ len <= r.end - ehf.kbuf
      BY <3>1, <3>2, ModBound, WordModAssumption, Zenon
    <3>4. len % (U32Max + 1) \in Nat /\ len % (U32Max + 1) <= len
      <4>1. U32Max + 1 \in Nat \ {0}
        BY EhBytesAssumption
      <4> QED BY <3>3, <4>1, ModBound, Zenon
    <3> QED BY <3>2, <3>3, <3>4
  <2> HIDE DEF r, len
  <2>9. CASE r.size # 0
    <3>1. ScanOK'
      BY <1>2, <2>1, <2>2, <2>4, <2>5, <2>6, <2>7, <2>9 DEF ScanOK
    <3> QED
      BY <1>1, <2>2, <2>9, <3>1, Zenon DEF IInv, Accepted, InsnsInside, InCie, InFde, Parsed
  <2>10. CASE r.size = 0
    <3> DEFINE size == len % (U32Max + 1)
    <3> HIDE DEF size
    <3>1. /\ DOMAIN ehf' = {"kbuf", "offset", "size"}
          /\ ehf'.kbuf = ehf.kbuf /\ ehf'.size = size
      BY <1>1, <2>2, <2>10, Zenon DEF size
    <3>2. size \in Nat /\ ehf.kbuf + size < WordMod
      BY <2>5, <2>6, <2>8, WordModAssumption DEF size
    <3>3. SectionOK'
      BY <1>2, <2>5, <3>1, <3>2, Zenon DEF SectionOK
    <3> QED
      BY <1>1, <2>2, <2>10, <3>1, <3>3, Zenon DEF IInv, Accepted, InsnsInside, InCie, InFde, Parsed
  <2> QED BY <2>9, <2>10, Zenon
<1> QED
  BY <1>3, <1>4, <1>5, Zenon

\* So does the FDE's check,
LEMMA FindsFde ==
    ASSUME IInv, NEW p, NEW f, FindFde(p, f)
    PROVE  IInv'
<1>1. img \in Images /\ DOMAIN ehf = {"kbuf", "offset", "size"} /\ SectionOK
  BY Zenon DEF IInv, FindFde
<1>2. img' = img /\ ehf' = ehf /\ phase' \in {"err", "off", "fde"}
  BY Zenon DEF FindFde
<1>3. SectionOK'
  BY <1>1, <1>2, Same, Zenon
<1>4. phase' = "fde" => FdeOK'
  <2>1. phase' = "fde" => fde' = f /\ Mapped(f, 2 * U32) /\ check_fde(f)
    BY Zenon DEF FindFde
  <2>2. mem' = mem
    BY <1>2, Zenon DEF mem
  <2> QED
    BY <1>2, <2>1, <2>2, Zenon
    DEF FdeOK, Mapped, check_fde, has_cie_id, InTable, RecordEnd
<1> QED
  BY <1>1, <1>2, <1>3, <1>4, Zenon DEF IInv, Accepted, InsnsInside, InCie, InFde, Parsed

\* and the CIE's.
LEMMA FindsCie ==
    ASSUME IInv, cie_for_fde
    PROVE  IInv'
<1>1. img \in Images /\ DOMAIN ehf = {"kbuf", "offset", "size"} /\ SectionOK /\ FdeOK
  BY Zenon DEF IInv, cie_for_fde
<1>2. img' = img /\ ehf' = ehf /\ fde' = fde /\ phase' \in {"err", "cie"}
  BY Zenon DEF cie_for_fde
<1>3. SectionOK' /\ FdeOK'
  BY <1>1, <1>2, Same, Zenon
<1>4. phase' = "cie" => CieOK'
  <2> DEFINE back == ReadU32(mem, fde + U32)
             c == fde + U32 - back
  <2>1. phase' = "cie" => /\ cie' = c /\ CiePointerOK(back) /\ InTable(c)
                          /\ CieSizeOK(ReadU32(mem, c), back)
    BY Zenon DEF cie_for_fde
  <2>2. phase' = "cie" => /\ c \in Nat /\ RecordEnd(c) \in Nat /\ ehf.kbuf <= c
                          /\ RecordEnd(c) < fde + U32 /\ ehf.kbuf < fde
    BY <1>1, <2>1, CieBounds, Zenon
  <2>3. mem' = mem
    BY <1>2, Zenon DEF mem
  <2> HIDE DEF c
  <2> QED
    BY <1>2, <2>1, <2>2, <2>3, Zenon DEF CieOK, RecordEnd
<1> QED
  BY <1>1, <1>2, <1>3, <1>4, Zenon DEF IInv, Accepted, InsnsInside, InCie, InFde, Parsed

\* A step of the parser leaves the image, the section and the records alone; what is
\* left to show of it is about its own positions.
LEMMA Parses ==
    ASSUME IInv, Accepted, img' = img, ehf' = ehf, fde' = fde, cie' = cie,
           phase' \in InCie \cup InFde \cup Parsed \cup {"err"},
           phase' \in InCie \cup InFde \cup Parsed => HeadOK',
           phase' = "aug" => head'.start \in Nat,
           phase' \in InFde => FdePtrOK',
           phase' \in Parsed => InsnsInside'
    PROVE  IInv'
<1>1. SectionOK' /\ FdeOK' /\ CieOK' /\ img' \in Images /\ DOMAIN ehf' = {"kbuf", "offset", "size"}
  BY Same, Zenon DEF IInv
<1>2. phase' # "scan"
  BY Zenon DEF InCie, InFde, Parsed
<1>3. phase' \notin Parsed => InsnsInside'
  BY Zenon DEF InsnsInside, Parsed
<1> QED
  BY <1>1, <1>2, <1>3, Zenon DEF IInv

\* What the parser knows before each of its steps.
LEMMA Knows ==
    ASSUME IInv, Accepted
    PROVE  /\ img \in Images /\ cie \in Nat /\ fde \in Nat /\ U32 \in Nat \ {0}
           /\ RecordEnd(cie) \in Nat /\ RecordEnd(fde) \in Nat
           /\ fde + 2 * U32 <= RecordEnd(fde) /\ RecordEnd(fde) < WordMod
           /\ WordMod \in Nat \ {0}
<1>1. img \in Images /\ SectionOK /\ FdeOK /\ CieOK
  BY Zenon DEF IInv
<1> QED
  BY <1>1, FdeBounds, WordModAssumption, Zenon DEF CieOK

\* FindAug: the string begins behind the version.
LEMMA FindsAug ==
    ASSUME IInv, FindAug
    PROVE  IInv'
<1>1. /\ Accepted /\ img' = img /\ ehf' = ehf /\ fde' = fde /\ cie' = cie
      /\ phase' \in {"code", "err"}
  BY Zenon DEF FindAug, Accepted
<1>2. cie \in Nat /\ U32 \in Nat \ {0} /\ RecordEnd(cie) \in Nat
  BY <1>1, Knows, Zenon
<1>3. phase' = "code" => HeadOK'
  <2> DEFINE str == cie + 2 * U32 + 1
             nuls == {p \in str .. (RecordEnd(cie) - 1) : mem[p] = 0}
  <2>1. /\ {"end", "start"} \subseteq DOMAIN head'
        /\ {"end", "start", "augLen"} \subseteq DOMAIN out'
        /\ head'.end = RecordEnd(cie) /\ out'.end = RecordEnd(fde)
    BY Zenon DEF FindAug
  <2>2. phase' = "code" => nuls # {} /\ ciePtr' = Min(nuls) + 1
    <3>1. aug' = str
      BY Zenon DEF FindAug
    <3> QED BY <2>1, <3>1, Zenon DEF FindAug
  <2>3. nuls \subseteq Nat /\ \A x \in nuls : str <= x
    BY <1>2
  <2>4. phase' = "code" => Min(nuls) \in nuls
    BY <2>2, <2>3, MinIsSmallest, Zenon
  <2> HIDE DEF nuls
  <2>5. phase' = "code" => ciePtr' \in Nat /\ cie + 2 * U32 < ciePtr'
    <3> DEFINE q == Min(nuls)
    <3>1. phase' = "code" => q \in Nat /\ cie + 2 * U32 + 1 <= q /\ ciePtr' = q + 1
      BY <2>2, <2>3, <2>4, Zenon
    <3> HIDE DEF q
    <3> QED BY <1>2, <3>1
  <2>6. RecordEnd(cie)' = RecordEnd(cie) /\ RecordEnd(fde)' = RecordEnd(fde)
    BY <1>1, Same, Zenon
  <2> QED
    BY <1>1, <2>1, <2>5, <2>6, Zenon DEF HeadOK
<1> QED
  BY <1>1, <1>3, Parses, Zenon DEF InCie, InFde, Parsed

\* A step in the CIE that moves ciePtr on keeps what is known of the heads.
LEMMA MovesCiePtr ==
    ASSUME IInv, phase \in InCie, img' = img, ehf' = ehf, fde' = fde, cie' = cie,
           phase' \in InCie \cup {"err"}, out' = out,
           NEW new, new \in Nat, ciePtr <= new, ciePtr' = new,
           DOMAIN head' = DOMAIN head, head'.end = head.end,
           phase' = "aug" => head'.start \in Nat
    PROVE  IInv'
<1>1. Accepted /\ HeadOK
  BY Zenon DEF Accepted, InCie, IInv
<1>2. cie \in Nat /\ U32 \in Nat \ {0} /\ ciePtr \in Nat /\ cie + 2 * U32 < ciePtr
  BY <1>1, Knows, Zenon DEF HeadOK
<1>3. cie + 2 * U32 < new
  BY <1>2
<1>4. RecordEnd(cie)' = RecordEnd(cie) /\ RecordEnd(fde)' = RecordEnd(fde)
  BY Same, Zenon
<1>5. HeadOK'
  BY <1>1, <1>3, <1>4, Zenon DEF HeadOK
<1> QED
  BY <1>1, <1>5, Parses, Zenon DEF InCie, InFde, Parsed

\* The numbers of the CIE.
LEMMA ReadsCie ==
    ASSUME IInv, ReadCodeAlign \/ ReadDataAlign \/ ReadRetAddrReg \/ ReadAugLen
    PROVE  IInv'
<1>1. phase \in InCie /\ img' = img /\ ehf' = ehf /\ fde' = fde /\ cie' = cie /\ out' = out
  BY Zenon DEF InCie, ReadCodeAlign, ReadDataAlign, ReadRetAddrReg, ReadAugLen
<1>2. Accepted /\ HeadOK
  BY <1>1, Zenon DEF Accepted, InCie, IInv
<1>3. ciePtr \in Nat /\ head.end \in Nat /\ {"end", "start"} \subseteq DOMAIN head
  BY <1>2, Knows, Zenon DEF HeadOK
<1> DEFINE u == get_uleb128(mem, ciePtr, head.end)
           s == get_sleb128(mem, ciePtr, head.end)
<1>4. /\ u.val \in Nat /\ u.cur \in Nat /\ ciePtr <= u.cur
      /\ s.cur \in Nat /\ ciePtr <= s.cur
  BY <1>3, UlebBounds, SlebBounds DEF Bounded
<1>5. CASE ReadCodeAlign
  <2>1. /\ phase' = "data" /\ ciePtr' = u.cur /\ head' = [head EXCEPT !.codeAlign = u.val]
    BY <1>5, Zenon DEF ReadCodeAlign
  <2> HIDE DEF u
  <2>2. DOMAIN head' = DOMAIN head /\ head'.end = head.end
    BY <1>3, <2>1, Zenon
  <2>3. phase' \in InCie \cup {"err"} /\ phase' # "aug"
    BY <2>1, Zenon DEF InCie
  <2> QED BY <1>1, <1>4, <2>1, <2>2, <2>3, MovesCiePtr, Zenon
<1>6. CASE ReadDataAlign
  <2>1. /\ phase' \in {"err", "reg"} /\ ciePtr' = s.cur
        /\ head' = [head EXCEPT !.dataAlign = s.val]
    BY <1>6, Zenon DEF ReadDataAlign
  <2> HIDE DEF s
  <2>2. DOMAIN head' = DOMAIN head /\ head'.end = head.end
    BY <1>3, <2>1, Zenon
  <2>3. phase' \in InCie \cup {"err"} /\ phase' # "aug"
    BY <2>1, Zenon DEF InCie
  <2> QED BY <1>1, <1>4, <2>1, <2>2, <2>3, MovesCiePtr, Zenon
<1>7. CASE ReadRetAddrReg
  <2>1. PICK ra : /\ ra \in {[val |-> mem[ciePtr], cur |-> ciePtr + 1], u}
                  /\ ciePtr' = ra.cur
                  /\ head' = [head EXCEPT !.retAddrReg = RegIndex(ra.val, img.compat)]
    BY <1>7, Zenon DEF ReadRetAddrReg
  <2> HIDE DEF u
  <2>2. ra.cur \in Nat /\ ciePtr <= ra.cur
    BY <1>3, <1>4, <2>1
  <2>3. DOMAIN head' = DOMAIN head /\ head'.end = head.end
    BY <1>3, <2>1, Zenon
  <2>4. phase' \in InCie \cup {"err"} /\ phase' # "aug"
    BY <1>7, Zenon DEF InCie, ReadRetAddrReg
  <2> QED BY <1>1, <2>1, <2>2, <2>3, <2>4, MovesCiePtr, Zenon
<1>8. CASE ReadAugLen
  <2>1. PICK len : /\ len \in {[val |-> 0, cur |-> ciePtr], u}
                   /\ ciePtr' = len.cur /\ phase' \in {"err", "aug"}
                   /\ head' = [head EXCEPT !.augLen = len.val,
                                           !.start = (len.cur + len.val) % WordMod]
    BY <1>8, Zenon DEF ReadAugLen, AugLen
  <2> HIDE DEF u
  <2>2. len.cur \in Nat /\ ciePtr <= len.cur /\ len.val \in Nat
    BY <1>3, <1>4, <2>1
  <2>3. /\ DOMAIN head' = DOMAIN head /\ head'.end = head.end
        /\ head'.start = (len.cur + len.val) % WordMod
    BY <1>3, <2>1, Zenon
  <2>4. head'.start \in Nat
    BY <2>2, <2>3, WordModAssumption
  <2>5. phase' \in InCie \cup {"err"}
    BY <2>1, Zenon DEF InCie
  <2> QED BY <1>1, <2>1, <2>2, <2>3, <2>4, <2>5, MovesCiePtr, Zenon
<1> QED
  BY <1>5, <1>6, <1>7, <1>8, Zenon

\* The characters of the augmentation string.
LEMMA ReadsAug ==
    ASSUME IInv, Augment
    PROVE  IInv'
<1>1. /\ phase = "aug" /\ phase \in InCie
      /\ img' = img /\ ehf' = ehf /\ fde' = fde /\ cie' = cie /\ out' = out
  BY Zenon DEF InCie, Augment
<1>2. Accepted /\ HeadOK /\ head.start \in Nat
  BY <1>1, Zenon DEF Accepted, InCie, IInv
<1>3. ciePtr \in Nat /\ head.end \in Nat /\ {"end", "start"} \subseteq DOMAIN head
  BY <1>2, Knows, Zenon DEF HeadOK
<1>4. DOMAIN head' = DOMAIN head /\ head'.end = head.end /\ head'.start = head.start
  <2>1. \/ head' = head
        \/ head' = [head EXCEPT !.ptrType = mem[ciePtr]]
        \/ head' = [head EXCEPT !.call_frame = 0]
    BY Zenon DEF Augment
  <2> QED BY <1>3, <2>1, Zenon
<1>5. phase' \in {"aug", "err"}
  BY <1>1, Zenon DEF Augment, Personality
<1>6. ciePtr' \in Nat /\ ciePtr <= ciePtr'
  <2> DEFINE r == read_pointer(mem, ciePtr + 1, head.start, mem[ciePtr] % 128, img.compat)
  <2>1. ciePtr' \in {ciePtr, ciePtr + 1, r.cur}
    BY Zenon DEF Augment, Personality
  <2>2. r.cur \in Nat /\ ciePtr + 1 <= r.cur
    <3>1. ciePtr + 1 \in Nat
      BY <1>3
    <3> QED BY <1>2, <3>1, PointerMoves
  <2> HIDE DEF r
  <2> QED BY <1>3, <2>1, <2>2
<1>7. phase' \in InCie \cup {"err"} /\ head'.start \in Nat
  BY <1>2, <1>4, <1>5, Zenon DEF InCie
<1> QED
  BY <1>1, <1>4, <1>6, <1>7, MovesCiePtr, Zenon

\* The start of the code, with the end of the augmentation data,
LEMMA ReadsStart ==
    ASSUME IInv, EndAug
    PROVE  IInv'
<1>1. /\ phase = "aug" /\ img' = img /\ ehf' = ehf /\ fde' = fde /\ cie' = cie
      /\ head' = head /\ ciePtr' = ciePtr /\ phase' \in {"range", "err"}
  BY Zenon DEF EndAug
<1>2. Accepted /\ HeadOK
  BY <1>1, Zenon DEF Accepted, InCie, IInv
<1>3. /\ fde \in Nat /\ U32 \in Nat \ {0} /\ out.end \in Nat /\ out.end = RecordEnd(fde)
      /\ fde + 2 * U32 <= out.end /\ {"end", "start", "augLen"} \subseteq DOMAIN out
  BY <1>2, Knows, Zenon DEF HeadOK
<1> DEFINE loc == read_pointer(mem, fde + 2 * U32, out.end, head.ptrType, img.compat)
<1>4. phase' = "range" => /\ ciePtr = head.start /\ fdePtr' = loc.cur
                          /\ out' = [out EXCEPT !.startLoc = loc.val]
  BY Zenon DEF EndAug
<1>5. loc.cur \in Nat /\ fde + 2 * U32 <= loc.cur /\ loc.cur <= out.end
  <2>1. fde + 2 * U32 \in Nat
    BY <1>3
  <2>2. /\ loc.cur \in Nat /\ fde + 2 * U32 <= loc.cur
        /\ loc.cur <= out.end \/ loc.cur = fde + 2 * U32
    BY <1>3, <2>1, PointerMoves
  <2> HIDE DEF loc
  <2> QED BY <1>3, <2>2, Zenon
<1> HIDE DEF loc
<1>6. phase' = "range" => DOMAIN out' = DOMAIN out /\ out'.end = out.end
  BY <1>3, <1>4, Zenon
<1>7. RecordEnd(cie)' = RecordEnd(cie) /\ RecordEnd(fde)' = RecordEnd(fde)
  BY <1>1, Same, Zenon
<1>8. phase' = "range" => HeadOK' /\ FdePtrOK'
  BY <1>1, <1>2, <1>4, <1>5, <1>6, <1>7, Zenon DEF HeadOK, FdePtrOK
<1> QED
  BY <1>1, <1>2, <1>8, Parses, Zenon DEF InCie, InFde, Parsed

\* and its length.
LEMMA ReadsRange ==
    ASSUME IInv, ReadRange
    PROVE  IInv'
<1>1. /\ phase = "range" /\ img' = img /\ ehf' = ehf /\ fde' = fde /\ cie' = cie
      /\ head' = head /\ ciePtr' = ciePtr /\ phase' = "fdeaug"
  BY Zenon DEF ReadRange
<1>2. Accepted /\ HeadOK /\ FdePtrOK
  BY <1>1, Zenon DEF Accepted, InFde, IInv
<1>3. /\ fde \in Nat /\ U32 \in Nat \ {0} /\ out.end \in Nat
      /\ fdePtr \in Nat /\ fde + 2 * U32 <= fdePtr /\ fdePtr <= out.end
      /\ {"end", "start", "augLen"} \subseteq DOMAIN out
  BY <1>2, Knows, Zenon DEF HeadOK, FdePtrOK
<1> DEFINE range == read_pointer(mem, fdePtr, out.end, head.ptrType % 16, img.compat)
<1>4. fdePtr' = range.cur /\ out' = [out EXCEPT !.locRange = range.val]
  BY Zenon DEF ReadRange
<1>5. range.cur \in Nat /\ fdePtr <= range.cur /\ (range.cur <= out.end \/ range.cur = fdePtr)
  BY <1>3, PointerMoves
<1> HIDE DEF range
<1>6. fde + 2 * U32 <= range.cur /\ range.cur <= out.end
  BY <1>3, <1>5
<1>7. DOMAIN out' = DOMAIN out /\ out'.end = out.end
  BY <1>3, <1>4, Zenon
<1>8. RecordEnd(cie)' = RecordEnd(cie) /\ RecordEnd(fde)' = RecordEnd(fde)
  BY <1>1, Same, Zenon
<1>9. HeadOK' /\ FdePtrOK'
  BY <1>1, <1>2, <1>4, <1>5, <1>6, <1>7, <1>8, Zenon DEF HeadOK, FdePtrOK
<1> QED
  BY <1>1, <1>2, <1>9, Parses, Zenon DEF InCie, InFde, Parsed

\* The FDE's augmentation data are skipped; what follows are its instructions.
LEMMA SkipsFdeAug ==
    ASSUME IInv, SkipFdeAug
    PROVE  IInv'
<1>1. /\ phase = "fdeaug" /\ img' = img /\ ehf' = ehf /\ fde' = fde /\ cie' = cie
      /\ head' = head /\ ciePtr' = ciePtr /\ phase' \in {"parsed", "err"}
  BY Zenon DEF SkipFdeAug
<1>2. Accepted /\ HeadOK /\ FdePtrOK
  BY <1>1, Zenon DEF Accepted, InFde, IInv
<1>3. /\ fde \in Nat /\ cie \in Nat /\ U32 \in Nat \ {0} /\ WordMod \in Nat \ {0}
      /\ out.end \in Nat /\ out.end < WordMod
      /\ fdePtr \in Nat /\ fde + 2 * U32 <= fdePtr /\ fdePtr <= out.end
      /\ {"end", "start", "augLen"} \subseteq DOMAIN out
      /\ cie + 2 * U32 < head.start
  BY <1>2, Knows, Zenon DEF HeadOK, FdePtrOK
<1> DEFINE u == get_uleb128(mem, fdePtr, out.end)
<1>4. PICK len :
        /\ \/ len = [val |-> 0, cur |-> fdePtr]
           \/ len = u /\ (phase' = "parsed" => ~Bogus(fde, len.cur, out.end, len.val))
        /\ out' = [out EXCEPT !.augLen = len.val, !.start = (len.cur + len.val) % WordMod]
  BY Zenon DEF SkipFdeAug, AugLen
<1>5. u.val \in Nat /\ u.cur \in Nat /\ fdePtr <= u.cur /\ u.cur <= out.end + 1
  BY <1>3, UlebBounds DEF Bounded
<1> HIDE DEF u
<1>6. /\ DOMAIN out' = DOMAIN out /\ out'.end = out.end /\ out'.augLen = len.val
      /\ out'.start = (len.cur + len.val) % WordMod
  BY <1>3, <1>4, Zenon
<1>7. len.val \in Nat /\ len.cur \in Nat /\ fdePtr <= len.cur /\ len.cur <= out.end + 1
  BY <1>3, <1>4, <1>5
<1>8. phase' = "parsed" => (len.cur + len.val) % WordMod <= out.end
  <2>1. CASE len = [val |-> 0, cur |-> fdePtr]
    <3>1. len.cur + len.val = fdePtr
      BY <1>3, <2>1
    <3>2. fdePtr % WordMod \in Nat /\ fdePtr % WordMod <= fdePtr
      BY <1>3, ModBound, Zenon
    <3> QED BY <1>3, <3>1, <3>2
  <2>2. CASE len = u /\ (phase' = "parsed" => ~Bogus(fde, len.cur, out.end, len.val))
    <3>1. (len.cur + len.val) % WordMod \in Nat
      BY <1>3, <1>7
    <3> QED BY <1>3, <2>2, <3>1 DEF Bogus
  <2> QED BY <1>4, <2>1, <2>2, Zenon
<1>9. out.end + len.val + 1 < WordMod => fde + 2 * U32 <= (len.cur + len.val) % WordMod
  <2>1. out.end + len.val + 1 < WordMod => len.cur + len.val < WordMod
    BY <1>3, <1>7
  <2>2. len.cur + len.val < WordMod => (len.cur + len.val) % WordMod = len.cur + len.val
    BY <1>3, <1>7
  <2> QED BY <1>3, <1>7, <2>1, <2>2
<1>10. RecordEnd(cie)' = RecordEnd(cie) /\ RecordEnd(fde)' = RecordEnd(fde)
  BY <1>1, Same, Zenon
<1>11. HeadOK'
  BY <1>1, <1>2, <1>6, <1>10, Zenon DEF HeadOK
<1>12. phase' = "parsed" => InsnsInside'
  <2>1. head.end = RecordEnd(cie) /\ out.end = RecordEnd(fde)
    BY <1>2, Zenon DEF HeadOK
  <2> QED BY <1>1, <1>3, <1>6, <1>8, <1>9, <1>10, <2>1, Zenon DEF InsnsInside
<1> QED
  BY <1>1, <1>2, <1>11, <1>12, Parses, Zenon DEF InCie, InFde, Parsed

\* Locating the code changes nothing of this.
LEMMA Locates ==
    ASSUME IInv, Locate
    PROVE  IInv'
<1>1. /\ phase = "parsed" /\ img' = img /\ ehf' = ehf /\ fde' = fde /\ cie' = cie
      /\ head' = head /\ ciePtr' = ciePtr /\ phase' \in {"err", "done", "cfi"}
  BY Zenon DEF Locate
<1>2. Accepted /\ HeadOK /\ InsnsInside
  BY <1>1, Zenon DEF Accepted, Parsed, IInv
<1>3. PICK start : out' = [out EXCEPT !.startLoc = start]
  BY Zenon DEF Locate
<1>4. /\ DOMAIN out' = DOMAIN out /\ out'.end = out.end
      /\ out'.augLen = out.augLen /\ out'.start = out.start
  BY <1>2, <1>3, Zenon DEF HeadOK
<1>5. RecordEnd(cie)' = RecordEnd(cie) /\ RecordEnd(fde)' = RecordEnd(fde)
  BY <1>1, Same, Zenon
<1>6. HeadOK'
  BY <1>1, <1>2, <1>4, <1>5, Zenon DEF HeadOK
<1>7. InsnsInside'
  <2>1. phase \in {"parsed", "done", "cfi"}
    BY <1>1, Zenon
  <2> QED BY <1>1, <1>2, <1>4, <1>5, <2>1, Zenon DEF InsnsInside
<1> QED
  BY <1>1, <1>2, <1>6, <1>7, Parses, Zenon DEF InCie, InFde, Parsed

\* The invariant holds at first.
LEMMA InitOK ==
    ASSUME Init
    PROVE  IInv
  BY Zenon DEF Init, IInv, Accepted, InsnsInside, InCie, InFde, Parsed

\* Every step keeps it.
LEMMA StepOK ==
    ASSUME IInv, [Next]_vars
    PROVE  IInv'
<1>1. CASE UNCHANGED vars
  <2>1. /\ img' = img /\ phase' = phase /\ ptr' = ptr /\ ehf' = ehf /\ fde' = fde /\ cie' = cie
        /\ ciePtr' = ciePtr /\ fdePtr' = fdePtr /\ head' = head /\ out' = out
    BY <1>1, Zenon DEF vars
  <2>2. mem' = mem
    BY <2>1, Zenon DEF mem
  <2>3. RecordEnd(cie)' = RecordEnd(cie) /\ RecordEnd(fde)' = RecordEnd(fde)
    BY <2>1, Same, Zenon
  <2>4. /\ SectionOK => SectionOK'
        /\ FdeOK => FdeOK'
        /\ CieOK => CieOK'
    BY <2>1, Same, Zenon
  <2>5. /\ ScanOK => ScanOK'
        /\ HeadOK => HeadOK'
        /\ FdePtrOK => FdePtrOK'
        /\ InsnsInside => InsnsInside'
        /\ Accepted' <=> Accepted
    BY <2>1, <2>2, <2>3, Zenon DEF ScanOK, HeadOK, FdePtrOK, InsnsInside, Accepted
  <2> QED BY <2>1, <2>4, <2>5, Zenon DEF IInv
<1>2. CASE Next
  BY <1>2, Loads, FindsFde, FindsCie, FindsAug, ReadsCie, ReadsAug, ReadsStart, ReadsRange,
     SkipsFdeAug, Locates, Zenon DEF Next
<1> QED
  BY <1>1, <1>2, Zenon

-----------------------------------------------------------------------------
\* For every image, whatever its bytes and its search table say, the FDE and the CIE
\* that check_fde and cie_for_fde let through lie in the section eh_frame_from_hdr found.
THEOREM AcceptedInside == Spec => []RecordsInside
<1>1. IInv => RecordsInside
  <2> SUFFICES ASSUME IInv, Accepted PROVE RecordsInside
    BY Zenon DEF RecordsInside
  <2>1. img \in Images /\ SectionOK /\ FdeOK /\ CieOK
    BY Zenon DEF IInv
  <2>2. RecordEnd(fde) <= ehf.kbuf + ehf.size
    BY <2>1, FdeBounds, Zenon
  <2> QED BY <2>1, <2>2, Zenon DEF RecordsInside, CieOK
<1>2. Init => IInv
  BY InitOK, Zenon
<1>3. IInv /\ [Next]_vars => IInv'
  BY StepOK, Zenon
<1> QED
  BY <1>1, <1>2, <1>3, PTL DEF Spec

\* For every image, the instructions parse_fde_cie passes on lie in their records.
THEOREM ParsedInside == Spec => []InsnsInside
<1>1. IInv => InsnsInside
  BY Zenon DEF IInv
<1>2. Init => IInv
  BY InitOK, Zenon
<1>3. IInv /\ [Next]_vars => IInv'
  BY StepOK, Zenon
<1> QED
  BY <1>1, <1>2, <1>3, PTL DEF Spec

-----------------------------------------------------------------------------
(* compute_expr *)

\* The inductive invariant: beside StackKept and InBlock, that compute_expr is only called with a
\* length that the instruction found to fit.
ExprInv ==
    /\ TypeOK /\ StackKept /\ InBlock /\ in \in Inputs
    /\ exprPhase = "start" => LengthOK(get_uleb128(in.code, 1, CodeEnd))

\* What one step has to show.
Good ==
    /\ ExprInv'
    /\ exprPhase = "run" /\ exprPhase' = "run" => expr < expr' /\ expr' <= end' + 1

\* The code of an input is a row of bytes, so the instructions have an end.
LEMMA CodeEndType ==
    ASSUME in \in Inputs
    PROVE  CodeEnd \in Nat /\ CodeEnd >= 2
<1>1. in.code \in Seq(Byte) /\ in.code # <<>>
  BY ComputeExprAssumption, Zenon
<1>2. Len(in.code) \in Nat /\ Len(in.code) # 0
  BY <1>1
<1> QED
  BY <1>2 DEF CodeEnd

\* A step that goes on with the next operation.
LEMMA Moves ==
    ASSUME ExprInv, Running, in' = in, end' = end, exprPhase' = exprPhase,
           sp' \in 0 .. MaxStack, DOMAIN stack' = Slots,
           expr' \in Nat, expr < expr', expr' <= end + 1, read' \in Nat, read' < end,
           reach' \in Nat, ~(reach' > MaxStack)
    PROVE  Good
  BY Zenon DEF Good, ExprInv, TypeOK, StackKept, InBlock, Running, CodeEnd

\* A step that gives up.
LEMMA Leaves ==
    ASSUME ExprInv, Running, NEW seen \in Nat, seen < end,
           NEW outcome \in {"failed", "trap"}, Leave(outcome, seen)
    PROVE  Good
  BY Zenon DEF Good, ExprInv, TypeOK, StackKept, InBlock, Running, CodeEnd, Leave, Phases

\* Every operation is made of Operate or fails.
LEMMA Operates ==
    ASSUME ExprInv, Running, NEW n \in Nat, NEW vals, Len(vals) \in Nat,
           NEW next \in Nat, expr < next, next <= end + 1,
           NEW seen \in Nat, seen < end, Operate(n, vals, next, seen)
    PROVE  Good
<1>1. /\ MaxStack \in Nat \ {0} /\ sp \in 0 .. MaxStack /\ DOMAIN stack = Slots
      /\ reach \in Nat /\ ~(reach > MaxStack)
  BY ComputeExprAssumption, Zenon DEF ExprInv, TypeOK, StackKept, Running
<1>2. CASE sp < n \/ ~Room(sp - n + Len(vals))
  <2>1. Leave("failed", seen)
    BY <1>2, Zenon DEF Operate, Fail
  <2> QED BY <2>1, Leaves, Zenon
<1>3. CASE ~(sp < n) /\ Room(sp - n + Len(vals))
  <2>1. /\ DOMAIN stack' = Slots /\ sp' = sp - n + Len(vals)
        /\ expr' = next /\ read' = seen
        /\ in' = in /\ exprPhase' = exprPhase /\ end' = end
        /\ Touch(sp - n + Len(vals))
    BY <1>3, Zenon DEF Operate
  <2>2. sp' \in 0 .. MaxStack
    BY <1>1, <1>3, <2>1 DEF Room
  <2>3. reach' \in Nat /\ ~(reach' > MaxStack)
    BY <1>1, <2>1, <2>2 DEF Touch
  <2> QED BY <2>1, <2>2, <2>3, Moves, Zenon
<1> QED
  BY <1>2, <1>3, Zenon

\* PUSH(f(POP)).
LEMMA Replaces ==
    ASSUME ExprInv, Running, NEW v, NEW next \in Nat, expr < next, next <= end + 1,
           NEW seen \in Nat, seen < end, Replace(v, next, seen)
    PROVE  Good
<1>1. CASE Fail(seen)
  BY <1>1, Leaves, Zenon DEF Fail
<1>2. CASE Operate(1, <<v>>, next, seen)
  BY <1>2, Operates, Zenon
<1> QED
  BY <1>1, <1>2, Zenon DEF Replace

-----------------------------------------------------------------------------
(* The operations *)

\* Where the code stands while it runs an operation.
LEMMA Position ==
    ASSUME ExprInv, Running
    PROVE  /\ expr \in Nat /\ end \in Nat /\ arg = expr + 1 /\ arg \in Nat /\ arg <= end
           /\ sp \in 0 .. MaxStack /\ MaxStack \in Nat
           /\ expr < end /\ read \in Nat /\ read < end
  BY ComputeExprAssumption DEF ExprInv, TypeOK, InBlock, Running, arg

\* Two bytes read through memcpy to an s16 are an integer.
LEMMA ConstantType ==
    ASSUME NEW s \in Seq(Byte), NEW p \in Nat, 1 <= p, p + 1 <= Len(s)
    PROVE  Constant(s, p, 2, TRUE) \in Int
<1> DEFINE top == IF s[p + 1] >= 128 THEN WordMax - 1 ELSE 0
           mid == (s[p + 1] + 256 * top) % WordMax
           low == (s[p] + 256 * mid) % WordMax
           Eq(f) == f = [i \in 0 .. 2 |->
                          IF i = 2 THEN (IF TRUE /\ s[p + 2 - 1] >= 128 THEN WordMax - 1 ELSE 0)
                          ELSE (s[p + i] + 256 * f[i + 1]) % WordMax]
           bytes == CHOOSE f : Eq(f)
<1>1. s[p] \in Int /\ s[p + 1] \in Int
  <2>1. p \in 1 .. Len(s) /\ p + 1 \in 1 .. Len(s)
    OBVIOUS
  <2>2. s[p] \in Byte /\ s[p + 1] \in Byte
    BY <2>1
  <2>3. \A b \in Byte : b \in Int
    BY DEF Byte
  <2> QED BY <2>2, <2>3, Zenon
<1>2. WordMax \in Nat \ {0}
  BY Leb128Assumption, Zenon
<1>3. top \in Int
  BY <1>2
<1>4. mid \in Int
  <2> HIDE DEF top
  <2> QED BY <1>1, <1>2, <1>3
<1>5. low \in Int
  <2> HIDE DEF mid
  <2> QED BY <1>1, <1>2, <1>4
<1>6. Eq([i \in 0 .. 2 |-> IF i = 2 THEN top ELSE IF i = 1 THEN mid ELSE low])
  <2>1. p + 2 - 1 = p + 1 /\ p + 0 = p
    OBVIOUS
  <2> QED BY <2>1
<1>7. Eq(bytes)
  <2> HIDE DEF Eq
  <2> QED BY <1>6, Zenon
<1>8. Constant(s, p, 2, TRUE) = bytes[0]
  BY Zenon DEF Constant
<1> HIDE DEF bytes
<1>9. bytes[0] = low
  <2>1. bytes[2] = top
    BY <1>7
  <2>2. bytes[1] = mid
    <3> HIDE DEF top
    <3> QED BY <1>7, <2>1
  <2> HIDE DEF mid, top
  <2> QED BY <1>7, <2>2
<1> HIDE DEF low
<1> QED
  BY <1>5, <1>8, <1>9, Zenon

\* The offset of a jump is an integer.
LEMMA OffsetType ==
    ASSUME in \in Inputs, arg \in Nat, arg >= 1, arg + 2 <= CodeEnd
    PROVE  Signed(Constant(in.code, arg, 2, TRUE)) \in Int
<1>1. in.code \in Seq(Byte)
  BY ComputeExprAssumption, Zenon
<1>2. arg + 1 <= Len(in.code)
  BY <1>1 DEF CodeEnd
<1>3. Constant(in.code, arg, 2, TRUE) \in Int
  BY <1>1, <1>2, ConstantType, Zenon
<1>4. ASSUME NEW w \in Int PROVE Signed(w) \in Int
  BY Leb128Assumption DEF Signed
<1> QED
  BY <1>3, <1>4, Zenon

\* DW_OP_skip and the taken DW_OP_bra.
LEMMA Jumps ==
    ASSUME ExprInv, Running, NEW n \in Nat, Jump(n)
    PROVE  Good
<1> DEFINE off == Signed(Constant(in.code, arg, 2, TRUE))
<1>0. in \in Inputs /\ end <= CodeEnd
  BY Zenon DEF ExprInv, InBlock, Running
<1>1. CASE ~NEED(2)
  <2>1. Leave("failed", expr)
    BY <1>1, Zenon DEF Jump, Fail
  <2> QED BY <2>1, Position, Leaves, Zenon
<1>2. CASE NEED(2)
  <2>1. arg + 2 <= end
    BY <1>2, Position DEF NEED
  <2>2. off \in Int
    <3>1. arg \in Nat /\ arg >= 1 /\ arg + 2 <= CodeEnd
      BY <1>0, <2>1, Position, CodeEndType
    <3> QED BY <1>0, <3>1, OffsetType, Zenon
  <2>3. CASE off < 0 \/ off > end - (arg + 2)
    <3>1. Leave("failed", arg + 1)
      BY <1>2, <2>3, Zenon DEF Jump, Fail
    <3> QED BY <2>1, <3>1, Position, Leaves
  <2>4. CASE ~(off < 0 \/ off > end - (arg + 2))
    <3>1. Operate(n, <<>>, arg + 2 + off, arg + 1)
      BY <1>2, <2>4, Zenon DEF Jump
    <3> HIDE DEF off
    <3>2. arg + 2 + off \in Nat /\ expr < arg + 2 + off /\ arg + 2 + off <= end + 1
      BY <2>1, <2>2, <2>4, Position
    <3>3. arg + 1 \in Nat /\ arg + 1 < end /\ Len(<<>>) \in Nat
      BY <2>1, Position
    <3> QED BY <3>1, <3>2, <3>3, Operates, Zenon
  <2> QED BY <2>3, <2>4, Zenon
<1> QED
  BY <1>1, <1>2, Zenon

\* The operation that takes the byte of the operation itself and nothing behind it.
LEMMA OperatesHere ==
    ASSUME ExprInv, Running, NEW n \in Nat, NEW vals, Len(vals) \in Nat,
           Operate(n, vals, arg, expr)
    PROVE  Good
<1>1. arg \in Nat /\ expr < arg /\ arg <= end + 1 /\ expr \in Nat /\ expr < end
  BY Position
<1> QED
  BY <1>1, Operates, Zenon

\* A failure after the byte of the operation.
LEMMA FailsHere ==
    ASSUME ExprInv, Running, Fail(expr)
    PROVE  Good
  BY Position, Leaves, Zenon DEF Fail

\* DW_OP_nop, DW_OP_dup, DW_OP_drop, DW_OP_swap and the literals.
LEMMA StackOps ==
    ASSUME ExprInv, Nop \/ Dup \/ Drop \/ Swap \/ Lit
    PROVE  Good
<1>1. Running
  BY Zenon DEF Nop, Dup, Drop, Swap, Lit, At
<1>2. CASE Nop
  <2>1. Len(<<>>) \in Nat
    BY Zenon
  <2> QED BY <1>1, <1>2, <2>1, OperatesHere, Zenon DEF Nop
<1>3. CASE Dup
  <2>1. Len(<<Top(1), Top(1)>>) \in Nat
    BY Zenon
  <2> QED BY <1>1, <1>3, <2>1, OperatesHere, Zenon DEF Dup
<1>4. CASE Drop
  <2>1. Len(<<>>) \in Nat
    BY Zenon
  <2> QED BY <1>1, <1>4, <2>1, OperatesHere, Zenon DEF Drop
<1>5. CASE Swap
  <2>1. Len(<<Top(1), Top(2)>>) \in Nat
    BY Zenon
  <2> QED BY <1>1, <1>5, <2>1, OperatesHere, Zenon DEF Swap
<1>6. CASE Lit
  <2>1. Len(<<in.code[expr] - 48>>) \in Nat
    BY Zenon
  <2> QED BY <1>1, <1>6, <2>1, OperatesHere, Zenon DEF Lit
<1> QED
  BY <1>2, <1>3, <1>4, <1>5, <1>6, Zenon

\* DW_OP_skip and DW_OP_bra.
LEMMA Branches ==
    ASSUME ExprInv, Skip \/ Bra
    PROVE  Good
<1>1. Running
  BY Zenon DEF Skip, Bra, At
<1>2. CASE Skip
  BY <1>1, <1>2, Jumps, Zenon DEF Skip
<1>3. CASE Bra
  <2>1. CASE sp = 0
    BY <1>1, <1>3, <2>1, FailsHere, Zenon DEF Bra
  <2>2. CASE sp # 0 /\ Top(1) = 0
    <3>1. Operate(1, <<>>, arg, expr) /\ Len(<<>>) \in Nat
      BY <1>3, <2>2, Zenon DEF Bra
    <3> QED BY <1>1, <3>1, OperatesHere, Zenon
  <2>3. CASE sp # 0 /\ Top(1) # 0
    <3>1. Jump(1)
      BY <1>3, <2>3, Zenon DEF Bra
    <3> QED BY <1>1, <3>1, Jumps, Zenon
  <2> QED BY <2>1, <2>2, <2>3, Zenon
<1> QED
  BY <1>2, <1>3, Zenon

\* The value that is read before PUSH finds no room: behind the array only for 0.
LEMMA PicksFull ==
    ASSUME ExprInv, Running, NEW n \in Nat, NEW next \in Nat, next - 1 \in Nat, next - 1 < end,
           sp = MaxStack, n = 0 => in.code[next - 1] = 0 /\ in.code[next - 1 - 1] = Op.pick,
           exprPhase' = "failed", read' = next - 1, Touch(sp - n + 1),
           in' = in, expr' = expr, end' = end, sp' = sp, stack' = stack
    PROVE  Good
<1>1. /\ MaxStack \in Nat \ {0} /\ reach \in Nat /\ ~(reach > MaxStack)
      /\ end <= CodeEnd /\ CodeEnd' = CodeEnd
  BY ComputeExprAssumption, Zenon DEF ExprInv, TypeOK, StackKept, InBlock, Running, CodeEnd
<1>2. reach' \in Nat /\ (reach' > MaxStack => reach' = MaxStack + 1 /\ n = 0)
  BY <1>1 DEF Touch
<1>3. StackKept'
  BY <1>2, Zenon DEF StackKept
<1>4. TypeOK'
  BY <1>2, Zenon DEF ExprInv, TypeOK, Phases
<1>5. InBlock'
  BY <1>1, Zenon DEF InBlock
<1> QED
  BY <1>3, <1>4, <1>5, Zenon DEF Good, ExprInv

\* DW_OP_over and DW_OP_pick.
LEMMA Picks ==
    ASSUME ExprInv, OverPick
    PROVE  Good
<1>1. Running
  BY Zenon DEF OverPick, At
<1>2. ASSUME NEW n \in Nat, NEW next \in {arg, arg + 1}, next <= end, Pick(n, next),
             n = 0 => in.code[next - 1] = 0 /\ in.code[next - 1 - 1] = Op.pick
      PROVE  Good
  <2>1. next \in Nat /\ expr < next /\ next <= end + 1 /\ next - 1 \in Nat /\ next - 1 < end
    BY <1>1, <1>2, Position
  <2>2. CASE Fail(next - 1)
    BY <1>1, <2>1, <2>2, Leaves, Zenon DEF Fail
  <2>3. CASE /\ sp = MaxStack /\ exprPhase' = "failed" /\ read' = next - 1
             /\ Touch(sp - n + 1) /\ UNCHANGED <<in, expr, end, sp, stack, result>>
    BY <1>1, <1>2, <2>1, <2>3, PicksFull, Zenon
  <2>4. ASSUME NEW v, Operate(0, <<v>>, next, next - 1) PROVE Good
    <3>1. Len(<<v>>) \in Nat
      BY Zenon
    <3> QED BY <1>1, <2>1, <2>4, <3>1, Operates, Zenon
  <2> QED BY <1>2, <2>2, <2>3, <2>4, Zenon DEF Pick
<1>3. CASE At("over") /\ Pick(1, arg)
  <2>1. 1 \in Nat /\ 1 # 0
    OBVIOUS
  <2> QED BY <1>1, <1>2, <1>3, <2>1, Position, Zenon
<1>4. CASE Fail(expr)
  BY <1>1, <1>4, FailsHere, Zenon
<1>5. CASE At("pick") /\ NEED(1) /\ Pick(in.code[arg], arg + 1)
  <2>1. arg + 1 <= end /\ arg \in Nat /\ arg = expr + 1 /\ expr \in Nat
    BY <1>1, <1>5, Position DEF NEED
  <2>2. (arg + 1) - 1 = arg /\ ((arg + 1) - 1) - 1 = expr
    BY <2>1
  <2>3. in.code[expr] = Op.pick
    BY <1>5, Zenon DEF At
  <2>4. in.code[arg] \in Nat
    <3>1. in.code \in Seq(Byte) /\ in \in Inputs /\ end <= CodeEnd
      BY <1>1, ComputeExprAssumption, Zenon DEF ExprInv, InBlock, Running
    <3>2. arg \in 1 .. Len(in.code)
      BY <1>1, <2>1, <3>1, Position, CodeEndType DEF CodeEnd
    <3>3. in.code[arg] \in Byte
      BY <3>1, <3>2
    <3> QED BY <3>3 DEF Byte
  <2> QED BY <1>2, <1>5, <2>1, <2>2, <2>3, <2>4, Zenon
<1> QED
  BY <1>3, <1>4, <1>5, Zenon DEF OverPick

\* What a decoder that starts behind the operation leaves to go on with.
LEMMA OperandDecoded ==
    ASSUME ExprInv, Running, NEW cur, NEW seen, NEW whole, Bounded(arg, end, cur, seen, whole)
    PROVE  /\ cur \in Nat /\ expr < cur /\ cur <= end + 1
           /\ seen \in Nat /\ seen < end
  BY Position DEF Bounded

\* DW_OP_addr, the constants of a fixed width, DW_OP_constu and DW_OP_consts.
LEMMA Constants ==
    ASSUME ExprInv, (\E op \in DOMAIN Width : Const(op)) \/ Constu \/ Consts
    PROVE  Good
<1>1. ASSUME NEW op \in DOMAIN Width, Const(op) PROVE Good
  <2> DEFINE n == Width[op]
             v == Constant(in.code, arg, n, op \in {"const1s", "const2s", "const4s"})
  <2>1. Running
    BY <1>1, Zenon DEF Const, At
  <2>2. n \in Nat /\ n >= 1
    BY DEF Width
  <2>3. CASE ~NEED(n)
    BY <1>1, <2>1, <2>3, FailsHere, Zenon DEF Const
  <2>4. CASE NEED(n)
    <3>1. Operate(0, <<v>>, arg + n, arg + n - 1)
      BY <1>1, <2>4, Zenon DEF Const
    <3> HIDE DEF n, v
    <3>2. /\ arg + n \in Nat /\ expr < arg + n /\ arg + n <= end + 1
          /\ arg + n - 1 \in Nat /\ arg + n - 1 < end
      BY <2>1, <2>2, <2>4, Position DEF NEED
    <3>3. Len(<<v>>) \in Nat
      BY Zenon
    <3> QED BY <2>1, <3>1, <3>2, <3>3, Operates, Zenon
  <2> QED BY <2>3, <2>4, Zenon
<1>2. ASSUME NEW val, NEW cur, NEW seen, NEW whole, Running,
             Bounded(arg, end, cur, seen, whole), Operate(0, <<val>>, cur, seen)
      PROVE  Good
  <2>1. Len(<<val>>) \in Nat
    BY Zenon
  <2> QED BY <1>2, <2>1, OperandDecoded, Operates, Zenon
<1>3. CASE Constu
  <2> DEFINE r == get_uleb128(in.code, arg, end)
  <2>1. Running /\ Operate(0, <<r.val>>, r.cur, r.seen)
    BY <1>3, Zenon DEF Constu, At
  <2>2. Bounded(arg, end, r.cur, r.seen, r.whole)
    BY <2>1, Position, UlebBounds, Zenon
  <2> HIDE DEF r
  <2> QED BY <1>2, <2>1, <2>2, Zenon
<1>4. CASE Consts
  <2> DEFINE r == get_sleb128(in.code, arg, end)
  <2>1. Running /\ Operate(0, <<r.val>>, r.cur, r.seen)
    BY <1>4, Zenon DEF Consts, At
  <2>2. Bounded(arg, end, r.cur, r.seen, r.whole)
    BY <2>1, Position, SlebBounds, Zenon
  <2> HIDE DEF r
  <2> QED BY <1>2, <2>1, <2>2, Zenon
<1> QED
  BY <1>1, <1>3, <1>4, Zenon

\* The arithmetic: DW_OP_plus_uconst, and the operations on one or two slots.
LEMMA Arithmetic ==
    ASSUME ExprInv, PlusUconst \/ (\E op \in Binary : Binop(op)) \/ (\E op \in Unary : Unop(op))
    PROVE  Good
<1>1. CASE PlusUconst
  <2> DEFINE r == get_uleb128(in.code, arg, end)
  <2>1. Running /\ Replace((r.val + Top(1)) % WordMax, r.cur, r.seen)
    BY <1>1, Zenon DEF PlusUconst, At
  <2>2. Bounded(arg, end, r.cur, r.seen, r.whole)
    BY <2>1, Position, UlebBounds, Zenon
  <2> HIDE DEF r
  <2>3. r.cur \in Nat /\ expr < r.cur /\ r.cur <= end + 1 /\ r.seen \in Nat /\ r.seen < end
    BY <2>1, <2>2, OperandDecoded, Zenon
  <2> QED BY <2>1, <2>3, Replaces, Zenon
<1>2. ASSUME NEW op \in Binary, Binop(op) PROVE Good
  <2> DEFINE v == BinaryOp(op, Top(2), Top(1))
  <2>1. Running /\ Len(<<v>>) \in Nat
    BY <1>2, Zenon DEF Binop, At
  <2>2. CASE Fail(expr)
    BY <2>1, <2>2, FailsHere, Zenon
  <2>3. CASE Leave("trap", expr)
    BY <2>1, <2>3, Position, Leaves, Zenon
  <2>4. CASE Operate(2, <<v>>, arg, expr)
    <3> HIDE DEF v
    <3> QED BY <2>1, <2>4, OperatesHere, Zenon
  <2> QED BY <1>2, <2>2, <2>3, <2>4, Zenon DEF Binop
<1>3. ASSUME NEW op \in Unary, Unop(op) PROVE Good
  <2> DEFINE v == UnaryOp(op, Top(1))
  <2>1. Running /\ Len(<<v>>) \in Nat
    BY <1>3, Zenon DEF Unop, At
  <2>2. CASE Operate(1, <<v>>, arg, expr)
    <3> HIDE DEF v
    <3> QED BY <2>1, <2>2, OperatesHere, Zenon
  <2>3. CASE Replace(v, arg, expr)
    <3> HIDE DEF v
    <3>1. arg \in Nat /\ expr < arg /\ arg <= end + 1 /\ expr \in Nat /\ expr < end
      BY <2>1, Position
    <3> QED BY <2>1, <2>3, <3>1, Replaces, Zenon
  <2> QED BY <1>3, <2>2, <2>3, Zenon DEF Unop
<1> QED
  BY <1>1, <1>2, <1>3, Zenon

\* DW_OP_breg0 to DW_OP_breg31 and DW_OP_bregx: the second number starts where the
\* first one ended, which may be behind end; then nothing more is read.
LEMMA Registers ==
    ASSUME ExprInv, Breg
    PROVE  Good
<1>1. Running
  BY Zenon DEF Breg, At
<1>2. ASSUME NEW r, NEW p \in Nat, NEW seen \in Nat, BregOffset(r, p, seen),
             expr < p, p <= end + 1, seen < end
      PROVE  Good
  <2> DEFINE i == RegIndex(r, in.compat)
             off == get_sleb128(in.code, p, end)
             v == (Frame[i] + off.val) % WordMax
             last == IF off.seen < p THEN seen ELSE off.seen
  <2>1. Bounded(p, end, off.cur, off.seen, off.whole)
    BY <1>1, <1>2, Position, SlebBounds, Zenon
  <2>2. CASE Fail(seen)
    BY <1>1, <1>2, <2>2, Leaves, Zenon DEF Fail
  <2>3. CASE Operate(0, <<v>>, off.cur, last)
    <3> HIDE DEF off, v
    <3>1. off.cur \in Nat /\ expr < off.cur /\ off.cur <= end + 1
      BY <1>1, <1>2, <2>1, Position DEF Bounded
    <3>2. last \in Nat /\ last < end
      BY <1>1, <1>2, <2>1, Position DEF Bounded
    <3>3. Len(<<v>>) \in Nat
      BY Zenon
    <3> HIDE DEF last
    <3> QED BY <1>1, <2>3, <3>1, <3>2, <3>3, Operates, Zenon
  <2> QED BY <1>2, <2>2, <2>3, Zenon DEF BregOffset
<1>3. CASE BregOffset(in.code[expr] - 112, arg, expr)
  BY <1>1, <1>2, <1>3, Position
<1>4. CASE LET r == get_uleb128(in.code, arg, end) IN BregOffset(r.val, r.cur, r.seen)
  <2> DEFINE r == get_uleb128(in.code, arg, end)
  <2>1. Bounded(arg, end, r.cur, r.seen, r.whole)
    BY <1>1, Position, UlebBounds, Zenon
  <2>2. BregOffset(r.val, r.cur, r.seen)
    BY <1>4, Zenon
  <2> HIDE DEF r
  <2>3. r.cur \in Nat /\ expr < r.cur /\ r.cur <= end + 1 /\ r.seen \in Nat /\ r.seen < end
    BY <1>1, <2>1, OperandDecoded, Zenon
  <2> QED BY <1>2, <2>2, <2>3, Zenon
<1> QED
  BY <1>3, <1>4, Zenon DEF Breg

\* DW_OP_deref and DW_OP_deref_size.
LEMMA Derefs ==
    ASSUME ExprInv, Deref
    PROVE  Good
<1>1. Running
  BY Zenon DEF Deref, At
<1>2. ASSUME NEW n, NEW next \in {arg, arg + 1}, next <= end, DerefSize(n, next) PROVE Good
  <2>1. next \in Nat /\ expr < next /\ next <= end + 1 /\ next - 1 \in Nat /\ next - 1 < end
    BY <1>1, <1>2, Position
  <2>2. CASE Fail(next - 1)
    BY <1>1, <2>1, <2>2, Leaves, Zenon DEF Fail
  <2>3. CASE Operate(1, <<>>, next, next - 1)
    <3>1. Len(<<>>) \in Nat
      BY Zenon
    <3> QED BY <1>1, <2>1, <2>3, <3>1, Operates, Zenon
  <2> QED BY <1>2, <2>2, <2>3, Zenon DEF DerefSize
<1>3. CASE At("deref") /\ DerefSize(8, arg)
  BY <1>1, <1>2, <1>3, Position, ZenonT(60)
<1>4. CASE Fail(expr)
  BY <1>1, <1>4, FailsHere, Zenon
<1>5. CASE NEED(1) /\ DerefSize(in.code[arg], arg + 1)
  <2>1. arg + 1 <= end
    BY <1>1, <1>5, Position DEF NEED
  <2> QED BY <1>2, <1>5, <2>1, Zenon
<1> QED
  BY <1>3, <1>4, <1>5, Zenon DEF Deref

\* The instruction's check of the length, and what compute_expr makes of it.
LEMMA Lengths ==
    ASSUME ExprInv, ReadLength \/ Start
    PROVE  Good
<1> DEFINE r == get_uleb128(in.code, 1, CodeEnd)
<1>1. in \in Inputs /\ CodeEnd \in Nat /\ CodeEnd >= 2
  BY CodeEndType, Zenon DEF ExprInv
<1>2. r.val \in Nat /\ Bounded(1, CodeEnd, r.cur, r.seen, r.whole)
  BY <1>1, UlebBounds, Zenon
<1>3. CASE ReadLength
  <2>1. /\ exprPhase' = IF LengthOK(r) THEN "start" ELSE "refused"
        /\ read' = r.seen /\ exprPhase = "insn"
        /\ in' = in /\ expr' = expr /\ end' = end /\ sp' = sp /\ stack' = stack
        /\ reach' = reach
    BY <1>3, Zenon DEF ReadLength
  <2>2. LengthOK(r)' = LengthOK(r) /\ CodeEnd' = CodeEnd /\ in.code' = in.code
    BY <2>1, Zenon DEF LengthOK, CodeEnd
  <2>3. exprPhase' = "start" => LengthOK(r)'
    BY <2>1, <2>2, Zenon
  <2> HIDE DEF r
  <2>4. read' \in Nat
    BY <1>1, <1>2, <2>1 DEF Bounded
  <2>5. TypeOK' /\ StackKept' /\ InBlock' /\ in' \in Inputs
    BY <2>1, <2>4, Zenon DEF ExprInv, TypeOK, StackKept, InBlock, Phases
  <2> QED BY <2>1, <2>3, <2>5, Zenon DEF Good, ExprInv, r
<1>4. CASE Start
  <2>1. exprPhase = "start" /\ in' = in /\ sp' = sp /\ stack' = stack /\ reach' = reach
    BY <1>4, Zenon DEF Start
  <2>2. LengthOK(r)
    BY <2>1, Zenon DEF ExprInv
  <2>3. \/ r.whole /\ exprPhase' = "run" /\ expr' = r.cur /\ end' = r.cur + r.val /\ read' = r.seen
        \/ ~r.whole /\ exprPhase' = "off" /\ read' = CodeEnd /\ expr' = expr /\ end' = end
    BY <1>4, Zenon DEF Start
  <2>4. CASE ~r.whole /\ exprPhase' = "off" /\ read' = CodeEnd /\ expr' = expr /\ end' = end
    <3>1. in.from # "cfa" /\ (~r.whole)'
      <4>1. (~r.whole)'
        BY <2>1, <2>4, Zenon DEF CodeEnd
      <4> HIDE DEF r
      <4>2. r.cur \in Nat /\ r.cur >= CodeEnd
        BY <1>2, <2>4, Zenon DEF Bounded
      <4>3. ~(r.cur < CodeEnd)
        BY <1>1, <4>2
      <4> QED BY <2>2, <4>1, <4>3, Zenon DEF LengthOK
    <3>2. in'.from = "rule"
      BY <1>1, <2>1, <3>1, ComputeExprAssumption, Zenon
    <3>3. InBlock'
      BY <2>4, <3>1, <3>2, Zenon DEF InBlock
    <3> HIDE DEF r
    <3> QED BY <1>1, <2>1, <2>4, <3>3, Zenon DEF Good, ExprInv, TypeOK, StackKept, Phases
  <2> HIDE DEF r
  <2>5. CASE /\ r.whole /\ exprPhase' = "run"
             /\ expr' = r.cur /\ end' = r.cur + r.val /\ read' = r.seen
    <3>1. r.cur = r.seen + 1 /\ r.cur <= CodeEnd /\ r.seen \in Nat /\ r.cur \in Nat
      BY <1>1, <1>2, <2>5 DEF Bounded
    <3>2. CodeEnd - r.cur >= r.val
      BY <1>1, <2>2, <3>1 DEF LengthOK
    <3>3. end' \in Nat /\ read' < end' /\ end' <= CodeEnd
      BY <1>1, <1>2, <2>5, <3>1, <3>2
    <3>4. CodeEnd' = CodeEnd
      BY <2>1, Zenon DEF CodeEnd
    <3> QED BY <2>1, <2>5, <3>1, <3>3, <3>4, Zenon
              DEF Good, ExprInv, TypeOK, StackKept, InBlock, Phases
  <2> QED BY <2>3, <2>4, <2>5, Zenon
<1> QED
  BY <1>3, <1>4, Zenon

-----------------------------------------------------------------------------
(* The theorems about compute_expr *)

\* At first nothing has been read.
LEMMA ExprInitOK == ExprInit => ExprInv
<1> SUFFICES ASSUME ExprInit PROVE ExprInv
  BY Zenon
<1>1. MaxStack \in Nat \ {0}
  BY ComputeExprAssumption, Zenon
<1> QED
  BY <1>1 DEF ExprInit, ExprInv, TypeOK, StackKept, InBlock, Phases

\* Every step of compute_expr keeps the invariant and goes forward.
LEMMA ExprStepOK == ExprInv /\ [ExprNext]_exprVars => ExprInv' /\ (UNCHANGED exprVars \/ Good)
<1> SUFFICES ASSUME ExprInv, [ExprNext]_exprVars PROVE ExprInv' /\ (UNCHANGED exprVars \/ Good)
  BY Zenon
<1>1. CASE ReadLength \/ Start
  BY <1>1, Lengths, Zenon DEF Good
<1>2. CASE Nop \/ Dup \/ Drop \/ Swap \/ Lit
  BY <1>2, StackOps, Zenon DEF Good
<1>3. CASE Skip \/ Bra
  BY <1>3, Branches, Zenon DEF Good
<1>4. CASE OverPick
  BY <1>4, Picks, Zenon DEF Good
<1>5. CASE (\E op \in DOMAIN Width : Const(op)) \/ Constu \/ Consts
  BY <1>5, Constants, Zenon DEF Good
<1>6. CASE PlusUconst \/ (\E op \in Binary : Binop(op)) \/ (\E op \in Unary : Unop(op))
  BY <1>6, Arithmetic, Zenon DEF Good
<1>7. CASE Breg
  BY <1>7, Registers, Zenon DEF Good
<1>8. CASE Deref
  BY <1>8, Derefs, Zenon DEF Good
<1>9. CASE Unimplemented
  <2>1. Running /\ Fail(expr)
    BY <1>9, Zenon DEF Unimplemented
  <2> QED BY <2>1, FailsHere, Zenon DEF Good
<1>10. CASE Finish
  <2>1. /\ exprPhase = "run" /\ exprPhase' \in {"failed", "done"}
        /\ in' = in /\ expr' = expr /\ end' = end /\ stack' = stack /\ read' = read
        /\ reach' = reach
    BY <1>10, Zenon DEF Finish, Fail, Leave
  <2>2. sp' \in 0 .. MaxStack
    BY <1>10, ComputeExprAssumption DEF Finish, Fail, Leave, ExprInv, TypeOK
  <2>3. CodeEnd' = CodeEnd
    BY <2>1, Zenon DEF CodeEnd
  <2>4. Good
    BY <2>1, <2>2, <2>3, Zenon DEF Good, ExprInv, TypeOK, StackKept, InBlock, Phases
  <2> QED BY <2>4, Zenon DEF Good
<1>11. CASE UNCHANGED exprVars
  BY <1>11, Zenon DEF ExprInv, TypeOK, StackKept, InBlock, CodeEnd, LengthOK, exprVars
<1> QED
  BY <1>1, <1>2, <1>3, <1>4, <1>5, <1>6, <1>7, <1>8, <1>9, <1>10, <1>11, Zenon DEF ExprNext

\* For every expression: compute_expr touches no word outside of its array stack but
\* the one DW_OP_pick of 0 reads behind it on a full stack, and then it fails.
THEOREM StackStaysKept == ExprSpec => []StackKept
<1>1. ExprInv => StackKept
  BY Zenon DEF ExprInv
<1> QED
  BY <1>1, ExprInitOK, ExprStepOK, PTL DEF ExprSpec

\* For every expression: after the check of the length, compute_expr reads only
\* bytes of the expression, which lies within the instructions, unless the length is
\* one of a register's rule whose number has no end there; that is accepted too.
THEOREM StaysInBlock == ExprSpec => []InBlock
<1>1. ExprInv => InBlock
  BY Zenon DEF ExprInv
<1> QED
  BY <1>1, ExprInitOK, ExprStepOK, PTL DEF ExprSpec

\* For every expression: no operation leaves expr where it was or takes it back, so
\* there are at most as many operations as bytes.
THEOREM GoesForward == ExprSpec => Forward
<1>1. ExprInv /\ [ExprNext]_exprVars =>
        [exprPhase = "run" /\ exprPhase' = "run" => expr < expr' /\ expr' <= end' + 1]_exprVars
  BY ExprStepOK, Zenon DEF Good
<1> QED
  BY <1>1, ExprInitOK, ExprStepOK, PTL DEF ExprSpec, Forward
=============================================================================
