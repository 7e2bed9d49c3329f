----------------------------- MODULE UnwindProofs -----------------------------
(***************************************************************************)
(* Proofs about unwind_full, for every code, modules, limit and number of        *)
(* backtraces: the buffer of a backtrace is never overrun; and, of stacks that     *)
(* follow the conventions of compilers and the ABI, what EntriesFollowStack,       *)
(* SuccessIsComplete, OrdinaryStacksSucceed and ColdFunctions say.               *)
(***************************************************************************)
EXTENDS UnwindWalk, TLAPS
INSTANCE WellFoundedInduction

-----------------------------------------------------------------------------
(* The buffer *)

\* The inductive invariant: EntriesFit, with the entries a sequence and max_entries
\* a number.
WalkInv ==
    /\ \E S : entries \in Seq(S)
    /\ max \in Nat
    /\ EntriesFit

\* Only unwind_full itself writes an entry: whatever path __unwind_frame takes, and
\* however it ends, the buffer, its size and its owner stay as they are.
LEMMA FramesLeaveBuffer ==
    ASSUME \/ Stop \/ NoModule \/ Cached \/ NoRule \/ SearchFaults \/ BadRule
           \/ Standard \/ NotStandard
    PROVE  UNCHANGED <<entries, max, caller>>
  BY Zenon DEF Stop, NoModule, Cached, NoRule, SearchFaults, BadRule, Standard, NotStandard

\* What the invariant says is about these three variables.
LEMMA BufferUnchanged ==
    ASSUME WalkInv, UNCHANGED <<entries, max, caller>>
    PROVE  WalkInv'
  BY Zenon DEF WalkInv, EntriesFit

\* kunwind_backtrace_ioctl cuts max_entries down before it allocates the buffer.
LEMMA BeginFits ==
    ASSUME NEW c, NEW who, NEW n \in MaxEntries, NEW o, NEW absent,
           Begin(c, who, n, o, absent)
    PROVE  WalkInv'
  <1>1. n \in Nat /\ EntriesLimit \in Nat
    BY UnwindWalkAssumption, Zenon
  <1>2. /\ entries' = <<>> /\ caller' = who
        /\ max' = IF who = "ioctl" /\ n > EntriesLimit THEN EntriesLimit ELSE n
    BY Zenon DEF Begin
  <1>3. entries' \in Seq({}) /\ Len(entries') = 0
    BY <1>2
  <1>4. max' \in Nat /\ (caller' = "ioctl" => max' <= EntriesLimit)
    BY <1>1, <1>2
  <1> QED
    BY <1>3, <1>4 DEF WalkInv, EntriesFit

\* unwind_full tests nr_entries against max_entries before it writes.
LEMMA RecordFits ==
    ASSUME WalkInv, Record
    PROVE  WalkInv'
  <1>1. PICK S : entries \in Seq(S)
    BY Zenon DEF WalkInv
  <1> DEFINE pc == get_pc(regs)
             T == S \cup {pc}
  <1>2. /\ entries' = Append(entries, pc)
        /\ Len(entries) < max
        /\ max' = max /\ caller' = caller
    BY Zenon DEF Record
  <1> HIDE DEF pc
  <1>3. entries \in Seq(T) /\ pc \in T
    BY <1>1
  <1>4. entries' \in Seq(T) /\ Len(entries') = Len(entries) + 1
    BY <1>2, <1>3
  <1>5. Len(entries') <= max'
    BY <1>2, <1>3, <1>4 DEF WalkInv
  <1> QED
    BY <1>2, <1>4, <1>5, Zenon DEF WalkInv, EntriesFit

LEMMA NextFits ==
    ASSUME WalkInv, [WalkNext]_walkVars
    PROVE  WalkInv'
  <1>1. CASE Backtrace(Chains)
    BY <1>1, BeginFits, Zenon DEF Backtrace
  <1>2. CASE Forget
    <2>1. entries' = <<>> /\ max' = 0 /\ caller' = "none"
      BY <1>2, Zenon DEF Forget
    <2>2. entries' \in Seq({}) /\ Len(entries') = 0
      BY <2>1
    <2> QED
      BY <2>1, <2>2 DEF WalkInv, EntriesFit
  <1>3. CASE Record
    BY <1>3, RecordFits, Zenon
  <1>4. CASE \/ Stop \/ NoModule \/ Cached \/ NoRule \/ SearchFaults \/ BadRule
             \/ Standard \/ NotStandard
    BY <1>4, FramesLeaveBuffer, BufferUnchanged, Zenon
  <1>5. CASE UNCHANGED walkVars
    BY <1>5, BufferUnchanged, Zenon DEF walkVars
  <1> QED
    BY <1>1, <1>2, <1>3, <1>4, <1>5, Zenon DEF WalkNext, Work

\* For every program, stack and max_entries, unwind_full never writes past
\* max_entries, nor past entries_limit in the buffer the ioctl allocates.
THEOREM EntriesAlwaysFit == WalkSpec => []EntriesFit
  <1>1. WalkInit => WalkInv
    <2>1. WalkInit => entries \in Seq({}) /\ Len(entries) = 0 /\ max = 0 /\ caller = "none"
      BY DEF WalkInit
    <2> QED
      BY <2>1 DEF WalkInv, EntriesFit
  <1>2. WalkInv /\ [WalkNext]_walkVars => WalkInv'
    BY NextFits, Zenon
  <1>3. WalkInv => EntriesFit
    BY Zenon DEF WalkInv
  <1> QED
    BY <1>1, <1>2, <1>3, PTL DEF WalkSpec

-----------------------------------------------------------------------------
(* Recursive functions on intervals: what LET frame[i \in ...] defines *)

\* A set of natural numbers that is not empty has a smallest member.
LEMMA Smallest ==
    ASSUME NEW T, T \subseteq Nat, T # {}
    PROVE  \E x \in T : \A y \in T : x <= y
<1>1. \E x \in T : \A y \in T : ~(<<y, x>> \in OpToRel(<, Nat))
  BY NatLessThanWellFounded, WFMin, Zenon
<1>2. ASSUME NEW x \in T, NEW y \in T, ~(<<y, x>> \in OpToRel(<, Nat)) PROVE x <= y
  BY <1>2 DEF OpToRel
<1> QED
  BY <1>1, <1>2, Zenon

\* Induction: if h[0] is in S, and each value of h when the one before is, all are.
LEMMA Inductive ==
    ASSUME NEW N \in Nat, NEW S, NEW h, h[0] \in S,
           \A n \in 1 .. N : h[n - 1] \in S => h[n] \in S
    PROVE  \A n \in 0 .. N : h[n] \in S
<1> DEFINE Bad == {n \in 0 .. N : h[n] \notin S}
<1> SUFFICES ASSUME Bad # {} PROVE FALSE
  BY Zenon
<1>1. Bad \subseteq Nat
  OBVIOUS
<1>2. PICK k \in Bad : \A y \in Bad : k <= y
  BY <1>1, Smallest, Zenon
<1>3. k \in 0 .. N /\ h[k] \notin S
  BY <1>2, Zenon
<1>4. k # 0
  BY <1>3, Zenon
<1>5. k \in 1 .. N /\ k - 1 \in 0 .. N /\ ~(k <= k - 1)
  BY <1>3, <1>4
<1>6. h[k - 1] \in S
  BY <1>2, <1>5, Zenon
<1> QED
  BY <1>3, <1>5, <1>6, Zenon

\* f starts with x and goes on, up to k, as g says.
Follows(f, k, x, g) == f[0] = x /\ \A n \in 1 .. k : f[n] = g[n][f[n - 1]]

\* There is a function whose values g determines each from the one before.
LEMMA Recursion ==
    ASSUME NEW N \in Nat, NEW S, NEW x \in S, NEW g, \A n \in 1 .. N : g[n] \in [S -> S]
    PROVE  \E f \in [0 .. N -> S] : Follows(f, N, x, g)
<1> DEFINE Good == {k \in 0 .. N : \E f \in [0 .. k -> S] : Follows(f, k, x, g)}
           id == [k \in 0 .. N |-> k]
<1>1. 0 \in Good
  <2> DEFINE f == [j \in 0 .. 0 |-> x]
  <2>1. f \in [0 .. 0 -> S] /\ f[0] = x /\ \A n : n \notin 1 .. 0
    OBVIOUS
  <2>2. Follows(f, 0, x, g)
    BY <2>1, Zenon DEF Follows
  <2>3. 0 \in 0 .. N
    OBVIOUS
  <2> QED
    BY <2>1, <2>2, <2>3, Zenon
<1>2. ASSUME NEW k \in 1 .. N, k - 1 \in Good PROVE k \in Good
  <2>1. PICK f \in [0 .. (k - 1) -> S] : Follows(f, k - 1, x, g)
    BY <1>2, Zenon
  <2>2. k - 1 \in 0 .. (k - 1) /\ k \in 0 .. N
    OBVIOUS
  <2>3. g[k][f[k - 1]] \in S
    BY <2>1, <2>2, Zenon
  <2> DEFINE h == [j \in 0 .. k |-> IF j = k THEN g[k][f[k - 1]] ELSE f[j]]
  <2>4. \A j \in 0 .. k : j # k => j \in 0 .. (k - 1)
    OBVIOUS
  <2>5. h \in [0 .. k -> S]
    BY <2>1, <2>3, <2>4, Zenon
  <2>6. h[k] = g[k][f[k - 1]] /\ \A j \in 0 .. (k - 1) : h[j] = f[j]
    OBVIOUS
  <2> HIDE DEF h
  <2>7. ASSUME NEW n \in 1 .. k PROVE h[n] = g[n][h[n - 1]]
    <3>1. n - 1 \in 0 .. (k - 1) /\ (n # k => n \in 1 .. (k - 1) /\ n \in 0 .. (k - 1))
      OBVIOUS
    <3>2. CASE n = k
      BY <2>2, <2>6, <3>2, Zenon
    <3>3. CASE n # k
      BY <2>1, <2>6, <3>1, <3>3, Zenon DEF Follows
    <3> QED
      BY <3>2, <3>3, Zenon
  <2>8. 0 \in 0 .. (k - 1)
    OBVIOUS
  <2>9. h[0] = x
    BY <2>1, <2>6, <2>8, Zenon DEF Follows
  <2>10. Follows(h, k, x, g)
    BY <2>7, <2>9, Zenon DEF Follows
  <2> QED
    BY <2>2, <2>5, <2>10, Zenon
<1>3. id[0] \in Good /\ \A n \in 1 .. N : id[n - 1] \in Good => id[n] \in Good
  <2>1. \A n \in 1 .. N : n \in 0 .. N /\ n - 1 \in 0 .. N
    OBVIOUS
  <2>2. 0 \in 0 .. N
    OBVIOUS
  <2> HIDE DEF Good
  <2> QED
    BY <1>1, <1>2, <2>1, <2>2, Zenon
<1>4. \A n \in 0 .. N : id[n] \in Good
  <2> HIDE DEF Good, id
  <2> QED
    BY <1>3, Inductive, Zenon
<1>5. N \in 0 .. N
  OBVIOUS
<1> QED
  BY <1>4, <1>5, Zenon

-----------------------------------------------------------------------------
\* A stack with bp in it, or 0.
StackStates ==
    {s \in [mem : UNION {[D -> Int] : D \in SUBSET Int}, sp : Int, bp : Int] :
        /\ s.sp <= StackTop /\ (s.bp = 0 \/ s.sp <= s.bp)
        /\ DOMAIN s.mem = s.sp .. (StackTop - 1)}

\* A stack laid out from rsp to the top, with rbp in it or 0, is one of StackStates.
LEMMA StateIs ==
    ASSUME NEW m, NEW sp \in Int, NEW bp \in Int, sp <= StackTop, bp = 0 \/ sp <= bp,
           m \in [sp .. (StackTop - 1) -> Int]
    PROVE  [mem |-> m, sp |-> sp, bp |-> bp] \in StackStates
<1> DEFINE D == sp .. (StackTop - 1)
           s == [mem |-> m, sp |-> sp, bp |-> bp]
<1>1. D \in SUBSET Int
  OBVIOUS
<1> HIDE DEF D
<1>2. m \in UNION {[E -> Int] : E \in SUBSET Int} /\ DOMAIN m = D
  BY <1>1, Zenon DEF D
<1>3. s \in [mem : UNION {[E -> Int] : E \in SUBSET Int}, sp : Int, bp : Int]
  BY <1>2, Zenon
<1>4. s.sp = sp /\ s.bp = bp /\ s.mem = m
  BY Zenon
<1> HIDE DEF s
<1>5. s \in StackStates
  BY <1>2, <1>3, <1>4, Zenon DEF StackStates, D
<1> QED
  BY <1>5, Zenon DEF s

\* Numbers of a frame: s is the rsp of its caller, e the rsp after it took size slots, and
\* r an rsp at or below that.
LEMMA FrameNumbers ==
    ASSUME NEW s \in Int, NEW e \in Int, NEW r \in Int, NEW size \in Nat, size > 0,
           NEW top \in Int, e = s - size, r <= e, s <= top
    PROVE  /\ e + size = s /\ r < s
           /\ s - 1 \in e .. (top - 1) /\ s - 1 \in r .. (top - 1)
  BY SMT

\* The slot of the saved rbp lies in the frame.
LEMMA SlotNumbers ==
    ASSUME NEW s \in Int, NEW e \in Int, NEW r \in Int, NEW size \in Nat, NEW off \in Int,
           NEW top \in Int, e = s - size, r <= e, s <= top, -size <= off, off < -1
    PROVE  s + off \in e .. (top - 1) /\ s + off \in r .. (top - 1)
  BY SMT

\* Taking an offset out and putting it back.
LEMMA OutAndBack ==
    ASSUME NEW x \in Int, NEW y \in Int PROVE (x - y) + y = x
  BY SMT

\* A frame's size added to a stack pointer above the top does not give the top.
LEMMA SumAbove ==
    ASSUME NEW x \in Int, NEW y \in Nat, NEW sp \in Int, x > sp PROVE x + y # sp
  BY SMT

\* Nor does a small offset from an rbp that is 0 or above the top.
LEMMA SumDiffers ==
    ASSUME NEW bp \in Int, NEW off \in Int, NEW x \in Int, NEW sp \in Int,
           0 < off, off < sp, x > sp, bp = 0 \/ x <= bp
    PROVE  bp + off # sp
  BY SMT

\* A lower end only adds to an interval.
LEMMA LowerEnd ==
    ASSUME NEW x \in Int, NEW y \in Int, NEW top \in Nat, y <= x
    PROVE  \A a \in x .. (top - 1) : a \in y .. (top - 1)
  BY SMT

\* What the members of StackStates have in common.
LEMMA StateHas ==
    ASSUME NEW s \in StackStates
    PROVE  /\ s.sp \in Int /\ s.bp \in Int /\ s.sp <= StackTop /\ (s.bp = 0 \/ s.sp <= s.bp)
           /\ s.mem \in [s.sp .. (StackTop - 1) -> Int]
<1>1. /\ s.sp \in Int /\ s.bp \in Int /\ s.mem \in UNION {[D -> Int] : D \in SUBSET Int}
      /\ s.sp <= StackTop /\ (s.bp = 0 \/ s.sp <= s.bp)
      /\ DOMAIN s.mem = s.sp .. (StackTop - 1)
  BY Zenon DEF StackStates
<1>2. PICK D \in SUBSET Int : s.mem \in [D -> Int]
  BY <1>1, Zenon
<1>3. D = s.sp .. (StackTop - 1)
  BY <1>1, <1>2, Zenon
<1> QED
  BY <1>1, <1>2, <1>3, Zenon

\* What Enter adds to a stack, given a rule that lays frames out as compilers do.
Laid(rule) ==
    /\ rule \in Rule /\ rule.size > 0
    /\ rule.bp.where = "memory" => -rule.size <= rule.bp.off /\ rule.bp.off < -1
    /\ rule.cfa.reg = "bp" => rule.bp.where = "memory" /\ rule.cfa.off <= rule.size

\* Stack e has size slots more than s, and what s holds.
Adds(s, e, size) ==
    /\ e \in StackStates /\ e.sp = s.sp - size
    /\ \A a \in s.sp .. (StackTop - 1) : e.mem[a] = s.mem[a]

\* Stack e is that of a function that has set rbp up by its rule, with the return address
\* and rbp of its caller at their places.
Saves(c, i, rule, s, e) ==
    /\ e.bp = IF rule.cfa.reg = "bp" THEN s.sp - rule.cfa.off
              ELSE IF rule.bp.where = "memory" THEN 0 ELSE s.bp
    /\ i < Len(c) => e.mem[s.sp - 1] = c[i + 1]
    /\ rule.bp.where = "memory" => e.mem[s.sp + rule.bp.off] = s.bp

\* A call leaves the caller's words as they are and puts the return address, and the
\* saved rbp if there is one, below them.
LEMMA EnterIs ==
    ASSUME NEW c \in Seq(Nat), NEW i \in 1 .. Len(c), NEW s \in StackStates,
           NEW rule, rule = TrueRule(c, i), Laid(rule),
           NEW e, e = Enter(c, i, s)
    PROVE  Adds(s, e, rule.size) /\ Saves(c, i, rule, s, e)
<1> DEFINE n == Len(c)
           cfa == s.sp
           size == rule.size
           saved == rule.bp.where = "memory"
           at == cfa + rule.bp.off
           bp == IF rule.cfa.reg = "bp" THEN cfa - rule.cfa.off ELSE IF saved THEN 0 ELSE s.bp
           m == [a \in (cfa - size) .. (StackTop - 1) |->
                    IF a >= cfa THEN s.mem[a]
                    ELSE IF i < n /\ a = cfa - 1 THEN c[i + 1]
                    ELSE IF saved /\ a = at THEN s.bp ELSE 0]
<1>1. /\ cfa \in Int /\ s.bp \in Int /\ cfa <= StackTop /\ (s.bp = 0 \/ cfa <= s.bp)
      /\ s.mem \in [cfa .. (StackTop - 1) -> Int]
  BY StateHas, Zenon
<1>2. /\ size \in Nat /\ size > 0 /\ rule.cfa.off \in Int /\ rule.bp.off \in Int
      /\ saved => -size <= rule.bp.off /\ rule.bp.off < -1
      /\ rule.cfa.reg = "bp" => rule.cfa.off <= size
  BY Zenon DEF Laid, Rule, Item
<1>3. n \in Nat /\ i \in Nat /\ (i < n => c[i + 1] \in Nat) /\ StackTop \in Nat
  BY CallStackAssumption
<1>4. e = [mem |-> m, sp |-> cfa - size, bp |-> bp]
  BY Zenon DEF Enter
<1>5. e.mem = m /\ e.sp = cfa - size /\ e.bp = bp
  BY <1>4
<1> HIDE DEF cfa, size, n, saved
<1>6. \A a \in (cfa - size) .. (StackTop - 1) :
         a \in Int /\ (a >= cfa => a \in cfa .. (StackTop - 1))
  BY <1>1, <1>2, <1>3
<1>7. \A a \in cfa .. (StackTop - 1) : a \in (cfa - size) .. (StackTop - 1) /\ a >= cfa
  BY <1>1, <1>2, <1>3
<1>8. cfa - 1 \in (cfa - size) .. (StackTop - 1) /\ ~(cfa - 1 >= cfa)
  BY <1>1, <1>2, <1>3
<1>10. ASSUME saved
       PROVE  at \in (cfa - size) .. (StackTop - 1) /\ ~(at >= cfa) /\ at # cfa - 1
  <2> DEFINE off == rule.bp.off
  <2>1. off \in Int /\ -size <= off /\ off < -1
    BY <1>2, <1>10, Zenon
  <2> HIDE DEF off
  <2>2. cfa + off \in (cfa - size) .. (StackTop - 1) /\ ~(cfa + off >= cfa) /\ cfa + off # cfa - 1
    BY <1>1, <1>2, <1>3, <2>1
  <2> QED
    BY <2>2, Zenon DEF off
<1>9. 0 \in Int /\ (i < n => c[i + 1] \in Int)
  BY <1>3
<1>12. m \in [(cfa - size) .. (StackTop - 1) -> Int]
  BY <1>1, <1>6, <1>9, Zenon
<1>13. bp \in Int /\ (bp = 0 \/ cfa - size <= bp) /\ cfa - size \in Int /\ cfa - size <= StackTop
  <2> DEFINE off == rule.cfa.off
             old == s.bp
  <2>1. /\ cfa \in Int /\ cfa <= StackTop /\ StackTop \in Nat /\ size \in Nat
        /\ old \in Int /\ (old = 0 \/ cfa <= old) /\ off \in Int
        /\ rule.cfa.reg = "bp" => off <= size
    BY <1>1, <1>2, <1>3, Zenon
  <2>2. (bp = cfa - off /\ off <= size) \/ bp = 0 \/ bp = old
    BY <2>1, Zenon
  <2> HIDE DEF off, old, bp
  <2> QED
    BY <2>1, <2>2, SMT
<1> HIDE DEF bp
<1>14. e \in StackStates
  <2> HIDE DEF m
  <2> QED
    BY <1>4, <1>12, <1>13, StateIs, Zenon
<1>15. \A a \in cfa .. (StackTop - 1) : m[a] = s.mem[a]
  BY <1>7, Zenon
<1>17. i < n => m[cfa - 1] = c[i + 1]
  BY <1>8, Zenon
<1>18. saved => m[at] = s.bp
  BY <1>10, Zenon
<1>19. Adds(s, e, rule.size)
  BY <1>5, <1>14, <1>15, Zenon DEF Adds, cfa, size
<1> QED
  BY <1>5, <1>17, <1>18, <1>19, ZenonT(30) DEF Saves, cfa, n, saved, bp

\* A chain is a sequence of addresses that does not begin with 0.
LEMMA ChainIs ==
    ASSUME NEW c \in Chains
    PROVE  /\ c \in Seq(Nat) /\ Len(c) \in Nat \ {0} /\ DOMAIN c = 1 .. Len(c) /\ c[1] # 0
           /\ \A i \in 1 .. Len(c) : c[i] \in Nat
           /\ Frames(c) = {i \in 1 .. Len(c) : c[i] # 0}
<1>1. c \in Seq(Nat) /\ c # <<>> /\ c[1] # 0
  BY CallStackAssumption, Zenon
<1>2. DOMAIN c = 1 .. Len(c) /\ Len(c) \in Nat /\ \A i \in 1 .. Len(c) : c[i] \in Nat
  BY <1>1
<1>3. Len(c) # 0
  BY <1>1
<1> QED
  BY <1>1, <1>2, <1>3, Zenon DEF Frames

\* The frames of a conventional stack.
LEMMA FrameIs ==
    ASSUME NEW c \in Chains, Conventional(c), NEW i \in Frames(c)
    PROVE  /\ i \in 1 .. Len(c) /\ c[i] # 0
           /\ Place(c, i) \in DOMAIN Code /\ TrueRule(c, i) = Code[Place(c, i)]
           /\ Laid(TrueRule(c, i)) /\ ConventionalFrame(c, i)
<1>1. Place(c, i) \in DOMAIN Code /\ ConventionalFrame(c, i)
  BY Zenon DEF Conventional
<1>2. TrueRule(c, i) = Code[Place(c, i)]
  BY Zenon DEF TrueRule
<1>3. TrueRule(c, i) \in Rule
  BY <1>1, <1>2, CallStackAssumption, Zenon
<1>4. Laid(TrueRule(c, i))
  <2> DEFINE rule == TrueRule(c, i)
  <2>1. /\ rule.size > 0
        /\ rule.bp.where = "memory" => -rule.size <= rule.bp.off /\ rule.bp.off < -1
        /\ rule.cfa.reg = "bp" => rule.bp.where = "memory" /\ rule.cfa.off <= rule.size
    BY <1>1, Zenon DEF ConventionalFrame
  <2> HIDE DEF rule
  <2>2. rule \in Rule
    BY <1>3, Zenon DEF rule
  <2>3. Laid(rule)
    BY <2>1, <2>2, Zenon DEF Laid
  <2> QED
    BY <2>3, Zenon DEF rule
<1>5. i \in 1 .. Len(c) /\ c[i] # 0
  BY ChainIs, Zenon
<1> QED
  BY <1>1, <1>2, <1>4, <1>5, Zenon

\* A thread begins with such a stack.
LEMMA OutermostIs == Outermost \in StackStates
<1>1. StackTop \in Nat
  BY CallStackAssumption, Zenon
<1>2. EmptyStack \in [StackTop .. (StackTop - 1) -> Int]
  BY <1>1 DEF EmptyStack
<1>3. 0 \in Int /\ StackTop \in Int /\ StackTop <= StackTop
  BY <1>1
<1> QED
  BY <1>2, <1>3, StateIs, Zenon DEF Outermost

\* StacksOf obeys its equation.
LEMMA StacksAre ==
    ASSUME NEW c \in Chains, Conventional(c)
    PROVE  /\ \A i \in 1 .. Len(c) + 1 : StacksOf(c)[i] \in StackStates
           /\ \A i \in Frames(c) : StacksOf(c)[i] = Enter(c, i, StacksOf(c)[i + 1])
<1> DEFINE N == Len(c)
           Step(i, s) == IF i > N \/ c[i] = 0 THEN Outermost ELSE Enter(c, i, s)
           g == [n \in 1 .. N |-> [s \in StackStates |-> Step((N + 1) - n, s)]]
           IsStacks(f) == f = [i \in 1 .. N + 1 |-> Step(i, f[i + 1])]
<1>1. N \in Nat /\ c \in Seq(Nat) /\ Frames(c) = {i \in 1 .. N : c[i] # 0}
  BY ChainIs, Zenon
<1> HIDE DEF N
<1>2. ASSUME NEW i \in 1 .. N, NEW s \in StackStates PROVE Step(i, s) \in StackStates
  <2>1. CASE i > N \/ c[i] = 0
    BY <2>1, OutermostIs, Zenon
  <2>2. CASE ~(i > N \/ c[i] = 0)
    <3>1. i \in Frames(c)
      BY <1>1, <2>2, Zenon
    <3>2. i \in 1 .. Len(c) /\ Laid(TrueRule(c, i))
      BY <3>1, FrameIs, Zenon
    <3>3. Enter(c, i, s) \in StackStates
      BY <1>1, <3>2, EnterIs, ZenonT(30) DEF Adds
    <3> QED
      BY <2>2, <3>3, Zenon
  <2> QED
    BY <2>1, <2>2, Zenon
<1>3. \A n \in 1 .. N : (N + 1) - n \in 1 .. N
  BY <1>1
<1>4. ASSUME NEW n \in 1 .. N PROVE g[n] \in [StackStates -> StackStates]
  <2> HIDE DEF Step
  <2>1. g[n] = [s \in StackStates |-> Step((N + 1) - n, s)]
    BY Zenon
  <2> QED
    BY <1>2, <1>3, <2>1, Zenon
<1>5. PICK f \in [0 .. N -> StackStates] : Follows(f, N, Outermost, g)
  <2> HIDE DEF g
  <2> QED
    BY <1>1, <1>4, OutermostIs, Recursion, Zenon
<1> DEFINE h == [i \in 1 .. N + 1 |-> f[(N + 1) - i]]
<1>6. \A i \in 1 .. N + 1 : (N + 1) - i \in 0 .. N
  BY <1>1
<1>7. \A i \in 1 .. N + 1 : h[i] \in StackStates
  BY <1>5, <1>6, Zenon
<1>8. ASSUME NEW i \in 1 .. N + 1 PROVE h[i] = Step(i, h[i + 1])
  <2>1. CASE i = N + 1
    <3>1. i > N /\ (N + 1) - i = 0
      BY <1>1, <2>1
    <3>2. h[i] = f[0]
      BY <3>1, Zenon
    <3> QED
      BY <1>5, <3>1, <3>2, Zenon DEF Follows
  <2>2. CASE i # N + 1
    <3> DEFINE n == (N + 1) - i
    <3>1. n \in 1 .. N /\ i + 1 \in 1 .. N + 1 /\ (N + 1) - (i + 1) = n - 1 /\ (N + 1) - n = i
      BY <1>1, <2>2
    <3>2. h[i] = f[n] /\ h[i + 1] = f[n - 1]
      BY <3>1, Zenon
    <3>3. h[i + 1] \in StackStates
      BY <1>7, <3>1, Zenon
    <3>4. f[n] = g[n][f[n - 1]]
      <4> HIDE DEF n, g
      <4> QED
        BY <1>5, <3>1, Zenon DEF Follows
    <3> HIDE DEF n, h, Step
    <3>5. g[n] = [s \in StackStates |-> Step((N + 1) - n, s)]
      BY <3>1, Zenon
    <3> HIDE DEF g
    <3> QED
      BY <3>1, <3>2, <3>3, <3>4, <3>5, ZenonT(60)
  <2> QED
    BY <2>1, <2>2, Zenon
<1>9. IsStacks(h)
  <2> HIDE DEF Step
  <2> QED
    BY <1>8, Zenon
<1>10. StacksOf(c) = CHOOSE k : IsStacks(k)
  BY Zenon DEF StacksOf, N
<1>11. IsStacks(StacksOf(c))
  BY <1>9, <1>10, Zenon
<1> DEFINE T == StacksOf(c)
<1>12. \A i \in 1 .. N + 1 : T[i] = Step(i, T[i + 1])
  <2> HIDE DEF T, Step
  <2>1. T = [i \in 1 .. N + 1 |-> Step(i, T[i + 1])]
    BY <1>11, Zenon DEF T
  <2> QED
    BY <2>1, Zenon
<1> HIDE DEF h, IsStacks, g
<1> DEFINE r == [n \in 0 .. N |-> T[(N + 1) - n]]
<1>13. r[0] \in StackStates
  <2>1. N + 1 \in 1 .. N + 1 /\ (N + 1) - 0 = N + 1 /\ N + 1 > N /\ 0 \in 0 .. N
    BY <1>1
  <2>2. T[N + 1] = Outermost
    BY <1>12, <2>1, Zenon
  <2> HIDE DEF T
  <2> QED
    BY <2>1, <2>2, OutermostIs, Zenon
<1>14. ASSUME NEW n \in 1 .. N, r[n - 1] \in StackStates PROVE r[n] \in StackStates
  <2> DEFINE i == (N + 1) - n
  <2>1. /\ i \in 1 .. N /\ i \in 1 .. N + 1 /\ n \in 0 .. N /\ n - 1 \in 0 .. N
        /\ (N + 1) - (n - 1) = i + 1
    BY <1>1
  <2>2. T[i] = Step(i, T[i + 1])
    BY <1>12, <2>1, Zenon
  <2> HIDE DEF T, Step, i
  <2>3. r[n] = T[i] /\ r[n - 1] = T[i + 1]
    BY <2>1, Zenon DEF i
  <2> QED
    BY <1>2, <1>14, <2>1, <2>2, <2>3, Zenon
<1>15. \A n \in 0 .. N : r[n] \in StackStates
  <2> HIDE DEF r
  <2> QED
    BY <1>1, <1>13, <1>14, Inductive, Zenon
<1>16. ASSUME NEW i \in 1 .. N + 1 PROVE T[i] \in StackStates
  <2>1. (N + 1) - i \in 0 .. N /\ (N + 1) - ((N + 1) - i) = i
    BY <1>1
  <2> HIDE DEF T
  <2> QED
    BY <1>15, <2>1, Zenon
<1>17. ASSUME NEW i \in Frames(c) PROVE T[i] = Enter(c, i, T[i + 1])
  <2>1. i \in 1 .. N + 1 /\ ~(i > N) /\ c[i] # 0
    BY <1>1
  <2> QED
    BY <1>12, <2>1, Zenon
<1> QED
  BY <1>16, <1>17, Zenon DEF N

\* Calls only add to a stack, below what is there.
LEMMA CallsAdd ==
    ASSUME NEW c \in Chains, Conventional(c), NEW i \in 1 .. Len(c), NEW T, T = StacksOf(c)
    PROVE  \A j \in 1 .. i :
             /\ T[j].sp <= T[i].sp
             /\ \A a \in T[i].sp .. (StackTop - 1) : T[j].mem[a] = T[i].mem[a]
<1> DEFINE N == i - 1
           S == {s \in StackStates :
                   /\ s.sp <= T[i].sp
                   /\ \A a \in T[i].sp .. (StackTop - 1) : s.mem[a] = T[i].mem[a]}
           h == [n \in 0 .. N |-> T[i - n]]
<1>1. /\ Len(c) \in Nat \ {0} /\ c \in Seq(Nat) /\ DOMAIN c = 1 .. Len(c)
      /\ Frames(c) = {k \in 1 .. Len(c) : c[k] # 0}
  BY ChainIs, Zenon
<1>2. ASSUME NEW k \in 1 .. Len(c), k # Len(c) PROVE k \in Frames(c)
  BY <1>1, <1>2, Zenon DEF Conventional
<1>3. \A k \in 1 .. Len(c) + 1 : T[k] \in StackStates
  BY StacksAre, Zenon
<1>4. N \in Nat /\ i \in Int /\ 0 \in 0 .. N /\ i - 0 = i /\ i \in 1 .. Len(c) + 1
  BY <1>1
<1>5. h[0] \in S
  <2>1. h[0] = T[i] /\ T[i] \in StackStates
    BY <1>3, <1>4, Zenon
  <2>2. T[i].sp <= T[i].sp
    BY <2>1, StateHas
  <2> QED
    BY <2>1, <2>2, Zenon
<1>6. ASSUME NEW n \in 1 .. N, h[n - 1] \in S PROVE h[n] \in S
  <2> DEFINE k == i - n
             s == T[k + 1]
             e == T[k]
             rule == TrueRule(c, k)
  <2>1. /\ k \in 1 .. Len(c) /\ k # Len(c) /\ n \in 0 .. N /\ n - 1 \in 0 .. N
        /\ i - (n - 1) = k + 1 /\ k + 1 \in 1 .. Len(c) + 1
    BY <1>1, <1>4
  <2>2. h[n] = e /\ h[n - 1] = s /\ s \in StackStates
    BY <1>3, <2>1, Zenon
  <2>3. k \in Frames(c)
    BY <1>2, <2>1, Zenon
  <2>4. e = Enter(c, k, s) /\ Laid(rule)
    BY <2>3, StacksAre, FrameIs, Zenon
  <2> HIDE DEF e, s, rule
  <2>5. /\ e \in StackStates /\ e.sp = s.sp - rule.size
        /\ \A a \in s.sp .. (StackTop - 1) : e.mem[a] = s.mem[a]
    <3>1. rule = TrueRule(c, k) /\ k \in 1 .. Len(c)
      BY <2>1, Zenon DEF rule
    <3>2. c \in Seq(Nat)
      BY <1>1, Zenon
    <3>3. s \in StackStates /\ e = Enter(c, k, s) /\ Laid(rule)
      BY <2>2, <2>4, Zenon
    <3> HIDE DEF k
    <3>4. Adds(s, e, rule.size)
      BY <3>1, <3>2, <3>3, EnterIs, ZenonT(30)
    <3> QED
      BY <3>4, Zenon DEF Adds
  <2>6. s.sp \in Int /\ T[i].sp \in Int /\ rule.size \in Nat
    BY <1>3, <1>4, <2>2, <2>4, StateHas, Zenon DEF Laid, Rule
  <2>7. s \in S
    BY <1>6, <2>2, Zenon
  <2>8. s.sp <= T[i].sp /\ \A a \in T[i].sp .. (StackTop - 1) : s.mem[a] = T[i].mem[a]
    BY <2>7, Zenon
  <2>9. e.sp <= T[i].sp
    BY <2>5, <2>6, <2>8
  <2>10. \A a \in T[i].sp .. (StackTop - 1) : a \in s.sp .. (StackTop - 1)
    <3>1. StackTop \in Nat
      BY CallStackAssumption, Zenon
    <3> QED
      BY <2>6, <2>8, <3>1, LowerEnd, Zenon
  <2>11. \A a \in T[i].sp .. (StackTop - 1) : e.mem[a] = T[i].mem[a]
    BY <2>5, <2>8, <2>10, Zenon
  <2> QED
    BY <2>2, <2>5, <2>9, <2>11, Zenon
<1>7. \A n \in 0 .. N : h[n] \in S
  <2> HIDE DEF S, N, h
  <2> QED
    BY <1>4, <1>5, <1>6, Inductive, Zenon
<1>8. ASSUME NEW j \in 1 .. i PROVE T[j] \in S
  <2>1. i - j \in 0 .. N /\ i - (i - j) = j
    BY <1>4
  <2>2. h[i - j] = T[j]
    BY <2>1, Zenon
  <2> HIDE DEF S, h
  <2> QED
    BY <1>7, <2>1, <2>2, Zenon
<1> QED
  BY <1>8, Zenon

\* What frame i of a conventional stack shows of its caller.
LEMMA CallerIs ==
    ASSUME NEW c \in Chains, Conventional(c), NEW i \in 1 .. Len(c), i # Len(c),
           NEW T, T = StacksOf(c), NEW rule, rule = TrueRule(c, i)
    PROVE  /\ i \in Frames(c) /\ i + 1 \in 1 .. Len(c)
           /\ T[i] \in StackStates /\ T[i + 1] \in StackStates
           /\ T[i].sp + rule.size = T[i + 1].sp /\ T[1].sp < T[i + 1].sp
           /\ rule.cfa.reg = "bp" => T[i].bp + rule.cfa.off = T[i + 1].sp
           /\ rule.bp.where # "memory" => T[i].bp = T[i + 1].bp
           /\ T[i + 1].sp - 1 \in DOMAIN T[1].mem /\ T[1].mem[T[i + 1].sp - 1] = c[i + 1]
           /\ rule.bp.where = "memory" =>
                /\ T[i + 1].sp + rule.bp.off \in DOMAIN T[1].mem
                /\ T[1].mem[T[i + 1].sp + rule.bp.off] = T[i + 1].bp
<1> DEFINE e == T[i]
           s == T[i + 1]
           t == T[1]
<1>1. /\ Len(c) \in Nat \ {0} /\ c \in Seq(Nat) /\ DOMAIN c = 1 .. Len(c)
      /\ Frames(c) = {k \in 1 .. Len(c) : c[k] # 0}
  BY ChainIs, Zenon
<1>2. i \in Frames(c)
  BY <1>1, Zenon DEF Conventional
<1>3. /\ i + 1 \in 1 .. Len(c) /\ i \in 1 .. Len(c) + 1 /\ i + 1 \in 1 .. Len(c) + 1
      /\ 1 \in 1 .. Len(c) + 1 /\ i < Len(c) /\ 1 \in 1 .. i
  <2> DEFINE n == Len(c)
  <2>1. n \in Nat /\ i \in 1 .. n /\ i # n
    BY <1>1, Zenon
  <2> HIDE DEF n
  <2>2. /\ i + 1 \in 1 .. n /\ i \in 1 .. n + 1 /\ i + 1 \in 1 .. n + 1
        /\ 1 \in 1 .. n + 1 /\ i < n /\ 1 \in 1 .. i
    BY <2>1
  <2> QED
    BY <2>2, Zenon DEF n
<1>4. e \in StackStates /\ s \in StackStates /\ t \in StackStates /\ e = Enter(c, i, s)
  BY <1>2, <1>3, StacksAre, Zenon
<1>5. Laid(rule)
  BY <1>2, FrameIs, Zenon
<1>6. /\ t.sp <= e.sp
      /\ \A a \in e.sp .. (StackTop - 1) : t.mem[a] = e.mem[a]
  <2>1. \A j \in 1 .. i : /\ T[j].sp <= T[i].sp
                          /\ \A a \in T[i].sp .. (StackTop - 1) : T[j].mem[a] = T[i].mem[a]
    BY CallsAdd
  <2> QED
    BY <1>3, <2>1, Zenon
<1> HIDE DEF e, s, t
<1>7. /\ e.sp = s.sp - rule.size
      /\ e.bp = IF rule.cfa.reg = "bp" THEN s.sp - rule.cfa.off
                ELSE IF rule.bp.where = "memory" THEN 0 ELSE s.bp
      /\ e.mem[s.sp - 1] = c[i + 1]
      /\ rule.bp.where = "memory" => e.mem[s.sp + rule.bp.off] = s.bp
  <2>1. c \in Seq(Nat) /\ i < Len(c)
    BY <1>1, <1>3, Zenon
  <2>2. Adds(s, e, rule.size) /\ Saves(c, i, rule, s, e)
    BY <1>4, <1>5, <2>1, EnterIs, ZenonT(30)
  <2> QED
    BY <2>1, <2>2, Zenon DEF Adds, Saves
<1>8. /\ e.sp \in Int /\ s.sp \in Int /\ t.sp \in Int /\ s.sp <= StackTop /\ StackTop \in Nat
      /\ DOMAIN t.mem = t.sp .. (StackTop - 1)
  BY <1>4, StateHas, CallStackAssumption, Zenon
<1>9. /\ rule.size \in Nat /\ rule.size > 0 /\ rule.bp.off \in Int /\ rule.cfa.off \in Int
      /\ rule.bp.where = "memory" => -rule.size <= rule.bp.off /\ rule.bp.off < -1
      /\ rule.cfa.reg = "bp" => rule.bp.where = "memory"
  BY <1>5, Zenon DEF Laid, Rule, Item
<1>10. /\ e.sp + rule.size = s.sp /\ t.sp < s.sp
       /\ s.sp - 1 \in e.sp .. (StackTop - 1) /\ s.sp - 1 \in t.sp .. (StackTop - 1)
  <2>1. StackTop \in Int
    BY <1>8, SMT
  <2>2. t.sp <= e.sp /\ e.sp = s.sp - rule.size /\ rule.size \in Nat /\ rule.size > 0
    BY <1>6, <1>7, <1>9, Zenon
  <2>3. e.sp \in Int /\ s.sp \in Int /\ t.sp \in Int /\ s.sp <= StackTop
    BY <1>8, Zenon
  <2> QED
    BY <2>1, <2>2, <2>3, FrameNumbers, ZenonT(60)
<1>11. ASSUME rule.cfa.reg = "bp" PROVE e.bp + rule.cfa.off = s.sp
  <2>1. e.bp = s.sp - rule.cfa.off /\ s.sp \in Int /\ rule.cfa.off \in Int
    BY <1>7, <1>8, <1>9, <1>11, Zenon
  <2> QED
    BY <2>1, OutAndBack, Zenon
<1>12. rule.bp.where # "memory" => e.bp = s.bp
  BY <1>7, <1>9, Zenon
<1>14. ASSUME rule.bp.where = "memory"
       PROVE  /\ s.sp + rule.bp.off \in e.sp .. (StackTop - 1)
              /\ s.sp + rule.bp.off \in t.sp .. (StackTop - 1)
  <2>1. StackTop \in Int
    BY <1>8, SMT
  <2> QED
    BY <1>6, <1>7, <1>8, <1>9, <1>14, <2>1, SlotNumbers, ZenonT(60)
<1> QED
  BY <1>2, <1>3, <1>4, <1>6, <1>7, <1>8, <1>10, <1>11, <1>12, <1>14, ZenonT(60) DEF e, s, t

-----------------------------------------------------------------------------
RegValues == [pc : Int, sp : Int, bp : Int, other : Int, call_frame : {0, 1}]

\* Where the caller's rbp is read from can be read; what is found there.
BpReadable(r, rule) == rule.bp.where = "memory" => Cfa(r, rule) + rule.bp.off \in DOMAIN mem

BpBefore(r, rule) == IF rule.bp.where = "memory" THEN mem[Cfa(r, rule) + rule.bp.off] ELSE r.bp

\* What apply_tdep_state leaves, by the reads that succeed.
LEMMA AppliedIs ==
    ASSUME NEW r \in RegValues, NEW rule \in Rule, rule.sp.where # "memory",
           \A x \in DOMAIN mem : mem[x] \in Int, Cfa(r, rule) \in Int,
           NEW a, a = apply_tdep_state(r, TdepFrame(rule))
    PROVE  /\ a.ok <=> BpReadable(r, rule) /\ Cfa(r, rule) - 1 \in DOMAIN mem
           /\ a.ok => a.regs = [r EXCEPT !.bp = BpBefore(r, rule), !.sp = Cfa(r, rule),
                                         !.pc = mem[Cfa(r, rule) - 1]]
           /\ ~a.ok => \/ a.regs = r
                       \/ /\ BpReadable(r, rule)
                          /\ a.regs = [r EXCEPT !.bp = BpBefore(r, rule), !.sp = Cfa(r, rule)]
           /\ a.regs \in RegValues
<1> DEFINE frame == TdepFrame(rule)
           cfa == Cfa(r, rule)
           bp == BpBefore(r, rule)
           saved == rule.bp.where = "memory"
           bpFails == saved /\ cfa + rule.bp.off \notin DOMAIN mem
           raFails == cfa - 1 \notin DOMAIN mem
           withBp == IF saved /\ ~bpFails THEN [r EXCEPT !.bp = mem[cfa + rule.bp.off]] ELSE r
           withSp == [withBp EXCEPT !.sp = cfa]
<1>0. bp = (IF saved THEN mem[cfa + rule.bp.off] ELSE r.bp) /\ (BpReadable(r, rule) <=> ~bpFails)
  BY Zenon DEF BpBefore, BpReadable
<1>1. Cfa(r, frame) = cfa /\ frame.bp = rule.bp /\ frame.sp = rule.sp
  BY Zenon DEF TdepFrame, Cfa
<1> HIDE DEF cfa, bp
<1>2. frame.sp.where # "memory"
  BY <1>1, Zenon
<1>3. a.ok = (~bpFails /\ ~raFails)
  BY <1>1, <1>2, Zenon DEF apply_tdep_state, Readable
<1>4. a.regs = IF bpFails THEN withBp ELSE IF raFails THEN withSp
               ELSE [withSp EXCEPT !.pc = mem[cfa - 1]]
  BY <1>1, <1>2, Zenon DEF apply_tdep_state, Readable
<1>5. CASE bpFails
  <2>1. a.regs = r
    BY <1>4, <1>5, Zenon
  <2> QED
    BY <1>0, <1>3, <1>5, <2>1, Zenon DEF cfa, bp
<1>6. CASE ~bpFails
  <2>0. cfa \in Int
    BY Zenon DEF cfa
  <2>1. r.bp \in Int /\ bp \in Int
    BY <1>0, <1>6, Zenon DEF RegValues
  <2>2. withBp = [r EXCEPT !.bp = bp]
    BY <1>0, <1>6, <2>1, Zenon DEF RegValues
  <2>3. withSp = [r EXCEPT !.bp = bp, !.sp = cfa]
    BY <2>2, Zenon
  <2> HIDE DEF withBp, withSp
  <2>4. raFails => a.regs = [r EXCEPT !.bp = bp, !.sp = cfa]
    BY <1>4, <1>6, <2>3, Zenon
  <2>5. ~raFails => a.regs = [r EXCEPT !.bp = bp, !.sp = cfa, !.pc = mem[cfa - 1]]
    BY <1>4, <1>6, <2>3, Zenon
  <2>6. a.regs \in RegValues
    BY <2>0, <2>1, <2>4, <2>5, Zenon DEF RegValues
  <2> QED
    BY <1>0, <1>3, <1>6, <2>4, <2>5, <2>6, Zenon DEF cfa, bp
<1> QED
  BY <1>5, <1>6, Zenon

\* The words that can be read are those of the stack of c.
InStack(c) ==
    \A x \in DOMAIN mem : x \in DOMAIN Stacks[c].mem /\ mem[x] = Stacks[c].mem[x]

\* The registers of frame i of c, but for the pc.
AtFrame(c, i, r) ==
    /\ r \in RegValues /\ r.other \in Others
    /\ r.sp = StacksOf(c)[i].sp /\ r.bp = StacksOf(c)[i].bp

\* What can be read of the stack of a chain are numbers.
LEMMA MemoryIs ==
    ASSUME NEW c \in Chains, Conventional(c), InStack(c)
    PROVE  /\ Stacks[c] = StacksOf(c)[1] /\ Stacks[c] \in StackStates
           /\ \A x \in DOMAIN mem : mem[x] \in Int
<1>1. Stacks[c] = StacksOf(c)[1]
  BY Zenon DEF Stacks
<1>2. 1 \in 1 .. Len(c) + 1
  BY ChainIs
<1>3. Stacks[c] \in StackStates
  BY <1>1, <1>2, StacksAre, Zenon
<1>4. Stacks[c].mem \in [Stacks[c].sp .. (StackTop - 1) -> Int]
  BY <1>3, StateHas, Zenon
<1>5. ASSUME NEW x \in DOMAIN mem PROVE mem[x] \in Int
  <2>1. x \in DOMAIN Stacks[c].mem /\ mem[x] = Stacks[c].mem[x]
    BY Zenon DEF InStack
  <2> QED
    BY <1>4, <2>1, Zenon
<1> QED
  BY <1>1, <1>3, <1>5, Zenon

\* A rule leads to a CFA above the running function's rsp; one of rsp or rbp to the
\* caller's rsp.
LEMMA CfaIs ==
    ASSUME NEW c \in Chains, Conventional(c), NEW i \in 1 .. Len(c), i # Len(c),
           NEW r, AtFrame(c, i, r), NEW rule, rule = TrueRule(c, i)
    PROVE  /\ Cfa(r, rule) \in Int /\ Cfa(r, rule) > Stacks[c].sp
           /\ rule.cfa.reg \in {"sp", "bp"} => Cfa(r, rule) = StacksOf(c)[i + 1].sp
<1> DEFINE T == StacksOf(c)
           off == rule.cfa.off
<1>1. /\ i \in Frames(c) /\ T[i] \in StackStates /\ T[i + 1] \in StackStates
      /\ T[i].sp + rule.size = T[i + 1].sp /\ T[1].sp < T[i + 1].sp
      /\ rule.cfa.reg = "bp" => T[i].bp + off = T[i + 1].sp
  BY CallerIs
<1>2. ConventionalFrame(c, i) /\ Laid(rule)
  BY <1>1, FrameIs, Zenon
<1>3. rule \in Rule
  BY <1>2, Zenon DEF Laid
<1>4. off \in Int /\ rule.cfa.reg \in {"sp", "bp", "other"}
  BY <1>3, Zenon DEF Rule, Regs
<1>5. /\ rule.cfa.reg = "sp" => off = rule.size
      /\ rule.cfa.reg = "other" => \A o \in Others : o + off > Stacks[c].sp
  BY <1>2, Zenon DEF ConventionalFrame
<1>6. r.sp = T[i].sp /\ r.bp = T[i].bp /\ r.other \in Others /\ r.other \in Int
  BY Zenon DEF AtFrame, RegValues
<1>7. Stacks[c].sp = T[1].sp
  BY Zenon DEF Stacks
<1>8. T[i + 1].sp \in Int
  BY <1>1, StateHas, Zenon
<1> HIDE DEF T, off
<1>9. Cfa(r, rule) = r[rule.cfa.reg] + off
  BY Zenon DEF Cfa, off
<1>10. CASE rule.cfa.reg = "sp"
  <2>1. Cfa(r, rule) = T[i + 1].sp
    BY <1>1, <1>5, <1>6, <1>9, <1>10, Zenon
  <2> QED
    BY <1>1, <1>7, <1>8, <1>10, <2>1, Zenon DEF T
<1>11. CASE rule.cfa.reg = "bp"
  <2>1. Cfa(r, rule) = T[i + 1].sp
    BY <1>1, <1>6, <1>9, <1>11, Zenon
  <2> QED
    BY <1>1, <1>7, <1>8, <1>11, <2>1, Zenon DEF T
<1>12. CASE rule.cfa.reg = "other"
  <2>1. Cfa(r, rule) = r.other + off
    BY <1>9, <1>12, Zenon
  <2> QED
    BY <1>4, <1>5, <1>6, <1>12, <2>1
<1> QED
  BY <1>4, <1>10, <1>11, <1>12, ZenonT(60)

\* The slow path takes the CFA for rsp.
LEMMA SlowSp ==
    ASSUME NEW r \in RegValues, NEW rule
    PROVE  SlowRegs(r, rule).sp = Cfa(r, rule)
  BY Zenon DEF SlowRegs, RegValues

\* The fast path unwinds a standard frame; without it, the slow path ends elsewhere
\* than the running function.
LEMMA StandardFrame ==
    ASSUME NEW c \in Chains, Conventional(c), InStack(c), NEW i \in Frames(c),
           NEW rule, rule = TrueRule(c, i), check_standard_frame(rule),
           NEW r, AtFrame(c, i, r), NEW a, a = apply_tdep_state(r, TdepFrame(rule))
    PROVE  /\ i + 1 \in 1 .. Len(c)
           /\ a.ok => /\ AtFrame(c, i + 1, a.regs) /\ a.regs.pc = c[i + 1]
                      /\ a.regs.call_frame = r.call_frame
           /\ mem = Stacks[c].mem => a.ok
           /\ ~a.ok => SlowRegs(a.regs, rule).sp # Stacks[c].sp
<1> DEFINE T == StacksOf(c)
           cfa == Cfa(r, rule)
           saved == rule.bp.where = "memory"
           bp == BpBefore(r, rule)
           read == BpReadable(r, rule)
<1>1. /\ i \in 1 .. Len(c) /\ Laid(rule) /\ ConventionalFrame(c, i)
  BY FrameIs, Zenon
<1>2. rule.cfa.reg \in {"sp", "bp"} /\ rule.ra.where = "memory"
  BY Zenon DEF check_standard_frame
<1>3. /\ rule.sp.where # "memory" /\ i # Len(c)
      /\ rule.cfa.reg = "sp" => rule.cfa.off = rule.size
      /\ rule.cfa.reg = "bp" => 0 < rule.cfa.off /\ rule.cfa.off < Stacks[c].sp
  BY <1>1, <1>2, Zenon DEF ConventionalFrame
<1>4. rule \in Rule /\ rule.size \in Nat /\ rule.size > 0 /\ rule.cfa.off \in Int
  BY <1>1, ZenonT(60) DEF Laid, Rule
<1>5. /\ i + 1 \in 1 .. Len(c) /\ T[i + 1] \in StackStates /\ T[1].sp < T[i + 1].sp
      /\ ~saved => T[i].bp = T[i + 1].bp
      /\ T[i + 1].sp - 1 \in DOMAIN T[1].mem /\ T[1].mem[T[i + 1].sp - 1] = c[i + 1]
      /\ saved => /\ T[i + 1].sp + rule.bp.off \in DOMAIN T[1].mem
                  /\ T[1].mem[T[i + 1].sp + rule.bp.off] = T[i + 1].bp
  BY <1>1, <1>3, CallerIs
<1>6. /\ cfa \in Int /\ cfa = T[i + 1].sp /\ cfa > Stacks[c].sp
  BY <1>1, <1>2, <1>3, CfaIs, Zenon
<1>7. /\ Stacks[c] = T[1] /\ Stacks[c].sp \in Int /\ \A x \in DOMAIN mem : mem[x] \in Int
  BY MemoryIs, StateHas, Zenon
<1>8. r \in RegValues /\ r.bp = T[i].bp /\ r.other \in Others
  BY Zenon DEF AtFrame
<1>9. /\ T[i + 1].sp \in Int /\ T[i + 1].bp \in Int
      /\ T[i + 1].bp = 0 \/ T[i + 1].sp <= T[i + 1].bp
  BY <1>5, StateHas, Zenon
<1>10. /\ a.ok <=> read /\ cfa - 1 \in DOMAIN mem
       /\ a.ok => a.regs = [r EXCEPT !.bp = bp, !.sp = cfa, !.pc = mem[cfa - 1]]
       /\ ~a.ok => a.regs = r \/ (read /\ a.regs = [r EXCEPT !.bp = bp, !.sp = cfa])
       /\ a.regs \in RegValues
  <2>1. rule \in Rule /\ rule.sp.where # "memory" /\ Cfa(r, rule) \in Int /\ r \in RegValues
    BY <1>3, <1>4, <1>6, <1>8, Zenon
  <2>2. \A x \in DOMAIN mem : mem[x] \in Int
    BY <1>7, Zenon
  <2>3. /\ a.ok <=> read /\ Cfa(r, rule) - 1 \in DOMAIN mem
        /\ a.regs \in RegValues
    BY <2>1, <2>2, AppliedIs, Zenon
  <2>4. a.ok => a.regs = [r EXCEPT !.bp = bp, !.sp = cfa, !.pc = mem[cfa - 1]]
    BY <2>1, <2>2, AppliedIs, ZenonT(60)
  <2>5. ~a.ok => a.regs = r \/ (read /\ a.regs = [r EXCEPT !.bp = bp, !.sp = cfa])
    BY <2>1, <2>2, AppliedIs, Zenon
  <2> QED
    BY <2>3, <2>4, <2>5, Zenon
<1>0. /\ bp = (IF saved THEN mem[cfa + rule.bp.off] ELSE r.bp)
      /\ read <=> (saved => cfa + rule.bp.off \in DOMAIN mem)
  BY Zenon DEF BpBefore, BpReadable
<1> HIDE DEF T, cfa, bp, read
<1>11. read => bp = T[i + 1].bp
  BY <1>0, <1>5, <1>6, <1>7, <1>8, Zenon DEF InStack
<1>12. ASSUME a.ok
       PROVE  /\ AtFrame(c, i + 1, a.regs) /\ a.regs.pc = c[i + 1]
              /\ a.regs.call_frame = r.call_frame
  <2>1. mem[cfa - 1] = c[i + 1]
    BY <1>5, <1>6, <1>7, <1>10, <1>12, ZenonT(60) DEF InStack
  <2>2. bp = T[i + 1].bp
    BY <1>10, <1>11, <1>12, Zenon
  <2> HIDE DEF bp
  <2>3. /\ a.regs.bp = T[i + 1].bp /\ a.regs.sp = T[i + 1].sp /\ a.regs.pc = c[i + 1]
        /\ a.regs.other = r.other /\ a.regs.call_frame = r.call_frame
    BY <1>6, <1>8, <1>10, <1>12, <2>1, <2>2, Zenon DEF RegValues
  <2> QED
    BY <1>8, <1>10, <2>3, Zenon DEF AtFrame, T
<1>13. ASSUME mem = Stacks[c].mem PROVE a.ok
  BY <1>0, <1>5, <1>6, <1>7, <1>10, <1>13, Zenon
<1>14. ASSUME ~a.ok PROVE SlowRegs(a.regs, rule).sp # Stacks[c].sp
  <2>1. SlowRegs(a.regs, rule).sp = Cfa(a.regs, rule)
    BY <1>10, SlowSp, Zenon
  <2>2. CASE a.regs = r
    BY <1>6, <1>7, <2>1, <2>2 DEF cfa
  <2>3. CASE a.regs # r
    <3>1. a.regs.bp = T[i + 1].bp /\ a.regs.sp = T[i + 1].sp
      <4>1. bp = T[i + 1].bp /\ a.regs = [r EXCEPT !.bp = bp, !.sp = cfa]
        BY <1>10, <1>11, <1>14, <2>3, Zenon
      <4> HIDE DEF bp
      <4> QED
        BY <1>6, <1>8, <4>1, Zenon DEF RegValues
    <3>2. Cfa(a.regs, rule) = a.regs[rule.cfa.reg] + rule.cfa.off
      BY Zenon DEF Cfa
    <3>3. CASE rule.cfa.reg = "sp"
      <4>1. Cfa(a.regs, rule) = T[i + 1].sp + rule.size
        BY <1>3, <3>1, <3>2, <3>3, Zenon
      <4>2. T[i + 1].sp \in Int /\ T[i + 1].sp > Stacks[c].sp
        BY <1>6, Zenon
      <4> QED
        BY <1>4, <1>7, <2>1, <4>1, <4>2, SumAbove, Zenon
    <3>4. CASE rule.cfa.reg = "bp"
      <4>1. Cfa(a.regs, rule) = T[i + 1].bp + rule.cfa.off
        BY <3>1, <3>2, <3>4, Zenon
      <4>2. T[i + 1].sp \in Int /\ T[i + 1].sp > Stacks[c].sp
        BY <1>6, Zenon
      <4>3. 0 < rule.cfa.off /\ rule.cfa.off < Stacks[c].sp
        BY <1>3, <3>4, Zenon
      <4> QED
        BY <1>4, <1>7, <1>9, <2>1, <4>1, <4>2, <4>3, SumDiffers, ZenonT(60)
    <3> QED
      BY <1>2, <3>3, <3>4, Zenon
  <2> QED
    BY <2>2, <2>3, Zenon
<1> QED
  BY <1>5, <1>12, <1>13, <1>14, Zenon

\* Of a frame that is not standard the slow path ends elsewhere as well.
LEMMA OtherFrame ==
    ASSUME NEW c \in Chains, Conventional(c), NEW i \in Frames(c),
           NEW rule, rule = TrueRule(c, i), rule.ra.where # "nowhere",
           NEW r, AtFrame(c, i, r)
    PROVE  SlowRegs(r, rule).sp # Stacks[c].sp
<1>1. i \in 1 .. Len(c) /\ ConventionalFrame(c, i)
  BY FrameIs, Zenon
<1>2. i # Len(c)
  BY <1>1, Zenon DEF ConventionalFrame
<1>3. Cfa(r, rule) \in Int /\ Cfa(r, rule) > Stacks[c].sp
  BY <1>1, <1>2, CfaIs, Zenon
<1>4. SlowRegs(r, rule).sp = Cfa(r, rule)
  BY SlowSp, Zenon DEF AtFrame
<1>5. Stacks[c].sp \in Int
  <2>1. Stacks[c] = StacksOf(c)[1] /\ 1 \in 1 .. Len(c) + 1
    BY ChainIs DEF Stacks
  <2> QED
    BY <2>1, StacksAre, StateHas, Zenon
<1> QED
  BY <1>3, <1>4, <1>5

-----------------------------------------------------------------------------
(* The walk's invariant *)

Stages == {"idle", "loop", "frame", "returned", "fault"}

Busy == stage \in {"loop", "frame"}

\* The frame to unwind next.
Pos == IF stage = "loop" THEN Len(entries) + 1 ELSE Len(entries)

\* The cache has frames of the code.
CacheRules ==
    \A p \in DOMAIN cache :
        p \in DOMAIN Code /\ check_standard_frame(Code[p]) /\ cache[p] = TdepFrame(Code[p])

\* The stack is that of the chain; with calls that do not return, it is the first.
StackHere ==
    stage # "idle" =>
        /\ chain \in Chains /\ (Returns(chain) \/ taken = 1)
        /\ InStack(chain) /\ stub.sp = Stacks[chain].sp

\* The registers are those of the frame.  With an empty cache at the beginning,
\* call_frame is set from the second frame on.
RegsHere ==
    Busy =>
        /\ Pos \in 1 .. Len(chain) /\ AtFrame(chain, Pos, regs) /\ regs.pc = chain[Pos]
        /\ Pos = 1 => regs.call_frame = 0
        /\ taken = 1 => IF Pos = 1 THEN DOMAIN cache = {} ELSE regs.call_frame = 1
        /\ ret = 0

\* The last entry is where the frame is looked up; the first backtrace has the
\* addresses of the calls.
EntriesHere ==
    /\ EntriesFollowStack
    /\ taken = 1 => \A i \in DOMAIN entries : entries[i] = Place(chain, i)
    /\ stage = "frame" => get_pc(regs) = entries[Len(entries)]

\* All entries that were asked for; or all frames, which a return address of 0 is not.
Complete ==
    \/ Len(entries) = max
    \/ Len(entries) = IF chain[Len(chain)] = 0 THEN Len(chain) - 1 ELSE Len(chain)

\* The stacks that OrdinaryStacksSucceed is about.
Known(p) == kunw_mod_lookup(p) # 0 /\ HasFde(p) /\ Code[p].bad = "nothing"

Ordinary ==
    /\ max > 0 /\ mem = Stacks[chain].mem
    /\ \A i \in 1 .. Len(chain) : Known(Place(chain, i))
    /\ \A i \in 1 .. Len(chain) - 1 : UsualLayout(TrueRule(chain, i))
    /\ TrueRule(chain, Len(chain)).ra.where = "nowhere"

WalkTypes ==
    /\ stage \in Stages /\ taken \in Nat /\ max \in Nat
    /\ entries \in Seq(Int) /\ Len(entries) <= max
    /\ stage = "idle" => entries = <<>>
    /\ taken = 0 => stage = "idle" /\ DOMAIN cache = {}

Truthful ==
    /\ WalkTypes /\ CacheRules /\ StackHere /\ RegsHere /\ EntriesHere
    /\ Returned /\ ret = 0 => Complete
    /\ stage # "idle" /\ Ordinary => ret = 0

\* Where __unwind_frame looks a frame up, a rule is that of the call.
LEMMA RuleHere ==
    ASSUME Truthful, \A c \in Chains : Conventional(c), stage = "frame",
           NEW p, p = get_pc(regs), p \in DOMAIN Code
    PROVE  Len(entries) \in Frames(chain) /\ Code[p] = TrueRule(chain, Len(entries))
<1> DEFINE i == Len(entries)
<1>1. /\ chain \in Chains /\ (Returns(chain) \/ taken = 1)
  BY Zenon DEF Truthful, StackHere
<1>2. /\ i \in 1 .. Len(chain) /\ regs \in RegValues /\ regs.pc = chain[i]
      /\ i = 1 => regs.call_frame = 0
      /\ taken = 1 /\ i # 1 => regs.call_frame = 1
  BY Zenon DEF Truthful, RegsHere, Busy, Pos, AtFrame
<1>3. /\ Frames(chain) = {k \in 1 .. Len(chain) : chain[k] # 0} /\ Len(chain) \in Nat
      /\ chain[i] \in Nat
  BY <1>1, <1>2, ChainIs, Zenon
<1> HIDE DEF i
<1>4. p = chain[i] - regs.call_frame /\ regs.call_frame \in {0, 1} /\ p \in Nat /\ p # 0
  BY <1>2, CallStackAssumption, Zenon DEF get_pc, RegValues
<1>5. chain[i] # 0
  BY <1>3, <1>4
<1>6. i \in Frames(chain)
  BY <1>2, <1>3, <1>5, Zenon
<1>7. CASE i = 1
  <2>1. p = Place(chain, i)
    BY <1>2, <1>3, <1>4, <1>7 DEF Place
  <2> QED
    BY <1>6, <2>1, Zenon DEF TrueRule, i
<1>8. CASE i # 1 /\ regs.call_frame = 1
  <2>1. p = Place(chain, i)
    BY <1>4, <1>8, Zenon DEF Place
  <2> QED
    BY <1>6, <2>1, Zenon DEF TrueRule, i
<1>9. CASE i # 1 /\ regs.call_frame = 0
  <2>1. p = chain[i] /\ Returns(chain) /\ i \in 2 .. Len(chain)
    BY <1>1, <1>2, <1>3, <1>4, <1>9
  <2>2. Code[chain[i]] = TrueRule(chain, i)
    BY <1>5, <2>1, Zenon DEF Returns
  <2> QED
    BY <1>6, <2>1, <2>2, Zenon DEF i
<1> QED
  BY <1>4, <1>7, <1>8, <1>9, Zenon

\* On an ordinary stack every frame is known where it is looked up.
LEMMA KnownHere ==
    ASSUME Truthful, \A c \in Chains : Conventional(c), stage = "frame", Ordinary,
           NEW p, p = get_pc(regs)
    PROVE  Known(p)
<1> DEFINE i == Len(entries)
<1>1. /\ chain \in Chains /\ (Returns(chain) \/ taken = 1)
  BY Zenon DEF Truthful, StackHere
<1>2. /\ i \in 1 .. Len(chain) /\ regs \in RegValues /\ regs.pc = chain[i]
      /\ i = 1 => regs.call_frame = 0
      /\ taken = 1 /\ i # 1 => regs.call_frame = 1
  BY Zenon DEF Truthful, RegsHere, Busy, Pos, AtFrame
<1>3. Len(chain) \in Nat /\ chain[i] \in Nat
  BY <1>1, <1>2, ChainIs, Zenon
<1> HIDE DEF i
<1>4. p = chain[i] - regs.call_frame /\ regs.call_frame \in {0, 1}
  BY <1>2, Zenon DEF get_pc, RegValues
<1>5. Known(Place(chain, i))
  BY <1>2, Zenon DEF Ordinary
<1>6. CASE i = 1 \/ regs.call_frame = 1
  <2>1. p = Place(chain, i)
    BY <1>2, <1>3, <1>4, <1>6 DEF Place
  <2> QED
    BY <1>5, <2>1, Zenon
<1>7. CASE i # 1 /\ regs.call_frame = 0
  <2>1. p = chain[i] /\ Returns(chain) /\ i \in 2 .. Len(chain) /\ Place(chain, i) = chain[i] - 1
    BY <1>1, <1>2, <1>3, <1>4, <1>7 DEF Place
  <2>2. chain[i] # 0
    <3>1. chain[i] - 1 \in DOMAIN Code
      BY <1>5, <2>1, Zenon DEF Known, HasFde
    <3>2. chain[i] - 1 \in Nat
      BY <3>1, CallStackAssumption, Zenon
    <3> QED
      BY <3>2
  <2>3. CASE chain[i] \in DOMAIN Code
    <3>1. /\ Code[chain[i]] = TrueRule(chain, i)
          /\ kunw_mod_lookup(chain[i]) = kunw_mod_lookup(chain[i] - 1)
          /\ kunw_mod_lookup(chain[i]) # 0 => chain[i] < Modules[kunw_mod_lookup(chain[i])].end
      BY <2>1, <2>2, <2>3, Zenon DEF Returns
    <3> DEFINE m == kunw_mod_lookup(chain[i])
    <3>2. /\ m # 0 /\ ~Code[chain[i]].past /\ Code[chain[i]].bad = "nothing"
          /\ Modules[m].table /\ chain[i] - 1 >= Modules[m].first
      BY <1>5, <2>1, <3>1, Zenon DEF Known, HasFde, TrueRule
    <3>3. Modules[m].first \in Nat
      <4>1. m \in DOMAIN Modules
        <5> DEFINE hits == {k \in DOMAIN Modules : chain[i] >= Modules[k].start
                                                  /\ chain[i] <= Modules[k].end}
        <5>1. m = IF hits = {} THEN 0 ELSE CHOOSE k \in hits : \A j \in hits : k <= j
          BY Zenon DEF kunw_mod_lookup
        <5> QED BY <3>2, <5>1
      <4> QED BY <4>1, CallStackAssumption, Zenon
    <3> HIDE DEF m
    <3>4. chain[i] >= Modules[m].first
      BY <1>3, <3>2, <3>3, SMT
    <3> QED
      BY <2>1, <2>3, <3>1, <3>2, <3>4, Zenon DEF Known, HasFde, m
  <2>4. CASE chain[i] \notin DOMAIN Code
    <3>1. ~UsualLayout(TrueRule(chain, i)) /\ TrueRule(chain, i).ra.where # "nowhere"
      BY <2>1, <2>2, <2>4, Zenon DEF Returns
    <3>2. i \in 1 .. Len(chain) - 1 \/ i = Len(chain)
      BY <1>2, <1>3
    <3> QED
      BY <3>1, <3>2, Zenon DEF Ordinary
  <2> QED
    BY <2>3, <2>4, Zenon
<1> QED
  BY <1>4, <1>6, <1>7, Zenon

\* What a step of __unwind_frame and the end of unwind_full leave alone.
Kept == UNCHANGED <<chain, mem, stub, max, entries, taken, caller>>

\* unwind_full returns.
LEMMA Ends ==
    ASSUME Truthful, Busy, Kept, stage' = "returned", CacheRules',
           ret' = 0 => Complete, Ordinary => ret' = 0
    PROVE  Truthful'
<1>1. stage # "idle" /\ stage' # "idle" /\ stage' # "frame" /\ ~Busy'
  BY Zenon DEF Busy
<1>2. taken # 0
  BY <1>1, Zenon DEF Truthful, WalkTypes
<1>3. WalkTypes'
  BY <1>1, <1>2, Zenon DEF Truthful, WalkTypes, Kept, Stages
<1>4. StackHere'
  BY <1>1, Zenon DEF Truthful, StackHere, Kept, InStack, Returns
<1>5. RegsHere'
  BY <1>1, Zenon DEF RegsHere
<1>6. EntriesHere'
  BY <1>1, Zenon DEF Truthful, EntriesHere, EntriesFollowStack, Kept
<1>7. (Returned /\ ret = 0 => Complete)'
  BY Zenon DEF Complete, Kept
<1>8. (stage # "idle" /\ Ordinary => ret = 0)'
  BY Zenon DEF Ordinary, Kept
<1> QED
  BY <1>3, <1>4, <1>5, <1>6, <1>7, <1>8, Zenon DEF Truthful

\* unwind_full goes on with the caller's frame.
LEMMA GoesOn ==
    ASSUME Truthful, stage = "frame", Kept, stage' = "loop", ret' = 0, CacheRules',
           NEW i, i = Len(entries), i + 1 \in 1 .. Len(chain),
           AtFrame(chain, i + 1, regs'), regs'.pc = chain[i + 1],
           taken = 1 => regs'.call_frame = 1
    PROVE  Truthful'
<1>1. stage # "idle" /\ stage' # "idle" /\ stage' # "frame" /\ Busy
  BY Zenon DEF Busy
<1>2. taken # 0
  BY <1>1, Zenon DEF Truthful, WalkTypes
<1>3. WalkTypes'
  BY <1>1, <1>2, Zenon DEF Truthful, WalkTypes, Kept, Stages
<1>4. StackHere'
  BY <1>1, Zenon DEF Truthful, StackHere, Kept, InStack, Returns
<1>5. RegsHere'
  <2>1. Pos' = i + 1 /\ i + 1 # 1
    <3>1. i \in 1 .. Len(chain)
      BY <1>1, Zenon DEF Truthful, RegsHere, Pos
    <3> QED
      BY <3>1 DEF Pos, Kept
  <2>2. chain' = chain /\ taken' = taken
    BY Zenon DEF Kept
  <2>3. AtFrame(chain, i + 1, regs)' = AtFrame(chain, i + 1, regs')
    BY <2>2, Zenon DEF AtFrame
  <2> QED
    BY <2>1, <2>2, <2>3, Zenon DEF RegsHere
<1>6. EntriesHere'
  BY <1>1, Zenon DEF Truthful, EntriesHere, EntriesFollowStack, Kept
<1>7. (Returned /\ ret = 0 => Complete)'
  BY Zenon DEF Returned
<1> QED
  BY <1>3, <1>4, <1>5, <1>6, <1>7, Zenon DEF Truthful

\* What Outcome makes of a return value.
LEMMA OutcomeIs ==
    ASSUME NEW r \in Int, Outcome(r)
    PROVE  /\ r = 0 => stage' = "loop" /\ ret' = 0
           /\ r # 0 => stage' = "returned" /\ (ret' = 0 <=> r = 2)
  BY DEF Outcome, Return, EFAULT

\* A pc outside of every module ends the walk with an error, and the stack was not
\* ordinary.
LEMMA NoModuleTrue ==
    ASSUME Truthful, \A c \in Chains : Conventional(c), NoModule
    PROVE  Truthful'
<1>1. stage = "frame" /\ Busy /\ Kept /\ UNCHANGED cache /\ Outcome(EINVAL)
  BY Zenon DEF NoModule, Kept, Busy
<1>2. stage' = "returned" /\ ret' # 0
  BY <1>1, OutcomeIs DEF EINVAL
<1>3. ~Ordinary
  BY <1>1, KnownHere, Zenon DEF NoModule, Known
<1>4. CacheRules'
  BY <1>1, Zenon DEF Truthful, CacheRules
<1> QED
  BY <1>1, <1>2, <1>3, <1>4, Ends, Zenon

\* Nor was it when there is no rule for the pc.
LEMMA NoRuleTrue ==
    ASSUME Truthful, \A c \in Chains : Conventional(c), NoRule
    PROVE  Truthful'
<1>1. stage = "frame" /\ Busy /\ Kept /\ UNCHANGED cache
  BY Zenon DEF NoRule, Missed, InModule, Kept, Busy
<1>2. stage' = "returned" /\ ret' # 0
  BY OutcomeIs DEF NoRule, EIO
<1>3. ~Ordinary
  BY <1>1, KnownHere, Zenon DEF NoRule, Known, HasFde, Module
<1>4. CacheRules'
  BY <1>1, Zenon DEF Truthful, CacheRules
<1> QED
  BY <1>1, <1>2, <1>3, <1>4, Ends, Zenon

\* Or only one that the unwinder refuses.
LEMMA BadRuleTrue ==
    ASSUME Truthful, \A c \in Chains : Conventional(c), BadRule
    PROVE  Truthful'
<1>1. stage = "frame" /\ Busy /\ Kept /\ UNCHANGED cache /\ Outcome(EIO)
  BY Zenon DEF BadRule, Missed, InModule, Kept, Busy
<1>2. stage' = "returned" /\ ret' # 0
  BY <1>1, OutcomeIs DEF EIO
<1>3. ~Ordinary
  <2>1. Code[get_pc(regs)].bad # "nothing"
    BY DEF BadRule
  <2> QED
    BY <1>1, <2>1, KnownHere, Zenon DEF Known
<1>4. CacheRules'
  BY <1>1, Zenon DEF Truthful, CacheRules
<1> QED
  BY <1>1, <1>2, <1>3, <1>4, Ends, Zenon

\* A search that reads through NULL ends the thread with the entries it has.
LEMMA SearchFaultsTrue ==
    ASSUME Truthful, SearchFaults
    PROVE  Truthful'
<1>1. /\ stage = "frame" /\ stage' = "fault" /\ Kept /\ UNCHANGED <<cache, ret>>
  BY Zenon DEF SearchFaults, Missed, InModule, Kept
<1>2. taken # 0
  BY <1>1, Zenon DEF Truthful, WalkTypes
<1>3. WalkTypes'
  BY <1>1, <1>2, Zenon DEF Truthful, WalkTypes, Kept, Stages
<1>4. StackHere'
  BY <1>1, Zenon DEF Truthful, StackHere, Kept, InStack, Returns
<1>5. RegsHere'
  BY <1>1, Zenon DEF RegsHere, Busy
<1>6. EntriesHere'
  BY <1>1, Zenon DEF Truthful, EntriesHere, EntriesFollowStack, Kept
<1>7. CacheRules'
  BY <1>1, Zenon DEF Truthful, CacheRules
<1>8. (Returned /\ ret = 0 => Complete)'
  BY <1>1, Zenon DEF Returned
<1>9. (stage # "idle" /\ Ordinary => ret = 0)'
  BY <1>1, Zenon DEF Truthful, Ordinary, Kept
<1> QED
  BY <1>3, <1>4, <1>5, <1>6, <1>7, <1>8, <1>9, Zenon DEF Truthful

\* unwind_full stops with success only at max_entries or at the end of the stack.
LEMMA StopTrue ==
    ASSUME Truthful, \A c \in Chains : Conventional(c), Stop
    PROVE  Truthful'
<1> DEFINE n == Len(entries)
<1>1. stage = "loop" /\ Busy /\ Kept /\ UNCHANGED cache /\ Return(ret)
  BY Zenon DEF Stop, Kept, Busy
<1>2. /\ ret = 0 /\ n + 1 \in 1 .. Len(chain) /\ regs.pc = chain[n + 1] /\ regs \in RegValues
      /\ n + 1 = 1 => regs.call_frame = 0
  BY <1>1, Zenon DEF Truthful, RegsHere, Pos, AtFrame
<1>3. stage' = "returned" /\ ret' = 0
  BY <1>1, <1>2, Zenon DEF Return
<1>4. Complete
  <2>1. CASE n >= max
    BY <2>1 DEF Truthful, WalkTypes, Complete
  <2>2. CASE get_pc(regs) = 0
    <3>1. chain \in Chains /\ Conventional(chain)
      BY <1>1, Zenon DEF Truthful, StackHere
    <3>2. chain[n + 1] \in Nat /\ Len(chain) \in Nat /\ DOMAIN chain = 1 .. Len(chain)
      BY <1>2, <3>1, ChainIs, Zenon
    <3>3. chain[n + 1] - regs.call_frame = 0 /\ regs.call_frame \in {0, 1}
      BY <1>2, <2>2, Zenon DEF get_pc, RegValues
    <3>4. CASE chain[n + 1] = 0
      <4>1. n + 1 = Len(chain)
        BY <1>2, <3>1, <3>2, <3>4, Zenon DEF Conventional
      <4>2. n \in Nat
        BY DEF Truthful, WalkTypes
      <4> QED
        BY <3>4, <4>1, <4>2 DEF Complete
    <3>5. CASE chain[n + 1] # 0
      <4>1. n + 1 # 1 /\ chain[n + 1] = 1
        BY <1>2, <3>2, <3>3, <3>5
      <4>2. n + 1 \in Frames(chain)
        BY <1>2, <3>1, <3>5, ChainIs, Zenon
      <4>3. Place(chain, n + 1) \in DOMAIN Code
        BY <3>1, <4>2, FrameIs, Zenon
      <4>4. Place(chain, n + 1) = 0
        BY <4>1 DEF Place
      <4> QED
        BY <4>3, <4>4, CallStackAssumption, Zenon
    <3> QED
      BY <3>4, <3>5, Zenon
  <2> QED
    BY <2>1, <2>2, Zenon DEF Stop
<1>5. CacheRules'
  BY <1>1, Zenon DEF Truthful, CacheRules
<1> QED
  BY <1>1, <1>3, <1>4, <1>5, Ends, Zenon

\* The frame that is looked up, when the code has a rule there.
LEMMA FrameHere ==
    ASSUME Truthful, \A c \in Chains : Conventional(c), stage = "frame",
           get_pc(regs) \in DOMAIN Code
    PROVE  /\ chain \in Chains /\ Conventional(chain) /\ InStack(chain)
           /\ stub.sp = Stacks[chain].sp /\ Busy
           /\ Len(entries) \in Frames(chain) /\ AtFrame(chain, Len(entries), regs)
           /\ Code[get_pc(regs)] = TrueRule(chain, Len(entries))
           /\ taken = 1 => IF Len(entries) = 1 THEN DOMAIN cache = {} ELSE regs.call_frame = 1
<1>1. chain \in Chains /\ InStack(chain) /\ stub.sp = Stacks[chain].sp
  BY Zenon DEF Truthful, StackHere
<1>2. /\ AtFrame(chain, Len(entries), regs) /\ Busy
      /\ taken = 1 => IF Len(entries) = 1 THEN DOMAIN cache = {} ELSE regs.call_frame = 1
  BY Zenon DEF Truthful, RegsHere, Busy, Pos
<1>3. Len(entries) \in Frames(chain) /\ Code[get_pc(regs)] = TrueRule(chain, Len(entries))
  BY RuleHere, Zenon
<1> QED
  BY <1>1, <1>2, <1>3, Zenon

\* The fast path goes on to the caller's frame, or fails at an absent word.
LEMMA CachedTrue ==
    ASSUME Truthful, \A c \in Chains : Conventional(c), Cached
    PROVE  Truthful'
<1> DEFINE p == get_pc(regs)
           i == Len(entries)
           rule == TrueRule(chain, i)
           a == apply_tdep_state(regs, TdepFrame(rule))
<1>1. stage = "frame" /\ p \in DOMAIN cache /\ Kept /\ UNCHANGED cache
  BY Zenon DEF Cached, InModule, Kept
<1>2. p \in DOMAIN Code /\ check_standard_frame(Code[p]) /\ cache[p] = TdepFrame(Code[p])
  BY <1>1, Zenon DEF Truthful, CacheRules
<1>3. /\ chain \in Chains /\ Conventional(chain) /\ InStack(chain) /\ Busy
      /\ i \in Frames(chain) /\ AtFrame(chain, i, regs) /\ Code[p] = rule
      /\ taken = 1 => IF i = 1 THEN DOMAIN cache = {} ELSE regs.call_frame = 1
  BY <1>1, <1>2, FrameHere, Zenon
<1>4. check_standard_frame(rule) /\ cache[p] = TdepFrame(rule)
  BY <1>2, <1>3, Zenon
<1>5. /\ regs' = a.regs
      /\ Outcome(IF ~a.ok THEN EIO ELSE IF TdepFrame(rule).last THEN 2 ELSE 0)
  BY <1>4, Zenon DEF Cached
<1>6. ~TdepFrame(rule).last
  BY <1>4, Zenon DEF TdepFrame, check_standard_frame
<1>7. /\ i + 1 \in 1 .. Len(chain)
      /\ a.ok => /\ AtFrame(chain, i + 1, a.regs) /\ a.regs.pc = chain[i + 1]
                 /\ a.regs.call_frame = regs.call_frame
      /\ mem = Stacks[chain].mem => a.ok
  <2>1. rule = TrueRule(chain, i) /\ a = apply_tdep_state(regs, TdepFrame(rule))
    BY Zenon
  <2> HIDE DEF i, rule, a, p
  <2>2. /\ chain \in Chains /\ Conventional(chain) /\ InStack(chain) /\ i \in Frames(chain)
        /\ check_standard_frame(rule) /\ AtFrame(chain, i, regs)
    BY <1>3, <1>4, Zenon
  <2> QED
    BY <2>1, <2>2, StandardFrame
<1> HIDE DEF a, rule, p, i
<1>8. CacheRules'
  BY <1>1, Zenon DEF Truthful, CacheRules
<1>9. CASE a.ok
  <2>1. stage' = "loop" /\ ret' = 0
    <3>1. Outcome(0)
      BY <1>5, <1>6, <1>9, Zenon
    <3> QED
      BY <3>1, OutcomeIs
  <2>2. taken = 1 => regs'.call_frame = 1
    BY <1>1, <1>3, <1>5, <1>7, <1>9, Zenon
  <2>3. AtFrame(chain, i + 1, regs') /\ regs'.pc = chain[i + 1]
    BY <1>5, <1>7, <1>9, Zenon
  <2> QED
    BY <1>1, <1>7, <1>8, <2>1, <2>2, <2>3, GoesOn, Zenon DEF i
<1>10. CASE ~a.ok
  <2>1. Outcome(EIO)
    BY <1>5, <1>10, Zenon
  <2>2. stage' = "returned" /\ ret' # 0
    BY <2>1, OutcomeIs DEF EIO
  <2>3. ~Ordinary
    BY <1>7, <1>10, Zenon DEF Ordinary
  <2> QED
    BY <1>1, <1>3, <1>8, <2>2, <2>3, Ends, Zenon
<1> QED
  BY <1>9, <1>10, Zenon

\* Setting call_frame leaves the other registers.
LEMMA WithCallFrameIs ==
    ASSUME NEW c, NEW i, AtFrame(c, i, regs), NEW rule \in Rule
    PROVE  /\ AtFrame(c, i, WithCallFrame(regs, rule))
           /\ WithCallFrame(regs, rule).call_frame = rule.call_frame
<1>1. rule.call_frame \in {0, 1}
  BY Zenon DEF Rule
<1>2. regs \in RegValues
  BY Zenon DEF AtFrame
<1> QED
  BY <1>1, <1>2, Zenon DEF AtFrame, WithCallFrame, RegValues

\* A standard frame may be added to the cache and leads to the caller's; when a word is
\* absent, the slow path does not end where it began, which is -EIO.
LEMMA StandardTrue ==
    ASSUME Truthful, \A c \in Chains : Conventional(c), Standard
    PROVE  Truthful'
<1> DEFINE p == get_pc(regs)
           i == Len(entries)
           rule == TrueRule(chain, i)
           r == WithCallFrame(regs, rule)
           a == apply_tdep_state(r, TdepFrame(rule))
<1>1. stage = "frame" /\ p \in DOMAIN Code /\ Kept
  BY Zenon DEF Standard, HasRule, Missed, InModule, HasFde, Kept
<1>2. /\ chain \in Chains /\ Conventional(chain) /\ InStack(chain) /\ Busy
      /\ stub.sp = Stacks[chain].sp
      /\ i \in Frames(chain) /\ AtFrame(chain, i, regs) /\ Code[p] = rule
  BY <1>1, FrameHere, Zenon
<1>3. /\ check_standard_frame(rule)
      /\ \/ cache' = [q \in DOMAIN cache \cup {p} |->
                          IF q = p THEN TdepFrame(rule) ELSE cache[q]]
         \/ cache' = cache
      /\ IF a.ok THEN regs' = a.regs /\ Outcome(0) ELSE SlowPath(a.regs, rule)
  BY <1>2, Zenon DEF Standard
<1>4. rule \in Rule /\ ConventionalFrame(chain, i)
  BY <1>2, FrameIs, Zenon DEF Laid
<1>5. rule.ra.where = "memory" /\ UsualLayout(rule)
  BY <1>3, Zenon DEF check_standard_frame, UsualLayout
<1>6. rule.call_frame = 1
  BY <1>4, <1>5, Zenon DEF ConventionalFrame
<1>7. AtFrame(chain, i, r) /\ r.call_frame = 1
  <2> HIDE DEF rule
  <2> QED
    BY <1>2, <1>4, <1>6, WithCallFrameIs, Zenon
<1>8. /\ i + 1 \in 1 .. Len(chain)
      /\ a.ok => /\ AtFrame(chain, i + 1, a.regs) /\ a.regs.pc = chain[i + 1]
                 /\ a.regs.call_frame = r.call_frame
      /\ mem = Stacks[chain].mem => a.ok
      /\ ~a.ok => SlowRegs(a.regs, rule).sp # Stacks[chain].sp
  <2>1. rule = TrueRule(chain, i) /\ a = apply_tdep_state(r, TdepFrame(rule))
    BY Zenon
  <2> HIDE DEF i, rule, r, a, p
  <2>2. /\ chain \in Chains /\ Conventional(chain) /\ InStack(chain) /\ i \in Frames(chain)
        /\ check_standard_frame(rule) /\ AtFrame(chain, i, r)
    BY <1>2, <1>3, <1>7, Zenon
  <2> QED
    BY <2>1, <2>2, StandardFrame
<1> HIDE DEF a, r
<1>9. CacheRules'
  <2> HIDE DEF p, rule
  <2> QED
    BY <1>1, <1>2, <1>3, Zenon DEF Truthful, CacheRules
<1> HIDE DEF rule, p, i
<1>10. CASE a.ok
  <2>1. stage' = "loop" /\ ret' = 0
    BY <1>3, <1>10, OutcomeIs
  <2>2. regs'.call_frame = 1 /\ AtFrame(chain, i + 1, regs') /\ regs'.pc = chain[i + 1]
    BY <1>3, <1>7, <1>8, <1>10, Zenon
  <2> QED
    BY <1>1, <1>8, <1>9, <2>1, <2>2, GoesOn, Zenon DEF i
<1>11. CASE ~a.ok
  <2>1. Outcome(EIO) \/ Outcome(IF SameAsStub(SlowRegs(a.regs, rule)) THEN 0 ELSE EIO)
    BY <1>3, <1>5, <1>11, Zenon DEF SlowPath
  <2>2. ~SameAsStub(SlowRegs(a.regs, rule))
    BY <1>2, <1>8, <1>11, Zenon DEF SameAsStub
  <2>3. Outcome(EIO)
    BY <2>1, <2>2, Zenon
  <2>4. stage' = "returned" /\ ret' # 0
    BY <2>3, OutcomeIs DEF EIO
  <2>5. ~Ordinary
    BY <1>8, <1>11, Zenon DEF Ordinary
  <2> QED
    BY <1>1, <1>2, <1>9, <2>4, <2>5, Ends, Zenon
<1> QED
  BY <1>10, <1>11, Zenon

\* The slow path ends the walk: at the outermost frame with success, elsewhere with
\* -EIO.
LEMMA NotStandardTrue ==
    ASSUME Truthful, \A c \in Chains : Conventional(c), NotStandard
    PROVE  Truthful'
<1> DEFINE p == get_pc(regs)
           i == Len(entries)
           rule == TrueRule(chain, i)
           r == WithCallFrame(regs, rule)
<1>1. stage = "frame" /\ p \in DOMAIN Code /\ Kept /\ UNCHANGED cache
  BY Zenon DEF NotStandard, HasRule, Missed, InModule, HasFde, Kept
<1>2. /\ chain \in Chains /\ Conventional(chain) /\ Busy
      /\ stub.sp = Stacks[chain].sp
      /\ i \in Frames(chain) /\ AtFrame(chain, i, regs) /\ Code[p] = rule
  BY <1>1, FrameHere, Zenon
<1>3. ~check_standard_frame(rule) /\ SlowPath(r, rule)
  BY <1>2, Zenon DEF NotStandard
<1>4. /\ rule \in Rule /\ ConventionalFrame(chain, i) /\ i \in 1 .. Len(chain)
      /\ chain[i] # 0
  BY <1>2, FrameIs, Zenon DEF Laid
<1>5. AtFrame(chain, i, r)
  <2> HIDE DEF rule
  <2> QED
    BY <1>2, <1>4, WithCallFrameIs, Zenon
<1>6. CacheRules'
  BY <1>1, Zenon DEF Truthful, CacheRules
<1>7. CASE rule.ra.where = "nowhere"
  <2>1. Outcome(2)
    BY <1>3, <1>7, Zenon DEF SlowPath
  <2>2. stage' = "returned" /\ ret' = 0
    BY <2>1, OutcomeIs
  <2>3. i = Len(chain)
    BY <1>4, <1>7, Zenon DEF ConventionalFrame
  <2>4. Complete
    BY <1>4, <2>3, Zenon DEF Complete
  <2> QED
    BY <1>1, <1>2, <1>6, <2>2, <2>4, Ends, Zenon
<1>8. CASE rule.ra.where # "nowhere"
  <2>1. Outcome(EIO) \/ Outcome(IF SameAsStub(SlowRegs(r, rule)) THEN 0 ELSE EIO)
    BY <1>3, <1>8, Zenon DEF SlowPath
  <2>2. ~SameAsStub(SlowRegs(r, rule))
    <3>1. SlowRegs(r, rule).sp # Stacks[chain].sp
      <4> HIDE DEF r, rule, i
      <4>1. rule = TrueRule(chain, i)
        BY Zenon DEF rule
      <4> QED
        BY <1>2, <1>5, <1>8, <4>1, OtherFrame, Zenon
    <3> QED
      BY <1>2, <3>1, Zenon DEF SameAsStub
  <2>3. Outcome(EIO)
    BY <2>1, <2>2, Zenon
  <2>4. stage' = "returned" /\ ret' # 0
    BY <2>3, OutcomeIs DEF EIO
  <2>5. ~Ordinary
    <3>1. ASSUME Ordinary PROVE FALSE
      <4>1. i # Len(chain)
        BY <1>8, <3>1, Zenon DEF Ordinary
      <4>2. i \in 1 .. Len(chain) - 1
        BY <1>2, <1>4, <4>1, ChainIs
      <4>3. UsualLayout(rule)
        BY <3>1, <4>2, Zenon DEF Ordinary
      <4>4. rule.sp.where \in Wheres /\ rule.bp.where \in Wheres
        BY <1>4, Zenon DEF Rule, Item
      <4> QED
        BY <1>3, <4>3, <4>4, Zenon DEF UsualLayout, check_standard_frame
    <3> QED
      BY <3>1, Zenon
  <2> QED
    BY <1>1, <1>2, <1>6, <2>4, <2>5, Ends, Zenon
<1> QED
  BY <1>7, <1>8, Zenon

\* unwind_full writes the address the frame is then looked up at.
LEMMA RecordTrue ==
    ASSUME Truthful, Record
    PROVE  Truthful'
<1> DEFINE n == Len(entries)
           p == get_pc(regs)
<1>1. /\ stage = "loop" /\ stage' = "frame" /\ entries' = Append(entries, p)
      /\ n < max
      /\ UNCHANGED <<caller, chain, mem, regs, stub, max, ret, cache, taken>>
  BY Zenon DEF Record
<1>2. /\ n \in Nat /\ n + 1 \in 1 .. Len(chain) /\ AtFrame(chain, n + 1, regs)
      /\ regs.pc = chain[n + 1] /\ regs \in RegValues /\ ret = 0
      /\ n + 1 = 1 => regs.call_frame = 0
      /\ taken = 1 => IF n + 1 = 1 THEN DOMAIN cache = {} ELSE regs.call_frame = 1
  BY <1>1 DEF Truthful, WalkTypes, RegsHere, Busy, Pos, AtFrame
<1>3. chain \in Chains /\ chain[n + 1] \in Nat /\ DOMAIN chain = 1 .. Len(chain)
  BY <1>1, <1>2, ChainIs, Zenon DEF Truthful, StackHere
<1>4. p = chain[n + 1] - regs.call_frame /\ regs.call_frame \in {0, 1} /\ p \in Int
  BY <1>2, <1>3 DEF get_pc, RegValues
<1> HIDE DEF p, n
<1>5. entries \in Seq(Int) /\ taken # 0
  BY <1>1, Zenon DEF Truthful, WalkTypes
<1>6. /\ entries' \in Seq(Int) /\ Len(entries') = n + 1 /\ DOMAIN entries' = 1 .. n + 1
      /\ entries'[n + 1] = p /\ \A i \in 1 .. n : entries'[i] = entries[i]
      /\ DOMAIN entries = 1 .. n
  BY <1>1, <1>4, <1>5 DEF n
<1>7. WalkTypes'
  BY <1>1, <1>2, <1>5, <1>6 DEF Truthful, WalkTypes, Stages
<1>8. CacheRules'
  BY <1>1, Zenon DEF Truthful, CacheRules
<1>9. StackHere'
  BY <1>1, Zenon DEF Truthful, StackHere, InStack, Returns
<1>10. RegsHere'
  <2>1. Pos' = n + 1
    BY <1>1, <1>6, Zenon DEF Pos
  <2>2. AtFrame(chain', n + 1, regs')
    BY <1>1, <1>2, Zenon
  <2> QED
    BY <1>1, <1>2, <2>1, <2>2, Zenon DEF RegsHere, AtFrame
<1>11. EntriesHere'
  <2>1. ASSUME NEW i \in 1 .. n + 1
        PROVE  /\ i \in DOMAIN chain
               /\ entries'[i] \in IF i = 1 THEN {chain[1]} ELSE {chain[i], chain[i] - 1}
               /\ taken = 1 => entries'[i] = Place(chain, i)
    <3>1. CASE i \in 1 .. n
      BY <1>6, <3>1, Zenon DEF Truthful, EntriesHere, EntriesFollowStack
    <3>2. CASE i = n + 1
      <4>1. i \in DOMAIN chain /\ entries'[i] = chain[i] - regs.call_frame
        BY <1>2, <1>3, <1>4, <1>6, <3>2, Zenon
      <4>2. /\ i = 1 => regs.call_frame = 0
            /\ taken = 1 /\ i # 1 => regs.call_frame = 1
            /\ chain[i] \in Nat
        BY <1>2, <1>3, <3>2, Zenon
      <4> QED
        BY <1>4, <4>1, <4>2 DEF Place
    <3> QED
      BY <1>2, <3>1, <3>2
  <2>2. chain' = chain /\ taken' = taken /\ get_pc(regs)' = p
    BY <1>1, Zenon DEF p, get_pc
  <2> QED
    BY <1>6, <2>1, <2>2, Zenon DEF EntriesHere, EntriesFollowStack, Place
<1>12. ~Returned' /\ ret' = 0
  BY <1>1, <1>2, Zenon DEF Returned
<1> QED
  BY <1>7, <1>8, <1>9, <1>10, <1>11, <1>12, Zenon DEF Truthful

\* The registers at the beginning are those of the running function.
LEMMA BeginTrue ==
    ASSUME Truthful, stage = "idle", NEW c \in Chains, Returns(c) \/ taken = 0,
           NEW who, NEW n \in MaxEntries, NEW o \in Others, NEW absent,
           Conventional(c), Begin(c, who, n, o, absent)
    PROVE  Truthful'
<1> DEFINE s == Stacks[c]
           start == [pc |-> c[1], sp |-> s.sp, bp |-> s.bp, other |-> o, call_frame |-> 0]
<1>1. /\ taken' = taken + 1 /\ chain' = c
      /\ mem' = [a \in DOMAIN s.mem \ absent |-> s.mem[a]]
      /\ regs' = start /\ stub' = start /\ entries' = <<>> /\ cache' = cache
      /\ max' = IF who = "ioctl" /\ n > EntriesLimit THEN EntriesLimit ELSE n
      /\ ret' = IF n = 0 THEN EINVAL ELSE 0
      /\ stage' = IF n = 0 THEN "returned" ELSE "loop"
  BY Zenon DEF Begin
<1>2. n \in Nat /\ EntriesLimit \in Nat \ {0} /\ o \in Int
  BY UnwindWalkAssumption, Zenon
<1>3. max' \in Nat /\ (max' = 0 <=> n = 0)
  BY <1>1, <1>2
<1>4. /\ c[1] \in Nat /\ 1 \in 1 .. Len(c)
  BY ChainIs
<1>5. s = StacksOf(c)[1] /\ s \in StackStates
  <2>1. 1 \in 1 .. Len(c) + 1
    BY ChainIs
  <2> QED
    BY <2>1, StacksAre, Zenon DEF Stacks
<1>6. s.sp \in Int /\ s.bp \in Int
  BY <1>5, StateHas, Zenon
<1>7. AtFrame(c, 1, start)
  <2>1. start \in RegValues
    BY <1>2, <1>4, <1>6 DEF RegValues
  <2> QED
    BY <1>5, <2>1, Zenon DEF AtFrame
<1>8. start.pc = c[1] /\ start.call_frame = 0 /\ start.sp = s.sp
  BY Zenon
<1> HIDE DEF start, s
<1>9. taken \in Nat /\ (taken = 0 => DOMAIN cache = {})
  BY Zenon DEF Truthful, WalkTypes
<1>10. entries' \in Seq(Int) /\ Len(entries') = 0 /\ DOMAIN entries' = {}
  BY <1>1
<1>11. WalkTypes'
  BY <1>1, <1>3, <1>9, <1>10 DEF WalkTypes, Stages
<1>12. CacheRules'
  BY <1>1, Zenon DEF Truthful, CacheRules
<1>13. StackHere'
  <2>1. InStack(c)'
    BY <1>1, Zenon DEF InStack, s
  <2>2. stub'.sp = Stacks[c].sp
    BY <1>1, <1>8, Zenon DEF s
  <2>3. Returns(c) \/ taken' = 1
    BY <1>1
  <2>4. chain' = c
    BY <1>1, Zenon
  <2> QED
    BY <2>1, <2>2, <2>3, <2>4, Zenon DEF StackHere, InStack, Returns
<1>14. RegsHere'
  <2>1. SUFFICES ASSUME Busy' PROVE RegsHere'
    BY Zenon DEF RegsHere
  <2>2. stage' = "loop" /\ n # 0 /\ ret' = 0
    BY <1>1, <2>1, Zenon DEF Busy
  <2>3. Pos' = 1
    BY <1>10, <2>2 DEF Pos
  <2>4. AtFrame(c, 1, regs)'
    BY <1>1, <1>7, Zenon DEF AtFrame
  <2>5. regs'.pc = c[1] /\ regs'.call_frame = 0
    BY <1>1, <1>8, Zenon
  <2>6. taken' = 1 => DOMAIN cache' = {}
    BY <1>1, <1>9
  <2>7. chain' = c
    BY <1>1, Zenon
  <2> QED
    BY <1>4, <2>2, <2>3, <2>4, <2>5, <2>6, <2>7, Zenon DEF RegsHere
<1>15. EntriesHere'
  BY <1>1, <1>10, Zenon DEF EntriesHere, EntriesFollowStack
<1>16. ret' = 0 <=> n # 0
  BY <1>1 DEF EINVAL
<1>17. (Returned /\ ret = 0 => Complete)'
  BY <1>1, <1>16, Zenon DEF Returned
<1>18. (stage # "idle" /\ Ordinary => ret = 0)'
  BY <1>3, <1>16 DEF Ordinary
<1> QED
  BY <1>11, <1>12, <1>13, <1>14, <1>15, <1>17, <1>18, Zenon DEF Truthful

\* Between two backtraces, all that matters is the cache.
LEMMA IdleTrue ==
    ASSUME stage = "idle", entries = <<>>, max = 0, taken \in Nat,
           taken = 0 => DOMAIN cache = {}, CacheRules
    PROVE  Truthful
<1>1. entries \in Seq(Int) /\ Len(entries) = 0 /\ DOMAIN entries = {}
  OBVIOUS
<1> QED
  BY <1>1 DEF Truthful, WalkTypes, StackHere, RegsHere, EntriesHere, EntriesFollowStack,
              Returned, Busy, Stages

\* The caller of a backtrace that has returned leaves the cache.
LEMMA ForgetTrue ==
    ASSUME Truthful, Forget
    PROVE  Truthful'
<1>1. stage' = "idle" /\ entries' = <<>> /\ max' = 0 /\ cache' = cache /\ taken' = taken
  BY Zenon DEF Forget
<1>2. taken' \in Nat /\ (taken' = 0 => DOMAIN cache' = {}) /\ CacheRules'
  BY <1>1, Zenon DEF Truthful, WalkTypes, CacheRules
<1>3. entries' \in Seq(Int) /\ Len(entries') = 0 /\ DOMAIN entries' = {}
  BY <1>1
<1>4. WalkTypes' /\ StackHere' /\ RegsHere' /\ EntriesHere'
  BY <1>1, <1>2, <1>3 DEF WalkTypes, StackHere, RegsHere, EntriesHere, EntriesFollowStack,
                          Busy, Stages
<1> QED
  BY <1>1, <1>2, <1>4, Zenon DEF Truthful, Returned

\* A step that leaves the variables leaves the invariant.
LEMMA StuttersTrue ==
    ASSUME Truthful, UNCHANGED walkVars
    PROVE  Truthful'
<1> USE DEF walkVars
<1>1. WalkTypes' /\ CacheRules'
  BY Zenon DEF Truthful, WalkTypes, CacheRules
<1>2. StackHere'
  BY Zenon DEF Truthful, StackHere, InStack, Returns
<1>3. RegsHere'
  BY Zenon DEF Truthful, RegsHere, Busy, Pos, AtFrame
<1>4. EntriesHere'
  BY Zenon DEF Truthful, EntriesHere, EntriesFollowStack, Place, get_pc
<1>5. (Returned /\ ret = 0 => Complete)' /\ (stage # "idle" /\ Ordinary => ret = 0)'
  BY Zenon DEF Truthful, Returned, Complete, Ordinary
<1> QED
  BY <1>1, <1>2, <1>3, <1>4, <1>5, Zenon DEF Truthful

\* Every step of the walk keeps the invariant.
LEMMA NextTrue ==
    ASSUME Truthful, \A c \in Chains : Conventional(c), [ColdNext]_walkVars
    PROVE  Truthful'
<1>1. CASE Backtrace({c \in Chains : Returns(c) \/ taken = 0})
  <2>1. /\ stage = "idle"
        /\ \E c \in {c \in Chains : Returns(c) \/ taken = 0} : \E absent \in Absences(c) :
             \E who \in {"ioctl", "trace"}, n \in MaxEntries, o \in Others :
                Begin(c, who, n, o, absent)
    BY <1>1, Zenon DEF Backtrace
  <2>2. PICK c \in Chains : /\ Returns(c) \/ taken = 0
                            /\ \E absent \in Absences(c) :
                                 \E who \in {"ioctl", "trace"}, n \in MaxEntries, o \in Others :
                                    Begin(c, who, n, o, absent)
    BY <2>1, Zenon
  <2>3. PICK absent \in Absences(c) :
              \E who \in {"ioctl", "trace"}, n \in MaxEntries, o \in Others :
                 Begin(c, who, n, o, absent)
    BY <2>2, Zenon
  <2>4. PICK who \in {"ioctl", "trace"}, n \in MaxEntries, o \in Others :
              Begin(c, who, n, o, absent)
    BY <2>3, Zenon
  <2>5. Conventional(c)
    BY Zenon
  <2> QED
    BY <2>1, <2>2, <2>4, <2>5, BeginTrue, Zenon
<1>2. CASE Forget
  BY <1>2, ForgetTrue, Zenon
<1>3. CASE Stop
  BY <1>3, StopTrue, Zenon
<1>4. CASE Record
  BY <1>4, RecordTrue, Zenon
<1>5. CASE NoModule
  BY <1>5, NoModuleTrue, Zenon
<1>6. CASE Cached
  BY <1>6, CachedTrue, Zenon
<1>7. CASE NoRule
  BY <1>7, NoRuleTrue, Zenon
<1>8. CASE Standard
  BY <1>8, StandardTrue, Zenon
<1>9. CASE NotStandard
  BY <1>9, NotStandardTrue, Zenon
<1>10. CASE SearchFaults
  BY <1>10, SearchFaultsTrue, Zenon
<1>11. CASE BadRule
  BY <1>11, BadRuleTrue, Zenon
<1>12. CASE UNCHANGED walkVars
  BY <1>12, StuttersTrue, Zenon
<1> QED
  BY <1>1, <1>2, <1>3, <1>4, <1>5, <1>6, <1>7, <1>8, <1>9, <1>10, <1>11, <1>12, Zenon
  DEF ColdNext, Work

\* Truthful is an invariant of unwind_full, for all code, modules, stacks that follow
\* the conventions, limits and numbers of backtraces.
THEOREM WalkIsTruthful ==
    ASSUME \A c \in Chains : Conventional(c)
    PROVE  ColdSpec => []Truthful
<1>1. WalkInit => Truthful
  BY IdleTrue DEF WalkInit, CacheRules
<1>2. Truthful /\ [ColdNext]_walkVars => Truthful'
  BY NextTrue, Zenon
<1> QED
  BY <1>1, <1>2, PTL DEF ColdSpec

\* On every stack that follows the conventions, whichever word is absent and
\* however unwind_full ends, the entries are the stack up to where it stopped.
THEOREM WalkFollowsStack ==
    ASSUME \A c \in Chains : Conventional(c)
    PROVE  ColdSpec => []EntriesFollowStack
<1>1. Truthful => EntriesFollowStack
  BY Zenon DEF Truthful, EntriesHere
<1>2. ColdSpec => []Truthful
  BY WalkIsTruthful, Zenon
<1> QED
  BY <1>1, <1>2, PTL

\* A stack of standard frames of known functions, with no word absent, is unwound
\* with success, through the fast path or __unwind_frame.
THEOREM WalkOrdinaryStacksSucceed ==
    ASSUME \A c \in Chains : Conventional(c)
    PROVE  ColdSpec => []OrdinaryStacksSucceed
<1>1. Truthful => OrdinaryStacksSucceed
  BY Zenon DEF Truthful, Ordinary, Known, Returned, OrdinaryStacksSucceed
<1>2. ColdSpec => []Truthful
  BY WalkIsTruthful, Zenon
<1> QED
  BY <1>1, <1>2, PTL

\* With an empty cache every entry is attributed to the function that made the call.
THEOREM WalkColdFunctions ==
    ASSUME \A c \in Chains : Conventional(c)
    PROVE  ColdSpec => []ColdFunctions
<1>1. Truthful => ColdFunctions
  BY Zenon DEF Truthful, EntriesHere, EntriesFollowStack, ColdFunctions, SameFunctions, TrueRule
<1>2. ColdSpec => []Truthful
  BY WalkIsTruthful, Zenon
<1> QED
  BY <1>1, <1>2, PTL

-----------------------------------------------------------------------------
(* The number of frames *)

INSTANCE FiniteSetTheorems

\* The frames of a conventional chain are all its members, or all but a last 0.
LEMMA FramesAre ==
    ASSUME NEW c \in Chains, Conventional(c)
    PROVE  /\ c[Len(c)] # 0 => Cardinality(Frames(c)) = Len(c)
           /\ c[Len(c)] = 0 => Cardinality(Frames(c)) = Len(c) - 1
<1> DEFINE n == Len(c)
<1>1. n \in Nat \ {0} /\ DOMAIN c = 1 .. n /\ Frames(c) = {i \in 1 .. n : c[i] # 0}
  BY ChainIs, Zenon
<1>2. \A i \in 1 .. n : c[i] = 0 => i = n
  BY <1>1, Zenon DEF Conventional
<1> HIDE DEF n
<1>3. Cardinality(1 .. n) = n /\ Cardinality(1 .. (n - 1)) = n - 1
  <2>1. /\ 1 \in Int /\ n \in Int /\ n - 1 \in Int /\ ~(1 > n) /\ n - 1 + 1 = n
        /\ (IF 1 > n - 1 THEN 0 ELSE (n - 1) - 1 + 1) = n - 1
    BY <1>1
  <2> QED
    BY <2>1, FS_Interval, Zenon
<1>4. c[n] # 0 => Frames(c) = 1 .. n
  BY <1>1, <1>2, Zenon
<1>5. c[n] = 0 => Frames(c) = 1 .. (n - 1)
  BY <1>1, <1>2
<1> QED
  BY <1>3, <1>4, <1>5, Zenon DEF n

\* unwind_full returns 0 only when it has recorded the whole stack or as much as
\* max_entries allows.
THEOREM WalkSuccessIsComplete ==
    ASSUME \A c \in Chains : Conventional(c)
    PROVE  ColdSpec => []SuccessIsComplete
<1>1. ASSUME Truthful PROVE SuccessIsComplete
  <2>1. SUFFICES ASSUME Returned, ret = 0
                 PROVE  Len(entries) = max \/ Len(entries) = Cardinality(Frames(chain))
    BY Zenon DEF SuccessIsComplete
  <2>2. Complete /\ chain \in Chains /\ Conventional(chain)
    BY <1>1, <2>1, Zenon DEF Truthful, StackHere, Returned
  <2> QED
    BY <2>2, FramesAre, Zenon DEF Complete
<1>2. ColdSpec => []Truthful
  BY WalkIsTruthful, Zenon
<1> QED
  BY <1>1, <1>2, PTL
=============================================================================
