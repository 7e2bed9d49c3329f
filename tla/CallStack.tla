------------------------------ MODULE CallStack ------------------------------
(***************************************************************************)
(* The user program an unwind looks at: its code, the unwind rules its compiler *)
(* wrote for every code address (what running the CIE's and the FDE's CFI        *)
(* instructions for that pc leaves in unwind_reg_state), and its stack.         *)
(* The stack counts in words: what is 8 bytes in the code is 1 here.            *)
(*                                                                         *)
(* A chain is the truth an unwind should find: the pc of the running function,   *)
(* then the return address of every call, innermost first.  The last one is in   *)
(* the function the thread began in.  StacksOf lays the chain out in memory the   *)
(* way calls and function prologues do.                                       *)
(***************************************************************************)
EXTENDS Integers, Sequences

CONSTANTS
    Code,       \* code address |-> rule
    Modules,    \* the list stp_modules: vm_start and vm_end of the vma of each, whether
                \* its eh_frame_hdr has a search table, the first address the table knows
    Chains,     \* the chains the program's threads can be at
    StackTop    \* the address above the stack

Regs == {"sp", "bp", "other"}
Wheres == {"same", "nowhere", "memory"}
Item == [where : Wheres, off : Int]

\* fn: the function (not known to the unwinder); size: words of its frame at this
\* address; past: the address lies behind the function the table finds for it;
\* call_frame: 0 in a signal trampoline; bad: what the unwinder refuses in the CIE and
\* the FDE, if anything: how they are written or their return address register, their
\* CFI instructions, or the CFA these lead to.
Rule == [fn : STRING, size : Nat, past : BOOLEAN, call_frame : {0, 1},
         bad : {"nothing", "entry", "program", "cfa"},
         cfa : [reg : Regs, off : Int], bp : Item, sp : Item, ra : Item]

ASSUME CallStackAssumption ==
    /\ Code \in [DOMAIN Code -> Rule] /\ DOMAIN Code \subseteq Nat \ {0}
    /\ \A i \in DOMAIN Modules :
         Modules[i].start < Modules[i].end /\ Modules[i].first \in Nat
    /\ \A c \in Chains : c \in Seq(Nat) /\ c # <<>> /\ c[1] # 0
    /\ StackTop \in Nat

Frames(chain) == {i \in DOMAIN chain : chain[i] # 0}

\* Where frame i of the chain is: at the pc, or at the call instruction before a
\* return address; and the rule there.
Place(chain, i) == IF i = 1 THEN chain[1] ELSE chain[i] - 1

TrueRule(chain, i) == Code[Place(chain, i)]

EmptyStack == [a \in {} |-> 0]

\* A thread begins with an empty stack and bp = 0.
Outermost == [mem |-> EmptyStack, sp |-> StackTop, bp |-> 0]

\* Memory, sp and bp of frame i, called by one with memory, sp and bp as in c: the
\* return address and the saved bp are on top of what the caller had.
Enter(chain, i, c) ==
    LET rule == TrueRule(chain, i)
        cfa == c.sp
    IN  [mem |-> [a \in (cfa - rule.size) .. (StackTop - 1) |->
                    IF a >= cfa THEN c.mem[a]
                    ELSE IF i < Len(chain) /\ a = cfa - 1 THEN chain[i + 1]
                    ELSE IF rule.bp.where = "memory" /\ a = cfa + rule.bp.off THEN c.bp
                    ELSE 0],
         sp |-> cfa - rule.size,
         bp |-> IF rule.cfa.reg = "bp" THEN cfa - rule.cfa.off
                ELSE IF rule.bp.where = "memory" THEN 0 ELSE c.bp]

\* Memory, sp and bp while frame i runs or waits for frame i - 1 to return.
StacksOf(chain) ==
    LET frame[i \in 1 .. Len(chain) + 1] ==
            IF i > Len(chain) \/ chain[i] = 0 THEN Outermost
            ELSE LET c == frame[i + 1] IN Enter(chain, i, c)
    IN  frame

Stacks == [c \in Chains |-> StacksOf(c)[1]]
=============================================================================
