------------------------------ MODULE UnwindWalk ------------------------------
(***************************************************************************)
(* The unwinding of a stack: unwind_full, unwind_frame and __unwind_frame of     *)
(* src/src/unwind.c, with the frame cache in front of the slow path, called by   *)
(* kunwind_backtrace_ioctl and by save_stack_trace_kunwind.                    *)
(*                                                                         *)
(* The threads of the process take backtraces one after another, each at some    *)
(* chain of calls.  All share one cache, which only grows while the file is open  *)
(* (UnwCache shows that a lookup yields a frame computed for its pc).            *)
(* A stack page may be absent: _stp_read_address then fails.                    *)
(***************************************************************************)
EXTENDS CallStack, FiniteSets

CONSTANTS
    EntriesLimit,       \* entries_limit
    MaxEntries,         \* the max_entries a caller may ask for
    Others,             \* values the remaining registers may hold
    MaxBacktraces       \* bound: how many backtraces are taken

ASSUME UnwindWalkAssumption ==
    /\ EntriesLimit \in Nat \ {0} /\ MaxEntries \subseteq Nat
    /\ Others \subseteq Int /\ MaxBacktraces \in Nat

VARIABLES
    caller,     \* who called do_current_unwind
    chain,      \* the chain of calls the thread is at
    mem,        \* its stack
    regs,       \* context.info: pc, sp, bp, another register, call_frame
    stub,       \* context.stub
    max,        \* bt.max_entries
    entries,    \* bt.entries, up to bt.nr_entries
    ret,        \* what the last call returned
    stage,
    cache,      \* unw_cache: pc |-> tdep_frame
    taken       \* backtraces begun

walkVars == <<caller, chain, mem, regs, stub, max, entries, ret, stage, cache, taken>>

EIO == -5
EFAULT == -14
EINVAL == -22

NoRegs == [pc |-> 0, sp |-> 0, bp |-> 0, other |-> 0, call_frame |-> 0]

WalkInit ==
    /\ caller = "none" /\ chain = <<>> /\ mem = EmptyStack
    /\ regs = NoRegs /\ stub = NoRegs
    /\ max = 0 /\ entries = <<>> /\ ret = 0
    /\ stage = "idle" /\ cache = [p \in {} |-> 0] /\ taken = 0

-----------------------------------------------------------------------------
(* One frame *)

get_pc(r) == r.pc - r.call_frame

\* kunw_mod_lookup: the first module of the list whose vma holds the pc, both
\* ends included; 0 when there is none.
kunw_mod_lookup(pc) ==
    LET hits == {i \in DOMAIN Modules : pc >= Modules[i].start /\ pc <= Modules[i].end}
    IN  IF hits = {} THEN 0 ELSE CHOOSE i \in hits : \A j \in hits : i <= j

\* The module's search table knows the functions of its own vma, from the first one on.
HasFde(pc) ==
    LET m == Modules[kunw_mod_lookup(pc)]
    IN  m.table /\ pc >= m.first /\ pc \in DOMAIN Code /\ pc < m.end /\ ~Code[pc].past

check_standard_frame_SpOnly(rule) ==
    /\ rule.cfa.reg = "sp"
    /\ rule.ra.where = "memory" /\ rule.ra.off = -1
    /\ rule.sp.where \in Wheres /\ rule.bp.where \in Wheres

check_standard_frame(rule) ==
    /\ rule.cfa.reg \in {"bp", "sp"}
    /\ rule.ra.where = "memory" /\ rule.ra.off = -1
    /\ rule.sp.where \in Wheres /\ rule.bp.where \in Wheres

\* What save_tdep_frame keeps of a rule.
TdepFrame(rule) ==
    [cfa |-> rule.cfa, bp |-> rule.bp, sp |-> rule.sp, last |-> rule.ra.where = "nowhere"]

Readable(a) == a \in DOMAIN mem

Cfa(r, rule) == r[rule.cfa.reg] + rule.cfa.off

\* apply_tdep_state: bp, sp, then the return address, stopping at the first read
\* that fails; the registers restored before it stay so.
apply_tdep_state(r, frame) ==
    LET cfa == Cfa(r, frame)
        bpFails == frame.bp.where = "memory" /\ ~Readable(cfa + frame.bp.off)
        withBp == IF frame.bp.where = "memory" /\ ~bpFails
                  THEN [r EXCEPT !.bp = mem[cfa + frame.bp.off]] ELSE r
        spFails == frame.sp.where = "memory" /\ ~Readable(cfa + frame.sp.off)
        withSp == IF spFails THEN withBp
                  ELSE [withBp EXCEPT !.sp = IF frame.sp.where = "memory"
                                             THEN mem[cfa + frame.sp.off] ELSE cfa]
        raFails == ~Readable(cfa - 1)
    IN  [ok |-> ~bpFails /\ ~spFails /\ ~raFails,
         regs |-> IF bpFails \/ spFails THEN withBp
                  ELSE IF raFails THEN withSp ELSE [withSp EXCEPT !.pc = mem[cfa - 1]]]

\* The register loop of the slow path; a read that fails leaves the register.
SlowRegs(r, rule) ==
    LET cfa == Cfa(r, rule)
        Restore(item, old) ==
            CASE item.where = "same" -> old
              [] item.where = "nowhere" -> 0
              [] item.where = "memory" ->
                    IF Readable(cfa + item.off) THEN mem[cfa + item.off] ELSE old
    IN  [r EXCEPT !.bp = Restore(rule.bp, @), !.sp = cfa, !.pc = Restore(rule.ra, @)]

SameAsStub(r) == r.pc = stub.pc /\ r.sp = stub.sp /\ r.bp = stub.bp

-----------------------------------------------------------------------------
(* The callers *)

\* kunwind_backtrace_ioctl and save_stack_trace_kunwind up to unwind_full.
Begin(c, who, n, other, absent) ==
    LET s == Stacks[c]
        start == [pc |-> c[1], sp |-> s.sp, bp |-> s.bp, other |-> other, call_frame |-> 0]
    IN  /\ taken' = taken + 1
        /\ caller' = who /\ chain' = c
        /\ mem' = [a \in DOMAIN s.mem \ absent |-> s.mem[a]]
        /\ regs' = start /\ stub' = start
        /\ max' = IF who = "ioctl" /\ n > EntriesLimit THEN EntriesLimit ELSE n
        /\ entries' = <<>>
        /\ ret' = IF n = 0 THEN EINVAL ELSE 0
        /\ stage' = IF n = 0 THEN "returned" ELSE "loop"
        /\ UNCHANGED cache

\* The caller has its answer; the context and the buffer are gone.
Forget ==
    /\ stage = "returned"
    /\ caller' = "none" /\ chain' = <<>> /\ mem' = EmptyStack
    /\ regs' = NoRegs /\ stub' = NoRegs
    /\ max' = 0 /\ entries' = <<>> /\ ret' = 0
    /\ stage' = "idle"
    /\ UNCHANGED <<cache, taken>>

\* unwind_full returns; the ioctl reports any failure as -EFAULT, and hands out the
\* entries only when there is none.  The stack trace takes the entries it has.
Return(r) ==
    LET result == IF r = 2 THEN 0 ELSE r
    IN  /\ stage' = "returned"
        /\ ret' = IF caller = "ioctl" /\ result # 0 THEN EFAULT ELSE result

-----------------------------------------------------------------------------
(* unwind_full's loop *)

Stop ==
    /\ stage = "loop"
    /\ Len(entries) >= max \/ get_pc(regs) = 0
    /\ Return(ret)
    /\ UNCHANGED <<caller, chain, mem, regs, stub, max, entries, cache, taken>>

Record_OffByOne ==
    /\ stage = "loop"
    /\ Len(entries) <= max /\ get_pc(regs) # 0
    /\ entries' = Append(entries, get_pc(regs))
    /\ stage' = "frame"
    /\ UNCHANGED <<caller, chain, mem, regs, stub, max, ret, cache, taken>>

Record ==
    /\ stage = "loop"
    /\ Len(entries) < max /\ get_pc(regs) # 0
    /\ entries' = Append(entries, get_pc(regs))
    /\ stage' = "frame"
    /\ UNCHANGED <<caller, chain, mem, regs, stub, max, ret, cache, taken>>

Outcome_RetriesNoRule(r) ==
    IF r = 0 THEN stage' = "loop" /\ ret' = 0
    ELSE IF r = 1 THEN stage' = "frame" /\ ret' = r ELSE Return(r)

\* The frame's outcome: 0 goes round the loop again.
Outcome(r) ==
    IF r = 0 THEN stage' = "loop" /\ ret' = 0 ELSE Return(r)

NoModule_IsTheEnd ==
    /\ stage = "frame" /\ kunw_mod_lookup(get_pc(regs)) = 0
    /\ Outcome(2)
    /\ UNCHANGED <<caller, chain, mem, regs, stub, max, entries, cache, taken>>

NoModule ==
    /\ stage = "frame" /\ kunw_mod_lookup(get_pc(regs)) = 0
    /\ Outcome(EINVAL)
    /\ UNCHANGED <<caller, chain, mem, regs, stub, max, entries, cache, taken>>

InModule == stage = "frame" /\ kunw_mod_lookup(get_pc(regs)) # 0

\* The fast path.
Cached ==
    /\ InModule /\ get_pc(regs) \in DOMAIN cache
    /\ LET frame == cache[get_pc(regs)]
           a == apply_tdep_state(regs, frame)
       IN  /\ regs' = a.regs
           /\ Outcome(IF ~a.ok THEN EIO ELSE IF frame.last THEN 2 ELSE 0)
    /\ UNCHANGED <<caller, chain, mem, stub, max, entries, cache, taken>>

Missed == InModule /\ get_pc(regs) \notin DOMAIN cache

Module == Modules[kunw_mod_lookup(get_pc(regs))]

\* No search table; or the FDE it has for the pc is that of a function that ends before
\* it, as for a pc at the module's vm_end.
NoRule ==
    /\ Missed
    /\ \/ ~Module.table /\ Outcome(EIO)
       \/ /\ Module.table /\ get_pc(regs) >= Module.first
          /\ ~HasFde(get_pc(regs)) /\ Outcome(1)
    /\ UNCHANGED <<caller, chain, mem, regs, stub, max, entries, cache, taken>>

\* Before the first function the search ends with a read through NULL.  Nothing of the
\* thread comes after that.
SearchFaults ==
    /\ Missed /\ Module.table /\ get_pc(regs) < Module.first
    /\ stage' = "fault"
    /\ UNCHANGED <<caller, chain, mem, regs, stub, max, entries, ret, cache, taken>>

WithCallFrame_Forgotten(r, rule) == r

WithCallFrame(r, rule) == [r EXCEPT !.call_frame = rule.call_frame]

\* call_frame is set before the CFI instructions are run.
BadRule ==
    /\ Missed /\ HasFde(get_pc(regs))
    /\ LET rule == Code[get_pc(regs)]
       IN  \/ rule.bad = "entry" /\ regs' = regs
           \/ rule.bad = "program" /\ regs' = WithCallFrame(regs, rule)
    /\ Outcome(EIO)
    /\ UNCHANGED <<caller, chain, mem, stub, max, entries, cache, taken>>

HasRule ==
    Missed /\ HasFde(get_pc(regs)) /\ Code[get_pc(regs)].bad \in {"nothing", "cfa"}

SlowPath_NoStubTest(r, rule) ==
    IF rule.ra.where = "nowhere"
    THEN regs' = r /\ Outcome(2)
    ELSE IF rule.bad = "cfa" THEN regs' = r /\ Outcome(EIO)
    ELSE regs' = SlowRegs(r, rule) /\ Outcome(0)

\* slow_path: the CFA must come from a good register, or an expression, and be aligned;
\* after the registers are restored they must equal the stub's.
SlowPath(r, rule) ==
    IF rule.ra.where = "nowhere"
    THEN regs' = r /\ Outcome(2)
    ELSE IF rule.bad = "cfa" THEN regs' = r /\ Outcome(EIO)
    ELSE LET s == SlowRegs(r, rule)
         IN  regs' = s /\ Outcome(IF SameAsStub(s) THEN 0 ELSE EIO)

\* A standard frame is added to the cache, if there is memory for it, and applied; when
\* that fails, the slow path goes on with the registers as they are.
Standard ==
    /\ HasRule
    /\ LET pc == get_pc(regs)
           rule == Code[pc]
           r == WithCallFrame(regs, rule)
           a == apply_tdep_state(r, TdepFrame(rule))
       IN  /\ check_standard_frame(rule)
           /\ \/ cache' = [p \in DOMAIN cache \cup {pc} |->
                               IF p = pc THEN TdepFrame(rule) ELSE cache[p]]
              \/ cache' = cache
           /\ IF a.ok THEN regs' = a.regs /\ Outcome(0) ELSE SlowPath(a.regs, rule)
    /\ UNCHANGED <<caller, chain, mem, stub, max, entries, taken>>

NotStandard ==
    /\ HasRule
    /\ LET rule == Code[get_pc(regs)]
       IN  /\ ~check_standard_frame(rule)
           /\ SlowPath(WithCallFrame(regs, rule), rule)
    /\ UNCHANGED <<caller, chain, mem, stub, max, entries, cache, taken>>

-----------------------------------------------------------------------------
(* What compilers and the ABI promise of the stacks *)

\* A frame found from rsp or rbp, with the return address on top of it.
UsualLayout(rule) ==
    rule.cfa.reg \in {"bp", "sp"} /\ rule.ra.where = "memory" /\ rule.ra.off = -1

\* Frame i of the chain c has words of its own; rbp is saved among them; rsp, rbp
\* and the other registers lead to a CFA above the running function's rsp.
ConventionalFrame(c, i) ==
    LET rule == TrueRule(c, i)
        sp == Stacks[c].sp
    IN  /\ rule.size > 0
        /\ rule.sp.where # "memory"
        /\ rule.bp.where = "memory" => -rule.size <= rule.bp.off /\ rule.bp.off < -1
        /\ rule.cfa.reg = "sp" => rule.cfa.off = rule.size
        /\ rule.cfa.reg = "bp" =>
             /\ rule.bp.where = "memory"
             /\ 0 < rule.cfa.off /\ rule.cfa.off <= rule.size /\ rule.cfa.off < sp
        /\ rule.cfa.reg = "other" => \A o \in Others : o + rule.cfa.off > sp
        /\ UsualLayout(rule) => rule.call_frame = 1
        /\ rule.ra.where = "nowhere" <=> i = Len(c)

\* Only the last return address may be 0; otherwise the last function says that it
\* has none.
Conventional(c) ==
    /\ \A i \in DOMAIN c : c[i] = 0 => i = Len(c)
    /\ \A i \in Frames(c) : Place(c, i) \in DOMAIN Code /\ ConventionalFrame(c, i)

\* Every call of c is followed by an instruction of the same function with the same
\* rule, unless it is none but the place of a signal trampoline.
Returns(c) ==
    \A i \in 2 .. Len(c) : c[i] # 0 =>
        LET m == kunw_mod_lookup(c[i])
            rule == TrueRule(c, i)
        IN  IF c[i] \in DOMAIN Code
            THEN /\ Code[c[i]] = rule
                 /\ m = kunw_mod_lookup(c[i] - 1) /\ (m # 0 => c[i] < Modules[m].end)
            ELSE ~UsualLayout(rule) /\ rule.ra.where # "nowhere"

-----------------------------------------------------------------------------
Work ==
    \/ Stop \/ Record \/ NoModule \/ Cached \/ NoRule \/ SearchFaults \/ BadRule
    \/ Standard \/ NotStandard

\* The stack words that may be absent: none, or one.
Absences(c) == {{}} \cup {{a} : a \in DOMAIN Stacks[c].mem}

\* The next backtrace: of one of chains, by any caller, with any limit and any word
\* absent.
Backtrace(chains) ==
    /\ stage = "idle" /\ taken < MaxBacktraces
    /\ \E c \in chains : \E absent \in Absences(c) :
         \E who \in {"ioctl", "trace"}, n \in MaxEntries, o \in Others :
            Begin(c, who, n, o, absent)

WalkNext == Backtrace(Chains) \/ Forget \/ Work

WalkSpec == WalkInit /\ [][WalkNext]_walkVars /\ WF_walkVars(Work)

\* WalkNext, with the chains that have a call that does not return walked with an
\* empty cache only.
ColdNext == Backtrace({c \in Chains : Returns(c) \/ taken = 0}) \/ Forget \/ Work

ColdSpec == WalkInit /\ [][ColdNext]_walkVars /\ WF_walkVars(Work)

-----------------------------------------------------------------------------
Returned == stage = "returned"

\* bt.entries is never written past max_entries, nor past entries_limit for a
\* caller whose buffer the ioctl allocates.
EntriesFit ==
    Len(entries) <= max /\ (caller = "ioctl" => max <= EntriesLimit)

\* Whatever stack word is absent, and however unwind_full ends, the entries are the
\* stack: the running pc, then for every call its return address or the address
\* before it.  Stacks of calls that return may be walked with any cache; one with a
\* call that does not return, with an empty cache.
EntriesFollowStack ==
    \A i \in DOMAIN entries :
        /\ i \in DOMAIN chain
        /\ entries[i] \in IF i = 1 THEN {chain[1]} ELSE {chain[i], chain[i] - 1}

\* Success means the whole stack, or as much as the caller asked for.
SuccessIsComplete ==
    Returned /\ ret = 0 => Len(entries) = max \/ Len(entries) = Cardinality(Frames(chain))

\* A stack of usual frames of known functions with nothing absent, down to a
\* function whose return address is undefined, is unwound with success.
OrdinaryStacksSucceed ==
    LET n == Len(chain)
        known == \A i \in 1 .. n :
                    LET p == Place(chain, i)
                    IN  kunw_mod_lookup(p) # 0 /\ HasFde(p) /\ Code[p].bad = "nothing"
        ordinary == /\ \A i \in 1 .. n - 1 : UsualLayout(TrueRule(chain, i))
                    /\ TrueRule(chain, n).ra.where = "nowhere"
    IN  Returned /\ max > 0 /\ mem = Stacks[chain].mem /\ known /\ ordinary => ret = 0

\* As in libkunwind/tests/test-basic.cpp:107: kunwind names the same functions as
\* a correct unwinder.
SameFunctions ==
    Returned =>
        \A i \in DOMAIN entries :
            i \in Frames(chain) /\ Code[entries[i]].fn = TrueRule(chain, i).fn

\* With an empty cache, __unwind_frame attributes every entry to the right function,
\* also those of calls that are the last instruction of their function, on a stack
\* that does not end with a return address of 0.
ColdFunctions == taken = 1 /\ Frames(chain) = DOMAIN chain => SameFunctions

\* Every backtrace that unwind_full has begun returns, unless the search for an FDE reads
\* through NULL.
BacktraceReturns == stage = "loop" ~> Returned \/ stage = "fault"
=============================================================================
