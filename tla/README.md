# kunwind in TLA+

Specifications of kunwind, a Linux kernel module that unwinds the user-space stack of a process from
the `.eh_frame` tables of its ELF modules. Each is written from the code under `src/`, checked
by TLC on small instances, and its safety proved with TLAPS for all instances as far as said below.
`PROJECT.json` maps every definition to its lines.

## The system

A process opens `/proc/kunwind_debug`, tells the module which ELF modules it has loaded, and then asks
for backtraces; a tracer in the kernel can ask too.

| part | code | state | operations |
|---|---|---|---|
| registry, file operations | `kunwind-debug.c` | `kunw_map` (hash of pid to unwind information), `file->private_data` | open, release, two ioctls, `save_stack_trace_kunwind` |
| frame cache | `modules.c` | `unw_cache` (hash of pc to frame rules), RCU callbacks | find, add, clear |
| module loading | `modules.c`, `iterate_phdr.c` | `stp_modules`, pinned pages, kernel mappings | load from `proc_info` or from the task, release |
| search table | `unwind.c` | locals of a binary search | `_stp_search_fde`, `read_ptr_sect`, `adjust_start_loc` |
| CFI interpreter | `unwind.c` | the rows `state->reg`, `stackDepth`, `loc` | `run_cfi_program` over the CIE, then the FDE |
| stack walk | `unwind.c` | registers, `bt.entries` | `unwind_full`, `unwind_frame`, `__unwind_frame` |
| section and record parsing | `unwind.c` | `struct section`, positions in CIE and FDE | `eh_frame_from_hdr`, `check_fde`, `cie_for_fde`, `parse_fde_cie` |
| DWARF expressions | `unwind.c` | `stack`, `sp`, `expr` | `compute_expr`, with `get_uleb128` and `get_sleb128` |
| libkunwind | `libkunwind/` | a `FILE *`, the caller's handle | `find_proc_info`, `kunwind_init_proc_info`, `kunwind_close` |

The file leads to a `kunwind_proc_modules`, which owns the list of modules and the cache. A walk
takes, per frame: the module of the pc, the cache; on a miss the search table, the CIE and FDE, the
interpreter, then the restoring of registers from user memory, and an addition to the cache.

What makes it hard: the hash tables are read under RCU and written with no lock at all; stack traces run at
any point of what a thread does; loading has a dozen steps that can fail; a table written for user
addresses is read at kernel addresses; lengths and positions come from the image and are tested piecemeal; and
a fast path and a slow path must agree.

## The modules

**Registry.** `Hlist` (external: the kernel's `hlist_*_rcu`) splits an addition into setting the new node's
links, publishing it in the head, and setting the old first node's `pprev`; a deletion into unlinking and
repairing `pprev`. `Chain`, what a reader reaches from the head, is the least set that holds the first node
and is closed under `next`. `KunwMap` runs open and release one such access at a time in every thread, with
`save_stack_trace_kunwind` starting inside a thread anywhere. The k-th open names a file, its mods and
its registry entry. The variable `mode`, chosen at the start, says whether opens and releases are serialized
(the lock that the FIXME at `kunwind-debug.c:57` asks for), whether a file is closed by its opener, and how many
traces a thread takes; `Orderly` is the use the code is written for. `vals` holds the registry entries that are
allocated; nothing ever takes one out again. RCU is that of the
kernels the module is built for, not preemptible: a sleeping reader does not hold a grace period up.

**Cache.** `UnwCache` uses the same `Hlist`. Threads look up, hit, miss and add in one bucket. An addition
searches again, allocates, fills the entry a word at a time (`AddCopyPc`, `AddCopyRules`; `own` is the entry while no other thread can reach it)
and only then links it. The release clears, calls `call_rcu`, and entries are freed after a grace period.

**Loading.** `ModuleLoad` counts what each module owns (struct, page array, pins, mapping), so that a double
release goes below zero; pages are put by `npages`, the number the code keeps, not by what is pinned. Every call that can fail may fail at every point. A use of NULL or of an
unmapped address ends the behaviour (`oops`). The variable `differs`, chosen at the start, says whether user
memory may read differently than the mapping.

**Library.** `LibKunwind` puts one calling thread above `ModuleLoad`: `find_proc_info` (an object without
`PT_GNU_EH_FRAME` ends the search), `fopen`, the ioctl, `calloc`, and what is returned in each case. It extends
`ModuleLoad` and takes its actions as they are, so every step of a load is a step of the composition;
`use = "file"` keeps callers that do without the library.

**Search.** `EhPointer` has `read_ptr_sect` and `adjust_start_loc` on words that wrap at `WordMod`, with the cases of a 32-bit
task (`ReadAs`); `EhTable` the
header and table, whose count is an unsigned int (`UIntMod`); `FdeSearch` the loop of `_stp_search_fde`; `FdeLookup` what its caller relies on, one step, over
the operators of `EhTable` as constants.

**Interpreter.** `CfiInsn` has the rows and what each instruction does to one; `CfiProgram` runs
`run_cfi_program` with the array and the depth; `CfiTable` is the abstract one, a stack of rows.
An instruction is a record one byte long; `MAX_CFI`, a limit on bytes, so counts records. After
`DW_CFA_def_cfa_offset` on a CFA that is an expression the code reads an operand as an instruction, and after an
expression for an unknown register, or with a length that does not fit, the expression (`stray_expr`); the
model stops there (`lost`).

**Bytes.** `Leb128` has the two decoders on a sequence of bytes. A word is its set of bits, so that `|=` is union,
and the width of the word and of the int are constants: the sign of a number is shifted in an int, which shows only
when the two differ. `EhBytes` reads words and encoded pointers from the bytes of an image, `LebRef` writes them.

**Section and records.** `EhFrame` goes from the header of a mapped image to the instructions for a pc, through the tests
`_stp_search_fde` makes of the header (`HeaderOK`): one action
per iteration of the scan and of the augmentation loop, and one per field that is read. A scan that leaves the image
ends in `off`. `EhFrameRef` writes images as a linker does, from a description of a CIE and an FDE, and says what is
in them.

**Expressions.** `ExprOps` has the codes, the arithmetic and the register numbers; `ComputeExpr` the machine, one
action per kind of operation, after the instruction that checks the expression's length. `ExprRef` is the meaning of
an expression as a list of operations, on a stack that is a sequence, and its encoding.

**Walk.** `CallStack` (external) is the program being unwound: for every pc its function and true rule, and the stack
that a chain of calls builds, frame by frame (`Enter`). `UnwindWalk` takes backtraces one after the other over such stacks, with a
shared cache, to which an addition may fail, and any one stack word absent. A module may lack a search table; a pc before the first
function of one ends the thread (`fault`, the read of NULL that `fde_search_null` shows), one between or behind its functions ends the
walk with 1; a rule may be one that the unwinder refuses (`bad`: the entry, its program, or the CFA). A cache hit gives the frame computed for the pc, which is what
`UnwCache` shows. What compilers and the ABI promise of a stack is `Conventional`: a frame has words of its own, rbp is
saved among them, and rsp, rbp or another register leads to its end. `Returns` says that every call is followed by an
instruction of its function with the same rule. `WalkSpec` walks all stacks with any cache; `ColdSpec` those that do not
satisfy `Returns` with an empty one only.

## The runs

| run | bounds | shows |
|---|---|---|
| `fde_search` | datarel sdata4 tables of up to 4 entries over 4 addresses, 5 pcs; tables of up to 2 entries in udata4, absptr (datarel and absolute) and, but for 32-bit tasks, datarel sdata8; 14 odd headers over a table of 2, among them pcrel, data2, leb128 and indirect ones | what is found covers the pc (implements `FdeLookup`), on a sorted table it is the right one; a table as the linker wrote it leads to the FDE it was written for; ends |
| `kunw_map` | 2 threads, 3 opens; orderly use and any thread closing, both with 1 trace per thread, and racing opens and releases without traces | orderly: file and registry agree, nothing freed is used, all is released but the vals, a thread's own registration is found. Any thread closing: the registry never leads to freed mods, and the bucket is a proper list between operations. Racing: the bucket never becomes a cycle, and operations return |
| `unw_cache` | 2 threads, 3 pcs, 3 entries; threads free to race, or one at a time (`alone`) | a hit is right and complete; clearing is safe after any race; lookups and the release end. Alone: no duplicates, no leak |
| `unwind_walk` | 16 chains of calls, with pcs at the end of a vma, before the first function, in a hole, in no module or one without a table, and with each kind of bad rule; 2 backtraces, buffers of 0, 2 and 5, limit 4, any one stack word absent | entries are the stack and fit; success is complete; ordinary stacks succeed; with an empty cache the functions named are right; backtraces return or fault |
| `cfi_program` | FDE programs of up to 5 row-moving instructions, or 3 of any kind; depth 3 | the row is the pc's, by a definition without a stack; implements `CfiTable`; nothing plain is refused; ends |
| `module_load` | 2 ioctls, 2 segments each, 2 pages; through the library or with a file of one's own | what is listed is mapped; nothing is released twice or left behind (both while memory does not differ); the library answers 0 only with a handle and all segments loaded; the file is open only with a handle or after a failed ioctl |
| `compute_expr` | words of 15 bits, int of 11, stack of 3; every operation on boundary values, numbers at the limits of their encodings, all lists of 4 operations that move control, blocks of arbitrary bytes | writes stay in the stack, and reads but for one slot (below); reads stay in an expression whose length was whole; every step goes forward, so it ends; the value is that of `ExprRef` |
| `eh_frame` | u32 of 2 bytes, long of 17 bits in 3; images with every augmentation, both versions, FDE pointers in pcrel sdata4, sdata2 and sleb128 and absolute absptr, udata4, sdata4, udata8 and uleb128, compat or not; pcrel headers (sdata4, absptr) with tables in datarel sdata4, absptr, sdata2 and sdata8; two of them with any byte replaced by six values, and lengths that wrap | the section is found whole, and the search accepts the header the load has read; CIE and FDE are read as written; what is accepted lies in the section; scan and parser end |

The bounds are the smallest in which the cases happen. Two threads race in a bucket, and three entries have
a first, a middle and a last for unlinking; that more threads and entries bring nothing new to the cache is
what its proofs show. Four table entries give the search an even and an odd split. Depth 3 has a limit, a
middle and a bottom. The first backtrace fills the cache, the second uses it on a stack that may differ from
the one it was filled from. The two chains with a call that does not return are walked with an empty cache
only (`ColdSpec`); `unwind_walk_warm` walks them with a filled one. The widths of `compute_expr` and `eh_frame` cut
groups of seven bits where 64 and 32 do: the last group has room for part of its bits, the sign of a short number fits in
the int and that of a longer one does not, and forms of 2, 4 and 8 bytes stay distinct, so that sign
extension shows. Deadlock is not checked: all these systems may stop.

Fairness is weak fairness of the code's own steps (a thread inside an operation goes on; a grace period
whose readers have left ends; the loop of a walk continues). The callers are never obliged to call.

### Where the code departs from what is written

Four runs are expected to find a violation; each is a finding in `PROJECT.json`.

- `kunw_map_closer`: release unregisters the closing thread's pid, not the opener's.
- `fde_search_null`: a pc without an entry makes `check_fde` read NULL, before "fde not found" is tested.
- `unwind_walk_warm`: the fast path does not set `call_frame`, so after a call that does not return a warm cache
  names the wrong function. `ColdFunctions` shows that the slow path does not.
- `module_load_differs`: the last check of loading fails with result 0, and the unmapped module is listed.

More facts that the models contain, and that the properties are stated around:

- "register process" (`kunwind-debug.c:122`) registers a thread: `OwnRegistrationFound` speaks of the thread's own file.
- Release takes a registry entry off the list and frees the mods, but not the entry (`kunwind-debug.c:86`): `AllReleased` says that one
  is left for every file that was closed, and nothing else.
- `README.md:23` says that partial backtraces are reported as success. The ioctl answers `-EFAULT` for them (`Return` of
  `UnwindWalk`).
- The race of the FIXME loses registrations, as it says; what survives it is `BucketIntact`.
- A stack that ends with a return address of 0 gets one entry too many, -1: `get_pc` subtracts `call_frame` before
  `unwind_full` compares the pc with 0 (`ColdFunctions` leaves such stacks out).
- `compute_expr` departs from DWARF in `DW_OP_over` and `DW_OP_pick` (one slot off, for 0 the slot above the top), `deref` (the
  value is not pushed), `bra` not taken (its offset is executed), backward jumps (refused, as a comment says), negative
  numbers of more than four bytes (the sign is shifted as an int), and `not`, `neg` and `plus_uconst` on a full stack. `ExprRef` marks each as
  `departs`, and `ValueIsRight` holds everywhere else.
- `DW_OP_pick` reads its slot before PUSH tests for room: with operand 0 on a full stack that is the word behind the array
  (`unwind.c:1186`). `StackKept` says that this is the only access outside of it, and that the expression fails there.
- "We previously validated the length" (`unwind.c:1094`) is not so for a register's rule whose length is cut off by the end of
  the instructions, or too large: `set_expr_rule` accepts it, and `compute_expr` reads off the end (`off`). `InBlock` says that
  there is no other case.
- `eh_frame_from_hdr` compares the section's length with the room behind the header, not behind the section: a
  section before its header needs that much room too. In a compat task a 4-byte header pointer is read without sign there (the FIXME at
  `unwind.c:2035`), so a section before its header is not found. It takes datarel and absolute header pointers for relative ones. Images are built accordingly.
- In a 32-bit task `read_ptr_sect` reads 4 bytes of an 8-byte table field, while the search steps by 8. Such tables are left
  out of `fde_search` (`InputsAssumption`); `eh_frame` has their headers, not their entries.
- In a table of pcrel fields the code relocates the starts but not the FDEs, and a function at link-time address 0 is taken
  for a field that cannot be read. Linkers write datarel tables, and the ELF header is at 0: `FoundIsWritten` keeps to that, and
  to modules with `PT_DYNAMIC`.
- The end of a vma counts as inside (`kunw_mod_lookup`): code that begins there is looked up in the module before it, and
  the walk ends with 1.
- An FDE whose CIE has "z" with no data starts its instructions at its own length byte, 0, which is a `DW_CFA_nop`
  (`InsnsAreRight`). An augmentation length that wraps the address passes the test, as `InsnsInside` says.
- Relative addresses are right in modules with `PT_DYNAMIC`, absolute ones in those without; `Fits` keeps to that. A pc
  equal to `endLoc` is taken to be inside.
- After a failed ioctl `kunwind_init_proc_info` leaves the file open, and the thread gets `EBUSY` from then on. A
  positive answer is either an errno without a handle or a handle with some segments missing.

## The proofs

**`LookupProofs`** has the two ways to a pc's rule. The cache, for any threads, pcs and number of entries: being a well-formed
list is not invariant, as racing additions lose entries and leave stale `pprev`s. What survives is an order: entries are
numbered as they are filled, `next` leads down and `pprev` up (`LinksDescend`). With every filled entry holding a frame of its pc,
and what the threads' and the release's locals point to, that is inductive (`CacheInv`), and gives `CacheHitIsRight`,
`CacheClearSafe` and `CacheLinksDescend`. That a filled entry is whole when it can be reached rests on what each thread has copied
so far into the one it owns. With one thread at a time the list is well-formed after all: `Exact` says that `next` leads
from every entry to the one before, that a search has left no entry of its pc behind, which is why an addition never makes a second
one, and that the release has passed on exactly the entries above the one it stands on. From it `CacheAloneIsExact`.

The search, for every word size, table, header and pc. The inductive invariant `SearchInv` is the types, `Window`
(entries given up on the left start at or before pc, the first on the right after it) and `FoundCovers`.
`Window` is what makes the result right, and needs no sorted table. From it: `SearchFoundCovers`,
`SearchIsRight` (with the table sorted) and the refinement `SearchImplementsLookup`. `Relocation` shows that fields relative
to the header or to themselves decode to the user address they stand for, though read in the kernel's mapping,
if the mapping does not wrap.

**`CfiProgramProofs`**, for every pair of programs, depth limit and set of registers. `ProgramTyped`: no row outside the
array is used. `ProgramImplementsTable`: array and depth are a stack of rows. It needs `UpToPc`, that
the location does not pass the pc while the FDE runs, which is why nothing behind the pc is applied. Assumed of the inputs
(`CfiInputsAssumption`): the FDE starts at or before the pc, which `SearchIsRight` gives, and a CIE names
no locations.

`RowIsAlwaysRight`: the row left for the pc is the one the instructions define (`RowAt`, which has no stack). The invariant
`Follow` says that after `Pos` instructions the depth, the location, the row and the CIE's rules are those that `DepthAt`, `LocAt` and `RowAt` give
there, and that every row below the current one is what the `remember_state` still open at its depth saved (`Saved`), without
which nothing is known of the row a `restore_state` uncovers. The three are recursive functions; that they obey their
equations is proved from the least number at which something fails (`Smallest`, `Recursion`).

**`ModuleLoadProofs`**, for any number of modules, calls, segments and pages. `IInv` says what each step of a load holds: what
the module being loaded owns follows from the step (`OwnOK`), the header page likewise (`PageOK`); while memory does not
differ, a listed module owns all that a loaded one does and every other nothing (`HeldOK`). Ownership has to be known at every step for `NothingStray`, which only speaks
of the ends. It gives `ModulesAreMapped`, `NothingLeft` and `ZeroIsAll`. `LibraryImplementsLoad` shows that the composition
is a behaviour of `ModuleLoad`, so that these hold of it too; with `LibInv` on top follow `ZeroIsReady` and
`FilesAccounted`.

**`DwarfProofs`** has three parts. For every sequence of bytes and every width of word and int: where a decoder of `Leb128` may leave the position,
that it reads no byte behind the end, and that its value is a word. For every code, stack size, frame and readable memory of `ComputeExpr`:
`StackStaysKept`, `StaysInBlock` and `GoesForward`; the invariant adds to `InBlock` that `compute_expr` is called only with
a length that its instruction found to fit. For every image of `EhFrame`, that is for arbitrary bytes, and every FDE address the table may
give: `AcceptedInside` follows from the tests of `cie_for_fde` together, as no single one bounds the FDE from below, and `ParsedInside`
carries the position through the parser, phase by phase: it never moves back, and the FDE's stays within its record.

**`UnwindProofs`**, the walk, for every program, stack, limit and number of backtraces. `EntriesAlwaysFit` needs nothing of what a
stack holds or where a frame's path leads: the invariant adds to `EntriesFit` only that the entries are a sequence and
`max_entries` a number. The other four theorems assume that all chains are `Conventional`, and speak of `ColdSpec`:
`WalkFollowsStack`, `WalkSuccessIsComplete`, `WalkOrdinaryStacksSucceed` and `WalkColdFunctions`. They follow from one invariant,
`Truthful`. Between two frames pc, sp and bp are those that the frame about to be looked up had when it made its call (`RegsHere`); the
memory is its stack, with words absent (`StackHere`); what the cache holds for a pc is the frame of its rule (`CacheRules`), which
together with `Returns` is why a frame of another stack may be applied; and the last entry is where the frame is looked up
(`EntriesHere`). The slow path ends in a comparison with the stub, the registers the walk began
with; it fails on every conventional frame, as the CFA lies above that sp, but for the last frame, which has no return address and ends before it. So only standard frames are passed, and a word that could not be read ends the
walk before anything wrong is recorded; so does a rule that is refused, and a search that faults ends all. That the recursive
`StacksOf` has the shape its equations say (what a frame saved stays where it is while others are called, and sp
grows from call to caller) is proved as in `CfiProgramProofs`, by `Recursion` from the least failing number.

**`KunwMapSteps`, `KunwMapLists`, `KunwMapProofs`**, for any threads, number of opens and traces; `KunwMapInv` has the invariant
`IInv`, and an effect per step, that is what the step does to the variables it changes. `IInv` has five parts. `TypeOK` and
`OpsOK`: each operation has a file of its own, in the state that belongs to it. `RankExists`: the nodes can be numbered so that every link in the
bucket or in a thread's locals leads down; all that survives racing stores, it keeps the list free of cycles.
`Serial`, in the serialized modes: what a traversal reaches has live mods, at most one per thread,
and every `pprev` is the way to its node but the one that the running operation has yet to store. `KeptInOrder`, in the
orderly mode: an open file is registered with its own mods, one that is not open is not, and a trace uses only
live mods of its own thread. The entries allocated are those of all files that got as far as registering, which is why
`AllIsReleased` leaves that of every closed file. `KunwMapSteps` proves the first three, `KunwMapLists` what the stores of `Hlist`
do to what is reached, `KunwMapProofs` the rest, and from `Invariance` the six safety properties of the run
`kunw_map`. `RankExists` quantifies over all numberings, so it is proved only; its consequence `BucketIntact` is also checked.

Assumptions named `...Assumption` in the modules say that constants are numbers of the right kind and that an image is as
long as its vma; TLC evaluates all of them. Some state that a power is a natural number, of which the provers know nothing.

Those about conventions are hypotheses of the theorems, and `MCUnwindWalk` states them of its program (`MCConventional`, `MCReturns`),
so that the run covers the stacks the proofs speak of, and both kinds of chain.

Only model-checked: all liveness, which is beyond the provers; and what recursive functions compute of bytes and operations, that is `ValueIsRight`,
`SectionIsFound` and `ParseIsRight`, each of which compares a decoder with an encoder by induction over its input. Only proved, and not among the properties of a
run: `Window`, `FoundCovers` and the types of `FdeSearch`, the types of `UnwCache` and `ComputeExpr`, and `ZeroMeansAll`.

## What is not modelled

- Expressions as rules within the walk, and compat tasks there: `ComputeExpr` and `EhFrame` treat them by themselves, `UnwindWalk` has
  rules relative to a register. The raw bytes of call frame instructions, as opposed to the records of `CfiInsn`.
- `kunwind_backtrace`, which passes its ioctl on, and the allocation of its buffer; the unloading of the kernel module, where
  callbacks may be pending; the other architectures' headers; debug output.
- A change of the address space after the modules are loaded; a module being listed while another thread walks
  the list: `list_add_tail` and the traversal are the kernel's, and no lock orders them.

## Plan

1. `UnwindWalk` over a list of modules that grows, with `list_add_tail` at the grain of `Hlist`; rules that are expressions in its
   frames.
2. A proof that the bytes `LebRef` writes are decoded to the number they stand for, the first step to `ValueIsRight` and `ParseIsRight`.
3. The decoding of call frame instructions from bytes, between `EhFrame` and `CfiProgram`.

Another question of a component that has a run goes into that run, as a property or a mode.
