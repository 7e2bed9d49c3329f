--------------------------- MODULE ModuleLoadProofs ---------------------------
(***************************************************************************)
(* Proofs about ModuleLoad and LibKunwind, for any number of modules, segments,     *)
(* pages and ioctls.                                                              *)
(***************************************************************************)
EXTENDS LibKunwind, TLAPS

-----------------------------------------------------------------------------
(* The inductive invariant.  At each step of init_kunwind_stp_module the module     *)
(* being loaded owns what the labels below that step give back.                    *)

Loading == {"find_vma", "pin", "vmap", "eh_frame", "test", "add",
            "vunmap", "put_pages", "free_pages", "out"}

Steps == Loading \cup {"idle", "segment", "vma", "headers", "phdrs", "unmap", "put",
                       "alloc", "release", "released", "oops"}

Owns == [struct : Int, pages : Int, pins : Int, vmap : Int, npages : Int]

Types ==
    /\ step \in Steps /\ call \in {"none", "proc_info", "task"}
    /\ left \in Nat /\ left <= MaxSegments /\ wanted \in Nat /\ calls \in Nat
    /\ res \in {0, ENOMEM, EFAULT, EINVAL} \cup 1 .. Pages
    /\ cur \in Ids \cup {0} /\ (step \in Loading => cur \in Ids)
    /\ own \in [Ids -> Owns] /\ listed \in Seq(Ids) /\ differs \in BOOLEAN

\* The calls that a step is part of, and the segments that it has left.
CallOK ==
    /\ step \in {"vma", "headers", "phdrs", "unmap", "put"} => call = "task"
    /\ step \in Loading \cup {"alloc"} => call \in {"task", "proc_info"}
    /\ step = "segment" => call = "proc_info"
    /\ step \in Loading \cup {"alloc", "headers", "phdrs", "unmap", "put"} => left > 0
    /\ step \in {"release", "released"} => call # "proc_info"
    /\ step = "released" => listed = <<>>

\* iterate_phdr has its page while it looks at the headers in it.
PageOK ==
    \/ /\ step \in {"idle", "segment", "vma", "release", "released"}
       /\ page = NoPage
    \/ step \in {"headers", "put"} /\ page = [pins |-> 1, vmap |-> 0]
    \/ step \in {"phdrs", "unmap"} /\ page = [pins |-> 1, vmap |-> 1]
    \/ /\ step \in Loading \cup {"alloc"}
       /\ page = IF call = "task" THEN [pins |-> 1, vmap |-> 1] ELSE NoPage
    \/ step = "oops" /\ page \in {NoPage, [pins |-> 1, vmap |-> 1]}

\* What is to come makes the list as long as it should be.
CountOK ==
    call = "proc_info" =>
        /\ step \in Loading \cup {"alloc", "segment"} => Len(listed) + left = wanted
        /\ step = "idle" /\ res = 0 => Len(listed) = wanted

Loaded(o) ==
    /\ o.struct = 1 /\ o.pages = 1 /\ o.vmap = 1
    /\ o.pins = o.npages /\ o.npages \in 1 .. Pages

Partly(o, pages, vmap) ==
    o.struct = 1 /\ o.pages = pages /\ o.vmap = vmap /\ o.npages \in 0 .. Pages

\* What the module being loaded owns.
OwnOK(o) ==
    \/ step = "find_vma" /\ Partly(o, 0, 0) /\ o.pins = 0
    \/ step = "pin" /\ Partly(o, 1, 0) /\ o.pins = 0
    \/ step \in {"vmap", "put_pages"} /\ Partly(o, 1, 0) /\ o.pins = o.npages
       /\ o.npages > 0
    \/ step \in {"eh_frame", "test", "add", "vunmap"} /\ Loaded(o)
    \/ step = "free_pages" /\ Partly(o, 1, 0) /\ o.pins = 0
    \/ step = "out" /\ Partly(o, 0, 0) /\ o.pins = 0

\* The labels are passed with an error, or the number of pages.
Failing == step \in {"vmap", "vunmap", "put_pages", "free_pages", "out"} => res # 0

Listed(i) == \E k \in DOMAIN listed : listed[k] = i

\* A module owns nothing, or all that a loaded one does, or is the one being loaded.
HeldOK ==
    /\ \A j, k \in DOMAIN listed : listed[j] = listed[k] => j = k
    /\ \A k \in DOMAIN listed : Loaded(own[listed[k]])
    /\ step # "oops" =>
         \A i \in Ids :
             \/ Listed(i) /\ ~(step \in Loading /\ i = cur)
             \/ ~Listed(i) /\ step \in Loading /\ i = cur /\ OwnOK(own[i])
             \/ ~Listed(i) /\ ~(step \in Loading /\ i = cur) /\ own[i] = Nothing

IInv ==
    /\ Types /\ CallOK /\ PageOK /\ CountOK
    /\ ~differs => Failing /\ HeldOK

-----------------------------------------------------------------------------
(* Types, calls, the page of headers and the count *)

Basic == Types /\ CallOK /\ PageOK /\ CountOK

\* What is owned is counted.
LEMMA OwnTyped ==
    ASSUME Types,
           \/ AllocModule \/ AllocPages \/ (\E n \in 1 .. Pages : Pin(n)) \/ Vmap
           \/ OutVunmap \/ OutPutPages \/ OutFreePages \/ OutError \/ CloseModule
    PROVE  own' \in [Ids -> Owns]
<1>0. own \in [Ids -> Owns]
  BY Zenon DEF Types
<1>1. CASE AllocModule
  <2>1. cur' \in Ids BY <1>1, Zenon DEF AllocModule, Free
  <2>2. own' = [own EXCEPT ![cur'].struct = 1] BY <1>1, Zenon DEF AllocModule
  <2> QED BY <1>0, <2>1, <2>2 DEF Owns
<1>2. CASE AllocPages
  <2>1. cur \in Ids BY <1>2, Zenon DEF Types, AllocPages, Goto, Loading
  <2> QED BY <1>0, <1>2, <2>1 DEF AllocPages, Owns
<1>3. CASE \E n \in 1 .. Pages : Pin(n)
  <2>1. cur \in Ids BY <1>3, Zenon DEF Types, Pin, Goto, Loading
  <2>2. PICK n \in 1 .. Pages : Pin(n) BY <1>3, Zenon
  <2>3. own[cur].pins + n \in Int /\ n \in Int
    BY <1>0, <2>1, ModuleLoadAssumption DEF Owns
  <2>4. own' = [own EXCEPT ![cur].pins = own[cur].pins + n, ![cur].npages = n]
    BY <2>2, Zenon DEF Pin
  <2> QED BY <1>0, <2>1, <2>3, <2>4, Zenon DEF Owns
<1>4. CASE Vmap
  <2>1. cur \in Ids BY <1>4, Zenon DEF Types, Vmap, Goto, Loading
  <2> QED BY <1>0, <1>4, <2>1 DEF Vmap, Owns
<1>5. CASE OutVunmap
  <2>1. cur \in Ids BY <1>5, Zenon DEF Types, OutVunmap, Goto, Loading
  <2> QED BY <1>0, <1>5, <2>1 DEF OutVunmap, Owns
<1>6. CASE OutPutPages
  <2>1. cur \in Ids BY <1>6, Zenon DEF Types, OutPutPages, Goto, Loading
  <2> QED BY <1>0, <1>6, <2>1 DEF OutPutPages, Owns
<1>7. CASE OutFreePages
  <2>1. cur \in Ids BY <1>7, Zenon DEF Types, OutFreePages, Goto, Loading
  <2> QED BY <1>0, <1>7, <2>1 DEF OutFreePages, Owns
<1>8. CASE OutError
  <2>1. cur \in Ids BY <1>8, Zenon DEF Types, OutError, Goto, Loading
  <2>2. own[cur].struct - 1 \in Int BY <1>0, <2>1 DEF Owns
  <2>3. own' = [own EXCEPT ![cur].struct = own[cur].struct - 1, ![cur].npages = 0]
    BY <1>8, Zenon DEF OutError, FreeModule
  <2>4. ASSUME NEW n \in Int, NEW m \in Int
        PROVE  [own EXCEPT ![cur].struct = n, ![cur].npages = m] \in [Ids -> Owns]
    BY <1>0, <2>1, Zenon DEF Owns
  <2>5. 0 \in Int OBVIOUS
  <2> QED BY <2>2, <2>3, <2>4, <2>5, Zenon
<1>9. CASE CloseModule
  <2> DEFINE o == own[Head(listed)]
             gone == [struct |-> o.struct - 1, pages |-> o.pages - 1,
                      pins |-> o.pins - o.npages, vmap |-> o.vmap - 1, npages |-> 0]
  <2>1. Head(listed) \in Ids BY <1>9 DEF Types, CloseModule
  <2>2. o \in Owns BY <1>0, <2>1, Zenon
  <2>3. gone \in Owns
    <3> HIDE DEF o
    <3> QED BY <2>2 DEF Owns
  <2>4. own' = [own EXCEPT ![Head(listed)] = gone] BY <1>9, Zenon DEF CloseModule
  <2> HIDE DEF gone, o
  <2>5. [own EXCEPT ![Head(listed)] = gone] \in [Ids -> Owns]
    <3> HIDE DEF Owns
    <3> QED BY <1>0, <2>1, <2>3, Zenon
  <2> QED BY <2>4, <2>5, Zenon
<1> QED BY <1>1, <1>2, <1>3, <1>4, <1>5, <1>6, <1>7, <1>8, <1>9, Zenon

\* An oops ends the behaviour and changes nothing else.
LEMMA OopsBasic ==
    ASSUME Basic, NEW s \in Loading \cup {"alloc"}, Oops(s), UNCHANGED differs
    PROVE  Basic'
  BY DEF Basic, Types, CallOK, PageOK, CountOK, Oops, Goto, Keep, Loading, Steps

\* The file operations and the ioctls' beginnings and ends.
LEMMA CallBasic ==
    ASSUME Basic, UNCHANGED differs,
           Call \/ NextSegment \/ LastSegment \/ CloseModule \/ Released
    PROVE  Basic'
<1> USE ModuleLoadAssumption
<1>1. CASE Open
  BY <1>1, Zenon DEF Basic, Types, CallOK, PageOK, CountOK, Open, Goto, Loading, Steps
<1>2. CASE \E c \in {"proc_info", "task"}, n \in 0 .. MaxSegments : Begin(c, n)
  BY <1>2 DEF Basic, Types, CallOK, PageOK, CountOK, Begin, Goto, Loading, Steps
<1>3. CASE \E error \in {EFAULT, ENOMEM} : Unreadable(error)
  BY <1>3 DEF Basic, Types, CallOK, PageOK, CountOK, Unreadable, Goto, Loading, Steps,
              EFAULT, ENOMEM
<1>4. CASE Release
  BY <1>4 DEF Basic, Types, CallOK, PageOK, CountOK, Release, Goto, Loading, Steps
<1>5. CASE NextSegment
  BY <1>5, Zenon DEF Basic, Types, CallOK, PageOK, CountOK, NextSegment, Goto, Keep, Loading, Steps
<1>6. CASE LastSegment
  BY <1>6 DEF Basic, Types, CallOK, PageOK, CountOK, LastSegment, Goto, Keep, Loading, Steps
<1>7. CASE CloseModule
  <2>1. own' \in [Ids -> Owns] BY <1>7, OwnTyped, Zenon DEF Basic
  <2>2. listed' \in Seq(Ids) BY <1>7 DEF Basic, Types, CloseModule
  <2> QED BY <1>7, <2>1, <2>2, Zenon
        DEF Basic, Types, CallOK, PageOK, CountOK, CloseModule, Goto, Loading, Steps
<1>8. CASE Released
  <2>1. Types' BY <1>8, Zenon DEF Basic, Types, Released, Goto, Keep, Loading, Steps
  <2>2. CallOK' BY <1>8, Zenon DEF Basic, CallOK, Released, Goto, Keep, Loading
  <2>3. PageOK' BY <1>8, Zenon DEF Basic, PageOK, Released, Goto, Keep, Loading
  <2>4. CountOK' BY <1>8, Zenon DEF Basic, CallOK, CountOK, Released, Goto, Keep, Loading
  <2> QED BY <2>1, <2>2, <2>3, <2>4, Zenon DEF Basic
<1> QED
  BY <1>1, <1>2, <1>3, <1>4, <1>5, <1>6, <1>7, <1>8, Zenon DEF Call

\* iterate_phdr.
LEMMA PhdrBasic ==
    ASSUME Basic, UNCHANGED differs,
           \/ LastVma \/ SkipVma \/ PinHeaders \/ MapHeadersFails \/ MapHeaders
           \/ NoUnwindInfo \/ HasUnwindInfo \/ UnmapHeaders \/ PutHeaders
    PROVE  Basic'
<1> USE ModuleLoadAssumption
<1> USE DEF Basic, Types, CallOK, PageOK, CountOK, Goto, Keep, Loading, Steps, NoPage
<1>1. CASE LastVma BY <1>1, Zenon DEF LastVma
<1>2. CASE SkipVma BY <1>2 DEF SkipVma
<1>3. CASE PinHeaders BY <1>3 DEF PinHeaders
<1>4. CASE MapHeadersFails BY <1>4, Zenon DEF MapHeadersFails
<1>5. CASE MapHeaders BY <1>5 DEF MapHeaders
<1>6. CASE NoUnwindInfo BY <1>6, Zenon DEF NoUnwindInfo
<1>7. CASE HasUnwindInfo BY <1>7, Zenon DEF HasUnwindInfo
<1>8. CASE UnmapHeaders BY <1>8 DEF UnmapHeaders
<1>9. CASE PutHeaders BY <1>9 DEF PutHeaders
<1> QED
  BY <1>1, <1>2, <1>3, <1>4, <1>5, <1>6, <1>7, <1>8, <1>9, Zenon

\* init_kunwind_stp_module, forward.
LEMMA LoadBasic ==
    ASSUME Basic, UNCHANGED differs,
           \/ AllocModule \/ AllocModuleFails \/ AllocPagesFails \/ AllocPages \/ PinFails
           \/ (\E n \in 1 .. Pages : Pin(n)) \/ VmapFails \/ Vmap
           \/ EhFrameGiven \/ EhFrameFound \/ EhFrameNotFound
           \/ TestFaults \/ TestSame \/ TestDiffers
    PROVE  Basic'
<1> USE ModuleLoadAssumption
<1> USE DEF Basic, Types, CallOK, PageOK, CountOK, Goto, Keep, Loading, Steps,
            ENOMEM, EFAULT, EINVAL
<1>1. CASE AllocModule
  <2>1. cur' \in Ids BY <1>1, Zenon DEF AllocModule, Free
  <2>2. own' \in [Ids -> Owns] BY <1>1, OwnTyped, Zenon DEF Types
  <2> QED BY <2>1, <2>2, <1>1, Zenon DEF AllocModule
<1>2. CASE AllocModuleFails
  <2>1. CASE call = "proc_info" /\ Oops("alloc") BY <2>1, OopsBasic, Zenon
  <2> QED BY <1>2, <2>1, Zenon DEF AllocModuleFails
<1>3. CASE AllocPagesFails BY <1>3, Zenon DEF AllocPagesFails
<1>4. CASE AllocPages
  <2>1. own' \in [Ids -> Owns] BY <1>4, OwnTyped, Zenon DEF Types
  <2> QED BY <2>1, <1>4, Zenon DEF AllocPages
<1>5. CASE PinFails BY <1>5, Zenon DEF PinFails
<1>6. CASE \E n \in 1 .. Pages : Pin(n)
  <2>1. own' \in [Ids -> Owns] BY <1>6, OwnTyped, Zenon DEF Types
  <2> QED BY <2>1, <1>6, Zenon DEF Pin
<1>7. CASE VmapFails BY <1>7, Zenon DEF VmapFails
<1>8. CASE Vmap
  <2>1. own' \in [Ids -> Owns] BY <1>8, OwnTyped, Zenon DEF Types
  <2> QED BY <2>1, <1>8, Zenon DEF Vmap
<1>9. CASE EhFrameGiven BY <1>9, Zenon DEF EhFrameGiven
<1>10. CASE EhFrameFound BY <1>10, Zenon DEF EhFrameFound
<1>11. CASE EhFrameNotFound BY <1>11, Zenon DEF EhFrameNotFound
<1>12. CASE TestFaults BY <1>12, Zenon DEF TestFaults
<1>13. CASE TestSame BY <1>13, Zenon DEF TestSame
<1>14. CASE TestDiffers
  <2>1. Types' BY <1>14, Zenon DEF TestDiffers
  <2>2. CallOK' BY <1>14, Zenon DEF TestDiffers
  <2>3. PageOK' BY <1>14, Zenon DEF TestDiffers
  <2>4. CountOK' BY <1>14, Zenon DEF TestDiffers
  <2> QED BY <2>1, <2>2, <2>3, <2>4, Zenon
<1> QED
  BY <1>1, <1>2, <1>3, <1>4, <1>5, <1>6, <1>7, <1>8, <1>9, <1>10, <1>11, <1>12, <1>13, <1>14, Zenon

\* The labels at its end, and what the callers make of the result.
LEMMA OutBasic ==
    ASSUME Basic, UNCHANGED differs,
           OutVunmap \/ OutPutPages \/ OutFreePages \/ OutZero \/ OutError \/ Add
    PROVE  Basic'
<1> USE ModuleLoadAssumption
<1> USE DEF Basic, Types, CallOK, PageOK, CountOK, Goto, Keep, Loading, Steps
<1>1. CASE OutVunmap
  <2>1. own' \in [Ids -> Owns] BY <1>1, OwnTyped, Zenon DEF Types
  <2> QED BY <2>1, <1>1, Zenon DEF OutVunmap
<1>2. CASE OutPutPages
  <2>1. own' \in [Ids -> Owns] BY <1>2, OwnTyped, Zenon DEF Types
  <2> QED BY <2>1, <1>2, Zenon DEF OutPutPages
<1>3. CASE OutFreePages
  <2>1. own' \in [Ids -> Owns] BY <1>3, OwnTyped, Zenon DEF Types
  <2> QED BY <2>1, <1>3, Zenon DEF OutFreePages
<1>4. CASE OutZero BY <1>4, Zenon DEF OutZero
<1>5. CASE OutError
  <2>1. own' \in [Ids -> Owns] BY <1>5, OwnTyped, Zenon DEF Types
  <2> QED BY <2>1, <1>5, Zenon DEF OutError, FreeModule
<1>6. CASE Add
  <2>1. listed' \in Seq(Ids) /\ Len(listed') = Len(listed) + 1 BY <1>6 DEF Add
  <2>2. Types' BY <2>1, <1>6 DEF Add
  <2>3. CallOK' BY <1>6, Zenon DEF Add
  <2>4. PageOK' BY <1>6, Zenon DEF Add
  <2>5. CountOK'
    <3>1. CASE call # "proc_info" BY <1>6, <3>1, Zenon DEF Add
    <3>2. CASE call = "proc_info"
      <4>1. /\ step = "add" /\ step' = "segment" /\ left' = left - 1 /\ wanted' = wanted
            /\ Len(listed) + left = wanted
        BY <1>6, <3>2, Zenon DEF Add
      <4>2. Len(listed) \in Nat /\ left \in Int /\ wanted \in Int BY SMT
      <4> HIDE DEF Basic, Types, CallOK, PageOK, CountOK, Goto, Keep, Loading, Steps
      <4>3. Len(listed') + left' = wanted' BY <2>1, <4>1, <4>2, SMT
      <4> QED BY <4>1, <4>3, Zenon DEF CountOK
    <3> QED BY <3>1, <3>2, Zenon
  <2> QED BY <2>2, <2>3, <2>4, <2>5, Zenon
<1> QED
  BY <1>1, <1>2, <1>3, <1>4, <1>5, <1>6, Zenon

-----------------------------------------------------------------------------
(* What is held *)

\* Outside of init_kunwind_stp_module.
LEMMA HeldOutside ==
    ASSUME HeldOK, step \notin Loading \cup {"oops"}, step' \notin Loading,
           own' = own, listed' = listed
    PROVE  HeldOK'
  BY Zenon DEF HeldOK, Loaded, Listed

\* Inside of it only the module being loaded changes hands.
LEMMA HeldInside ==
    ASSUME HeldOK, Types, step \in Loading, step' \in Loading,
           cur' = cur, listed' = listed,
           \A i \in Ids : i # cur => own'[i] = own[i],
           OwnOK(own[cur])'
    PROVE  HeldOK'
<1>1. cur \in Ids /\ ~Listed(cur) /\ step # "oops" /\ step' # "oops"
  BY Zenon DEF HeldOK, Types, Loading
<1>2. \A k \in DOMAIN listed : listed[k] \in Ids /\ listed[k] # cur
  BY <1>1 DEF Types, Listed
<1>3. \A k \in DOMAIN listed : Loaded(own[listed[k]])'
  BY <1>2, ZenonT(60) DEF HeldOK, Loaded
<1>4. ASSUME NEW i \in Ids, i # cur
      PROVE  Listed(i)' \/ (~Listed(i)' /\ own'[i] = Nothing)
  BY <1>1, <1>4, Zenon DEF HeldOK, Listed
<1>5. ~Listed(cur)'
  BY <1>1, Zenon DEF Listed
<1> QED
  BY <1>1, <1>3, <1>4, <1>5, Zenon DEF HeldOK

\* The module being loaded is not on the list, and owns what the step says.
LEMMA HeldCur ==
    ASSUME HeldOK, Types, step \in Loading
    PROVE  cur \in Ids /\ ~Listed(cur) /\ OwnOK(own[cur]) /\ own[cur] \in Owns
  BY Zenon DEF HeldOK, Types, Loading

\* The steps that leave what is owned alone.
LEMMA HeldQuiet ==
    ASSUME HeldOK, Basic, Failing, ~differs,
           \/ AllocPagesFails \/ PinFails \/ VmapFails \/ EhFrameGiven \/ EhFrameFound
           \/ EhFrameNotFound \/ TestFaults \/ TestSame \/ TestDiffers \/ OutZero
    PROVE  HeldOK'
<1>1. step \in Loading
  BY Zenon DEF AllocPagesFails, PinFails, VmapFails, EhFrameGiven, EhFrameFound, EhFrameNotFound,
         TestFaults, TestSame, TestDiffers, OutZero, Goto, Loading
<1>2. OwnOK(own[cur]) /\ Types
  BY <1>1, HeldCur, Zenon DEF Basic
<1>3. /\ step' \in Loading /\ cur' = cur /\ listed' = listed /\ own' = own
      /\ OwnOK(own[cur])'
  BY <1>2, Zenon DEF AllocPagesFails, PinFails, VmapFails, EhFrameGiven, EhFrameFound,
         EhFrameNotFound, TestFaults, TestSame, TestDiffers, OutZero, Goto, Keep, Loading,
         OwnOK, Partly, Loaded, Failing
<1> QED
  BY <1>1, <1>2, <1>3, HeldInside, Zenon

\* The steps that take or give back something of the module being loaded.
LEMMA HeldTakes ==
    ASSUME HeldOK, Basic,
           \/ AllocPages \/ (\E n \in 1 .. Pages : Pin(n)) \/ Vmap
           \/ OutVunmap \/ OutPutPages \/ OutFreePages
    PROVE  HeldOK'
<1>1. step \in Loading /\ step' \in Loading /\ cur' = cur /\ listed' = listed
  BY Zenon DEF AllocPages, Pin, Vmap, OutVunmap, OutPutPages, OutFreePages, Goto, Keep, Loading
<1>2. cur \in Ids /\ OwnOK(own[cur]) /\ own[cur] \in Owns /\ Types /\ own \in [Ids -> Owns]
  BY <1>1, HeldCur, Zenon DEF Basic, Types
<1>3. \A i \in Ids : i # cur => own'[i] = own[i]
  BY <1>2, Zenon DEF AllocPages, Pin, Vmap, OutVunmap, OutPutPages, OutFreePages
<1>4. OwnOK(own[cur])'
  <2>1. CASE AllocPages
    BY <1>2, <2>1 DEF AllocPages, Goto, Keep, OwnOK, Partly, Loaded, Owns
  <2>2. CASE \E n \in 1 .. Pages : Pin(n)
    <3>1. PICK n \in 1 .. Pages : Pin(n) BY <2>2, Zenon
    <3>2. step' = "vmap" /\ cur' = cur /\ Partly(own[cur], 1, 0) /\ own[cur].pins = 0
      BY <1>2, <3>1, Zenon DEF Pin, Goto, Keep, OwnOK
    <3>3. own'[cur] = [own[cur] EXCEPT !.pins = own[cur].pins + n, !.npages = n]
      BY <1>2, <3>1, Zenon DEF Pin
    <3>4. 0 + n = n /\ n \in 0 .. Pages /\ n > 0 BY ModuleLoadAssumption, SMT
    <3> QED BY <1>2, <3>2, <3>3, <3>4 DEF OwnOK, Partly, Owns
  <2>3. CASE Vmap
    BY <1>2, <2>3 DEF Vmap, Goto, Keep, OwnOK, Partly, Loaded, Owns
  <2>4. CASE OutVunmap
    BY <1>2, <2>4 DEF OutVunmap, Goto, Keep, OwnOK, Partly, Loaded, Owns
  <2>5. CASE OutPutPages
    BY <1>2, <2>5 DEF OutPutPages, Goto, Keep, OwnOK, Partly, Loaded, Owns
  <2>6. CASE OutFreePages
    BY <1>2, <2>6 DEF OutFreePages, Goto, Keep, OwnOK, Partly, Loaded, Owns
  <2> QED BY <2>1, <2>2, <2>3, <2>4, <2>5, <2>6, Zenon
<1> QED
  BY <1>1, <1>2, <1>3, <1>4, HeldInside, Zenon

\* A module is begun.
LEMMA HeldAlloc ==
    ASSUME HeldOK, Basic, AllocModule
    PROVE  HeldOK'
<1>1. cur' \in Free /\ step = "alloc" /\ step' = "find_vma" /\ listed' = listed
  BY Zenon DEF AllocModule, Goto, Keep
<1>2. cur' \in Ids /\ own[cur'] = Nothing /\ ~Listed(cur')
  BY <1>1, Zenon DEF Free, Listed
<1>3. own' = [own EXCEPT ![cur'].struct = 1] /\ own \in [Ids -> Owns] /\ listed \in Seq(Ids)
  BY Zenon DEF AllocModule, Basic, Types
<1>4. OwnOK(own[cur])'
  <2>1. own'[cur'] = [own[cur'] EXCEPT !.struct = 1]
    BY <1>2, <1>3, Zenon
  <2> QED BY <1>1, <1>2, <2>1, ModuleLoadAssumption DEF OwnOK, Partly, Nothing
<1>5. \A i \in Ids : i # cur' => own'[i] = own[i]
  BY <1>3, Zenon
<1>6. \A k \in DOMAIN listed : Loaded(own[listed[k]])'
  <2>1. \A k \in DOMAIN listed : listed[k] \in Ids /\ listed[k] # cur'
    BY <1>2, <1>3 DEF Listed
  <2> QED BY <1>1, <1>5, <2>1, ZenonT(60) DEF HeldOK, Loaded
<1>7. ASSUME NEW i \in Ids, i # cur'
      PROVE  Listed(i)' \/ (~Listed(i)' /\ own'[i] = Nothing)
  BY <1>1, <1>5, <1>7, Zenon DEF HeldOK, Listed, Loading
<1>8. ~Listed(cur)'
  BY <1>1, <1>2, Zenon DEF Listed
<1> QED
  BY <1>1, <1>2, <1>4, <1>6, <1>7, <1>8, Zenon DEF HeldOK, Loading

\* A module that could not be loaded is freed, and then owns nothing.
LEMMA HeldError ==
    ASSUME HeldOK, Basic, OutError
    PROVE  HeldOK'
<1>1. step = "out" /\ step' \in {"unmap", "idle"} /\ cur' = cur /\ listed' = listed
  BY Zenon DEF OutError, Keep
<1>2. cur \in Ids /\ OwnOK(own[cur]) /\ own[cur] \in Owns /\ ~Listed(cur)
  BY <1>1, HeldCur, Zenon DEF Basic, Loading
<1>3. /\ own' = [own EXCEPT ![cur].struct = own[cur].struct - 1, ![cur].npages = 0]
      /\ own \in [Ids -> Owns] /\ listed \in Seq(Ids)
  BY Zenon DEF OutError, FreeModule, Basic, Types
<1>4. own'[cur] = Nothing
  <2>1. own'[cur] = [own[cur] EXCEPT !.struct = own[cur].struct - 1, !.npages = 0]
    BY <1>2, <1>3, Zenon
  <2>2. Partly(own[cur], 0, 0) /\ own[cur].pins = 0
    BY <1>1, <1>2, Zenon DEF OwnOK
  <2>3. own'[cur] \in Owns
    BY <1>2, OwnTyped, Zenon DEF Basic
  <2>4. /\ own'[cur].struct = 0 /\ own'[cur].pages = 0 /\ own'[cur].pins = 0
        /\ own'[cur].vmap = 0 /\ own'[cur].npages = 0
    BY <1>2, <2>1, <2>2 DEF Partly, Owns
  <2> QED BY <2>3, <2>4, Zenon DEF Nothing, Owns
<1>5. \A i \in Ids : i # cur => own'[i] = own[i]
  BY <1>3, Zenon
<1>6. \A k \in DOMAIN listed : Loaded(own[listed[k]])'
  <2>1. \A k \in DOMAIN listed : listed[k] \in Ids /\ listed[k] # cur
    BY <1>2, <1>3 DEF Listed
  <2> QED BY <1>1, <1>5, <2>1, ZenonT(60) DEF HeldOK, Loaded
<1>7. ASSUME NEW i \in Ids
      PROVE  Listed(i)' \/ (~Listed(i)' /\ own'[i] = Nothing)
  BY <1>1, <1>2, <1>4, <1>5, Zenon DEF HeldOK, Listed, Loading
<1> QED
  BY <1>1, <1>6, <1>7, Zenon DEF HeldOK, Loading

\* A module that is loaded goes on the list.
LEMMA HeldAdd ==
    ASSUME HeldOK, Basic, Add
    PROVE  HeldOK'
<1>1. /\ step = "add" /\ step' \in {"unmap", "segment"} /\ own' = own
      /\ listed' = Append(listed, cur)
  BY Zenon DEF Add, Goto
<1>2. cur \in Ids /\ Loaded(own[cur]) /\ ~Listed(cur) /\ listed \in Seq(Ids)
  BY <1>1, HeldCur, Zenon DEF Basic, Types, Loading, OwnOK
<1>3. /\ DOMAIN listed' = DOMAIN listed \cup {Len(listed) + 1}
      /\ Len(listed) + 1 \notin DOMAIN listed
      /\ \A k \in DOMAIN listed : listed'[k] = listed[k]
      /\ listed'[Len(listed) + 1] = cur
  BY <1>1, <1>2
<1>4. \A j, k \in DOMAIN listed' : listed'[j] = listed'[k] => j = k
  BY <1>2, <1>3, Zenon DEF HeldOK, Listed
<1>5. \A k \in DOMAIN listed' : Loaded(own[listed[k]])'
  BY <1>1, <1>2, <1>3 DEF HeldOK, Loaded
<1>6. ASSUME NEW i \in Ids
      PROVE  Listed(i)' \/ (~Listed(i)' /\ own'[i] = Nothing)
  BY <1>1, <1>3, ZenonT(60) DEF HeldOK, Listed, Loading
<1> QED
  BY <1>1, <1>4, <1>5, <1>6, Zenon DEF HeldOK, Loading

\* release_unwind_info closes the first module, which then owns nothing.
LEMMA HeldClose ==
    ASSUME HeldOK, Basic, CloseModule
    PROVE  HeldOK'
<1> DEFINE h == Head(listed)
<1>1. /\ step = "release" /\ step' = "release" /\ listed # <<>> /\ listed' = Tail(listed)
      /\ listed \in Seq(Ids) /\ own \in [Ids -> Owns]
  BY Zenon DEF CloseModule, Goto, Basic, Types
<1>2. /\ 1 \in DOMAIN listed /\ h = listed[1] /\ h \in Ids
      /\ DOMAIN listed' = 1 .. Len(listed) - 1 /\ DOMAIN listed = 1 .. Len(listed)
      /\ \A k \in DOMAIN listed' : k + 1 \in DOMAIN listed /\ listed'[k] = listed[k + 1]
      /\ Len(listed) \in Nat
  BY <1>1
<1>3. own'[h] = Nothing /\ \A i \in Ids : i # h => own'[i] = own[i]
  <2>1. Loaded(own[h]) /\ own[h] \in Owns
    BY <1>1, <1>2, Zenon DEF HeldOK
  <2> QED BY <1>1, <1>2, <2>1 DEF CloseModule, Loaded, Nothing, Owns
<1>4. \A k \in DOMAIN listed' : listed'[k] \in Ids /\ listed'[k] # h
  BY <1>1, <1>2 DEF HeldOK
<1>5. \A j, k \in DOMAIN listed' : listed'[j] = listed'[k] => j = k
  BY <1>2 DEF HeldOK
<1>6. \A k \in DOMAIN listed' : Loaded(own[listed[k]])'
  BY <1>2, <1>3, <1>4 DEF HeldOK, Loaded
<1>7. ASSUME NEW i \in Ids
      PROVE  Listed(i)' \/ (~Listed(i)' /\ own'[i] = Nothing)
  <2>1. CASE i = h
    BY <1>3, <1>4, <2>1, Zenon DEF Listed
  <2>2. CASE i # h
    <3>1. CASE Listed(i)
      <4>1. PICK k \in DOMAIN listed : listed[k] = i
        BY <3>1, Zenon DEF Listed
      <4>2. k # 1 /\ k - 1 \in DOMAIN listed' /\ (k - 1) + 1 = k
        BY <1>2, <2>2, <4>1
      <4> QED BY <1>2, <4>1, <4>2, Zenon DEF Listed
    <3>2. CASE ~Listed(i)
      BY <1>1, <1>2, <1>3, <2>2, <3>2, Zenon DEF HeldOK, Listed, Loading
    <3> QED BY <3>1, <3>2, Zenon
  <2> QED BY <2>1, <2>2, Zenon
<1> QED
  BY <1>1, <1>5, <1>6, <1>7, Zenon DEF HeldOK, Loading

\* An oops leaves the list as it is.
LEMMA HeldOops ==
    ASSUME HeldOK, NEW s, Oops(s)
    PROVE  HeldOK'
  BY Zenon DEF HeldOK, Oops, Goto, Keep, Loaded

\* The steps outside of init_kunwind_stp_module.
LEMMA HeldRest ==
    ASSUME HeldOK, Basic,
           \/ Call \/ NextSegment \/ LastSegment \/ Released \/ LastVma \/ SkipVma
           \/ PinHeaders \/ MapHeadersFails \/ MapHeaders \/ NoUnwindInfo \/ HasUnwindInfo
           \/ UnmapHeaders \/ PutHeaders \/ AllocModuleFails
    PROVE  HeldOK'
<1>1. CASE Call
  <2>1. step \notin Loading \cup {"oops"} /\ step' \notin Loading /\ own' = own
    BY <1>1, Zenon DEF Call, Open, Begin, Unreadable, Release, Goto, Loading
  <2>2. listed' = listed
    BY <1>1, Zenon DEF Call, Open, Begin, Unreadable, Release, Goto, Basic, CallOK
  <2> QED BY <2>1, <2>2, HeldOutside, Zenon
<1>2. CASE AllocModuleFails
  <2>1. CASE call = "proc_info" /\ Oops("alloc")
    BY <2>1, HeldOops, Zenon
  <2>2. CASE ~(call = "proc_info" /\ Oops("alloc"))
    BY <1>2, <2>2, HeldOutside, Zenon DEF AllocModuleFails, Goto, Keep, Loading
  <2> QED BY <2>1, <2>2, Zenon
<1>3. CASE NextSegment \/ LastSegment \/ Released \/ LastVma \/ SkipVma
  BY <1>3, HeldOutside, Zenon DEF NextSegment, LastSegment, Released, LastVma, SkipVma, Goto, Keep,
                           Loading
<1>4. CASE PinHeaders \/ MapHeadersFails \/ MapHeaders \/ NoUnwindInfo \/ HasUnwindInfo
  BY <1>4, HeldOutside, Zenon DEF PinHeaders, MapHeadersFails, MapHeaders, NoUnwindInfo,
                           HasUnwindInfo, Goto, Keep, Loading
<1>5. CASE UnmapHeaders \/ PutHeaders
  BY <1>5, HeldOutside, Zenon DEF UnmapHeaders, PutHeaders, Goto, Keep, Loading
<1> QED
  BY <1>1, <1>2, <1>3, <1>4, <1>5, Zenon

\* Only a failing step leads to the labels at the end.
LEMMA FailingKept ==
    ASSUME Basic, Failing, ~differs, Call \/ Work
    PROVE  Failing'
<1> USE DEF Failing, Goto, Keep
<1>1. CASE Call
  BY <1>1, Zenon DEF Call, Open, Begin, Unreadable, Release
<1>2. CASE \/ NextSegment \/ LastSegment \/ LastVma \/ SkipVma \/ PinHeaders \/ MapHeadersFails
           \/ MapHeaders \/ NoUnwindInfo \/ HasUnwindInfo \/ UnmapHeaders \/ PutHeaders
           \/ CloseModule \/ Released \/ AllocModule \/ AllocModuleFails \/ NoVma
           \/ HeaderNotMapped \/ AllocPages \/ OutZero \/ OutError \/ Add
  BY <1>2, Zenon DEF NextSegment, LastSegment, LastVma, SkipVma, PinHeaders, MapHeadersFails,
         MapHeaders, NoUnwindInfo, HasUnwindInfo, UnmapHeaders, PutHeaders, CloseModule,
         Released, AllocModule, AllocModuleFails, NoVma, HeaderNotMapped, Oops, AllocPages,
         OutZero, OutError, Add
<1>3. CASE AllocPagesFails \/ PinFails \/ (\E n \in 1 .. Pages : Pin(n)) \/ VmapFails \/ Vmap
  <2>1. ENOMEM # 0 /\ EFAULT # 0 /\ \A n \in 1 .. Pages : n # 0
    BY ModuleLoadAssumption DEF ENOMEM, EFAULT
  <2> QED BY <1>3, <2>1, Zenon DEF AllocPagesFails, PinFails, Pin, VmapFails, Vmap
<1>4. CASE EhFrameGiven \/ EhFrameFound \/ EhFrameNotFound \/ TestFaults \/ TestSame \/ TestDiffers
  BY <1>4 DEF EhFrameGiven, EhFrameFound, EhFrameNotFound, TestFaults, TestSame, TestDiffers,
         EINVAL, EFAULT
<1>5. CASE OutVunmap \/ OutPutPages \/ OutFreePages
  BY <1>5, Zenon DEF OutVunmap, OutPutPages, OutFreePages
<1> QED
  BY <1>1, <1>2, <1>3, <1>4, <1>5, Zenon DEF Work

-----------------------------------------------------------------------------
(* The theorems about ModuleLoad *)

\* At the start nothing is owned.
LEMMA InitOK == Init => IInv
<1> SUFFICES ASSUME Init PROVE IInv
  BY Zenon
<1>1. Types
  BY ModuleLoadAssumption DEF Init, Types, Steps, Loading, Owns, Nothing
<1>2. CallOK /\ PageOK /\ CountOK
  BY Zenon DEF Init, CallOK, PageOK, CountOK, Loading
<1>3. Failing /\ HeldOK
  BY DEF Init, Failing, HeldOK, Listed, Loading
<1> QED
  BY <1>1, <1>2, <1>3, Zenon DEF IInv

\* Every step keeps the invariant.
LEMMA StepOK == IInv /\ [Next]_vars => IInv'
<1> SUFFICES ASSUME IInv, [Next]_vars PROVE IInv'
  BY Zenon
<1>0. Basic
  BY ZenonT(60) DEF IInv, Basic
<1>1. CASE UNCHANGED vars
  BY <1>1 DEF vars, IInv, Types, CallOK, PageOK, CountOK, Failing, HeldOK, OwnOK, Partly,
              Loaded, Listed
<1>2. CASE Next
  <2>0. (Call \/ Work) /\ UNCHANGED differs
    BY <1>2, Zenon DEF Next
  <2>1. CASE NoVma \/ HeaderNotMapped
    <3>1. PICK s \in Loading : Oops(s)
      BY <2>1, Zenon DEF NoVma, HeaderNotMapped, Loading
    <3>2. Basic'
      BY <1>0, <2>0, <3>1, OopsBasic, Zenon
    <3>3. ~differs => Failing' /\ HeldOK'
      BY <1>0, <2>0, <3>1, HeldOops, FailingKept, Zenon DEF IInv
    <3> QED BY <2>0, <3>2, <3>3, Zenon DEF IInv, Basic
  <2>2. CASE ~(NoVma \/ HeaderNotMapped)
    <3>1. Basic'
      BY <1>0, <2>0, <2>2, CallBasic, PhdrBasic, LoadBasic, OutBasic, Zenon DEF Work
    <3>2. ~differs => Failing' /\ HeldOK'
      BY <1>0, <2>0, <2>2, FailingKept, HeldRest, HeldQuiet, HeldTakes, HeldAlloc, HeldError,
         HeldAdd, HeldClose, Zenon DEF IInv, Work
    <3> QED BY <2>0, <3>1, <3>2, Zenon DEF IInv, Basic
  <2> QED BY <2>1, <2>2, Zenon
<1> QED
  BY <1>1, <1>2, Zenon

\* The invariant, for any number of modules, ioctls, segments and pages.
LEMMA LoadInvariant == Spec => []IInv
  BY InitOK, StepOK, PTL DEF Spec

\* What the invariant says of the properties.
LEMMA InvImplies == IInv => LoadedIsMapped /\ NothingStray /\ ZeroMeansAll
<1> SUFFICES ASSUME IInv PROVE LoadedIsMapped /\ NothingStray /\ ZeroMeansAll
  BY Zenon
<1>1. LoadedIsMapped
  BY DEF IInv, HeldOK, Loaded, LoadedIsMapped, ListedIsMapped
<1>2. NothingStray
  BY Zenon DEF IInv, HeldOK, Listed, PageOK, Loading, NothingStray
<1>3. ZeroMeansAll
  BY Zenon DEF IInv, CountOK, ZeroMeansAll
<1> QED
  BY <1>1, <1>2, <1>3, Zenon

\* Whatever step of init_kunwind_stp_module fails, what is on stp_modules is mapped
\* and holds its pages (while user memory reads as the mapping does).
THEOREM ModulesAreMapped == Spec => []LoadedIsMapped
  BY LoadInvariant, InvImplies, PTL

\* Between ioctls, and after release_unwind_info, no page is pinned, nothing mapped
\* and nothing allocated but by the modules on the list.
THEOREM NothingLeft == Spec => []NothingStray
  BY LoadInvariant, InvImplies, PTL

\* The proc_info ioctl answers 0 only when every segment is on the list, whether or
\* not user memory reads as the mapping does.
THEOREM ZeroIsAll == Spec => []ZeroMeansAll
  BY LoadInvariant, InvImplies, PTL

-----------------------------------------------------------------------------
(* The library *)

\* find_proc_info gives the segments of a process, or fails.
LEMMA FindsSegments ==
    ASSUME NEW o \in Objects, find_proc_info(o) # Crash
    PROVE  find_proc_info(o) \in 0 .. MaxSegments
<1>1. PICK n \in 1 .. MaxSegments : o \in [1 .. n -> BOOLEAN]
  BY Zenon DEF Objects
<1>2. Len(o) = n
  BY <1>1, ModuleLoadAssumption
<1> QED
  BY <1>1, <1>2, ModuleLoadAssumption DEF find_proc_info, NULL, Crash

\* The argument of the library's ioctl is one of them.
PinfoOK == pinfo \in 0 .. MaxSegments

\* At every step.
LEMMA PinfoKept == PinfoOK /\ [LibNext]_<<vars, libVars>> => PinfoOK'
<1> SUFFICES ASSUME PinfoOK, [LibNext]_<<vars, libVars>> PROVE PinfoOK'
  BY Zenon
<1>1. CASE \E p \in {NULL} \cup {find_proc_info(o) : o \in Objects} : Fopen(p)
  <2>1. PICK p \in {NULL} \cup {find_proc_info(o) : o \in Objects} : Fopen(p)
    BY <1>1, Zenon
  <2>2. p # Crash /\ pinfo' = p
    BY <2>1, Zenon DEF Fopen
  <2>3. p \in 0 .. MaxSegments
    BY <2>1, <2>2, FindsSegments, ModuleLoadAssumption DEF NULL
  <2> QED BY <2>2, <2>3, Zenon DEF PinfoOK
<1>2. CASE ~\E p \in {NULL} \cup {find_proc_info(o) : o \in Objects} : Fopen(p)
  <2>1. pinfo' = pinfo
    BY <1>2, Zenon DEF LibNext, Library, libVars, FopenFails, kunwind_close, Exit, Ioctl,
                IoctlFailed, CallocFails, Succeed, Closed
  <2> QED BY <2>1, Zenon DEF PinfoOK
<1> QED
  BY <1>1, <1>2, Zenon

\* Under the library the kernel does nothing that it would not do for some caller.
LEMMA LibraryStep == PinfoOK /\ [LibNext]_<<vars, libVars>> => [Next]_vars
<1> SUFFICES ASSUME PinfoOK, [LibNext]_<<vars, libVars>> PROVE [Next]_vars
  BY Zenon
<1>1. CASE UNCHANGED <<vars, libVars>>
  BY <1>1, Zenon
<1>2. CASE FopenFails \/ IoctlFailed \/ Succeed \/ Closed
  BY <1>2, Zenon DEF FopenFails, IoctlFailed, Succeed, Closed
<1>3. CASE \/ kunwind_close \/ Exit \/ CallocFails \/ Ioctl
           \/ \E p \in {NULL} \cup {find_proc_info(o) : o \in Objects} : Fopen(p)
  <2>1. \/ UNCHANGED vars
        \/ (Release \/ Open \/ Ioctl) /\ UNCHANGED differs
    BY <1>3, Zenon DEF kunwind_close, Exit, CallocFails, Ioctl, Fopen
  <2>2. ASSUME Ioctl PROVE Call
    BY <2>2, Zenon DEF Ioctl, Call, PinfoOK
  <2> QED BY <2>1, <2>2, Zenon DEF Next, Call
<1> QED
  BY <1>1, <1>2, <1>3, Zenon DEF LibNext, Library, Next

\* What the library starts with.
LEMMA LibraryInit == LibInit => PinfoOK /\ Init
  BY ModuleLoadAssumption DEF LibInit, PinfoOK, NULL

\* LibKunwind composes the library with ModuleLoad as it is: every theorem about
\* loading holds under the library too.
THEOREM LibraryImplementsLoad == LibSpec => Spec
  BY LibraryInit, PinfoKept, LibraryStep, PTL DEF LibSpec, Spec

\* What the kernel does in a call ends it only by answering it.
LEMMA WorkMoves ==
    ASSUME Work
    PROVE  /\ step \notin {"idle", "released"}
           /\ step = "release" => step' \in {"release", "released"}
           /\ step # "release" => step' \notin {"release", "released"}
<1> USE DEF Goto
<1>1. CASE \/ NextSegment \/ LastSegment \/ LastVma \/ SkipVma \/ PinHeaders \/ MapHeadersFails
           \/ MapHeaders \/ NoUnwindInfo \/ HasUnwindInfo \/ UnmapHeaders \/ PutHeaders
           \/ CloseModule \/ Released
  BY <1>1, Zenon DEF NextSegment, LastSegment, LastVma, SkipVma, PinHeaders, MapHeadersFails,
         MapHeaders, NoUnwindInfo, HasUnwindInfo, UnmapHeaders, PutHeaders, CloseModule,
         Released
<1>2. CASE \/ AllocModule \/ AllocModuleFails \/ NoVma \/ AllocPagesFails \/ AllocPages \/ PinFails
           \/ (\E n \in 1 .. Pages : Pin(n)) \/ VmapFails \/ Vmap
  BY <1>2, Zenon DEF AllocModule, AllocModuleFails, NoVma, Oops, AllocPagesFails, AllocPages, PinFails,
         Pin, VmapFails, Vmap
<1>3. CASE \/ EhFrameGiven \/ EhFrameFound \/ EhFrameNotFound \/ HeaderNotMapped
           \/ TestFaults \/ TestSame \/ TestDiffers
  BY <1>3, Zenon DEF EhFrameGiven, EhFrameFound, EhFrameNotFound, HeaderNotMapped, Oops,
         TestFaults, TestSame, TestDiffers
<1>4. CASE OutVunmap \/ OutPutPages \/ OutFreePages \/ OutZero \/ OutError \/ Add
  BY <1>4, Zenon DEF OutVunmap, OutPutPages, OutFreePages, OutZero, OutError, Add
<1> QED
  BY <1>1, <1>2, <1>3, <1>4, Zenon DEF Work

\* Where the thread is in the library, and what it then has.  The last conjunct ties
\* the answer 0 to the kernel's.
LibInv ==
    /\ file \in BOOLEAN /\ handle \in BOOLEAN /\ lost \in BOOLEAN
    /\ use = "file" => lib = "app"
    /\ use = "library" =>
         \/ /\ lib = "app" /\ step \in {"idle", "released"}
            /\ file = (step = "idle") /\ file = (handle \/ lost) /\ ~(handle /\ lost)
            /\ step = "idle" /\ ret = 0 => handle /\ res = 0
         \/ lib = "ioctl" /\ step = "idle" /\ file /\ ~handle /\ ~lost
         \/ lib = "answer" /\ step \notin {"release", "released"} /\ file /\ ~handle /\ ~lost
         \/ lib = "closing" /\ step \in {"release", "released"} /\ ~handle /\ ~lost
         \/ lib = "exited"
    /\ use \in {"file", "library"}

\* The library's own steps keep it.
LEMMA LibStepOK == IInv /\ LibInv /\ [LibNext]_<<vars, libVars>> => LibInv'
<1> SUFFICES ASSUME IInv, LibInv, [LibNext]_<<vars, libVars>> PROVE LibInv'
  BY Zenon
<1> USE DEF LibInv
<1>1. CASE UNCHANGED <<vars, libVars>>
  BY <1>1, Zenon DEF vars, libVars
<1>2. CASE FopenFails
  BY <1>2 DEF FopenFails, CallerFree, Busy, EBUSY, ENOMEM, vars
<1>3. CASE kunwind_close
  BY <1>3, Zenon DEF kunwind_close, CallerFree, Release, Goto
<1>4. CASE Exit
  BY <1>4, Zenon DEF Exit, CallerFree, Release, Goto, vars
<1>5. CASE \E p \in {NULL} \cup {find_proc_info(o) : o \in Objects} : Fopen(p)
  BY <1>5, Zenon DEF Fopen, CallerFree, Busy, Open, Goto
<1>6. CASE Ioctl
  BY <1>6, Zenon DEF Ioctl, Begin, Unreadable, Goto
<1>7. CASE IoctlFailed
  BY <1>7 DEF IoctlFailed, Answered, vars, IInv, Types
<1>8. CASE CallocFails
  BY <1>8, Zenon DEF CallocFails, Answered, Release, Goto
<1>9. CASE Succeed
  BY <1>9, Zenon DEF Succeed, Answered, vars
<1>10. CASE Closed
  BY <1>10, Zenon DEF Closed, vars
<1>11. CASE Work /\ UNCHANGED <<differs, libVars>>
  BY <1>11, WorkMoves, Zenon DEF libVars
<1>12. CASE use = "file" /\ Call /\ UNCHANGED <<differs, libVars>>
  BY <1>12, Zenon DEF libVars
<1> QED
  BY <1>1, <1>2, <1>3, <1>4, <1>5, <1>6, <1>7, <1>8, <1>9, <1>10, <1>11, <1>12, Zenon
  DEF LibNext, Library

\* Both invariants hold under the library.
LEMMA LibInvariant == LibSpec => [](IInv /\ LibInv)
<1>1. LibInit => LibInv
  BY Zenon DEF LibInit, Init, LibInv
<1> QED
  BY <1>1, LibStepOK, LibraryImplementsLoad, LoadInvariant, PTL DEF LibSpec

\* kunwind_init_proc_info answers 0 only with a handle, an open file and every
\* segment loaded and mapped.
THEOREM ZeroIsReady == LibSpec => []ZeroMeansReady
<1>1. IInv /\ LibInv => ZeroMeansReady
  BY InvImplies, Zenon DEF LibInv, ZeroMeansReady, ZeroMeansAll
<1> QED
  BY <1>1, LibInvariant, PTL

\* The file is open exactly as long as there is a handle to close it with, or an
\* ioctl has failed, after which the thread gets no handle.
THEOREM FilesAccounted == LibSpec => []FileAccounted
<1>1. IInv /\ LibInv => FileAccounted
  BY Zenon DEF LibInv, FileAccounted
<1> QED
  BY <1>1, LibInvariant, PTL
=============================================================================
