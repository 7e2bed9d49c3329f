------------------------------- MODULE EhFrame -------------------------------
(***************************************************************************)
(* From the mapped image of a module to the instructions for a pc (src/src/unwind.c): *)
(* eh_frame_from_hdr finds .eh_frame and its size from .eh_frame_hdr, once per    *)
(* module; then __unwind_frame checks the FDE that _stp_search_fde takes from the  *)
(* table (check_fde), finds its CIE (cie_for_fde), parses both (parse_fde_cie) and  *)
(* locates the code they describe.  One action per function, and per iteration of  *)
(* the two loops.  The binary search itself is FdeSearch, the instructions are      *)
(* CfiProgram.                                                               *)
(***************************************************************************)
EXTENDS EhBytes

CONSTANT Images     \* [mem, hdr, hdrlen, vm_start, vm_end, compat, dynamic, fdes, pcs]

\* The kernel's mapping is as long as the vma.  The bytes are arbitrary, and so are the
\* addresses that the table gives for FDEs.
ASSUME ImagesAssumption ==
    \A i \in Images :
        /\ i.vm_start \in Nat /\ i.vm_end \in Nat
        /\ i.mem \in [Base .. (Base + i.vm_end - i.vm_start - 1) -> Byte]
        /\ i.fdes \subseteq Nat

VARIABLES
    img,        \* the image and the arguments
    phase,
    ptr,        \* the record the scan has reached
    ehf,        \* struct section: kbuf, offset, size
    pc, fde, cie,
    aug,        \* the next character of the augmentation string
    ciePtr, fdePtr,
    head,       \* what parse_fde_cie has taken from the CIE
    out         \* what it has taken from the FDE

vars == <<img, phase, ptr, ehf, pc, fde, cie, aug, ciePtr, fdePtr, head, out>>

None == [none |-> TRUE]

Init ==
    /\ img \in Images
    /\ phase = "load" /\ ptr = 0 /\ ehf = [kbuf |-> 0, offset |-> 0, size |-> 0]
    /\ pc = 0 /\ fde = 0 /\ cie = 0 /\ aug = 0 /\ ciePtr = 0 /\ fdePtr = 0
    /\ head = None /\ out = None

mem == img.mem
Mapped(p, n) == p \in DOMAIN mem /\ p + n - 1 \in DOMAIN mem
hdr_addr == img.hdr - Base

-----------------------------------------------------------------------------
(* eh_frame_from_hdr *)

\* eh_frame_ptr of the header.
ReadHeader ==
    /\ phase = "load"
    /\ \E eh \in {read_ptr_sect(mem, img.hdr + 4, img.hdr + img.hdrlen, mem[img.hdr + 1],
                                img.vm_start, hdr_addr, img.compat, -1).val} :
          ehf' = [ehf EXCEPT !.kbuf = eh, !.offset = (eh - Base) % WordMod] /\ ptr' = eh
    /\ phase' = "scan"
    /\ UNCHANGED <<img, pc, fde, cie, aug, ciePtr, fdePtr, head, out>>

RecordAt(p) ==
    LET long == ReadU32(mem, p) = U32Max
        At(q, size) == [size |-> size, end |-> (q + size) % WordMod]
    IN  IF long THEN At(p + U32 + ULong, ReadULong(mem, p + U32))
        ELSE At(p + U32, ReadU32(mem, p))

\* The end of the section so far lies beyond the vma.
TooLong(len) == (len + img.vm_start + hdr_addr) % WordMod > img.vm_end

\* The scan includes the terminator, a record of size 0.
EhLen_NoTerminator(end) == (ptr - ehf.kbuf) % WordMod

EhLen(end) == (end - ehf.kbuf) % WordMod

\* prev_ptr >= ptr: the record has no length, or one that wraps.
NoProgress_Untested(end) == FALSE

NoProgress(end) == ptr >= end

\* The length at ptr lies in the image.
Readable ==
    /\ Mapped(ptr, U32)
    /\ ReadU32(mem, ptr) = U32Max => Mapped(ptr + U32, ULong)

\* One iteration; size is a u32.  A record outside the image is not followed further.
Scan ==
    /\ phase = "scan"
    /\ \/ /\ ~Readable
          /\ phase' = "off"
          /\ UNCHANGED <<ptr, ehf>>
       \/ /\ Readable
          /\ \E r \in {RecordAt(ptr)} :
                IF TooLong(EhLen(r.end)) \/ NoProgress(r.end)
                THEN phase' = "einval" /\ UNCHANGED <<ptr, ehf>>
                ELSE /\ ptr' = r.end
                     /\ phase' = IF r.size = 0 THEN "loaded" ELSE "scan"
                     /\ ehf' = IF r.size # 0 THEN ehf
                               ELSE [ehf EXCEPT !.size = EhLen(r.end) % (U32Max + 1)]
    /\ UNCHANGED <<img, pc, fde, cie, aug, ciePtr, fdePtr, head, out>>

-----------------------------------------------------------------------------
(* check_fde and cie_for_fde *)

\* The tests on the header that _stp_search_fde makes for every pc; table_size is 2, 4
\* or 8 as in the code, TableBytes what such a number takes here.
TableForm == DecodeEnc(mem[img.hdr + 3]).form

table_size ==
    CASE TableForm = "data2" -> 2
      [] TableForm = "data4" -> 4
      [] TableForm = "data8" -> 8
      [] OTHER -> IF img.compat THEN 4 ELSE 8

TableBytes == CASE table_size = 2 -> U32 \div 2 [] table_size = 4 -> U32 [] OTHER -> ULong

\* A pointer of the header, at p with encoding b.
HdrField(p, b) ==
    read_ptr_sect(mem, p, img.hdr + img.hdrlen, b, 0, hdr_addr, img.compat, table_size)

\* eh_frame_ptr as an offset in the vma.
SearchEh(eh) ==
    IF DecodeEnc(mem[img.hdr + 1]).adjust = "pcrel"
    THEN (eh - img.hdr + hdr_addr) % WordMod ELSE eh

\* num is an unsigned int, and the rest of the header is so many entries.
CountOK(num, p) ==
    num # 0 /\ img.hdr + img.hdrlen - p = num * 2 * TableBytes

HeaderOK ==
    /\ img.hdrlen >= 4 /\ mem[img.hdr] = 1
    /\ TableForm \in {"absptr", "data2", "data4", "data8"}
    /\ \E eh \in {HdrField(img.hdr + 4, mem[img.hdr + 1])} :
          /\ SearchEh(eh.val) = ehf.offset
          /\ \E cnt \in {HdrField(eh.cur, mem[img.hdr + 2])} :
                CountOK(cnt.val % (U32Max + 1), cnt.cur)

has_cie_id(p) == ReadU32(mem, p + U32) \in {0, U32Max}

\* Addresses from the first to the one after the last of the section.
InTable(p) == ehf.kbuf <= p /\ p <= ehf.kbuf + ehf.size

RecordEnd(p) == p + U32 + ReadU32(mem, p)

check_fde(f) ==
    /\ ReadU32(mem, f) # 0 /\ ReadU32(mem, f) % U32 = 0
    /\ ~has_cie_id(f)
    /\ InTable(RecordEnd(f))

\* The table's FDE for this pc, up to check_fde at the end of _stp_search_fde.
FindFde(p, f) ==
    /\ phase = "loaded"
    /\ pc' = p
    /\ IF ehf.size # 0 /\ ehf.size % U32 = 0 /\ HeaderOK
       THEN /\ fde' = f
            /\ phase' = IF ~Mapped(f, 2 * U32) THEN "off"
                        ELSE IF check_fde(f) THEN "fde" ELSE "err"
       ELSE fde' = 0 /\ phase' = "err"
    /\ UNCHANGED <<img, ptr, ehf, cie, aug, ciePtr, fdePtr, head, out>>

\* CIE_pointer counts back from itself, and must not lead out of the section.
CiePointerOK(back) ==
    back % U32 = 0 /\ back <= (fde + U32 - ehf.kbuf) % WordMod

\* The CIE ends before the FDE's own words.
CieSizeOK_Unbounded(size, back) == size > U32 + 4

CieSizeOK(size, back) == size > U32 + 4 /\ size < (back - U32) % WordMod

cie_for_fde ==
    /\ phase = "fde"
    /\ \E back \in {ReadU32(mem, fde + U32)} : \E c \in {fde + U32 - back} :
          IF /\ CiePointerOK(back) /\ InTable(c)
             /\ CieSizeOK(ReadU32(mem, c), back) /\ has_cie_id(c)
             /\ mem[c + 2 * U32] \in {1, 3, 4}
             /\ InTable(RecordEnd(c))
          THEN cie' = c /\ phase' = "cie" ELSE cie' = 0 /\ phase' = "err"
    /\ UNCHANGED <<img, ptr, ehf, pc, fde, aug, ciePtr, fdePtr, head, out>>

-----------------------------------------------------------------------------
(* parse_fde_cie *)

Char == [z |-> 122, L |-> 76, P |-> 80, R |-> 82, S |-> 83]

\* An augmentation length beyond the record; its sum with the position wraps, and a
\* length of the whole address space less the record or more is also caught.
Bogus_EndUntested(rec, p, end, n) == n > (rec - end) % WordMod

Bogus(rec, p, end, n) ==
    n > (rec - end) % WordMod \/ (p + n) % WordMod > end

\* The augmentation string ends within the CIE.
FindAug ==
    /\ phase = "cie"
    /\ head' = [end |-> RecordEnd(cie), start |-> 0, augLen |-> 0, codeAlign |-> 0,
                dataAlign |-> 0, retAddrReg |-> 0, call_frame |-> 1, ptrType |-> 0]
    /\ out' = [end |-> RecordEnd(fde), start |-> 0, augLen |-> 0, startLoc |-> 0, locRange |-> 0]
    /\ aug' = cie + 2 * U32 + 1
    /\ \E nuls \in {{p \in aug' .. (head'.end - 1) : mem[p] = 0}} :
          IF nuls = {} THEN phase' = "err" /\ UNCHANGED ciePtr
          ELSE phase' = "code" /\ ciePtr' = Min(nuls) + 1
    /\ UNCHANGED <<img, ptr, ehf, pc, fde, cie, fdePtr>>

ReadCodeAlign ==
    /\ phase = "code"
    /\ \E ca \in {get_uleb128(mem, ciePtr, head.end)} :
          ciePtr' = ca.cur /\ head' = [head EXCEPT !.codeAlign = ca.val]
    /\ phase' = "data"
    /\ UNCHANGED <<img, ptr, ehf, pc, fde, cie, aug, fdePtr, out>>

\* Both factors are read before either is tested.
ReadDataAlign ==
    /\ phase = "data"
    /\ \E da \in {get_sleb128(mem, ciePtr, head.end)} :
          /\ phase' = IF head.codeAlign = 0 \/ da.val = 0 THEN "err" ELSE "reg"
          /\ ciePtr' = da.cur /\ head' = [head EXCEPT !.dataAlign = da.val]
    /\ UNCHANGED <<img, ptr, ehf, pc, fde, cie, aug, fdePtr, out>>

\* Version 1 has the register in one byte.
ReadRetAddrReg ==
    /\ phase = "reg"
    /\ \E ra \in {IF mem[cie + 2 * U32] <= 1 THEN [val |-> mem[ciePtr], cur |-> ciePtr + 1]
                   ELSE get_uleb128(mem, ciePtr, head.end)} :
          ciePtr' = ra.cur /\ head' = [head EXCEPT !.retAddrReg = RegIndex(ra.val, img.compat)]
    /\ phase' = "auglen"
    /\ UNCHANGED <<img, ptr, ehf, pc, fde, cie, aug, fdePtr, out>>

\* The length of the data that follow, if the record has any.
AugLen(has, p, end) ==
    IF has THEN get_uleb128(mem, p, end) ELSE [val |-> 0, cur |-> p]

ReadAugLen ==
    /\ phase = "auglen"
    /\ \E z \in {mem[aug] = Char.z} : \E len \in {AugLen(z, ciePtr, head.end)} :
          /\ phase' = IF z /\ Bogus(cie, len.cur, head.end, len.val) THEN "err" ELSE "aug"
          /\ ciePtr' = len.cur
          /\ head' = [head EXCEPT !.augLen = len.val, !.start = (len.cur + len.val) % WordMod]
    /\ UNCHANGED <<img, ptr, ehf, pc, fde, cie, aug, fdePtr, out>>

\* A personality routine must be there; the pointer to it is not followed.
Personality ==
    \E r \in {read_pointer(mem, ciePtr + 1, head.start, mem[ciePtr] % 128, img.compat)} :
        /\ ciePtr' = IF r.val = 0 THEN ciePtr ELSE r.cur
        /\ phase' = IF r.val = 0 THEN "err" ELSE phase

\* What a character of the augmentation string says of the data at ciePtr, which must
\* not have run past their end.
Augment ==
    /\ phase = "aug" /\ mem[aug] # 0
    /\ \/ /\ ciePtr > head.start \/ mem[aug] \notin {Char[x] : x \in DOMAIN Char}
          /\ phase' = "err" /\ UNCHANGED <<ciePtr, head>>
       \/ /\ ciePtr <= head.start
          /\ \/ mem[aug] = Char.z /\ UNCHANGED <<phase, ciePtr, head>>
             \/ mem[aug] = Char.L /\ ciePtr' = ciePtr + 1 /\ UNCHANGED <<phase, head>>
             \/ mem[aug] = Char.P /\ Personality /\ UNCHANGED head
             \/ /\ mem[aug] = Char.R /\ ciePtr' = ciePtr + 1 /\ UNCHANGED phase
                /\ head' = [head EXCEPT !.ptrType = mem[ciePtr]]
             \/ /\ mem[aug] = Char.S /\ UNCHANGED <<phase, ciePtr>>
                /\ head' = [head EXCEPT !.call_frame = 0]
    /\ aug' = aug + 1
    /\ UNCHANGED <<img, ptr, ehf, pc, fde, cie, fdePtr, out>>

EndAug ==
    /\ phase = "aug" /\ mem[aug] = 0
    /\ IF ciePtr # head.start THEN phase' = "err" /\ UNCHANGED <<fdePtr, out>>
       ELSE \E loc \in {read_pointer(mem, fde + 2 * U32, out.end, head.ptrType, img.compat)} :
                /\ phase' = "range"
                /\ fdePtr' = loc.cur /\ out' = [out EXCEPT !.startLoc = loc.val]
    /\ UNCHANGED <<img, ptr, ehf, pc, fde, cie, aug, ciePtr, head>>

ReadRange ==
    /\ phase = "range"
    /\ \E range \in {read_pointer(mem, fdePtr, out.end, head.ptrType % 16, img.compat)} :
          fdePtr' = range.cur /\ out' = [out EXCEPT !.locRange = range.val]
    /\ phase' = "fdeaug"
    /\ UNCHANGED <<img, ptr, ehf, pc, fde, cie, aug, ciePtr, head>>

\* The FDE has augmentation data of its own if the CIE had some.
SkipFdeAug ==
    /\ phase = "fdeaug"
    /\ \E len \in {AugLen(head.augLen # 0, fdePtr, out.end)} :
          /\ phase' = IF head.augLen # 0 /\ Bogus(fde, len.cur, out.end, len.val)
                      THEN "err" ELSE "parsed"
          /\ fdePtr' = len.cur
          /\ out' = [out EXCEPT !.augLen = len.val, !.start = (len.cur + len.val) % WordMod]
    /\ UNCHANGED <<img, ptr, ehf, pc, fde, cie, aug, ciePtr, head>>

\* The code of the FDE as the process sees it; whether pc is in it; and whether the
\* return address is in a register there is.
Locate ==
    /\ phase = "parsed"
    /\ out' = [out EXCEPT !.startLoc =
                    AdjustStartLoc(@, DecodeEnc(head.ptrType),
                                   [kbuf |-> ehf.kbuf, offset |-> ehf.offset,
                                    dynamic |-> img.dynamic, vm_start |-> img.vm_start])]
    /\ phase' = IF out'.startLoc = 0 THEN "err"
                ELSE IF pc > (out'.startLoc + out.locRange) % WordMod THEN "done"
                ELSE IF head.retAddrReg >= NrRegs THEN "err"
                ELSE "cfi"
    /\ UNCHANGED <<img, ptr, ehf, pc, fde, cie, aug, ciePtr, fdePtr, head>>

Next ==
    \/ ReadHeader \/ Scan
    \/ \E p \in img.pcs, f \in img.fdes : FindFde(p, f)
    \/ cie_for_fde
    \/ FindAug \/ ReadCodeAlign \/ ReadDataAlign \/ ReadRetAddrReg \/ ReadAugLen \/ Augment
    \/ EndAug \/ ReadRange \/ SkipFdeAug \/ Locate

Spec == Init /\ [][Next]_vars /\ WF_vars(Next)

-----------------------------------------------------------------------------
Accepted == phase \in {"cie", "code", "data", "reg", "auglen", "aug", "range", "fdeaug",
                      "parsed", "done", "cfi"}

\* Whatever the bytes are, the records that check_fde and cie_for_fde let through lie
\* in the section that eh_frame_from_hdr found, the CIE before the CIE_pointer of the
\* FDE.  Neither function compares the FDE's address with the section's start: that it
\* lies behind it follows from the tests on the CIE.
RecordsInside ==
    Accepted => /\ ehf.kbuf <= cie /\ RecordEnd(cie) < fde + U32
                /\ ehf.kbuf < fde /\ RecordEnd(fde) <= ehf.kbuf + ehf.size

\* What parse_fde_cie passes on to run_cfi_program lies in its record: the FDE's
\* instructions behind its CIE_pointer, unless the augmentation length reaches beyond the
\* address space (the test for a bogus length adds it to a position, and so lets through
\* one that wraps); the CIE's too, or they begin behind their end, and then there are
\* none.
InsnsInside ==
    phase \in {"parsed", "done", "cfi"} =>
        /\ cie + 2 * U32 < head.start /\ head.end = RecordEnd(cie)
        /\ out.start <= out.end /\ out.end = RecordEnd(fde)
        /\ out.end + out.augLen + 1 < WordMod => fde + 2 * U32 <= out.start

\* eh_frame_from_hdr and parse_fde_cie come to an end for every image.
Terminates == <>(phase \in {"off", "einval", "err", "done", "cfi"})
=============================================================================
