----------------------------- MODULE EhFrameRef -----------------------------
(***************************************************************************)
(* An image as the linker writes it: .eh_frame_hdr, and .eh_frame with a CIE, an    *)
(* FDE for one function, and the terminator.  A description d gives                *)
(*   ver, aug, ca, da, ra : the CIE's version, augmentation string (a list of the    *)
(*       names in Char), alignment factors and return address register,           *)
(*   enc, per : the encodings of the FDE's pointers and of the personality routine,  *)
(*   start, range : the function, start in the process's address space,            *)
(*   data : the length of the FDE's augmentation data (with 'z'),                  *)
(*   long : 0, or the length of a record with a long length before the CIE,         *)
(*   first, tail : whether .eh_frame precedes its header, and bytes behind both,     *)
(*   hdrEnc, tabEnc : the header's encodings of its pointer and its table,          *)
(*   compat, dynamic : a 32-bit task, PT_DYNAMIC.                                 *)
(***************************************************************************)
EXTENDS EhBytes, LebRef

CONSTANTS VmStart, CharOf       \* vm_start, character name |-> its code

Enc(b) == DecodeEnc(b)

\* The pointer v with encoding b at kernel address p, relative to p where it says so.
Pointer(b, v, p, compat) ==
    LET raw == IF Enc(b).adjust = "pcrel" THEN v - p ELSE v
    IN  CASE Enc(b).form = "leb128" /\ Enc(b).signed -> Sleb(raw, 0)
          [] Enc(b).form = "leb128" /\ ~Enc(b).signed -> Uleb(raw, 0)
          [] OTHER -> LittleEndian(raw, FormBytes(Enc(b).form, compat))

Zeros(n) == [i \in 1 .. n |-> 0]
Insns == <<12, 7, 8>>

\* A record: its length, its first word, and its contents, filled up with DW_CFA_nop.
Record(word, body) ==
    LET pad == (-Len(body)) % U32
    IN  LittleEndian(U32 + Len(body) + pad, U32) \o LittleEndian(word, U32) \o body \o Zeros(pad)

LongRecord(n) == LittleEndian(U32Max, U32) \o LittleEndian(n, ULong) \o [i \in 1 .. n |-> 1]

AugData(d) ==
    LET data[i \in 1 .. Len(d.aug) + 1] ==
            IF i > Len(d.aug) THEN <<>>
            ELSE (CASE d.aug[i] = "L" -> <<255>>
                    [] d.aug[i] = "R" -> <<d.enc>>
                    [] d.aug[i] = "P" -> <<d.per>> \o Pointer(d.per % 16, 77, 0, d.compat)
                    [] OTHER -> <<>>) \o data[i + 1]
    IN  data[1]

HasZ(d) == d.aug # <<>> /\ d.aug[1] = "z"

Cie(d) ==
    Record(0, <<d.ver>> \o [i \in DOMAIN d.aug |-> CharOf[d.aug[i]]] \o <<0>>
              \o Uleb(d.ca, 0) \o Sleb(d.da, 0) \o <<d.ra>>
              \o (IF HasZ(d) THEN Uleb(Len(AugData(d)), 0) ELSE <<>>) \o AugData(d) \o Insns)

\* Pointers that no R describes are absolute.
FdeEnc(d) == IF \E i \in DOMAIN d.aug : d.aug[i] = "R" THEN d.enc ELSE 0

\* The FDE's contents before its instructions, at kernel address p.
FdeHead(d, p) ==
    LET v == IF Enc(FdeEnc(d)).adjust = "pcrel" THEN d.start - VmStart + Base ELSE d.start
    IN  Pointer(FdeEnc(d), v, p, d.compat) \o Pointer(FdeEnc(d) % 16, d.range, 0, d.compat)
        \o (IF HasZ(d) THEN Uleb(d.data, 0) \o Zeros(d.data) ELSE <<>>)

-----------------------------------------------------------------------------
\* The bytes of a number of the table; a 32-bit task has data8 in full here.
Entry(d) == IF Enc(d.tabEnc).form = "data8" THEN ULong ELSE FormBytes(Enc(d.tabEnc).form, d.compat)

HdrLen(d) == 4 + FormBytes(Enc(d.hdrEnc).form, d.compat) + U32 + 2 * Entry(d)

Assemble(before, cie, eh, d) ==
    LET fde == eh + Len(before) + Len(cie)
        contents == FdeHead(d, fde + 2 * U32)
        section == before \o cie \o Record(Len(cie) + U32, contents \o Insns) \o Zeros(U32)
    IN  [d |-> d, eh |-> eh, fde |-> fde, insns |-> fde + 2 * U32 + Len(contents),
         section |-> section, hdr |-> IF d.first THEN eh + Len(section) ELSE Base + 2]

\* Where things are: the header and the section, one behind the other after a gap.
Layouts(ds) ==
    {Assemble(IF x.d.long # 0 THEN LongRecord(x.d.long) ELSE <<>>, x.cie,
              IF x.d.first THEN Base + 2 ELSE Base + 2 + HdrLen(x.d), x.d) :
        x \in {[d |-> d, cie |-> Cie(d)] : d \in ds}}

Bytes(l) ==
    LET table == LittleEndian(l.d.start - VmStart + Base - l.hdr, Entry(l.d))
                 \o LittleEndian(l.fde - l.hdr, Entry(l.d))
        header == <<1, l.d.hdrEnc, 3, l.d.tabEnc>>
                  \o Pointer(l.d.hdrEnc, l.eh, l.hdr + 4, l.d.compat)
                  \o LittleEndian(1, U32) \o table
    IN  Zeros(2) \o (IF l.d.first THEN l.section \o header ELSE header \o l.section)
        \o Zeros(l.d.tail)

ImageOf(l, bytes) ==
    [mem |-> [a \in Base .. (Base + Len(bytes) - 1) |-> bytes[a - Base + 1]],
     hdr |-> l.hdr, hdrlen |-> HdrLen(l.d), vm_start |-> VmStart,
     vm_end |-> VmStart + Len(bytes), compat |-> l.d.compat, dynamic |-> l.d.dynamic,
     fdes |-> {l.fde},
     pcs |-> {l.d.start, l.d.start + l.d.range, l.d.start + l.d.range + 1},
     about |-> l]

ImagesOf(ds) ==
    {ImageOf(x.l, x.bytes) : x \in {[l |-> l, bytes |-> Bytes(l)] : l \in Layouts(ds)}}
=============================================================================
