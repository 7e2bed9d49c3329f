------------------------------- MODULE EhTable -------------------------------
(***************************************************************************)
(* The binary search table of .eh_frame_hdr as _stp_search_fde            *)
(* (src/src/unwind.c) reads it.  An input of a search is a record            *)
(*   hdr : the header (version byte, the three encodings, the encoded       *)
(*         eh_frame pointer and entry count, where it is mapped),           *)
(*   tab : the table, one pair of fields per entry,                         *)
(*   mod : the module, with the mapping of .eh_frame,                       *)
(*   pc  : the address looked for,                                          *)
(*   compat : the task is a 32-bit one.                                     *)
(* Not modelled: a data8 table in a 32-bit task, of which the code reads    *)
(* four bytes where it counts eight.                                        *)
(***************************************************************************)
EXTENDS EhPointer, Sequences

CONSTANTS
    Inputs,     \* the searches considered
    UIntMod,    \* 2^(bits of unsigned int)
    Records     \* kernel address |-> the first two words found there

Header == [ok : BOOLEAN, kbuf : Word, offset : Word, table : Word, slack : Nat,
           ehEnc : Encoding, eh : Field, cntEnc : Encoding, cnt : Field,
           enc : Encoding]

ASSUME InputsAssumption ==
    /\ UIntMod \in Nat \ {0}
    /\ \A in \in Inputs :
        /\ in.hdr \in Header /\ in.mod \in Module /\ in.pc \in Word /\ in.compat \in BOOLEAN
        /\ in.tab \in Seq([start : Field, off : Field])
        /\ ~(in.compat /\ in.hdr.enc.form = "data8")

ASSUME RecordsAssumption == Records \in [Word -> [len : Nat, cie : BOOLEAN]]

NULL == 0

TableForms == {"data2", "data4", "data8", "absptr"}

\* table_size.
TableSize(in) ==
    CASE in.hdr.enc.form = "data2" -> 2
      [] in.hdr.enc.form = "data4" -> 4
      [] in.hdr.enc.form = "data8" -> 8
      [] OTHER -> IF in.compat THEN 4 ELSE 8

\* The kernel address of a column (0: start, 1: fde) of entry i.
CellLoc(in, i, col) ==
    in.hdr.table + (2 * (i - 1) + col) * TableSize(in)

\* read_ptr_sect as all of _stp_search_fde calls it.
ReadPtr(in, field, enc, loc) ==
    ReadPtrSect(field, ReadAs(enc, in.compat, TableSize(in)), loc, 0, in.hdr.offset)

\* eh_frame_ptr of the header, as an offset in the vma.
EhFramePtr(in) ==
    LET eh == ReadPtr(in, in.hdr.eh, in.hdr.ehEnc, in.hdr.kbuf + 4)
    IN  IF in.hdr.ehEnc.adjust = "pcrel"
        THEN (eh - in.hdr.kbuf + in.hdr.offset) % WordMod
        ELSE eh

\* num is an unsigned int.
EntryCount(in) == ReadPtr(in, in.hdr.cnt, in.hdr.cntEnc, in.hdr.kbuf + 8) % UIntMod

\* The table occupies Len(tab) whole entries and slack bytes (less than an
\* entry), so that (end - ptr) / (2 * table_size) = Len(tab) and the remainder
\* is slack.
HeaderOK(in) ==
    /\ in.hdr.ok
    /\ in.hdr.enc.form \in TableForms
    /\ EhFramePtr(in) = in.mod.offset
    /\ EntryCount(in) # 0
    /\ EntryCount(in) = Len(in.tab)
    /\ in.hdr.slack = 0

\* First address of the code entry i describes, 0 if it cannot be decoded.
Start(in, i) ==
    AdjustStartLoc(ReadPtr(in, in.tab[i].start, in.hdr.enc, CellLoc(in, i, 0)),
                   in.hdr.enc, in.mod)

\* Kernel address of entry i's FDE.
FdeAddr(in, i) ==
    LET off == ReadPtr(in, in.tab[i].off, in.hdr.enc, CellLoc(in, i, 1))
    IN  (off - in.mod.offset + in.mod.kbuf) % WordMod

\* check_fde with has_cie_id: a proper length, not a CIE, and an end that falls
\* within .eh_frame (pointer arithmetic wraps).
RealFde(in, fde) ==
    LET end == (fde + 4 + Records[fde].len) % WordMod
    IN  /\ Records[fde].len # 0
        /\ Records[fde].len % 4 = 0
        /\ ~Records[fde].cie
        /\ in.mod.kbuf <= end
        /\ end <= in.mod.kbuf + in.mod.size

\* Entry i is the last one that starts at or before pc, as far as its
\* neighbour tells.
Covers(in, i) ==
    /\ Start(in, i) # 0
    /\ Start(in, i) <= in.pc
    /\ i < Len(in.tab) => in.pc < Start(in, i + 1)

\* What the linker promises of the table (it sorts it): increasing starts.
Sorted(in) ==
    \A i, j \in 1 .. Len(in.tab) : i < j => Start(in, i) < Start(in, j)
=============================================================================
