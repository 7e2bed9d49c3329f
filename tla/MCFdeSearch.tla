----------------------------- MODULE MCFdeSearch -----------------------------
(***************************************************************************)
(* Searches of small tables for TLC.  A 7-bit address space: the module's     *)
(* vma begins at 16, the kernel maps it at 64; .eh_frame_hdr is at offset 8 of   *)
(* the vma, .eh_frame at offset 12.  The tables hold every sequence of up to    *)
(* MaxEntries start addresses from Addrs, sorted or not.  An input also keeps   *)
(* the addresses its table was written for (starts) and where the FDEs lie      *)
(* (shift).                                                                    *)
(***************************************************************************)
EXTENDS FdeSearch, FiniteSetsExt

CONSTANTS MaxEntries, Addrs, SearchPcs

VmStart == 16
Vmap    == 64
HdrOff  == 8
EhOff   == 12

MCWordMod == 128
MCFormMod == [data2 |-> 4, data4 |-> 64, data8 |-> 128, absptr |-> 128, leb128 |-> 64]
MCUserMem == [a \in {20} |-> 9]

\* Records at .eh_frame's addresses: real FDEs, a CIE, a bad length, an end
\* outside the section.
MCRecords ==
    [a \in 0 .. 127 |->
        CASE a = 76 -> [len |-> 4, cie |-> TRUE]
          [] a = 77 -> [len |-> 3, cie |-> FALSE]
          [] a = 78 -> [len |-> 40, cie |-> FALSE]
          [] OTHER  -> [len |-> 4, cie |-> FALSE]]

Enc(form, signed, adjust, indirect) ==
    [form |-> form, signed |-> signed, adjust |-> adjust, indirect |-> indirect]

Datarel == Enc("data4", TRUE, "datarel", FALSE)
Pcrel   == Enc("data4", TRUE, "pcrel", FALSE)
Udata4  == Enc("data4", FALSE, "absptr", FALSE)

\* The encodings in which a table says where the code is whatever its address.
TableEncs == {Datarel, Udata4, Enc("absptr", FALSE, "datarel", FALSE),
              Enc("absptr", FALSE, "absptr", FALSE), Enc("data8", TRUE, "datarel", FALSE)}

FieldOf(v) == [raw |-> v % 64, fits |-> TRUE]

Mod(dynamic) == [kbuf |-> Vmap + EhOff, offset |-> EhOff, size |-> 24,
                 dynamic |-> dynamic, vm_start |-> VmStart]

\* The header ld writes: pcrel eh_frame_ptr, udata4 count, a table of enc.
Hdr(enc, n) ==
    [ok |-> TRUE, kbuf |-> Vmap + HdrOff, offset |-> HdrOff,
     table |-> Vmap + HdrOff + 12, slack |-> 0,
     ehEnc |-> Pcrel, eh |-> FieldOf(EhOff - (HdrOff + 4)),
     cntEnc |-> Udata4, cnt |-> FieldOf(n), enc |-> enc]

\* The field of a table in enc for the link-time address v: absolute, or counted
\* from the header.
Written(v, enc) ==
    [raw |-> (IF enc.adjust = "datarel" THEN v - HdrOff ELSE v) % FormMod[enc.form],
     fits |-> TRUE]

FdeOff(i, shift) == EhOff + i - 1 + shift

\* The table ld writes in enc for code at user addresses s[i] whose FDE is at offset
\* FdeOff(i, shift) of the vma.
Table(s, shift, enc) ==
    [i \in DOMAIN s |-> [start |-> Written(s[i] - VmStart, enc),
                         off   |-> Written(FdeOff(i, shift), enc)]]

Input(h, s, shift, enc, dynamic, pc, compat) ==
    [hdr |-> h, tab |-> Table(s, shift, enc), mod |-> Mod(dynamic), pc |-> pc,
     compat |-> compat, starts |-> s, shift |-> shift]

\* A datarel table of two entries below headers that fail each of the checks, that
\* count it beyond an unsigned int, or that read it in another encoding.
OddHeaders ==
    LET h == Hdr(Datarel, 2)
    IN  {[h EXCEPT !.ok = FALSE], [h EXCEPT !.slack = 1], [h EXCEPT !.eh = FieldOf(1)],
         [h EXCEPT !.cnt = FieldOf(0)], [h EXCEPT !.cnt = FieldOf(2 + UIntMod)],
         [h EXCEPT !.cnt = FieldOf(3)], [h EXCEPT !.cntEnc.form = "omit"],
         [h EXCEPT !.enc.form = "bad"], [h EXCEPT !.enc.form = "leb128"],
         [h EXCEPT !.enc.adjust = "other"], [h EXCEPT !.enc.adjust = "textrel"],
         [h EXCEPT !.enc.adjust = "pcrel"], [h EXCEPT !.enc.form = "data2"],
         [h EXCEPT !.enc.indirect = TRUE]}

Starts(lens) == UNION {[1 .. n -> Addrs] : n \in lens}

\* Datarel tables of every length, which a 32-bit task reads the same way; tables in
\* each encoding; and the odd headers.
MCInputs ==
    {Input(Hdr(Datarel, Len(s)), s, shift, Datarel, d, pc, FALSE) :
        s \in Starts(1 .. MaxEntries), shift \in {0, 3}, d \in BOOLEAN, pc \in SearchPcs} \cup
    UNION {{Input(Hdr(enc, Len(s)), s, shift, enc, d, pc, c) :
        s \in Starts(1 .. 2), shift \in {0, 3}, d \in BOOLEAN, pc \in SearchPcs,
        c \in {FALSE, enc.form # "data8"}} : enc \in TableEncs} \cup
    {Input(h, s, 0, Datarel, d, pc, c) :
        h \in OddHeaders, s \in Starts({2}), d \in BOOLEAN, pc \in SearchPcs, c \in BOOLEAN}

\* What _stp_search_fde ends with for a dynamic module whose table the linker wrote for
\* functions at increasing user addresses behind the ELF header, in any of the
\* encodings of TableEncs: the FDE the linker wrote it for, that of the last function
\* that starts at or before pc, where .eh_frame is mapped, or NULL if there is no real
\* FDE.  The NULL of check_fde is read only when every function starts after pc.
FoundIsWritten ==
    /\ phase \in {"done", "fault"} /\ in.mod.dynamic
    /\ in.hdr = Hdr(in.hdr.enc, Len(in.starts)) /\ in.hdr.enc \in TableEncs
    /\ \A i \in DOMAIN in.starts :
        VmStart < in.starts[i] /\ \A j \in 1 .. i - 1 : in.starts[j] < in.starts[i]
    => LET before == {i \in DOMAIN in.starts : in.starts[i] <= in.pc}
           wanted == Vmap + FdeOff(Max(before), in.shift)
       IN  IF before = {} THEN phase = "fault"
           ELSE phase = "done" /\ fde = (IF RealFde(in, wanted) THEN wanted ELSE NULL)
=============================================================================
