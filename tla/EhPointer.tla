------------------------------ MODULE EhPointer ------------------------------
(***************************************************************************)
(* Encoded pointers of .eh_frame and .eh_frame_hdr (src/src/unwind.c):      *)
(* read_ptr_sect decodes a field found in the kernel's mapping of a module, *)
(* adjust_start_loc turns the decoded value into an address of the unwound  *)
(* process.                                                                *)
(*                                                                         *)
(* Words are unsigned long and wrap at WordMod (2^64 in the build).  An      *)
(* encoding is the byte ptrType split into its parts: FORM together with the *)
(* signed bit, ADJUST, and indirect.  A field is the bytes found at a kernel *)
(* address: raw is their unsigned value, fits says that they end before     *)
(* `end'.                                                                  *)
(***************************************************************************)
EXTENDS Integers

CONSTANTS
    WordMod,    \* 2^(bits of unsigned long)
    FormMod,    \* form |-> 2^(bits the form occupies)
    UserMem     \* readable user address |-> the word there

ASSUME WordModAssumption == WordMod \in Nat \ {0}

Forms == {"data2", "data4", "data8", "absptr", "leb128"}

ASSUME FormModAssumption == FormMod \in [Forms -> Nat \ {0}]

Word == 0 .. (WordMod - 1)

ASSUME UserMemAssumption == \A a \in DOMAIN UserMem : UserMem[a] \in Word

Adjusts == {"absptr", "pcrel", "textrel", "datarel", "other"}

\* ptrType: "omit" stands for DW_EH_PE_omit, "bad" for a FORM the switch rejects.
Encoding == [form : Forms \cup {"omit", "bad"}, signed : BOOLEAN,
             adjust : Adjusts, indirect : BOOLEAN]

Field == [raw : Nat, fits : BOOLEAN]

\* In a 32-bit task data4 counts as absptr, which has four bytes there and no sign,
\* unless the caller's table has entries of 4 bytes, or there is none (0).
ReadAs_Always(enc, compat, tableSize) ==
    IF compat /\ enc.form = "data4" THEN [enc EXCEPT !.form = "absptr"] ELSE enc

ReadAs(enc, compat, tableSize) ==
    IF compat /\ enc.form = "data4" /\ tableSize \notin {0, 4}
    THEN [enc EXCEPT !.form = "absptr"] ELSE enc

\* The sign bit of a short form is taken for one of the number's.
Extend_Unsigned(raw, enc) == raw

\* A form wider than the sign bit it carries: the C conversions s16/s32 -> long.
\* data8 and absptr are read as unsigned long whatever the signed bit says.
Extend(raw, enc) ==
    IF /\ enc.signed
       /\ enc.form \in {"data2", "data4", "leb128"}
       /\ 2 * raw >= FormMod[enc.form]
    THEN raw - FormMod[enc.form]
    ELSE raw

\* read_ptr_sect, for an encoding as ReadAs gives it: 0 is also its error value.
\* loc is *pLoc, the kernel address of the field; textAddr and dataAddr are the bases
\* of the relative encodings.
ReadPtrSect(field, enc, loc, textAddr, dataAddr) ==
    LET base  == [absptr |-> 0, pcrel |-> loc,
                  textrel |-> textAddr, datarel |-> dataAddr]
        value == (Extend(field.raw, enc) + base[enc.adjust]) % WordMod
    IN  IF \/ enc.form \in {"omit", "bad"}
           \/ ~field.fits
           \/ enc.adjust = "other"
        THEN 0
        ELSE IF ~enc.indirect THEN value
        ELSE IF value \notin DOMAIN UserMem THEN 0
        ELSE UserMem[value]

\* adjust_start_loc for eh_frame: a pcrel value was computed from a kernel
\* address, so the distance between the section's mapping (kbuf) and its offset
\* in the vma is taken out again; a dynamic module is relocated by vm_start.
\* mod is the kunwind_module: [kbuf, offset, dynamic, vm_start].
AdjustStartLoc(start, enc, mod) ==
    LET rel == IF enc.adjust = "pcrel" THEN start - mod.kbuf + mod.offset ELSE start
        abs == IF mod.dynamic THEN rel + mod.vm_start ELSE rel
    IN  IF start = 0 THEN 0 ELSE abs % WordMod

Module == [kbuf : Word, offset : Word, size : Word, dynamic : BOOLEAN, vm_start : Word]
=============================================================================
