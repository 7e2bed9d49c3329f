------------------------------- MODULE EhBytes -------------------------------
(***************************************************************************)
(* The bytes of an ELF image in the kernel's mapping, as src/src/unwind.c reads     *)
(* them: u32 and long words, and read_ptr_sect on the bytes of a field.           *)
(* mem maps the kernel addresses from elf_vmap on to bytes.  The widths are         *)
(* constants: U32 is 4 and ULong 8 in the code.                                *)
(***************************************************************************)
EXTENDS EhPointer, ExprOps

CONSTANTS
    U32, ULong,     \* bytes of a u32, and of an unsigned long
    Base            \* elf_vmap, where the kernel maps the image

U32Max == 256 ^ U32 - 1

\* The third conjunct is a fact of arithmetic; the provers know nothing of powers.
ASSUME EhBytesAssumption ==
    /\ U32 \in Nat \ {0} /\ ULong \in Nat \ {0} /\ Base \in Nat \ {0}
    /\ WordMod = WordMax
    /\ U32Max \in Nat

ReadU32(mem, p) == Constant(mem, p, U32, FALSE)
ReadULong(mem, p) == Constant(mem, p, ULong, FALSE)

\* The masks DW_EH_PE_* on an encoding byte.
DecodeEnc(b) ==
    [form     |-> IF b = 255 THEN "omit"
                  ELSE IF b % 8 <= 4
                       THEN <<"absptr", "leb128", "data2", "data4", "data8">>[(b % 8) + 1]
                  ELSE "bad",
     signed   |-> (b \div 8) % 2 = 1,
     adjust   |-> IF (b \div 16) % 8 <= 3
                  THEN <<"absptr", "pcrel", "textrel", "datarel">>[((b \div 16) % 8) + 1]
                  ELSE "other",
     indirect |-> b >= 128]

FormBytes(form, compat) ==
    CASE form = "data2" -> U32 \div 2
      [] form = "data4" -> U32
      [] OTHER -> IF compat THEN U32 ELSE ULong

\* A number of variable length as a field.
AsField(leb, end) == [raw |-> leb.val, fits |-> leb.cur <= end, cur |-> leb.cur]

\* The field at loc, and where it ends.
FieldAt(mem, loc, end, enc, compat) ==
    CASE enc.form = "leb128" /\ enc.signed  -> AsField(get_sleb128(mem, loc, end), end)
      [] enc.form = "leb128" /\ ~enc.signed -> AsField(get_uleb128(mem, loc, end), end)
      [] OTHER ->
            LET n == FormBytes(enc.form, compat)
            IN  IF loc + n <= end
                THEN [raw |-> Constant(mem, loc, n, FALSE), fits |-> TRUE, cur |-> loc + n]
                ELSE [raw |-> 0, fits |-> FALSE, cur |-> loc]

\* read_ptr_sect of a field: the value, and *pLoc, which stays where it was on failure.
Decoded(field, enc, loc, textAddr, dataAddr) ==
    IF \/ enc.form \in {"omit", "bad"} \/ ~field.fits \/ enc.adjust = "other"
       \/ /\ enc.indirect
          /\ ReadPtrSect(field, [enc EXCEPT !.indirect = FALSE], loc, textAddr, dataAddr)
                \notin DOMAIN UserMem
    THEN [val |-> 0, cur |-> loc]
    ELSE [val |-> ReadPtrSect(field, enc, loc, textAddr, dataAddr), cur |-> field.cur]

read_ptr_sect(mem, loc, end, ptrType, textAddr, dataAddr, compat, tableSize) ==
    LET enc == ReadAs(DecodeEnc(ptrType), compat, tableSize)
    IN  Decoded(FieldAt(mem, loc, end, enc, compat), enc, loc, textAddr, dataAddr)

read_pointer(mem, loc, end, ptrType, compat) ==
    read_ptr_sect(mem, loc, end, ptrType, 0, 0, compat, 0)
=============================================================================
