------------------------------ MODULE MCEhFrame ------------------------------
(***************************************************************************)
(* EhFrame for TLC: a u32 of 2 bytes and a long of 17 bits stored in 3, so that    *)
(* each form has its own width and sign extension shows.  Images the linker         *)
(* writes, in all combinations of what a CIE can say; and some of them damaged in   *)
(* one byte, or with a table that names something else than the FDE.              *)
(***************************************************************************)
EXTENDS EhFrame, EhFrameRef

MCFormMod == [data2 |-> 2 ^ 8, data4 |-> 2 ^ 16, data8 |-> 2 ^ 17, absptr |-> 2 ^ 17,
              leb128 |-> 2 ^ 17]
MCUserMem == <<>>

Plain ==
    [ver |-> 1, aug |-> <<"z", "R">>, ca |-> 1, da |-> -8, ra |-> 16, enc |-> 27, per |-> 0,
     start |-> VmStart + 5, range |-> 20, data |-> 0, long |-> 0, first |-> FALSE,
     tail |-> 0, hdrEnc |-> 27, tabEnc |-> 59, compat |-> FALSE, dynamic |-> TRUE]

Augs == {<<>>, <<"z">>, <<"z", "R">>, <<"z", "P", "L", "R">>, <<"z", "R", "S">>}

Relative == {27, 26, 25}    \* pcrel with sdata4, sdata2, sleb128
Absolute == {0, 3, 11, 4, 1}

\* An encoding fits a module: relative in one with PT_DYNAMIC, absolute in others.
Fits(d) ==
    /\ d.dynamic = (Enc(FdeEnc(d)).adjust = "pcrel")
    /\ d.data # 0 => HasZ(d)
    /\ d.ra = IF d.compat THEN 8 ELSE 16

Cies ==
    {d \in {[Plain EXCEPT !.ver = ver, !.aug = str, !.enc = enc, !.per = per, !.data = data,
                          !.ra = ra, !.compat = compat, !.dynamic = dynamic,
                          !.start = VmStart + at] :
                ver \in {1, 3}, str \in Augs, enc \in Relative \cup Absolute, per \in {0, 155},
                data \in {0, 2}, ra \in {8, 16}, compat \in BOOLEAN, dynamic \in BOOLEAN,
                at \in {5, 100}} : Fits(d)}

\* Headers with each form of table.  That of a 32-bit task precedes its section: the
\* load takes a negative distance there for a large one.
Sections ==
    {d \in {[Plain EXCEPT !.long = long, !.hdrEnc = enc, !.tabEnc = tab, !.first = first,
                          !.tail = IF first THEN 40 ELSE 0,
                          !.compat = compat, !.ra = IF compat THEN 8 ELSE 16] :
                long \in {0, 5}, enc \in {27, 16}, tab \in {59, 48, 58, 60},
                first \in BOOLEAN, compat \in BOOLEAN} :
        ~(d.compat /\ d.first)}

Damaged(i, bytes, f) ==
    [i EXCEPT !.mem = bytes, !.about = None, !.fdes = {f}, !.pcs = {VmStart + 5}]

\* One byte of the header or the section is another one, or the table errs.
Damages ==
    UNION {{Damaged(i, [i.mem EXCEPT ![a] = v], i.about.fde) :
                a \in DOMAIN i.mem, v \in {0, 1, 4, 122, 127, 255}}
           \cup {Damaged(i, i.mem, f) : f \in {i.about.eh, i.about.eh - 2, i.about.fde + 2, Base - 6}} :
           i \in ImagesOf({Plain, [Plain EXCEPT !.ver = 3, !.aug = <<"z", "P", "L", "R">>,
                                                !.data = 2]})}

Overwrite(m, at, bytes) ==
    [a \in DOMAIN m |-> IF a - at + 1 \in DOMAIN bytes THEN bytes[a - at + 1] ELSE m[a]]

\* A CIE whose length takes in the FDE; a section of odd length; long lengths of
\* records, and augmentation lengths, that wrap.
Lengths ==
    {Damaged(i, Overwrite(i.mem, i.about.eh, LittleEndian(Len(i.about.section) - 2 * U32, U32)),
             i.about.fde) : i \in ImagesOf({Plain})}
    \cup {Damaged(i, i.mem, i.about.fde) : i \in ImagesOf({[Plain EXCEPT !.long = 4]})}
    \cup {Damaged(i, Overwrite(i.mem, i.about.eh + U32, LittleEndian(n, ULong)), i.about.fde) :
        i \in ImagesOf({[Plain EXCEPT !.long = 5]}), n \in {2 ^ 17 - U32 - ULong, 2 ^ 17 - 1}}
    \cup {Damaged(i, Overwrite(i.mem, i.about.insns - 4, Groups(n, 3)), i.about.fde) :
        i \in ImagesOf({[Plain EXCEPT !.data = 3]}), n \in {2 ^ 17 - 1, 2 ^ 17 - 60, 2 ^ 16, 300}}

MCImages == ImagesOf(Cies \cup Sections) \cup Damages \cup Lengths

MCChar == Char
-----------------------------------------------------------------------------
Sound == img.about # None

\* eh_frame_from_hdr finds a section that ends with its terminator, whole, whatever
\* the lengths of its records, and _stp_search_fde, which reads the header's pointer in
\* another way, agrees where it is and how many entries its table has.
SectionIsFound ==
    Sound =>
        /\ phase \notin {"off", "einval"}
        /\ phase = "loaded" =>
            LET l == img.about
            IN  /\ ehf = [kbuf |-> l.eh, offset |-> l.eh - Base, size |-> Len(l.section)]
                /\ HeaderOK

\* The instructions begin behind the FDE's augmentation data; behind a "z" without
\* data they begin a byte early, at the FDE's own length of 0, which is a DW_CFA_nop.
InsnsAreRight(l) ==
    IF l.d.aug = <<"z">>
    THEN l.d.data = 0 => out.start = l.insns - 1 /\ mem[out.start] = 0
    ELSE out.start = l.insns

\* __unwind_frame takes from a sound FDE and its CIE what they say: the function's
\* addresses in the process, the factors, the return address register, whether the frame
\* is a signal's, and where the instructions are; and it only turns down a pc that is
\* behind the function's end.
ParseIsRight ==
    Sound =>
        LET d == img.about.d
            behind == pc > d.start + d.range
        IN  /\ phase # "err"
            /\ phase = "done" => behind
            /\ phase = "cfi" =>
                /\ ~behind
                /\ out.startLoc = d.start /\ out.locRange = d.range
                /\ head.codeAlign = d.ca /\ head.dataAlign = d.da % WordMax
                /\ head.retAddrReg = 16
                /\ head.call_frame = IF \E i \in DOMAIN d.aug : d.aug[i] = "S" THEN 0 ELSE 1
                /\ InsnsAreRight(img.about)
=============================================================================
