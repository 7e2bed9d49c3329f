------------------------------- MODULE CfiTable -------------------------------
(***************************************************************************)
(* What running a CIE's and an FDE's instructions means: there is a current row  *)
(* and a stack of remembered rows.  DW_CFA_remember_state pushes the current     *)
(* row, DW_CFA_restore_state pops it back.  The FDE's instructions apply as long  *)
(* as the location they belong to is not behind the pc.                         *)
(*                                                                         *)
(* A machine may give up at any instruction (Fail): it may have a limit on the   *)
(* stack or on the length.  What it may not do is end with another row.          *)
(***************************************************************************)
EXTENDS CfiInsn

VARIABLES in, phase, k, loc, cieRegs, current, remembered

vars == <<in, phase, k, loc, cieRegs, current, remembered>>

Init ==
    /\ in \in Inputs
    /\ phase = "cie" /\ k = 1 /\ loc = in.start
    /\ cieRegs = ZeroRow.regs
    /\ current = FirstRow /\ remembered = <<>>

Program == IF phase = "cie" THEN in.cie ELSE in.fde

Running == phase \in {"cie", "fde"}

\* Instructions whose location is behind the pc do not apply.
Behind == phase = "fde" /\ loc > in.pc

Apply ==
    /\ Running /\ k <= Len(Program) /\ ~Behind
    /\ LET i == Program[k]
       IN  /\ ~Refused(i) /\ ~LosesStep(i, current)
           /\ loc' = LocAfter(i, loc)
           /\ CASE i.op = "remember" ->
                     current' = current /\ remembered' = Append(remembered, current)
                [] i.op = "restore_state" ->
                     /\ remembered # <<>>
                     /\ current' = remembered[Len(remembered)]
                     /\ remembered' = SubSeq(remembered, 1, Len(remembered) - 1)
                [] OTHER ->
                     current' = Edit(i, current, cieRegs) /\ remembered' = remembered
    /\ k' = k + 1
    /\ UNCHANGED <<in, phase, cieRegs>>

EndCie ==
    /\ phase = "cie" /\ k > Len(in.cie)
    /\ phase' = "fde" /\ k' = 1
    /\ cieRegs' = current.regs
    /\ UNCHANGED <<in, loc, current, remembered>>

Finish ==
    /\ phase = "fde" /\ (k > Len(in.fde) \/ Behind)
    /\ loc <= in.end
    /\ phase' = "done"
    /\ UNCHANGED <<in, k, loc, cieRegs, current, remembered>>

Fail ==
    /\ Running
    /\ phase' \in {"failed", "lost"}
    /\ UNCHANGED <<in, k, loc, cieRegs, current, remembered>>

Next == Apply \/ EndCie \/ Finish \/ Fail

Spec == Init /\ [][Next]_vars
=============================================================================
