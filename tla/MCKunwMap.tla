------------------------------ MODULE MCKunwMap ------------------------------
(* Instances of KunwMap for TLC. *)
EXTENDS KunwMap

CONSTANTS t1, t2

MCThreads == {t1, t2}

OrderlyUse == [serialized |-> TRUE, openerCloses |-> TRUE, maxTraces |-> 1]
AnyoneCloses == [serialized |-> TRUE, openerCloses |-> FALSE, maxTraces |-> 1]
Racing == [serialized |-> FALSE, openerCloses |-> FALSE, maxTraces |-> 0]

AllModes == {OrderlyUse, AnyoneCloses, Racing}
OnlyAnyoneCloses == {AnyoneCloses}
=============================================================================
