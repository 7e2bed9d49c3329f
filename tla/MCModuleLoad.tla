----------------------------- MODULE MCModuleLoad -----------------------------
(***************************************************************************)
(* ModuleLoad, alone and below LibKunwind, as TLC checks it; the cfg files give    *)
(* the constants their values.                                                     *)
(***************************************************************************)
EXTENDS LibKunwind
=============================================================================
