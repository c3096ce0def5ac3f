----------------------------- MODULE MCFlashSystem -----------------------------
(***************************************************************************)
(* Instances of FlashSystem for TLC: application "v1" is in service, "v2"   *)
(* is flashed, or bootloader "new".                                         *)
(***************************************************************************)
EXTENDS FlashSystem

NoBlocks == {}
Ones == [ok |-> FALSE, resets |-> 255, diag |-> TRUE, panic |-> TRUE, ram |-> TRUE]
OnlyOnes == {Ones}
=============================================================================
