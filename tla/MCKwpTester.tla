------------------------------ MODULE MCKwpTester ------------------------------
(* An instance of KwpTester for TLC. *)
EXTENDS KwpTester

AppBlocks == {<<"app", 1>>}
=============================================================================
