------------------------------ MODULE MCBootChain ------------------------------
(***************************************************************************)
(* Instances of BootChain for TLC: a board with bootloader "old", a tester  *)
(* that may send bootloader "new" and application "app".                    *)
(***************************************************************************)
EXTENDS BootChain

NewOnly == {<<"new", 1>>}
NewPair == {<<"new", 1>>, <<"new", 2>>}
NewAndApp == {<<"new", 1>>, <<"app", 1>>}

\* RAM that came up as ones, and as zeros.
Ones  == [ok |-> FALSE, resets |-> 255, diag |-> TRUE, panic |-> TRUE, ram |-> TRUE]
Zeros == [ok |-> FALSE, resets |-> 0, diag |-> FALSE, panic |-> FALSE, ram |-> FALSE]
OnesAndZeros == {Ones, Zeros}
OnlyOnes == {Ones}
=============================================================================
