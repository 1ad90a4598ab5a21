------------------------------- MODULE MCThreads -------------------------------
(* Two threads on a two-limb context over 2-bit limbs; 5*5 needs the extra *)
(* reduction.  In every reachable state each thread multiplies by the      *)
(* shared operand or squares.                                              *)
EXTENDS Threads

Nine == {9}
Fives == {5}
=============================================================================
