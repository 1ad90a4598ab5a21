---------------------------- MODULE MCRandomSource ----------------------------
(***************************************************************************)
(* Bytes of one bit, limbs and device words of two, generator words of     *)
(* four: a limb takes half a word, as in the code.  The calls take part of *)
(* a word, exactly one, more than one and none; the widths end within a    *)
(* limb and at its end.                                                    *)
(***************************************************************************)
EXTENDS RandomSource, TLC

SomeOutputs  == {6, 9}
SomeRequests == [kind : {"fill"}, size : {3}] \cup [kind : {"bits"}, size : {0, 3, 6}]
Symmetry     == Permutations(Handles)
=============================================================================
