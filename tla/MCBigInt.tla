------------------------------- MODULE MCBigInt -------------------------------
(***************************************************************************)
(* Two-bit limbs, up to three of them: sums, products and shifts carry     *)
(* over two limb boundaries and text digits over one.  Both operands, both *)
(* orders and every aliasing occur.                                        *)
(***************************************************************************)
EXTENDS BigIntMachine

(* Vectors with no, one and two superfluous limbs, and the empty one, which *)
(* the constructor replaces by 0.                                          *)
SomeVectors == {<<>>, <<0>>, <<3>>, <<2, 1>>, <<1, 0>>, <<0, 0>>, <<3, 1, 0>>, <<2, 0, 0>>}
(* Digits that end inside and at a limb boundary, some led by zeros or by   *)
(* 0x; 2 is the character that is no digit.                                *)
SomeTexts == {<<>>, <<0>>, <<0, 1>>, <<1, 0, 1>>, <<0, 0, 1>>, <<0, 1, 1, 0>>, <<1, 0, 0, 1, 0>>,
              <<0, 2>>, <<0, 2, 1, 1>>, <<1, 2, 0>>}
=============================================================================
