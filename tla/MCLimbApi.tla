------------------------------- MODULE MCLimbApi -------------------------------
(***************************************************************************)
(* Two-limb moduli over 2-bit limbs.  The numbers passed by value go over  *)
(* the modulus, over the radix (16), and beyond twice its width.           *)
(***************************************************************************)
EXTENDS LimbApi

SomeContexts == {5, 7}
SomeNumbers  == {0, 1, 4, 6, 7, 16, 23, 303}
=============================================================================
