------------------------------ MODULE MCMonPro ------------------------------
(***************************************************************************)
(* Small instances of MonPro.  The limb base is reduced, the number of     *)
(* limbs is not: every odd modulus of S limbs, every pair of residues and  *)
(* every aliasing of the three arguments is an initial state or a call.    *)
(***************************************************************************)
EXTENDS MonPro
=============================================================================
