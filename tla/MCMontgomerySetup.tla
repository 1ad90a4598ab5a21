------------------------- MODULE MCMontgomerySetup -------------------------
(***************************************************************************)
(* Moduli around the limb boundaries, the refused ones included: every     *)
(* one-limb number, the smallest two-limb ones and the largest.  Every     *)
(* lowest limb occurs, so the Newton loop is run on all its inputs.        *)
(***************************************************************************)
EXTENDS MontgomerySetup

BoundaryModuli == 0..(3 * B) \cup (R - 2 * B)..(R - 1)
=============================================================================
