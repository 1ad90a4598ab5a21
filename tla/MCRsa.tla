-------------------------------- MODULE MCRsa ---------------------------------
(***************************************************************************)
(* Small keys.  Six bits: 5*7 and 7*5, so both orders of the primes and    *)
(* equal primes; seven and nine: q is a bit longer than p, some products    *)
(* are a bit short (5*11, 11*17, 11*19, 11*23, 13*17, 13*19); eight: 11*13  *)
(* and 13*11; five: refused.  Exponents 3, 5 and 7 are refused by some     *)
(* pairs and kept by others, 4 is refused by all; 65 exceeds phi, as 65537 *)
(* does for 16 bits.                                                       *)
(***************************************************************************)
EXTENDS Rsa

SomeKeys == [bits : 5..9, e : {3, 4, 5, 7, 65}]
=============================================================================
