-------------------------------- MODULE Words --------------------------------
(***************************************************************************)
(* Limbs as machine words: W bits each, 32 in the code, so that the base   *)
(* is a power of two; and the bit operators of C++ on them.                *)
(***************************************************************************)
EXTENDS LimbArith, Numbers

CONSTANT W    \* bits of a limb

ASSUME WordAssumption == W \in Nat \ {0} /\ B = Pow2[W]

Bit(x, k) == (x \div Pow2[k]) % 2

(* The number with the bits f[0], ..., f[n-1], and the word with all W.    *)
BitSum(f, n) ==
  LET sum[k \in Nat] == IF k = 0 THEN 0 ELSE sum[k-1] + f[k-1] * Pow2[k-1] IN sum[n]
WordOf(f) == BitSum(f, W)

x & y  == WordOf([k \in Nat |-> Bit(x, k) * Bit(y, k)])
x | y  == WordOf([k \in Nat |-> IF Bit(x, k) = Bit(y, k) THEN Bit(x, k) ELSE 1])
x ^^ y == WordOf([k \in Nat |-> IF Bit(x, k) = Bit(y, k) THEN 0 ELSE 1])
=============================================================================
