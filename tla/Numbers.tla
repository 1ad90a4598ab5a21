------------------------------- MODULE Numbers --------------------------------
(***************************************************************************)
(* The numbers the routines above the limbs compute with, by their         *)
(* definitions: what bit_length, mod_exp and gcd return.                   *)
(***************************************************************************)
EXTENDS Integers

(* 2^k, by recursion.                                                      *)
Pow2[k \in Nat] == IF k = 0 THEN 1 ELSE 2 * Pow2[k-1]

BitLength(v) == CHOOSE k \in 0..v : v < Pow2[k] /\ (k = 0 \/ v >= Pow2[k-1])

(* n digits of the given width in bits, lowest first, put together.        *)
Joined(f, width, n) ==
  LET sum[k \in Nat] == IF k = 0 THEN 0 ELSE sum[k-1] + f[k-1] * Pow2[width * (k-1)]
  IN  sum[n]

(* b^e mod m: e multiplications.                                           *)
Power(b, e, m) ==
  LET power[k \in Nat] == IF k = 0 THEN 1 % m ELSE (power[k-1] * b) % m
  IN  power[e]

IsPrime(v) == v > 1 /\ \A k \in 2..(v-1) : v % k # 0

(* gcd(a, m) = 1 for m > 0.                                                *)
Coprime(a, m) == \A k \in 2..m : ~(a % k = 0 /\ m % k = 0)

(* What mod_inverse(a, m) may return; it throws when there is none.        *)
Inverses(a, m) == {k \in 1..(m-1) : (a * k) % m = 1}
=============================================================================
