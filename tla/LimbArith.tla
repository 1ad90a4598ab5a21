------------------------------ MODULE LimbArith ------------------------------
(***************************************************************************)
(* Limb arrays and the machine words they are made of.  The library keeps  *)
(* an integer as little-endian 32-bit limbs and computes with 64-bit       *)
(* intermediates (bigint.hpp:12-13, 78-83); here a limb is a number below  *)
(* the base B (2^32 in the code) and an intermediate one below B*B, so     *)
(* that every wrap-around of the code is a % of the model.                 *)
(***************************************************************************)
EXTENDS Integers

CONSTANTS
  B,      \* the base: one more than the largest limb
  S       \* limbs of the modulus, s_ in the code

ASSUME BaseAssumption == B \in Nat /\ B >= 2 /\ B % 2 = 0
ASSUME SizeAssumption == S \in Nat \ {0}

Word  == 0..(B-1)
Limbs == [0..(S-1) -> Word]

U32(x) == x % B            \* static_cast<uint32_t>
U64(x) == x % (B * B)      \* uint64_t arithmetic, unsigned wrap-around
Hi(x)  == x \div B         \* x >> 32

(* B^k: the weight of limb k, and R for k = S.                             *)
BPow[k \in Nat] == IF k = 0 THEN 1 ELSE B * BPow[k-1]
R == BPow[S]

(* Limbs beyond the array read as 0, as limbs_padded supplies them.        *)
Limb(x, k) == IF k \in DOMAIN x THEN x[k] ELSE 0

(* The number the k lowest limbs of x stand for.                           *)
LimbSum(x, k) ==
  LET sum[i \in Nat] ==
        IF i = 0 THEN 0 ELSE sum[i-1] + Limb(x, i-1) * BPow[i-1]
  IN  sum[k]

Value(x) == LimbSum(x, S)

(* What the constructor of Montgomery establishes about n_limbs_ and       *)
(* n_prime_ (-N^-1 mod B), and every later call relies on.                 *)
ValidContext(n, n_prime) ==
  /\ n \in Limbs /\ n_prime \in Word
  /\ n[S-1] # 0
  /\ n[0] % 2 = 1
  /\ Value(n) >= 3
  /\ (n[0] * n_prime + 1) % B = 0
=============================================================================
