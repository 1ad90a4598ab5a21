------------------------------- MODULE MontMul -------------------------------
(***************************************************************************)
(* What montgomery.hpp promises of the raw-limb call: buffers hold numbers *)
(* below an odd modulus N, and monpro(out, a, b) replaces the number in    *)
(* out by a*b*R^-1 mod N, in one step, whatever out aliases.  The          *)
(* extra-reduction hook counts the calls whose unreduced result was not    *)
(* below N.  MonPro implements this specification limb by limb.            *)
(***************************************************************************)
EXTENDS Integers

CONSTANTS
  Bufs,     \* the caller's buffers
  R         \* the Montgomery radix

VARIABLES
  N,        \* the modulus
  val,      \* val[x]: the number in buffer x
  watched,  \* the extra-reduction hook is attached
  extra     \* its counter

vars == <<N, val, watched, extra>>

(* a*b*R^-1 mod N: the only residue that R turns back into a*b.            *)
Product(x, y) == CHOOSE r \in 0..(N-1) : (r * R - x * y) % N = 0

(* The multiple q*N, q < R, that makes x*y divisible by R; Extra says that *)
(* the quotient of the division came out at N or above.                    *)
Extra(x, y) ==
  \E q \in 0..(R-1) : /\ (x * y + q * N) % R = 0
                      /\ (x * y + q * N) \div R >= N

Init ==
  /\ N \in {k \in 3..(R-1) : k % 2 = 1}
  /\ val \in [Bufs -> 0..(N-1)]
  /\ watched \in BOOLEAN
  /\ extra = 0

Multiply(out, a, b) ==
  /\ val' = [val EXCEPT ![out] = Product(val[a], val[b])]
  /\ extra' = IF watched /\ Extra(val[a], val[b]) THEN extra + 1 ELSE extra
  /\ UNCHANGED <<N, watched>>

Watch ==
  /\ watched' \in BOOLEAN
  /\ UNCHANGED <<N, val, extra>>

Next == (\E out, a, b \in Bufs : Multiply(out, a, b)) \/ Watch

Spec == Init /\ [][Next]_vars
=============================================================================
