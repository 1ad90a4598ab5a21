--------------------------- MODULE MontgomerySetup ---------------------------
(***************************************************************************)
(* The constructor of Montgomery (montgomery.cpp:16-42): refusal of        *)
(* unusable moduli, n' by Newton lifting modulo 2^W, R mod N by doubling,  *)
(* R^2 mod N by one multiplication and one division.  A context is built   *)
(* per exponentiation (modexp.cpp:22, 27), used and dropped.               *)
(***************************************************************************)
EXTENDS Words

CONSTANTS
  NewtonSteps,  \* iterations of the lifting loop, 4 in the code
  Moduli        \* the moduli asked for: numbers of at most S limbs

(* 3 correct bits doubled NewtonSteps times cover a limb: 48 >= 32.        *)
ASSUME WidthAssumption ==
  NewtonSteps \in Nat /\ 3 * Pow2[NewtonSteps] >= W
ASSUME ModuliAssumption == Moduli \subseteq 0..(R-1)

VARIABLES
  pc,           \* the part of the constructor being executed
  modulus,      \* the argument
  i,            \* loop counter of the Newton and the doubling loop
  inv,          \* neg_inv_mod_2_32's accumulator
  r_mod_n,      \* the doubling loop's accumulator
  s_, n_limbs_, n_prime_, one_mont_, r2_    \* the members

members == <<s_, n_limbs_, n_prime_, one_mont_, r2_>>
vars == <<pc, modulus, i, inv, r_mod_n, members>>

(* word_count() and limbs_padded(s) of the number x.                       *)
WordCount(x) == CHOOSE s \in 1..S : x < BPow[s] /\ (s = 1 \/ x >= BPow[s-1])
PaddedLimbs(x, s) == [k \in 0..(s-1) |-> (x \div BPow[k]) % B]

(* One lifting step, inv *= 2 - n0 * inv, and the final negation, all in   *)
(* wrapping 32-bit arithmetic.                                             *)
\* faulty variant of the next definition
NewtonSquared(n0, x) == U32(x * U32(2 - U32(x * x)))
Newton(n0, x)        == U32(x * U32(2 - U32(n0 * x)))
Negated(x)           == U32(0 - x)

(* shl(1) and the conditional subtraction.                                 *)
Doubled(x)       == IF 2 * x >= modulus THEN 2 * x - modulus ELSE 2 * x

(* Both loops count up by one.                                             *)
\* faulty variant of the next definition
SameIndex(k) == k
NextIndex(k) == k + 1

Refused(x)       == x % 2 = 0 \/ x < 3
\* faulty variant of the next definition
RoundsShort      == W * s_ - 1
Rounds           == W * s_

Init ==
  /\ pc = "idle" /\ modulus = 0 /\ i = 0 /\ inv = 0 /\ r_mod_n = 0
  /\ s_ = 0 /\ n_limbs_ = <<>> /\ n_prime_ = 0
  /\ one_mont_ = <<>> /\ r2_ = <<>>

(* The two throws leave no object; otherwise the modulus is split.         *)
Construct(x) ==
  /\ pc = "idle"
  /\ modulus' = x
  /\ i' = 0 /\ r_mod_n' = 1
  /\ n_prime_' = 0 /\ one_mont_' = <<>> /\ r2_' = <<>>
  /\ IF Refused(x)
       THEN /\ pc' = "thrown"
            /\ inv' = 0 /\ s_' = 0 /\ n_limbs_' = <<>>
       ELSE /\ pc' = "newton"
            /\ s_' = WordCount(x)
            /\ n_limbs_' = PaddedLimbs(x, s_')
            /\ inv' = n_limbs_'[0]

Lift ==
  /\ pc = "newton" /\ i < NewtonSteps
  /\ inv' = Newton(n_limbs_[0], inv)
  /\ i' = NextIndex(i)
  /\ UNCHANGED <<pc, modulus, r_mod_n, members>>

EndLift ==
  /\ pc = "newton" /\ i = NewtonSteps
  /\ n_prime_' = Negated(inv)
  /\ i' = 0
  /\ pc' = "double"
  /\ UNCHANGED <<modulus, inv, r_mod_n, s_, n_limbs_, one_mont_, r2_>>

Double ==
  /\ pc = "double" /\ i < Rounds
  /\ r_mod_n' = Doubled(r_mod_n)
  /\ i' = NextIndex(i)
  /\ UNCHANGED <<pc, modulus, inv, members>>

(* one_mont_ is the doubled value, r2_ its square reduced by divmod.       *)
Finish ==
  /\ pc = "double" /\ i = Rounds
  /\ one_mont_' = PaddedLimbs(r_mod_n, s_)
  /\ r2_' = PaddedLimbs((r_mod_n * r_mod_n) % modulus, s_)
  /\ pc' = "ready"
  /\ UNCHANGED <<modulus, i, inv, r_mod_n, s_, n_limbs_, n_prime_>>

(* The context goes out of scope, or the exception is caught.              *)
Drop ==
  /\ pc \in {"ready", "thrown"}
  /\ pc' = "idle" /\ modulus' = 0 /\ i' = 0 /\ inv' = 0 /\ r_mod_n' = 0
  /\ s_' = 0 /\ n_limbs_' = <<>> /\ n_prime_' = 0
  /\ one_mont_' = <<>> /\ r2_' = <<>>

Step == Lift \/ EndLift \/ Double \/ Finish
Next == (\E x \in Moduli : Construct(x)) \/ Step \/ Drop

Spec == Init /\ [][Next]_vars

(* A constructor is sequential code: it is not left half way.              *)
FairSpec == Spec /\ WF_vars(Step)

-----------------------------------------------------------------------------
TypeOK ==
  /\ pc \in {"idle", "newton", "double", "ready", "thrown"}
  /\ modulus \in Nat /\ i \in 0..(W * S + NewtonSteps)
  /\ inv \in Word /\ r_mod_n \in Nat /\ n_prime_ \in Word /\ s_ \in 0..S
  /\ \A x \in {n_limbs_, one_mont_, r2_} : \A k \in DOMAIN x : x[k] \in Word

RadixOf(s) == BPow[s]
NumberIn(x) == LimbSum(x, s_)

(* montgomery.cpp:13-15: every lifting step doubles the correct low bits   *)
(* of the inverse of n0, from the 3 that n0 itself has.                    *)
BitsRight(k) == IF W < 3 * Pow2[k] THEN W ELSE 3 * Pow2[k]
NewtonPrecision == pc = "newton" =>
  (n_limbs_[0] * inv - 1) % Pow2[BitsRight(i)] = 0

(* montgomery.cpp:35-40: after k doublings the accumulator is 2^k mod N,   *)
(* reduced, so that one conditional subtraction keeps it reduced.          *)
DoublingExact == pc = "double" => r_mod_n < modulus /\ r_mod_n = Pow2[i] % modulus

(* Between any two iterations of the two loops.                            *)
LoopInv == TypeOK /\ NewtonPrecision /\ DoublingExact

(* What has been computed when a phase is reached.                         *)
SplitDone ==
  /\ ~Refused(modulus) /\ modulus < R
  /\ s_ = WordCount(modulus) /\ n_limbs_ = PaddedLimbs(modulus, s_)
PhaseInv ==
  /\ pc \in {"newton", "double", "ready"} => SplitDone
  /\ pc = "newton" => i <= NewtonSteps /\ r_mod_n = 1
  /\ pc \in {"double", "ready"} => (n_limbs_[0] * n_prime_ + 1) % B = 0
  /\ pc = "double" => i <= Rounds
  /\ pc = "ready" => /\ r_mod_n = RadixOf(s_) % modulus
                     /\ one_mont_ = PaddedLimbs(r_mod_n, s_)
                     /\ r2_ = PaddedLimbs((r_mod_n * r_mod_n) % modulus, s_)

(* The inductive invariant.                                                *)
IInv == LoopInv /\ PhaseInv

(* A finished context is one monpro can be called on, and its constants    *)
(* are R mod N and R^2 mod N for the R of its own limb count.              *)
ContextUsable == pc = "ready" =>
  /\ NumberIn(n_limbs_) = modulus /\ n_limbs_[s_-1] # 0
  /\ s_ = S => ValidContext(n_limbs_, n_prime_)
  /\ (n_limbs_[0] * n_prime_ + 1) % B = 0
  /\ NumberIn(one_mont_) = RadixOf(s_) % modulus
  /\ NumberIn(r2_) = (NumberIn(one_mont_) * NumberIn(one_mont_)) % modulus
  /\ RadixOf(s_) > modulus

(* Construction ends, with a context or with the exception.                *)
ConstructionEnds == pc \in {"newton", "double"} ~> pc = "ready"
=============================================================================
