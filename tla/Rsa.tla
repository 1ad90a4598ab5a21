---------------------------------- MODULE Rsa ----------------------------------
(***************************************************************************)
(* rsa.cpp: key generation with its retries, and the operations on a key,  *)
(* decryption by the Chinese remainder theorem line by line.  A prime is   *)
(* whatever Primes lets generate_prime return, a power what ModExp is      *)
(* shown to compute, gcd and mod_inverse what BigIntMachine is shown to    *)
(* return.                                                                 *)
(***************************************************************************)
EXTENDS Numbers

CONSTANTS
  MinBits,   \* the smallest width accepted, 16 in the code
  Wanted,    \* the keys asked for: [bits, e]
  MaxOver    \* arguments tried lie below n + MaxOver

ASSUME RsaAssumption ==
  /\ MinBits \in Nat /\ MinBits >= 6 /\ MaxOver \in Nat
  /\ Wanted \subseteq [bits : Nat, e : Nat]

VARIABLES
  pc,
  want,        \* rsa_generate's arguments
  p, q,        \* its candidates
  pub, priv,   \* the key pair
  op, x,       \* the operation called, and its argument
  m1, m2,      \* rsa_decrypt_crt: the two residues,
  diff,        \*   and (m1 - m2) mod p
  answer       \* the result, -1 for an exception

candidates == <<p, q>>
garner == <<m1, m2, diff>>
vars == <<pc, want, p, q, pub, priv, op, x, m1, m2, diff, answer>>

PublicOps  == {"encrypt", "verify"}
CrtOps     == {"decrypt_crt", "sign"}
Operations == PublicOps \cup CrtOps \cup {"decrypt"}

PBits == want.bits \div 2
QBits == want.bits - PBits

(* What generate_prime returns: odd primes of exactly the width.           *)
Widths == {w.bits \div 2 : w \in Wanted} \cup {w.bits - (w.bits \div 2) : w \in Wanted}
PrimesOfWidth ==
  [w \in Widths |-> {v \in 0..(Pow2[w] - 1) : v % 2 = 1 /\ IsPrime(v) /\ BitLength(v) = w}]

Phi(a, b) == (a - 1) * (b - 1)

(* The three reasons to draw again: equal primes, a product one bit short, *)
(* an exponent without inverse.                                            *)
\* faulty variants of the next definition
AnyWidth(a, b)    == a # b /\ Coprime(want.e, Phi(a, b))
AnyExponent(a, b) == a # b /\ BitLength(a * b) = want.bits
MaybeEqual(a, b)  == BitLength(a * b) = want.bits /\ Coprime(want.e, Phi(a, b))
Acceptable(a, b) ==
  /\ a # b
  /\ BitLength(a * b) = want.bits
  /\ Coprime(want.e, Phi(a, b))

NoPub  == [n |-> 0, e |-> 0]
NoPriv == [n |-> 0, d |-> 0, p |-> 0, q |-> 0, dp |-> 0, dq |-> 0, qinv |-> 0]

Init ==
  /\ pc = "draw_p" /\ want \in Wanted
  /\ p = 0 /\ q = 0 /\ pub = NoPub /\ priv = NoPriv
  /\ op = "none" /\ x = 0 /\ m1 = 0 /\ m2 = 0 /\ diff = 0 /\ answer = 0

-----------------------------------------------------------------------------
(* rsa_generate.                                                           *)
TooSmall ==
  /\ pc = "draw_p" /\ want.bits < MinBits
  /\ pc' = "refused"
  /\ UNCHANGED <<want, candidates, pub, priv, op, x, garner, answer>>

DrawP(v) ==
  /\ pc = "draw_p" /\ want.bits >= MinBits
  /\ p' = v
  /\ pc' = "draw_q"
  /\ UNCHANGED <<want, q, pub, priv, op, x, garner, answer>>

DrawQ(v) ==
  /\ pc = "draw_q"
  /\ q' = v
  /\ pc' = "inspect"
  /\ UNCHANGED <<want, p, pub, priv, op, x, garner, answer>>

(* continue: the candidates go out of scope.                               *)
Retry ==
  /\ pc = "inspect" /\ ~Acceptable(p, q)
  /\ p' = 0 /\ q' = 0
  /\ pc' = "draw_p"
  /\ UNCHANGED <<want, pub, priv, op, x, garner, answer>>

(* The two calls of mod_inverse succeed, or one of them throws.            *)
\* faulty variant of the next definition
PrivateKeyOfN(d, qinv) ==
  [n |-> p * q, d |-> d, p |-> p, q |-> q, dp |-> d % p, dq |-> d % q, qinv |-> qinv]
PrivateKey(d, qinv) ==
  [n |-> p * q, d |-> d, p |-> p, q |-> q,
   dp |-> d % (p - 1), dq |-> d % (q - 1), qinv |-> qinv]

\* faulty variant of the next definition
PInverse   == Inverses(p, q)
QInverse   == Inverses(q, p)
MakeKey ==
  /\ pc = "inspect" /\ Acceptable(p, q)
  /\ IF Inverses(want.e, Phi(p, q)) = {} \/ QInverse = {}
       THEN pc' = "thrown" /\ UNCHANGED <<candidates, pub, priv>>
       ELSE /\ \E d \in Inverses(want.e, Phi(p, q)), qinv \in QInverse :
                  priv' = PrivateKey(d, qinv)
            /\ pub' = [n |-> p * q, e |-> want.e]
            /\ p' = 0 /\ q' = 0
            /\ pc' = "ready"
  /\ UNCHANGED <<want, op, x, garner, answer>>

-----------------------------------------------------------------------------
(* The operations on a key.  Each refuses an argument of n or above.       *)
Call(o, v) ==
  /\ pc = "ready"
  /\ op' = o /\ x' = v
  /\ pc' = "called"
  /\ UNCHANGED <<want, candidates, pub, priv, garner, answer>>

Modulus == IF op \in PublicOps THEN pub.n ELSE priv.n

Throw ==
  /\ pc = "called" /\ x >= Modulus
  /\ answer' = -1
  /\ pc' = "answered"
  /\ UNCHANGED <<want, candidates, pub, priv, op, x, garner>>

Public ==
  /\ pc = "called" /\ x < Modulus /\ op \in PublicOps
  /\ answer' = Power(x, pub.e, pub.n)
  /\ pc' = "answered"
  /\ UNCHANGED <<want, candidates, pub, priv, op, x, garner>>

Decrypt ==
  /\ pc = "called" /\ x < Modulus /\ op = "decrypt"
  /\ answer' = Power(x, priv.d, priv.n)
  /\ pc' = "answered"
  /\ UNCHANGED <<want, candidates, pub, priv, op, x, garner>>

(* m1 = c^dp mod p, m2 = c^dq mod q.                                       *)
Residues ==
  /\ pc = "called" /\ x < Modulus /\ op \in CrtOps
  /\ m1' = Power(x, priv.dp, priv.p)
  /\ m2' = Power(x, priv.dq, priv.q)
  /\ pc' = "garner"
  /\ UNCHANGED <<want, candidates, pub, priv, op, x, diff, answer>>

(* m1 + p - m2p; the subtraction throws if it would go below zero.         *)
\* faulty variant of the next definition
LiftedReversed(a, b)  == b + priv.p - (a % priv.p)
Lifted(a, b) == a + priv.p - (b % priv.p)

Difference ==
  /\ pc = "garner"
  /\ IF Lifted(m1, m2) < 0
       THEN pc' = "thrown" /\ UNCHANGED diff
       ELSE diff' = Lifted(m1, m2) % priv.p /\ pc' = "combine"
  /\ UNCHANGED <<want, candidates, pub, priv, op, x, m1, m2, answer>>

(* h = diff * qinv mod p; the answer is m2 + h*q.                          *)
Combined(dif, b) == b + ((dif * priv.qinv) % priv.p) * priv.q

Combine ==
  /\ pc = "combine"
  /\ answer' = Combined(diff, m2)
  /\ m1' = 0 /\ m2' = 0 /\ diff' = 0
  /\ pc' = "answered"
  /\ UNCHANGED <<want, candidates, pub, priv, op, x>>

(* The caller has the result.                                              *)
Return ==
  /\ pc = "answered"
  /\ op' = "none" /\ x' = 0 /\ answer' = 0
  /\ pc' = "ready"
  /\ UNCHANGED <<want, candidates, pub, priv, garner>>

-----------------------------------------------------------------------------
GeneratePrimeP == \E v \in PrimesOfWidth[PBits] : DrawP(v)
GeneratePrimeQ == \E v \in PrimesOfWidth[QBits] : DrawQ(v)
Compute ==
  \/ TooSmall \/ Retry \/ MakeKey
  \/ Throw \/ Public \/ Decrypt \/ Residues \/ Difference \/ Combine

Next ==
  \/ GeneratePrimeP \/ GeneratePrimeQ \/ Compute
  \/ \E o \in Operations, v \in 0..(pub.n + MaxOver - 1) : Call(o, v)
  \/ Return

Spec == Init /\ [][Next]_vars

(* The pairs that make a key of the width and exponent asked for.          *)
GoodP == {a \in PrimesOfWidth[PBits] : \E b \in PrimesOfWidth[QBits] : Acceptable(a, b)}
GoodQ == {b \in PrimesOfWidth[QBits] : Acceptable(p, b)}

(* The calls run on.  generate_prime returns (Primes.TaskEnds), and asked  *)
(* again and again returns, with probability 1, a p with a partner and,    *)
(* after such a p, a q that is one.                                        *)
FairSpec ==
  /\ Spec
  /\ WF_vars(Compute)
  /\ WF_vars(GeneratePrimeP) /\ WF_vars(GeneratePrimeQ)
  /\ SF_vars(\E v \in GoodP : DrawP(v))
  /\ SF_vars(\E v \in GoodQ : DrawQ(v))
-----------------------------------------------------------------------------
HasKey   == pc \in {"ready", "called", "garner", "combine", "answered"}
Answered == pc = "answered" /\ answer # -1

TypeOK ==
  /\ pc \in {"draw_p", "draw_q", "inspect", "ready", "called", "garner", "combine",
             "answered", "refused", "thrown"}
  /\ want \in Wanted /\ pub.n \in Nat /\ priv.n \in Nat
  /\ \A v \in {p, q, x, m1, m2, diff} : v \in Nat
  /\ answer \in Nat \cup {-1} /\ (pc = "answered" => answer < priv.n)
  /\ op \in Operations \cup {"none"}

(* rsa.hpp:22-35: the key has exactly the width asked for, its factors are *)
(* different primes, and every exponent undoes e in its own group, dp and  *)
(* dq included, which rsa_generate takes from d and not from e.            *)
KeySound == HasKey =>
  /\ BitLength(pub.n) = want.bits /\ pub.n = priv.n /\ pub.n = priv.p * priv.q
  /\ priv.p # priv.q /\ IsPrime(priv.p) /\ IsPrime(priv.q)
  /\ (pub.e * priv.d)  % Phi(priv.p, priv.q) = 1
  /\ (pub.e * priv.dp) % (priv.p - 1) = 1
  /\ (pub.e * priv.dq) % (priv.q - 1) = 1
  /\ (priv.q * priv.qinv) % priv.p = 1

(* No call of mod_inverse and no subtraction in rsa.cpp throws: whatever   *)
(* passes the three tests of rsa_generate has its inverses.                *)
NeverThrows == pc # "thrown"

(* rsa.cpp:59, "kept non-negative", although m2 may be larger than p.      *)
NoUnderflow == pc = "garner" => Lifted(m1, m2) >= 0

(* Garner's recombination: the number below n with the two residues.       *)
CrtResidues == Answered /\ op \in CrtOps =>
  /\ answer \in 0..(priv.n - 1)
  /\ answer % priv.p = Power(x, priv.dp, priv.p)
  /\ answer % priv.q = Power(x, priv.dq, priv.q)

(* The inductive invariant: what the candidates, the key and the values in *)
(* flight are.                                                             *)
OddPrime(v) == v \in Nat /\ v > 2 /\ IsPrime(v)

PairInv ==
  /\ pc \in {"draw_q", "inspect"} => OddPrime(p) /\ want.bits >= MinBits
  /\ pc = "inspect" => OddPrime(q)

KeyInv == HasKey =>
  /\ OddPrime(priv.p) /\ OddPrime(priv.q)
  /\ pub.e \in Nat /\ priv.d \in Nat /\ priv.dp \in Nat /\ priv.dq \in Nat
  /\ priv.qinv \in Nat
  /\ priv.dp = priv.d % (priv.p - 1) /\ priv.dq = priv.d % (priv.q - 1)

CallInv ==
  /\ pc = "called" => op \in Operations
  /\ pc \in {"garner", "combine"} =>
       /\ op \in CrtOps /\ x < priv.n
       /\ m1 = Power(x, priv.dp, priv.p)
       /\ m2 = Power(x, priv.dq, priv.q)
  /\ pc = "combine" =>
       /\ diff = Lifted(m1, m2) % priv.p

IInv ==
  TypeOK /\ PairInv /\ KeyInv /\ KeySound /\ NeverThrows /\ CallInv /\ CrtResidues

(* rsa.hpp:52: decryption by CRT is decryption, for every ciphertext, the  *)
(* multiples of a prime included, and both orders of the primes.           *)
CrtIsPlain == Answered /\ op \in CrtOps => answer = Power(x, priv.d, priv.n)

(* The key pair is a trapdoor permutation of 0..n-1: encrypt and decrypt,  *)
(* sign and verify undo each other (rsa.hpp:46-61).                        *)
Phase ==
  CASE pc \in {"draw_p", "draw_q", "inspect"} -> "new"
    [] pc \in {"called", "garner", "combine"} -> "called"
    [] OTHER -> pc
D == INSTANCE Trapdoor WITH phase <- Phase
TrapdoorSpec == D!Spec

(* Generation retries, and ends if some pair of primes will do; every call *)
(* on the key is answered.                                                 *)
Generating == pc \in {"draw_p", "draw_q", "inspect"}
GenerationEnds ==
  Generating /\ (want.bits < MinBits \/ GoodP # {}) ~> pc \in {"refused", "ready"}
CallAnswered == pc = "called" ~> pc = "answered"
Responds == GenerationEnds /\ CallAnswered
=============================================================================
