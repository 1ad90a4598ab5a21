------------------------------ MODULE RsaProofs ------------------------------
(***************************************************************************)
(* Proofs about Rsa for every width, every exponent and every pair of      *)
(* primes: the key is sound, no call throws, decryption by CRT is          *)
(* decryption, and the operations of a key undo each other, as Trapdoor    *)
(* says.                                                                   *)
(***************************************************************************)
EXTENDS Rsa, NumberLemmas

-----------------------------------------------------------------------------
(* Arithmetic of the recombination: a, b are the residues m1, m2, the      *)
(* difference d stands for a - b modulo P, i for the inverse of Q.         *)
GarnerStep(P, Q, a, b, d, i, k) ==
  /\ P \in Nat \ {0} /\ Q \in Nat \ {0}
  /\ a \in 0..(P-1) /\ b \in 0..(Q-1) /\ d \in 0..(P-1) /\ i \in Nat /\ k \in Int
  /\ (Q * i) % P = 1 /\ d = (a - b) + k * P

LEMMA GarnerCongruent ==
  ASSUME NEW P, NEW Q, NEW a, NEW b, NEW d, NEW i, NEW k, GarnerStep(P, Q, a, b, d, i, k)
  PROVE  (b + ((d * i) % P) * Q) % P = a
<1> SUFFICES ASSUME P \in Nat \ {0}, Q \in Nat \ {0}, a \in 0..(P-1), b \in 0..(Q-1),
                    d \in 0..(P-1), i \in Nat, k \in Int,
                    (Q * i) % P = 1, d = (a - b) + k * P
             PROVE  (b + ((d * i) % P) * Q) % P = a
  BY DEF GarnerStep
<1> DEFINE h == (d * i) % P
           s == (d * i) \div P
           t == (Q * i) \div P
<1>1. h \in 0..(P-1) /\ s \in Int /\ d * i = h + s * P
  <2>1. d * i \in Int
    OBVIOUS
  <2> HIDE DEF h, s
  <2>2. QED
    BY <2>1, QuotientResidue DEF h, s
<1>2. t \in Int /\ Q * i = 1 + t * P
  <2>1. Q * i \in Int
    OBVIOUS
  <2> HIDE DEF t
  <2>2. QED
    BY <2>1, QuotientResidue DEF t
<1> HIDE DEF h, s, t
<1>3. h * Q = d * (Q * i) - (s * Q) * P
  <2>1. h = d * i - s * P
    BY <1>1
  <2>2. h * Q = (d * i - s * P) * Q
    BY <2>1
  <2>3. QED
    BY <2>2, <1>1
<1>4. d * (Q * i) = d + (d * t) * P
  <2>1. d * (Q * i) = d * (1 + t * P)
    BY <1>2
  <2>2. QED
    BY <2>1, <1>2
<1>5. b + h * Q = a + (k + d * t - s * Q) * P
  BY <1>1, <1>2, <1>3, <1>4
<1>6. k + d * t - s * Q \in Int
  BY <1>1, <1>2
<1>7. (a + (k + d * t - s * Q) * P) % P = a
  BY <1>6, Residue
<1>8. QED
  BY <1>5, <1>7 DEF h

(* The sum stays below the product, and m2 is its residue modulo Q.        *)
LEMMA GarnerBelow ==
  ASSUME NEW P \in Nat \ {0}, NEW Q \in Nat \ {0}, NEW b \in 0..(Q-1), NEW h \in 0..(P-1)
  PROVE  /\ b + h * Q \in 0..(P*Q - 1)
         /\ (b + h * Q) % Q = b
<1>1. h * Q <= (P - 1) * Q /\ h * Q >= 0
  OBVIOUS
<1>2. (P - 1) * Q = P * Q - Q
  OBVIOUS
<1>3. (b + h * Q) % Q = b
  BY Residue
<1>4. QED
  BY <1>1, <1>2, <1>3

(* An inverse modulo the group order M*L is one modulo the factor M, also  *)
(* after it has been reduced.                                              *)
LEMMA InverseReduced ==
  ASSUME NEW M \in Nat, M > 1, NEW L \in Nat \ {0}, NEW e \in Nat, NEW d \in Nat,
         (e * d) % (M * L) = 1
  PROVE  (e * (d % M)) % M = 1
<1>0. M * L \in Nat \ {0}
  OBVIOUS
<1> DEFINE s == (e * d) \div (M * L)
           r == d % M
           t == d \div M
<1>1. s \in Int /\ e * d = 1 + s * (M * L)
  <2>1. e * d \in Int
    OBVIOUS
  <2> HIDE DEF s
  <2>2. QED
    BY <2>1, <1>0, QuotientResidue DEF s
<1>2. r \in 0..(M-1) /\ t \in Int /\ d = r + t * M
  BY QuotientResidue
<1> HIDE DEF s, r, t
<1>3. e * r = 1 + (s * L - e * t) * M
  <2>1. r = d - t * M
    BY <1>2
  <2>2. e * r = e * (d - t * M)
    BY <2>1
  <2>3. e * (d - t * M) = e * d - (e * t) * M
    BY <1>2
  <2>4. s * (M * L) = (s * L) * M
    BY <1>1
  <2>5. QED
    BY <1>1, <1>2, <2>2, <2>3, <2>4
<1> DEFINE k == s * L - e * t
<1>4. k \in Int /\ M \in Nat \ {0} /\ 1 \in 0..(M-1)
  BY <1>1, <1>2
<1> HIDE DEF k
<1>5. (1 + k * M) % M = 1
  BY <1>4, Residue
<1>6. QED
  BY <1>3, <1>5 DEF r, k

-----------------------------------------------------------------------------
(* What a draw can be.                                                     *)
LEMMA Drawn ==
  ASSUME TypeOK
  PROVE  /\ \A v \in PrimesOfWidth[PBits] : OddPrime(v)
         /\ \A v \in PrimesOfWidth[QBits] : OddPrime(v)
<1>1. want.bits \in Nat /\ PBits \in Widths /\ QBits \in Widths
  BY RsaAssumption DEF TypeOK, Widths, PBits, QBits
<1>2. \A w \in Widths : PrimesOfWidth[w] =
        {v \in 0..(Pow2[w] - 1) : v % 2 = 1 /\ IsPrime(v) /\ BitLength(v) = w}
  BY DEF PrimesOfWidth
<1>3. \A n, v : v \in 0..n => v \in Int /\ v >= 0
  OBVIOUS
<1>4. ASSUME NEW w \in Widths, NEW v \in PrimesOfWidth[w] PROVE OddPrime(v)
  <2>1. v \in Nat /\ v % 2 = 1 /\ IsPrime(v)
    BY <1>2, <1>3
  <2>2. v > 1
    BY <2>1 DEF IsPrime
  <2>3. v # 2
    BY <2>1
  <2>4. QED
    BY <2>1, <2>2, <2>3 DEF OddPrime
<1>5. QED
  BY <1>1, <1>4

(* With a key, a power modulo one of its numbers is a residue.             *)
LEMMA KeyPowers ==
  ASSUME TypeOK, KeyInv, KeySound, HasKey
  PROVE  /\ Power(x, priv.dp, priv.p) \in 0..(priv.p - 1)
         /\ Power(x, priv.dq, priv.q) \in 0..(priv.q - 1)
         /\ pub.n = priv.n /\ priv.n \in Nat
         /\ x < priv.n => /\ Power(x, pub.e, priv.n) \in 0..(priv.n - 1)
                          /\ Power(x, priv.d, priv.n) \in 0..(priv.n - 1)
<1>1. x \in Nat /\ priv.n \in Nat
  BY DEF TypeOK
<1>2. priv.p \in Nat \ {0} /\ priv.q \in Nat \ {0} /\ priv.dp \in Nat /\ priv.dq \in Nat
  BY DEF KeyInv, OddPrime
<1>3. pub.n = priv.n
  BY DEF KeySound
<1>4. Power(x, priv.dp, priv.p) \in 0..(priv.p - 1)
  BY <1>1, <1>2, PowerRec
<1>5. Power(x, priv.dq, priv.q) \in 0..(priv.q - 1)
  BY <1>1, <1>2, PowerRec
<1>6. x < priv.n => priv.n \in Nat \ {0}
  BY <1>1
<1>7. ASSUME x < priv.n, NEW k \in Nat PROVE Power(x, k, priv.n) \in 0..(priv.n - 1)
  BY <1>1, <1>6, <1>7, PowerRec
<1>8. QED
  BY <1>1, <1>3, <1>4, <1>5, <1>7 DEF KeyInv

LEMMA InitInv == ASSUME Init PROVE IInv
<1>1. TypeOK
  BY DEF Init, TypeOK, NoPub, NoPriv
<1>2. ~HasKey /\ ~Answered /\ PairInv /\ CallInv /\ NeverThrows
  BY DEF Init, NeverThrows, HasKey, Answered, PairInv, CallInv
<1>3. QED
  BY <1>1, <1>2 DEF IInv, KeyInv, KeySound, CrtResidues

-----------------------------------------------------------------------------
(* One lemma per action of key generation.                                 *)
LEMMA KeepsTooSmall == ASSUME IInv, TooSmall PROVE IInv'
<1> USE DEF IInv, TooSmall, candidates, garner
<1>1. TypeOK'
  BY DEF TypeOK
<1>2. PairInv' /\ CallInv' /\ NeverThrows'
  BY DEF PairInv, CallInv, NeverThrows
<1>3. ~HasKey' /\ ~Answered'
  BY DEF HasKey, Answered
<1>4. QED
  BY <1>1, <1>2, <1>3 DEF KeyInv, KeySound, CrtResidues

LEMMA KeepsDrawP ==
  ASSUME IInv, NEW v \in PrimesOfWidth[PBits], DrawP(v) PROVE IInv'
<1> USE DEF IInv, DrawP, candidates, garner
<1>0. OddPrime(v)
  BY Drawn
<1>1. TypeOK'
  BY <1>0 DEF TypeOK, OddPrime
<1>2. PairInv' /\ CallInv' /\ NeverThrows'
  BY <1>0 DEF PairInv, CallInv, NeverThrows
<1>3. ~HasKey' /\ ~Answered'
  BY DEF HasKey, Answered
<1>4. QED
  BY <1>1, <1>2, <1>3 DEF KeyInv, KeySound, CrtResidues

LEMMA KeepsDrawQ ==
  ASSUME IInv, NEW v \in PrimesOfWidth[QBits], DrawQ(v) PROVE IInv'
<1> USE DEF IInv, DrawQ, candidates, garner
<1>0. OddPrime(v)
  BY Drawn
<1>1. TypeOK'
  BY <1>0 DEF TypeOK, OddPrime
<1>2. PairInv' /\ CallInv' /\ NeverThrows'
  BY <1>0 DEF PairInv, CallInv, NeverThrows
<1>3. ~HasKey' /\ ~Answered'
  BY DEF HasKey, Answered
<1>4. QED
  BY <1>1, <1>2, <1>3 DEF KeyInv, KeySound, CrtResidues

LEMMA KeepsRetry == ASSUME IInv, Retry PROVE IInv'
<1> USE DEF IInv, Retry, candidates, garner
<1>1. TypeOK'
  BY DEF TypeOK
<1>2. PairInv' /\ CallInv' /\ NeverThrows'
  BY DEF PairInv, CallInv, NeverThrows
<1>3. ~HasKey' /\ ~Answered'
  BY DEF HasKey, Answered
<1>4. QED
  BY <1>1, <1>2, <1>3 DEF KeyInv, KeySound, CrtResidues

(* The key that is made, from the two inverses.                            *)
LEMMA MadeKey ==
  ASSUME IInv, pc = "inspect", Acceptable(p, q),
         NEW d \in Inverses(want.e, Phi(p, q)), NEW i \in QInverse
  PROVE  /\ d \in Nat /\ i \in Nat /\ d % (p-1) \in Nat /\ d % (q-1) \in Nat
         /\ p * q \in Nat /\ p # q /\ OddPrime(p) /\ OddPrime(q)
         /\ BitLength(p * q) = want.bits /\ want.e \in Nat
         /\ (want.e * d) % Phi(p, q) = 1
         /\ (want.e * (d % (p-1))) % (p-1) = 1
         /\ (want.e * (d % (q-1))) % (q-1) = 1
         /\ (q * i) % p = 1
<1>1. OddPrime(p) /\ OddPrime(q) /\ want.e \in Nat
  BY RsaAssumption DEF IInv, PairInv, TypeOK
<1>2. p \in Nat /\ q \in Nat /\ p > 2 /\ q > 2 /\ p * q \in Nat
  BY <1>1 DEF OddPrime
<1>3. p # q /\ BitLength(p * q) = want.bits
  BY DEF Acceptable
<1>4. i \in Nat /\ (q * i) % p = 1
  BY <1>2 DEF QInverse, Inverses
<1>5. Phi(p, q) = (p-1) * (q-1) /\ (p-1) * (q-1) = (q-1) * (p-1) /\ (p-1) * (q-1) \in Int
  BY <1>2 DEF Phi
<1>6. d \in Nat /\ (want.e * d) % Phi(p, q) = 1
  BY <1>5 DEF Inverses
<1> DEFINE M == p-1
           L == q-1
<1>7. M \in Nat /\ M > 1 /\ M \in Nat \ {0} /\ L \in Nat /\ L > 1 /\ L \in Nat \ {0}
  BY <1>2
<1>8. (want.e * d) % (M * L) = 1 /\ (want.e * d) % (L * M) = 1
  BY <1>5, <1>6
<1> HIDE DEF M, L
<1>9. (want.e * (d % M)) % M = 1
  BY <1>1, <1>6, <1>7, <1>8, InverseReduced
<1>10. (want.e * (d % L)) % L = 1
  BY <1>1, <1>6, <1>7, <1>8, InverseReduced
<1>11. d % M \in Nat /\ d % L \in Nat
  BY <1>6, <1>7
<1>12. QED
  BY <1>1, <1>2, <1>3, <1>4, <1>6, <1>9, <1>10, <1>11 DEF M, L

(* What passes the tests has both inverses: different primes are coprime,  *)
(* and so are e and phi.                                                   *)
LEMMA HasInverses ==
  ASSUME IInv, pc = "inspect", Acceptable(p, q)
  PROVE  Inverses(want.e, Phi(p, q)) # {} /\ QInverse # {}
<1>1. OddPrime(p) /\ OddPrime(q) /\ want.e \in Nat
  BY RsaAssumption DEF IInv, PairInv, TypeOK
<1>2. p \in Nat /\ q \in Nat /\ p > 2 /\ q > 2 /\ IsPrime(p) /\ IsPrime(q)
  BY <1>1 DEF OddPrime
<1>3. Phi(p, q) \in Nat /\ Phi(p, q) > 1 /\ Phi(p, q) \in Nat \ {0}
  <2>1. (p - 1) * (q - 1) >= 2 * (q - 1) /\ (p - 1) * (q - 1) \in Int
    BY <1>2
  <2>2. QED
    BY <1>2, <2>1 DEF Phi
<1>4. Inverses(want.e, Phi(p, q)) # {}
  <2>1. Coprime(want.e, Phi(p, q))
    BY DEF Acceptable
  <2>2. Bezout(want.e, Phi(p, q))
    BY <1>1, <1>3, <2>1, BezoutCoprime
  <2>3. QED
    BY <1>1, <1>3, <2>2, InverseExists
<1>5. Inverses(q, p) # {}
  <2>1. p # q
    BY DEF Acceptable
  <2>2. Bezout(q, p)
    BY <1>2, <2>1, BezoutPrimes
  <2>3. p > 1
    BY <1>2
  <2>4. QED
    BY <1>2, <2>2, <2>3, InverseExists
<1>6. QED
  BY <1>4, <1>5 DEF QInverse

LEMMA KeepsMakeKey == ASSUME IInv, MakeKey PROVE IInv'
<1> USE DEF IInv
<1>1. CASE pc' = "thrown" /\ UNCHANGED <<candidates, pub, priv>>
  <2>1. Inverses(want.e, Phi(p, q)) # {} /\ QInverse # {}
    BY HasInverses DEF MakeKey
  <2>2. pc' = "ready"
    BY <2>1 DEF MakeKey
  <2>3. QED
    BY <1>1, <2>2
<1>2. CASE \E d \in Inverses(want.e, Phi(p, q)), qinv \in QInverse :
              /\ priv' = PrivateKey(d, qinv)
              /\ pub' = [n |-> p * q, e |-> want.e]
              /\ p' = 0 /\ q' = 0 /\ pc' = "ready"
  <2>1. PICK d \in Inverses(want.e, Phi(p, q)), i \in QInverse :
              /\ priv' = PrivateKey(d, i)
              /\ pub' = [n |-> p * q, e |-> want.e]
              /\ p' = 0 /\ q' = 0 /\ pc' = "ready"
    BY <1>2
  <2>2. pc = "inspect" /\ Acceptable(p, q) /\ UNCHANGED <<want, op, x, m1, m2, diff, answer>>
    BY DEF MakeKey, garner
  <2>3. /\ d \in Nat /\ i \in Nat /\ d % (p-1) \in Nat /\ d % (q-1) \in Nat
        /\ p * q \in Nat /\ p # q /\ OddPrime(p) /\ OddPrime(q)
        /\ BitLength(p * q) = want.bits /\ want.e \in Nat
        /\ (want.e * d) % Phi(p, q) = 1
        /\ (want.e * (d % (p-1))) % (p-1) = 1
        /\ (want.e * (d % (q-1))) % (q-1) = 1
        /\ (q * i) % p = 1
    BY <2>2, MadeKey
  <2>4. /\ priv'.n = p * q /\ priv'.d = d /\ priv'.p = p /\ priv'.q = q
        /\ priv'.dp = d % (p-1) /\ priv'.dq = d % (q-1) /\ priv'.qinv = i
        /\ pub'.n = p * q /\ pub'.e = want.e
    BY <2>1 DEF PrivateKey
  <2>5. TypeOK'
    BY <2>1, <2>2, <2>3, <2>4 DEF TypeOK
  <2>6. PairInv' /\ CallInv' /\ NeverThrows' /\ ~Answered'
    BY <2>1 DEF PairInv, CallInv, NeverThrows, Answered
  <2>7. KeyInv'
    BY <2>3, <2>4 DEF KeyInv
  <2>8. KeySound'
    BY <2>2, <2>3, <2>4 DEF KeySound, OddPrime
  <2>9. QED
    BY <2>5, <2>6, <2>7, <2>8 DEF CrtResidues
<1>3. QED
  BY <1>1, <1>2 DEF MakeKey

-----------------------------------------------------------------------------
(* One lemma per action on a key.                                          *)
LEMMA KeyStays ==
  ASSUME KeyInv, KeySound, HasKey, UNCHANGED <<pub, priv, want>>
  PROVE  KeyInv' /\ KeySound'
BY DEF KeyInv, KeySound

LEMMA KeepsCall ==
  ASSUME IInv, NEW o \in Operations, NEW v \in 0..(pub.n + MaxOver - 1), Call(o, v)
  PROVE  IInv'
<1> USE DEF IInv, Call, candidates, garner
<1>1. TypeOK'
  BY RsaAssumption DEF TypeOK
<1>2. PairInv' /\ CallInv' /\ NeverThrows' /\ ~Answered'
  BY DEF PairInv, CallInv, NeverThrows, Answered
<1>3. KeyInv' /\ KeySound'
  BY KeyStays DEF HasKey
<1>4. QED
  BY <1>1, <1>2, <1>3 DEF CrtResidues

LEMMA KeepsThrow == ASSUME IInv, Throw PROVE IInv'
<1> USE DEF IInv, Throw, candidates, garner
<1>1. TypeOK'
  BY DEF TypeOK
<1>2. PairInv' /\ CallInv' /\ NeverThrows' /\ ~Answered'
  BY DEF PairInv, CallInv, NeverThrows, Answered
<1>3. KeyInv' /\ KeySound'
  BY KeyStays DEF HasKey
<1>4. QED
  BY <1>1, <1>2, <1>3 DEF CrtResidues

LEMMA KeepsPublic == ASSUME IInv, Public PROVE IInv'
<1> USE DEF IInv, Public, candidates, garner
<1>1. answer' \in 0..(priv.n - 1)
  BY KeyPowers DEF HasKey, Modulus
<1>2. TypeOK'
  BY <1>1 DEF TypeOK
<1>3. PairInv' /\ CallInv' /\ NeverThrows' /\ op \notin CrtOps
  BY DEF PairInv, CallInv, NeverThrows, PublicOps, CrtOps
<1>4. KeyInv' /\ KeySound'
  BY KeyStays DEF HasKey
<1>5. QED
  BY <1>2, <1>3, <1>4 DEF CrtResidues

LEMMA KeepsDecrypt == ASSUME IInv, Decrypt PROVE IInv'
<1> USE DEF IInv, Decrypt, candidates, garner
<1>1. answer' \in 0..(priv.n - 1)
  BY KeyPowers DEF HasKey, Modulus, PublicOps
<1>2. TypeOK'
  BY <1>1 DEF TypeOK
<1>3. PairInv' /\ CallInv' /\ NeverThrows' /\ op \notin CrtOps
  BY DEF PairInv, CallInv, NeverThrows, CrtOps
<1>4. KeyInv' /\ KeySound'
  BY KeyStays DEF HasKey
<1>5. QED
  BY <1>2, <1>3, <1>4 DEF CrtResidues

LEMMA KeepsResidues == ASSUME IInv, Residues PROVE IInv'
<1> USE DEF IInv, Residues, candidates
<1>1. HasKey /\ priv.p \in Nat /\ priv.q \in Nat
  BY DEF HasKey, KeyInv, OddPrime
<1>2. m1' \in Nat /\ m2' \in Nat
  BY <1>1, KeyPowers
<1>3. TypeOK'
  BY <1>2 DEF TypeOK
<1>4. PairInv' /\ CallInv' /\ NeverThrows' /\ ~Answered'
  BY DEF PairInv, CallInv, NeverThrows, Answered, Modulus, CrtOps, PublicOps
<1>5. KeyInv' /\ KeySound'
  BY KeyStays, <1>1
<1>6. QED
  BY <1>3, <1>4, <1>5 DEF CrtResidues

(* The two residues and what the difference of them is.                    *)
LEMMA Differs ==
  ASSUME IInv, pc \in {"garner", "combine"}
  PROVE  /\ m1 \in 0..(priv.p - 1) /\ m2 \in 0..(priv.q - 1)
         /\ priv.p \in Nat \ {0}
         /\ Lifted(m1, m2) \in Nat
         /\ Lifted(m1, m2) % priv.p \in 0..(priv.p - 1)
         /\ \E k \in Int : Lifted(m1, m2) % priv.p = (m1 - m2) + k * priv.p
<1>1. HasKey /\ priv.p \in Nat \ {0} /\ priv.q \in Nat \ {0}
  BY DEF IInv, HasKey, KeyInv, OddPrime
<1>2. m1 \in 0..(priv.p - 1) /\ m2 \in 0..(priv.q - 1)
  BY <1>1, KeyPowers DEF IInv, CallInv
<1> DEFINE P == priv.p
           r == m2 % P
           t == m2 \div P
           l == Lifted(m1, m2)
           s == l \div P
<1>3. r \in 0..(P-1) /\ t \in Int /\ m2 = r + t * P
  <2>1. P \in Nat \ {0} /\ m2 \in Int
    BY <1>1, <1>2
  <2> HIDE DEF P
  <2>2. QED
    BY <2>1, QuotientResidue
<1>4. l = m1 + P - r
  BY DEF Lifted
<1>5. l \in Nat
  <2>1. r \in 0..(P-1) /\ m1 \in Nat /\ P \in Nat
    BY <1>1, <1>2, <1>3
  <2> HIDE DEF P, r, l
  <2>2. QED
    BY <2>1, <1>4
<1> HIDE DEF r, t, l
<1>6. l % P \in 0..(P-1) /\ s \in Int /\ l = (l % P) + s * P
  <2>1. P \in Nat \ {0} /\ l \in Int
    BY <1>1, <1>5
  <2> HIDE DEF P
  <2>2. QED
    BY <2>1, QuotientResidue
<1> HIDE DEF s
<1>7. l % P = (m1 - m2) + (1 + t - s) * P
  <2>1. /\ P \in Int /\ m1 \in Int /\ r \in Int /\ t \in Int /\ s \in Int
        /\ m2 = r + t * P /\ l = m1 + P - r /\ l = (l % P) + s * P /\ l % P \in Int
    BY <1>1, <1>2, <1>3, <1>4, <1>6
  <2> HIDE DEF P
  <2>2. (1 + t - s) * P = P + t * P - s * P
    BY <2>1
  <2>3. t * P \in Int /\ s * P \in Int
    BY <2>1
  <2>4. PICK u, v, w \in Int : u = t * P /\ v = s * P /\ w = l % P
    BY <2>1, <2>3
  <2>6. m2 = r + u /\ l = m1 + P - r /\ l = w + v
    BY <2>1, <2>4
  <2>7. w = (m1 - m2) + (P + u - v)
    BY <2>1, <2>4, <2>6
  <2>5. QED
    BY <2>2, <2>4, <2>7
<1>8. 1 + t - s \in Int
  BY <1>3, <1>6
<1>9. QED
  BY <1>1, <1>2, <1>5, <1>6, <1>7, <1>8 DEF l

LEMMA KeepsDifference == ASSUME IInv, Difference PROVE IInv'
<1> USE DEF IInv, Difference, candidates
<1>1. Lifted(m1, m2) \in Nat
  BY Differs
<1>2. diff' = Lifted(m1, m2) % priv.p /\ pc' = "combine"
  BY <1>1
<1>3. diff' \in 0..(priv.p - 1) /\ priv.p \in Nat \ {0}
  BY <1>2, Differs
<1>4. diff' \in Nat
  BY <1>3
<1>5. TypeOK'
  BY <1>2, <1>4 DEF TypeOK
<1>6. PairInv' /\ ~Answered' /\ NeverThrows'
  BY <1>2 DEF PairInv, Answered, NeverThrows
<1>8. CallInv'
  BY <1>2 DEF CallInv, Lifted
<1>9. KeyInv' /\ KeySound'
  BY KeyStays DEF HasKey
<1>10. QED
  BY <1>5, <1>6, <1>8, <1>9 DEF CrtResidues

(* The recombined number.                                                  *)
LEMMA CombineValue ==
  ASSUME IInv, Combine
  PROVE  /\ op \in CrtOps /\ x < priv.n
         /\ answer' \in 0..(priv.n - 1)
         /\ answer' % priv.p = Power(x, priv.dp, priv.p)
         /\ answer' % priv.q = Power(x, priv.dq, priv.q)
<1> USE DEF IInv, Combine, candidates
<1>1. HasKey /\ priv.p \in Nat \ {0} /\ priv.q \in Nat \ {0} /\ priv.qinv \in Nat
  BY DEF HasKey, KeyInv, OddPrime
<1>2. /\ op \in CrtOps /\ x < priv.n
      /\ m1 = Power(x, priv.dp, priv.p) /\ m2 = Power(x, priv.dq, priv.q)
      /\ diff = Lifted(m1, m2) % priv.p
  BY DEF CallInv
<1>0. diff \in 0..(priv.p - 1)
  BY <1>2, Differs
<1>3. m1 \in 0..(priv.p - 1) /\ m2 \in 0..(priv.q - 1)
  BY <1>1, <1>2, KeyPowers
<1>4. PICK k \in Int : diff = (m1 - m2) + k * priv.p
  BY <1>2, Differs
<1>5. (priv.q * priv.qinv) % priv.p = 1 /\ priv.n = priv.p * priv.q
  BY <1>1 DEF KeySound
<1> DEFINE h == (diff * priv.qinv) % priv.p
<1>6. answer' = m2 + h * priv.q
  BY DEF Combined
<1> DEFINE P == priv.p
           Q == priv.q
           i == priv.qinv
<1>7. answer' % P = m1
  <2>1. /\ P \in Nat \ {0} /\ Q \in Nat \ {0} /\ i \in Nat
        /\ m1 \in 0..(P-1) /\ m2 \in 0..(Q-1) /\ diff \in 0..(P-1)
        /\ (Q * i) % P = 1 /\ diff = (m1 - m2) + k * P
    BY <1>0, <1>1, <1>2, <1>3, <1>4, <1>5
  <2>2. answer' = m2 + ((diff * i) % P) * Q
    BY <1>6
  <2> HIDE DEF P, Q, i
  <2>3. GarnerStep(P, Q, m1, m2, diff, i, k)
    BY <2>1 DEF GarnerStep
  <2>4. (m2 + ((diff * i) % P) * Q) % P = m1
    BY <2>3, GarnerCongruent
  <2>5. QED
    BY <2>2, <2>4
<1>8. h \in 0..(priv.p - 1)
  <2>1. diff * priv.qinv \in Int
    BY <1>0, <1>1
  <2>2. QED
    BY <2>1, <1>1, QuotientResidue
<1> HIDE DEF h
<1>9. answer' \in 0..(priv.n - 1) /\ answer' % Q = m2
  <2>1. /\ P \in Nat \ {0} /\ Q \in Nat \ {0} /\ priv.n = P * Q
        /\ m2 \in 0..(Q-1) /\ h \in 0..(P-1) /\ answer' = m2 + h * Q
    BY <1>1, <1>3, <1>5, <1>6, <1>8
  <2> HIDE DEF P, Q
  <2>2. m2 + h * Q \in 0..(P*Q - 1) /\ (m2 + h * Q) % Q = m2
    BY <2>1, GarnerBelow
  <2>3. QED
    BY <2>1, <2>2
<1>10. QED
  BY <1>2, <1>7, <1>9

LEMMA KeepsCombine == ASSUME IInv, Combine PROVE IInv'
<1> USE DEF IInv, Combine, candidates
<1>1. /\ op \in CrtOps /\ answer' \in 0..(priv.n - 1)
      /\ answer' % priv.p = Power(x, priv.dp, priv.p)
      /\ answer' % priv.q = Power(x, priv.dq, priv.q)
  BY CombineValue
<1>2. TypeOK'
  <2>1. answer' \in Nat /\ answer' < priv.n
    BY <1>1 DEF TypeOK
  <2>2. QED
    BY <2>1 DEF TypeOK
<1>3. PairInv' /\ CallInv' /\ NeverThrows'
  BY DEF PairInv, CallInv, NeverThrows
<1>4. KeyInv' /\ KeySound'
  BY KeyStays DEF HasKey
<1>5. CrtResidues'
  BY <1>1 DEF CrtResidues
<1>6. QED
  BY <1>2, <1>3, <1>4, <1>5

LEMMA KeepsReturn == ASSUME IInv, Return PROVE IInv'
<1> USE DEF IInv, Return, candidates, garner
<1>1. TypeOK'
  BY DEF TypeOK
<1>2. PairInv' /\ CallInv' /\ NeverThrows' /\ ~Answered'
  BY DEF PairInv, CallInv, NeverThrows, Answered
<1>3. KeyInv' /\ KeySound'
  BY KeyStays DEF HasKey
<1>4. QED
  BY <1>1, <1>2, <1>3 DEF CrtResidues

LEMMA KeepsStutter == ASSUME IInv, UNCHANGED vars PROVE IInv'
<1>1. TypeOK' /\ PairInv' /\ KeyInv' /\ KeySound'
  BY DEF vars, IInv, TypeOK, PairInv, KeyInv, KeySound, HasKey
<1>2. CallInv' /\ CrtResidues' /\ NeverThrows'
  BY DEF vars, IInv, NeverThrows, CallInv, CrtResidues, Answered, Lifted
<1>3. QED
  BY <1>1, <1>2 DEF IInv

LEMMA InductionStep == ASSUME IInv, [Next]_vars PROVE IInv'
<1>1. CASE GeneratePrimeP
  BY <1>1, KeepsDrawP DEF GeneratePrimeP
<1>2. CASE GeneratePrimeQ
  BY <1>2, KeepsDrawQ DEF GeneratePrimeQ
<1>3. CASE Compute
  BY <1>3, KeepsTooSmall, KeepsRetry, KeepsMakeKey, KeepsThrow, KeepsPublic,
     KeepsDecrypt, KeepsResidues, KeepsDifference, KeepsCombine DEF Compute
<1>4. CASE \E o \in Operations, v \in 0..(pub.n + MaxOver - 1) : Call(o, v)
  BY <1>4, KeepsCall
<1>5. CASE Return
  BY <1>5, KeepsReturn
<1>6. CASE UNCHANGED vars
  BY <1>6, KeepsStutter
<1>7. QED
  BY <1>1, <1>2, <1>3, <1>4, <1>5, <1>6 DEF Next

-----------------------------------------------------------------------------
(* The inductive invariant holds for every width, exponent and pair of     *)
(* primes rsa_generate may be asked for or draw.                           *)
THEOREM Inductive == Spec => []IInv
<1>1. Init => IInv
  BY InitInv
<1>2. IInv /\ [Next]_vars => IInv'
  BY InductionStep
<1>3. QED
  BY <1>1, <1>2, PTL DEF Spec

(* rsa.cpp:11-40: every number keeps its range; a call's result is below   *)
(* the modulus.                                                            *)
THEOREM TypeCorrect == Spec => []TypeOK
<1>1. IInv => TypeOK
  BY DEF IInv
<1>2. QED
  BY <1>1, Inductive, PTL

(* rsa.cpp:27-37: the parts of a key fit each other, whatever was drawn.   *)
THEOREM KeyCorrect == Spec => []KeySound
<1>1. IInv => KeySound
  BY DEF IInv
<1>2. QED
  BY <1>1, Inductive, PTL

(* rsa.cpp:52-62: decryption by CRT returns the one number below n with    *)
(* both residues.                                                          *)
THEOREM CrtCorrect == Spec => []CrtResidues
<1>1. IInv => CrtResidues
  BY DEF IInv
<1>2. QED
  BY <1>1, Inductive, PTL

(* rsa.cpp:59: the subtraction never goes below zero.                      *)
THEOREM SubtractionSafe == Spec => []NoUnderflow
<1>1. IInv => NoUnderflow
  BY Differs DEF NoUnderflow
<1>2. QED
  BY <1>1, Inductive, PTL

(* rsa.cpp:27-37: every pair that passes the three tests has its inverses, *)
(* and no subtraction underflows, so no exception leaves key generation or *)
(* decryption half done.                                                   *)
THEOREM NoException == Spec => []NeverThrows
<1>1. IInv => NeverThrows
  BY DEF IInv
<1>2. QED
  BY <1>1, Inductive, PTL

-----------------------------------------------------------------------------
(* Why decryption decrypts.  The parts of a key, as numbers.               *)
Key(P, Q, N, e, d, dp, dq) ==
  /\ OddPrime(P) /\ OddPrime(Q) /\ P # Q /\ N = P * Q
  /\ e \in Nat /\ d \in Nat /\ (e * d) % Phi(P, Q) = 1
  /\ dp = d % (P - 1) /\ dq = d % (Q - 1)
  /\ (e * dp) % (P - 1) = 1 /\ (e * dq) % (Q - 1) = 1

LEMMA KeyNumbers ==
  ASSUME NEW P, NEW Q, NEW N, NEW e, NEW d, NEW dp, NEW dq, Key(P, Q, N, e, d, dp, dq)
  PROVE  /\ P \in Nat \ {0} /\ Q \in Nat \ {0} /\ N \in Nat \ {0} /\ N = P * Q /\ N = Q * P
         /\ P > 2 /\ Q > 2 /\ IsPrime(P) /\ IsPrime(Q) /\ Bezout(P, Q)
         /\ e \in Nat /\ d \in Nat
<1>1. P \in Nat /\ Q \in Nat /\ P > 2 /\ Q > 2 /\ IsPrime(P) /\ IsPrime(Q) /\ P # Q /\ N = P * Q
  BY DEF Key, OddPrime
<1>2. P * Q \in Nat \ {0} /\ P * Q = Q * P
  BY <1>1
<1>3. Bezout(P, Q)
  BY <1>1, BezoutPrimes
<1>4. QED
  BY <1>1, <1>2, <1>3 DEF Key

(* e and d are inverse modulo m.                                           *)
Inverting(e, d, m) == (e * d) % m = 1

(* The reduced exponent gives the same power modulo its prime.             *)
LEMMA ReducedExponent ==
  ASSUME NEW v \in Nat, NEW P \in Nat, P > 2, IsPrime(P), NEW d \in Nat, NEW e \in Nat,
         Inverting(e, d % (P - 1), P - 1)
  PROVE  Power(v, d % (P - 1), P) = Power(v, d, P)
<1>1. PICK M \in Nat \ {0} : M = P - 1 /\ M > 1
  OBVIOUS
<1>2. PICK k \in Int, r \in 0..(M-1) : r = d % M /\ d = r + k * M
  <2>1. d \in Int
    OBVIOUS
  <2>2. QED
    BY <2>1, Division, Zenon
<1>3. k \in Nat
  <2>1. ASSUME k <= -1 PROVE FALSE
    <3>1. k * M <= -M
      BY <1>1, <2>1
    <3>2. QED
      BY <1>1, <1>2, <3>1
  <2>2. QED
    BY <2>1
<1>4. r # 0
  <2>1. ASSUME r = 0 PROVE FALSE
    <3>1. e * r = 0 /\ 0 % M = 0
      BY <1>1, <2>1
    <3>2. QED
      BY <1>1, <1>2, <3>1 DEF Inverting
  <2>2. QED
    BY <2>1
<1>5. r \in Nat
  BY <1>2
<1>6. PICK c \in Nat : c = k * M /\ WholeTurns(c, P)
  <2>1. k * M \in Nat /\ k * M = k * (P - 1)
    BY <1>1, <1>3
  <2>2. QED
    BY <1>3, <2>1, Zenon DEF WholeTurns
<1>7. Power(v, r + c, P) = Power(v, r, P)
  BY <1>3, <1>4, <1>5, <1>6, FermatExponent
<1>8. QED
  BY <1>1, <1>2, <1>6, <1>7

(* A number below n whose residues are the two small powers is the power.  *)
LEMMA GarnerIsPower ==
  ASSUME NEW P, NEW Q, NEW N, NEW e, NEW d, NEW dp, NEW dq, Key(P, Q, N, e, d, dp, dq),
         NEW v \in Nat, NEW a \in 0..(N-1),
         a % P = Power(v, dp, P), a % Q = Power(v, dq, Q)
  PROVE  a = Power(v, d, N)
<1>1. /\ P \in Nat \ {0} /\ Q \in Nat \ {0} /\ N \in Nat \ {0} /\ N = P * Q /\ N = Q * P
      /\ P > 2 /\ Q > 2 /\ IsPrime(P) /\ IsPrime(Q) /\ Bezout(P, Q)
      /\ e \in Nat /\ d \in Nat
  BY KeyNumbers
<1>2. PICK b \in 0..(N-1) : b = Power(v, d, N)
  BY <1>1, PowerRec
<1>3. b % P = Power(v, d, P)
  <2>1. Power(v, d, Q * P) % P = Power(v, d, P)
    <3>1. \A k \in Nat : Power(v, k, Q * P) % P = Power(v, k, P)
      BY <1>1, PowerDivisor, Zenon
    <3>2. QED
      BY <1>1, <3>1, Zenon
  <2>2. QED
    BY <1>1, <1>2, <2>1
<1>4. b % Q = Power(v, d, Q)
  <2>1. Power(v, d, P * Q) % Q = Power(v, d, Q)
    <3>1. \A k \in Nat : Power(v, k, P * Q) % Q = Power(v, k, Q)
      BY <1>1, PowerDivisor, Zenon
    <3>2. QED
      BY <1>1, <3>1, Zenon
  <2>2. QED
    BY <1>1, <1>2, <2>1
<1>5. Power(v, dp, P) = Power(v, d, P)
  <2>1. dp = d % (P - 1) /\ P \in Nat
    BY <1>1 DEF Key
  <2>2. Inverting(e, d % (P - 1), P - 1)
    BY <2>1 DEF Key, Inverting
  <2>3. Power(v, d % (P - 1), P) = Power(v, d, P)
    BY <1>1, <2>1, <2>2, ReducedExponent
  <2>4. QED
    BY <2>1, <2>3
<1>6. Power(v, dq, Q) = Power(v, d, Q)
  <2>1. dq = d % (Q - 1) /\ Q \in Nat
    BY <1>1 DEF Key
  <2>2. Inverting(e, d % (Q - 1), Q - 1)
    BY <2>1 DEF Key, Inverting
  <2>3. Power(v, d % (Q - 1), Q) = Power(v, d, Q)
    BY <1>1, <2>1, <2>2, ReducedExponent
  <2>4. QED
    BY <2>1, <2>3
<1>7. a \in 0..(P*Q - 1) /\ b \in 0..(P*Q - 1) /\ a % P = b % P /\ a % Q = b % Q
  BY <1>1, <1>3, <1>4, <1>5, <1>6
<1>8. a = b
  BY <1>1, <1>7, Chinese
<1>9. QED
  BY <1>2, <1>8

(* v^(e*d) = v modulo each prime: e*d is 1 modulo a multiple of P-1.       *)
LEMMA RootModulo ==
  ASSUME NEW v \in Nat, NEW P \in Nat, P > 2, IsPrime(P), NEW Q \in Nat, Q > 2,
         NEW e \in Nat, NEW d \in Nat, Inverting(e, d, Phi(P, Q)), NEW f, f = d * e
  PROVE  Power(v, f, P) = v % P
<1> DEFINE L == Q - 1
<1>1. PICK M \in Nat \ {0} : M = (P - 1) * L /\ M = Phi(P, Q)
  <2>1. (P - 1) * L \in Nat \ {0}
    OBVIOUS
  <2>2. Phi(P, Q) = (P - 1) * L
    BY DEF Phi
  <2>3. QED
    BY <2>1, <2>2, Zenon
<1>2. PICK z \in Nat : z = e * d
  <2>1. e * d \in Nat
    OBVIOUS
  <2>2. QED
    BY <2>1, Zenon
<1>3. PICK s \in Int, r \in 0..(M-1) : r = z % M /\ z = r + s * M
  <2>1. z \in Int
    OBVIOUS
  <2>2. QED
    BY <2>1, Division, Zenon
<1>4. r = 1
  BY <1>1, <1>2, <1>3 DEF Inverting
<1>5. s \in Nat
  <2>1. ASSUME s <= -1 PROVE FALSE
    <3>1. s * M <= -M
      BY <2>1
    <3>2. QED
      BY <1>3, <3>1
  <2>2. QED
    BY <2>1
<1>6. PICK c \in Nat : s * M = c /\ WholeTurns(c, P)
  <2>1. s * L \in Nat /\ s * M \in Nat
    BY <1>1, <1>5
  <2>2. s * M = (s * L) * (P - 1)
    <3>1. L \in Int
      OBVIOUS
    <3> HIDE DEF L
    <3>3. s * ((P - 1) * L) = (s * L) * (P - 1)
      BY <3>1
    <3>4. QED
      BY <1>1, <3>3
  <2>3. QED
    BY <2>1, <2>2, Zenon DEF WholeTurns
<1>7. z = 1 + c
  BY <1>3, <1>4, <1>6
<1>8. Power(v, 1 + c, P) = Power(v, 1, P)
  BY <1>6, FermatExponent
<1>9. Power(v, 1, P) = v % P
  BY PowerOne
<1>10. f = z
  BY <1>2
<1>11. QED
  BY <1>7, <1>8, <1>9, <1>10

(* The private exponent undoes the public one for every number below n,    *)
(* the multiples of a prime included.                                      *)
LEMMA RootOfPower ==
  ASSUME NEW P, NEW Q, NEW N, NEW e, NEW d, NEW dp, NEW dq, Key(P, Q, N, e, d, dp, dq),
         NEW v \in 0..(N-1)
  PROVE  Power(Power(v, d, N), e, N) = v
<1>1. /\ P \in Nat \ {0} /\ Q \in Nat \ {0} /\ N \in Nat \ {0} /\ N = P * Q /\ N = Q * P
      /\ P > 2 /\ Q > 2 /\ IsPrime(P) /\ IsPrime(Q) /\ Bezout(P, Q)
      /\ e \in Nat /\ d \in Nat
  BY KeyNumbers
<1>2. v \in Nat
  BY <1>1
<1>3. PICK f \in Nat : f = d * e
  <2>1. d * e \in Nat
    BY <1>1
  <2>2. QED
    BY <2>1, Zenon
<1>4. Power(Power(v, d, N), e, N) = Power(v, f, N)
  BY <1>1, <1>2, <1>3, PowerPower
<1>5. PICK y \in 0..(N-1) : y = Power(v, f, N)
  BY <1>1, <1>2, PowerRec
<1>6. y % P = v % P
  <2>1. y % P = Power(v, f, P)
    <3>1. Power(v, f, Q * P) % P = Power(v, f, P)
      <4>1. \A k \in Nat : Power(v, k, Q * P) % P = Power(v, k, P)
        BY <1>1, <1>2, PowerDivisor, Zenon
      <4>2. QED
        BY <1>1, <1>2, <1>3, <4>1, Zenon
    <3>2. QED
      BY <1>1, <1>5, <3>1
  <2>2. Inverting(e, d, Phi(P, Q)) /\ P \in Nat /\ Q \in Nat
    BY <1>1 DEF Key, Inverting
  <2>3. Power(v, f, P) = v % P
    BY <1>1, <1>2, <1>3, <2>2, RootModulo
  <2>4. QED
    BY <2>1, <2>3
<1>7. y % Q = v % Q
  <2>1. y % Q = Power(v, f, Q)
    <3>1. Power(v, f, P * Q) % Q = Power(v, f, Q)
      <4>1. \A k \in Nat : Power(v, k, P * Q) % Q = Power(v, k, Q)
        BY <1>1, <1>2, PowerDivisor, Zenon
      <4>2. QED
        BY <1>1, <1>2, <1>3, <4>1, Zenon
    <3>2. QED
      BY <1>1, <1>5, <3>1
  <2>2. Inverting(e, d, Phi(Q, P)) /\ P \in Nat /\ Q \in Nat
    <3>1. Phi(P, Q) = Phi(Q, P)
      BY <1>1 DEF Phi
    <3>2. QED
      BY <1>1, <3>1 DEF Key, Inverting
  <2>3. Power(v, f, Q) = v % Q
    BY <1>1, <1>2, <1>3, <2>2, RootModulo
  <2>4. QED
    BY <2>1, <2>3
<1>8. v \in 0..(P*Q - 1) /\ y \in 0..(P*Q - 1)
  BY <1>1
<1>9. y = v
  BY <1>1, <1>6, <1>7, <1>8, Chinese
<1>10. QED
  BY <1>4, <1>5, <1>9

(* A key of the program is such a key.                                     *)
LEMMA KeyIsKey ==
  ASSUME IInv, HasKey
  PROVE  Key(priv.p, priv.q, priv.n, pub.e, priv.d, priv.dp, priv.dq)
BY DEF IInv, KeyInv, KeySound, Key

(* rsa.hpp:52: for every key and every ciphertext below n, decryption by   *)
(* CRT and signing return what plain exponentiation would.                 *)
THEOREM CrtEqualsPlain == Spec => []CrtIsPlain
<1>1. ASSUME IInv PROVE CrtIsPlain
  <2> SUFFICES ASSUME Answered, op \in CrtOps PROVE answer = Power(x, priv.d, priv.n)
    BY DEF CrtIsPlain
  <2>1. HasKey /\ x \in Nat
    BY <1>1 DEF Answered, HasKey, IInv, TypeOK
  <2>2. /\ answer \in 0..(priv.n - 1)
        /\ answer % priv.p = Power(x, priv.dp, priv.p)
        /\ answer % priv.q = Power(x, priv.dq, priv.q)
    BY <1>1 DEF IInv, CrtResidues
  <2>3. Key(priv.p, priv.q, priv.n, pub.e, priv.d, priv.dp, priv.dq)
    BY <1>1, <2>1, KeyIsKey
  <2>4. QED
    BY <2>1, <2>2, <2>3, GarnerIsPower
<1>2. QED
  BY <1>1, Inductive, PTL

-----------------------------------------------------------------------------
(* Rsa implements Trapdoor: every step is one of Trapdoor's or invisible.  *)
LEMMA SameNumbers ==
  /\ \A b, e, m : D!Power(b, e, m) = Power(b, e, m)
  /\ D!Pow2 = Pow2
<1>1. ASSUME NEW b, NEW e, NEW m PROVE D!Power(b, e, m) = Power(b, e, m)
  BY Zenon DEF D!Power, Power
<1>2. D!Pow2 = Pow2
  BY Zenon DEF D!Pow2, Pow2
<1>3. QED
  BY <1>1, <1>2

LEMMA InitMaps == ASSUME Init PROVE D!Init
BY DEF Init, D!Init, Phase, NoPub, D!NoKey, D!NoOp

(* The number published has the width asked for.                           *)
LEMMA Published ==
  ASSUME IInv, pc = "inspect", Acceptable(p, q)
  PROVE  p * q \in D!Pow2[want.bits - 1]..(D!Pow2[want.bits] - 1)
<1>1. p * q \in Nat /\ want.bits \in Nat /\ want.bits >= MinBits /\ MinBits \in Nat /\ MinBits >= 6
  BY RsaAssumption DEF IInv, TypeOK, PairInv, OddPrime
<1>2. BitLength(p * q) = want.bits
  BY DEF Acceptable
<1>3. p * q < Pow2[want.bits] /\ p * q >= Pow2[want.bits - 1]
  <2>1. /\ p * q < Pow2[BitLength(p * q)]
        /\ BitLength(p * q) = 0 \/ p * q >= Pow2[BitLength(p * q) - 1]
    BY <1>1, BitLengthBound
  <2>2. QED
    BY <1>1, <1>2, <2>1
<1>4. Pow2[want.bits] \in Int /\ Pow2[want.bits - 1] \in Int
  <2>1. want.bits - 1 \in Nat
    BY <1>1
  <2>2. QED
    BY <1>1, <2>1, Pow2Def
<1>5. p * q \in Pow2[want.bits - 1]..(Pow2[want.bits] - 1)
  BY <1>1, <1>3, <1>4
<1>6. QED
  BY <1>5, SameNumbers

LEMMA MakeKeyMaps == ASSUME IInv, MakeKey PROVE D!Publish
<1>1. Inverses(want.e, Phi(p, q)) # {} /\ QInverse # {}
  BY HasInverses DEF MakeKey
<1>2. /\ pc = "inspect" /\ pc' = "ready" /\ pub' = [n |-> p * q, e |-> want.e]
      /\ UNCHANGED <<want, op, x, answer>>
  BY <1>1 DEF MakeKey
<1>3. Phase = "new" /\ Phase' = "ready"
  BY <1>2 DEF Phase
<1>4. want.bits >= MinBits
  BY <1>2 DEF IInv, PairInv
<1>5. p * q \in D!Pow2[want.bits - 1]..(D!Pow2[want.bits] - 1)
  BY Published DEF MakeKey
<1>6. QED
  BY <1>2, <1>3, <1>4, <1>5, Zenon DEF D!Publish

LEMMA GenerateMaps ==
  ASSUME IInv, TooSmall \/ Retry \/ GeneratePrimeP \/ GeneratePrimeQ
  PROVE  D!Refuse \/ UNCHANGED D!vars
<1>1. CASE TooSmall
  BY <1>1 DEF TooSmall, D!Refuse, Phase, candidates, garner
<1>2. CASE Retry \/ GeneratePrimeP \/ GeneratePrimeQ
  <2>1. /\ pc \in {"draw_p", "draw_q", "inspect"} /\ pc' \in {"draw_p", "draw_q", "inspect"}
        /\ UNCHANGED <<want, pub, op, x, answer>>
    BY <1>2 DEF Retry, GeneratePrimeP, GeneratePrimeQ, DrawP, DrawQ, candidates, garner
  <2>2. Phase = "new" /\ Phase' = "new"
    BY <2>1 DEF Phase
  <2>3. QED
    BY <2>1, <2>2 DEF D!vars
<1>3. QED
  BY <1>1, <1>2

LEMMA CallMaps ==
  ASSUME IInv, NEW o \in Operations, NEW v \in 0..(pub.n + MaxOver - 1), Call(o, v)
  PROVE  D!Call
<1>1. /\ pc = "ready" /\ pc' = "called" /\ op' = o /\ x' = v
      /\ UNCHANGED <<want, pub, answer>>
  BY DEF Call, candidates, garner
<1>2. v \in Nat
  OBVIOUS
<1>3. o \in D!PublicOps \cup D!PrivateOps
  BY DEF Operations, PublicOps, CrtOps, D!PublicOps, D!PrivateOps
<1>4. Phase = "ready" /\ Phase' = "called"
  BY <1>1 DEF Phase
<1>5. QED
  BY <1>1, <1>2, <1>3, <1>4 DEF D!Call

(* What the private exponent makes of an argument below n is its root.     *)
LEMMA PrivateRoot ==
  ASSUME IInv, HasKey, x < priv.n, NEW r, r = Power(x, priv.d, priv.n)
  PROVE  r \in 0..(pub.n - 1) /\ Power(r, pub.e, pub.n) = x
<1>1. Key(priv.p, priv.q, priv.n, pub.e, priv.d, priv.dp, priv.dq)
  BY KeyIsKey
<1>2. x \in Nat /\ priv.n \in Nat /\ pub.n = priv.n
  BY DEF IInv, TypeOK, KeySound
<1>3. x \in 0..(priv.n - 1)
  BY <1>2
<1>4. Power(Power(x, priv.d, priv.n), pub.e, priv.n) = x
  BY <1>1, <1>3, RootOfPower
<1>5. r \in 0..(priv.n - 1)
  BY KeyPowers DEF IInv
<1>6. QED
  BY <1>2, <1>4, <1>5

LEMMA ReplyMaps ==
  ASSUME IInv, Throw \/ Public \/ Decrypt \/ Combine
  PROVE  D!Reply
<1>1. /\ pc \in {"called", "combine"} /\ pc' = "answered"
      /\ UNCHANGED <<want, pub, priv, op, x>>
  BY DEF Throw, Public, Decrypt, Combine, candidates, garner
<1>2. HasKey /\ Phase = "called" /\ Phase' = "answered"
  BY <1>1 DEF HasKey, Phase
<1>3. pub.n = priv.n /\ x \in Nat /\ pub.n \in Nat
  BY <1>2 DEF IInv, KeySound, TypeOK
<1>4. CASE Throw
  <2>1. x >= pub.n /\ answer' = -1
    BY <1>3, <1>4 DEF Throw, Modulus
  <2>2. QED
    BY <1>1, <1>2, <2>1 DEF D!Reply
<1>5. CASE Public
  <2>1. /\ x < pub.n /\ op \in D!PublicOps
        /\ answer' = Power(x, pub.e, pub.n)
    BY <1>3, <1>5 DEF Public, Modulus, PublicOps, D!PublicOps
  <2>2. answer' \in 0..(pub.n - 1)
    <3>1. Power(x, pub.e, priv.n) \in 0..(priv.n - 1)
      BY <1>2, <1>3, <2>1, KeyPowers DEF IInv
    <3>2. QED
      BY <1>3, <2>1, <3>1
  <2>3. D!Inverts(answer')
    BY <2>1, <2>2, SameNumbers DEF D!Inverts
  <2>4. ~(x >= pub.n) /\ answer' \in Int
    BY <1>3, <2>1, <2>2
  <2>5. QED
    BY <1>1, <1>2, <2>3, <2>4 DEF D!Reply
<1>6. CASE Decrypt \/ Combine
  <2>1. x < priv.n /\ op \notin D!PublicOps /\ answer' = Power(x, priv.d, priv.n)
    <3>1. CASE Decrypt
      BY <1>3, <3>1 DEF Decrypt, Modulus, PublicOps, D!PublicOps
    <3>2. CASE Combine
      <4>1. op \in CrtOps /\ x < priv.n
        BY <3>2, CombineValue
      <4>2. PICK a : a = answer'
        OBVIOUS
      <4>3. /\ a \in 0..(priv.n - 1)
            /\ a % priv.p = Power(x, priv.dp, priv.p)
            /\ a % priv.q = Power(x, priv.dq, priv.q)
        BY <3>2, <4>2, CombineValue
      <4>4. Key(priv.p, priv.q, priv.n, pub.e, priv.d, priv.dp, priv.dq)
        BY <1>2, KeyIsKey
      <4>5. a = Power(x, priv.d, priv.n)
        BY <1>3, <4>3, <4>4, GarnerIsPower
      <4>6. op \notin D!PublicOps
        BY <4>1 DEF CrtOps, D!PublicOps
      <4>7. QED
        BY <4>1, <4>2, <4>5, <4>6
    <3>3. QED
      BY <1>6, <3>1, <3>2
  <2>2. answer' \in 0..(pub.n - 1) /\ Power(answer', pub.e, pub.n) = x
    BY <1>2, <2>1, PrivateRoot
  <2>3. D!Inverts(answer')
    BY <2>1, <2>2, SameNumbers DEF D!Inverts
  <2>4. ~(x >= pub.n) /\ answer' \in Int
    BY <1>3, <2>1, <2>2
  <2>5. QED
    BY <1>1, <1>2, <2>3, <2>4 DEF D!Reply
<1>7. QED
  BY <1>4, <1>5, <1>6

LEMMA ComputeMaps == ASSUME IInv, Compute PROVE [D!Next]_(D!vars)
<1>1. CASE TooSmall \/ Retry
  BY <1>1, GenerateMaps DEF D!Next
<1>2. CASE MakeKey
  BY <1>2, MakeKeyMaps DEF D!Next
<1>3. CASE Throw \/ Public \/ Decrypt \/ Combine
  BY <1>3, ReplyMaps DEF D!Next
<1>4. CASE Residues \/ Difference
  <2>1. /\ pc \in {"called", "garner"} /\ UNCHANGED <<want, pub, op, x, answer>>
        /\ pc' \in {"garner", "combine", "thrown"}
    BY <1>4 DEF Residues, Difference, candidates
  <2>2. pc' # "thrown"
    <3>1. CASE Residues
      BY <3>1 DEF Residues
    <3>2. CASE Difference
      <4>1. Lifted(m1, m2) \in Nat
        BY <3>2, Differs DEF Difference
      <4>2. QED
        BY <3>2, <4>1 DEF Difference
    <3>3. QED
      BY <1>4, <3>1, <3>2
  <2>3. Phase = "called" /\ Phase' = "called"
    BY <2>1, <2>2 DEF Phase
  <2>4. QED
    BY <2>1, <2>3 DEF D!vars
<1>5. QED
  BY <1>1, <1>2, <1>3, <1>4 DEF Compute

LEMMA StepMaps == ASSUME IInv, [Next]_vars PROVE [D!Next]_(D!vars)
<1>1. CASE GeneratePrimeP \/ GeneratePrimeQ
  BY <1>1, GenerateMaps DEF D!Next
<1>2. CASE Compute
  BY <1>2, ComputeMaps
<1>3. ASSUME NEW o \in Operations, NEW v \in 0..(pub.n + MaxOver - 1), Call(o, v)
      PROVE  [D!Next]_(D!vars)
  BY <1>3, CallMaps DEF D!Next
<1>4. CASE Return
  <2>1. D!Return
    BY <1>4 DEF Return, D!Return, D!NoOp, Phase, candidates, garner
  <2>2. QED
    BY <2>1 DEF D!Next
<1>5. CASE UNCHANGED vars
  BY <1>5 DEF vars, D!vars, Phase
<1>6. QED
  BY <1>1, <1>2, <1>3, <1>4, <1>5 DEF Next

(* rsa.hpp:46-61: a key of the width asked for, and calls that undo each   *)
(* other: encrypt and decrypt, sign and verify, for every key generation   *)
(* can hand out and every argument.                                        *)
THEOREM Refinement == Spec => TrapdoorSpec
<1>1. Init => D!Init
  BY InitMaps
<1>2. IInv /\ [Next]_vars => [D!Next]_(D!vars)
  BY StepMaps
<1>3. QED
  BY <1>1, <1>2, Inductive, PTL DEF Spec, TrapdoorSpec, D!Spec
=============================================================================
