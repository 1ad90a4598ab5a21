----------------------------- MODULE NumberLemmas ------------------------------
(***************************************************************************)
(* Facts about numbers for every argument: induction and primitive         *)
(* recursion over Nat in a form the provers can use, the recursion and the *)
(* range of a modular power, residues, powers of two, and the number       *)
(* theory behind primality and RSA: Bezout's identity and inverses, the    *)
(* Chinese remainder theorem, and Fermat's little theorem, proved by       *)
(* counting the orbits of multiplication.                                  *)
(* An induction hypothesis is a set of numbers instead of a predicate, and *)
(* a recursive definition is a curried step function step[n][v], the value *)
(* at n+1 computed from the value v at n.                                  *)
(* The second half is about limb arrays, for every base and limb count:    *)
(* the recursions of BPow and LimbSum, what writing one limb does to a     *)
(* sum, and the algebra of the loops of the product, one lemma per loop    *)
(* body: what a step does to the number that the rows stand for.  No state *)
(* is mentioned; the proofs apply these lemmas to the variables.           *)
(***************************************************************************)
EXTENDS LimbArith, Numbers, TLAPS, WellFoundedInduction, FiniteSetTheorems

-----------------------------------------------------------------------------
(* Induction and recursion.                                                *)

(* A set of naturals that holds 0 and every successor of its elements is   *)
(* Nat: the loops over limb indices are reasoned about with this.          *)
LEMMA SetInduction ==
  ASSUME NEW P, P \subseteq Nat, 0 \in P, \A n \in P : n + 1 \in P
  PROVE  P = Nat
<1>1. IsWellFoundedOn(OpToRel(<, Nat), Nat)
  BY NatLessThanWellFounded
<1>2. SUFFICES ASSUME Nat \ P # {} PROVE FALSE
  OBVIOUS
<1>3. PICK x \in Nat \ P : \A y \in Nat \ P : ~(<<y, x>> \in OpToRel(<, Nat))
  BY <1>1, <1>2, WFMin, Zenon
<1>4. \A y \in Nat \ P : ~(y < x)
  BY <1>3 DEF OpToRel
<1>5. QED
  BY <1>4

(* A nonempty set of naturals has a least element.                         *)
LEMMA LeastExists ==
  ASSUME NEW P, P \subseteq Nat, P # {}
  PROVE  \E x \in P : \A y \in P : x <= y
<1>1. IsWellFoundedOn(OpToRel(<, Nat), Nat)
  BY NatLessThanWellFounded
<1>2. PICK x \in P : \A y \in P : ~(<<y, x>> \in OpToRel(<, Nat))
  BY <1>1, WFMin, Zenon
<1>3. \A y \in P : ~(y < x)
  BY <1>2 DEF OpToRel
<1>4. \A y \in P : x <= y
  BY <1>3
<1>5. QED
  BY <1>4

(* The functions on 0..n that follow the recursion up to n.                *)
Approx(D, f0, step, n) ==
  {g \in [0..n -> D] : g[0] = f0 /\ \A k \in 0..(n-1) : g[k+1] = step[k][g[k]]}

LEMMA ApproxElim ==
  ASSUME NEW D, NEW f0, NEW step, NEW n \in Nat, NEW g \in Approx(D, f0, step, n)
  PROVE  /\ g \in [0..n -> D]
         /\ g[0] = f0
         /\ g[n] \in D
         /\ \A k \in 0..(n-1) : g[k+1] = step[k][g[k]]
<1>1. /\ g \in [0..n -> D]
      /\ g[0] = f0
      /\ \A k \in 0..(n-1) : g[k+1] = step[k][g[k]]
  BY DEF Approx
<1>2. n \in 0..n
  OBVIOUS
<1>3. QED
  BY <1>1, <1>2

(* f is the function on Nat that starts at f0 and follows step.            *)
Recursion(D, f0, step, f) ==
  f \in [Nat -> D] /\ f[0] = f0 /\ \A n \in Nat : f[n+1] = step[n][f[n]]

(* Every curried step function defines a function on Nat.                  *)
LEMMA PrimRec ==
  ASSUME NEW D, NEW f0 \in D, NEW step \in [Nat -> [D -> D]]
  PROVE  \E f : Recursion(D, f0, step, f)
<1> DEFINE A(n) == Approx(D, f0, step, n)
           E == {n \in Nat : A(n) # {}}
<1>1. E = Nat
  <2>1. 0 \in E
    <3>1. [k \in 0..0 |-> f0] \in A(0)
      BY DEF Approx
    <3>2. QED
      BY <3>1
  <2>2. \A n \in E : n+1 \in E
    <3> SUFFICES ASSUME NEW n \in Nat, A(n) # {} PROVE n+1 \in Nat /\ A(n+1) # {}
      OBVIOUS
    <3>1. PICK g : g \in A(n)
      OBVIOUS
    <3> DEFINE h == [k \in 0..(n+1) |-> IF k = n+1 THEN step[n][g[n]] ELSE g[k]]
    <3>2. h \in A(n+1)
      <4>1. /\ g \in [0..n -> D] /\ g[0] = f0 /\ g[n] \in D
            /\ \A k \in 0..(n-1) : g[k+1] = step[k][g[k]]
        BY <3>1, ApproxElim
      <4>2. h \in [0..(n+1) -> D]
        BY <4>1
      <4>3. h[0] = f0
        BY <4>1
      <4>4. ASSUME NEW k \in 0..((n+1)-1) PROVE h[k+1] = step[k][h[k]]
        <5>1. CASE k = n
          BY <5>1
        <5>2. CASE k # n
          <6>1. k \in 0..(n-1) /\ k+1 \in 0..n /\ k+1 # n+1 /\ k # n+1
            BY <5>2
          <6>2. QED
            BY <6>1, <4>1
        <5>3. QED
          BY <5>1, <5>2
      <4>5. QED
        BY <4>2, <4>3, <4>4 DEF Approx
    <3>3. QED
      BY <3>2
  <2>3. QED
    BY <2>1, <2>2, SetInduction
<1>2. ASSUME NEW n \in Nat, NEW g \in A(n), NEW h \in A(n+1)
      PROVE  g[n] = h[n]
  <2> DEFINE F == {k \in Nat : k <= n => g[k] = h[k]}
  <2>1. F = Nat
    <3>1. 0 \in F
      BY DEF Approx
    <3>2. \A k \in F : k+1 \in F
      <4> SUFFICES ASSUME NEW k \in F, k+1 <= n PROVE g[k+1] = h[k+1]
        OBVIOUS
      <4>1. k \in 0..(n-1) /\ k \in 0..((n+1)-1) /\ g[k] = h[k]
        OBVIOUS
      <4>2. QED
        BY <4>1 DEF Approx
    <3>3. QED
      BY <3>1, <3>2, SetInduction
  <2>2. QED
    BY <2>1
<1> DEFINE f == [n \in Nat |-> (CHOOSE g \in A(n) : TRUE)[n]]
<1>3. \A n \in Nat : (CHOOSE g \in A(n) : TRUE) \in A(n)
  BY <1>1
<1>4. f \in [Nat -> D]
  <2> SUFFICES ASSUME NEW n \in Nat PROVE (CHOOSE g \in A(n) : TRUE)[n] \in D
    OBVIOUS
  <2> DEFINE g == CHOOSE x \in A(n) : TRUE
  <2>1. g \in A(n)
    BY <1>3
  <2> HIDE DEF g
  <2>2. g[n] \in D
    BY <2>1, ApproxElim
  <2>3. QED
    BY <2>2 DEF g
<1>5. f[0] = f0
  BY <1>3 DEF Approx
<1>6. ASSUME NEW n \in Nat PROVE f[n+1] = step[n][f[n]]
  <2> DEFINE g == CHOOSE x \in A(n) : TRUE
             h == CHOOSE x \in A(n+1) : TRUE
  <2>1. g \in A(n) /\ h \in A(n+1)
    BY <1>3
  <2>2. g[n] = h[n]
    BY <2>1, <1>2
  <2>3. h[n+1] = step[n][h[n]]
    <3>1. n \in 0..((n+1)-1)
      OBVIOUS
    <3>2. \A k \in 0..((n+1)-1) : h[k+1] = step[k][h[k]]
      BY <2>1 DEF Approx
    <3> HIDE DEF h
    <3>3. QED
      BY <3>1, <3>2
  <2>4. QED
    BY <2>2, <2>3
<1> HIDE DEF f
<1>7. QED
  BY <1>4, <1>5, <1>6 DEF Recursion

-----------------------------------------------------------------------------
(* Modular powers and residues.                                            *)

(* A modular power is a residue, and the next one is one product away.     *)
LEMMA PowerRec ==
  ASSUME NEW b \in Nat, NEW m \in Nat \ {0}
  PROVE  /\ Power(b, 0, m) = 1 % m
         /\ \A k \in Nat : Power(b, k+1, m) = (Power(b, k, m) * b) % m
         /\ \A k \in Nat : Power(b, k, m) \in 0..(m-1)
<1> DEFINE D == 0..(m-1)
           step == [k \in Nat |-> [v \in D |-> (v * b) % m]]
           power == CHOOSE s : s = [k \in Nat |-> IF k = 0 THEN 1 % m ELSE (s[k-1] * b) % m]
<1>0. 1 % m \in D /\ \A v \in D : (v * b) % m \in D
  OBVIOUS
<1>1. PICK f : Recursion(D, 1 % m, step, f)
  <2>1. step \in [Nat -> [D -> D]]
    BY <1>0
  <2> HIDE DEF step, D
  <2>2. QED
    BY <1>0, <2>1, PrimRec
<1>2. /\ f \in [Nat -> D] /\ f[0] = 1 % m
      /\ \A k \in Nat : f[k+1] = (f[k] * b) % m
  <2>1. f \in [Nat -> D] /\ f[0] = 1 % m /\ \A k \in Nat : f[k+1] = step[k][f[k]]
    BY <1>1 DEF Recursion
  <2> HIDE DEF D
  <2>2. QED
    BY <2>1
<1>3. f = [k \in Nat |-> IF k = 0 THEN 1 % m ELSE (f[k-1] * b) % m]
  <2>1. ASSUME NEW k \in Nat PROVE f[k] = IF k = 0 THEN 1 % m ELSE (f[k-1] * b) % m
    <3>1. CASE k = 0
      BY <1>2, <3>1
    <3>2. CASE k # 0
      <4>1. k-1 \in Nat /\ k = (k-1)+1
        BY <3>2
      <4>2. f[(k-1)+1] = (f[k-1] * b) % m
        BY <1>2, <4>1
      <4>3. QED
        BY <4>1, <4>2, <3>2
    <3>3. QED
      BY <3>1, <3>2
  <2>2. QED
    BY <2>1, <1>2
<1>4. power = [k \in Nat |-> IF k = 0 THEN 1 % m ELSE (power[k-1] * b) % m]
  BY <1>3, Zenon
<1>5. \A k \in Nat : Power(b, k, m) = power[k]
  BY Zenon DEF Power
<1> HIDE DEF power
<1>6. \A k \in Nat : power[k] = IF k = 0 THEN 1 % m ELSE (power[k-1] * b) % m
  BY <1>4, Zenon
<1>7. power[0] = 1 % m /\ \A k \in Nat : power[k+1] = (power[k] * b) % m
  BY <1>6
<1>8. \A k \in Nat : power[k] \in D
  <2> DEFINE P == {k \in Nat : power[k] \in D}
  <2>1. 0 \in P
    BY <1>7, <1>0
  <2>2. \A k \in P : k+1 \in P
    BY <1>7, <1>0
  <2>3. P = Nat
    <3> HIDE DEF P
    <3>1. P \subseteq Nat
      BY DEF P
    <3>2. QED
      BY <2>1, <2>2, <3>1, SetInduction
  <2>4. QED
    BY <2>3
<1>9. QED
  BY <1>5, <1>7, <1>8

-----------------------------------------------------------------------------
(* v is the residue of v + k*m.                                            *)
LEMMA Residue ==
  ASSUME NEW m \in Nat \ {0}, NEW v \in 0..(m-1), NEW k \in Int
  PROVE  (v + k * m) % m = v
OBVIOUS

(* Every number is a multiple of m plus its residue.                       *)
LEMMA QuotientResidue ==
  ASSUME NEW m \in Nat \ {0}, NEW a \in Int
  PROVE  /\ a % m \in 0..(m-1) /\ a \div m \in Int
         /\ a = (a % m) + (a \div m) * m
OBVIOUS

(* The same, with names for quotient and residue.                          *)
LEMMA Division ==
  ASSUME NEW m \in Nat \ {0}, NEW a \in Int
  PROVE  \E q \in Int, r \in 0..(m-1) : q = a \div m /\ r = a % m /\ a = r + q * m
<1>1. a \div m \in Int /\ a % m \in 0..(m-1)
  BY QuotientResidue
<1>2. a = (a % m) + (a \div m) * m
  BY QuotientResidue
<1>3. QED
  BY <1>1, <1>2, Zenon

(* A number and its lowest bit.                                            *)
LEMMA Halves ==
  ASSUME NEW a \in Int
  PROVE  \E d \in Int, r \in {0, 1} : r = a % 2 /\ a = 2 * d + r
<1>1. PICK d \in Int, r \in {0, 1} : d = a \div 2 /\ r = a % 2
  OBVIOUS
<1>2. a = 2 * d + r
  BY <1>1
<1>3. QED
  BY <1>1, <1>2

(* Products keep the order of their factors.                               *)
LEMMA TimesMono ==
  ASSUME NEW a \in Nat, NEW b \in Nat, NEW c \in Nat, a <= b
  PROVE  a * c \in Nat /\ b * c \in Nat /\ a * c <= b * c
<1>1. PICK d \in Nat : b = a + d
  <2>1. b - a \in Nat /\ b = a + (b - a)
    OBVIOUS
  <2>2. QED
    BY <2>1
<1>2. PICK x \in Nat, y \in Nat : x = a * c /\ y = d * c
  OBVIOUS
<1>3. b * c = x + y
  BY <1>1, <1>2
<1>4. QED
  BY <1>2, <1>3

-----------------------------------------------------------------------------
(* Coprime numbers.                                                        *)

(* A Bezout relation between u and w.                                      *)
Bezout(u, w) == \E g \in Int, h \in Int : u * g + w * h = 1

(* It goes over to products: u and u2 coprime to w, hence u*u2.            *)
LEMMA BezoutProduct ==
  ASSUME NEW u \in Int, NEW u2 \in Int, NEW w \in Int, Bezout(u, w), Bezout(u2, w)
  PROVE  Bezout(u * u2, w)
<1>1. PICK g \in Int, h \in Int : u * g + w * h = 1
  BY DEF Bezout
<1>2. PICK g2 \in Int, h2 \in Int : u2 * g2 + w * h2 = 1
  BY DEF Bezout
<1> DEFINE left == u * g
           left2 == u2 * g2
           rest == left * h2 + h
<1>3. left * left2 = (u * u2) * (g * g2)
  OBVIOUS
<1>4. left * (left2 + w * h2) + w * h = 1
  BY <1>1, <1>2
<1>5. left * (left2 + w * h2) = left * left2 + w * (left * h2)
  OBVIOUS
<1>6. w * rest = w * (left * h2) + w * h
  OBVIOUS
<1>7. g * g2 \in Int /\ rest \in Int
  OBVIOUS
<1>8. (u * u2) * (g * g2) + w * rest = 1
  BY <1>3, <1>4, <1>5, <1>6, <1>7
<1> HIDE DEF rest
<1>9. QED
  BY <1>7, <1>8 DEF Bezout

(* A multiple of w that u makes of a smaller number is 0.                  *)
LEMMA Cancel ==
  ASSUME NEW u \in Int, NEW w \in Int, Bezout(u, w),
         NEW d \in Int, d < w, -w < d, NEW t \in Int, d * u = t * w
  PROVE  d = 0
<1>1. PICK g \in Int, h \in Int : u * g + w * h = 1
  BY DEF Bezout
<1>3. d = d * (u * g + w * h)
  BY <1>1
<1>4. d * (u * g + w * h) = (d * u) * g + w * (d * h)
  OBVIOUS
<1>5. (d * u) * g = w * (t * g)
  OBVIOUS
<1>6. PICK z \in Int : z = t * g + d * h
  OBVIOUS
<1>7. w * z = w * (t * g) + w * (d * h)
  BY <1>6
<1>8. d = w * z
  BY <1>3, <1>4, <1>5, <1>7
<1>9. z = 0
  <2>1. ASSUME z >= 1 PROVE FALSE
    <3>1. w * z >= w
      BY <2>1
    <3>2. QED
      BY <3>1, <1>8
  <2>2. ASSUME z <= -1 PROVE FALSE
    <3>1. w * z <= -w
      BY <2>2
    <3>2. QED
      BY <3>1, <1>8
  <2>3. QED
    BY <2>1, <2>2
<1>10. QED
  BY <1>8, <1>9

(* x % w = 0 names a multiple, and the other way round.                    *)
LEMMA Multiple ==
  ASSUME NEW w \in Nat \ {0}, NEW x \in Int
  PROVE  x % w = 0 <=> \E t \in Int : x = t * w
<1>1. ASSUME x % w = 0 PROVE \E t \in Int : x = t * w
  <2>1. PICK t \in Int : t = x \div w
    OBVIOUS
  <2>2. x = t * w + (x % w)
    BY <2>1
  <2>3. x = t * w
    BY <2>2, <1>1
  <2>4. WITNESS t \in Int
  <2>5. QED
    BY <2>3
<1>2. ASSUME NEW t \in Int, x = t * w PROVE x % w = 0
  BY <1>2
<1>3. QED
  BY <1>1, <1>2

(* y = (p + t*w) / r is the residue that r turns back into p.              *)
LEMMA TheResidue ==
  ASSUME NEW w \in Nat \ {0}, NEW r \in Int, Bezout(r, w), NEW p \in Int,
         NEW y \in 0..(w-1), NEW t \in Int, y * r = p + t * w
  PROVE  (CHOOSE z \in 0..(w-1) : (z * r - p) % w = 0) = y
<1>1. (y * r - p) % w = 0
  <2>1. PICK e \in Int : e = y * r - p
    OBVIOUS
  <2>2. e = t * w
    BY <2>1
  <2>3. QED
    BY <2>1, <2>2, Multiple
<1>2. ASSUME NEW z \in 0..(w-1), (z * r - p) % w = 0
      PROVE  z = y
  <2>1. PICK e \in Int : e = z * r - p
    OBVIOUS
  <2>2. PICK t2 \in Int : e = t2 * w
    BY <1>2, <2>1, Multiple
  <2>3. PICK d \in Int, k \in Int : d = z - y /\ k = t2 - t
    OBVIOUS
  <2>4. d * r = k * w
    BY <2>1, <2>2, <2>3
  <2>5. d < w /\ -w < d /\ w \in Int /\ r \in Int
    BY <2>3
  <2>6. d = 0
    BY <2>4, <2>5, Cancel
  <2>7. QED
    BY <2>3, <2>6
<1>3. QED
  BY <1>1, <1>2

-----------------------------------------------------------------------------
(* Powers of two and the binary digits of a number.                        *)

LEMMA Pow2Def ==
  /\ Pow2[0] = 1
  /\ \A k \in Nat : Pow2[k+1] = 2 * Pow2[k]
  /\ \A k \in Nat : Pow2[k] \in Nat \ {0}
<1> DEFINE step == [k \in Nat |-> [v \in Nat |-> 2 * v]]
<1>1. PICK f : Recursion(Nat, 1, step, f)
  <2>1. step \in [Nat -> [Nat -> Nat]] /\ 1 \in Nat
    OBVIOUS
  <2> HIDE DEF step
  <2>2. QED
    BY <2>1, PrimRec
<1>2. f \in [Nat -> Nat] /\ f[0] = 1 /\ \A k \in Nat : f[k+1] = 2 * f[k]
  <2>1. f \in [Nat -> Nat] /\ f[0] = 1 /\ \A k \in Nat : f[k+1] = step[k][f[k]]
    BY <1>1 DEF Recursion
  <2>2. QED
    BY <2>1
<1>3. f = [k \in Nat |-> IF k = 0 THEN 1 ELSE 2 * f[k-1]]
  <2>1. ASSUME NEW k \in Nat PROVE f[k] = IF k = 0 THEN 1 ELSE 2 * f[k-1]
    <3>1. CASE k = 0
      BY <1>2, <3>1
    <3>2. CASE k # 0
      <4>1. k-1 \in Nat /\ k = (k-1)+1
        BY <3>2
      <4>2. QED
        BY <1>2, <4>1, <3>2
    <3>3. QED
      BY <3>1, <3>2
  <2>2. QED
    BY <2>1, <1>2
<1>4. Pow2 = [k \in Nat |-> IF k = 0 THEN 1 ELSE 2 * Pow2[k-1]]
  BY <1>3, Zenon DEF Pow2
<1>5. \A k \in Nat : Pow2[k] = IF k = 0 THEN 1 ELSE 2 * Pow2[k-1]
  BY <1>4, Zenon
<1>6. Pow2[0] = 1 /\ \A k \in Nat : Pow2[k+1] = 2 * Pow2[k]
  BY <1>5
<1>7. \A k \in Nat : Pow2[k] \in Nat \ {0}
  <2> DEFINE P == {k \in Nat : Pow2[k] \in Nat \ {0}}
  <2>1. 0 \in P /\ \A k \in P : k+1 \in P
    BY <1>6
  <2>2. P = Nat
    BY <2>1, SetInduction
  <2>3. QED
    BY <2>2
<1>8. QED
  BY <1>6, <1>7

(* A number is below the power of two it is the exponent of.               *)
LEMMA Pow2Above ==
  ASSUME NEW v \in Nat
  PROVE  v < Pow2[v]
<1> DEFINE P == {k \in Nat : k < Pow2[k]}
<1>1. 0 \in P /\ \A k \in P : k+1 \in P
  BY Pow2Def
<1>2. P = Nat
  <2> HIDE DEF P
  <2>1. P \subseteq Nat
    BY DEF P
  <2>2. QED
    BY <1>1, <2>1, SetInduction
<1>3. QED
  BY <1>2

(* A number has no more binary digits than bit_length says.                *)
LEMMA BitLengthBound ==
  ASSUME NEW v \in Nat
  PROVE  /\ BitLength(v) \in Nat /\ v < Pow2[BitLength(v)]
         /\ BitLength(v) = 0 \/ v >= Pow2[BitLength(v) - 1]
<1> DEFINE Enough == {k \in Nat : v < Pow2[k]}
<1>1. v \in Enough
  BY Pow2Above
<1>2. PICK k \in Enough : \A l \in Enough : ~(l < k)
  <2>1. IsWellFoundedOn(OpToRel(<, Nat), Nat)
    BY NatLessThanWellFounded
  <2>2. PICK k \in Enough : \A l \in Enough : ~(<<l, k>> \in OpToRel(<, Nat))
    BY <1>1, <2>1, WFMin, Zenon
  <2>3. QED
    BY <2>2 DEF OpToRel
<1>3. k \in 0..v /\ v < Pow2[k]
  BY <1>1, <1>2
<1>4. k = 0 \/ v >= Pow2[k-1]
  <2>1. CASE k # 0
    <3>1. k-1 \in Nat /\ k-1 < k
      BY <1>3, <2>1
    <3>2. k-1 \notin Enough
      BY <1>2, <3>1
    <3>3. Pow2[k-1] \in Nat
      BY <3>1, Pow2Def
    <3>4. QED
      BY <3>1, <3>2, <3>3
  <2>2. QED
    BY <2>1
<1>5. \E l \in 0..v : v < Pow2[l] /\ (l = 0 \/ v >= Pow2[l-1])
  BY <1>3, <1>4
<1>6. /\ BitLength(v) \in 0..v /\ v < Pow2[BitLength(v)]
      /\ BitLength(v) = 0 \/ v >= Pow2[BitLength(v) - 1]
  BY <1>5 DEF BitLength
<1>7. QED
  BY <1>6

(* One binary digit more or less to the right.                             *)
LEMMA HalfOfQuotient ==
  ASSUME NEW e \in Nat, NEW k \in Nat
  PROVE  LET low == e \div Pow2[k]
             high == e \div Pow2[k+1]
         IN  /\ low \in Nat /\ high \in Nat
             /\ high = low \div 2
             /\ low = 2 * high + (low % 2) /\ low % 2 \in {0, 1}
<1>1. PICK p \in Nat \ {0} : p = Pow2[k] /\ Pow2[k+1] = 2 * p
  BY Pow2Def
<1>2. PICK a \in Int, r \in Int : a = e \div p /\ r = e % p
  OBVIOUS
<1>3. e = p * a + r /\ 0 <= r /\ r < p
  BY <1>2
<1>4. a >= 0
  <2>1. ASSUME a <= -1 PROVE FALSE
    <3>1. p * a <= -p
      BY <2>1
    <3>2. QED
      BY <1>3, <3>1
  <2>2. QED
    BY <2>1
<1>5. PICK b \in Int, s \in Int : b = a \div 2 /\ s = a % 2
  OBVIOUS
<1>6. a = 2 * b + s /\ s \in {0, 1} /\ b >= 0
  BY <1>4, <1>5
<1>7. PICK g \in Int : g = p * s + r
  BY <1>3
<1>8. 0 <= g /\ g < 2 * p
  BY <1>3, <1>6, <1>7
<1>9. e = (2 * p) * b + g
  BY <1>3, <1>6, <1>7
<1>10. PICK w \in Nat \ {0} : w = 2 * p
  OBVIOUS
<1>11. e = w * b + g /\ 0 <= g /\ g < w
  BY <1>8, <1>9, <1>10
<1>12. e \div w = b
  BY <1>11
<1>13. e \div Pow2[k+1] = b
  BY <1>1, <1>10, <1>12
<1>14. QED
  BY <1>1, <1>2, <1>4, <1>5, <1>6, <1>13

(* Nothing is left of v beyond its highest digit.                          *)
LEMMA NothingLeft ==
  ASSUME NEW v \in Nat, NEW k \in Nat, v < Pow2[k]
  PROVE  v \div Pow2[k] = 0
<1>1. PICK p \in Nat \ {0} : p = Pow2[k]
  BY Pow2Def
<1>2. v = p * 0 + v /\ 0 <= v /\ v < p
  BY <1>1
<1>3. v \div p = 0
  BY <1>2
<1>4. QED
  BY <1>1, <1>3

(* Powers of two grow.                                                     *)
LEMMA Pow2Grows ==
  ASSUME NEW a \in Nat, NEW b \in Nat, a <= b
  PROVE  Pow2[a] <= Pow2[b]
<1> DEFINE P == {k \in Nat : Pow2[a] <= Pow2[a + k]}
<1>1. 0 \in P
  BY Pow2Def
<1>2. \A k \in P : k + 1 \in P
  <2> SUFFICES ASSUME NEW k \in Nat, Pow2[a] <= Pow2[a + k] PROVE Pow2[a] <= Pow2[a + (k + 1)]
    OBVIOUS
  <2>1. Pow2[(a + k) + 1] = 2 * Pow2[a + k] /\ Pow2[a + k] \in Nat /\ Pow2[a] \in Nat
    BY Pow2Def
  <2>2. QED
    BY <2>1
<1>3. P = Nat
  <2> HIDE DEF P
  <2>1. P \subseteq Nat
    BY DEF P
  <2>2. QED
    BY <1>1, <1>2, <2>1, SetInduction
<1>4. PICK k \in Nat : a + k = b
  <2>1. b - a \in Nat /\ a + (b - a) = b
    OBVIOUS
  <2>2. QED
    BY <2>1, Zenon
<1>5. k \in P
  BY <1>3
<1>6. QED
  BY <1>4, <1>5

(* Powers of two multiply.                                                 *)
LEMMA Pow2Sum ==
  ASSUME NEW a \in Nat, NEW b \in Nat
  PROVE  Pow2[a + b] = Pow2[a] * Pow2[b]
<1> DEFINE P == {k \in Nat : Pow2[a + k] = Pow2[a] * Pow2[k]}
<1>1. 0 \in P
  BY Pow2Def
<1>2. \A k \in P : k + 1 \in P
  <2> SUFFICES ASSUME NEW k \in Nat, Pow2[a + k] = Pow2[a] * Pow2[k]
               PROVE  Pow2[a + (k + 1)] = Pow2[a] * Pow2[k + 1]
    OBVIOUS
  <2>1. PICK x \in Nat, y \in Nat : x = Pow2[a] /\ y = Pow2[k]
    BY Pow2Def
  <2>2. Pow2[(a + k) + 1] = 2 * Pow2[a + k] /\ Pow2[k + 1] = 2 * y
    BY <2>1, Pow2Def
  <2>3. x * (2 * y) = 2 * (x * y)
    OBVIOUS
  <2>4. a + (k + 1) = (a + k) + 1
    OBVIOUS
  <2>5. QED
    BY <2>1, <2>2, <2>3, <2>4
<1>3. P = Nat
  <2> HIDE DEF P
  <2>1. P \subseteq Nat
    BY DEF P
  <2>2. QED
    BY <1>1, <1>2, <2>1, SetInduction
<1>4. QED
  BY <1>3

(* An odd number is coprime to the powers of two.                          *)
LEMMA OddCoprime ==
  ASSUME NEW w \in Nat, w % 2 = 1
  PROVE  \A k \in Nat : Bezout(Pow2[k], w)
<1> DEFINE Good == {k \in Nat : Bezout(Pow2[k], w)}
<1>1. 0 \in Good
  <2>1. 1 * 1 + w * 0 = 1 /\ 1 \in Int /\ 0 \in Int
    OBVIOUS
  <2>2. Bezout(1, w)
    BY <2>1, Zenon DEF Bezout
  <2>3. QED
    BY <2>2, Pow2Def
<1>2. Bezout(2, w)
  <2>1. PICK c \in Int : c = w \div 2
    OBVIOUS
  <2>2. w = 2 * c + 1
    BY <2>1
  <2>3. 2 * (-c) + w * 1 = 1 /\ -c \in Int /\ 1 \in Int
    BY <2>2
  <2>4. QED
    BY <2>3, Zenon DEF Bezout
<1>3. \A k \in Good : k + 1 \in Good
  <2> SUFFICES ASSUME NEW k \in Nat, Bezout(Pow2[k], w) PROVE Bezout(Pow2[k+1], w)
    OBVIOUS
  <2>1. Pow2[k+1] = 2 * Pow2[k] /\ Pow2[k] \in Int /\ 2 \in Int /\ w \in Int
    BY Pow2Def
  <2>2. Bezout(2 * Pow2[k], w)
    BY <1>2, <2>1, BezoutProduct, Zenon
  <2>3. QED
    BY <2>1, <2>2
<1>4. Good = Nat
  <2> HIDE DEF Good
  <2>1. Good \subseteq Nat
    BY DEF Good
  <2>2. QED
    BY <1>1, <1>3, <2>1, SetInduction
<1>5. QED
  BY <1>4

-----------------------------------------------------------------------------
(* Congruences, and the powers as a homomorphism.                          *)

Congruent(a, b, m) == \E t \in Int : a = b + t * m

(* A number is congruent to its residue.                                   *)
LEMMA CongruentMod ==
  ASSUME NEW m \in Nat \ {0}, NEW a \in Int
  PROVE  Congruent(a % m, a, m) /\ Congruent(a, a % m, m)
<1>1. PICK t \in Int : t = a \div m
  OBVIOUS
<1>2. a % m \in Int /\ a = (a % m) + t * m
  BY <1>1
<1>3. -t \in Int /\ a % m = a + (-t) * m
  BY <1>2
<1>4. QED
  BY <1>2, <1>3 DEF Congruent

LEMMA CongruentRefl ==
  ASSUME NEW m \in Int, NEW a \in Int
  PROVE  Congruent(a, a, m)
<1>1. a = a + 0 * m /\ 0 \in Int
  OBVIOUS
<1>2. QED
  BY <1>1, Zenon DEF Congruent

LEMMA CongruentSym ==
  ASSUME NEW m \in Int, NEW a \in Int, NEW b \in Int, Congruent(a, b, m)
  PROVE  Congruent(b, a, m)
<1>1. PICK t \in Int : a = b + t * m
  BY DEF Congruent
<1>2. -t \in Int /\ b = a + (-t) * m
  BY <1>1
<1>3. QED
  BY <1>2, Zenon DEF Congruent

LEMMA CongruentTrans ==
  ASSUME NEW m \in Int, NEW a \in Int, NEW b \in Int, NEW c \in Int,
         Congruent(a, b, m), Congruent(b, c, m)
  PROVE  Congruent(a, c, m)
<1>1. PICK t \in Int, s \in Int : a = b + t * m /\ b = c + s * m
  BY DEF Congruent
<1>2. t + s \in Int /\ a = c + (t + s) * m
  BY <1>1
<1>3. QED
  BY <1>2, Zenon DEF Congruent

LEMMA CongruentTimes ==
  ASSUME NEW m \in Int, NEW a \in Int, NEW b \in Int, NEW c \in Int, NEW d \in Int,
         Congruent(a, b, m), Congruent(c, d, m)
  PROVE  Congruent(a * c, b * d, m)
<1>1. PICK t \in Int, s \in Int : a = b + t * m /\ c = d + s * m
  BY DEF Congruent
<1>2. PICK z \in Int : z = b * s + t * d + t * (s * m)
  OBVIOUS
<1>3. a * c = (b + t * m) * (d + s * m)
  BY <1>1
<1>4. (b + t * m) * (d + s * m) = b * d + (b * s + t * d + t * (s * m)) * m
  OBVIOUS
<1>5. a * c = b * d + z * m
  BY <1>2, <1>3, <1>4
<1>6. QED
  BY <1>5, Zenon DEF Congruent

(* Congruence under a common factor.                                       *)
LEMMA CongruentScale ==
  ASSUME NEW m \in Int, NEW a \in Int, NEW b \in Int, NEW c \in Int, Congruent(a, b, m)
  PROVE  Congruent(a * c, b * c, m) /\ Congruent(c * a, c * b, m)
<1>1. Congruent(c, c, m)
  BY CongruentRefl
<1>2. QED
  BY <1>1, CongruentTimes, Zenon

(* What is congruent modulo a multiple of m is congruent modulo m.         *)
LEMMA CongruentDivisor ==
  ASSUME NEW m \in Int, NEW d \in Int, NEW a \in Int, NEW b \in Int,
         Congruent(a, b, d * m)
  PROVE  Congruent(a, b, m)
<1>1. PICK t \in Int : a = b + t * (d * m)
  BY DEF Congruent
<1>2. PICK z \in Int : z = t * d
  OBVIOUS
<1>3. t * (d * m) = z * m
  BY <1>2
<1>4. a = b + z * m
  BY <1>1, <1>3
<1>5. QED
  BY <1>4 DEF Congruent

(* Congruent residues are equal.                                           *)
LEMMA CongruentResidues ==
  ASSUME NEW m \in Nat \ {0}, NEW a \in 0..(m-1), NEW b \in 0..(m-1), Congruent(a, b, m)
  PROVE  a = b
<1>1. PICK t \in Int : a = b + t * m
  BY DEF Congruent
<1>2. a % m = b
  BY <1>1, Residue
<1>3. a % m = a
  OBVIOUS
<1>4. QED
  BY <1>2, <1>3

(* Two numbers are congruent when their residues are equal.                *)
LEMMA CongruentEqual ==
  ASSUME NEW m \in Nat \ {0}, NEW a \in Int, NEW b \in Int, Congruent(a, b, m)
  PROVE  a % m = b % m
<1>1. a % m \in 0..(m-1) /\ b % m \in 0..(m-1)
  OBVIOUS
<1>2. PICK c \in 0..(m-1), d \in 0..(m-1) : c = a % m /\ d = b % m
  BY <1>1
<1>3. Congruent(c, a, m) /\ Congruent(b, d, m)
  BY <1>2, CongruentMod
<1>4. m \in Int /\ c \in Int /\ d \in Int
  OBVIOUS
<1>5. Congruent(c, b, m)
  BY <1>3, <1>4, CongruentTrans, Zenon
<1>6. Congruent(c, d, m)
  BY <1>3, <1>4, <1>5, CongruentTrans, Zenon
<1>7. QED
  BY <1>2, <1>6, CongruentResidues

(* b^1 is b, b^(j+k) is b^j * b^k, modulo m.                               *)
LEMMA PowerOne ==
  ASSUME NEW b \in Nat, NEW m \in Nat \ {0}
  PROVE  Power(b, 1, m) = b % m
<1>1. PICK o \in Int : o = 1 % m
  OBVIOUS
<1>2. Power(b, 1, m) = (o * b) % m
  <2>1. \A k \in Nat : Power(b, k+1, m) = (Power(b, k, m) * b) % m
    BY PowerRec
  <2>2. Power(b, 0, m) = o
    BY <1>1, PowerRec
  <2>3. 0 \in Nat /\ 0 + 1 = 1
    OBVIOUS
  <2>4. QED
    BY <2>1, <2>2, <2>3
<1>3. Congruent(o, 1, m)
  BY <1>1, CongruentMod
<1>4. Congruent(o * b, 1 * b, m)
  <2>1. m \in Int /\ b \in Int /\ 1 \in Int
    OBVIOUS
  <2>2. QED
    BY <1>3, <2>1, CongruentScale, Zenon
<1>5. o * b \in Int /\ 1 * b = b /\ b \in Int
  OBVIOUS
<1>6. (o * b) % m = b % m
  BY <1>4, <1>5, CongruentEqual, Zenon
<1>7. QED
  BY <1>2, <1>6

LEMMA PowerAdd ==
  ASSUME NEW b \in Nat, NEW m \in Nat \ {0}, NEW j \in Nat
  PROVE  \A k \in Nat : Congruent(Power(b, j, m) * Power(b, k, m), Power(b, j + k, m), m)
<1> DEFINE p(k) == Power(b, k, m)
           P == {k \in Nat : Congruent(p(j) * p(k), p(j + k), m)}
<1>1. \A k \in Nat : p(k) \in Int /\ p(k+1) = (p(k) * b) % m
  BY PowerRec
<1>2. p(0) = 1 % m
  BY PowerRec
<1> HIDE DEF p
<1>3. 0 \in P
  <2>1. PICK u \in Int, o \in Int : u = p(j) /\ o = p(0)
    <3>1. p(j) \in Int /\ p(0) \in Int
      BY <1>1
    <3>2. QED
      BY <3>1, Zenon
  <2>2. Congruent(o, 1, m)
    BY <1>2, <2>1, CongruentMod
  <2>3. Congruent(u * o, u * 1, m)
    <3>1. m \in Int /\ 1 \in Int
      OBVIOUS
    <3>2. QED
      BY <2>2, <3>1, CongruentScale, Zenon
  <2>4. u * 1 = u /\ j + 0 = j
    OBVIOUS
  <2>5. QED
    BY <2>1, <2>3, <2>4
<1>4. \A k \in P : k + 1 \in P
  <2> SUFFICES ASSUME NEW k \in Nat, Congruent(p(j) * p(k), p(j + k), m)
               PROVE  Congruent(p(j) * p(k + 1), p(j + (k + 1)), m)
    OBVIOUS
  <2>1. PICK u \in Int, v \in Int, w \in Int : u = p(j) /\ v = p(k) /\ w = p(j + k)
    <3>1. p(j) \in Int /\ p(k) \in Int /\ p(j + k) \in Int
      BY <1>1
    <3>2. QED
      BY <3>1, Zenon
  <2>2. p(k + 1) = (v * b) % m /\ p(j + (k + 1)) = (w * b) % m
    <3>1. j + (k + 1) = (j + k) + 1 /\ j + k \in Nat
      OBVIOUS
    <3>2. QED
      BY <1>1, <2>1, <3>1
  <2>3. PICK v2 \in Int, w2 \in Int : v2 = (v * b) % m /\ w2 = (w * b) % m
    OBVIOUS
  <2>4. /\ v * b \in Int /\ w * b \in Int /\ u * v \in Int /\ u * v2 \in Int
        /\ m \in Int /\ b \in Int
    OBVIOUS
  <2>5. Congruent(u * v2, u * (v * b), m)
    <3>1. Congruent(v2, v * b, m)
      BY <2>3, <2>4, CongruentMod
    <3>2. QED
      BY <2>4, <3>1, CongruentScale, Zenon
  <2>6. u * (v * b) = (u * v) * b /\ (u * v) * b \in Int
    OBVIOUS
  <2>7. Congruent((u * v) * b, w * b, m)
    <3>1. Congruent(u * v, w, m)
      BY <2>1
    <3>2. QED
      BY <2>4, <3>1, CongruentScale, Zenon
  <2>8. Congruent(w * b, w2, m)
    BY <2>3, <2>4, CongruentMod
  <2>9. Congruent(u * v2, w * b, m)
    BY <2>4, <2>5, <2>6, <2>7, CongruentTrans
  <2>10. Congruent(u * v2, w2, m)
    BY <2>4, <2>8, <2>9, CongruentTrans
  <2>11. QED
    BY <2>1, <2>2, <2>3, <2>10
<1>5. P = Nat
  <2> HIDE DEF P
  <2>1. P \subseteq Nat
    BY DEF P
  <2>2. QED
    BY <1>3, <1>4, <2>1, SetInduction
<1>6. QED
  BY <1>5 DEF p

(* (b^2)^k is b^(2k).                                                      *)
LEMMA PowerOfSquare ==
  ASSUME NEW b \in Nat, NEW m \in Nat \ {0}
  PROVE  \A k \in Nat : Power((b * b) % m, k, m) = Power(b, 2 * k, m)
<1> DEFINE c == (b * b) % m
           p(k) == Power(b, k, m)
           P == {k \in Nat : Power(c, k, m) = p(2 * k)}
<1>0. c \in Nat /\ Congruent(c, b * b, m)
  <2>1. b * b \in Int /\ (b * b) % m \in Nat
    OBVIOUS
  <2>2. QED
    BY <2>1, CongruentMod
<1>1. \A k \in Nat : p(k) \in Int /\ p(k+1) = (p(k) * b) % m
  BY PowerRec
<1> HIDE DEF c
<1>2. Power(c, 0, m) = p(0) /\ \A k \in Nat : Power(c, k+1, m) = (Power(c, k, m) * c) % m
  BY <1>0, PowerRec
<1> HIDE DEF p
<1>3. 0 \in P
  BY <1>2
<1>4. \A k \in P : k + 1 \in P
  <2> SUFFICES ASSUME NEW k \in Nat, Power(c, k, m) = p(2 * k)
               PROVE  Power(c, k + 1, m) = p(2 * (k + 1))
    OBVIOUS
  <2>1. PICK u \in Int : u = p(2 * k)
    BY <1>1
  <2>2. PICK v \in Int : v = (u * b) % m
    OBVIOUS
  <2>3. p(2 * (k + 1)) = (v * b) % m
    <3>1. 2 * (k + 1) = ((2 * k) + 1) + 1 /\ 2 * k \in Nat /\ (2 * k) + 1 \in Nat
      OBVIOUS
    <3>2. QED
      BY <1>1, <2>1, <2>2, <3>1
  <2>4. Power(c, k + 1, m) = (u * c) % m
    BY <1>2, <2>1
  <2>5. Congruent(v * b, (u * b) * b, m)
    <3>1. u * b \in Int
      OBVIOUS
    <3>2. Congruent(v, u * b, m)
      BY <2>2, <3>1, CongruentMod
    <3>3. b \in Int /\ m \in Int
      OBVIOUS
    <3>4. QED
      BY <3>1, <3>2, <3>3, CongruentScale, Zenon
  <2>6. Congruent(u * c, u * (b * b), m)
    <3>1. b * b \in Int /\ c \in Int /\ m \in Int
      BY <1>0
    <3>2. QED
      BY <1>0, <3>1, CongruentScale, Zenon
  <2>7. (u * b) * b = u * (b * b) /\ u * (b * b) \in Int /\ v * b \in Int /\ u * c \in Int
    BY <1>0
  <2>8. Congruent(u * (b * b), v * b, m)
    BY <2>5, <2>7, CongruentSym
  <2>9. Congruent(u * c, v * b, m)
    BY <2>6, <2>7, <2>8, CongruentTrans
  <2>10. QED
    BY <2>3, <2>4, <2>7, <2>9, CongruentEqual
<1>5. P = Nat
  <2> HIDE DEF P
  <2>1. P \subseteq Nat
    BY DEF P
  <2>2. QED
    BY <1>3, <1>4, <2>1, SetInduction
<1>6. QED
  BY <1>5 DEF c, p

(* A power depends on the residue of its base alone.                       *)
LEMMA PowerOfResidue ==
  ASSUME NEW b \in Nat, NEW m \in Nat \ {0}
  PROVE  \A k \in Nat : Power(b % m, k, m) = Power(b, k, m)
<1> DEFINE p(k) == Power(b, k, m)
           P == {k \in Nat : Power(b % m, k, m) = p(k)}
<1>1. PICK c \in Nat : c = b % m
  OBVIOUS
<1>2. \A k \in Nat : p(k) \in Int /\ p(k+1) = (p(k) * b) % m
  BY PowerRec
<1>3. Power(c, 0, m) = p(0) /\ \A k \in Nat : Power(c, k+1, m) = (Power(c, k, m) * c) % m
  BY PowerRec
<1> HIDE DEF p
<1>4. 0 \in P
  BY <1>1, <1>3
<1>5. \A k \in P : k + 1 \in P
  <2> SUFFICES ASSUME NEW k \in Nat, Power(c, k, m) = p(k)
               PROVE  Power(c, k + 1, m) = p(k + 1)
    BY <1>1
  <2>1. PICK u \in Int : u = p(k)
    BY <1>2
  <2>2. Congruent(c, b, m) /\ m \in Int /\ c \in Int /\ b \in Int
    BY <1>1, CongruentMod
  <2>3. Congruent(u * c, u * b, m)
    BY <2>2, CongruentScale, Zenon
  <2>4. u * c \in Int /\ u * b \in Int
    OBVIOUS
  <2>5. (u * c) % m = (u * b) % m
    BY <2>3, <2>4, CongruentEqual, Zenon
  <2>6. QED
    BY <1>2, <1>3, <2>1, <2>5
<1>6. P = Nat
  <2> HIDE DEF P
  <2>1. P \subseteq Nat
    BY DEF P
  <2>2. QED
    BY <1>4, <1>5, <2>1, SetInduction
<1>7. QED
  BY <1>6 DEF p

-----------------------------------------------------------------------------
(* Divisors and inverses.                                                  *)

(* The least positive combination of a and m divides both.                 *)
LEMMA LeastCombination ==
  ASSUME NEW a \in Nat, NEW m \in Nat \ {0}
  PROVE  \E d \in Nat \ {0}, g \in Int, h \in Int :
           d = a * g + m * h /\ a % d = 0 /\ m % d = 0
<1> DEFINE P == {v \in Nat \ {0} : \E g \in Int, h \in Int : v = a * g + m * h}
<1>1. m \in P
  <2>1. m = a * 0 + m * 1
    OBVIOUS
  <2>2. QED
    BY <2>1
<1>0. \A v : v \in P <=> v \in Nat \ {0} /\ \E g \in Int, h \in Int : v = a * g + m * h
  OBVIOUS
<1> HIDE DEF P
<1>2. PICK d \in Nat : d \in P /\ \A v \in P : d <= v
  <2>1. P \subseteq Nat /\ P # {}
    BY <1>0, <1>1
  <2>2. QED
    BY <2>1, LeastExists
<1>3. PICK g \in Int, h \in Int : d = a * g + m * h
  BY <1>0, <1>2
<1>4. d \in Nat \ {0}
  BY <1>0, <1>2
<1>5. ASSUME NEW c \in Nat, NEW g2 \in Int, NEW h2 \in Int, c = a * g2 + m * h2
      PROVE  c % d = 0
  <2>1. PICK q \in Int, r \in 0..(d-1) : r = c % d /\ c = r + q * d
    <3>1. c \in Int
      OBVIOUS
    <3>2. QED
      BY <1>4, <3>1, Division, Zenon
  <2>2. r = c - q * d
    BY <2>1, <1>4
  <2>3. q * d = a * (q * g) + m * (q * h)
    <3>1. q * (a * g + m * h) = a * (q * g) + m * (q * h)
      OBVIOUS
    <3>2. QED
      BY <3>1, <1>3
  <2>4. PICK g3 \in Int, h3 \in Int : g3 = g2 - q * g /\ h3 = h2 - q * h
    OBVIOUS
  <2>5. a * g3 = a * g2 - a * (q * g) /\ m * h3 = m * h2 - m * (q * h)
    BY <2>4
  <2>6. r = a * g3 + m * h3
    <3>1. PICK y1 \in Int, y2 \in Int, y3 \in Int, y4 \in Int :
            y1 = a * g2 /\ y2 = m * h2 /\ y3 = a * (q * g) /\ y4 = m * (q * h)
      OBVIOUS
    <3>2. c = y1 + y2
      BY <1>5, <3>1
    <3>3. QED
      BY <2>2, <2>3, <2>5, <3>1, <3>2
  <2>7. ASSUME r # 0 PROVE FALSE
    <3>1. r \in P
      <4>1. r \in Nat \ {0}
        BY <1>4, <2>7
      <4>2. QED
        BY <1>0, <2>6, <4>1, Zenon
    <3>2. d <= r
      BY <1>2, <3>1
    <3>3. QED
      BY <3>2, <2>1, <1>4
  <2>8. QED
    BY <2>1, <2>7
<1>6. a % d = 0
  <2>1. a = a * 1 + m * 0 /\ 1 \in Int /\ 0 \in Int
    OBVIOUS
  <2>2. QED
    BY <2>1, <1>5, Zenon
<1>7. m % d = 0
  <2>1. m = a * 0 + m * 1 /\ m \in Nat /\ 1 \in Int /\ 0 \in Int
    OBVIOUS
  <2>2. QED
    BY <2>1, <1>5, Zenon
<1>8. QED
  BY <1>3, <1>4, <1>6, <1>7

(* A divisor is no larger.                                                 *)
LEMMA DivisorBelow ==
  ASSUME NEW m \in Nat \ {0}, NEW d \in Nat \ {0}, m % d = 0
  PROVE  d <= m
<1>1. PICK q \in Int, r \in 0..(d-1) : r = m % d /\ m = r + q * d
  BY Division
<1>2. m = q * d
  BY <1>1
<1>3. q >= 1
  <2>1. ASSUME q <= 0 PROVE FALSE
    <3>1. q * d <= 0
      BY <2>1
    <3>2. QED
      BY <3>1, <1>2
  <2>2. QED
    BY <2>1
<1>4. q * d >= d
  BY <1>3
<1>5. QED
  BY <1>2, <1>4

(* Without a common divisor above 1 there is a Bezout relation.            *)
LEMMA BezoutCoprime ==
  ASSUME NEW a \in Nat, NEW m \in Nat \ {0}, Coprime(a, m)
  PROVE  Bezout(a, m)
<1>1. PICK d \in Nat \ {0}, g \in Int, h \in Int :
        d = a * g + m * h /\ a % d = 0 /\ m % d = 0
  BY LeastCombination
<1>2. d <= m
  BY <1>1, DivisorBelow
<1>3. d = 1
  <2>1. ASSUME d # 1 PROVE FALSE
    <3>1. d \in 2..m
      BY <1>2, <2>1
    <3>2. QED
      BY <3>1, <1>1 DEF Coprime
  <2>2. QED
    BY <2>1
<1>4. QED
  BY <1>1, <1>3 DEF Bezout

(* A prime and what it does not divide.                                    *)
LEMMA BezoutPrime ==
  ASSUME NEW a \in Nat, NEW p \in Nat, IsPrime(p), a % p # 0
  PROVE  Bezout(a, p)
<1>0. p \in Nat \ {0} /\ p > 1
  BY DEF IsPrime
<1>1. PICK d \in Nat \ {0}, g \in Int, h \in Int :
        d = a * g + p * h /\ a % d = 0 /\ p % d = 0
  BY <1>0, LeastCombination
<1>2. d <= p
  BY <1>0, <1>1, DivisorBelow
<1>3. d = 1
  <2>1. ASSUME d # 1 PROVE FALSE
    <3>1. d # p
      BY <1>1
    <3>2. d \in 2..(p-1)
      BY <1>2, <2>1, <3>1
    <3>3. QED
      BY <3>2, <1>1 DEF IsPrime
  <2>2. QED
    BY <2>1
<1>4. QED
  BY <1>1, <1>3 DEF Bezout

(* Two different primes.                                                   *)
LEMMA BezoutPrimes ==
  ASSUME NEW p \in Nat, NEW q \in Nat, IsPrime(p), IsPrime(q), p # q
  PROVE  Bezout(p, q)
<1>0. p \in Nat \ {0} /\ p > 1 /\ q \in Nat \ {0} /\ q > 1
  BY DEF IsPrime
<1>1. p % q # 0
  <2>1. ASSUME p % q = 0 PROVE FALSE
    <3>1. q <= p
      BY <1>0, <2>1, DivisorBelow
    <3>2. q \in 2..(p-1)
      BY <3>1, <1>0
    <3>3. QED
      BY <3>2, <2>1 DEF IsPrime
  <2>2. QED
    BY <2>1
<1>2. QED
  BY <1>1, BezoutPrime

(* mod_inverse finds an inverse of what is coprime to the modulus.         *)
LEMMA InverseExists ==
  ASSUME NEW a \in Nat, NEW m \in Nat, m > 1, Bezout(a, m)
  PROVE  Inverses(a, m) # {}
<1>0. m \in Nat \ {0}
  OBVIOUS
<1>1. PICK g \in Int, h \in Int : a * g + m * h = 1
  BY DEF Bezout
<1>2. PICK q \in Int, k \in 0..(m-1) : g = k + q * m
  BY <1>0, Division
<1>3. \E t \in Int : a * k = 1 + t * m
  <2>0. \A v : v = g => a * v + m * h = 1
    BY <1>1
  <2>1. a * (k + q * m) + m * h = 1
    BY <1>2, <2>0, Zenon
  <2>2. a * (k + q * m) = a * k + (a * q) * m
    OBVIOUS
  <2>3. PICK t \in Int : t = -h - a * q
    <3>1. -h - a * q \in Int
      OBVIOUS
    <3>2. QED
      BY <3>1, Zenon
  <2>4. t * m = -(m * h) - (a * q) * m
    BY <2>3
  <2>5. a * k = 1 + t * m
    BY <2>1, <2>2, <2>4
  <2>6. QED
    BY <2>5
<1>4. PICK t \in Int : a * k = 1 + t * m
  BY <1>3
<1>5. (a * k) % m = 1
  <2>1. 1 \in 0..(m-1)
    OBVIOUS
  <2>2. (1 + t * m) % m = 1
    BY <1>0, <2>1, Residue
  <2>3. QED
    BY <1>4, <2>2
<1>6. k # 0
  <2>1. ASSUME k = 0 PROVE FALSE
    <3>1. a * k = 0
      BY <2>1
    <3>2. 0 % m = 0
      BY <1>0
    <3>3. QED
      BY <3>1, <3>2, <1>5
  <2>2. QED
    BY <2>1
<1>7. k \in 1..(m-1)
  BY <1>6
<1>8. QED
  BY <1>5, <1>7, Zenon DEF Inverses

(* Equal residues make congruent numbers.                                  *)
LEMMA EqualCongruent ==
  ASSUME NEW m \in Nat \ {0}, NEW a \in Int, NEW b \in Int, a % m = b % m
  PROVE  Congruent(a, b, m)
<1>1. PICK c \in Int : c = a % m
  OBVIOUS
<1>2. Congruent(a, a % m, m) /\ Congruent(b % m, b, m)
  BY CongruentMod, Zenon
<1>3. Congruent(a, c, m) /\ Congruent(c, b, m)
  BY <1>1, <1>2, Zenon
<1>4. m \in Int
  OBVIOUS
<1>5. QED
  BY <1>3, <1>4, CongruentTrans, Zenon

(* A unit cancels.                                                         *)
LEMMA CancelUnit ==
  ASSUME NEW u \in Int, NEW m \in Int, Bezout(u, m), NEW x \in Int, NEW y \in Int,
         Congruent(u * x, u * y, m)
  PROVE  Congruent(x, y, m)
<1>1. PICK g \in Int, h \in Int : u * g + m * h = 1
  BY DEF Bezout
<1>2. PICK t \in Int : u * x = u * y + t * m
  BY DEF Congruent
<1>3. PICK z \in Int : z = x - y
  OBVIOUS
<1>4. u * z = t * m
  <2>1. u * z = u * x - u * y
    BY <1>3
  <2>2. QED
    BY <2>1, <1>2
<1>5. z = (u * g + m * h) * z
  BY <1>1
<1>6. (u * g + m * h) * z = g * (u * z) + (h * z) * m
  OBVIOUS
<1>7. g * (t * m) = (g * t) * m
  OBVIOUS
<1>8. PICK s \in Int : s = g * t + h * z
  OBVIOUS
<1>9. s * m = (g * t) * m + (h * z) * m
  BY <1>8
<1>10. z = s * m
  BY <1>4, <1>5, <1>6, <1>7, <1>9
<1>11. x = y + s * m
  BY <1>3, <1>10
<1>12. QED
  BY <1>11 DEF Congruent

(* What is congruent to a unit is one, and a unit is not 0.                *)
LEMMA BezoutCongruent ==
  ASSUME NEW u \in Int, NEW v \in Int, NEW m \in Int, Bezout(u, m), Congruent(v, u, m)
  PROVE  Bezout(v, m)
<1>1. PICK g \in Int, h \in Int : u * g + m * h = 1
  BY DEF Bezout
<1>2. PICK t \in Int : v = u + t * m
  BY DEF Congruent
<1>3. PICK h2 \in Int : h2 = h - t * g
  <2>1. h - t * g \in Int
    OBVIOUS
  <2>2. QED
    BY <2>1, Zenon
<1>4. v * g = u * g + (t * g) * m
  <2>1. (u + t * m) * g = u * g + (t * g) * m
    OBVIOUS
  <2>2. QED
    BY <2>1, <1>2
<1>5. m * h2 = m * h - (t * g) * m
  BY <1>3
<1>6. v * g + m * h2 = 1
  <2>1. PICK y1 \in Int, y2 \in Int, y3 \in Int : y1 = u * g /\ y2 = (t * g) * m /\ y3 = m * h
    OBVIOUS
  <2>2. QED
    BY <2>1, <1>1, <1>4, <1>5
<1>7. QED
  BY <1>6 DEF Bezout

LEMMA UnitNotZero ==
  ASSUME NEW u \in Int, NEW m \in Nat, m > 1, Bezout(u, m)
  PROVE  u % m # 0
<1> SUFFICES ASSUME u % m = 0 PROVE FALSE
  OBVIOUS
<1>1. PICK g \in Int, h \in Int : u * g + m * h = 1
  BY DEF Bezout
<1>2. PICK t \in Int : u = t * m
  BY Multiple
<1>3. PICK z \in Int : z = t * g + h
  OBVIOUS
<1>4. m * z = 1
  <2>1. m * z = m * (t * g) + m * h
    BY <1>3
  <2>2. u * g = m * (t * g)
    <3>1. (t * m) * g = m * (t * g)
      OBVIOUS
    <3>2. QED
      BY <3>1, <1>2
  <2>3. QED
    BY <1>1, <2>1, <2>2
<1>5. ASSUME z >= 1 PROVE FALSE
  <2>1. m * z >= m
    BY <1>5
  <2>2. QED
    BY <2>1, <1>4
<1>6. ASSUME z <= 0 PROVE FALSE
  <2>1. m * z <= 0
    BY <1>6
  <2>2. QED
    BY <2>1, <1>4
<1>7. QED
  BY <1>5, <1>6

-----------------------------------------------------------------------------
(* Sums and products of exponents.                                         *)
LEMMA PowerSum ==
  ASSUME NEW b \in Nat, NEW m \in Nat \ {0}, NEW j \in Nat, NEW k \in Nat
  PROVE  Power(b, j + k, m) = (Power(b, j, m) * Power(b, k, m)) % m
<1>1. PICK u \in 0..(m-1), v \in 0..(m-1), w \in 0..(m-1) :
        u = Power(b, j, m) /\ v = Power(b, k, m) /\ w = Power(b, j + k, m)
  <2>1. j + k \in Nat
    OBVIOUS
  <2>2. QED
    BY <2>1, PowerRec, Zenon
<1>2. Congruent(u * v, w, m)
  BY <1>1, PowerAdd
<1>3. u * v \in Int /\ w \in Int
  OBVIOUS
<1>4. (u * v) % m = w % m
  BY <1>2, <1>3, CongruentEqual
<1>5. w % m = w
  OBVIOUS
<1>6. QED
  BY <1>1, <1>4, <1>5

LEMMA PowerPower ==
  ASSUME NEW b \in Nat, NEW m \in Nat \ {0}, NEW j \in Nat
  PROVE  \A k \in Nat : Power(Power(b, j, m), k, m) = Power(b, j * k, m)
<1>1. PICK c \in Nat : c = Power(b, j, m)
  BY PowerRec
<1> DEFINE P == {k \in Nat : Power(c, k, m) = Power(b, j * k, m)}
<1>2. 0 \in P
  <2>1. j * 0 = 0
    OBVIOUS
  <2>2. QED
    BY <2>1, PowerRec
<1>3. \A k \in P : k + 1 \in P
  <2> SUFFICES ASSUME NEW k \in Nat, Power(c, k, m) = Power(b, j * k, m)
               PROVE  Power(c, k + 1, m) = Power(b, j * (k + 1), m)
    OBVIOUS
  <2>1. Power(c, k + 1, m) = (Power(c, k, m) * c) % m
    BY PowerRec
  <2>2. PICK e \in Nat : e = j * k /\ j * (k + 1) = e + j
    <3>1. j * k \in Nat /\ j * (k + 1) = j * k + j
      OBVIOUS
    <3>2. QED
      BY <3>1, Zenon
  <2>3. Power(b, e + j, m) = (Power(b, e, m) * Power(b, j, m)) % m
    BY PowerSum
  <2>4. QED
    BY <1>1, <2>1, <2>2, <2>3
<1>4. P = Nat
  <2> HIDE DEF P
  <2>1. P \subseteq Nat
    BY DEF P
  <2>2. QED
    BY <1>2, <1>3, <2>1, SetInduction
<1>5. QED
  BY <1>1, <1>4

(* A power of 1.                                                           *)
LEMMA PowerOfOne ==
  ASSUME NEW m \in Nat, m > 1
  PROVE  \A k \in Nat : Power(1, k, m) = 1
<1> DEFINE P == {k \in Nat : Power(1, k, m) = 1}
<1>0. 1 % m = 1 /\ m \in Nat \ {0} /\ 1 \in Nat /\ 1 * 1 = 1
  OBVIOUS
<1>1. 0 \in P
  BY <1>0, PowerRec
<1>2. \A k \in P : k + 1 \in P
  <2> SUFFICES ASSUME NEW k \in Nat, Power(1, k, m) = 1 PROVE Power(1, k + 1, m) = 1
    OBVIOUS
  <2>1. Power(1, k + 1, m) = (Power(1, k, m) * 1) % m
    BY <1>0, PowerRec
  <2>2. QED
    BY <1>0, <2>1
<1>3. P = Nat
  <2> HIDE DEF P
  <2>1. P \subseteq Nat
    BY DEF P
  <2>2. QED
    BY <1>1, <1>2, <2>1, SetInduction
<1>4. QED
  BY <1>3

(* A power modulo the product n = p*q, reduced modulo the factor p.        *)
LEMMA PowerDivisor ==
  ASSUME NEW b \in Nat, NEW p \in Nat \ {0}, NEW q \in Nat \ {0}
  PROVE  \A k \in Nat : Power(b, k, q * p) % p = Power(b, k, p)
<1>0. PICK n \in Nat \ {0} : n = q * p
  <2>1. q * p \in Nat \ {0}
    OBVIOUS
  <2>2. QED
    BY <2>1, Zenon
<1> DEFINE P == {k \in Nat : Power(b, k, n) % p = Power(b, k, p)}
<1>1. 0 \in P
  <2>1. Power(b, 0, n) = 1 % n /\ Power(b, 0, p) = 1 % p
    BY PowerRec
  <2>2. PICK o \in Int : o = 1 % n
    OBVIOUS
  <2>3. Congruent(o, 1, n)
    BY <2>2, CongruentMod
  <2>4. Congruent(o, 1, p)
    BY <1>0, <2>3, CongruentDivisor
  <2>5. o % p = 1 % p
    <3>1. 1 \in Int
      OBVIOUS
    <3>2. QED
      BY <2>4, <3>1, CongruentEqual, Zenon
  <2>6. QED
    BY <2>1, <2>2, <2>5
<1>2. \A k \in P : k + 1 \in P
  <2> SUFFICES ASSUME NEW k \in Nat, Power(b, k, n) % p = Power(b, k, p)
               PROVE  Power(b, k + 1, n) % p = Power(b, k + 1, p)
    OBVIOUS
  <2>1. PICK u \in Int, v \in Int : u = Power(b, k, n) /\ v = Power(b, k, p)
    <3>1. Power(b, k, n) \in Int /\ Power(b, k, p) \in Int
      BY PowerRec
    <3>2. QED
      BY <3>1, Zenon
  <2>2. Power(b, k + 1, n) = (u * b) % n /\ Power(b, k + 1, p) = (v * b) % p
    BY <2>1, PowerRec
  <2>3. u * b \in Int /\ v * b \in Int /\ b \in Int /\ p \in Int
    OBVIOUS
  <2>4. PICK w \in Int : w = (u * b) % n
    OBVIOUS
  <2>5. Congruent(w, u * b, n)
    BY <2>3, <2>4, CongruentMod
  <2>6. Congruent(w, u * b, p)
    BY <1>0, <2>3, <2>5, CongruentDivisor
  <2>7. Congruent(u, v, p)
    BY <2>1, CongruentMod
  <2>8. Congruent(u * b, v * b, p)
    BY <2>3, <2>7, CongruentScale, Zenon
  <2>9. Congruent(w, v * b, p)
    BY <2>3, <2>6, <2>8, CongruentTrans
  <2>10. w % p = (v * b) % p
    BY <2>3, <2>9, CongruentEqual
  <2>11. QED
    BY <2>2, <2>4, <2>10
<1>3. P = Nat
  <2> HIDE DEF P
  <2>1. P \subseteq Nat
    BY DEF P
  <2>2. QED
    BY <1>1, <1>2, <2>1, SetInduction
<1>4. QED
  BY <1>0, <1>3

(* Two numbers below p*q with the same residues are the same.              *)
LEMMA Chinese ==
  ASSUME NEW p \in Nat \ {0}, NEW q \in Nat \ {0}, Bezout(p, q),
         NEW x \in 0..(p*q - 1), NEW y \in 0..(p*q - 1), x % p = y % p, x % q = y % q
  PROVE  x = y
<1>1. PICK g \in Int, h \in Int : p * g + q * h = 1
  BY DEF Bezout
<1>2. PICK d \in Int : d = x - y
  OBVIOUS
<1>3. PICK s \in Int : d = s * p
  <2>1. PICK x1 \in Int, r \in 0..(p-1) : r = x % p /\ x = r + x1 * p
    <3>1. x \in Int
      OBVIOUS
    <3>2. QED
      BY <3>1, Division, Zenon
  <2>2. PICK y1 \in Int, r2 \in 0..(p-1) : r2 = y % p /\ y = r2 + y1 * p
    <3>1. y \in Int
      OBVIOUS
    <3>2. QED
      BY <3>1, Division, Zenon
  <2>3. (x1 - y1) * p = x1 * p - y1 * p /\ x1 - y1 \in Int
    OBVIOUS
  <2>4. r = r2
    BY <2>1, <2>2
  <2>5. d = (x1 - y1) * p
    BY <1>2, <2>1, <2>2, <2>3, <2>4
  <2>6. QED
    BY <2>3, <2>5, Zenon
<1>4. PICK t \in Int : d = t * q
  <2>1. PICK x1 \in Int, r \in 0..(q-1) : r = x % q /\ x = r + x1 * q
    <3>1. x \in Int
      OBVIOUS
    <3>2. QED
      BY <3>1, Division, Zenon
  <2>2. PICK y1 \in Int, r2 \in 0..(q-1) : r2 = y % q /\ y = r2 + y1 * q
    <3>1. y \in Int
      OBVIOUS
    <3>2. QED
      BY <3>1, Division, Zenon
  <2>3. (x1 - y1) * q = x1 * q - y1 * q /\ x1 - y1 \in Int
    OBVIOUS
  <2>4. r = r2
    BY <2>1, <2>2
  <2>5. d = (x1 - y1) * q
    BY <1>2, <2>1, <2>2, <2>3, <2>4
  <2>6. QED
    BY <2>3, <2>5, Zenon
<1>5. s * p = t * q
  BY <1>3, <1>4
<1>6. s = 0
  <2>1. PICK z \in Int : z = t * g + s * h
    OBVIOUS
  <2>2. s = z * q
    <3>1. s = s * (p * g + q * h)
      BY <1>1
    <3>2. s * (p * g + q * h) = (s * p) * g + s * (q * h)
      OBVIOUS
    <3>3. (t * q) * g + s * (q * h) = (t * g + s * h) * q
      OBVIOUS
    <3>4. QED
      BY <3>1, <3>2, <3>3, <1>5, <2>1
  <2>3. d = z * (p * q)
    <3>1. (z * q) * p = z * (p * q)
      OBVIOUS
    <3>2. QED
      BY <3>1, <1>3, <2>2
  <2>4. PICK n \in Int : n = p * q
    OBVIOUS
  <2>5. d < n /\ -n < d
    BY <1>2, <2>4
  <2>6. z = 0
    <3>0. d = z * n /\ n > 0
      BY <2>3, <2>4, <2>5
    <3>1. ASSUME z >= 1 PROVE FALSE
      <4>1. z * n >= n
        BY <3>0, <3>1
      <4>2. QED
        BY <3>0, <4>1, <2>5
    <3>2. ASSUME z <= -1 PROVE FALSE
      <4>1. z * n <= -n
        BY <3>0, <3>2
      <4>2. QED
        BY <3>0, <4>1, <2>5
    <3>3. QED
      BY <3>1, <3>2
  <2>7. QED
    BY <2>2, <2>6
<1>7. QED
  BY <1>2, <1>3, <1>6

-----------------------------------------------------------------------------
(* Fermat's little theorem, by counting orbits of the multiplication by a. *)

(* Residues may be taken inside a product of three.                        *)
LEMMA ResidueProduct ==
  ASSUME NEW m \in Nat \ {0}, NEW u \in Int, NEW v \in Int, NEW x \in Int
  PROVE  (((u * v) % m) * x) % m = (u * ((v * x) % m)) % m
<1>1. PICK r \in Int, s \in Int : r = (u * v) % m /\ s = (v * x) % m
  OBVIOUS
<1>2. u * v \in Int /\ v * x \in Int /\ r * x \in Int /\ u * s \in Int /\ m \in Int
  OBVIOUS
<1>3. Congruent(r, u * v, m) /\ Congruent(v * x, s, m)
  BY <1>1, <1>2, CongruentMod
<1>4. Congruent(r * x, (u * v) * x, m)
  BY <1>2, <1>3, CongruentScale, Zenon
<1>5. Congruent(u * (v * x), u * s, m)
  BY <1>2, <1>3, CongruentScale, Zenon
<1>6. (u * v) * x = u * (v * x) /\ u * (v * x) \in Int
  OBVIOUS
<1>7. Congruent(r * x, u * (v * x), m)
  BY <1>4, <1>6, Zenon
<1>8. Congruent(r * x, u * s, m)
  BY <1>2, <1>5, <1>6, <1>7, CongruentTrans, Zenon
<1>9. (r * x) % m = (u * s) % m
  BY <1>2, <1>8, CongruentEqual, Zenon
<1>10. QED
  BY <1>1, <1>9

(* The least exponent that takes a to 1 modulo m.                          *)
IsOrder(o, a, m) ==
  /\ o \in Nat \ {0} /\ Power(a, o, m) = 1
  /\ \A k \in 1..(o-1) : Power(a, k, m) # 1

LEMMA OrderExists ==
  ASSUME NEW a \in Nat, NEW m \in Nat, m > 1, Bezout(a, m)
  PROVE  \E o : IsOrder(o, a, m)
<1>0. m \in Nat \ {0} /\ 1 % m = 1
  OBVIOUS
<1> DEFINE f == [k \in 0..m |-> Power(a, k, m)]
           Q == {i \in Nat : \E t \in Nat \ {0} : Power(a, i + t, m) = Power(a, i, m)}
           T == {t \in Nat \ {0} : Power(a, t, m) = 1}
<1>1. Q # {}
  <2>1. f \in [0..m -> 0..(m-1)]
    <3>1. \A k \in 0..m : Power(a, k, m) \in 0..(m-1)
      <4>1. \A k \in 0..m : k \in Nat
        OBVIOUS
      <4>2. QED
        BY <1>0, <4>1, PowerRec, Zenon
    <3>2. QED
      BY <3>1
  <2>2. \E y, z \in 0..m : y # z /\ f[y] = f[z]
    <3>1. IsFiniteSet(0..m) /\ Cardinality(0..m) = m + 1
      <4>1. 0 \in Int /\ m \in Int /\ ~(0 > m) /\ m - 0 + 1 = m + 1
        OBVIOUS
      <4>2. QED
        BY <4>1, FS_Interval
    <3>2. IsFiniteSet(0..(m-1)) /\ Cardinality(0..(m-1)) = m
      <4>1. 0 \in Int /\ m - 1 \in Int /\ ~(0 > m - 1) /\ (m - 1) - 0 + 1 = m
        OBVIOUS
      <4>2. QED
        BY <4>1, FS_Interval
    <3>3. m < m + 1
      OBVIOUS
    <3> HIDE DEF f
    <3>4. QED
      BY <2>1, <3>1, <3>2, <3>3, FS_PigeonHole
  <2>3. PICK y \in 0..m, z \in 0..m : y # z /\ Power(a, y, m) = Power(a, z, m)
    BY <2>2
  <2>4. ASSUME NEW i \in 0..m, NEW j \in 0..m, i < j, Power(a, i, m) = Power(a, j, m)
        PROVE  i \in Q
    <3>1. j - i \in Nat \ {0} /\ i + (j - i) = j /\ i \in Nat
      BY <2>4
    <3>2. QED
      BY <2>4, <3>1, Zenon
  <2>5. CASE y < z
    <3>1. y \in Q
      BY <2>3, <2>4, <2>5
    <3>2. QED
      BY <3>1, Zenon
  <2>6. CASE z < y
    <3>1. z \in Q
      BY <2>3, <2>4, <2>6
    <3>2. QED
      BY <3>1, Zenon
  <2>7. QED
    BY <2>3, <2>5, <2>6
<1>2. \A i \in Nat : i + 1 \in Q => i \in Q
  <2> SUFFICES ASSUME NEW i \in Nat, NEW t \in Nat \ {0},
                      Power(a, (i + 1) + t, m) = Power(a, i + 1, m)
               PROVE  Power(a, i + t, m) = Power(a, i, m)
    OBVIOUS
  <2>1. PICK u \in 0..(m-1), v \in 0..(m-1) : u = Power(a, i + t, m) /\ v = Power(a, i, m)
    <3>1. i + t \in Nat
      OBVIOUS
    <3>2. QED
      BY <1>0, <3>1, PowerRec, Zenon
  <2>2. Power(a, (i + t) + 1, m) = (u * a) % m /\ Power(a, i + 1, m) = (v * a) % m
    <3>1. i + t \in Nat
      OBVIOUS
    <3>2. QED
      BY <1>0, <2>1, <3>1, PowerRec
  <2>3. (i + 1) + t = (i + t) + 1
    OBVIOUS
  <2>4. (a * u) % m = (a * v) % m
    <3>1. a * u = u * a /\ a * v = v * a
      OBVIOUS
    <3>2. QED
      BY <2>2, <2>3, <3>1
  <2>5. Congruent(a * u, a * v, m)
    <3>1. a * u \in Int /\ a * v \in Int
      OBVIOUS
    <3>2. QED
      BY <1>0, <2>4, <3>1, EqualCongruent, Zenon
  <2>6. Congruent(u, v, m)
    <3>1. a \in Int /\ m \in Int /\ u \in Int /\ v \in Int
      OBVIOUS
    <3>2. QED
      BY <2>5, <3>1, CancelUnit, Zenon
  <2>7. QED
    BY <1>0, <2>1, <2>6, CongruentResidues
<1>3. 0 \in Q
  <2>1. Q \subseteq Nat
    OBVIOUS
  <2> HIDE DEF Q
  <2>2. PICK i \in Q : \A j \in Q : i <= j
    BY <1>1, <2>1, LeastExists
  <2>3. ASSUME i # 0 PROVE FALSE
    <3>1. i - 1 \in Nat /\ (i - 1) + 1 = i /\ ~(i <= i - 1)
      BY <2>1, <2>3
    <3>2. QED
      BY <1>2, <2>2, <3>1
  <2>4. QED
    BY <2>3
<1>4. T # {}
  <2>1. PICK t \in Nat \ {0} : Power(a, 0 + t, m) = Power(a, 0, m)
    BY <1>3
  <2>2. 0 + t = t
    OBVIOUS
  <2>3. Power(a, 0, m) = 1
    BY <1>0, PowerRec
  <2>4. t \in T
    BY <2>1, <2>2, <2>3
  <2>5. QED
    BY <2>4, Zenon
<1>5. PICK o \in T : \A t \in T : o <= t
  <2>1. T \subseteq Nat
    OBVIOUS
  <2> HIDE DEF T
  <2>2. QED
    BY <1>4, <2>1, LeastExists
<1>6. \A k \in 1..(o-1) : Power(a, k, m) # 1
  <2> SUFFICES ASSUME NEW k \in 1..(o-1), Power(a, k, m) = 1 PROVE FALSE
    OBVIOUS
  <2>1. k \in T
    OBVIOUS
  <2>2. o <= k
    BY <1>5, <2>1
  <2>3. QED
    BY <2>2
<1>7. QED
  BY <1>6 DEF IsOrder

(* x, multiplied k times by a; the orbit of x when o is the order of a.    *)
Shifted(a, k, x, m) == (Power(a, k, m) * x) % m
Orbit(a, o, x, m)   == {Shifted(a, k, x, m) : k \in 0..(o-1)}

LEMMA ShiftedRec ==
  ASSUME NEW a \in Nat, NEW m \in Nat, m > 1, NEW x \in 0..(m-1)
  PROVE  /\ Shifted(a, 0, x, m) = x
         /\ \A k \in Nat : Shifted(a, k, x, m) \in 0..(m-1)
         /\ \A k \in Nat : Shifted(a, k + 1, x, m) = (a * Shifted(a, k, x, m)) % m
<1>0. m \in Nat \ {0} /\ 1 % m = 1 /\ 1 * x = x /\ x % m = x
  OBVIOUS
<1>1. Shifted(a, 0, x, m) = x
  BY <1>0, PowerRec DEF Shifted
<1>2. ASSUME NEW k \in Nat PROVE Shifted(a, k, x, m) \in 0..(m-1)
  <2>1. PICK u \in Int : u = Power(a, k, m)
    BY <1>0, PowerRec
  <2>2. (u * x) % m \in 0..(m-1)
    BY <1>0
  <2>3. QED
    BY <2>1, <2>2 DEF Shifted
<1>3. ASSUME NEW k \in Nat PROVE Shifted(a, k + 1, x, m) = (a * Shifted(a, k, x, m)) % m
  <2>1. PICK u \in Int : u = Power(a, k, m)
    BY <1>0, PowerRec
  <2>2. Power(a, k + 1, m) = (u * a) % m
    BY <1>0, <2>1, PowerRec
  <2>3. u * a = a * u /\ a \in Int /\ x \in Int
    OBVIOUS
  <2>4. (((a * u) % m) * x) % m = (a * ((u * x) % m)) % m
    BY <1>0, <2>3, ResidueProduct, Zenon
  <2>5. QED
    BY <2>1, <2>2, <2>3, <2>4 DEF Shifted
<1>5. QED
  BY <1>1, <1>2, <1>3

LEMMA ShiftedSum ==
  ASSUME NEW a \in Nat, NEW m \in Nat \ {0}, NEW x \in Int, NEW j \in Nat, NEW k \in Nat
  PROVE  Shifted(a, j + k, x, m) = (Power(a, j, m) * Shifted(a, k, x, m)) % m
<1>1. PICK u \in Int, v \in Int : u = Power(a, j, m) /\ v = Power(a, k, m)
  <2>1. Power(a, j, m) \in Int /\ Power(a, k, m) \in Int
    BY PowerRec
  <2>2. QED
    BY <2>1, Zenon
<1>2. Power(a, j + k, m) = (u * v) % m
  BY <1>1, PowerSum
<1>3. (((u * v) % m) * x) % m = (u * ((v * x) % m)) % m
  BY ResidueProduct, Zenon
<1>4. QED
  BY <1>1, <1>2, <1>3 DEF Shifted

(* After o steps the orbit is back at x, and not before.                   *)
LEMMA OrbitPeriod ==
  ASSUME NEW a \in Nat, NEW m \in Nat, m > 1, NEW o, IsOrder(o, a, m),
         NEW x \in 0..(m-1), Bezout(x, m)
  PROVE  /\ Shifted(a, o, x, m) = x
         /\ \A k \in 1..(o-1) : Shifted(a, k, x, m) # x
<1>0. m \in Nat \ {0} /\ 1 * x = x /\ x % m = x /\ o \in Nat \ {0}
  BY DEF IsOrder
<1>1. Shifted(a, o, x, m) = x
  BY <1>0 DEF Shifted, IsOrder
<1>2. ASSUME NEW k \in 1..(o-1), Shifted(a, k, x, m) = x PROVE FALSE
  <2>1. PICK u \in 0..(m-1) : u = Power(a, k, m)
    <3>1. k \in Nat
      OBVIOUS
    <3>2. QED
      BY <1>0, <3>1, PowerRec
  <2>2. (x * u) % m = (x * 1) % m
    <3>1. x * u = u * x /\ x * 1 = x
      OBVIOUS
    <3>2. QED
      BY <1>0, <1>2, <2>1, <3>1 DEF Shifted
  <2>3. Congruent(x * u, x * 1, m)
    <3>1. x * u \in Int /\ x * 1 \in Int
      OBVIOUS
    <3>2. QED
      BY <1>0, <2>2, <3>1, EqualCongruent, Zenon
  <2>4. Congruent(u, 1, m)
    BY <2>3, CancelUnit
  <2>5. u = 1
    <3>1. 1 \in 0..(m-1)
      OBVIOUS
    <3>2. QED
      BY <1>0, <2>4, <3>1, CongruentResidues
  <2>6. QED
    BY <2>1, <2>5 DEF IsOrder
<1>3. QED
  BY <1>1, <1>2

(* An orbit has o elements.                                                *)
LEMMA OrbitSize ==
  ASSUME NEW a \in Nat, NEW m \in Nat, m > 1, NEW o, IsOrder(o, a, m),
         NEW x \in 0..(m-1), Bezout(x, m)
  PROVE  IsFiniteSet(Orbit(a, o, x, m)) /\ Cardinality(Orbit(a, o, x, m)) = o
<1> DEFINE s(k) == Shifted(a, k, x, m)
           f == [k \in 0..(o-1) |-> s(k)]
<1>0. o \in Nat /\ o >= 1 /\ m \in Nat \ {0} /\ x \in Int
  BY DEF IsOrder
<1>1. ASSUME NEW i \in 0..(o-1), NEW j \in 0..(o-1), i < j, s(i) = s(j) PROVE FALSE
  <2>1. PICK t \in Nat, k \in 1..(o-1) : t = o - j /\ k = t + i /\ t + j = o
    <3>1. o - j \in Nat /\ (o - j) + i \in 1..(o-1) /\ (o - j) + j = o
      BY <1>0, <1>1
    <3>2. QED
      BY <3>1, Zenon
  <2>2. i \in Nat /\ j \in Nat
    OBVIOUS
  <2>3. s(t + i) = s(t + j)
    <3>1. ASSUME NEW l \in Nat PROVE s(t + l) = (Power(a, t, m) * s(l)) % m
      <4>1. m \in Nat \ {0} /\ x \in Int
        BY <1>0
      <4>2. QED
        BY <4>1, ShiftedSum
    <3>2. s(i) = s(j)
      BY <1>1
    <3> HIDE DEF s
    <3>3. QED
      BY <2>2, <3>1, <3>2
  <2>4. s(k) = s(o)
    BY <2>1, <2>3
  <2>5. QED
    BY <2>4, OrbitPeriod
<1> HIDE DEF s
<1>2. \A i, j \in 0..(o-1) : s(i) = s(j) => i = j
  <2> SUFFICES ASSUME NEW i \in 0..(o-1), NEW j \in 0..(o-1), s(i) = s(j), i # j
               PROVE  FALSE
    OBVIOUS
  <2>1. i < j \/ j < i
    BY <1>0
  <2>2. QED
    BY <1>1, <2>1
<1>3. PICK O : O = {s(k) : k \in 0..(o-1)}
  OBVIOUS
<1>4. f \in Bijection(0..(o-1), O)
  BY <1>2, <1>3 DEF Bijection, Injection, Surjection, IsInjective
<1>5. IsFiniteSet(0..(o-1)) /\ Cardinality(0..(o-1)) = o
  <2>1. 0 \in Int /\ o - 1 \in Int /\ ~(0 > o - 1) /\ (o - 1) - 0 + 1 = o
    BY <1>0
  <2>2. QED
    BY <2>1, FS_Interval
<1>6. IsFiniteSet(O) /\ Cardinality(O) = o
  <2>1. ExistsBijection(0..(o-1), O)
    BY <1>4, Zenon DEF ExistsBijection
  <2>2. QED
    BY <1>5, <2>1, FS_Bijection
<1>7. QED
  BY <1>3, <1>6 DEF Orbit, s

(* A set that multiplying by a neither leaves nor enters.                  *)
ClosedUnder(X, a, m) ==
  X \subseteq 1..(m-1) /\ \A y \in 1..(m-1) : y \in X <=> (a * y) % m \in X

LEMMA OrbitClosed ==
  ASSUME NEW a \in Nat, NEW m \in Nat, m > 1, Bezout(a, m), NEW o, IsOrder(o, a, m),
         NEW x \in 0..(m-1), Bezout(x, m), NEW y \in 0..(m-1)
  PROVE  y \in Orbit(a, o, x, m) <=> (a * y) % m \in Orbit(a, o, x, m)
<1> DEFINE s(k) == Shifted(a, k, x, m)
<1>0. o \in Nat /\ o >= 1 /\ m \in Nat \ {0} /\ m \in Int /\ a \in Int
  BY DEF IsOrder
<1>1. \A k \in Nat : s(k) \in 0..(m-1)
  BY ShiftedRec
<1>2. \A k \in Nat : s(k + 1) = (a * s(k)) % m
  BY ShiftedRec
<1>3. s(0) = x
  BY ShiftedRec
<1>4. s(o) = x
  BY OrbitPeriod
<1> HIDE DEF s
<1>5. ASSUME NEW k \in 0..(o-1), y = s(k)
      PROVE  \E i \in 0..(o-1) : (a * y) % m = s(i)
  <2>1. k \in Nat
    OBVIOUS
  <2>2. (a * y) % m = s(k + 1)
    BY <1>2, <1>5, <2>1
  <2>3. CASE k + 1 = o
    <3>1. 0 \in 0..(o-1)
      BY <1>0
    <3>2. QED
      BY <1>3, <1>4, <2>2, <2>3, <3>1, Zenon
  <2>4. CASE k + 1 # o
    <3>1. k + 1 \in 0..(o-1)
      BY <1>0, <2>4
    <3>2. QED
      BY <2>2, <3>1, Zenon
  <2>5. QED
    BY <2>3, <2>4
<1>6. ASSUME NEW k \in 0..(o-1), (a * y) % m = s(k)
      PROVE  \E i \in 0..(o-1) : y = s(i)
  <2>1. PICK i \in 0..(o-1) : s(i + 1) = s(k)
    <3>1. CASE k = 0
      <4>1. o - 1 \in 0..(o-1) /\ (o - 1) + 1 = o
        BY <1>0
      <4>2. QED
        BY <1>3, <1>4, <3>1, <4>1, Zenon
    <3>2. CASE k # 0
      <4>1. k - 1 \in 0..(o-1) /\ (k - 1) + 1 = k
        BY <1>0, <3>2
      <4>2. QED
        BY <4>1, Zenon
    <3>3. QED
      BY <3>1, <3>2
  <2>2. i \in Nat
    OBVIOUS
  <2>3. PICK z \in 0..(m-1) : z = s(i)
    BY <1>1, <2>2
  <2>4. (a * z) % m = (a * y) % m
    BY <1>2, <1>6, <2>1, <2>2, <2>3
  <2>5. z \in Int /\ y \in Int /\ a * z \in Int /\ a * y \in Int
    OBVIOUS
  <2>6. Congruent(a * z, a * y, m)
    BY <1>0, <2>4, <2>5, EqualCongruent, Zenon
  <2>7. Congruent(z, y, m)
    BY <1>0, <2>5, <2>6, CancelUnit, Zenon
  <2>8. z = y
    BY <1>0, <2>7, CongruentResidues
  <2>9. QED
    BY <2>3, <2>8
<1>7. Orbit(a, o, x, m) = {s(k) : k \in 0..(o-1)}
  BY DEF Orbit, s
<1>8. QED
  BY <1>5, <1>6, <1>7

LEMMA OrbitWithin ==
  ASSUME NEW a \in Nat, NEW m \in Nat, m > 1, NEW X, ClosedUnder(X, a, m), NEW x \in X,
         NEW o \in Nat
  PROVE  Orbit(a, o, x, m) \subseteq X /\ (o # 0 => x \in Orbit(a, o, x, m))
<1> DEFINE s(k) == Shifted(a, k, x, m)
           P == {k \in Nat : s(k) \in X}
<1>0. x \in 0..(m-1)
  BY DEF ClosedUnder
<1>1. s(0) = x /\ \A k \in Nat : s(k + 1) = (a * s(k)) % m
  BY <1>0, ShiftedRec
<1> HIDE DEF s
<1>2. 0 \in P
  BY <1>1
<1>3. \A k \in P : k + 1 \in P
  <2> SUFFICES ASSUME NEW k \in Nat, s(k) \in X PROVE s(k + 1) \in X
    OBVIOUS
  <2>1. PICK y \in 1..(m-1) : y = s(k)
    BY DEF ClosedUnder
  <2>2. y \in X
    BY <2>1
  <2>3. (a * y) % m \in X
    BY <2>2, Zenon DEF ClosedUnder
  <2>4. QED
    BY <1>1, <2>1, <2>3
<1>4. P = Nat
  <2> HIDE DEF P
  <2>1. P \subseteq Nat
    BY DEF P
  <2>2. QED
    BY <1>2, <1>3, <2>1, SetInduction
<1>5. \A k \in 0..(o-1) : s(k) \in X
  BY <1>4
<1>6. o # 0 => 0 \in 0..(o-1)
  OBVIOUS
<1>7. Orbit(a, o, x, m) = {s(k) : k \in 0..(o-1)}
  BY DEF Orbit, s
<1>8. QED
  BY <1>1, <1>5, <1>6, <1>7

(* So the order divides the size of every closed set of units.             *)
LEMMA OrbitsDivide ==
  ASSUME NEW a \in Nat, NEW m \in Nat, m > 1, Bezout(a, m), NEW o, IsOrder(o, a, m),
         \A x \in 1..(m-1) : Bezout(x, m)
  PROVE  \A X : ClosedUnder(X, a, m) => \E t \in Nat : Cardinality(X) = t * o
<1> DEFINE Good(X) == \E t \in Nat : Cardinality(X) = t * o
           N == {c \in Nat : \A X : ClosedUnder(X, a, m) /\ Cardinality(X) <= c => Good(X)}
<1>0. o \in Nat /\ o >= 1 /\ o # 0
  BY DEF IsOrder
<1>1. ASSUME NEW X, ClosedUnder(X, a, m) PROVE IsFiniteSet(X) /\ Cardinality(X) \in Nat
  <2>1. IsFiniteSet(1..(m-1))
    <3>1. 1 \in Int /\ m - 1 \in Int
      OBVIOUS
    <3>2. QED
      BY <3>1, FS_Interval
  <2>2. X \in SUBSET (1..(m-1))
    BY <1>1 DEF ClosedUnder
  <2>3. QED
    BY <2>1, <2>2, FS_Subset, FS_CardinalityType
<1>2. Good({})
  <2>1. Cardinality({}) = 0
    BY FS_EmptySet
  <2>2. 0 \in Nat /\ 0 = 0 * o
    BY <1>0
  <2>3. QED
    BY <2>1, <2>2, Zenon
<1>3. ASSUME NEW X, ClosedUnder(X, a, m), Cardinality(X) = 0 PROVE Good(X)
  <2>1. X = {}
    BY <1>1, <1>3, FS_EmptySet
  <2>2. QED
    BY <1>2, <2>1
<1>4. 0 \in N
  <2>1. ASSUME NEW X, ClosedUnder(X, a, m), Cardinality(X) <= 0 PROVE Good(X)
    <3>1. Cardinality(X) \in Nat
      BY <1>1, <2>1
    <3>2. Cardinality(X) = 0
      BY <2>1, <3>1
    <3>3. QED
      BY <1>3, <2>1, <3>2
  <2>2. QED
    BY <2>1
<1>5. \A c \in N : c + 1 \in N
  <2> SUFFICES ASSUME NEW c \in Nat, NEW X,
                      \A Y : ClosedUnder(Y, a, m) /\ Cardinality(Y) <= c => Good(Y),
                      ClosedUnder(X, a, m), Cardinality(X) <= c + 1
               PROVE  Good(X)
    OBVIOUS
  <2>1. IsFiniteSet(X) /\ Cardinality(X) \in Nat
    BY <1>1
  <2>2. CASE X = {}
    BY <1>2, <2>2
  <2>3. CASE X # {}
    <3>1. PICK x \in X : TRUE
      BY <2>3
    <3>2. x \in 1..(m-1) /\ x \in 0..(m-1)
      BY DEF ClosedUnder
    <3>3. Bezout(x, m)
      BY <3>2
    <3> DEFINE O == Orbit(a, o, x, m)
               Y == X \ O
    <3>4. O \subseteq X /\ x \in O
      BY <1>0, OrbitWithin
    <3>5. IsFiniteSet(O) /\ Cardinality(O) = o
      BY <3>2, <3>3, OrbitSize
    <3>6. \A y \in 1..(m-1) : y \in O <=> (a * y) % m \in O
      <4>1. \A y \in 1..(m-1) : y \in 0..(m-1)
        OBVIOUS
      <4>2. QED
        BY <3>2, <3>3, <4>1, OrbitClosed
    <3> HIDE DEF O
    <3>7. ClosedUnder(Y, a, m)
      BY <3>6, Zenon DEF ClosedUnder
    <3>8. Cardinality(Y) = Cardinality(X) - o
      <4>1. O \in SUBSET X /\ X \cap O = O
        BY <3>4
      <4>2. Cardinality(X \ O) = Cardinality(X) - Cardinality(X \cap O)
        BY <2>1, <3>5, FS_Difference
      <4>3. QED
        BY <3>5, <4>1, <4>2
    <3>9. Good(Y)
      <4>1. Cardinality(Y) <= c
        BY <1>0, <2>1, <3>8
      <4>2. QED
        BY <3>7, <4>1
    <3>10. PICK t \in Nat : Cardinality(Y) = t * o
      BY <3>9
    <3>11. (t + 1) * o = t * o + o /\ t + 1 \in Nat
      BY <1>0
    <3>12. Cardinality(X) = (t + 1) * o
      BY <1>0, <2>1, <3>8, <3>10, <3>11
    <3>13. QED
      BY <3>11, <3>12, Zenon
  <2>4. QED
    BY <2>2, <2>3
<1>6. N = Nat
  <2> HIDE DEF N
  <2>1. N \subseteq Nat
    BY DEF N
  <2>2. QED
    BY <1>4, <1>5, <2>1, SetInduction
<1>7. ASSUME NEW X, ClosedUnder(X, a, m) PROVE Good(X)
  <2>1. PICK c \in Nat : c = Cardinality(X)
    BY <1>1, <1>7
  <2>2. c <= c /\ c \in N
    BY <1>6
  <2>3. QED
    BY <1>7, <2>1, <2>2
<1>8. QED
  BY <1>7

(* Fermat: a^(p-1) = 1 modulo a prime p that does not divide a.            *)
LEMMA Fermat ==
  ASSUME NEW a \in Nat, NEW p \in Nat, IsPrime(p), a % p # 0
  PROVE  Power(a, p - 1, p) = 1
<1>0. p > 1 /\ p \in Nat \ {0} /\ a \in Int /\ p \in Int
  BY DEF IsPrime
<1>1. Bezout(a, p)
  BY BezoutPrime
<1>2. \A x \in 1..(p-1) : Bezout(x, p)
  <2> SUFFICES ASSUME NEW x \in 1..(p-1) PROVE Bezout(x, p)
    OBVIOUS
  <2>1. x \in Nat /\ x % p # 0
    OBVIOUS
  <2>2. QED
    BY <2>1, BezoutPrime
<1>3. PICK o : IsOrder(o, a, p)
  BY <1>0, <1>1, OrderExists
<1>4. ClosedUnder(1..(p-1), a, p)
  <2>1. ASSUME NEW y \in 1..(p-1) PROVE (a * y) % p \in 1..(p-1)
    <3>1. y \in Int /\ a * y \in Int
      OBVIOUS
    <3>2. Bezout(a * y, p)
      BY <1>0, <1>1, <1>2, <3>1, BezoutProduct, Zenon
    <3>3. (a * y) % p # 0
      BY <1>0, <3>1, <3>2, UnitNotZero, Zenon
    <3>4. (a * y) % p \in 0..(p-1)
      BY <1>0, <3>1
    <3>5. QED
      BY <3>3, <3>4
  <2>2. QED
    BY <2>1 DEF ClosedUnder
<1>5. Cardinality(1..(p-1)) = p - 1
  <2>1. 1 \in Int /\ p - 1 \in Int /\ ~(1 > p - 1) /\ (p - 1) - 1 + 1 = p - 1
    BY <1>0
  <2>2. QED
    BY <2>1, FS_Interval
<1>6. PICK t \in Nat : p - 1 = t * o
  BY <1>0, <1>1, <1>2, <1>3, <1>4, <1>5, OrbitsDivide
<1>7. o \in Nat /\ Power(a, o, p) = 1 /\ t * o = o * t
  BY <1>3 DEF IsOrder
<1>8. Power(Power(a, o, p), t, p) = Power(a, o * t, p)
  BY <1>0, <1>7, PowerPower
<1>9. Power(1, t, p) = 1
  BY <1>0, PowerOfOne
<1>10. QED
  BY <1>6, <1>7, <1>8, <1>9

(* c is a number of whole turns of p-1.                                    *)
WholeTurns(c, p) == c \in Nat /\ \E k \in Nat : c = k * (p - 1)

(* Exponents count modulo p-1, except that x^0 is 1 for the multiples too. *)
LEMMA FermatExponent ==
  ASSUME NEW x \in Nat, NEW p \in Nat, IsPrime(p), NEW e \in Nat, e # 0,
         NEW c, WholeTurns(c, p)
  PROVE  Power(x, e + c, p) = Power(x, e, p)
<1>0. p > 1 /\ p \in Nat \ {0} /\ p - 1 \in Nat
  BY DEF IsPrime
<1>1. c \in Nat
  BY DEF WholeTurns
<1>2. Power(x, e + c, p) = (Power(x, e, p) * Power(x, c, p)) % p
  BY <1>0, <1>1, PowerSum
<1>3. PICK u \in 0..(p-1) : u = Power(x, e, p)
  BY <1>0, PowerRec
<1>4. CASE x % p # 0
  <2>0. PICK k \in Nat : c = k * (p - 1)
    BY DEF WholeTurns
  <2>1. Power(x, p - 1, p) = 1
    BY <1>4, Fermat
  <2>2. Power(Power(x, p - 1, p), k, p) = Power(x, (p - 1) * k, p)
    BY <1>0, PowerPower
  <2>3. (p - 1) * k = c
    BY <1>0, <2>0
  <2>4. Power(x, c, p) = 1
    <3>1. Power(1, k, p) = 1
      BY <1>0, PowerOfOne
    <3>2. QED
      BY <2>1, <2>2, <2>3, <3>1
  <2>5. (u * 1) % p = u
    BY <1>0
  <2>6. QED
    BY <1>2, <1>3, <2>4, <2>5
<1>5. CASE x % p = 0
  <2>1. \A f \in Nat : f # 0 => Power(x, f, p) = 0
    <3> SUFFICES ASSUME NEW f \in Nat, f # 0 PROVE Power(x, f, p) = 0
      OBVIOUS
    <3>1. PICK g \in Nat : f = g + 1
      <4>1. f - 1 \in Nat /\ f = (f - 1) + 1
        OBVIOUS
      <4>2. QED
        BY <4>1, Zenon
    <3>2. Power(0, g + 1, p) = (Power(0, g, p) * 0) % p
      BY <1>0, PowerRec
    <3>3. PICK w \in Int : w = Power(0, g, p)
      BY <1>0, PowerRec
    <3>4. (w * 0) % p = 0
      BY <1>0
    <3>5. Power(x % p, f, p) = Power(x, f, p)
      BY <1>0, PowerOfResidue
    <3>6. QED
      BY <1>5, <3>1, <3>2, <3>3, <3>4, <3>5
  <2>2. e + c \in Nat /\ e + c # 0
    BY <1>1
  <2>3. QED
    BY <2>1, <2>2
<1>6. QED
  BY <1>4, <1>5

(* The square roots of 1 modulo a prime.                                   *)
LEMMA RootsOfOne ==
  ASSUME NEW p \in Nat, IsPrime(p), NEW x \in 0..(p-1), (x * x) % p = 1
  PROVE  x = 1 \/ x = p - 1
<1>0. p > 1 /\ p \in Nat \ {0} /\ p \in Int
  BY DEF IsPrime
<1> SUFFICES ASSUME x # 1 PROVE x = p - 1
  OBVIOUS
<1>1. x # 0
  <2>1. 0 * 0 = 0 /\ 0 % p = 0
    BY <1>0
  <2>2. QED
    BY <2>1
<1>2. PICK v \in Nat : v = x - 1 /\ v % p # 0
  <2>1. x - 1 \in 1..(p-1)
    BY <1>1
  <2>2. (x - 1) % p = x - 1
    BY <1>0, <2>1
  <2>3. x - 1 \in Nat /\ (x - 1) % p # 0
    BY <2>1, <2>2
  <2>4. QED
    BY <2>3, Zenon
<1>3. Bezout(v, p)
  BY <1>2, BezoutPrime
<1>4. PICK t \in Int : x * x = 1 + t * p
  <2>1. x * x \in Int
    OBVIOUS
  <2>2. PICK q \in Int, r \in 0..(p-1) : q = (x * x) \div p /\ r = (x * x) % p /\ x * x = r + q * p
    BY <1>0, <2>1, Division, Zenon
  <2>3. QED
    BY <2>2
<1>5. Congruent(v * (x + 1), v * 0, p)
  <2>1. (x - 1) * (x + 1) = x * x - 1 /\ v * 0 = 0
    OBVIOUS
  <2>2. v * (x + 1) = v * 0 + t * p
    BY <1>2, <1>4, <2>1
  <2>3. QED
    BY <2>2 DEF Congruent
<1>6. Congruent(x + 1, 0, p)
  <2>1. v \in Int /\ x + 1 \in Int /\ 0 \in Int
    OBVIOUS
  <2>2. QED
    BY <1>0, <1>3, <1>5, <2>1, CancelUnit, Zenon
<1>7. PICK s \in Int : x + 1 = s * p
  BY <1>6 DEF Congruent
<1>8. s = 1
  <2>1. ASSUME s >= 2 PROVE FALSE
    <3>1. s * p >= 2 * p
      BY <1>0, <2>1
    <3>2. QED
      BY <1>0, <1>7, <3>1
  <2>2. ASSUME s <= 0 PROVE FALSE
    <3>1. s * p <= 0
      BY <1>0, <2>2
    <3>2. QED
      BY <1>7, <3>1
  <2>3. QED
    BY <2>1, <2>2
<1>9. QED
  BY <1>7, <1>8

-----------------------------------------------------------------------------
(* Numbers as digits of a fixed width.                                      *)

(* The digits of a width, one for every place.                             *)
DigitArrays(w) == [Nat -> 0..(Pow2[w] - 1)]

(* The recursion of Joined.                                                *)
LEMMA JoinedRec ==
  ASSUME NEW w \in Nat, NEW f \in DigitArrays(w)
  PROVE  /\ Joined(f, w, 0) = 0
         /\ \A k \in Nat : Joined(f, w, k) \in Nat
         /\ \A k \in Nat : Joined(f, w, k+1) = Joined(f, w, k) + f[k] * Pow2[w * k]
<1> DEFINE part == [k \in Nat |-> [v \in Nat |-> v + f[k] * Pow2[w * k]]]
           sum == CHOOSE s : s = [k \in Nat |-> IF k = 0 THEN 0
                                    ELSE s[k-1] + f[k-1] * Pow2[w * (k-1)]]
<1>0. \A k \in Nat : f[k] * Pow2[w * k] \in Nat
  <2> SUFFICES ASSUME NEW k \in Nat PROVE f[k] * Pow2[w * k] \in Nat
    OBVIOUS
  <2>1. w * k \in Nat
    OBVIOUS
  <2>2. Pow2[w * k] \in Nat /\ f[k] \in Nat
    BY <2>1, Pow2Def DEF DigitArrays
  <2>3. QED
    BY <2>2
<1>1. PICK g : Recursion(Nat, 0, part, g)
  <2>1. part \in [Nat -> [Nat -> Nat]]
    BY <1>0
  <2>2. 0 \in Nat
    OBVIOUS
  <2> HIDE DEF part
  <2>3. QED
    BY <2>1, <2>2, PrimRec
<1>2. g \in [Nat -> Nat] /\ g[0] = 0 /\ \A k \in Nat : g[k+1] = part[k][g[k]]
  BY <1>1 DEF Recursion
<1>3. \A k \in Nat : g[k+1] = g[k] + f[k] * Pow2[w * k]
  BY <1>2
<1>4. g = [k \in Nat |-> IF k = 0 THEN 0 ELSE g[k-1] + f[k-1] * Pow2[w * (k-1)]]
  <2>1. ASSUME NEW k \in Nat
        PROVE  g[k] = IF k = 0 THEN 0 ELSE g[k-1] + f[k-1] * Pow2[w * (k-1)]
    <3>1. CASE k = 0
      BY <1>2, <3>1
    <3>2. CASE k # 0
      <4>1. k-1 \in Nat /\ k = (k-1)+1
        BY <3>2
      <4>2. g[(k-1)+1] = g[k-1] + f[k-1] * Pow2[w * (k-1)]
        BY <1>3, <4>1
      <4>3. QED
        BY <4>1, <4>2, <3>2
    <3>3. QED
      BY <3>1, <3>2
  <2>2. QED
    BY <2>1, <1>2
<1>5. sum = [k \in Nat |-> IF k = 0 THEN 0 ELSE sum[k-1] + f[k-1] * Pow2[w * (k-1)]]
  BY <1>4, Zenon
<1>6. \A k : Joined(f, w, k) = sum[k]
  BY DEF Joined
<1> HIDE DEF sum
<1>7. \A k \in Nat : sum[k] = IF k = 0 THEN 0 ELSE sum[k-1] + f[k-1] * Pow2[w * (k-1)]
  BY <1>5, Zenon
<1>8. sum[0] = 0 /\ \A k \in Nat : sum[k+1] = sum[k] + f[k] * Pow2[w * k]
  <2>1. sum[0] = 0
    BY <1>7
  <2>2. ASSUME NEW k \in Nat PROVE sum[k+1] = sum[k] + f[k] * Pow2[w * k]
    <3>1. k+1 \in Nat /\ k+1 # 0 /\ (k+1)-1 = k
      OBVIOUS
    <3>2. QED
      BY <3>1, <1>7
  <2>3. QED
    BY <2>1, <2>2
<1>9. \A k \in Nat : sum[k] \in Nat
  <2> DEFINE P == {k \in Nat : sum[k] \in Nat}
  <2>1. 0 \in P
    BY <1>8
  <2>2. \A k \in P : k+1 \in P
    <3> SUFFICES ASSUME NEW k \in Nat, sum[k] \in Nat PROVE sum[k+1] \in Nat
      OBVIOUS
    <3>1. PICK t \in Nat : t = f[k] * Pow2[w * k]
      BY <1>0
    <3>2. QED
      BY <1>8, <3>1
  <2>3. P = Nat
    BY <2>1, <2>2, SetInduction
  <2>4. QED
    BY <2>3
<1>10. QED
  BY <1>6, <1>8, <1>9, Zenon

(* The weight of the next place.                                           *)
LEMMA NextWeight ==
  ASSUME NEW w \in Nat, NEW k \in Nat
  PROVE  /\ w * k \in Nat /\ w * (k+1) \in Nat
         /\ Pow2[w * k] \in Nat \ {0} /\ Pow2[w] \in Nat \ {0}
         /\ Pow2[w * (k+1)] = Pow2[w * k] * Pow2[w]
<1>1. PICK t \in Nat : t = w * k /\ w * (k+1) = t + w
  <2>1. w * k \in Nat /\ w * (k+1) = w * k + w
    OBVIOUS
  <2>2. QED
    BY <2>1, Zenon
<1>2. Pow2[t + w] = Pow2[t] * Pow2[w]
  BY Pow2Sum
<1>3. Pow2[t] \in Nat \ {0} /\ Pow2[w] \in Nat \ {0} /\ t + w \in Nat
  BY Pow2Def
<1>4. QED
  BY <1>1, <1>2, <1>3, Zenon

(* Digits make a number of their length.                                   *)
LEMMA JoinedBound ==
  ASSUME NEW w \in Nat, NEW f \in DigitArrays(w)
  PROVE  \A k \in Nat : Joined(f, w, k) \in 0..(Pow2[w * k] - 1)
<1> DEFINE P == {k \in Nat : Joined(f, w, k) \in 0..(Pow2[w * k] - 1)}
<1>1. 0 \in P
  <2>1. w * 0 = 0
    OBVIOUS
  <2>2. Joined(f, w, 0) = 0
    BY JoinedRec
  <2>3. Pow2[w * 0] = 1
    BY <2>1, Pow2Def, Zenon
  <2>4. Joined(f, w, 0) \in 0..(Pow2[w * 0] - 1)
    BY <2>2, <2>3
  <2>5. 0 \in Nat
    OBVIOUS
  <2>6. QED
    BY <2>4, <2>5, Zenon
<1>2. ASSUME NEW k \in P PROVE k+1 \in P
  <2>1. Joined(f, w, k+1) = Joined(f, w, k) + f[k] * Pow2[w * k]
    BY JoinedRec
  <2>2. PICK p \in Nat \ {0}, q \in Nat \ {0} :
          p = Pow2[w * k] /\ q = Pow2[w] /\ Pow2[w * (k+1)] = p * q
    <3>1. k \in Nat
      OBVIOUS
    <3>2. /\ Pow2[w * k] \in Nat \ {0} /\ Pow2[w] \in Nat \ {0}
          /\ Pow2[w * (k+1)] = Pow2[w * k] * Pow2[w]
      BY <3>1, NextWeight
    <3>3. QED
      BY <3>2, Zenon
  <2>3. PICK low \in 0..(p-1), digit \in 0..(q-1) : low = Joined(f, w, k) /\ digit = f[k]
    BY <2>2 DEF DigitArrays
  <2>4. digit * p \in Nat /\ digit * p <= (q - 1) * p
    <3>1. digit \in Nat /\ q - 1 \in Nat /\ digit <= q - 1
      OBVIOUS
    <3>2. QED
      BY <3>1, TimesMono
  <2>5. (q - 1) * p = p * q - p /\ p * q \in Nat
    OBVIOUS
  <2>6. low + digit * p \in 0..(p * q - 1)
    <3>1. PICK s \in Nat, pq \in Nat : s = digit * p /\ pq = p * q
      BY <2>4, <2>5
    <3>2. QED
      BY <2>4, <2>5, <3>1
  <2>7. Joined(f, w, k+1) = low + digit * p
    BY <2>1, <2>2, <2>3, Zenon
  <2>8. Joined(f, w, k+1) \in 0..(Pow2[w * (k+1)] - 1)
    BY <2>2, <2>6, <2>7, Zenon
  <2>9. QED
    BY <2>8
<1>3. P = Nat
  <2> HIDE DEF P
  <2>1. P \subseteq Nat
    BY DEF P
  <2>2. QED
    BY <1>1, <1>2, <2>1, SetInduction
<1>4. QED
  BY <1>3

(* Only the digits put together count.                                     *)
LEMMA JoinedSame ==
  ASSUME NEW w \in Nat, NEW f \in DigitArrays(w), NEW g \in DigitArrays(w),
         NEW len \in Nat, \A k \in 0..(len-1) : f[k] = g[k]
  PROVE  Joined(f, w, len) = Joined(g, w, len)
<1> DEFINE P == {k \in Nat : k <= len => Joined(f, w, k) = Joined(g, w, k)}
<1>1. 0 \in P
  BY JoinedRec
<1>2. ASSUME NEW k \in P PROVE k+1 \in P
  <2>1. /\ Joined(f, w, k+1) = Joined(f, w, k) + f[k] * Pow2[w * k]
        /\ Joined(g, w, k+1) = Joined(g, w, k) + g[k] * Pow2[w * k]
    BY JoinedRec
  <2>2. ASSUME k+1 <= len PROVE Joined(f, w, k+1) = Joined(g, w, k+1)
    <3>1. k \in 0..(len-1) /\ k <= len
      BY <2>2
    <3>2. f[k] = g[k] /\ Joined(f, w, k) = Joined(g, w, k)
      BY <3>1
    <3>3. QED
      BY <2>1, <3>2, Zenon
  <2>3. QED
    BY <2>2
<1>3. P = Nat
  <2> HIDE DEF P
  <2>1. P \subseteq Nat
    BY DEF P
  <2>2. QED
    BY <1>1, <1>2, <2>1, SetInduction
<1>4. QED
  BY <1>3

-----------------------------------------------------------------------------
(* BPow[k] is B^k: the recursive definition really defines a function.     *)
LEMMA BPowDef ==
  /\ BPow \in [Nat -> Nat \ {0}]
  /\ BPow[0] = 1
  /\ \A k \in Nat : BPow[k+1] = B * BPow[k]
<1> DEFINE step == [k \in Nat |-> [v \in Nat |-> B * v]]
<1>a. PICK f : Recursion(Nat, 1, step, f)
  <2>1. step \in [Nat -> [Nat -> Nat]]
    BY BaseAssumption
  <2>2. 1 \in Nat
    OBVIOUS
  <2> HIDE DEF step
  <2>3. QED
    BY <2>1, <2>2, PrimRec
<1>1. f \in [Nat -> Nat] /\ f[0] = 1 /\ \A k \in Nat : f[k+1] = step[k][f[k]]
  BY <1>a DEF Recursion
<1>2. f = [k \in Nat |-> IF k = 0 THEN 1 ELSE B * f[k-1]]
  <2>1. ASSUME NEW k \in Nat PROVE f[k] = IF k = 0 THEN 1 ELSE B * f[k-1]
    <3>1. CASE k = 0
      BY <1>1, <3>1
    <3>2. CASE k # 0
      <4>1. k-1 \in Nat /\ k = (k-1)+1
        BY <3>2
      <4>2. f[(k-1)+1] = step[k-1][f[k-1]]
        BY <1>1, <4>1
      <4>3. f[k-1] \in Nat
        BY <1>1, <4>1
      <4>4. QED
        BY <4>1, <4>2, <4>3, <3>2
    <3>3. QED
      BY <3>1, <3>2
  <2>2. QED
    BY <2>1, <1>1
<1>3. BPow = [k \in Nat |-> IF k = 0 THEN 1 ELSE B * BPow[k-1]]
  BY <1>2, Zenon DEF BPow
<1>4. \A k \in Nat : BPow[k] = IF k = 0 THEN 1 ELSE B * BPow[k-1]
  BY <1>3, Zenon
<1>5. BPow[0] = 1
  BY <1>4
<1>6. \A k \in Nat : BPow[k+1] = B * BPow[k]
  BY <1>4
<1>7. \A k \in Nat : BPow[k] \in Nat \ {0}
  <2> DEFINE P == {k \in Nat : BPow[k] \in Nat \ {0}}
  <2>1. 0 \in P
    BY <1>5
  <2>2. \A k \in P : k+1 \in P
    <3> SUFFICES ASSUME NEW k \in Nat, BPow[k] \in Nat \ {0}
                 PROVE  BPow[k+1] \in Nat \ {0}
      OBVIOUS
    <3>1. \A x, y \in Nat \ {0} : x * y \in Nat \ {0}
      OBVIOUS
    <3>2. QED
      BY <1>6, <3>1, BaseAssumption
  <2>3. P = Nat
    BY <2>1, <2>2, SetInduction
  <2>4. QED
    BY <2>3
<1>8. BPow \in [Nat -> Nat \ {0}]
  BY <1>3, <1>7
<1>9. QED
  BY <1>5, <1>6, <1>8

(* The prefix sums of an array of integers follow their recursion.         *)
LEMMA LimbSumRec ==
  ASSUME NEW x, \A k \in Nat : Limb(x, k) \in Int
  PROVE  /\ LimbSum(x, 0) = 0
         /\ \A k \in Nat : LimbSum(x, k) \in Int
         /\ \A k \in Nat : LimbSum(x, k+1) = LimbSum(x, k) + Limb(x, k) * BPow[k]
<1> DEFINE L == [k \in Nat |-> Limb(x, k)]
           step == [k \in Nat |-> [v \in Int |-> v + Limb(x, k) * BPow[k]]]
           sum == CHOOSE s : s = [i \in Nat |-> IF i = 0 THEN 0
                                    ELSE s[i-1] + Limb(x, i-1) * BPow[i-1]]
<1>0. \A k \in Nat : Limb(x, k) * BPow[k] \in Int
  BY BPowDef
<1>a. PICK f : Recursion(Int, 0, step, f)
  <2>1. step \in [Nat -> [Int -> Int]]
    BY <1>0
  <2>2. 0 \in Int
    OBVIOUS
  <2> HIDE DEF step
  <2>3. QED
    BY <2>1, <2>2, PrimRec
<1>1. f \in [Nat -> Int] /\ f[0] = 0 /\ \A k \in Nat : f[k+1] = step[k][f[k]]
  BY <1>a DEF Recursion
<1>2. \A k \in Nat : f[k+1] = f[k] + Limb(x, k) * BPow[k]
  BY <1>1
<1>3. f = [i \in Nat |-> IF i = 0 THEN 0 ELSE f[i-1] + Limb(x, i-1) * BPow[i-1]]
  <2>1. ASSUME NEW k \in Nat
        PROVE  f[k] = IF k = 0 THEN 0 ELSE f[k-1] + Limb(x, k-1) * BPow[k-1]
    <3>1. CASE k = 0
      BY <1>1, <3>1
    <3>2. CASE k # 0
      <4>1. k-1 \in Nat /\ k = (k-1)+1
        BY <3>2
      <4>2. f[(k-1)+1] = f[k-1] + Limb(x, k-1) * BPow[k-1]
        BY <1>2, <4>1
      <4>3. QED
        BY <4>1, <4>2, <3>2
    <3>3. QED
      BY <3>1, <3>2
  <2>2. QED
    BY <2>1, <1>1
<1>4. sum = [i \in Nat |-> IF i = 0 THEN 0 ELSE sum[i-1] + Limb(x, i-1) * BPow[i-1]]
  BY <1>3, Zenon
<1>5. \A k : LimbSum(x, k) = sum[k]
  BY DEF LimbSum
<1> HIDE DEF sum
<1>6. \A k \in Nat : sum[k] = IF k = 0 THEN 0 ELSE sum[k-1] + Limb(x, k-1) * BPow[k-1]
  BY <1>4, Zenon
<1>7. sum[0] = 0 /\ \A k \in Nat : sum[k+1] = sum[k] + Limb(x, k) * BPow[k]
  <2>1. sum[0] = 0
    BY <1>6
  <2>2. ASSUME NEW k \in Nat PROVE sum[k+1] = sum[k] + Limb(x, k) * BPow[k]
    <3>1. k+1 \in Nat /\ k+1 # 0 /\ (k+1)-1 = k
      OBVIOUS
    <3>2. QED
      BY <3>1, <1>6
  <2>3. QED
    BY <2>1, <2>2
<1>8. \A k \in Nat : sum[k] \in Int
  <2> DEFINE P == {k \in Nat : sum[k] \in Int}
  <2>1. 0 \in P
    BY <1>7
  <2>2. \A k \in P : k+1 \in P
    BY <1>7, <1>0
  <2>3. P = Nat
    BY <2>1, <2>2, SetInduction
  <2>4. QED
    BY <2>3
<1>9. QED
  BY <1>5, <1>7, <1>8

(* A sum depends on the limbs it adds and on no other.                     *)
LEMMA LimbSumSame ==
  ASSUME NEW x, NEW y, \A k \in Nat : Limb(x, k) \in Int, \A k \in Nat : Limb(y, k) \in Int,
         NEW j \in Nat, \A k \in 0..(j-1) : Limb(y, k) = Limb(x, k)
  PROVE  LimbSum(y, j) = LimbSum(x, j)
<1> DEFINE P == {k \in Nat : k <= j => LimbSum(y, k) = LimbSum(x, k)}
<1>1. 0 \in P
  BY LimbSumRec
<1>2. \A k \in P : k+1 \in P
  <2> SUFFICES ASSUME NEW k \in Nat, k+1 <= j, LimbSum(y, k) = LimbSum(x, k)
               PROVE  LimbSum(y, k+1) = LimbSum(x, k+1)
    OBVIOUS
  <2>1. Limb(y, k) = Limb(x, k)
    OBVIOUS
  <2>2. /\ LimbSum(y, k+1) = LimbSum(y, k) + Limb(y, k) * BPow[k]
        /\ LimbSum(x, k+1) = LimbSum(x, k) + Limb(x, k) * BPow[k]
    BY LimbSumRec
  <2>3. QED
    BY <2>1, <2>2
<1>3. P = Nat
  BY <1>1, <1>2, SetInduction
<1>4. QED
  BY <1>3

(* Writing limb j changes the sums above j by the change of that limb.     *)
LEMMA LimbSumWrite ==
  ASSUME NEW x, NEW y, \A k \in Nat : Limb(x, k) \in Int, \A k \in Nat : Limb(y, k) \in Int,
         NEW j \in Nat, \A k \in Nat : k # j => Limb(y, k) = Limb(x, k)
  PROVE  /\ \A k \in Nat : k <= j => LimbSum(y, k) = LimbSum(x, k)
         /\ \A k \in Nat : k > j =>
              LimbSum(y, k) = LimbSum(x, k) + Limb(y, j) * BPow[j] - Limb(x, j) * BPow[j]
<1> DEFINE P == {k \in Nat : k > j =>
              LimbSum(y, k) = LimbSum(x, k) + Limb(y, j) * BPow[j] - Limb(x, j) * BPow[j]}
<1>1. \A k \in Nat : k <= j => LimbSum(y, k) = LimbSum(x, k)
  BY LimbSumSame
<1>2. 0 \in P
  OBVIOUS
<1>3. \A k \in P : k+1 \in P
  <2> SUFFICES ASSUME NEW k \in P, k+1 > j
               PROVE  LimbSum(y, k+1) = LimbSum(x, k+1) + Limb(y, j) * BPow[j] - Limb(x, j) * BPow[j]
    OBVIOUS
  <2>1. /\ LimbSum(y, k+1) = LimbSum(y, k) + Limb(y, k) * BPow[k]
        /\ LimbSum(x, k+1) = LimbSum(x, k) + Limb(x, k) * BPow[k]
    BY LimbSumRec
  <2>2. /\ LimbSum(x, k) \in Int /\ LimbSum(y, k) \in Int
        /\ Limb(x, k) * BPow[k] \in Int /\ Limb(y, k) * BPow[k] \in Int
        /\ Limb(x, j) * BPow[j] \in Int /\ Limb(y, j) * BPow[j] \in Int
    <3>1. k \in Nat
      OBVIOUS
    <3>2. LimbSum(x, k) \in Int /\ LimbSum(y, k) \in Int
      BY <3>1, LimbSumRec
    <3>3. /\ BPow[k] \in Int /\ BPow[j] \in Int
          /\ Limb(x, k) \in Int /\ Limb(y, k) \in Int
          /\ Limb(x, j) \in Int /\ Limb(y, j) \in Int
      BY <3>1, BPowDef
    <3>4. QED
      BY <3>2, <3>3
  <2>3. CASE k = j
    BY <2>1, <2>2, <2>3, <1>1
  <2>4. CASE k # j
    <3>1. k > j /\ Limb(y, k) = Limb(x, k)
      BY <2>4
    <3>2. LimbSum(y, k) = LimbSum(x, k) + Limb(y, j) * BPow[j] - Limb(x, j) * BPow[j]
      BY <3>1
    <3>3. QED
      BY <3>1, <3>2, <2>1, <2>2
  <2>5. QED
    BY <2>3, <2>4
<1>4. P = Nat
  BY <1>2, <1>3, SetInduction
<1>5. QED
  BY <1>1, <1>4

(* k limbs hold a number below B^k.                                        *)
LEMMA LimbSumBound ==
  ASSUME NEW x, \A k \in Nat : Limb(x, k) \in Word
  PROVE  \A k \in Nat : LimbSum(x, k) \in Nat /\ LimbSum(x, k) < BPow[k]
<1> DEFINE P == {k \in Nat : LimbSum(x, k) \in Nat /\ LimbSum(x, k) < BPow[k]}
<1>0. \A k \in Nat : Limb(x, k) \in Int
  BY BaseAssumption DEF Word
<1>1. 0 \in P
  BY <1>0, LimbSumRec, BPowDef
<1>2. \A k \in P : k+1 \in P
  <2> SUFFICES ASSUME NEW k \in Nat, LimbSum(x, k) \in Nat, LimbSum(x, k) < BPow[k]
               PROVE  LimbSum(x, k+1) \in Nat /\ LimbSum(x, k+1) < BPow[k+1]
    OBVIOUS
  <2>1. LimbSum(x, k+1) = LimbSum(x, k) + Limb(x, k) * BPow[k] /\ BPow[k+1] = B * BPow[k]
    BY <1>0, LimbSumRec, BPowDef
  <2>2. \A l \in 0..(B-1), p, v \in Nat : v < p => v + l * p \in Nat /\ v + l * p < B * p
    <3> SUFFICES ASSUME NEW l \in 0..(B-1), NEW p \in Nat, NEW v \in Nat, v < p
                 PROVE  v + l * p \in Nat /\ v + l * p < B * p
      OBVIOUS
    <3>1. l * p <= (B-1) * p /\ l * p \in Nat
      BY BaseAssumption
    <3>2. B * p = (B-1) * p + p
      BY BaseAssumption
    <3>3. QED
      BY <3>1, <3>2, BaseAssumption
  <2>3. BPow[k] \in Nat /\ Limb(x, k) \in 0..(B-1)
    BY BPowDef DEF Word
  <2>4. QED
    BY <2>1, <2>2, <2>3
<1>3. P = Nat
  BY <1>1, <1>2, SetInduction
<1>4. QED
  BY <1>3

(* An array of words reads as itself up to its length and as 0 beyond.     *)
LEMMA ArrayLimbs ==
  ASSUME NEW len \in Nat, NEW x \in [0..len -> Word]
  PROVE  /\ \A k \in Nat : Limb(x, k) \in Word /\ Limb(x, k) \in Int
         /\ \A k \in 0..len : Limb(x, k) = x[k]
BY BaseAssumption DEF Limb, Word

(* The sums of an array of words, and their recursion and bound.           *)
LEMMA ArraySum ==
  ASSUME NEW len \in Nat, NEW x \in [0..len -> Word]
  PROVE  /\ LimbSum(x, 0) = 0
         /\ \A k \in Nat : LimbSum(x, k) \in Nat /\ LimbSum(x, k) < BPow[k]
         /\ \A k \in 0..len : LimbSum(x, k+1) = LimbSum(x, k) + x[k] * BPow[k]
<1>1. \A k \in Nat : Limb(x, k) \in Word /\ Limb(x, k) \in Int
  BY ArrayLimbs
<1>2. \A k \in 0..len : k \in Nat /\ Limb(x, k) = x[k]
  BY ArrayLimbs
<1>3. QED
  BY <1>1, <1>2, LimbSumRec, LimbSumBound

(* y is the array x after the assignment of v to limb j.                   *)
Written(x, y, j, v) ==
  DOMAIN y = DOMAIN x /\ y[j] = v /\ \A k \in DOMAIN x : k # j => y[k] = x[k]

(* The next digit of b extends its value modulo a power of the base.       *)
LEMMA NextDigit ==
  ASSUME NEW b \in Nat, NEW k \in Nat
  PROVE  LET digit == (b \div BPow[k]) % B
         IN  /\ digit \in Word /\ b % BPow[k] \in 0..(BPow[k] - 1)
             /\ b % BPow[k+1] = (b % BPow[k]) + digit * BPow[k]
<1> DEFINE digit == (b \div BPow[k]) % B
<1>1. PICK P \in Nat \ {0} : P = BPow[k]
  BY BPowDef
<1>2. BPow[k+1] = B * P /\ B \in Nat \ {0}
  BY <1>1, BPowDef, BaseAssumption
<1>3. PICK h \in Nat, l \in 0..(P-1) : h = b \div P /\ l = b % P /\ b = l + h * P
  <2>1. PICK h \in Int, l \in 0..(P-1) : h = b \div P /\ l = b % P /\ b = l + h * P
    BY Division
  <2>2. h \in Nat
    BY <2>1
  <2>3. QED
    BY <2>1, <2>2, Zenon
<1>4. PICK e \in Int, g \in 0..(B-1) : g = h % B /\ h = g + e * B
  <2>1. h \in Int
    OBVIOUS
  <2>2. QED
    BY <1>2, <2>1, Division, Zenon
<1>5. digit = g
  BY <1>1, <1>3, <1>4
<1>6. b = (l + g * P) + e * (B * P)
  <2>1. PICK x \in Int, y \in Int, z \in Int : x = h * P /\ y = g * P /\ z = e * (B * P)
    BY <1>2
  <2>2. (g + e * B) * P = g * P + e * (B * P)
    BY <1>2
  <2>3. x = y + z
    BY <1>4, <2>1, <2>2
  <2>4. b = (l + y) + z
    BY <1>3, <2>1, <2>3
  <2>5. QED
    BY <2>1, <2>4
<1>7. l + g * P \in 0..((B * P) - 1)
  <2>1. g * P <= (B - 1) * P /\ g * P \in Nat
    <3>1. g \in Nat /\ B - 1 \in Nat /\ g <= B - 1
      BY <1>2
    <3>2. QED
      BY <3>1, TimesMono
  <2>2. (B - 1) * P = B * P - P
    BY <1>2
  <2>3. B * P \in Int
    BY <1>2
  <2>4. QED
    BY <1>2, <1>3, <1>4, <2>1, <2>2, <2>3
<1>8. B * P \in Nat \ {0} /\ e \in Int
  BY <1>2
<1>9. PICK m \in Nat \ {0}, v \in Nat : m = B * P /\ v = l + g * P /\ v \in 0..(m-1)
  BY <1>7, <1>8
<1>10. (v + e * m) % m = v
  BY <1>9, Residue
<1>11. b % (B * P) = l + g * P
  BY <1>6, <1>9, <1>10
<1>12. QED
  <2>1. digit \in Word
    BY <1>5 DEF Word
  <2>2. b % BPow[k] = l /\ l \in 0..(BPow[k] - 1)
    BY <1>1, <1>3
  <2>3. b % BPow[k+1] = l + g * P
    BY <1>2, <1>11
  <2>4. QED
    BY <1>1, <1>5, <2>1, <2>2, <2>3

(* The digits of a number below B^s, put together again.                   *)
LEMMA DigitsValue ==
  ASSUME NEW v \in Nat, NEW s \in Nat \ {0}
  PROVE  LET x == [k \in 0..(s-1) |-> (v \div BPow[k]) % B]
         IN  /\ \A k \in 0..(s-1) : x[k] \in Word
             /\ \A k \in 0..s : LimbSum(x, k) = v % BPow[k]
<1> DEFINE x == [k \in 0..(s-1) |-> (v \div BPow[k]) % B]
<1>1. \A k \in 0..(s-1) : x[k] \in Word
  <2> SUFFICES ASSUME NEW k \in 0..(s-1) PROVE (v \div BPow[k]) % B \in Word
    OBVIOUS
  <2>1. k \in Nat
    OBVIOUS
  <2>2. QED
    BY <2>1, NextDigit
<1>2. PICK len \in Nat : len = s - 1
  OBVIOUS
<1>3. x \in [0..len -> Word]
  BY <1>1, <1>2
<1>4. x = [k \in 0..(s-1) |-> (v \div BPow[k]) % B]
  OBVIOUS
<1> HIDE DEF x
<1> DEFINE P == {k \in Nat : k <= s => LimbSum(x, k) = v % BPow[k]}
<1>5. 0 \in P
  <2>1. LimbSum(x, 0) = 0 /\ BPow[0] = 1 /\ v % 1 = 0
    BY <1>3, ArraySum, BPowDef
  <2>2. QED
    BY <2>1
<1>6. \A k \in P : k + 1 \in P
  <2> SUFFICES ASSUME NEW k \in Nat, k + 1 <= s, LimbSum(x, k) = v % BPow[k]
               PROVE  LimbSum(x, k + 1) = v % BPow[k + 1]
    OBVIOUS
  <2>1. k \in 0..len /\ k \in 0..(s-1)
    BY <1>2
  <2>2. LimbSum(x, k + 1) = LimbSum(x, k) + x[k] * BPow[k]
    BY <1>3, <2>1, ArraySum
  <2>3. x[k] = (v \div BPow[k]) % B
    BY <1>4, <2>1
  <2>4. QED
    BY <2>2, <2>3, NextDigit
<1>7. P = Nat
  <2> HIDE DEF P
  <2>1. P \subseteq Nat
    BY DEF P
  <2>2. QED
    BY <1>5, <1>6, <2>1, SetInduction
<1>8. \A k \in 0..s : LimbSum(x, k) = v % BPow[k]
  BY <1>7
<1>9. QED
  BY <1>1, <1>4, <1>8

(* Assigning one limb of an array of words.                                *)
LEMMA ArrayWrite ==
  ASSUME NEW len \in Nat, NEW x \in [0..len -> Word], NEW y \in [0..len -> Word],
         NEW j \in 0..len, NEW v, Written(x, y, j, v)
  PROVE  /\ \A k \in Nat : k <= j => LimbSum(y, k) = LimbSum(x, k)
         /\ \A k \in Nat : k > j =>
              LimbSum(y, k) = LimbSum(x, k) + v * BPow[j] - x[j] * BPow[j]
<1>1. y[j] = v /\ \A k \in 0..len : k # j => y[k] = x[k]
  BY DEF Written
<1>2. /\ \A k \in Nat : Limb(x, k) \in Int /\ Limb(y, k) \in Int
      /\ Limb(y, j) = v /\ Limb(x, j) = x[j]
  BY <1>1, ArrayLimbs
<1>3. \A k \in Nat : k # j => Limb(y, k) = Limb(x, k)
  BY <1>1 DEF Limb
<1>4. /\ \A k \in Nat : k <= j => LimbSum(y, k) = LimbSum(x, k)
      /\ \A k \in Nat : k > j =>
           LimbSum(y, k) = LimbSum(x, k) + Limb(y, j) * BPow[j] - Limb(x, j) * BPow[j]
  <2>1. j \in Nat
    OBVIOUS
  <2>2. \A k \in Nat : Limb(x, k) \in Int
    BY <1>2
  <2>3. \A k \in Nat : Limb(y, k) \in Int
    BY <1>2
  <2>4. QED
    BY <2>1, <2>2, <2>3, <1>3, LimbSumWrite
<1>5. QED
  BY <1>1, <1>2, <1>4

-----------------------------------------------------------------------------
(* Division by the base: the two halves of an intermediate value.          *)
LEMMA SplitWord ==
  ASSUME NEW x \in Nat
  PROVE  /\ U32(x) \in Word /\ Hi(x) \in Nat
         /\ x = Hi(x) * B + U32(x)
BY BaseAssumption DEF U32, Hi, Word

(* A value below B*B is not changed by 64-bit wrapping, and its high half  *)
(* is a word.                                                              *)
LEMMA NoWrap64 ==
  ASSUME NEW x \in Nat, x < B * B
  PROVE  U64(x) = x /\ Hi(x) \in Word
<1>1. U64(x) = x
  BY BaseAssumption DEF U64
<1>2. Hi(x) \in Nat /\ x >= Hi(x) * B
  BY SplitWord, BaseAssumption DEF Word
<1>3. Hi(x) < B
  <2>1. SUFFICES ASSUME Hi(x) >= B PROVE FALSE
    BY <1>2, BaseAssumption
  <2>2. Hi(x) * B >= B * B
    BY <2>1, <1>2, BaseAssumption
  <2>3. QED
    BY <2>2, <1>2, BaseAssumption
<1>4. QED
  BY <1>1, <1>2, <1>3, BaseAssumption DEF Word

(* Two words multiplied and two added stay below B*B: (B-1)^2 + 2(B-1).    *)
LEMMA ProductFits ==
  ASSUME NEW u \in Word, NEW v \in Word, NEW t \in Word, NEW c \in Word
  PROVE  u * v + t + c \in Nat /\ u * v + t + c < B * B
<1>1. u * v <= (B-1) * (B-1) /\ u * v \in Nat
  BY BaseAssumption DEF Word
<1>2. (B-1) * (B-1) = B * B - 2 * B + 1
  BY BaseAssumption
<1>3. QED
  BY <1>1, <1>2, BaseAssumption DEF Word

(* A wrapped 64-bit difference t - n - c: its low half is the difference   *)
(* plus B exactly when bit 32 is set, which is when it was negative.       *)
LEMMA SubtractWord ==
  ASSUME NEW t \in Word, NEW u \in Word, NEW c \in {0, 1}
  PROVE  LET d == U64(t - u - c)
         IN  /\ Hi(d) % 2 \in {0, 1} /\ U32(d) \in Word
             /\ U32(d) - (Hi(d) % 2) * B = t - u - c
<1> DEFINE x == t - u - c
           d == U64(x)
<1>1. x \in Int /\ -B <= x /\ x < B /\ B \in Nat /\ B >= 2
  BY BaseAssumption DEF Word
<1>2. CASE x >= 0
  <2>1. B <= B * B
    BY BaseAssumption
  <2>2. d = x
    BY <1>1, <1>2, <2>1 DEF U64
  <2>3. Hi(x) = 0 /\ U32(x) = x
    BY <1>1, <1>2 DEF Hi, U32
  <2>4. QED
    BY <2>2, <2>3, <1>1, <1>2 DEF Word
<1>3. CASE x < 0
  <2>1. d = x + B * B
    <3>1. x + B * B \in 0..(B * B - 1)
      <4>1. B <= B * B
        BY BaseAssumption
      <4>2. QED
        BY <4>1, <1>1, <1>3
    <3>2. x % (B * B) = x + B * B
      <4>1. \A q \in Nat \ {0}, y \in Int : y < 0 /\ y + q \in 0..(q-1) => y % q = y + q
        OBVIOUS
      <4>2. B * B \in Nat \ {0}
        BY BaseAssumption
      <4>3. QED
        BY <4>1, <4>2, <3>1, <1>1, <1>3
    <3>3. QED
      BY <3>2 DEF U64
  <2>2. d = (B - 1) * B + (x + B) /\ x + B \in 0..(B-1)
    BY <2>1, <1>1, <1>3
  <2>3. \A h \in Nat, l \in 0..(B-1) : (h * B + l) \div B = h /\ (h * B + l) % B = l
    BY <1>1
  <2>4. Hi(d) = B - 1 /\ U32(d) = x + B
    <3>1. B - 1 \in Nat
      BY <1>1
    <3>2. /\ ((B - 1) * B + (x + B)) \div B = B - 1
          /\ ((B - 1) * B + (x + B)) % B = x + B
      <4> HIDE DEF x
      <4>1. QED
        BY <2>2, <2>3, <3>1, Zenon
    <3>3. QED
      BY <2>2, <3>2, Zenon DEF Hi, U32
  <2>5. (B - 1) % 2 = 1
    BY BaseAssumption
  <2>6. QED
    BY <2>4, <2>5, <2>2, <1>1 DEF Word
<1>4. QED
  BY <1>1, <1>2, <1>3

(* A number coprime to the base is coprime to its powers.                  *)
LEMMA BasePowers ==
  ASSUME NEW v \in Int, Bezout(B, v)
  PROVE  /\ \A k \in Nat : Bezout(BPow[k], v)
         /\ Bezout(R, v)
<1> DEFINE P == {k \in Nat : Bezout(BPow[k], v)}
<1>2. 0 \in P
  <2>1. 1 * 1 + v * 0 = 1
    OBVIOUS
  <2>2. Bezout(1, v)
    BY <2>1 DEF Bezout
  <2>3. QED
    BY <2>2, BPowDef
<1>3. \A k \in P : k + 1 \in P
  <2> SUFFICES ASSUME NEW k \in Nat, Bezout(BPow[k], v) PROVE Bezout(BPow[k+1], v)
    OBVIOUS
  <2>1. BPow[k+1] = B * BPow[k] /\ BPow[k] \in Int /\ B \in Int
    BY BPowDef, BaseAssumption
  <2>2. QED
    BY <2>1, BezoutProduct
<1>4. P = Nat
  <2> HIDE DEF P
  <2>1. P \subseteq Nat
    BY DEF P
  <2>2. QED
    BY <1>2, <1>3, <2>1, SetInduction
<1>5. S \in P
  BY <1>4, SizeAssumption
<1>6. QED
  BY <1>4, <1>5 DEF R

-----------------------------------------------------------------------------
(* The loops of the product.                                               *)

(* The limb indices the code uses.                                         *)
LEMMA Indices ==
  /\ S \in Nat /\ S >= 1 /\ S-1 \in Nat /\ S+1 \in Nat /\ B \in Nat /\ B >= 2
  /\ 0 \in Word /\ S \in 0..(S+1) /\ S+1 \in 0..(S+1) /\ S-1 \in 0..(S+1)
  /\ S-1 \in 0..(S-1) /\ 0 \in 0..(S-1) /\ 0 \in 0..(S+1)
BY SizeAssumption, BaseAssumption DEF Word

(* x*y + t + c, and t + c, split into a high and a low word.               *)
Accumulated(x, y, t, c, h, u) == x * y + t + c = h * B + u
Carried(t, c, h, u)           == t + c = h * B + u

(* The working row T has S+2 limbs: its sums, and the effect of a write.   *)
LEMMA RowLimbs ==
  ASSUME NEW T \in [0..(S+1) -> Word]
  PROVE  /\ LimbSum(T, 0) = 0
         /\ \A k \in Nat : LimbSum(T, k) \in Nat /\ LimbSum(T, k) < BPow[k]
         /\ \A k \in 0..(S+1) : LimbSum(T, k+1) = LimbSum(T, k) + T[k] * BPow[k]
<1>1. S+1 \in Nat
  BY Indices
<1>2. QED
  BY <1>1, ArraySum

LEMMA RowWrite ==
  ASSUME NEW T \in [0..(S+1) -> Word],
         NEW T2 \in [0..(S+1) -> Word],
         NEW j \in 0..(S+1), NEW v, Written(T, T2, j, v)
  PROVE  /\ \A k \in Nat : k <= j => LimbSum(T2, k) = LimbSum(T, k)
         /\ \A k \in Nat : k > j =>
              LimbSum(T2, k) = LimbSum(T, k) + v * BPow[j] - T[j] * BPow[j]
<1>1. PICK len \in Nat : len = S+1
  BY Indices
<1>2. T \in [0..len -> Word] /\ T2 \in [0..len -> Word] /\ j \in 0..len
  BY <1>1
<1>3. /\ \A k \in Nat : k <= j => LimbSum(T2, k) = LimbSum(T, k)
      /\ \A k \in Nat : k > j =>
           LimbSum(T2, k) = LimbSum(T, k) + v * BPow[j] - T[j] * BPow[j]
  BY <1>2, ArrayWrite
<1>4. QED
  BY <1>1, <1>3

(* An operand has S limbs.                                                 *)
LEMMA OperandSum ==
  ASSUME NEW a \in Limbs
  PROVE  /\ LimbSum(a, 0) = 0
         /\ \A k \in Nat : LimbSum(a, k) \in Nat /\ LimbSum(a, k) < BPow[k]
         /\ \A k \in 0..(S-1) : LimbSum(a, k+1) = LimbSum(a, k) + a[k] * BPow[k]
         /\ Value(a) \in Nat /\ Value(a) < BPow[S]
<1>1. S-1 \in Nat /\ S \in Nat
  BY Indices
<1>2. a \in [0..(S-1) -> Word]
  BY DEF Limbs
<1>3. QED
  BY <1>1, <1>2, ArraySum DEF Value

LEMMA OperandWrite ==
  ASSUME NEW a \in Limbs,
         NEW a2 \in Limbs,
         NEW j \in 0..(S-1), NEW v, Written(a, a2, j, v)
  PROVE  /\ \A k \in Nat : k <= j => LimbSum(a2, k) = LimbSum(a, k)
         /\ \A k \in Nat : k > j =>
              LimbSum(a2, k) = LimbSum(a, k) + v * BPow[j] - a[j] * BPow[j]
<1>1. PICK len \in Nat : len = S-1
  BY Indices
<1>2. a \in [0..len -> Word] /\ a2 \in [0..len -> Word] /\ j \in 0..len
  BY <1>1 DEF Limbs
<1>3. /\ \A k \in Nat : k <= j => LimbSum(a2, k) = LimbSum(a, k)
      /\ \A k \in Nat : k > j =>
           LimbSum(a2, k) = LimbSum(a, k) + v * BPow[j] - a[j] * BPow[j]
  BY <1>2, ArrayWrite
<1>4. QED
  BY <1>1, <1>3 DEF Limbs

(* A cleared row stands for 0.                                             *)
LEMMA ZeroRow ==
  ASSUME NEW T \in [0..(S+1) -> Word], \A k \in 0..(S+1) : T[k] = 0
  PROVE  LimbSum(T, S+1) = 0
<1> DEFINE P == {k \in Nat : k <= S+1 => LimbSum(T, k) = 0}
<1> USE Indices
<1>1. 0 \in P
  BY RowLimbs
<1>2. \A k \in P : k+1 \in P
  <2> SUFFICES ASSUME NEW k \in Nat, k+1 <= S+1, LimbSum(T, k) = 0
               PROVE  LimbSum(T, k+1) = 0
    OBVIOUS
  <2>1. k \in 0..(S+1) /\ T[k] = 0
    OBVIOUS
  <2>2. LimbSum(T, k+1) = LimbSum(T, k) + T[k] * BPow[k]
    BY <2>1, RowLimbs
  <2>3. BPow[k] \in Nat
    BY BPowDef
  <2>4. QED
    BY <2>1, <2>2, <2>3
<1>3. P = Nat
  BY <1>1, <1>2, SetInduction
<1>4. QED
  BY <1>3

(* Arrays of words with the same limbs are the same number.                *)
LEMMA SameLimbs ==
  ASSUME NEW l1 \in Nat, NEW l2 \in Nat, l1 >= S-1, l2 >= S-1,
         NEW x \in [0..l1 -> Word], NEW y \in [0..l2 -> Word],
         \A k \in 0..(S-1) : y[k] = x[k]
  PROVE  LimbSum(y, S) = LimbSum(x, S)
<1> USE Indices
<1>1. \A k \in Nat : Limb(x, k) \in Int
  BY ArrayLimbs
<1>2. \A k \in Nat : Limb(y, k) \in Int
  BY ArrayLimbs
<1>3. \A k \in 0..(S-1) : Limb(y, k) = Limb(x, k)
  BY DEF Limb
<1>4. QED
  BY <1>1, <1>2, <1>3, LimbSumSame

(* T2 is T after adding a[j]*bi to limb j; c and h are the carries.        *)
MulStep(T, T2, a, bi, j, c, h, u) ==
  /\ T \in [0..(S+1) -> Word]
  /\ T2 \in [0..(S+1) -> Word]
  /\ a \in Limbs
  /\ bi \in Word
  /\ j \in 0..(S-1)
  /\ c \in Word
  /\ h \in Word
  /\ u \in Word
  /\ Accumulated(a[j], bi, T[j], c, h, u)
  /\ Written(T, T2, j, u)

(* One limb of T += a * bi.                                                *)
LEMMA MulLimb ==
  ASSUME NEW T, NEW T2, NEW a, NEW bi, NEW j, NEW c, NEW h, NEW u,
         MulStep(T, T2, a, bi, j, c, h, u)
  PROVE  (LimbSum(T2, S+1) + h * BPow[j+1]) - LimbSum(a, j+1) * bi
           = (LimbSum(T, S+1) + c * BPow[j]) - LimbSum(a, j) * bi
<1> SUFFICES ASSUME T \in [0..(S+1) -> Word],
                    T2 \in [0..(S+1) -> Word],
                    a \in Limbs,
                    bi \in Word,
                    j \in 0..(S-1),
                    c \in Word,
                    h \in Word,
                    u \in Word,
                    Accumulated(a[j], bi, T[j], c, h, u),
                    Written(T, T2, j, u)
             PROVE  (LimbSum(T2, S+1) + h * BPow[j+1]) - LimbSum(a, j+1) * bi
                 = (LimbSum(T, S+1) + c * BPow[j]) - LimbSum(a, j) * bi
  BY DEF MulStep
<1> USE Indices
<1>1. j \in Nat /\ j \in 0..(S+1) /\ S+1 > j /\ a \in [0..(S-1) -> Word]
      /\ S+1 \in Nat
  BY DEF Limbs
<1>2. LimbSum(T2, S+1) = LimbSum(T, S+1) + u * BPow[j] - T[j] * BPow[j]
  BY <1>1, RowWrite
<1>3. LimbSum(a, j+1) = LimbSum(a, j) + a[j] * BPow[j]
  BY OperandSum
<1>4. BPow[j+1] = B * BPow[j] /\ BPow[j] \in Int
  BY <1>1, BPowDef
<1>5. /\ LimbSum(T, S+1) \in Int /\ LimbSum(a, j) \in Int
      /\ a[j] \in Int /\ T[j] \in Int /\ bi \in Int /\ c \in Int /\ u \in Int /\ h \in Int
  <2>1. LimbSum(T, S+1) \in Nat
    BY <1>1, RowLimbs
  <2>3. LimbSum(a, j) \in Nat
    BY <1>1, OperandSum
  <2>2. a[j] \in Word /\ T[j] \in Word
    BY <1>1
  <2>4. QED
    BY <2>1, <2>2, <2>3, SMTT(30) DEF Word
<1>6. PICK V \in Int, L \in Int, P \in Int, t \in Int, aj \in Int :
        /\ V = LimbSum(T, S+1) /\ L = LimbSum(a, j) /\ P = BPow[j]
        /\ t = T[j] /\ aj = a[j]
  BY <1>4, <1>5
<1>7. ((V + u * P - t * P) + h * (B * P)) - (L + aj * P) * bi = (V + c * P) - L * bi
  <2>1. (aj * bi) * P + t * P + c * P = (h * B) * P + u * P
    <3>1. (aj * bi + t + c) * P = (h * B + u) * P
      BY <1>6 DEF Accumulated
    <3>2. QED
      BY <3>1, <1>5
  <2>2. (L + aj * P) * bi = L * bi + (aj * bi) * P /\ h * (B * P) = (h * B) * P
    BY <1>5
  <2>3. QED
    BY <2>1, <2>2, <1>5
<1>8. QED
  BY <1>2, <1>3, <1>4, <1>6, <1>7

(* T2 is T after the carry c went to its two top limbs.                    *)
TopStep(T, T1, T2, c, hi, lo) ==
  /\ T \in [0..(S+1) -> Word]
  /\ T1 \in [0..(S+1) -> Word]
  /\ T2 \in [0..(S+1) -> Word]
  /\ c \in Word
  /\ hi \in Word
  /\ lo \in Word
  /\ Carried(T[S], c, hi, lo)
  /\ Written(T, T1, S, lo)
  /\ Written(T1, T2, S+1, hi)

(* The carry of the multiplication row goes to the two top limbs.          *)
LEMMA MulTop ==
  ASSUME NEW T, NEW T1, NEW T2, NEW c, NEW hi, NEW lo,
         TopStep(T, T1, T2, c, hi, lo)
  PROVE  /\ LimbSum(T2, S+2) = LimbSum(T, S+1) + c * BPow[S]
         /\ LimbSum(T2, 0) = 0 /\ LimbSum(T2, 1) = T[0] /\ T2[0] = T[0]
<1> SUFFICES ASSUME T \in [0..(S+1) -> Word],
                    T1 \in [0..(S+1) -> Word],
                    T2 \in [0..(S+1) -> Word],
                    c \in Word,
                    hi \in Word,
                    lo \in Word,
                    Carried(T[S], c, hi, lo),
                    Written(T, T1, S, lo),
                    Written(T1, T2, S+1, hi)
             PROVE  /\ LimbSum(T2, S+2) = LimbSum(T, S+1) + c * BPow[S]
                    /\ LimbSum(T2, 0) = 0 /\ LimbSum(T2, 1) = T[0] /\ T2[0] = T[0]
  BY DEF TopStep
<1> USE Indices
<1>1. LimbSum(T1, S+1) = LimbSum(T, S+1) + lo * BPow[S] - T[S] * BPow[S]
  BY RowWrite
<1>2. LimbSum(T2, S+1) = LimbSum(T1, S+1)
  BY RowWrite
<1>3. LimbSum(T2, S+2) = LimbSum(T2, S+1) + hi * BPow[S+1]
  <2>1. LimbSum(T2, (S+1)+1) = LimbSum(T2, S+1) + T2[S+1] * BPow[S+1]
    BY RowLimbs
  <2>2. (S+1)+1 = S+2 /\ T2[S+1] = hi
    BY DEF Written
  <2>3. QED
    BY <2>1, <2>2
<1>4. BPow[S+1] = B * BPow[S] /\ BPow[S] \in Nat
  BY BPowDef
<1>5. T2[0] = T[0]
  BY DEF Written
<1>6. LimbSum(T2, 0) = 0 /\ LimbSum(T2, 1) = T[0]
  <2>1. LimbSum(T2, 0) = 0 /\ LimbSum(T2, 0+1) = LimbSum(T2, 0) + T2[0] * BPow[0]
    BY RowLimbs
  <2>2. BPow[0] = 1 /\ T2[0] \in Word
    BY BPowDef
  <2>3. QED
    BY <2>1, <2>2, <1>5 DEF Word
<1>7. PICK V \in Int, P \in Int, t \in Int :
        V = LimbSum(T, S+1) /\ P = BPow[S] /\ t = T[S]
  <2>1. LimbSum(T, S+1) \in Nat /\ T[S] \in Word
    BY RowLimbs
  <2>2. QED
    BY <2>1, <1>4, SMTT(30) DEF Word
<1>8. V + lo * P - t * P + hi * (B * P) = V + c * P
  <2>1. (t + c) * P = (hi * B + lo) * P
    BY <1>7 DEF Carried
  <2>2. t * P + c * P = hi * (B * P) + lo * P
    BY <2>1 DEF Word
  <2>3. QED
    BY <2>2 DEF Word
<1>9. QED
  BY <1>1, <1>2, <1>3, <1>4, <1>5, <1>6, <1>7, <1>8

(* T2 is T after adding m*n[j], stored in limb j-1.                        *)
RedStep(T, T2, n, m, j, c, h, u) ==
  /\ T \in [0..(S+1) -> Word]
  /\ T2 \in [0..(S+1) -> Word]
  /\ n \in Limbs
  /\ m \in Word
  /\ j \in 1..(S-1)
  /\ c \in Word
  /\ h \in Word
  /\ u \in Word
  /\ Accumulated(m, n[j], T[j], c, h, u)
  /\ Written(T, T2, j-1, u)

(* One limb of T = (T + m*N) / B, written one place down.                  *)
LEMMA RedLimb ==
  ASSUME NEW T, NEW T2, NEW n, NEW m, NEW j, NEW c, NEW h, NEW u,
         RedStep(T, T2, n, m, j, c, h, u)
  PROVE  (LimbSum(T2, j) * B + h * BPow[j+1]
            + (LimbSum(T2, S+2) - LimbSum(T2, j+1))) - m * LimbSum(n, j+1)
         = (LimbSum(T, j-1) * B + c * BPow[j]
            + (LimbSum(T, S+2) - LimbSum(T, j))) - m * LimbSum(n, j)
<1> SUFFICES ASSUME T \in [0..(S+1) -> Word],
                    T2 \in [0..(S+1) -> Word],
                    n \in Limbs,
                    m \in Word,
                    j \in 1..(S-1),
                    c \in Word,
                    h \in Word,
                    u \in Word,
                    Accumulated(m, n[j], T[j], c, h, u),
                    Written(T, T2, j-1, u)
             PROVE  (LimbSum(T2, j) * B + h * BPow[j+1]
                  + (LimbSum(T2, S+2) - LimbSum(T2, j+1))) - m * LimbSum(n, j+1)
               = (LimbSum(T, j-1) * B + c * BPow[j]
                  + (LimbSum(T, S+2) - LimbSum(T, j))) - m * LimbSum(n, j)
  BY DEF RedStep
<1> USE Indices
<1>1. /\ j \in Nat /\ j-1 \in Nat /\ j+1 \in Nat /\ S+2 \in Nat /\ (j-1)+1 = j
      /\ j \in 0..(S+1) /\ j-1 \in 0..(S+1) /\ j \in 0..(S-1) /\ S+2 > j-1
  OBVIOUS
<1>2. /\ LimbSum(T2, j) = LimbSum(T, j) + u * BPow[j-1] - T[j-1] * BPow[j-1]
      /\ LimbSum(T2, j+1) = LimbSum(T, j+1) + u * BPow[j-1] - T[j-1] * BPow[j-1]
      /\ LimbSum(T2, S+2) = LimbSum(T, S+2) + u * BPow[j-1] - T[j-1] * BPow[j-1]
  BY <1>1, RowWrite
<1>3. /\ LimbSum(T, j) = LimbSum(T, j-1) + T[j-1] * BPow[j-1]
      /\ LimbSum(T, j+1) = LimbSum(T, j) + T[j] * BPow[j]
  <2>1. LimbSum(T, (j-1)+1) = LimbSum(T, j-1) + T[j-1] * BPow[j-1]
    BY <1>1, RowLimbs
  <2>2. LimbSum(T, j+1) = LimbSum(T, j) + T[j] * BPow[j]
    BY <1>1, RowLimbs
  <2>3. QED
    BY <2>1, <2>2, <1>1
<1>4. LimbSum(n, j+1) = LimbSum(n, j) + n[j] * BPow[j]
  BY <1>1, OperandSum
<1>5. BPow[j] = B * BPow[j-1] /\ BPow[j+1] = B * BPow[j] /\ BPow[j-1] \in Nat
  <2>1. BPow[(j-1)+1] = B * BPow[j-1]
    BY <1>1, BPowDef
  <2>2. QED
    BY <1>1, <2>1, BPowDef
<1>6. PICK V1 \in Int, V2 \in Int, L \in Int, Q \in Int, t0 \in Int, t \in Int, nj \in Int :
        /\ V1 = LimbSum(T, j-1) /\ V2 = LimbSum(T, S+2) /\ L = LimbSum(n, j)
        /\ Q = BPow[j-1] /\ t0 = T[j-1] /\ t = T[j] /\ nj = n[j]
  <2>1. LimbSum(T, j-1) \in Nat /\ LimbSum(T, S+2) \in Nat
    BY <1>1, RowLimbs
  <2>2. LimbSum(n, j) \in Nat
    BY <1>1, OperandSum
  <2>3. T[j-1] \in Int /\ T[j] \in Int /\ n[j] \in Int
    <3>1. T[j-1] \in Word /\ T[j] \in Word /\ n[j] \in Word
      BY <1>1 DEF Limbs
    <3>2. QED
      BY <3>1, SMTT(30) DEF Word
  <2>4. BPow[j-1] \in Int /\ LimbSum(T, j-1) \in Int /\ LimbSum(T, S+2) \in Int
        /\ LimbSum(n, j) \in Int
    BY <2>1, <2>2, <1>5
  <2>5. QED
    BY <2>3, <2>4
<1>a. m \in Int /\ h \in Int /\ c \in Int /\ u \in Int
  BY DEF Word
<1>7. PICK P \in Int : P = B * Q
  OBVIOUS
<1>8. ((V1 + u * Q) * B + h * (B * P) + (V2 - (V1 + t0 * Q + t * P))) - m * (L + nj * P)
        = (V1 * B + c * P + (V2 - (V1 + t0 * Q))) - m * L
  <2>1. (m * nj) * P + t * P + c * P = h * (B * P) + u * P
    <3>1. (m * nj + t + c) * P = (h * B + u) * P
      BY <1>6 DEF Accumulated
    <3>2. QED
      BY <3>1, <1>a
  <2>2. (V1 + u * Q) * B = V1 * B + u * P
    BY <1>7, <1>a
  <2>3. m * (L + nj * P) = m * L + (m * nj) * P
    BY <1>a
  <2>4. QED
    BY <2>1, <2>2, <2>3, <1>a, SMTT(30)
<1>9. LimbSum(T2, j) = V1 + u * Q /\ LimbSum(T2, S+2) - LimbSum(T2, j+1) = V2 - (V1 + t0 * Q + t * P)
  <2>1. BPow[j] = P
    BY <1>5, <1>6, <1>7
  <2>2. LimbSum(T, j) = V1 + t0 * Q /\ LimbSum(T, j+1) = V1 + t0 * Q + t * P
    BY <2>1, <1>3, <1>6
  <2>3. /\ LimbSum(T2, j) = V1 + t0 * Q + u * Q - t0 * Q
        /\ LimbSum(T2, j+1) = V1 + t0 * Q + t * P + u * Q - t0 * Q
        /\ LimbSum(T2, S+2) = V2 + u * Q - t0 * Q
    BY <2>2, <1>2, <1>6
  <2>4. QED
    BY <2>3, <1>a
<1>10. QED
  BY <1>3, <1>4, <1>5, <1>6, <1>7, <1>8, <1>9

(* T2 is T after the tail of a reduction row.                              *)
ShiftStep(T, T1, T2, c, hi, lo) ==
  /\ T \in [0..(S+1) -> Word]
  /\ T1 \in [0..(S+1) -> Word]
  /\ T2 \in [0..(S+1) -> Word]
  /\ c \in Word
  /\ hi \in Word
  /\ lo \in Word
  /\ Carried(T[S], c, hi, lo)
  /\ T[S+1] + hi \in Word
  /\ Written(T, T1, S-1, lo)
  /\ Written(T1, T2, S, T[S+1] + hi)

(* The end of a row: the shift drops the cleared limb.                     *)
LEMMA RowShift ==
  ASSUME NEW T, NEW T1, NEW T2, NEW c, NEW hi, NEW lo,
         ShiftStep(T, T1, T2, c, hi, lo)
  PROVE  LimbSum(T2, S+1) * B
           = LimbSum(T, S-1) * B + c * BPow[S] + (LimbSum(T, S+2) - LimbSum(T, S))
<1> SUFFICES ASSUME T \in [0..(S+1) -> Word],
                    T1 \in [0..(S+1) -> Word],
                    T2 \in [0..(S+1) -> Word],
                    c \in Word,
                    hi \in Word,
                    lo \in Word,
                    Carried(T[S], c, hi, lo),
                    T[S+1] + hi \in Word,
                    Written(T, T1, S-1, lo),
                    Written(T1, T2, S, T[S+1] + hi)
             PROVE  LimbSum(T2, S+1) * B
                 = LimbSum(T, S-1) * B + c * BPow[S] + (LimbSum(T, S+2) - LimbSum(T, S))
  BY DEF ShiftStep
<1> USE Indices
<1>1. /\ LimbSum(T1, S-1) = LimbSum(T, S-1) /\ LimbSum(T2, S-1) = LimbSum(T1, S-1)
  <2>1. LimbSum(T1, S-1) = LimbSum(T, S-1)
    BY RowWrite
  <2>2. LimbSum(T2, S-1) = LimbSum(T1, S-1)
    BY RowWrite
  <2>3. QED
    BY <2>1, <2>2
<1>2. T2[S-1] = lo /\ T2[S] = T[S+1] + hi
  BY DEF Written
<1>3. /\ LimbSum(T2, S) = LimbSum(T2, S-1) + lo * BPow[S-1]
      /\ LimbSum(T2, S+1) = LimbSum(T2, S) + (T[S+1] + hi) * BPow[S]
  <2>1. LimbSum(T2, (S-1)+1) = LimbSum(T2, S-1) + T2[S-1] * BPow[S-1]
    BY RowLimbs
  <2>2. LimbSum(T2, S+1) = LimbSum(T2, S) + T2[S] * BPow[S]
    BY RowLimbs
  <2>3. QED
    BY <2>1, <2>2, <1>2
<1>4. LimbSum(T, S+2) = LimbSum(T, S) + T[S] * BPow[S] + T[S+1] * BPow[S+1]
  <2>1. LimbSum(T, S+1) = LimbSum(T, S) + T[S] * BPow[S]
    BY RowLimbs
  <2>2. LimbSum(T, (S+1)+1) = LimbSum(T, S+1) + T[S+1] * BPow[S+1]
    BY RowLimbs
  <2>3. (S+1)+1 = S+2
    OBVIOUS
  <2>4. QED
    BY <2>1, <2>2, <2>3
<1>5. BPow[S] = B * BPow[S-1] /\ BPow[S+1] = B * BPow[S] /\ BPow[S-1] \in Nat
  <2>1. BPow[(S-1)+1] = B * BPow[S-1]
    BY BPowDef
  <2>2. QED
    BY <2>1, BPowDef
<1>6. PICK V \in Int, W \in Int, Q \in Int, t \in Int, t1 \in Int :
        /\ V = LimbSum(T, S-1) /\ W = LimbSum(T, S) /\ Q = BPow[S-1]
        /\ t = T[S] /\ t1 = T[S+1]
  <2>1. LimbSum(T, S-1) \in Int /\ LimbSum(T, S) \in Int
    <3>1. S-1 \in Nat /\ S \in Nat
      OBVIOUS
    <3>2. LimbSum(T, S-1) \in Nat /\ LimbSum(T, S) \in Nat
      BY <3>1, RowLimbs
    <3>3. QED
      BY <3>2
  <2>2. T[S] \in Word /\ T[S+1] \in Word
    OBVIOUS
  <2>3. T[S] \in Int /\ T[S+1] \in Int
    BY <2>2 DEF Word
  <2>4. BPow[S-1] \in Int
    BY <1>5
  <2>5. QED
    BY <2>1, <2>3, <2>4
<1>7. lo \in Int /\ hi \in Int /\ c \in Int
  BY DEF Word
<1>8. PICK P \in Int : P = B * Q
  OBVIOUS
<1>9. (V + lo * Q + (t1 + hi) * P) * B = V * B + c * P + (t * P + t1 * (B * P))
  <2>1. t * P + c * P = hi * (B * P) + lo * P
    <3>1. (t + c) * P = (hi * B + lo) * P
      BY <1>6 DEF Carried
    <3>2. QED
      BY <3>1, <1>7
  <2>2. (lo * Q) * B = lo * P
    BY <1>8, <1>7
  <2>3. ((t1 + hi) * P) * B = t1 * (B * P) + hi * (B * P)
    BY <1>7
  <2>4. (V + lo * Q + (t1 + hi) * P) * B = V * B + (lo * Q) * B + ((t1 + hi) * P) * B
    BY <1>7
  <2>5. PICK vB \in Int, lP \in Int, hR \in Int, tR \in Int, tP \in Int, cP \in Int :
          /\ vB = V * B /\ lP = lo * P /\ hR = hi * (B * P) /\ tR = t1 * (B * P)
          /\ tP = t * P /\ cP = c * P
    BY <1>7
  <2>6. tP + cP = hR + lP /\ vB + lP + (tR + hR) = vB + cP + (tP + tR)
    <3>1. tP + cP = hR + lP
      BY <2>1, <2>5
    <3>2. QED
      BY <3>1
  <2>7. QED
    BY <2>2, <2>3, <2>4, <2>5, <2>6
<1>10. LimbSum(T2, S+1) = V + lo * Q + (t1 + hi) * P
  BY <1>1, <1>3, <1>5, <1>6, <1>8
<1>11. LimbSum(T, S+2) = W + t * P + t1 * (B * P)
  BY <1>4, <1>5, <1>6, <1>8
<1>12. LimbSum(T2, S+1) * B = V * B + c * P + (t * P + t1 * (B * P))
  BY <1>9, <1>10
<1>13. BPow[S] = P /\ LimbSum(T, S-1) = V /\ LimbSum(T, S) = W
  BY <1>5, <1>6, <1>8
<1>14. LimbSum(T, S+2) - LimbSum(T, S) = t * P + t1 * (B * P)
  BY <1>11, <1>13
<1>15. QED
  BY <1>12, <1>13, <1>14

(* tmp2 is tmp after limb j of T - n, with borrows b1 in and b2 out.       *)
SubStep(T, tmp, tmp2, n, j, u, b1, b2) ==
  /\ T \in [0..(S+1) -> Word]
  /\ tmp \in Limbs
  /\ tmp2 \in Limbs
  /\ n \in Limbs
  /\ j \in 0..(S-1)
  /\ u \in Word
  /\ b1 \in {0, 1}
  /\ b2 \in {0, 1}
  /\ u - b2 * B = T[j] - n[j] - b1
  /\ Written(tmp, tmp2, j, u)
  /\ LimbSum(tmp, j) - b1 * BPow[j] = LimbSum(T, j) - LimbSum(n, j)

(* One limb of tmp = T - N with its borrow.                                *)
LEMMA SubLimb ==
  ASSUME NEW T, NEW tmp, NEW tmp2, NEW n, NEW j, NEW u, NEW b1, NEW b2,
         SubStep(T, tmp, tmp2, n, j, u, b1, b2)
  PROVE  LimbSum(tmp2, j+1) - b2 * BPow[j+1] = LimbSum(T, j+1) - LimbSum(n, j+1)
<1> SUFFICES ASSUME T \in [0..(S+1) -> Word],
                    tmp \in Limbs,
                    tmp2 \in Limbs,
                    n \in Limbs,
                    j \in 0..(S-1),
                    u \in Word,
                    b1 \in {0, 1},
                    b2 \in {0, 1},
                    u - b2 * B = T[j] - n[j] - b1,
                    Written(tmp, tmp2, j, u),
                    LimbSum(tmp, j) - b1 * BPow[j] = LimbSum(T, j) - LimbSum(n, j)
             PROVE  LimbSum(tmp2, j+1) - b2 * BPow[j+1] = LimbSum(T, j+1) - LimbSum(n, j+1)
  BY DEF SubStep
<1> USE Indices
<1>1. j \in Nat /\ j+1 \in Nat /\ j \in 0..(S+1)
  OBVIOUS
<1>2. LimbSum(tmp2, j) = LimbSum(tmp, j)
  BY <1>1, OperandWrite
<1>3. LimbSum(tmp2, j+1) = LimbSum(tmp2, j) + u * BPow[j]
  <2>1. LimbSum(tmp2, j+1) = LimbSum(tmp2, j) + tmp2[j] * BPow[j]
    BY OperandSum
  <2>2. QED
    BY <2>1 DEF Written
<1>4. LimbSum(T, j+1) = LimbSum(T, j) + T[j] * BPow[j]
  BY <1>1, RowLimbs
<1>5. LimbSum(n, j+1) = LimbSum(n, j) + n[j] * BPow[j]
  BY OperandSum
<1>6. BPow[j+1] = B * BPow[j] /\ BPow[j] \in Int
  BY <1>1, BPowDef
<1>7. PICK V \in Int, L \in Int, D \in Int, P \in Int, t \in Int, nj \in Int :
        /\ V = LimbSum(T, j) /\ L = LimbSum(n, j) /\ D = LimbSum(tmp, j)
        /\ P = BPow[j] /\ t = T[j] /\ nj = n[j]
  <2>1. LimbSum(T, j) \in Int /\ LimbSum(n, j) \in Int /\ LimbSum(tmp, j) \in Int
    <3>1. LimbSum(T, j) \in Int
      BY <1>1, RowLimbs
    <3>2. LimbSum(n, j) \in Int /\ LimbSum(tmp, j) \in Int
      BY <1>1, OperandSum
    <3>3. QED
      BY <3>1, <3>2
  <2>2. T[j] \in Int /\ n[j] \in Int
    <3>1. T[j] \in Word /\ n[j] \in Word
      BY <1>1 DEF Limbs
    <3>2. QED
      BY <3>1 DEF Word
  <2>3. QED
    BY <2>1, <2>2, <1>6
<1>8. u \in Int /\ b1 \in Int /\ b2 \in Int
  BY DEF Word
<1>9. D + u * P - b2 * (B * P) = (V + t * P) - (L + nj * P)
  <2>1. u * P - b2 * (B * P) = t * P - nj * P - b1 * P
    <3>1. (u - b2 * B) * P = (t - nj - b1) * P
      BY <1>7
    <3>2. QED
      BY <3>1, <1>8
  <2>2. D - b1 * P = V - L
    BY <1>7
  <2>3. QED
    BY <2>1, <2>2, <1>8
<1>10. /\ LimbSum(tmp2, j+1) = D + u * P /\ BPow[j+1] = B * P
       /\ LimbSum(T, j+1) = V + t * P /\ LimbSum(n, j+1) = L + nj * P
  <2>1. LimbSum(tmp2, j+1) = D + u * P
    BY <1>2, <1>3, <1>7
  <2>2. LimbSum(T, j+1) = V + t * P
    BY <1>4, <1>7
  <2>3. LimbSum(n, j+1) = L + nj * P
    BY <1>5, <1>7
  <2>4. QED
    BY <2>1, <2>2, <2>3, <1>6, <1>7
<1>11. PICK x \in Int, y \in Int, z \in Int, w \in Int :
         /\ x = LimbSum(tmp2, j+1) /\ y = LimbSum(T, j+1) /\ z = LimbSum(n, j+1)
         /\ w = BPow[j+1]
  BY <1>8, <1>10
<1>12. x = D + u * P /\ w = B * P /\ y = V + t * P /\ z = L + nj * P
  BY <1>10, <1>11
<1>13. x - b2 * w = y - z
  BY <1>8, <1>9, <1>12
<1>14. QED
  BY <1>11, <1>13

-----------------------------------------------------------------------------
(* The partial product.                                                    *)

(* X is the partial product of a and b modulo n after k rows.              *)
PartialProduct(X, a, b, n, k) ==
  /\ 0 <= X /\ X < Value(a) + Value(n)
  /\ \E q \in 0..(BPow[k]-1) : X * BPow[k] = Value(a) * LimbSum(b, k) + q * Value(n)

(* Before the first row it is 0.                                           *)
LEMMA RowStart ==
  ASSUME NEW a \in Limbs, NEW b \in Limbs, NEW n \in Limbs, Value(n) > 0
  PROVE  PartialProduct(0, a, b, n, 0)
<1>1. BPow[0] = 1 /\ LimbSum(b, 0) = 0
  BY BPowDef, OperandSum
<1>2. Value(a) \in Nat /\ Value(n) \in Nat
  BY OperandSum
<1>3. 0 \in 0..(BPow[0]-1) /\ 0 * BPow[0] = Value(a) * LimbSum(b, 0) + 0 * Value(n)
  BY <1>1, <1>2
<1>4. QED
  BY <1>2, <1>3 DEF PartialProduct

(* Y is X with a*b[k] and m*N added, divided by the base.                  *)
RowStep(X, Y, a, b, n, k, m) ==
  /\ X \in Int
  /\ Y \in Nat
  /\ a \in Limbs
  /\ b \in Limbs
  /\ n \in Limbs
  /\ k \in 0..(S-1)
  /\ m \in Word
  /\ PartialProduct(X, a, b, n, k)
  /\ Y * B = X + m * Value(n) + Value(a) * b[k]

(* A row adds a*b[k] and m*N and divides by the base.                      *)
LEMMA RowAdvance ==
  ASSUME NEW X, NEW Y, NEW a, NEW b, NEW n, NEW k, NEW m,
         RowStep(X, Y, a, b, n, k, m)
  PROVE  PartialProduct(Y, a, b, n, k+1)
<1> SUFFICES ASSUME X \in Int,
                    Y \in Nat,
                    a \in Limbs,
                    b \in Limbs,
                    n \in Limbs,
                    k \in 0..(S-1),
                    m \in Word,
                    PartialProduct(X, a, b, n, k),
                    Y * B = X + m * Value(n) + Value(a) * b[k]
             PROVE  PartialProduct(Y, a, b, n, k+1)
  BY DEF RowStep
<1> USE Indices
<1>1. PICK q \in 0..(BPow[k]-1) : X * BPow[k] = Value(a) * LimbSum(b, k) + q * Value(n)
  BY DEF PartialProduct
<1>2. BPow[k+1] = B * BPow[k] /\ BPow[k] \in Nat
  BY BPowDef
<1>3. LimbSum(b, k+1) = LimbSum(b, k) + b[k] * BPow[k]
  BY OperandSum
<1>4. PICK A \in Nat, N \in Nat, L \in Nat, P \in Nat, bk \in Nat :
        /\ A = Value(a) /\ N = Value(n) /\ L = LimbSum(b, k) /\ P = BPow[k] /\ bk = b[k]
        /\ bk <= B - 1
  <2>1. Value(a) \in Nat /\ Value(n) \in Nat /\ LimbSum(b, k) \in Nat
    BY OperandSum
  <2>2. b[k] \in Nat /\ b[k] <= B - 1
    <3>1. b[k] \in Word
      BY DEF Limbs
    <3>2. QED
      BY <3>1 DEF Word
  <2>3. QED
    BY <2>1, <2>2, <1>2
<1>5. m \in Nat /\ m <= B - 1 /\ q \in Nat /\ q <= P - 1
  <2>1. m \in Nat /\ m <= B - 1
    BY DEF Word
  <2>2. q \in Nat /\ q <= P - 1
    BY <1>4, <1>1
  <2>3. QED
    BY <2>1, <2>2
<1>6. Y * B = X + m * N + A * bk /\ X < A + N /\ X * P = A * L + q * N
  BY <1>1, <1>4 DEF PartialProduct
<1>7. Y < A + N
  <2>1. m * N <= (B - 1) * N
    BY <1>5
  <2>2. A * bk <= (B - 1) * A
    BY <1>4
  <2>3. (B - 1) * N = B * N - N /\ (B - 1) * A = B * A - A
    OBVIOUS
  <2>4. Y * B < B * (A + N)
    <3>1. m * N \in Int /\ A * bk \in Int /\ B * N \in Int /\ B * A \in Int
      BY <1>5
    <3>2. X + m * N + A * bk < B * A + B * N
      BY <3>1, <2>1, <2>2, <2>3, <1>6
    <3>3. B * (A + N) = B * A + B * N
      OBVIOUS
    <3>4. QED
      BY <3>2, <3>3, <1>6
  <2>5. SUFFICES ASSUME Y >= A + N PROVE FALSE
    OBVIOUS
  <2>6. Y * B >= B * (A + N)
    BY <2>5
  <2>7. QED
    BY <2>4, <2>6
<1>8. q + m * P \in 0..(B * P - 1)
  <2>1. m * P <= (B - 1) * P /\ m * P \in Nat
    BY <1>5
  <2>2. (B - 1) * P = B * P - P /\ B * P \in Nat
    OBVIOUS
  <2>3. QED
    BY <2>1, <2>2, <1>5
<1>9. Y * (B * P) = A * (L + bk * P) + (q + m * P) * N
  <2>1. Y * (B * P) = X * P + (m * N) * P + (A * bk) * P
    <3>1. (Y * B) * P = (X + m * N + A * bk) * P
      BY <1>6
    <3>2. QED
      BY <3>1, <1>5
  <2>2. A * (L + bk * P) = A * L + (A * bk) * P
    OBVIOUS
  <2>3. (q + m * P) * N = q * N + (m * N) * P
    BY <1>5
  <2>4. QED
    BY <2>1, <2>2, <2>3, <1>5, <1>6
<1>10. BPow[k+1] = B * P /\ LimbSum(b, k+1) = L + bk * P
  BY <1>2, <1>3, <1>4
<1>11. PICK q2 \in 0..(BPow[k+1]-1) : q2 = q + m * P
  BY <1>8, <1>10
<1>12. Y * BPow[k+1] = Value(a) * LimbSum(b, k+1) + q2 * Value(n)
  BY <1>4, <1>9, <1>10, <1>11
<1>13. 0 <= Y /\ Y < Value(a) + Value(n)
  BY <1>4, <1>7
<1>14. QED
  BY <1>11, <1>12, <1>13 DEF PartialProduct

(* The digit m makes the lowest limb vanish.                               *)
LEMMA Quotient ==
  ASSUME NEW n0 \in Word, NEW np \in Word, NEW t0 \in Word, (n0 * np + 1) % B = 0
  PROVE  LET m == U32(U64(t0 * np))
         IN  m \in Word /\ (m * n0 + t0) % B = 0
<1> DEFINE x == t0 * np
           m == U32(U64(x))
<1> USE Indices
<1>1. x \in Nat /\ x < B * B
  <2>1. t0 * np + 0 + 0 \in Nat /\ t0 * np + 0 + 0 < B * B
    BY ProductFits
  <2>2. t0 * np \in Int
    BY DEF Word
  <2>3. QED
    BY <2>1, <2>2
<1> HIDE DEF x
<1>2. m \in Word /\ x = Hi(x) * B + m /\ Hi(x) \in Nat
  BY <1>1, NoWrap64, SplitWord
<1> HIDE DEF m
<1>3. PICK k \in Int : n0 * np + 1 = k * B
  <2>1. n0 * np + 1 \in Int
    BY DEF Word
  <2>2. n0 * np + 1 = ((n0 * np + 1) \div B) * B /\ (n0 * np + 1) \div B \in Int
    BY <2>1
  <2>3. QED
    BY <2>2
<1>4. PICK h \in Int, mm \in Int, y \in Int : h = Hi(x) /\ mm = m /\ y = x /\ y = h * B + mm
  BY <1>1, <1>2 DEF Word
<1>5. n0 \in Int /\ np \in Int /\ t0 \in Int
  BY DEF Word
<1>6. y = t0 * np
  BY <1>4 DEF x
<1>7. mm * n0 + t0 = (t0 * k - h * n0) * B
  <2>1. mm * n0 = y * n0 - (h * B) * n0
    BY <1>4, <1>5
  <2>2. y * n0 + t0 = t0 * (n0 * np + 1)
    BY <1>5, <1>6
  <2>3. t0 * (n0 * np + 1) = (t0 * k) * B
    BY <1>3, <1>5
  <2>4. (h * B) * n0 = (h * n0) * B
    BY <1>5
  <2>5. QED
    BY <2>1, <2>2, <2>3, <2>4, <1>5
<1>8. (mm * n0 + t0) % B = 0
  <2>1. \A z \in Int : (z * B) % B = 0
    OBVIOUS
  <2>2. t0 * k - h * n0 \in Int
    BY <1>5
  <2>3. QED
    BY <1>7, <2>1, <2>2
<1>9. QED
  BY <1>2, <1>4, <1>8 DEF m, x

(* The inequality behind the two top limbs.                                *)
TopBound(A, N, V, P, t, t1, m, bi, c, lo, hi) ==
  /\ {A, N, V, P, t, t1, m, bi, c, lo, hi} \subseteq Nat
  /\ P # 0 /\ m <= B - 1 /\ bi <= B - 1 /\ A < N /\ N < P
  /\ t + c = hi * B + lo
  /\ ((V * B + c * P + (t * P + t1 * (B * P))) - m * N) - A * bi < A + N

LEMMA TopArith ==
  ASSUME NEW A, NEW N, NEW V, NEW P, NEW t, NEW t1, NEW m, NEW bi, NEW c, NEW lo, NEW hi,
         TopBound(A, N, V, P, t, t1, m, bi, c, lo, hi)
  PROVE  t1 + hi <= 1
<1> USE Indices
<1>a. /\ A \in Nat /\ N \in Nat /\ V \in Nat /\ P \in Nat /\ t \in Nat /\ t1 \in Nat
      /\ m \in Nat /\ bi \in Nat /\ c \in Nat /\ lo \in Nat /\ hi \in Nat /\ P # 0
      /\ m <= B - 1 /\ bi <= B - 1 /\ A < N /\ N < P /\ t + c = hi * B + lo
  BY DEF TopBound
<1>b. ((V * B + c * P + (t * P + t1 * (B * P))) - m * N) - A * bi < A + N
  BY DEF TopBound
<1>1. PICK Q \in Nat \ {0} : Q = B * P
  BY <1>a
<1>2. PICK mN \in Nat, Ab \in Nat, BN \in Nat, BA \in Nat :
        mN = m * N /\ Ab = A * bi /\ BN = B * N /\ BA = B * A
  BY <1>a
<1>3. mN <= BN - N
  <2>1. m * N <= (B - 1) * N /\ (B - 1) * N = B * N - N
    BY <1>a
  <2>2. QED
    BY <1>a, <1>2, <2>1
<1>4. Ab <= BA - A
  <2>1. A * bi <= A * (B - 1) /\ A * (B - 1) = B * A - A
    BY <1>a
  <2>2. QED
    BY <1>a, <1>2, <2>1
<1>5. BA <= BN /\ BN <= Q
  <2>1. A <= N /\ N <= P
    BY <1>a
  <2>2. B * A <= B * N /\ B * N <= B * P
    BY <1>a, <2>1
  <2>3. QED
    BY <1>1, <1>2, <2>2
<1>6. PICK vB \in Nat, cP \in Nat, tP \in Nat, uQ \in Nat, lP \in Nat, hQ \in Nat :
        /\ vB = V * B /\ cP = c * P /\ tP = t * P /\ uQ = t1 * Q /\ lP = lo * P
        /\ hQ = hi * Q
  BY <1>a
<1>7. tP + cP = hQ + lP
  <2>1. (t + c) * P = (hi * B + lo) * P
    BY <1>a
  <2>2. t * P + c * P = hi * (B * P) + lo * P
    BY <1>a, <2>1
  <2>3. QED
    BY <1>a, <2>2, <1>1, <1>6
<1>8. vB + cP + (tP + uQ) - mN - Ab < A + N
  BY <1>a, <1>b, <1>1, <1>2, <1>6
<1>9. uQ + hQ < 2 * Q
  BY <1>a, <1>3, <1>4, <1>5, <1>7, <1>8
<1>10. (t1 + hi) * Q < 2 * Q
  BY <1>a, <1>6, <1>9
<1>11. SUFFICES ASSUME t1 + hi >= 2 PROVE FALSE
  BY <1>a
<1>12. (t1 + hi) * Q >= 2 * Q
  BY <1>a, <1>11
<1>13. QED
  BY <1>a, <1>10, <1>12

(* The tail of a row of a product of reduced operands.                     *)
RowTail(T, a, n, m, bi, c, hi, lo) ==
  /\ T \in [0..(S+1) -> Word]
  /\ a \in Limbs
  /\ n \in Limbs
  /\ m \in Word
  /\ bi \in Word
  /\ c \in Word
  /\ hi \in Word
  /\ lo \in Word
  /\ Carried(T[S], c, hi, lo)
  /\ Value(a) < Value(n)
  /\ ((LimbSum(T, S-1) * B + c * BPow[S] + (LimbSum(T, S+2) - LimbSum(T, S)))
       - m * Value(n)) - Value(a) * bi < Value(a) + Value(n)

(* The tail of a row fits: the two top limbs together stay below 2.        *)
LEMMA TopFits ==
  ASSUME NEW T, NEW a, NEW n, NEW m, NEW bi, NEW c, NEW hi, NEW lo,
         RowTail(T, a, n, m, bi, c, hi, lo)
  PROVE  T[S+1] + hi <= 1
<1> SUFFICES ASSUME T \in [0..(S+1) -> Word],
                    a \in Limbs,
                    n \in Limbs,
                    m \in Word,
                    bi \in Word,
                    c \in Word,
                    hi \in Word,
                    lo \in Word,
                    Carried(T[S], c, hi, lo),
                    Value(a) < Value(n),
                    ((LimbSum(T, S-1) * B + c * BPow[S] + (LimbSum(T, S+2) - LimbSum(T, S)))
       - m * Value(n)) - Value(a) * bi < Value(a) + Value(n)
             PROVE  T[S+1] + hi <= 1
  BY DEF RowTail
<1> USE Indices
<1>1. LimbSum(T, S+2) = LimbSum(T, S) + T[S] * BPow[S] + T[S+1] * BPow[S+1]
  <2>1. LimbSum(T, S+1) = LimbSum(T, S) + T[S] * BPow[S]
    BY RowLimbs
  <2>2. LimbSum(T, (S+1)+1) = LimbSum(T, S+1) + T[S+1] * BPow[S+1]
    BY RowLimbs
  <2>3. (S+1)+1 = S+2
    OBVIOUS
  <2>4. QED
    BY <2>1, <2>2, <2>3
<1>2. BPow[S+1] = B * BPow[S] /\ BPow[S] \in Nat \ {0}
  BY BPowDef
<1>3. PICK A \in Nat, N \in Nat, V \in Nat, W \in Nat, P \in Nat \ {0}, t \in Nat, t1 \in Nat :
        /\ A = Value(a) /\ N = Value(n) /\ V = LimbSum(T, S-1) /\ W = LimbSum(T, S)
        /\ P = BPow[S] /\ t = T[S] /\ t1 = T[S+1] /\ N < P
  <2>1. Value(a) \in Nat /\ Value(n) \in Nat /\ Value(n) < BPow[S]
    <3>1. Value(a) \in Nat
      BY OperandSum
    <3>2. Value(n) \in Nat /\ Value(n) < BPow[S]
      BY OperandSum
    <3>3. QED
      BY <3>1, <3>2
  <2>2. LimbSum(T, S-1) \in Nat /\ LimbSum(T, S) \in Nat
    BY RowLimbs
  <2>3. T[S] \in Nat /\ T[S+1] \in Nat
    <3>1. T[S] \in Word /\ T[S+1] \in Word
      OBVIOUS
    <3>2. QED
      BY <3>1 DEF Word
  <2>4. QED
    BY <2>1, <2>2, <2>3, <1>2
<1>4. /\ m \in Nat /\ m <= B - 1 /\ bi \in Nat /\ bi <= B - 1
      /\ c \in Nat /\ lo \in Nat /\ hi \in Nat
  BY DEF Word
<1>5. PICK z \in Int, U \in Int : z = t * P + t1 * (B * P) /\ U = LimbSum(T, S+2)
  <2>1. S+2 \in Nat
    OBVIOUS
  <2>2. LimbSum(T, S+2) \in Nat
    BY <2>1, RowLimbs
  <2>3. QED
    BY <2>2
<1>6. U = W + z
  <2>1. LimbSum(T, S+2) = W + t * P + t1 * (B * P)
    BY <1>1, <1>2, <1>3
  <2>2. QED
    BY <2>1, <1>5
<1>7. ((V * B + c * P + (U - W)) - m * N) - A * bi < A + N
  BY <1>3, <1>5
<1>8. ((V * B + c * P + (t * P + t1 * (B * P))) - m * N) - A * bi < A + N
  BY <1>5, <1>6, <1>7, SMTT(30)
<1>9. A < N /\ t + c = hi * B + lo
  BY <1>3 DEF Carried
<1>10. TopBound(A, N, V, P, t, t1, m, bi, c, lo, hi)
  BY <1>3, <1>4, <1>8, <1>9 DEF TopBound
<1>11. t1 + hi <= 1
  BY <1>10, TopArith, Zenon
<1>12. QED
  BY <1>3, <1>11

(* A multiple t of P that fits below 2*N, for N below P, has t at most 1.  *)
LEMMA OneBit ==
  ASSUME NEW N \in Nat, NEW W \in Nat, NEW P \in Nat, NEW t \in Nat,
         N < P, W + t * P < 2 * N
  PROVE  t <= 1
<1>1. SUFFICES ASSUME t >= 2 PROVE FALSE
  OBVIOUS
<1>2. PICK z \in Nat : z = t * P
  OBVIOUS
<1>3. z >= 2 * P
  BY <1>1, <1>2
<1>4. W + z < 2 * N
  BY <1>2
<1>5. QED
  BY <1>3, <1>4

(* A number below 2*n, n of S limbs, has at most one bit in limb S.        *)
LEMMA TopLimbBit ==
  ASSUME NEW T \in [0..(S+1) -> Word], NEW n \in Limbs, LimbSum(T, S+1) < 2 * Value(n)
  PROVE  T[S] <= 1
<1> USE Indices
<1>1. LimbSum(T, S+1) = LimbSum(T, S) + T[S] * BPow[S]
  BY RowLimbs
<1>2. Value(n) \in Nat /\ Value(n) < BPow[S]
  BY OperandSum
<1>3. LimbSum(T, S) \in Nat
  BY RowLimbs
<1>4. BPow[S] \in Nat
  BY BPowDef
<1>5. T[S] \in Nat
  <2>1. T[S] \in Word
    OBVIOUS
  <2>2. QED
    BY <2>1 DEF Word
<1>6. LimbSum(T, S) + T[S] * BPow[S] < 2 * Value(n)
  BY <1>1, Zenon
<1>7. QED
  BY <1>2, <1>3, <1>4, <1>5, <1>6, OneBit, Zenon

(* The case analysis behind the last subtraction.                          *)
BorrowBound(N, D, W, P, t, bw) ==
  /\ {N, D, W, P, t} \subseteq Nat /\ bw \in {0, 1}
  /\ N < P /\ D < P /\ W + t * P < 2 * N /\ D - bw * P = W - N

LEMMA BorrowArith ==
  ASSUME NEW N, NEW D, NEW W, NEW P, NEW t, NEW bw, BorrowBound(N, D, W, P, t, bw)
  PROVE  /\ t <= 1
         /\ t >= bw => W + t * P >= N /\ D = W + t * P - N
         /\ ~(t >= bw) => W + t * P < N /\ W + t * P = W
<1>a. /\ N \in Nat /\ D \in Nat /\ W \in Nat /\ P \in Nat /\ t \in Nat /\ bw \in {0, 1}
      /\ N < P /\ D < P /\ W + t * P < 2 * N /\ D - bw * P = W - N
  BY DEF BorrowBound
<1>1. t <= 1
  BY <1>a, OneBit, Zenon
<1>2. CASE t = 0 /\ bw = 0
  BY <1>a, <1>2
<1>3. CASE t = 1 /\ bw = 0
  BY <1>a, <1>3
<1>4. CASE t = 0 /\ bw = 1
  BY <1>a, <1>4
<1>5. CASE t = 1 /\ bw = 1
  BY <1>a, <1>5
<1>6. QED
  BY <1>a, <1>1, <1>2, <1>3, <1>4, <1>5

(* tmp is T - n up to the borrow bw, and T is below 2*n.                   *)
Subtracted(T, tmp, n, bw) ==
  /\ T \in [0..(S+1) -> Word]
  /\ tmp \in Limbs
  /\ n \in Limbs
  /\ bw \in {0, 1}
  /\ LimbSum(T, S+1) < 2 * Value(n)
  /\ LimbSum(tmp, S) - bw * BPow[S] = LimbSum(T, S) - LimbSum(n, S)

(* The final subtraction: one borrow chain and one top limb decide, and    *)
(* the chosen array holds the reduced number.                              *)
LEMMA LastSubtraction ==
  ASSUME NEW T, NEW tmp, NEW n, NEW bw,
         Subtracted(T, tmp, n, bw)
  PROVE  /\ T[S] <= 1
         /\ T[S] >= bw => /\ LimbSum(T, S+1) >= Value(n)
                          /\ LimbSum(tmp, S) = LimbSum(T, S+1) - Value(n)
         /\ ~(T[S] >= bw) => /\ LimbSum(T, S+1) < Value(n)
                             /\ LimbSum(T, S) = LimbSum(T, S+1)
<1> SUFFICES ASSUME T \in [0..(S+1) -> Word], tmp \in Limbs, n \in Limbs, bw \in {0, 1},
                    LimbSum(T, S+1) < 2 * Value(n),
                    LimbSum(tmp, S) - bw * BPow[S] = LimbSum(T, S) - LimbSum(n, S)
    PROVE  /\ T[S] <= 1
           /\ T[S] >= bw => /\ LimbSum(T, S+1) >= Value(n)
                            /\ LimbSum(tmp, S) = LimbSum(T, S+1) - Value(n)
           /\ ~(T[S] >= bw) => /\ LimbSum(T, S+1) < Value(n)
                               /\ LimbSum(T, S) = LimbSum(T, S+1)
  BY DEF Subtracted
<1> USE Indices
<1>1. LimbSum(T, S+1) = LimbSum(T, S) + T[S] * BPow[S]
  BY RowLimbs
<1>2. PICK N \in Nat, D \in Nat, W \in Nat, P \in Nat, t \in Nat :
        /\ N = Value(n) /\ D = LimbSum(tmp, S) /\ W = LimbSum(T, S) /\ P = BPow[S]
        /\ t = T[S] /\ N < P /\ D < P /\ N = LimbSum(n, S)
  <2>1. Value(n) \in Nat /\ Value(n) < BPow[S] /\ Value(n) = LimbSum(n, S)
    BY OperandSum DEF Value
  <2>2. LimbSum(tmp, S) \in Nat /\ LimbSum(tmp, S) < BPow[S]
    BY OperandSum
  <2>3. LimbSum(T, S) \in Nat /\ BPow[S] \in Nat
    <3>1. LimbSum(T, S) \in Nat
      BY RowLimbs
    <3>2. QED
      BY <3>1, BPowDef
  <2>4. T[S] \in Nat
    <3>1. T[S] \in Word
      OBVIOUS
    <3>2. QED
      BY <3>1 DEF Word
  <2>5. QED
    BY <2>1, <2>2, <2>3, <2>4
<1>3. LimbSum(T, S+1) = W + t * P /\ W + t * P < 2 * N /\ D - bw * P = W - N
  BY <1>1, <1>2
<1>4. BorrowBound(N, D, W, P, t, bw)
  BY <1>2, <1>3 DEF BorrowBound
<1>5. /\ t <= 1
      /\ t >= bw => W + t * P >= N /\ D = W + t * P - N
      /\ ~(t >= bw) => W + t * P < N /\ W + t * P = W
  BY <1>4, BorrowArith
<1>6. PICK X \in Int : X = W + t * P
  OBVIOUS
<1>7. LimbSum(T, S+1) = X /\ T[S] = t
  BY <1>2, <1>3, <1>6
<1>8. /\ T[S] <= 1
      /\ T[S] >= bw => X >= N /\ D = X - N
      /\ ~(T[S] >= bw) => X < N /\ W = X
  BY <1>5, <1>6, <1>7
<1>9. QED
  BY <1>2, <1>7, <1>8
=============================================================================
