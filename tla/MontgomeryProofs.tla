--------------------------- MODULE MontgomeryProofs ---------------------------
(***************************************************************************)
(* Proofs about the class Montgomery.  Its constructor: for every limb     *)
(* width, limb count, number of lifting steps that covers a limb and       *)
(* modulus of at most S limbs, the context that is left is one monpro can  *)
(* be called on, and its constants are R and R^2 modulo N.  And its        *)
(* interface with the array primitives of ct.hpp: whatever is called on    *)
(* whatever buffers, the masks and borrows decide as the numbers do, and   *)
(* the client computes in the ring of residues.                            *)
(***************************************************************************)
EXTENDS MontgomerySetup, LimbApi, NumberLemmas

-----------------------------------------------------------------------------
(* Splitting a number into limbs.                                          *)

(* The weights of the limbs are powers of two.                             *)
LEMMA BaseIsPower ==
  ASSUME NEW s \in Nat
  PROVE  W * s \in Nat /\ BPow[s] = Pow2[W * s]
<1> DEFINE P == {k \in Nat : BPow[k] = Pow2[W * k]}
<1>0. W \in Nat /\ B = Pow2[W] /\ \A k \in Nat : W * k \in Nat
  BY WordAssumption, WidthAssumption
<1>1. 0 \in P
  <2>1. W * 0 = 0
    BY <1>0
  <2>2. QED
    BY <2>1, BPowDef, Pow2Def
<1>2. \A k \in P : k + 1 \in P
  <2> SUFFICES ASSUME NEW k \in Nat, BPow[k] = Pow2[W * k]
               PROVE  BPow[k + 1] = Pow2[W * (k + 1)]
    OBVIOUS
  <2>1. PICK u \in Nat : u = W * k
    BY <1>0
  <2>2. W * (k + 1) = W + u
    BY <1>0, <2>1
  <2>3. Pow2[W + u] = Pow2[W] * Pow2[u]
    BY <1>0, Pow2Sum
  <2>4. QED
    BY <1>0, <2>1, <2>2, <2>3, BPowDef
<1>3. P = Nat
  <2> HIDE DEF P
  <2>1. P \subseteq Nat
    BY DEF P
  <2>2. QED
    BY <1>1, <1>2, <2>1, SetInduction
<1>4. QED
  BY <1>0, <1>3

(* word_count: the least number of limbs that holds x.                     *)
LEMMA WordCountOf ==
  ASSUME NEW x \in Nat, x < R
  PROVE  LET s == WordCount(x)
         IN  s \in 1..S /\ x < BPow[s] /\ (s = 1 \/ x >= BPow[s-1])
<1> DEFINE P == {s \in 1..S : x < BPow[s]}
<1>1. S \in P
  BY SizeAssumption DEF R
<1>2. PICK s \in P : \A u \in P : s <= u
  <2>1. P \subseteq Nat /\ P # {}
    BY <1>1
  <2>2. QED
    BY <2>1, LeastExists
<1>3. s = 1 \/ x >= BPow[s-1]
  <2> SUFFICES ASSUME s # 1 PROVE x >= BPow[s-1]
    OBVIOUS
  <2>1. s - 1 \in 1..S /\ s - 1 < s /\ s - 1 \in Nat
    BY SizeAssumption
  <2>2. s - 1 \notin P
    BY <1>2, <2>1
  <2>3. BPow[s-1] \in Nat
    BY <2>1, BPowDef
  <2>4. QED
    BY <2>1, <2>2, <2>3
<1>4. \E u \in 1..S : x < BPow[u] /\ (u = 1 \/ x >= BPow[u-1])
  BY <1>3
<1>5. QED
  BY <1>4 DEF WordCount

(* limbs_padded: words, the lowest first, that stand for the number.       *)
LEMMA SplitValue ==
  ASSUME NEW x \in Nat, NEW s \in Nat \ {0}, x < BPow[s]
  PROVE  /\ PaddedLimbs(x, s) \in [0..(s-1) -> Word]
         /\ LimbSum(PaddedLimbs(x, s), s) = x
         /\ PaddedLimbs(x, s)[0] = x % B
<1>1. PaddedLimbs(x, s) = [k \in 0..(s-1) |-> (x \div BPow[k]) % B]
  BY DEF PaddedLimbs
<1>2. /\ \A k \in 0..(s-1) : PaddedLimbs(x, s)[k] \in Word
      /\ \A k \in 0..s : LimbSum(PaddedLimbs(x, s), k) = x % BPow[k]
  BY DigitsValue DEF PaddedLimbs
<1>3. s \in 0..s /\ x % BPow[s] = x
  <2>1. PICK P \in Nat \ {0} : P = BPow[s]
    BY BPowDef
  <2>2. QED
    BY <2>1
<1>4. PaddedLimbs(x, s)[0] = x % B
  <2>1. BPow[0] = 1 /\ x \div 1 = x /\ 0 \in 0..(s-1)
    BY BPowDef
  <2>2. QED
    BY <1>1, <2>1
<1>5. QED
  BY <1>1, <1>2, <1>3, <1>4

(* Its highest limb is not 0 when no limb is superfluous.                  *)
LEMMA TopLimb ==
  ASSUME NEW x \in Nat, x > 0, NEW s \in Nat \ {0}, x < BPow[s], s = 1 \/ x >= BPow[s-1]
  PROVE  PaddedLimbs(x, s)[s-1] # 0
<1>1. PICK k \in Nat, P \in Nat \ {0} : k = s - 1 /\ P = BPow[k] /\ BPow[s] = B * P
  <2>1. s - 1 \in Nat /\ (s - 1) + 1 = s
    OBVIOUS
  <2>2. QED
    BY <2>1, BPowDef
<1>2. P <= x
  BY <1>1, BPowDef
<1>3. PICK q \in Int, r \in 0..(P-1) : q = x \div P /\ x = r + q * P
  BY Division
<1>4. q >= 1
  <2> SUFFICES ASSUME q <= 0 PROVE FALSE
    OBVIOUS
  <2>1. q * P <= 0
    OBVIOUS
  <2>2. QED
    BY <1>2, <1>3, <2>1
<1>5. q < B
  <2> SUFFICES ASSUME q >= B PROVE FALSE
    BY BaseAssumption
  <2>1. B * P <= q * P
    <3>1. q \in Nat /\ B \in Nat /\ P \in Nat
      BY <1>4, BaseAssumption
    <3>2. QED
      BY <3>1, TimesMono
  <2>2. q * P \in Int /\ B * P \in Int
    BY BaseAssumption
  <2>3. QED
    BY <1>1, <1>3, <2>1, <2>2
<1>6. q % B = q
  BY <1>4, <1>5, BaseAssumption
<1>7. QED
  BY <1>1, <1>3, <1>4, <1>6 DEF PaddedLimbs

(* The lowest limb of an odd number is odd.                                *)
LEMMA LowLimbOdd ==
  ASSUME NEW x \in Nat, x % 2 = 1
  PROVE  x % B \in Word /\ (x % B) % 2 = 1
<1>1. B \in Nat \ {0} /\ B % 2 = 0
  BY BaseAssumption
<1>2. PICK h \in Int : B = h * 2
  <2>1. 2 \in Nat \ {0} /\ B \in Int
    BY <1>1
  <2>2. QED
    BY <1>1, <2>1, Multiple
<1>3. PICK q \in Int, l \in 0..(B-1) : l = x % B /\ x = l + q * B
  <2>1. x \in Int
    OBVIOUS
  <2>2. QED
    BY <1>1, <2>1, Division, Zenon
<1>4. PICK d \in Int : d = q * h
  BY <1>2
<1>5. q * B = d * 2
  BY <1>2, <1>4
<1>6. x = l + d * 2
  BY <1>3, <1>5
<1>7. l % 2 = 1
  BY <1>3, <1>6
<1>8. QED
  BY <1>3, <1>7 DEF Word

-----------------------------------------------------------------------------
(* The lifting loop.                                                       *)

LEMMA BitsRightIs ==
  ASSUME NEW k \in Nat
  PROVE  /\ BitsRight(k) \in Nat /\ BitsRight(k) <= W
         /\ BitsRight(k + 1) \in Nat /\ BitsRight(k + 1) <= W
         /\ BitsRight(k + 1) <= 2 * BitsRight(k)
<1>1. PICK p \in Nat \ {0} : p = Pow2[k] /\ Pow2[k+1] = 2 * p
  BY Pow2Def
<1>2. W \in Nat \ {0}
  BY WordAssumption, WidthAssumption
<1>3. QED
  BY <1>1, <1>2 DEF BitsRight

(* A smaller power of two divides a larger one.                            *)
LEMMA Pow2Divides ==
  ASSUME NEW a \in Nat, NEW b \in Nat, a <= b
  PROVE  \E c \in Nat : Pow2[b] = c * Pow2[a]
<1>1. b - a \in Nat /\ a + (b - a) = b
  OBVIOUS
<1>2. Pow2[b] = Pow2[a] * Pow2[b - a]
  BY <1>1, Pow2Sum
<1>3. PICK x \in Nat, c \in Nat : x = Pow2[a] /\ c = Pow2[b - a]
  BY <1>1, Pow2Def
<1>4. x * c = c * x
  OBVIOUS
<1>5. QED
  BY <1>2, <1>3, <1>4

(* A wrapped number and the multiple of the base that was lost.            *)
LEMMA Wrapped ==
  ASSUME NEW x \in Int
  PROVE  \E e \in Int, g \in Word : g = U32(x) /\ x = g + e * B
<1>1. PICK m \in Nat \ {0} : m = B
  BY BaseAssumption
<1>2. PICK e \in Int, g \in 0..(m-1) : g = x % m /\ x = g + e * m
  BY Division
<1>3. QED
  BY <1>1, <1>2 DEF U32, Word

(* n0 is its own inverse modulo 8, hence modulo the first bits.            *)
LEMMA FirstBits ==
  ASSUME NEW a \in Word, a % 2 = 1
  PROVE  (a * a - 1) % Pow2[BitsRight(0)] = 0
<1>1. PICK c \in Int : a = 2 * c + 1
  <2>1. a \in Nat
    BY DEF Word
  <2>2. PICK c \in Int, r \in {0, 1} : r = a % 2 /\ a = 2 * c + r
    BY <2>1, Halves
  <2>3. QED
    BY <2>2
<1>2. PICK e \in Int : c * (c + 1) = 2 * e
  <2>1. PICK d \in Int, r \in {0, 1} : c = 2 * d + r
    BY Halves
  <2>2. CASE r = 0
    <3>1. c * (c + 1) = 2 * (d * (2 * d + 1)) /\ d * (2 * d + 1) \in Int
      BY <2>1, <2>2
    <3>2. QED
      BY <3>1
  <2>3. CASE r = 1
    <3>1. c * (c + 1) = 2 * ((2 * d + 1) * (d + 1)) /\ (2 * d + 1) * (d + 1) \in Int
      BY <2>1, <2>3
    <3>2. QED
      BY <3>1
  <2>4. QED
    BY <2>1, <2>2, <2>3
<1>3. a * a - 1 = e * 8
  <2>1. (2 * c + 1) * (2 * c + 1) - 1 = 4 * (c * (c + 1))
    OBVIOUS
  <2>2. PICK y \in Int : y = c * (c + 1)
    OBVIOUS
  <2>3. 4 * y = e * 8
    BY <1>2, <2>2
  <2>4. (2 * c + 1) * (2 * c + 1) - 1 = e * 8
    BY <2>1, <2>2, <2>3
  <2>5. a * a = (2 * c + 1) * (2 * c + 1)
    BY <1>1, Zenon
  <2>6. QED
    BY <2>4, <2>5, Zenon
<1>4. PICK p \in Nat \ {0}, f \in Nat : p = Pow2[BitsRight(0)] /\ 8 = f * p
  <2>1. Pow2[0] = 1 /\ Pow2[1] = 2 /\ Pow2[2] = 4 /\ Pow2[3] = 8
    <3>1. Pow2[0+1] = 2 * Pow2[0] /\ Pow2[1+1] = 2 * Pow2[1] /\ Pow2[2+1] = 2 * Pow2[2]
      BY Pow2Def
    <3>2. QED
      BY <3>1, Pow2Def
  <2>2. BitsRight(0) \in Nat /\ BitsRight(0) <= 3
    BY <2>1, WordAssumption, WidthAssumption DEF BitsRight
  <2>3. PICK f \in Nat : Pow2[3] = f * Pow2[BitsRight(0)]
    BY <2>2, Pow2Divides
  <2>4. QED
    BY <2>1, <2>2, <2>3, Pow2Def
<1>5. PICK x \in Int, z \in Int : x = a * a - 1 /\ z = e * f
  BY DEF Word
<1>6. x = z * p
  <2>1. e * (f * p) = (e * f) * p
    OBVIOUS
  <2>2. QED
    BY <1>3, <1>4, <1>5, <2>1
<1>7. x % p = 0
  BY <1>6, Multiple
<1>8. QED
  BY <1>4, <1>5, <1>7

(* inv *= 2 - n0 * inv in wrapping arithmetic: what is an inverse modulo   *)
(* the first bits is one modulo twice as many, because the new error is    *)
(* minus the square of the old one.                                        *)
LEMMA LiftDoubles ==
  ASSUME NEW a \in Word, NEW v \in Word, NEW k \in Nat,
         (a * v - 1) % Pow2[BitsRight(k)] = 0
  PROVE  /\ Newton(a, v) \in Word
         /\ (a * Newton(a, v) - 1) % Pow2[BitsRight(k + 1)] = 0
<1>1. PICK m \in Nat \ {0}, p \in Nat \ {0}, c \in Nat, d \in Nat :
        /\ m = Pow2[BitsRight(k)] /\ p = Pow2[BitsRight(k + 1)]
        /\ m * m = c * p /\ B = d * p
  <2>1. PICK x \in Nat, y \in Nat :
          x = BitsRight(k) /\ y = BitsRight(k + 1) /\ y <= x + x /\ y <= W
    BY BitsRightIs
  <2>2. Pow2[x + x] = Pow2[x] * Pow2[x]
    BY Pow2Sum
  <2>3. PICK c \in Nat : Pow2[x + x] = c * Pow2[y]
    BY <2>1, Pow2Divides
  <2>4. PICK d \in Nat : B = d * Pow2[y]
    BY <2>1, Pow2Divides, WordAssumption, WidthAssumption
  <2>5. Pow2[x] \in Nat \ {0} /\ Pow2[y] \in Nat \ {0}
    BY Pow2Def
  <2>6. QED
    BY <2>1, <2>2, <2>3, <2>4, <2>5
<1>2. a \in Int /\ v \in Int /\ B \in Nat \ {0}
  BY BaseAssumption DEF Word
<1>3. PICK y \in Int, t \in Int : y = a * v /\ y - 1 = t * m
  <2>1. PICK y \in Int, x \in Int : y = a * v /\ x = y - 1
    BY <1>2
  <2>2. PICK t \in Int : x = t * m
    BY <1>1, <2>1, Multiple
  <2>3. QED
    BY <2>1, <2>2
<1>4. PICK e1 \in Int, f \in Word : f = U32(a * v) /\ y = f + e1 * B
  BY <1>3, Wrapped
<1>5. PICK e2 \in Int, g \in Word : g = U32(2 - U32(a * v)) /\ 2 - f = g + e2 * B
  <2>1. PICK x \in Int : x = 2 - f
    BY DEF Word
  <2>2. PICK e2 \in Int, g \in Word : g = U32(x) /\ x = g + e2 * B
    BY Wrapped
  <2>3. QED
    BY <1>4, <2>1, <2>2
<1>6. PICK e3 \in Int, h \in Word : h = Newton(a, v) /\ v * g = h + e3 * B
  <2>1. PICK x \in Int : x = v * g
    BY <1>2 DEF Word
  <2>2. PICK e3 \in Int, h \in Word : h = U32(x) /\ x = h + e3 * B
    BY Wrapped
  <2>3. QED
    BY <1>5, <2>1, <2>2 DEF Newton
<1>a. f \in Int /\ g \in Int /\ h \in Int
  BY DEF Word
<1>7. PICK z \in Int : z = a * (v * (e1 - e2)) - a * e3
  BY <1>2, <1>a
<1>8. a * h = y * (2 - y) + z * B
  <2>1. g = (2 - y) + (e1 - e2) * B
    <3>1. PICK x1 \in Int, x2 \in Int : x1 = e1 * B /\ x2 = e2 * B
      BY <1>2, <1>a
    <3>2. (e1 - e2) * B = x1 - x2
      BY <1>2, <1>a, <3>1
    <3>3. y = f + x1 /\ 2 - f = g + x2
      BY <1>4, <1>5, <3>1
    <3>4. g = (2 - y) + (x1 - x2)
      BY <1>a, <3>3
    <3>5. QED
      BY <3>2, <3>4
  <2>2. h = v * g - e3 * B
    BY <1>2, <1>6, <1>a
  <2>3. a * h = a * (v * g) - (a * e3) * B
    <3>1. a * (v * g - e3 * B) = a * (v * g) - (a * e3) * B
      BY <1>2, <1>a
    <3>2. QED
      BY <2>2, <3>1
  <2>4. a * (v * g) = (a * v) * ((2 - y) + (e1 - e2) * B)
    <3>1. a * (v * ((2 - y) + (e1 - e2) * B)) = (a * v) * ((2 - y) + (e1 - e2) * B)
      BY <1>2, <1>a
    <3>2. QED
      BY <2>1, <3>1
  <2>5. (a * v) * ((2 - y) + (e1 - e2) * B) = (a * v) * (2 - y) + (a * (v * (e1 - e2))) * B
    BY <1>2, <1>a
  <2>6. z * B = (a * (v * (e1 - e2))) * B - (a * e3) * B
    <3>1. (a * (v * (e1 - e2)) - a * e3) * B = (a * (v * (e1 - e2))) * B - (a * e3) * B
      BY <1>2, <1>a
    <3>2. QED
      BY <1>7, <3>1
  <2>7. PICK x1 \in Int, x2 \in Int, x3 \in Int :
          x1 = (a * (v * (e1 - e2))) * B /\ x2 = (a * e3) * B /\ x3 = y * (2 - y)
    BY <1>2, <1>a
  <2>8. a * h = (x3 + x1) - x2
    BY <1>3, <2>3, <2>4, <2>5, <2>7
  <2>9. z * B = x1 - x2
    BY <2>6, <2>7
  <2>10. QED
    BY <2>7, <2>8, <2>9
<1>9. PICK w \in Int : w = z * d - (t * t) * c
  OBVIOUS
<1>10. a * h - 1 = w * p
  <2>1. y * (2 - y) - 1 = -((y - 1) * (y - 1))
    OBVIOUS
  <2>2. (y - 1) * (y - 1) = (t * t) * (m * m)
    <3>1. (t * m) * (t * m) = (t * t) * (m * m)
      OBVIOUS
    <3>2. QED
      BY <1>3, <3>1
  <2>3. (t * t) * (m * m) = ((t * t) * c) * p
    <3>1. (t * t) * (c * p) = ((t * t) * c) * p
      OBVIOUS
    <3>2. QED
      BY <1>1, <3>1
  <2>4. z * B = (z * d) * p
    <3>1. z * (d * p) = (z * d) * p
      OBVIOUS
    <3>2. QED
      BY <1>1, <3>1
  <2>5. w * p = (z * d) * p - ((t * t) * c) * p
    <3>1. (z * d - (t * t) * c) * p = (z * d) * p - ((t * t) * c) * p
      OBVIOUS
    <3>2. QED
      BY <1>9, <3>1
  <2>6. PICK x1 \in Int, x2 \in Int, x3 \in Int :
          x1 = (z * d) * p /\ x2 = ((t * t) * c) * p /\ x3 = y * (2 - y)
    OBVIOUS
  <2>7. x3 - 1 = -x2
    BY <2>1, <2>2, <2>3, <2>6
  <2>8. a * h = x3 + x1
    BY <1>8, <2>4, <2>6
  <2>9. a * h - 1 = x1 - x2
    BY <2>7, <2>8
  <2>10. QED
    BY <2>5, <2>6, <2>9
<1>11. PICK x \in Int : x = a * h - 1
  BY <1>2, <1>a
<1>12. x % p = 0
  BY <1>10, <1>11, Multiple
<1>13. QED
  BY <1>1, <1>6, <1>11, <1>12

(* When all bits are right the negated inverse is the n' that monpro needs.*)
LEMMA LiftEnds ==
  ASSUME NEW a \in Word, NEW v \in Word,
         (a * v - 1) % Pow2[BitsRight(NewtonSteps)] = 0
  PROVE  Negated(v) \in Word /\ (a * Negated(v) + 1) % B = 0
<1>1. Pow2[BitsRight(NewtonSteps)] = B
  <2>1. PICK x \in Nat, w \in Nat \ {0} : x = Pow2[NewtonSteps] /\ w = W /\ 3 * x >= w
    BY WordAssumption, WidthAssumption, Pow2Def
  <2>2. BitsRight(NewtonSteps) = W
    BY <2>1 DEF BitsRight
  <2>3. QED
    BY <2>2, WordAssumption, WidthAssumption
<1>2. a \in Int /\ v \in Int /\ B \in Nat \ {0}
  BY BaseAssumption DEF Word
<1>3. PICK t \in Int : a * v - 1 = t * B
  <2>1. PICK x \in Int : x = a * v - 1
    BY <1>2
  <2>2. QED
    BY <1>1, <1>2, <2>1, Multiple
<1>4. PICK e \in Int, g \in 0..(B-1) : g = Negated(v) /\ 0 - v = g + e * B
  <2>1. PICK x \in Int : x = 0 - v
    BY <1>2
  <2>2. PICK e \in Int, g \in Word : g = U32(x) /\ x = g + e * B
    BY <2>1, Wrapped
  <2>3. QED
    BY <2>1, <2>2 DEF Negated, Word
<1>5. a * g + 1 = (-t - a * e) * B
  <2>1. g = -v - e * B
    BY <1>2, <1>4
  <2>2. a * (-v - e * B) = -(a * v) - (a * e) * B
    BY <1>2
  <2>3. (-t - a * e) * B = -(t * B) - (a * e) * B
    BY <1>2
  <2>4. PICK x1 \in Int, x2 \in Int, x3 \in Int : x1 = a * v /\ x2 = t * B /\ x3 = (a * e) * B
    BY <1>2
  <2>5. a * g = -x1 - x3
    BY <2>1, <2>2, <2>4
  <2>6. QED
    BY <1>3, <2>3, <2>4, <2>5
<1>6. PICK x \in Int, z \in Int : x = a * g + 1 /\ z = -t - a * e
  <2>1. g \in Int /\ a * g \in Int /\ a * e \in Int
    BY <1>2
  <2>2. QED
    BY <2>1
<1>7. x % B = 0
  <2>1. \E y \in Int : x = y * B
    BY <1>5, <1>6, Zenon
  <2>2. QED
    BY <1>2, <2>1, Multiple
<1>8. QED
  BY <1>4, <1>6, <1>7 DEF Word

(* shl(1) and the conditional subtraction double modulo m.                 *)
LEMMA DoublingStep ==
  ASSUME NEW m \in Nat \ {0}, NEW k \in Nat, NEW r \in 0..(m-1), r = Pow2[k] % m,
         NEW d, d = IF 2 * r >= m THEN 2 * r - m ELSE 2 * r
  PROVE  d \in 0..(m-1) /\ d = Pow2[k + 1] % m
<1>1. PICK x \in Nat : x = Pow2[k] /\ Pow2[k + 1] = 2 * x
  BY Pow2Def
<1>2. PICK q \in Int : x = r + q * m
  <2>0. x \in Int
    OBVIOUS
  <2>1. PICK q \in Int, l \in 0..(m-1) : l = x % m /\ x = l + q * m
    BY <2>0, Division, Zenon
  <2>2. l = r
    BY <1>1, <2>1
  <2>3. QED
    BY <2>1, <2>2, Zenon
<1>3. d \in 0..(m-1)
  OBVIOUS
<1>4. PICK e \in Int : 2 * x = d + e * m
  <2>1. PICK y \in Int : y = q * m
    OBVIOUS
  <2>2. CASE 2 * r >= m
    <3>1. (2 * q + 1) * m = 2 * y + m
      BY <2>1
    <3>2. 2 * x = d + (2 * q + 1) * m /\ 2 * q + 1 \in Int
      BY <1>2, <2>1, <2>2, <3>1
    <3>3. QED
      BY <3>2
  <2>3. CASE ~(2 * r >= m)
    <3>1. (2 * q) * m = 2 * y
      BY <2>1
    <3>2. 2 * x = d + (2 * q) * m /\ 2 * q \in Int
      BY <1>2, <2>1, <2>3, <3>1
    <3>3. QED
      BY <3>2
  <2>4. QED
    BY <2>2, <2>3
<1>5. (d + e * m) % m = d
  BY <1>3, Residue
<1>6. QED
  BY <1>1, <1>3, <1>4, <1>5

-----------------------------------------------------------------------------
(* The inductive invariant, action by action.                              *)

(* What the split gives: limbs of the modulus, the lowest one odd, the     *)
(* highest not 0, and an R of its own above it.                            *)
LEMMA Split ==
  ASSUME NEW x \in Nat, x < R, ~Refused(x)
  PROVE  LET s == WordCount(x)
             n == PaddedLimbs(x, s)
         IN  /\ s \in 1..S /\ W * s \in Nat /\ W * s <= W * S /\ x < BPow[s]
             /\ n \in [0..(s-1) -> Word] /\ LimbSum(n, s) = x /\ n[s-1] # 0
             /\ n[0] \in Word /\ n[0] % 2 = 1 /\ x >= 3
<1>1. PICK s \in 1..S : s = WordCount(x) /\ x < BPow[s] /\ (s = 1 \/ x >= BPow[s-1])
  BY WordCountOf
<1>2. s \in Nat \ {0} /\ x >= 3 /\ x > 0 /\ x % 2 = 1
  BY DEF Refused
<1>3. W * s \in Nat /\ W * s <= W * S
  <2>1. s \in Nat /\ S \in Nat /\ s <= S /\ W \in Nat
    BY <1>1, SizeAssumption, WordAssumption, WidthAssumption
  <2>2. s * W \in Nat /\ s * W <= S * W
    BY <2>1, TimesMono
  <2>3. s * W = W * s /\ S * W = W * S
    BY <2>1
  <2>4. QED
    BY <2>2, <2>3
<1>4. PICK n : n = PaddedLimbs(x, s)
  OBVIOUS
<1>5. n \in [0..(s-1) -> Word] /\ LimbSum(n, s) = x /\ n[0] = x % B
  BY <1>1, <1>2, <1>4, SplitValue
<1>6. n[s-1] # 0
  BY <1>1, <1>2, <1>4, TopLimb
<1>7. n[0] \in Word /\ n[0] % 2 = 1
  BY <1>2, <1>5, LowLimbOdd
<1>8. QED
  BY <1>1, <1>2, <1>3, <1>4, <1>5, <1>6, <1>7

(* What holds of every object under construction, in one place.            *)
LEMMA SplitFacts ==
  ASSUME TypeOK, SplitDone
  PROVE  /\ modulus \in Nat \ {0} /\ modulus >= 3 /\ modulus < BPow[s_]
         /\ s_ \in 1..S /\ W * s_ \in Nat /\ W * s_ <= W * S
         /\ n_limbs_ \in [0..(s_-1) -> Word] /\ LimbSum(n_limbs_, s_) = modulus
         /\ n_limbs_[s_-1] # 0 /\ n_limbs_[0] \in Word /\ n_limbs_[0] % 2 = 1
<1>1. modulus \in Nat
  BY DEF TypeOK
<1>2. QED
  BY <1>1, Split DEF SplitDone

LEMMA InitInv ==
  ASSUME Init
  PROVE  IInv
<1>1. 0 \in Word /\ 0 \in 0..(W * S + NewtonSteps) /\ 0 \in 0..S
  <2>1. W * S \in Nat /\ NewtonSteps \in Nat
    BY WordAssumption, WidthAssumption, SizeAssumption
  <2>2. QED
    BY <2>1, BaseAssumption, SizeAssumption DEF Word
<1>2. QED
  BY <1>1 DEF Init, IInv, LoopInv, TypeOK, NewtonPrecision, DoublingExact, PhaseInv

LEMMA ConstructInv ==
  ASSUME IInv, NEW x \in Moduli, Construct(x)
  PROVE  IInv'
<1>0. /\ x \in Nat /\ x < R /\ modulus' = x /\ i' = 0 /\ r_mod_n' = 1 /\ n_prime_' = 0
      /\ one_mont_' = <<>> /\ r2_' = <<>>
  <2>1. R \in Nat
    BY BPowDef, SizeAssumption DEF R
  <2>2. QED
    BY <2>1, ModuliAssumption DEF Construct
<1>1. 0 \in Word /\ 0 \in 0..(W * S + NewtonSteps) /\ 0 \in 0..S /\ 0 <= NewtonSteps
  <2>1. W * S \in Nat /\ NewtonSteps \in Nat
    BY WordAssumption, WidthAssumption, SizeAssumption
  <2>2. QED
    BY <2>1, BaseAssumption, SizeAssumption DEF Word
<1>2. CASE Refused(x)
  <2>1. pc' = "thrown" /\ inv' = 0 /\ s_' = 0 /\ n_limbs_' = <<>>
    BY <1>2 DEF Construct
  <2>2. QED
    BY <1>0, <1>1, <2>1 DEF IInv, LoopInv, TypeOK, NewtonPrecision, DoublingExact, PhaseInv
<1>3. CASE ~Refused(x)
  <2>1. /\ pc' = "newton" /\ s_' = WordCount(x) /\ n_limbs_' = PaddedLimbs(x, s_')
        /\ inv' = n_limbs_'[0]
    BY <1>3 DEF Construct
  <2>2. /\ s_' \in 1..S /\ n_limbs_' \in [0..(s_'-1) -> Word]
        /\ n_limbs_'[0] \in Word /\ n_limbs_'[0] % 2 = 1
    BY <1>0, <1>3, <2>1, Split
  <2>3. TypeOK'
    BY <1>0, <1>1, <2>1, <2>2 DEF TypeOK
  <2>4. NewtonPrecision'
    BY <1>0, <2>1, <2>2, FirstBits DEF NewtonPrecision
  <2>5. PhaseInv' /\ DoublingExact'
    BY <1>0, <1>1, <1>3, <2>1 DEF PhaseInv, SplitDone, DoublingExact, Refused
  <2>6. QED
    BY <2>3, <2>4, <2>5 DEF IInv, LoopInv
<1>4. QED
  BY <1>2, <1>3

LEMMA LiftInv ==
  ASSUME IInv, Lift
  PROVE  IInv'
<1>0. /\ pc = "newton" /\ i < NewtonSteps /\ inv' = Newton(n_limbs_[0], inv) /\ i' = i + 1
      /\ pc' = pc /\ modulus' = modulus /\ r_mod_n' = r_mod_n /\ s_' = s_
      /\ n_limbs_' = n_limbs_ /\ n_prime_' = n_prime_ /\ one_mont_' = one_mont_ /\ r2_' = r2_
  BY DEF Lift, NextIndex, members
<1>1. TypeOK /\ SplitDone /\ i \in Nat /\ inv \in Word
      /\ (n_limbs_[0] * inv - 1) % Pow2[BitsRight(i)] = 0
  BY <1>0 DEF IInv, LoopInv, TypeOK, NewtonPrecision, PhaseInv
<1>2. n_limbs_[0] \in Word
  BY <1>1, SplitFacts
<1>3. inv' \in Word /\ (n_limbs_[0] * inv' - 1) % Pow2[BitsRight(i + 1)] = 0
  BY <1>0, <1>1, <1>2, LiftDoubles
<1>4. i' \in 0..(W * S + NewtonSteps) /\ i' <= NewtonSteps
  <2>1. W * S \in Nat /\ NewtonSteps \in Nat
    BY WordAssumption, WidthAssumption, SizeAssumption
  <2>2. QED
    BY <1>0, <1>1, <2>1
<1>5. TypeOK'
  BY <1>0, <1>1, <1>3, <1>4 DEF TypeOK
<1>6. NewtonPrecision'
  BY <1>0, <1>3 DEF NewtonPrecision
<1>7. PhaseInv' /\ DoublingExact'
  BY <1>0, <1>1, <1>4 DEF IInv, PhaseInv, SplitDone, DoublingExact, Refused
<1>8. QED
  BY <1>5, <1>6, <1>7 DEF IInv, LoopInv

LEMMA EndLiftInv ==
  ASSUME IInv, EndLift
  PROVE  IInv'
<1>0. /\ pc = "newton" /\ i = NewtonSteps /\ n_prime_' = Negated(inv) /\ i' = 0
      /\ pc' = "double" /\ modulus' = modulus /\ inv' = inv /\ r_mod_n' = r_mod_n
      /\ s_' = s_ /\ n_limbs_' = n_limbs_ /\ one_mont_' = one_mont_ /\ r2_' = r2_
  BY DEF EndLift
<1>1. TypeOK /\ SplitDone /\ inv \in Word /\ r_mod_n = 1
      /\ (n_limbs_[0] * inv - 1) % Pow2[BitsRight(NewtonSteps)] = 0
  BY <1>0 DEF IInv, LoopInv, TypeOK, NewtonPrecision, PhaseInv
<1>2. /\ n_limbs_[0] \in Word /\ modulus \in Nat \ {0} /\ modulus >= 3
      /\ W * s_ \in Nat /\ W * S \in Nat /\ NewtonSteps \in Nat
  BY <1>1, SplitFacts, WordAssumption, WidthAssumption, SizeAssumption
<1>3. n_prime_' \in Word /\ (n_limbs_[0] * n_prime_' + 1) % B = 0
  BY <1>0, <1>1, <1>2, LiftEnds
<1>4. TypeOK'
  BY <1>0, <1>1, <1>2, <1>3 DEF TypeOK
<1>5. DoublingExact'
  <2>1. Pow2[0] = 1 /\ 1 % modulus = 1 /\ 1 < modulus
    BY <1>2, Pow2Def
  <2>2. QED
    BY <1>0, <1>1, <2>1 DEF DoublingExact
<1>6. PhaseInv' /\ NewtonPrecision'
  <2>1. SplitDone'
    BY <1>0, <1>1 DEF SplitDone, Refused
  <2>2. 0 <= Rounds'
    BY <1>0, <1>2 DEF Rounds
  <2>3. QED
    BY <1>0, <1>3, <2>1, <2>2 DEF PhaseInv, NewtonPrecision
<1>7. QED
  BY <1>4, <1>5, <1>6 DEF IInv, LoopInv

LEMMA DoubleInv ==
  ASSUME IInv, Double
  PROVE  IInv'
<1>0. /\ pc = "double" /\ i < Rounds /\ r_mod_n' = Doubled(r_mod_n) /\ i' = i + 1
      /\ pc' = pc /\ modulus' = modulus /\ inv' = inv /\ s_' = s_
      /\ n_limbs_' = n_limbs_ /\ n_prime_' = n_prime_ /\ one_mont_' = one_mont_ /\ r2_' = r2_
  BY DEF Double, NextIndex, members
<1>1. /\ TypeOK /\ SplitDone /\ i \in Nat /\ r_mod_n \in Nat
      /\ r_mod_n < modulus /\ r_mod_n = Pow2[i] % modulus
  BY <1>0 DEF IInv, LoopInv, TypeOK, DoublingExact, PhaseInv
<1>2. modulus \in Nat \ {0} /\ W * s_ \in Nat /\ W * s_ <= W * S
      /\ W * S \in Nat /\ NewtonSteps \in Nat
  BY <1>1, SplitFacts, WordAssumption, WidthAssumption, SizeAssumption
<1>3. r_mod_n' \in 0..(modulus - 1) /\ r_mod_n' = Pow2[i + 1] % modulus
  <2>1. r_mod_n \in 0..(modulus - 1)
    BY <1>1, <1>2
  <2>2. QED
    BY <1>0, <1>1, <1>2, <2>1, DoublingStep DEF Doubled
<1>4. i' \in 0..(W * S + NewtonSteps) /\ i' <= W * s_
  BY <1>0, <1>1, <1>2 DEF Rounds
<1>5. TypeOK'
  <2>1. r_mod_n' \in Nat
    BY <1>2, <1>3
  <2>2. QED
    BY <1>0, <1>1, <1>4, <2>1 DEF TypeOK
<1>6. DoublingExact'
  <2>1. r_mod_n' < modulus
    BY <1>2, <1>3
  <2>2. QED
    BY <1>0, <1>3, <2>1 DEF DoublingExact
<1>7. PhaseInv' /\ NewtonPrecision'
  BY <1>0, <1>1, <1>4 DEF IInv, PhaseInv, SplitDone, NewtonPrecision, Refused, Rounds
<1>8. QED
  BY <1>5, <1>6, <1>7 DEF IInv, LoopInv

(* A reduced number split over the limbs of the modulus.                   *)
LEMMA ReducedLimbs ==
  ASSUME TypeOK, SplitDone, NEW v \in Nat, v < modulus
  PROVE  /\ PaddedLimbs(v, s_) \in [0..(s_-1) -> Word]
         /\ LimbSum(PaddedLimbs(v, s_), s_) = v
<1>1. s_ \in Nat \ {0} /\ modulus < BPow[s_] /\ BPow[s_] \in Nat /\ modulus \in Nat
  <2>1. s_ \in 1..S /\ modulus < BPow[s_] /\ modulus \in Nat
    BY SplitFacts
  <2>2. s_ \in Nat \ {0}
    BY <2>1, SizeAssumption
  <2>3. QED
    BY <2>1, <2>2, BPowDef
<1>2. v < BPow[s_]
  BY <1>1
<1>3. QED
  BY <1>1, <1>2, SplitValue

LEMMA FinishInv ==
  ASSUME IInv, Finish
  PROVE  IInv'
<1>0. /\ pc = "double" /\ i = Rounds /\ pc' = "ready"
      /\ one_mont_' = PaddedLimbs(r_mod_n, s_)
      /\ r2_' = PaddedLimbs((r_mod_n * r_mod_n) % modulus, s_)
      /\ modulus' = modulus /\ i' = i /\ inv' = inv /\ r_mod_n' = r_mod_n /\ s_' = s_
      /\ n_limbs_' = n_limbs_ /\ n_prime_' = n_prime_
  BY DEF Finish
<1>1. /\ TypeOK /\ SplitDone /\ i = W * s_ /\ r_mod_n \in Nat
      /\ r_mod_n < modulus /\ r_mod_n = Pow2[i] % modulus
  BY <1>0 DEF IInv, LoopInv, TypeOK, DoublingExact, PhaseInv, Rounds
<1>2. modulus \in Nat \ {0} /\ s_ \in 1..S /\ s_ \in Nat
  BY <1>1, SplitFacts
<1>3. r_mod_n = RadixOf(s_) % modulus
  BY <1>1, <1>2, BaseIsPower DEF RadixOf
<1>4. (r_mod_n * r_mod_n) % modulus \in Nat /\ (r_mod_n * r_mod_n) % modulus < modulus
  <2>1. PICK x \in Int : x = r_mod_n * r_mod_n
    BY <1>1
  <2>2. x % modulus \in 0..(modulus - 1)
    BY <1>2, <2>1
  <2>3. QED
    BY <1>2, <2>1, <2>2
<1>5. TypeOK'
  <2>1. one_mont_' \in [0..(s_-1) -> Word] /\ r2_' \in [0..(s_-1) -> Word]
    BY <1>0, <1>1, <1>4, ReducedLimbs
  <2>2. QED
    BY <1>0, <1>1, <2>1 DEF TypeOK
<1>6. PhaseInv'
  BY <1>0, <1>1, <1>3 DEF IInv, PhaseInv, SplitDone, Refused, RadixOf
<1>7. NewtonPrecision' /\ DoublingExact'
  BY <1>0 DEF NewtonPrecision, DoublingExact
<1>8. QED
  BY <1>5, <1>6, <1>7 DEF IInv, LoopInv

LEMMA DropInv ==
  ASSUME IInv, Drop
  PROVE  IInv'
<1>1. 0 \in Word /\ 0 \in 0..(W * S + NewtonSteps) /\ 0 \in 0..S
  <2>1. W * S \in Nat /\ NewtonSteps \in Nat
    BY WordAssumption, WidthAssumption, SizeAssumption
  <2>2. QED
    BY <2>1, BaseAssumption, SizeAssumption DEF Word
<1>2. QED
  BY <1>1 DEF Drop, IInv, LoopInv, TypeOK, NewtonPrecision, DoublingExact, PhaseInv

LEMMA NextInv ==
  ASSUME IInv, [Next]_vars
  PROVE  IInv'
<1>1. ASSUME NEW x \in Moduli, Construct(x) PROVE IInv'
  BY <1>1, ConstructInv
<1>2. CASE Step
  BY <1>2, LiftInv, EndLiftInv, DoubleInv, FinishInv DEF Step
<1>3. CASE Drop
  BY <1>3, DropInv
<1>4. CASE UNCHANGED vars
  BY <1>4 DEF vars, members, IInv, LoopInv, TypeOK, NewtonPrecision, DoublingExact, PhaseInv,
              SplitDone, Refused, Rounds, RadixOf
<1>5. QED
  BY <1>1, <1>2, <1>3, <1>4 DEF Next

-----------------------------------------------------------------------------
(* What follows from it.                                                   *)

(* montgomery.cpp:13-20 and 35-39: every lifting step doubles the correct  *)
(* bits of the inverse, every doubling keeps the accumulator reduced and   *)
(* equal to a power of two modulo N.                                       *)
THEOREM Inductive == Spec => []IInv
<1>1. Init => IInv
  BY InitInv
<1>2. IInv /\ [Next]_vars => IInv'
  BY NextInv
<1>3. QED
  BY <1>1, <1>2, PTL DEF Spec

LEMMA ReadyIsUsable ==
  ASSUME IInv
  PROVE  ContextUsable
<1> SUFFICES ASSUME pc = "ready" PROVE ContextUsable
  BY DEF ContextUsable
<1>1. /\ TypeOK /\ SplitDone /\ r_mod_n = RadixOf(s_) % modulus
      /\ one_mont_ = PaddedLimbs(r_mod_n, s_) /\ n_prime_ \in Word
      /\ r2_ = PaddedLimbs((r_mod_n * r_mod_n) % modulus, s_)
      /\ (n_limbs_[0] * n_prime_ + 1) % B = 0
  BY DEF IInv, LoopInv, PhaseInv, TypeOK
<1>2. /\ modulus \in Nat \ {0} /\ modulus >= 3 /\ modulus < BPow[s_]
      /\ s_ \in 1..S /\ n_limbs_ \in [0..(s_-1) -> Word] /\ LimbSum(n_limbs_, s_) = modulus
      /\ n_limbs_[s_-1] # 0 /\ n_limbs_[0] \in Word /\ n_limbs_[0] % 2 = 1
  BY <1>1, SplitFacts
<1>3. r_mod_n \in Nat /\ r_mod_n < modulus
  <2>1. PICK x \in Int : x = RadixOf(s_)
    BY <1>2, BPowDef DEF RadixOf
  <2>2. x % modulus \in 0..(modulus - 1)
    BY <1>2
  <2>3. QED
    BY <1>1, <1>2, <2>1, <2>2
<1>4. NumberIn(one_mont_) = r_mod_n
  BY <1>1, <1>3, ReducedLimbs DEF NumberIn
<1>5. NumberIn(r2_) = (r_mod_n * r_mod_n) % modulus
  <2>1. PICK x \in Int : x = r_mod_n * r_mod_n
    BY <1>3
  <2>2. x % modulus \in Nat /\ x % modulus < modulus
    BY <1>2
  <2>3. QED
    BY <1>1, <2>1, <2>2, ReducedLimbs DEF NumberIn
<1>6. s_ = S => ValidContext(n_limbs_, n_prime_)
  BY <1>1, <1>2 DEF ValidContext, Limbs, Value
<1>7. RadixOf(s_) > modulus
  BY <1>2, BPowDef DEF RadixOf
<1>8. QED
  BY <1>1, <1>2, <1>4, <1>5, <1>6, <1>7 DEF ContextUsable, NumberIn

(* A context that was not refused is one monpro can be called on, and its  *)
(* constants are R mod N and R^2 mod N for the R of its own limb count:    *)
(* the precondition from which MonProProofs starts.                        *)
THEOREM ConstructorCorrect == Spec => []ContextUsable
<1>1. IInv => ContextUsable
  BY ReadyIsUsable
<1>2. QED
  BY <1>1, Inductive, PTL

-----------------------------------------------------------------------------
(* The bits of a number.                                                   *)
BitArrays == [Nat -> {0, 1}]

(* The prefix sums of an array of bits follow their recursion.             *)
LEMMA BitSumRec ==
  ASSUME NEW f \in BitArrays
  PROVE  /\ BitSum(f, 0) = 0
         /\ \A k \in Nat : BitSum(f, k) \in Nat
         /\ \A k \in Nat : BitSum(f, k+1) = BitSum(f, k) + f[k] * Pow2[k]
<1> DEFINE step == [k \in Nat |-> [v \in Nat |-> v + f[k] * Pow2[k]]]
           sum == CHOOSE s : s = [k \in Nat |-> IF k = 0 THEN 0
                                    ELSE s[k-1] + f[k-1] * Pow2[k-1]]
<1>0. \A k \in Nat : f[k] * Pow2[k] \in Nat
  BY Pow2Def DEF BitArrays
<1>a. PICK g : Recursion(Nat, 0, step, g)
  <2>1. step \in [Nat -> [Nat -> Nat]]
    BY <1>0
  <2>2. 0 \in Nat
    OBVIOUS
  <2> HIDE DEF step
  <2>3. QED
    BY <2>1, <2>2, PrimRec
<1>1. g \in [Nat -> Nat] /\ g[0] = 0 /\ \A k \in Nat : g[k+1] = step[k][g[k]]
  BY <1>a DEF Recursion
<1>2. \A k \in Nat : g[k+1] = g[k] + f[k] * Pow2[k]
  BY <1>1
<1>3. g = [k \in Nat |-> IF k = 0 THEN 0 ELSE g[k-1] + f[k-1] * Pow2[k-1]]
  <2>1. ASSUME NEW k \in Nat
        PROVE  g[k] = IF k = 0 THEN 0 ELSE g[k-1] + f[k-1] * Pow2[k-1]
    <3>1. CASE k = 0
      BY <1>1, <3>1
    <3>2. CASE k # 0
      <4>1. k-1 \in Nat /\ k = (k-1)+1
        BY <3>2
      <4>2. g[(k-1)+1] = g[k-1] + f[k-1] * Pow2[k-1]
        BY <1>2, <4>1
      <4>3. QED
        BY <4>1, <4>2, <3>2
    <3>3. QED
      BY <3>1, <3>2
  <2>2. QED
    BY <2>1, <1>1
<1>4. sum = [k \in Nat |-> IF k = 0 THEN 0 ELSE sum[k-1] + f[k-1] * Pow2[k-1]]
  BY <1>3, Zenon
<1>5. \A k : BitSum(f, k) = sum[k]
  BY DEF BitSum
<1> HIDE DEF sum
<1>6. \A k \in Nat : sum[k] = IF k = 0 THEN 0 ELSE sum[k-1] + f[k-1] * Pow2[k-1]
  BY <1>4, Zenon
<1>7. sum[0] = 0 /\ \A k \in Nat : sum[k+1] = sum[k] + f[k] * Pow2[k]
  <2>1. sum[0] = 0
    BY <1>6
  <2>2. ASSUME NEW k \in Nat PROVE sum[k+1] = sum[k] + f[k] * Pow2[k]
    <3>1. k+1 \in Nat /\ k+1 # 0 /\ (k+1)-1 = k
      OBVIOUS
    <3>2. QED
      BY <3>1, <1>6
  <2>3. QED
    BY <2>1, <2>2
<1>8. \A k \in Nat : sum[k] \in Nat
  <2> DEFINE P == {k \in Nat : sum[k] \in Nat}
  <2>1. 0 \in P
    BY <1>7
  <2>2. \A k \in P : k+1 \in P
    BY <1>7, <1>0
  <2>3. P = Nat
    BY <2>1, <2>2, SetInduction
  <2>4. QED
    BY <2>3
<1>9. QED
  BY <1>5, <1>7, <1>8

(* n bits make a number below 2^n.                                         *)
LEMMA BitSumBound ==
  ASSUME NEW f \in BitArrays
  PROVE  \A n \in Nat : BitSum(f, n) \in 0..(Pow2[n] - 1)
<1> DEFINE P == {n \in Nat : BitSum(f, n) \in 0..(Pow2[n] - 1)}
<1>1. 0 \in P
  BY BitSumRec, Pow2Def
<1>2. ASSUME NEW n \in P PROVE n+1 \in P
  <2>1. BitSum(f, n+1) = BitSum(f, n) + f[n] * Pow2[n]
    BY BitSumRec
  <2>2. Pow2[n+1] = 2 * Pow2[n] /\ Pow2[n] \in Nat
    BY Pow2Def
  <2>3. f[n] * Pow2[n] = 0 \/ f[n] * Pow2[n] = Pow2[n]
    <3>1. f[n] = 0 \/ f[n] = 1
      BY DEF BitArrays
    <3>2. QED
      BY <3>1, <2>2
  <2>4. QED
    BY <2>1, <2>2, <2>3
<1>3. P = Nat
  BY <1>1, <1>2, SetInduction
<1>4. QED
  BY <1>3

(* The sum of n bits, seen from bit k.                                     *)
LEMMA BitSumSplit ==
  ASSUME NEW f \in BitArrays, NEW k \in Nat
  PROVE  \A n \in Nat : n > k =>
           \E t \in Nat : BitSum(f, n) = BitSum(f, k) + Pow2[k] * (f[k] + 2 * t)
<1> DEFINE SplitAt(n) == \E t \in Nat : BitSum(f, n) = BitSum(f, k) + Pow2[k] * (f[k] + 2 * t)
           P == {n \in Nat : n > k => SplitAt(n)}
<1>1. 0 \in P
  OBVIOUS
<1>2. ASSUME NEW n \in P PROVE n+1 \in P
  <2>1. BitSum(f, n+1) = BitSum(f, n) + f[n] * Pow2[n]
    BY BitSumRec
  <2>2. CASE n < k
    BY <2>2
  <2>3. CASE n = k
    <3>1. BitSum(f, n+1) = BitSum(f, k) + Pow2[k] * (f[k] + 2 * 0)
      <4>1. \A s, u, v \in Nat : s + u * v = s + v * (u + 2 * 0)
        OBVIOUS
      <4>2. BitSum(f, k) \in Nat /\ f[k] \in Nat /\ Pow2[k] \in Nat
        BY BitSumRec, Pow2Def DEF BitArrays
      <4>3. BitSum(f, k) + f[k] * Pow2[k] = BitSum(f, k) + Pow2[k] * (f[k] + 2 * 0)
        BY <4>1, <4>2
      <4>4. QED
        BY <4>3, <2>1, <2>3
    <3>2. QED
      BY <3>1
  <2>4. CASE n > k
    <3>1. PICK t \in Nat : BitSum(f, n) = BitSum(f, k) + Pow2[k] * (f[k] + 2 * t)
      BY <2>4
    <3>2. PICK d \in Nat : n = (k + 1) + d
      <4>1. n - (k + 1) \in Nat /\ n = (k + 1) + (n - (k + 1))
        BY <2>4
      <4>2. QED
        BY <4>1
    <3>3. Pow2[n] = (2 * Pow2[k]) * Pow2[d]
      <4>1. Pow2[(k+1) + d] = Pow2[k+1] * Pow2[d]
        BY Pow2Sum
      <4>2. QED
        BY <4>1, <3>2, Pow2Def
    <3>4. PICK s \in Nat, p \in Nat, q \in Nat, u \in Nat, v \in Nat :
            s = BitSum(f, k) /\ p = Pow2[k] /\ q = Pow2[d] /\ u = f[k] /\ v = f[n]
      <4>0. n \in Nat
        OBVIOUS
      <4> HIDE DEF P, SplitAt
      <4>1. /\ BitSum(f, k) \in Nat /\ Pow2[k] \in Nat /\ Pow2[d] \in Nat
            /\ f[k] \in Nat /\ f[n] \in Nat
        BY <4>0, BitSumRec, Pow2Def DEF BitArrays
      <4>2. QED
        BY <4>1, Zenon
    <3>5. (s + p * (u + 2 * t)) + v * ((2 * p) * q) = s + p * (u + 2 * (t + v * q))
      OBVIOUS
    <3>6. BitSum(f, n+1) = BitSum(f, k) + Pow2[k] * (f[k] + 2 * (t + v * q))
      BY <2>1, <3>1, <3>3, <3>4, <3>5
    <3>7. t + v * q \in Nat
      OBVIOUS
    <3>8. QED
      BY <3>6, <3>7
  <2>5. QED
    BY <2>2, <2>3, <2>4
<1>3. P = Nat
  BY <1>1, <1>2, SetInduction
<1>4. QED
  BY <1>3

(* The bits of the sum are the bits that were added.                       *)
LEMMA BitOfSum ==
  ASSUME NEW f \in BitArrays, NEW n \in Nat, NEW k \in 0..(n-1)
  PROVE  Bit(BitSum(f, n), k) = f[k]
<1>1. k \in Nat /\ n > k
  OBVIOUS
<1>2. PICK t \in Nat : BitSum(f, n) = BitSum(f, k) + Pow2[k] * (f[k] + 2 * t)
  BY <1>1, BitSumSplit
<1>3. PICK p \in Nat \ {0} : p = Pow2[k]
  BY <1>1, Pow2Def
<1>4. PICK u \in {0, 1} : u = f[k]
  BY <1>1 DEF BitArrays
<1>5. PICK s \in 0..(p-1) : s = BitSum(f, k)
  BY <1>1, <1>3, BitSumBound
<1>6. PICK h \in Nat : h = u + 2 * t
  OBVIOUS
<1>7. (s + p * h) \div p = h
  OBVIOUS
<1>8. h % 2 = u
  BY <1>6
<1>9. QED
  BY <1>2, <1>3, <1>4, <1>5, <1>6, <1>7, <1>8 DEF Bit

(* The low k+1 bits of a number are its low k bits and bit k.              *)
LEMMA NextBit ==
  ASSUME NEW v \in Nat, NEW k \in Nat
  PROVE  /\ Bit(v, k) \in {0, 1}
         /\ v % Pow2[k+1] = (v % Pow2[k]) + Bit(v, k) * Pow2[k]
<1>1. PICK p \in Nat \ {0} : p = Pow2[k]
  BY Pow2Def
<1>2. Pow2[k+1] = 2 * p
  BY <1>1, Pow2Def
<1>3. PICK h \in Int, l \in 0..(p-1) : h = v \div p /\ l = v % p /\ v = l + h * p
  <2>1. v \in Int
    OBVIOUS
  <2>2. QED
    BY <2>1, Division, Zenon
<1>4. PICK e \in Int, g \in {0, 1} : g = h % 2 /\ h = 2 * e + g
  BY Halves, Zenon
<1>5. v = (l + g * p) + e * (2 * p)
  <2>1. (2 * e + g) * p = g * p + e * (2 * p)
    OBVIOUS
  <2>2. l + h * p = l + (2 * e + g) * p
    BY <1>4
  <2>3. PICK y \in Int, z \in Int : y = g * p /\ z = e * (2 * p)
    OBVIOUS
  <2>4. QED
    BY <1>3, <2>1, <2>2, <2>3
<1>6. PICK m \in Nat \ {0}, w \in Nat :
            m = 2 * p /\ w = l + g * p /\ w \in 0..(m-1)
  <2>1. g * p = 0 \/ g * p = p
    OBVIOUS
  <2>2. 2 * p \in Nat \ {0} /\ l + g * p \in Nat /\ l + g * p \in 0..(2 * p - 1)
    BY <2>1
  <2>3. QED
    BY <2>2, Zenon
<1>7. (w + e * m) % m = w
  BY <1>6, Residue
<1>8. v % (2 * p) = l + g * p
  BY <1>5, <1>6, <1>7
<1>9. Bit(v, k) = g
  BY <1>1, <1>3, <1>4 DEF Bit
<1>10. QED
  BY <1>1, <1>2, <1>3, <1>8, <1>9

(* A number is determined by its bits.                                     *)
LEMMA SameBits ==
  ASSUME NEW n \in Nat, NEW v \in 0..(Pow2[n] - 1), NEW w \in 0..(Pow2[n] - 1),
         \A k \in 0..(n-1) : Bit(v, k) = Bit(w, k)
  PROVE  v = w
<1>0. Pow2[n] \in Nat \ {0} /\ v \in Nat /\ w \in Nat /\ v < Pow2[n] /\ w < Pow2[n]
  BY Pow2Def
<1> DEFINE P == {k \in Nat : k <= n => v % Pow2[k] = w % Pow2[k]}
<1>1. 0 \in P
  BY <1>0, Pow2Def
<1>2. ASSUME NEW k \in P PROVE k+1 \in P
  <2> SUFFICES ASSUME k + 1 <= n PROVE v % Pow2[k+1] = w % Pow2[k+1]
    OBVIOUS
  <2>1. v % Pow2[k] = w % Pow2[k] /\ k \in 0..(n-1)
    OBVIOUS
  <2>2. v % Pow2[k+1] = (v % Pow2[k]) + Bit(v, k) * Pow2[k]
    BY <1>0, NextBit
  <2>3. w % Pow2[k+1] = (w % Pow2[k]) + Bit(w, k) * Pow2[k]
    BY <1>0, NextBit
  <2>4. Bit(v, k) = Bit(w, k)
    BY <2>1
  <2>5. QED
    BY <2>1, <2>2, <2>3, <2>4, Zenon
<1>3. P = Nat
  BY <1>1, <1>2, SetInduction
<1>4. v % Pow2[n] = w % Pow2[n]
  BY <1>3
<1>5. \A u \in Nat, p \in Nat \ {0} : u < p => u % p = u
  OBVIOUS
<1>6. v % Pow2[n] = v /\ w % Pow2[n] = w
  BY <1>0, <1>5
<1>7. QED
  BY <1>4, <1>6

-----------------------------------------------------------------------------
(* Words and the bit operators on them.                                    *)
WordBits == 0..(W-1)

LEMMA WordSize ==
  /\ W \in Nat /\ W >= 1 /\ B = Pow2[W] /\ Word = 0..(Pow2[W] - 1)
  /\ B \in Nat /\ B >= 2 /\ Word \subseteq Nat /\ 0 \in Word /\ True \in Word
BY WordAssumption, BaseAssumption DEF Word, True

LEMMA WordOfBits ==
  ASSUME NEW f \in BitArrays
  PROVE  WordOf(f) \in Word /\ \A k \in WordBits : Bit(WordOf(f), k) = f[k]
BY WordSize, BitSumBound, BitOfSum DEF WordOf, WordBits

LEMMA SameWord ==
  ASSUME NEW v \in Word, NEW w \in Word, \A k \in WordBits : Bit(v, k) = Bit(w, k)
  PROVE  v = w
BY WordSize, SameBits DEF WordBits

LEMMA BitRange ==
  ASSUME NEW v \in Word
  PROVE  \A k \in Nat : Bit(v, k) \in {0, 1}
BY WordSize, NextBit

LEMMA ZeroBits == \A k \in Nat : Bit(0, k) = 0
<1>1. \A p \in Nat \ {0} : 0 \div p = 0
  OBVIOUS
<1>2. QED
  BY <1>1, Pow2Def DEF Bit

(* What each operator does to a bit.                                       *)
LEMMA AndBits ==
  ASSUME NEW v \in Word, NEW w \in Word
  PROVE  /\ v & w \in Word
         /\ \A k \in WordBits : Bit(v & w, k) = IF Bit(v, k) = 1 THEN Bit(w, k) ELSE 0
<1> DEFINE f == [k \in Nat |-> Bit(v, k) * Bit(w, k)]
<1>1. \A k \in Nat : Bit(v, k) \in {0, 1} /\ Bit(w, k) \in {0, 1}
  BY BitRange
<1>2. \A x, y \in {0, 1} : x * y \in {0, 1} /\ x * y = IF x = 1 THEN y ELSE 0
  OBVIOUS
<1>3. f \in BitArrays
  BY <1>1, <1>2 DEF BitArrays
<1>4. v & w = WordOf(f)
  BY DEF &
<1>5. \A k \in WordBits : k \in Nat
  BY WordSize DEF WordBits
<1>6. \A k \in WordBits : f[k] = IF Bit(v, k) = 1 THEN Bit(w, k) ELSE 0
  BY <1>1, <1>2, <1>5
<1> HIDE DEF f
<1>7. QED
  BY <1>3, <1>4, <1>6, WordOfBits

LEMMA OrBits ==
  ASSUME NEW v \in Word, NEW w \in Word
  PROVE  /\ (v | w) \in Word
         /\ \A k \in WordBits : Bit(v | w, k) = IF Bit(v, k) = 1 THEN 1 ELSE Bit(w, k)
<1> DEFINE f == [k \in Nat |-> IF Bit(v, k) = Bit(w, k) THEN Bit(v, k) ELSE 1]
<1>1. \A k \in Nat : Bit(v, k) \in {0, 1} /\ Bit(w, k) \in {0, 1}
  BY BitRange
<1>3. f \in BitArrays
  BY <1>1 DEF BitArrays
<1>4. (v | w) = WordOf(f)
  BY DEF |
<1>5. \A k \in WordBits : k \in Nat
  BY WordSize DEF WordBits
<1>6. \A k \in WordBits : f[k] = IF Bit(v, k) = 1 THEN 1 ELSE Bit(w, k)
  BY <1>1, <1>5
<1> HIDE DEF f
<1>7. QED
  BY <1>3, <1>4, <1>6, WordOfBits

LEMMA XorBits ==
  ASSUME NEW v \in Word, NEW w \in Word
  PROVE  /\ v ^^ w \in Word
         /\ \A k \in WordBits : Bit(v ^^ w, k) = IF Bit(v, k) = Bit(w, k) THEN 0 ELSE 1
<1> DEFINE f == [k \in Nat |-> IF Bit(v, k) = Bit(w, k) THEN 0 ELSE 1]
<1>3. f \in BitArrays
  BY DEF BitArrays
<1>4. v ^^ w = WordOf(f)
  BY DEF ^^
<1>5. \A k \in WordBits : k \in Nat
  BY WordSize DEF WordBits
<1>6. \A k \in WordBits : f[k] = IF Bit(v, k) = Bit(w, k) THEN 0 ELSE 1
  BY <1>5
<1> HIDE DEF f
<1>7. QED
  BY <1>3, <1>4, <1>6, WordOfBits

(* The mask for true has all its bits set.                                 *)
LEMMA OnesBits == \A k \in WordBits : Bit(True, k) = 1
<1> DEFINE f == [k \in Nat |-> 1]
           P == {n \in Nat : BitSum(f, n) = Pow2[n] - 1}
<1>0. f \in BitArrays
  BY DEF BitArrays
<1>1. 0 \in P
  BY <1>0, BitSumRec, Pow2Def
<1>2. ASSUME NEW n \in P PROVE n+1 \in P
  <2>1. BitSum(f, n+1) = BitSum(f, n) + f[n] * Pow2[n]
    BY <1>0, BitSumRec
  <2>2. f[n] * Pow2[n] = Pow2[n] /\ Pow2[n+1] = 2 * Pow2[n] /\ Pow2[n] \in Nat
    BY Pow2Def
  <2>3. QED
    BY <2>1, <2>2
<1>3. P = Nat
  BY <1>1, <1>2, SetInduction
<1>4. True = WordOf(f)
  BY <1>3, WordSize DEF True, WordOf
<1>5. \A k \in WordBits : f[k] = 1
  BY WordSize DEF WordBits
<1> HIDE DEF f
<1>6. QED
  BY <1>0, <1>4, <1>5, WordOfBits

-----------------------------------------------------------------------------
(* The primitives of ct.hpp.                                               *)

(* ct::select_word takes the first word under a mask of ones, the second   *)
(* under a mask of zeros.                                                  *)
LEMMA SelectedWord ==
  ASSUME NEW a \in Word, NEW b \in Word
  PROVE  SelectWord(True, a, b) = a /\ SelectWord(False, a, b) = b
<1> DEFINE x == a ^^ b
<1>1. True \in Word /\ False \in Word
  BY WordSize DEF False
<1>2. x \in Word /\ \A k \in WordBits : Bit(x, k) = IF Bit(a, k) = Bit(b, k) THEN 0 ELSE 1
  BY XorBits
<1>3. \A k \in WordBits : Bit(a, k) \in {0, 1} /\ Bit(b, k) \in {0, 1}
  BY BitRange, WordSize DEF WordBits
<1> HIDE DEF x
<1>4. SelectWord(True, a, b) = a
  <2>1. (True & x) \in Word /\ \A k \in WordBits : Bit(True & x, k) = Bit(x, k)
    BY <1>1, <1>2, AndBits, OnesBits
  <2>2. /\ (b ^^ (True & x)) \in Word
        /\ \A k \in WordBits :
             Bit(b ^^ (True & x), k) = IF Bit(b, k) = Bit(x, k) THEN 0 ELSE 1
    BY <2>1, XorBits
  <2>3. \A k \in WordBits : Bit(b ^^ (True & x), k) = Bit(a, k)
    BY <2>2, <1>2, <1>3
  <2>4. (b ^^ (True & x)) = a
    BY <2>2, <2>3, SameWord
  <2>5. QED
    BY <2>4 DEF SelectWord, x
<1>5. SelectWord(False, a, b) = b
  <2>1. (False & x) \in Word /\ \A k \in WordBits : Bit(False & x, k) = 0
    <3>1. /\ (False & x) \in Word
          /\ \A k \in WordBits :
               Bit(False & x, k) = IF Bit(False, k) = 1 THEN Bit(x, k) ELSE 0
      BY <1>1, <1>2, AndBits
    <3>2. \A k \in WordBits : Bit(False, k) = 0
      BY ZeroBits, WordSize DEF WordBits, False
    <3>3. QED
      BY <3>1, <3>2
  <2>2. /\ (b ^^ (False & x)) \in Word
        /\ \A k \in WordBits :
             Bit(b ^^ (False & x), k) = IF Bit(b, k) = 0 THEN 0 ELSE 1
    BY <2>1, XorBits
  <2>3. \A k \in WordBits : Bit(b ^^ (False & x), k) = Bit(b, k)
    BY <2>2, <1>3
  <2>4. (b ^^ (False & x)) = b
    BY <2>2, <2>3, SameWord
  <2>5. QED
    BY <2>4 DEF SelectWord, x
<1>6. QED
  BY <1>4, <1>5

(* The masked difference of two words, as ct::cswap adds it to each.       *)
LEMMA MaskedDifference ==
  ASSUME NEW a \in Word, NEW b \in Word
  PROVE  /\ (a ^^ (True & (a ^^ b))) = b /\ (b ^^ (True & (a ^^ b))) = a
         /\ (a ^^ (False & (a ^^ b))) = a /\ (b ^^ (False & (a ^^ b))) = b
         /\ (True & (a ^^ b)) \in Word /\ (False & (a ^^ b)) \in Word
<1> DEFINE x == a ^^ b
<1>1. True \in Word /\ False \in Word
  BY WordSize DEF False
<1>2. x \in Word /\ \A k \in WordBits : Bit(x, k) = IF Bit(a, k) = Bit(b, k) THEN 0 ELSE 1
  BY XorBits
<1>3. (b ^^ x) = a
  <2>1. (b ^^ (True & x)) = a
    BY SelectedWord DEF SelectWord
  <2>2. (True & x) = x
    <3>1. (True & x) \in Word /\ \A k \in WordBits : Bit(True & x, k) = Bit(x, k)
      BY <1>1, <1>2, AndBits, OnesBits
    <3>2. QED
      BY <3>1, <1>2, SameWord
  <2>3. QED
    BY <2>1, <2>2
<1>4. (True & x) = x
  <2>1. (True & x) \in Word /\ \A k \in WordBits : Bit(True & x, k) = Bit(x, k)
    BY <1>1, <1>2, AndBits, OnesBits
  <2>2. QED
    BY <2>1, <1>2, SameWord
<1>5. (b ^^ a) = x
  <2>1. (b ^^ a) \in Word
        /\ \A k \in WordBits : Bit(b ^^ a, k) = IF Bit(b, k) = Bit(a, k) THEN 0 ELSE 1
    BY XorBits
  <2>2. \A k \in WordBits : Bit(b ^^ a, k) = Bit(x, k)
    BY <2>1, <1>2
  <2>3. QED
    BY <2>1, <2>2, <1>2, SameWord
<1>6. (a ^^ x) = b
  <2>1. (a ^^ (True & (b ^^ a))) = b
    BY SelectedWord DEF SelectWord
  <2>2. QED
    BY <2>1, <1>5, <1>4
<1>7. (b ^^ (False & x)) = b
  BY SelectedWord DEF SelectWord
<1>8. (a ^^ (False & x)) = a
  <2>1. (a ^^ (False & (b ^^ a))) = a
    BY SelectedWord DEF SelectWord
  <2>2. QED
    BY <2>1, <1>5
<1>9. (False & x) \in Word
  BY <1>1, <1>2, AndBits
<1>10. QED
  BY <1>2, <1>3, <1>4, <1>6, <1>7, <1>8, <1>9

(* A word added to itself bit by bit is 0, and 0 changes nothing: what     *)
(* ct::cswap does to a buffer exchanged with itself.                       *)
LEMMA ItsOwnDifference ==
  ASSUME NEW a \in Word, NEW mask \in Word
  PROVE  /\ (mask & (a ^^ a)) = 0
         /\ (a ^^ 0) = a
<1>1. (a ^^ a) \in Word /\ \A k \in WordBits : Bit(a ^^ a, k) = 0
  BY XorBits
<1>2. /\ (mask & (a ^^ a)) \in Word
      /\ \A k \in WordBits : Bit(mask & (a ^^ a), k) = 0
  BY <1>1, AndBits
<1>3. 0 \in Word /\ \A k \in WordBits : Bit(0, k) = 0
  BY WordSize, ZeroBits DEF WordBits
<1>4. (mask & (a ^^ a)) = 0
  BY <1>2, <1>3, SameWord
<1>5. /\ (a ^^ 0) \in Word
      /\ \A k \in WordBits : Bit(a ^^ 0, k) = IF Bit(a, k) = 0 THEN 0 ELSE 1
  BY <1>3, XorBits
<1>6. \A k \in WordBits : Bit(a, k) \in {0, 1}
  BY BitRange, WordSize DEF WordBits
<1>7. (a ^^ 0) = a
  BY <1>5, <1>6, SameWord
<1>8. QED
  BY <1>4, <1>7

(* The accumulated difference of ct::equal is 0 until a limb differs.      *)
LEMMA NextDifference ==
  ASSUME NEW d \in Word, NEW a \in Word, NEW b \in Word
  PROVE  /\ (d | (a ^^ b)) \in Word
         /\ (d | (a ^^ b)) = 0 <=> d = 0 /\ a = b
<1> DEFINE x == a ^^ b
           y == d | x
<1>1. x \in Word /\ \A k \in WordBits : Bit(x, k) = IF Bit(a, k) = Bit(b, k) THEN 0 ELSE 1
  BY XorBits
<1>2. y \in Word /\ \A k \in WordBits : Bit(y, k) = IF Bit(d, k) = 1 THEN 1 ELSE Bit(x, k)
  <2> HIDE DEF x
  <2>1. QED
    BY <1>1, OrBits
<1>3. 0 \in Word /\ \A k \in WordBits : Bit(0, k) = 0 /\ Bit(d, k) \in {0, 1}
  BY WordSize, ZeroBits, BitRange DEF WordBits
<1> HIDE DEF x, y
<1>4. ASSUME y = 0 PROVE d = 0 /\ a = b
  <2>1. \A k \in WordBits : Bit(d, k) = 0 /\ Bit(x, k) = 0
    BY <1>2, <1>3, <1>4
  <2>2. d = 0
    BY <2>1, <1>3, SameWord
  <2>3. a = b
    BY <2>1, <1>1, SameWord
  <2>4. QED
    BY <2>2, <2>3
<1>5. ASSUME d = 0, a = b PROVE y = 0
  <2>1. \A k \in WordBits : Bit(y, k) = 0
    BY <1>1, <1>2, <1>3, <1>5
  <2>2. QED
    BY <2>1, <1>2, <1>3, SameWord
<1>6. QED
  BY <1>2, <1>4, <1>5 DEF x, y

(* The most significant bit of a word.                                     *)
LEMMA TopBit ==
  /\ B \div 2 \in Nat \ {0} /\ W-1 \in WordBits
  /\ \A v \in Word : v \div (B \div 2) = Bit(v, W-1)
                     /\ (Bit(v, W-1) = 1 <=> v >= B \div 2)
<1>1. PICK h \in Nat \ {0} : h = Pow2[W-1]
  <2>1. W-1 \in Nat
    BY WordSize
  <2>2. Pow2[W-1] \in Nat \ {0}
    BY <2>1, Pow2Def
  <2>3. QED
    BY <2>2
<1>2. B = 2 * h
  <2>1. W-1 \in Nat /\ (W-1)+1 = W
    BY WordSize
  <2>2. Pow2[(W-1)+1] = 2 * Pow2[W-1]
    BY <2>1, Pow2Def
  <2>3. QED
    BY <2>1, <2>2, <1>1, WordSize
<1>3. B \div 2 = h
  BY <1>2
<1>4. ASSUME NEW v \in Word
      PROVE  v \div h = Bit(v, W-1) /\ (Bit(v, W-1) = 1 <=> v >= h)
  <2>1. v \in Nat /\ v < 2 * h
    BY <1>2, WordSize DEF Word
  <2>2. v \div h = IF v >= h THEN 1 ELSE 0
    BY <2>1
  <2>3. Bit(v, W-1) = (v \div h) % 2
    BY <1>1 DEF Bit
  <2>4. QED
    BY <2>2, <2>3
<1>5. \A v \in Word : v \div (B \div 2) = Bit(v, W-1)
                        /\ (Bit(v, W-1) = 1 <=> v >= B \div 2)
  BY <1>3, <1>4, Zenon
<1>6. B \div 2 \in Nat \ {0} /\ W-1 \in WordBits
  BY <1>3, WordSize DEF WordBits
<1>7. QED
  BY <1>5, <1>6

(* ct::is_zero: all ones for 0, all zeros for any other word.              *)
LEMMA ZeroMask ==
  ASSUME NEW d \in Word
  PROVE  IsZero(d) = IF d = 0 THEN True ELSE False
<1> DEFINE n == U32(0 - d)
           y == d | n
<1>0. B \in Nat /\ B >= 2 /\ d \in 0..(B-1) /\ B % 2 = 0
  BY WordSize, BaseAssumption DEF Word
<1>1. n = IF d = 0 THEN 0 ELSE B - d
  <2>1. CASE d = 0
    <3>1. \A b \in Nat \ {0} : (0 - 0) % b = 0
      OBVIOUS
    <3>2. QED
      BY <2>1, <3>1, <1>0 DEF U32
  <2>2. CASE d # 0
    <3>1. \A b \in Nat \ {0} : \A x \in 1..(b-1) : (0 - x) % b = b - x
      OBVIOUS
    <3>2. d \in 1..(B-1) /\ B \in Nat \ {0}
      BY <2>2, <1>0
    <3>3. QED
      BY <2>2, <3>1, <3>2 DEF U32
  <2>3. QED
    BY <2>1, <2>2
<1>2. n \in Word
  BY <1>0, <1>1 DEF Word
<1> HIDE DEF n
<1>3. y \in Word /\ \A k \in WordBits : Bit(y, k) = IF Bit(d, k) = 1 THEN 1 ELSE Bit(n, k)
  BY <1>2, OrBits
<1> HIDE DEF y
<1>4. W-1 \in WordBits /\ y \div (B \div 2) = Bit(y, W-1)
  BY <1>3, TopBit
<1>5. IsNonzero(d) = U32(0 - Bit(y, W-1))
  BY <1>4 DEF IsNonzero, y, n
<1>6. CASE d = 0
  <2>1. Bit(y, W-1) = 0
    BY <1>6, <1>1, <1>3, <1>4, ZeroBits, WordSize
  <2>2. U32(0 - 0) = 0
    <3>1. \A b \in Nat \ {0} : (0 - 0) % b = 0
      OBVIOUS
    <3>2. QED
      BY <3>1, <1>0 DEF U32
  <2>3. IsNonzero(d) = 0
    BY <1>5, <2>1, <2>2
  <2>4. QED
    BY <1>6, <2>3, <1>0 DEF IsZero, True
<1>7. CASE d # 0
  <2>1. Bit(d, W-1) = 1 \/ Bit(n, W-1) = 1
    <3>1. d >= B \div 2 \/ n >= B \div 2
      BY <1>7, <1>0, <1>1
    <3>2. QED
      BY <3>1, <1>2, TopBit
  <2>2. Bit(y, W-1) = 1
    BY <2>1, <1>3, <1>4
  <2>3. U32(0 - 1) = B - 1
    <3>1. \A b \in Nat : b >= 2 => (0 - 1) % b = b - 1
      OBVIOUS
    <3>2. QED
      BY <3>1, <1>0 DEF U32
  <2>4. IsNonzero(d) = B - 1
    BY <1>5, <2>2, <2>3
  <2>5. QED
    BY <1>7, <2>4, <1>0 DEF IsZero, True, False
<1>8. QED
  BY <1>6, <1>7

(* ct::mask_from_bit: all ones for 1, all zeros for 0.                     *)
LEMMA BitMask ==
  ASSUME NEW bit \in {0, 1}
  PROVE  MaskFromBit(bit) = IF bit = 1 THEN True ELSE False
<1>0. B \in Nat /\ B >= 2 /\ bit \in Word /\ 1 \in Word
  BY WordSize DEF Word
<1>1. (bit & 1) = bit
  <2>1. /\ (bit & 1) \in Word
        /\ \A k \in WordBits : Bit(bit & 1, k) = IF Bit(bit, k) = 1 THEN Bit(1, k) ELSE 0
    BY <1>0, AndBits
  <2>2. \A k \in WordBits : Bit(bit, k) \in {0, 1}
    BY <1>0, BitRange, WordSize DEF WordBits
  <2>3. \A k \in WordBits : Bit(0, k) = 0
    BY ZeroBits, WordSize DEF WordBits
  <2>4. \A k \in WordBits : Bit(bit & 1, k) = Bit(bit, k)
    BY <2>1, <2>2, <2>3
  <2>5. QED
    BY <2>1, <2>4, <1>0, SameWord
<1>2. U32(0 - 0) = 0 /\ U32(0 - 1) = B - 1
  <2>1. \A b \in Nat : b >= 2 => (0 - 0) % b = 0 /\ (0 - 1) % b = b - 1
    OBVIOUS
  <2>2. QED
    BY <2>1, <1>0 DEF U32
<1>3. QED
  BY <1>1, <1>2 DEF MaskFromBit, True, False

(* The two masks differ, and are words.                                    *)
LEMMA Masks == True # False /\ True \in Word /\ False \in Word
BY WordSize DEF True, False

-----------------------------------------------------------------------------
(* The comparisons.                                                        *)

(* One limb more, and the borrow of ct::geq again tells which of the lower *)
(* parts is the smaller.                                                   *)
LEMMA NextBorrowLimb ==
  ASSUME NEW a \in Limbs, NEW b \in Limbs, NEW k \in 0..(S-1), NEW c \in {0, 1},
         c = 1 <=> LimbSum(a, k) < LimbSum(b, k)
  PROVE  /\ NextBorrow(a[k], b[k], c) \in {0, 1}
         /\ NextBorrow(a[k], b[k], c) = 1 <=> LimbSum(a, k+1) < LimbSum(b, k+1)
<1> DEFINE d == U64(a[k] - b[k] - c)
           n == Hi(d) % 2
<1>1. k \in Nat /\ a[k] \in Word /\ b[k] \in Word
  BY DEF Limbs
<1>2. n \in {0, 1} /\ U32(d) \in Word /\ U32(d) - n * B = a[k] - b[k] - c
  BY <1>1, SubtractWord
<1>3. NextBorrow(a[k], b[k], c) = n
  BY DEF NextBorrow
<1> HIDE DEF d
<1>4. PICK u \in Word : u = U32(d)
  BY <1>2
<1> HIDE DEF n
<1>5. n = 1 <=> a[k] - b[k] - c < 0
  BY <1>1, <1>2, <1>4, BaseAssumption DEF Word
<1>6. PICK p \in Nat \ {0}, x \in Nat, y \in Nat :
        p = BPow[k] /\ x = LimbSum(a, k) /\ y = LimbSum(b, k) /\ x < p /\ y < p
  <2>1. /\ BPow[k] \in Nat \ {0} /\ LimbSum(a, k) \in Nat /\ LimbSum(b, k) \in Nat
        /\ LimbSum(a, k) < BPow[k] /\ LimbSum(b, k) < BPow[k]
    BY <1>1, BPowDef, OperandSum
  <2>2. QED
    BY <2>1, Zenon
<1>7. PICK v \in Nat, w \in Nat : v = a[k] /\ w = b[k]
  BY <1>1, BaseAssumption DEF Word
<1>8. LimbSum(a, k+1) = x + v * p /\ LimbSum(b, k+1) = y + w * p
  BY <1>6, <1>7, OperandSum
<1>9. x + v * p < y + w * p <=> v < w \/ (v = w /\ x < y)
  <2>1. CASE v < w
    <3>1. (v + 1) * p <= w * p /\ (v + 1) * p = v * p + p
      BY <2>1, TimesMono
    <3>2. QED
      BY <3>1, <1>6, <2>1
  <2>2. CASE v = w
    BY <2>2
  <2>3. CASE w < v
    <3>1. (w + 1) * p <= v * p /\ (w + 1) * p = w * p + p
      BY <2>3, TimesMono
    <3>2. QED
      BY <3>1, <1>6, <2>3
  <2>4. QED
    BY <2>1, <2>2, <2>3
<1>10. n = 1 <=> v < w \/ (v = w /\ c = 1)
  BY <1>5, <1>7
<1>11. c = 1 <=> x < y
  BY <1>6
<1>12. QED
  BY <1>2, <1>3, <1>8, <1>9, <1>10, <1>11

(* The lower parts with one limb more are equal when both their lower      *)
(* parts and that limb are.                                                *)
LEMMA NextEqualLimb ==
  ASSUME NEW a \in Limbs, NEW b \in Limbs, NEW k \in 0..(S-1)
  PROVE  LimbSum(a, k+1) = LimbSum(b, k+1) <=>
           LimbSum(a, k) = LimbSum(b, k) /\ a[k] = b[k]
<1>1. k \in Nat /\ a[k] \in Word /\ b[k] \in Word
  BY DEF Limbs
<1>6. PICK p \in Nat \ {0}, x \in Nat, y \in Nat :
        p = BPow[k] /\ x = LimbSum(a, k) /\ y = LimbSum(b, k) /\ x < p /\ y < p
  <2>1. /\ BPow[k] \in Nat \ {0} /\ LimbSum(a, k) \in Nat /\ LimbSum(b, k) \in Nat
        /\ LimbSum(a, k) < BPow[k] /\ LimbSum(b, k) < BPow[k]
    BY <1>1, BPowDef, OperandSum
  <2>2. QED
    BY <2>1, Zenon
<1>7. PICK v \in Nat, w \in Nat : v = a[k] /\ w = b[k]
  BY <1>1, BaseAssumption DEF Word
<1>8. LimbSum(a, k+1) = x + v * p /\ LimbSum(b, k+1) = y + w * p
  BY <1>6, <1>7, OperandSum
<1>9. x + v * p = y + w * p <=> v = w /\ x = y
  <2>1. CASE v < w
    <3>1. (v + 1) * p <= w * p /\ (v + 1) * p = v * p + p
      BY <2>1, TimesMono
    <3>2. QED
      BY <3>1, <1>6, <2>1
  <2>2. CASE v = w
    BY <2>2
  <2>3. CASE w < v
    <3>1. (w + 1) * p <= v * p /\ (w + 1) * p = w * p + p
      BY <2>3, TimesMono
    <3>2. QED
      BY <3>1, <1>6, <2>3
  <2>4. QED
    BY <2>1, <2>2, <2>3
<1>10. QED
  BY <1>6, <1>7, <1>8, <1>9

-----------------------------------------------------------------------------
(* Residues and the limbs that hold them.                                  *)

(* limbs_padded keeps a number below R.                                    *)
LEMMA PaddedValue ==
  ASSUME NEW v \in Nat, v < R
  PROVE  LimbsPadded(v) \in Limbs /\ Value(LimbsPadded(v)) = v
<1>1. R \in Nat \ {0} /\ S \in Nat \ {0} /\ R = BPow[S]
  BY BPowDef, SizeAssumption DEF R
<1> DEFINE x == [k \in 0..(S-1) |-> (v \div BPow[k]) % B]
<1>2. (\A k \in 0..(S-1) : x[k] \in Word) /\ \A k \in 0..S : LimbSum(x, k) = v % BPow[k]
  BY <1>1, DigitsValue
<1>3. x \in Limbs
  BY <1>2 DEF Limbs
<1>4. LimbsPadded(v) = x
  BY DEF LimbsPadded
<1> HIDE DEF x
<1>5. Value(x) = v % R
  BY <1>1, <1>2 DEF Value
<1>6. v % R = v
  BY <1>1
<1>7. QED
  BY <1>3, <1>4, <1>5, <1>6

(* An odd number is coprime to the powers of 2, hence to R.                *)
LEMMA OddRadix ==
  ASSUME NEW w \in Nat, w % 2 = 1
  PROVE  Bezout(R, w)
<1>1. Bezout(B, w) /\ w \in Int
  BY WordSize, OddCoprime
<1>2. QED
  BY <1>1, BasePowers

LEMMA ContextFacts ==
  ASSUME N \in Contexts
  PROVE  /\ N \in Nat \ {0} /\ N >= 3 /\ N % 2 = 1 /\ N < R
         /\ R \in Nat \ {0} /\ Bezout(R, N)
<1>1. R \in Nat \ {0}
  BY BPowDef, SizeAssumption DEF R
<1>2. BPow[S-1] \in Nat
  BY BPowDef, SizeAssumption
<1>3. N \in BPow[S-1]..(R-1) /\ N % 2 = 1 /\ N >= 3
  BY LimbApiAssumption
<1>4. N \in Nat \ {0} /\ N < R
  BY <1>1, <1>2, <1>3
<1>5. QED
  BY <1>1, <1>3, <1>4, OddRadix

(* v*r^-1 modulo w: what Outside and val choose.                           *)
Unscaled(v, r, w) == CHOOSE z \in 0..(w-1) : (z * r - v) % w = 0

LEMMA UnscaledIs ==
  ASSUME NEW w \in Nat \ {0}, NEW r \in Nat \ {0}, Bezout(r, w), NEW v \in Int,
         NEW z \in 0..(w-1), Congruent(z * r, v, w)
  PROVE  Unscaled(v, r, w) = z
<1>1. PICK t \in Int : z * r = v + t * w
  BY Zenon DEF Congruent
<1>2. QED
  BY <1>1, TheResidue, r \in Int, Zenon DEF Unscaled

LEMMA UnscaledFacts ==
  ASSUME NEW w \in Nat \ {0}, NEW r \in Nat \ {0}, Bezout(r, w), NEW v \in Int
  PROVE  /\ Unscaled(v, r, w) \in 0..(w-1)
         /\ Congruent(Unscaled(v, r, w) * r, v, w)
<1>1. PICK g \in Int, h \in Int : r * g + w * h = 1
  BY Zenon DEF Bezout
<1>2. PICK q \in Int, z \in 0..(w-1) : q = (g * v) \div w /\ z = (g * v) % w /\ g * v = z + q * w
  <2>1. g * v \in Int
    OBVIOUS
  <2>2. QED
    BY <2>1, Division, Zenon
<1>3. z * r = v + (-(q * r) - h * v) * w
  <2>1. (z + q * w) * r = z * r + (q * r) * w
    OBVIOUS
  <2>2. (g * v) * r = (r * g) * v
    OBVIOUS
  <2>3. (r * g + w * h) * v = (r * g) * v + (h * v) * w
    OBVIOUS
  <2>4. (-(q * r) - h * v) * w = -((q * r) * w) - (h * v) * w
    OBVIOUS
  <2>5. PICK a \in Int, b \in Int, c \in Int, d \in Int :
          a = z * r /\ b = (q * r) * w /\ c = (h * v) * w /\ d = (r * g) * v
    OBVIOUS
  <2>6. d = a + b
    BY <1>2, <2>1, <2>2, <2>5
  <2>7. v = d + c
    BY <1>1, <2>3, <2>5
  <2>8. QED
    BY <2>4, <2>5, <2>6, <2>7
<1>4. -(q * r) - h * v \in Int
  OBVIOUS
<1>5. Congruent(z * r, v, w)
  BY <1>3, <1>4, Zenon DEF Congruent
<1>6. QED
  BY <1>5, UnscaledIs

(* Unscaled is the inverse of Inside: a*r goes back to a.                  *)
LEMMA UnscaledScaled ==
  ASSUME NEW w \in Nat \ {0}, NEW r \in Nat \ {0}, Bezout(r, w), NEW v \in Int, NEW a \in Int,
         Congruent(v, a * r, w)
  PROVE  Unscaled(v, r, w) = a % w
<1>1. a % w \in 0..(w-1) /\ a % w \in Int
  OBVIOUS
<1>2. Congruent((a % w) * r, a * r, w)
  <2>1. Congruent(a % w, a, w)
    BY CongruentMod
  <2>2. w \in Int /\ r \in Int
    OBVIOUS
  <2>3. QED
    BY <1>1, <2>1, <2>2, CongruentScale, Zenon
<1>3. Congruent((a % w) * r, v, w)
  <2>1. (a % w) * r \in Int /\ a * r \in Int /\ w \in Int
    BY <1>1
  <2>2. Congruent(a * r, v, w)
    BY <2>1, CongruentSym, Zenon
  <2>3. QED
    BY <2>1, <2>2, <1>2, CongruentTrans, Zenon
<1>4. QED
  BY <1>1, <1>3, UnscaledIs

(* The quotient of a multiple.                                             *)
LEMMA QuotientOf ==
  ASSUME NEW r \in Nat \ {0}, NEW p \in Int, p % r = 0
  PROVE  \E X \in Int : X = p \div r /\ X * r = p
<1>1. PICK X \in Int, t \in 0..(r-1) : X = p \div r /\ t = p % r /\ p = t + X * r
  BY Division, Zenon
<1>2. t = 0
  BY <1>1
<1>3. QED
  BY <1>1, <1>2

(* The multiple of w that makes p divisible by r.                          *)
LEMMA MultipleExists ==
  ASSUME NEW w \in Nat \ {0}, NEW r \in Nat \ {0}, Bezout(r, w), NEW p \in Int
  PROVE  \E k \in 0..(r-1) : (p + k * w) % r = 0
<1>1. Bezout(w, r)
  <2>1. PICK g \in Int, h \in Int : r * g + w * h = 1
    BY Zenon DEF Bezout
  <2>2. w * h + r * g = 1
    BY <2>1
  <2>3. QED
    BY <2>2, Zenon DEF Bezout
<1>2. PICK v \in Int : v = -p
  OBVIOUS
<1>3. PICK k \in 0..(r-1) : k = Unscaled(v, w, r) /\ Congruent(k * w, v, r)
  BY <1>1, UnscaledFacts
<1>4. PICK t \in Int : k * w = v + t * r
  BY <1>3, Zenon DEF Congruent
<1>5. PICK e \in Int : e = p + k * w
  OBVIOUS
<1>6. e = t * r
  BY <1>2, <1>4, <1>5
<1>7. e % r = 0
  BY <1>6, Multiple
<1>8. QED
  BY <1>5, <1>7

(* Rows of operands whose product is below w*r leave less than 2*w: one    *)
(* subtraction makes a residue of them, and r turns it back into p.        *)
LEMMA ReducedOnce ==
  ASSUME NEW w \in Nat \ {0}, NEW r \in Nat \ {0}, Bezout(r, w), NEW p \in Nat, p < w * r,
         NEW q \in 0..(r-1), NEW X \in Int, X * r = p + q * w,
         NEW y \in Int, y = IF X >= w THEN X - w ELSE X
  PROVE  y \in 0..(w-1) /\ y = Unscaled(p, r, w)
<1>1. q * w \in Nat /\ r * w \in Nat /\ q * w <= r * w
  BY TimesMono
<1>2. X >= 0
  <2>1. SUFFICES ASSUME X <= -1 PROVE FALSE
    OBVIOUS
  <2>2. PICK m \in Nat : m = -X - 1
    BY <2>1
  <2>3. m * r \in Nat /\ X * r = -(m * r) - r
    BY <2>2
  <2>4. QED
    BY <2>3, <1>1
<1>3. X < 2 * w
  <2>1. SUFFICES ASSUME X >= 2 * w PROVE FALSE
    OBVIOUS
  <2>2. X \in Nat /\ 2 * w \in Nat
    BY <1>2
  <2>3. (2 * w) * r <= X * r
    BY <2>1, <2>2, TimesMono
  <2>4. (2 * w) * r = w * r + r * w
    OBVIOUS
  <2>5. QED
    BY <2>3, <2>4, <1>1
<1>4. PICK t \in Int : t = IF X >= w THEN q - r ELSE q
  <2>1. (IF X >= w THEN q - r ELSE q) \in Int
    OBVIOUS
  <2>2. QED
    BY <2>1, Zenon
<1>5. y \in 0..(w-1)
  BY <1>2, <1>3
<1>6. y * r = p + t * w
  <2>1. CASE X >= w
    <3>1. y = X - w /\ t = q - r
      BY <2>1, <1>4
    <3>2. y * r = X * r - r * w /\ t * w = q * w - r * w
      BY <3>1
    <3>3. QED
      BY <3>2, <1>1
  <2>2. CASE ~(X >= w)
    BY <2>2, <1>4
  <2>3. QED
    BY <2>1, <2>2
<1>7. Congruent(y * r, p, w)
  BY <1>6, Zenon DEF Congruent
<1>8. p \in Int
  OBVIOUS
<1>9. Unscaled(p, r, w) = y
  BY <1>5, <1>7, <1>8, UnscaledIs
<1>10. QED
  BY <1>5, <1>9

(* What the conversions and the product put into a buffer, if one operand  *)
(* at least is a residue.                                                  *)
LEMMA ProductIs ==
  ASSUME N \in Contexts, NEW x \in Limbs, NEW y \in Limbs, Value(x) < N
  PROVE  /\ Product(x, y) \in Limbs
         /\ Value(Product(x, y)) = Unscaled(Value(x) * Value(y), R, N)
         /\ Value(Product(x, y)) < N
<1>1. PICK w \in Nat \ {0}, r \in Nat \ {0} : w = N /\ r = R /\ w < r /\ Bezout(r, w)
  BY ContextFacts
<1>2. PICK a \in Nat, b \in Nat : a = Value(x) /\ b = Value(y) /\ a < w /\ b < r
  <2>1. Value(x) \in Nat /\ Value(y) \in Nat /\ Value(y) < R
    BY OperandSum DEF Value, R
  <2>2. QED
    BY <2>1, <1>1
<1>3. PICK p \in Nat : p = a * b /\ p < w * r
  <2>1. a * b \in Nat /\ b * a \in Nat /\ r * a \in Nat /\ b * a <= r * a
    BY <1>2, TimesMono
  <2>2. (a + 1) * r \in Nat /\ w * r \in Nat /\ (a + 1) * r <= w * r
    BY <1>2, TimesMono
  <2>3. a * b = b * a /\ (a + 1) * r = r * a + r
    OBVIOUS
  <2>4. a * b < w * r
    BY <2>1, <2>2, <2>3
  <2>5. QED
    BY <2>1, <2>4
<1>4. PICK q \in 0..(r-1) :
        q = (CHOOSE k \in 0..(r-1) : (p + k * w) % r = 0) /\ (p + q * w) % r = 0
  <2>1. p \in Int
    OBVIOUS
  <2>2. \E k \in 0..(r-1) : (p + k * w) % r = 0
    BY <1>1, <2>1, MultipleExists, Zenon
  <2>3. QED
    BY <2>2, Zenon
<1>5. PICK e \in Int : e = p + q * w
  OBVIOUS
<1>6. PICK X \in Int : X = e \div r /\ X * r = e
  BY <1>4, <1>5, QuotientOf
<1>7. PICK z \in Int : z = IF X >= w THEN X - w ELSE X
  <2>1. (IF X >= w THEN X - w ELSE X) \in Int
    OBVIOUS
  <2>2. QED
    BY <2>1, Zenon
<1>8. z \in 0..(w-1) /\ z = Unscaled(p, r, w)
  <2>1. X * r = p + q * w /\ Bezout(r, w) /\ p < w * r
    BY <1>1, <1>3, <1>5, <1>6
  <2>2. QED
    BY <2>1, <1>7, ReducedOnce, Zenon
<1>9. Product(x, y) = LimbsPadded(z)
  <2>1. p = Value(x) * Value(y) /\ w = N /\ r = R
    BY <1>1, <1>2, <1>3
  <2>2. q = RowDigits(p)
    BY <1>4, <2>1, Zenon DEF RowDigits
  <2>3. X = (p + RowDigits(p) * N) \div R
    BY <1>5, <1>6, <2>1, <2>2, Zenon
  <2>4. z = IF X >= N THEN X - N ELSE X
    BY <1>7, <2>1
  <2>5. QED
    BY <2>1, <2>3, <2>4 DEF Product
<1>10. z \in Nat /\ z < R
  BY <1>1, <1>8
<1>11. QED
  BY <1>1, <1>2, <1>3, <1>8, <1>9, <1>10, PaddedValue

LEMMA OperandIs ==
  ASSUME N \in Contexts, NEW v \in Nat
  PROVE  /\ Operand(v) \in Limbs /\ Value(Operand(v)) = v % N /\ Value(Operand(v)) < N
<1>1. N \in Nat \ {0} /\ N < R /\ R \in Nat
  BY ContextFacts
<1>2. v % N \in Nat /\ v % N < N /\ v % N < R
  BY <1>1
<1>3. QED
  BY <1>2, PaddedValue DEF Operand, Reduced

LEMMA ConstantsAre ==
  ASSUME N \in Contexts
  PROVE  /\ One \in Limbs /\ Value(One) = 1
         /\ OneMont \in Limbs /\ Value(OneMont) = R % N /\ Value(OneMont) < N
         /\ R2 \in Limbs /\ Value(R2) = (R * R) % N
<1>1. N \in Nat \ {0} /\ N >= 3 /\ N < R /\ R \in Nat
  BY ContextFacts
<1>2. R % N \in Nat /\ R % N < N /\ R % N < R /\ 1 < R
  BY <1>1
<1>3. (R * R) % N \in Nat /\ (R * R) % N < R
  <2>1. R * R \in Nat
    BY <1>1
  <2>2. QED
    BY <1>1, <2>1
<1>4. QED
  BY <1>2, <1>3, PaddedValue DEF One, OneMont, R2

-----------------------------------------------------------------------------
(* The calls and their arguments.                                          *)
LEMMA CallFields ==
  ASSUME call \in Ring!Calls \cup {Ring!NoCall}
  PROVE  /\ call.op = "none" <=> call = Ring!NoCall
         /\ call.op \in {"to_montgomery", "mont_product", "from_montgomery"}
              => call.num \in Nat
         /\ call.op \in {"to_montgomery", "mont_product", "one_mont", "monpro", "select"}
              => call.out \in Bufs
         /\ call.op = "mont_product" => call.num2 \in Nat
         /\ call.op \in {"monpro", "select", "cswap", "geq", "equal"}
              => call.a \in Bufs /\ call.b \in Bufs
         /\ call.op \in {"select", "cswap"} => call.bit \in {0, 1}
BY LimbApiAssumption DEF Ring!Calls, Ring!NoCall

LEMMA SourceIsBuffer ==
  ASSUME ApiTypeOK, NEW x \in Bufs
  PROVE  /\ Source(x) \in Bufs
         /\ call.op \notin {"select", "cswap"} => Source(x) = x
BY CallFields DEF ApiTypeOK, Source

(* Two arrays with the same limbs are one array.                           *)
LEMMA LimbsEqual ==
  ASSUME NEW x \in Limbs, NEW y \in Limbs, \A k \in 0..(S-1) : x[k] = y[k]
  PROVE  x = y
<1>1. x = [k \in 0..(S-1) |-> x[k]] /\ y = [k \in 0..(S-1) |-> y[k]]
  BY DEF Limbs
<1>2. [k \in 0..(S-1) |-> x[k]] = [k \in 0..(S-1) |-> y[k]]
  OBVIOUS
<1>3. QED
  BY <1>1, <1>2, Zenon

(* When a call is about to return, or has no loop, every buffer holds what *)
(* its source held when the call began.                                    *)
LEMMA LoopDone ==
  ASSUME ApiInv, j = S \/ call.op \notin {"select", "cswap"}
  PROVE  \A x \in Bufs : mem[x] = entry[Source(x)] /\ Value(mem[x]) < N
<1> SUFFICES ASSUME NEW x \in Bufs PROVE mem[x] = entry[Source(x)] /\ Value(mem[x]) < N
  OBVIOUS
<1>1. Source(x) \in Bufs /\ (call.op \notin {"select", "cswap"} => Source(x) = x)
  BY SourceIsBuffer DEF ApiInv
<1>2. mem[x] \in Limbs /\ entry[Source(x)] \in Limbs
  BY <1>1 DEF ApiInv, ApiTypeOK
<1>3. ASSUME NEW k \in 0..(S-1) PROVE mem[x][k] = entry[Source(x)][k]
  <2>1. mem[x][k] = entry[IF k < j THEN Source(x) ELSE x][k]
    BY DEF ApiInv, TakenOver
  <2>2. CASE j = S
    <3>1. k < j
      BY <2>2, SizeAssumption
    <3>2. QED
      BY <2>1, <3>1
  <2>3. CASE call.op \notin {"select", "cswap"}
    BY <2>1, <2>3, <1>1
  <2>4. QED
    BY <2>2, <2>3
<1>4. mem[x] = entry[Source(x)]
  BY <1>2, <1>3, LimbsEqual
<1>5. Value(entry[Source(x)]) < N
  BY <1>1 DEF ApiInv, EntryReduced
<1>6. QED
  BY <1>4, <1>5

LEMMA Unchanged ==
  ASSUME ApiInv, call.op \notin {"select", "cswap"}
  PROVE  mem = entry
<1>1. \A x \in Bufs : mem[x] = entry[x]
  BY LoopDone, SourceIsBuffer DEF ApiInv
<1>2. QED
  BY <1>1 DEF ApiInv, ApiTypeOK

-----------------------------------------------------------------------------
(* The invariant is inductive: one lemma an action.                        *)
LEMMA ApiInitInv == ApiInit => ApiInv
<1> SUFFICES ASSUME ApiInit PROVE ApiInv
  OBVIOUS
<1>1. N \in Nat \ {0} /\ N < R /\ R \in Nat
  BY ContextFacts DEF ApiInit
<1>2. \A x \in Bufs : mem[x] \in Limbs /\ Value(mem[x]) < N
  <2> SUFFICES ASSUME NEW x \in Bufs PROVE mem[x] \in Limbs /\ Value(mem[x]) < N
    OBVIOUS
  <2>1. PICK v \in 0..(N-1) : mem[x] = LimbsPadded(v)
    BY DEF ApiInit
  <2>2. v \in Nat /\ v < R /\ v < N
    BY <1>1
  <2>3. QED
    BY <2>1, <2>2, PaddedValue
<1>3. entry = mem /\ call.op = "none" /\ call = Ring!NoCall
  BY DEF ApiInit, Ring!NoCall
<1>4. ApiTypeOK
  <2>1. mem \in [Bufs -> Limbs]
    BY <1>2 DEF ApiInit
  <2>2. 0 \in 0..S /\ 0 \in Word
    BY SizeAssumption, WordSize
  <2>3. QED
    BY <2>1, <2>2, <1>3 DEF ApiInit, ApiTypeOK
<1>5. EntryReduced
  BY <1>2, <1>3 DEF EntryReduced
<1>6. TakenOver /\ Compared
  <2>1. \A k \in 0..(S-1) : ~(k < j)
    BY DEF ApiInit
  <2>2. QED
    BY <2>1, <1>3 DEF TakenOver, Compared
<1>7. QED
  BY <1>4, <1>5, <1>6 DEF ApiInv

(* The end of any call.                                                    *)
LEMMA ReturnInv ==
  ASSUME ApiInv, NEW buffers \in [Bufs -> Limbs], \A x \in Bufs : Value(buffers[x]) < N,
         NEW result, Return(buffers, result)
  PROVE  ApiInv'
<1>1. N' = N /\ mem' = buffers /\ entry' = buffers /\ j' = 0 /\ borrow' = 0 /\ diff' = 0
  BY DEF Return
<1>2. call' = Ring!NoCall /\ call'.op = "none"
  BY DEF Return, Ring!NoCall
<1>3. 0 \in 0..S /\ 0 \in Word
  BY SizeAssumption, WordSize
<1>4. ApiTypeOK'
  BY <1>1, <1>2, <1>3 DEF ApiInv, ApiTypeOK
<1>5. EntryReduced'
  BY <1>1 DEF EntryReduced
<1>6. TakenOver' /\ Compared'
  <2>1. \A k \in 0..(S-1) : ~(k < j')
    BY <1>1
  <2>2. QED
    BY <2>1, <1>1, <1>2 DEF TakenOver, Compared
<1>7. QED
  BY <1>4, <1>5, <1>6 DEF ApiInv

LEMMA WriteInv ==
  ASSUME ApiInv, call.op \notin {"select", "cswap"}, call.out \in Bufs,
         NEW limbs \in Limbs, Value(limbs) < N, Write(limbs)
  PROVE  ApiInv'
<1>1. mem \in [Bufs -> Limbs] /\ \A x \in Bufs : Value(mem[x]) < N
  BY LoopDone DEF ApiInv, ApiTypeOK
<1> DEFINE buffers == [mem EXCEPT ![call.out] = limbs]
<1>2. buffers \in [Bufs -> Limbs] /\ \A x \in Bufs : Value(buffers[x]) < N
  BY <1>1
<1>3. Return(buffers, Ring!NoAnswer)
  BY DEF Write
<1> HIDE DEF buffers
<1>4. QED
  BY <1>2, <1>3, ReturnInv

LEMMA ConvertInv ==
  ASSUME ApiInv, ToMontgomery \/ MontProduct \/ FromMontgomery \/ OneMontgomery \/ MonPro
  PROVE  ApiInv'
<1>1. N \in Contexts /\ call \in Ring!Calls \cup {Ring!NoCall} /\ mem \in [Bufs -> Limbs]
  BY DEF ApiInv, ApiTypeOK
<1>2. CASE ToMontgomery
  <2>1. call.op = "to_montgomery" /\ call.num \in Nat /\ call.out \in Bufs
    BY <1>1, <1>2, CallFields DEF ToMontgomery
  <2>2. Operand(call.num) \in Limbs /\ Value(Operand(call.num)) < N /\ R2 \in Limbs
    BY <1>1, <2>1, OperandIs, ConstantsAre
  <2> DEFINE p == Product(Operand(call.num), R2)
  <2>3. p \in Limbs /\ Value(p) < N
    BY <1>1, <2>2, ProductIs
  <2>4. Write(p)
    BY <1>2 DEF ToMontgomery
  <2> HIDE DEF p
  <2>5. QED
    BY <2>1, <2>3, <2>4, WriteInv
<1>3. CASE MontProduct
  <2>1. /\ call.op = "mont_product" /\ call.num \in Nat /\ call.num2 \in Nat
        /\ call.out \in Bufs
    BY <1>1, <1>3, CallFields DEF MontProduct
  <2>2. /\ Operand(call.num) \in Limbs /\ Value(Operand(call.num)) < N
        /\ Operand(call.num2) \in Limbs
    BY <1>1, <2>1, OperandIs
  <2> DEFINE p == Product(Operand(call.num), Operand(call.num2))
  <2>3. p \in Limbs /\ Value(p) < N
    BY <1>1, <2>2, ProductIs
  <2>4. Write(p)
    BY <1>3, <2>1 DEF MontProduct
  <2> HIDE DEF p
  <2>5. QED
    BY <2>1, <2>3, <2>4, WriteInv
<1>4. CASE FromMontgomery
  <2>1. call.op = "from_montgomery"
    BY <1>4 DEF FromMontgomery
  <2>2. \A x \in Bufs : Value(mem[x]) < N
    BY <2>1, LoopDone
  <2>3. PICK result : Return(mem, result)
    BY <1>4 DEF FromMontgomery
  <2>4. QED
    BY <1>1, <2>2, <2>3, ReturnInv
<1>5. CASE OneMontgomery
  <2>1. call.op = "one_mont" /\ call.out \in Bufs
    BY <1>1, <1>5, CallFields DEF OneMontgomery
  <2>2. OneMont \in Limbs /\ Value(OneMont) < N
    BY <1>1, ConstantsAre
  <2>3. Write(OneMont)
    BY <1>5 DEF OneMontgomery
  <2>4. QED
    BY <2>1, <2>2, <2>3, WriteInv
<1>6. CASE MonPro
  <2>1. call.op = "monpro" /\ call.a \in Bufs /\ call.b \in Bufs /\ call.out \in Bufs
    BY <1>1, <1>6, CallFields DEF MonPro
  <2>2. mem[call.a] \in Limbs /\ Value(mem[call.a]) < N /\ mem[call.b] \in Limbs
    BY <1>1, <2>1, LoopDone
  <2> DEFINE p == Product(mem[call.a], mem[call.b])
  <2>3. p \in Limbs /\ Value(p) < N
    BY <1>1, <2>2, ProductIs
  <2>4. Write(p)
    BY <1>6 DEF MonPro
  <2> HIDE DEF p
  <2>5. QED
    BY <2>1, <2>3, <2>4, WriteInv
<1>7. QED
  BY <1>2, <1>3, <1>4, <1>5, <1>6

LEMMA EndOfLoopInv ==
  ASSUME ApiInv, ArrayReturn \/ CompareReturn
  PROVE  ApiInv'
<1>1. \A x \in Bufs : Value(mem[x]) < N
  BY LoopDone DEF ArrayReturn, CompareReturn
<1>2. PICK result : Return(mem, result)
  BY DEF ArrayReturn, CompareReturn
<1>3. mem \in [Bufs -> Limbs]
  BY DEF ApiInv, ApiTypeOK
<1>4. QED
  BY <1>1, <1>2, <1>3, ReturnInv

(* The mask ct::geq returns.                                               *)
LEMMA GeqVerdict ==
  ASSUME NEW c \in {0, 1}
  PROVE  MaskFromBit(U32(1 - c)) = IF c = 1 THEN False ELSE True
<1>1. U32(1 - c) = 1 - c /\ 1 - c \in {0, 1}
  <2>1. \A b \in Nat : b >= 2 => (1 - 0) % b = 1 - 0 /\ (1 - 1) % b = 1 - 1
    OBVIOUS
  <2>2. QED
    BY <2>1, WordSize DEF U32
<1>2. QED
  BY <1>1, BitMask

LEMMA BeginInv ==
  ASSUME ApiInv, NEW c \in Ring!Calls, Begin(c)
  PROVE  ApiInv'
<1>1. /\ N' = N /\ mem' = mem /\ entry' = entry /\ j' = 0 /\ borrow' = 0 /\ diff' = 0
      /\ call' = c /\ call.op = "none"
  BY DEF Begin, Ring!NoCall
<1>2. mem = entry
  BY <1>1, Unchanged
<1>3. 0 \in 0..S /\ 0 \in Word
  BY SizeAssumption, WordSize
<1>4. ApiTypeOK'
  BY <1>1, <1>3 DEF ApiInv, ApiTypeOK
<1>5. EntryReduced'
  BY <1>1 DEF ApiInv, EntryReduced
<1>6. TakenOver'
  <2>1. \A k \in 0..(S-1) : ~(k < j')
    BY <1>1
  <2>2. c.op \in {"select", "cswap"} => c.bit \in {0, 1}
    BY DEF Ring!Calls
  <2>3. c.op \in {"select", "cswap"} => MaskFromBit(c.bit) = IF c.bit = 1 THEN True ELSE False
    BY <2>2, BitMask
  <2>4. QED
    BY <2>1, <2>3, <1>1, <1>2 DEF TakenOver, Mask
<1>7. Compared'
  <2>1. c.op \in {"geq", "equal"} => c.a \in Bufs /\ c.b \in Bufs
    BY DEF Ring!Calls
  <2>2. \A x \in Bufs : LimbSum(mem[x], 0) = 0
    BY OperandSum DEF ApiInv, ApiTypeOK
  <2>3. c.op \in {"geq", "equal"} => LimbSum(mem[c.a], 0) = 0 /\ LimbSum(mem[c.b], 0) = 0
    BY <2>1, <2>2
  <2>4. MaskFromBit(U32(1 - 0)) = True /\ IsZero(0) = True /\ True # False
    <3>1. \A b \in {0, 1} : MaskFromBit(U32(1 - b)) = IF b = 1 THEN False ELSE True
      BY GeqVerdict
    <3>2. 0 \in {0, 1} /\ 0 # 1
      OBVIOUS
    <3>3. MaskFromBit(U32(1 - 0)) = True
      BY <3>1, <3>2, Zenon
    <3>4. IsZero(0) = True
      BY ZeroMask, <1>3
    <3>5. QED
      BY <3>3, <3>4, Masks
  <2>5. c.op = "geq" => Verdict' = True
    BY <2>4, <1>1 DEF Verdict
  <2>6. c.op = "equal" => Verdict' = True
    BY <2>4, <1>1 DEF Verdict
  <2>7. c.op \in {"geq", "equal"} => Low(mem[c.a])' = 0 /\ Low(mem[c.b])' = 0
    BY <2>3, <1>1 DEF Low
  <2>8. QED
    BY <2>4, <2>5, <2>6, <2>7, <1>1 DEF Compared
<1>8. QED
  BY <1>4, <1>5, <1>6, <1>7 DEF ApiInv

(* What a step of an array loop leaves to show: the limb it works on is    *)
(* taken over in every buffer, and the others stay.                        *)
LEMMA NextLimb ==
  ASSUME ApiInv, call.op \in {"select", "cswap"}, j \in 0..(S-1), j' = j + 1,
         UNCHANGED <<N, call, borrow, diff, entry>>,
         mem' \in [Bufs -> Limbs],
         \A x \in Bufs : mem'[x][j] = entry[Source(x)][j],
         \A x \in Bufs : \A k \in 0..(S-1) : k # j => mem'[x][k] = mem[x][k]
  PROVE  ApiInv'
<1>1. ApiTypeOK'
  <2>1. j + 1 \in 0..S
    BY SizeAssumption
  <2>2. QED
    BY <2>1 DEF ApiInv, ApiTypeOK
<1>2. EntryReduced'
  BY DEF ApiInv, EntryReduced
<1>3. TakenOver'
  <2>1. ASSUME NEW x \in Bufs, NEW k \in 0..(S-1)
        PROVE  mem'[x][k] = entry[IF k < j + 1 THEN Source(x) ELSE x][k]
    <3>1. CASE k = j
      BY <3>1, SizeAssumption
    <3>2. CASE k # j
      <4>1. mem[x][k] = entry[IF k < j THEN Source(x) ELSE x][k]
        BY DEF ApiInv, TakenOver
      <4>2. k < j + 1 <=> k < j
        BY <3>2, SizeAssumption
      <4>3. QED
        BY <3>2, <4>1, <4>2
    <3>3. QED
      BY <3>1, <3>2
  <2>2. \A x \in Bufs : Source(x)' = Source(x)
    BY DEF Source
  <2>3. Mask' = Mask
    BY DEF Mask
  <2>4. Mask = IF call.bit = 1 THEN True ELSE False
    BY DEF ApiInv, TakenOver
  <2>5. \A x \in Bufs : \A k \in 0..(S-1) :
          mem'[x][k] = entry'[IF k < j' THEN Source(x)' ELSE x][k]
    BY <2>1, <2>2
  <2>6. call'.op \in {"select", "cswap"} => Mask' = IF call'.bit = 1 THEN True ELSE False
    BY <2>3, <2>4
  <2>7. QED
    BY <2>5, <2>6 DEF TakenOver
<1>4. Compared'
  BY DEF Compared
<1>5. QED
  BY <1>1, <1>2, <1>3, <1>4 DEF ApiInv

(* The limb a loop is about to read still is what it was at the call.      *)
LEMMA Unread ==
  ASSUME ApiInv, j \in 0..(S-1)
  PROVE  \A x \in Bufs : mem[x] \in Limbs /\ mem[x][j] \in Word /\ mem[x][j] = entry[x][j]
<1> SUFFICES ASSUME NEW x \in Bufs
             PROVE  mem[x] \in Limbs /\ mem[x][j] \in Word /\ mem[x][j] = entry[x][j]
  OBVIOUS
<1>1. mem[x] \in Limbs
  BY DEF ApiInv, ApiTypeOK
<1>2. mem[x][j] \in Word
  BY <1>1 DEF Limbs
<1>3. mem[x][j] = entry[IF j < j THEN Source(x) ELSE x][j]
  BY DEF ApiInv, TakenOver
<1>4. ~(j < j)
  BY SizeAssumption
<1>5. QED
  BY <1>1, <1>2, <1>3, <1>4

LEMMA SelectLimbInv ==
  ASSUME ApiInv, SelectLimb
  PROVE  ApiInv'
<1>1. call.op = "select" /\ j \in 0..(S-1)
  BY SizeAssumption DEF SelectLimb, ApiInv, ApiTypeOK
<1>2. call.a \in Bufs /\ call.b \in Bufs /\ call.out \in Bufs /\ call.bit \in {0, 1}
  BY <1>1, CallFields DEF ApiInv, ApiTypeOK
<1>3. PICK u \in Word, v \in Word : u = mem[call.a][j] /\ v = mem[call.b][j]
  BY <1>1, <1>2, Unread
<1>4. Mask = IF call.bit = 1 THEN True ELSE False
  BY <1>1 DEF ApiInv, TakenOver
<1>5. PICK y \in Word : y = SelectWord(Mask, u, v) /\ y = IF call.bit = 1 THEN u ELSE v
  BY <1>4, SelectedWord
<1>6. mem' = [mem EXCEPT ![call.out][j] = y]
  BY <1>3, <1>5 DEF SelectLimb
<1>7. mem \in [Bufs -> Limbs]
  BY DEF ApiInv, ApiTypeOK
<1>8. mem' \in [Bufs -> Limbs]
  BY <1>1, <1>2, <1>6, <1>7 DEF Limbs
<1>9. mem'[call.out][j] = y /\ \A x \in Bufs : x # call.out => mem'[x] = mem[x]
  BY <1>1, <1>2, <1>6, <1>7 DEF Limbs
<1>10. \A x \in Bufs : \A k \in 0..(S-1) : k # j => mem'[x][k] = mem[x][k]
  BY <1>1, <1>2, <1>6, <1>7 DEF Limbs
<1>11. \A x \in Bufs : mem'[x][j] = entry[Source(x)][j]
  <2> SUFFICES ASSUME NEW x \in Bufs PROVE mem'[x][j] = entry[Source(x)][j]
    OBVIOUS
  <2>1. CASE x = call.out
    <3>1. Source(x) = IF call.bit = 1 THEN call.a ELSE call.b
      BY <1>1, <2>1 DEF Source
    <3>2. u = entry[call.a][j] /\ v = entry[call.b][j]
      BY <1>1, <1>2, <1>3, Unread
    <3>3. QED
      BY <2>1, <3>1, <3>2, <1>5, <1>9
  <2>2. CASE x # call.out
    <3>1. Source(x) = x
      BY <1>1, <2>2 DEF Source
    <3>2. QED
      BY <2>2, <3>1, <1>1, <1>9, Unread
  <2>3. QED
    BY <2>1, <2>2
<1>12. j' = j + 1 /\ UNCHANGED <<N, call, borrow, diff, entry>>
  BY DEF SelectLimb
<1>13. QED
  BY <1>1, <1>8, <1>10, <1>11, <1>12, NextLimb

LEMMA CswapLimbInv ==
  ASSUME ApiInv, CswapLimb
  PROVE  ApiInv'
<1>1. call.op = "cswap" /\ j \in 0..(S-1)
  BY SizeAssumption DEF CswapLimb, ApiInv, ApiTypeOK
<1>2. call.a \in Bufs /\ call.b \in Bufs /\ call.bit \in {0, 1}
  BY <1>1, CallFields DEF ApiInv, ApiTypeOK
<1>3. PICK u \in Word, v \in Word : u = mem[call.a][j] /\ v = mem[call.b][j]
  BY <1>1, <1>2, Unread
<1>4. Mask = (IF call.bit = 1 THEN True ELSE False) /\ Mask \in Word
  BY <1>1, Masks DEF ApiInv, TakenOver
<1>5. PICK t \in Word : t = Mask & (u ^^ v)
  BY <1>4, MaskedDifference
<1>6. PICK y \in Word, z \in Word :
        /\ y = u ^^ t /\ z = v ^^ t
        /\ y = (IF call.bit = 1 THEN v ELSE u) /\ z = (IF call.bit = 1 THEN u ELSE v)
  BY <1>4, <1>5, MaskedDifference
<1>7. mem \in [Bufs -> Limbs]
  BY DEF ApiInv, ApiTypeOK
<1>8. mem' = Swapped(mem, call.a, call.b, j, t)
  BY <1>3, <1>5 DEF CswapLimb
<1>9. /\ mem' \in [Bufs -> Limbs]
      /\ \A x \in Bufs : \A k \in 0..(S-1) : k # j => mem'[x][k] = mem[x][k]
      /\ mem'[call.a][j] = y /\ mem'[call.b][j] = z
      /\ \A x \in Bufs : x # call.a /\ x # call.b => mem'[x] = mem[x]
  <2>1. CASE call.a # call.b
    <3>1. mem' = [mem EXCEPT ![call.a][j] = y, ![call.b][j] = z]
      BY <1>1, <1>2, <1>3, <1>6, <1>7, <1>8, <2>1 DEF Swapped, Limbs
    <3>2. QED
      BY <1>1, <1>2, <1>7, <2>1, <3>1 DEF Limbs
  <2>2. CASE call.a = call.b
    <3>1. u = v /\ t = 0 /\ (u ^^ 0) = u /\ y = u /\ z = u
      BY <1>3, <1>4, <1>5, <1>6, <2>2, ItsOwnDifference
    <3>2. mem' = [mem EXCEPT ![call.a][j] = u]
      BY <1>1, <1>2, <1>3, <1>7, <1>8, <2>2, <3>1 DEF Swapped, Limbs
    <3>3. QED
      BY <1>1, <1>2, <1>7, <2>2, <3>1, <3>2 DEF Limbs
  <2>3. QED
    BY <2>1, <2>2
<1>10. \A x \in Bufs : mem'[x][j] = entry[Source(x)][j]
  <2> SUFFICES ASSUME NEW x \in Bufs PROVE mem'[x][j] = entry[Source(x)][j]
    OBVIOUS
  <2>1. u = entry[call.a][j] /\ v = entry[call.b][j]
    BY <1>1, <1>2, <1>3, Unread
  <2>2. CASE x = call.a
    <3>1. Source(x) = IF call.bit = 1 THEN call.b ELSE call.a
      BY <1>1, <2>2 DEF Source
    <3>2. QED
      BY <2>1, <2>2, <3>1, <1>6, <1>9
  <2>3. CASE x # call.a /\ x = call.b
    <3>1. Source(x) = IF call.bit = 1 THEN call.a ELSE call.b
      BY <1>1, <2>3 DEF Source
    <3>2. QED
      BY <2>1, <2>3, <3>1, <1>6, <1>9
  <2>4. CASE x # call.a /\ x # call.b
    <3>1. Source(x) = x
      BY <1>1, <2>4 DEF Source
    <3>2. QED
      BY <2>4, <3>1, <1>1, <1>9, Unread
  <2>5. QED
    BY <2>2, <2>3, <2>4
<1>11. j' = j + 1 /\ UNCHANGED <<N, call, borrow, diff, entry>>
  BY DEF CswapLimb
<1>12. QED
  BY <1>1, <1>9, <1>10, <1>11, NextLimb

(* The comparisons write no buffer.                                        *)
LEMMA CompareFrame ==
  ASSUME ApiInv, call.op \in {"geq", "equal"}, j \in 0..(S-1), j' = j + 1,
         UNCHANGED <<N, mem, call, entry>>, borrow' \in {0, 1}, diff' \in Word,
         Compared'
  PROVE  ApiInv'
<1>1. ApiTypeOK'
  <2>1. j + 1 \in 0..S
    BY SizeAssumption
  <2>2. QED
    BY <2>1 DEF ApiInv, ApiTypeOK
<1>2. EntryReduced'
  BY DEF ApiInv, EntryReduced
<1>3. TakenOver'
  <2>1. mem = entry
    BY Unchanged
  <2>2. \A x \in Bufs : Source(x)' = x
    BY DEF Source
  <2>3. \A x \in Bufs : \A k \in 0..(S-1) :
          mem'[x][k] = entry'[IF k < j' THEN Source(x)' ELSE x][k]
    BY <2>1, <2>2
  <2>4. QED
    BY <2>3 DEF TakenOver
<1>4. QED
  BY <1>1, <1>2, <1>3 DEF ApiInv

LEMMA GeqLimbInv ==
  ASSUME ApiInv, GeqLimb
  PROVE  ApiInv'
<1>1. call.op = "geq" /\ j \in 0..(S-1)
  BY SizeAssumption DEF GeqLimb, ApiInv, ApiTypeOK
<1>2. call.a \in Bufs /\ call.b \in Bufs
  BY <1>1, CallFields DEF ApiInv, ApiTypeOK
<1>3. PICK a \in Limbs, b \in Limbs : a = mem[call.a] /\ b = mem[call.b]
  BY <1>2 DEF ApiInv, ApiTypeOK
<1>4. borrow \in {0, 1} /\ (borrow = 1 <=> LimbSum(a, j) < LimbSum(b, j))
  BY <1>1, <1>3 DEF ApiInv, ApiTypeOK, Compared, Low
<1>5. borrow' = NextBorrow(a[j], b[j], borrow)
  BY <1>3 DEF GeqLimb
<1>6. borrow' \in {0, 1} /\ (borrow' = 1 <=> LimbSum(a, j+1) < LimbSum(b, j+1))
  BY <1>1, <1>4, <1>5, NextBorrowLimb
<1>7. j' = j + 1 /\ UNCHANGED <<N, mem, call, entry>> /\ diff' = diff /\ diff \in Word
  BY DEF GeqLimb, ApiInv, ApiTypeOK
<1>8. Compared'
  <2>1. Verdict' \in {True, False}
    <3>1. Verdict' = MaskFromBit(U32(1 - borrow'))
      BY <1>1, <1>7 DEF Verdict
    <3>2. QED
      BY <1>6, <3>1, GeqVerdict
  <2>2. Low(mem[call.a])' = LimbSum(a, j+1) /\ Low(mem[call.b])' = LimbSum(b, j+1)
    BY <1>3, <1>7 DEF Low
  <2>3. QED
    BY <1>1, <1>6, <1>7, <2>1, <2>2 DEF Compared
<1>9. QED
  BY <1>1, <1>6, <1>7, <1>8, CompareFrame

LEMMA EqualLimbInv ==
  ASSUME ApiInv, EqualLimb
  PROVE  ApiInv'
<1>1. call.op = "equal" /\ j \in 0..(S-1)
  BY SizeAssumption DEF EqualLimb, ApiInv, ApiTypeOK
<1>2. call.a \in Bufs /\ call.b \in Bufs
  BY <1>1, CallFields DEF ApiInv, ApiTypeOK
<1>3. PICK a \in Limbs, b \in Limbs : a = mem[call.a] /\ b = mem[call.b]
  BY <1>2 DEF ApiInv, ApiTypeOK
<1>4. diff \in Word /\ a[j] \in Word /\ b[j] \in Word
  BY <1>1 DEF ApiInv, ApiTypeOK, Limbs
<1>5. Verdict = IsZero(diff)
  BY <1>1 DEF Verdict
<1>6. diff = 0 <=> LimbSum(a, j) = LimbSum(b, j)
  <2>1. Verdict = True <=> LimbSum(a, j) = LimbSum(b, j)
    BY <1>1, <1>3 DEF ApiInv, Compared, Low
  <2>2. Verdict = True <=> diff = 0
    BY <1>4, <1>5, ZeroMask, Masks
  <2>3. QED
    BY <2>1, <2>2
<1>7. diff' = (diff | (a[j] ^^ b[j]))
  BY <1>3 DEF EqualLimb
<1>8. diff' \in Word /\ (diff' = 0 <=> diff = 0 /\ a[j] = b[j])
  BY <1>4, <1>7, NextDifference
<1>9. diff' = 0 <=> LimbSum(a, j+1) = LimbSum(b, j+1)
  BY <1>1, <1>6, <1>8, NextEqualLimb
<1>10. j' = j + 1 /\ UNCHANGED <<N, mem, call, entry>> /\ borrow' = borrow /\ borrow \in {0, 1}
  BY DEF EqualLimb, ApiInv, ApiTypeOK
<1>11. Compared'
  <2>1. Verdict' = IsZero(diff')
    BY <1>1, <1>10 DEF Verdict
  <2>2. IsZero(diff') = IF diff' = 0 THEN True ELSE False
    BY <1>8, ZeroMask
  <2>3. Low(mem[call.a])' = LimbSum(a, j+1) /\ Low(mem[call.b])' = LimbSum(b, j+1)
    BY <1>3, <1>10 DEF Low
  <2>4. True # False
    BY Masks
  <2>5. QED
    BY <1>1, <1>9, <1>10, <2>1, <2>2, <2>3, <2>4 DEF Compared
<1>12. QED
  BY <1>1, <1>8, <1>10, <1>11, CompareFrame

LEMMA ApiNextInv == ApiInv /\ [ApiNext]_apiVars => ApiInv'
<1> SUFFICES ASSUME ApiInv, [ApiNext]_apiVars PROVE ApiInv'
  OBVIOUS
<1>1. ASSUME NEW c \in Ring!Calls, Begin(c) PROVE ApiInv'
  BY <1>1, BeginInv
<1>2. CASE ToMontgomery \/ MontProduct \/ FromMontgomery \/ OneMontgomery \/ MonPro
  BY <1>2, ConvertInv
<1>3. CASE SelectLimb
  BY <1>3, SelectLimbInv
<1>4. CASE CswapLimb
  BY <1>4, CswapLimbInv
<1>5. CASE GeqLimb
  BY <1>5, GeqLimbInv
<1>6. CASE EqualLimb
  BY <1>6, EqualLimbInv
<1>7. CASE ArrayReturn \/ CompareReturn
  BY <1>7, EndOfLoopInv
<1>8. CASE UNCHANGED apiVars
  BY <1>8 DEF apiVars, ApiInv, ApiTypeOK, EntryReduced, TakenOver, Compared, Source, Low,
              Mask, Verdict
<1>9. QED
  BY <1>1, <1>2, <1>3, <1>4, <1>5, <1>6, <1>7, <1>8 DEF ApiNext, ApiStep

(* The loops of select, cswap, geq and equal do what their names say, limb *)
(* by limb, for every base that is a power of two, every limb count and    *)
(* every way the buffers of a call may coincide; and every number a buffer *)
(* held when a call began was below N (montgomery.cpp:99-127, ct.hpp).     *)
THEOREM ApiInductive == ApiSpec => []ApiInv
<1>1. ApiInit => ApiInv
  BY ApiInitInv
<1>2. ApiInv /\ [ApiNext]_apiVars => ApiInv'
  BY ApiNextInv
<1>3. QED
  BY <1>1, <1>2, PTL DEF ApiSpec

(* Between calls every buffer holds a number below N, whatever was called  *)
(* (montgomery.hpp:46).                                                    *)
THEOREM ReducedBetweenCalls == ApiSpec => []BuffersReduced
<1>1. ApiInv => BuffersReduced
  BY LoopDone DEF BuffersReduced, Ring!NoCall
<1>2. QED
  BY <1>1, ApiInductive, PTL

-----------------------------------------------------------------------------
(* The refinement of ResidueRing.                                          *)

(* r*(a*b) and (r*a)*b, in the shapes the congruences below need.          *)
LEMMA OutOfDomain ==
  ASSUME NEW w \in Nat \ {0}, NEW r \in Nat \ {0}, Bezout(r, w), NEW p \in Int, NEW a \in Int,
         Congruent(p * r, (a * r) * r, w)
  PROVE  Unscaled(p, r, w) = a % w
<1>1. w \in Int /\ r \in Int /\ a * r \in Int
  OBVIOUS
<1>2. PICK b \in Int : b = a * r
  BY <1>1
<1>3. Congruent(r * p, r * b, w)
  <2>1. p * r = r * p /\ b * r = r * b
    BY <1>1
  <2>2. QED
    BY <2>1, <1>2
<1>4. Congruent(p, a * r, w)
  BY <1>1, <1>2, <1>3, CancelUnit
<1>5. QED
  BY <1>4, UnscaledScaled

(* to_mont: v times R^2, reduced, is v in the domain.                      *)
LEMMA IntoDomain ==
  ASSUME NEW w \in Nat \ {0}, NEW r \in Nat \ {0}, Bezout(r, w), NEW v \in Nat
  PROVE  Unscaled(Unscaled((v % w) * ((r * r) % w), r, w), r, w) = v % w
<1>1. PICK x \in Int, y \in Int : x = v % w /\ y = (r * r) % w
  OBVIOUS
<1>2. PICK s \in Int : s = r * r
  OBVIOUS
<1>3. Congruent(x, v, w) /\ Congruent(y, s, w) /\ w \in Int /\ v \in Int
  BY <1>1, <1>2, CongruentMod
<1>4. Congruent(x * y, v * s, w)
  BY <1>3, CongruentTimes, Zenon
<1>5. PICK q \in Int : q = x * y
  OBVIOUS
<1>6. Unscaled(q, r, w) \in 0..(w-1) /\ Congruent(Unscaled(q, r, w) * r, q, w)
  BY UnscaledFacts
<1>7. PICK p \in Int : p = Unscaled(q, r, w)
  BY <1>6
<1>8. Congruent(p * r, v * s, w)
  <2>1. p * r \in Int /\ v * s \in Int
    OBVIOUS
  <2>2. Congruent(p * r, q, w) /\ Congruent(q, v * s, w)
    BY <1>4, <1>5, <1>6, <1>7
  <2>3. QED
    BY <2>1, <2>2, <1>3, CongruentTrans, Zenon
<1>9. v * s = (v * r) * r
  BY <1>2
<1>10. Unscaled(p, r, w) = v % w
  BY <1>3, <1>8, <1>9, OutOfDomain
<1>11. QED
  BY <1>1, <1>5, <1>7, <1>10

(* A product of arrays stands for the product of what they stand for.      *)
LEMMA ProductInDomain ==
  ASSUME NEW w \in Nat \ {0}, NEW r \in Nat \ {0}, Bezout(r, w), NEW u \in Int, NEW v \in Int,
         NEW q \in Int, Congruent(q, u * v, w)
  PROVE  Unscaled(Unscaled(q, r, w), r, w) = (Unscaled(u, r, w) * Unscaled(v, r, w)) % w
<1>1. PICK a \in Int, b \in Int, p \in Int :
        a = Unscaled(u, r, w) /\ b = Unscaled(v, r, w) /\ p = Unscaled(q, r, w)
  <2>1. \A x \in Int : Unscaled(x, r, w) \in 0..(w-1)
    BY UnscaledFacts
  <2>2. \A z \in 0..(w-1) : z \in Int
    OBVIOUS
  <2>3. Unscaled(u, r, w) \in Int /\ Unscaled(v, r, w) \in Int /\ Unscaled(q, r, w) \in Int
    BY <2>1, <2>2
  <2>4. QED
    BY <2>3, Zenon
<1>2. Congruent(a * r, u, w) /\ Congruent(b * r, v, w) /\ Congruent(p * r, q, w)
  BY <1>1, UnscaledFacts
<1>3. w \in Int /\ a * r \in Int /\ b * r \in Int /\ p * r \in Int /\ u * v \in Int
  OBVIOUS
<1>4. Congruent((a * r) * (b * r), u * v, w)
  BY <1>2, <1>3, CongruentTimes, Zenon
<1>5. (a * r) * (b * r) = ((a * b) * r) * r /\ (a * r) * (b * r) \in Int
  OBVIOUS
<1>6. Congruent(u * v, (a * r) * (b * r), w)
  BY <1>3, <1>4, <1>5, CongruentSym, Zenon
<1>7. Congruent(p * r, u * v, w)
  BY <1>2, <1>3, CongruentTrans, Zenon
<1>8. Congruent(p * r, ((a * b) * r) * r, w)
  <2>1. Congruent(p * r, (a * r) * (b * r), w)
    BY <1>3, <1>5, <1>6, <1>7, CongruentTrans, Zenon
  <2>2. QED
    BY <2>1, <1>5
<1>9. a * b \in Int
  OBVIOUS
<1>10. Unscaled(p, r, w) = (a * b) % w
  BY <1>8, <1>9, OutOfDomain
<1>11. QED
  BY <1>1, <1>10

(* from_mont: a product with 1 undoes the scaling.                         *)
LEMMA OutOfMont ==
  ASSUME NEW w \in Nat \ {0}, NEW r \in Nat \ {0}, Bezout(r, w), NEW v \in Nat
  PROVE  Unscaled((v % w) * 1, r, w) = Unscaled(v, r, w)
<1>1. PICK x \in Int : x = v % w /\ x = (v % w) * 1
  OBVIOUS
<1>2. PICK p \in 0..(w-1) : p = Unscaled(x, r, w) /\ Congruent(p * r, x, w)
  BY UnscaledFacts
<1>3. Congruent(x, v, w) /\ w \in Int /\ v \in Int /\ p * r \in Int
  BY <1>1, CongruentMod
<1>4. Congruent(p * r, v, w)
  BY <1>2, <1>3, CongruentTrans, Zenon
<1>5. Unscaled(v, r, w) = p
  BY <1>3, <1>4, UnscaledIs
<1>6. QED
  BY <1>1, <1>2, <1>5

(* one_mont: R reduced stands for 1.                                       *)
LEMMA OneInDomain ==
  ASSUME NEW w \in Nat \ {0}, w >= 3, NEW r \in Nat \ {0}, Bezout(r, w)
  PROVE  Unscaled(r % w, r, w) = 1
<1>1. PICK x \in Int : x = r % w
  OBVIOUS
<1>2. Congruent(x, 1 * r, w)
  <2>1. 1 * r = r /\ r \in Int
    OBVIOUS
  <2>2. QED
    BY <1>1, <2>1, CongruentMod
<1>3. 1 \in Int /\ 1 % w = 1
  OBVIOUS
<1>4. Unscaled(x, r, w) = 1 % w
  BY <1>2, <1>3, UnscaledScaled
<1>5. QED
  BY <1>1, <1>3, <1>4

(* What a buffer stood for when the call began.                            *)
Held == [x \in Bufs |-> CHOOSE r \in 0..(N-1) : (r * R - Value(entry[x])) % N = 0]

LEMMA HeldIs == \A x \in Bufs : Held[x] = Unscaled(Value(entry[x]), R, N)
BY DEF Held, Unscaled

(* Back in the ring, it is the number in the buffer.                       *)
LEMMA HeldValue ==
  ASSUME ApiInv, NEW x \in Bufs
  PROVE  /\ Held[x] \in 0..(N-1) /\ Value(entry[x]) \in Nat
         /\ (Held[x] * R) % N = Value(entry[x])
<1>1. PICK w \in Nat \ {0}, r \in Nat \ {0} : w = N /\ r = R /\ Bezout(r, w)
  BY ContextFacts DEF ApiInv, ApiTypeOK
<1>2. PICK v \in Nat : v = Value(entry[x]) /\ v < w
  <2>1. Value(entry[x]) \in Nat
    BY OperandSum DEF ApiInv, ApiTypeOK
  <2>2. Value(entry[x]) < N
    BY DEF ApiInv, EntryReduced
  <2>3. QED
    BY <1>1, <2>1, <2>2
<1>3. PICK z \in 0..(w-1) : z = Unscaled(v, r, w) /\ Congruent(z * r, v, w)
  <2>1. v \in Int
    OBVIOUS
  <2>2. Unscaled(v, r, w) \in 0..(w-1) /\ Congruent(Unscaled(v, r, w) * r, v, w)
    BY <1>1, <2>1, UnscaledFacts
  <2>3. QED
    BY <2>2, Zenon
<1>4. (z * r) % w = v % w
  <2>1. z * r \in Int /\ v \in Int
    OBVIOUS
  <2>2. QED
    BY <2>1, <1>3, CongruentEqual
<1>5. v % w = v
  BY <1>2
<1>6. QED
  BY <1>1, <1>2, <1>3, <1>4, <1>5, HeldIs

LEMMA RingEnd ==
  ASSUME call # Ring!NoCall, Held' = Ring!ValAfter, answer' = Ring!AnswerAfter,
         call' = Ring!NoCall, N' = N
  PROVE  Ring!End
BY DEF Ring!End, Held

LEMMA RingStutter ==
  ASSUME N' = N, entry' = entry, call' = call, answer' = answer
  PROVE  UNCHANGED Ring!vars
BY DEF Ring!vars

(* A conversion or a product replaces what one buffer stands for.          *)
LEMMA HeldAfterWrite ==
  ASSUME ApiInv, call.op \notin {"select", "cswap"}, call.out \in Bufs,
         NEW limbs \in Limbs, Write(limbs)
  PROVE  /\ Held' = [Held EXCEPT ![call.out] = Unscaled(Value(limbs), R, N)]
         /\ answer' = Ring!NoAnswer /\ call' = Ring!NoCall /\ N' = N
<1>1. mem = entry
  BY Unchanged
<1>2. entry' = [entry EXCEPT ![call.out] = limbs] /\ N' = N
  BY <1>1 DEF Write, Return
<1>3. entry \in [Bufs -> Limbs]
  BY DEF ApiInv, ApiTypeOK
<1>4. \A x \in Bufs : entry'[x] = IF x = call.out THEN limbs ELSE entry[x]
  BY <1>2, <1>3
<1>5. Held' = [x \in Bufs |-> Unscaled(Value(entry'[x]), R, N)]
  BY <1>2 DEF Held, Unscaled
<1>6. Held = [x \in Bufs |-> Unscaled(Value(entry[x]), R, N)]
  BY DEF Held, Unscaled
<1>7. [Held EXCEPT ![call.out] = Unscaled(Value(limbs), R, N)]
        = [x \in Bufs |-> Unscaled(Value(entry'[x]), R, N)]
  BY <1>4, <1>6
<1>8. QED
  BY <1>2, <1>5, <1>7 DEF Write, Return

LEMMA SimulatesConvert ==
  ASSUME ApiInv, ToMontgomery \/ MontProduct \/ OneMontgomery \/ MonPro
  PROVE  Ring!End
<1>1. N \in Contexts /\ call \in Ring!Calls \cup {Ring!NoCall} /\ mem \in [Bufs -> Limbs]
  BY DEF ApiInv, ApiTypeOK
<1>2. PICK w \in Nat \ {0}, r \in Nat \ {0} : w = N /\ r = R /\ Bezout(r, w) /\ w >= 3
  BY <1>1, ContextFacts
<1>3. CASE ToMontgomery
  <2>1. /\ call.op = "to_montgomery" /\ call.num \in Nat /\ call.out \in Bufs
        /\ call # Ring!NoCall
    BY <1>1, <1>3, CallFields DEF ToMontgomery
  <2>2. PICK x \in Limbs, y \in Limbs : x = Operand(call.num) /\ Value(x) < N /\ y = R2
    BY <1>1, <2>1, OperandIs, ConstantsAre
  <2>3. Value(x) = call.num % w /\ Value(y) = (r * r) % w
    BY <1>1, <1>2, <2>1, <2>2, OperandIs, ConstantsAre
  <2>4. PICK p \in Limbs : p = Product(x, y) /\ Value(p) = Unscaled(Value(x) * Value(y), r, w)
    BY <1>1, <1>2, <2>2, ProductIs
  <2>5. Unscaled(Value(p), r, w) = call.num % w
    <3>1. PICK c \in Nat : c = call.num
      BY <2>1
    <3>2. Unscaled(Unscaled((c % w) * ((r * r) % w), r, w), r, w) = c % w
      BY <1>2, IntoDomain
    <3>3. Value(p) = Unscaled((c % w) * ((r * r) % w), r, w)
      BY <2>3, <2>4, <3>1, Zenon
    <3>4. QED
      BY <3>1, <3>2, <3>3
  <2>6. Write(p)
    BY <1>3, <2>2, <2>4 DEF ToMontgomery
  <2>7. /\ Held' = [Held EXCEPT ![call.out] = call.num % N]
        /\ answer' = Ring!NoAnswer /\ call' = Ring!NoCall /\ N' = N
    BY <1>2, <2>1, <2>5, <2>6, HeldAfterWrite
  <2>8. Ring!ValAfter = [Held EXCEPT ![call.out] = call.num % N]
    BY <2>1 DEF Ring!ValAfter, Ring!Put, Held
  <2>9. Ring!AnswerAfter = Ring!NoAnswer
    BY <2>1 DEF Ring!AnswerAfter
  <2>10. QED
    BY <2>1, <2>7, <2>8, <2>9, RingEnd
<1>4. CASE MontProduct
  <2>1. /\ call.op = "mont_product" /\ call.num \in Nat /\ call.num2 \in Nat
        /\ call.out \in Bufs /\ call # Ring!NoCall
    BY <1>1, <1>4, CallFields DEF MontProduct
  <2>2. PICK x \in Limbs, y \in Limbs :
          x = Operand(call.num) /\ Value(x) < N /\ y = Operand(call.num2)
    BY <1>1, <2>1, OperandIs
  <2>3. Value(x) = call.num % w /\ Value(y) = call.num2 % w
    BY <1>1, <1>2, <2>1, <2>2, OperandIs
  <2>4. PICK p \in Limbs : p = Product(x, y) /\ Value(p) = Unscaled(Value(x) * Value(y), r, w)
    BY <1>1, <1>2, <2>2, ProductIs
  <2>5. Unscaled(Value(p), r, w)
          = (Unscaled(call.num, r, w) * Unscaled(call.num2, r, w)) % w
    <3>1. PICK u \in Int, v \in Int : u = call.num /\ v = call.num2
      BY <2>1
    <3>2. Value(x) \in Int /\ Value(y) \in Int /\ w \in Int
      BY <2>3, <3>1, <1>2
    <3>3. Congruent(Value(x), u, w) /\ Congruent(Value(y), v, w)
      BY <2>3, <3>1, CongruentMod
    <3>4. PICK q \in Int : q = Value(x) * Value(y)
      BY <3>2
    <3>5. Congruent(q, u * v, w)
      BY <3>2, <3>3, <3>4, CongruentTimes
    <3>6. Unscaled(Unscaled(q, r, w), r, w) = (Unscaled(u, r, w) * Unscaled(v, r, w)) % w
      BY <1>2, <3>5, ProductInDomain
    <3>7. QED
      BY <2>4, <3>1, <3>4, <3>6
  <2>6. Write(p)
    BY <1>4, <2>2, <2>4 DEF MontProduct
  <2>7. /\ Held' = [Held EXCEPT ![call.out] =
                      (Unscaled(call.num, R, N) * Unscaled(call.num2, R, N)) % N]
        /\ answer' = Ring!NoAnswer /\ call' = Ring!NoCall /\ N' = N
    BY <1>2, <2>1, <2>5, <2>6, HeldAfterWrite
  <2>8. Ring!ValAfter = [Held EXCEPT ![call.out] =
                           (Unscaled(call.num, R, N) * Unscaled(call.num2, R, N)) % N]
    BY <2>1 DEF Ring!ValAfter, Ring!Put, Ring!Outside, Held, Unscaled
  <2>9. Ring!AnswerAfter = Ring!NoAnswer
    BY <2>1 DEF Ring!AnswerAfter
  <2>10. QED
    BY <2>1, <2>7, <2>8, <2>9, RingEnd
<1>5. CASE OneMontgomery
  <2>1. call.op = "one_mont" /\ call.out \in Bufs /\ call # Ring!NoCall
    BY <1>1, <1>5, CallFields DEF OneMontgomery
  <2>2. PICK p \in Limbs : p = OneMont /\ Value(p) = r % w
    BY <1>1, <1>2, ConstantsAre
  <2>3. Unscaled(Value(p), r, w) = 1
    BY <1>2, <2>2, OneInDomain
  <2>4. Write(p)
    BY <1>5, <2>2 DEF OneMontgomery
  <2>5. /\ Held' = [Held EXCEPT ![call.out] = 1]
        /\ answer' = Ring!NoAnswer /\ call' = Ring!NoCall /\ N' = N
    BY <1>2, <2>1, <2>3, <2>4, HeldAfterWrite
  <2>6. Ring!ValAfter = [Held EXCEPT ![call.out] = 1]
    BY <2>1 DEF Ring!ValAfter, Ring!Put, Held
  <2>7. Ring!AnswerAfter = Ring!NoAnswer
    BY <2>1 DEF Ring!AnswerAfter
  <2>8. QED
    BY <2>1, <2>5, <2>6, <2>7, RingEnd
<1>6. CASE MonPro
  <2>1. /\ call.op = "monpro" /\ call.a \in Bufs /\ call.b \in Bufs /\ call.out \in Bufs
        /\ call # Ring!NoCall
    BY <1>1, <1>6, CallFields DEF MonPro
  <2>2. PICK x \in Limbs, y \in Limbs : x = mem[call.a] /\ Value(x) < N /\ y = mem[call.b]
    BY <1>1, <2>1, LoopDone
  <2>3. x = entry[call.a] /\ y = entry[call.b]
    BY <2>1, <2>2, Unchanged
  <2>4. PICK p \in Limbs : p = Product(x, y) /\ Value(p) = Unscaled(Value(x) * Value(y), r, w)
    BY <1>1, <1>2, <2>2, ProductIs
  <2>5. Unscaled(Value(p), r, w) = (Held[call.a] * Held[call.b]) % w
    <3>1. PICK u \in Int, v \in Int : u = Value(x) /\ v = Value(y)
      <4>1. Value(x) \in Nat /\ Value(y) \in Nat
        BY OperandSum
      <4>2. QED
        BY <4>1
    <3>2. PICK q \in Int : q = u * v
      OBVIOUS
    <3>3. Congruent(q, u * v, w) /\ w \in Int
      BY <3>2, CongruentRefl
    <3>4. Unscaled(Unscaled(q, r, w), r, w) = (Unscaled(u, r, w) * Unscaled(v, r, w)) % w
      BY <1>2, <3>3, ProductInDomain
    <3>5. Held[call.a] = Unscaled(u, r, w) /\ Held[call.b] = Unscaled(v, r, w)
      BY <1>2, <2>1, <2>3, <3>1, HeldIs
    <3>6. QED
      BY <2>4, <3>1, <3>2, <3>4, <3>5
  <2>6. Write(p)
    BY <1>6, <2>2, <2>4 DEF MonPro
  <2>7. /\ Held' = [Held EXCEPT ![call.out] = (Held[call.a] * Held[call.b]) % N]
        /\ answer' = Ring!NoAnswer /\ call' = Ring!NoCall /\ N' = N
    BY <1>2, <2>1, <2>5, <2>6, HeldAfterWrite
  <2>8. Ring!ValAfter = [Held EXCEPT ![call.out] = (Held[call.a] * Held[call.b]) % N]
    BY <2>1 DEF Ring!ValAfter, Ring!Put, Held
  <2>9. Ring!AnswerAfter = Ring!NoAnswer
    BY <2>1 DEF Ring!AnswerAfter
  <2>10. QED
    BY <2>1, <2>7, <2>8, <2>9, RingEnd
<1>7. QED
  BY <1>3, <1>4, <1>5, <1>6

(* The other calls write no buffer, or exchange what they hold.            *)
LEMMA HeldAfterArrays ==
  ASSUME ApiInv, j = S \/ call.op \notin {"select", "cswap"}, NEW result, Return(mem, result)
  PROVE  /\ Held' = [x \in Bufs |-> Held[Source(x)]]
         /\ answer' = result /\ call' = Ring!NoCall /\ N' = N
<1>1. entry' = mem /\ N' = N /\ answer' = result /\ call' = Ring!NoCall
  BY DEF Return
<1>2. Held' = [x \in Bufs |-> Unscaled(Value(mem[x]), R, N)]
  BY <1>1 DEF Held, Unscaled
<1>3. \A x \in Bufs : Unscaled(Value(mem[x]), R, N) = Held[Source(x)]
  <2> SUFFICES ASSUME NEW x \in Bufs
               PROVE  Unscaled(Value(mem[x]), R, N) = Held[Source(x)]
    OBVIOUS
  <2>1. Source(x) \in Bufs
    BY SourceIsBuffer DEF ApiInv
  <2>2. mem[x] = entry[Source(x)]
    BY LoopDone
  <2>3. QED
    BY <2>1, <2>2, HeldIs
<1>4. QED
  BY <1>1, <1>2, <1>3

LEMMA SimulatesFromMontgomery ==
  ASSUME ApiInv, FromMontgomery
  PROVE  Ring!End
<1>1. N \in Contexts /\ call \in Ring!Calls \cup {Ring!NoCall}
  BY DEF ApiInv, ApiTypeOK
<1>2. call.op = "from_montgomery" /\ call.num \in Nat /\ call # Ring!NoCall
  BY <1>1, CallFields DEF FromMontgomery
<1>3. PICK w \in Nat \ {0}, r \in Nat \ {0} : w = N /\ r = R /\ Bezout(r, w)
  BY <1>1, ContextFacts
<1>4. PICK x \in Limbs, y \in Limbs : x = Operand(call.num) /\ Value(x) < N /\ y = One
  BY <1>1, <1>2, OperandIs, ConstantsAre
<1>5. Value(x) = call.num % w /\ Value(y) = 1
  BY <1>1, <1>2, <1>3, <1>4, OperandIs, ConstantsAre
<1>6. Value(Product(x, y)) = Unscaled((call.num % w) * 1, r, w)
  BY <1>1, <1>3, <1>4, <1>5, ProductIs
<1>7. Value(Product(x, y)) = Unscaled(call.num, R, N)
  BY <1>2, <1>3, <1>6, OutOfMont
<1> DEFINE result == Ring!Number(Value(Product(x, y)))
<1>8. Return(mem, result)
  BY <1>4 DEF FromMontgomery
<1>9. result = Ring!Number(Unscaled(call.num, R, N))
  BY <1>7
<1> HIDE DEF result
<1>10. /\ Held' = [z \in Bufs |-> Held[Source(z)]]
       /\ answer' = result /\ call' = Ring!NoCall /\ N' = N
  BY <1>2, <1>8, HeldAfterArrays
<1>11. \A z \in Bufs : Source(z) = z
  BY <1>2, SourceIsBuffer DEF ApiInv
<1>12. Held' = Held
  BY <1>10, <1>11 DEF Held
<1>13. Ring!ValAfter = Held
  BY <1>2 DEF Ring!ValAfter, Held
<1>14. Ring!AnswerAfter = Ring!Number(Unscaled(call.num, R, N))
  BY <1>2 DEF Ring!AnswerAfter, Ring!Outside, Unscaled
<1>15. QED
  BY <1>2, <1>9, <1>10, <1>12, <1>13, <1>14, RingEnd

LEMMA SimulatesArrayReturn ==
  ASSUME ApiInv, ArrayReturn
  PROVE  Ring!End
<1>1. call.op \in {"select", "cswap"} /\ j = S
  BY DEF ArrayReturn
<1>2. /\ call.a \in Bufs /\ call.b \in Bufs /\ call.bit \in {0, 1} /\ call # Ring!NoCall
      /\ call.op = "select" => call.out \in Bufs
  BY <1>1, CallFields DEF ApiInv, ApiTypeOK
<1>3. Return(mem, Ring!NoAnswer)
  BY DEF ArrayReturn
<1>4. /\ Held' = [x \in Bufs |-> Held[Source(x)]]
      /\ answer' = Ring!NoAnswer /\ call' = Ring!NoCall /\ N' = N
  BY <1>1, <1>3, HeldAfterArrays
<1>5. Ring!AnswerAfter = Ring!NoAnswer
  BY <1>1 DEF Ring!AnswerAfter
<1>6. DOMAIN Held = Bufs
  BY DEF Held
<1>7. Ring!ValAfter = [x \in Bufs |-> Held[Source(x)]]
  <2>0. Held = [x \in Bufs |-> Held[x]]
    BY DEF Held
  <2>1. CASE call.op = "select"
    <3>1. Ring!ValAfter =
            [Held EXCEPT ![call.out] = IF call.bit = 1 THEN Held[call.a] ELSE Held[call.b]]
      BY <2>1 DEF Ring!ValAfter, Ring!Put, Held
    <3>2. \A x \in Bufs : Source(x) =
            IF x = call.out THEN IF call.bit = 1 THEN call.a ELSE call.b ELSE x
      BY <2>1 DEF Source
    <3>3. QED
      BY <1>2, <2>0, <2>1, <3>1, <3>2
  <2>2. CASE call.op = "cswap" /\ call.bit = 1
    <3>1. Ring!ValAfter =
            [Held EXCEPT ![call.a] = Held[call.b], ![call.b] = Held[call.a]]
      BY <2>2 DEF Ring!ValAfter, Held
    <3>2. \A x \in Bufs : Source(x) =
            IF x = call.a THEN call.b ELSE IF x = call.b THEN call.a ELSE x
      BY <2>2 DEF Source
    <3>3. QED
      BY <1>2, <2>0, <2>2, <3>1, <3>2
  <2>3. CASE call.op = "cswap" /\ call.bit # 1
    <3>1. Ring!ValAfter = Held
      BY <2>3 DEF Ring!ValAfter, Held
    <3>2. \A x \in Bufs : Source(x) = x
      BY <2>3 DEF Source
    <3>3. QED
      BY <2>0, <3>1, <3>2
  <2>4. QED
    BY <1>1, <2>1, <2>2, <2>3
<1>8. QED
  BY <1>2, <1>4, <1>5, <1>7, RingEnd

LEMMA SimulatesCompareReturn ==
  ASSUME ApiInv, CompareReturn
  PROVE  Ring!End
<1>1. call.op \in {"geq", "equal"} /\ j = S
  BY DEF CompareReturn
<1>2. call.a \in Bufs /\ call.b \in Bufs /\ call # Ring!NoCall
  BY <1>1, CallFields DEF ApiInv, ApiTypeOK
<1>3. Return(mem, Ring!Truth(Verdict = True))
  BY DEF CompareReturn
<1> DEFINE result == Ring!Truth(Verdict = True)
<1>4. /\ Held' = [x \in Bufs |-> Held[Source(x)]]
      /\ answer' = result /\ call' = Ring!NoCall /\ N' = N
  <2>1. Return(mem, result)
    BY <1>3
  <2> HIDE DEF result
  <2>2. QED
    BY <1>1, <2>1, HeldAfterArrays
<1>5. Held' = Held
  <2>1. \A x \in Bufs : Source(x) = x
    BY <1>1, SourceIsBuffer DEF ApiInv
  <2>2. QED
    BY <1>4, <2>1 DEF Held
<1>6. Ring!ValAfter = Held
  BY <1>1 DEF Ring!ValAfter, Held
<1>7. PICK u \in Nat, v \in Nat : u = Value(entry[call.a]) /\ v = Value(entry[call.b])
  BY <1>2, HeldValue
<1>8. Low(mem[call.a]) = u /\ Low(mem[call.b]) = v
  BY <1>1, <1>7, Unchanged DEF Low, Value
<1>9. (Held[call.a] * R) % N = u /\ (Held[call.b] * R) % N = v
  BY <1>2, <1>7, HeldValue
<1>10. True # False
  BY Masks
<1>11. Ring!AnswerAfter = result
  <2>1. CASE call.op = "geq"
    <3>1. Verdict = True <=> u >= v
      <4>1. borrow \in {0, 1} /\ (borrow = 1 <=> u < v)
        BY <2>1, <1>8 DEF ApiInv, ApiTypeOK, Compared
      <4>2. Verdict = IF borrow = 1 THEN False ELSE True
        BY <2>1, <4>1, GeqVerdict DEF Verdict
      <4>3. QED
        BY <4>1, <4>2, <1>10
    <3>2. Ring!AnswerAfter = Ring!Truth((Held[call.a] * R) % N >= (Held[call.b] * R) % N)
      BY <2>1 DEF Ring!AnswerAfter, Ring!Inside, Held
    <3>3. Ring!AnswerAfter = Ring!Truth(u >= v)
      BY <3>2, <1>9
    <3>4. QED
      BY <3>1, <3>3 DEF Ring!Truth
  <2>2. CASE call.op = "equal"
    <3>1. Verdict = True <=> u = v
      BY <2>2, <1>8 DEF ApiInv, Compared
    <3>2. u = v <=> Held[call.a] = Held[call.b]
      <4>1. Held[call.a] = Unscaled(u, R, N) /\ Held[call.b] = Unscaled(v, R, N)
        BY <1>2, <1>7, HeldIs
      <4>2. QED
        BY <4>1, <1>9
    <3>3. Ring!AnswerAfter = Ring!Truth(Held[call.a] = Held[call.b])
      BY <2>2 DEF Ring!AnswerAfter, Held
    <3>4. QED
      BY <3>1, <3>2, <3>3 DEF Ring!Truth
  <2>3. QED
    BY <1>1, <2>1, <2>2
<1> HIDE DEF result
<1>12. QED
  BY <1>2, <1>4, <1>5, <1>6, <1>11, RingEnd

LEMMA SimulatesStep ==
  ASSUME ApiInv, [ApiNext]_apiVars
  PROVE  [Ring!Next]_(Ring!vars)
<1>1. ASSUME NEW c \in Ring!Calls, Begin(c) PROVE Ring!Begin
  BY <1>1 DEF Begin, Ring!Begin
<1>2. CASE ToMontgomery \/ MontProduct \/ OneMontgomery \/ MonPro
  BY <1>2, SimulatesConvert DEF Ring!Next
<1>3. CASE FromMontgomery
  BY <1>3, SimulatesFromMontgomery DEF Ring!Next
<1>4. CASE SelectLimb \/ CswapLimb \/ GeqLimb \/ EqualLimb \/ UNCHANGED apiVars
  BY <1>4, RingStutter DEF SelectLimb, CswapLimb, GeqLimb, EqualLimb, apiVars
<1>5. CASE ArrayReturn
  BY <1>5, SimulatesArrayReturn DEF Ring!Next
<1>6. CASE CompareReturn
  BY <1>6, SimulatesCompareReturn DEF Ring!Next
<1>7. QED
  BY <1>1, <1>2, <1>3, <1>4, <1>5, <1>6 DEF ApiNext, ApiStep, Ring!Next

LEMMA SimulatesInit ==
  ASSUME ApiInit
  PROVE  Ring!Init
<1>1. N \in Contexts /\ N >= 3 /\ N % 2 = 1
  BY ContextFacts DEF ApiInit
<1>2. ApiInv
  BY ApiInitInv
<1>3. Held \in [Bufs -> 0..(N-1)]
  BY <1>2, HeldValue DEF Held
<1>4. QED
  BY <1>1, <1>3 DEF ApiInit, Ring!Init, Held

(* Whatever a client calls, on whatever buffers, it computes with residues *)
(* modulo N what it computes on limbs: the conversions multiply by R and   *)
(* R^-1, a product is a product, a swap exchanges, and the masks decide as *)
(* the residues do (montgomery.cpp:99-127, ct.hpp:47-83).                  *)
THEOREM ApiRefinement == ApiSpec => RingSpec
<1>1. ApiInit => Ring!Init
  BY SimulatesInit
<1>2. ApiInv /\ [ApiNext]_apiVars => [Ring!Next]_(Ring!vars)
  BY SimulatesStep
<1>3. QED
  BY <1>1, <1>2, ApiInductive, PTL DEF ApiSpec, RingSpec, Ring!Spec
=============================================================================
